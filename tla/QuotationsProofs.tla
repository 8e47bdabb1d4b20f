--------------------------- MODULE QuotationsProofs ---------------------------
(***************************************************************************)
(* Quotations for every number of quotations, requests, keys, days, edits  *)
(* and faults: the types, the life cycle, whose file a snapshot is, and    *)
(* that a change of status is announced once.                              *)
(***************************************************************************)
EXTENDS Quotations, TLAPS

\* A request in progress names a quotation, which exists when requireDraft has
\* seen it; it holds a key only from the upload on, when it is to send.
RequestSound(x) ==
    /\ x.at # "idle" => x.quotation \in Quotations
    /\ x.at \in {"put", "commit", "publish", "cleanup"} => x.op \in Actions
    /\ x.at = "put" => x.op = "send"
    /\ x.at \notin {"commit", "publish", "cleanup"} => x.key = NoKey
    /\ x.at \in {"commit", "publish"} => (x.op = "send" <=> x.key # NoKey)
    /\ x.at = "cleanup" => x.key # NoKey
    /\ x.at # "expire" => x.expired = {}

RequestsSound ==
    \A r \in Requests :
        /\ RequestSound(request[r])
        /\ request[r].at \in {"update", "archive"}
               => quotation[request[r].quotation].status # "absent"

\* Only a quotation that exists is ever archived.
ArchivedExists ==
    \A q \in Quotations : quotation[q].archived => quotation[q].status # "absent"

\* A file that a request holds is stored, and is held by no other request.
FilesHeld ==
    \A r \in Requests :
        request[r].key # NoKey =>
            /\ storage[request[r].key].file = "stored"
            /\ \A other \in Requests \ {r} : request[other].key # request[r].key

\* A snapshot was written; it belongs to the request that is to publish it
\* and to none that is to remove it, unless a publication failed.
SnapshotsOwned ==
    /\ \A q \in Quotations :
          quotation[q].key # NoKey => storage[quotation[q].key].file # "unused"
    /\ \A r \in Requests :
          LET mine == {q \in Quotations : request[r].key # NoKey
                                              /\ quotation[q].key = request[r].key}
          IN  /\ request[r].at = "commit" => mine = {}
              /\ request[r].at = "cleanup" /\ "publish" \notin env.kinds => mine = {}
              /\ request[r].at = "publish" /\ request[r].key # NoKey
                    => request[r].quotation \in mine

\* The quotation has, or had, the status.
Reached(q, status) ==
    /\ status \in {"SENT", "ACCEPTED", "REJECTED", "EXPIRED"}
    /\ \/ quotation[q].status = status
       \/ status = "SENT" /\ quotation[q].status \in {"ACCEPTED", "REJECTED", "EXPIRED"}

\* The request is to announce that the quotation has the status.
IsToAnnounce(r, q, status) ==
    \/ /\ request[r].at = "publish"
       /\ request[r].quotation = q /\ NewStatus[request[r].op] = status
    \/ /\ request[r].at = "expire"
       /\ q \in request[r].expired /\ status = "EXPIRED"

\* Whoever is to announce a change is the only one, the change was made, and
\* it was not announced before; what was announced happened.
AnnouncersAlone ==
    /\ \A q \in Quotations, status \in Statuses :
          /\ BagIn(<<q, status>>, published) => Reached(q, status)
          /\ \A r \in Requests :
                IsToAnnounce(r, q, status) =>
                    /\ Reached(q, status)
                    /\ ~BagIn(<<q, status>>, published)
                    /\ \A other \in Requests \ {r} : ~IsToAnnounce(other, q, status)

IInv ==
    /\ TypeOK
    /\ RequestsSound /\ ArchivedExists
    /\ FilesHeld /\ SnapshotsOwned /\ NoOrphanFiles
    /\ AnnouncersAlone /\ AnnouncedOnce

RequestRecords ==
    [at : {"idle", "update", "archive", "expire", "read", "put", "commit",
           "publish", "cleanup"},
     op : Actions \cup {"none", "view"}, quotation : Quotations \cup {NoQuotation},
     version : 0..MaxVersion, key : Keys \cup {NoKey},
     due : SUBSET Quotations, expired : SUBSET Quotations]

QuotationRecords ==
    [status : Statuses, archived : BOOLEAN, version : 0..MaxVersion,
     expiry : Dates, key : Keys \cup {NoKey}]

FileRecords == [file : {"unused", "stored", "deleted"}, version : 0..MaxVersion]

KeysFollowStatus ==
    \A q \in Quotations :
        quotation[q].key = NoKey <=> quotation[q].status \in {"absent", "DRAFT"}

PublishedTyped == IsABag(published) /\ BagToSet(published) \subseteq Quotations \X Statuses

EnvironmentSound == env \in EnvironmentRecords /\ env.faults <= env.maxFaults

\* The type invariant, variable by variable.
LEMMA TypesOfVariables ==
    TypeOK <=>
        /\ quotation \in [Quotations -> QuotationRecords] /\ KeysFollowStatus
        /\ storage \in [Keys -> FileRecords]
        /\ request \in [Requests -> RequestRecords]
        /\ version \in 0..MaxVersion /\ today \in 0..MaxDay
        /\ PublishedTyped /\ EnvironmentSound
BY DEF TypeOK, QuotationRecords, KeysFollowStatus, FileRecords, RequestRecords,
       PublishedTyped, EnvironmentSound

LEMMA FreeSound == Free \in RequestRecords /\ RequestSound(Free)
BY QuotationAssumption DEF QuotationAssumption, Free, RequestRecords, RequestSound

-----------------------------------------------------------------------------
(* Initial states *)

LEMMA InitIInv == Init => IInv
<1> SUFFICES ASSUME Init PROVE IInv
  OBVIOUS
<1>1. IsABag(EmptyBag) /\ BagToSet(EmptyBag) = {}
  BY DEF IsABag, BagToSet, SetToBag, EmptyBag
<1>2. env \in EnvironmentRecords /\ env.faults = 0 /\ env.maxFaults \in Nat
  BY QuotationAssumption DEF Init, QuotationAssumption, EnvironmentRecords
<1>3. \A r \in Requests : request[r] = Free
  BY DEF Init
<1>4. \A q \in Quotations :
          /\ quotation[q].status = "absent" /\ quotation[q].key = NoKey
          /\ quotation[q].archived = FALSE
  BY DEF Init
<1>5. TypeOK
  <2>1. quotation \in [Quotations -> QuotationRecords]
    BY QuotationAssumption DEF Init, QuotationAssumption, QuotationRecords, Statuses, Dates
  <2>2. storage \in [Keys -> FileRecords]
    BY QuotationAssumption DEF Init, QuotationAssumption, FileRecords
  <2>3. request \in [Requests -> RequestRecords]
    BY FreeSound DEF Init
  <2>4. version \in 0..MaxVersion /\ today \in 0..MaxDay
    BY QuotationAssumption DEF Init, QuotationAssumption
  <2>5. KeysFollowStatus
    BY <1>4 DEF KeysFollowStatus
  <2>6. PublishedTyped
    BY <1>1 DEF Init, PublishedTyped
  <2> QED
    BY <1>2, <2>1, <2>2, <2>3, <2>4, <2>5, <2>6, TypesOfVariables DEF EnvironmentSound
<1>6. RequestsSound /\ ArchivedExists
  BY <1>3, <1>4, FreeSound DEF RequestsSound, ArchivedExists, Free
<1>7. FilesHeld /\ SnapshotsOwned
  BY <1>3, <1>4 DEF FilesHeld, SnapshotsOwned, Free
<1>8. NoOrphanFiles
  BY DEF Init, NoOrphanFiles
<1>9. AnnouncersAlone
  BY <1>1, <1>3 DEF Init, AnnouncersAlone, IsToAnnounce, BagIn, Free, BagToSet
<1>10. AnnouncedOnce
  BY <1>1 DEF Init, AnnouncedOnce
<1> QED
  BY <1>5, <1>6, <1>7, <1>8, <1>9, <1>10 DEF IInv

-----------------------------------------------------------------------------
(* What a step does to the requests *)

\* Request r goes on as x, and the others stay as they are.
Becomes(r, x) ==
    /\ request' = [request EXCEPT ![r] = x]
    /\ x \in RequestRecords /\ RequestSound(x)

\* A request that ends.
LEMMA FinishBecomes ==
    ASSUME NEW r \in Requests, Finish(r)
    PROVE  Becomes(r, Free)
BY FreeSound DEF Finish, Becomes

\* A request that starts: requireDraft, or the read of expireDue.
LEMMA BeginBecomes ==
    ASSUME TypeOK, NEW r \in Requests, NEW q \in Quotations, Begin(r, q)
    PROVE  \E x : /\ Becomes(r, x) /\ request[r].at = "idle"
                  /\ x.at \in {"update", "archive", "expire", "read"}
                  /\ x.key = NoKey /\ x.expired = {}
                  /\ x.at \in {"update", "archive"} => quotation[x.quotation].status = "DRAFT"
<1>1. ASSUME NEW op \in {"update", "archive"}, RequireDraft(r, q, op)
      PROVE  /\ Becomes(r, [Free EXCEPT !.at = op, !.quotation = q])
             /\ request[r].at = "idle" /\ quotation[q].status = "DRAFT"
  <2> DEFINE x == [Free EXCEPT !.at = op, !.quotation = q]
  <2>1. x \in RequestRecords /\ RequestSound(x)
    BY FreeSound DEF Free, RequestRecords, RequestSound
  <2> QED
    BY <1>1, <2>1 DEF RequireDraft, Becomes
<1>2. ASSUME NEW op \in Actions \cup {"view"}, ExpireRead(r, q, op)
      PROVE  \E x : /\ Becomes(r, x) /\ request[r].at = "idle"
                    /\ x.at \in {"expire", "read"}
                    /\ x.key = NoKey /\ x.expired = {}
  <2> DEFINE due == {d \in Quotations : quotation[d].status = "SENT"
                                          /\ quotation[d].expiry < today}
             x == [Free EXCEPT !.at = IF due = {} THEN "read" ELSE "expire",
                               !.op = op, !.quotation = q, !.due = due]
  <2>1. due \in SUBSET Quotations
    OBVIOUS
  <2>2. request' = [request EXCEPT ![r] = x] /\ request[r].at = "idle"
    BY <1>2 DEF ExpireRead
  <2> HIDE DEF due
  <2>3. x \in RequestRecords /\ RequestSound(x)
    BY FreeSound, <2>1 DEF Free, RequestRecords, RequestSound
  <2>4. x.at \in {"expire", "read"} /\ x.key = NoKey /\ x.expired = {}
    BY DEF Free
  <2> HIDE DEF x
  <2> QED
    BY <2>2, <2>3, <2>4 DEF Becomes
<1>3. CASE \E op \in {"update", "archive"} : RequireDraft(r, q, op)
  <2> PICK op \in {"update", "archive"} : RequireDraft(r, q, op)
    BY <1>3
  <2> DEFINE x == [Free EXCEPT !.at = op, !.quotation = q]
  <2>1. Becomes(r, x) /\ request[r].at = "idle" /\ quotation[q].status = "DRAFT"
    BY <1>1
  <2>2. x.at = op /\ x.quotation = q /\ x.key = NoKey /\ x.expired = {}
    BY DEF Free
  <2> HIDE DEF x
  <2> QED
    BY <2>1, <2>2
<1>4. CASE \E op \in Actions \cup {"view"} : ExpireRead(r, q, op)
  BY <1>2, <1>4
<1> QED
  BY <1>3, <1>4 DEF Begin

\* One answer of expireDue's updates and publications.
LEMMA ExpiringBecomes ==
    ASSUME TypeOK, RequestsSound, NEW r \in Requests, request[r].at = "expire",
           NEW op, op = request[r].op \/ op = "none", NEW due, due \subseteq Quotations,
           NEW expired, expired \subseteq Quotations, Expiring(r, op, due, expired)
    PROVE  /\ Becomes(r, request'[r])
           /\ request'[r].at \in {"idle", "expire", "read"}
           /\ request'[r].key = NoKey
           /\ request'[r].at = "expire" => request'[r].expired = expired
<1>1. /\ request[r] \in RequestRecords /\ RequestSound(request[r])
      /\ request \in [Requests -> RequestRecords]
  BY TypesOfVariables DEF RequestsSound
<1>2. CASE due \cup expired = {} /\ op = "none"
  <2>1. request' = [request EXCEPT ![r] = Free] /\ request'[r] = Free
    BY <1>1, <1>2 DEF Expiring
  <2>2. Free.at = "idle" /\ Free.key = NoKey
    BY DEF Free
  <2> QED
    BY <2>1, <2>2, FreeSound DEF Becomes
<1>3. CASE ~(due \cup expired = {} /\ op = "none")
  <2> DEFINE step == IF due \cup expired = {} THEN "read" ELSE "expire"
             x == [request[r] EXCEPT !.at = step, !.op = op, !.due = due,
                                     !.expired = expired]
  <2>1. request' = [request EXCEPT ![r] = x]
    BY <1>3 DEF Expiring
  <2>2. step \in {"read", "expire"} /\ (step = "read" => expired = {})
    OBVIOUS
  <2> HIDE DEF step
  <2>3. x.at = step /\ x.key = NoKey /\ x.expired = expired
    BY <1>1 DEF RequestRecords, RequestSound
  <2>4. x \in RequestRecords
    BY <1>1, <2>2 DEF RequestRecords
  <2>5. RequestSound(x)
    BY <1>1, <2>2 DEF RequestRecords, RequestSound
  <2> HIDE DEF x
  <2>6. request'[r] = x
    BY <1>1, <2>1
  <2> QED
    BY <2>1, <2>2, <2>3, <2>4, <2>5, <2>6 DEF Becomes
<1> QED
  BY <1>2, <1>3

\* The row is as the transition needs it: its PDF is next, or the transaction.
LEMMA ReadRowBecomes ==
    ASSUME TypeOK, RequestsSound, NEW r \in Requests, ReadRow(r)
    PROVE  \E x : /\ Becomes(r, x) /\ x.at \in {"idle", "put", "commit"}
                  /\ x.key = NoKey /\ x.expired = {}
<1> DEFINE row == quotation[request[r].quotation]
           op == request[r].op
<1>1. request[r] \in RequestRecords /\ RequestSound(request[r]) /\ request[r].at = "read"
  BY TypesOfVariables DEF RequestsSound, ReadRow
<1>2. CASE op \in Actions /\ ~row.archived /\ row.status = Allowed[op]
  <2> DEFINE step == IF op = "send" THEN "put" ELSE "commit"
             x == [request[r] EXCEPT !.at = step, !.version = row.version]
  <2>1. request' = [request EXCEPT ![r] = x]
    BY <1>2 DEF ReadRow
  <2>2. row.version \in 0..MaxVersion
    BY <1>1, TypesOfVariables DEF RequestSound, QuotationRecords
  <2>3. step \in {"put", "commit"} /\ (step = "put" <=> op = "send")
    OBVIOUS
  <2> HIDE DEF step, row
  <2>4. x.at = step /\ x.key = NoKey /\ x.expired = {} /\ x.op = op
    BY <1>1 DEF RequestRecords, RequestSound
  <2>5. x \in RequestRecords
    BY <1>1, <2>2, <2>3 DEF RequestRecords
  <2>6. RequestSound(x)
    BY <1>1, <1>2, <2>3, <2>4 DEF RequestRecords, RequestSound
  <2> HIDE DEF x
  <2> QED
    BY <2>1, <2>3, <2>4, <2>5, <2>6 DEF Becomes
<1>3. CASE ~(op \in Actions /\ ~row.archived /\ row.status = Allowed[op])
  <2>1. Finish(r)
    BY <1>3 DEF ReadRow
  <2> QED
    BY <2>1, FinishBecomes DEF Free
<1> QED
  BY <1>2, <1>3

\* The upload gives the request its key, or fails it.
LEMMA PutBecomes ==
    ASSUME TypeOK, RequestsSound, NEW r \in Requests, Put(r)
    PROVE  \E k \in Keys :
              /\ storage[k].file = "unused"
              /\ \/ /\ Becomes(r, [request[r] EXCEPT !.at = "commit", !.key = k])
                    /\ storage' = Stored(k, request[r].version)
                    /\ UNCHANGED env
                 \/ /\ Becomes(r, Free)
                    /\ storage' \in {storage, Stored(k, request[r].version)}
                    /\ "storage" \in env.kinds /\ Fault("storage")
<1>1. request[r] \in RequestRecords /\ RequestSound(request[r]) /\ request[r].at = "put"
  BY TypesOfVariables DEF RequestsSound, Put
<1>2. PICK k \in Keys :
          /\ storage[k].file = "unused"
          /\ \/ /\ storage' = Stored(k, request[r].version)
                /\ request' = [request EXCEPT ![r].at = "commit", ![r].key = k]
                /\ UNCHANGED env
             \/ /\ Fault("storage")
                /\ storage' \in {storage, Stored(k, request[r].version)}
                /\ Finish(r)
  BY DEF Put
<1> DEFINE x == [request[r] EXCEPT !.at = "commit", !.key = k]
<1>3. x \in RequestRecords
  BY <1>1 DEF RequestRecords
<1>4. RequestSound(x)
  BY <1>1, QuotationAssumption DEF RequestRecords, RequestSound, QuotationAssumption
<1>5. request' = [request EXCEPT ![r].at = "commit", ![r].key = k]
          => request' = [request EXCEPT ![r] = x]
  OBVIOUS
<1> HIDE DEF x
<1>6. request' = [request EXCEPT ![r].at = "commit", ![r].key = k] => Becomes(r, x)
  BY <1>3, <1>4, <1>5 DEF Becomes
<1>7. Fault("storage") => "storage" \in env.kinds
  BY DEF Fault
<1>8. CASE /\ storage' = Stored(k, request[r].version)
           /\ request' = [request EXCEPT ![r].at = "commit", ![r].key = k]
           /\ UNCHANGED env
  BY <1>2, <1>6, <1>8 DEF x
<1>9. CASE /\ Fault("storage")
           /\ storage' \in {storage, Stored(k, request[r].version)}
           /\ Finish(r)
  BY <1>2, <1>7, <1>9, FinishBecomes
<1> QED
  BY <1>2, <1>8, <1>9

\* A request at its transaction or publication that goes on to `step`.
LEMMA GotoBecomes ==
    ASSUME TypeOK, RequestsSound, NEW r \in Requests, NEW step,
           \/ request[r].at = "commit" /\ step = "publish"
           \/ request[r].at \in {"commit", "publish"} /\ step = "cleanup"
              /\ request[r].key # NoKey,
           Goto(r, step)
    PROVE  Becomes(r, [request[r] EXCEPT !.at = step])
<1> DEFINE x == [request[r] EXCEPT !.at = step]
<1>1. request[r] \in RequestRecords /\ RequestSound(request[r])
  BY TypesOfVariables DEF RequestsSound
<1>2. x \in RequestRecords
  BY <1>1 DEF RequestRecords
<1>3. RequestSound(x)
  BY <1>1 DEF RequestRecords, RequestSound
<1> QED
  BY <1>2, <1>3 DEF Goto, Becomes

\* An error after the transaction began: the request ends, or removes its file.
LEMMA CatchBecomes ==
    ASSUME TypeOK, RequestsSound, NEW r \in Requests,
           request[r].at \in {"commit", "publish"}, Catch(r)
    PROVE  \/ request[r].key = NoKey /\ Becomes(r, Free)
           \/ request[r].key # NoKey /\ Becomes(r, [request[r] EXCEPT !.at = "cleanup"])
BY FinishBecomes, GotoBecomes DEF Catch

-----------------------------------------------------------------------------
(* What a step does to the quotations *)

\* What no step takes away from a row: its place in the life cycle, its
\* snapshot, and that only an existing quotation is archived.
RowGoesOn(q) ==
    /\ quotation[q].status # quotation'[q].status =>
          /\ <<quotation[q].status, quotation'[q].status>>
                \in {<<"absent", "DRAFT">>, <<"DRAFT", "SENT">>}
                    \cup {"SENT"} \X {"ACCEPTED", "REJECTED", "EXPIRED"}
          /\ quotation[q].archived => quotation'[q].status = "EXPIRED"
    /\ quotation[q].key # NoKey => quotation'[q].key = quotation[q].key
    /\ quotation'[q].archived => quotation'[q].status # "absent"

RowsGoOn ==
    /\ quotation' \in [Quotations -> QuotationRecords] /\ KeysFollowStatus'
    /\ \A q \in Quotations : RowGoesOn(q)

\* A step that writes one row, and writes it lawfully.
LEMMA OneRowWritten ==
    ASSUME TypeOK, ArchivedExists, NEW q \in Quotations, NEW x \in QuotationRecords,
           quotation' = [quotation EXCEPT ![q] = x],
           x.key = NoKey <=> x.status \in {"absent", "DRAFT"},
           x.archived => x.status # "absent",
           quotation[q].key # NoKey => x.key = quotation[q].key,
           quotation[q].status # x.status =>
               /\ <<quotation[q].status, x.status>>
                     \in {<<"absent", "DRAFT">>, <<"DRAFT", "SENT">>}
                         \cup {"SENT"} \X {"ACCEPTED", "REJECTED", "EXPIRED"}
               /\ quotation[q].archived => x.status = "EXPIRED"
    PROVE  RowsGoOn
<1>1. quotation \in [Quotations -> QuotationRecords] /\ KeysFollowStatus
  BY TypesOfVariables
<1>2. /\ quotation' \in [Quotations -> QuotationRecords]
      /\ quotation'[q] = x
      /\ \A other \in Quotations : other # q => quotation'[other] = quotation[other]
  BY <1>1
<1>3. KeysFollowStatus'
  BY <1>1, <1>2 DEF KeysFollowStatus
<1>4. RowGoesOn(q)
  BY <1>2 DEF RowGoesOn
<1>5. \A other \in Quotations : other # q => RowGoesOn(other)
  BY <1>2 DEF RowGoesOn, ArchivedExists
<1> QED
  BY <1>2, <1>3, <1>4, <1>5 DEF RowsGoOn

\* A step that writes no row.
LEMMA NoRowWritten ==
    ASSUME TypeOK, ArchivedExists, UNCHANGED quotation
    PROVE  RowsGoOn
BY TypesOfVariables DEF ArchivedExists, RowsGoOn, RowGoesOn, KeysFollowStatus

LEMMA CreateRow ==
    ASSUME TypeOK, ArchivedExists, NEW q \in Quotations, Create(q)
    PROVE  RowsGoOn
<1>1. PICK date \in Dates :
          quotation' = [quotation EXCEPT ![q].status = "DRAFT", ![q].expiry = date]
  BY DEF Create
<1>2. /\ quotation \in [Quotations -> QuotationRecords]
      /\ quotation[q] \in QuotationRecords /\ quotation[q].status = "absent"
      /\ quotation[q].key = NoKey /\ quotation[q].archived = FALSE
  BY TypesOfVariables DEF Create, KeysFollowStatus, ArchivedExists, QuotationRecords
<1> DEFINE x == [quotation[q] EXCEPT !.status = "DRAFT", !.expiry = date]
<1>3. quotation' = [quotation EXCEPT ![q] = x]
  BY <1>1
<1>4. x \in QuotationRecords
  BY <1>2 DEF QuotationRecords, Statuses
<1>5. x.status = "DRAFT" /\ x.key = NoKey /\ x.archived = FALSE
  BY <1>2 DEF QuotationRecords
<1> HIDE DEF x
<1> QED
  BY <1>2, <1>3, <1>4, <1>5, OneRowWritten

LEMMA UpdateRow ==
    ASSUME TypeOK, RequestsSound, ArchivedExists, NEW r \in Requests, Update(r)
    PROVE  RowsGoOn
<1> DEFINE q == request[r].quotation
<1>1. q \in Quotations
  BY DEF Update, RequestsSound, RequestSound
<1>2. PICK date \in Dates :
          quotation' = [quotation EXCEPT ![q].version = version', ![q].expiry = date]
  BY DEF Update
<1>3. version' \in 0..MaxVersion
  BY TypesOfVariables, QuotationAssumption DEF Update, QuotationAssumption
<1> HIDE DEF q
<1>4. quotation[q] \in QuotationRecords /\ quotation \in [Quotations -> QuotationRecords]
  BY <1>1, TypesOfVariables
<1> DEFINE x == [quotation[q] EXCEPT !.version = version', !.expiry = date]
<1>5. quotation' = [quotation EXCEPT ![q] = x]
  BY <1>2
<1>6. x \in QuotationRecords
  BY <1>3, <1>4 DEF QuotationRecords
<1>7. /\ x.status = quotation[q].status /\ x.key = quotation[q].key
      /\ x.archived = quotation[q].archived
  BY <1>4 DEF QuotationRecords
<1> HIDE DEF x
<1> QED
  BY <1>1, <1>5, <1>6, <1>7, OneRowWritten, TypesOfVariables
     DEF KeysFollowStatus, ArchivedExists

LEMMA ArchiveRow ==
    ASSUME TypeOK, RequestsSound, ArchivedExists, NEW r \in Requests, Archive(r)
    PROVE  RowsGoOn
<1> DEFINE q == request[r].quotation
<1>1. q \in Quotations /\ quotation[q].status # "absent"
  BY DEF Archive, RequestsSound, RequestSound
<1>2. quotation' = [quotation EXCEPT ![q].archived = TRUE]
  BY DEF Archive
<1> HIDE DEF q
<1>3. quotation[q] \in QuotationRecords /\ quotation \in [Quotations -> QuotationRecords]
  BY <1>1, TypesOfVariables
<1> DEFINE x == [quotation[q] EXCEPT !.archived = TRUE]
<1>4. quotation' = [quotation EXCEPT ![q] = x]
  BY <1>2
<1>5. x \in QuotationRecords
  BY <1>3 DEF QuotationRecords
<1>6. x.status = quotation[q].status /\ x.key = quotation[q].key
  BY <1>3 DEF QuotationRecords
<1> HIDE DEF x
<1> QED
  BY <1>1, <1>4, <1>5, <1>6, OneRowWritten, TypesOfVariables DEF KeysFollowStatus

LEMMA ExpireWriteRow ==
    ASSUME TypeOK, ArchivedExists, NEW r \in Requests, NEW d \in Quotations,
           ExpireWrite(r, d)
    PROVE  RowsGoOn
<1>1. quotation[d] \in QuotationRecords /\ quotation \in [Quotations -> QuotationRecords]
  BY TypesOfVariables
<1>2. CASE quotation[d].status = "SENT"
  <2> DEFINE x == [quotation[d] EXCEPT !.status = "EXPIRED"]
  <2>1. quotation' = [q \in Quotations |->
            IF q \in {d} THEN [quotation[q] EXCEPT !.status = "EXPIRED"] ELSE quotation[q]]
    BY <1>2 DEF ExpireWrite
  <2>2. quotation' = [quotation EXCEPT ![d] = x]
    BY <1>1, <2>1
  <2>3. x \in QuotationRecords
    BY <1>1 DEF QuotationRecords, Statuses
  <2>4. /\ x.status = "EXPIRED" /\ x.key = quotation[d].key
        /\ x.archived = quotation[d].archived
    BY <1>1 DEF QuotationRecords
  <2> HIDE DEF x
  <2> QED
    BY <1>2, <2>2, <2>3, <2>4, OneRowWritten, TypesOfVariables DEF KeysFollowStatus
<1>3. CASE quotation[d].status # "SENT"
  <2>1. quotation' = [q \in Quotations |->
            IF q \in {} THEN [quotation[q] EXCEPT !.status = "EXPIRED"] ELSE quotation[q]]
    BY <1>3 DEF ExpireWrite
  <2>2. UNCHANGED quotation
    BY <1>1, <2>1
  <2> QED
    BY <2>2, NoRowWritten
<1> QED
  BY <1>2, <1>3

\* The compare-and-set of a transition.
Committed(r) ==
    /\ Unchanged(r)
    /\ quotation' = [quotation EXCEPT
          ![request[r].quotation].status = NewStatus[request[r].op],
          ![request[r].quotation].key =
              IF request[r].op = "send" THEN request[r].key ELSE @]
    /\ Goto(r, "publish")
    /\ UNCHANGED env

LEMMA CommittedRow ==
    ASSUME TypeOK, RequestsSound, ArchivedExists, NEW r \in Requests,
           request[r].at = "commit", Committed(r)
    PROVE  /\ RowsGoOn
           /\ request[r].quotation \in Quotations
           /\ quotation'[request[r].quotation].status = NewStatus[request[r].op]
           /\ quotation'[request[r].quotation].key =
                  IF request[r].op = "send" THEN request[r].key
                  ELSE quotation[request[r].quotation].key
           /\ \A q \in Quotations :
                  q # request[r].quotation => quotation'[q] = quotation[q]
<1> DEFINE q == request[r].quotation
           op == request[r].op
           key == IF op = "send" THEN request[r].key ELSE quotation[q].key
<1>1. /\ request[r] \in RequestRecords /\ q \in Quotations /\ op \in Actions
      /\ op = "send" <=> request[r].key # NoKey
  BY TypesOfVariables DEF RequestsSound, RequestSound
<1>2. quotation[q].status = Allowed[op] /\ ~quotation[q].archived
  BY DEF Committed, Unchanged
<1>3. quotation' = [quotation EXCEPT
          ![q].status = NewStatus[op],
          ![q].key = IF op = "send" THEN request[r].key ELSE @]
  BY DEF Committed
<1>4. /\ quotation[q] \in QuotationRecords /\ quotation \in [Quotations -> QuotationRecords]
      /\ quotation[q].key = NoKey <=> quotation[q].status \in {"absent", "DRAFT"}
  BY <1>1, TypesOfVariables DEF KeysFollowStatus
<1> DEFINE x == [quotation[q] EXCEPT !.status = NewStatus[op], !.key = key]
<1>5. quotation' = [quotation EXCEPT ![q] = x]
  BY <1>3
<1>6. key \in Keys \cup {NoKey}
  BY <1>1, <1>4 DEF RequestRecords, QuotationRecords
<1>7. NewStatus[op] \in Statuses
  BY <1>1 DEF Actions, NewStatus, Statuses
<1>8. key # NoKey /\ (quotation[q].key # NoKey => key = quotation[q].key)
  BY <1>1, <1>2, <1>4 DEF Actions, Allowed
<1> HIDE DEF key
<1>9. x \in QuotationRecords
  BY <1>4, <1>6, <1>7 DEF QuotationRecords
<1>10. x.status = NewStatus[op] /\ x.key = key /\ x.archived = quotation[q].archived
  BY <1>4 DEF QuotationRecords
<1>11. /\ NewStatus[op] \notin {"absent", "DRAFT"}
       /\ <<quotation[q].status, NewStatus[op]>>
             \in {<<"absent", "DRAFT">>, <<"DRAFT", "SENT">>}
                 \cup {"SENT"} \X {"ACCEPTED", "REJECTED", "EXPIRED"}
  BY <1>1, <1>2 DEF Actions, NewStatus, Allowed
<1> HIDE DEF x
<1>12. RowsGoOn
  BY <1>1, <1>2, <1>5, <1>8, <1>9, <1>10, <1>11, OneRowWritten
<1>13. /\ quotation'[q] = x
       /\ \A other \in Quotations : other # q => quotation'[other] = quotation[other]
  BY <1>1, <1>4, <1>5
<1> QED
  BY <1>1, <1>10, <1>12, <1>13 DEF key

\* The rows after a step.
LEMMA RowsAfterStep == IInv /\ [Next]_vars => RowsGoOn
<1> SUFFICES ASSUME IInv, [Next]_vars PROVE RowsGoOn
  OBVIOUS
<1> USE DEF IInv
<1>1. ASSUME NEW q \in Quotations, Create(q) PROVE RowsGoOn
  BY <1>1, CreateRow
<1>2. ASSUME NEW r \in Requests, NEW q \in Quotations, Begin(r, q) PROVE RowsGoOn
  BY <1>2, NoRowWritten DEF Begin, RequireDraft, ExpireRead
<1>3. ASSUME NEW r \in Requests, Proceed(r) PROVE RowsGoOn
  <2>1. CASE Update(r)
    BY <2>1, UpdateRow
  <2>2. CASE Archive(r)
    BY <2>2, ArchiveRow
  <2>3. ASSUME NEW d \in Quotations, ExpireWrite(r, d) PROVE RowsGoOn
    BY <2>3, ExpireWriteRow
  <2>4. ASSUME NEW d \in Quotations, ExpirePublish(r, d) PROVE RowsGoOn
    BY <2>4, NoRowWritten DEF ExpirePublish
  <2>5. CASE ReadRow(r) \/ Put(r) \/ PublishChange(r) \/ Cleanup(r)
    BY <2>5, NoRowWritten DEF ReadRow, Put, PublishChange, Cleanup
  <2>6. CASE Commit(r)
    <3>1. (request[r].at = "commit" /\ Committed(r)) \/ UNCHANGED quotation
      BY <2>6 DEF Commit, Committed
    <3> QED
      BY <3>1, CommittedRow, NoRowWritten
  <2> QED
    BY <1>3, <2>1, <2>2, <2>3, <2>4, <2>5, <2>6 DEF Proceed
<1>4. ASSUME NEW r \in Requests, Abort(r) PROVE RowsGoOn
  BY <1>4, NoRowWritten DEF Abort
<1>5. CASE NextDay \/ UNCHANGED vars
  BY <1>5, NoRowWritten DEF NextDay, vars
<1> QED
  BY <1>1, <1>2, <1>3, <1>4, <1>5 DEF Next

\* The requests after a step: at most one goes on.
LEMMA RequestsAfterStep ==
    ASSUME IInv, [Next]_vars
    PROVE  \/ UNCHANGED request
           \/ \E r \in Requests : \E x :
                 /\ Becomes(r, x)
                 /\ x.at \in {"update", "archive"} => quotation[x.quotation].status = "DRAFT"
<1> USE DEF IInv
<1> DEFINE GoesOn(r) ==
        \E x : /\ Becomes(r, x)
               /\ x.at \in {"update", "archive"} => quotation[x.quotation].status = "DRAFT"
<1>1. ASSUME NEW r \in Requests, NEW q \in Quotations, Begin(r, q) PROVE GoesOn(r)
  BY <1>1, BeginBecomes
<1>2. ASSUME NEW r \in Requests, Finish(r) PROVE GoesOn(r)
  BY <1>2, FinishBecomes DEF Free
<1>3. ASSUME NEW r \in Requests, NEW d \in Quotations, ExpireWrite(r, d) PROVE GoesOn(r)
  <2> DEFINE won == IF quotation[d].status = "SENT" THEN {d} ELSE {}
  <2>1. /\ request[r].at = "expire"
        /\ Expiring(r, request[r].op, request[r].due \ {d}, request[r].expired \cup won)
    BY <1>3 DEF ExpireWrite
  <2>2. request[r].due \subseteq Quotations /\ request[r].expired \subseteq Quotations
    BY TypesOfVariables DEF RequestRecords
  <2>3. request[r].due \ {d} \in SUBSET Quotations /\ request[r].expired \cup won \in SUBSET Quotations
    BY <2>2
  <2> HIDE DEF won
  <2> QED
    BY <2>1, <2>3, ExpiringBecomes
<1>4. ASSUME NEW r \in Requests, NEW d \in Quotations, ExpirePublish(r, d) PROVE GoesOn(r)
  <2>1. PICK op \in {request[r].op, "none"} :
            /\ request[r].at = "expire"
            /\ Expiring(r, op, request[r].due, request[r].expired \ {d})
    BY <1>4 DEF ExpirePublish
  <2>2. request[r].due \in SUBSET Quotations /\ request[r].expired \ {d} \in SUBSET Quotations
    BY TypesOfVariables DEF RequestRecords
  <2> QED
    BY <2>1, <2>2, ExpiringBecomes
<1>5. ASSUME NEW r \in Requests, ReadRow(r) PROVE GoesOn(r)
  BY <1>5, ReadRowBecomes
<1>6. ASSUME NEW r \in Requests, Put(r) PROVE GoesOn(r)
  <2>1. PICK k \in Keys : \/ Becomes(r, [request[r] EXCEPT !.at = "commit", !.key = k])
                          \/ Becomes(r, Free)
    BY <1>6, PutBecomes
  <2>2. [request[r] EXCEPT !.at = "commit", !.key = k].at = "commit"
    BY TypesOfVariables DEF RequestRecords
  <2>3. Free.at = "idle"
    BY DEF Free
  <2> QED
    BY <2>1, <2>2, <2>3
<1>7. ASSUME NEW r \in Requests, request[r].at \in {"commit", "publish"}, Catch(r)
      PROVE  GoesOn(r)
  <2>1. [request[r] EXCEPT !.at = "cleanup"].at = "cleanup"
    BY TypesOfVariables DEF RequestRecords
  <2>2. Free.at = "idle"
    BY DEF Free
  <2> QED
    BY <1>7, <2>1, <2>2, CatchBecomes
<1>8. ASSUME NEW r \in Requests, Commit(r) PROVE GoesOn(r)
  <2>1. [request[r] EXCEPT !.at = "publish"].at = "publish"
    BY TypesOfVariables DEF RequestRecords
  <2>2. request[r].at = "commit" /\ (Goto(r, "publish") \/ Catch(r))
    BY <1>8 DEF Commit
  <2> QED
    BY <1>7, <2>1, <2>2, GotoBecomes
<1>9. ASSUME NEW r \in Requests, PublishChange(r) PROVE GoesOn(r)
  BY <1>2, <1>7, <1>9 DEF PublishChange
<1>10. ASSUME NEW r \in Requests, Proceed(r) PROVE GoesOn(r)
  <2>1. Update(r) \/ Archive(r) \/ Cleanup(r) => Finish(r)
    BY DEF Update, Archive, Cleanup
  <2> HIDE DEF GoesOn
  <2> QED
    BY <1>2, <1>3, <1>4, <1>5, <1>6, <1>8, <1>9, <1>10, <2>1 DEF Proceed
<1>11. ASSUME NEW r \in Requests, Abort(r) PROVE GoesOn(r)
  BY <1>2, <1>11 DEF Abort
<1>12. UNCHANGED request \/ \E r \in Requests : GoesOn(r)
  <2> HIDE DEF GoesOn
  <2> QED
    BY <1>1, <1>10, <1>11 DEF Next, Create, NextDay, vars
<1> QED
  BY <1>12

\* The requests stay typed and sound.
LEMMA RequestsKept ==
    ASSUME IInv, [Next]_vars
    PROVE  request' \in [Requests -> RequestRecords] /\ RequestsSound' /\ ArchivedExists'
<1>1. request \in [Requests -> RequestRecords] /\ RequestsSound
  BY TypesOfVariables DEF IInv
<1>2. /\ quotation' \in [Quotations -> QuotationRecords]
      /\ \A q \in Quotations : RowGoesOn(q)
  BY RowsAfterStep DEF RowsGoOn
<1>3. \A q \in Quotations :
          quotation[q].status # "absent" => quotation'[q].status # "absent"
  BY <1>2 DEF RowGoesOn
<1>4. CASE UNCHANGED request
  BY <1>1, <1>2, <1>3, <1>4 DEF RequestsSound, RequestSound, ArchivedExists, RowGoesOn
<1>5. ASSUME NEW r \in Requests, NEW x, Becomes(r, x),
             x.at \in {"update", "archive"} => quotation[x.quotation].status = "DRAFT"
      PROVE  request' \in [Requests -> RequestRecords] /\ RequestsSound'
  <2>1. /\ request' \in [Requests -> RequestRecords]
        /\ request'[r] = x
        /\ \A other \in Requests : other # r => request'[other] = request[other]
        /\ RequestSound(x)
    BY <1>1, <1>5 DEF Becomes
  <2>2. ASSUME NEW other \in Requests
        PROVE  /\ RequestSound(request'[other])
               /\ request'[other].at \in {"update", "archive"}
                      => quotation'[request'[other].quotation].status # "absent"
    <3>1. CASE other = r
      <4>1. x.at \in {"update", "archive"} => x.quotation \in Quotations
        BY <2>1 DEF RequestSound
      <4> QED
        BY <1>3, <1>5, <2>1, <3>1, <4>1
    <3>2. CASE other # r
      <4>1. RequestSound(request[other]) /\ request'[other] = request[other]
        BY <1>1, <2>1, <3>2 DEF RequestsSound
      <4>2. request[other].at \in {"update", "archive"}
                => /\ request[other].quotation \in Quotations
                   /\ quotation[request[other].quotation].status # "absent"
        BY <1>1, <4>1 DEF RequestsSound, RequestSound
      <4> QED
        BY <1>3, <4>1, <4>2
    <3> QED
      BY <3>1, <3>2
  <2>3. RequestsSound'
    BY <2>2 DEF RequestsSound
  <2> QED
    BY <2>1, <2>3
<1>6. ArchivedExists'
  BY <1>2 DEF ArchivedExists, RowGoesOn
<1> QED
  BY <1>4, <1>5, <1>6, RequestsAfterStep

-----------------------------------------------------------------------------
(* The other variables *)

\* What a publication does to the bag of events.
LEMMA PublishAdds ==
    ASSUME PublishedTyped, NEW q \in Quotations, NEW status \in Statuses,
           Publish(q, status)
    PROVE  /\ PublishedTyped'
           /\ BagToSet(published') = BagToSet(published) \cup {<<q, status>>}
           /\ \A event \in BagToSet(published) :
                  event # <<q, status>> => published'[event] = published[event]
           /\ ~BagIn(<<q, status>>, published) => published'[<<q, status>>] = 1
BY DEF PublishedTyped, Publish, IsABag, BagToSet, BagIn, SetToBag, (+)

LEMMA PublishedKept ==
    ASSUME IInv, [Next]_vars
    PROVE  PublishedTyped'
<1>1. PublishedTyped /\ request \in [Requests -> RequestRecords] /\ RequestsSound
  BY TypesOfVariables DEF IInv
<1>2. CASE UNCHANGED published
  BY <1>1, <1>2 DEF PublishedTyped
<1>3. ASSUME NEW d \in Quotations, Publish(d, "EXPIRED") PROVE PublishedTyped'
  BY <1>1, <1>3, PublishAdds DEF Statuses
<1>4. ASSUME NEW r \in Requests, PublishChange(r),
             Publish(request[r].quotation, NewStatus[request[r].op])
      PROVE  PublishedTyped'
  <2>1. request[r].quotation \in Quotations /\ NewStatus[request[r].op] \in Statuses
    BY <1>1, <1>4 DEF PublishChange, RequestsSound, RequestSound, Actions, NewStatus, Statuses
  <2> QED
    BY <1>1, <1>4, <2>1, PublishAdds
<1>5. \/ UNCHANGED published
      \/ \E d \in Quotations : Publish(d, "EXPIRED")
      \/ \E r \in Requests :
            PublishChange(r) /\ Publish(request[r].quotation, NewStatus[request[r].op])
  BY DEF Next, Create, Begin, RequireDraft, ExpireRead, Proceed, Update, Archive,
         ExpireWrite, ExpirePublish, ReadRow, Put, Commit, PublishChange, Cleanup,
         Abort, NextDay, vars
<1> QED
  BY <1>2, <1>3, <1>4, <1>5

\* The kinds of faults are fixed, and their number stays within the bound.
LEMMA EnvironmentKept ==
    ASSUME IInv, [Next]_vars
    PROVE  EnvironmentSound' /\ env'.kinds = env.kinds
<1>1. EnvironmentSound
  BY TypesOfVariables DEF IInv
<1>2. UNCHANGED env \/ \E kind : Fault(kind)
  BY DEF Next, Create, Begin, RequireDraft, ExpireRead, Proceed, Update, Archive,
         ExpireWrite, ExpirePublish, ReadRow, Put, Commit, PublishChange, Cleanup,
         Abort, NextDay, vars
<1>3. ASSUME NEW kind, Fault(kind) PROVE EnvironmentSound' /\ env'.kinds = env.kinds
  BY <1>1, <1>3 DEF EnvironmentSound, EnvironmentRecords, Fault
<1> QED
  BY <1>1, <1>2, <1>3 DEF EnvironmentSound

LEMMA StorageKept ==
    ASSUME IInv, [Next]_vars
    PROVE  storage' \in [Keys -> FileRecords]
<1>1. storage \in [Keys -> FileRecords] /\ request \in [Requests -> RequestRecords]
  BY TypesOfVariables DEF IInv
<1>2. ASSUME NEW r \in Requests, NEW k \in Keys,
             storage' \in {storage, Stored(k, request[r].version)}
      PROVE  storage' \in [Keys -> FileRecords]
  BY <1>1, <1>2 DEF Stored, FileRecords, RequestRecords
<1>3. ASSUME NEW r \in Requests, Cleanup(r) PROVE storage' \in [Keys -> FileRecords]
  <2>1. request[r].key \in Keys
    BY <1>1, <1>3 DEF IInv, Cleanup, RequestsSound, RequestSound, RequestRecords
  <2> QED
    BY <1>1, <1>3, <2>1 DEF Cleanup, FileRecords
<1>4. \/ UNCHANGED storage
      \/ \E r \in Requests, k \in Keys : storage' \in {storage, Stored(k, request[r].version)}
      \/ \E r \in Requests : Cleanup(r)
  <2>1. ASSUME NEW r \in Requests, Put(r)
        PROVE  \E k \in Keys : storage' \in {storage, Stored(k, request[r].version)}
    BY <2>1 DEF Put
  <2> QED
    BY <2>1 DEF Next, Create, Begin, RequireDraft, ExpireRead, Proceed, Update, Archive,
           ExpireWrite, ExpirePublish, ReadRow, Commit, PublishChange,
           Abort, NextDay, vars
<1> QED
  BY <1>1, <1>2, <1>3, <1>4

LEMMA CountersKept ==
    ASSUME IInv, [Next]_vars
    PROVE  version' \in 0..MaxVersion /\ today' \in 0..MaxDay
<1>1. version \in 0..MaxVersion /\ today \in 0..MaxDay
  BY TypesOfVariables DEF IInv
<1>2. /\ UNCHANGED version \/ (version < MaxVersion /\ version' = version + 1)
      /\ UNCHANGED today \/ (today < MaxDay /\ today' = today + 1)
  BY DEF Next, Create, Begin, RequireDraft, ExpireRead, Proceed, Update, Archive,
         ExpireWrite, ExpirePublish, ReadRow, Put, Commit, PublishChange, Cleanup,
         Abort, NextDay, vars
<1> QED
  BY <1>1, <1>2, QuotationAssumption DEF QuotationAssumption

LEMMA TypesKept ==
    ASSUME IInv, [Next]_vars
    PROVE  TypeOK'
<1>1. /\ quotation' \in [Quotations -> QuotationRecords] /\ KeysFollowStatus'
  BY RowsAfterStep DEF RowsGoOn
<1>2. request' \in [Requests -> RequestRecords]
  BY RequestsKept
<1> QED
  BY <1>1, <1>2, StorageKept, PublishedKept, EnvironmentKept, CountersKept,
     TypesOfVariables
     DEF TypeOK, QuotationRecords, KeysFollowStatus, FileRecords, RequestRecords,
         PublishedTyped, EnvironmentSound

-----------------------------------------------------------------------------
(* Whose file a snapshot is *)

FilesOwned == FilesHeld /\ SnapshotsOwned /\ NoOrphanFiles

KeysOfRowsStay == \A q \in Quotations : quotation'[q].key = quotation[q].key

\* A step of requests that hold no file.
LEMMA KeysUntouched ==
    ASSUME FilesOwned, KeysOfRowsStay, UNCHANGED storage, env'.kinds = env.kinds,
           \A r \in Requests :
               \/ request'[r] = request[r]
               \/ request[r].key = NoKey /\ request'[r].key = NoKey
    PROVE  FilesOwned'
<1>1. \A r \in Requests : request'[r].key = request[r].key
  OBVIOUS
<1>2. FilesHeld'
  BY <1>1 DEF FilesOwned, FilesHeld
<1>3. SnapshotsOwned'
  BY <1>1 DEF FilesOwned, SnapshotsOwned, KeysOfRowsStay
<1>4. NoOrphanFiles'
  BY <1>1 DEF FilesOwned, NoOrphanFiles, KeysOfRowsStay
<1> QED
  BY <1>2, <1>3, <1>4 DEF FilesOwned

\* A request without a file goes on without one.
LEMMA KeylessGoesOn ==
    ASSUME IInv, FilesOwned, KeysOfRowsStay, UNCHANGED storage, env'.kinds = env.kinds,
           NEW r \in Requests, request[r].key = NoKey, NEW x, x.key = NoKey,
           Becomes(r, x)
    PROVE  FilesOwned'
BY KeysUntouched, TypesOfVariables DEF IInv, Becomes

\* A request lets go of its file: the quotation has it, or it was deleted, or
\* a process died or the storage failed.
LEMMA FileLetGo ==
    ASSUME IInv, FilesOwned, KeysOfRowsStay, env'.kinds = env.kinds,
           NEW r \in Requests, request[r].key # NoKey, Becomes(r, Free),
           \/ /\ UNCHANGED storage
              /\ \/ env.kinds \cap {"process", "storage"} # {}
                 \/ \E q \in Quotations : quotation[q].key = request[r].key
           \/ storage' = [storage EXCEPT ![request[r].key].file = "deleted"]
    PROVE  FilesOwned'
<1> DEFINE k == request[r].key
<1>1. request \in [Requests -> RequestRecords] /\ storage \in [Keys -> FileRecords]
  BY TypesOfVariables DEF IInv
<1>2. k \in Keys
  BY <1>1 DEF RequestRecords
<1>3. /\ request'[r] = Free /\ Free.key = NoKey /\ Free.at = "idle"
      /\ \A other \in Requests : other # r => request'[other] = request[other]
  BY <1>1 DEF Becomes, Free
<1>4. /\ \A other \in Keys : other # k => storage'[other] = storage[other]
      /\ storage'[k] = storage[k] \/ storage'[k].file = "deleted"
  BY <1>1, <1>2 DEF FileRecords
<1>5. \A other \in Requests : other # r => request[other].key # k
  BY DEF FilesOwned, FilesHeld
<1>6. FilesHeld'
  <2>1. ASSUME NEW other \in Requests, request'[other].key # NoKey
        PROVE  /\ storage'[request'[other].key].file = "stored"
               /\ \A third \in Requests \ {other} : request'[third].key # request'[other].key
    <3>1. other # r /\ request'[other] = request[other]
      BY <1>3, <2>1
    <3>2. request[other].key \in Keys /\ request[other].key # k
      BY <1>1, <1>5, <2>1, <3>1 DEF RequestRecords
    <3> QED
      BY <1>3, <1>4, <2>1, <3>1, <3>2 DEF FilesOwned, FilesHeld
  <2> QED
    BY <2>1 DEF FilesHeld
<1>7. SnapshotsOwned'
  <2>1. ASSUME NEW q \in Quotations, quotation'[q].key # NoKey
        PROVE  storage'[quotation'[q].key].file # "unused"
    <3>1. quotation'[q].key = quotation[q].key /\ quotation[q].key \in Keys
      BY <2>1, TypesOfVariables DEF KeysOfRowsStay, IInv, QuotationRecords
    <3>2. storage[quotation[q].key].file # "unused"
      BY <2>1, <3>1 DEF FilesOwned, SnapshotsOwned
    <3> QED
      BY <1>4, <3>1, <3>2
  <2> QED
    BY <1>3, <2>1 DEF FilesOwned, SnapshotsOwned, KeysOfRowsStay
<1>8. NoOrphanFiles'
  <2>1. CASE env.kinds \cap {"process", "storage"} # {}
    BY <2>1 DEF NoOrphanFiles
  <2>2. ASSUME env.kinds \cap {"process", "storage"} = {},
               NEW other \in Keys, storage'[other].file = "stored"
        PROVE  \/ \E q \in Quotations : quotation'[q].key = other
               \/ \E owner \in Requests : request'[owner].key = other
    <3>1. storage[other].file = "stored"
      BY <1>1, <1>2, <1>4, <2>2
    <3>2. \/ \E q \in Quotations : quotation[q].key = other
          \/ \E owner \in Requests : request[owner].key = other
      BY <2>2, <3>1 DEF FilesOwned, NoOrphanFiles
    <3>3. ASSUME other = k PROVE \E q \in Quotations : quotation[q].key = k
      <4>1. storage' # [storage EXCEPT ![k].file = "deleted"]
        BY <1>1, <1>2, <2>2, <3>3 DEF FileRecords
      <4> QED
        BY <2>2, <4>1
    <3> QED
      BY <1>3, <3>2, <3>3 DEF KeysOfRowsStay
  <2> QED
    BY <2>1, <2>2 DEF NoOrphanFiles
<1> QED
  BY <1>6, <1>7, <1>8 DEF FilesOwned

\* A request that holds a file which is no snapshot turns to removing it, or
\* to removing a snapshot after a failed publication.
LEMMA FileToRemove ==
    ASSUME IInv, FilesOwned, KeysOfRowsStay, UNCHANGED storage, env'.kinds = env.kinds,
           NEW r \in Requests, Becomes(r, [request[r] EXCEPT !.at = "cleanup"]),
           request[r].at = "commit" \/ "publish" \in env.kinds
    PROVE  FilesOwned'
<1>1. request[r] \in RequestRecords /\ request \in [Requests -> RequestRecords]
  BY TypesOfVariables DEF IInv
<1>2. /\ request'[r].at = "cleanup" /\ request'[r].key = request[r].key
      /\ \A other \in Requests : other # r => request'[other] = request[other]
  BY <1>1 DEF Becomes, RequestRecords
<1>3. \A any \in Requests : request'[any].key = request[any].key
  BY <1>2
<1>4. FilesHeld'
  BY <1>3 DEF FilesOwned, FilesHeld
<1>5. SnapshotsOwned'
  BY <1>2, <1>3 DEF FilesOwned, SnapshotsOwned, KeysOfRowsStay
<1>6. NoOrphanFiles'
  BY <1>3 DEF FilesOwned, NoOrphanFiles, KeysOfRowsStay
<1> QED
  BY <1>4, <1>5, <1>6 DEF FilesOwned

\* The upload of a new file.
LEMMA FilesAfterPut ==
    ASSUME IInv, FilesOwned, NEW r \in Requests, Put(r)
    PROVE  FilesOwned'
<1>1. /\ request \in [Requests -> RequestRecords] /\ storage \in [Keys -> FileRecords]
      /\ RequestSound(request[r]) /\ request[r].at = "put" /\ UNCHANGED quotation
  BY TypesOfVariables DEF IInv, RequestsSound, Put
<1>2. request[r].key = NoKey
  BY <1>1 DEF RequestSound
<1>3. PICK k \in Keys :
          /\ storage[k].file = "unused"
          /\ \/ /\ Becomes(r, [request[r] EXCEPT !.at = "commit", !.key = k])
                /\ storage' = Stored(k, request[r].version)
                /\ UNCHANGED env
             \/ /\ Becomes(r, Free)
                /\ storage' \in {storage, Stored(k, request[r].version)}
                /\ "storage" \in env.kinds /\ Fault("storage")
  BY PutBecomes DEF IInv
<1>4. /\ \A other \in Keys : other # k => storage'[other] = storage[other]
      /\ \A other \in Requests : request[other].key # k
      /\ \A q \in Quotations : quotation[q].key # k
  <2>1. k # NoKey
    BY QuotationAssumption DEF QuotationAssumption
  <2> QED
    BY <1>1, <1>3, <2>1 DEF Stored, FilesOwned, FilesHeld, SnapshotsOwned
<1>5. CASE /\ Becomes(r, [request[r] EXCEPT !.at = "commit", !.key = k])
           /\ storage' = Stored(k, request[r].version)
           /\ UNCHANGED env
  <2>1. /\ request'[r].at = "commit" /\ request'[r].key = k
        /\ \A other \in Requests : other # r => request'[other] = request[other]
    BY <1>1, <1>5 DEF Becomes, RequestRecords
  <2>2. storage'[k].file = "stored"
    BY <1>1, <1>5 DEF Stored
  <2>3. \A other \in Requests :
            other # r /\ request[other].key # NoKey =>
                storage'[request[other].key].file = "stored"
    <3>1. \A other \in Requests : request[other].key # NoKey => request[other].key \in Keys
      BY <1>1 DEF RequestRecords
    <3> QED
      BY <1>4, <3>1 DEF FilesOwned, FilesHeld
  <2>4. FilesHeld'
    <3>1. ASSUME NEW any \in Requests, request'[any].key # NoKey
          PROVE  storage'[request'[any].key].file = "stored"
      BY <2>1, <2>2, <2>3, <3>1
    <3>2. ASSUME NEW any \in Requests, NEW other \in Requests \ {any},
                 request'[any].key # NoKey
          PROVE  request'[other].key # request'[any].key
      <4>1. CASE any = r
        BY <1>4, <2>1, <4>1
      <4>2. CASE other = r
        BY <1>4, <2>1, <4>2
      <4>3. CASE any # r /\ other # r
        BY <2>1, <3>2, <4>3 DEF FilesOwned, FilesHeld
      <4> QED
        BY <4>1, <4>2, <4>3
    <3> QED
      BY <3>1, <3>2 DEF FilesHeld
  <2>5. SnapshotsOwned'
    <3>1. ASSUME NEW q \in Quotations, quotation'[q].key # NoKey
          PROVE  storage'[quotation'[q].key].file # "unused"
      <4>1. quotation[q].key \in Keys /\ storage[quotation[q].key].file # "unused"
        BY <1>1, <3>1, TypesOfVariables DEF IInv, QuotationRecords, FilesOwned, SnapshotsOwned
      <4> QED
        BY <1>1, <1>4, <4>1
    <3> QED
      BY <1>1, <1>4, <1>5, <2>1, <3>1 DEF FilesOwned, SnapshotsOwned
  <2>6. NoOrphanFiles'
    <3>1. ASSUME env.kinds \cap {"process", "storage"} = {},
                 NEW other \in Keys, storage'[other].file = "stored"
          PROVE  \/ \E q \in Quotations : quotation'[q].key = other
                 \/ \E owner \in Requests : request'[owner].key = other
      <4>1. CASE other = k
        BY <2>1, <4>1
      <4>2. CASE other # k
        <5>1. \/ \E q \in Quotations : quotation[q].key = other
              \/ \E owner \in Requests : request[owner].key = other
          BY <1>4, <3>1, <4>2 DEF FilesOwned, NoOrphanFiles
        <5>2. other # NoKey
          BY QuotationAssumption DEF QuotationAssumption
        <5> QED
          BY <1>1, <1>2, <2>1, <5>1, <5>2
      <4> QED
        BY <4>1, <4>2
    <3> QED
      BY <1>5, <3>1 DEF NoOrphanFiles
  <2> QED
    BY <2>4, <2>5, <2>6 DEF FilesOwned
<1>6. CASE /\ Becomes(r, Free)
           /\ storage' \in {storage, Stored(k, request[r].version)}
           /\ "storage" \in env.kinds /\ Fault("storage")
  <2>1. /\ request'[r] = Free /\ Free.key = NoKey /\ Free.at = "idle"
        /\ \A other \in Requests : other # r => request'[other] = request[other]
    BY <1>1, <1>6 DEF Becomes, Free
  <2>2. "storage" \in env'.kinds
    BY <1>6, EnvironmentKept, TypesOfVariables
       DEF Fault, IInv, EnvironmentSound, EnvironmentRecords
  <2>3. FilesHeld'
    <3>1. ASSUME NEW any \in Requests, request'[any].key # NoKey
          PROVE  /\ any # r /\ request'[any] = request[any]
                 /\ request[any].key \in Keys /\ request[any].key # k
      BY <1>1, <1>4, <2>1, <3>1 DEF RequestRecords
    <3> QED
      BY <1>4, <2>1, <3>1 DEF FilesOwned, FilesHeld
  <2>4. SnapshotsOwned'
    <3>1. ASSUME NEW q \in Quotations, quotation'[q].key # NoKey
          PROVE  storage'[quotation'[q].key].file # "unused"
      <4>1. quotation[q].key \in Keys /\ storage[quotation[q].key].file # "unused"
        BY <1>1, <3>1, TypesOfVariables DEF IInv, QuotationRecords, FilesOwned, SnapshotsOwned
      <4> QED
        BY <1>1, <1>4, <4>1
    <3>2. env'.kinds = env.kinds
      BY <1>6, TypesOfVariables DEF Fault, IInv, EnvironmentSound, EnvironmentRecords
    <3> QED
      BY <1>1, <2>1, <3>1, <3>2 DEF FilesOwned, SnapshotsOwned
  <2>5. NoOrphanFiles'
    BY <2>2 DEF NoOrphanFiles
  <2> QED
    BY <2>3, <2>4, <2>5 DEF FilesOwned
<1> QED
  BY <1>3, <1>5, <1>6

\* The transaction of a transition: the file becomes the snapshot, or stays
\* with the request that is to remove it.
LEMMA FilesAfterCommit ==
    ASSUME IInv, FilesOwned, NEW r \in Requests, Commit(r), env'.kinds = env.kinds
    PROVE  FilesOwned'
<1>1. /\ request \in [Requests -> RequestRecords] /\ RequestSound(request[r])
      /\ request[r].at = "commit" /\ UNCHANGED storage
  BY TypesOfVariables DEF IInv, RequestsSound, Commit
<1>2. CASE Committed(r)
  <2>1. Becomes(r, [request[r] EXCEPT !.at = "publish"])
    BY <1>1, <1>2, GotoBecomes DEF IInv, Committed
  <2>2. /\ request'[r].at = "publish" /\ request'[r].key = request[r].key
        /\ request'[r].quotation = request[r].quotation
        /\ \A other \in Requests : other # r => request'[other] = request[other]
    BY <1>1, <2>1 DEF Becomes, RequestRecords
  <2>3. \A any \in Requests : request'[any].key = request[any].key
    BY <2>2
  <2> DEFINE q == request[r].quotation
  <2>4. /\ RowsGoOn /\ q \in Quotations
        /\ quotation'[q].key = IF request[r].op = "send" THEN request[r].key
                               ELSE quotation[q].key
        /\ \A other \in Quotations : other # q => quotation'[other] = quotation[other]
    BY <1>1, <1>2, CommittedRow DEF IInv
  <2>5. request[r].op = "send" <=> request[r].key # NoKey
    BY <1>1 DEF RequestSound
  <2> HIDE DEF q
  <2>6. FilesHeld'
    BY <1>1, <2>3 DEF FilesOwned, FilesHeld
  <2>7. CASE request[r].key = NoKey
    <3>1. KeysOfRowsStay
      BY <2>4, <2>5, <2>7 DEF KeysOfRowsStay
    <3>2. SnapshotsOwned'
      BY <1>1, <2>2, <2>3, <2>7, <3>1 DEF FilesOwned, SnapshotsOwned, KeysOfRowsStay
    <3>3. NoOrphanFiles'
      BY <1>1, <1>2, <2>3, <3>1 DEF FilesOwned, NoOrphanFiles, KeysOfRowsStay
    <3> QED
      BY <2>6, <3>2, <3>3 DEF FilesOwned
  <2>8. CASE request[r].key # NoKey
    <3>1. quotation'[q].key = request[r].key
      BY <2>4, <2>5, <2>8
    <3>2. storage[request[r].key].file = "stored"
      BY <2>8 DEF FilesOwned, FilesHeld
    <3>3. \A other \in Requests \ {r} : request[other].key # request[r].key
      BY <2>8 DEF FilesOwned, FilesHeld
    <3>4. quotation[q].key = NoKey
      <4>1. quotation[q].status = "DRAFT"
        BY <1>2, <2>5, <2>8 DEF Committed, Unchanged, Allowed, q
      <4> QED
        BY <2>4, <4>1, TypesOfVariables DEF IInv, KeysFollowStatus
    <3>5. SnapshotsOwned'
      <4>1. ASSUME NEW any \in Quotations, quotation'[any].key # NoKey
            PROVE  storage'[quotation'[any].key].file # "unused"
        BY <1>1, <2>4, <3>1, <3>2, <4>1 DEF FilesOwned, SnapshotsOwned
      <4>2. ASSUME NEW other \in Requests \ {r}
            PROVE  {any \in Quotations : request'[other].key # NoKey
                                            /\ quotation'[any].key = request'[other].key}
                   = {any \in Quotations : request[other].key # NoKey
                                            /\ quotation[any].key = request[other].key}
        BY <2>3, <2>4, <3>1, <3>3, <3>4
      <4>3. q \in {any \in Quotations : request'[r].key # NoKey
                                            /\ quotation'[any].key = request'[r].key}
        BY <2>2, <2>4, <2>8, <3>1
      <4>4. env'.kinds = env.kinds /\ request'[r].quotation = q
        BY <2>2 DEF q
      <4>5. ASSUME NEW other \in Requests
            PROVE  LET mine == {any \in Quotations :
                                  request'[other].key # NoKey
                                     /\ quotation'[any].key = request'[other].key}
                   IN  /\ request'[other].at = "commit" => mine = {}
                       /\ request'[other].at = "cleanup" /\ "publish" \notin env'.kinds
                              => mine = {}
                       /\ request'[other].at = "publish" /\ request'[other].key # NoKey
                              => request'[other].quotation \in mine
        <5>1. CASE other = r
          BY <2>2, <4>3, <4>4, <5>1
        <5>2. CASE other # r
          BY <2>2, <4>2, <4>4, <5>2 DEF FilesOwned, SnapshotsOwned
        <5> QED
          BY <5>1, <5>2
      <4> QED
        BY <4>1, <4>5 DEF SnapshotsOwned
    <3>6. NoOrphanFiles'
      <4>1. ASSUME NEW any \in Quotations, quotation[any].key # NoKey
            PROVE  quotation'[any].key = quotation[any].key
        BY <2>4, <3>4, <4>1
      <4>2. \A k \in Keys : k # NoKey
        BY QuotationAssumption DEF QuotationAssumption
      <4> QED
        BY <1>1, <1>2, <2>3, <4>1, <4>2 DEF FilesOwned, NoOrphanFiles
    <3> QED
      BY <2>6, <3>5, <3>6 DEF FilesOwned
  <2> QED
    BY <2>7, <2>8
<1>3. CASE Catch(r) /\ UNCHANGED quotation
  <2>1. KeysOfRowsStay
    BY <1>3 DEF KeysOfRowsStay
  <2>2. \/ request[r].key = NoKey /\ Becomes(r, Free)
        \/ Becomes(r, [request[r] EXCEPT !.at = "cleanup"])
    BY <1>1, <1>3, CatchBecomes DEF IInv
  <2>3. Free.key = NoKey
    BY DEF Free
  <2> QED
    BY <1>1, <2>1, <2>2, <2>3, KeylessGoesOn, FileToRemove
<1> QED
  BY <1>2, <1>3 DEF Commit, Committed

LEMMA FilesAfterPublishChange ==
    ASSUME IInv, FilesOwned, NEW r \in Requests, PublishChange(r), env'.kinds = env.kinds
    PROVE  FilesOwned'
<1>1. /\ RequestSound(request[r]) /\ request[r].at = "publish"
      /\ UNCHANGED <<quotation, storage>> /\ KeysOfRowsStay
  BY DEF IInv, RequestsSound, PublishChange, KeysOfRowsStay
<1>2. Free.key = NoKey
  BY DEF Free
<1>3. CASE Finish(r)
  <2>1. Becomes(r, Free)
    BY <1>3, FinishBecomes
  <2>2. request[r].key # NoKey =>
            \E q \in Quotations : quotation[q].key = request[r].key
    BY <1>1 DEF FilesOwned, SnapshotsOwned, RequestSound
  <2> QED
    BY <1>1, <1>2, <2>1, <2>2, KeylessGoesOn, FileLetGo
<1>4. CASE Fault("publish") /\ Catch(r)
  <2>1. "publish" \in env.kinds
    BY <1>4 DEF Fault
  <2>2. \/ request[r].key = NoKey /\ Becomes(r, Free)
        \/ Becomes(r, [request[r] EXCEPT !.at = "cleanup"])
    BY <1>1, <1>4, CatchBecomes DEF IInv
  <2> QED
    BY <1>1, <1>2, <2>1, <2>2, KeylessGoesOn, FileToRemove
<1> QED
  BY <1>3, <1>4 DEF PublishChange

LEMMA FilesAfterCleanup ==
    ASSUME IInv, FilesOwned, NEW r \in Requests, Cleanup(r), env'.kinds = env.kinds
    PROVE  FilesOwned'
<1>1. /\ RequestSound(request[r]) /\ request[r].at = "cleanup"
      /\ KeysOfRowsStay /\ Becomes(r, Free)
  BY FinishBecomes DEF IInv, RequestsSound, Cleanup, KeysOfRowsStay
<1>2. request[r].key # NoKey
  BY <1>1 DEF RequestSound
<1>3. \/ storage' = [storage EXCEPT ![request[r].key].file = "deleted"]
      \/ UNCHANGED storage /\ env.kinds \cap {"process", "storage"} # {}
  BY DEF Cleanup, Fault
<1> QED
  BY <1>1, <1>2, <1>3, FileLetGo

LEMMA FilesAfterAbort ==
    ASSUME IInv, FilesOwned, NEW r \in Requests, Abort(r), env'.kinds = env.kinds
    PROVE  FilesOwned'
<1>1. /\ RequestSound(request[r]) /\ UNCHANGED storage
      /\ KeysOfRowsStay /\ Becomes(r, Free) /\ Free.key = NoKey
  BY FinishBecomes DEF IInv, RequestsSound, Abort, KeysOfRowsStay, Free
<1>2. request[r].key = NoKey \/ env.kinds \cap {"process", "storage"} # {}
  BY <1>1 DEF Abort, Fault, RequestSound
<1> QED
  BY <1>1, <1>2, FileLetGo, KeylessGoesOn

\* The steps that write rows but no snapshot leave every key in its row.
LEMMA KeysStayInRows ==
    ASSUME IInv
    PROVE  /\ \A q \in Quotations : Create(q) => KeysOfRowsStay
           /\ \A r \in Requests : Update(r) \/ Archive(r) => KeysOfRowsStay
           /\ \A r \in Requests, d \in Quotations : ExpireWrite(r, d) => KeysOfRowsStay
<1>1. /\ quotation \in [Quotations -> QuotationRecords]
      /\ \A r \in Requests : RequestSound(request[r])
  BY TypesOfVariables DEF IInv, RequestsSound
<1>2. ASSUME NEW q \in Quotations, Create(q) PROVE KeysOfRowsStay
  BY <1>1, <1>2 DEF Create, KeysOfRowsStay, QuotationRecords
<1>3. ASSUME NEW r \in Requests, Update(r) PROVE KeysOfRowsStay
  BY <1>1, <1>3 DEF Update, KeysOfRowsStay, QuotationRecords, RequestSound
<1>4. ASSUME NEW r \in Requests, Archive(r) PROVE KeysOfRowsStay
  BY <1>1, <1>4 DEF Archive, KeysOfRowsStay, QuotationRecords, RequestSound
<1>5. ASSUME NEW r \in Requests, NEW d \in Quotations, ExpireWrite(r, d) PROVE KeysOfRowsStay
  BY <1>1, <1>5 DEF ExpireWrite, KeysOfRowsStay, QuotationRecords
<1> QED
  BY <1>2, <1>3, <1>4, <1>5

LEMMA FilesKept ==
    ASSUME IInv, [Next]_vars
    PROVE  FilesOwned'
<1>1. FilesOwned /\ \A r \in Requests : RequestSound(request[r])
  BY DEF IInv, FilesOwned, RequestsSound
<1>2. env'.kinds = env.kinds
  BY EnvironmentKept
<1>3. Free.key = NoKey /\ (UNCHANGED quotation => KeysOfRowsStay)
  BY DEF Free, KeysOfRowsStay
<1>4. ASSUME NEW q \in Quotations, Create(q) PROVE FilesOwned'
  BY <1>1, <1>2, <1>4, KeysStayInRows, KeysUntouched DEF Create
<1>5. ASSUME NEW r \in Requests, NEW q \in Quotations, Begin(r, q) PROVE FilesOwned'
  <2>1. UNCHANGED <<quotation, storage>>
    BY <1>5 DEF Begin, RequireDraft, ExpireRead
  <2>2. \E x : Becomes(r, x) /\ x.key = NoKey /\ request[r].at = "idle"
    BY <1>5, BeginBecomes DEF IInv
  <2>3. request[r].at = "idle" => request[r].key = NoKey
    BY <1>1 DEF RequestSound
  <2> QED
    BY <1>1, <1>2, <1>3, <2>1, <2>2, <2>3, KeylessGoesOn
<1>6. ASSUME NEW r \in Requests, Update(r) \/ Archive(r) PROVE FilesOwned'
  <2>1. Becomes(r, Free) /\ request[r].key = NoKey /\ UNCHANGED storage
    BY <1>1, <1>6, FinishBecomes DEF Update, Archive, RequestSound
  <2> QED
    BY <1>1, <1>2, <1>3, <1>6, <2>1, KeysStayInRows, KeylessGoesOn
<1>7. ASSUME NEW r \in Requests, NEW d \in Quotations, ExpireWrite(r, d) \/ ExpirePublish(r, d)
      PROVE  FilesOwned'
  <2>1. /\ request[r].at = "expire" /\ request[r].key = NoKey
        /\ UNCHANGED storage /\ KeysOfRowsStay
    BY <1>1, <1>3, <1>7, KeysStayInRows DEF ExpireWrite, ExpirePublish, RequestSound
  <2>2. \E op \in {request[r].op, "none"}, due, expired \in SUBSET Quotations :
            Expiring(r, op, due, expired)
    <3>1. request[r].due \subseteq Quotations /\ request[r].expired \subseteq Quotations
      BY TypesOfVariables DEF IInv, RequestRecords
    <3>2. CASE ExpireWrite(r, d)
      <4> DEFINE won == IF quotation[d].status = "SENT" THEN {d} ELSE {}
      <4>1. Expiring(r, request[r].op, request[r].due \ {d}, request[r].expired \cup won)
        BY <3>2 DEF ExpireWrite
      <4>2. request[r].due \ {d} \in SUBSET Quotations
            /\ request[r].expired \cup won \in SUBSET Quotations
        BY <3>1
      <4> QED
        BY <4>1, <4>2
    <3>3. CASE ExpirePublish(r, d)
      <4>1. \E op \in {request[r].op, "none"} :
                Expiring(r, op, request[r].due, request[r].expired \ {d})
        BY <3>3 DEF ExpirePublish
      <4>2. request[r].due \in SUBSET Quotations
            /\ request[r].expired \ {d} \in SUBSET Quotations
        BY <3>1
      <4> QED
        BY <4>1, <4>2
    <3> QED
      BY <1>7, <3>2, <3>3
  <2>3. \E x : Becomes(r, x) /\ x.key = NoKey
    <3>1. PICK op \in {request[r].op, "none"}, due \in SUBSET Quotations,
               expired \in SUBSET Quotations : Expiring(r, op, due, expired)
      BY <2>2
    <3> QED
      BY <2>1, <3>1, ExpiringBecomes DEF IInv
  <2> QED
    BY <1>1, <1>2, <2>1, <2>3, KeylessGoesOn
<1>8. ASSUME NEW r \in Requests, ReadRow(r) PROVE FilesOwned'
  <2>1. request[r].key = NoKey /\ UNCHANGED <<quotation, storage>>
    BY <1>1, <1>8 DEF ReadRow, RequestSound
  <2>2. \E x : Becomes(r, x) /\ x.key = NoKey
    BY <1>8, ReadRowBecomes DEF IInv
  <2> QED
    BY <1>1, <1>2, <1>3, <2>1, <2>2, KeylessGoesOn
<1>9. ASSUME NEW r \in Requests, Proceed(r) PROVE FilesOwned'
  BY <1>1, <1>2, <1>6, <1>7, <1>8, <1>9, FilesAfterPut, FilesAfterCommit,
     FilesAfterPublishChange, FilesAfterCleanup DEF Proceed
<1>10. ASSUME NEW r \in Requests, Abort(r) PROVE FilesOwned'
  BY <1>1, <1>2, <1>10, FilesAfterAbort
<1>11. CASE NextDay \/ UNCHANGED vars
  BY <1>1, <1>2, <1>3, <1>11, KeysUntouched DEF NextDay, vars
<1> QED
  BY <1>4, <1>5, <1>9, <1>10, <1>11 DEF Next

-----------------------------------------------------------------------------
(* Who announces a change *)

Announcements == AnnouncersAlone /\ AnnouncedOnce

\* What was reached stays reached.
LEMMA ReachedStays ==
    ASSUME RowsGoOn, NEW q \in Quotations, NEW status, Reached(q, status)
    PROVE  Reached(q, status)'
BY DEF RowsGoOn, RowGoesOn, Reached

\* A step that publishes nothing and gives nobody anything to announce.
LEMMA NothingToAnnounce ==
    ASSUME RowsGoOn, Announcements, UNCHANGED published,
           \A r \in Requests, q \in Quotations, status \in Statuses :
               IsToAnnounce(r, q, status)' => IsToAnnounce(r, q, status)
    PROVE  Announcements'
<1>1. AnnouncersAlone'
  BY ReachedStays DEF Announcements, AnnouncersAlone
<1>2. AnnouncedOnce'
  BY DEF Announcements, AnnouncedOnce
<1> QED
  BY <1>1, <1>2 DEF Announcements

\* A request goes on with no more to announce than it had.
LEMMA OneGoesOnQuietly ==
    ASSUME IInv, RowsGoOn, UNCHANGED published,
           NEW r \in Requests, NEW x, Becomes(r, x), x.at # "publish",
           x.at = "expire" => \/ x.expired = {}
                              \/ request[r].at = "expire" /\ x.expired \subseteq request[r].expired
    PROVE  Announcements'
<1>1. request'[r] = x /\ \A other \in Requests : other # r => request'[other] = request[other]
  BY TypesOfVariables DEF IInv, Becomes
<1>2. ASSUME NEW any \in Requests, NEW q \in Quotations, NEW status \in Statuses,
             IsToAnnounce(any, q, status)'
      PROVE  IsToAnnounce(any, q, status)
  <2>1. CASE any = r
    BY <1>1, <1>2, <2>1 DEF IsToAnnounce
  <2>2. CASE any # r
    BY <1>1, <1>2, <2>2 DEF IsToAnnounce
  <2> QED
    BY <2>1, <2>2
<1> QED
  BY <1>2, NothingToAnnounce DEF IInv, Announcements

\* A request has changed a status, and is to announce that and what it was to
\* announce before.
LEMMA OneHasMore ==
    ASSUME IInv, RowsGoOn, UNCHANGED published,
           NEW r \in Requests, NEW x, Becomes(r, x),
           NEW d \in Quotations, NEW new \in Statuses,
           ~Reached(d, new), Reached(d, new)',
           \A q \in Quotations, status \in Statuses :
               IsToAnnounce(r, q, status)' =>
                   IsToAnnounce(r, q, status) \/ (q = d /\ status = new)
    PROVE  Announcements'
<1>1. request'[r] = x /\ \A other \in Requests : other # r => request'[other] = request[other]
  BY TypesOfVariables DEF IInv, Becomes
<1>2. AnnouncersAlone /\ AnnouncedOnce
  BY DEF IInv
<1>3. ~BagIn(<<d, new>>, published) /\ \A any \in Requests : ~IsToAnnounce(any, d, new)
  BY <1>2 DEF AnnouncersAlone
<1>4. ASSUME NEW any \in Requests, NEW q \in Quotations, NEW status \in Statuses,
             IsToAnnounce(any, q, status)'
      PROVE  IsToAnnounce(any, q, status) \/ (any = r /\ q = d /\ status = new)
  <2>1. CASE any = r
    BY <1>4, <2>1
  <2>2. CASE any # r
    BY <1>1, <1>4, <2>2 DEF IsToAnnounce
  <2> QED
    BY <2>1, <2>2
<1>5. ASSUME NEW q \in Quotations, NEW status \in Statuses, BagIn(<<q, status>>, published)'
      PROVE  Reached(q, status)'
  BY <1>2, <1>5, ReachedStays DEF AnnouncersAlone
<1>6. ASSUME NEW any \in Requests, NEW q \in Quotations, NEW status \in Statuses,
             IsToAnnounce(any, q, status)'
      PROVE  /\ Reached(q, status)'
             /\ ~BagIn(<<q, status>>, published')
             /\ \A other \in Requests \ {any} : ~IsToAnnounce(other, q, status)'
  <2>1. CASE q = d /\ status = new
    BY <1>3, <1>4, <1>6, <2>1
  <2>2. CASE ~(q = d /\ status = new)
    <3>1. IsToAnnounce(any, q, status)
      BY <1>4, <1>6, <2>2
    <3> QED
      BY <1>2, <1>4, <2>2, <3>1, ReachedStays DEF AnnouncersAlone
  <2> QED
    BY <2>1, <2>2
<1> QED
  BY <1>2, <1>5, <1>6 DEF Announcements, AnnouncersAlone, AnnouncedOnce

\* A request announces what it was to announce, and nobody is to any more.
LEMMA OneAnnounces ==
    ASSUME IInv, RowsGoOn, NEW r \in Requests, NEW x, Becomes(r, x),
           NEW d \in Quotations, NEW new \in Statuses,
           IsToAnnounce(r, d, new), Publish(d, new),
           \A q \in Quotations, status \in Statuses :
               IsToAnnounce(r, q, status)' =>
                   IsToAnnounce(r, q, status) /\ ~(q = d /\ status = new)
    PROVE  Announcements'
<1>1. request'[r] = x /\ \A other \in Requests : other # r => request'[other] = request[other]
  BY TypesOfVariables DEF IInv, Becomes
<1>2. AnnouncersAlone /\ AnnouncedOnce /\ PublishedTyped
  BY TypesOfVariables DEF IInv
<1>3. /\ ~BagIn(<<d, new>>, published) /\ Reached(d, new)
      /\ \A other \in Requests \ {r} : ~IsToAnnounce(other, d, new)
  BY <1>2 DEF AnnouncersAlone
<1>4. /\ BagToSet(published') = BagToSet(published) \cup {<<d, new>>}
      /\ \A event \in BagToSet(published) :
             event # <<d, new>> => published'[event] = published[event]
      /\ published'[<<d, new>>] = 1
  BY <1>2, <1>3, PublishAdds
<1>5. ASSUME NEW any \in Requests, NEW q \in Quotations, NEW status \in Statuses,
             IsToAnnounce(any, q, status)'
      PROVE  IsToAnnounce(any, q, status) /\ ~(q = d /\ status = new)
  <2>1. CASE any = r
    BY <1>5, <2>1
  <2>2. CASE any # r
    <3>1. IsToAnnounce(any, q, status)
      BY <1>1, <1>5, <2>2 DEF IsToAnnounce
    <3> QED
      BY <1>3, <2>2, <3>1
  <2> QED
    BY <2>1, <2>2
<1>6. AnnouncersAlone'
  <2>1. ASSUME NEW q \in Quotations, NEW status \in Statuses, BagIn(<<q, status>>, published')
        PROVE  Reached(q, status)'
    <3>1. BagIn(<<q, status>>, published) \/ (q = d /\ status = new)
      BY <1>4, <2>1 DEF BagIn
    <3>2. Reached(q, status)
      BY <1>2, <1>3, <3>1 DEF AnnouncersAlone
    <3> QED
      BY <3>2, ReachedStays
  <2>2. ASSUME NEW any \in Requests, NEW q \in Quotations, NEW status \in Statuses,
               IsToAnnounce(any, q, status)'
        PROVE  /\ Reached(q, status)'
               /\ ~BagIn(<<q, status>>, published')
               /\ \A other \in Requests \ {any} : ~IsToAnnounce(other, q, status)'
    <3>1. IsToAnnounce(any, q, status) /\ ~(q = d /\ status = new)
      BY <1>5, <2>2
    <3>2. /\ Reached(q, status) /\ ~BagIn(<<q, status>>, published)
          /\ \A other \in Requests \ {any} : ~IsToAnnounce(other, q, status)
      BY <1>2, <3>1 DEF AnnouncersAlone
    <3>3. ~BagIn(<<q, status>>, published')
      BY <1>4, <3>1, <3>2 DEF BagIn
    <3> QED
      BY <1>5, <3>2, <3>3, ReachedStays
  <2> QED
    BY <2>1, <2>2 DEF AnnouncersAlone
<1>7. AnnouncedOnce'
  BY <1>2, <1>4 DEF AnnouncedOnce
<1> QED
  BY <1>6, <1>7 DEF Announcements

LEMMA AnnouncementsAfterExpireWrite ==
    ASSUME IInv, RowsGoOn, NEW r \in Requests, NEW d \in Quotations, ExpireWrite(r, d)
    PROVE  Announcements'
<1> DEFINE won == IF quotation[d].status = "SENT" THEN {d} ELSE {}
           due == request[r].due \ {d}
           expired == request[r].expired \cup won
<1>1. /\ request[r].at = "expire" /\ UNCHANGED published
      /\ Expiring(r, request[r].op, due, expired)
  BY DEF ExpireWrite
<1>2. due \in SUBSET Quotations /\ expired \in SUBSET Quotations
  BY TypesOfVariables DEF IInv, RequestRecords
<1> HIDE DEF due, expired
<1>3. PICK x : /\ Becomes(r, x) /\ x.at \in {"idle", "expire", "read"}
               /\ x.at = "expire" => x.expired = expired
  <2> QED
    BY <1>1, <1>2, ExpiringBecomes DEF IInv
<1>4. CASE quotation[d].status = "SENT"
  <2>1. quotation' = [q \in Quotations |->
            IF q \in {d} THEN [quotation[q] EXCEPT !.status = "EXPIRED"] ELSE quotation[q]]
    BY <1>4 DEF ExpireWrite
  <2>2. quotation'[d].status = "EXPIRED"
    BY <2>1, TypesOfVariables DEF IInv, QuotationRecords
  <2>3. ~Reached(d, "EXPIRED") /\ Reached(d, "EXPIRED")' /\ "EXPIRED" \in Statuses
    BY <1>4, <2>2 DEF Reached, Statuses
  <2>4. request'[r] = x
    BY <1>3, TypesOfVariables DEF IInv, Becomes
  <2>5. expired = request[r].expired \cup {d}
    BY <1>4 DEF expired
  <2>6. ASSUME NEW q \in Quotations, NEW status \in Statuses, IsToAnnounce(r, q, status)'
        PROVE  IsToAnnounce(r, q, status) \/ (q = d /\ status = "EXPIRED")
    BY <1>1, <1>3, <2>4, <2>5, <2>6 DEF IsToAnnounce
  <2> QED
    BY <1>1, <1>3, <2>3, <2>6, OneHasMore
<1>5. CASE quotation[d].status # "SENT"
  <2>1. expired = request[r].expired
    BY <1>5 DEF expired
  <2> QED
    BY <1>1, <1>3, <2>1, OneGoesOnQuietly
<1> QED
  BY <1>4, <1>5

LEMMA AnnouncementsAfterExpirePublish ==
    ASSUME IInv, RowsGoOn, NEW r \in Requests, NEW d \in Quotations, ExpirePublish(r, d)
    PROVE  Announcements'
<1> DEFINE expired == request[r].expired \ {d}
<1>1. request[r].at = "expire" /\ d \in request[r].expired
  BY DEF ExpirePublish
<1>2. request[r].due \in SUBSET Quotations /\ expired \in SUBSET Quotations
  BY TypesOfVariables DEF IInv, RequestRecords
<1>3. ASSUME NEW op \in {request[r].op, "none"}, Expiring(r, op, request[r].due, expired)
      PROVE  \E x : /\ Becomes(r, x) /\ x.at \in {"idle", "expire", "read"}
                    /\ x.at = "expire" => x.expired = expired
  <2> HIDE DEF expired
  <2> QED
    BY <1>1, <1>2, <1>3, ExpiringBecomes DEF IInv
<1>4. CASE Publish(d, "EXPIRED") /\ Expiring(r, request[r].op, request[r].due, expired)
  <2>1. PICK x : /\ Becomes(r, x) /\ x.at \in {"idle", "expire", "read"}
                 /\ x.at = "expire" => x.expired = expired
    BY <1>3, <1>4
  <2>2. request'[r] = x
    BY <2>1, TypesOfVariables DEF IInv, Becomes
  <2>3. IsToAnnounce(r, d, "EXPIRED") /\ "EXPIRED" \in Statuses
    BY <1>1 DEF IsToAnnounce, Statuses
  <2>4. ASSUME NEW q \in Quotations, NEW status \in Statuses, IsToAnnounce(r, q, status)'
        PROVE  IsToAnnounce(r, q, status) /\ ~(q = d /\ status = "EXPIRED")
    BY <1>1, <2>1, <2>2, <2>4 DEF IsToAnnounce
  <2> QED
    BY <1>4, <2>1, <2>3, <2>4, OneAnnounces
<1>5. CASE UNCHANGED published /\ Expiring(r, "none", request[r].due, expired)
  <2>1. PICK x : /\ Becomes(r, x) /\ x.at \in {"idle", "expire", "read"}
                 /\ x.at = "expire" => x.expired = expired
    BY <1>3, <1>5
  <2> QED
    BY <1>1, <1>5, <2>1, OneGoesOnQuietly
<1> QED
  BY <1>4, <1>5 DEF ExpirePublish

LEMMA AnnouncementsAfterCatch ==
    ASSUME IInv, RowsGoOn, UNCHANGED published, NEW r \in Requests,
           request[r].at \in {"commit", "publish"}, Catch(r)
    PROVE  Announcements'
<1>1. /\ Free.at = "idle"
      /\ [request[r] EXCEPT !.at = "cleanup"].at = "cleanup"
  BY TypesOfVariables DEF IInv, Free, RequestRecords
<1>2. PICK x : Becomes(r, x) /\ x.at \in {"idle", "cleanup"}
  BY <1>1, CatchBecomes DEF IInv
<1> QED
  BY <1>2, OneGoesOnQuietly

LEMMA AnnouncementsAfterCommit ==
    ASSUME IInv, RowsGoOn, NEW r \in Requests, Commit(r)
    PROVE  Announcements'
<1>1. request[r].at = "commit" /\ UNCHANGED published
  BY DEF Commit
<1>2. CASE Committed(r)
  <2>1. /\ request[r] \in RequestRecords /\ request \in [Requests -> RequestRecords]
        /\ request[r].quotation \in Quotations /\ request[r].op \in Actions
    BY <1>1, TypesOfVariables DEF IInv, RequestsSound, RequestSound
  <2>2. NewStatus[request[r].op] \in Statuses
    BY <2>1 DEF Actions, NewStatus, Statuses
  <2>3. PICK d \in Quotations, new \in Statuses :
            d = request[r].quotation /\ new = NewStatus[request[r].op]
    BY <2>1, <2>2
  <2>4. Becomes(r, [request[r] EXCEPT !.at = "publish"])
    BY <1>1, <1>2, GotoBecomes DEF IInv, Committed
  <2>5. Becomes(r, request'[r])
    BY <2>1, <2>4 DEF Becomes
  <2>6. /\ request'[r].at = "publish" /\ request'[r].quotation = d
        /\ request'[r].op = request[r].op
    BY <2>1, <2>3, <2>4 DEF Becomes, RequestRecords
  <2>7. quotation'[d].status = new
    BY <1>1, <1>2, <2>3, CommittedRow DEF IInv
  <2>8. /\ new \in {"SENT", "ACCEPTED", "REJECTED"}
        /\ quotation[d].status \in {"DRAFT", "SENT"} /\ quotation[d].status # new
    BY <1>2, <2>1, <2>3 DEF Committed, Unchanged, Actions, Allowed, NewStatus
  <2>9. ~Reached(d, new) /\ Reached(d, new)'
    BY <2>7, <2>8 DEF Reached
  <2>10. ASSUME NEW q \in Quotations, NEW status \in Statuses, IsToAnnounce(r, q, status)'
         PROVE  q = d /\ status = new
    BY <2>3, <2>6, <2>10 DEF IsToAnnounce
  <2> QED
    BY <1>1, <2>5, <2>9, <2>10, OneHasMore
<1>3. CASE Catch(r)
  BY <1>1, <1>3, AnnouncementsAfterCatch
<1> QED
  BY <1>2, <1>3 DEF Commit, Committed

LEMMA AnnouncementsAfterPublishChange ==
    ASSUME IInv, RowsGoOn, NEW r \in Requests, PublishChange(r)
    PROVE  Announcements'
<1> DEFINE d == request[r].quotation
           new == NewStatus[request[r].op]
<1>1. request[r].at = "publish" /\ d \in Quotations /\ request[r].op \in Actions
  BY DEF PublishChange, IInv, RequestsSound, RequestSound
<1>2. CASE Publish(d, new) /\ Finish(r)
  <2>1. Becomes(r, Free)
    BY <1>2, FinishBecomes
  <2>2. request'[r] = Free
    BY <2>1, TypesOfVariables DEF IInv, Becomes
  <2>3. IsToAnnounce(r, d, new) /\ new \in Statuses
    BY <1>1 DEF IsToAnnounce, Actions, NewStatus, Statuses
  <2>4. \A q \in Quotations, status \in Statuses : ~IsToAnnounce(r, q, status)'
    BY <2>2 DEF IsToAnnounce, Free
  <2> HIDE DEF d, new
  <2> QED
    BY <1>1, <1>2, <2>1, <2>3, <2>4, OneAnnounces
<1>3. CASE Catch(r) /\ UNCHANGED published
  BY <1>1, <1>3, AnnouncementsAfterCatch
<1> QED
  BY <1>2, <1>3 DEF PublishChange

LEMMA AnnouncementsKept ==
    ASSUME IInv, [Next]_vars
    PROVE  Announcements'
<1>1. RowsGoOn
  BY RowsAfterStep
<1>2. ASSUME NEW r \in Requests, Finish(r), UNCHANGED published PROVE Announcements'
  BY <1>1, <1>2, FinishBecomes, OneGoesOnQuietly DEF Free
<1>3. ASSUME UNCHANGED <<request, published>> PROVE Announcements'
  BY <1>1, <1>3, NothingToAnnounce DEF IInv, Announcements, IsToAnnounce
<1>4. ASSUME NEW r \in Requests, NEW q \in Quotations, Begin(r, q) PROVE Announcements'
  <2>1. UNCHANGED published
    BY <1>4 DEF Begin, RequireDraft, ExpireRead
  <2>2. PICK x : /\ Becomes(r, x) /\ x.at \in {"update", "archive", "expire", "read"}
                 /\ x.expired = {}
    BY <1>4, BeginBecomes DEF IInv
  <2> QED
    BY <1>1, <2>1, <2>2, OneGoesOnQuietly
<1>5. ASSUME NEW r \in Requests, ReadRow(r) PROVE Announcements'
  <2>1. UNCHANGED published
    BY <1>5 DEF ReadRow
  <2>2. PICK x : Becomes(r, x) /\ x.at \in {"idle", "put", "commit"}
    BY <1>5, ReadRowBecomes DEF IInv
  <2> QED
    BY <1>1, <2>1, <2>2, OneGoesOnQuietly
<1>6. ASSUME NEW r \in Requests, Put(r) PROVE Announcements'
  <2>1. UNCHANGED published
    BY <1>6 DEF Put
  <2>2. \E x : Becomes(r, x) /\ x.at \in {"idle", "commit"}
    <3>1. PICK k \in Keys : \/ Becomes(r, [request[r] EXCEPT !.at = "commit", !.key = k])
                            \/ Becomes(r, Free)
      BY <1>6, PutBecomes DEF IInv
    <3>2. /\ [request[r] EXCEPT !.at = "commit", !.key = k].at = "commit"
          /\ Free.at = "idle"
      BY TypesOfVariables DEF IInv, RequestRecords, Free
    <3> QED
      BY <3>1, <3>2
  <2> QED
    BY <1>1, <2>1, <2>2, OneGoesOnQuietly
<1>7. ASSUME NEW r \in Requests, Proceed(r) PROVE Announcements'
  <2>1. Update(r) \/ Archive(r) \/ Cleanup(r) => Finish(r) /\ UNCHANGED published
    BY DEF Update, Archive, Cleanup
  <2> QED
    BY <1>1, <1>2, <1>5, <1>6, <1>7, <2>1, AnnouncementsAfterExpireWrite,
       AnnouncementsAfterExpirePublish, AnnouncementsAfterCommit,
       AnnouncementsAfterPublishChange DEF Proceed
<1>8. ASSUME NEW r \in Requests, Abort(r) PROVE Announcements'
  BY <1>2, <1>8 DEF Abort
<1>9. ASSUME (\E q \in Quotations : Create(q)) \/ NextDay \/ UNCHANGED vars
      PROVE  Announcements'
  BY <1>3, <1>9 DEF Create, NextDay, vars
<1> QED
  BY <1>4, <1>7, <1>8, <1>9 DEF Next

-----------------------------------------------------------------------------
(* Theorems *)

LEMMA NextIInv == IInv /\ [Next]_vars => IInv'
BY TypesKept, RequestsKept, FilesKept, AnnouncementsKept
   DEF IInv, FilesOwned, Announcements

LEMMA SpecIInv == Spec => []IInv
BY InitIInv, NextIInv, PTL DEF Spec

\* Every row, file and request is in a state the code can produce; a snapshot
\* key is there exactly from SENT on.
THEOREM TypesCorrect == Spec => []TypeOK
<1>1. IInv => TypeOK
  BY DEF IInv
<1> QED
  BY <1>1, SpecIInv, PTL

\* Whatever requests race, a quotation lives its life in order, and an
\* archived one can at most expire.
THEOREM LifecycleInOrder == Spec => Lifecycle
<1>1. IInv /\ [Next]_vars =>
          [\A q \in Quotations :
              LET from == quotation[q].status
                  to == quotation'[q].status
              IN  from # to =>
                     /\ <<from, to>> \in {<<"absent", "DRAFT">>, <<"DRAFT", "SENT">>}
                                         \cup {"SENT"} \X {"ACCEPTED", "REJECTED", "EXPIRED"}
                     /\ quotation[q].archived => to = "EXPIRED"]_vars
  BY RowsAfterStep DEF RowsGoOn, RowGoesOn
<1> QED
  BY <1>1, SpecIInv, PTL DEF Spec, Lifecycle

\* Unless a process dies or the storage fails, a request that loses the race
\* to send leaves no file behind.
THEOREM NoFileOrphaned == Spec => []NoOrphanFiles
<1>1. IInv => NoOrphanFiles
  BY DEF IInv
<1> QED
  BY <1>1, SpecIInv, PTL

\* However many requests find a quotation overdue or send it at once, a change
\* of its status is announced at most once.
THEOREM NothingAnnouncedTwice == Spec => []AnnouncedOnce
<1>1. IInv => AnnouncedOnce
  BY DEF IInv
<1> QED
  BY <1>1, SpecIInv, PTL

\* Put writes under an unused key, and Cleanup, when no publication failed,
\* removes a file that is no snapshot.
LEMMA SnapshotStays ==
    ASSUME IInv, [Next]_vars, "publish" \notin env.kinds,
           NEW q \in Quotations, quotation[q].key # NoKey
    PROVE  /\ quotation'[q].key = quotation[q].key
           /\ storage'[quotation[q].key] = storage[quotation[q].key]
<1> DEFINE k == quotation[q].key
<1>1. /\ k \in Keys /\ storage \in [Keys -> FileRecords]
      /\ storage[k].file # "unused"
  BY TypesOfVariables DEF IInv, QuotationRecords, SnapshotsOwned
<1>2. quotation'[q].key = k
  BY RowsAfterStep DEF RowsGoOn, RowGoesOn
<1>3. ASSUME NEW r \in Requests, Put(r) PROVE storage'[k] = storage[k]
  <2>1. PICK new \in Keys : /\ storage[new].file = "unused"
                            /\ storage' \in {storage, Stored(new, request[r].version)}
    BY <1>3 DEF Put
  <2> QED
    BY <1>1, <2>1 DEF Stored
<1>4. ASSUME NEW r \in Requests, Cleanup(r) PROVE storage'[k] = storage[k]
  <2>1. request[r].key # k
    BY <1>4 DEF IInv, Cleanup, RequestsSound, RequestSound, SnapshotsOwned
  <2> QED
    BY <1>1, <1>4, <2>1 DEF Cleanup
<1>5. \/ UNCHANGED storage
      \/ \E r \in Requests : Put(r) \/ Cleanup(r)
  BY DEF Next, Create, Begin, RequireDraft, ExpireRead, Proceed, Update, Archive,
         ExpireWrite, ExpirePublish, ReadRow, Commit, PublishChange, Abort, NextDay, vars
<1> QED
  BY <1>2, <1>3, <1>4, <1>5

\* Unless a publication fails, a snapshot is never exchanged, changed or
\* deleted: the requests that lose the race to send remove their own files.
THEOREM SnapshotNeverLost == Spec => SnapshotKeptUnlessPublishFails
<1>1. IInv /\ [Next]_vars =>
          [\A q \in Quotations :
              "publish" \notin env.kinds /\ quotation[q].key # NoKey =>
                  /\ quotation'[q].key = quotation[q].key
                  /\ storage'[quotation[q].key] = storage[quotation[q].key]]_vars
  BY SnapshotStays
<1> QED
  BY <1>1, SpecIInv, PTL DEF Spec, SnapshotKeptUnlessPublishFails
=============================================================================
