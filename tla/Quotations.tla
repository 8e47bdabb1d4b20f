----------------------------- MODULE Quotations -----------------------------
(***************************************************************************)
(* The life of a quotation: apps/api/src/quotations/quotations.service.ts. *)
(*                                                                         *)
(* API requests edit, archive, send, accept, reject and view quotations at *)
(* the same time.  Each database transaction, storage call and publication *)
(* is a step.  Sending stores a PDF of the row as it was read, under a     *)
(* fresh key, before the compare-and-set that makes the quotation SENT.    *)
(* There is no timer: overdue quotations are expired by whichever request  *)
(* comes next.  What a quotation says is abstracted to a version number.   *)
(***************************************************************************)
EXTENDS Naturals, Bags

CONSTANTS Quotations,
          Requests,      \* API requests in progress at a time
          Keys,          \* random storage keys, each used once
          NoQuotation, NoKey,
          MaxDay,        \* bound: days that pass
          MaxVersion,    \* bound: edits
          Environments   \* what the world around may do, see env

EnvironmentRecords ==
    [kinds : SUBSET {"publish", "database", "storage", "process"},
     maxFaults : Nat, faults : Nat]

ASSUME QuotationAssumption ==
    /\ NoQuotation \notin Quotations /\ NoKey \notin Keys
    /\ MaxDay \in Nat /\ MaxVersion \in Nat
    /\ Environments \subseteq EnvironmentRecords
    /\ \A x \in Environments : x.faults = 0

VARIABLES
    quotation,  \* the quotations rows
    storage,    \* key -> the file under it and the version its PDF shows
    request,    \* the requests and what they have read
    version,    \* number of versions written so far
    today,
    published,  \* the bag of quotation.status_changed events
    env         \* the number, and the bound, of faults of the given kinds

vars == <<quotation, storage, request, version, today, published, env>>

-----------------------------------------------------------------------------
Statuses == {"absent", "DRAFT", "SENT", "ACCEPTED", "REJECTED", "EXPIRED"}
Actions == {"send", "accept", "reject"}
NewStatus == [send |-> "SENT", accept |-> "ACCEPTED", reject |-> "REJECTED"]
Allowed == [send |-> "DRAFT", accept |-> "SENT", reject |-> "SENT"]

\* One expiry date beyond the last day stands for all later ones and for none.
Dates == 0..(MaxDay + 1)

\* due and expired: the quotations expireDue has read, and has just expired.
Free == [at |-> "idle", op |-> "none", quotation |-> NoQuotation, version |-> 0,
         key |-> NoKey, due |-> {}, expired |-> {}]

Init ==
    /\ quotation = [q \in Quotations |->
          [status |-> "absent", archived |-> FALSE, version |-> 0, expiry |-> 0,
           key |-> NoKey]]
    /\ storage = [k \in Keys |-> [file |-> "unused", version |-> 0]]
    /\ request = [r \in Requests |-> Free]
    /\ version = 0
    /\ today = 0
    /\ published = EmptyBag
    /\ env \in Environments

Fault(kind) ==
    /\ kind \in env.kinds
    /\ env.faults < env.maxFaults
    /\ env' = [env EXCEPT !.faults = @ + 1]

Goto(r, step) == request' = [request EXCEPT ![r].at = step]
Finish(r) == request' = [request EXCEPT ![r] = Free]

Publish(q, status) == published' = published (+) SetToBag({<<q, status>>})

-----------------------------------------------------------------------------
(* create, update, archive *)

\* The counter, the quotation and its items are written in one transaction.
Create(q) ==
    /\ quotation[q].status = "absent"
    /\ \E date \in Dates :
          quotation' = [quotation EXCEPT ![q].status = "DRAFT", ![q].expiry = date]
    /\ UNCHANGED <<storage, request, version, today, published, env>>

\* requireDraft; `op` is "update" or "archive".
RequireDraft(r, q, op) ==
    /\ request[r].at = "idle"
    /\ quotation[q].status = "DRAFT" /\ ~quotation[q].archived
    /\ request' = [request EXCEPT ![r] = [Free EXCEPT !.at = op, !.quotation = q]]
    /\ UNCHANGED <<quotation, storage, version, today, published, env>>

\* The transaction replaces items and totals; it names the row by id only.
Update(r) ==
    /\ request[r].at = "update"
    /\ version < MaxVersion
    /\ version' = version + 1
    /\ \E date \in Dates :
          quotation' = [quotation EXCEPT ![request[r].quotation].version = version',
                                         ![request[r].quotation].expiry = date]
    /\ Finish(r)
    /\ UNCHANGED <<storage, today, published, env>>

Archive(r) ==
    /\ request[r].at = "archive"
    /\ quotation' = [quotation EXCEPT ![request[r].quotation].archived = TRUE]
    /\ Finish(r)
    /\ UNCHANGED <<storage, version, today, published, env>>

-----------------------------------------------------------------------------
(* expireDue, the first thing transition, list, get, summary and pdfContent *)
(* do; `op` is the action of transition, or "view" for the others.          *)

ExpireRead(r, q, op) ==
    /\ request[r].at = "idle"
    /\ LET due == {d \in Quotations : quotation[d].status = "SENT"
                                          /\ quotation[d].expiry < today}
       IN  request' = [request EXCEPT ![r] =
              [Free EXCEPT !.at = IF due = {} THEN "read" ELSE "expire",
                           !.op = op, !.quotation = q, !.due = due]]
    /\ UNCHANGED <<quotation, storage, version, today, published, env>>

\* The request goes on with its own work when nothing is left to expire.
Expiring(r, op, due, expired) ==
    request' = [request EXCEPT
        ![r] = IF due \cup expired = {} /\ op = "none" THEN Free
               ELSE [@ EXCEPT !.at = IF due \cup expired = {} THEN "read" ELSE "expire",
                              !.op = op, !.due = due, !.expired = expired]]

\* Faulty variants of ExpireWrite: the update's count is not looked at, or
\* the event is forgotten.
ExpireWriteUncounted(r, d) ==
    /\ request[r].at = "expire" /\ d \in request[r].due
    /\ quotation' = [quotation EXCEPT ![d].status = IF @ = "SENT" THEN "EXPIRED" ELSE @]
    /\ Expiring(r, request[r].op, request[r].due \ {d}, request[r].expired \cup {d})
    /\ UNCHANGED <<storage, version, today, published, env>>
ExpireWriteSilent(r, d) ==
    /\ request[r].at = "expire" /\ d \in request[r].due
    /\ quotation' = [quotation EXCEPT ![d].status = IF @ = "SENT" THEN "EXPIRED" ELSE @]
    /\ Expiring(r, request[r].op, request[r].due \ {d}, request[r].expired)
    /\ UNCHANGED <<storage, version, today, published, env>>

\* Compare-and-set from SENT; only the request that made the change goes on
\* to publish it.
ExpireWrite(r, d) ==
    /\ request[r].at = "expire" /\ d \in request[r].due
    /\ LET won == IF quotation[d].status = "SENT" THEN {d} ELSE {}
       IN  /\ quotation' = [q \in Quotations |->
                IF q \in won THEN [quotation[q] EXCEPT !.status = "EXPIRED"]
                             ELSE quotation[q]]
           /\ Expiring(r, request[r].op, request[r].due \ {d}, request[r].expired \cup won)
    /\ UNCHANGED <<storage, version, today, published, env>>

\* A failed publication fails the request; Promise.all lets the others end.
ExpirePublish(r, d) ==
    /\ request[r].at = "expire" /\ d \in request[r].expired
    /\ \/ /\ Publish(d, "EXPIRED")
          /\ Expiring(r, request[r].op, request[r].due, request[r].expired \ {d})
          /\ UNCHANGED env
       \/ /\ Fault("publish")
          /\ Expiring(r, "none", request[r].due, request[r].expired \ {d})
          /\ UNCHANGED published
    /\ UNCHANGED <<quotation, storage, version, today>>

-----------------------------------------------------------------------------
(* transition, after expireDue *)

\* The row is read with its items; a view ends here.
ReadRow(r) ==
    /\ request[r].at = "read"
    /\ LET row == quotation[request[r].quotation]
           op == request[r].op
       IN  IF op \in Actions /\ ~row.archived /\ row.status = Allowed[op]
           THEN request' = [request EXCEPT ![r].at = IF op = "send" THEN "put" ELSE "commit",
                                           ![r].version = row.version]
           ELSE Finish(r)
    /\ UNCHANGED <<quotation, storage, version, today, published, env>>

Stored(k, v) == [storage EXCEPT ![k] = [file |-> "stored", version |-> v]]

\* The PDF is generated from the row that was read and stored; an error here
\* is not caught, and may come after the file was written.
Put(r) ==
    /\ request[r].at = "put"
    /\ \E k \in {k \in Keys : storage[k].file = "unused"} :
          \/ /\ storage' = Stored(k, request[r].version)
             /\ request' = [request EXCEPT ![r].at = "commit", ![r].key = k]
             /\ UNCHANGED env
          \/ /\ Fault("storage")
             /\ storage' \in {storage, Stored(k, request[r].version)}
             /\ Finish(r)
    /\ UNCHANGED <<quotation, version, today, published>>

\* Where an error in the try block leads.
Catch(r) == IF request[r].key = NoKey THEN Finish(r) ELSE Goto(r, "cleanup")

\* Faulty variants of Unchanged: the status, or the archive mark, is not compared.
UnchangedUnchecked(r) == ~quotation[request[r].quotation].archived
UnchangedArchived(r) == quotation[request[r].quotation].status = Allowed[request[r].op]

\* The condition of the compare-and-set.
Unchanged(r) ==
    /\ quotation[request[r].quotation].status = Allowed[request[r].op]
    /\ ~quotation[request[r].quotation].archived

\* Faulty variant of Commit: the key is not written with the status.
CommitKeyless(r) ==
    /\ request[r].at = "commit"
    /\ Unchanged(r)
    /\ quotation' = [quotation EXCEPT
          ![request[r].quotation].status = NewStatus[request[r].op]]
    /\ Goto(r, "publish")
    /\ UNCHANGED <<storage, version, today, published, env>>

\* Status, snapshot key, audit entry, activities and notification are one
\* transaction; a lost race or a database error is thrown.
Commit(r) ==
    /\ request[r].at = "commit"
    /\ \/ /\ Unchanged(r)
          /\ quotation' = [quotation EXCEPT
                ![request[r].quotation].status = NewStatus[request[r].op],
                ![request[r].quotation].key =
                    IF request[r].op = "send" THEN request[r].key ELSE @]
          /\ Goto(r, "publish")
          /\ UNCHANGED env
       \/ /\ \/ ~Unchanged(r) /\ UNCHANGED env
             \/ Fault("database")
          /\ Catch(r)
          /\ UNCHANGED quotation
    /\ UNCHANGED <<storage, version, today, published>>

\* The publication is inside the same try block as the transaction.
PublishChange(r) ==
    /\ request[r].at = "publish"
    /\ \/ /\ Publish(request[r].quotation, NewStatus[request[r].op])
          /\ Finish(r)
          /\ UNCHANGED env
       \/ /\ Fault("publish")
          /\ Catch(r)
          /\ UNCHANGED published
    /\ UNCHANGED <<quotation, storage, version, today>>

\* Faulty variant of Cleanup: the file of a lost race is kept.
CleanupNothing(r) ==
    /\ request[r].at = "cleanup"
    /\ Finish(r)
    /\ UNCHANGED <<quotation, storage, version, today, published, env>>

Cleanup(r) ==
    /\ request[r].at = "cleanup"
    /\ \/ storage' = [storage EXCEPT ![request[r].key].file = "deleted"] /\ UNCHANGED env
       \/ Fault("storage") /\ UNCHANGED storage
    /\ Finish(r)
    /\ UNCHANGED <<quotation, version, today, published>>

\* The API process dies, or a database call outside the try block throws.
Abort(r) ==
    /\ request[r].at # "idle"
    /\ \/ Fault("process")
       \/ request[r].at \in {"update", "archive", "read"} /\ Fault("database")
    /\ Finish(r)
    /\ UNCHANGED <<quotation, storage, version, today, published>>

NextDay ==
    /\ today < MaxDay
    /\ today' = today + 1
    /\ UNCHANGED <<quotation, storage, request, version, published, env>>

-----------------------------------------------------------------------------
Begin(r, q) ==
    \/ \E op \in {"update", "archive"} : RequireDraft(r, q, op)
    \/ \E op \in Actions \cup {"view"} : ExpireRead(r, q, op)

Proceed(r) ==
    \/ Update(r) \/ Archive(r)
    \/ \E d \in Quotations : ExpireWrite(r, d) \/ ExpirePublish(r, d)
    \/ ReadRow(r) \/ Put(r) \/ Commit(r) \/ PublishChange(r) \/ Cleanup(r)

Next ==
    \/ \E q \in Quotations : Create(q)
    \/ \E r \in Requests :
          (\E q \in Quotations : Begin(r, q)) \/ Proceed(r) \/ Abort(r)
    \/ NextDay

Spec == Init /\ [][Next]_vars

\* A request in progress goes on; nothing makes a request arrive.
FairSpec == Spec /\ \A r \in Requests : WF_vars(Proceed(r))

-----------------------------------------------------------------------------
(* Properties *)

\* Every row, file and request is in a state the code can produce; a snapshot
\* key is there exactly from SENT on.
TypeOK ==
    /\ quotation \in [Quotations ->
          [status : Statuses, archived : BOOLEAN, version : 0..MaxVersion,
           expiry : Dates, key : Keys \cup {NoKey}]]
    /\ \A q \in Quotations :
          quotation[q].key = NoKey <=> quotation[q].status \in {"absent", "DRAFT"}
    /\ storage \in [Keys -> [file : {"unused", "stored", "deleted"}, version : 0..MaxVersion]]
    /\ request \in [Requests ->
          [at : {"idle", "update", "archive", "expire", "read", "put", "commit",
                 "publish", "cleanup"},
           op : Actions \cup {"none", "view"}, quotation : Quotations \cup {NoQuotation},
           version : 0..MaxVersion, key : Keys \cup {NoKey},
           due : SUBSET Quotations, expired : SUBSET Quotations]]
    /\ version \in 0..MaxVersion
    /\ today \in 0..MaxDay
    /\ IsABag(published) /\ BagToSet(published) \subseteq Quotations \X Statuses
    /\ env \in EnvironmentRecords /\ env.faults <= env.maxFaults

\* Whatever requests race, a quotation goes from DRAFT to SENT and from there
\* to one of ACCEPTED, REJECTED and EXPIRED, and an archived one can at most
\* expire.
Lifecycle ==
    [][\A q \in Quotations :
          LET from == quotation[q].status
              to == quotation'[q].status
          IN  from # to =>
                 /\ <<from, to>> \in {<<"absent", "DRAFT">>, <<"DRAFT", "SENT">>}
                                     \cup {"SENT"} \X {"ACCEPTED", "REJECTED", "EXPIRED"}
                 /\ quotation[q].archived => to = "EXPIRED"]_vars

\* README, "later downloads return that snapshot": the snapshot of a
\* quotation is never exchanged, changed or deleted.
SnapshotKept ==
    [][\A q \in Quotations :
          quotation[q].key # NoKey =>
              /\ quotation'[q].key = quotation[q].key
              /\ storage'[quotation[q].key] = storage[quotation[q].key]]_vars

\* The same, as long as no publication fails: a request that loses the race
\* to send removes its own file only.
SnapshotKeptUnlessPublishFails ==
    [][\A q \in Quotations :
          "publish" \notin env.kinds /\ quotation[q].key # NoKey =>
              /\ quotation'[q].key = quotation[q].key
              /\ storage'[quotation[q].key] = storage[quotation[q].key]]_vars

\* Unless a process dies or the storage fails, every stored PDF belongs to a
\* quotation or to a request that is still at work.
NoOrphanFiles ==
    env.kinds \cap {"process", "storage"} = {} =>
        \A k \in Keys : storage[k].file = "stored" =>
            \/ \E q \in Quotations : quotation[q].key = k
            \/ \E r \in Requests : request[r].key = k

\* README, "Sent, accepted, rejected, and expired financial content is not
\* editable": from SENT on, what the quotation says does not change.
ContentFrozen ==
    [][\A q \in Quotations :
          quotation[q].status \notin {"absent", "DRAFT"}
              => quotation'[q].version = quotation[q].version]_vars

\* A change of status is announced to automations and webhooks at most once,
\* however many requests find the quotation overdue.
AnnouncedOnce ==
    \A event \in BagToSet(published) : published[event] = 1

\* Unless something fails, every expiry is announced.
ExpiryIsAnnounced ==
    \A q \in Quotations :
        env.maxFaults = 0 /\ quotation[q].status = "EXPIRED"
            ~> BagIn(<<q, "EXPIRED">>, published)
=============================================================================
