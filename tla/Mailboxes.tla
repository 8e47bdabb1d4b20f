------------------------------ MODULE Mailboxes ------------------------------
(***************************************************************************)
(* Connections to mail servers, the import of what their folders hold, and *)
(* replies: apps/api/src/mailboxes/mailboxes.service.ts and                *)
(* mailbox.helpers.ts.                                                     *)
(*                                                                         *)
(* db.server is what the folders of the mailboxes hold: a validity, and    *)
(* mail under uids that grow until the server numbers them anew under the  *)
(* next validity.  A cursor is where the import of a folder got to; in     *)
(* `from` it remembers, as the program does not, the uid it began at.      *)
(* db.syncs has the attempts left of each import job, whose id is the      *)
(* mailbox and the interval (here a day) it was asked for in.              *)
(***************************************************************************)
EXTENDS CrmMail
LOCAL INSTANCE FiniteSetsExt

CONSTANTS FetchSize,   \* MAILBOX_SYNC_BATCH_SIZE
          SyncAttempts \* MAILBOX_SYNC_ATTEMPTS

ASSUME MailboxesAssumption == FetchSize \in Nat /\ SyncAttempts \in Nat

Cursor == OrNone([validity : Nat, last : Nat, from : Nat])
MailboxRow == [org : Orgs, address : Emails, status : {"CONNECTED", "SYNCING", "ERROR", "DISABLED"},
               cursor : [{"INBOX", "SENT"} -> Cursor]]
Mail == [id : OrNone(Messages \cup MailIds), refs : SUBSET (Messages \cup MailIds),
         from : OrNone(Emails), fit : BOOLEAN, file : BOOLEAN]
FolderOK(folder) ==
    /\ folder = [validity |-> folder.validity, next |-> folder.next, mail |-> folder.mail]
    /\ folder.validity \in Nat /\ folder.next \in 1..(MaxUid + 1)
    /\ RowsOf(folder.mail, 1..(folder.next - 1), Mail)
MailFileRow == [org : Orgs, message : Messages, answered : BOOLEAN]

-----------------------------------------------------------------------------
(* The mail servers *)

\* Somebody writes, in answer to something or not.
MailArrives(p) ==
    /\ Called(p, "server.arrive")
    /\ \E m \in DOMAIN db.mailboxes, from \in Emails, id \in MailIds,
          fit, file \in BOOLEAN :
       \E refs \in {{}} \cup {{db.messages[x].id} : x \in {x \in DOMAIN db.messages :
                                                    db.messages[x].id # None}} :
          LET inbox == db.server[<<m, "INBOX">>]
              mail == [id |-> id, refs |-> refs, from |-> from, fit |-> fit, file |-> file]
          IN  /\ inbox.next <= MaxUid
              /\ BeginWriting(p, [db EXCEPT !.server[<<m, "INBOX">>] = Delivered(@, mail)], "none", None)

\* Somebody deletes a mail.
MailIsDeleted(p) ==
    /\ Called(p, "server.delete")
    /\ \E box \in DOMAIN db.server : \E uid \in DOMAIN db.server[box].mail :
          BeginWriting(p,
             [db EXCEPT !.server = Patch(@, box, [mail |-> Without(@[box].mail, {uid})])],
             "none", None)

\* A folder is restored: what it holds has other uids now.
FolderIsRenumbered(p) ==
    /\ Called(p, "server.renumber")
    /\ \E box \in DOMAIN db.server :
       LET folder == db.server[box]
           uids == DOMAIN folder.mail
           rank(uid) == Cardinality({u \in uids : u <= uid})
       IN  BeginWriting(p,
              [db EXCEPT !.server[box] =
                  [validity |-> folder.validity + 1, next |-> Cardinality(uids) + 1,
                   mail |-> [n \in 1..Cardinality(uids) |->
                                folder.mail[CHOOSE uid \in uids : rank(uid) = n]]]],
              "none", None)

-----------------------------------------------------------------------------
(* Connections *)

AddressFree(org, address, except) ==
    \A m \in OfOrg(db.mailboxes, org) \ except : db.mailboxes[m].address # address
NoCursor == [folder \in {"INBOX", "SENT"} |-> None]

CreateMailbox(p) ==
    \/ /\ Called(p, "mailbox.create")
       /\ \E s \in Callers(<<"Mailboxes", "create">>), address \in Emails :
             Begin(p, "mailbox.create", [org |-> CallerOrg(s), address |-> address])
    \/ /\ At(p, "mailbox.create") /\ HasRoom(Unused(Mailboxes), db.mailboxes)
       /\ LET m == Fresh(Unused(Mailboxes), db.mailboxes)
          IN  CommitIf(p, AddressFree(Arg(p).org, Arg(p).address, {}),
                 [db EXCEPT
                    !.mailboxes = Insert(@, m,
                        Over([status |-> "CONNECTED", cursor |-> NoCursor], Arg(p))),
                    !.server = Insert(@, <<m, "INBOX">>,
                        [validity |-> 1, next |-> 1, mail |-> <<>>])],
                 <<>>)

SetMailbox(m, status) == [db EXCEPT !.mailboxes = Patch(@, m, [status |-> status])]

UpdateMailbox(p) ==
    \/ /\ Called(p, "mailbox.update")
       /\ \E s \in Callers(<<"Mailboxes", "update">>),
             change \in Changes([address |-> Emails, status |-> {"CONNECTED", "DISABLED"}]) :
             \E m \in OfOrg(db.mailboxes, CallerOrg(s)) :
             Begin(p, "mailbox.update", [mailbox |-> m, change |-> change])
    \/ /\ At(p, "mailbox.update")
       /\ LET m == Arg(p).mailbox
              row == db.mailboxes[m]
          IN  CommitIf(p, AddressFree(row.org, Given(Arg(p).change, "address", row.address), {m}),
                 [db EXCEPT !.mailboxes = Patch(@, m, Arg(p).change)], <<>>)

\* testImap and testSmtp: what comes out is written, also over DISABLED.
TestMailbox(p) ==
    \/ /\ Called(p, "mailbox.test")
       /\ \E route \in {"testImap", "testSmtp"} : \E s \in Callers(<<"Mailboxes", route>>) :
             \E m \in OfOrg(db.mailboxes, CallerOrg(s)) : Begin(p, "mailbox.test", m)
    \/ /\ At(p, "mailbox.test")
       /\ \/ Commit(p, SetMailbox(Arg(p), "CONNECTED"), <<>>)
          \/ Proceed(p, SetMailbox(Arg(p), "ERROR"), "none", None, 1)

-----------------------------------------------------------------------------
(* Import jobs *)

\* A job of the interval that exists, even done, keeps another one out.
SyncQueued(m) ==
    LET job == <<m, db.today>>
    IN  IF job \in DOMAIN db.syncs THEN db ELSE [db EXCEPT !.syncs = Insert(@, job, SyncAttempts)]

RequestSync(p) ==
    \/ /\ Called(p, "mailbox.sync")
       /\ \E s \in Callers(<<"Mailboxes", "sync">>) : \E m \in UsableMailboxes(CallerOrg(s)) :
             Begin(p, "mailbox.queue", m)
    \/ At(p, "mailbox.queue") /\ Commit(p, SyncQueued(Arg(p)), <<>>)

\* Connected, in error for a while, or at an import for five minutes.
RecoverMailboxes(p) ==
    /\ Called(p, "mailbox.recover")
    /\ \E m \in {m \in DOMAIN db.mailboxes : db.mailboxes[m].status # "DISABLED"} :
          Begin(p, "mailbox.queue", m)

Importing == {"sync.open", "sync.read", "sync.file", "sync.insert"}
SyncsOf(m) == {p \in Requests : request[p].op \in Importing /\ Arg(p).mailbox = m}

\* Faulty variant of TakeSync: a job without attempts left is run too.
TakeSyncAgain(p) ==
    /\ Called(p, "mailbox.run")
    /\ \E job \in DOMAIN db.syncs :
          BeginWriting(p, [db EXCEPT !.syncs[job] = 0], "sync.claim",
             [job |-> job, left |-> db.syncs[job] - 1])

TakeSync(p) ==
    /\ Called(p, "mailbox.run")
    /\ \E job \in DOMAIN db.syncs :
          /\ db.syncs[job] > 0
          /\ BeginWriting(p, [db EXCEPT !.syncs[job] = 0], "sync.claim",
                [job |-> job, left |-> db.syncs[job] - 1])

\* An import that took more than five minutes has died, or costs one of the
\* faults because it is slow: then two are at work.
ClaimMailbox(p) ==
    /\ At(p, "sync.claim")
    /\ LET m == Arg(p).job[1]
           row == db.mailboxes[m]
       IN  \/ row.status \in {"DISABLED", "SYNCING"} /\ Reject(p)
           \/ /\ row.status # "DISABLED"
              /\ Proceed(p, SetMailbox(m, "SYNCING"), "sync.open",
                    Over([mailbox |-> m, cursor |-> row.cursor, reached |-> NoCursor,
                          folders |-> IF <<m, "SENT">> \in DOMAIN db.server THEN <<"INBOX", "SENT">>
                                      ELSE <<"INBOX">>],
                         Arg(p)),
                    IF row.status = "SYNCING" /\ SyncsOf(m) # {} THEN 1 ELSE 0)

-----------------------------------------------------------------------------
(* The import of one folder after another *)

\* Any failure ends the import, with the cursor as it was.
Fail(p, tables) == Proceed(p, tables, "sync.fail", Arg(p), 1)

Known(previous, folder) == previous # None /\ previous.validity = folder.validity

\* nextUidRange: after the last uid, or the last few of a folder not seen
\* before; `*` is the highest uid there is, also when it is a lower one.
FirstUid(previous, folder) ==
    IF Known(previous, folder) THEN previous.last + 1 ELSE Max({1, folder.next - FetchSize})
UidRange(previous, folder) ==
    LET uids == DOMAIN folder.mail
    IN  IF uids = {} \/ (Known(previous, folder) /\ previous.last >= folder.next - 1) THEN {}
        ELSE {uid \in uids : uid >= FirstUid(previous, folder)} \cup {Max(uids)}

OpenFolder(p) ==
    /\ At(p, "sync.open") /\ Arg(p).folders # <<>>
    /\ LET arg == Arg(p)
           f == Head(arg.folders)
           folder == db.server[<<arg.mailbox, f>>]
           previous == arg.cursor[f]
       IN  \/ Continue(p, "sync.read",
                 Over([rest |-> UidRange(previous, folder), validity |-> folder.validity,
                       from |-> IF Known(previous, folder) THEN previous.from
                                ELSE FirstUid(previous, folder),
                       last |-> IF Known(previous, folder) THEN previous.last ELSE 0], arg))
           \/ Fail(p, db)

\* Faulty variant of LastUid: what arrived meanwhile counts as read.
LastUidNow(arg) == db.server[<<arg.mailbox, Head(arg.folders)>>].next - 1

LastUid(arg) == arg.last

CloseFolder(p) ==
    /\ At(p, "sync.read") /\ Arg(p).rest = {}
    /\ LET arg == Arg(p)
       IN  Continue(p, "sync.open",
              [arg EXCEPT
                 !.folders = Tail(@),
                 !.reached[Head(arg.folders)] =
                     [validity |-> arg.validity, last |-> LastUid(arg), from |-> arg.from]])

\* CONNECTED, even if somebody disabled the mailbox meanwhile; the cursor of
\* a folder that is gone is dropped.
FinishSync(p) ==
    /\ At(p, "sync.open") /\ Arg(p).folders = <<>>
    /\ \/ Commit(p,
             [db EXCEPT !.mailboxes = Patch(@, Arg(p).mailbox,
                 [status |-> "CONNECTED", cursor |-> Arg(p).reached])],
             <<>>)
       \/ Fail(p, db)

\* ERROR, and one attempt of the job less.
FailSync(p) ==
    /\ At(p, "sync.fail")
    /\ Commit(p, [SetMailbox(Arg(p).mailbox, "ERROR") EXCEPT !.syncs[Arg(p).job] = Arg(p).left], <<>>)

-----------------------------------------------------------------------------
(* The import of one message after another *)

Passed(arg, uid) == [arg EXCEPT !.rest = @ \ {uid}, !.last = Max({@, uid})]
Stored(m, f, uid, id) ==
    \E x \in DOMAIN db.messages :
        LET row == db.messages[x]
        IN  /\ row.mailbox = m
            /\ (row.folder = f /\ row.uid = uid) \/ (id # None /\ row.id = id)

\* The one record with the address: a contact, else a lead, else a company.
Match(org, address) ==
    LET with(kind) == {x \in LiveEntities(org, {kind}) : db.entities[x].email = address}
        found == IF with("contact") # {} THEN with("contact")
                 ELSE IF with("lead") # {} THEN with("lead") ELSE with("company")
    IN  IF address # None /\ Cardinality(found) = 1 THEN CHOOSE x \in found : TRUE ELSE None

\* A mail that is too large, cannot be read, has gone or is stored is passed.
PassMessage(p) ==
    /\ At(p, "sync.read") /\ Arg(p).rest # {}
    /\ LET arg == Arg(p)
           f == Head(arg.folders)
           uid == Min(arg.rest)
           mail == db.server[<<arg.mailbox, f>>].mail
       IN  /\ (uid \in DOMAIN mail /\ mail[uid].fit) => Stored(arg.mailbox, f, uid, mail[uid].id)
           /\ Continue(p, "sync.read", Passed(arg, uid))

\* It joins the conversation of a message it refers to, of any mailbox.
ReadMessage(p) ==
    /\ At(p, "sync.read") /\ Arg(p).rest # {}
    /\ LET arg == Arg(p)
           f == Head(arg.folders)
           uid == Min(arg.rest)
           box == db.server[<<arg.mailbox, f>>].mail
           org == db.mailboxes[arg.mailbox].org
       IN  /\ uid \in DOMAIN box /\ box[uid].fit /\ ~Stored(arg.mailbox, f, uid, box[uid].id)
           /\ LET mail == box[uid]
                  answered == {x \in OfOrg(db.messages, org) : db.messages[x].id \in mail.refs}
                  \* related, and the conversation
                  place(x) == <<IF db.messages[x].related # None \/ f = "SENT"
                                THEN db.messages[x].related ELSE Match(org, mail.from),
                                db.messages[x].thread>>
                  alone == <<IF f = "SENT" THEN None ELSE Match(org, mail.from), None>>
              IN  \/ \E at \in IF answered = {} THEN {alone} ELSE {place(x) : x \in answered} :
                        Continue(p, IF mail.file THEN "sync.file" ELSE "sync.insert",
                           Over([uid |-> uid, id |-> mail.id, related |-> at[1], thread |-> at[2],
                                 file |-> None], arg))
                  \/ Fail(p, db)

StoreMailFile(p) ==
    /\ At(p, "sync.file")
    /\ \/ \E f \in FreeKeys :
             Proceed(p, [db EXCEPT !.stored = @ \cup {f}], "sync.insert",
                [Arg(p) EXCEPT !.file = f], 0)
       \/ Fail(p, db)

\* The file of a message that is not kept is deleted, if the storage does.
WithoutFile(tables, arg) == {[tables EXCEPT !.stored = @ \ {arg.file}], tables}

MessageStored(arg, answered) ==
    LET f == Head(arg.folders)
        org == db.mailboxes[arg.mailbox].org
        x == Fresh(Unused(Messages), db.messages)
        t == IF arg.thread = None THEN Fresh(Unused(Threads), db.threads) ELSE arg.thread
        thread == IF arg.thread = None
                  THEN Over([org |-> org, mailbox |-> arg.mailbox, related |-> arg.related,
                             unread |-> f = "INBOX"], NewThread)
                  ELSE [db.threads[t] EXCEPT !.unread = @ \/ f = "INBOX"]
    IN  [db EXCEPT
           !.threads = Insert(@, t, thread),
           !.messages = Insert(@, x,
               [org |-> org, mailbox |-> arg.mailbox, thread |-> t,
                direction |-> IF f = "INBOX" THEN "INBOUND" ELSE "OUTBOUND", status |-> "SENT",
                related |-> thread.related, key |-> None, id |-> arg.id, folder |-> f,
                uid |-> arg.uid, accepted |-> 0, simulated |-> FALSE]),
           !.mailFiles = IF arg.file = None THEN @
                         ELSE Insert(@, arg.file, [org |-> org, message |-> x, answered |-> answered])]

\* What another import has stored meanwhile is passed too.  A commit whose
\* answer is lost is taken for a failure.
InsertMessage(p) ==
    /\ At(p, "sync.insert")
    /\ HasRoom(Unused(Messages), db.messages) /\ HasRoom(Unused(Threads), db.threads)
    /\ LET arg == Arg(p)
           next == Passed([k \in DOMAIN arg \ {"uid", "id", "related", "thread", "file"} |-> arg[k]],
                          arg.uid)
       IN  \/ IF Stored(arg.mailbox, Head(arg.folders), arg.uid, arg.id)
              THEN \E tables \in WithoutFile(db, arg) : Proceed(p, tables, "sync.read", next, 0)
              ELSE \/ Proceed(p, MessageStored(arg, TRUE), "sync.read", next, 0)
                   \/ \E tables \in WithoutFile(MessageStored(arg, FALSE), arg) : Fail(p, tables)
           \/ \E tables \in WithoutFile(db, arg) : Fail(p, tables)

-----------------------------------------------------------------------------
(* Conversations *)

RequireThread(route) ==
    {st \in Callers(route) \X DOMAIN db.threads : db.threads[st[2]].org = CallerOrg(st[1])}
InboundOf(t) == {x \in MessagesIn(t) : db.messages[x].direction = "INBOUND"}

Linked(tables, t, x) ==
    [tables EXCEPT
       !.threads = Patch(@, t, [related |-> x]),
       !.messages = [y \in DOMAIN @ |-> IF @[y].thread = t THEN [@[y] EXCEPT !.related = x] ELSE @[y]]]

\* Whether it is linked already is looked at before.
LinkThread(p) ==
    \/ /\ Called(p, "mail.link")
       /\ \E st \in RequireThread(<<"Mail", "link">>) : \E x \in Correspondents(CallerOrg(st[1])) :
          /\ db.threads[st[2]].related = None
          /\ Begin(p, "mail.link", [thread |-> st[2], entity |-> x])
    \/ At(p, "mail.link") /\ Commit(p, Linked(db, Arg(p).thread, Arg(p).entity), <<>>)

\* From the mailbox of the conversation, to the last who wrote to it.
ReplyToThread(p) ==
    \/ /\ Called(p, "mail.reply")
       /\ \E st \in RequireThread(<<"Mail", "reply">>) :
          LET row == db.threads[st[2]]
          IN  /\ row.mailbox \in UsableMailboxes(row.org) /\ InboundOf(st[2]) # {}
              /\ Begin(p, "mail.reply",
                    [org |-> row.org, mailbox |-> row.mailbox, thread |-> st[2],
                     related |-> row.related])
    \/ /\ At(p, "mail.reply") /\ HasRoom(Unused(Messages), db.messages)
       /\ LET x == Fresh(Unused(Messages), db.messages)
          IN  Proceed(p,
                 [db EXCEPT !.messages = Insert(@, x,
                     Over([direction |-> "OUTBOUND", status |-> "QUEUED", key |-> None, id |-> x,
                           folder |-> None, uid |-> None, accepted |-> 0, simulated |-> FALSE],
                          Arg(p)))],
                 "email.enqueue", x, 0)

\* downloadAttachment: the files of messages that a caller may download.
MailDownloads(s) == OfOrg(db.mailFiles, CallerOrg(s))

-----------------------------------------------------------------------------

MailboxesStep(p) ==
    \/ MailArrives(p) \/ MailIsDeleted(p) \/ FolderIsRenumbered(p) \/ CreateMailbox(p)
    \/ UpdateMailbox(p) \/ TestMailbox(p) \/ RequestSync(p) \/ RecoverMailboxes(p) \/ TakeSync(p)
    \/ ClaimMailbox(p) \/ OpenFolder(p) \/ CloseFolder(p) \/ FinishSync(p) \/ FailSync(p)
    \/ PassMessage(p) \/ ReadMessage(p) \/ StoreMailFile(p) \/ InsertMessage(p) \/ LinkThread(p)
    \/ ReplyToThread(p)

MailboxRowsOK(tables) ==
    /\ RowsOf(tables.mailboxes, Mailboxes, MailboxRow)
    /\ RowsOf(tables.mailFiles, Files, MailFileRow)
    /\ \A box \in DOMAIN tables.server :
          box \in Mailboxes \X {"INBOX", "SENT"} /\ FolderOK(tables.server[box])
    /\ RowsOf(tables.syncs, Mailboxes \X Nat, 0..SyncAttempts)

\* From where the import of a folder began to where its cursor is, all mail
\* that can be imported is stored, or another with its uid or id is: no import
\* that fails, dies, is overtaken or meets new mail skips any
\* (mailboxes.service.ts:271-443).
CursorCoversMessages ==
    \A box \in DOMAIN db.server :
        LET folder == db.server[box]
            cursor == db.mailboxes[box[1]].cursor[box[2]]
        IN  Known(cursor, folder) =>
              \A uid \in DOMAIN folder.mail \cap (cursor.from .. cursor.last) :
                 folder.mail[uid].fit => Stored(box[1], box[2], uid, folder.mail[uid].id)
=============================================================================
