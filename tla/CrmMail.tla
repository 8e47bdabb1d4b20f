------------------------------- MODULE CrmMail -------------------------------
(***************************************************************************)
(* Templates, the e-mails written to leads, contacts and companies, and    *)
(* their delivery by the worker: apps/api/src/email/crm-email.service.ts   *)
(* and email.service.ts.                                                   *)
(*                                                                         *)
(* A message has an id in the headers, which mailboxes give to what they   *)
(* send: the id of its own row stands for it.  `accepted` counts the times *)
(* a mail server took it, which the program does not know.  Ages of a      *)
(* minute may pass between any two steps.                                  *)
(***************************************************************************)
EXTENDS DemoWorkspaces

CONSTANTS Messages, Threads, Mailboxes, MailJobs, Templates, TemplateNames,
          Keys,         \* idempotency keys: an action of an automation run
          MailIds,      \* ids in the headers of mail from elsewhere
          MaxUid,       \* bound: messages a folder ever held
          MailAttempts  \* of a delivery job

ASSUME CrmMailAssumption ==
    /\ None \notin Messages \cup Threads \cup Mailboxes \cup Keys \cup MailIds
    /\ MaxUid \in Nat /\ MailAttempts \in Nat \ {0}

TemplateRow == [org : Orgs, name : TemplateNames, active : BOOLEAN]
MessageRow ==
    [org : Orgs, mailbox : OrNone(Mailboxes), thread : OrNone(Threads),
     direction : {"INBOUND", "OUTBOUND"}, status : {"QUEUED", "SENDING", "SENT", "FAILED"},
     related : OrNone(Entities), key : OrNone(Keys), id : OrNone(Messages \cup MailIds),
     folder : OrNone({"INBOX", "SENT"}), uid : OrNone(1..MaxUid), accepted : Nat,
     simulated : BOOLEAN]
ThreadRow ==
    [org : Orgs, mailbox : OrNone(Mailboxes), related : OrNone(Entities),
     assignee : OrNone(Accounts), priority : {"NORMAL", "URGENT"}, unread : BOOLEAN,
     status : {"UNASSIGNED", "OPEN", "WAITING", "RESOLVED", "CLOSED"}, resolved : BOOLEAN,
     due : BOOLEAN]
MailJob == [message : Messages, made : 0..MailAttempts]

NewThread == [assignee |-> None, priority |-> "NORMAL", status |-> "UNASSIGNED", resolved |-> FALSE,
              due |-> FALSE]
OfOrg(table, org) == {x \in DOMAIN table : table[x].org = org}
UsableMailboxes(org) == {m \in OfOrg(db.mailboxes, org) : db.mailboxes[m].status # "DISABLED"}
MessagesIn(t) == {x \in DOMAIN db.messages : db.messages[x].thread = t}
Correspondents(org) == LiveEntities(org, Addressable)

-----------------------------------------------------------------------------
(* Templates *)

TemplateNameFree(org, name, except) ==
    \A t \in OfOrg(db.templates, org) \ except : db.templates[t].name # name

CreateTemplate(p) ==
    \/ /\ Called(p, "template.create")
       /\ \E s \in Callers(<<"EmailTemplates", "create">>), name \in TemplateNames,
             active \in BOOLEAN :
             Begin(p, "template.create", [org |-> CallerOrg(s), name |-> name, active |-> active])
    \/ /\ At(p, "template.create") /\ HasRoom(Unused(Templates), db.templates)
       /\ CommitIf(p, Arg(p).org \in DOMAIN db.orgs /\ TemplateNameFree(Arg(p).org, Arg(p).name, {}),
             [db EXCEPT !.templates = Insert(@, Fresh(Unused(Templates), @), Arg(p))], <<>>)

UpdateTemplate(p) ==
    \/ /\ Called(p, "template.update")
       /\ \E s \in Callers(<<"EmailTemplates", "update">>),
             change \in Changes([name |-> TemplateNames, active |-> BOOLEAN]) :
             \E t \in OfOrg(db.templates, CallerOrg(s)) :
             Begin(p, "template.update", [template |-> t, change |-> change])
    \/ /\ At(p, "template.update")
       /\ LET t == Arg(p).template
              row == db.templates[t]
          IN  CommitIf(p, TemplateNameFree(row.org, Given(Arg(p).change, "name", row.name), {t}),
                 [db EXCEPT !.templates = Patch(@, t, Arg(p).change)], <<>>)

\* A name that is free when it is looked for; the copy is not active.
DuplicateTemplate(p) ==
    /\ Called(p, "template.duplicate")
    /\ \E s \in Callers(<<"EmailTemplates", "duplicate">>), name \in TemplateNames :
       /\ OfOrg(db.templates, CallerOrg(s)) # {} /\ TemplateNameFree(CallerOrg(s), name, {})
       /\ Begin(p, "template.create", [org |-> CallerOrg(s), name |-> name, active |-> FALSE])

\* The e-mail goes out at once or through the queue of EmailService.
SendTest(p) ==
    /\ Called(p, "template.test")
    /\ \E s \in Callers(<<"EmailTemplates", "test">>) :
       LET scope == <<"crm-email", CallerAccount(s)>>
       IN  \/ TurnedAway(p, scope)
           \/ /\ db.orgs[CallerOrg(s)].sender
              /\ \E t \in OfOrg(db.templates, CallerOrg(s)) :
                    CallCounted(p, scope, "announce", <<<<"email.test", t>>>>)

UpdateSettings(p) ==
    \/ /\ Called(p, "email.settings")
       /\ \E s \in Callers(<<"EmailSettings", "update">>) : Begin(p, "email.settings", CallerOrg(s))
    \/ /\ At(p, "email.settings")
       /\ Commit(p, WithSender(Arg(p)), <<>>)

-----------------------------------------------------------------------------
(* Writing an e-mail *)

CanSendFrom(org, mailbox) ==
    IF mailbox = None THEN db.orgs[org].sender ELSE mailbox \in UsableMailboxes(org)

SendMail(p) ==
    /\ Called(p, "email.send")
    /\ \E s \in Callers(<<"CrmEmails", "send">>) : \E mailbox \in OrNone(DOMAIN db.mailboxes) :
       LET org == CallerOrg(s)
           scope == <<"crm-email", CallerAccount(s)>>
       IN  /\ mailbox # None => "mail.send" \in PermissionsOf(CallerAccount(s))
           /\ \/ TurnedAway(p, scope)
              \/ /\ CanSendFrom(org, mailbox)
                 /\ \E x \in Correspondents(org) :
                       CallCounted(p, scope, "email.persist",
                          [org |-> org, sender |-> CallerAccount(s), related |-> x,
                           mailbox |-> mailbox, key |-> None])

Keyed(org, key) ==
    {x \in OfOrg(db.messages, org) : key # None /\ db.messages[x].key = key}

\* sendAutomation: an e-mail with the key is taken for this one, whatever
\* became of it.
SendAutomation(p) ==
    /\ Called(p, "email.automation")
    /\ \E org \in DOMAIN db.orgs, key \in Keys :
       \E t \in OfOrg(db.templates, org), a \in AccountsOf(org), x \in Correspondents(org) :
          /\ db.templates[t].active /\ db.entities[x].email # None /\ db.orgs[org].sender
          /\ Keyed(org, key) = {}
          /\ Begin(p, "email.persist",
                [org |-> org, sender |-> a, related |-> x, mailbox |-> None, key |-> key])

\* persistAndQueue: from a mailbox it begins a conversation of its sender.
PersistMessage(p) ==
    /\ At(p, "email.persist") /\ HasRoom(Unused(Messages), db.messages)
    /\ LET arg == Arg(p)
           x == Fresh(Unused(Messages), db.messages)
           row(t) == [org |-> arg.org, mailbox |-> arg.mailbox, thread |-> t,
                      direction |-> "OUTBOUND", status |-> "QUEUED", related |-> arg.related,
                      key |-> arg.key, id |-> IF arg.mailbox = None THEN None ELSE x,
                      folder |-> None, uid |-> None, accepted |-> 0, simulated |-> FALSE]
       IN  IF Keyed(arg.org, arg.key) # {} \/ arg.org \notin DOMAIN db.orgs THEN Reject(p)
           ELSE IF arg.mailbox = None
           THEN Proceed(p, [db EXCEPT !.messages = Insert(@, x, row(None))], "email.enqueue", x, 0)
           ELSE /\ HasRoom(Unused(Threads), db.threads)
                /\ LET t == Fresh(Unused(Threads), db.threads)
                   IN  Proceed(p,
                          [db EXCEPT
                             !.threads = Insert(@, t,
                                 Over([org |-> arg.org, mailbox |-> arg.mailbox, unread |-> FALSE,
                                       related |-> arg.related, assignee |-> arg.sender,
                                       status |-> "OPEN"], NewThread)),
                             !.messages = Insert(@, x, row(t))],
                          "email.enqueue", x, 0)

WithJob(tables, x, made) ==
    [tables EXCEPT !.mailJobs = Insert(@, Fresh(MailJobs, @), [message |-> x, made |-> made])]
SetStatus(x, status) ==
    [db EXCEPT !.messages = IF x \in DOMAIN @ THEN Patch(@, x, [status |-> status]) ELSE @]

\* A queue that answers with an error may have the job nevertheless.
EnqueueMessage(p) ==
    \/ /\ At(p, "email.enqueue") /\ HasRoom(MailJobs, db.mailJobs)
       /\ \/ Proceed(p, WithJob(db, Arg(p), 0), "none", None, 0)
          \/ Proceed(p, WithJob(db, Arg(p), 0), "email.unqueued", Arg(p), 1)
          \/ Proceed(p, db, "email.unqueued", Arg(p), 1)
    \/ At(p, "email.unqueued") /\ Commit(p, SetStatus(Arg(p), "FAILED"), <<>>)

-----------------------------------------------------------------------------
(* Delivering: processDelivery, without a claim *)

TakeMailJob(p) ==
    /\ Called(p, "mail.deliver")
    /\ \E j \in DOMAIN db.mailJobs :
          BeginWriting(p, [db EXCEPT !.mailJobs = Without(@, {j})], "mail.read", db.mailJobs[j])

StartDelivery(p) ==
    /\ At(p, "mail.read")
    /\ LET x == Arg(p).message
       IN  IF x \notin DOMAIN db.messages \/ db.messages[x].status = "SENT" THEN Reject(p)
           ELSE Continue(p, "mail.sending", Arg(p))

\* Faulty variant of WriteSending: SENT before it is.
WriteSentFirst(p) ==
    At(p, "mail.sending") /\ Proceed(p, SetStatus(Arg(p).message, "SENT"), "mail.send", Arg(p), 0)

WriteSending(p) ==
    At(p, "mail.sending") /\ Proceed(p, SetStatus(Arg(p).message, "SENDING"), "mail.send", Arg(p), 0)

Delivered(folder, mail) ==
    Over([next |-> folder.next + 1, mail |-> Insert(folder.mail, folder.next, mail)], folder)

\* Some servers keep a copy of what a mailbox sends in its folder.
Accepted(x, copy) ==
    LET row == db.messages[x]
        sent == <<row.mailbox, "SENT">>
        mail == [id |-> row.id, refs |-> {}, from |-> None, fit |-> TRUE, file |-> FALSE]
        messages == Patch(db.messages, x, [accepted |-> row.accepted + 1])
    IN  IF copy THEN [db EXCEPT !.messages = messages, !.server[sent] = Delivered(@, mail)]
        ELSE [db EXCEPT !.messages = messages]
CanCopy(x) ==
    LET sent == <<db.messages[x].mailbox, "SENT">>
    IN  sent \in DOMAIN db.server /\ db.server[sent].next <= MaxUid

\* Also through a mailbox that has been disabled since.  The answer of a
\* server that took the message may be lost.
Transmit(p) ==
    /\ At(p, "mail.send")
    /\ LET x == Arg(p).message
       IN  IF x \notin DOMAIN db.messages THEN Reject(p)
           ELSE IF db.orgs[db.messages[x].org].demo
           THEN Continue(p, "mail.sent", Over([simulated |-> TRUE], Arg(p)))
           ELSE \/ \E copy \in {FALSE, CanCopy(x)}, answered \in BOOLEAN :
                   LET answer == IF answered THEN [simulated |-> FALSE] ELSE [permanent |-> FALSE]
                   IN  Proceed(p, Accepted(x, copy), IF answered THEN "mail.sent" ELSE "mail.failed",
                          Over(answer, Arg(p)), IF answered THEN 0 ELSE 1)
                \/ \E permanent \in BOOLEAN :
                      Proceed(p, db, "mail.failed", Over([permanent |-> permanent], Arg(p)), 1)

WriteSent(p) ==
    /\ At(p, "mail.sent")
    /\ LET x == Arg(p).message
           change == [status |-> "SENT", simulated |-> Arg(p).simulated]
       IN  \/ Commit(p, [db EXCEPT !.messages = IF x \in DOMAIN @ THEN Patch(@, x, change) ELSE @],
                 <<>>)
           \/ Proceed(p, db, "mail.failed", Over([permanent |-> FALSE], Arg(p)), 1)

\* The failure of the last attempt, or one the server calls permanent, is
\* written whatever another worker has written since; other jobs are retried.
WriteFailed(p) ==
    /\ At(p, "mail.failed") /\ HasRoom(MailJobs, db.mailJobs)
    /\ LET x == Arg(p).message
           made == Arg(p).made + 1
           final == Arg(p).permanent \/ made >= MailAttempts
           written == SetStatus(x, IF final THEN "FAILED" ELSE "QUEUED")
       IN  Commit(p, IF final THEN written ELSE WithJob(written, x, made), <<>>)

\* One more job for each message that waits or was begun a minute ago.
RecoverQueued(p) ==
    /\ Called(p, "mail.recover") /\ HasRoom(MailJobs, db.mailJobs)
    /\ \E x \in DOMAIN db.messages :
          /\ db.messages[x].status \in {"QUEUED", "SENDING"}
          /\ BeginWriting(p, WithJob(db, x, 0), "none", None)

-----------------------------------------------------------------------------

CrmMailStep(p) ==
    \/ CreateTemplate(p) \/ UpdateTemplate(p) \/ DuplicateTemplate(p) \/ SendTest(p)
    \/ UpdateSettings(p) \/ SendMail(p) \/ SendAutomation(p) \/ PersistMessage(p)
    \/ EnqueueMessage(p) \/ TakeMailJob(p) \/ StartDelivery(p) \/ WriteSending(p) \/ Transmit(p)
    \/ WriteSent(p) \/ WriteFailed(p) \/ RecoverQueued(p)

MailRowsOK(tables) ==
    /\ RowsOf(tables.templates, Templates, TemplateRow)
    /\ RowsOf(tables.threads, Threads, ThreadRow)
    /\ RowsOf(tables.messages, Messages, MessageRow)
    /\ RowsOf(tables.mailJobs, MailJobs, MailJob)

\* What is shown as sent was taken by a mail server, or is the imitation of
\* a demo, or was found in the mailbox, however deliveries of one message
\* overlap and fail
\* (crm-email.service.ts:329-465).
SentWasAccepted ==
    \A x \in DOMAIN db.messages :
        LET row == db.messages[x]
        IN  row.status = "SENT" => row.accepted > 0 \/ row.simulated \/ row.uid # None
=============================================================================
