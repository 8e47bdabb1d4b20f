------------------------------ MODULE MailProofs ------------------------------
(***************************************************************************)
(* Lemmas about Platform: the steps of the e-mail, the mailboxes and the   *)
(* shared inbox keep the tables in order (Typed), and what a request has   *)
(* read of them stays true while others write.                             *)
(***************************************************************************)
EXTENDS WorkspaceProofs, SequenceTheorems, NaturalsInduction, WellFoundedInduction
LOCAL INSTANCE FiniteSetsExt

USE DEF Called, CommitIf, At, Arg, Idle

-----------------------------------------------------------------------------
(* The tables of the mail *)

MailTables ==
    {"rates", "entities", "stored", "templates", "mailboxes", "server", "messages", "threads",
     "mailJobs", "syncs", "mailFiles"}

NoDemo(tables, org) == org \in DOMAIN tables.orgs /\ ~tables.orgs[org].demo

\* The folders of a mailbox, cursors of them, and those that have seen theirs.
Folders(tables, m) == {f \in {"INBOX", "SENT"} : <<m, f>> \in DOMAIN tables.server}
Cursors == [{"INBOX", "SENT"} -> Cursor]
SeenUpTo(tables, m, cursors) ==
    \A f \in Folders(tables, m) : cursors[f] # None => Seen(tables, m, f, cursors[f])

\* What a step may write to each of them.
ThreadsFine ==
    /\ RowsOf(db'.threads, Threads, ThreadRow)
    /\ \A t \in DOMAIN db.threads :
          t \in DOMAIN db'.threads /\ db'.threads[t].org = db.threads[t].org
    /\ \A t \in DOMAIN db'.threads :
          LET row == db'.threads[t]
          IN  /\ NoDemo(db, row.org)
              /\ Terminal(row.status) <=> row.resolved
              /\ row.status = "UNASSIGNED" => row.assignee = None
MessageFine(row) ==
    /\ row \in MessageRow /\ row.org \in DOMAIN db.orgs
    /\ row.thread # None => row.thread \in DOMAIN db'.threads
                            /\ db'.threads[row.thread].org = row.org
    /\ row.mailbox # None => /\ row.mailbox \in DOMAIN db'.mailboxes
                             /\ db'.mailboxes[row.mailbox].org = row.org
    /\ row.status = "SENT" => row.accepted > 0 \/ row.simulated \/ row.uid # None
MessagesFine ==
    /\ \A x \in DOMAIN db'.messages : x \in Messages /\ MessageFine(db'.messages[x])
    /\ \A x \in DOMAIN db.messages :
          /\ x \in DOMAIN db'.messages /\ db'.messages[x].org = db.messages[x].org
          /\ SameMail(db'.messages[x], db.messages[x])
          /\ db.messages[x].accepted > 0 => db'.messages[x].accepted > 0
ServerFine ==
    /\ \A box \in DOMAIN db.server :
          box \in DOMAIN db'.server /\ FolderStays(db'.server[box], db.server[box])
    /\ \A box \in DOMAIN db'.server :
          box \in Mailboxes \X {"INBOX", "SENT"} /\ FolderOK(db'.server[box])
    /\ \A box \in DOMAIN db'.server \ DOMAIN db.server :
          /\ box[1] \in DOMAIN db'.mailboxes \ DOMAIN db.mailboxes
          /\ db'.mailboxes[box[1]].cursor[box[2]] = None
MailboxesFine ==
    /\ RowsOf(db'.mailboxes, Mailboxes, MailboxRow)
    /\ \A m \in DOMAIN db.mailboxes :
          /\ m \in DOMAIN db'.mailboxes /\ db'.mailboxes[m].org = db.mailboxes[m].org
          /\ SeenUpTo(db, m, db'.mailboxes[m].cursor)
    /\ \A m \in DOMAIN db'.mailboxes :
          NoDemo(db, db'.mailboxes[m].org) /\ <<m, "INBOX">> \in DOMAIN db'.server
SyncsFine ==
    /\ RowsOf(db'.syncs, Mailboxes \X Nat, 0..SyncAttempts)
    /\ \A job \in DOMAIN db'.syncs : job[1] \in DOMAIN db'.mailboxes

\* The step writes tables of the mail and the senders of organizations only,
\* and keeps all in order; or it leaves the files alone too.
OrgsStay ==
    /\ DOMAIN db'.orgs = DOMAIN db.orgs
    /\ \A o \in DOMAIN db.orgs :
          db'.orgs[o].demo = db.orgs[o].demo /\ db'.orgs[o].expires = db.orgs[o].expires
TableWrites == TypedNext /\ Grows /\ Kept(MailTables \cup {"orgs"}) /\ OrgsStay
FilesSame == db'.stored = db.stored /\ db'.mailFiles = db.mailFiles
Writes == TableWrites /\ FilesSame

LEMMA MailboxTyped ==
    ASSUME Typed, NEW m \in DOMAIN db.mailboxes
    PROVE  /\ m \in Mailboxes /\ db.mailboxes[m] \in MailboxRow
           /\ NoDemo(db, db.mailboxes[m].org) /\ <<m, "INBOX">> \in DOMAIN db.server
           /\ SeenUpTo(db, m, db.mailboxes[m].cursor)
<1>1. /\ m \in Mailboxes /\ db.mailboxes[m] \in MailboxRow
      /\ NoDemo(db, db.mailboxes[m].org) /\ <<m, "INBOX">> \in DOMAIN db.server
  BY DEF Typed, RowsOK, MailboxRowsOK, RowsOf, MailReferencesOK, NoDemo
<1>2. ASSUME NEW f \in Folders(db, m), db.mailboxes[m].cursor[f] # None
      PROVE  Seen(db, m, f, db.mailboxes[m].cursor[f])
  <2>1. <<m, f>> \in DOMAIN db.server /\ <<m, f>>[1] = m /\ <<m, f>>[2] = f
    BY DEF Folders
  <2>2. QED BY <1>2, <2>1 DEF Typed, CursorsOK
<1>3. QED BY <1>1, <1>2 DEF SeenUpTo

LEMMA BoxTyped ==
    ASSUME Typed, NEW box \in DOMAIN db.server
    PROVE  box \in Mailboxes \X {"INBOX", "SENT"} /\ FolderOK(db.server[box])
BY DEF Typed, RowsOK, MailboxRowsOK

\* A step that writes some of the tables, each as it may, keeps all in order.
LEMMA TablesWritten ==
    ASSUME Typed, NEW names \in SUBSET MailTables, Kept(names),
           "entities" \in names => RowsOf(db'.entities, Entities, EntityRow),
           "stored" \in names => db'.stored \subseteq Files,
           "templates" \in names => RowsOf(db'.templates, Templates, TemplateRow),
           "mailJobs" \in names => RowsOf(db'.mailJobs, MailJobs, MailJob),
           "mailFiles" \in names => RowsOf(db'.mailFiles, Files, MailFileRow),
           "threads" \in names => ThreadsFine, "messages" \in names => MessagesFine,
           "server" \in names => ServerFine, "mailboxes" \in names => MailboxesFine,
           "syncs" \in names => SyncsFine
    PROVE  TableWrites /\ db'.orgs = db.orgs
<1>1. /\ db'.accounts = db.accounts /\ db'.roles = db.roles /\ db'.orgs = db.orgs
      /\ db'.sessions = db.sessions /\ db'.resets = db.resets /\ db'.lock = db.lock
      /\ db'.invitations = db.invitations /\ db'.attachments = db.attachments
      /\ db'.reserved = db.reserved /\ db'.records = db.records /\ db'.today = db.today
      /\ db'.lapses = db.lapses /\ DOMAIN db' = TableNames /\ db'.gone = db.gone
  BY DEF Kept, TableNames, MailTables
<1>2. /\ "entities" \notin names => db'.entities = db.entities
      /\ "stored" \notin names => db'.stored = db.stored
      /\ "templates" \notin names => db'.templates = db.templates
      /\ "mailJobs" \notin names => db'.mailJobs = db.mailJobs
      /\ "mailFiles" \notin names => db'.mailFiles = db.mailFiles
      /\ "threads" \notin names => db'.threads = db.threads
      /\ "messages" \notin names => db'.messages = db.messages
      /\ "server" \notin names => db'.server = db.server
      /\ "mailboxes" \notin names => db'.mailboxes = db.mailboxes
      /\ "syncs" \notin names => db'.syncs = db.syncs
  BY DEF Kept, TableNames
<1>3. RowsOf(db'.entities, Entities, EntityRow) /\ db'.stored \subseteq Files
  BY <1>2 DEF Typed, RowsOK, AttachmentRowsOK
<1>4. /\ RowsOf(db'.templates, Templates, TemplateRow) /\ RowsOf(db'.mailJobs, MailJobs, MailJob)
      /\ RowsOf(db'.mailFiles, Files, MailFileRow)
  BY <1>2 DEF Typed, RowsOK, MailRowsOK, MailboxRowsOK
<1>5. ThreadsFine
  <2>1. CASE db'.threads = db.threads
    BY <2>1 DEF ThreadsFine, NoDemo, Typed, RowsOK, MailRowsOK, MailReferencesOK, ThreadsOK
  <2>2. QED BY <1>2, <2>1
<1>6. ServerFine
  <2>1. CASE db'.server = db.server
    BY <2>1, FolderUnchanged DEF ServerFine, Typed, RowsOK, MailboxRowsOK
  <2>2. QED BY <1>2, <2>1
<1>7. MailboxesFine
  <2>1. CASE db'.mailboxes = db.mailboxes
    BY <1>6, <2>1, MailboxTyped DEF MailboxesFine, ServerFine, Typed, RowsOK, MailboxRowsOK
  <2>2. QED BY <1>2, <2>1
<1>8. MessagesFine
  <2>1. CASE db'.messages = db.messages
    <3>1. \A x \in DOMAIN db.messages : x \in Messages /\ db.messages[x] \in MessageRow
      BY DEF Typed, RowsOK, MailRowsOK, RowsOf
    <3>2. ASSUME NEW x \in DOMAIN db.messages
          PROVE  MessageFine(db.messages[x])
      BY <1>5, <1>7, <3>1 DEF MessageFine, ThreadsFine, MailboxesFine, Typed, MailReferencesOK,
                              SentOK
    <3>3. QED BY <2>1, <3>1, <3>2 DEF MessagesFine, SameMail
  <2>2. QED BY <1>2, <2>1
<1>9. SyncsFine
  <2>1. CASE db'.syncs = db.syncs
    BY <1>7, <2>1 DEF SyncsFine, MailboxesFine, Typed, RowsOK, MailboxRowsOK, MailReferencesOK
  <2>2. QED BY <1>2, <2>1
<1>10. RowsOf(db'.messages, Messages, MessageRow)
  BY <1>8 DEF MessagesFine, MessageFine, RowsOf
<1>11. RowsOK(db')
  <2>1. AccountRowsOK(db') /\ AttachmentRowsOK(db') /\ DemoRowsOK(db')
    BY <1>1, <1>3 DEF Typed, RowsOK, AccountRowsOK, AttachmentRowsOK, DemoRowsOK
  <2>2. MailRowsOK(db')
    BY <1>4, <1>5, <1>10 DEF ThreadsFine, MailRowsOK
  <2>3. MailboxRowsOK(db')
    BY <1>4, <1>6, <1>7, <1>9 DEF ServerFine, MailboxesFine, SyncsFine, MailboxRowsOK
  <2>4. QED BY <2>1, <2>2, <2>3 DEF RowsOK
<1>12. AccountReferencesOK(db')
  BY <1>1 DEF Typed, AccountReferencesOK
<1>13. MailReferencesOK(db')
  <2>1. \A x \in DOMAIN db'.messages :
           LET row == db'.messages[x]
           IN  /\ row.org \in DOMAIN db'.orgs
               /\ row.thread # None => /\ row.thread \in DOMAIN db'.threads
                                       /\ db'.threads[row.thread].org = row.org
               /\ row.mailbox # None => /\ row.mailbox \in DOMAIN db'.mailboxes
                                        /\ db'.mailboxes[row.mailbox].org = row.org
    BY <1>1, <1>8 DEF MessagesFine, MessageFine
  <2>2. \A t \in DOMAIN db'.threads :
           LET org == db'.threads[t].org IN org \in DOMAIN db'.orgs /\ ~db'.orgs[org].demo
    BY <1>1, <1>5 DEF ThreadsFine, NoDemo
  <2>3. \A m \in DOMAIN db'.mailboxes :
           LET org == db'.mailboxes[m].org
           IN  /\ org \in DOMAIN db'.orgs /\ ~db'.orgs[org].demo
               /\ <<m, "INBOX">> \in DOMAIN db'.server
    <3>1. \A m \in DOMAIN db'.mailboxes :
             NoDemo(db, db'.mailboxes[m].org) /\ <<m, "INBOX">> \in DOMAIN db'.server
      BY <1>7, Zenon DEF MailboxesFine
    <3>2. ASSUME NEW m \in DOMAIN db'.mailboxes
          PROVE  /\ db'.mailboxes[m].org \in DOMAIN db'.orgs /\ ~db'.orgs[db'.mailboxes[m].org].demo
                 /\ <<m, "INBOX">> \in DOMAIN db'.server
      BY <1>1, <3>1, Zenon DEF NoDemo
    <3>3. QED BY <3>2, Zenon
  <2>4. \A job \in DOMAIN db'.syncs : job[1] \in DOMAIN db'.mailboxes
    BY <1>9 DEF SyncsFine
  <2>5. \A box \in DOMAIN db'.server : box[1] \in DOMAIN db'.mailboxes
    BY <1>6, <1>7 DEF ServerFine, MailboxesFine, Typed, MailReferencesOK
  <2>6. QED BY <2>1, <2>2, <2>3, <2>4, <2>5 DEF MailReferencesOK
<1>14. SentOK(db') /\ ThreadsOK(db')
  BY <1>5, <1>8 DEF SentOK, ThreadsOK, ThreadsFine, MessagesFine, MessageFine
<1>15. Grows
  BY <1>1, <1>5, <1>6, <1>7, <1>8 DEF Grows, ThreadsFine, MessagesFine, ServerFine, MailboxesFine
<1>16. CursorsOK(db')
  <2>1. ASSUME NEW box \in DOMAIN db'.server, db'.mailboxes[box[1]].cursor[box[2]] # None
        PROVE  /\ box \in DOMAIN db.server /\ box = <<box[1], box[2]>>
               /\ db'.mailboxes[box[1]].cursor[box[2]] \in [validity : Nat, last : Nat, from : Nat]
               /\ Seen(db, box[1], box[2], db'.mailboxes[box[1]].cursor[box[2]])
    <3> DEFINE m == box[1]
               f == box[2]
    <3>1. box \in DOMAIN db.server /\ box \in Mailboxes \X {"INBOX", "SENT"}
      BY <1>6, <2>1 DEF ServerFine
    <3>2. box = <<m, f>> /\ m \in DOMAIN db.mailboxes /\ f \in {"INBOX", "SENT"}
      BY <3>1 DEF Typed, MailReferencesOK
    <3>3. db'.mailboxes[m].cursor[f] # None
      BY <2>1
    <3> HIDE DEF m, f
    <3>4. m \in DOMAIN db'.mailboxes /\ SeenUpTo(db, m, db'.mailboxes[m].cursor)
      BY <1>7, <3>2 DEF MailboxesFine
    <3>5. Seen(db, m, f, db'.mailboxes[m].cursor[f])
      BY <3>1, <3>2, <3>3, <3>4 DEF SeenUpTo, Folders
    <3>6. db'.mailboxes[m].cursor[f] \in Cursor
      BY <1>7, <3>2, <3>4 DEF MailboxesFine, RowsOf, MailboxRow
    <3>7. db'.mailboxes[m].cursor[f] \in [validity : Nat, last : Nat, from : Nat]
      BY <3>3, <3>6 DEF Cursor, OrNone
    <3>8. QED BY <3>1, <3>2, <3>5, <3>7 DEF m, f
  <2>2. QED BY <1>15, <2>1, CursorsStay
<1>17. Kept(MailTables \cup {"orgs"}) /\ OrgsStay
  BY <1>1 DEF Kept, OrgsStay
<1>18. QED BY <1>1, <1>11, <1>12, <1>13, <1>14, <1>15, <1>16, <1>17 DEF TypedNext, TableWrites

LEMMA MailWritten ==
    ASSUME Typed, NEW names \in SUBSET (MailTables \ {"stored", "mailFiles"}), Kept(names),
           "entities" \in names => RowsOf(db'.entities, Entities, EntityRow),
           "templates" \in names => RowsOf(db'.templates, Templates, TemplateRow),
           "mailJobs" \in names => RowsOf(db'.mailJobs, MailJobs, MailJob),
           "threads" \in names => ThreadsFine, "messages" \in names => MessagesFine,
           "server" \in names => ServerFine, "mailboxes" \in names => MailboxesFine,
           "syncs" \in names => SyncsFine
    PROVE  Writes /\ db'.orgs = db.orgs
<1>1. "stored" \notin names /\ "mailFiles" \notin names /\ names \in SUBSET MailTables
  OBVIOUS
<1>2. FilesSame
  BY <1>1 DEF FilesSame, Kept, TableNames
<1>3. QED BY <1>1, <1>2, TablesWritten DEF Writes

-----------------------------------------------------------------------------
(* What the requests of the mail have read *)

MailArgs(r, tables) ==
    /\ r.op = "template.create" => r.arg \in TemplateRow
    /\ r.op = "template.update" =>
          /\ DOMAIN r.arg.change \subseteq {"name", "active"}
          /\ "name" \in DOMAIN r.arg.change => r.arg.change.name \in TemplateNames
          /\ "active" \in DOMAIN r.arg.change => r.arg.change.active \in BOOLEAN
    /\ r.op = "email.persist" =>
          /\ r.arg.org \in Orgs /\ r.arg.sender \in Accounts /\ r.arg.related \in Entities
          /\ r.arg.key \in OrNone(Keys) /\ r.arg.mailbox \in OrNone(Mailboxes)
          /\ r.arg.mailbox # None => /\ r.arg.mailbox \in DOMAIN tables.mailboxes
                                     /\ tables.mailboxes[r.arg.mailbox].org = r.arg.org
    /\ r.op \in {"email.enqueue", "email.unqueued"} => r.arg \in Messages
    /\ r.op \in {"mail.read", "mail.sending", "mail.send"} => r.arg \in MailJob
    /\ r.op \in {"mail.sent", "mail.failed"} =>
          /\ {"message", "made"} \subseteq DOMAIN r.arg
          /\ r.arg.message \in Messages /\ r.arg.made \in 0..MailAttempts
    /\ r.op = "mail.sent" =>
          /\ r.arg.simulated \in BOOLEAN
          /\ \/ r.arg.simulated
             \/ /\ r.arg.message \in DOMAIN tables.messages
                /\ NoDemo(tables, tables.messages[r.arg.message].org)
                /\ tables.messages[r.arg.message].accepted > 0

\* An import, of a folder whose uids are read, of one of its messages.
ImportArgs(arg, tables) ==
    /\ {"mailbox", "cursor", "reached", "folders", "job", "left"} \subseteq DOMAIN arg
    /\ arg.mailbox \in DOMAIN tables.mailboxes /\ arg.left \in 0..SyncAttempts
    /\ arg.cursor \in Cursors /\ arg.reached \in Cursors
    /\ SeenUpTo(tables, arg.mailbox, arg.cursor) /\ SeenUpTo(tables, arg.mailbox, arg.reached)
    /\ arg.folders \in Seq(Folders(tables, arg.mailbox))
\* The mail from where the import of the folder began to the last uid it has
\* left is left, or covered.
Reading(tables, arg) ==
    LET f == Head(arg.folders)
        folder == tables.server[<<arg.mailbox, f>>]
    IN  /\ arg.validity <= folder.validity
        /\ arg.validity = folder.validity =>
              /\ arg.last < folder.next /\ \A r \in arg.rest : r < folder.next
              /\ \A uid \in DOMAIN folder.mail \cap (arg.from .. MaxUid) :
                    /\ uid \notin arg.rest /\ folder.mail[uid].fit
                    /\ uid <= arg.last \/ \E r \in arg.rest : uid <= r
                    => Covered(tables, arg.mailbox, f, uid, folder.mail[uid].id)
FolderArgs(arg, tables) ==
    /\ {"rest", "validity", "from", "last"} \subseteq DOMAIN arg
    /\ arg.folders # <<>> /\ arg.rest \in SUBSET (1..MaxUid)
    /\ arg.validity \in Nat /\ arg.from \in Nat /\ arg.last \in Nat
    /\ Reading(tables, arg)
MessageRead(tables, arg) ==
    LET folder == tables.server[<<arg.mailbox, Head(arg.folders)>>]
    IN  arg.validity = folder.validity /\ arg.uid \in DOMAIN folder.mail =>
           folder.mail[arg.uid].id = arg.id
MessageArgs(arg, tables) ==
    /\ {"uid", "id", "related", "thread", "file"} \subseteq DOMAIN arg
    /\ arg.uid \in arg.rest /\ arg.id \in OrNone(Messages \cup MailIds)
    /\ MessageRead(tables, arg)
    /\ arg.related \in OrNone(Entities) /\ arg.file \in OrNone(Files)
    /\ arg.thread # None => /\ arg.thread \in DOMAIN tables.threads
                            /\ tables.threads[arg.thread].org = tables.mailboxes[arg.mailbox].org

SyncArgs(r, tables) ==
    /\ r.op \in {"sync.open", "sync.read", "sync.file", "sync.insert", "sync.fail"} =>
          ImportArgs(r.arg, tables)
    /\ r.op \in {"sync.read", "sync.file", "sync.insert"} => FolderArgs(r.arg, tables)
    /\ r.op \in {"sync.file", "sync.insert"} => MessageArgs(r.arg, tables)

MailboxArgs(r, tables) ==
    /\ r.op = "mailbox.create" =>
          /\ r.arg = [org |-> r.arg.org, address |-> r.arg.address]
          /\ r.arg.org \in Orgs /\ NoDemo(tables, r.arg.org) /\ r.arg.address \in Emails
    /\ r.op = "mailbox.update" =>
          /\ DOMAIN r.arg.change \subseteq {"address", "status"}
          /\ "address" \in DOMAIN r.arg.change => r.arg.change.address \in Emails
          /\ "status" \in DOMAIN r.arg.change =>
                r.arg.change.status \in {"CONNECTED", "DISABLED"}
    /\ r.op = "mailbox.queue" => r.arg \in DOMAIN tables.mailboxes
    /\ r.op = "sync.claim" =>
          /\ r.arg = [job |-> r.arg.job, left |-> r.arg.left]
          /\ r.arg.job[1] \in DOMAIN tables.mailboxes /\ r.arg.left \in 0..SyncAttempts
    /\ SyncArgs(r, tables)

InboxArgs(r, tables) ==
    /\ r.op \in {"mail.link", "inbox.link"} => r.arg.entity \in Entities
    /\ r.op = "mail.reply" =>
          /\ r.arg = [org |-> r.arg.org, mailbox |-> r.arg.mailbox, thread |-> r.arg.thread,
                      related |-> r.arg.related]
          /\ r.arg.thread \in DOMAIN tables.threads
          /\ tables.threads[r.arg.thread].org = r.arg.org
          /\ r.arg.mailbox \in OrNone(Mailboxes) /\ r.arg.related \in OrNone(Entities)
          /\ r.arg.mailbox # None => /\ r.arg.mailbox \in DOMAIN tables.mailboxes
                                     /\ tables.mailboxes[r.arg.mailbox].org = r.arg.org
    /\ r.op = "inbox.assign" => r.arg.assignee \in OrNone(Accounts)
    /\ r.op = "inbox.status" =>
          /\ r.arg.status \in {"UNASSIGNED", "OPEN", "WAITING", "RESOLVED", "CLOSED"}
          /\ r.arg.due \in BOOLEAN
    /\ r.op = "inbox.priority" => r.arg.priority \in {"NORMAL", "URGENT"}
    /\ r.op = "inbox.read" => r.arg.unread \in BOOLEAN
    /\ r.op = "inbox.lead" => r.arg.org \in Orgs /\ r.arg.email \in Emails
    /\ r.op = "inbox.work" => r.arg.org \in Orgs /\ r.arg.kind \in {"task", "case"}

\* What is left to do without having read anything that matters.
Argless ==
    {"none", "announce", "email.settings", "mailbox.test", "inbox.note"}
MailOps ==
    {"template.create", "template.update", "email.persist", "email.enqueue", "email.unqueued",
     "mail.read", "mail.sending", "mail.send", "mail.sent", "mail.failed"}
MailboxOps ==
    {"mailbox.create", "mailbox.update", "mailbox.queue", "sync.claim", "sync.open", "sync.read",
     "sync.file", "sync.insert", "sync.fail"}
InboxOps ==
    {"mail.link", "mail.reply", "inbox.assign", "inbox.status", "inbox.priority", "inbox.read",
     "inbox.lead", "inbox.link", "inbox.work"}

\* The request of a step has an operation of the mail left to do.
Left(r, tables) ==
    /\ r.op \in Argless \cup MailOps \cup MailboxOps \cup InboxOps
    /\ MailArgs(r, tables) /\ MailboxArgs(r, tables) /\ InboxArgs(r, tables)

\* Whoever leaves an import with a file has just stored it.
MailKept(p) ==
    /\ TableWrites /\ Moved(p) /\ Left(request'[p], db')
    /\ FilesSame \/ request[p].op \in {"sync.file", "sync.insert"}
    /\ request'[p].op = "sync.insert" => request[p].op = "sync.file" \/ request'[p].arg.file = None

LEMMA LeftNothing ==
    ASSUME NEW r, r.op \in Argless, NEW tables
    PROVE  Left(r, tables)
BY DEF Left, Argless, MailArgs, MailboxArgs, SyncArgs, InboxArgs

LEMMA LeftMail ==
    ASSUME NEW op \in MailOps, NEW arg, NEW r, r = [op |-> op, arg |-> arg], NEW tables,
           MailArgs(r, tables)
    PROVE  Left(r, tables)
BY DEF Left, MailOps, MailboxArgs, SyncArgs, InboxArgs

LEMMA LeftMessage ==
    ASSUME NEW op \in {"email.enqueue", "email.unqueued"}, NEW arg \in Messages, NEW tables
    PROVE  Left([op |-> op, arg |-> arg], tables)
<1> DEFINE r == [op |-> op, arg |-> arg]
<1>1. r.op = op /\ r.arg = arg /\ r = [op |-> op, arg |-> arg]
  OBVIOUS
<1> HIDE DEF r
<1>2. MailArgs(r, tables)
  BY <1>1 DEF MailArgs
<1>3. op \in MailOps
  BY DEF MailOps
<1>4. Left(r, tables)
  BY <1>1, <1>2, <1>3, LeftMail
<1>5. QED BY <1>4 DEF r

LEMMA LeftJob ==
    ASSUME NEW op \in {"mail.read", "mail.sending", "mail.send"}, NEW arg \in MailJob, NEW tables
    PROVE  Left([op |-> op, arg |-> arg], tables)
<1> DEFINE r == [op |-> op, arg |-> arg]
<1>1. r.op = op /\ r.arg = arg /\ r = [op |-> op, arg |-> arg]
  OBVIOUS
<1> HIDE DEF r
<1>2. MailArgs(r, tables)
  BY <1>1 DEF MailArgs
<1>3. op \in MailOps
  BY DEF MailOps
<1>4. Left(r, tables)
  BY <1>1, <1>2, <1>3, LeftMail
<1>5. QED BY <1>4 DEF r

LEMMA LeftMailbox ==
    ASSUME NEW op \in MailboxOps, NEW arg, NEW r, r = [op |-> op, arg |-> arg], NEW tables,
           MailboxArgs(r, tables)
    PROVE  Left(r, tables)
BY DEF Left, MailboxOps, MailArgs, InboxArgs

LEMMA LeftInbox ==
    ASSUME NEW op \in InboxOps, NEW arg, NEW r, r = [op |-> op, arg |-> arg], NEW tables,
           InboxArgs(r, tables)
    PROVE  Left(r, tables)
BY DEF Left, InboxOps, MailArgs, MailboxArgs, SyncArgs

\* The folder an import is at.
LEMMA FolderAt ==
    ASSUME Typed, NEW arg, ImportArgs(arg, db), arg.folders # <<>>
    PROVE  /\ Head(arg.folders) \in {"INBOX", "SENT"}
           /\ Tail(arg.folders) \in Seq(Folders(db, arg.mailbox))
           /\ <<arg.mailbox, Head(arg.folders)>> \in DOMAIN db.server
           /\ FolderOK(db.server[<<arg.mailbox, Head(arg.folders)>>])
<1> DEFINE S == Folders(db, arg.mailbox)
           seq == arg.folders
<1>1. seq \in Seq(S) /\ seq # <<>>
  BY DEF ImportArgs
<1>2. \A f \in S : f \in {"INBOX", "SENT"} /\ <<arg.mailbox, f>> \in DOMAIN db.server
  BY DEF Folders
<1> HIDE DEF S, seq
<1>3. Head(seq) \in S /\ Tail(seq) \in Seq(S)
  BY <1>1
<1>4. QED BY <1>2, <1>3, BoxTyped DEF S, seq

\* What an import has behind it stays behind it.
LEMMA FoldersStay ==
    ASSUME Typed, Grows, NEW m \in DOMAIN db.mailboxes
    PROVE  Folders(db', m) = Folders(db, m)
<1>1. ASSUME NEW f
      PROVE  <<m, f>> \in DOMAIN db'.server <=> <<m, f>> \in DOMAIN db.server
  <2> DEFINE box == <<m, f>>
  <2>1. box[1] = m
    OBVIOUS
  <2> HIDE DEF box
  <2>2. box \in DOMAIN db'.server <=> box \in DOMAIN db.server
    BY <2>1 DEF Grows
  <2>3. QED BY <2>2 DEF box
<1>2. QED BY <1>1 DEF Folders

LEMMA SeenUpToStays ==
    ASSUME Typed, Grows, NEW m \in DOMAIN db.mailboxes, NEW cursors \in Cursors,
           SeenUpTo(db, m, cursors)
    PROVE  SeenUpTo(db', m, cursors)
<1> SUFFICES ASSUME NEW f \in Folders(db', m), cursors[f] # None
             PROVE  Seen(db', m, f, cursors[f])
  BY DEF SeenUpTo
<1> DEFINE cursor == cursors[f]
<1>1. f \in Folders(db, m)
  BY FoldersStay
<1>2. <<m, f>> \in DOMAIN db.server /\ cursor \in Cursor /\ cursor # None
  BY <1>1 DEF Folders, Cursors
<1>3. Seen(db, m, f, cursor)
  BY <1>1 DEF SeenUpTo
<1> HIDE DEF cursor
<1>4. cursor \in [validity : Nat, last : Nat, from : Nat]
  BY <1>2 DEF Cursor, OrNone
<1>5. Seen(db', m, f, cursor)
  BY <1>2, <1>3, <1>4, SeenStays
<1>6. QED BY <1>5 DEF cursor

LEMMA FolderArgsStay ==
    ASSUME Typed, Grows, NEW arg, ImportArgs(arg, db), FolderArgs(arg, db)
    PROVE  FolderArgs(arg, db')
<1> DEFINE m == arg.mailbox
           f == Head(arg.folders)
           old == db.server[<<m, f>>]
           folder == db'.server[<<m, f>>]
<1>1. m \in DOMAIN db.mailboxes /\ <<m, f>> \in DOMAIN db.server
  BY FolderAt DEF FolderArgs, ImportArgs
<1>2. FolderStays(folder, old)
  BY <1>1 DEF Grows
<1>3. /\ arg.validity \in Nat /\ arg.last \in Nat /\ arg.from \in Nat
      /\ MaxUid \in Nat /\ \A r \in arg.rest : r \in Nat
  BY CrmMailAssumption DEF FolderArgs, CrmMailAssumption
<1>4. /\ arg.validity <= old.validity
      /\ arg.validity = old.validity =>
            /\ arg.last < old.next /\ \A r \in arg.rest : r < old.next
            /\ \A uid \in DOMAIN old.mail \cap (arg.from .. MaxUid) :
                  /\ uid \notin arg.rest /\ old.mail[uid].fit
                  /\ uid <= arg.last \/ \E r \in arg.rest : uid <= r
                  => Covered(db, m, f, uid, old.mail[uid].id)
  BY DEF FolderArgs, Reading
<1>5. Reading(db', arg) <=>
         /\ arg.validity <= folder.validity
         /\ arg.validity = folder.validity =>
               /\ arg.last < folder.next /\ \A r \in arg.rest : r < folder.next
               /\ \A uid \in DOMAIN folder.mail \cap (arg.from .. MaxUid) :
                     /\ uid \notin arg.rest /\ folder.mail[uid].fit
                     /\ uid <= arg.last \/ \E r \in arg.rest : uid <= r
                     => Covered(db', m, f, uid, folder.mail[uid].id)
  BY DEF Reading
<1> HIDE DEF m, f, old, folder
<1>6. arg.validity <= folder.validity
  BY <1>2, <1>3, <1>4 DEF FolderStays
<1>7. ASSUME arg.validity = folder.validity
      PROVE  /\ arg.last < folder.next /\ \A r \in arg.rest : r < folder.next
             /\ \A uid \in DOMAIN folder.mail \cap (arg.from .. MaxUid) :
                   /\ uid \notin arg.rest /\ folder.mail[uid].fit
                   /\ uid <= arg.last \/ \E r \in arg.rest : uid <= r
                   => Covered(db', m, f, uid, folder.mail[uid].id)
  <2>1. old.validity = folder.validity /\ arg.validity = old.validity
    BY <1>2, <1>3, <1>4, <1>7 DEF FolderStays
  <2>2. arg.last < folder.next /\ \A r \in arg.rest : r < folder.next
    BY <1>2, <1>3, <1>4, <2>1 DEF FolderStays
  <2>3. ASSUME NEW uid \in DOMAIN folder.mail \cap (arg.from .. MaxUid), uid \notin arg.rest,
               folder.mail[uid].fit, uid <= arg.last \/ \E r \in arg.rest : uid <= r
        PROVE  Covered(db', m, f, uid, folder.mail[uid].id)
    <3>1. ~(uid >= old.next)
      BY <1>2, <1>3, <1>4, <2>1, <2>3 DEF FolderStays
    <3>2. uid \in DOMAIN old.mail /\ folder.mail[uid] = old.mail[uid]
      BY <1>2, <2>1, <3>1 DEF FolderStays
    <3>3. Covered(db, m, f, uid, old.mail[uid].id)
      BY <1>4, <2>1, <2>3, <3>2
    <3>4. QED BY <1>1, <3>2, <3>3, CoveredStays
  <2>4. QED BY <2>2, <2>3
<1>8. Reading(db', arg)
  BY <1>5, <1>6, <1>7
<1>9. QED BY <1>8 DEF FolderArgs

LEMMA MessageReadStays ==
    ASSUME Typed, Grows, NEW arg, ImportArgs(arg, db), FolderArgs(arg, db), MessageArgs(arg, db)
    PROVE  MessageRead(db', arg)
<1> DEFINE box == <<arg.mailbox, Head(arg.folders)>>
           old == db.server[box]
           folder == db'.server[box]
           uid == arg.uid
<1>1. box \in DOMAIN db.server
  BY FolderAt DEF FolderArgs
<1>2. FolderStays(folder, old)
  BY <1>1 DEF Grows
<1>3. /\ arg.validity \in Nat /\ uid \in Nat /\ arg.validity <= old.validity
      /\ arg.validity = old.validity => uid < old.next
  BY DEF FolderArgs, Reading, MessageArgs
<1>4. arg.validity = old.validity /\ uid \in DOMAIN old.mail => old.mail[uid].id = arg.id
  BY DEF MessageArgs, MessageRead
<1>5. MessageRead(db', arg) <=>
         (arg.validity = folder.validity /\ uid \in DOMAIN folder.mail => folder.mail[uid].id = arg.id)
  BY DEF MessageRead
<1> HIDE DEF box, old, folder, uid
<1>6. ASSUME arg.validity = folder.validity, uid \in DOMAIN folder.mail
      PROVE  folder.mail[uid].id = arg.id
  <2>1. old.validity = folder.validity /\ arg.validity = old.validity
    BY <1>2, <1>3, <1>6 DEF FolderStays
  <2>2. ~(uid >= old.next)
    BY <1>2, <1>3, <2>1 DEF FolderStays
  <2>3. uid \in DOMAIN old.mail /\ folder.mail[uid] = old.mail[uid]
    BY <1>2, <1>6, <2>1, <2>2 DEF FolderStays
  <2>4. QED BY <1>4, <2>1, <2>3
<1>7. QED BY <1>5, <1>6

\* What a request has read stays true while the tables grow.
LEMMA MailArgsStay ==
    ASSUME Typed, Grows, NEW r, MailArgs(r, db), MailboxArgs(r, db), InboxArgs(r, db)
    PROVE  MailArgs(r, db') /\ MailboxArgs(r, db') /\ InboxArgs(r, db')
<1>1. ASSUME NEW org, NoDemo(db, org)
      PROVE  NoDemo(db', org)
  BY <1>1 DEF NoDemo, Grows
<1>2. \A m \in DOMAIN db.mailboxes :
         m \in DOMAIN db'.mailboxes /\ db'.mailboxes[m].org = db.mailboxes[m].org
  BY DEF Grows
<1>3. \A t \in DOMAIN db.threads :
         t \in DOMAIN db'.threads /\ db'.threads[t].org = db.threads[t].org
  BY DEF Grows
<1>4. MailArgs(r, db')
  <2>1. ASSUME NEW x \in DOMAIN db.messages, NoDemo(db, db.messages[x].org),
               db.messages[x].accepted > 0
        PROVE  /\ x \in DOMAIN db'.messages /\ NoDemo(db', db'.messages[x].org)
               /\ db'.messages[x].accepted > 0
    BY <1>1, <2>1 DEF Grows, NoDemo
  <2>2. QED BY <1>2, <2>1 DEF MailArgs
<1>5. MailboxArgs(r, db')
  <2>1. SyncArgs(r, db')
    <3>1. ASSUME NEW arg, ImportArgs(arg, db)
          PROVE  ImportArgs(arg, db')
      <4>1. arg.mailbox \in DOMAIN db.mailboxes
        BY <3>1 DEF ImportArgs
      <4>2. Folders(db', arg.mailbox) = Folders(db, arg.mailbox)
        BY <4>1, FoldersStay
      <4>3. /\ SeenUpTo(db', arg.mailbox, arg.cursor)
            /\ SeenUpTo(db', arg.mailbox, arg.reached)
        BY <3>1, <4>1, SeenUpToStays DEF ImportArgs
      <4>4. QED BY <1>2, <3>1, <4>2, <4>3 DEF ImportArgs
    <3>2. ASSUME NEW arg, ImportArgs(arg, db), FolderArgs(arg, db), MessageArgs(arg, db)
          PROVE  MessageArgs(arg, db')
      <4>1. arg.mailbox \in DOMAIN db.mailboxes
        BY <3>2 DEF ImportArgs
      <4>2. MessageRead(db', arg)
        BY <3>2, MessageReadStays
      <4>3. QED BY <1>2, <1>3, <3>2, <4>1, <4>2 DEF MessageArgs
    <3>3. QED BY <3>1, <3>2, FolderArgsStay DEF SyncArgs, MailboxArgs
  <2>2. QED BY <1>1, <1>2, <2>1 DEF MailboxArgs
<1>6. InboxArgs(r, db')
  BY <1>2, <1>3 DEF InboxArgs
<1>7. QED BY <1>4, <1>5, <1>6

LEMMA MailMoved ==
    ASSUME Typed, NEW p \in Requests, Writes, Moved(p), Left(request'[p], db),
           request'[p].op = "sync.insert" => request'[p].arg.file = None
    PROVE  MailKept(p)
BY MailArgsStay DEF MailKept, Left, Writes, TableWrites

\* A step that writes none of the tables but what its guard counts.
LEMMA MailCalled ==
    ASSUME Typed, NEW p \in Requests, Kept({"rates"}), Moved(p), Left(request'[p], db),
           request'[p].op = "sync.insert" => request'[p].arg.file = None
    PROVE  MailKept(p)
<1>1. {"rates"} \in SUBSET (MailTables \ {"stored", "mailFiles"})
  BY DEF MailTables
<1>2. Writes
  BY <1>1, MailWritten
<1>3. QED BY <1>2, MailMoved

LEMMA MailBegun ==
    ASSUME Typed, NEW p \in Requests, NEW op, NEW arg, Left([op |-> op, arg |-> arg], db),
           op = "sync.insert" => arg.file = None,
           Begin(p, op, arg) \/ (\E scope : CallCounted(p, scope, op, arg)) \/ Continue(p, op, arg)
    PROVE  MailKept(p)
<1>1. Kept({"rates"}) /\ Moved(p) /\ request'[p] = [op |-> op, arg |-> arg]
  BY Calling, CountedCalling, Continuing
<1>2. QED BY <1>1, MailCalled

LEMMA MailProceeded ==
    ASSUME Typed, NEW p \in Requests, NEW op, NEW arg, NEW faults, Proceed(p, db, op, arg, faults),
           Left([op |-> op, arg |-> arg], db), op # "sync.insert"
    PROVE  MailKept(p)
<1>1. db' = db /\ Moved(p) /\ request'[p] = [op |-> op, arg |-> arg]
  BY Proceeding
<1>2. Kept({"rates"})
  BY <1>1 DEF Kept, Typed
<1>3. QED BY <1>1, <1>2, MailCalled

LEMMA MailTurnedAway ==
    ASSUME Typed, NEW p \in Requests, Reject(p) \/ \E scope : TurnedAway(p, scope)
    PROVE  MailKept(p)
<1>1. Kept({"rates"}) /\ Moved(p) /\ request'[p] = Idle
  BY Rejecting, TurningAway
<1>2. Left(request'[p], db)
  BY <1>1, LeftNothing DEF Argless
<1>3. QED BY <1>1, <1>2, MailCalled DEF Idle

LEMMA MailCommitted ==
    ASSUME Typed, NEW p \in Requests, Writes, Moved(p), request'[p].op \in Argless
    PROVE  MailKept(p)
BY LeftNothing DEF MailKept, Writes, Argless

LEMMA Beginning ==
    ASSUME Typed, NEW p \in Requests, NEW tables, NEW op, NEW arg, BeginWriting(p, tables, op, arg)
    PROVE  db' = tables /\ Moved(p) /\ request'[p] = [op |-> op, arg |-> arg]
BY DEF BeginWriting, Typed, Moved

\* A step that writes one table.
LEMMA OneCommitted ==
    ASSUME Typed, NEW p \in Requests, NEW name \in TableNames \ {"gone"}, NEW table, NEW events,
           Commit(p, [db EXCEPT ![name] = table], events)
    PROVE  /\ Kept({name}) /\ db'[name] = table /\ Moved(p)
           /\ request'[p].op \in {"none", "announce"}
<1> DEFINE tables == [db EXCEPT ![name] = table]
<1>1. /\ DOMAIN tables = TableNames /\ tables[name] = table /\ tables.gone = db.gone
      /\ \A n \in TableNames \ {name} : tables[n] = db[n]
  BY DEF Typed, TableNames
<1>2. Commit(p, tables, events)
  OBVIOUS
<1> HIDE DEF tables
<1>3. db' = tables /\ Moved(p) /\ request'[p].op \in {"none", "announce"}
  BY <1>2, Committing
<1>4. QED BY <1>1, <1>3 DEF Kept

LEMMA OneProceeding ==
    ASSUME Typed, NEW p \in Requests, NEW name \in TableNames \ {"gone"}, NEW table, NEW op, NEW arg, NEW faults,
           Proceed(p, [db EXCEPT ![name] = table], op, arg, faults)
    PROVE  /\ Kept({name}) /\ db'[name] = table /\ Moved(p)
           /\ request'[p] = [op |-> op, arg |-> arg]
<1> DEFINE tables == [db EXCEPT ![name] = table]
<1>1. /\ DOMAIN tables = TableNames /\ tables[name] = table /\ tables.gone = db.gone
      /\ \A n \in TableNames \ {name} : tables[n] = db[n]
  BY DEF Typed, TableNames
<1>2. Proceed(p, tables, op, arg, faults)
  OBVIOUS
<1> HIDE DEF tables
<1>3. db' = tables /\ Moved(p) /\ request'[p] = [op |-> op, arg |-> arg]
  BY <1>2, Proceeding
<1>4. QED BY <1>1, <1>3 DEF Kept

-----------------------------------------------------------------------------
(* Messages *)

LEMMA MessageTyped ==
    ASSUME Typed, NEW x \in DOMAIN db.messages
    PROVE  /\ x \in Messages /\ db.messages[x] \in MessageRow
           /\ db.messages[x].org \in DOMAIN db.orgs
BY DEF Typed, RowsOK, MailRowsOK, RowsOf, MailReferencesOK

\* One message changes, in its status and what the server said of it.
LEMMA MessagePatched ==
    ASSUME Typed, NEW x, NEW row, db'.threads = db.threads,
           db'.mailboxes = db.mailboxes, db'.messages = [db.messages EXCEPT ![x] = row],
           x \in DOMAIN db.messages =>
              /\ row \in MessageRow /\ SameMail(row, db.messages[x])
              /\ row.org = db.messages[x].org /\ row.thread = db.messages[x].thread
              /\ db.messages[x].accepted > 0 => row.accepted > 0
              /\ row.status = "SENT" => row.accepted > 0 \/ row.simulated \/ row.uid # None
    PROVE  MessagesFine
<1>1. /\ DOMAIN db'.messages = DOMAIN db.messages
      /\ \A y \in DOMAIN db.messages \ {x} : db'.messages[y] = db.messages[y]
      /\ x \in DOMAIN db.messages => db'.messages[x] = row
  OBVIOUS
<1>2. ASSUME NEW y \in DOMAIN db.messages
      PROVE  MessageFine(db.messages[y])
  BY MessageTyped DEF MessageFine, Typed, MailReferencesOK, SentOK
<1>3. x \in DOMAIN db.messages => MessageFine(row)
  BY <1>2 DEF MessageFine, SameMail
<1>4. \A y \in DOMAIN db.messages :
         /\ y \in DOMAIN db'.messages /\ SameMail(db'.messages[y], db.messages[y])
         /\ db'.messages[y].org = db.messages[y].org
         /\ db.messages[y].accepted > 0 => db'.messages[y].accepted > 0
  BY <1>1 DEF SameMail
<1>5. QED BY <1>1, <1>2, <1>3, <1>4, MessageTyped DEF MessagesFine

\* A status that promises nothing, or SENT when it is.
LEMMA StatusOver ==
    ASSUME NEW row \in MessageRow, NEW status \in {"QUEUED", "SENDING", "SENT", "FAILED"},
           NEW change,
           \/ change = [status |-> status]
           \/ \E simulated \in BOOLEAN : change = [status |-> status, simulated |-> simulated]
    PROVE  /\ Over(change, row) \in MessageRow
           /\ Over(change, row).org = row.org /\ Over(change, row).thread = row.thread
           /\ Over(change, row).accepted = row.accepted /\ SameMail(Over(change, row), row)
           /\ Over(change, row).status = status
           /\ "simulated" \in DOMAIN change => Over(change, row).simulated = change.simulated
<1>1. CASE change = [status |-> status]
  BY <1>1 DEF Over, MessageRow, SameMail
<1>2. ASSUME NEW simulated \in BOOLEAN, change = [status |-> status, simulated |-> simulated]
      PROVE  /\ Over(change, row) \in MessageRow
             /\ Over(change, row).org = row.org /\ Over(change, row).thread = row.thread
             /\ Over(change, row).accepted = row.accepted /\ SameMail(Over(change, row), row)
             /\ Over(change, row).status = status
             /\ Over(change, row).simulated = change.simulated
  BY <1>2 DEF Over, MessageRow, SameMail
<1>3. QED BY <1>1, <1>2

\* What SetStatus writes, when it is not SENT.
Statused(messages, x, status) ==
    IF x \in DOMAIN messages THEN Patch(messages, x, [status |-> status]) ELSE messages

LEMMA StatusFine ==
    ASSUME Typed, NEW x, NEW status \in {"QUEUED", "SENDING", "FAILED"},
           db'.threads = db.threads, db'.mailboxes = db.mailboxes,
           db'.messages = Statused(db.messages, x, status)
    PROVE  MessagesFine
<1>1. CASE x \in DOMAIN db.messages
  <2> DEFINE row == Over([status |-> status], db.messages[x])
  <2>1. db'.messages = [db.messages EXCEPT ![x] = row]
    BY <1>1 DEF Statused, Patch
  <2>2. /\ row \in MessageRow /\ row.org = db.messages[x].org
        /\ row.thread = db.messages[x].thread /\ row.accepted = db.messages[x].accepted
        /\ row.status = status /\ SameMail(row, db.messages[x])
    BY <1>1, MessageTyped, StatusOver
  <2> HIDE DEF row
  <2>3. QED BY <2>1, <2>2, MessagePatched, SMTT(40)
<1>2. CASE x \notin DOMAIN db.messages
  <2>1. db'.messages = db.messages
    BY <1>2 DEF Statused
  <2>2. ASSUME NEW y \in DOMAIN db.messages
        PROVE  MessageFine(db.messages[y])
    BY MessageTyped DEF MessageFine, Typed, MailReferencesOK, SentOK
  <2>3. QED BY <2>1, <2>2, MessageTyped DEF MessagesFine, SameMail
<1>3. QED BY <1>1, <1>2

-----------------------------------------------------------------------------
(* The steps of the e-mail *)

LEMMA TemplatesWritten ==
    ASSUME Typed, NEW p \in Requests, NEW templates, RowsOf(templates, Templates, TemplateRow),
           NEW events, Commit(p, [db EXCEPT !.templates = templates], events)
    PROVE  MailKept(p)
<1>1. /\ Kept({"templates"}) /\ db'.templates = templates /\ Moved(p)
      /\ request'[p].op \in {"none", "announce"}
  BY OneCommitted DEF TableNames
<1>2. Writes
  BY <1>1, MailWritten DEF MailTables
<1>3. QED BY <1>1, <1>2, MailCommitted DEF Argless

LEMMA TemplateKept ==
    ASSUME Typed, NEW p \in Requests, Left(request[p], db),
           CreateTemplate(p) \/ UpdateTemplate(p) \/ DuplicateTemplate(p)
    PROVE  MailKept(p)
<1>1. ASSUME NEW s \in DOMAIN db.sessions, NEW name \in TemplateNames, NEW active \in BOOLEAN,
             Begin(p, "template.create", [org |-> CallerOrg(s), name |-> name, active |-> active])
      PROVE  MailKept(p)
  <2>1. [org |-> CallerOrg(s), name |-> name, active |-> active] \in TemplateRow
    BY CallerTyped DEF TemplateRow
  <2> DEFINE arg == [org |-> CallerOrg(s), name |-> name, active |-> active]
  <2>2. Begin(p, "template.create", arg)
    BY <1>1
  <2> HIDE DEF arg
  <2>3. MailArgs([op |-> "template.create", arg |-> arg], db)
    BY <2>1 DEF MailArgs, arg
  <2>4. QED BY <2>2, <2>3, LeftMail, MailBegun DEF MailOps
<1>2. CASE Reject(p)
  BY <1>2, MailTurnedAway
<1>3. CASE CreateTemplate(p)
  <2>1. CASE At(p, "template.create")
    <3> DEFINE t == Fresh(Unused(Templates), db.templates)
               templates == Insert(db.templates, t, Arg(p))
    <3>1. HasRoom(Unused(Templates), db.templates)
          /\ (Reject(p) \/ Commit(p, [db EXCEPT !.templates = templates], <<>>))
      BY <1>3, <2>1 DEF CreateTemplate
    <3>2. t \in Templates /\ Arg(p) \in TemplateRow
      BY <2>1, <3>1, Choosing DEF Left, MailArgs
    <3>3. RowsOf(templates, Templates, TemplateRow)
      BY <3>2, Inserting DEF Typed, RowsOK, MailRowsOK
    <3> HIDE DEF templates
    <3>4. QED BY <1>2, <3>1, <3>3, TemplatesWritten
  <2>2. CASE ~At(p, "template.create")
    BY <1>1, <1>3, <2>2 DEF CreateTemplate, Callers
  <2>3. QED BY <2>1, <2>2
<1>4. CASE DuplicateTemplate(p)
  BY <1>1, <1>4 DEF DuplicateTemplate, Callers
<1>5. CASE UpdateTemplate(p)
  <2>1. CASE At(p, "template.update")
    <3> DEFINE change == Arg(p).change
               templates == Patch(db.templates, Arg(p).template, change)
    <3>1. Reject(p) \/ Commit(p, [db EXCEPT !.templates = templates], <<>>)
      BY <1>5, <2>1 DEF UpdateTemplate
    <3>2. /\ DOMAIN change \subseteq {"name", "active"}
          /\ "name" \in DOMAIN change => change.name \in TemplateNames
          /\ "active" \in DOMAIN change => change.active \in BOOLEAN
      BY <2>1 DEF Left, MailArgs
    <3> HIDE DEF change
    <3>3. ASSUME NEW row \in TemplateRow
          PROVE  Over(change, row) \in TemplateRow
      BY <3>2 DEF Over, TemplateRow
    <3>4. RowsOf(templates, Templates, TemplateRow)
      BY <3>3, Patching DEF Typed, RowsOK, MailRowsOK, RowsOf
    <3> HIDE DEF templates
    <3>5. QED BY <1>2, <3>1, <3>4, TemplatesWritten
  <2>2. ASSUME NEW t, NEW change \in Changes([name |-> TemplateNames, active |-> BOOLEAN]),
               Begin(p, "template.update", [template |-> t, change |-> change])
        PROVE  MailKept(p)
    <3> DEFINE arg == [template |-> t, change |-> change]
               spec == [name |-> TemplateNames, active |-> BOOLEAN]
    <3>1. DOMAIN change \subseteq DOMAIN spec /\ \A f \in DOMAIN change : change[f] \in spec[f]
      BY ChangesTyped
    <3>2. arg.change = change
      OBVIOUS
    <3>3. Begin(p, "template.update", arg)
      BY <2>2
    <3> HIDE DEF arg
    <3>4. MailArgs([op |-> "template.update", arg |-> arg], db)
      BY <3>1, <3>2 DEF MailArgs
    <3>5. QED BY <3>3, <3>4, LeftMail, MailBegun DEF MailOps
  <2>3. At(p, "template.update")
        \/ \E change \in Changes([name |-> TemplateNames, active |-> BOOLEAN]) : \E t :
              Begin(p, "template.update", [template |-> t, change |-> change])
    BY <1>5 DEF UpdateTemplate
  <2>4. QED BY <2>1, <2>2, <2>3
<1>6. QED BY <1>3, <1>4, <1>5

LEMMA SettingsKept ==
    ASSUME Typed, NEW p \in Requests, Left(request[p], db), SendTest(p) \/ UpdateSettings(p)
    PROVE  MailKept(p)
<1>1. ASSUME NEW op \in Argless, NEW arg,
             Begin(p, op, arg) \/ \E scope : CallCounted(p, scope, op, arg)
      PROVE  MailKept(p)
  <2>1. op # "sync.insert"
    BY DEF Argless
  <2>2. Left([op |-> op, arg |-> arg], db)
    BY LeftNothing
  <2>3. QED BY <1>1, <2>1, <2>2, MailBegun
<1>2. CASE SendTest(p)
  <2>1. (\E scope : TurnedAway(p, scope)) \/ \E scope, arg : CallCounted(p, scope, "announce", arg)
    BY <1>2 DEF SendTest
  <2>2. QED BY <1>1, <2>1, MailTurnedAway DEF Argless
<1>3. CASE UpdateSettings(p)
  <2>1. (\E arg : Begin(p, "email.settings", arg)) \/ Commit(p, WithSender(Arg(p)), <<>>)
    BY <1>3 DEF UpdateSettings
  <2> DEFINE org == Arg(p)
             orgs == IF org \in DOMAIN db.orgs THEN Patch(db.orgs, org, [sender |-> TRUE])
                     ELSE db.orgs
  <2>2. ASSUME Commit(p, [db EXCEPT !.orgs = orgs], <<>>)
        PROVE  MailKept(p)
    <3>1. /\ RowsOf(orgs, Orgs, OrgRow) /\ DOMAIN orgs = DOMAIN db.orgs
          /\ \A o \in DOMAIN db.orgs :
                orgs[o].demo = db.orgs[o].demo /\ orgs[o].expires = db.orgs[o].expires
      <4>1. CASE org \in DOMAIN db.orgs
        <5>1. orgs = Patch(db.orgs, org, [sender |-> TRUE])
          BY <4>1
        <5> HIDE DEF orgs, org
        <5>2. QED BY <4>1, <5>1, PatchingOrg
      <4>2. CASE org \notin DOMAIN db.orgs
        BY <4>2 DEF Typed, RowsOK, DemoRowsOK
      <4>3. QED BY <4>1, <4>2
    <3> HIDE DEF orgs
    <3>2. /\ Kept({"orgs"}) /\ db'.orgs = orgs /\ Moved(p)
          /\ request'[p].op \in {"none", "announce"}
      BY <2>2, OneCommitted DEF TableNames
    <3>3. Writes
      <4>1. TypedNext /\ Grows
        BY <3>1, <3>2, OrgsPatched
      <4>2. QED BY <3>1, <3>2, <4>1 DEF Writes, TableWrites, FilesSame, OrgsStay, Kept, TableNames
    <3>4. QED BY <3>2, <3>3, MailCommitted DEF Argless
  <2>3. WithSender(Arg(p)) = [db EXCEPT !.orgs = orgs]
    BY DEF WithSender
  <2> HIDE DEF orgs
  <2>4. QED BY <1>1, <2>1, <2>2, <2>3 DEF Argless
<1>4. QED BY <1>2, <1>3

\* The rows that stay as they are, beside a new one.
LEMMA ThreadsUnchanged == ASSUME Typed, db'.threads = db.threads PROVE ThreadsFine
BY DEF ThreadsFine, NoDemo, Typed, RowsOK, MailRowsOK, MailReferencesOK, ThreadsOK

LEMMA ThreadInserted ==
    ASSUME Typed, NEW t \in Threads, t \notin DOMAIN db.threads, NEW row \in ThreadRow,
           NoDemo(db, row.org), Terminal(row.status) <=> row.resolved,
           row.status = "UNASSIGNED" => row.assignee = None,
           db'.threads = Insert(db.threads, t, row)
    PROVE  ThreadsFine
<1>1. RowsOf(db'.threads, Threads, ThreadRow)
  BY Inserting DEF Typed, RowsOK, MailRowsOK
<1>2. /\ DOMAIN db'.threads = DOMAIN db.threads \cup {t} /\ db'.threads[t] = row
      /\ \A u \in DOMAIN db.threads : db'.threads[u] = db.threads[u]
  BY DEF Insert
<1>3. QED BY <1>1, <1>2 DEF ThreadsFine, NoDemo, Typed, MailReferencesOK, ThreadsOK

LEMMA MessagesStay ==
    ASSUME Typed, ThreadsFine, db'.mailboxes = db.mailboxes, NEW x \in DOMAIN db.messages
    PROVE  x \in Messages /\ MessageFine(db.messages[x])
BY MessageTyped DEF MessageFine, ThreadsFine, Typed, MailReferencesOK, SentOK

LEMMA MessageInserted ==
    ASSUME Typed, ThreadsFine, db'.mailboxes = db.mailboxes, NEW x \in Messages,
           x \notin DOMAIN db.messages, NEW row, MessageFine(row),
           db'.messages = Insert(db.messages, x, row)
    PROVE  MessagesFine
<1>1. /\ DOMAIN db'.messages = DOMAIN db.messages \cup {x} /\ db'.messages[x] = row
      /\ \A y \in DOMAIN db.messages : db'.messages[y] = db.messages[y]
  BY DEF Insert
<1>2. QED BY <1>1, MessagesStay DEF MessagesFine, SameMail

LEMMA CorrespondentTyped ==
    ASSUME Typed, NEW org, NEW kinds, NEW x \in LiveEntities(org, kinds)
    PROVE  x \in Entities
BY DEF LiveEntities, Typed, RowsOK, AttachmentRowsOK, RowsOf

LEMMA SendMailKept ==
    ASSUME Typed, NEW p \in Requests, Left(request[p], db), SendMail(p) \/ SendAutomation(p)
    PROVE  MailKept(p)
<1>1. ASSUME NEW org \in DOMAIN db.orgs, NEW sender \in DOMAIN db.accounts,
             NEW x \in Correspondents(org), NEW mailbox, mailbox # None => mailbox \in UsableMailboxes(org),
             NEW key \in OrNone(Keys), NEW arg,
             arg = [org |-> org, sender |-> sender, related |-> x, mailbox |-> mailbox, key |-> key],
             Begin(p, "email.persist", arg) \/ \E scope : CallCounted(p, scope, "email.persist", arg)
      PROVE  MailKept(p)
  <2>1. org \in Orgs /\ sender \in Accounts /\ x \in Entities
    BY CorrespondentTyped DEF Typed, RowsOK, DemoRowsOK, AccountRowsOK, RowsOf, Correspondents
  <2>2. mailbox # None => /\ mailbox \in Mailboxes /\ mailbox \in DOMAIN db.mailboxes
                          /\ db.mailboxes[mailbox].org = org
    BY <1>1 DEF UsableMailboxes, OfOrg, Typed, RowsOK, MailboxRowsOK, RowsOf
  <2>3. MailArgs([op |-> "email.persist", arg |-> arg], db)
    BY <1>1, <2>1, <2>2 DEF MailArgs, OrNone
  <2>4. Left([op |-> "email.persist", arg |-> arg], db)
    BY <2>3, LeftMail DEF MailOps
  <2>5. QED BY <1>1, <2>4, MailBegun
<1>2. CASE SendMail(p)
  <2>1. PICK s \in Callers(<<"CrmEmails", "send">>), mailbox \in OrNone(DOMAIN db.mailboxes) :
           \/ \E scope : TurnedAway(p, scope)
           \/ /\ CanSendFrom(CallerOrg(s), mailbox)
              /\ \E x \in Correspondents(CallerOrg(s)) : \E scope :
                    CallCounted(p, scope, "email.persist",
                       [org |-> CallerOrg(s), sender |-> CallerAccount(s), related |-> x,
                        mailbox |-> mailbox, key |-> None])
    BY <1>2 DEF SendMail
  <2>2. s \in DOMAIN db.sessions
    BY DEF Callers
  <2>3. CallerOrg(s) \in DOMAIN db.orgs /\ CallerAccount(s) \in DOMAIN db.accounts
    BY <2>2, CallerTyped
  <2>4. CanSendFrom(CallerOrg(s), mailbox) => (mailbox # None => mailbox \in UsableMailboxes(CallerOrg(s)))
    BY DEF CanSendFrom
  <2> DEFINE org == CallerOrg(s)
             sender == CallerAccount(s)
  <2> HIDE DEF org, sender
  <2>5. \/ \E scope : TurnedAway(p, scope)
        \/ /\ CanSendFrom(org, mailbox)
           /\ \E x \in Correspondents(org) : \E scope :
                 CallCounted(p, scope, "email.persist",
                    [org |-> org, sender |-> sender, related |-> x, mailbox |-> mailbox,
                     key |-> None])
    BY <2>1 DEF org, sender
  <2>6. /\ org \in DOMAIN db.orgs /\ sender \in DOMAIN db.accounts
        /\ CanSendFrom(org, mailbox) => (mailbox # None => mailbox \in UsableMailboxes(org))
    BY <2>3, <2>4 DEF org, sender
  <2>7. CASE \E scope : TurnedAway(p, scope)
    BY <2>7, MailTurnedAway
  <2>8. ASSUME CanSendFrom(org, mailbox), NEW x \in Correspondents(org), NEW scope,
               CallCounted(p, scope, "email.persist",
                    [org |-> org, sender |-> sender, related |-> x, mailbox |-> mailbox,
                     key |-> None])
        PROVE  MailKept(p)
    <3> DEFINE arg == [org |-> org, sender |-> sender, related |-> x, mailbox |-> mailbox,
                       key |-> None]
    <3>1. CallCounted(p, scope, "email.persist", arg)
      BY <2>8
    <3>2. None \in OrNone(Keys)
      BY DEF OrNone
    <3>3. arg = [org |-> org, sender |-> sender, related |-> x, mailbox |-> mailbox, key |-> None]
      OBVIOUS
    <3> HIDE DEF arg
    <3>4. QED BY <1>1, <2>6, <2>8, <3>1, <3>2, <3>3
  <2>9. QED BY <2>5, <2>7, <2>8
<1>3. CASE SendAutomation(p)
  <2>1. PICK org \in DOMAIN db.orgs, key \in Keys : \E a \in AccountsOf(org), x \in Correspondents(org) :
           Begin(p, "email.persist",
                [org |-> org, sender |-> a, related |-> x, mailbox |-> None, key |-> key])
    BY <1>3 DEF SendAutomation
  <2>2. PICK a \in AccountsOf(org), x \in Correspondents(org) :
           Begin(p, "email.persist",
                [org |-> org, sender |-> a, related |-> x, mailbox |-> None, key |-> key])
    BY <2>1
  <2> DEFINE arg == [org |-> org, sender |-> a, related |-> x, mailbox |-> None, key |-> key]
  <2>3. Begin(p, "email.persist", arg)
    BY <2>2
  <2>4. a \in DOMAIN db.accounts /\ key \in OrNone(Keys)
    BY DEF AccountsOf, OrNone
  <2>5. arg = [org |-> org, sender |-> a, related |-> x, mailbox |-> None, key |-> key]
    OBVIOUS
  <2> HIDE DEF arg
  <2>6. QED BY <1>1, <2>3, <2>4, <2>5
<1>4. QED BY <1>2, <1>3

LEMMA EnqueueKept ==
    ASSUME Typed, NEW p \in Requests, Left(request[p], db), EnqueueMessage(p)
    PROVE  MailKept(p)
<1>1. CASE At(p, "email.enqueue")
  <2> DEFINE x == Arg(p)
             j == Fresh(MailJobs, db.mailJobs)
             jobs == Insert(db.mailJobs, j, [message |-> x, made |-> 0])
  <2>1. x \in Messages /\ HasRoom(MailJobs, db.mailJobs)
    BY <1>1 DEF EnqueueMessage, Left, MailArgs
  <2>2. j \in MailJobs
    BY <2>1 DEF HasRoom, Fresh
  <2>3. [message |-> x, made |-> 0] \in MailJob
    BY <2>1, CrmMailAssumption DEF MailJob, CrmMailAssumption
  <2>4. RowsOf(jobs, MailJobs, MailJob)
    BY <2>2, <2>3, Inserting DEF Typed, RowsOK, MailRowsOK
  <2>5. \/ Proceed(p, [db EXCEPT !.mailJobs = jobs], "none", None, 0)
        \/ Proceed(p, [db EXCEPT !.mailJobs = jobs], "email.unqueued", x, 1)
        \/ Proceed(p, db, "email.unqueued", x, 1)
    BY <1>1 DEF EnqueueMessage, WithJob
  <2> HIDE DEF jobs, x
  <2>6. \A op \in {"none", "email.unqueued"} : \A arg \in Messages :
           Left([op |-> op, arg |-> arg], db) /\ Left([op |-> "none", arg |-> None], db)
    <3>1. Left([op |-> "none", arg |-> None], db)
      BY LeftNothing DEF Argless
    <3>2. ASSUME NEW arg \in Messages
          PROVE  Left([op |-> "email.unqueued", arg |-> arg], db)
      BY LeftMessage
    <3>3. ASSUME NEW arg \in Messages
          PROVE  Left([op |-> "none", arg |-> arg], db)
      BY LeftNothing DEF Argless
    <3>4. QED BY <3>1, <3>2, <3>3
  <2>7. ASSUME NEW op, NEW arg, NEW faults, Proceed(p, [db EXCEPT !.mailJobs = jobs], op, arg, faults),
               Left([op |-> op, arg |-> arg], db), op # "sync.insert"
        PROVE  MailKept(p)
    <3>1. /\ Kept({"mailJobs"}) /\ db'.mailJobs = jobs /\ Moved(p)
          /\ request'[p] = [op |-> op, arg |-> arg]
      <4>1. "mailJobs" \in TableNames \ {"gone"}
        BY DEF TableNames
      <4>2. Proceed(p, [db EXCEPT !["mailJobs"] = jobs], op, arg, faults)
        BY <2>7
      <4>3. QED BY <4>1, <4>2, OneProceeding
    <3>2. Writes
      BY <2>4, <3>1, MailWritten DEF MailTables
    <3>3. QED BY <2>7, <3>1, <3>2, MailMoved
  <2>8. ASSUME Proceed(p, db, "email.unqueued", x, 1)
        PROVE  MailKept(p)
    BY <2>1, <2>6, <2>8, MailProceeded
  <2>9. QED BY <2>1, <2>5, <2>6, <2>7, <2>8
<1>2. CASE At(p, "email.unqueued")
  <2>1. Commit(p, SetStatus(Arg(p), "FAILED"), <<>>)
    BY <1>2 DEF EnqueueMessage
  <2> DEFINE x == Arg(p)
             messages == Statused(db.messages, x, "FAILED")
  <2>2. Commit(p, [db EXCEPT !.messages = messages], <<>>)
    BY <2>1 DEF SetStatus, Statused
  <2> HIDE DEF x
  <2>3. messages = Statused(db.messages, x, "FAILED")
    OBVIOUS
  <2> HIDE DEF messages
  <2>4. /\ Kept({"messages"}) /\ db'.messages = messages /\ Moved(p)
        /\ request'[p].op \in {"none", "announce"}
    BY <2>2, OneCommitted DEF TableNames
  <2>5. db'.threads = db.threads /\ db'.mailboxes = db.mailboxes
    BY <2>4 DEF Kept, TableNames
  <2>6. MessagesFine
    BY <2>3, <2>4, <2>5, StatusFine
  <2>7. Writes
    BY <2>4, <2>6, MailWritten DEF MailTables
  <2>8. QED BY <2>4, <2>7, MailCommitted DEF Argless
<1>3. QED BY <1>1, <1>2 DEF EnqueueMessage

LEMMA PersistKept ==
    ASSUME Typed, NEW p \in Requests, Left(request[p], db), PersistMessage(p)
    PROVE  MailKept(p)
<1> DEFINE arg == Arg(p)
           x == Fresh(Unused(Messages), db.messages)
           t == Fresh(Unused(Threads), db.threads)
           row(u) == [org |-> arg.org, mailbox |-> arg.mailbox, thread |-> u,
                      direction |-> "OUTBOUND", status |-> "QUEUED", related |-> arg.related,
                      key |-> arg.key, id |-> IF arg.mailbox = None THEN None ELSE x,
                      folder |-> None, uid |-> None, accepted |-> 0, simulated |-> FALSE]
           begun == [org |-> arg.org, mailbox |-> arg.mailbox, unread |-> FALSE,
                     related |-> arg.related, assignee |-> arg.sender, status |-> "OPEN"]
           thread == Over(begun, NewThread)
           alone == Insert(db.messages, x, row(None))
           within == Insert(db.messages, x, row(t))
           threads == Insert(db.threads, t, thread)
<1>1. /\ arg.org \in Orgs /\ arg.sender \in Accounts /\ arg.related \in Entities
      /\ arg.key \in OrNone(Keys) /\ arg.mailbox \in OrNone(Mailboxes)
      /\ arg.mailbox # None => arg.mailbox \in DOMAIN db.mailboxes
                               /\ db.mailboxes[arg.mailbox].org = arg.org
  BY DEF PersistMessage, Left, MailArgs
<1>2. HasRoom(Unused(Messages), db.messages)
  BY DEF PersistMessage
<1>3. x \in Messages /\ x \notin DOMAIN db.messages
  BY <1>2, Choosing
<1>4. \/ Reject(p)
      \/ /\ arg.mailbox = None /\ arg.org \in DOMAIN db.orgs
         /\ Proceed(p, [db EXCEPT !.messages = alone], "email.enqueue", x, 0)
      \/ /\ arg.mailbox # None /\ arg.org \in DOMAIN db.orgs
         /\ HasRoom(Unused(Threads), db.threads)
         /\ Proceed(p, [db EXCEPT !.threads = threads, !.messages = within], "email.enqueue", x, 0)
  BY DEF PersistMessage
<1>5. ASSUME NEW u \in OrNone(Threads)
      PROVE  /\ row(u) \in MessageRow /\ row(u).org = arg.org /\ row(u).thread = u
             /\ row(u).status # "SENT" /\ row(u).mailbox = arg.mailbox
  BY <1>1, <1>3 DEF MessageRow, OrNone
<1> HIDE DEF row, x
<1>6. Left([op |-> "email.enqueue", arg |-> x], db)
  BY <1>3, LeftMessage
<1>7. CASE Reject(p)
  BY <1>7, MailTurnedAway
<1>8. ASSUME arg.org \in DOMAIN db.orgs,
             Proceed(p, [db EXCEPT !.messages = alone], "email.enqueue", x, 0)
      PROVE  MailKept(p)
  <2> HIDE DEF arg
  <2>1. alone = Insert(db.messages, x, row(None))
    OBVIOUS
  <2> HIDE DEF alone
  <2>2. "messages" \in TableNames \ {"gone"}
    BY DEF TableNames
  <2>3. /\ Kept({"messages"}) /\ db'["messages"] = alone /\ Moved(p)
        /\ request'[p] = [op |-> "email.enqueue", arg |-> x]
    <3>1. Proceed(p, [db EXCEPT !["messages"] = alone], "email.enqueue", x, 0)
      BY <1>8
    <3>2. QED BY <2>2, <3>1, OneProceeding
  <2>4. /\ db'.threads = db.threads /\ db'.messages = alone
        /\ db'.mailboxes = db.mailboxes
    BY <2>3 DEF Kept, TableNames
  <2>5. None \in OrNone(Threads)
    BY DEF OrNone
  <2>6. MessageFine(row(None))
    BY <1>1, <1>5, <1>8, <2>4, <2>5 DEF MessageFine
  <2>7. ThreadsFine
    BY <2>4, ThreadsUnchanged
  <2>8. MessagesFine
    BY <1>3, <2>1, <2>4, <2>6, <2>7, MessageInserted
  <2>9. Writes
    BY <2>3, <2>8, MailWritten DEF MailTables
  <2>10. QED BY <1>6, <2>3, <2>9, MailMoved
<1>9. ASSUME arg.mailbox # None, HasRoom(Unused(Threads), db.threads),
             Proceed(p, [db EXCEPT !.threads = threads, !.messages = within], "email.enqueue", x, 0)
      PROVE  MailKept(p)
  <2>1. t \in Threads /\ t \notin DOMAIN db.threads /\ t \in OrNone(Threads)
    BY <1>9, Choosing DEF OrNone
  <2>2. /\ thread \in ThreadRow /\ thread.org = arg.org /\ thread.status = "OPEN"
        /\ thread.resolved = FALSE
    BY <1>1 DEF ThreadRow, Over, NewThread, OrNone
  <2>3. NoDemo(db, arg.org)
    BY <1>1, <1>9 DEF NoDemo, Typed, MailReferencesOK
  <2> HIDE DEF thread, t, arg
  <2>4. threads = Insert(db.threads, t, thread) /\ within = Insert(db.messages, x, row(t))
    OBVIOUS
  <2> HIDE DEF threads, within
  <2>5. /\ "messages" \in TableNames \ {"gone"} /\ "threads" \in TableNames \ {"gone"}
        /\ "threads" # "messages"
    BY DEF TableNames
  <2>6. /\ Kept({"threads", "messages"}) /\ db'["threads"] = threads /\ db'["messages"] = within
        /\ Moved(p) /\ request'[p] = [op |-> "email.enqueue", arg |-> x]
    <3> DEFINE tables == [db EXCEPT !["threads"] = threads, !["messages"] = within]
    <3>1. /\ DOMAIN tables = TableNames /\ tables["threads"] = threads
          /\ tables["messages"] = within /\ tables.gone = db.gone
          /\ \A n \in TableNames \ {"threads", "messages"} : tables[n] = db[n]
      BY DEF Typed, TableNames
    <3>2. Proceed(p, tables, "email.enqueue", x, 0)
      BY <1>9
    <3> HIDE DEF tables
    <3>3. db' = tables /\ Moved(p) /\ request'[p] = [op |-> "email.enqueue", arg |-> x]
      BY <3>2, Proceeding
    <3>4. QED BY <3>1, <3>3 DEF Kept
  <2>7. ThreadsFine
    <3>1. Terminal("OPEN") = FALSE
      BY DEF Terminal
    <3>2. Terminal(thread.status) <=> thread.resolved
      BY <2>2, <3>1
    <3>3. QED BY <2>1, <2>2, <2>3, <2>4, <2>6, <3>2, ThreadInserted
  <2>8. t \in DOMAIN db'.threads /\ db'.threads[t].org = arg.org
    BY <2>2, <2>4, <2>6 DEF Insert
  <2>9. db'.mailboxes = db.mailboxes
    BY <2>6 DEF Kept, TableNames
  <2>10. MessageFine(row(t))
    BY <1>1, <1>5, <2>1, <2>3, <2>8, <2>9 DEF MessageFine, NoDemo
  <2>11. MessagesFine
    BY <1>3, <2>4, <2>6, <2>7, <2>9, <2>10, MessageInserted
  <2>12. Writes
    BY <2>6, <2>7, <2>11, MailWritten DEF MailTables
  <2>13. QED BY <1>6, <2>6, <2>12, MailMoved
<1>10. QED BY <1>4, <1>7, <1>8, <1>9

\* A job, of which some attempts were made.
LEMMA JobInserted ==
    ASSUME Typed, HasRoom(MailJobs, db.mailJobs), NEW x \in Messages, NEW made \in 0..MailAttempts
    PROVE  RowsOf(Insert(db.mailJobs, Fresh(MailJobs, db.mailJobs), [message |-> x, made |-> made]),
                  MailJobs, MailJob)
<1>1. Fresh(MailJobs, db.mailJobs) \in MailJobs
  BY DEF HasRoom, Fresh
<1>2. [message |-> x, made |-> made] \in MailJob
  BY DEF MailJob
<1>3. QED BY <1>1, <1>2, Inserting DEF Typed, RowsOK, MailRowsOK

LEMMA TakeMailKept ==
    ASSUME Typed, NEW p \in Requests, Left(request[p], db),
           TakeMailJob(p) \/ StartDelivery(p) \/ RecoverQueued(p)
    PROVE  MailKept(p)
<1>1. ASSUME NEW jobs, NEW op, NEW arg, BeginWriting(p, [db EXCEPT !.mailJobs = jobs], op, arg),
             RowsOf(jobs, MailJobs, MailJob), Left([op |-> op, arg |-> arg], db), op # "sync.insert"
      PROVE  MailKept(p)
  <2> DEFINE tables == [db EXCEPT !.mailJobs = jobs]
  <2>1. /\ DOMAIN tables = TableNames /\ tables.mailJobs = jobs /\ tables.gone = db.gone
        /\ \A n \in TableNames \ {"mailJobs"} : tables[n] = db[n]
        /\ BeginWriting(p, tables, op, arg)
    BY <1>1 DEF Typed, TableNames
  <2> HIDE DEF tables
  <2>2. /\ Kept({"mailJobs"}) /\ db'.mailJobs = jobs /\ Moved(p)
        /\ request'[p] = [op |-> op, arg |-> arg]
    BY <2>1, Beginning DEF Kept
  <2>3. Writes
    BY <1>1, <2>2, MailWritten DEF MailTables
  <2>4. QED BY <1>1, <2>2, <2>3, MailMoved
<1>2. CASE TakeMailJob(p)
  <2>1. PICK j \in DOMAIN db.mailJobs :
           BeginWriting(p, [db EXCEPT !.mailJobs = Without(@, {j})], "mail.read", db.mailJobs[j])
    BY <1>2 DEF TakeMailJob
  <2>2. RowsOf(Without(db.mailJobs, {j}), MailJobs, MailJob) /\ db.mailJobs[j] \in MailJob
    BY Removing DEF Typed, RowsOK, MailRowsOK, RowsOf
  <2>3. Left([op |-> "mail.read", arg |-> db.mailJobs[j]], db)
    BY <2>2, LeftJob
  <2>4. QED BY <1>1, <2>1, <2>2, <2>3
<1>3. CASE StartDelivery(p)
  <2>1. Reject(p) \/ Continue(p, "mail.sending", Arg(p))
    BY <1>3 DEF StartDelivery
  <2>2. CASE Reject(p)
    BY <2>2, MailTurnedAway
  <2>3. Left([op |-> "mail.sending", arg |-> Arg(p)], db)
    <3>1. Arg(p) \in MailJob
      BY <1>3 DEF StartDelivery, Left, MailArgs
    <3>2. QED BY <3>1, LeftJob
  <2>4. QED BY <2>1, <2>2, <2>3, MailBegun
<1>4. CASE RecoverQueued(p)
  <2>1. PICK x \in DOMAIN db.messages : BeginWriting(p, WithJob(db, x, 0), "none", None)
    BY <1>4 DEF RecoverQueued
  <2> DEFINE jobs == Insert(db.mailJobs, Fresh(MailJobs, db.mailJobs), [message |-> x, made |-> 0])
  <2>2. BeginWriting(p, [db EXCEPT !.mailJobs = jobs], "none", None)
    BY <2>1 DEF WithJob
  <2>3. RowsOf(jobs, MailJobs, MailJob)
    <3>1. x \in Messages /\ 0 \in 0..MailAttempts /\ HasRoom(MailJobs, db.mailJobs)
      BY <1>4, MessageTyped, CrmMailAssumption DEF CrmMailAssumption, RecoverQueued
    <3>2. QED BY <3>1, JobInserted
  <2> HIDE DEF jobs
  <2>4. Left([op |-> "none", arg |-> None], db)
    BY LeftNothing DEF Argless
  <2>5. QED BY <1>1, <2>2, <2>3, <2>4
<1>5. QED BY <1>2, <1>3, <1>4

\* The status of a message, and what is left to do about it.
LEMMA StatusProceeding ==
    ASSUME Typed, NEW p \in Requests, NEW x, NEW status \in {"QUEUED", "SENDING", "FAILED"},
           NEW op, NEW arg, NEW faults, Proceed(p, SetStatus(x, status), op, arg, faults),
           Left([op |-> op, arg |-> arg], db), op # "sync.insert"
    PROVE  MailKept(p)
<1> DEFINE messages == Statused(db.messages, x, status)
<1>1. Proceed(p, [db EXCEPT !["messages"] = messages], op, arg, faults)
  BY DEF SetStatus, Statused
<1>2. messages = Statused(db.messages, x, status)
  OBVIOUS
<1> HIDE DEF messages
<1>3. "messages" \in TableNames \ {"gone"}
  BY DEF TableNames
<1>4. /\ Kept({"messages"}) /\ db'["messages"] = messages /\ Moved(p)
      /\ request'[p] = [op |-> op, arg |-> arg]
  BY <1>1, <1>3, OneProceeding
<1>5. db'.threads = db.threads /\ db'.mailboxes = db.mailboxes
  BY <1>4 DEF Kept, TableNames
<1>6. MessagesFine
  BY <1>2, <1>4, <1>5, StatusFine
<1>7. Writes
  BY <1>4, <1>6, MailWritten DEF MailTables
<1>8. QED BY <1>4, <1>7, MailMoved

LEMMA WriteSendingKept ==
    ASSUME Typed, NEW p \in Requests, Left(request[p], db), WriteSending(p)
    PROVE  MailKept(p)
<1> DEFINE arg == Arg(p)
           x == arg.message
<1>1. Proceed(p, SetStatus(x, "SENDING"), "mail.send", arg, 0) /\ arg \in MailJob
  BY DEF WriteSending, Left, MailArgs
<1> HIDE DEF x, arg
<1>2. Left([op |-> "mail.send", arg |-> arg], db)
  BY <1>1, LeftJob
<1>3. QED BY <1>1, <1>2, StatusProceeding

\* A mail more in a folder.
LEMMA DeliveredOK ==
    ASSUME NEW folder, FolderOK(folder), folder.next <= MaxUid, NEW mail \in Mail
    PROVE  FolderOK(Delivered(folder, mail)) /\ FolderStays(Delivered(folder, mail), folder)
<1> DEFINE v == folder.validity
           n == folder.next
           m == folder.mail
<1>1. /\ folder = [validity |-> v, next |-> n, mail |-> m] /\ v \in Nat /\ n \in 1..(MaxUid + 1)
      /\ RowsOf(m, 1..(n - 1), Mail)
  BY DEF FolderOK
<1>2. n \in Nat \ {0} /\ MaxUid \in Nat /\ n <= MaxUid
  BY <1>1, CrmMailAssumption DEF CrmMailAssumption
<1> HIDE DEF v, n, m
<1>3. Delivered(folder, mail) = [validity |-> v, next |-> n + 1, mail |-> Insert(m, n, mail)]
  BY <1>1 DEF Delivered, Over
<1>4. RowsOf(Insert(m, n, mail), 1..n, Mail)
  BY <1>1, <1>2 DEF RowsOf, Insert
<1>5. FolderOK([validity |-> v, next |-> n + 1, mail |-> Insert(m, n, mail)])
  BY <1>1, <1>2, <1>4 DEF FolderOK
<1>6. FolderStays([validity |-> v, next |-> n + 1, mail |-> Insert(m, n, mail)],
                  [validity |-> v, next |-> n, mail |-> m])
  <2>1. \A uid \in DOMAIN Insert(m, n, mail) : uid >= n \/ (uid \in DOMAIN m /\ Insert(m, n, mail)[uid] = m[uid])
    BY <1>2 DEF Insert
  <2> DEFINE more == Insert(m, n, mail)
  <2> HIDE DEF more
  <2>2. QED BY <1>1, <1>2, <2>1 DEF FolderStays, more
<1>7. QED BY <1>1, <1>3, <1>5, <1>6

LEMMA FolderWritten ==
    ASSUME Typed, NEW box \in DOMAIN db.server, NEW folder, FolderOK(folder),
           FolderStays(folder, db.server[box]), db'.server = [db.server EXCEPT ![box] = folder]
    PROVE  ServerFine
BY FolderUnchanged DEF ServerFine, Typed, RowsOK, MailboxRowsOK

\* Once more a server took the message.
LEMMA MessageAccepted ==
    ASSUME Typed, NEW x \in DOMAIN db.messages, db'.threads = db.threads,
           db'.mailboxes = db.mailboxes,
           db'.messages = Patch(db.messages, x, [accepted |-> db.messages[x].accepted + 1])
    PROVE  /\ MessagesFine /\ x \in DOMAIN db'.messages /\ db'.messages[x].accepted > 0
           /\ db'.messages[x].org = db.messages[x].org
<1> DEFINE row == Over([accepted |-> db.messages[x].accepted + 1], db.messages[x])
<1>1. db'.messages = [db.messages EXCEPT ![x] = row]
  BY DEF Patch
<1>2. /\ row \in MessageRow /\ row.org = db.messages[x].org /\ row.thread = db.messages[x].thread
      /\ row.accepted > 0 /\ row.status = db.messages[x].status
      /\ SameMail(row, db.messages[x])
  <2>1. db.messages[x] \in MessageRow /\ db.messages[x].accepted \in Nat
    BY MessageTyped DEF MessageRow
  <2> DEFINE old == db.messages[x]
             more == old.accepted + 1
  <2>2. more \in Nat /\ more > 0
    BY <2>1
  <2>3. row = Over([accepted |-> more], old) /\ old \in MessageRow
    BY <2>1
  <2> HIDE DEF old, more, row
  <2>4. /\ row \in MessageRow /\ row.org = old.org /\ row.thread = old.thread
        /\ row.accepted = more /\ row.status = old.status /\ SameMail(row, old)
    BY <2>2, <2>3 DEF Over, MessageRow, SameMail
  <2>5. QED BY <2>2, <2>4 DEF old
<1> HIDE DEF row
<1>3. row.accepted > 0
  BY <1>2
<1>4. QED BY <1>1, <1>2, <1>3, MessagePatched

\* What follows a transmission.
LEMMA LeftAnswer ==
    ASSUME NEW arg \in MailJob, NEW tables, NEW op \in {"mail.sent", "mail.failed"}, NEW answer,
           NEW given, given = Over(answer, arg),
           \/ op = "mail.failed" /\ \E permanent \in BOOLEAN : answer = [permanent |-> permanent]
           \/ \E simulated \in BOOLEAN :
                 /\ answer = [simulated |-> simulated]
                 /\ \/ simulated
                    \/ /\ arg.message \in DOMAIN tables.messages
                       /\ NoDemo(tables, tables.messages[arg.message].org)
                       /\ tables.messages[arg.message].accepted > 0
    PROVE  Left([op |-> op, arg |-> given], tables)
<1>1. ASSUME NEW permanent, answer = [permanent |-> permanent]
      PROVE  /\ {"message", "made"} \subseteq DOMAIN given
             /\ given.message = arg.message /\ given.made = arg.made
  BY <1>1 DEF Over, MailJob
<1>2. ASSUME NEW simulated, answer = [simulated |-> simulated]
      PROVE  /\ {"message", "made"} \subseteq DOMAIN given
             /\ given.message = arg.message /\ given.made = arg.made
             /\ given.simulated = simulated
  BY <1>2 DEF Over, MailJob
<1>3. arg.message \in Messages /\ arg.made \in 0..MailAttempts
  BY DEF MailJob
<1>4. MailArgs([op |-> op, arg |-> given], tables)
  BY <1>1, <1>2, <1>3 DEF MailArgs
<1>5. QED BY <1>4, LeftMail DEF MailOps

LEMMA AcceptedKept ==
    ASSUME Typed, NEW p \in Requests, NEW arg \in MailJob, NEW x, x = arg.message,
           x \in DOMAIN db.messages, ~db.orgs[db.messages[x].org].demo,
           NEW copy \in BOOLEAN, copy => CanCopy(x), NEW op \in {"mail.sent", "mail.failed"},
           NEW answer, \/ op = "mail.failed" /\ answer = [permanent |-> FALSE]
                       \/ answer = [simulated |-> FALSE],
           NEW faults, NEW given, given = Over(answer, arg),
           Proceed(p, Accepted(x, copy), op, given, faults)
    PROVE  MailKept(p)
<1> DEFINE messages == Patch(db.messages, x, [accepted |-> db.messages[x].accepted + 1])
           sent == <<db.messages[x].mailbox, "SENT">>
           mail == [id |-> db.messages[x].id, refs |-> {}, from |-> None, fit |-> TRUE,
                    file |-> FALSE]
           folder == Delivered(db.server[sent], mail)
           server == [db.server EXCEPT ![sent] = folder]
<1>1. mail \in Mail
  BY MessageTyped DEF Mail, MessageRow, OrNone
<1>2. copy => /\ sent \in DOMAIN db.server /\ FolderOK(folder)
              /\ FolderStays(folder, db.server[sent])
  BY <1>1, DeliveredOK DEF CanCopy, Typed, RowsOK, MailboxRowsOK
<1>3. /\ copy => Accepted(x, copy) = [db EXCEPT !["messages"] = messages, !["server"] = server]
      /\ ~copy => Accepted(x, copy) = [db EXCEPT !["messages"] = messages]
  BY DEF Accepted
<1>4. server = [db.server EXCEPT ![sent] = folder]
      /\ messages = Patch(db.messages, x, [accepted |-> db.messages[x].accepted + 1])
  OBVIOUS
<1> HIDE DEF messages, folder, server, mail, sent
<1>5. ASSUME NEW names, names \in {{"messages"}, {"messages", "server"}}, Kept(names), Moved(p),
             db'.messages = messages, request'[p] = [op |-> op, arg |-> given],
             "server" \in names => ServerFine
      PROVE  MailKept(p)
  <2>1. db'.threads = db.threads /\ db'.mailboxes = db.mailboxes
    BY <1>5 DEF Kept, TableNames
  <2>2. /\ MessagesFine /\ x \in DOMAIN db'.messages /\ db'.messages[x].accepted > 0
        /\ db'.messages[x].org = db.messages[x].org
    BY <1>4, <1>5, <2>1, MessageAccepted
  <2>3. Writes /\ db'.orgs = db.orgs
    <3>1. names \in SUBSET MailTables
      BY <1>5 DEF MailTables
    <3>2. names \cap {"entities", "stored", "templates", "mailJobs", "mailFiles", "threads",
                      "mailboxes", "syncs"} = {}
      BY <1>5
    <3>3. QED BY <1>5, <2>2, <3>1, <3>2, MailWritten
  <2>4. NoDemo(db', db'.messages[x].org)
    BY <2>2, <2>3, MessageTyped DEF NoDemo
  <2>5. Left([op |-> op, arg |-> given], db')
    BY <2>2, <2>4, LeftAnswer
  <2>6. QED BY <1>5, <2>3, <2>5 DEF MailKept, Writes
<1>6. /\ "messages" \in TableNames \ {"gone"} /\ "server" \in TableNames \ {"gone"}
      /\ "messages" # "server"
  BY DEF TableNames
<1>7. CASE ~copy
  <2> DEFINE tables == [db EXCEPT !["messages"] = messages]
  <2>1. /\ DOMAIN tables = TableNames /\ tables.messages = messages /\ tables.gone = db.gone
        /\ \A n \in TableNames \ {"messages"} : tables[n] = db[n]
    BY DEF Typed, TableNames
  <2>2. Proceed(p, tables, op, given, faults)
    BY <1>3, <1>7
  <2> HIDE DEF tables
  <2>3. db' = tables /\ Moved(p) /\ request'[p] = [op |-> op, arg |-> given]
    BY <2>2, Proceeding
  <2>4. Kept({"messages"}) /\ db'.messages = messages
    BY <2>1, <2>3 DEF Kept
  <2>5. QED BY <1>5, <2>3, <2>4
<1>8. CASE copy
  <2> DEFINE tables == [db EXCEPT !["messages"] = messages, !["server"] = server]
  <2>1. /\ DOMAIN tables = TableNames /\ tables.messages = messages /\ tables.gone = db.gone
        /\ tables.server = server
        /\ \A n \in TableNames \ {"messages", "server"} : tables[n] = db[n]
    BY DEF Typed, TableNames
  <2>2. Proceed(p, tables, op, given, faults)
    BY <1>3, <1>8
  <2> HIDE DEF tables
  <2>3. db' = tables /\ Moved(p) /\ request'[p] = [op |-> op, arg |-> given]
    BY <2>2, Proceeding
  <2>4. Kept({"messages", "server"}) /\ db'.messages = messages /\ db'.server = server
    BY <2>1, <2>3 DEF Kept
  <2>5. ServerFine
    BY <1>2, <1>4, <1>8, <2>4, FolderWritten
  <2>6. QED BY <1>5, <2>3, <2>4, <2>5
<1>9. QED BY <1>7, <1>8

LEMMA TransmitKept ==
    ASSUME Typed, NEW p \in Requests, Left(request[p], db), Transmit(p)
    PROVE  MailKept(p)
<1> DEFINE arg == Arg(p)
           x == arg.message
           given(answer) == Over(answer, arg)
<1>1. arg \in MailJob
  BY DEF Transmit, Left, MailArgs
<1>2. \/ Reject(p)
      \/ Continue(p, "mail.sent", given([simulated |-> TRUE]))
      \/ /\ x \in DOMAIN db.messages /\ ~db.orgs[db.messages[x].org].demo
         /\ \E copy \in {FALSE, CanCopy(x)} :
               \/ Proceed(p, Accepted(x, copy), "mail.sent", given([simulated |-> FALSE]), 0)
               \/ Proceed(p, Accepted(x, copy), "mail.failed", given([permanent |-> FALSE]), 1)
      \/ \E permanent \in BOOLEAN :
            Proceed(p, db, "mail.failed", given([permanent |-> permanent]), 1)
  BY DEF Transmit
<1>3. x = arg.message /\ \A answer : given(answer) = Over(answer, arg)
  OBVIOUS
<1> HIDE DEF arg, x, given
<1>4. CASE Reject(p)
  BY <1>4, MailTurnedAway
<1>5. CASE Continue(p, "mail.sent", given([simulated |-> TRUE]))
  <2>1. Left([op |-> "mail.sent", arg |-> given([simulated |-> TRUE])], db)
    BY <1>1, <1>3, LeftAnswer
  <2>2. QED BY <1>5, <2>1, MailBegun
<1>6. ASSUME x \in DOMAIN db.messages, ~db.orgs[db.messages[x].org].demo,
             NEW copy \in {FALSE, CanCopy(x)},
             \/ Proceed(p, Accepted(x, copy), "mail.sent", given([simulated |-> FALSE]), 0)
             \/ Proceed(p, Accepted(x, copy), "mail.failed", given([permanent |-> FALSE]), 1)
      PROVE  MailKept(p)
  <2>1. copy \in BOOLEAN /\ (copy => CanCopy(x))
    BY <1>6 DEF CanCopy
  <2>2. QED BY <1>1, <1>3, <1>6, <2>1, AcceptedKept
<1>7. ASSUME NEW permanent \in BOOLEAN,
             Proceed(p, db, "mail.failed", given([permanent |-> permanent]), 1)
      PROVE  MailKept(p)
  <2> DEFINE told == given([permanent |-> permanent])
  <2>1. Left([op |-> "mail.failed", arg |-> told], db)
    BY <1>1, <1>3, LeftAnswer
  <2> HIDE DEF told
  <2>2. Proceed(p, db, "mail.failed", told, 1)
    BY <1>7 DEF told
  <2>3. QED BY <2>1, <2>2, MailProceeded
<1>8. QED BY <1>2, <1>4, <1>5, <1>6, <1>7

LEMMA WriteSentKept ==
    ASSUME Typed, NEW p \in Requests, Left(request[p], db), WriteSent(p)
    PROVE  MailKept(p)
<1> DEFINE arg == Arg(p)
           x == arg.message
           simulated == arg.simulated
           change == [status |-> "SENT", simulated |-> simulated]
           messages == IF x \in DOMAIN db.messages THEN Patch(db.messages, x, change)
                       ELSE db.messages
           failed == Over([permanent |-> FALSE], arg)
<1>1. /\ {"message", "made"} \subseteq DOMAIN arg
      /\ x \in Messages /\ arg.made \in 0..MailAttempts /\ simulated \in BOOLEAN
      /\ simulated \/ (x \in DOMAIN db.messages /\ db.messages[x].accepted > 0)
  BY DEF WriteSent, Left, MailArgs
<1>2. \/ Commit(p, [db EXCEPT !["messages"] = messages], <<>>)
      \/ Proceed(p, db, "mail.failed", failed, 1)
  BY DEF WriteSent
<1>3. /\ x \in DOMAIN db.messages => messages = Patch(db.messages, x, change)
      /\ x \notin DOMAIN db.messages => messages = db.messages
      /\ change = [status |-> "SENT", simulated |-> simulated]
  OBVIOUS
<1>4. Left([op |-> "mail.failed", arg |-> failed], db)
  <2>1. /\ {"message", "made"} \subseteq DOMAIN failed
        /\ failed.message = x /\ failed.made = arg.made
    BY <1>1 DEF Over
  <2> HIDE DEF failed
  <2>2. MailArgs([op |-> "mail.failed", arg |-> failed], db)
    BY <1>1, <2>1 DEF MailArgs
  <2>3. QED BY <2>2, LeftMail DEF MailOps
<1> HIDE DEF messages, failed, change, simulated, x, arg
<1>5. ASSUME Proceed(p, db, "mail.failed", failed, 1)
      PROVE  MailKept(p)
  BY <1>4, <1>5, MailProceeded
<1>6. ASSUME Commit(p, [db EXCEPT !["messages"] = messages], <<>>)
      PROVE  MailKept(p)
  <2>1. "messages" \in TableNames \ {"gone"}
    BY DEF TableNames
  <2>2. /\ Kept({"messages"}) /\ db'["messages"] = messages /\ Moved(p)
        /\ request'[p].op \in {"none", "announce"}
    BY <1>6, <2>1, OneCommitted
  <2>3. db'.threads = db.threads /\ db'.mailboxes = db.mailboxes
    BY <2>2 DEF Kept, TableNames
  <2>4. MessagesFine
    <3>1. CASE x \in DOMAIN db.messages
      <4> DEFINE row == Over(change, db.messages[x])
      <4>1. db'.messages = [db.messages EXCEPT ![x] = row]
        BY <1>3, <2>2, <3>1 DEF Patch
      <4>2. "simulated" \in DOMAIN change /\ change.simulated = simulated
        BY <1>3
      <4>3. /\ row \in MessageRow /\ row.org = db.messages[x].org
            /\ row.thread = db.messages[x].thread /\ row.accepted = db.messages[x].accepted
            /\ row.status = "SENT" /\ row.simulated = simulated
            /\ SameMail(row, db.messages[x])
        BY <1>1, <1>3, <3>1, <4>2, MessageTyped, StatusOver
      <4> HIDE DEF row
      <4>4. row.status = "SENT" => row.accepted > 0 \/ row.simulated \/ row.uid # None
        BY <1>1, <4>3
      <4>5. /\ row \in MessageRow /\ SameMail(row, db.messages[x])
            /\ row.org = db.messages[x].org /\ row.thread = db.messages[x].thread
            /\ db.messages[x].accepted > 0 => row.accepted > 0
            /\ row.status = "SENT" => row.accepted > 0 \/ row.simulated \/ row.uid # None
        BY <4>3, <4>4
      <4>6. QED BY <2>3, <4>1, <4>5, MessagePatched
    <3>2. CASE x \notin DOMAIN db.messages
      <4>1. db'.messages = db.messages
        BY <1>3, <2>2, <3>2
      <4>2. ThreadsFine
        BY <2>3, ThreadsUnchanged
      <4>3. QED BY <2>3, <4>1, <4>2, MessagesStay DEF MessagesFine, SameMail
    <3>3. QED BY <3>1, <3>2
  <2>5. Writes
    BY <2>2, <2>4, MailWritten DEF MailTables
  <2>6. QED BY <2>2, <2>5, MailCommitted DEF Argless
<1>7. QED BY <1>2, <1>5, <1>6

LEMMA WriteFailedKept ==
    ASSUME Typed, NEW p \in Requests, Left(request[p], db), WriteFailed(p)
    PROVE  MailKept(p)
<1> DEFINE x == Arg(p).message
           made == Arg(p).made + 1
           final == Arg(p).permanent \/ made >= MailAttempts
           failed == Statused(db.messages, x, "FAILED")
           queued == Statused(db.messages, x, "QUEUED")
           jobs == Insert(db.mailJobs, Fresh(MailJobs, db.mailJobs), [message |-> x, made |-> made])
<1>1. x \in Messages /\ Arg(p).made \in 0..MailAttempts /\ HasRoom(MailJobs, db.mailJobs)
  BY DEF WriteFailed, Left, MailArgs
<1>2. made >= MailAttempts \/ made \in 0..MailAttempts
  BY <1>1, CrmMailAssumption DEF CrmMailAssumption
<1>3. made \in 0..MailAttempts => RowsOf(jobs, MailJobs, MailJob)
  <2> HIDE DEF x, made
  <2>1. QED BY <1>1, JobInserted
<1>4. \/ Commit(p, [db EXCEPT !["messages"] = failed], <<>>)
      \/ ~final /\ Commit(p, [db EXCEPT !["messages"] = queued, !["mailJobs"] = jobs], <<>>)
  <2>1. Commit(p, IF final THEN SetStatus(x, IF final THEN "FAILED" ELSE "QUEUED")
                  ELSE WithJob(SetStatus(x, IF final THEN "FAILED" ELSE "QUEUED"), x, made), <<>>)
    BY DEF WriteFailed
  <2>2. SetStatus(x, "FAILED") = [db EXCEPT !["messages"] = failed]
    BY DEF SetStatus, Statused
  <2>3. WithJob(SetStatus(x, "QUEUED"), x, made)
          = [db EXCEPT !["messages"] = queued, !["mailJobs"] = jobs]
    BY DEF SetStatus, Statused, WithJob, Typed, TableNames
  <2> HIDE DEF failed, queued, jobs, x, made
  <2>4. CASE final
    BY <2>1, <2>2, <2>4
  <2>5. CASE ~final
    BY <2>1, <2>3, <2>5
  <2>6. QED BY <2>4, <2>5
<1>5. failed = Statused(db.messages, x, "FAILED") /\ queued = Statused(db.messages, x, "QUEUED")
  OBVIOUS
<1>6. ~final => made \in 0..MailAttempts
  BY <1>2
<1> HIDE DEF final, failed, queued, jobs, made, x
<1>7. /\ "messages" \in TableNames \ {"gone"} /\ "mailJobs" \in TableNames \ {"gone"}
      /\ "messages" # "mailJobs"
  BY DEF TableNames
<1>8. ASSUME Commit(p, [db EXCEPT !["messages"] = failed], <<>>)
      PROVE  MailKept(p)
  <2>1. /\ Kept({"messages"}) /\ db'["messages"] = failed /\ Moved(p)
        /\ request'[p].op \in {"none", "announce"}
    BY <1>7, <1>8, OneCommitted
  <2>2. db'.threads = db.threads /\ db'.mailboxes = db.mailboxes
    BY <2>1 DEF Kept, TableNames
  <2>3. MessagesFine
    BY <1>5, <2>1, <2>2, StatusFine
  <2>4. Writes
    BY <2>1, <2>3, MailWritten DEF MailTables
  <2>5. QED BY <2>1, <2>4, MailCommitted DEF Argless
<1>9. ASSUME ~final, Commit(p, [db EXCEPT !["messages"] = queued, !["mailJobs"] = jobs], <<>>)
      PROVE  MailKept(p)
  <2> DEFINE tables == [db EXCEPT !["messages"] = queued, !["mailJobs"] = jobs]
  <2>1. /\ DOMAIN tables = TableNames /\ tables.messages = queued /\ tables.gone = db.gone
        /\ tables.mailJobs = jobs
        /\ \A n \in TableNames \ {"messages", "mailJobs"} : tables[n] = db[n]
    BY DEF Typed, TableNames
  <2>2. Commit(p, tables, <<>>)
    BY <1>9
  <2> HIDE DEF tables
  <2>3. db' = tables /\ Moved(p) /\ request'[p].op \in {"none", "announce"}
    BY <2>2, Committing
  <2>4. Kept({"messages", "mailJobs"}) /\ db'.messages = queued /\ db'.mailJobs = jobs
    BY <2>1, <2>3 DEF Kept
  <2>5. db'.threads = db.threads /\ db'.mailboxes = db.mailboxes
    BY <2>4 DEF Kept, TableNames
  <2>6. MessagesFine
    BY <1>5, <2>4, <2>5, StatusFine
  <2>7. RowsOf(db'.mailJobs, MailJobs, MailJob)
    BY <1>3, <1>6, <1>9, <2>4
  <2>8. Writes
    BY <2>4, <2>6, <2>7, MailWritten DEF MailTables
  <2>9. QED BY <2>3, <2>8, MailCommitted DEF Argless
<1>10. QED BY <1>4, <1>8, <1>9

LEMMA CrmMailStepKept ==
    ASSUME Typed, NEW p \in Requests, Left(request[p], db), CrmMailStep(p)
    PROVE  MailKept(p)
<1>1. \/ CreateTemplate(p) \/ UpdateTemplate(p) \/ DuplicateTemplate(p)
      \/ SendTest(p) \/ UpdateSettings(p) \/ SendMail(p) \/ SendAutomation(p)
      \/ PersistMessage(p) \/ EnqueueMessage(p)
      \/ TakeMailJob(p) \/ StartDelivery(p) \/ RecoverQueued(p)
      \/ WriteSending(p) \/ Transmit(p) \/ WriteSent(p) \/ WriteFailed(p)
  BY DEF CrmMailStep
<1>2. QED BY <1>1, TemplateKept, SettingsKept, SendMailKept, PersistKept, EnqueueKept, TakeMailKept,
             WriteSendingKept, TransmitKept, WriteSentKept, WriteFailedKept

-----------------------------------------------------------------------------
(* Sets of uids *)

\* The least and the greatest element of a set of numbers.
LEMMA LeastOf ==
    ASSUME NEW S, S \subseteq Nat, S # {}
    PROVE  \E n \in S : \A m \in S : n <= m
<1> DEFINE less == {p \in Nat \X Nat : p[1] < p[2]}
<1>1. IsWellFoundedOn(less, Nat)
  BY NatLessThanWellFounded DEF OpToRel
<1> HIDE DEF less
<1>2. PICK n \in S : \A m \in S : ~(<<m, n>> \in less)
  BY <1>1, WFMin
<1>3. ASSUME NEW m \in S, ~(n <= m)
      PROVE  FALSE
  <2>1. m \in Nat /\ n \in Nat /\ m < n
    BY <1>3
  <2>2. <<m, n>> \in Nat \X Nat /\ <<m, n>>[1] < <<m, n>>[2]
    BY <2>1
  <2>3. <<m, n>> \in less
    BY <2>2, Zenon DEF less
  <2>4. QED BY <1>2, <2>3
<1>4. QED BY <1>3

LEMMA GreatestOf ==
    ASSUME NEW N \in Nat, NEW S, S \subseteq 0..N, S # {}
    PROVE  \E n \in S : \A m \in S : n >= m
<1> DEFINE T == {N - s : s \in S}
<1>1. T \subseteq Nat /\ T # {}
  <2>1. PICK s \in S : TRUE
    OBVIOUS
  <2>2. N - s \in T
    OBVIOUS
  <2>3. QED BY <2>2
<1>2. PICK t \in T : \A u \in T : t <= u
  <2> HIDE DEF T
  <2>1. QED BY <1>1, LeastOf
<1>3. PICK n \in S : t = N - n
  OBVIOUS
<1>4. ASSUME NEW m \in S
      PROVE  n >= m
  <2>1. N - m \in T /\ m \in Nat /\ n \in Nat
    OBVIOUS
  <2>2. N - n <= N - m
    BY <1>2, <1>3, <2>1
  <2>3. QED BY <2>1, <2>2
<1>5. QED BY <1>4

LEMMA MinMax ==
    /\ \A S : S \subseteq Nat /\ S # {} => Min(S) \in S /\ \A m \in S : Min(S) <= m
    /\ \A N \in Nat : \A S : S \subseteq 0..N /\ S # {} => Max(S) \in S
    /\ \A a, b \in Int : Max({a, b}) \in {a, b} /\ Max({a, b}) >= a /\ Max({a, b}) >= b
<1>1. ASSUME NEW S, S \subseteq Nat, S # {}
      PROVE  Min(S) \in S /\ \A m \in S : Min(S) <= m
  BY <1>1, LeastOf DEF Min
<1>2. ASSUME NEW N \in Nat, NEW S, S \subseteq 0..N, S # {}
      PROVE  Max(S) \in S
  BY <1>2, GreatestOf DEF Max
<1>3. ASSUME NEW a \in Int, NEW b \in Int
      PROVE  Max({a, b}) \in {a, b} /\ Max({a, b}) >= a /\ Max({a, b}) >= b
  <2>1. \E x \in {a, b} : \A y \in {a, b} : x >= y
    <3>1. CASE a >= b
      BY <3>1
    <3>2. CASE b >= a
      BY <3>2
    <3>3. QED BY <3>1, <3>2
  <2>2. QED BY <2>1 DEF Max
<1>4. QED BY <1>1, <1>2, <1>3

\* Among uids one has any rank there is.
Rank(uids, uid) == Cardinality({u \in uids : u <= uid})

LEMMA RankTaken ==
    ASSUME NEW N \in Nat, NEW uids, uids \subseteq 1..N, NEW n \in 1..Cardinality(uids)
    PROVE  \E uid \in uids : Rank(uids, uid) = n
<1> DEFINE below(uid) == {u \in uids : u <= uid}
           T == {uid \in uids : Cardinality(below(uid)) >= n}
<1>1. IsFiniteSet(uids) /\ Cardinality(uids) \in Nat /\ uids \subseteq Nat /\ uids \subseteq 0..N
  <2>1. IsFiniteSet(1..N)
    BY FS_Interval
  <2>2. uids \in SUBSET (1..N)
    OBVIOUS
  <2>3. IsFiniteSet(uids)
    BY <2>1, <2>2, FS_Subset
  <2>4. QED BY <2>2, <2>3, FS_CardinalityType
<1>2. ASSUME NEW uid \in uids
      PROVE  IsFiniteSet(below(uid)) /\ Cardinality(below(uid)) \in Nat
  BY <1>1, FS_Subset, FS_CardinalityType
<1>3. T # {}
  <2>1. uids # {}
    BY FS_EmptySet
  <2>2. PICK most \in uids : \A u \in uids : most >= u
    BY <1>1, <2>1, GreatestOf
  <2>3. below(most) = uids
    BY <1>1, <2>2
  <2>4. QED BY <1>1, <2>3
<1>4. PICK m \in T : \A u \in T : m <= u
  <2>1. T \subseteq Nat
    BY <1>1
  <2> HIDE DEF T
  <2>2. QED BY <1>3, <2>1, LeastOf
<1>5. m \in uids /\ m \in below(m) /\ Cardinality(below(m)) >= n
  BY <1>1
<1>6. ASSUME Cardinality(below(m)) # n
      PROVE  FALSE
  <2> DEFINE rest == below(m) \ {m}
  <2>1. IsFiniteSet(rest) /\ Cardinality(rest) = Cardinality(below(m)) - 1
    BY <1>2, <1>5, FS_RemoveElement
  <2>2. Cardinality(rest) >= n /\ Cardinality(rest) # 0
    BY <1>2, <1>5, <1>6, <2>1
  <2>3. rest # {} /\ rest \subseteq 0..N
    BY <1>1, <2>2, FS_EmptySet
  <2>4. PICK next \in rest : \A u \in rest : next >= u
    <3> HIDE DEF rest
    <3>1. QED BY <2>3, GreatestOf
  <2>5. next \in uids /\ next < m
    BY <1>1
  <2>6. below(next) = rest
    <3>1. ASSUME NEW u \in rest
          PROVE  u \in below(next)
      BY <2>4
    <3>2. ASSUME NEW u \in below(next)
          PROVE  u \in rest
      <4>1. u \in Nat /\ m \in Nat /\ next \in Nat /\ u <= next
        BY <1>1, <1>5, <2>5
      <4>2. u <= m /\ u # m
        BY <2>5, <4>1
      <4>3. QED BY <3>2, <4>2
    <3>3. QED BY <3>1, <3>2
  <2>7. next \in T
    BY <2>2, <2>5, <2>6
  <2>8. QED BY <1>1, <1>4, <2>5, <2>7
<1>7. QED BY <1>5, <1>6 DEF Rank

-----------------------------------------------------------------------------
(* The steps of the mail servers *)

\* One folder is written.
LEMMA ServerWritten ==
    ASSUME Typed, NEW p \in Requests, NEW box \in DOMAIN db.server, NEW folder, FolderOK(folder),
           FolderStays(folder, db.server[box]),
           BeginWriting(p, [db EXCEPT !["server"] = [db.server EXCEPT ![box] = folder]],
                        "none", None)
    PROVE  MailKept(p)
<1> DEFINE server == [db.server EXCEPT ![box] = folder]
<1>1. server = [db.server EXCEPT ![box] = folder]
  OBVIOUS
<1>2. BeginWriting(p, [db EXCEPT !["server"] = server], "none", None)
  OBVIOUS
<1> HIDE DEF server
<1>3. /\ Kept({"server"}) /\ db'["server"] = server /\ Moved(p)
      /\ request'[p] = [op |-> "none", arg |-> None]
  <2> DEFINE tables == [db EXCEPT !["server"] = server]
  <2>1. /\ DOMAIN tables = TableNames /\ tables.server = server /\ tables.gone = db.gone
        /\ \A n \in TableNames \ {"server"} : tables[n] = db[n]
    BY DEF Typed, TableNames
  <2>2. BeginWriting(p, tables, "none", None)
    BY <1>2
  <2> HIDE DEF tables
  <2>3. db' = tables /\ Moved(p) /\ request'[p] = [op |-> "none", arg |-> None]
    BY <2>2, Beginning
  <2>4. QED BY <2>1, <2>3 DEF Kept
<1>4. ServerFine
  BY <1>1, <1>3, FolderWritten
<1>5. Writes
  BY <1>3, <1>4, MailWritten DEF MailTables
<1>6. QED BY <1>3, <1>5, MailCommitted DEF Argless

LEMMA MailArrivesKept ==
    ASSUME Typed, NEW p \in Requests, MailArrives(p)
    PROVE  MailKept(p)
<1>1. PICK m \in DOMAIN db.mailboxes, from \in Emails, id \in MailIds, fit \in BOOLEAN,
           file \in BOOLEAN :
           \E refs \in {{}} \cup {{db.messages[x].id} : x \in {x \in DOMAIN db.messages :
                                                        db.messages[x].id # None}} :
              /\ db.server[<<m, "INBOX">>].next <= MaxUid
              /\ BeginWriting(p,
                    [db EXCEPT !.server[<<m, "INBOX">>] =
                        Delivered(@, [id |-> id, refs |-> refs, from |-> from, fit |-> fit,
                                      file |-> file])],
                    "none", None)
  BY DEF MailArrives
<1>2. PICK refs \in {{}} \cup {{db.messages[x].id} : x \in {x \in DOMAIN db.messages :
                                                     db.messages[x].id # None}} :
         /\ db.server[<<m, "INBOX">>].next <= MaxUid
         /\ BeginWriting(p,
               [db EXCEPT !.server[<<m, "INBOX">>] =
                   Delivered(@, [id |-> id, refs |-> refs, from |-> from, fit |-> fit,
                                 file |-> file])],
               "none", None)
  BY <1>1
<1> DEFINE mail == [id |-> id, refs |-> refs, from |-> from, fit |-> fit, file |-> file]
           box == <<m, "INBOX">>
           folder == Delivered(db.server[box], mail)
<1>3. refs \in SUBSET (Messages \cup MailIds)
  <2>1. \A x \in DOMAIN db.messages : db.messages[x].id \in OrNone(Messages \cup MailIds)
    BY MessageTyped DEF MessageRow
  <2>2. QED BY <2>1 DEF OrNone
<1>4. mail \in Mail
  BY <1>3 DEF Mail, OrNone
<1>5. box \in DOMAIN db.server
  BY DEF Typed, MailReferencesOK
<1>6. FolderOK(folder) /\ FolderStays(folder, db.server[box])
  <2> HIDE DEF mail, box
  <2>1. db.server[box].next <= MaxUid
    BY <1>2 DEF box
  <2>2. QED BY <1>4, <1>5, <2>1, BoxTyped, DeliveredOK
<1>7. BeginWriting(p, [db EXCEPT !["server"] = [db.server EXCEPT ![box] = folder]], "none", None)
  BY <1>2
<1> HIDE DEF folder, box, mail
<1>8. QED BY <1>5, <1>6, <1>7, ServerWritten

LEMMA MailIsDeletedKept ==
    ASSUME Typed, NEW p \in Requests, MailIsDeleted(p)
    PROVE  MailKept(p)
<1>1. PICK box \in DOMAIN db.server : \E uid \in DOMAIN db.server[box].mail :
          BeginWriting(p,
             [db EXCEPT !.server = Patch(@, box, [mail |-> Without(@[box].mail, {uid})])],
             "none", None)
  BY DEF MailIsDeleted
<1>2. PICK uid \in DOMAIN db.server[box].mail :
          BeginWriting(p,
             [db EXCEPT !.server = Patch(@, box, [mail |-> Without(@[box].mail, {uid})])],
             "none", None)
  BY <1>1
<1> DEFINE folder == Over([mail |-> Without(db.server[box].mail, {uid})], db.server[box])
           v == db.server[box].validity
           n == db.server[box].next
           m == db.server[box].mail
<1>3. FolderOK(folder) /\ FolderStays(folder, db.server[box])
  <2>1. /\ db.server[box] = [validity |-> v, next |-> n, mail |-> m]
        /\ v \in Nat /\ n \in 1..(MaxUid + 1) /\ RowsOf(m, 1..(n - 1), Mail)
    BY BoxTyped DEF FolderOK
  <2> DEFINE old == db.server[box]
             less == Without(m, {uid})
  <2>2. folder = [validity |-> v, next |-> n, mail |-> less]
    <3>1. folder = Over([mail |-> less], old) /\ old = [validity |-> v, next |-> n, mail |-> m]
      BY <2>1
    <3> HIDE DEF old, folder, less, v, n, m
    <3>2. QED BY <3>1 DEF Over
  <2> HIDE DEF v, n
  <2>3. RowsOf(Without(m, {uid}), 1..(n - 1), Mail)
    BY <2>1, Removing
  <2>4. FolderOK([validity |-> v, next |-> n, mail |-> Without(m, {uid})])
    BY <2>1, <2>3 DEF FolderOK
  <2>5. FolderStays([validity |-> v, next |-> n, mail |-> Without(m, {uid})],
                    [validity |-> v, next |-> n, mail |-> m])
    <3>1. v \in Nat /\ n \in Nat
      BY <2>1, CrmMailAssumption DEF CrmMailAssumption
    <3>2. \A u \in DOMAIN less : u \in DOMAIN m /\ less[u] = m[u]
      BY DEF Without
    <3> HIDE DEF less, m
    <3>3. FolderStays([validity |-> v, next |-> n, mail |-> less],
                      [validity |-> v, next |-> n, mail |-> m])
      BY <3>1, <3>2 DEF FolderStays
    <3>4. QED BY <3>3 DEF less
  <2>6. QED BY <2>1, <2>2, <2>4, <2>5
<1>4. BeginWriting(p, [db EXCEPT !["server"] = [db.server EXCEPT ![box] = folder]], "none", None)
  BY <1>2 DEF Patch
<1> HIDE DEF folder
<1>5. QED BY <1>3, <1>4, ServerWritten

LEMMA FolderIsRenumberedKept ==
    ASSUME Typed, NEW p \in Requests, FolderIsRenumbered(p)
    PROVE  MailKept(p)
<1> DEFINE uids(box) == DOMAIN db.server[box].mail
           count(box) == Cardinality(uids(box))
           at(box, n) == CHOOSE uid \in uids(box) :
                            Cardinality({u \in uids(box) : u <= uid}) = n
           folder(box) == [validity |-> db.server[box].validity + 1, next |-> count(box) + 1,
                           mail |-> [n \in 1..count(box) |-> db.server[box].mail[at(box, n)]]]
<1>1. PICK box \in DOMAIN db.server :
         BeginWriting(p, [db EXCEPT !.server[box] = folder(box)], "none", None)
  BY DEF FolderIsRenumbered
<1> DEFINE v == db.server[box].validity
           next == db.server[box].next
           m == db.server[box].mail
<1>2. v \in Nat /\ next \in 1..(MaxUid + 1) /\ RowsOf(m, 1..(next - 1), Mail) /\ MaxUid \in Nat
  BY BoxTyped, CrmMailAssumption DEF FolderOK, CrmMailAssumption
<1>3. uids(box) \subseteq 1..MaxUid /\ \A u \in uids(box) : m[u] \in Mail
  BY <1>2 DEF RowsOf
<1>4. count(box) \in 0..MaxUid
  <2>1. IsFiniteSet(1..MaxUid) /\ Cardinality(1..MaxUid) = MaxUid
    <3>1. 1 \in Int /\ MaxUid \in Int /\ (IF 1 > MaxUid THEN 0 ELSE MaxUid - 1 + 1) = MaxUid
      BY <1>2
    <3>2. /\ IsFiniteSet(1..MaxUid)
          /\ Cardinality(1..MaxUid) = IF 1 > MaxUid THEN 0 ELSE MaxUid - 1 + 1
      BY <3>1, FS_Interval
    <3>3. QED BY <3>1, <3>2
  <2>2. uids(box) \in SUBSET (1..MaxUid)
    BY <1>3
  <2>3. IsFiniteSet(uids(box)) /\ Cardinality(uids(box)) <= MaxUid
    BY <2>1, <2>2, FS_Subset
  <2>4. QED BY <1>2, <2>3, FS_CardinalityType
<1>5. ASSUME NEW n \in 1..count(box)
      PROVE  at(box, n) \in uids(box)
  <2>1. \E uid \in uids(box) : Cardinality({u \in uids(box) : u <= uid}) = n
    <3> DEFINE S == uids(box)
    <3>1. S \subseteq 1..MaxUid /\ n \in 1..Cardinality(S) /\ MaxUid \in Nat
      BY <1>2, <1>3
    <3> HIDE DEF S
    <3>2. \E uid \in S : Rank(S, uid) = n
      BY <3>1, RankTaken
    <3>3. QED BY <3>2 DEF S, Rank
  <2>2. QED BY <2>1
<1>6. FolderOK(folder(box)) /\ FolderStays(folder(box), db.server[box])
  <2> DEFINE mail == [n \in 1..count(box) |-> m[at(box, n)]]
  <2>1. RowsOf(mail, 1..count(box), Mail)
    BY <1>3, <1>5 DEF RowsOf
  <2>2. folder(box) = [validity |-> v + 1, next |-> count(box) + 1, mail |-> mail]
    OBVIOUS
  <2>3. v + 1 \in Nat /\ count(box) + 1 \in 1..(MaxUid + 1) /\ (count(box) + 1) - 1 = count(box)
    BY <1>2, <1>4
  <2> HIDE DEF mail, v, count, folder
  <2>4. FolderOK([validity |-> v + 1, next |-> count(box) + 1, mail |-> mail])
    BY <2>1, <2>3 DEF FolderOK
  <2>5. FolderStays([validity |-> v + 1, next |-> count(box) + 1, mail |-> mail], db.server[box])
    <3>1. v + 1 \in Nat /\ v <= v + 1 /\ v # v + 1 /\ count(box) + 1 \in Nat /\ next \in Nat
      BY <1>2, <2>3
    <3>2. v = db.server[box].validity /\ next = db.server[box].next
      BY DEF v
    <3> HIDE DEF next
    <3>3. QED BY <1>2, <3>1, <3>2 DEF FolderStays
  <2>6. QED BY <2>2, <2>4, <2>5
<1>7. BeginWriting(p, [db EXCEPT !["server"] = [db.server EXCEPT ![box] = folder(box)]], "none", None)
  BY <1>1
<1> HIDE DEF folder
<1>8. QED BY <1>6, <1>7, ServerWritten

-----------------------------------------------------------------------------
(* The steps on the connections *)

\* A demo has no mailboxes, since it may not make any.
LEMMA MailboxCaller ==
    ASSUME Typed, NEW s \in Callers(<<"Mailboxes", "create">>)
    PROVE  NoDemo(db, CallerOrg(s)) /\ CallerOrg(s) \in Orgs
<1>1. Mutates(<<"Mailboxes", "create">>)
  <2>1. Routes["Mailboxes"] = MailboxesRoutes
    BY DEF Routes
  <2>2. MailboxesRoutes["create"].method = "POST"
    BY DEF MailboxesRoutes, Post, Route
  <2>3. QED BY <2>1, <2>2 DEF Mutates, RouteOf
<1>2. Runtime # "demo" /\ Authenticated(s) /\ s \in DOMAIN db.sessions
  BY <1>1 DEF Callers, DemoBlocks
<1>3. QED BY <1>2, CallerTyped DEF Authenticated, NoDemo, CallerOrg, CallerAccount

\* A row changes, and stays in its organization.
LEMMA MailboxPatched ==
    ASSUME Typed, NEW m, NEW change, Kept({"mailboxes"}),
           db'.mailboxes = Patch(db.mailboxes, m, change),
           m \in DOMAIN db.mailboxes => /\ Over(change, db.mailboxes[m]) \in MailboxRow
                                        /\ Over(change, db.mailboxes[m]).org = db.mailboxes[m].org
                                        /\ SeenUpTo(db, m, Over(change, db.mailboxes[m]).cursor)
    PROVE  Writes
<1>1. db'.server = db.server
  BY DEF Kept, TableNames
<1>2. RowsOf(db'.mailboxes, Mailboxes, MailboxRow)
  BY Patching DEF Typed, RowsOK, MailboxRowsOK
<1>3. /\ DOMAIN db'.mailboxes = DOMAIN db.mailboxes
      /\ \A n \in DOMAIN db.mailboxes :
            /\ db'.mailboxes[n].org = db.mailboxes[n].org
            /\ SeenUpTo(db, n, db'.mailboxes[n].cursor)
  BY MailboxTyped DEF Patch
<1>4. MailboxesFine
  BY <1>1, <1>2, <1>3, MailboxTyped DEF MailboxesFine
<1>5. QED BY <1>4, MailWritten DEF MailTables

LEMMA StatusChanged ==
    ASSUME NEW row \in MailboxRow, NEW status \in {"CONNECTED", "SYNCING", "ERROR", "DISABLED"}
    PROVE  /\ Over([status |-> status], row) \in MailboxRow
           /\ Over([status |-> status], row).org = row.org
           /\ Over([status |-> status], row).cursor = row.cursor
BY DEF Over, MailboxRow

LEMMA StatusSet ==
    ASSUME Typed, NEW p \in Requests, NEW m, NEW status \in {"CONNECTED", "SYNCING", "ERROR"},
           \/ \E events : Commit(p, SetMailbox(m, status), events)
           \/ \E op, arg, faults : /\ Proceed(p, SetMailbox(m, status), op, arg, faults)
                                   /\ Left([op |-> op, arg |-> arg], db) /\ op # "sync.insert"
    PROVE  MailKept(p)
<1> DEFINE mailboxes == Patch(db.mailboxes, m, [status |-> status])
           tables == [db EXCEPT !["mailboxes"] = mailboxes]
<1>1. /\ DOMAIN tables = TableNames /\ tables.mailboxes = mailboxes /\ tables.gone = db.gone
      /\ \A n \in TableNames \ {"mailboxes"} : tables[n] = db[n]
  BY DEF Typed, TableNames
<1>2. SetMailbox(m, status) = tables
  BY DEF SetMailbox
<1>3. mailboxes = Patch(db.mailboxes, m, [status |-> status])
  OBVIOUS
<1> HIDE DEF mailboxes, tables
<1>4. ASSUME db' = tables
      PROVE  Writes
  <2>1. Kept({"mailboxes"}) /\ db'.mailboxes = mailboxes
    BY <1>1, <1>4 DEF Kept
  <2>2. m \in DOMAIN db.mailboxes =>
           /\ Over([status |-> status], db.mailboxes[m]) \in MailboxRow
           /\ Over([status |-> status], db.mailboxes[m]).org = db.mailboxes[m].org
           /\ SeenUpTo(db, m, Over([status |-> status], db.mailboxes[m]).cursor)
    <3>1. ASSUME m \in DOMAIN db.mailboxes
          PROVE  db.mailboxes[m] \in MailboxRow /\ SeenUpTo(db, m, db.mailboxes[m].cursor)
      BY <3>1, MailboxTyped
    <3>2. ASSUME m \in DOMAIN db.mailboxes
          PROVE  /\ Over([status |-> status], db.mailboxes[m]) \in MailboxRow
                 /\ Over([status |-> status], db.mailboxes[m]).org = db.mailboxes[m].org
                 /\ Over([status |-> status], db.mailboxes[m]).cursor = db.mailboxes[m].cursor
      BY <3>1, <3>2, StatusChanged
    <3>3. QED BY <3>1, <3>2
  <2>3. QED BY <1>3, <2>1, <2>2, MailboxPatched
<1>5. ASSUME NEW events, Commit(p, tables, events)
      PROVE  MailKept(p)
  <2>1. db' = tables /\ Moved(p) /\ request'[p].op \in {"none", "announce"}
    BY <1>5, Committing
  <2>2. QED BY <1>4, <2>1, MailCommitted DEF Argless
<1>6. ASSUME NEW op, NEW arg, NEW faults, Proceed(p, tables, op, arg, faults),
             Left([op |-> op, arg |-> arg], db), op # "sync.insert"
      PROVE  MailKept(p)
  <2>1. db' = tables /\ Moved(p) /\ request'[p] = [op |-> op, arg |-> arg]
    BY <1>6, Proceeding
  <2>2. QED BY <1>4, <1>6, <2>1, MailMoved
<1>7. QED BY <1>2, <1>5, <1>6

LEMMA CreateMailboxKept ==
    ASSUME Typed, NEW p \in Requests, Left(request[p], db), CreateMailbox(p)
    PROVE  MailKept(p)
<1>1. ASSUME NEW s \in Callers(<<"Mailboxes", "create">>), NEW address \in Emails,
             Begin(p, "mailbox.create", [org |-> CallerOrg(s), address |-> address])
      PROVE  MailKept(p)
  <2> DEFINE org == CallerOrg(s)
             arg == [org |-> org, address |-> address]
  <2>1. NoDemo(db, org) /\ org \in Orgs
    BY MailboxCaller
  <2>2. Begin(p, "mailbox.create", arg) /\ arg = [org |-> org, address |-> address]
    BY <1>1
  <2> HIDE DEF org, arg
  <2>3. MailboxArgs([op |-> "mailbox.create", arg |-> arg], db)
    BY <2>1, <2>2 DEF MailboxArgs, SyncArgs
  <2>4. Left([op |-> "mailbox.create", arg |-> arg], db)
    BY <2>3, LeftMailbox DEF MailboxOps
  <2>5. QED BY <2>2, <2>4, MailBegun
<1>2. CASE At(p, "mailbox.create")
  <2> DEFINE arg == Arg(p)
             m == Fresh(Unused(Mailboxes), db.mailboxes)
             row == Over([status |-> "CONNECTED", cursor |-> NoCursor], arg)
             folder == [validity |-> 1, next |-> 1, mail |-> <<>>]
             mailboxes == Insert(db.mailboxes, m, row)
             server == Insert(db.server, <<m, "INBOX">>, folder)
             tables == [db EXCEPT !["mailboxes"] = mailboxes, !["server"] = server]
  <2>1. HasRoom(Unused(Mailboxes), db.mailboxes) /\ (Reject(p) \/ Commit(p, tables, <<>>))
    BY <1>2 DEF CreateMailbox
  <2>2. /\ arg = [org |-> arg.org, address |-> arg.address]
        /\ arg.org \in Orgs /\ NoDemo(db, arg.org) /\ arg.address \in Emails
    BY <1>2 DEF Left, MailboxArgs
  <2>3. m \in Mailboxes /\ m \notin DOMAIN db.mailboxes
    BY <2>1, Choosing
  <2>4. row \in MailboxRow /\ row.org = arg.org /\ row.cursor["INBOX"] = None
    <3>1. NoCursor \in [{"INBOX", "SENT"} -> Cursor]
      BY DEF NoCursor, Cursor, OrNone
    <3> HIDE DEF arg
    <3>2. row = [org |-> arg.org, address |-> arg.address, status |-> "CONNECTED",
                 cursor |-> NoCursor]
      BY <2>2 DEF Over
    <3>3. NoCursor["INBOX"] = None
      BY DEF NoCursor
    <3>4. QED BY <2>2, <3>1, <3>2, <3>3 DEF MailboxRow
  <2>5. FolderOK(folder)
    <3>1. 1 \in 1..(MaxUid + 1)
      BY CrmMailAssumption DEF CrmMailAssumption
    <3>2. RowsOf(<<>>, 1..0, Mail)
      BY DEF RowsOf
    <3>3. QED BY <3>1, <3>2 DEF FolderOK
  <2>6. /\ DOMAIN tables = TableNames /\ tables.mailboxes = mailboxes /\ tables.server = server
        /\ tables.gone = db.gone
        /\ \A n \in TableNames \ {"mailboxes", "server"} : tables[n] = db[n]
    BY DEF Typed, TableNames
  <2>7. /\ mailboxes = Insert(db.mailboxes, m, row)
        /\ server = Insert(db.server, <<m, "INBOX">>, folder)
    OBVIOUS
  <2> HIDE DEF arg, m, row, folder, mailboxes, server, tables
  <2>8. CASE Reject(p)
    BY <2>8, MailTurnedAway
  <2>9. ASSUME Commit(p, tables, <<>>)
        PROVE  MailKept(p)
    <3>1. db' = tables /\ Moved(p) /\ request'[p].op \in {"none", "announce"}
      BY <2>9, Committing
    <3>2. Kept({"mailboxes", "server"}) /\ db'.mailboxes = mailboxes /\ db'.server = server
      BY <2>6, <3>1 DEF Kept
    <3>3. /\ DOMAIN db'.mailboxes = DOMAIN db.mailboxes \cup {m} /\ db'.mailboxes[m] = row
          /\ \A n \in DOMAIN db.mailboxes : db'.mailboxes[n] = db.mailboxes[n]
      BY <2>3, <2>7, <3>2 DEF Insert
    <3>4. ServerFine
      <4> DEFINE new == <<m, "INBOX">>
      <4>1. new[1] = m /\ new[2] = "INBOX" /\ new \in Mailboxes \X {"INBOX", "SENT"}
        BY <2>3
      <4>2. server = Insert(db.server, new, folder)
        BY <2>7
      <4> HIDE DEF new
      <4>3. new \notin DOMAIN db.server
        BY <2>3, <4>1 DEF Typed, MailReferencesOK
      <4>4. /\ DOMAIN db'.server = DOMAIN db.server \cup {new} /\ db'.server[new] = folder
            /\ \A box \in DOMAIN db.server : db'.server[box] = db.server[box]
        BY <3>2, <4>2, <4>3 DEF Insert
      <4>5. QED BY <2>3, <2>4, <2>5, <3>3, <4>1, <4>4, BoxTyped, FolderUnchanged DEF ServerFine
    <3>5. MailboxesFine
      <4>1. RowsOf(db'.mailboxes, Mailboxes, MailboxRow)
        BY <2>3, <2>4, <2>7, <3>2, Inserting DEF Typed, RowsOK, MailboxRowsOK
      <4>2. <<m, "INBOX">> \in DOMAIN db'.server /\ DOMAIN db.server \subseteq DOMAIN db'.server
        BY <2>7, <3>2 DEF Insert
      <4>3. QED BY <2>2, <2>4, <3>3, <4>1, <4>2, MailboxTyped DEF MailboxesFine
    <3>6. Writes
      BY <3>2, <3>4, <3>5, MailWritten DEF MailTables
    <3>7. QED BY <3>1, <3>6, MailCommitted DEF Argless
  <2>10. QED BY <2>1, <2>8, <2>9
<1>3. At(p, "mailbox.create")
      \/ \E s \in Callers(<<"Mailboxes", "create">>), address \in Emails :
            Begin(p, "mailbox.create", [org |-> CallerOrg(s), address |-> address])
  BY DEF CreateMailbox
<1>4. QED BY <1>1, <1>2, <1>3

LEMMA UpdateMailboxKept ==
    ASSUME Typed, NEW p \in Requests, Left(request[p], db), UpdateMailbox(p)
    PROVE  MailKept(p)
<1>1. CASE At(p, "mailbox.update")
  <2> DEFINE change == Arg(p).change
             m == Arg(p).mailbox
             mailboxes == Patch(db.mailboxes, m, change)
             tables == [db EXCEPT !["mailboxes"] = mailboxes]
  <2>1. Reject(p) \/ Commit(p, tables, <<>>)
    BY <1>1 DEF UpdateMailbox
  <2>2. /\ DOMAIN change \subseteq {"address", "status"}
        /\ "address" \in DOMAIN change => change.address \in Emails
        /\ "status" \in DOMAIN change => change.status \in {"CONNECTED", "DISABLED"}
    BY <1>1 DEF Left, MailboxArgs
  <2>3. /\ DOMAIN tables = TableNames /\ tables.mailboxes = mailboxes /\ tables.gone = db.gone
        /\ \A n \in TableNames \ {"mailboxes"} : tables[n] = db[n]
    BY DEF Typed, TableNames
  <2>4. mailboxes = Patch(db.mailboxes, m, change)
    OBVIOUS
  <2> HIDE DEF change, m, mailboxes, tables
  <2>5. ASSUME NEW row \in MailboxRow
        PROVE  /\ Over(change, row) \in MailboxRow /\ Over(change, row).org = row.org
               /\ Over(change, row).cursor = row.cursor
    BY <2>2 DEF Over, MailboxRow
  <2>6. CASE Reject(p)
    BY <2>6, MailTurnedAway
  <2>7. ASSUME Commit(p, tables, <<>>)
        PROVE  MailKept(p)
    <3>1. db' = tables /\ Moved(p) /\ request'[p].op \in {"none", "announce"}
      BY <2>7, Committing
    <3>2. Kept({"mailboxes"}) /\ db'.mailboxes = mailboxes
      BY <2>3, <3>1 DEF Kept
    <3>3. m \in DOMAIN db.mailboxes => /\ Over(change, db.mailboxes[m]) \in MailboxRow
                                       /\ Over(change, db.mailboxes[m]).org = db.mailboxes[m].org
                                       /\ SeenUpTo(db, m, Over(change, db.mailboxes[m]).cursor)
      BY <2>5, MailboxTyped
    <3>4. Writes
      BY <2>4, <3>2, <3>3, MailboxPatched
    <3>5. QED BY <3>1, <3>4, MailCommitted DEF Argless
  <2>8. QED BY <2>1, <2>6, <2>7
<1>2. ASSUME NEW m,
             NEW change \in Changes([address |-> Emails, status |-> {"CONNECTED", "DISABLED"}]),
             Begin(p, "mailbox.update", [mailbox |-> m, change |-> change])
      PROVE  MailKept(p)
  <2> DEFINE arg == [mailbox |-> m, change |-> change]
             spec == [address |-> Emails, status |-> {"CONNECTED", "DISABLED"}]
  <2>1. DOMAIN change \subseteq DOMAIN spec /\ \A f \in DOMAIN change : change[f] \in spec[f]
    BY ChangesTyped
  <2>2. arg.change = change
    OBVIOUS
  <2>3. Begin(p, "mailbox.update", arg)
    BY <1>2
  <2> HIDE DEF arg
  <2>4. MailboxArgs([op |-> "mailbox.update", arg |-> arg], db)
    BY <2>1, <2>2 DEF MailboxArgs, SyncArgs
  <2>5. Left([op |-> "mailbox.update", arg |-> arg], db)
    BY <2>4, LeftMailbox DEF MailboxOps
  <2>6. QED BY <2>3, <2>5, MailBegun
<1>3. At(p, "mailbox.update")
      \/ \E change \in Changes([address |-> Emails, status |-> {"CONNECTED", "DISABLED"}]) :
            \E m : Begin(p, "mailbox.update", [mailbox |-> m, change |-> change])
  BY DEF UpdateMailbox
<1>4. QED BY <1>1, <1>2, <1>3

LEMMA TestMailboxKept ==
    ASSUME Typed, NEW p \in Requests, TestMailbox(p)
    PROVE  MailKept(p)
<1>1. \/ \E m : Begin(p, "mailbox.test", m)
      \/ Commit(p, SetMailbox(Arg(p), "CONNECTED"), <<>>)
      \/ Proceed(p, SetMailbox(Arg(p), "ERROR"), "none", None, 1)
  BY DEF TestMailbox
<1> DEFINE m == Arg(p)
<1>2. Left([op |-> "none", arg |-> None], db)
  BY LeftNothing DEF Argless
<1>3. \A a : Left([op |-> "mailbox.test", arg |-> a], db)
  BY LeftNothing DEF Argless
<1> HIDE DEF m
<1>4. QED BY <1>1, <1>2, <1>3, MailBegun, StatusSet DEF m

LEMMA QueueMailboxKept ==
    ASSUME Typed, NEW p \in Requests, Left(request[p], db), RequestSync(p) \/ RecoverMailboxes(p)
    PROVE  MailKept(p)
<1>1. ASSUME NEW m \in DOMAIN db.mailboxes, Begin(p, "mailbox.queue", m)
      PROVE  MailKept(p)
  <2>1. MailboxArgs([op |-> "mailbox.queue", arg |-> m], db)
    BY DEF MailboxArgs, SyncArgs
  <2>2. Left([op |-> "mailbox.queue", arg |-> m], db)
    BY <2>1, LeftMailbox DEF MailboxOps
  <2>3. QED BY <1>1, <2>2, MailBegun
<1>2. ASSUME At(p, "mailbox.queue"), Commit(p, SyncQueued(Arg(p)), <<>>)
      PROVE  MailKept(p)
  <2> DEFINE m == Arg(p)
             job == <<m, db.today>>
             syncs == IF job \in DOMAIN db.syncs THEN db.syncs
                      ELSE Insert(db.syncs, job, SyncAttempts)
             tables == SyncQueued(m)
  <2>1. m \in DOMAIN db.mailboxes
    BY <1>2 DEF Left, MailboxArgs
  <2>2. job \in Mailboxes \X Nat /\ SyncAttempts \in 0..SyncAttempts /\ job[1] = m
    <3>1. m \in Mailboxes
      BY <2>1, MailboxTyped
    <3>2. db.today \in Nat
      BY DEF Typed, RowsOK, DemoRowsOK
    <3>3. SyncAttempts \in 0..SyncAttempts
      BY MailboxesAssumption DEF MailboxesAssumption
    <3> HIDE DEF m
    <3>4. QED BY <3>1, <3>2, <3>3
  <2>3. /\ RowsOf(syncs, Mailboxes \X Nat, 0..SyncAttempts)
        /\ \A j \in DOMAIN syncs : j = job \/ j \in DOMAIN db.syncs
    <3>1. RowsOf(db.syncs, Mailboxes \X Nat, 0..SyncAttempts)
      BY DEF Typed, RowsOK, MailboxRowsOK
    <3> HIDE DEF job
    <3>2. QED BY <2>2, <3>1 DEF RowsOf, Insert
  <2>4. /\ DOMAIN tables = TableNames /\ tables.syncs = syncs /\ tables.gone = db.gone
        /\ \A n \in TableNames \ {"syncs"} : tables[n] = db[n]
    <3>1. CASE job \in DOMAIN db.syncs
      BY <3>1 DEF SyncQueued, Typed, TableNames
    <3>2. CASE job \notin DOMAIN db.syncs
      BY <3>2 DEF SyncQueued, Typed, TableNames
    <3>3. QED BY <3>1, <3>2
  <2>5. Commit(p, tables, <<>>)
    BY <1>2
  <2> HIDE DEF tables, syncs, job, m
  <2>6. db' = tables /\ Moved(p) /\ request'[p].op \in {"none", "announce"}
    BY <2>5, Committing
  <2>7. Kept({"syncs"}) /\ db'.syncs = syncs /\ db'.mailboxes = db.mailboxes
    BY <2>4, <2>6 DEF Kept, TableNames
  <2>8. SyncsFine
    BY <2>1, <2>2, <2>3, <2>7 DEF SyncsFine, Typed, MailReferencesOK
  <2>9. Writes
    BY <2>7, <2>8, MailWritten DEF MailTables
  <2>10. QED BY <2>6, <2>9, MailCommitted DEF Argless
<1>3. \/ \E m \in DOMAIN db.mailboxes : Begin(p, "mailbox.queue", m)
      \/ At(p, "mailbox.queue") /\ Commit(p, SyncQueued(Arg(p)), <<>>)
  BY DEF RequestSync, RecoverMailboxes, UsableMailboxes, OfOrg
<1>4. QED BY <1>1, <1>2, <1>3

LEMMA TakeSyncKept ==
    ASSUME Typed, NEW p \in Requests, TakeSync(p)
    PROVE  MailKept(p)
<1>1. PICK job \in DOMAIN db.syncs :
         /\ db.syncs[job] > 0
         /\ BeginWriting(p, [db EXCEPT !.syncs[job] = 0], "sync.claim",
               [job |-> job, left |-> db.syncs[job] - 1])
  BY DEF TakeSync
<1> DEFINE syncs == [db.syncs EXCEPT ![job] = 0]
           tables == [db EXCEPT !["syncs"] = syncs]
           left == db.syncs[job] - 1
           arg == [job |-> job, left |-> left]
<1>2. job[1] \in DOMAIN db.mailboxes /\ left \in 0..SyncAttempts /\ 0 \in 0..SyncAttempts
  BY <1>1, MailboxesAssumption DEF MailboxesAssumption, Typed, RowsOK, MailboxRowsOK, RowsOf,
                                   MailReferencesOK
<1>3. /\ DOMAIN tables = TableNames /\ tables.syncs = syncs /\ tables.gone = db.gone
      /\ \A n \in TableNames \ {"syncs"} : tables[n] = db[n]
  BY DEF Typed, TableNames
<1>4. BeginWriting(p, tables, "sync.claim", arg) /\ arg = [job |-> job, left |-> left]
  BY <1>1
<1>5. RowsOf(syncs, Mailboxes \X Nat, 0..SyncAttempts) /\ DOMAIN syncs = DOMAIN db.syncs
  BY <1>2 DEF Typed, RowsOK, MailboxRowsOK, RowsOf
<1> HIDE DEF tables, syncs, left, arg
<1>6. db' = tables /\ Moved(p) /\ request'[p] = [op |-> "sync.claim", arg |-> arg]
  BY <1>4, Beginning
<1>7. Kept({"syncs"}) /\ db'.syncs = syncs /\ db'.mailboxes = db.mailboxes
  BY <1>3, <1>6 DEF Kept, TableNames
<1>8. SyncsFine
  BY <1>5, <1>7 DEF SyncsFine, Typed, MailReferencesOK
<1>9. Writes
  BY <1>7, <1>8, MailWritten DEF MailTables
<1>10. MailboxArgs([op |-> "sync.claim", arg |-> arg], db)
  BY <1>2, <1>4 DEF MailboxArgs, SyncArgs
<1>11. Left([op |-> "sync.claim", arg |-> arg], db)
  BY <1>10, LeftMailbox DEF MailboxOps
<1>12. QED BY <1>6, <1>9, <1>11, MailMoved

LEMMA ClaimMailboxKept ==
    ASSUME Typed, NEW p \in Requests, Left(request[p], db), ClaimMailbox(p)
    PROVE  MailKept(p)
<1> DEFINE given == Arg(p)
           m == given.job[1]
           row == db.mailboxes[m]
           folders == IF <<m, "SENT">> \in DOMAIN db.server THEN <<"INBOX", "SENT">>
                      ELSE <<"INBOX">>
           opened == [mailbox |-> m, cursor |-> row.cursor, reached |-> NoCursor,
                      folders |-> folders]
           arg == Over(opened, given)
<1>1. /\ given = [job |-> given.job, left |-> given.left]
      /\ m \in DOMAIN db.mailboxes /\ given.left \in 0..SyncAttempts
  BY DEF ClaimMailbox, Left, MailboxArgs
<1>2. Reject(p) \/ \E faults : Proceed(p, SetMailbox(m, "SYNCING"), "sync.open", arg, faults)
  BY DEF ClaimMailbox
<1>3. /\ row.cursor \in Cursors /\ NoCursor \in Cursors
      /\ SeenUpTo(db, m, row.cursor) /\ SeenUpTo(db, m, NoCursor)
  <2>1. row.cursor \in Cursors /\ NoCursor \in Cursors
    BY <1>1, MailboxTyped DEF MailboxRow, Cursors, NoCursor, Cursor, OrNone
  <2>2. \A f \in {"INBOX", "SENT"} : NoCursor[f] = None
    BY DEF NoCursor
  <2>3. SeenUpTo(db, m, NoCursor)
    BY <2>2 DEF SeenUpTo, Folders
  <2>4. QED BY <1>1, <2>1, <2>3, MailboxTyped
<1>4. folders \in Seq(Folders(db, m))
  <2>1. "INBOX" \in Folders(db, m)
    BY <1>1, MailboxTyped DEF Folders
  <2>2. <<m, "SENT">> \in DOMAIN db.server => "SENT" \in Folders(db, m)
    BY DEF Folders
  <2> DEFINE S == Folders(db, m)
  <2> HIDE DEF S
  <2>3. "INBOX" \in S => <<"INBOX">> \in Seq(S)
    OBVIOUS
  <2>4. "INBOX" \in S /\ "SENT" \in S => <<"INBOX", "SENT">> \in Seq(S)
    OBVIOUS
  <2>5. QED BY <2>1, <2>2, <2>3, <2>4 DEF S
<1>5. arg = [mailbox |-> m, cursor |-> row.cursor, reached |-> NoCursor, folders |-> folders,
             job |-> given.job, left |-> given.left]
  <2>1. opened = [mailbox |-> m, cursor |-> row.cursor, reached |-> NoCursor,
                  folders |-> folders]
    OBVIOUS
  <2> HIDE DEF given, m, row, folders, opened
  <2>2. QED BY <1>1, <2>1 DEF Over
<1> HIDE DEF given, m, row, folders, opened, arg
<1>6. MailboxArgs([op |-> "sync.open", arg |-> arg], db)
  BY <1>1, <1>3, <1>4, <1>5 DEF MailboxArgs, SyncArgs, ImportArgs
<1>7. Left([op |-> "sync.open", arg |-> arg], db)
  BY <1>6, LeftMailbox DEF MailboxOps
<1>8. QED BY <1>2, <1>7, MailTurnedAway, StatusSet

-----------------------------------------------------------------------------
(* The steps of an import *)

LEMMA LeftSync ==
    ASSUME NEW op \in {"sync.open", "sync.read", "sync.file", "sync.insert", "sync.fail"}, NEW arg,
           NEW tables, ImportArgs(arg, tables),
           op \in {"sync.read", "sync.file", "sync.insert"} => FolderArgs(arg, tables),
           op \in {"sync.file", "sync.insert"} => MessageArgs(arg, tables)
    PROVE  Left([op |-> op, arg |-> arg], tables)
<1>1. MailboxArgs([op |-> op, arg |-> arg], tables)
  BY DEF MailboxArgs, SyncArgs
<1>2. QED BY <1>1, LeftMailbox DEF MailboxOps

LEMMA Failing ==
    ASSUME Typed, NEW p \in Requests, ImportArgs(Arg(p), db), Fail(p, db)
    PROVE  MailKept(p)
<1> DEFINE arg == Arg(p)
<1>1. Proceed(p, db, "sync.fail", arg, 1)
  BY DEF Fail
<1>2. Left([op |-> "sync.fail", arg |-> arg], db)
  BY LeftSync
<1> HIDE DEF arg
<1>3. QED BY <1>1, <1>2, MailProceeded

LEMMA OpenFolderKept ==
    ASSUME Typed, NEW p \in Requests, Left(request[p], db), OpenFolder(p)
    PROVE  MailKept(p)
<1> DEFINE arg == Arg(p)
           f == Head(arg.folders)
           folder == db.server[<<arg.mailbox, f>>]
           previous == arg.cursor[f]
           first == FirstUid(previous, folder)
           from == IF Known(previous, folder) THEN previous.from ELSE first
           last == IF Known(previous, folder) THEN previous.last ELSE 0
           read == [rest |-> UidRange(previous, folder), validity |-> folder.validity,
                    from |-> from, last |-> last]
           next == Over(read, arg)
<1>1. ImportArgs(arg, db) /\ arg.folders # <<>>
  BY DEF OpenFolder, Left, MailboxArgs, SyncArgs
<1>2. Continue(p, "sync.read", next) \/ Fail(p, db)
  BY DEF OpenFolder
<1>3. /\ folder.validity \in Nat /\ folder.next \in 1..(MaxUid + 1)
      /\ DOMAIN folder.mail \subseteq 1..MaxUid /\ MaxUid \in Nat /\ FetchSize \in Nat
      /\ \A uid \in DOMAIN folder.mail : uid < folder.next
  <2>1. FolderOK(folder)
    BY <1>1, FolderAt
  <2>2. MaxUid \in Nat /\ FetchSize \in Nat
    BY CrmMailAssumption, MailboxesAssumption DEF CrmMailAssumption, MailboxesAssumption
  <2> HIDE DEF folder
  <2>3. /\ folder.validity \in Nat /\ folder.next \in 1..(MaxUid + 1)
        /\ RowsOf(folder.mail, 1..(folder.next - 1), Mail)
    BY <2>1 DEF FolderOK
  <2>4. QED BY <2>2, <2>3 DEF RowsOf
<1>4. previous = None \/ previous \in [validity : Nat, last : Nat, from : Nat]
  BY <1>1, FolderAt DEF ImportArgs, Cursors, Cursor, OrNone
<1>5. previous # None /\ previous.validity = folder.validity =>
          /\ previous.last < folder.next
          /\ \A uid \in DOMAIN folder.mail \cap (previous.from .. previous.last) :
                folder.mail[uid].fit => Covered(db, arg.mailbox, f, uid, folder.mail[uid].id)
  <2>1. f \in Folders(db, arg.mailbox)
    BY <1>1, FolderAt DEF Folders
  <2>2. previous # None => Seen(db, arg.mailbox, f, previous)
    BY <1>1, <2>1 DEF ImportArgs, SeenUpTo
  <2> HIDE DEF arg, f, previous
  <2>3. QED BY <2>2 DEF Seen
<1>6. folder = db.server[<<arg.mailbox, f>>] /\ f = Head(arg.folders)
  OBVIOUS
<1> HIDE DEF arg, f, folder, previous
<1>7. Known(previous, folder) => previous.last \in Nat /\ previous.from \in Nat
  BY <1>4 DEF Known
<1>8. first \in Nat
  <2>1. CASE Known(previous, folder)
    BY <1>7, <2>1 DEF FirstUid
  <2>2. CASE ~Known(previous, folder)
    <3>1. 1 \in Int /\ folder.next - FetchSize \in Int
      BY <1>3
    <3>2. Max({1, folder.next - FetchSize}) \in {1, folder.next - FetchSize}
          /\ Max({1, folder.next - FetchSize}) >= 1
      BY <3>1, MinMax
    <3>3. Max({1, folder.next - FetchSize}) \in Nat
      BY <3>1, <3>2
    <3>4. QED BY <2>2, <3>3 DEF FirstUid
  <2>3. QED BY <2>1, <2>2
<1>9. UidRange(previous, folder) \in SUBSET (1..MaxUid)
  <2> DEFINE uids == DOMAIN folder.mail
  <2>1. uids # {} => Max(uids) \in uids
    <3>1. uids \subseteq 0..MaxUid /\ MaxUid \in Nat
      BY <1>3
    <3> HIDE DEF uids
    <3>2. QED BY <3>1, MinMax
  <2>2. UidRange(previous, folder) \subseteq uids
    BY <2>1 DEF UidRange
  <2>3. QED BY <1>3, <2>2
<1>10. from \in Nat /\ last \in Nat
  BY <1>7, <1>8
<1>11. /\ last < folder.next /\ \A r \in UidRange(previous, folder) : r < folder.next
       /\ \A uid \in DOMAIN folder.mail \cap (from .. MaxUid) :
             /\ uid \notin UidRange(previous, folder) /\ folder.mail[uid].fit
             /\ uid <= last \/ \E r \in UidRange(previous, folder) : uid <= r
             => Covered(db, arg.mailbox, f, uid, folder.mail[uid].id)
  <2> DEFINE uids == DOMAIN folder.mail
             range == UidRange(previous, folder)
  <2>1. range \subseteq uids
    <3>1. uids # {} => Max(uids) \in uids
      <4>1. uids \subseteq 0..MaxUid /\ MaxUid \in Nat
        BY <1>3
      <4> HIDE DEF uids
      <4>2. QED BY <4>1, MinMax
    <3>2. QED BY <3>1 DEF UidRange
  <2>2. ASSUME NEW uid \in uids, uid >= first, range # {}
        PROVE  uid \in range
    BY <2>2 DEF UidRange
  <2>3. last < folder.next
    <3>1. 0 < folder.next
      BY <1>3
    <3>2. QED BY <1>5, <3>1 DEF Known
  <2>4. ASSUME NEW uid \in uids \cap (from .. MaxUid), uid \notin range, folder.mail[uid].fit,
               uid <= last \/ \E r \in range : uid <= r
        PROVE  Covered(db, arg.mailbox, f, uid, folder.mail[uid].id)
    <3>1. ~(uid >= first) \/ range = {}
      BY <2>2, <2>4
    <3>2. uid \in Nat /\ uid >= 1 /\ first \in Nat
      BY <1>3, <1>8
    <3>3. CASE Known(previous, folder)
      <4>1. from = previous.from /\ last = previous.last /\ first = previous.last + 1
        BY <3>3 DEF FirstUid
      <4>2. previous.last \in Nat /\ previous.from \in Nat
        BY <1>7, <3>3
      <4>3. uid <= previous.last
        BY <2>4, <3>1, <3>2, <4>1, <4>2
      <4>4. uid \in uids \cap (previous.from .. previous.last)
        BY <2>4, <3>2, <4>1, <4>2, <4>3
      <4>5. QED BY <1>5, <2>4, <3>3, <4>4 DEF Known
    <3>4. CASE ~Known(previous, folder)
      <4>1. from = first /\ last = 0
        BY <3>4
      <4>2. QED BY <1>8, <2>4, <3>1, <3>2, <4>1
    <3>5. QED BY <3>3, <3>4
  <2>5. QED BY <1>3, <2>1, <2>3, <2>4
<1>12. ImportArgs(next, db) /\ FolderArgs(next, db)
  <2> DEFINE range == UidRange(previous, folder)
             v == folder.validity
  <2>1. read = [rest |-> range, validity |-> v, from |-> from, last |-> last]
        /\ range \in SUBSET (1..MaxUid) /\ v \in Nat
    BY <1>3, <1>9
  <2>2. /\ v <= folder.validity
        /\ last < folder.next /\ \A r \in range : r < folder.next
        /\ \A uid \in DOMAIN folder.mail \cap (from .. MaxUid) :
              /\ uid \notin range /\ folder.mail[uid].fit
              /\ uid <= last \/ \E r \in range : uid <= r
              => Covered(db, arg.mailbox, f, uid, folder.mail[uid].id)
    BY <1>3, <1>11
  <2> HIDE DEF read, range, v, from, last
  <2>3. /\ next.mailbox = arg.mailbox /\ next.cursor = arg.cursor /\ next.reached = arg.reached
        /\ next.folders = arg.folders /\ next.left = arg.left
        /\ next.rest = range /\ next.validity = v /\ next.from = from /\ next.last = last
        /\ DOMAIN arg \cup {"rest", "validity", "from", "last"} \subseteq DOMAIN next
    BY <1>1, <2>1 DEF Over, ImportArgs
  <2> HIDE DEF next
  <2>4. ImportArgs(next, db)
    BY <1>1, <2>3 DEF ImportArgs
  <2>5. Reading(db, next)
    BY <1>6, <2>3, <2>2 DEF Reading
  <2>6. QED BY <1>1, <1>10, <2>1, <2>3, <2>4, <2>5 DEF ImportArgs, FolderArgs
<1>13. Left([op |-> "sync.read", arg |-> next], db)
  <2> HIDE DEF next
  <2>1. QED BY <1>12, LeftSync
<1> HIDE DEF next
<1>14. CASE Fail(p, db)
  BY <1>1, <1>14, Failing DEF arg
<1>15. QED BY <1>2, <1>13, <1>14, MailBegun

LEMMA CloseFolderKept ==
    ASSUME Typed, NEW p \in Requests, Left(request[p], db), CloseFolder(p)
    PROVE  MailKept(p)
<1> DEFINE arg == Arg(p)
           f == Head(arg.folders)
           seq == Tail(arg.folders)
           cursor == [validity |-> arg.validity, last |-> arg.last, from |-> arg.from]
           reached == [arg.reached EXCEPT ![f] = cursor]
           next == [arg EXCEPT !["folders"] = seq, !["reached"] = reached]
<1>1. ImportArgs(arg, db) /\ FolderArgs(arg, db) /\ arg.rest = {}
  BY DEF CloseFolder, Left, MailboxArgs, SyncArgs
<1>2. Continue(p, "sync.open", next)
  BY DEF CloseFolder, LastUid
<1>3. seq \in Seq(Folders(db, arg.mailbox)) /\ f \in {"INBOX", "SENT"}
  BY <1>1, FolderAt DEF FolderArgs
<1>4. reached \in Cursors
  <2>1. cursor \in Cursor
    BY <1>1 DEF FolderArgs, Cursor, OrNone
  <2> HIDE DEF cursor
  <2>2. QED BY <1>1, <1>3, <2>1 DEF Cursors, ImportArgs
<1> HIDE DEF arg
<1>5. SeenUpTo(db, arg.mailbox, reached)
  <2> DEFINE folder == db.server[<<arg.mailbox, f>>]
  <2>1. DOMAIN folder.mail \subseteq 1..MaxUid /\ MaxUid \in Nat
    <3>1. FolderOK(folder)
      BY <1>1, FolderAt DEF FolderArgs
    <3> HIDE DEF folder
    <3>2. QED BY <3>1, CrmMailAssumption DEF FolderOK, RowsOf, CrmMailAssumption
  <2>2. /\ arg.validity <= folder.validity
        /\ arg.validity = folder.validity =>
              /\ arg.last < folder.next
              /\ \A uid \in DOMAIN folder.mail \cap (arg.from .. MaxUid) :
                    /\ uid \notin arg.rest /\ folder.mail[uid].fit
                    /\ uid <= arg.last \/ \E r \in arg.rest : uid <= r
                    => Covered(db, arg.mailbox, f, uid, folder.mail[uid].id)
    BY <1>1 DEF FolderArgs, Reading
  <2>3. arg.last \in Nat /\ arg.from \in Nat
    BY <1>1 DEF FolderArgs
  <2>4. /\ cursor.validity = arg.validity /\ cursor.last = arg.last /\ cursor.from = arg.from
    OBVIOUS
  <2>5. Seen(db, arg.mailbox, f, cursor)
          <=> /\ cursor.validity <= folder.validity
              /\ cursor.validity = folder.validity =>
                    /\ cursor.last < folder.next
                    /\ \A uid \in DOMAIN folder.mail \cap (cursor.from .. cursor.last) :
                          folder.mail[uid].fit =>
                             Covered(db, arg.mailbox, f, uid, folder.mail[uid].id)
    BY DEF Seen
  <2> HIDE DEF folder, cursor, f
  <2>6. Seen(db, arg.mailbox, f, cursor)
    <3>1. ASSUME cursor.validity = folder.validity,
                 NEW uid \in DOMAIN folder.mail \cap (cursor.from .. cursor.last),
                 folder.mail[uid].fit
          PROVE  Covered(db, arg.mailbox, f, uid, folder.mail[uid].id)
      <4>1. uid \in DOMAIN folder.mail \cap (arg.from .. MaxUid) /\ uid <= arg.last
        BY <2>1, <2>3, <2>4, <3>1
      <4>2. QED BY <1>1, <2>2, <2>4, <3>1, <4>1
    <3>2. QED BY <2>2, <2>4, <2>5, <3>1
  <2>7. \A g \in {"INBOX", "SENT"} : reached[g] = IF g = f THEN cursor ELSE arg.reached[g]
    BY <1>1 DEF ImportArgs, Cursors
  <2>8. QED BY <1>1, <2>6, <2>7 DEF ImportArgs, SeenUpTo, Folders
<1> HIDE DEF seq, reached, f
<1>6. ImportArgs(next, db)
  BY <1>1, <1>3, <1>4, <1>5 DEF ImportArgs
<1> HIDE DEF next
<1>7. Left([op |-> "sync.open", arg |-> next], db)
  BY <1>6, LeftSync
<1>8. QED BY <1>2, <1>7, MailBegun

LEMMA FinishSyncKept ==
    ASSUME Typed, NEW p \in Requests, Left(request[p], db), FinishSync(p)
    PROVE  MailKept(p)
<1> DEFINE arg == Arg(p)
           m == arg.mailbox
           change == [status |-> "CONNECTED", cursor |-> arg.reached]
           mailboxes == Patch(db.mailboxes, m, change)
           tables == [db EXCEPT !["mailboxes"] = mailboxes]
<1>1. ImportArgs(arg, db)
  BY DEF FinishSync, Left, MailboxArgs, SyncArgs
<1>2. Commit(p, tables, <<>>) \/ Fail(p, db)
  BY DEF FinishSync
<1>3. /\ DOMAIN tables = TableNames /\ tables.mailboxes = mailboxes /\ tables.gone = db.gone
      /\ \A n \in TableNames \ {"mailboxes"} : tables[n] = db[n]
  BY DEF Typed, TableNames
<1>4. ASSUME NEW row \in MailboxRow
      PROVE  /\ Over(change, row) \in MailboxRow /\ Over(change, row).org = row.org
             /\ Over(change, row).cursor = arg.reached
  <2> DEFINE reached == arg.reached
  <2>1. change = [status |-> "CONNECTED", cursor |-> reached] /\ reached \in Cursors
    BY <1>1 DEF ImportArgs
  <2> HIDE DEF change, reached
  <2>2. /\ Over(change, row) \in MailboxRow /\ Over(change, row).org = row.org
        /\ Over(change, row).cursor = reached
    BY <2>1 DEF Over, MailboxRow, Cursors
  <2>3. QED BY <2>2 DEF reached
<1>5. CASE Fail(p, db)
  BY <1>1, <1>5, Failing
<1>6. SeenUpTo(db, m, arg.reached)
  BY <1>1 DEF ImportArgs
<1> HIDE DEF tables, mailboxes, change, m
<1>7. ASSUME Commit(p, tables, <<>>)
      PROVE  MailKept(p)
  <2>1. db' = tables /\ Moved(p) /\ request'[p].op \in {"none", "announce"}
    BY <1>7, Committing
  <2>2. Kept({"mailboxes"}) /\ db'.mailboxes = mailboxes
    BY <1>3, <2>1 DEF Kept
  <2>3. m \in DOMAIN db.mailboxes => /\ Over(change, db.mailboxes[m]) \in MailboxRow
                                     /\ Over(change, db.mailboxes[m]).org = db.mailboxes[m].org
                                     /\ SeenUpTo(db, m, Over(change, db.mailboxes[m]).cursor)
    BY <1>4, <1>6, MailboxTyped
  <2>4. Writes
    BY <2>2, <2>3, MailboxPatched DEF mailboxes
  <2>5. QED BY <2>1, <2>4, MailCommitted DEF Argless
<1>8. QED BY <1>2, <1>5, <1>7

LEMMA FailSyncKept ==
    ASSUME Typed, NEW p \in Requests, Left(request[p], db), FailSync(p)
    PROVE  MailKept(p)
<1> DEFINE arg == Arg(p)
           m == arg.mailbox
           job == arg.job
           left == arg.left
           mailboxes == Patch(db.mailboxes, m, [status |-> "ERROR"])
           syncs == [db.syncs EXCEPT ![job] = left]
           tables == [db EXCEPT !["mailboxes"] = mailboxes, !["syncs"] = syncs]
<1>1. left \in 0..SyncAttempts
  BY DEF FailSync, Left, MailboxArgs, SyncArgs, ImportArgs
<1>2. Commit(p, tables, <<>>)
  <2>1. [SetMailbox(m, "ERROR") EXCEPT !.syncs[job] = left] = tables
    BY DEF SetMailbox, Typed, TableNames
  <2>2. Commit(p, [SetMailbox(m, "ERROR") EXCEPT !.syncs[job] = left], <<>>)
    BY DEF FailSync
  <2> HIDE DEF tables, m, job, left
  <2>3. QED BY <2>1, <2>2
<1>3. /\ DOMAIN tables = TableNames /\ tables.mailboxes = mailboxes /\ tables.syncs = syncs
      /\ tables.gone = db.gone
      /\ \A n \in TableNames \ {"mailboxes", "syncs"} : tables[n] = db[n]
  BY DEF Typed, TableNames
<1>4. RowsOf(syncs, Mailboxes \X Nat, 0..SyncAttempts) /\ DOMAIN syncs = DOMAIN db.syncs
  <2> HIDE DEF job, left
  <2>1. QED BY <1>1 DEF Typed, RowsOK, MailboxRowsOK, RowsOf
<1>5. /\ RowsOf(mailboxes, Mailboxes, MailboxRow) /\ DOMAIN mailboxes = DOMAIN db.mailboxes
      /\ \A n \in DOMAIN db.mailboxes :
            /\ mailboxes[n].org = db.mailboxes[n].org
            /\ mailboxes[n].cursor = db.mailboxes[n].cursor
  <2> HIDE DEF m
  <2>1. ASSUME m \in DOMAIN db.mailboxes
        PROVE  /\ Over([status |-> "ERROR"], db.mailboxes[m]) \in MailboxRow
               /\ Over([status |-> "ERROR"], db.mailboxes[m]).org = db.mailboxes[m].org
               /\ Over([status |-> "ERROR"], db.mailboxes[m]).cursor = db.mailboxes[m].cursor
    <3>1. db.mailboxes[m] \in MailboxRow
      BY <2>1, MailboxTyped
    <3>2. QED BY <3>1, StatusChanged
  <2>2. RowsOf(mailboxes, Mailboxes, MailboxRow)
    BY <2>1, Patching DEF Typed, RowsOK, MailboxRowsOK
  <2>3. QED BY <2>1, <2>2 DEF Patch
<1> HIDE DEF tables, mailboxes, syncs
<1>6. db' = tables /\ Moved(p) /\ request'[p].op \in {"none", "announce"}
  BY <1>2, Committing
<1>7. /\ Kept({"mailboxes", "syncs"}) /\ db'.mailboxes = mailboxes /\ db'.syncs = syncs
      /\ db'.server = db.server
  BY <1>3, <1>6 DEF Kept, TableNames
<1>8. MailboxesFine
  BY <1>5, <1>7, MailboxTyped DEF MailboxesFine
<1>9. SyncsFine
  BY <1>4, <1>5, <1>7 DEF SyncsFine, Typed, MailReferencesOK
<1>10. Writes
  BY <1>7, <1>8, <1>9, MailWritten DEF MailTables
<1>11. QED BY <1>6, <1>10, MailCommitted DEF Argless

\* One uid of the folder is done with, whose mail is covered.
LEMMA PassedArgs ==
    ASSUME NEW tables, NEW arg, ImportArgs(arg, tables), FolderArgs(arg, tables),
           NEW uid \in arg.rest, NEW f, f = Head(arg.folders), NEW folder,
           folder = tables.server[<<arg.mailbox, f>>],
           /\ arg.validity = folder.validity
           /\ uid \in DOMAIN folder.mail /\ folder.mail[uid].fit
           => Covered(tables, arg.mailbox, f, uid, folder.mail[uid].id)
    PROVE  ImportArgs(Passed(arg, uid), tables) /\ FolderArgs(Passed(arg, uid), tables)
<1> DEFINE rest == arg.rest \ {uid}
           last == Max({arg.last, uid})
           next == [arg EXCEPT !["rest"] = rest, !["last"] = last]
<1>1. Passed(arg, uid) = next
  BY DEF Passed
<1>2. rest \in SUBSET (1..MaxUid)
  BY DEF FolderArgs
<1>3. last \in Nat /\ last \in {arg.last, uid} /\ arg.last \in Nat /\ uid \in Nat
  <2>1. arg.last \in Nat /\ uid \in Nat
    BY DEF FolderArgs
  <2>2. last \in {arg.last, uid}
    BY <2>1, MinMax
  <2>3. QED BY <2>1, <2>2
<1>4. rest = arg.rest \ {uid}
  OBVIOUS
<1> HIDE DEF rest, last
<1>5. /\ next.mailbox = arg.mailbox /\ next.folders = arg.folders /\ next.validity = arg.validity
      /\ next.from = arg.from /\ next.rest = rest /\ next.last = last
      /\ next.cursor = arg.cursor /\ next.reached = arg.reached /\ next.left = arg.left
      /\ DOMAIN next = DOMAIN arg
  BY DEF ImportArgs, FolderArgs
<1> HIDE DEF next
<1>6. Reading(tables, next)
  <2>1. /\ arg.validity <= folder.validity
        /\ arg.validity = folder.validity =>
              /\ arg.last < folder.next /\ \A r \in arg.rest : r < folder.next
              /\ \A u \in DOMAIN folder.mail \cap (arg.from .. MaxUid) :
                    /\ u \notin arg.rest /\ folder.mail[u].fit
                    /\ u <= arg.last \/ \E r \in arg.rest : u <= r
                    => Covered(tables, arg.mailbox, f, u, folder.mail[u].id)
    BY DEF FolderArgs, Reading
  <2>2. ASSUME arg.validity = folder.validity,
               NEW u \in DOMAIN folder.mail \cap (arg.from .. MaxUid),
               u \notin rest, folder.mail[u].fit, u <= last \/ \E r \in rest : u <= r
        PROVE  Covered(tables, arg.mailbox, f, u, folder.mail[u].id)
    <3>1. CASE u = uid
      BY <2>2, <3>1
    <3>2. CASE u # uid
      <4>1. u \notin arg.rest
        BY <1>4, <2>2, <3>2
      <4>2. u <= arg.last \/ \E r \in arg.rest : u <= r
        BY <1>3, <1>4, <2>2
      <4>3. QED BY <2>1, <2>2, <4>1, <4>2
    <3>3. QED BY <3>1, <3>2
  <2>3. arg.validity = folder.validity => last < folder.next /\ \A r \in rest : r < folder.next
    BY <1>3, <1>4, <2>1
  <2>4. Reading(tables, next)
          <=> /\ arg.validity <= folder.validity
              /\ arg.validity = folder.validity =>
                    /\ last < folder.next /\ \A r \in rest : r < folder.next
                    /\ \A u \in DOMAIN folder.mail \cap (arg.from .. MaxUid) :
                          /\ u \notin rest /\ folder.mail[u].fit
                          /\ u <= last \/ \E r \in rest : u <= r
                          => Covered(tables, arg.mailbox, f, u, folder.mail[u].id)
    BY <1>5, Zenon DEF Reading
  <2>5. QED BY <2>1, <2>2, <2>3, <2>4
<1>7. ImportArgs(next, tables) /\ FolderArgs(next, tables)
  BY <1>2, <1>3, <1>5, <1>6 DEF ImportArgs, FolderArgs
<1>8. QED BY <1>1, <1>7

LEMMA FirstLeft ==
    ASSUME NEW arg, NEW tables, FolderArgs(arg, tables), arg.rest # {}
    PROVE  Min(arg.rest) \in arg.rest /\ Min(arg.rest) \in 1..MaxUid
<1> DEFINE rest == arg.rest
<1>1. rest \in SUBSET (1..MaxUid) /\ rest # {}
  BY DEF FolderArgs
<1> HIDE DEF rest
<1>2. rest \subseteq Nat
  BY <1>1
<1>3. Min(rest) \in rest
  BY <1>1, <1>2, MinMax
<1>4. QED BY <1>1, <1>3 DEF rest

LEMMA PassMessageKept ==
    ASSUME Typed, NEW p \in Requests, Left(request[p], db), PassMessage(p)
    PROVE  MailKept(p)
<1> DEFINE arg == Arg(p)
           uid == Min(arg.rest)
           f == Head(arg.folders)
           folder == db.server[<<arg.mailbox, f>>]
           next == Passed(arg, uid)
<1>1. ImportArgs(arg, db) /\ FolderArgs(arg, db) /\ arg.rest # {}
  BY DEF PassMessage, Left, MailboxArgs, SyncArgs
<1>2. /\ Continue(p, "sync.read", next)
      /\ uid \in DOMAIN folder.mail /\ folder.mail[uid].fit =>
            Stored(arg.mailbox, f, uid, folder.mail[uid].id)
  BY Zenon DEF PassMessage
<1>3. f = Head(arg.folders) /\ folder = db.server[<<arg.mailbox, f>>]
  OBVIOUS
<1> HIDE DEF arg, f, folder
<1>4. uid \in DOMAIN folder.mail /\ folder.mail[uid].fit =>
         Covered(db, arg.mailbox, f, uid, folder.mail[uid].id)
  BY <1>2, Zenon DEF Stored, Covered
<1>5. uid \in arg.rest
  BY <1>1, FirstLeft
<1> HIDE DEF uid
<1>6. ImportArgs(next, db) /\ FolderArgs(next, db)
  BY <1>1, <1>4, <1>3, <1>5, PassedArgs
<1> HIDE DEF next
<1>7. Left([op |-> "sync.read", arg |-> next], db)
  BY <1>6, LeftSync
<1>8. QED BY <1>2, <1>7, MailBegun

LEMMA MatchTyped ==
    ASSUME Typed, NEW org, NEW address
    PROVE  Match(org, address) \in OrNone(Entities)
<1> DEFINE with(kind) == {x \in LiveEntities(org, {kind}) : db.entities[x].email = address}
           found == IF with("contact") # {} THEN with("contact")
                    ELSE IF with("lead") # {} THEN with("lead") ELSE with("company")
<1>1. \A kind : with(kind) \subseteq Entities
  BY CorrespondentTyped
<1>2. found \subseteq Entities
  BY <1>1
<1>3. Match(org, address)
        = IF address # None /\ Cardinality(found) = 1 THEN CHOOSE x \in found : TRUE ELSE None
  BY DEF Match
<1> HIDE DEF with, found
<1>4. Cardinality(found) = 1 => found # {}
  BY FS_EmptySet
<1>5. QED BY <1>2, <1>3, <1>4 DEF OrNone

LEMMA ReadMessageKept ==
    ASSUME Typed, NEW p \in Requests, Left(request[p], db), ReadMessage(p)
    PROVE  MailKept(p)
<1>1. ImportArgs(Arg(p), db) /\ FolderArgs(Arg(p), db) /\ Arg(p).rest # {}
  <2>1. request[p].op = "sync.read" /\ Arg(p).rest # {}
    BY Zenon DEF ReadMessage
  <2>2. SyncArgs(request[p], db)
    BY DEF Left, MailboxArgs
  <2>3. QED BY <2>1, <2>2 DEF SyncArgs
<1>2. ASSUME NEW x \in DOMAIN db.messages
       PROVE  LET row == db.messages[x]
              IN  row.thread # None => /\ row.thread \in DOMAIN db.threads
                                       /\ db.threads[row.thread].org = row.org
  BY DEF Typed, MailReferencesOK
<1> DEFINE arg == Arg(p)
           f == Head(arg.folders)
           uid == Min(arg.rest)
           box == db.server[<<arg.mailbox, f>>].mail
           org == db.mailboxes[arg.mailbox].org
           mail == box[uid]
           answered == {x \in OfOrg(db.messages, org) : db.messages[x].id \in mail.refs}
           match == Match(org, mail.from)
           place(x) == <<IF db.messages[x].related # None \/ f = "SENT"
                         THEN db.messages[x].related ELSE match, db.messages[x].thread>>
           alone == <<IF f = "SENT" THEN None ELSE match, None>>
           places == IF answered = {} THEN {alone} ELSE {place(x) : x \in answered}
           read(at) == [uid |-> uid, id |-> mail.id, related |-> at[1], thread |-> at[2],
                        file |-> None]
           next(at) == Over(read(at), arg)
<1>3. ImportArgs(arg, db) /\ FolderArgs(arg, db) /\ arg.rest # {}
  BY <1>1, Zenon
<1>4. uid \in DOMAIN box
      /\ (Fail(p, db) \/ \E at \in places : Continue(p, "sync.file", next(at))
                                            \/ Continue(p, "sync.insert", next(at)))
  BY DEF ReadMessage
<1>5. uid \in arg.rest
  <2> HIDE DEF arg
  <2>1. QED BY <1>3, FirstLeft
<1>6. mail.id \in OrNone(Messages \cup MailIds)
  <2> DEFINE folder == db.server[<<arg.mailbox, f>>]
  <2>1. FolderOK(folder)
    BY <1>3, FolderAt DEF FolderArgs
  <2>2. uid \in DOMAIN folder.mail /\ mail = folder.mail[uid]
    BY <1>4
  <2> HIDE DEF folder, mail, uid, box, f, arg
  <2>3. mail \in Mail
    BY <2>1, <2>2 DEF FolderOK, RowsOf
  <2>4. QED BY <2>3 DEF Mail
<1>7. ASSUME NEW at \in places
      PROVE  /\ at[1] \in OrNone(Entities)
             /\ at[2] # None => at[2] \in DOMAIN db.threads /\ db.threads[at[2]].org = org
  <2>1. match \in OrNone(Entities)
    BY MatchTyped
  <2> HIDE DEF match
  <2>2. CASE at = alone
    BY <2>1, <2>2 DEF OrNone
  <2>3. ASSUME NEW x \in answered, at = place(x)
        PROVE  /\ at[1] \in OrNone(Entities)
               /\ at[2] # None => at[2] \in DOMAIN db.threads /\ db.threads[at[2]].org = org
    <3>1. x \in DOMAIN db.messages /\ db.messages[x].org = org
      BY DEF OfOrg
    <3>2. db.messages[x].related \in OrNone(Entities)
      BY <3>1, MessageTyped DEF MessageRow
    <3>3. db.messages[x].thread # None =>
             /\ db.messages[x].thread \in DOMAIN db.threads
             /\ db.threads[db.messages[x].thread].org = org
      BY <1>2, <3>1, Zenon
    <3> HIDE DEF org
    <3>4. at[1] \in {db.messages[x].related, match} /\ at[2] = db.messages[x].thread
      BY <2>3
    <3>5. QED BY <2>1, <3>2, <3>3, <3>4
  <2> HIDE DEF answered, place, alone
  <2>4. QED BY <2>2, <2>3
<1>8. /\ org = db.mailboxes[arg.mailbox].org /\ mail = box[uid] /\ f = Head(arg.folders)
      /\ box = db.server[<<arg.mailbox, f>>].mail
  OBVIOUS
<1>9. CASE Fail(p, db)
  BY <1>3, <1>9, Failing
<1> HIDE DEF places, answered, alone, place, match, mail, box, uid, f, org, arg
<1>10. ASSUME NEW at \in places
      PROVE  /\ ImportArgs(next(at), db) /\ FolderArgs(next(at), db) /\ MessageArgs(next(at), db)
             /\ next(at).file = None
  <2> DEFINE id == mail.id
             related == at[1]
             thread == at[2]
  <2>1. read(at) = [uid |-> uid, id |-> id, related |-> related, thread |-> thread, file |-> None]
    OBVIOUS
  <2>2. /\ id \in OrNone(Messages \cup MailIds) /\ related \in OrNone(Entities)
        /\ thread # None => thread \in DOMAIN db.threads
                            /\ db.threads[thread].org = db.mailboxes[arg.mailbox].org
        /\ id = box[uid].id
    BY <1>6, <1>7, <1>8
  <2> HIDE DEF read, id, related, thread
  <2>3. /\ next(at).mailbox = arg.mailbox /\ next(at).cursor = arg.cursor
        /\ next(at).reached = arg.reached /\ next(at).folders = arg.folders
        /\ next(at).left = arg.left /\ next(at).rest = arg.rest
        /\ next(at).validity = arg.validity /\ next(at).from = arg.from
        /\ next(at).last = arg.last
        /\ next(at).uid = uid /\ next(at).id = id /\ next(at).related = related
        /\ next(at).thread = thread /\ next(at).file = None
        /\ DOMAIN arg \cup {"uid", "id", "related", "thread", "file"} \subseteq DOMAIN next(at)
    BY <1>3, <2>1 DEF Over, ImportArgs, FolderArgs
  <2> DEFINE given == next(at)
  <2> HIDE DEF next
  <2>4. ImportArgs(given, db)
    BY <1>3, <2>3 DEF ImportArgs
  <2>5. FolderArgs(given, db)
    <3>1. Reading(db, given) <=> Reading(db, arg)
      BY <2>3 DEF Reading
    <3>2. QED BY <1>3, <2>3, <3>1 DEF FolderArgs
  <2>6. MessageRead(db, given)
    BY <1>8, <2>2, <2>3 DEF MessageRead
  <2>7. MessageArgs(given, db)
    BY <1>5, <2>2, <2>3, <2>6 DEF MessageArgs, OrNone
  <2>8. QED BY <2>3, <2>4, <2>5, <2>7
<1> HIDE DEF next
<1>11. ASSUME NEW at \in places
      PROVE  /\ Left([op |-> "sync.file", arg |-> next(at)], db)
             /\ Left([op |-> "sync.insert", arg |-> next(at)], db)
  BY <1>10, LeftSync
<1>12. QED BY <1>4, <1>9, <1>10, <1>11, MailBegun

\* Files are stored, or deleted.
LEMMA StoredWritten ==
    ASSUME Typed, NEW p \in Requests, NEW stored, stored \subseteq Files, NEW op, NEW arg,
           NEW faults, Left([op |-> op, arg |-> arg], db),
           request[p].op \in {"sync.file", "sync.insert"},
           op = "sync.insert" => request[p].op = "sync.file",
           Proceed(p, [db EXCEPT !["stored"] = stored], op, arg, faults)
    PROVE  MailKept(p)
<1> DEFINE tables == [db EXCEPT !["stored"] = stored]
<1>1. /\ DOMAIN tables = TableNames /\ tables.stored = stored /\ tables.gone = db.gone
      /\ \A n \in TableNames \ {"stored"} : tables[n] = db[n]
  BY DEF Typed, TableNames
<1> HIDE DEF tables
<1>2. db' = tables /\ Moved(p) /\ request'[p] = [op |-> op, arg |-> arg]
  BY Proceeding DEF tables
<1>3. Kept({"stored"}) /\ db'.stored = stored
  BY <1>1, <1>2 DEF Kept
<1>4. TableWrites
  BY <1>3, TablesWritten DEF MailTables
<1>5. Left(request'[p], db')
  BY <1>2, <1>4, MailArgsStay DEF Left, TableWrites
<1>6. QED BY <1>2, <1>4, <1>5 DEF MailKept

LEMMA StoreMailFileKept ==
    ASSUME Typed, NEW p \in Requests, Left(request[p], db), StoreMailFile(p)
    PROVE  MailKept(p)
<1> DEFINE arg == Arg(p)
           next(f) == [arg EXCEPT !["file"] = f]
           stored(f) == db.stored \cup {f}
<1>1. ImportArgs(arg, db) /\ FolderArgs(arg, db) /\ MessageArgs(arg, db)
  BY DEF StoreMailFile, Left, MailboxArgs, SyncArgs
<1>2. \/ Fail(p, db)
      \/ \E f \in FreeKeys : Proceed(p, [db EXCEPT !["stored"] = stored(f)], "sync.insert", next(f), 0)
  BY DEF StoreMailFile
<1>3. ASSUME NEW f \in FreeKeys
      PROVE  stored(f) \subseteq Files /\ f \in OrNone(Files)
  BY DEF FreeKeys, Unused, OrNone, Typed, RowsOK, AttachmentRowsOK
<1>4. CASE Fail(p, db)
  BY <1>1, <1>4, Failing
<1> HIDE DEF stored, arg
<1>5. ASSUME NEW f \in FreeKeys
      PROVE  ImportArgs(next(f), db) /\ FolderArgs(next(f), db) /\ MessageArgs(next(f), db)
  <2> DEFINE given == next(f)
  <2>1. /\ \A k \in DOMAIN arg \ {"file"} : given[k] = arg[k]
        /\ DOMAIN given = DOMAIN arg /\ given.file = f
    BY <1>1 DEF MessageArgs
  <2> HIDE DEF next
  <2>2. ImportArgs(given, db)
    BY <1>1, <2>1 DEF ImportArgs
  <2>3. /\ given.mailbox = arg.mailbox /\ given.folders = arg.folders
        /\ given.validity = arg.validity /\ given.from = arg.from /\ given.last = arg.last
        /\ given.rest = arg.rest /\ given.uid = arg.uid /\ given.id = arg.id
        /\ given.related = arg.related /\ given.thread = arg.thread
    BY <1>1, <2>1 DEF ImportArgs, FolderArgs, MessageArgs
  <2>4. FolderArgs(given, db)
    <3>1. Reading(db, given) <=> Reading(db, arg)
      BY <2>3 DEF Reading
    <3>2. QED BY <1>1, <2>1, <2>3, <3>1 DEF FolderArgs
  <2>5. MessageArgs(given, db)
    <3>1. MessageRead(db, given) <=> MessageRead(db, arg)
      BY <2>3 DEF MessageRead
    <3>2. QED BY <1>1, <1>3, <2>1, <2>3, <3>1 DEF MessageArgs
  <2>6. QED BY <2>2, <2>4, <2>5
<1> HIDE DEF next
<1>6. ASSUME NEW f \in FreeKeys
      PROVE  Left([op |-> "sync.insert", arg |-> next(f)], db)
  BY <1>5, LeftSync
<1>7. request[p].op = "sync.file"
  BY DEF StoreMailFile, At
<1>8. QED BY <1>2, <1>3, <1>4, <1>6, <1>7, StoredWritten

LEMMA ThreadBegun ==
    ASSUME NEW org \in Orgs, NEW mailbox \in Mailboxes, NEW related \in OrNone(Entities),
           NEW unread \in BOOLEAN
    PROVE  [org |-> org, mailbox |-> mailbox, related |-> related,
            unread |-> unread, assignee |-> None, priority |-> "NORMAL",
            status |-> "UNASSIGNED", resolved |-> FALSE, due |-> FALSE] \in ThreadRow
BY DEF ThreadRow, OrNone

\* The tables with the message of an import, with its file or without.
LEMMA MessageStoredTables ==
    ASSUME Typed, NEW arg, ImportArgs(arg, db), FolderArgs(arg, db), MessageArgs(arg, db),
           HasRoom(Unused(Messages), db.messages), HasRoom(Unused(Threads), db.threads),
           NEW answered \in BOOLEAN, db' \in WithoutFile(MessageStored(arg, answered), arg)
    PROVE  /\ TableWrites /\ db'.server = db.server
           /\ db'.stored \in {db.stored, db.stored \ {arg.file}}
           /\ db' = MessageStored(arg, answered) => db'.stored = db.stored
           /\ arg.file = None => db'.mailFiles = db.mailFiles
           /\ arg.file # None =>
                 \E file : /\ file.org = db.mailboxes[arg.mailbox].org
                           /\ file.answered = answered
                           /\ db'.mailFiles = Insert(db.mailFiles, arg.file, file)
           /\ \A id : Covered(db', arg.mailbox, Head(arg.folders), arg.uid, id)
<1> DEFINE f == Head(arg.folders)
           org == db.mailboxes[arg.mailbox].org
           x == Fresh(Unused(Messages), db.messages)
           fresh == Fresh(Unused(Threads), db.threads)
           t == IF arg.thread = None THEN fresh ELSE arg.thread
           begun == [org |-> org, mailbox |-> arg.mailbox, related |-> arg.related,
                     unread |-> f = "INBOX"]
           thread == IF arg.thread = None THEN Over(begun, NewThread)
                     ELSE [db.threads[t] EXCEPT !.unread = @ \/ f = "INBOX"]
           message == [org |-> org, mailbox |-> arg.mailbox, thread |-> t,
                       direction |-> IF f = "INBOX" THEN "INBOUND" ELSE "OUTBOUND",
                       status |-> "SENT", related |-> thread.related, key |-> None,
                       id |-> arg.id, folder |-> f, uid |-> arg.uid, accepted |-> 0,
                       simulated |-> FALSE]
           file == [org |-> org, message |-> x, answered |-> answered]
           threads == Insert(db.threads, t, thread)
           messages == Insert(db.messages, x, message)
           mailFiles == IF arg.file = None THEN db.mailFiles
                        ELSE Insert(db.mailFiles, arg.file, file)
           names == {"threads", "messages", "mailFiles", "stored"}
           less == db.stored \ {arg.file}
<1>1. /\ DOMAIN db' = TableNames /\ db'.threads = threads /\ db'.messages = messages
      /\ db'.mailFiles = mailFiles /\ db'.gone = db.gone /\ db'.stored \in {db.stored, less}
      /\ db' = MessageStored(arg, answered) => db'.stored = db.stored
      /\ \A n \in TableNames \ names : db'[n] = db[n]
  <2> DEFINE tables == MessageStored(arg, answered)
  <2>1. tables = [db EXCEPT !.threads = threads, !.messages = messages, !.mailFiles = mailFiles]
    BY DEF MessageStored
  <2>2. db' \in {[tables EXCEPT !.stored = @ \ {arg.file}], tables}
    BY DEF WithoutFile
  <2> HIDE DEF threads, messages, mailFiles, tables
  <2>3. /\ DOMAIN tables = TableNames /\ tables.threads = threads /\ tables.messages = messages
        /\ tables.mailFiles = mailFiles /\ tables.gone = db.gone /\ tables.stored = db.stored
        /\ \A n \in TableNames \ names : tables[n] = db[n]
    BY <2>1 DEF Typed, TableNames
  <2>4. QED BY <2>2, <2>3 DEF TableNames, tables
<1>2. NoDemo(db, org) /\ org \in Orgs /\ arg.mailbox \in Mailboxes
  <2>1. arg.mailbox \in DOMAIN db.mailboxes
    BY DEF ImportArgs
  <2>2. QED BY <2>1, MailboxTyped DEF MailboxRow
<1>3. x \in Messages /\ x \notin DOMAIN db.messages /\ fresh \in Threads /\ fresh \notin DOMAIN db.threads
  BY Choosing
<1>4. f \in {"INBOX", "SENT"}
  BY FolderAt DEF FolderArgs
<1>5. /\ arg.uid \in 1..MaxUid /\ arg.uid # None /\ arg.id \in OrNone(Messages \cup MailIds)
      /\ arg.related \in OrNone(Entities) /\ arg.file \in OrNone(Files)
      /\ arg.thread # None => arg.thread \in DOMAIN db.threads /\ db.threads[arg.thread].org = org
  <2>1. None \notin Nat /\ 1..MaxUid \subseteq Nat
    BY AttachmentsAssumption DEF AttachmentsAssumption
  <2>2. arg.uid \in 1..MaxUid
    BY DEF FolderArgs, MessageArgs
  <2>3. QED BY <2>1, <2>2 DEF MessageArgs
<1>6. /\ t \in Threads /\ thread \in ThreadRow /\ thread.org = org
      /\ Terminal(thread.status) <=> thread.resolved
      /\ thread.status = "UNASSIGNED" => thread.assignee = None
  <2>1. CASE arg.thread = None
    <3> DEFINE unread == f = "INBOX"
    <3>1. begun = [org |-> org, mailbox |-> arg.mailbox, related |-> arg.related,
                   unread |-> unread] /\ unread \in BOOLEAN /\ t = fresh
          /\ thread = Over(begun, NewThread)
      BY <2>1
    <3> HIDE DEF unread, begun, org, f, fresh, t, thread
    <3>2. thread = [org |-> org, mailbox |-> arg.mailbox, related |-> arg.related,
                    unread |-> unread, assignee |-> None, priority |-> "NORMAL",
                    status |-> "UNASSIGNED", resolved |-> FALSE, due |-> FALSE]
      BY <3>1 DEF Over, NewThread
    <3>3. t \in Threads
      BY <1>3, <3>1
    <3>4. thread \in ThreadRow
      BY <1>2, <1>5, <3>1, <3>2, ThreadBegun
    <3>5. /\ thread.org = org /\ thread.status = "UNASSIGNED" /\ thread.assignee = None
          /\ thread.resolved = FALSE
      BY <3>2
    <3>6. ~Terminal("UNASSIGNED")
      BY DEF Terminal
    <3>7. QED BY <3>3, <3>4, <3>5, <3>6
  <2>2. CASE arg.thread # None
    <3> DEFINE row == db.threads[arg.thread]
    <3>1. row \in ThreadRow /\ arg.thread \in Threads
      BY <1>5, <2>2 DEF Typed, RowsOK, MailRowsOK, RowsOf
    <3>2. /\ Terminal(row.status) <=> row.resolved
          /\ row.status = "UNASSIGNED" => row.assignee = None
      BY <1>5, <2>2 DEF Typed, ThreadsOK
    <3>3. t = arg.thread /\ thread = [row EXCEPT !.unread = row.unread \/ f = "INBOX"]
      BY <2>2
    <3>4. row.org = org
      BY <1>5, <2>2
    <3> HIDE DEF row, org, t, thread, f
    <3>5. QED BY <3>1, <3>2, <3>3, <3>4 DEF ThreadRow
  <2>3. QED BY <2>1, <2>2
<1>7. /\ message \in MessageRow /\ message.org = org /\ message.thread = t
      /\ message.uid = arg.uid /\ message.mailbox = arg.mailbox /\ message.folder = f
  <2> DEFINE related == thread.related
             direction == IF f = "INBOX" THEN "INBOUND" ELSE "OUTBOUND"
  <2>1. related \in OrNone(Entities) /\ direction \in {"INBOUND", "OUTBOUND"}
    BY <1>6 DEF ThreadRow
  <2>2. message = [org |-> org, mailbox |-> arg.mailbox, thread |-> t, direction |-> direction,
                   status |-> "SENT", related |-> related, key |-> None, id |-> arg.id,
                   folder |-> f, uid |-> arg.uid, accepted |-> 0, simulated |-> FALSE]
    OBVIOUS
  <2>3. /\ arg.mailbox \in OrNone(Mailboxes) /\ t \in OrNone(Threads) /\ None \in OrNone(Keys)
        /\ f \in OrNone({"INBOX", "SENT"}) /\ arg.uid \in OrNone(1..MaxUid) /\ 0 \in Nat
    BY <1>2, <1>4, <1>5, <1>6 DEF OrNone
  <2> HIDE DEF related, direction, message, org, t, f
  <2>4. QED BY <1>2, <1>5, <2>1, <2>2, <2>3 DEF MessageRow
<1>8. RowsOf(mailFiles, Files, MailFileRow)
  <2>1. RowsOf(db.mailFiles, Files, MailFileRow)
    BY DEF Typed, RowsOK, MailboxRowsOK
  <2>2. file \in MailFileRow
    BY <1>2, <1>3 DEF MailFileRow
  <2>3. arg.file # None => arg.file \in Files
    BY <1>5 DEF OrNone
  <2> HIDE DEF file
  <2>4. QED BY <2>1, <2>2, <2>3, Inserting
<1>9. threads = Insert(db.threads, t, thread) /\ messages = Insert(db.messages, x, message)
  OBVIOUS
<1>10. arg.thread = None => t = fresh
  OBVIOUS
<1>11. arg.thread # None => t = arg.thread
  OBVIOUS
<1>12. f = Head(arg.folders) /\ arg.mailbox \in DOMAIN db.mailboxes
       /\ org = db.mailboxes[arg.mailbox].org
  BY DEF ImportArgs
<1>13. /\ arg.file = None => mailFiles = db.mailFiles
       /\ arg.file # None => mailFiles = Insert(db.mailFiles, arg.file, file)
       /\ file.org = org /\ file.answered = answered
  OBVIOUS
<1> HIDE DEF threads, messages, mailFiles, message, thread, t, x, org, f, fresh, file
<1>14. /\ Kept(names) /\ db'.mailboxes = db.mailboxes /\ db'.server = db.server
       /\ db'.stored \subseteq Files
  BY <1>1 DEF Kept, TableNames, Typed, RowsOK, AttachmentRowsOK
<1>15. ThreadsFine
  <2>1. CASE arg.thread = None
    BY <1>1, <1>2, <1>3, <1>6, <1>9, <1>10, <2>1, ThreadInserted
  <2>2. CASE arg.thread # None
    <3>1. RowsOf(db'.threads, Threads, ThreadRow)
      BY <1>1, <1>6, <1>9, Inserting DEF Typed, RowsOK, MailRowsOK
    <3>2. /\ DOMAIN db'.threads = DOMAIN db.threads /\ db'.threads[t] = thread
          /\ \A u \in DOMAIN db.threads \ {t} : db'.threads[u] = db.threads[u]
          /\ t \in DOMAIN db.threads /\ db.threads[t].org = org
      BY <1>1, <1>5, <1>9, <1>11, <2>2 DEF Insert
    <3>3. QED BY <1>2, <1>6, <3>1, <3>2 DEF ThreadsFine, NoDemo, Typed, MailReferencesOK, ThreadsOK
  <2>3. QED BY <2>1, <2>2
<1>16. t \in DOMAIN db'.threads /\ db'.threads[t].org = org
  BY <1>1, <1>6, <1>9 DEF Insert
<1>17. MessageFine(message)
  BY <1>2, <1>5, <1>7, <1>14, <1>16, <1>12 DEF MessageFine, NoDemo
<1>18. MessagesFine
  BY <1>1, <1>3, <1>9, <1>14, <1>15, <1>17, MessageInserted
<1>19. ASSUME NEW id
       PROVE  Covered(db', arg.mailbox, f, arg.uid, id)
  <2>1. x \in DOMAIN db'.messages /\ db'.messages[x] = message
    BY <1>1, <1>9 DEF Insert
  <2>2. QED BY <1>7, <2>1 DEF Covered
<1>20. TableWrites
  BY <1>1, <1>8, <1>14, <1>15, <1>18, TablesWritten DEF MailTables
<1>21. QED BY <1>1, <1>12, <1>13, <1>14, <1>19, <1>20

LEMMA InsertMessageKept ==
    ASSUME Typed, NEW p \in Requests, Left(request[p], db), InsertMessage(p)
    PROVE  MailKept(p)
<1> DEFINE arg == Arg(p)
           f == Head(arg.folders)
           box == <<arg.mailbox, f>>
           held == {"uid", "id", "related", "thread", "file"}
           pass == [k \in DOMAIN arg \ held |-> arg[k]]
           next == Passed(pass, arg.uid)
           less == db.stored \ {arg.file}
           without == [db EXCEPT !["stored"] = less]
           stored == Stored(arg.mailbox, f, arg.uid, arg.id)
<1>1. ImportArgs(arg, db) /\ FolderArgs(arg, db) /\ MessageArgs(arg, db)
  BY DEF InsertMessage, Left, MailboxArgs, SyncArgs
<1>2. request[p].op = "sync.insert"
  BY DEF InsertMessage, At
<1>3. WithoutFile(db, arg) = {without, db}
  BY DEF WithoutFile
<1>4. /\ HasRoom(Unused(Messages), db.messages) /\ HasRoom(Unused(Threads), db.threads)
      /\ \/ stored /\ \E tables \in WithoutFile(db, arg) : Proceed(p, tables, "sync.read", next, 0)
         \/ Proceed(p, MessageStored(arg, TRUE), "sync.read", next, 0)
         \/ \E tables \in WithoutFile(MessageStored(arg, FALSE), arg) :
               Proceed(p, tables, "sync.fail", arg, 1)
         \/ \E tables \in WithoutFile(db, arg) : Proceed(p, tables, "sync.fail", arg, 1)
  BY DEF InsertMessage, Fail
<1>5. less \subseteq Files
  BY DEF Typed, RowsOK, AttachmentRowsOK
<1>6. stored => Covered(db, arg.mailbox, f, arg.uid, arg.id)
  BY DEF Stored, Covered
<1>7. f = Head(arg.folders) /\ box = <<arg.mailbox, f>>
  OBVIOUS
<1> HIDE DEF arg, f, box, less, stored
<1>8. /\ pass.mailbox = arg.mailbox /\ pass.folders = arg.folders /\ pass.validity = arg.validity
      /\ pass.from = arg.from /\ pass.last = arg.last /\ pass.rest = arg.rest
      /\ pass.cursor = arg.cursor /\ pass.reached = arg.reached /\ pass.left = arg.left
      /\ DOMAIN pass = DOMAIN arg \ held
  BY <1>1 DEF ImportArgs, FolderArgs
<1>9. arg.uid \in pass.rest
  BY <1>1, <1>8 DEF MessageArgs
<1> HIDE DEF pass
\* It is passed in tables in which it is covered, whatever they are.
<1>10. ASSUME NEW tables, ImportArgs(arg, tables), FolderArgs(arg, tables), MessageArgs(arg, tables),
             Covered(tables, arg.mailbox, f, arg.uid, arg.id)
      PROVE  Left([op |-> "sync.read", arg |-> next], tables)
  <2> DEFINE folder == tables.server[box]
  <2>1. ImportArgs(pass, tables)
    BY <1>8, <1>10 DEF ImportArgs
  <2>2. FolderArgs(pass, tables)
    <3>1. Reading(tables, pass) <=> Reading(tables, arg)
      BY <1>8 DEF Reading
    <3>2. QED BY <1>8, <1>10, <3>1 DEF FolderArgs
  <2>3. /\ pass.validity = folder.validity
        /\ arg.uid \in DOMAIN folder.mail /\ folder.mail[arg.uid].fit
        => Covered(tables, pass.mailbox, f, arg.uid, folder.mail[arg.uid].id)
    <3>1. pass.validity = folder.validity /\ arg.uid \in DOMAIN folder.mail =>
             folder.mail[arg.uid].id = arg.id
      BY <1>7, <1>8, <1>10 DEF MessageArgs, MessageRead
    <3>2. QED BY <1>8, <1>10, <3>1
  <2>4. f = Head(pass.folders) /\ folder = tables.server[<<pass.mailbox, f>>]
    BY <1>7, <1>8
  <2> HIDE DEF folder
  <2>5. ImportArgs(next, tables) /\ FolderArgs(next, tables)
    BY <1>9, <2>1, <2>2, <2>3, <2>4, PassedArgs
  <2> HIDE DEF next
  <2>6. QED BY <2>5, LeftSync
<1> HIDE DEF next
<1>11. stored => Left([op |-> "sync.read", arg |-> next], db)
  BY <1>1, <1>6, <1>10
<1>12. Left([op |-> "sync.fail", arg |-> arg], db)
  BY <1>1, LeftSync
<1>13. ASSUME NEW op, NEW a, NEW faults, NEW tables \in WithoutFile(db, arg), op # "sync.insert",
              Proceed(p, tables, op, a, faults), Left([op |-> op, arg |-> a], db)
       PROVE  MailKept(p)
  <2>1. CASE tables = db
    BY <1>13, <2>1, MailProceeded
  <2>2. CASE tables = without
    BY <1>2, <1>5, <1>13, <2>2, StoredWritten
  <2> HIDE DEF without
  <2>3. QED BY <1>3, <2>1, <2>2
<1>14. ASSUME NEW answered \in BOOLEAN, NEW tables \in WithoutFile(MessageStored(arg, answered), arg),
              NEW op \in {"sync.read", "sync.fail"}, NEW a, NEW faults,
              Proceed(p, tables, op, a, faults),
              op = "sync.read" => a = next, op = "sync.fail" => a = arg
       PROVE  MailKept(p)
  <2>1. db' = tables /\ Moved(p) /\ request'[p] = [op |-> op, arg |-> a]
    BY <1>14, Proceeding
  <2>2. TableWrites /\ Covered(db', arg.mailbox, f, arg.uid, arg.id)
    BY <1>1, <1>4, <1>7, <2>1, MessageStoredTables
  <2>3. Grows
    BY <2>2 DEF TableWrites
  <2>4. ImportArgs(arg, db') /\ FolderArgs(arg, db') /\ MessageArgs(arg, db')
    <3> DEFINE r == [op |-> "sync.insert", arg |-> arg]
    <3>1. r.op = "sync.insert" /\ r.arg = arg
      OBVIOUS
    <3> HIDE DEF r
    <3>2. MailArgs(r, db) /\ InboxArgs(r, db)
      BY <3>1 DEF MailArgs, InboxArgs
    <3>3. MailboxArgs(r, db)
      BY <1>1, <3>1 DEF MailboxArgs, SyncArgs
    <3>4. MailboxArgs(r, db')
      BY <2>3, <3>2, <3>3, MailArgsStay
    <3>5. QED BY <3>1, <3>4 DEF MailboxArgs, SyncArgs
  <2>5. Left([op |-> op, arg |-> a], db')
    <3>1. CASE op = "sync.read"
      BY <1>10, <1>14, <2>2, <2>4, <3>1
    <3>2. CASE op = "sync.fail"
      BY <1>14, <2>4, <3>2, LeftSync
    <3>3. QED BY <3>1, <3>2
  <2>6. request'[p].op # "sync.insert"
    BY <2>1
  <2>7. QED BY <1>2, <2>1, <2>2, <2>5, <2>6 DEF MailKept
<1>15. MessageStored(arg, TRUE) \in WithoutFile(MessageStored(arg, TRUE), arg)
  BY DEF WithoutFile
<1>16. QED BY <1>4, <1>11, <1>12, <1>13, <1>14, <1>15

-----------------------------------------------------------------------------
(* The steps on the conversations *)

\* A row changes, and stays in its organization.
LEMMA ThreadPatched ==
    ASSUME Typed, NEW t, NEW change, db'.threads = Patch(db.threads, t, change),
           t \in DOMAIN db.threads =>
              LET row == Over(change, db.threads[t])
              IN  /\ row \in ThreadRow /\ row.org = db.threads[t].org
                  /\ Terminal(row.status) <=> row.resolved
                  /\ row.status = "UNASSIGNED" => row.assignee = None
    PROVE  ThreadsFine
<1> DEFINE row == Over(change, db.threads[t])
<1>1. RowsOf(db'.threads, Threads, ThreadRow)
  BY Patching DEF Typed, RowsOK, MailRowsOK
<1>2. /\ DOMAIN db'.threads = DOMAIN db.threads
      /\ \A u \in DOMAIN db.threads \ {t} : db'.threads[u] = db.threads[u]
      /\ t \in DOMAIN db.threads => db'.threads[t] = row
  BY DEF Patch
<1> HIDE DEF row
<1>3. \A u \in DOMAIN db.threads :
         /\ NoDemo(db, db.threads[u].org)
         /\ Terminal(db.threads[u].status) <=> db.threads[u].resolved
         /\ db.threads[u].status = "UNASSIGNED" => db.threads[u].assignee = None
  BY DEF NoDemo, Typed, MailReferencesOK, ThreadsOK
<1>4. t \in DOMAIN db.threads =>
         /\ row.org = db.threads[t].org
         /\ Terminal(row.status) <=> row.resolved
         /\ row.status = "UNASSIGNED" => row.assignee = None
  BY DEF row
<1>5. QED BY <1>1, <1>2, <1>3, <1>4 DEF ThreadsFine

LEMMA ThreadRowAt ==
    ASSUME Typed, NEW t \in DOMAIN db.threads
    PROVE  /\ t \in Threads /\ db.threads[t] \in ThreadRow
           /\ Terminal(db.threads[t].status) <=> db.threads[t].resolved
           /\ db.threads[t].status = "UNASSIGNED" => db.threads[t].assignee = None
           /\ NoDemo(db, db.threads[t].org)
BY DEF Typed, RowsOK, MailRowsOK, RowsOf, ThreadsOK, MailReferencesOK, NoDemo

\* A transaction that writes the row of one conversation.
LEMMA ThreadCommitted ==
    ASSUME Typed, NEW p \in Requests, NEW t, NEW change, NEW events,
           Commit(p, [db EXCEPT !["threads"] = Patch(db.threads, t, change)], events),
           t \in DOMAIN db.threads =>
              LET row == Over(change, db.threads[t])
              IN  /\ row \in ThreadRow /\ row.org = db.threads[t].org
                  /\ Terminal(row.status) <=> row.resolved
                  /\ row.status = "UNASSIGNED" => row.assignee = None
    PROVE  MailKept(p)
<1> DEFINE threads == Patch(db.threads, t, change)
           tables == [db EXCEPT !["threads"] = threads]
<1>1. /\ DOMAIN tables = TableNames /\ tables.threads = threads /\ tables.gone = db.gone
      /\ \A n \in TableNames \ {"threads"} : tables[n] = db[n]
  BY DEF Typed, TableNames
<1>2. Commit(p, tables, events)
  OBVIOUS
<1>3. threads = Patch(db.threads, t, change)
  OBVIOUS
<1> HIDE DEF tables, threads
<1>4. db' = tables /\ Moved(p) /\ request'[p].op \in {"none", "announce"}
  BY <1>2, Committing
<1>5. Kept({"threads"}) /\ db'.threads = Patch(db.threads, t, change) /\ db'.messages = db.messages
  BY <1>1, <1>3, <1>4 DEF Kept, TableNames
<1>6. ThreadsFine
  BY <1>5, ThreadPatched
<1>7. Writes
  BY <1>5, <1>6, MailWritten DEF MailTables
<1>8. QED BY <1>4, <1>7, MailCommitted DEF Argless

\* The caller's organization has the conversation.
LEMMA ThreadRequired ==
    ASSUME Typed, NEW route, NEW st \in RequireThread(route)
    PROVE  /\ st[2] \in DOMAIN db.threads /\ st[1] \in DOMAIN db.sessions
           /\ db.threads[st[2]].org = CallerOrg(st[1]) /\ CallerOrg(st[1]) \in Orgs
<1>1. st[1] \in DOMAIN db.sessions
  BY DEF RequireThread, Callers
<1>2. QED BY <1>1, CallerTyped DEF RequireThread

LEMMA InboxBegun ==
    ASSUME Typed, NEW p \in Requests, NEW op \in InboxOps, NEW arg, Begin(p, op, arg),
           InboxArgs([op |-> op, arg |-> arg], db)
    PROVE  MailKept(p)
<1>1. Left([op |-> op, arg |-> arg], db)
  BY LeftInbox
<1>2. op # "sync.insert"
  BY DEF InboxOps
<1>3. QED BY <1>1, <1>2, MailBegun

LEMMA AssignKept ==
    ASSUME Typed, NEW p \in Requests, Left(request[p], db), Assign(p)
    PROVE  MailKept(p)
<1>1. ASSUME NEW st \in RequireThread(<<"Mail", "assign">>),
             NEW assignee \in OrNone(ActiveAccounts(CallerOrg(st[1]))), NEW events,
             Begin(p, "inbox.assign", [thread |-> st[2], assignee |-> assignee, events |-> events])
      PROVE  MailKept(p)
  <2> DEFINE arg == [thread |-> st[2], assignee |-> assignee, events |-> events]
  <2>1. assignee \in OrNone(Accounts)
    BY DEF OrNone, ActiveAccounts, AccountsOf, Typed, RowsOK, AccountRowsOK, RowsOf
  <2>2. arg.assignee = assignee /\ Begin(p, "inbox.assign", arg)
    BY <1>1
  <2> HIDE DEF arg
  <2>3. InboxArgs([op |-> "inbox.assign", arg |-> arg], db)
    BY <2>1, <2>2 DEF InboxArgs
  <2>4. QED BY <2>2, <2>3, InboxBegun DEF InboxOps
<1>2. ASSUME At(p, "inbox.assign"), Commit(p, Assignment(Arg(p).thread, Arg(p).assignee), Arg(p).events)
      PROVE  MailKept(p)
  <2> DEFINE t == Arg(p).thread
             assignee == Arg(p).assignee
             events == Arg(p).events
             status == IF assignee = None THEN "UNASSIGNED" ELSE "OPEN"
             change == [assignee |-> assignee, resolved |-> FALSE, status |-> status]
             row == Over(change, db.threads[t])
  <2>1. assignee \in OrNone(Accounts)
    BY <1>2 DEF Left, InboxArgs
  <2>2. Assignment(t, assignee) = [db EXCEPT !["threads"] = Patch(db.threads, t, change)]
    BY DEF Assignment
  <2>3. Commit(p, Assignment(t, assignee), events)
    BY <1>2
  <2>4. /\ status \in {"UNASSIGNED", "OPEN"} /\ ~Terminal(status)
        /\ status = "UNASSIGNED" => assignee = None
    BY DEF Terminal
  <2> HIDE DEF t, assignee, events, status
  <2>5. ASSUME t \in DOMAIN db.threads
        PROVE  /\ row \in ThreadRow /\ row.org = db.threads[t].org /\ row.status = status
               /\ row.assignee = assignee /\ row.resolved = FALSE
    BY <2>1, <2>4, <2>5, ThreadRowAt DEF ThreadRow, Over
  <2>6. ASSUME t \in DOMAIN db.threads
        PROVE  /\ row \in ThreadRow /\ row.org = db.threads[t].org
               /\ Terminal(row.status) <=> row.resolved
               /\ row.status = "UNASSIGNED" => row.assignee = None
    BY <2>4, <2>5, <2>6
  <2> HIDE DEF change
  <2>7. Commit(p, [db EXCEPT !["threads"] = Patch(db.threads, t, change)], events)
    BY <2>2, <2>3
  <2>8. QED BY <2>6, <2>7, ThreadCommitted
<1>3. \/ \E st \in RequireThread(<<"Mail", "assign">>) :
         \E assignee \in OrNone(ActiveAccounts(CallerOrg(st[1]))) : \E events :
            Begin(p, "inbox.assign", [thread |-> st[2], assignee |-> assignee, events |-> events])
      \/ At(p, "inbox.assign") /\ Commit(p, Assignment(Arg(p).thread, Arg(p).assignee), Arg(p).events)
  BY DEF Assign
<1>4. QED BY <1>1, <1>2, <1>3

LEMMA ThreadStatused ==
    ASSUME NEW row \in ThreadRow, NEW due \in BOOLEAN, NEW resolved \in BOOLEAN,
           NEW status \in {"UNASSIGNED", "OPEN", "WAITING", "RESOLVED", "CLOSED"},
           NEW assignee \in OrNone(Accounts), Terminal(status) <=> resolved,
           status = "UNASSIGNED" => assignee = None,
           NEW change,
           change = [status |-> status, due |-> due, resolved |-> resolved, assignee |-> assignee]
    PROVE  /\ Over(change, row) \in ThreadRow /\ Over(change, row).org = row.org
           /\ Terminal(Over(change, row).status) <=> Over(change, row).resolved
           /\ Over(change, row).status = "UNASSIGNED" => Over(change, row).assignee = None
<1> DEFINE new == Over(change, row)
<1>1. new = [org |-> row.org, mailbox |-> row.mailbox, related |-> row.related,
             assignee |-> assignee, priority |-> row.priority, unread |-> row.unread,
             status |-> status, resolved |-> resolved, due |-> due]
  BY DEF Over, ThreadRow
<1>2. new \in ThreadRow
  BY <1>1 DEF ThreadRow
<1>3. new.org = row.org /\ new.status = status /\ new.assignee = assignee
  BY <1>1
<1>4. new.resolved <=> resolved
  BY <1>1
<1> HIDE DEF new
<1>5. QED BY <1>2, <1>3, <1>4 DEF new

LEMMA UpdateStatusKept ==
    ASSUME Typed, NEW p \in Requests, Left(request[p], db), UpdateStatus(p)
    PROVE  MailKept(p)
<1> DEFINE statuses == {"UNASSIGNED", "OPEN", "WAITING", "RESOLVED", "CLOSED"}
           spec == [status |-> statuses, due |-> BOOLEAN]
<1>1. ASSUME NEW st \in RequireThread(<<"Mail", "updateStatus">>), NEW change \in Changes(spec),
             NEW status, status = Given(change, "status", db.threads[st[2]].status),
             NEW due, due = Given(change, "due", db.threads[st[2]].due), NEW events,
             Begin(p, "inbox.status",
                [thread |-> st[2], status |-> status, due |-> due, events |-> events])
      PROVE  MailKept(p)
  <2> DEFINE arg == [thread |-> st[2], status |-> status, due |-> due, events |-> events]
             old == db.threads[st[2]]
  <2>1. old \in ThreadRow
    BY ThreadRequired, ThreadRowAt
  <2>2. /\ "status" \in DOMAIN change => change.status \in statuses
        /\ "due" \in DOMAIN change => change.due \in BOOLEAN
    BY ChangesTyped
  <2>3. status \in statuses /\ due \in BOOLEAN
    <3>1. old.status \in statuses /\ old.due \in BOOLEAN
      BY <2>1 DEF ThreadRow
    <3>2. QED BY <1>1, <2>2, <3>1 DEF Given
  <2>4. arg.status = status /\ arg.due = due /\ Begin(p, "inbox.status", arg)
    BY <1>1
  <2> HIDE DEF arg
  <2>5. InboxArgs([op |-> "inbox.status", arg |-> arg], db)
    BY <2>3, <2>4 DEF InboxArgs
  <2>6. QED BY <2>4, <2>5, InboxBegun DEF InboxOps
<1>2. ASSUME At(p, "inbox.status"),
             Commit(p, StatusWritten(Arg(p).thread, Arg(p).status, Arg(p).due), Arg(p).events)
      PROVE  MailKept(p)
  <2> DEFINE t == Arg(p).thread
             status == Arg(p).status
             due == Arg(p).due
             events == Arg(p).events
             resolved == Terminal(status)
             assignee == IF status = "UNASSIGNED" THEN None ELSE db.threads[t].assignee
             change == [status |-> status, due |-> due, resolved |-> resolved, assignee |-> assignee]
             row == Over(change, db.threads[t])
  <2>1. status \in statuses /\ due \in BOOLEAN
    BY <1>2 DEF Left, InboxArgs
  <2>2. StatusWritten(t, status, due) = [db EXCEPT !["threads"] = Patch(db.threads, t, change)]
    BY DEF StatusWritten
  <2>3. Commit(p, StatusWritten(t, status, due), events)
    BY <1>2
  <2>4. /\ resolved \in BOOLEAN /\ (Terminal(status) <=> resolved)
        /\ status = "UNASSIGNED" => assignee = None
    BY DEF Terminal
  <2>5. t \in DOMAIN db.threads => assignee \in OrNone(Accounts)
    BY ThreadRowAt DEF ThreadRow, OrNone
  <2> HIDE DEF t, status, due, events, resolved, assignee
  <2>6. t \in DOMAIN db.threads => db.threads[t] \in ThreadRow
    BY ThreadRowAt
  <2>7. change = [status |-> status, due |-> due, resolved |-> resolved, assignee |-> assignee]
    OBVIOUS
  <2> HIDE DEF change
  <2>8. ASSUME t \in DOMAIN db.threads
        PROVE  /\ row \in ThreadRow /\ row.org = db.threads[t].org
               /\ Terminal(row.status) <=> row.resolved
               /\ row.status = "UNASSIGNED" => row.assignee = None
    <3>1. db.threads[t] \in ThreadRow /\ assignee \in OrNone(Accounts)
      BY <2>5, <2>6, <2>8
    <3>2. Terminal(status) <=> resolved
      BY <2>4
    <3>3. resolved \in BOOLEAN /\ (status = "UNASSIGNED" => assignee = None)
      BY <2>4
    <3>4. QED BY <2>1, <2>7, <3>1, <3>2, <3>3, ThreadStatused
  <2>9. Commit(p, [db EXCEPT !["threads"] = Patch(db.threads, t, change)], events)
    BY <2>2, <2>3
  <2>10. QED BY <2>8, <2>9, ThreadCommitted
<1>3. \/ \E st \in RequireThread(<<"Mail", "updateStatus">>) : \E change \in Changes(spec) : \E events :
            Begin(p, "inbox.status",
               [thread |-> st[2], status |-> Given(change, "status", db.threads[st[2]].status),
                due |-> Given(change, "due", db.threads[st[2]].due), events |-> events])
      \/ /\ At(p, "inbox.status")
         /\ Commit(p, StatusWritten(Arg(p).thread, Arg(p).status, Arg(p).due), Arg(p).events)
  BY DEF UpdateStatus
<1> HIDE DEF spec
<1>4. QED BY <1>1, <1>2, <1>3

LEMMA UpdatePriorityKept ==
    ASSUME Typed, NEW p \in Requests, Left(request[p], db), UpdatePriority(p)
    PROVE  MailKept(p)
<1>1. ASSUME NEW t, NEW priority \in {"NORMAL", "URGENT"}, NEW events,
             Begin(p, "inbox.priority", [thread |-> t, priority |-> priority, events |-> events])
      PROVE  MailKept(p)
  <2> DEFINE arg == [thread |-> t, priority |-> priority, events |-> events]
  <2>1. arg.priority = priority /\ Begin(p, "inbox.priority", arg)
    BY <1>1
  <2> HIDE DEF arg
  <2>2. InboxArgs([op |-> "inbox.priority", arg |-> arg], db)
    BY <2>1 DEF InboxArgs
  <2>3. QED BY <2>1, <2>2, InboxBegun DEF InboxOps
<1>2. ASSUME At(p, "inbox.priority"),
             Commit(p, [db EXCEPT !.threads = Patch(@, Arg(p).thread, [priority |-> Arg(p).priority])],
                Arg(p).events)
      PROVE  MailKept(p)
  <2> DEFINE t == Arg(p).thread
             priority == Arg(p).priority
             events == Arg(p).events
             change == [priority |-> priority]
             row == Over(change, db.threads[t])
  <2>1. priority \in {"NORMAL", "URGENT"}
    BY <1>2 DEF Left, InboxArgs
  <2>2. Commit(p, [db EXCEPT !["threads"] = Patch(db.threads, t, change)], events)
    BY <1>2
  <2> HIDE DEF t, priority, events
  <2>3. ASSUME t \in DOMAIN db.threads
        PROVE  /\ row \in ThreadRow /\ row.org = db.threads[t].org
               /\ row.status = db.threads[t].status /\ row.assignee = db.threads[t].assignee
               /\ row.resolved = db.threads[t].resolved
    BY <2>1, <2>3, ThreadRowAt DEF ThreadRow, Over
  <2>4. ASSUME t \in DOMAIN db.threads
        PROVE  /\ row \in ThreadRow /\ row.org = db.threads[t].org
               /\ Terminal(row.status) <=> row.resolved
               /\ row.status = "UNASSIGNED" => row.assignee = None
    BY <2>3, <2>4, ThreadRowAt
  <2> HIDE DEF change
  <2>5. QED BY <2>2, <2>4, ThreadCommitted
<1>3. \/ \E st \in RequireThread(<<"Mail", "updatePriority">>) : \E priority \in {"NORMAL", "URGENT"} :
         \E events : Begin(p, "inbox.priority", [thread |-> st[2], priority |-> priority, events |-> events])
      \/ /\ At(p, "inbox.priority")
         /\ Commit(p, [db EXCEPT !.threads = Patch(@, Arg(p).thread, [priority |-> Arg(p).priority])],
               Arg(p).events)
  BY DEF UpdatePriority
<1>4. QED BY <1>1, <1>2, <1>3

LEMMA SetReadKept ==
    ASSUME Typed, NEW p \in Requests, Left(request[p], db), SetRead(p)
    PROVE  MailKept(p)
<1>1. ASSUME NEW t, NEW unread \in BOOLEAN,
             Begin(p, "inbox.read", [thread |-> t, unread |-> unread])
      PROVE  MailKept(p)
  <2> DEFINE arg == [thread |-> t, unread |-> unread]
  <2>1. arg.unread \in BOOLEAN /\ Begin(p, "inbox.read", arg)
    BY <1>1
  <2> HIDE DEF arg
  <2>2. InboxArgs([op |-> "inbox.read", arg |-> arg], db)
    BY <2>1 DEF InboxArgs
  <2>3. QED BY <2>1, <2>2, InboxBegun DEF InboxOps
<1>2. ASSUME At(p, "inbox.read"),
             Commit(p, [db EXCEPT !.threads = Patch(@, Arg(p).thread, [unread |-> Arg(p).unread])], <<>>)
      PROVE  MailKept(p)
  <2> DEFINE t == Arg(p).thread
             unread == Arg(p).unread
             change == [unread |-> unread]
             row == Over(change, db.threads[t])
  <2>1. unread \in BOOLEAN
    BY <1>2 DEF Left, InboxArgs
  <2>2. Commit(p, [db EXCEPT !["threads"] = Patch(db.threads, t, change)], <<>>)
    BY <1>2
  <2> HIDE DEF t, unread
  <2>3. ASSUME t \in DOMAIN db.threads
        PROVE  /\ row \in ThreadRow /\ row.org = db.threads[t].org
               /\ row.status = db.threads[t].status /\ row.assignee = db.threads[t].assignee
               /\ row.resolved = db.threads[t].resolved
    BY <2>1, <2>3, ThreadRowAt DEF ThreadRow, Over
  <2>4. ASSUME t \in DOMAIN db.threads
        PROVE  /\ row \in ThreadRow /\ row.org = db.threads[t].org
               /\ Terminal(row.status) <=> row.resolved
               /\ row.status = "UNASSIGNED" => row.assignee = None
    BY <2>3, <2>4, ThreadRowAt
  <2> HIDE DEF change
  <2>5. QED BY <2>2, <2>4, ThreadCommitted
<1>3. \/ \E st \in RequireThread(<<"Mail", "setRead">>) : \E unread \in BOOLEAN :
            Begin(p, "inbox.read", [thread |-> st[2], unread |-> unread])
      \/ /\ At(p, "inbox.read")
         /\ Commit(p, [db EXCEPT !.threads = Patch(@, Arg(p).thread, [unread |-> Arg(p).unread])], <<>>)
  BY DEF SetRead
<1>4. QED BY <1>1, <1>2, <1>3

LEMMA AddNoteKept ==
    ASSUME Typed, NEW p \in Requests, Left(request[p], db), AddNote(p)
    PROVE  MailKept(p)
<1>1. ASSUME NEW t, Begin(p, "inbox.note", t)
      PROVE  MailKept(p)
  <2>1. Left([op |-> "inbox.note", arg |-> t], db)
    BY LeftNothing DEF Argless
  <2>2. QED BY <1>1, <2>1, MailBegun
<1>2. ASSUME NEW events, Commit(p, db, events)
      PROVE  MailKept(p)
  <2>1. db' = db /\ Moved(p) /\ request'[p].op \in {"none", "announce"}
    BY <1>2, Committing
  <2>2. Kept({"rates"})
    BY <2>1 DEF Kept, Typed
  <2>3. {"rates"} \in SUBSET MailTables
    BY DEF MailTables
  <2>4. Writes
    BY <2>2, <2>3, MailWritten
  <2>5. QED BY <2>1, <2>4, MailCommitted DEF Argless
<1>3. (\E t : Begin(p, "inbox.note", t)) \/ (\E events : Commit(p, db, events))
  BY DEF AddNote
<1>4. QED BY <1>1, <1>2, <1>3

\* Linking a conversation links its messages.
LEMMA LinkedKept ==
    ASSUME Typed, NEW p \in Requests, NEW t, NEW x \in Entities, NEW events,
           Commit(p, Linked(db, t, x), events)
    PROVE  MailKept(p)
<1>1. DOMAIN db = TableNames /\ {"threads", "messages", "gone"} \subseteq TableNames
  BY DEF Typed, TableNames
<1> DEFINE change == [related |-> x]
           threads == Patch(db.threads, t, change)
           new(y) == IF db.messages[y].thread = t THEN [db.messages[y] EXCEPT !.related = x]
                     ELSE db.messages[y]
           messages == [y \in DOMAIN db.messages |-> new(y)]
           tables == Linked(db, t, x)
           row == Over(change, db.threads[t])
<1>2. /\ DOMAIN tables = TableNames /\ tables.threads = threads /\ tables.messages = messages
      /\ tables.gone = db.gone
      /\ \A n \in TableNames \ {"threads", "messages"} : tables[n] = db[n]
  BY <1>1, Zenon DEF Linked
<1>3. ASSUME t \in DOMAIN db.threads
      PROVE  /\ row \in ThreadRow /\ row.org = db.threads[t].org
             /\ row.status = db.threads[t].status /\ row.assignee = db.threads[t].assignee
             /\ row.resolved = db.threads[t].resolved
  BY <1>3, ThreadRowAt DEF ThreadRow, Over, OrNone
<1>4. ASSUME t \in DOMAIN db.threads
      PROVE  /\ row \in ThreadRow /\ row.org = db.threads[t].org
             /\ Terminal(row.status) <=> row.resolved
             /\ row.status = "UNASSIGNED" => row.assignee = None
  BY <1>3, <1>4, ThreadRowAt
<1>5. ASSUME NEW y \in DOMAIN db.messages
      PROVE  /\ new(y) \in MessageRow /\ new(y).org = db.messages[y].org
             /\ new(y).thread = db.messages[y].thread /\ new(y).status = db.messages[y].status
             /\ new(y).accepted = db.messages[y].accepted /\ SameMail(new(y), db.messages[y])
             /\ new(y).simulated = db.messages[y].simulated
  <2> DEFINE old == db.messages[y]
  <2>1. old \in MessageRow
    BY MessageTyped
  <2>2. CASE old.thread # t
    BY <2>1, <2>2 DEF SameMail
  <2>3. CASE old.thread = t
    <3>1. new(y) = [old EXCEPT !.related = x]
      BY <2>3
    <3> HIDE DEF new, old
    <3>2. x \in OrNone(Entities)
      BY DEF OrNone
    <3>3. new(y) \in MessageRow /\ new(y).org = old.org /\ new(y).thread = old.thread
      BY <2>1, <3>1, <3>2 DEF MessageRow
    <3>4. /\ new(y).status = old.status /\ new(y).accepted = old.accepted
          /\ SameMail(new(y), old) /\ new(y).simulated = old.simulated
      BY <2>1, <3>1 DEF MessageRow, SameMail
    <3>5. QED BY <3>3, <3>4 DEF old
  <2>4. QED BY <2>2, <2>3
<1>6. threads = Patch(db.threads, t, change)
  OBVIOUS
<1>7. DOMAIN messages = DOMAIN db.messages /\ \A y \in DOMAIN db.messages : messages[y] = new(y)
  OBVIOUS
<1> HIDE DEF threads, messages, tables, new, change
<1>8. Commit(p, tables, events)
  BY DEF tables
<1>9. db' = tables /\ Moved(p) /\ request'[p].op \in {"none", "announce"}
  BY <1>8, Committing
<1>10. /\ Kept({"threads", "messages"}) /\ db'.threads = threads /\ db'.messages = messages
      /\ db'.mailboxes = db.mailboxes
  BY <1>2, <1>9 DEF Kept, TableNames
<1>11. ThreadsFine
  BY <1>4, <1>6, <1>10, ThreadPatched
<1>12. ASSUME NEW y \in DOMAIN db.messages
       PROVE  y \in Messages /\ MessageFine(new(y))
  <2>1. y \in Messages /\ MessageFine(db.messages[y])
    BY <1>10, <1>11, MessagesStay
  <2>2. QED BY <1>5, <2>1 DEF MessageFine, SameMail
<1>13. MessagesFine
  BY <1>5, <1>7, <1>10, <1>12 DEF MessagesFine
<1>14. Writes
  BY <1>10, <1>11, <1>13, MailWritten DEF MailTables
<1>15. QED BY <1>9, <1>14, MailCommitted DEF Argless

LEMMA LinkThreadKept ==
    ASSUME Typed, NEW p \in Requests, Left(request[p], db), LinkThread(p)
    PROVE  MailKept(p)
<1>1. ASSUME NEW st \in RequireThread(<<"Mail", "link">>), NEW x \in Correspondents(CallerOrg(st[1])),
             Begin(p, "mail.link", [thread |-> st[2], entity |-> x])
      PROVE  MailKept(p)
  <2> DEFINE arg == [thread |-> st[2], entity |-> x]
  <2>1. x \in Entities
    BY CorrespondentTyped DEF Correspondents
  <2>2. arg.entity = x /\ Begin(p, "mail.link", arg)
    BY <1>1
  <2> HIDE DEF arg
  <2>3. InboxArgs([op |-> "mail.link", arg |-> arg], db)
    BY <2>1, <2>2 DEF InboxArgs
  <2>4. QED BY <2>2, <2>3, InboxBegun DEF InboxOps
<1>2. ASSUME At(p, "mail.link"), Commit(p, Linked(db, Arg(p).thread, Arg(p).entity), <<>>)
      PROVE  MailKept(p)
  <2>1. Arg(p).entity \in Entities
    BY <1>2 DEF Left, InboxArgs
  <2> DEFINE t == Arg(p).thread
             x == Arg(p).entity
  <2>2. x \in Entities /\ Commit(p, Linked(db, t, x), <<>>)
    BY <1>2, <2>1
  <2> HIDE DEF t, x
  <2>3. QED BY <2>2, LinkedKept
<1>3. \/ \E st \in RequireThread(<<"Mail", "link">>) : \E x \in Correspondents(CallerOrg(st[1])) :
            Begin(p, "mail.link", [thread |-> st[2], entity |-> x])
      \/ At(p, "mail.link") /\ Commit(p, Linked(db, Arg(p).thread, Arg(p).entity), <<>>)
  BY DEF LinkThread
<1>4. QED BY <1>1, <1>2, <1>3

LEMMA ReplyToThreadKept ==
    ASSUME Typed, NEW p \in Requests, Left(request[p], db), ReplyToThread(p)
    PROVE  MailKept(p)
<1>1. ASSUME NEW st \in RequireThread(<<"Mail", "reply">>), NEW row, row = db.threads[st[2]],
             row.mailbox \in UsableMailboxes(row.org),
             Begin(p, "mail.reply",
                [org |-> row.org, mailbox |-> row.mailbox, thread |-> st[2], related |-> row.related])
      PROVE  MailKept(p)
  <2> DEFINE arg == [org |-> row.org, mailbox |-> row.mailbox, thread |-> st[2],
                     related |-> row.related]
  <2>1. st[2] \in DOMAIN db.threads
    BY ThreadRequired
  <2>2. row \in ThreadRow
    BY <1>1, <2>1, ThreadRowAt
  <2>3. /\ arg = [org |-> arg.org, mailbox |-> arg.mailbox, thread |-> arg.thread,
                  related |-> arg.related]
        /\ arg.org = row.org /\ arg.mailbox = row.mailbox /\ arg.thread = st[2]
        /\ arg.related = row.related
    OBVIOUS
  <2>4. Begin(p, "mail.reply", arg)
    BY <1>1
  <2>5. row.mailbox \in OrNone(Mailboxes) /\ row.related \in OrNone(Entities)
    BY <2>2 DEF ThreadRow
  <2>6. row.mailbox \in DOMAIN db.mailboxes /\ db.mailboxes[row.mailbox].org = row.org
    BY <1>1 DEF UsableMailboxes, OfOrg
  <2> HIDE DEF arg
  <2>7. InboxArgs([op |-> "mail.reply", arg |-> arg], db)
    BY <1>1, <2>1, <2>3, <2>5, <2>6 DEF InboxArgs
  <2>8. QED BY <2>4, <2>7, InboxBegun DEF InboxOps
<1>2. ASSUME At(p, "mail.reply"), HasRoom(Unused(Messages), db.messages), NEW x, NEW message,
             NEW messages,
             x = Fresh(Unused(Messages), db.messages),
             message = Over([direction |-> "OUTBOUND", status |-> "QUEUED", key |-> None, id |-> x,
                             folder |-> None, uid |-> None, accepted |-> 0, simulated |-> FALSE],
                            Arg(p)),
             messages = Insert(db.messages, x, message),
             Proceed(p, [db EXCEPT !["messages"] = messages], "email.enqueue", x, 0)
      PROVE  MailKept(p)
  <2> DEFINE arg == Arg(p)
  <2>1. x \in Messages /\ x \notin DOMAIN db.messages
    BY <1>2, Choosing
  <2>2. /\ arg = [org |-> arg.org, mailbox |-> arg.mailbox, thread |-> arg.thread,
                  related |-> arg.related]
        /\ arg.thread \in DOMAIN db.threads /\ db.threads[arg.thread].org = arg.org
        /\ arg.mailbox \in OrNone(Mailboxes) /\ arg.related \in OrNone(Entities)
        /\ arg.mailbox # None => /\ arg.mailbox \in DOMAIN db.mailboxes
                                 /\ db.mailboxes[arg.mailbox].org = arg.org
    BY <1>2 DEF Left, InboxArgs
  <2>3. /\ Kept({"messages"}) /\ db'["messages"] = messages /\ Moved(p)
        /\ request'[p] = [op |-> "email.enqueue", arg |-> x]
    BY <1>2, OneProceeding DEF TableNames
  <2>4. db'.threads = db.threads /\ db'.mailboxes = db.mailboxes
    BY <2>3 DEF Kept, TableNames
  <2>5. message = Over([direction |-> "OUTBOUND", status |-> "QUEUED", key |-> None, id |-> x,
                        folder |-> None, uid |-> None, accepted |-> 0, simulated |-> FALSE], arg)
    BY <1>2
  <2> HIDE DEF arg
  <2>6. message = [org |-> arg.org, mailbox |-> arg.mailbox, thread |-> arg.thread,
                   related |-> arg.related, direction |-> "OUTBOUND", status |-> "QUEUED",
                   key |-> None, id |-> x, folder |-> None, uid |-> None, accepted |-> 0,
                   simulated |-> FALSE]
    BY <2>2, <2>5 DEF Over
  <2>7. arg.org \in Orgs /\ NoDemo(db, arg.org) /\ arg.thread \in Threads
    BY <2>2, ThreadRowAt DEF ThreadRow
  <2>8. message \in MessageRow
    BY <2>1, <2>2, <2>6, <2>7 DEF MessageRow, OrNone
  <2>9. /\ message.org = arg.org /\ message.thread = arg.thread /\ message.status = "QUEUED"
        /\ message.mailbox = arg.mailbox
    BY <2>6
  <2>10. ThreadsFine
    BY <2>4, ThreadsUnchanged
  <2>11. MessageFine(message)
    BY <2>2, <2>4, <2>7, <2>8, <2>9 DEF MessageFine, NoDemo
  <2>12. MessagesFine
    BY <1>2, <2>1, <2>3, <2>4, <2>10, <2>11, MessageInserted
  <2>13. Writes
    BY <2>3, <2>12, MailWritten DEF MailTables
  <2>14. MailArgs([op |-> "email.enqueue", arg |-> x], db)
    BY <2>1 DEF MailArgs
  <2>15. Left([op |-> "email.enqueue", arg |-> x], db)
    BY <2>14, LeftMail DEF MailOps
  <2>16. QED BY <2>3, <2>13, <2>15, MailMoved
<1>3. CASE \E st \in RequireThread(<<"Mail", "reply">>) : LET row == db.threads[st[2]] IN
            /\ row.mailbox \in UsableMailboxes(row.org)
            /\ Begin(p, "mail.reply",
                  [org |-> row.org, mailbox |-> row.mailbox, thread |-> st[2],
                   related |-> row.related])
  BY <1>1, <1>3
<1>4. CASE /\ At(p, "mail.reply") /\ HasRoom(Unused(Messages), db.messages)
           /\ LET x == Fresh(Unused(Messages), db.messages)
              IN  Proceed(p, [db EXCEPT !["messages"] = Insert(db.messages, x,
                     Over([direction |-> "OUTBOUND", status |-> "QUEUED", key |-> None, id |-> x,
                           folder |-> None, uid |-> None, accepted |-> 0, simulated |-> FALSE],
                          Arg(p)))], "email.enqueue", x, 0)
  BY <1>2, <1>4
<1>5. QED BY <1>3, <1>4 DEF ReplyToThread

\* A record made from a conversation.
LEMMA EntityInserted ==
    ASSUME Typed, HasRoom(Unused(Entities), db.entities), Kept({"entities"}), NEW org \in Orgs,
           NEW kind \in {"lead", "task", "case"}, NEW email \in OrNone(Emails),
           db'.entities = Insert(db.entities, Fresh(Unused(Entities), db.entities),
                                 NewEntity(org, kind, email))
    PROVE  Writes
<1>1. Fresh(Unused(Entities), db.entities) \in Entities
  BY Choosing
<1>2. NewEntity(org, kind, email) \in EntityRow
  <2>1. kind \in Attachable \cup Addressable /\ None \in OrNone(Entities)
    BY DEF Attachable, Addressable, OrNone
  <2>2. QED BY <2>1 DEF NewEntity, EntityRow
<1> DEFINE row == NewEntity(org, kind, email)
           x == Fresh(Unused(Entities), db.entities)
<1>3. db'.entities = Insert(db.entities, x, row) /\ x \in Entities /\ row \in EntityRow
  BY <1>1, <1>2
<1>4. RowsOf(db.entities, Entities, EntityRow)
  BY DEF Typed, RowsOK, AttachmentRowsOK
<1> HIDE DEF row, x
<1>5. RowsOf(db'.entities, Entities, EntityRow)
  BY <1>3, <1>4, Inserting
<1>6. QED BY <1>5, MailWritten DEF MailTables

LEMMA CreateLeadKept ==
    ASSUME Typed, NEW p \in Requests, Left(request[p], db), CreateLead(p)
    PROVE  MailKept(p)
<1>1. ASSUME NEW st \in RequireThread(<<"Mail", "createLead">>), NEW email \in Emails,
             Begin(p, "inbox.lead", [thread |-> st[2], org |-> CallerOrg(st[1]), email |-> email])
      PROVE  MailKept(p)
  <2> DEFINE arg == [thread |-> st[2], org |-> CallerOrg(st[1]), email |-> email]
  <2>1. CallerOrg(st[1]) \in Orgs
    BY ThreadRequired
  <2>2. arg.org \in Orgs /\ arg.email \in Emails /\ Begin(p, "inbox.lead", arg)
    BY <1>1, <2>1
  <2> HIDE DEF arg
  <2>3. InboxArgs([op |-> "inbox.lead", arg |-> arg], db)
    BY <2>2 DEF InboxArgs
  <2>4. QED BY <2>2, <2>3, InboxBegun DEF InboxOps
<1>2. ASSUME At(p, "inbox.lead"), HasRoom(Unused(Entities), db.entities), NEW x, NEW entities, NEW arg,
             x = Fresh(Unused(Entities), db.entities),
             entities = Insert(db.entities, x, NewEntity(Arg(p).org, "lead", Arg(p).email)),
             arg = [thread |-> Arg(p).thread, entity |-> x],
             Proceed(p, [db EXCEPT !["entities"] = entities], "inbox.link", arg, 0)
      PROVE  MailKept(p)
  <2>1. Arg(p).org \in Orgs /\ Arg(p).email \in Emails
    BY <1>2 DEF Left, InboxArgs
  <2>2. /\ Kept({"entities"}) /\ db'["entities"] = entities /\ Moved(p)
        /\ request'[p] = [op |-> "inbox.link", arg |-> arg]
    <3> DEFINE tables == [db EXCEPT !["entities"] = entities]
    <3>1. /\ DOMAIN tables = TableNames /\ tables.entities = entities /\ tables.gone = db.gone
          /\ \A n \in TableNames \ {"entities"} : tables[n] = db[n]
      BY DEF Typed, TableNames
    <3>2. Proceed(p, tables, "inbox.link", arg, 0)
      BY <1>2
    <3> HIDE DEF tables
    <3>3. db' = tables /\ Moved(p) /\ request'[p] = [op |-> "inbox.link", arg |-> arg]
      BY <3>2, Proceeding
    <3>4. QED BY <3>1, <3>3 DEF Kept
  <2>3. Writes
    <3> DEFINE org == Arg(p).org
               email == Arg(p).email
    <3>1. org \in Orgs /\ email \in OrNone(Emails)
      BY <2>1 DEF OrNone
    <3>2. db'.entities = Insert(db.entities, Fresh(Unused(Entities), db.entities),
                                NewEntity(org, "lead", email))
      BY <1>2, <2>2
    <3> HIDE DEF org, email
    <3>3. QED BY <1>2, <2>2, <3>1, <3>2, EntityInserted
  <2>4. arg.entity \in Entities
    BY <1>2, Choosing
  <2>5. InboxArgs([op |-> "inbox.link", arg |-> arg], db)
    BY <2>4 DEF InboxArgs
  <2>6. Left([op |-> "inbox.link", arg |-> arg], db)
    BY <2>5, LeftInbox DEF InboxOps
  <2>7. QED BY <2>2, <2>3, <2>6, MailMoved
<1>3. ASSUME At(p, "inbox.link"), NEW events, Commit(p, Linked(db, Arg(p).thread, Arg(p).entity), events)
      PROVE  MailKept(p)
  <2>1. Arg(p).entity \in Entities
    BY <1>3 DEF Left, InboxArgs
  <2> DEFINE t == Arg(p).thread
             x == Arg(p).entity
  <2>2. x \in Entities /\ Commit(p, Linked(db, t, x), events)
    BY <1>3, <2>1
  <2> HIDE DEF t, x
  <2>3. QED BY <2>2, LinkedKept
<1>4. \/ \E st \in RequireThread(<<"Mail", "createLead">>) : \E email \in Emails :
            Begin(p, "inbox.lead", [thread |-> st[2], org |-> CallerOrg(st[1]), email |-> email])
      \/ /\ At(p, "inbox.lead") /\ HasRoom(Unused(Entities), db.entities)
         /\ LET x == Fresh(Unused(Entities), db.entities)
            IN  Proceed(p, [db EXCEPT !["entities"] = Insert(db.entities, x, NewEntity(Arg(p).org, "lead", Arg(p).email))],
                   "inbox.link", [thread |-> Arg(p).thread, entity |-> x], 0)
      \/ At(p, "inbox.link") /\ \E events : Commit(p, Linked(db, Arg(p).thread, Arg(p).entity), events)
  BY DEF CreateLead
<1>5. QED BY <1>1, <1>2, <1>3, <1>4

LEMMA CreateWorkKept ==
    ASSUME Typed, NEW p \in Requests, Left(request[p], db), CreateWork(p)
    PROVE  MailKept(p)
<1>1. ASSUME NEW route, NEW st \in RequireThread(route), NEW kind \in {"task", "case"},
             Begin(p, "inbox.work", [thread |-> st[2], org |-> CallerOrg(st[1]), kind |-> kind])
      PROVE  MailKept(p)
  <2> DEFINE arg == [thread |-> st[2], org |-> CallerOrg(st[1]), kind |-> kind]
  <2>1. CallerOrg(st[1]) \in Orgs
    BY ThreadRequired
  <2>2. arg.org \in Orgs /\ arg.kind \in {"task", "case"} /\ Begin(p, "inbox.work", arg)
    BY <1>1, <2>1
  <2> HIDE DEF arg
  <2>3. InboxArgs([op |-> "inbox.work", arg |-> arg], db)
    BY <2>2 DEF InboxArgs
  <2>4. QED BY <2>2, <2>3, InboxBegun DEF InboxOps
<1>2. ASSUME At(p, "inbox.work"), HasRoom(Unused(Entities), db.entities), NEW entities, NEW events,
             entities = Insert(db.entities, Fresh(Unused(Entities), db.entities),
                               NewEntity(Arg(p).org, Arg(p).kind, None)),
             Commit(p, [db EXCEPT !["entities"] = entities], events)
      PROVE  MailKept(p)
  <2>1. Arg(p).org \in Orgs /\ Arg(p).kind \in {"lead", "task", "case"}
    BY <1>2 DEF Left, InboxArgs
  <2>2. /\ Kept({"entities"}) /\ db'["entities"] = entities /\ Moved(p)
        /\ request'[p].op \in {"none", "announce"}
    BY <1>2, OneCommitted DEF TableNames
  <2>3. Writes
    <3> DEFINE org == Arg(p).org
               kind == Arg(p).kind
    <3>1. org \in Orgs /\ kind \in {"lead", "task", "case"} /\ None \in OrNone(Emails)
      BY <2>1 DEF OrNone
    <3>2. db'.entities = Insert(db.entities, Fresh(Unused(Entities), db.entities),
                                NewEntity(org, kind, None))
      BY <1>2, <2>2
    <3> HIDE DEF org, kind
    <3>3. QED BY <1>2, <2>2, <3>1, <3>2, EntityInserted
  <2>4. QED BY <2>2, <2>3, MailCommitted DEF Argless
<1>3. \/ \E kind \in {"task", "case"} :
         \E st \in RequireThread(<<"Mail", IF kind = "task" THEN "createTask" ELSE "createCase">>) :
            Begin(p, "inbox.work", [thread |-> st[2], org |-> CallerOrg(st[1]), kind |-> kind])
      \/ /\ At(p, "inbox.work") /\ HasRoom(Unused(Entities), db.entities)
         /\ \E events : Commit(p,
               [db EXCEPT !["entities"] = Insert(db.entities, Fresh(Unused(Entities), db.entities),
                   NewEntity(Arg(p).org, Arg(p).kind, None))], events)
  BY DEF CreateWork
<1>4. QED BY <1>1, <1>2, <1>3

LEMMA MailboxesStepKept ==
    ASSUME Typed, NEW p \in Requests, Left(request[p], db), MailboxesStep(p)
    PROVE  MailKept(p)
<1>1. \/ MailArrives(p) \/ MailIsDeleted(p) \/ FolderIsRenumbered(p) \/ CreateMailbox(p)
      \/ UpdateMailbox(p) \/ TestMailbox(p) \/ RequestSync(p) \/ RecoverMailboxes(p) \/ TakeSync(p)
      \/ ClaimMailbox(p) \/ OpenFolder(p) \/ CloseFolder(p) \/ FinishSync(p) \/ FailSync(p)
      \/ PassMessage(p) \/ ReadMessage(p) \/ StoreMailFile(p) \/ InsertMessage(p) \/ LinkThread(p)
      \/ ReplyToThread(p)
  BY DEF MailboxesStep
<1>2. QED BY <1>1, MailArrivesKept, MailIsDeletedKept, FolderIsRenumberedKept, CreateMailboxKept,
             UpdateMailboxKept, TestMailboxKept, QueueMailboxKept, TakeSyncKept, ClaimMailboxKept,
             OpenFolderKept, CloseFolderKept, FinishSyncKept, FailSyncKept, PassMessageKept,
             ReadMessageKept, StoreMailFileKept, InsertMessageKept, LinkThreadKept,
             ReplyToThreadKept

LEMMA InboxStepKept ==
    ASSUME Typed, NEW p \in Requests, Left(request[p], db), InboxStep(p)
    PROVE  MailKept(p)
BY AssignKept, UpdateStatusKept, UpdatePriorityKept, SetReadKept, AddNoteKept, CreateLeadKept,
   CreateWorkKept DEF InboxStep
=============================================================================
