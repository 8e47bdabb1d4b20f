---------------------------- MODULE PlatformProofs ----------------------------
(***************************************************************************)
(* Theorems about Platform: every row of every table is one that its       *)
(* module describes, a message that is SENT was accepted, simulated or     *)
(* received, the shared inbox is consistent, invitations match accounts,   *)
(* open sessions have the password their account has, the demo stays       *)
(* within its limits, the mail before a cursor is stored, and so is every  *)
(* file that somebody may download, for all sets of organizations,         *)
(* accounts, files, mailboxes and requests.                                *)
(*                                                                         *)
(* The inductive invariant, Ready, says of the tables that they are in     *)
(* order (Typed) and of each request that what it has checked and chosen,  *)
(* and will write in a later step, is of the kind it writes and still true *)
(* of the tables (ArgsOK).  That it stays true while other requests write  *)
(* is what Grows says of every step: only a demo goes, what a request of   *)
(* the mail has read is of no demo, a message keeps its mailbox, folder,   *)
(* uid and id, and a folder on its server only gets mail at or after its   *)
(* next uid or a new validity.  So whatever an import has read of a folder *)
(* and passed (Seen, in CursorsOK and MailboxArgs) stays covered by what   *)
(* is stored, also when it fails, dies or another import overtakes it.     *)
(*                                                                         *)
(* Credentials adds what the invitations and the sessions need.  An        *)
(* account or invitation that a request has read may be deleted before it  *)
(* writes, so what the request knows is said of those that are still       *)
(* there (CredentialArgs); it stays true since an id that is gone does not *)
(* come back, an account keeps its address and organization, and once it   *)
(* has a password it always has one (CredentialsStay).                     *)
(*                                                                         *)
(* Limits counts for the demo: a place in a quota that is promised to a    *)
(* request like the record it will make, a request that was let in like    *)
(* the workspace it will create, and one that creates a workspace without  *)
(* holding the lock against a time the lock ran out.                       *)
(*                                                                         *)
(* Storage follows the files.  A file a request is about to name in a row  *)
(* is its own and in the storage, one it is about to remove is named by no *)
(* row, and what the deletion of a workspace removes belongs to a demo that *)
(* has expired, or is gone; so no removal meets a file that is in use.     *)
(***************************************************************************)
EXTENDS MailProofs

\* Of what any request has read.
ArgsOK(r, tables) ==
    /\ AccountArgs(r) /\ AttachmentArgs(r) /\ DemoArgs(r, tables.orgs)
    /\ MailArgs(r, tables) /\ MailboxArgs(r, tables) /\ InboxArgs(r, tables)

Ready == Typed /\ \A p \in Requests : ArgsOK(request[p], db)

-----------------------------------------------------------------------------
(* The operations of a component have the arguments of no other *)

LEMMA MailLeft ==
    ASSUME NEW r, NEW tables, Left(r, tables)
    PROVE  ArgsOK(r, tables)
<1>1. AccountArgs(r)
  BY DEF Left, AccountArgs, Argless, MailOps, MailboxOps, InboxOps
<1>2. AttachmentArgs(r)
  BY DEF Left, AttachmentArgs, Argless, MailOps, MailboxOps, InboxOps
<1>3. DemoArgs(r, tables.orgs)
  BY DEF Left, DemoArgs, Argless, MailOps, MailboxOps, InboxOps
<1>4. QED BY <1>1, <1>2, <1>3 DEF Left, ArgsOK

LEMMA NotMail ==
    ASSUME NEW r, r.op \in AccountOps \cup AttachmentOps \cup DemoOps, NEW tables
    PROVE  MailArgs(r, tables) /\ MailboxArgs(r, tables) /\ InboxArgs(r, tables)
<1>1. MailArgs(r, tables)
  BY DEF MailArgs, AccountOps, AttachmentOps, DemoOps
<1>2. MailboxArgs(r, tables)
  BY DEF MailboxArgs, SyncArgs, AccountOps, AttachmentOps, DemoOps
<1>3. InboxArgs(r, tables)
  BY DEF InboxArgs, AccountOps, AttachmentOps, DemoOps
<1>4. QED BY <1>1, <1>2, <1>3

LEMMA AccountsLeft ==
    ASSUME NEW r, r.op \in AccountOps, AccountArgs(r), NEW tables
    PROVE  ArgsOK(r, tables)
<1>1. AttachmentArgs(r)
  BY DEF AttachmentArgs, AccountOps
<1>2. DemoArgs(r, tables.orgs)
  BY DEF DemoArgs, AccountOps
<1>3. QED BY <1>1, <1>2, NotMail DEF ArgsOK

LEMMA AttachmentsLeft ==
    ASSUME NEW r, r.op \in AttachmentOps, AttachmentArgs(r), NEW tables
    PROVE  ArgsOK(r, tables)
<1>1. AccountArgs(r)
  BY DEF AccountArgs, AttachmentOps
<1>2. DemoArgs(r, tables.orgs)
  BY DEF DemoArgs, AttachmentOps
<1>3. QED BY <1>1, <1>2, NotMail DEF ArgsOK

LEMMA DemoLeft ==
    ASSUME NEW r, NEW tables, r.op \in DemoOps, DemoArgs(r, tables.orgs)
    PROVE  ArgsOK(r, tables)
<1>1. AccountArgs(r)
  BY DEF AccountArgs, DemoOps
<1>2. AttachmentArgs(r)
  BY DEF AttachmentArgs, DemoOps
<1>3. QED BY <1>1, <1>2, NotMail DEF ArgsOK

\* What a request has read stays true while the others write.
LEMMA ArgsStay ==
    ASSUME Typed, Grows, NEW r, ArgsOK(r, db)
    PROVE  ArgsOK(r, db')
<1>1. DemoArgs(r, db'.orgs)
  BY DEF DemoArgs, Grows, ArgsOK
<1>2. QED BY <1>1, MailArgsStay DEF ArgsOK

LEMMA ReadyNext ==
    ASSUME Ready, NEW p \in Requests, TypedNext, Grows, Moved(p), ArgsOK(request'[p], db')
    PROVE  Ready'
<1>1. Typed'
  BY DEF TypedNext, Moved, Typed
<1>2. ASSUME NEW q \in Requests \ {p}
      PROVE  ArgsOK(request'[q], db')
  <2>1. request'[q] = request[q] /\ ArgsOK(request[q], db)
    BY DEF Ready, Moved
  <2>2. QED BY <2>1, ArgsStay DEF Ready
<1>3. QED BY <1>1, <1>2 DEF Ready

-----------------------------------------------------------------------------
(* What a step of the mail goes on with *)

LEMMA CrmMailOps ==
    ASSUME NEW p \in Requests, CrmMailStep(p)
    PROVE  request[p].op \in Argless \cup MailOps
<1>1. CASE CreateTemplate(p) \/ UpdateTemplate(p) \/ DuplicateTemplate(p) \/ SendTest(p)
           \/ UpdateSettings(p)
  BY <1>1 DEF CreateTemplate, UpdateTemplate, DuplicateTemplate, SendTest, UpdateSettings, Called, At,
              Argless, MailOps
<1>2. CASE SendMail(p) \/ SendAutomation(p) \/ PersistMessage(p) \/ EnqueueMessage(p)
  BY <1>2 DEF SendMail, SendAutomation, PersistMessage, EnqueueMessage, Called, At, Argless, MailOps
<1>3. CASE TakeMailJob(p) \/ StartDelivery(p) \/ RecoverQueued(p) \/ WriteSending(p)
  BY <1>3 DEF TakeMailJob, StartDelivery, RecoverQueued, WriteSending, Called, At, Argless, MailOps
<1>4. CASE Transmit(p) \/ WriteSent(p) \/ WriteFailed(p)
  BY <1>4 DEF Transmit, WriteSent, WriteFailed, Called, At, Argless, MailOps
<1>5. QED BY <1>1, <1>2, <1>3, <1>4 DEF CrmMailStep

LEMMA MailboxesOps ==
    ASSUME NEW p \in Requests, MailboxesStep(p)
    PROVE  request[p].op \in Argless \cup MailboxOps \cup InboxOps
<1>1. CASE MailArrives(p) \/ MailIsDeleted(p) \/ FolderIsRenumbered(p)
  BY <1>1 DEF MailArrives, MailIsDeleted, FolderIsRenumbered, Called, At, Argless
<1>2. CASE CreateMailbox(p) \/ UpdateMailbox(p) \/ TestMailbox(p) \/ RequestSync(p)
           \/ RecoverMailboxes(p)
  BY <1>2 DEF CreateMailbox, UpdateMailbox, TestMailbox, RequestSync, RecoverMailboxes, Called, At,
              Argless, MailboxOps
<1>3. CASE TakeSync(p) \/ ClaimMailbox(p) \/ OpenFolder(p) \/ CloseFolder(p) \/ FinishSync(p)
           \/ FailSync(p)
  BY <1>3 DEF TakeSync, ClaimMailbox, OpenFolder, CloseFolder, FinishSync, FailSync, Called, At,
              Argless, MailboxOps
<1>4. CASE PassMessage(p) \/ ReadMessage(p) \/ StoreMailFile(p) \/ InsertMessage(p)
  BY <1>4 DEF PassMessage, ReadMessage, StoreMailFile, InsertMessage, At, MailboxOps
<1>5. CASE LinkThread(p) \/ ReplyToThread(p)
  BY <1>5 DEF LinkThread, ReplyToThread, Called, At, Argless, InboxOps
<1>6. QED BY <1>1, <1>2, <1>3, <1>4, <1>5 DEF MailboxesStep

LEMMA InboxStepOps ==
    ASSUME NEW p \in Requests, InboxStep(p)
    PROVE  request[p].op \in Argless \cup InboxOps
BY DEF InboxStep, Assign, UpdateStatus, UpdatePriority, SetRead, AddNote, CreateLead, CreateWork,
       Called, At, Argless, InboxOps

-----------------------------------------------------------------------------
(* The steps *)

LEMMA MailStepReady ==
    ASSUME Ready, NEW p \in Requests, CrmMailStep(p) \/ MailboxesStep(p) \/ InboxStep(p)
    PROVE  Ready'
<1>1. request[p].op \in Argless \cup MailOps \cup MailboxOps \cup InboxOps
  BY CrmMailOps, MailboxesOps, InboxStepOps
<1>2. Left(request[p], db)
  BY <1>1 DEF Ready, ArgsOK, Left
<1>3. MailKept(p)
  BY <1>2, CrmMailStepKept, MailboxesStepKept, InboxStepKept DEF Ready
<1>4. ArgsOK(request'[p], db')
  BY <1>3, MailLeft DEF MailKept
<1>5. QED BY <1>3, <1>4, ReadyNext DEF MailKept, TableWrites

LEMMA WorkspaceStepReady ==
    ASSUME Ready, NEW p \in Requests, AccountsStep(p) \/ AttachmentsStep(p) \/ DemoStep(p)
    PROVE  Ready'
<1>1. /\ Typed /\ AccountArgs(request[p]) /\ AttachmentArgs(request[p])
      /\ DemoArgs(request[p], db.orgs)
  BY DEF Ready, ArgsOK
<1>2. CASE AccountsStep(p)
  <2>1. AccountsKept(p)
    BY <1>1, <1>2, AccountsStepKept
  <2>2. TypedNext /\ Grows
    BY <1>1, <2>1, AccountFrame DEF AccountsKept
  <2>3. ArgsOK(request'[p], db')
    BY <2>1, AccountsLeft DEF AccountsKept
  <2>4. QED BY <2>1, <2>2, <2>3, ReadyNext DEF AccountsKept
<1>3. CASE AttachmentsStep(p)
  <2>1. AttachmentsKept(p)
    BY <1>1, <1>3, AttachmentsStepKept
  <2>2. TypedNext /\ Grows
    BY <1>1, <2>1, AttachmentFrame DEF AttachmentsKept
  <2>3. ArgsOK(request'[p], db')
    BY <2>1, AttachmentsLeft DEF AttachmentsKept
  <2>4. QED BY <2>1, <2>2, <2>3, ReadyNext DEF AttachmentsKept
<1>4. CASE DemoStep(p)
  <2>1. DemoKept(p)
    BY <1>1, <1>4, DemoStepKept
  <2>2. ArgsOK(request'[p], db')
    BY <2>1, DemoLeft DEF DemoKept
  <2>3. QED BY <2>1, <2>2, ReadyNext DEF DemoKept
<1>5. QED BY <1>2, <1>3, <1>4

\* An announcement and a crash write no table.
LEMMA QuietStepReady ==
    ASSUME Ready, NEW p \in Requests, Announce(p) \/ Die(p)
    PROVE  Ready'
<1>1. db' = db /\ DOMAIN request = Requests
  BY DEF Announce, Die, Ready, Typed
<1>2. Moved(p) /\ request'[p].op \in {"none", "announce"}
  <2>1. CASE Die(p)
    BY <1>1, <2>1 DEF Die, Moved, Idle
  <2>2. CASE Announce(p)
    BY <1>1, <2>2 DEF Announce, Moved, Idle
  <2>3. QED BY <2>1, <2>2
<1>3. TypedNext /\ Grows
  <2>1. Typed
    BY DEF Ready
  <2>2. TypedNext
    BY <1>1, <2>1 DEF Typed, TypedNext, RowsOK, AccountReferencesOK, MailReferencesOK, SentOK,
                      ThreadsOK
  <2>3. Grows
    BY <1>1, <2>1, FolderUnchanged DEF Grows, SameMail, Typed, MailReferencesOK
  <2>4. QED BY <2>2, <2>3
<1>4. ArgsOK(request'[p], db')
  <2>1. request'[p].op \in Argless
    BY <1>2 DEF Argless
  <2>2. QED BY <2>1, LeftNothing, MailLeft
<1>5. QED BY <1>2, <1>3, <1>4, ReadyNext

\* A day that passes and a lock that runs out write no row.
LEMMA ClockStepReady ==
    ASSUME Ready, NextDay \/ ExpireLease
    PROVE  Ready'
<1>1. /\ DOMAIN db = TableNames /\ RowsOK(db) /\ AccountReferencesOK(db)
      /\ MailReferencesOK(db) /\ SentOK(db) /\ ThreadsOK(db)
  BY DEF Ready, Typed
<1>2. db.today \in Nat /\ db.lapses \in Nat /\ db.lock \in OrNone(Requests)
  BY <1>1 DEF RowsOK, DemoRowsOK
<1>3. request' = request /\ Kept({"today", "lock", "lapses"})
      /\ db'.today \in Nat /\ db'.lapses \in Nat /\ db'.lock \in OrNone(Requests)
  <2>1. CASE NextDay
    <3>1. /\ DOMAIN db' = TableNames /\ db'.today = db.today + 1 /\ request' = request
          /\ \A n \in TableNames \ {"today"} : db'[n] = db[n]
      BY <1>1, <2>1 DEF NextDay, TableNames
    <3>2. db'.lapses = db.lapses /\ db'.lock = db.lock /\ db'.gone = db.gone
      BY <3>1 DEF TableNames
    <3>3. QED BY <1>2, <3>1, <3>2 DEF Kept
  <2>2. CASE ExpireLease
    <3> DEFINE slow == request[db.lock].op \in Creating
               lapses == IF slow THEN db.lapses + 1 ELSE db.lapses
    <3>1. db' = [db EXCEPT !.lock = None, !.lapses = lapses] /\ request' = request
      BY <2>2 DEF ExpireLease
    <3>2. lapses \in Nat
      BY <1>2
    <3> HIDE DEF lapses
    <3>3. /\ DOMAIN db' = TableNames /\ db'.lock = None /\ db'.lapses = lapses
          /\ \A n \in TableNames \ {"lock", "lapses"} : db'[n] = db[n]
      BY <1>1, <3>1 DEF TableNames
    <3>4. db'.today = db.today /\ db'.gone = db.gone
      BY <3>3 DEF TableNames
    <3>5. QED BY <1>2, <3>1, <3>2, <3>3, <3>4 DEF Kept, OrNone
  <2>3. QED BY <2>1, <2>2
<1>4. /\ db'.accounts = db.accounts /\ db'.roles = db.roles /\ db'.orgs = db.orgs
      /\ db'.sessions = db.sessions /\ db'.resets = db.resets
      /\ db'.invitations = db.invitations /\ db'.entities = db.entities
      /\ db'.attachments = db.attachments /\ db'.records = db.records /\ db'.stored = db.stored
      /\ db'.reserved = db.reserved /\ db'.templates = db.templates /\ db'.mailboxes = db.mailboxes
      /\ db'.server = db.server /\ db'.messages = db.messages /\ db'.threads = db.threads
      /\ db'.mailJobs = db.mailJobs /\ db'.syncs = db.syncs /\ db'.mailFiles = db.mailFiles
  BY <1>3 DEF Kept, TableNames
<1>5. RowsOK(db')
  <2>1. AccountRowsOK(db') /\ AttachmentRowsOK(db')
    BY <1>1, <1>4 DEF RowsOK, AccountRowsOK, AttachmentRowsOK
  <2>2. DemoRowsOK(db')
    BY <1>1, <1>3, <1>4 DEF RowsOK, DemoRowsOK
  <2>3. MailRowsOK(db') /\ MailboxRowsOK(db')
    BY <1>1, <1>4 DEF RowsOK, MailRowsOK, MailboxRowsOK
  <2>4. QED BY <2>1, <2>2, <2>3 DEF RowsOK
<1>6. AccountReferencesOK(db') /\ MailReferencesOK(db') /\ SentOK(db') /\ ThreadsOK(db')
  <2>1. AccountReferencesOK(db')
    BY <1>1, <1>4 DEF AccountReferencesOK
  <2>2. MailReferencesOK(db')
    <3>1. MailReferencesOK(db)
      BY <1>1
    <3>2. /\ db'.mailboxes = db.mailboxes /\ db'.server = db.server /\ db'.syncs = db.syncs
          /\ db'.threads = db.threads /\ db'.messages = db.messages /\ db'.orgs = db.orgs
      BY <1>4
    <3>3. QED BY <3>1, <3>2, Zenon DEF MailReferencesOK
  <2>3. SentOK(db')
    BY <1>1, <1>4 DEF SentOK
  <2>4. ThreadsOK(db')
    BY <1>1, <1>4 DEF ThreadsOK
  <2>5. QED BY <2>1, <2>2, <2>3, <2>4
<1>7. Grows
  BY <1>1, <1>4, FolderUnchanged DEF Grows, SameMail, MailReferencesOK, Ready
<1>8. CursorsOK(db')
  BY <1>4, <1>7, CursorsUnchanged DEF Ready
<1>9. Typed'
  BY <1>3, <1>5, <1>6, <1>8 DEF Ready, Typed, Kept
<1>10. \A q \in Requests : ArgsOK(request'[q], db')
  BY <1>3, <1>7, ArgsStay DEF Ready
<1>11. QED BY <1>9, <1>10 DEF Ready

LEMMA ReadyInitially == Init => Ready
<1> SUFFICES ASSUME Init PROVE Ready
  OBVIOUS
<1>1. PICK scenario \in Scenarios : db = scenario.db /\ request = [p \in Requests |-> Idle]
  BY DEF Init
<1>2. Typed
  BY <1>1, ScenariosAssumption DEF ScenariosAssumption, Typed
<1>3. ASSUME NEW p \in Requests
      PROVE  ArgsOK(request[p], db)
  <2>1. request[p].op \in Argless
    BY <1>1 DEF Idle, Argless
  <2>2. QED BY <2>1, LeftNothing, MailLeft
<1>4. QED BY <1>2, <1>3 DEF Ready

LEMMA ReadyKept == Ready /\ [Next]_vars => Ready'
<1> SUFFICES ASSUME Ready, [Next]_vars PROVE Ready'
  OBVIOUS
<1>1. CASE NextDay \/ ExpireLease
  BY <1>1, ClockStepReady
<1>2. ASSUME NEW p \in Requests, RequestStep(p)
      PROVE  Ready'
  BY <1>2, MailStepReady, WorkspaceStepReady, QuietStepReady DEF RequestStep
<1>3. CASE UNCHANGED vars
  <2>1. db' = db /\ request' = request
    BY <1>3 DEF vars
  <2>2. QED BY <2>1 DEF Ready, Typed
<1>4. QED BY <1>1, <1>2, <1>3 DEF Next

-----------------------------------------------------------------------------
(* Accounts, their invitations and their sessions *)

\* What a request knows of an id it has read: of one that is gone, nothing.
Recalled(tables, x, table) == x \in DOMAIN table \cup tables.gone

\* What a request that will write a password, a status or an invitation has
\* read, and what is still true of it; a demo changes none of its accounts.
CredentialArgs(r, tables) ==
    /\ r.op \in {"auth.reset", "user.update", "user.accept"} => tables.runtime # "demo"
    /\ r.op = "auth.reset" \/ (r.op = "user.update" /\ "status" \in DOMAIN r.arg.change) =>
          LET a == r.arg.account
          IN  /\ Recalled(tables, a, tables.accounts)
              /\ a \in DOMAIN tables.accounts => tables.accounts[a].password # None
    /\ r.op = "user.cancel" =>
          LET a == r.arg.account
          IN  /\ Recalled(tables, a, tables.accounts)
              /\ a \in DOMAIN tables.accounts => /\ tables.accounts[a].org = r.arg.org
                                                 /\ tables.accounts[a].email = r.arg.email
    /\ r.op = "user.accept" =>
          LET a == r.arg.account
              i == r.arg.invitation
          IN  /\ Recalled(tables, a, tables.accounts) /\ Recalled(tables, i, tables.invitations)
              /\ a \in DOMAIN tables.accounts /\ i \in DOMAIN tables.invitations =>
                    /\ tables.accounts[a].org = tables.invitations[i].org
                    /\ tables.accounts[a].email = tables.invitations[i].email
    /\ r.op \in {"demo.lock"} \cup Creating => tables.runtime = "demo"
    /\ r.op \in {"demo.identity", "demo.seed", "demo.session"} =>
          LET a == r.arg.owner
          IN  /\ Recalled(tables, a, tables.accounts)
              /\ a \in DOMAIN tables.accounts =>
                    tables.accounts[a].status = "ACTIVE" /\ tables.accounts[a].password = 1

CredentialOps ==
    {"auth.reset", "user.update", "user.cancel", "user.accept", "demo.lock"} \cup Creating

Credentials ==
    /\ Ready /\ InvitationsOK(db) /\ SessionsOK(db)
    /\ \A p \in Requests : CredentialArgs(request[p], db)

\* What every step leaves true: an id that goes does not come back, an account
\* stays the one it was and keeps a password once it has one.
CredentialsStay ==
    /\ db'.runtime = db.runtime /\ db.gone \subseteq db'.gone
    /\ DOMAIN db.accounts \subseteq DOMAIN db'.accounts \cup db'.gone
    /\ DOMAIN db'.accounts \cap db.gone \subseteq DOMAIN db.accounts
    /\ DOMAIN db.invitations \subseteq DOMAIN db'.invitations \cup db'.gone
    /\ DOMAIN db'.invitations \cap db.gone \subseteq DOMAIN db.invitations
    /\ \A a \in DOMAIN db.accounts \cap DOMAIN db'.accounts :
          /\ db'.accounts[a].org = db.accounts[a].org
          /\ db'.accounts[a].email = db.accounts[a].email
          /\ db.accounts[a].password # None => db'.accounts[a].password # None
          /\ db.runtime = "demo" => /\ db'.accounts[a].status = db.accounts[a].status
                                    /\ db'.accounts[a].password = db.accounts[a].password
    /\ \A i \in DOMAIN db.invitations \cap DOMAIN db'.invitations :
          /\ db'.invitations[i].org = db.invitations[i].org
          /\ db'.invitations[i].email = db.invitations[i].email

CredentialsKept(p) ==
    /\ CredentialsStay /\ InvitationsOK(db') /\ SessionsOK(db')
    /\ CredentialArgs(request'[p], db')

LEMMA CredentialArgsStay ==
    ASSUME CredentialsStay, NEW r, CredentialArgs(r, db)
    PROVE  CredentialArgs(r, db')
<1>1. /\ db'.runtime = db.runtime
      /\ \A a : Recalled(db, a, db.accounts) =>
            /\ Recalled(db', a, db'.accounts)
            /\ a \in DOMAIN db'.accounts => a \in DOMAIN db.accounts
      /\ \A i : Recalled(db, i, db.invitations) =>
            /\ Recalled(db', i, db'.invitations)
            /\ i \in DOMAIN db'.invitations => i \in DOMAIN db.invitations
  BY DEF CredentialsStay, Recalled
<1>2. /\ \A a \in DOMAIN db.accounts \cap DOMAIN db'.accounts :
            /\ db'.accounts[a].org = db.accounts[a].org
            /\ db'.accounts[a].email = db.accounts[a].email
            /\ db.accounts[a].password # None => db'.accounts[a].password # None
            /\ db.runtime = "demo" => /\ db'.accounts[a].status = db.accounts[a].status
                                      /\ db'.accounts[a].password = db.accounts[a].password
      /\ \A i \in DOMAIN db.invitations \cap DOMAIN db'.invitations :
            /\ db'.invitations[i].org = db.invitations[i].org
            /\ db'.invitations[i].email = db.invitations[i].email
  BY DEF CredentialsStay
<1>3. /\ r.op \in {"auth.reset", "user.update", "user.accept"} => db'.runtime # "demo"
      /\ r.op \in {"demo.lock"} \cup Creating => db'.runtime = "demo"
  BY <1>1 DEF CredentialArgs
<1>4. r.op = "auth.reset" \/ (r.op = "user.update" /\ "status" \in DOMAIN r.arg.change) =>
          LET a == r.arg.account
          IN  /\ Recalled(db', a, db'.accounts)
              /\ a \in DOMAIN db'.accounts => db'.accounts[a].password # None
  BY <1>1, <1>2 DEF CredentialArgs
<1>5. r.op = "user.cancel" =>
          LET a == r.arg.account
          IN  /\ Recalled(db', a, db'.accounts)
              /\ a \in DOMAIN db'.accounts => /\ db'.accounts[a].org = r.arg.org
                                              /\ db'.accounts[a].email = r.arg.email
  BY <1>1, <1>2 DEF CredentialArgs
<1>6. r.op = "user.accept" =>
          LET a == r.arg.account
              i == r.arg.invitation
          IN  /\ Recalled(db', a, db'.accounts) /\ Recalled(db', i, db'.invitations)
              /\ a \in DOMAIN db'.accounts /\ i \in DOMAIN db'.invitations =>
                    /\ db'.accounts[a].org = db'.invitations[i].org
                    /\ db'.accounts[a].email = db'.invitations[i].email
  BY <1>1, <1>2 DEF CredentialArgs
<1>7. r.op \in {"demo.identity", "demo.seed", "demo.session"} =>
          LET a == r.arg.owner
          IN  /\ Recalled(db', a, db'.accounts)
              /\ a \in DOMAIN db'.accounts =>
                    db'.accounts[a].status = "ACTIVE" /\ db'.accounts[a].password = 1
  <2>1. r.op \in {"demo.identity", "demo.seed", "demo.session"} => r.op \in Creating
    BY DEF Creating
  <2>2. QED BY <1>1, <1>2, <2>1 DEF CredentialArgs
<1>8. QED BY <1>3, <1>4, <1>5, <1>6, <1>7 DEF CredentialArgs

LEMMA CredentialsNext ==
    ASSUME Credentials, NEW p \in Requests, Ready', Moved(p), CredentialsKept(p)
    PROVE  Credentials'
<1>1. ASSUME NEW q \in Requests \ {p}
      PROVE  CredentialArgs(request'[q], db')
  <2>1. request'[q] = request[q] /\ CredentialArgs(request[q], db) /\ CredentialsStay
    BY DEF Credentials, Moved, CredentialsKept
  <2>2. QED BY <2>1, CredentialArgsStay
<1>2. QED BY <1>1 DEF Credentials, CredentialsKept

LEMMA CredentialsArgless ==
    ASSUME NEW r, r.op \notin CredentialOps, NEW tables
    PROVE  CredentialArgs(r, tables)
BY DEF CredentialArgs, CredentialOps, Creating

\* Tables that hold the accounts, sessions and invitations there were.
Aside(tables) ==
    /\ tables.runtime = db.runtime /\ db.gone \subseteq tables.gone
    /\ tables.accounts = db.accounts /\ tables.sessions = db.sessions
    /\ tables.invitations = db.invitations

LEMMA CredentialsAside ==
    ASSUME Credentials, NEW p \in Requests, Aside(db'), CredentialArgs(request'[p], db)
    PROVE  CredentialsKept(p)
<1>1. CredentialsStay
  BY DEF CredentialsStay, Aside
<1>2. InvitationsOK(db') /\ SessionsOK(db')
  BY DEF Credentials, InvitationsOK, Waiting, SessionsOK, Aside
<1>3. QED BY <1>1, <1>2, CredentialArgsStay DEF CredentialsKept

LEMMA KeptAside ==
    ASSUME NEW names, Kept(names),
           names \cap {"runtime", "accounts", "sessions", "invitations"} = {}
    PROVE  Aside(db')
BY DEF Kept, Aside, TableNames

LEMMA CredentialsBegun ==
    ASSUME Credentials, NEW p \in Requests, NEW op, NEW arg,
           Begin(p, op, arg) \/ \E scope : CallCounted(p, scope, op, arg),
           CredentialArgs([op |-> op, arg |-> arg], db)
    PROVE  CredentialsKept(p)
<1>1. Kept({"rates"}) /\ request'[p] = [op |-> op, arg |-> arg]
  BY Calling, CountedCalling DEF Credentials, Ready
<1>2. QED BY <1>1, KeptAside, CredentialsAside

LEMMA CredentialsCalled ==
    ASSUME Credentials, NEW p \in Requests, NEW op, op \notin CredentialOps, NEW arg,
           Begin(p, op, arg) \/ \E scope : CallCounted(p, scope, op, arg)
    PROVE  CredentialsKept(p)
<1>1. CredentialArgs([op |-> op, arg |-> arg], db)
  BY CredentialsArgless
<1>2. QED BY <1>1, CredentialsBegun

LEMMA CredentialsTurnedAway ==
    ASSUME Credentials, NEW p \in Requests, NEW scope, TurnedAway(p, scope)
    PROVE  CredentialsKept(p)
<1>1. Kept({"rates"}) /\ request'[p] = Idle
  BY TurningAway DEF Credentials, Ready
<1>2. CredentialArgs(request'[p], db)
  BY <1>1, CredentialsArgless DEF Idle, CredentialOps, Creating
<1>3. QED BY <1>1, <1>2, KeptAside, CredentialsAside

LEMMA CredentialsContinued ==
    ASSUME Credentials, NEW p \in Requests,
           \/ Reject(p)
           \/ \E op, arg : Continue(p, op, arg) /\ CredentialArgs([op |-> op, arg |-> arg], db)
    PROVE  CredentialsKept(p)
<1>1. Aside(db') /\ CredentialArgs(request'[p], db)
  <2>1. CASE Reject(p)
    <3>1. db' = db /\ request'[p] = Idle
      BY <2>1, Rejecting DEF Credentials, Ready
    <3>2. CredentialArgs(request'[p], db)
      BY <3>1, CredentialsArgless DEF Idle, CredentialOps, Creating
    <3>3. QED BY <3>1, <3>2 DEF Aside
  <2>2. ASSUME NEW op, NEW arg, Continue(p, op, arg), CredentialArgs([op |-> op, arg |-> arg], db)
        PROVE  Aside(db') /\ CredentialArgs(request'[p], db)
    <3>1. db' = db /\ request'[p] = [op |-> op, arg |-> arg]
      BY <2>2, Continuing DEF Credentials, Ready
    <3>2. QED BY <2>2, <3>1 DEF Aside
  <2>3. QED BY <2>1, <2>2
<1>2. QED BY <1>1, CredentialsAside

LEMMA CredentialsWritten ==
    ASSUME Credentials, NEW p \in Requests, NEW tables, Aside(tables),
           \/ \E events : Commit(p, tables, events)
           \/ \E op, arg, faults : /\ Proceed(p, tables, op, arg, faults)
                                   /\ CredentialArgs([op |-> op, arg |-> arg], db)
    PROVE  CredentialsKept(p)
<1>1. db' = tables /\ CredentialArgs(request'[p], db)
  <2>1. ASSUME NEW events, Commit(p, tables, events)
        PROVE  db' = tables /\ CredentialArgs(request'[p], db)
    <3>1. db' = tables /\ request'[p].op \in {"none", "announce"}
      BY <2>1, Committing DEF Credentials, Ready
    <3>2. QED BY <3>1, CredentialsArgless DEF CredentialOps, Creating
  <2>2. ASSUME NEW op, NEW arg, NEW faults, Proceed(p, tables, op, arg, faults),
               CredentialArgs([op |-> op, arg |-> arg], db)
        PROVE  db' = tables /\ CredentialArgs(request'[p], db)
    <3>1. db' = tables /\ request'[p] = [op |-> op, arg |-> arg]
      BY <2>2, Proceeding DEF Credentials, Ready
    <3>2. QED BY <2>2, <3>1
  <2>3. QED BY <2>1, <2>2
<1>2. QED BY <1>1, CredentialsAside

\* The tables that a step may write aside.
LEMMA WritingAside ==
    ASSUME DOMAIN db = TableNames, NEW v
    PROVE  /\ Aside(db)
           /\ Aside([db EXCEPT !.resets = v]) /\ Aside([db EXCEPT !.roles = v])
           /\ Aside([db EXCEPT !.orgs = v]) /\ Aside([db EXCEPT !.lock = v])
           /\ Aside([db EXCEPT !.records = v]) /\ Aside([db EXCEPT !.stored = v])
           /\ Aside([db EXCEPT !.reserved = v]) /\ Aside([db EXCEPT !.rates = v])
BY DEF Aside, TableNames

-----------------------------------------------------------------------------
(* What the steps of the accounts do to them *)

\* A session that has been revoked is one no property asks anything of.
LEMMA RevokedSessions ==
    ASSUME Typed, NEW which
    PROVE  /\ DOMAIN Revoked(which) = DOMAIN db.sessions
           /\ \A s \in DOMAIN db.sessions :
                 /\ Revoked(which)[s].account = db.sessions[s].account
                 /\ Revoked(which)[s].password = db.sessions[s].password
                 /\ Revoked(which)[s].raced = db.sessions[s].raced
                 /\ (Revoked(which)[s].revoked <=> s \in which \/ db.sessions[s].revoked)
<1>1. ASSUME NEW row \in SessionRow
      PROVE  LET new == Over([revoked |-> TRUE], row)
             IN  /\ new.account = row.account /\ new.password = row.password
                 /\ new.raced = row.raced /\ new.revoked
  BY DEF SessionRow, Over
<1>2. \A s \in DOMAIN db.sessions : db.sessions[s] \in SessionRow
  BY DEF Typed, RowsOK, AccountRowsOK, RowsOf
<1>3. DOMAIN Revoked(which) = DOMAIN db.sessions
  BY DEF Revoked, SetSessions
<1>4. ASSUME NEW s \in DOMAIN db.sessions
      PROVE  /\ Revoked(which)[s].account = db.sessions[s].account
             /\ Revoked(which)[s].password = db.sessions[s].password
             /\ Revoked(which)[s].raced = db.sessions[s].raced
             /\ (Revoked(which)[s].revoked <=> s \in which \/ db.sessions[s].revoked)
  <2>1. CASE s \in which
    <3>1. Revoked(which)[s] = Over([revoked |-> TRUE], db.sessions[s])
      BY <2>1 DEF Revoked, SetSessions
    <3>2. QED BY <1>1, <1>2, <2>1, <3>1
  <2>2. CASE s \notin which
    <3>1. Revoked(which)[s] = db.sessions[s]
      BY <2>2 DEF Revoked, SetSessions
    <3>2. QED BY <2>2, <3>1
  <2>3. QED BY <2>1, <2>2
<1>5. QED BY <1>3, <1>4

\* Sessions that come, go or are revoked.
LEMMA SessionsReplaced ==
    ASSUME Credentials, NEW p \in Requests, NEW sessions,
           db'.accounts = db.accounts, db'.invitations = db.invitations,
           db'.runtime = db.runtime, db.gone \subseteq db'.gone, db'.sessions = sessions,
           \A s \in DOMAIN sessions :
              \/ /\ s \in DOMAIN db.sessions /\ sessions[s].account = db.sessions[s].account
                 /\ sessions[s].password = db.sessions[s].password
                 /\ sessions[s].raced = db.sessions[s].raced
                 /\ db.sessions[s].revoked => sessions[s].revoked
              \/ sessions[s].revoked \/ sessions[s].raced \/ sessions[s].password = None
              \/ /\ sessions[s].password = db.accounts[sessions[s].account].password
                 /\ db.accounts[sessions[s].account].status \notin {"SUSPENDED", "DISABLED"},
           request'[p].op \notin CredentialOps
    PROVE  CredentialsKept(p)
<1>1. CredentialsStay
  BY DEF CredentialsStay
<1>2. InvitationsOK(db')
  BY DEF Credentials, InvitationsOK, Waiting
<1>3. SessionsOK(db')
  BY DEF Credentials, SessionsOK
<1>4. QED BY <1>1, <1>2, <1>3, CredentialsArgless DEF CredentialsKept

LEMMA LoginCredentials ==
    ASSUME Credentials, NEW p \in Requests, Login(p)
    PROVE  CredentialsKept(p)
<1>1. CASE ~At(p, "auth.login")
  <2>1. \/ TurnedAway(p, ByAddress("login"))
        \/ \E scope, arg : CallCounted(p, scope, "auth.login", arg)
    BY <1>1 DEF Login
  <2>2. "auth.login" \notin CredentialOps
    BY DEF CredentialOps, Creating
  <2>3. QED BY <2>1, <2>2, CredentialsTurnedAway, CredentialsCalled
<1>2. CASE At(p, "auth.login")
  <2> DEFINE a == Arg(p).account
             raced == db.accounts[a].status # "ACTIVE" \/ db.accounts[a].password # Arg(p).password
             s == Fresh(Unused(Sessions), db.sessions)
             row == [account |-> a, expires |-> db.today + SessionDays, revoked |-> FALSE,
                     password |-> Arg(p).password, raced |-> raced]
             sessions == Insert(db.sessions, s, row)
  <2>1. Reject(p) \/ Commit(p, [db EXCEPT !.sessions = sessions], <<>>)
    BY <1>2 DEF Login, CommitIf, Called, At
  <2>2. ASSUME Commit(p, [db EXCEPT !.sessions = sessions], <<>>)
        PROVE  CredentialsKept(p)
    <3>1. /\ row.account = a /\ row.password = Arg(p).password
          /\ row.raced \/ (/\ db.accounts[a].status = "ACTIVE"
                           /\ db.accounts[a].password = Arg(p).password)
      OBVIOUS
    <3> HIDE DEF row, s
    <3>2. \A x \in DOMAIN sessions :
             \/ x \in DOMAIN db.sessions /\ sessions[x] = db.sessions[x]
             \/ sessions[x] = row
      BY DEF Insert
    <3> HIDE DEF sessions, a
    <3>3. db' = [db EXCEPT !.sessions = sessions] /\ request'[p].op \in {"none", "announce"}
      BY <2>2, Committing DEF Credentials, Ready
    <3>4. /\ db'.accounts = db.accounts /\ db'.invitations = db.invitations
          /\ db'.runtime = db.runtime /\ db'.gone = db.gone /\ db'.sessions = sessions
      BY <3>3 DEF Credentials, Ready, Typed, TableNames
    <3>5. request'[p].op \notin CredentialOps
      BY <3>3 DEF CredentialOps, Creating
    <3>6. QED BY <3>1, <3>2, <3>4, <3>5, SessionsReplaced
  <2>3. QED BY <2>1, <2>2, CredentialsContinued
<1>3. QED BY <1>1, <1>2

LEMMA LogoutCredentials ==
    ASSUME Credentials, NEW p \in Requests, Logout(p) \/ RevokeSession(p) \/ LogoutAll(p)
    PROVE  CredentialsKept(p)
<1>1. ASSUME NEW which, Commit(p, [db EXCEPT !.sessions = Revoked(which)], <<>>)
      PROVE  CredentialsKept(p)
  <2> DEFINE sessions == Revoked(which)
  <2>1. /\ DOMAIN sessions = DOMAIN db.sessions
        /\ \A s \in DOMAIN db.sessions :
              /\ sessions[s].account = db.sessions[s].account
              /\ sessions[s].password = db.sessions[s].password
              /\ sessions[s].raced = db.sessions[s].raced
              /\ (sessions[s].revoked <=> s \in which \/ db.sessions[s].revoked)
    BY RevokedSessions DEF Credentials, Ready
  <2>2. Commit(p, [db EXCEPT !.sessions = sessions], <<>>)
    BY <1>1
  <2> HIDE DEF sessions
  <2>3. db' = [db EXCEPT !.sessions = sessions] /\ request'[p].op \in {"none", "announce"}
    BY <2>2, Committing DEF Credentials, Ready
  <2>4. /\ db'.accounts = db.accounts /\ db'.invitations = db.invitations
        /\ db'.runtime = db.runtime /\ db'.gone = db.gone /\ db'.sessions = sessions
    BY <2>3 DEF Credentials, Ready, Typed, TableNames
  <2>5. request'[p].op \notin CredentialOps
    BY <2>3 DEF CredentialOps, Creating
  <2>6. QED BY <2>1, <2>4, <2>5, SessionsReplaced
<1>2. \/ \E op \in {"auth.logout", "auth.revoke", "auth.logoutAll"} : \E arg : Begin(p, op, arg)
      \/ \E which : Commit(p, [db EXCEPT !.sessions = Revoked(which)], <<>>)
  BY DEF Logout, RevokeSession, LogoutAll
<1>3. \A op \in {"auth.logout", "auth.revoke", "auth.logoutAll"} : op \notin CredentialOps
  BY DEF CredentialOps, Creating
<1>4. QED BY <1>1, <1>2, <1>3, CredentialsCalled

\* Rows that are deleted leave their ids gone.
LEMMA DeletedAreGone ==
    ASSUME NEW tables, DOMAIN tables = TableNames, NEW t \in RowTables
    PROVE  DOMAIN db[t] \subseteq DOMAIN tables[t] \cup Deleting(tables).gone
BY DEF Deleting, TableNames

LEMMA CleanupCredentialsKept ==
    ASSUME Credentials, NEW p \in Requests, CleanupCredentials(p)
    PROVE  CredentialsKept(p)
<1>1. ASSUME NEW sessions, NEW resets, NEW tables,
             tables = [db EXCEPT !.sessions = Without(@, sessions), !.resets = Without(@, resets),
                                 !.invitations = Without(@, {i \in DOMAIN @ : @[i].accepted})],
             Commit(p, Deleting(tables), <<>>)
      PROVE  CredentialsKept(p)
  <2>1. /\ DOMAIN tables = TableNames /\ tables.gone = db.gone
        /\ tables.accounts = db.accounts /\ tables.runtime = db.runtime
        /\ tables.sessions = Without(db.sessions, sessions)
        /\ tables.invitations =
              Without(db.invitations, {i \in DOMAIN db.invitations : db.invitations[i].accepted})
    BY <1>1 DEF Credentials, Ready, Typed, TableNames
  <2> DEFINE deleted == Deleting(tables)
  <2>2. /\ db.gone \subseteq deleted.gone /\ deleted.accounts = tables.accounts
        /\ deleted.runtime = tables.runtime /\ deleted.sessions = tables.sessions
        /\ deleted.invitations = tables.invitations
        /\ DOMAIN db.invitations \subseteq DOMAIN tables.invitations \cup deleted.gone
    BY <2>1, DeletingTables, DeletedAreGone DEF TableNames, RowTables
  <2>3. Commit(p, deleted, <<>>)
    BY <1>1
  <2> HIDE DEF deleted
  <2>4. db' = deleted /\ request'[p].op \in {"none", "announce"}
    BY <2>3, Committing DEF Credentials, Ready
  <2>5. /\ db'.accounts = db.accounts /\ db'.runtime = db.runtime /\ db.gone \subseteq db'.gone
        /\ db'.sessions = Without(db.sessions, sessions)
        /\ DOMAIN db.invitations \subseteq DOMAIN db'.invitations \cup db'.gone
        /\ db'.invitations =
              Without(db.invitations, {i \in DOMAIN db.invitations : db.invitations[i].accepted})
    BY <2>1, <2>2, <2>4
  <2>6. /\ DOMAIN db'.invitations =
              {i \in DOMAIN db.invitations : ~db.invitations[i].accepted}
        /\ \A i \in DOMAIN db'.invitations : db'.invitations[i] = db.invitations[i]
    BY <2>5 DEF Without
  <2>7. CredentialsStay
    BY <2>5, <2>6 DEF CredentialsStay
  <2>8. InvitationsOK(db')
    <3>1. \A i, a : i \in DOMAIN db'.invitations /\ Waiting(db', i, a)
                   <=> i \in DOMAIN db.invitations /\ Waiting(db, i, a)
      BY <2>5, <2>6 DEF Waiting
    <3>2. \A i \in DOMAIN db'.invitations :
             i \in DOMAIN db.invitations /\ db'.invitations[i] = db.invitations[i]
      BY <2>6
    <3>3. InvitationsOK(db)
      BY DEF Credentials
    <3>4. QED BY <2>5, <3>1, <3>2, <3>3 DEF InvitationsOK
  <2>9. SessionsOK(db')
    BY <2>5 DEF Credentials, SessionsOK, Without
  <2>10. CredentialArgs(request'[p], db')
    BY <2>4, CredentialsArgless DEF CredentialOps, Creating
  <2>11. QED BY <2>7, <2>8, <2>9, <2>10 DEF CredentialsKept
<1>2. CASE Begin(p, "auth.cleanup", db.today)
  <2>1. "auth.cleanup" \notin CredentialOps
    BY DEF CredentialOps, Creating
  <2>2. QED BY <1>2, <2>1, CredentialsCalled
<1>3. QED BY <1>1, <1>2 DEF CleanupCredentials

LEMMA ForgotCredentials ==
    ASSUME Credentials, NEW p \in Requests, ForgotPassword(p)
    PROVE  CredentialsKept(p)
<1>1. \/ TurnedAway(p, ByAddress("forgot-password"))
      \/ \E scope, arg : CallCounted(p, scope, "auth.forgot", arg)
      \/ Reject(p)
      \/ \E v, events : Commit(p, [db EXCEPT !.resets = v], events)
  BY DEF ForgotPassword, CommitIf
<1>2. CASE \E v, events : Commit(p, [db EXCEPT !.resets = v], events)
  BY <1>2, WritingAside, CredentialsWritten DEF Credentials, Ready, Typed
<1>3. CASE \E scope, arg : CallCounted(p, scope, "auth.forgot", arg)
  <2>1. "auth.forgot" \notin CredentialOps
    BY DEF CredentialOps, Creating
  <2>2. QED BY <1>3, <2>1, CredentialsCalled
<1>4. QED BY <1>1, <1>2, <1>3, CredentialsTurnedAway, CredentialsContinued

LEMMA RolesCredentials ==
    ASSUME Credentials, NEW p \in Requests, CreateRole(p) \/ UpdateRole(p)
    PROVE  CredentialsKept(p)
<1>1. \/ \E op \in {"role.create", "role.update"} : \E arg : Begin(p, op, arg)
      \/ Reject(p)
      \/ \E v : Commit(p, [db EXCEPT !.roles = v], <<>>)
  BY DEF CreateRole, UpdateRole, CommitIf
<1>2. CASE \E v : Commit(p, [db EXCEPT !.roles = v], <<>>)
  BY <1>2, WritingAside, CredentialsWritten DEF Credentials, Ready, Typed
<1>3. CASE \E op \in {"role.create", "role.update"} : \E arg : Begin(p, op, arg)
  <2>1. "role.create" \notin CredentialOps /\ "role.update" \notin CredentialOps
    BY DEF CredentialOps, Creating
  <2>2. QED BY <1>3, <2>1, CredentialsCalled
<1>4. QED BY <1>1, <1>2, <1>3, CredentialsContinued

LEMMA NextPasswordIsOne ==
    ASSUME Typed, NEW a \in DOMAIN db.accounts
    PROVE  NextPassword(a) # None
<1>1. db.accounts[a].password \in OrNone(Nat)
  BY DEF Typed, RowsOK, AccountRowsOK, RowsOf, AccountRow
<1>2. None \notin Nat
  BY AttachmentsAssumption DEF AttachmentsAssumption
<1>3. QED BY <1>1, <1>2 DEF NextPassword, OrNone

\* Accounts with a password that change, and their sessions.
LEMMA AccountReplaced ==
    ASSUME Credentials, db.runtime # "demo", NEW a, NEW row,
           a \in DOMAIN db.accounts =>
              /\ db.accounts[a].password # None /\ row.password # None
              /\ row.org = db.accounts[a].org /\ row.email = db.accounts[a].email,
           db'.accounts = [db.accounts EXCEPT ![a] = row],
           db'.invitations = db.invitations, db'.runtime = db.runtime, db.gone \subseteq db'.gone
    PROVE  CredentialsStay /\ InvitationsOK(db')
<1>1. /\ DOMAIN db'.accounts = DOMAIN db.accounts
      /\ \A x \in DOMAIN db.accounts :
            /\ db'.accounts[x].org = db.accounts[x].org
            /\ db'.accounts[x].email = db.accounts[x].email
            /\ db'.accounts[x].password = None <=> db.accounts[x].password = None
            /\ db'.accounts[x] = db.accounts[x] \/ db'.accounts[x].password # None
  OBVIOUS
<1>2. CredentialsStay
  BY <1>1 DEF CredentialsStay
<1>3. \A i, x : x \in DOMAIN db.accounts => (Waiting(db', i, x) <=> Waiting(db, i, x))
  BY <1>1 DEF Waiting
<1>4. InvitationsOK(db)
  BY DEF Credentials
<1>5. InvitationsOK(db')
  BY <1>1, <1>3, <1>4 DEF InvitationsOK
<1>6. QED BY <1>2, <1>5

LEMMA ResetCredentials ==
    ASSUME Credentials, NEW p \in Requests, ResetPassword(p)
    PROVE  CredentialsKept(p)
<1>1. CASE ~At(p, "auth.reset")
  <2>1. CASE TurnedAway(p, ByAddress("reset-password"))
    BY <2>1, CredentialsTurnedAway
  <2>2. ASSUME NEW r \in DOMAIN db.resets,
               db.accounts[db.resets[r].account].status = "ACTIVE",
               Open(<<"Auth", "resetPassword">>),
               CallCounted(p, ByAddress("reset-password"), "auth.reset",
                   [reset |-> r, account |-> db.resets[r].account])
        PROVE  CredentialsKept(p)
    <3> DEFINE a == db.resets[r].account
    <3>1. a \in DOMAIN db.accounts
      BY DEF Credentials, Ready, Typed, AccountReferencesOK
    <3>2. db.accounts[a].password # None
      BY <2>2, <3>1 DEF Credentials, InvitationsOK
    <3>3. db.runtime # "demo"
      BY <2>2 DEF Open, DemoBlocks, Runtime
    <3> DEFINE arg == [reset |-> r, account |-> a]
    <3>4. arg.account = a
      OBVIOUS
    <3>5. CallCounted(p, ByAddress("reset-password"), "auth.reset", arg)
      BY <2>2
    <3> HIDE DEF arg, a
    <3>6. CredentialArgs([op |-> "auth.reset", arg |-> arg], db)
      BY <3>1, <3>2, <3>3, <3>4 DEF CredentialArgs, Recalled, Creating
    <3>7. QED BY <3>5, <3>6, CredentialsBegun
  <2>3. QED BY <1>1, <2>1, <2>2 DEF ResetPassword
<1>2. CASE At(p, "auth.reset")
  <2> DEFINE a == Arg(p).account
             r == Arg(p).reset
             row == [db.accounts[a] EXCEPT !.password = NextPassword(a)]
             accounts == [db.accounts EXCEPT ![a] = row]
             sessions == Revoked(SessionsOf(a))
             tables == [PasswordReset(a) EXCEPT !.resets[r].used = TRUE]
  <2>1. Reject(p) \/ Commit(p, tables, <<>>)
    BY <1>2 DEF ResetPassword, CommitIf, Called, At
  <2>2. ASSUME Commit(p, tables, <<>>)
        PROVE  CredentialsKept(p)
    <3>1. /\ DOMAIN tables = TableNames
          /\ tables.accounts = accounts /\ tables.sessions = sessions
          /\ tables.invitations = db.invitations /\ tables.runtime = db.runtime
          /\ tables.gone = db.gone
      BY DEF Credentials, Ready, Typed, TableNames, PasswordReset
    <3>2. db.runtime # "demo" /\ (a \in DOMAIN db.accounts => db.accounts[a].password # None)
      BY <1>2 DEF At, Arg, Credentials, CredentialArgs
    <3>3. a \in DOMAIN db.accounts => /\ row.password # None /\ row.org = db.accounts[a].org
                                      /\ row.email = db.accounts[a].email
                                      /\ row.status = db.accounts[a].status
      BY NextPasswordIsOne DEF Credentials, Ready, Typed, RowsOK, AccountRowsOK, RowsOf, AccountRow
    <3>4. /\ DOMAIN sessions = DOMAIN db.sessions
          /\ \A s \in DOMAIN db.sessions :
                /\ sessions[s].account = db.sessions[s].account
                /\ sessions[s].password = db.sessions[s].password
                /\ sessions[s].raced = db.sessions[s].raced
                /\ (sessions[s].revoked <=> db.sessions[s].account = a \/ db.sessions[s].revoked)
      BY RevokedSessions DEF Credentials, Ready, SessionsOf, CallerAccount
    <3> HIDE DEF tables, sessions, a, r, row
    <3>5. db' = tables /\ request'[p].op \in {"none", "announce"}
      BY <2>2, Committing DEF Credentials, Ready
    <3>6. CredentialsStay /\ InvitationsOK(db')
      BY <3>1, <3>2, <3>3, <3>5, AccountReplaced, SMTT(40)
    <3>7. \A x \in DOMAIN db.accounts \ {a} : db'.accounts[x] = db.accounts[x]
      BY <3>1, <3>5
    <3>8. \A s \in DOMAIN db.sessions : db.sessions[s].account \in DOMAIN db.accounts
      BY DEF Credentials, Ready, Typed, AccountReferencesOK
    <3>9. SessionsOK(db')
      BY <3>1, <3>4, <3>5, <3>7, <3>8 DEF Credentials, SessionsOK
    <3>10. QED BY <3>5, <3>6, <3>9, CredentialsArgless DEF CredentialsKept, CredentialOps, Creating
  <2>3. QED BY <2>1, <2>2, CredentialsContinued
<1>3. QED BY <1>1, <1>2

LEMMA UsersBlocked ==
    ASSUME NEW route \in {<<"Users", "update">>, <<"Users", "acceptInvitation">>}
    PROVE  DemoBlocks(route)
<1>1. RouteOf(<<"Users", "update">>).method = "PATCH"
  BY DEF RouteOf, Routes, UsersRoutes, Change, Route
<1>2. RouteOf(<<"Users", "acceptInvitation">>).method = "POST"
  BY DEF RouteOf, Routes, UsersRoutes, Post, Route
<1>3. QED BY <1>1, <1>2 DEF DemoBlocks, Mutates

LEMMA UpdateUserCredentials ==
    ASSUME Credentials, NEW p \in Requests, UpdateUser(p)
    PROVE  CredentialsKept(p)
<1>1. CASE ~At(p, "user.update")
  <2>1. PICK s \in Callers(<<"Users", "update">>) : \E a \in AccountsOf(CallerOrg(s)) : \E change :
             /\ db.accounts[a].status = "INVITED" => change = <<>>
             /\ Begin(p, "user.update", [account |-> a, change |-> change])
    BY <1>1 DEF UpdateUser
  <2>2. PICK a \in AccountsOf(CallerOrg(s)) : \E change :
             /\ db.accounts[a].status = "INVITED" => change = <<>>
             /\ Begin(p, "user.update", [account |-> a, change |-> change])
    BY <2>1
  <2>3. PICK change :
             /\ db.accounts[a].status = "INVITED" => change = <<>>
             /\ Begin(p, "user.update", [account |-> a, change |-> change])
    BY <2>2
  <2>4. db.runtime # "demo"
    BY UsersBlocked DEF Callers, Runtime
  <2>5. a \in DOMAIN db.accounts
    BY DEF AccountsOf
  <2>6. "status" \in DOMAIN change => db.accounts[a].password # None
    BY <2>3, <2>5 DEF Credentials, InvitationsOK
  <2> DEFINE arg == [account |-> a, change |-> change]
  <2>7. arg.account = a /\ arg.change = change
    OBVIOUS
  <2>8. Begin(p, "user.update", arg)
    BY <2>3
  <2> HIDE DEF arg
  <2>9. CredentialArgs([op |-> "user.update", arg |-> arg], db)
    BY <2>4, <2>5, <2>6, <2>7 DEF CredentialArgs, Recalled, Creating
  <2>10. QED BY <2>8, <2>9, CredentialsBegun
<1>2. CASE At(p, "user.update")
  <2> DEFINE a == Arg(p).account
             change == Arg(p).change
             status == Given(change, "status", db.accounts[a].status)
             roles == IF "role" \in DOMAIN change THEN {change.role} ELSE db.accounts[a].roles
             closed == Given(change, "status", "ACTIVE") \in {"DISABLED", "SUSPENDED"}
             row == [db.accounts[a] EXCEPT !.status = status, !.roles = roles]
             sessions == IF closed THEN Revoked(SessionsOf(a)) ELSE db.sessions
             tables == [db EXCEPT !.accounts[a] = row, !.sessions = sessions]
  <2>1. Reject(p) \/ (a \in DOMAIN db.accounts /\ Commit(p, tables, <<>>))
    BY <1>2 DEF UpdateUser, CommitIf, Called, At, UserUpdated
  <2>2. ASSUME a \in DOMAIN db.accounts, Commit(p, tables, <<>>)
        PROVE  CredentialsKept(p)
    <3>1. /\ DOMAIN tables = TableNames
          /\ tables.accounts = [db.accounts EXCEPT ![a] = row] /\ tables.sessions = sessions
          /\ tables.invitations = db.invitations /\ tables.runtime = db.runtime
          /\ tables.gone = db.gone
      BY DEF Credentials, Ready, Typed, TableNames
    <3>2. /\ db.runtime # "demo"
          /\ "status" \in DOMAIN change => db.accounts[a].password # None
      BY <1>2, <2>2 DEF At, Arg, Credentials, CredentialArgs
    <3>3. /\ row.org = db.accounts[a].org /\ row.email = db.accounts[a].email
          /\ row.password = db.accounts[a].password /\ row.status = status
      BY <2>2 DEF Credentials, Ready, Typed, RowsOK, AccountRowsOK, RowsOf, AccountRow
    <3>4. /\ DOMAIN sessions = DOMAIN db.sessions
          /\ \A s \in DOMAIN db.sessions :
                /\ sessions[s].account = db.sessions[s].account
                /\ sessions[s].password = db.sessions[s].password
                /\ sessions[s].raced = db.sessions[s].raced
                /\ db.sessions[s].revoked => sessions[s].revoked
                /\ closed /\ db.sessions[s].account = a => sessions[s].revoked
      BY RevokedSessions DEF Credentials, Ready, SessionsOf, CallerAccount
    <3>5. \/ "status" \in DOMAIN change /\ db.accounts[a].password # None
          \/ "status" \notin DOMAIN change /\ status = db.accounts[a].status
      BY <3>2 DEF Given
    <3>6. closed \/ status = db.accounts[a].status \/ status \notin {"DISABLED", "SUSPENDED"}
      BY DEF Given
    <3> HIDE DEF tables, sessions, status, closed, row
    <3>7. db' = tables /\ request'[p].op \in {"none", "announce"}
      BY <2>2, Committing DEF Credentials, Ready
    <3>8. CredentialsStay /\ InvitationsOK(db')
      <4>1. CASE db.accounts[a].password # None
        BY <3>1, <3>2, <3>3, <3>7, <4>1, AccountReplaced
      <4>2. CASE db.accounts[a].password = None
        <5>1. status = db.accounts[a].status
          BY <3>5, <4>2
        <5>2. /\ DOMAIN db'.accounts = DOMAIN db.accounts
              /\ \A x \in DOMAIN db.accounts :
                    /\ db'.accounts[x].org = db.accounts[x].org
                    /\ db'.accounts[x].email = db.accounts[x].email
                    /\ db'.accounts[x].password = db.accounts[x].password
                    /\ db'.accounts[x].status = db.accounts[x].status
          BY <3>1, <3>3, <3>7, <5>1
        <5>3. db'.invitations = db.invitations /\ db'.runtime = db.runtime /\ db'.gone = db.gone
          BY <3>1, <3>7
        <5>4. CredentialsStay
          BY <5>2, <5>3 DEF CredentialsStay
        <5>5. \A i, x : x \in DOMAIN db.accounts => (Waiting(db', i, x) <=> Waiting(db, i, x))
          BY <5>2, <5>3 DEF Waiting
        <5>6. InvitationsOK(db)
          BY DEF Credentials
        <5>7. InvitationsOK(db')
          BY <5>2, <5>3, <5>5, <5>6 DEF InvitationsOK
        <5>8. QED BY <5>4, <5>7
      <4>3. QED BY <4>1, <4>2
    <3>9. /\ \A x \in DOMAIN db.accounts \ {a} : db'.accounts[x] = db.accounts[x]
          /\ db'.accounts[a] = row
      BY <2>2, <3>1, <3>7
    <3>10. \A s \in DOMAIN db.sessions : db.sessions[s].account \in DOMAIN db.accounts
      BY DEF Credentials, Ready, Typed, AccountReferencesOK
    <3>11. SessionsOK(db')
      BY <3>1, <3>3, <3>4, <3>6, <3>7, <3>9, <3>10 DEF Credentials, SessionsOK
    <3>12. QED BY <3>7, <3>8, <3>11, CredentialsArgless DEF CredentialsKept, CredentialOps, Creating
  <2>3. QED BY <2>1, <2>2, CredentialsContinued
<1>3. QED BY <1>1, <1>2

LEMMA InviteCredentials ==
    ASSUME Credentials, NEW p \in Requests, Invite(p)
    PROVE  CredentialsKept(p)
<1>1. CASE ~At(p, "user.invite")
  <2>1. \E arg : Begin(p, "user.invite", arg)
    BY <1>1 DEF Invite
  <2>2. "user.invite" \notin CredentialOps
    BY DEF CredentialOps, Creating
  <2>3. QED BY <2>1, <2>2, CredentialsCalled
<1>2. CASE At(p, "user.invite")
  <2> DEFINE arg == Arg(p)
             a == Fresh(Unused(Accounts), db.accounts)
             i == Fresh(Unused(Invitations), db.invitations)
             account == [org |-> arg.org, email |-> arg.email, status |-> "INVITED",
                         password |-> None, roles |-> {}]
             invitation == Over(arg, [expires |-> db.today + TokenDays, accepted |-> FALSE,
                                      token |-> 0])
             tables == [db EXCEPT !.accounts = Insert(@, a, account),
                                  !.invitations = Insert(@, i, invitation)]
             events == <<<<"email.invitation", i>>>>
  <2>1. /\ HasRoom(Unused(Accounts), db.accounts) /\ HasRoom(Unused(Invitations), db.invitations)
        /\ Reject(p) \/ (EmailFree(arg.email) /\ Commit(p, tables, events))
    BY <1>2 DEF Invite, CommitIf, Called, At
  <2>2. ASSUME EmailFree(arg.email), Commit(p, tables, events)
        PROVE  CredentialsKept(p)
    <3>1. /\ a \notin DOMAIN db.accounts /\ a \notin db.gone
          /\ i \notin DOMAIN db.invitations /\ i \notin db.gone
      BY <2>1, Choosing
    <3>2. /\ account.email = arg.email /\ account.org = arg.org
          /\ account.status = "INVITED" /\ account.password = None
      OBVIOUS
    <3>3. /\ invitation.email = arg.email /\ invitation.org = arg.org /\ ~invitation.accepted
      <4>1. arg \in [org : Orgs, email : Emails, role : Roles]
        BY <1>2 DEF At, Arg, Credentials, Ready, ArgsOK, AccountArgs
      <4>2. QED BY <4>1 DEF Over
    <3> HIDE DEF account, invitation, a, i, events
    <3>4. db' = tables /\ request'[p].op \in {"none", "announce"}
      BY <2>2, Committing DEF Credentials, Ready
    <3>5. /\ db'.accounts = Insert(db.accounts, a, account)
          /\ db'.invitations = Insert(db.invitations, i, invitation)
          /\ db'.runtime = db.runtime /\ db'.gone = db.gone /\ db'.sessions = db.sessions
      BY <3>4 DEF Credentials, Ready, Typed, TableNames
    <3> HIDE DEF tables, arg
    <3>6. /\ DOMAIN db'.accounts = DOMAIN db.accounts \cup {a}
          /\ \A x \in DOMAIN db.accounts : db'.accounts[x] = db.accounts[x]
          /\ db'.accounts[a] = account
          /\ DOMAIN db'.invitations = DOMAIN db.invitations \cup {i}
          /\ \A x \in DOMAIN db.invitations : db'.invitations[x] = db.invitations[x]
          /\ db'.invitations[i] = invitation
      BY <3>1, <3>5 DEF Insert
    <3>7. CredentialsStay
      BY <3>1, <3>5, <3>6 DEF CredentialsStay
    <3>8. InvitationsOK(db')
      <4>1. InvitationsOK(db) /\ \A x \in DOMAIN db.accounts : db.accounts[x].email # arg.email
        BY <2>2 DEF Credentials, EmailFree
      <4>2. \A x \in DOMAIN db.accounts : \A j \in DOMAIN db.invitations :
               Waiting(db', j, x) <=> Waiting(db, j, x)
        BY <3>6 DEF Waiting
      <4>3. \A x \in DOMAIN db.accounts : ~Waiting(db', i, x)
        BY <3>3, <3>6, <4>1 DEF Waiting
      <4>4. Waiting(db', i, a)
        BY <3>2, <3>3, <3>6 DEF Waiting
      <4>5. \A j \in DOMAIN db.invitations : ~Waiting(db', j, a)
        <5>1. \A j \in DOMAIN db.invitations : db.invitations[j].accepted
                                               \/ db.invitations[j].email # arg.email
          BY <4>1 DEF InvitationsOK, Waiting
        <5>2. QED BY <3>2, <3>6, <5>1 DEF Waiting
      <4>6. \A x, y \in DOMAIN db'.accounts :
               db'.accounts[x].email = db'.accounts[y].email => x = y
        BY <3>2, <3>6, <4>1 DEF InvitationsOK
      <4>7. ASSUME NEW x \in DOMAIN db'.accounts
            PROVE  /\ db'.accounts[x].password = None =>
                         \E j \in DOMAIN db'.invitations : Waiting(db', j, x)
                   /\ db'.accounts[x].status # "INVITED" => db'.accounts[x].password # None
                   /\ \A j, k \in DOMAIN db'.invitations :
                         Waiting(db', j, x) /\ Waiting(db', k, x) => j = k
        <5>1. CASE x = a
          BY <5>1, <3>2, <3>6, <4>4, <4>5
        <5>2. CASE x \in DOMAIN db.accounts
          BY <5>2, <3>6, <4>1, <4>2, <4>3 DEF InvitationsOK
        <5>3. QED BY <3>6, <5>1, <5>2
      <4>8. ASSUME NEW j \in DOMAIN db'.invitations
            PROVE  \/ db'.invitations[j].accepted
                   \/ \E x \in DOMAIN db'.accounts :
                         db'.accounts[x].password = None /\ Waiting(db', j, x)
        <5>1. CASE j = i
          BY <5>1, <3>2, <3>6, <4>4
        <5>2. CASE j \in DOMAIN db.invitations
          BY <5>2, <3>6, <4>1, <4>2 DEF InvitationsOK
        <5>3. QED BY <3>6, <5>1, <5>2
      <4>9. QED BY <4>6, <4>7, <4>8 DEF InvitationsOK
    <3>9. SessionsOK(db')
      <4>1. \A s \in DOMAIN db.sessions : db.sessions[s].account \in DOMAIN db.accounts
        BY DEF Credentials, Ready, Typed, AccountReferencesOK
      <4>2. QED BY <3>5, <3>6, <4>1 DEF Credentials, SessionsOK
    <3>10. QED BY <3>4, <3>7, <3>8, <3>9, CredentialsArgless
               DEF CredentialsKept, CredentialOps, Creating
  <2>3. QED BY <2>1, <2>2, CredentialsContinued
<1>3. QED BY <1>1, <1>2

LEMMA ResendCredentials ==
    ASSUME Credentials, NEW p \in Requests, ResendInvitation(p)
    PROVE  CredentialsKept(p)
<1>1. CASE ~At(p, "user.resend")
  <2>1. \E arg : Begin(p, "user.resend", arg)
    BY <1>1 DEF ResendInvitation
  <2>2. "user.resend" \notin CredentialOps
    BY DEF CredentialOps, Creating
  <2>3. QED BY <2>1, <2>2, CredentialsCalled
<1>2. CASE At(p, "user.resend")
  <2> DEFINE i == Arg(p)
             row == [db.invitations[i] EXCEPT !.expires = db.today + TokenDays,
                                              !.token = db.invitations[i].token + 1]
             tables == [db EXCEPT !.invitations[i] = row]
             events == <<<<"email.invitation", i>>>>
  <2>1. Reject(p) \/ (i \in DOMAIN db.invitations /\ Commit(p, tables, events))
    BY <1>2 DEF ResendInvitation, CommitIf, Called, At
  <2>2. ASSUME i \in DOMAIN db.invitations, Commit(p, tables, events)
        PROVE  CredentialsKept(p)
    <3>1. /\ row.email = db.invitations[i].email /\ row.org = db.invitations[i].org
          /\ row.accepted = db.invitations[i].accepted
      BY <2>2 DEF Credentials, Ready, Typed, RowsOK, AccountRowsOK, RowsOf, InvitationRow
    <3> HIDE DEF row, i, events
    <3>2. db' = tables /\ request'[p].op \in {"none", "announce"}
      BY <2>2, Committing DEF Credentials, Ready
    <3>3. /\ db'.invitations = [db.invitations EXCEPT ![i] = row]
          /\ db'.accounts = db.accounts
          /\ db'.runtime = db.runtime /\ db'.gone = db.gone /\ db'.sessions = db.sessions
      BY <3>2 DEF Credentials, Ready, Typed, TableNames
    <3>4. /\ DOMAIN db'.invitations = DOMAIN db.invitations
          /\ \A j \in DOMAIN db.invitations :
                /\ db'.invitations[j].email = db.invitations[j].email
                /\ db'.invitations[j].org = db.invitations[j].org
                /\ db'.invitations[j].accepted = db.invitations[j].accepted
      BY <3>1, <3>3
    <3>5. CredentialsStay
      BY <3>3, <3>4 DEF CredentialsStay
    <3>6. \A x : \A j \in DOMAIN db.invitations : Waiting(db', j, x) <=> Waiting(db, j, x)
      BY <3>3, <3>4 DEF Waiting
    <3>7. InvitationsOK(db') /\ SessionsOK(db')
      BY <3>3, <3>4, <3>6 DEF Credentials, InvitationsOK, SessionsOK
    <3>8. QED BY <3>2, <3>5, <3>7, CredentialsArgless DEF CredentialsKept, CredentialOps, Creating
  <2>3. QED BY <2>1, <2>2, CredentialsContinued
<1>3. QED BY <1>1, <1>2

LEMMA CancelCredentials ==
    ASSUME Credentials, NEW p \in Requests, CancelInvitation(p)
    PROVE  CredentialsKept(p)
<1>1. CASE ~At(p, "user.cancel")
  <2>1. PICK s \in Callers(<<"Users", "cancelInvitation">>) : \E a \in Invited(s) :
             Begin(p, "user.cancel",
                [account |-> a, org |-> OrgOf(a), email |-> db.accounts[a].email])
    BY <1>1 DEF CancelInvitation
  <2>2. PICK a \in Invited(s) :
             Begin(p, "user.cancel",
                [account |-> a, org |-> OrgOf(a), email |-> db.accounts[a].email])
    BY <2>1
  <2>3. a \in DOMAIN db.accounts
    BY DEF Invited, AccountsOf
  <2> DEFINE arg == [account |-> a, org |-> OrgOf(a), email |-> db.accounts[a].email]
  <2>4. /\ arg.account = a /\ arg.org = db.accounts[a].org /\ arg.email = db.accounts[a].email
        /\ Begin(p, "user.cancel", arg)
    BY <2>2 DEF OrgOf
  <2> HIDE DEF arg
  <2>5. CredentialArgs([op |-> "user.cancel", arg |-> arg], db)
    BY <2>3, <2>4 DEF CredentialArgs, Recalled, Creating
  <2>6. QED BY <2>4, <2>5, CredentialsBegun
<1>2. CASE At(p, "user.cancel")
  <2> DEFINE a == Arg(p).account
             pending == Pending(Arg(p).org, Arg(p).email)
             tables == [db EXCEPT
                          !.invitations = Without(@, pending), !.accounts = Without(@, {a}),
                          !.sessions = Without(@, SessionsOf(a)),
                          !.resets = Without(@, {r \in DOMAIN @ : @[r].account = a})]
             deleted == Deleting(tables)
  <2>1. Reject(p) \/ (CancelStillPending(Arg(p)) /\ Commit(p, deleted, <<>>))
    BY <1>2 DEF CancelInvitation, CommitIf, Called, At
  <2>2. ASSUME CancelStillPending(Arg(p)), Commit(p, deleted, <<>>)
        PROVE  CredentialsKept(p)
    <3>1. /\ DOMAIN tables = TableNames /\ tables.gone = db.gone
          /\ tables.accounts = Without(db.accounts, {a}) /\ tables.runtime = db.runtime
          /\ tables.sessions = Without(db.sessions, SessionsOf(a))
          /\ tables.invitations = Without(db.invitations, pending)
      BY DEF Credentials, Ready, Typed, TableNames
    <3> HIDE DEF tables
    <3>2. /\ db.gone \subseteq deleted.gone /\ deleted.accounts = tables.accounts
          /\ deleted.runtime = tables.runtime /\ deleted.sessions = tables.sessions
          /\ deleted.invitations = tables.invitations
          /\ DOMAIN db.invitations \subseteq DOMAIN tables.invitations \cup deleted.gone
          /\ DOMAIN db.accounts \subseteq DOMAIN tables.accounts \cup deleted.gone
      BY <3>1, DeletingTables, DeletedAreGone DEF TableNames, RowTables
    <3>3. /\ a \in DOMAIN db.accounts /\ db.accounts[a].org = Arg(p).org
          /\ db.accounts[a].email = Arg(p).email
      BY <1>2, <2>2 DEF At, Arg, Credentials, CredentialArgs, CancelStillPending
    <3>4. pending = {i \in DOMAIN db.invitations : Waiting(db, i, a)}
      BY <3>3 DEF Pending, Waiting
    <3> HIDE DEF deleted, pending, a
    <3>5. db' = deleted /\ request'[p].op \in {"none", "announce"}
      BY <2>2, Committing DEF Credentials, Ready
    <3>6. /\ DOMAIN db'.accounts = DOMAIN db.accounts \ {a}
          /\ \A x \in DOMAIN db'.accounts : db'.accounts[x] = db.accounts[x]
          /\ DOMAIN db'.invitations = DOMAIN db.invitations \ pending
          /\ \A i \in DOMAIN db'.invitations : db'.invitations[i] = db.invitations[i]
          /\ DOMAIN db'.sessions = DOMAIN db.sessions \ SessionsOf(a)
          /\ \A s \in DOMAIN db'.sessions : db'.sessions[s] = db.sessions[s]
          /\ db'.runtime = db.runtime /\ db.gone \subseteq db'.gone
          /\ DOMAIN db.invitations \subseteq DOMAIN db'.invitations \cup db'.gone
          /\ DOMAIN db.accounts \subseteq DOMAIN db'.accounts \cup db'.gone
      BY <3>1, <3>2, <3>5 DEF Without
    <3>7. CredentialsStay
      BY <3>6 DEF CredentialsStay
    <3>8. InvitationsOK(db')
      <4>1. InvitationsOK(db)
        BY DEF Credentials
      <4>2. \A i \in DOMAIN db'.invitations : \A x \in DOMAIN db'.accounts :
               Waiting(db', i, x) <=> Waiting(db, i, x)
        BY <3>6 DEF Waiting
      <4>3. \A i \in DOMAIN db.invitations : \A x \in DOMAIN db.accounts :
               Waiting(db, i, x) /\ i \in pending => x = a
        BY <3>3, <3>4, <4>1 DEF Waiting, InvitationsOK
      <4>4. ASSUME NEW x \in DOMAIN db'.accounts
            PROVE  /\ db'.accounts[x].password = None =>
                         \E j \in DOMAIN db'.invitations : Waiting(db', j, x)
                   /\ db'.accounts[x].status # "INVITED" => db'.accounts[x].password # None
                   /\ \A j, k \in DOMAIN db'.invitations :
                         Waiting(db', j, x) /\ Waiting(db', k, x) => j = k
        BY <3>6, <4>1, <4>2, <4>3 DEF InvitationsOK
      <4>5. ASSUME NEW i \in DOMAIN db'.invitations, ~db'.invitations[i].accepted
            PROVE  \E x \in DOMAIN db'.accounts :
                      db'.accounts[x].password = None /\ Waiting(db', i, x)
        <5>1. PICK x \in DOMAIN db.accounts :
                 db.accounts[x].password = None /\ Waiting(db, i, x)
          BY <3>6, <4>1, <4>5 DEF InvitationsOK
        <5>2. x # a
          BY <3>4, <3>6, <5>1
        <5>3. QED BY <3>6, <4>2, <5>1, <5>2
      <4>6. \A x, y \in DOMAIN db'.accounts :
               db'.accounts[x].email = db'.accounts[y].email => x = y
        BY <3>6, <4>1 DEF InvitationsOK
      <4>7. QED BY <4>4, <4>5, <4>6 DEF InvitationsOK
    <3>9. SessionsOK(db')
      <4>1. \A s \in DOMAIN db'.sessions :
               /\ s \in DOMAIN db.sessions
               /\ db.sessions[s].account \in DOMAIN db.accounts \ {a}
        BY <3>6 DEF Credentials, Ready, Typed, AccountReferencesOK, SessionsOf, CallerAccount
      <4>2. QED BY <3>6, <4>1 DEF Credentials, SessionsOK
    <3>10. QED BY <3>5, <3>7, <3>8, <3>9, CredentialsArgless
               DEF CredentialsKept, CredentialOps, Creating
  <2>3. QED BY <2>1, <2>2, CredentialsContinued
<1>3. QED BY <1>1, <1>2

LEMMA AcceptCredentials ==
    ASSUME Credentials, NEW p \in Requests, AcceptInvitation(p) \/ ValidateInvitation(p)
    PROVE  CredentialsKept(p)
<1>1. CASE TurnedAway(p, ByAddress("invitation"))
  BY <1>1, CredentialsTurnedAway
<1>2. ASSUME NEW i \in DOMAIN db.invitations, NEW a \in DOMAIN db.accounts,
             Open(<<"Users", "acceptInvitation">>),
             db.accounts[a].email = db.invitations[i].email, OrgOf(a) = db.invitations[i].org,
             CallCounted(p, ByAddress("invitation"), "user.accept",
                   [invitation |-> i, token |-> db.invitations[i].token, account |-> a,
                    role |-> db.invitations[i].role])
      PROVE  CredentialsKept(p)
  <2> DEFINE arg == [invitation |-> i, token |-> db.invitations[i].token, account |-> a,
                     role |-> db.invitations[i].role]
  <2>1. arg.invitation = i /\ arg.account = a
        /\ CallCounted(p, ByAddress("invitation"), "user.accept", arg)
    BY <1>2
  <2> HIDE DEF arg
  <2>2. db.runtime # "demo"
    BY <1>2, UsersBlocked DEF Open, Runtime
  <2>3. CredentialArgs([op |-> "user.accept", arg |-> arg], db)
    BY <1>2, <2>1, <2>2 DEF CredentialArgs, Recalled, Creating, OrgOf
  <2>4. QED BY <2>1, <2>3, CredentialsBegun
<1>3. CASE At(p, "user.accept") /\ AcceptInvitation(p)
  <2> DEFINE i == Arg(p).invitation
             a == Arg(p).account
             account == [db.accounts[a] EXCEPT !.status = "ACTIVE", !.password = NextPassword(a),
                                               !.roles = db.accounts[a].roles \cup {Arg(p).role}]
             invitation == [db.invitations[i] EXCEPT !.accepted = TRUE]
             tables == [db EXCEPT !.invitations[i].accepted = TRUE, !.accounts[a] = account]
  <2>1. \/ Reject(p)
        \/ /\ i \in DOMAIN db.invitations /\ Acceptable(i) /\ a \in DOMAIN db.accounts
           /\ Commit(p, tables, <<>>)
    BY <1>3 DEF AcceptInvitation, CommitIf, Called, At
  <2>2. ASSUME i \in DOMAIN db.invitations, Acceptable(i), a \in DOMAIN db.accounts,
               Commit(p, tables, <<>>)
        PROVE  CredentialsKept(p)
    <3>1. /\ tables.invitations = [db.invitations EXCEPT ![i] = invitation]
          /\ tables.accounts = [db.accounts EXCEPT ![a] = account]
          /\ tables.sessions = db.sessions /\ tables.runtime = db.runtime /\ tables.gone = db.gone
      BY DEF Credentials, Ready, Typed, TableNames
    <3>2. /\ account.org = db.accounts[a].org /\ account.email = db.accounts[a].email
          /\ account.password # None
      BY <2>2, NextPasswordIsOne
         DEF Credentials, Ready, Typed, RowsOK, AccountRowsOK, RowsOf, AccountRow
    <3>3. /\ invitation.org = db.invitations[i].org /\ invitation.email = db.invitations[i].email
          /\ invitation.accepted
      BY <2>2 DEF Credentials, Ready, Typed, RowsOK, AccountRowsOK, RowsOf, InvitationRow
    <3>4. db.runtime # "demo" /\ Waiting(db, i, a)
      BY <1>3, <2>2 DEF At, Arg, Credentials, CredentialArgs, Acceptable, Waiting
    <3>5. InvitationsOK(db)
      BY DEF Credentials
    <3>6. db.accounts[a].password = None
      BY <2>2, <3>4, <3>5 DEF InvitationsOK, Waiting
    <3> HIDE DEF tables, account, invitation, i, a
    <3>7. db' = tables /\ request'[p].op \in {"none", "announce"}
      BY <2>2, Committing DEF Credentials, Ready
    <3>8. /\ DOMAIN db'.accounts = DOMAIN db.accounts
          /\ DOMAIN db'.invitations = DOMAIN db.invitations
          /\ \A x \in DOMAIN db.accounts :
                /\ db'.accounts[x].org = db.accounts[x].org
                /\ db'.accounts[x].email = db.accounts[x].email
                /\ x # a => db'.accounts[x] = db.accounts[x]
          /\ \A j \in DOMAIN db.invitations :
                /\ db'.invitations[j].org = db.invitations[j].org
                /\ db'.invitations[j].email = db.invitations[j].email
                /\ j # i => db'.invitations[j] = db.invitations[j]
          /\ db'.accounts[a].password # None /\ db'.invitations[i].accepted
          /\ db'.sessions = db.sessions /\ db'.runtime = db.runtime /\ db'.gone = db.gone
      BY <2>2, <3>1, <3>2, <3>3, <3>7
    <3>9. CredentialsStay
      BY <3>4, <3>8 DEF CredentialsStay
    <3>10. InvitationsOK(db')
      <4>1. ASSUME NEW j \in DOMAIN db.invitations, NEW x \in DOMAIN db.accounts
            PROVE  Waiting(db', j, x) <=> Waiting(db, j, x) /\ j # i
        <5>1. CASE j = i
          BY <5>1, <3>8 DEF Waiting
        <5>2. CASE j # i
          <6>1. db'.invitations[j] = db.invitations[j]
            BY <5>2, <3>8
          <6>2. QED BY <5>2, <6>1, <3>8 DEF Waiting
        <5>3. QED BY <5>1, <5>2
      <4>2. \A x \in DOMAIN db.accounts : Waiting(db, i, x) => x = a
        <5>1. \A x, y \in DOMAIN db.accounts :
                 db.accounts[x].email = db.accounts[y].email => x = y
          BY <3>5 DEF InvitationsOK
        <5>2. QED BY <2>2, <3>4, <5>1 DEF Waiting
      <4>3. \A j \in DOMAIN db.invitations : Waiting(db, j, a) => j = i
        BY <2>2, <3>4, <3>5 DEF InvitationsOK
      <4>4. \A x, y \in DOMAIN db'.accounts :
               db'.accounts[x].email = db'.accounts[y].email => x = y
        BY <3>5, <3>8 DEF InvitationsOK
      <4>5. ASSUME NEW x \in DOMAIN db'.accounts
            PROVE  /\ db'.accounts[x].password = None =>
                         \E j \in DOMAIN db'.invitations : Waiting(db', j, x)
                   /\ db'.accounts[x].status # "INVITED" => db'.accounts[x].password # None
                   /\ \A j, k \in DOMAIN db'.invitations :
                         Waiting(db', j, x) /\ Waiting(db', k, x) => j = k
        BY <2>2, <3>5, <3>8, <4>1, <4>2 DEF InvitationsOK
      <4>6. ASSUME NEW j \in DOMAIN db'.invitations, ~db'.invitations[j].accepted
            PROVE  \E x \in DOMAIN db'.accounts :
                      db'.accounts[x].password = None /\ Waiting(db', j, x)
        <5>1. j # i /\ ~db.invitations[j].accepted /\ j \in DOMAIN db.invitations
          BY <3>8, <4>6
        <5>2. PICK x \in DOMAIN db.accounts :
                 db.accounts[x].password = None /\ Waiting(db, j, x)
          BY <3>5, <5>1 DEF InvitationsOK
        <5>3. x # a
          BY <4>3, <5>1, <5>2
        <5>4. QED BY <3>8, <4>1, <5>1, <5>2, <5>3
      <4>7. QED BY <4>4, <4>5, <4>6 DEF InvitationsOK
    <3>11. SessionsOK(db')
      <4>1. \A s \in DOMAIN db.sessions : db.sessions[s].account \in DOMAIN db.accounts
        BY DEF Credentials, Ready, Typed, AccountReferencesOK
      <4>2. QED BY <3>6, <3>8, <4>1 DEF Credentials, SessionsOK
    <3>12. QED BY <3>7, <3>9, <3>10, <3>11, CredentialsArgless
               DEF CredentialsKept, CredentialOps, Creating
  <2>3. QED BY <2>1, <2>2, CredentialsContinued
<1>4. QED BY <1>1, <1>2, <1>3 DEF AcceptInvitation, ValidateInvitation

LEMMA AccountsCredentials ==
    ASSUME Credentials, NEW p \in Requests, AccountsStep(p)
    PROVE  CredentialsKept(p)
BY LoginCredentials, LogoutCredentials, CleanupCredentialsKept, ForgotCredentials,
   ResetCredentials, UpdateUserCredentials, InviteCredentials, ResendCredentials,
   CancelCredentials, AcceptCredentials, RolesCredentials DEF AccountsStep

-----------------------------------------------------------------------------
(* What the steps of the demo, of the files and of the mail do to them *)

\* Creating a workspace is for the runtime of the demo alone.
LEMMA CreatingArgs ==
    ASSUME db.runtime = "demo", NEW arg,
           NEW op \in {"demo.lock", "demo.count", "demo.bootstrap"}
    PROVE  CredentialArgs([op |-> op, arg |-> arg], db)
BY DEF CredentialArgs, Creating

LEMMA StartCredentials ==
    ASSUME Credentials, NEW p \in Requests, StartDemo(p) \/ RestartDemo(p) \/ QueryRecords(p)
    PROVE  CredentialsKept(p)
<1>1. ASSUME NEW scope, NEW arg, db.runtime = "demo", CallCounted(p, scope, "demo.lock", arg)
      PROVE  CredentialsKept(p)
  <2>1. CredentialArgs([op |-> "demo.lock", arg |-> arg], db)
    BY <1>1, CreatingArgs
  <2>2. QED BY <1>1, <2>1, CredentialsBegun
<1>2. ASSUME NEW address, NEW session, NEW op \in {"none", "demo.lock"}, db.runtime = "demo",
             BeginWriting(p, Counted(Counted(db, address), session), op, None)
      PROVE  CredentialsKept(p)
  <2> DEFINE once == Counted(db, address)
             twice == Counted(once, session)
  <2>1. DOMAIN once = TableNames /\ \A n \in TableNames \ {"rates"} : once[n] = db[n]
    BY CountedTables DEF Credentials, Ready, Typed
  <2>2. BeginWriting(p, twice, op, None)
    BY <1>2
  <2> HIDE DEF once
  <2>3. DOMAIN twice = TableNames /\ \A n \in TableNames \ {"rates"} : twice[n] = once[n]
    BY <2>1, CountedTables
  <2> HIDE DEF twice
  <2>4. db' = twice /\ request'[p] = [op |-> op, arg |-> None]
    BY <2>2 DEF BeginWriting, Credentials, Ready, Typed
  <2>5. Aside(db')
    BY <2>1, <2>3, <2>4 DEF Aside, TableNames
  <2>6. CredentialArgs(request'[p], db)
    <3>1. CASE op = "none"
      BY <2>4, <3>1, CredentialsArgless DEF CredentialOps, Creating
    <3>2. CASE op = "demo.lock"
      BY <1>2, <2>4, <3>2, CreatingArgs
    <3>3. QED BY <3>1, <3>2
  <2>7. QED BY <2>5, <2>6, CredentialsAside
<1>3. CASE StartDemo(p)
  <2>1. /\ db.runtime = "demo"
        /\ \/ \E scope : TurnedAway(p, scope)
           \/ \E scope, arg : CallCounted(p, scope, "demo.lock", arg)
           \/ \E address, session : \E op \in {"none", "demo.lock"} :
                 BeginWriting(p, Counted(Counted(db, address), session), op, None)
    BY <1>3 DEF StartDemo, Runtime
  <2>2. QED BY <1>1, <1>2, <2>1, CredentialsTurnedAway
<1>4. CASE RestartDemo(p)
  <2>1. PICK s \in Callers(<<"Demo", "restart">>) :
           /\ db.orgs[CallerOrg(s)].demo
           /\ \/ \E scope : TurnedAway(p, scope)
              \/ \E scope, arg : CallCounted(p, scope, "demo.lock", arg)
    BY <1>4 DEF RestartDemo
  <2>2. db.runtime = "demo"
    BY <2>1 DEF Callers, Authenticated, Runtime, CallerOrg, CallerAccount
  <2>3. QED BY <1>1, <2>1, <2>2, CredentialsTurnedAway
<1>5. CASE QueryRecords(p)
  <2>1. Begin(p, "none", None) \/ \E scope : TurnedAway(p, scope)
    BY <1>5 DEF QueryRecords
  <2>2. "none" \notin CredentialOps
    BY DEF CredentialOps, Creating
  <2>3. QED BY <2>1, <2>2, CredentialsTurnedAway, CredentialsCalled
<1>6. QED BY <1>3, <1>4, <1>5

\* The lock is given back, and something else is gone on with.
LEMMA CredentialsReleased ==
    ASSUME Credentials, NEW p \in Requests, NEW op, op \notin CredentialOps, NEW arg, NEW faults,
           Release(p, db, op, arg, faults)
    PROVE  CredentialsKept(p)
<1> DEFINE lock == IF db.lock = p THEN None ELSE db.lock
<1>1. Proceed(p, [db EXCEPT !.lock = lock], op, arg, faults)
  BY DEF Release, Unlocked
<1>2. CredentialArgs([op |-> op, arg |-> arg], db)
  BY CredentialsArgless
<1> HIDE DEF lock
<1>3. Aside([db EXCEPT !.lock = lock])
  BY WritingAside DEF Credentials, Ready, Typed
<1>4. QED BY <1>1, <1>2, <1>3, CredentialsWritten

\* What the steps after the owner was written go on with, as they came.
LEMMA OwnerStays ==
    ASSUME Credentials, NEW p \in Requests, NEW op \in {"demo.seed", "demo.session"},
           request[p].op \in {"demo.identity", "demo.seed", "demo.session"}
    PROVE  CredentialArgs([op |-> op, arg |-> Arg(p)], db)
<1>1. CredentialArgs(request[p], db)
  BY DEF Credentials
<1> DEFINE arg == request[p].arg
<1>2. /\ db.runtime = "demo" /\ Recalled(db, arg.owner, db.accounts)
      /\ arg.owner \in DOMAIN db.accounts =>
            db.accounts[arg.owner].status = "ACTIVE" /\ db.accounts[arg.owner].password = 1
  BY <1>1 DEF CredentialArgs, Creating
<1> HIDE DEF arg
<1>3. CredentialArgs([op |-> op, arg |-> arg], db)
  BY <1>2 DEF CredentialArgs, Creating
<1>4. QED BY <1>3 DEF arg, Arg

LEMMA LockCredentials ==
    ASSUME Credentials, NEW p \in Requests,
           AcquireLock(p) \/ CountWorkspaces(p) \/ SetIdentity(p) \/ FinishStart(p)
           \/ ExpirePrevious(p)
    PROVE  CredentialsKept(p)
<1>1. /\ "none" \notin CredentialOps /\ "demo.expire" \notin CredentialOps
      /\ "demo.destroy" \notin CredentialOps /\ DOMAIN db = TableNames
  BY DEF CredentialOps, Creating, Credentials, Ready, Typed
<1>2. CASE AcquireLock(p)
  <2>1. Reject(p) \/ Proceed(p, [db EXCEPT !.lock = p], "demo.count", Arg(p), 0)
    BY <1>2 DEF AcquireLock
  <2>2. db.runtime = "demo"
    BY <1>2 DEF AcquireLock, At, Credentials, CredentialArgs
  <2>3. CredentialArgs([op |-> "demo.count", arg |-> Arg(p)], db)
    BY <2>2, CreatingArgs
  <2>4. QED BY <1>1, <2>1, <2>3, WritingAside, CredentialsWritten, CredentialsContinued
<1>3. CASE CountWorkspaces(p)
  <2>1. Release(p, db, "none", None, 0) \/ Continue(p, "demo.bootstrap", Arg(p))
    BY <1>3 DEF CountWorkspaces
  <2>2. db.runtime = "demo"
    BY <1>3 DEF CountWorkspaces, At, Credentials, CredentialArgs, Creating
  <2>3. CredentialArgs([op |-> "demo.bootstrap", arg |-> Arg(p)], db)
    BY <2>2, CreatingArgs
  <2>4. QED BY <1>1, <2>1, <2>3, CredentialsReleased, CredentialsContinued
<1>4. CASE SetIdentity(p)
  <2>1. \/ \E v : Proceed(p, [db EXCEPT !.orgs = v], "demo.seed", Arg(p), 0)
        \/ Release(p, db, "none", None, 1)
    BY <1>4 DEF SetIdentity, WithSender
  <2>2. CredentialArgs([op |-> "demo.seed", arg |-> Arg(p)], db)
    BY <1>4, OwnerStays DEF SetIdentity, At
  <2>3. QED BY <1>1, <2>1, <2>2, WritingAside, CredentialsWritten, CredentialsReleased
<1>5. CASE FinishStart(p)
  <2>1. Release(p, db, "none", None, 0) \/ Release(p, db, "demo.expire", Arg(p), 0)
    BY <1>5 DEF FinishStart
  <2>2. QED BY <1>1, <2>1, CredentialsReleased
<1>6. CASE ExpirePrevious(p)
  <2>1. \/ \E v, arg : Proceed(p, [db EXCEPT !.orgs = v], "demo.destroy", arg, 0)
        \/ Proceed(p, db, "none", None, 1)
    BY <1>6 DEF ExpirePrevious
  <2>2. \A arg : CredentialArgs([op |-> "demo.destroy", arg |-> arg], db)
    BY <1>1, CredentialsArgless
  <2>3. CredentialArgs([op |-> "none", arg |-> None], db)
    BY <1>1, CredentialsArgless
  <2>4. QED BY <1>1, <2>1, <2>2, <2>3, WritingAside, CredentialsWritten
<1>7. QED BY <1>2, <1>3, <1>4, <1>5, <1>6

LEMMA BootstrapCredentials ==
    ASSUME Credentials, NEW p \in Requests, BootstrapWorkspace(p)
    PROVE  CredentialsKept(p)
<1>1. "none" \notin CredentialOps
  BY DEF CredentialOps, Creating
<1> DEFINE org == Fresh(Unused(Orgs), db.orgs)
           owner == Fresh(Unused(Accounts), db.accounts)
           row == [active |-> TRUE, demo |-> TRUE, expires |-> db.today + WorkspaceDays,
                   sender |-> FALSE]
           email == CHOOSE e \in Emails : EmailFree(e)
           account == [org |-> org, email |-> email, status |-> "ACTIVE", password |-> 1,
                       roles |-> {NewRoles["Owner"]}]
           tables == WithOrganization(db, org, row, owner, email, NewRoles)
           arg == [org |-> org, owner |-> owner, previous |-> Arg(p)]
<1>2. ASSUME HasRoom(Unused(Accounts), db.accounts), \E e \in Emails : EmailFree(e),
             At(p, "demo.bootstrap"), Proceed(p, tables, "demo.identity", arg, 0)
      PROVE  CredentialsKept(p)
  <2>1. owner \notin DOMAIN db.accounts /\ owner \notin db.gone
    BY <1>2, Choosing
  <2>2. \A x \in DOMAIN db.accounts : db.accounts[x].email # email
    BY <1>2 DEF EmailFree
  <2>3. /\ account.email = email /\ account.status = "ACTIVE" /\ account.password = 1
        /\ arg.owner = owner
    OBVIOUS
  <2>4. /\ tables.accounts = Insert(db.accounts, owner, account)
        /\ tables.sessions = db.sessions /\ tables.invitations = db.invitations
        /\ tables.runtime = db.runtime /\ tables.gone = db.gone
    BY DEF WithOrganization, Credentials, Ready, Typed, TableNames
  <2> HIDE DEF org, owner, row, email, account, tables, arg
  <2>5. db' = tables /\ request'[p] = [op |-> "demo.identity", arg |-> arg]
    BY <1>2, Proceeding DEF Credentials, Ready
  <2>6. /\ DOMAIN db'.accounts = DOMAIN db.accounts \cup {owner}
        /\ \A x \in DOMAIN db.accounts : db'.accounts[x] = db.accounts[x]
        /\ db'.accounts[owner] = account
        /\ db'.sessions = db.sessions /\ db'.invitations = db.invitations
        /\ db'.runtime = db.runtime /\ db'.gone = db.gone
    BY <2>1, <2>4, <2>5 DEF Insert
  <2>7. CredentialsStay
    BY <2>1, <2>6 DEF CredentialsStay
  <2>8. InvitationsOK(db')
    <3>1. InvitationsOK(db)
      BY DEF Credentials
    <3>2. \A x \in DOMAIN db.accounts : \A i \in DOMAIN db.invitations :
             Waiting(db', i, x) <=> Waiting(db, i, x)
      BY <2>6 DEF Waiting
    <3>3. \A i \in DOMAIN db.invitations : ~Waiting(db', i, owner)
      <4>1. \A i \in DOMAIN db.invitations : db.invitations[i].accepted
                                             \/ db.invitations[i].email # email
        BY <2>2, <3>1 DEF InvitationsOK, Waiting
      <4>2. QED BY <2>3, <2>6, <4>1 DEF Waiting
    <3>4. 1 # None
      BY AttachmentsAssumption DEF AttachmentsAssumption
    <3>5. \A x, y \in DOMAIN db'.accounts :
             db'.accounts[x].email = db'.accounts[y].email => x = y
      BY <2>2, <2>3, <2>6, <3>1 DEF InvitationsOK
    <3>6. ASSUME NEW x \in DOMAIN db'.accounts
          PROVE  /\ db'.accounts[x].password = None =>
                       \E j \in DOMAIN db'.invitations : Waiting(db', j, x)
                 /\ db'.accounts[x].status # "INVITED" => db'.accounts[x].password # None
                 /\ \A j, k \in DOMAIN db'.invitations :
                       Waiting(db', j, x) /\ Waiting(db', k, x) => j = k
      <4>1. CASE x = owner
        BY <4>1, <2>3, <2>6, <3>3, <3>4
      <4>2. CASE x \in DOMAIN db.accounts
        BY <4>2, <2>6, <3>1, <3>2 DEF InvitationsOK
      <4>3. QED BY <2>6, <4>1, <4>2
    <3>7. \A j \in DOMAIN db'.invitations :
             \/ db'.invitations[j].accepted
             \/ \E x \in DOMAIN db'.accounts :
                   db'.accounts[x].password = None /\ Waiting(db', j, x)
      BY <2>6, <3>1, <3>2 DEF InvitationsOK
    <3>8. QED BY <3>5, <3>6, <3>7 DEF InvitationsOK
  <2>9. SessionsOK(db')
    <3>1. \A s \in DOMAIN db.sessions : db.sessions[s].account \in DOMAIN db.accounts
      BY DEF Credentials, Ready, Typed, AccountReferencesOK
    <3>2. QED BY <2>6, <3>1 DEF Credentials, SessionsOK
  <2>10. CredentialArgs(request'[p], db')
    <3>1. db.runtime = "demo"
      BY <1>2 DEF At, Credentials, CredentialArgs, Creating
    <3>2. owner \in DOMAIN db'.accounts /\ db'.accounts[owner].status = "ACTIVE"
          /\ db'.accounts[owner].password = 1 /\ db'.runtime = "demo"
      BY <2>3, <2>6, <3>1
    <3>3. CredentialArgs([op |-> "demo.identity", arg |-> arg], db')
      BY <2>3, <3>2 DEF CredentialArgs, Recalled, Creating
    <3>4. QED BY <2>5, <3>3
  <2>11. QED BY <2>7, <2>8, <2>9, <2>10 DEF CredentialsKept
<1>3. \/ Release(p, db, "none", None, 1)
      \/ /\ HasRoom(Unused(Accounts), db.accounts) /\ \E e \in Emails : EmailFree(e)
         /\ At(p, "demo.bootstrap") /\ Proceed(p, tables, "demo.identity", arg, 0)
  BY DEF BootstrapWorkspace
<1>4. QED BY <1>1, <1>2, <1>3, CredentialsReleased


\* What a workspace had of accounts, invitations and sessions goes together.
LEMMA CredentialsDeleted ==
    ASSUME Credentials, NEW p \in Requests, NEW org, NEW tables,
           tables = WithoutOrganization(org),
           \A n \in TableNames \ {"lock"} : db'[n] = tables[n],
           request'[p].op \notin CredentialOps
    PROVE  CredentialsKept(p)
<1> DEFINE accounts == AccountsOf(org)
           sessions == {s \in DOMAIN db.sessions : db.sessions[s].account \in accounts}
           Others(table) == Without(table, {x \in DOMAIN table : table[x].org = org})
           left == [db EXCEPT
              !.orgs = Without(@, {org}), !.accounts = Without(@, accounts),
              !.roles = Without(@, RolesOf(org)),
              !.sessions = Without(@, {s \in DOMAIN @ : @[s].account \in accounts}),
              !.resets = Without(@, {r \in DOMAIN @ : @[r].account \in accounts}),
              !.invitations = Others(@), !.entities = Others(@),
              !.attachments = Without(@, FilesOf(org)),
              !.records = Without(@, {k \in DOMAIN @ : k[1] = org}),
              !.templates = Others(@), !.mailboxes = Others(@), !.threads = Others(@),
              !.messages = Others(@), !.mailFiles = Others(@)]
<1>1. tables = Deleting(left)
  BY DEF WithoutOrganization
<1>2. /\ DOMAIN left = TableNames /\ left.gone = db.gone /\ left.runtime = db.runtime
      /\ left.accounts = Without(db.accounts, accounts)
      /\ left.sessions = Without(db.sessions, sessions)
      /\ left.invitations = Others(db.invitations)
  BY DEF Credentials, Ready, Typed, TableNames
<1> HIDE DEF left
<1>3. /\ db.gone \subseteq tables.gone /\ tables.runtime = left.runtime
      /\ tables.accounts = left.accounts /\ tables.sessions = left.sessions
      /\ tables.invitations = left.invitations
      /\ DOMAIN db.accounts \subseteq DOMAIN left.accounts \cup tables.gone
      /\ DOMAIN db.invitations \subseteq DOMAIN left.invitations \cup tables.gone
  <2>1. db.gone \subseteq tables.gone /\ \A n \in TableNames \ {"gone"} : tables[n] = left[n]
    BY <1>1, <1>2, DeletingTables
  <2>2. /\ DOMAIN db.accounts \subseteq DOMAIN left.accounts \cup tables.gone
        /\ DOMAIN db.invitations \subseteq DOMAIN left.invitations \cup tables.gone
    <3>1. "accounts" \in RowTables /\ "invitations" \in RowTables
      BY DEF RowTables
    <3>2. QED BY <1>1, <1>2, <3>1, DeletedAreGone
  <2>3. QED BY <2>1, <2>2 DEF TableNames
<1>4. /\ db'.runtime = tables.runtime /\ db'.gone = tables.gone
      /\ db'.accounts = tables.accounts /\ db'.sessions = tables.sessions
      /\ db'.invitations = tables.invitations
  BY DEF TableNames
<1>5. /\ DOMAIN db'.accounts = DOMAIN db.accounts \ accounts
      /\ \A a \in DOMAIN db'.accounts : db'.accounts[a] = db.accounts[a]
  BY <1>2, <1>3, <1>4 DEF Without
<1>6. /\ DOMAIN db'.invitations = {i \in DOMAIN db.invitations : db.invitations[i].org # org}
      /\ \A i \in DOMAIN db'.invitations : db'.invitations[i] = db.invitations[i]
  BY <1>2, <1>3, <1>4 DEF Without
<1>7. /\ DOMAIN db'.sessions = DOMAIN db.sessions \ sessions
      /\ \A s \in DOMAIN db'.sessions : db'.sessions[s] = db.sessions[s]
  BY <1>2, <1>3, <1>4 DEF Without
<1>8. CredentialsStay
  BY <1>2, <1>3, <1>4, <1>5, <1>6 DEF CredentialsStay
<1>9. InvitationsOK(db')
  <2>1. InvitationsOK(db)
    BY DEF Credentials
  <2>2. \A a \in DOMAIN db.accounts : a \in DOMAIN db'.accounts <=> db.accounts[a].org # org
    BY <1>5 DEF AccountsOf, OrgOf
  <2> HIDE DEF accounts
  <2>3. ASSUME NEW i \in DOMAIN db.invitations, NEW a \in DOMAIN db.accounts, Waiting(db, i, a)
        PROVE  i \in DOMAIN db'.invitations <=> a \in DOMAIN db'.accounts
    BY <1>6, <2>2, <2>3 DEF Waiting
  <2>4. \A i \in DOMAIN db'.invitations : \A a \in DOMAIN db'.accounts :
           /\ i \in DOMAIN db.invitations /\ a \in DOMAIN db.accounts
           /\ Waiting(db', i, a) <=> Waiting(db, i, a)
    BY <1>5, <1>6 DEF Waiting
  <2>5. \A a, b \in DOMAIN db'.accounts :
           db'.accounts[a].email = db'.accounts[b].email => a = b
    BY <1>5, <2>1 DEF InvitationsOK
  <2>6. ASSUME NEW a \in DOMAIN db'.accounts
        PROVE  /\ db'.accounts[a].password = None =>
                     \E i \in DOMAIN db'.invitations : Waiting(db', i, a)
               /\ db'.accounts[a].status # "INVITED" => db'.accounts[a].password # None
               /\ \A i, j \in DOMAIN db'.invitations :
                     Waiting(db', i, a) /\ Waiting(db', j, a) => i = j
    <3>1. a \in DOMAIN db.accounts /\ db'.accounts[a] = db.accounts[a]
      BY <1>5
    <3>2. QED BY <2>1, <2>3, <2>4, <3>1 DEF InvitationsOK
  <2>7. ASSUME NEW i \in DOMAIN db'.invitations, ~db'.invitations[i].accepted
        PROVE  \E a \in DOMAIN db'.accounts : db'.accounts[a].password = None /\ Waiting(db', i, a)
    <3>1. i \in DOMAIN db.invitations /\ ~db.invitations[i].accepted
      BY <1>6, <2>7
    <3>2. PICK a \in DOMAIN db.accounts : db.accounts[a].password = None /\ Waiting(db, i, a)
      BY <2>1, <3>1 DEF InvitationsOK
    <3>3. a \in DOMAIN db'.accounts /\ db'.accounts[a] = db.accounts[a]
      BY <1>5, <2>3, <3>1, <3>2
    <3>4. QED BY <2>4, <3>2, <3>3
  <2>8. QED BY <2>5, <2>6, <2>7 DEF InvitationsOK
<1>10. SessionsOK(db')
  <2>1. \A s \in DOMAIN db'.sessions :
           db.sessions[s].account \in DOMAIN db.accounts /\ db.sessions[s].account \notin accounts
    BY <1>7 DEF Credentials, Ready, Typed, AccountReferencesOK
  <2> HIDE DEF accounts, sessions
  <2>2. QED BY <1>5, <1>7, <2>1 DEF Credentials, SessionsOK
<1>11. QED BY <1>8, <1>9, <1>10, CredentialsArgless DEF CredentialsKept

LEMMA GivenUpCredentials ==
    ASSUME Credentials, NEW p \in Requests, GiveUpWorkspace(p)
    PROVE  CredentialsKept(p)
<1> DEFINE org == Arg(p).org
           tables == WithoutOrganization(org)
           unlocked == Unlocked(p, tables)
<1>1. DOMAIN tables = TableNames /\ tables.lock \in OrNone(Requests)
  BY OrganizationDeleted DEF Credentials, Ready, Typed, RowsOK, DemoRowsOK
<1>2. Proceed(p, unlocked, "none", None, 1)
  BY DEF GiveUpWorkspace, Release
<1>3. \A n \in TableNames \ {"lock"} : unlocked[n] = tables[n]
  BY <1>1, Unlocking DEF Credentials, Ready
<1> HIDE DEF unlocked, org
<1>4. db' = unlocked /\ request'[p] = [op |-> "none", arg |-> None]
  BY <1>2, Proceeding DEF Credentials, Ready
<1>5. request'[p].op \notin CredentialOps
  BY <1>4 DEF CredentialOps, Creating
<1>6. \A n \in TableNames \ {"lock"} : db'[n] = tables[n]
  BY <1>3, <1>4
<1>7. QED BY <1>5, <1>6, CredentialsDeleted

LEMMA SeedCredentials ==
    ASSUME Credentials, NEW p \in Requests, SeedWorkspace(p)
    PROVE  CredentialsKept(p)
<1>1. GiveUpWorkspace(p) \/ \E v : Proceed(p, [db EXCEPT !.records = v], "demo.session", Arg(p), 0)
  BY DEF SeedWorkspace
<1>2. CredentialArgs([op |-> "demo.session", arg |-> Arg(p)], db)
  BY OwnerStays DEF SeedWorkspace, At
<1>3. QED BY <1>1, <1>2, GivenUpCredentials, WritingAside, CredentialsWritten
          DEF Credentials, Ready, Typed

LEMMA OpenCredentials ==
    ASSUME Credentials, NEW p \in Requests, OpenWorkspace(p)
    PROVE  CredentialsKept(p)
<1> DEFINE s == Fresh(Unused(Sessions), db.sessions)
           row == [account |-> Arg(p).owner, expires |-> db.orgs[Arg(p).org].expires,
                   revoked |-> FALSE, password |-> 1, raced |-> FALSE]
           sessions == Insert(db.sessions, s, row)
           tables == [db EXCEPT !.sessions = sessions]
<1>1. ASSUME Arg(p).owner \in DOMAIN db.accounts,
             Proceed(p, tables, "demo.done", Arg(p).previous, 0)
      PROVE  CredentialsKept(p)
  <2>1. row.account = Arg(p).owner /\ row.password = 1
    OBVIOUS
  <2> HIDE DEF row, s
  <2>2. \A x \in DOMAIN sessions :
           \/ x \in DOMAIN db.sessions /\ sessions[x] = db.sessions[x]
           \/ sessions[x] = row
    BY DEF Insert
  <2> HIDE DEF sessions
  <2>3. /\ tables.accounts = db.accounts /\ tables.invitations = db.invitations
        /\ tables.runtime = db.runtime /\ tables.gone = db.gone /\ tables.sessions = sessions
    BY DEF Credentials, Ready, Typed, TableNames
  <2> HIDE DEF tables
  <2>4. db' = tables /\ request'[p] = [op |-> "demo.done", arg |-> Arg(p).previous]
    BY <1>1, Proceeding DEF Credentials, Ready
  <2>5. request'[p].op \notin CredentialOps
    BY <2>4 DEF CredentialOps, Creating
  <2>6. CredentialArgs(request[p], db) /\ request[p].op = "demo.session"
    <3>1. CredentialArgs(request[p], db)
      BY DEF Credentials
    <3>2. At(p, "demo.session")
      BY DEF OpenWorkspace
    <3>3. QED BY <3>1, <3>2 DEF At
  <2>7. db.accounts[Arg(p).owner].status = "ACTIVE" /\ db.accounts[Arg(p).owner].password = 1
    BY <1>1, <2>6 DEF CredentialArgs, Arg
  <2>8. QED BY <2>1, <2>2, <2>3, <2>4, <2>5, <2>7, SessionsReplaced
<1>2. \/ GiveUpWorkspace(p)
      \/ /\ Arg(p).owner \in DOMAIN db.accounts
         /\ Proceed(p, tables, "demo.done", Arg(p).previous, 0)
  BY DEF OpenWorkspace
<1>3. QED BY <1>1, <1>2, GivenUpCredentials

LEMMA DestroyCredentials ==
    ASSUME Credentials, NEW p \in Requests,
           CleanupDemos(p) \/ DestroyNext(p) \/ DestroyFiles(p)
    PROVE  CredentialsKept(p)
<1>1. /\ "demo.destroy" \notin CredentialOps /\ "demo.files" \notin CredentialOps
      /\ DOMAIN db = TableNames
  BY DEF CredentialOps, Creating, Credentials, Ready, Typed
<1>2. \A op \in {"demo.destroy", "demo.files"} : \A arg :
         CredentialArgs([op |-> op, arg |-> arg], db)
  BY <1>1, CredentialsArgless
<1>3. CASE CleanupDemos(p)
  <2>1. \E arg : Begin(p, "demo.destroy", arg)
    BY <1>3 DEF CleanupDemos
  <2>2. QED BY <1>1, <2>1, CredentialsCalled
<1>4. CASE DestroyNext(p)
  <2>1. Reject(p) \/ \E arg : Continue(p, "demo.destroy", arg) \/ Continue(p, "demo.files", arg)
    BY <1>4 DEF DestroyNext
  <2>2. QED BY <1>2, <2>1, CredentialsContinued
<1>5. CASE DestroyFiles(p)
  <2>1. ASSUME NEW org, NEW arg, Proceed(p, WithoutOrganization(org), "demo.destroy", arg, 0)
        PROVE  CredentialsKept(p)
    <3> DEFINE tables == WithoutOrganization(org)
    <3>1. db' = tables /\ request'[p] = [op |-> "demo.destroy", arg |-> arg]
      BY <2>1, Proceeding DEF Credentials, Ready
    <3>2. request'[p].op \notin CredentialOps
      BY <1>1, <3>1
    <3> HIDE DEF tables
    <3>3. tables = WithoutOrganization(org)
      BY DEF tables
    <3>4. \A n \in TableNames \ {"lock"} : db'[n] = tables[n]
      BY <3>1
    <3>5. QED BY <3>2, <3>3, <3>4, CredentialsDeleted
  <2>2. ASSUME NEW op \in {"demo.destroy", "demo.files"}, NEW arg, NEW faults, NEW v,
               \/ Proceed(p, [db EXCEPT !.stored = v], op, arg, faults)
               \/ Proceed(p, db, op, arg, faults)
        PROVE  CredentialsKept(p)
    <3>1. CredentialArgs([op |-> op, arg |-> arg], db)
      BY <1>2
    <3>2. Aside(db) /\ Aside([db EXCEPT !.stored = v])
      BY <1>1, WritingAside
    <3>3. CASE Proceed(p, db, op, arg, faults)
      BY <3>1, <3>2, <3>3, CredentialsWritten
    <3>4. CASE Proceed(p, [db EXCEPT !.stored = v], op, arg, faults)
      BY <3>1, <3>2, <3>4, CredentialsWritten
    <3>5. QED BY <2>2, <3>3, <3>4
  <2>3. \/ \E f, arg : Proceed(p, [db EXCEPT !.stored = @ \ {f}], "demo.files", arg, 0)
        \/ \E arg, faults : Proceed(p, db, "demo.destroy", arg, faults)
        \/ \E org, arg : Proceed(p, WithoutOrganization(org), "demo.destroy", arg, 0)
    BY <1>5 DEF DestroyFiles
  <2>4. QED BY <2>1, <2>2, <2>3
<1>6. QED BY <1>3, <1>4, <1>5

LEMMA RecordCredentials ==
    ASSUME Credentials, NEW p \in Requests, CreateRecord(p) \/ DeriveRecord(p)
    PROVE  CredentialsKept(p)
<1>1. /\ {"none", "demo.reserve", "demo.rate", "demo.create", "demo.derive"} \cap CredentialOps = {}
      /\ DOMAIN db = TableNames
  BY DEF CredentialOps, Creating, Credentials, Ready, Typed
<1>2. ASSUME NEW v, NEW tables,
             tables \in {[db EXCEPT !.records = v], [db EXCEPT !.reserved = v],
                         [db EXCEPT !.rates = v]},
             \/ Commit(p, tables, <<>>)
             \/ \E op \in {"none", "demo.rate", "demo.create"} : \E arg :
                   Proceed(p, tables, op, arg, 0)
      PROVE  CredentialsKept(p)
  <2>1. Aside(tables)
    BY <1>1, <1>2, WritingAside
  <2>2. \A op \in {"none", "demo.rate", "demo.create"} : \A arg :
           CredentialArgs([op |-> op, arg |-> arg], db)
    BY <1>1, CredentialsArgless
  <2>3. QED BY <1>2, <2>1, <2>2, CredentialsWritten
<1>3. ASSUME NEW kind, Reserve(p, kind, "demo.rate")
      PROVE  CredentialsKept(p)
  <2>1. \/ \E v : Commit(p, [db EXCEPT !.reserved = v], <<>>)
        \/ \E v : Proceed(p, [db EXCEPT !.reserved = v], "demo.rate", Arg(p), 0)
    BY <1>3 DEF Reserve
  <2>2. QED BY <1>2, <2>1
<1>4. CASE CreateRecord(p)
  <2>1. \/ \E arg : Begin(p, "demo.reserve", arg)
        \/ \E kind : Reserve(p, kind, "demo.rate")
        \/ \E v : \E op \in {"none", "demo.create"} : \E arg :
              Proceed(p, [db EXCEPT !.rates = v], op, arg, 0)
        \/ Reject(p)
        \/ \E v : Commit(p, [db EXCEPT !.records = v], <<>>)
    BY <1>4 DEF CreateRecord, Counted
  <2>2. CASE \E arg : Begin(p, "demo.reserve", arg)
    BY <1>1, <2>2, CredentialsCalled
  <2>3. QED BY <1>2, <1>3, <2>1, <2>2, CredentialsContinued
<1>5. CASE DeriveRecord(p)
  <2>1. \/ \E scope : TurnedAway(p, scope)
        \/ \E scope, arg : CallCounted(p, scope, "demo.derive", arg)
        \/ Reject(p)
        \/ \E v : Commit(p, [db EXCEPT !.records = v], <<>>)
    BY <1>5 DEF DeriveRecord, CommitIf
  <2>2. CASE \E scope, arg : CallCounted(p, scope, "demo.derive", arg)
    BY <1>1, <2>2, CredentialsCalled
  <2>3. QED BY <1>2, <2>1, <2>2, CredentialsTurnedAway, CredentialsContinued
<1>6. QED BY <1>4, <1>5

LEMMA DemoCredentials ==
    ASSUME Credentials, NEW p \in Requests, DemoStep(p)
    PROVE  CredentialsKept(p)
BY StartCredentials, LockCredentials, BootstrapCredentials, SeedCredentials, OpenCredentials,
   DestroyCredentials, RecordCredentials DEF DemoStep

-----------------------------------------------------------------------------
(* Every step keeps them *)

LEMMA CredentialsStepKept ==
    ASSUME Credentials, NEW p \in Requests, RequestStep(p)
    PROVE  CredentialsKept(p) /\ Moved(p)
<1>1. /\ Typed /\ AccountArgs(request[p]) /\ AttachmentArgs(request[p])
      /\ DemoArgs(request[p], db.orgs) /\ ArgsOK(request[p], db)
  BY DEF Credentials, Ready, ArgsOK
<1>2. CASE AccountsStep(p)
  BY <1>1, <1>2, AccountsStepKept, AccountsCredentials DEF AccountsKept
<1>3. CASE DemoStep(p)
  BY <1>1, <1>3, DemoStepKept, DemoCredentials DEF DemoKept
<1>4. ASSUME NEW names, names \cap {"runtime", "accounts", "sessions", "invitations"} = {},
             Kept(names), Moved(p), request'[p].op \notin CredentialOps
      PROVE  CredentialsKept(p) /\ Moved(p)
  BY <1>4, KeptAside, CredentialsArgless, CredentialsAside
<1>5. CASE AttachmentsStep(p)
  <2>1. Kept(AttachmentTables) /\ Moved(p) /\ request'[p].op \in AttachmentOps
    BY <1>1, <1>5, AttachmentsStepKept DEF AttachmentsKept
  <2>2. request'[p].op \notin CredentialOps
    BY <2>1 DEF AttachmentOps, CredentialOps, Creating
  <2>3. QED BY <1>4, <2>1, <2>2 DEF AttachmentTables
<1>6. CASE CrmMailStep(p) \/ MailboxesStep(p) \/ InboxStep(p)
  <2>1. request[p].op \in Argless \cup MailOps \cup MailboxOps \cup InboxOps
    BY <1>6, CrmMailOps, MailboxesOps, InboxStepOps
  <2>2. Left(request[p], db)
    BY <1>1, <2>1 DEF ArgsOK, Left
  <2>3. MailKept(p)
    BY <1>1, <1>6, <2>2, CrmMailStepKept, MailboxesStepKept, InboxStepKept
  <2>4. Kept(MailTables \cup {"orgs"}) /\ Moved(p) /\ Left(request'[p], db')
    BY <2>3 DEF MailKept, TableWrites
  <2>5. request'[p].op \notin CredentialOps
    BY <2>4 DEF Left, Argless, MailOps, MailboxOps, InboxOps, CredentialOps, Creating
  <2>6. QED BY <1>4, <2>4, <2>5 DEF MailTables
<1>7. CASE Announce(p) \/ Die(p)
  <2>1. db' = db /\ DOMAIN request = Requests
    BY <1>1, <1>7 DEF Announce, Die, Typed
  <2>2. Moved(p) /\ request'[p].op \in {"none", "announce"}
    <3>1. CASE Die(p)
      BY <2>1, <3>1 DEF Die, Moved, Idle
    <3>2. CASE Announce(p)
      BY <2>1, <3>2 DEF Announce, Moved, Idle
    <3>3. QED BY <1>7, <3>1, <3>2
  <2>3. request'[p].op \notin CredentialOps
    BY <2>2 DEF CredentialOps, Creating
  <2>4. Kept({})
    BY <1>1, <2>1 DEF Kept, Typed
  <2>5. QED BY <1>4, <2>2, <2>3, <2>4
<1>8. QED BY <1>2, <1>3, <1>5, <1>6, <1>7 DEF RequestStep

\* A day that passes and a lock that runs out write none of it.
LEMMA ClockCredentials ==
    ASSUME Credentials, NextDay \/ ExpireLease, Ready'
    PROVE  Credentials'
<1>1. request' = request /\ Aside(db')
  <2>1. CASE NextDay
    BY <2>1 DEF NextDay, Aside, Credentials, Ready, Typed, TableNames
  <2>2. CASE ExpireLease
    <3> DEFINE slow == request[db.lock].op \in Creating
               lapses == IF slow THEN db.lapses + 1 ELSE db.lapses
    <3>1. db' = [db EXCEPT !.lock = None, !.lapses = lapses] /\ request' = request
      BY <2>2 DEF ExpireLease
    <3> HIDE DEF lapses
    <3>2. QED BY <3>1 DEF Aside, Credentials, Ready, Typed, TableNames
  <2>3. QED BY <2>1, <2>2
<1>2. CredentialsStay
  BY <1>1 DEF CredentialsStay, Aside
<1>3. InvitationsOK(db') /\ SessionsOK(db')
  BY <1>1 DEF Credentials, InvitationsOK, Waiting, SessionsOK, Aside
<1>4. \A q \in Requests : CredentialArgs(request'[q], db')
  BY <1>1, <1>2, CredentialArgsStay DEF Credentials
<1>5. QED BY <1>3, <1>4 DEF Credentials

LEMMA CredentialsInitially == Init => Credentials
<1> SUFFICES ASSUME Init PROVE Credentials
  OBVIOUS
<1>1. PICK scenario \in Scenarios : db = scenario.db /\ request = [p \in Requests |-> Idle]
  BY DEF Init
<1>2. InvitationsOK(db) /\ SessionsOK(db)
  BY <1>1, ScenariosAssumption DEF ScenariosAssumption
<1>3. ASSUME NEW p \in Requests
      PROVE  CredentialArgs(request[p], db)
  <2>1. request[p].op \notin CredentialOps
    BY <1>1 DEF Idle, CredentialOps, Creating
  <2>2. QED BY <2>1, CredentialsArgless
<1>4. QED BY <1>2, <1>3, ReadyInitially DEF Credentials

LEMMA CredentialsPreserved == Credentials /\ [Next]_vars => Credentials'
<1> SUFFICES ASSUME Credentials, [Next]_vars PROVE Credentials'
  OBVIOUS
<1>1. Ready'
  BY ReadyKept DEF Credentials
<1>2. CASE NextDay \/ ExpireLease
  BY <1>1, <1>2, ClockCredentials
<1>3. ASSUME NEW p \in Requests, RequestStep(p)
      PROVE  Credentials'
  BY <1>1, <1>3, CredentialsStepKept, CredentialsNext
<1>4. CASE UNCHANGED vars
  <2>1. db' = db /\ request' = request
    BY <1>4 DEF vars
  <2>2. QED BY <1>1, <2>1 DEF Credentials
<1>5. QED BY <1>2, <1>3, <1>4 DEF Next

-----------------------------------------------------------------------------
(* The limits of the demo *)

\* The requests that have a place in a quota and have not used it yet, those
\* that create a workspace though the lock is not theirs any more, and those
\* that have found room for one.
Making(requests, k) ==
    {q \in Requests : /\ requests[q].op \in {"demo.rate", "demo.create"}
                      /\ requests[q].arg.org = k[1] /\ requests[q].arg.kind = k[2]}
Overdue(requests, tables) ==
    {q \in Requests : requests[q].op \in Creating /\ tables.lock # q}
Admitted(requests) == {q \in Requests : requests[q].op = "demo.bootstrap"}

\* A place in the quota that is promised counts like a record that is made.
Used(requests, tables, k) ==
    SeededRows[k[2]] + Created(tables, k) + Cardinality(Making(requests, k))

WithinQuota(requests, tables, k) ==
    /\ Used(requests, tables, k) <= Quota[k[2]]
    /\ IF k \in DOMAIN tables.reserved THEN Used(requests, tables, k) <= tables.reserved[k]
       ELSE Used(requests, tables, k) = SeededRows[k[2]]

CountsSeeds(r) == r.op = "demo.reserve" => r.arg.count >= SeededRows[r.arg.kind]

Quotas(requests, tables) ==
    /\ \A k \in Orgs \X Resources : WithinQuota(requests, tables, k)
    /\ \A q \in Requests : CountsSeeds(requests[q])

Workspaces(requests, tables) ==
    /\ Cardinality(Overdue(requests, tables)) <= tables.lapses
    /\ Cardinality(Unexpired(tables)) + Cardinality(Admitted(requests))
          <= MaxWorkspaces + tables.lapses

Limits == Ready /\ Quotas(request, db) /\ Workspaces(request, db)

\* What is counted is finite.
LEMMA QuotasCounted ==
    ASSUME NEW requests, NEW tables, RowsOK(tables), NEW k \in Orgs \X Resources
    PROVE  /\ IsFiniteSet(Making(requests, k)) /\ Cardinality(Making(requests, k)) \in Nat
           /\ Created(tables, k) \in Nat /\ SeededRows[k[2]] \in Nat /\ Quota[k[2]] \in Nat
           /\ k \in DOMAIN tables.reserved => tables.reserved[k] \in Nat
<1>1. Making(requests, k) \in SUBSET Requests
  BY DEF Making
<1>2. IsFiniteSet(Making(requests, k)) /\ Cardinality(Making(requests, k)) \in Nat
  BY <1>1, DemoAssumption, FS_Subset, FS_CardinalityType DEF DemoAssumption
<1>3. Created(tables, k) \in Nat
  BY DEF Created, RowsOK, DemoRowsOK, RowsOf, RecordCount
<1>4. k[2] \in Resources
  OBVIOUS
<1>5. SeededRows[k[2]] \in Nat /\ Quota[k[2]] \in Nat
  BY <1>4, Seeded, DemoAssumption, AttachmentsAssumption DEF DemoAssumption, AttachmentsAssumption
<1>6. k \in DOMAIN tables.reserved => tables.reserved[k] \in Nat
  BY DEF RowsOK, AttachmentRowsOK, RowsOf
<1>7. QED BY <1>2, <1>3, <1>5, <1>6

LEMMA WorkspacesCounted ==
    ASSUME NEW requests, NEW tables, RowsOK(tables)
    PROVE  /\ IsFiniteSet(Overdue(requests, tables)) /\ Cardinality(Overdue(requests, tables)) \in Nat
           /\ IsFiniteSet(Admitted(requests)) /\ Cardinality(Admitted(requests)) \in Nat
           /\ IsFiniteSet(Unexpired(tables)) /\ Cardinality(Unexpired(tables)) \in Nat
           /\ tables.lapses \in Nat /\ MaxWorkspaces \in Nat
<1>1. Overdue(requests, tables) \in SUBSET Requests /\ Admitted(requests) \in SUBSET Requests
  BY DEF Overdue, Admitted
<1>2. Unexpired(tables) \in SUBSET Orgs
  BY DEF Unexpired, RowsOK, DemoRowsOK, RowsOf
<1>3. ASSUME NEW S, S \in SUBSET Requests \/ S \in SUBSET Orgs
      PROVE  IsFiniteSet(S) /\ Cardinality(S) \in Nat
  BY <1>3, DemoAssumption, FS_Subset, FS_CardinalityType DEF DemoAssumption
<1>4. tables.lapses \in Nat /\ MaxWorkspaces \in Nat
  BY DemoAssumption DEF DemoAssumption, RowsOK, DemoRowsOK
<1>5. QED BY <1>1, <1>2, <1>3, <1>4

LEMMA RowsOfBoth ==
    ASSUME Limits, Ready'
    PROVE  RowsOK(db) /\ RowsOK(db')
BY DEF Limits, Ready, Typed

\* Nothing new is reserved or made.
LEMMA QuotaKept ==
    ASSUME Limits, Ready', NEW k \in Orgs \X Resources,
           Created(db', k) <= Created(db, k),
           Making(request', k) \subseteq Making(request, k),
           k \in DOMAIN db'.reserved <=> k \in DOMAIN db.reserved,
           k \in DOMAIN db.reserved => db'.reserved[k] = db.reserved[k]
    PROVE  WithinQuota(request', db', k)
<1> DEFINE seeds == SeededRows[k[2]]
           quota == Quota[k[2]]
           made == Created(db, k)
           made2 == Created(db', k)
           making == Cardinality(Making(request, k))
           making2 == Cardinality(Making(request', k))
<1>1. /\ making \in Nat /\ made \in Nat /\ seeds \in Nat /\ quota \in Nat
      /\ k \in DOMAIN db.reserved => db.reserved[k] \in Nat
      /\ making2 \in Nat /\ made2 \in Nat
  BY RowsOfBoth, QuotasCounted
<1>2. making2 <= making
  BY RowsOfBoth, QuotasCounted, FS_Subset
<1>3. /\ seeds + made + making <= quota
      /\ IF k \in DOMAIN db.reserved THEN seeds + made + making <= db.reserved[k]
         ELSE seeds + made + making = seeds
  BY DEF Limits, Quotas, WithinQuota, Used
<1>4. made2 <= made
  OBVIOUS
<1> HIDE DEF seeds, quota, made, made2, making, making2
<1>5. /\ seeds + made2 + making2 <= quota
      /\ IF k \in DOMAIN db'.reserved THEN seeds + made2 + making2 <= db'.reserved[k]
         ELSE seeds + made2 + making2 = seeds
  BY <1>1, <1>2, <1>3, <1>4
<1>6. QED BY <1>5 DEF WithinQuota, Used, seeds, quota, made2, making2

\* No more workspaces and none that is let in.
LEMMA WorkspacesKept ==
    ASSUME Limits, Ready', db'.lapses = db.lapses,
           Overdue(request', db') \subseteq Overdue(request, db),
           Admitted(request') \subseteq Admitted(request),
           Unexpired(db') \subseteq Unexpired(db)
    PROVE  Workspaces(request', db')
<1>1. /\ Cardinality(Overdue(request', db')) <= Cardinality(Overdue(request, db))
      /\ Cardinality(Admitted(request')) <= Cardinality(Admitted(request))
      /\ Cardinality(Unexpired(db')) <= Cardinality(Unexpired(db))
  BY RowsOfBoth, WorkspacesCounted, FS_Subset
<1>2. /\ Cardinality(Overdue(request, db)) \in Nat /\ Cardinality(Admitted(request)) \in Nat
      /\ Cardinality(Unexpired(db)) \in Nat /\ db.lapses \in Nat /\ MaxWorkspaces \in Nat
  BY RowsOfBoth, WorkspacesCounted
<1>3. /\ Cardinality(Overdue(request', db')) \in Nat /\ Cardinality(Admitted(request')) \in Nat
      /\ Cardinality(Unexpired(db')) \in Nat
  BY RowsOfBoth, WorkspacesCounted
<1>4. QED BY <1>1, <1>2, <1>3 DEF Limits, Workspaces

\* A step of a request that reserves nothing, makes no record and is not let in
\* to create a workspace.
Modest(p) ==
    /\ \/ request'[p].op \notin {"demo.rate", "demo.create"}
       \/ /\ request[p].op \in {"demo.rate", "demo.create"}
          /\ request'[p].arg = request[p].arg
    /\ CountsSeeds(request'[p])
    /\ \/ request'[p].op \notin Creating
       \/ db'.lock = p
       \/ request[p].op \in Creating /\ db'.lock = db.lock
    /\ request'[p].op # "demo.bootstrap"

SameReserved ==
    \A k \in Orgs \X Resources :
        /\ k \in DOMAIN db'.reserved <=> k \in DOMAIN db.reserved
        /\ k \in DOMAIN db.reserved => db'.reserved[k] = db.reserved[k]

LEMMA LimitsNext ==
    ASSUME Limits, Ready', NEW p \in Requests, Moved(p), Modest(p), SameReserved,
           \A k \in Orgs \X Resources : Created(db', k) <= Created(db, k),
           Unexpired(db') \subseteq Unexpired(db), db'.lapses = db.lapses,
           \A q \in Requests \ {p} : db.lock = q => db'.lock = q
    PROVE  Limits'
<1>1. \A k \in Orgs \X Resources : Making(request', k) \subseteq Making(request, k)
  BY DEF Making, Moved, Modest
<1>2. \A q \in Requests : CountsSeeds(request'[q])
  BY DEF Moved, Modest, Limits, Quotas
<1>3. Quotas(request', db')
  BY <1>1, <1>2, QuotaKept DEF Quotas, SameReserved
<1>4. Overdue(request', db') \subseteq Overdue(request, db)
  BY DEF Overdue, Moved, Modest
<1>5. Admitted(request') \subseteq Admitted(request)
  BY DEF Admitted, Moved, Modest
<1>6. Workspaces(request', db')
  BY <1>4, <1>5, WorkspacesKept
<1>7. QED BY <1>3, <1>6 DEF Limits

\* A step that has nothing to do with any of it.
LimitTables == {"orgs", "records", "reserved", "lock", "lapses", "today"}
LimitOps == {"demo.reserve", "demo.rate", "demo.create"} \cup Creating

LEMMA OtherOpsModest ==
    ASSUME NEW p, request'[p].op \notin LimitOps
    PROVE  Modest(p)
BY DEF Modest, LimitOps, CountsSeeds, Creating

LEMMA LimitsAside ==
    ASSUME Limits, Ready', NEW p \in Requests, Moved(p), NEW names, Kept(names),
           names \cap (LimitTables \ {"orgs", "reserved"}) = {},
           "orgs" \in names => Unexpired(db') \subseteq Unexpired(db),
           "reserved" \in names => SameReserved,
           Modest(p)
    PROVE  Limits'
<1>1. /\ db'.records = db.records /\ db'.lock = db.lock /\ db'.lapses = db.lapses
      /\ db'.today = db.today
      /\ "orgs" \notin names => db'.orgs = db.orgs
      /\ "reserved" \notin names => db'.reserved = db.reserved
  BY DEF Kept, TableNames, LimitTables
<1>2. \A k \in Orgs \X Resources : Created(db', k) <= Created(db, k)
  <2>1. \A k \in Orgs \X Resources : Created(db', k) = Created(db, k) /\ Created(db, k) \in Nat
    BY <1>1, QuotasCounted, RowsOfBoth DEF Created
  <2>2. QED BY <2>1
<1>3. Unexpired(db') \subseteq Unexpired(db)
  BY <1>1 DEF Unexpired
<1>4. SameReserved
  BY <1>1 DEF SameReserved
<1>5. QED BY <1>1, <1>2, <1>3, <1>4, LimitsNext

LEMMA AddingOne ==
    ASSUME NEW S, IsFiniteSet(S), NEW x
    PROVE  /\ IsFiniteSet(S \cup {x}) /\ Cardinality(S \cup {x}) \in Nat
           /\ Cardinality(S \cup {x}) <= Cardinality(S) + 1
<1>1. Cardinality(S) \in Nat /\ IsFiniteSet(S \cup {x})
  BY FS_AddElement, FS_CardinalityType
<1>2. Cardinality(S \cup {x}) = Cardinality(S) \/ Cardinality(S \cup {x}) = Cardinality(S) + 1
  BY FS_AddElement
<1>3. QED BY <1>1, <1>2

\* Time expires workspaces; the lock that runs out on a request that creates one
\* lets one more in.
LEMMA DayLimits ==
    ASSUME Limits, Ready', NextDay
    PROVE  Limits'
<1>1. /\ request' = request /\ db'.today = db.today + 1 /\ db'.orgs = db.orgs
      /\ db'.records = db.records /\ db'.reserved = db.reserved /\ db'.lock = db.lock
      /\ db'.lapses = db.lapses
  BY DEF NextDay, Limits, Ready, Typed, TableNames
<1>2. ASSUME NEW o \in Unexpired(db')
      PROVE  o \in Unexpired(db)
  <2>1. db.orgs[o].expires \in Nat /\ db.today \in Nat
    BY <1>1, <1>2, RowsOfBoth DEF Unexpired, RowsOK, DemoRowsOK, RowsOf, OrgRow
  <2>2. QED BY <1>1, <1>2, <2>1 DEF Unexpired
<1>3. Workspaces(request', db')
  BY <1>1, <1>2, WorkspacesKept DEF Overdue, Admitted
<1>4. Quotas(request', db')
  BY <1>1 DEF Limits, Quotas, WithinQuota, Used, Created
<1>5. QED BY <1>3, <1>4 DEF Limits

LEMMA LapseLimits ==
    ASSUME Limits, Ready', ExpireLease
    PROVE  Limits'
<1> DEFINE slow == request[db.lock].op \in Creating
           lapses == IF slow THEN db.lapses + 1 ELSE db.lapses
<1>1. db' = [db EXCEPT !.lock = None, !.lapses = lapses] /\ request' = request
  BY DEF ExpireLease
<1>2. db.lapses \in Nat
  BY RowsOfBoth DEF RowsOK, DemoRowsOK
<1>3. lapses \in Nat /\ lapses >= db.lapses /\ (slow => lapses = db.lapses + 1)
  BY <1>2
<1> HIDE DEF lapses
<1>4. /\ db'.today = db.today /\ db'.orgs = db.orgs
      /\ db'.records = db.records /\ db'.reserved = db.reserved /\ db'.lock = None
      /\ db'.lapses = lapses
  BY <1>1 DEF Limits, Ready, Typed, TableNames
<1>5. Quotas(request', db')
  BY <1>1, <1>4 DEF Limits, Quotas, WithinQuota, Used, Created
<1>6. Cardinality(Overdue(request', db')) <= lapses
  <2>1. Cardinality(Overdue(request, db)) \in Nat /\ Cardinality(Overdue(request, db)) <= db.lapses
        /\ IsFiniteSet(Overdue(request, db))
    BY RowsOfBoth, WorkspacesCounted DEF Limits, Workspaces
  <2>2. Cardinality(Overdue(request', db')) \in Nat
    BY RowsOfBoth, WorkspacesCounted
  <2>3. CASE slow
    <3> DEFINE more == Overdue(request, db) \cup {db.lock}
    <3>1. Overdue(request', db') \subseteq more
      BY <1>1 DEF Overdue
    <3>2. IsFiniteSet(more) /\ Cardinality(more) <= Cardinality(Overdue(request, db)) + 1
          /\ Cardinality(more) \in Nat
      BY <2>1, AddingOne
    <3>3. Cardinality(Overdue(request', db')) <= Cardinality(more)
      BY <3>1, <3>2, FS_Subset
    <3>4. QED BY <1>2, <1>3, <2>1, <2>2, <2>3, <3>2, <3>3
  <2>4. CASE ~slow
    <3>1. Overdue(request', db') \subseteq Overdue(request, db)
      BY <1>1, <2>4 DEF Overdue
    <3>2. Cardinality(Overdue(request', db')) <= Cardinality(Overdue(request, db))
      BY <2>1, <3>1, FS_Subset
    <3>3. QED BY <1>2, <1>3, <2>1, <2>2, <3>2
  <2>5. QED BY <2>3, <2>4
<1>7. Cardinality(Unexpired(db')) + Cardinality(Admitted(request')) <= MaxWorkspaces + lapses
  <2>1. Unexpired(db') = Unexpired(db) /\ request' = request
    BY <1>1, <1>4 DEF Unexpired
  <2>2. /\ Cardinality(Unexpired(db)) \in Nat /\ Cardinality(Admitted(request)) \in Nat
        /\ MaxWorkspaces \in Nat
    BY RowsOfBoth, WorkspacesCounted
  <2>3. Cardinality(Unexpired(db)) + Cardinality(Admitted(request)) <= MaxWorkspaces + db.lapses
    BY DEF Limits, Workspaces
  <2>4. QED BY <1>2, <1>3, <2>1, <2>2, <2>3
<1>8. QED BY <1>4, <1>5, <1>6, <1>7 DEF Limits, Workspaces

\* Files have a quota of their own, and no record of a demo is a file.
LEMMA FilesApart == \A k \in Orgs \X Resources : \A org : k # <<org, "attachment">>
BY DemoAssumption DEF DemoAssumption

LEMMA AttachmentsReserved ==
    ASSUME Typed, NEW p \in Requests, AttachmentArgs(request[p]), AttachmentsStep(p)
    PROVE  SameReserved
<1>1. ASSUME db'.reserved = db.reserved
      PROVE  SameReserved
  BY <1>1 DEF SameReserved
<1>2. ASSUME NEW scope, NEW op, NEW arg, TurnedAway(p, scope) \/ CallCounted(p, scope, op, arg)
      PROVE  SameReserved
  <2>1. Kept({"rates"})
    BY <1>2, TurningAway, CountedCalling
  <2>2. QED BY <1>1, <2>1 DEF Kept, TableNames
<1>3. ASSUME NEW tables, tables.reserved = db.reserved,
             \/ Reject(p) \/ \E op, arg : Continue(p, op, arg) \/ Begin(p, op, arg)
             \/ Commit(p, tables, <<>>)
             \/ \E op, arg, faults : Proceed(p, tables, op, arg, faults)
      PROVE  SameReserved
  <2>1. db' = db \/ db' = tables
    BY <1>3 DEF Reject, Continue, Begin, BeginWriting, Commit, Proceed
  <2>2. QED BY <1>1, <1>3, <2>1
<1>4. CASE Upload(p)
  <2>1. \/ \E scope : TurnedAway(p, scope) \/ \E op, arg : CallCounted(p, scope, op, arg)
        \/ Reserve(p, "attachment", "file.put")
        \/ Reject(p)
    BY <1>4 DEF Upload
  <2>2. ASSUME Reserve(p, "attachment", "file.put")
        PROVE  SameReserved
    <3> DEFINE key == <<Arg(p).org, "attachment">>
               current == IF key \in DOMAIN db.reserved THEN db.reserved[key] ELSE Arg(p).count
    <3>1. \/ Commit(p, [db EXCEPT !.reserved = Insert(@, key, current)], <<>>)
          \/ Proceed(p, [db EXCEPT !.reserved = Insert(@, key, current + 1)], "file.put", Arg(p), 0)
      BY <2>2 DEF Reserve
    <3> HIDE DEF current
    <3>2. \E n : db' = [db EXCEPT !.reserved = Insert(@, key, n)]
      BY <3>1 DEF Commit, Proceed
    <3>3. \E n : db'.reserved = Insert(db.reserved, key, n)
      BY <3>2 DEF Typed, TableNames
    <3>4. \A k \in Orgs \X Resources : k # key
      BY FilesApart
    <3> HIDE DEF key
    <3>5. QED BY <3>3, <3>4 DEF SameReserved, Insert
  <2>3. QED BY <1>2, <1>3, <2>1, <2>2
<1>5. CASE PutFile(p)
  <2>1. PICK f : \/ \E arg : Proceed(p, [db EXCEPT !.stored = @ \cup {f}], "file.insert", arg, 0)
                 \/ Proceed(p, db, "none", None, 1)
    BY <1>5 DEF PutFile
  <2>2. [db EXCEPT !.stored = @ \cup {f}].reserved = db.reserved
    BY DEF Typed, TableNames
  <2>3. QED BY <1>3, <2>1, <2>2
<1>6. CASE InsertRow(p)
  <2>1. PICK v : \/ Commit(p, [db EXCEPT !.attachments = v], <<>>)
                 \/ Continue(p, "file.remove", Arg(p).file)
                 \/ Proceed(p, db, "file.remove", Arg(p).file, 1)
                 \/ Proceed(p, [db EXCEPT !.attachments = v], "file.remove", Arg(p).file, 1)
    BY <1>6 DEF InsertRow
  <2>2. [db EXCEPT !.attachments = v].reserved = db.reserved
    BY DEF Typed, TableNames
  <2>3. QED BY <1>3, <2>1, <2>2
<1>7. CASE RemoveFile(p)
  <2>1. \/ Commit(p, [db EXCEPT !.stored = @ \ {Arg(p)}], <<>>)
        \/ Proceed(p, db, "none", None, 1)
    BY <1>7 DEF RemoveFile
  <2>2. [db EXCEPT !.stored = @ \ {Arg(p)}].reserved = db.reserved
    BY DEF Typed, TableNames
  <2>3. QED BY <1>3, <2>1, <2>2
<1>8. CASE DeleteAttachment(p)
  <2> DEFINE tables == [db EXCEPT !.attachments = Without(@, {Arg(p)})]
  <2>1. \/ \E f : Begin(p, "file.delete", f)
        \/ Proceed(p, Deleting(tables), "file.remove", Arg(p), 0)
        \/ Reject(p)
    BY <1>8 DEF DeleteAttachment
  <2>2. DOMAIN tables = TableNames /\ tables.reserved = db.reserved
    BY DEF Typed, TableNames
  <2> HIDE DEF tables
  <2>3. Deleting(tables).reserved = db.reserved
    BY <2>2, DeletingTables DEF TableNames
  <2>4. QED BY <1>3, <2>1, <2>3
<1>9. QED BY <1>4, <1>5, <1>6, <1>7, <1>8 DEF AttachmentsStep

-----------------------------------------------------------------------------
(* What the steps of the demo do to them *)

\* What of the limits a step may leave alone.
LEMMA CreatedSame ==
    ASSUME Limits, db'.records = db.records
    PROVE  \A k \in Orgs \X Resources : Created(db', k) <= Created(db, k)
<1>1. RowsOK(db)
  BY DEF Limits, Ready, Typed
<1>2. \A k \in Orgs \X Resources : Created(db', k) = Created(db, k) /\ Created(db, k) \in Nat
  BY <1>1, QuotasCounted DEF Created
<1>3. QED BY <1>2

LEMMA StartLimits ==
    ASSUME Limits, Ready', NEW p \in Requests, StartDemo(p) \/ RestartDemo(p) \/ QueryRecords(p)
    PROVE  Limits'
<1>1. /\ Kept({"rates"}) /\ Moved(p) /\ request'[p].op \in {"none", "demo.lock"}
  <2>1. /\ Kept({"rates"}) /\ Moved(p)
        /\ \E op \in {"none", "demo.lock"} : \E arg : request'[p] = [op |-> op, arg |-> arg]
    BY StartingDemo DEF Limits, Ready
  <2>2. QED BY <2>1
<1>2. Modest(p)
  BY <1>1, OtherOpsModest DEF LimitOps, Creating
<1>3. QED BY <1>1, <1>2, LimitsAside DEF LimitTables

LEMMA ReleasedLimits ==
    ASSUME Limits, Ready', NEW p \in Requests, NEW op, op \notin LimitOps, NEW arg, NEW faults,
           Release(p, db, op, arg, faults)
    PROVE  Limits'
<1>1. /\ Kept({"rates", "stored", "reserved", "lock"}) /\ Moved(p)
      /\ request'[p] = [op |-> op, arg |-> arg] /\ db'.reserved = db.reserved
  BY Releasing DEF Limits, Ready
<1>2. \A q \in Requests \ {p} : db.lock = q => db'.lock = q
  BY DEF Release, Unlocked, Proceed, Limits, Ready, Typed, TableNames
<1>3. /\ db'.orgs = db.orgs /\ db'.records = db.records /\ db'.today = db.today
      /\ db'.lapses = db.lapses
  BY <1>1 DEF Kept, TableNames
<1>4. Modest(p)
  BY <1>1, OtherOpsModest
<1>5. SameReserved /\ Unexpired(db') = Unexpired(db)
  BY <1>1, <1>3 DEF SameReserved, Unexpired
<1>6. \A k \in Orgs \X Resources : Created(db', k) <= Created(db, k)
  BY <1>3, CreatedSame
<1>7. QED BY <1>1, <1>2, <1>3, <1>4, <1>5, <1>6, LimitsNext

LEMMA LockLimits ==
    ASSUME Limits, Ready', NEW p \in Requests, Moved(p), AcquireLock(p) \/ FinishStart(p)
    PROVE  Limits'
<1>1. CASE AcquireLock(p)
  <2>1. CASE Reject(p)
    <3>1. Kept({}) /\ request'[p].op = "none"
      BY <2>1, Rejecting DEF Limits, Ready, Idle
    <3>2. Modest(p)
      BY <3>1, OtherOpsModest DEF LimitOps, Creating
    <3>3. QED BY <3>1, <3>2, LimitsAside
  <2>2. ASSUME db.lock = None, Proceed(p, [db EXCEPT !.lock = p], "demo.count", Arg(p), 0)
        PROVE  Limits'
    <3>1. /\ db' = [db EXCEPT !.lock = p] /\ request'[p] = [op |-> "demo.count", arg |-> Arg(p)]
      BY <2>2, Proceeding DEF Limits, Ready
    <3>2. /\ db'.orgs = db.orgs /\ db'.records = db.records /\ db'.today = db.today
          /\ db'.lapses = db.lapses /\ db'.reserved = db.reserved /\ db'.lock = p
      BY <3>1 DEF Limits, Ready, Typed, TableNames
    <3>3. Modest(p)
      BY <3>1, <3>2 DEF Modest, CountsSeeds
    <3>4. SameReserved /\ Unexpired(db') = Unexpired(db)
      BY <3>2 DEF SameReserved, Unexpired
    <3>5. \A q \in Requests : db.lock # q
      BY <2>2, DemoAssumption DEF DemoAssumption
    <3>6. QED BY <3>2, <3>3, <3>4, <3>5, CreatedSame, LimitsNext
  <2>3. QED BY <1>1, <2>1, <2>2 DEF AcquireLock
<1>2. CASE FinishStart(p)
  <2>1. \E op \in {"none", "demo.expire"} : \E arg : Release(p, db, op, arg, 0)
    BY <1>2 DEF FinishStart
  <2>2. "none" \notin LimitOps /\ "demo.expire" \notin LimitOps
    BY DEF LimitOps, Creating
  <2>3. QED BY <2>1, <2>2, ReleasedLimits
<1>3. QED BY <1>1, <1>2

\* Whoever holds the lock may be let in, and whoever created before it, once for
\* each time it ran out.
LEMMA CountLimits ==
    ASSUME Limits, Ready', NEW p \in Requests, CountWorkspaces(p)
    PROVE  Limits'
<1>1. CASE Release(p, db, "none", None, 0)
  BY <1>1, ReleasedLimits DEF LimitOps, Creating
<1>2. ASSUME Continue(p, "demo.bootstrap", Arg(p)),
             ~(Cardinality(ActiveDemos) >= MaxWorkspaces)
      PROVE  Limits'
  <2>1. /\ db' = db /\ Moved(p) /\ request'[p] = [op |-> "demo.bootstrap", arg |-> Arg(p)]
        /\ request[p].op = "demo.count"
    BY <1>2, Continuing DEF Limits, Ready, CountWorkspaces, At
  <2>2. Quotas(request', db')
    <3>1. \A k \in Orgs \X Resources : Making(request', k) \subseteq Making(request, k)
      BY <2>1 DEF Making, Moved
    <3>2. \A q \in Requests : CountsSeeds(request'[q])
      BY <2>1 DEF Moved, CountsSeeds, Limits, Quotas
    <3>3. QED BY <2>1, <3>1, <3>2, CreatedSame, QuotaKept DEF Quotas
  <2>3. Overdue(request', db') = Overdue(request, db)
    BY <2>1 DEF Overdue, Moved, Creating
  <2>4. Cardinality(Overdue(request', db')) <= db.lapses
    BY <2>3 DEF Limits, Workspaces
  <2> DEFINE more == Overdue(request', db') \cup {db.lock}
  <2>5. Admitted(request') \subseteq more
    BY <2>1 DEF Admitted, Overdue, Creating
  <2>6. IsFiniteSet(more) /\ Cardinality(more) \in Nat
        /\ Cardinality(more) <= Cardinality(Overdue(request', db')) + 1
    BY RowsOfBoth, WorkspacesCounted, AddingOne
  <2>7. Cardinality(Admitted(request')) <= Cardinality(more)
    BY <2>5, <2>6, FS_Subset
  <2>8. ~(Cardinality(Unexpired(db')) >= MaxWorkspaces)
    BY <1>2, <2>1 DEF ActiveDemos, Demos, Unexpired
  <2>9. /\ Cardinality(Unexpired(db')) \in Nat /\ Cardinality(Admitted(request')) \in Nat
        /\ Cardinality(Overdue(request', db')) \in Nat /\ db.lapses \in Nat /\ MaxWorkspaces \in Nat
    BY RowsOfBoth, WorkspacesCounted
  <2>10. Cardinality(Unexpired(db')) + Cardinality(Admitted(request')) <= MaxWorkspaces + db.lapses
    BY <2>4, <2>6, <2>7, <2>8, <2>9
  <2>11. QED BY <2>1, <2>2, <2>4, <2>10 DEF Limits, Workspaces
<1>3. QED BY <1>1, <1>2 DEF CountWorkspaces

\* One workspace more, and one fewer that is let in.
LEMMA BootstrapLimits ==
    ASSUME Limits, Ready', NEW p \in Requests, BootstrapWorkspace(p)
    PROVE  Limits'
<1>1. CASE Release(p, db, "none", None, 1)
  BY <1>1, ReleasedLimits DEF LimitOps, Creating
<1>2. ASSUME NEW org, NEW row, NEW roles, NEW accounts, NEW arg,
             Proceed(p, [db EXCEPT !.orgs = Insert(@, org, row), !.roles = roles,
                                   !.accounts = accounts], "demo.identity", arg, 0)
      PROVE  Limits'
  <2> DEFINE orgs == Insert(db.orgs, org, row)
             tables == [db EXCEPT !.orgs = orgs, !.roles = roles, !.accounts = accounts]
  <2>1. /\ tables.orgs = orgs /\ tables.records = db.records /\ tables.today = db.today
        /\ tables.lapses = db.lapses /\ tables.reserved = db.reserved /\ tables.lock = db.lock
    BY DEF Limits, Ready, Typed, TableNames
  <2>2. Proceed(p, tables, "demo.identity", arg, 0)
    BY <1>2
  <2> HIDE DEF tables
  <2>3. db' = tables /\ Moved(p) /\ request'[p] = [op |-> "demo.identity", arg |-> arg]
    BY <2>2, Proceeding DEF Limits, Ready
  <2>4. request[p].op = "demo.bootstrap"
    BY DEF BootstrapWorkspace, At
  <2>5. Quotas(request', db')
    <3>1. \A k \in Orgs \X Resources : Making(request', k) \subseteq Making(request, k)
      BY <2>3 DEF Making, Moved
    <3>2. \A q \in Requests : CountsSeeds(request'[q])
      BY <2>3 DEF Moved, CountsSeeds, Limits, Quotas
    <3>3. QED BY <2>1, <2>3, <3>1, <3>2, CreatedSame, QuotaKept DEF Quotas
  <2>6. Overdue(request', db') = Overdue(request, db)
    BY <2>1, <2>3, <2>4 DEF Overdue, Moved, Creating
  <2>7. /\ p \in Admitted(request) /\ Admitted(request') = Admitted(request) \ {p}
    BY <2>3, <2>4 DEF Admitted, Moved
  <2>8. Unexpired(db') \subseteq Unexpired(db) \cup {org}
    BY <2>1, <2>3 DEF Unexpired, Insert
  <2>9. /\ Cardinality(Unexpired(db)) \in Nat /\ Cardinality(Admitted(request)) \in Nat
        /\ IsFiniteSet(Unexpired(db)) /\ IsFiniteSet(Admitted(request))
        /\ db.lapses \in Nat /\ MaxWorkspaces \in Nat
        /\ Cardinality(Unexpired(db')) \in Nat
    BY RowsOfBoth, WorkspacesCounted
  <2>10. Cardinality(Admitted(request')) = Cardinality(Admitted(request)) - 1
    BY <2>7, <2>9, FS_RemoveElement
  <2>11. Cardinality(Unexpired(db')) <= Cardinality(Unexpired(db)) + 1
    <3> DEFINE more == Unexpired(db) \cup {org}
    <3>1. /\ IsFiniteSet(more) /\ Cardinality(more) \in Nat
          /\ Cardinality(more) <= Cardinality(Unexpired(db)) + 1
      BY <2>9, AddingOne
    <3> HIDE DEF more
    <3>2. Cardinality(Unexpired(db')) <= Cardinality(more)
      BY <2>8, <3>1, FS_Subset DEF more
    <3>3. QED BY <2>9, <3>1, <3>2
  <2>12. /\ Cardinality(Overdue(request, db)) <= db.lapses
         /\ Cardinality(Unexpired(db)) + Cardinality(Admitted(request)) <= MaxWorkspaces + db.lapses
    BY DEF Limits, Workspaces
  <2>13. Cardinality(Unexpired(db')) + Cardinality(Admitted(request')) <= MaxWorkspaces + db.lapses
    BY <2>9, <2>10, <2>11, <2>12
  <2>14. db'.lapses = db.lapses
    BY <2>1, <2>3
  <2>15. Workspaces(request', db')
    BY <2>6, <2>12, <2>13, <2>14 DEF Workspaces
  <2>16. QED BY <2>5, <2>15 DEF Limits
<1>3. \/ Release(p, db, "none", None, 1)
      \/ \E org, row, roles, accounts, arg :
            Proceed(p, [db EXCEPT !.orgs = Insert(@, org, row), !.roles = roles,
                                  !.accounts = accounts], "demo.identity", arg, 0)
  BY DEF BootstrapWorkspace, WithOrganization
<1>4. QED BY <1>1, <1>2, <1>3

\* A sender or an end that is given to a workspace makes none that has not expired.
LEMMA PatchedUnexpired ==
    ASSUME Typed, NEW org \in DOMAIN db.orgs, NEW change,
           change = [sender |-> TRUE] \/ change = [expires |-> db.today],
           db'.orgs = Patch(db.orgs, org, change), db'.today = db.today
    PROVE  Unexpired(db') \subseteq Unexpired(db)
<1>1. ASSUME NEW o \in Unexpired(db')
      PROVE  o \in Unexpired(db)
  <2>1. o \in DOMAIN db.orgs /\ db'.orgs[o].demo /\ db'.orgs[o].expires > db.today
    BY <1>1 DEF Unexpired, Patch
  <2>2. db.orgs[o] \in OrgRow /\ db.today \in Nat
    BY <2>1 DEF Typed, RowsOK, DemoRowsOK, RowsOf
  <2>3. CASE o # org
    BY <2>1, <2>3 DEF Unexpired, Patch
  <2>4. CASE o = org
    <3>1. db'.orgs[o] = Over(change, db.orgs[o])
      BY <2>1, <2>4 DEF Patch
    <3>2. CASE change = [sender |-> TRUE]
      <4>1. db'.orgs[o].demo = db.orgs[o].demo /\ db'.orgs[o].expires = db.orgs[o].expires
        BY <2>2, <3>1, <3>2 DEF Over, OrgRow
      <4>2. QED BY <2>1, <4>1 DEF Unexpired
    <3>3. CASE change = [expires |-> db.today]
      <4>1. db'.orgs[o].expires = db.today
        BY <2>2, <3>1, <3>3 DEF Over, OrgRow
      <4>2. QED BY <2>1, <2>2, <4>1
    <3>4. QED BY <3>2, <3>3
  <2>5. QED BY <2>3, <2>4
<1>2. QED BY <1>1

LEMMA OrgLimits ==
    ASSUME Limits, Ready', NEW p \in Requests, SetIdentity(p) \/ ExpirePrevious(p)
    PROVE  Limits'
<1>1. ASSUME NEW org, NEW change, change = [sender |-> TRUE] \/ change = [expires |-> db.today],
             NEW op, NEW arg,
             Proceed(p, [db EXCEPT !.orgs = IF org \in DOMAIN @ THEN Patch(@, org, change) ELSE @],
                     op, arg, 0),
             \/ op \notin LimitOps
             \/ op = "demo.seed" /\ request[p].op = "demo.identity"
      PROVE  Limits'
  <2> DEFINE orgs == IF org \in DOMAIN db.orgs THEN Patch(db.orgs, org, change) ELSE db.orgs
             tables == [db EXCEPT !.orgs = orgs]
  <2>1. DOMAIN tables = TableNames /\ tables.orgs = orgs
        /\ \A n \in TableNames \ {"orgs"} : tables[n] = db[n]
    BY DEF Limits, Ready, Typed, TableNames
  <2>2. Proceed(p, tables, op, arg, 0)
    BY <1>1
  <2> HIDE DEF tables
  <2>3. db' = tables /\ Moved(p) /\ request'[p] = [op |-> op, arg |-> arg]
    BY <2>2, Proceeding DEF Limits, Ready
  <2>4. Kept({"orgs"})
    BY <2>1, <2>3 DEF Kept, TableNames
  <2>5. db'.orgs = orgs /\ db'.today = db.today /\ db'.lock = db.lock
    BY <2>1, <2>3 DEF TableNames
  <2>6. Unexpired(db') \subseteq Unexpired(db)
    <3>1. CASE org \in DOMAIN db.orgs
      <4>1. db'.orgs = Patch(db.orgs, org, change)
        BY <2>5, <3>1
      <4>2. QED BY <1>1, <2>5, <3>1, <4>1, PatchedUnexpired DEF Limits, Ready
    <3>2. CASE org \notin DOMAIN db.orgs
      BY <2>5, <3>2 DEF Unexpired
    <3>3. QED BY <3>1, <3>2
  <2>7. Modest(p)
    <3>1. CASE op \notin LimitOps
      BY <2>3, <3>1, OtherOpsModest
    <3>2. CASE op = "demo.seed" /\ request[p].op = "demo.identity"
      BY <2>3, <2>5, <3>2 DEF Modest, CountsSeeds, Creating
    <3>3. QED BY <1>1, <3>1, <3>2
  <2>8. QED BY <2>3, <2>4, <2>6, <2>7, LimitsAside DEF LimitTables
<1>2. CASE SetIdentity(p)
  <2>1. \/ Release(p, db, "none", None, 1)
        \/ Proceed(p, [db EXCEPT !.orgs = IF Arg(p).org \in DOMAIN @
                                          THEN Patch(@, Arg(p).org, [sender |-> TRUE]) ELSE @],
                   "demo.seed", Arg(p), 0)
    BY <1>2 DEF SetIdentity, WithSender
  <2>2. request[p].op = "demo.identity"
    BY <1>2 DEF SetIdentity, At
  <2>3. "none" \notin LimitOps
    BY DEF LimitOps, Creating
  <2>4. QED BY <1>1, <2>1, <2>2, <2>3, ReleasedLimits
<1>3. CASE ExpirePrevious(p)
  <2>1. CASE Proceed(p, db, "none", None, 1)
    <3>1. db' = db /\ Moved(p) /\ request'[p] = [op |-> "none", arg |-> None]
      BY <2>1, Proceeding DEF Limits, Ready
    <3>2. Kept({}) /\ Modest(p)
      BY <3>1, OtherOpsModest DEF Kept, Limits, Ready, Typed, LimitOps, Creating
    <3>3. QED BY <3>1, <3>2, LimitsAside
  <2>2. "demo.destroy" \notin LimitOps
    BY DEF LimitOps, Creating
  <2>3. \/ Proceed(p, db, "none", None, 1)
        \/ Proceed(p, [db EXCEPT !.orgs = IF Arg(p) \in DOMAIN @
                                          THEN Patch(@, Arg(p), [expires |-> db.today]) ELSE @],
                   "demo.destroy", [orgs |-> {Arg(p)}, day |-> db.today], 0)
    BY <1>3 DEF ExpirePrevious
  <2>4. QED BY <1>1, <2>1, <2>2, <2>3
<1>4. QED BY <1>2, <1>3

\* A workspace that goes takes its records with it.
LEMMA DeletedLimits ==
    ASSUME Limits, Ready', NEW p \in Requests, Moved(p), NEW org, NEW tables,
           tables = WithoutOrganization(org),
           \A n \in TableNames \ {"lock"} : db'[n] = tables[n],
           \A q \in Requests \ {p} : db.lock = q => db'.lock = q,
           request'[p].op \notin LimitOps
    PROVE  Limits'
<1> DEFINE records == {k \in DOMAIN db.records : k[1] = org}
<1>1. /\ tables.today = db.today /\ tables.lapses = db.lapses /\ tables.reserved = db.reserved
      /\ tables.orgs = Without(db.orgs, {org}) /\ tables.records = Without(db.records, records)
  BY OrganizationDeleted DEF Limits, Ready, Typed
<1> HIDE DEF records
<1>2. /\ db'.today = db.today /\ db'.lapses = db.lapses /\ db'.reserved = db.reserved
      /\ db'.orgs = Without(db.orgs, {org}) /\ db'.records = Without(db.records, records)
  BY <1>1 DEF TableNames
<1>3. SameReserved /\ Unexpired(db') \subseteq Unexpired(db)
  BY <1>2 DEF SameReserved, Unexpired, Without
<1>4. ASSUME NEW k \in Orgs \X Resources
      PROVE  Created(db', k) <= Created(db, k)
  <2>1. Created(db, k) \in Nat
    BY RowsOfBoth, QuotasCounted
  <2>2. Created(db', k) = Created(db, k) \/ Created(db', k) = 0
    BY <1>2 DEF Created, Without
  <2>3. QED BY <2>1, <2>2
<1>5. QED BY <1>2, <1>3, <1>4, OtherOpsModest, LimitsNext

LEMMA GivenUpLimits ==
    ASSUME Limits, Ready', NEW p \in Requests, GiveUpWorkspace(p)
    PROVE  Limits'
<1> DEFINE org == Arg(p).org
           tables == WithoutOrganization(org)
           unlocked == Unlocked(p, tables)
<1>1. DOMAIN tables = TableNames /\ tables.lock = db.lock
  BY OrganizationDeleted DEF Limits, Ready, Typed
<1>2. db.lock \in OrNone(Requests)
  BY DEF Limits, Ready, Typed, RowsOK, DemoRowsOK
<1>3. Proceed(p, unlocked, "none", None, 1)
  BY DEF GiveUpWorkspace, Release
<1> HIDE DEF org, tables
<1>4. \A n \in TableNames \ {"lock"} : unlocked[n] = tables[n]
  BY <1>1, <1>2, Unlocking DEF Limits, Ready
<1>5. \A q \in Requests \ {p} : db.lock = q => unlocked.lock = q
  BY <1>1 DEF Unlocked, TableNames
<1> HIDE DEF unlocked
<1>6. db' = unlocked /\ Moved(p) /\ request'[p] = [op |-> "none", arg |-> None]
  BY <1>3, Proceeding DEF Limits, Ready
<1>7. request'[p].op \notin LimitOps
  BY <1>6 DEF LimitOps, Creating
<1>8. tables = WithoutOrganization(org)
  BY DEF tables
<1>9. QED BY <1>4, <1>5, <1>6, <1>7, <1>8, DeletedLimits

LEMMA SeedLimits ==
    ASSUME Limits, Ready', NEW p \in Requests, SeedWorkspace(p)
    PROVE  Limits'
<1> DEFINE empty == [k \in {Arg(p).org} \X Resources |-> [created |-> 0, derived |-> 0]]
           records == Over(empty, db.records)
           tables == [db EXCEPT !.records = records]
<1>1. CASE GiveUpWorkspace(p)
  BY <1>1, GivenUpLimits
<1>2. ASSUME Proceed(p, tables, "demo.session", Arg(p), 0)
      PROVE  Limits'
  <2>1. /\ tables.orgs = db.orgs /\ tables.records = records /\ tables.today = db.today
        /\ tables.lapses = db.lapses /\ tables.reserved = db.reserved /\ tables.lock = db.lock
    BY DEF Limits, Ready, Typed, TableNames
  <2> HIDE DEF tables
  <2>2. db' = tables /\ Moved(p) /\ request'[p] = [op |-> "demo.session", arg |-> Arg(p)]
    BY <1>2, Proceeding DEF Limits, Ready
  <2>3. \A k \in DOMAIN empty : empty[k].created = 0
    OBVIOUS
  <2> HIDE DEF empty
  <2>4. ASSUME NEW k \in Orgs \X Resources
        PROVE  Created(db', k) <= Created(db, k)
    <3>1. Created(db, k) \in Nat
      BY RowsOfBoth, QuotasCounted
    <3>2. Created(db', k) = Created(db, k) \/ Created(db', k) = 0
      BY <2>1, <2>2, <2>3 DEF Created, Over
    <3>3. QED BY <3>1, <3>2
  <2>5. SameReserved /\ Unexpired(db') = Unexpired(db)
    BY <2>1, <2>2 DEF SameReserved, Unexpired
  <2>6. request[p].op = "demo.seed"
    BY DEF SeedWorkspace, At
  <2>7. Modest(p)
    BY <2>1, <2>2, <2>6 DEF Modest, CountsSeeds, Creating
  <2>8. QED BY <2>1, <2>2, <2>4, <2>5, <2>7, LimitsNext
<1>3. QED BY <1>1, <1>2 DEF SeedWorkspace

LEMMA OpenLimits ==
    ASSUME Limits, Ready', NEW p \in Requests, OpenWorkspace(p)
    PROVE  Limits'
<1>1. ASSUME NEW sessions, NEW arg, Proceed(p, [db EXCEPT !.sessions = sessions], "demo.done", arg, 0)
      PROVE  Limits'
  <2> DEFINE tables == [db EXCEPT !.sessions = sessions]
  <2>1. DOMAIN tables = TableNames /\ tables.gone = db.gone
        /\ \A n \in TableNames \ {"sessions"} : tables[n] = db[n]
    BY DEF Limits, Ready, Typed, TableNames
  <2> HIDE DEF tables
  <2>2. Proceed(p, tables, "demo.done", arg, 0)
    BY <1>1 DEF tables
  <2>3. db' = tables /\ Moved(p) /\ request'[p] = [op |-> "demo.done", arg |-> arg]
    BY <2>2, Proceeding DEF Limits, Ready
  <2>4. Kept({"sessions"})
    BY <2>1, <2>3 DEF Kept
  <2>5. Modest(p)
    BY <2>3, OtherOpsModest DEF LimitOps, Creating
  <2>6. QED BY <2>3, <2>4, <2>5, LimitsAside DEF LimitTables
<1>2. \/ GiveUpWorkspace(p)
      \/ \E sessions, arg : Proceed(p, [db EXCEPT !.sessions = sessions], "demo.done", arg, 0)
  BY DEF OpenWorkspace
<1>3. QED BY <1>1, <1>2, GivenUpLimits

LEMMA DestroyLimits ==
    ASSUME Limits, Ready', NEW p \in Requests, Moved(p),
           CleanupDemos(p) \/ DestroyNext(p) \/ DestroyFiles(p)
    PROVE  Limits'
<1>1. /\ "none" \notin LimitOps /\ "demo.destroy" \notin LimitOps /\ "demo.files" \notin LimitOps
  BY DEF LimitOps, Creating
<1>2. Typed
  BY DEF Limits, Ready
<1>3. ASSUME NEW names, Kept(names), names \cap LimitTables = {}, request'[p].op \notin LimitOps
      PROVE  Limits'
  BY <1>3, OtherOpsModest, LimitsAside DEF LimitTables
<1>4. CASE CleanupDemos(p)
  <2>1. PICK arg : Begin(p, "demo.destroy", arg)
    BY <1>4 DEF CleanupDemos
  <2>2. Kept({"rates"}) /\ request'[p] = [op |-> "demo.destroy", arg |-> arg]
    BY <1>2, <2>1, Calling
  <2>3. QED BY <1>1, <1>3, <2>2 DEF LimitTables
<1>5. CASE DestroyNext(p)
  <2>1. Reject(p) \/ \E arg : Continue(p, "demo.destroy", arg) \/ Continue(p, "demo.files", arg)
    BY <1>5 DEF DestroyNext
  <2>2. Kept({}) /\ request'[p].op \in {"none", "demo.destroy", "demo.files"}
    <3>1. CASE Reject(p)
      BY <1>2, <3>1, Rejecting DEF Idle
    <3>2. ASSUME NEW op \in {"demo.destroy", "demo.files"}, NEW arg, Continue(p, op, arg)
          PROVE  Kept({}) /\ request'[p].op = op
      <4>1. Kept({}) /\ request'[p] = [op |-> op, arg |-> arg]
        BY <1>2, <3>2, Continuing
      <4>2. QED BY <4>1
    <3>3. QED BY <2>1, <3>1, <3>2
  <2>3. QED BY <1>1, <1>3, <2>2
<1>6. CASE DestroyFiles(p)
  <2>1. ASSUME NEW org, NEW arg, Proceed(p, WithoutOrganization(org), "demo.destroy", arg, 0)
        PROVE  Limits'
    <3> DEFINE tables == WithoutOrganization(org)
    <3>1. tables.lock = db.lock
      BY <1>2, OrganizationDeleted DEF Typed
    <3>2. db' = tables /\ request'[p] = [op |-> "demo.destroy", arg |-> arg]
      BY <1>2, <2>1, Proceeding
    <3>3. request'[p].op \notin LimitOps
      BY <1>1, <3>2
    <3> HIDE DEF tables
    <3>4. tables = WithoutOrganization(org)
      BY DEF tables
    <3>5. /\ \A n \in TableNames \ {"lock"} : db'[n] = tables[n]
          /\ \A q \in Requests \ {p} : db.lock = q => db'.lock = q
      BY <3>1, <3>2
    <3>6. QED BY <3>3, <3>4, <3>5, DeletedLimits
  <2>2. ASSUME NEW op \in {"demo.destroy", "demo.files"}, NEW arg, NEW faults, NEW v,
               \/ Proceed(p, [db EXCEPT !.stored = v], op, arg, faults)
               \/ Proceed(p, db, op, arg, faults)
        PROVE  Limits'
    <3> DEFINE tables == [db EXCEPT !.stored = v]
    <3>1. /\ DOMAIN tables = TableNames /\ tables.gone = db.gone
          /\ \A n \in TableNames \ {"stored"} : tables[n] = db[n]
      BY <1>2 DEF Typed, TableNames
    <3> HIDE DEF tables
    <3>2. db' \in {db, tables} /\ request'[p] = [op |-> op, arg |-> arg]
      BY <1>2, <2>2, Proceeding DEF tables
    <3>3. Kept({"stored"})
      BY <1>2, <3>1, <3>2 DEF Kept, Typed
    <3>4. request'[p].op \notin LimitOps
      BY <1>1, <3>2
    <3>5. QED BY <1>3, <3>3, <3>4 DEF LimitTables
  <2>3. \/ \E f, arg : Proceed(p, [db EXCEPT !.stored = @ \ {f}], "demo.files", arg, 0)
        \/ \E arg, faults : Proceed(p, db, "demo.destroy", arg, faults)
        \/ \E org, arg : Proceed(p, WithoutOrganization(org), "demo.destroy", arg, 0)
    BY <1>6 DEF DestroyFiles
  <2>4. QED BY <2>1, <2>2, <2>3
<1>7. QED BY <1>4, <1>5, <1>6

\* A place in the quota is taken from what is left of it.
LEMMA ReservedLimits ==
    ASSUME Limits, Ready', NEW p \in Requests, request[p].op = "demo.reserve",
           Reserve(p, Arg(p).kind, "demo.rate")
    PROVE  Limits'
<1> DEFINE org == Arg(p).org
           kind == Arg(p).kind
           key == <<org, kind>>
           current == IF key \in DOMAIN db.reserved THEN db.reserved[key] ELSE Arg(p).count
<1>1. org \in Orgs /\ kind \in Resources /\ Arg(p).count \in Nat /\ Arg(p).count >= SeededRows[kind]
  <2>1. DemoArgs(request[p], db.orgs) /\ CountsSeeds(request[p])
    BY DEF Limits, Ready, ArgsOK, Quotas
  <2>2. QED BY <2>1 DEF DemoArgs, CountsSeeds, Arg
<1>2. \/ current >= Quota[kind] /\ Commit(p, [db EXCEPT !.reserved = Insert(@, key, current)], <<>>)
      \/ /\ ~(current >= Quota[kind])
         /\ Proceed(p, [db EXCEPT !.reserved = Insert(@, key, current + 1)], "demo.rate", Arg(p), 0)
  BY DEF Reserve
<1>3. /\ key \in Orgs \X Resources /\ current \in Nat
      /\ key \in DOMAIN db.reserved => current = db.reserved[key]
      /\ key \notin DOMAIN db.reserved => current = Arg(p).count
  BY <1>1, RowsOfBoth, QuotasCounted
<1>4. WithinQuota(request, db, key)
  BY <1>3 DEF Limits, Quotas
<1> DEFINE seeds == SeededRows[kind]
           quota == Quota[kind]
           made == Created(db, key)
           making == Cardinality(Making(request, key))
<1>5. /\ seeds \in Nat /\ quota \in Nat /\ made \in Nat /\ making \in Nat
      /\ IsFiniteSet(Making(request, key))
  BY <1>3, RowsOfBoth, QuotasCounted
<1>6. Used(request, db, key) = seeds + made + making /\ key[2] = kind
  BY DEF Used
<1>7. seeds + made + making <= current /\ seeds + made + making <= quota
  <2>1. CASE key \in DOMAIN db.reserved
    BY <1>3, <1>4, <1>6, <2>1 DEF WithinQuota
  <2>2. CASE key \notin DOMAIN db.reserved
    BY <1>1, <1>3, <1>4, <1>5, <1>6, <2>2 DEF WithinQuota
  <2>3. QED BY <2>1, <2>2
<1> HIDE DEF key, current, seeds, quota, made, making
<1>8. ASSUME NEW n \in Nat, db' = [db EXCEPT !.reserved = Insert(@, key, n)], n >= current,
             Moved(p), request'[p].op \notin Creating, CountsSeeds(request'[p]),
             \/ request'[p].op \notin {"demo.rate", "demo.create"}
             \/ request'[p].arg = Arg(p) /\ n = current + 1 /\ n <= quota
      PROVE  Limits'
  <2>1. /\ db'.orgs = db.orgs /\ db'.records = db.records /\ db'.today = db.today
        /\ db'.lapses = db.lapses /\ db'.reserved = Insert(db.reserved, key, n)
        /\ db'.lock = db.lock
    BY <1>8 DEF Limits, Ready, Typed, TableNames
  <2>2. \A k \in (Orgs \X Resources) \ {key} : Making(request', k) \subseteq Making(request, k)
    <3>1. ASSUME NEW k \in Orgs \X Resources, k # key, NEW q \in Making(request', k)
          PROVE  q \in Making(request, k)
      <4>1. CASE q # p
        BY <1>8, <3>1, <4>1 DEF Making, Moved
      <4>2. CASE q = p
        <5>1. Arg(p).org = k[1] /\ Arg(p).kind = k[2]
          BY <1>8, <3>1, <4>2 DEF Making
        <5>2. k = key
          BY <5>1 DEF key
        <5>3. QED BY <3>1, <5>2
      <4>3. QED BY <4>1, <4>2
    <3>2. QED BY <3>1
  <2>3. ASSUME NEW k \in (Orgs \X Resources) \ {key}
        PROVE  WithinQuota(request', db', k)
    <3>1. /\ k \in DOMAIN db'.reserved <=> k \in DOMAIN db.reserved
          /\ k \in DOMAIN db.reserved => db'.reserved[k] = db.reserved[k]
      BY <2>1 DEF Insert
    <3>2. QED BY <2>1, <2>2, <3>1, CreatedSame, QuotaKept
  <2>4. Created(db', key) = made /\ key \in DOMAIN db'.reserved /\ db'.reserved[key] = n
    BY <2>1 DEF Created, Insert, made
  <2> DEFINE making2 == Cardinality(Making(request', key))
  <2>5. making2 \in Nat
    BY <1>3, RowsOfBoth, QuotasCounted
  <2>6. seeds + made + making2 <= n /\ seeds + made + making2 <= quota
    <3>1. CASE request'[p].op \notin {"demo.rate", "demo.create"}
      <4>1. Making(request', key) \subseteq Making(request, key)
        BY <1>8, <3>1 DEF Making, Moved
      <4>2. making2 <= making
        BY <1>5, <4>1, FS_Subset DEF making
      <4> HIDE DEF making2
      <4>3. QED BY <1>3, <1>5, <1>7, <1>8, <2>5, <4>2
    <3>2. CASE request'[p].arg = Arg(p) /\ n = current + 1 /\ n <= quota
      <4>1. Making(request', key) \subseteq Making(request, key) \cup {p}
        BY <1>8 DEF Making, Moved
      <4>2. /\ IsFiniteSet(Making(request, key) \cup {p})
            /\ Cardinality(Making(request, key) \cup {p}) \in Nat
            /\ Cardinality(Making(request, key) \cup {p}) <= making + 1
        BY <1>5, AddingOne DEF making
      <4>3. making2 <= Cardinality(Making(request, key) \cup {p})
        BY <4>1, <4>2, FS_Subset
      <4> HIDE DEF making2
      <4>4. making2 <= making + 1
        BY <1>5, <2>5, <4>2, <4>3
      <4>5. QED BY <1>3, <1>5, <1>7, <2>5, <3>2, <4>4
    <3>3. QED BY <1>8, <3>1, <3>2
  <2>7. WithinQuota(request', db', key)
    <3>1. Used(request', db', key) = seeds + made + making2
      BY <1>6, <2>4 DEF Used, seeds
    <3> HIDE DEF making2
    <3>2. QED BY <1>6, <2>4, <2>6, <3>1 DEF WithinQuota, quota
  <2>8. \A q \in Requests : CountsSeeds(request'[q])
    BY <1>8 DEF Moved, Limits, Quotas
  <2>9. Quotas(request', db')
    BY <2>3, <2>7, <2>8 DEF Quotas
  <2>10. Overdue(request', db') \subseteq Overdue(request, db)
    BY <1>8, <2>1 DEF Overdue, Moved
  <2>11. Admitted(request') \subseteq Admitted(request)
    BY <1>8 DEF Admitted, Moved, Creating
  <2>12. Unexpired(db') = Unexpired(db)
    BY <2>1 DEF Unexpired
  <2>13. QED BY <2>1, <2>9, <2>10, <2>11, <2>12, WorkspacesKept DEF Limits
<1>9. CASE Commit(p, [db EXCEPT !.reserved = Insert(@, key, current)], <<>>)
  <2>1. db' = [db EXCEPT !.reserved = Insert(@, key, current)] /\ Moved(p) /\ request'[p] = Idle
    BY <1>9 DEF Commit, Moved, Limits, Ready, Typed
  <2>2. /\ request'[p].op \notin {"demo.rate", "demo.create"} /\ request'[p].op \notin Creating
        /\ CountsSeeds(request'[p])
    BY <2>1 DEF Idle, Creating, CountsSeeds
  <2>3. QED BY <1>3, <1>8, <2>1, <2>2
<1>10. CASE /\ ~(current >= Quota[kind])
            /\ Proceed(p, [db EXCEPT !.reserved = Insert(@, key, current + 1)], "demo.rate", Arg(p), 0)
  <2> DEFINE tables == [db EXCEPT !.reserved = Insert(@, key, current + 1)]
  <2>1. Proceed(p, tables, "demo.rate", Arg(p), 0)
    BY <1>10
  <2> HIDE DEF tables
  <2>2. db' = tables /\ Moved(p) /\ request'[p] = [op |-> "demo.rate", arg |-> Arg(p)]
    BY <2>1, Proceeding DEF Limits, Ready
  <2>3. request'[p].op \notin Creating /\ CountsSeeds(request'[p])
    BY <2>2 DEF Creating, CountsSeeds
  <2>4. current + 1 \in Nat /\ current + 1 >= current /\ current + 1 <= quota
    BY <1>3, <1>5, <1>10 DEF quota
  <2>5. QED BY <1>8, <2>2, <2>3, <2>4 DEF tables
<1>11. QED BY <1>2, <1>9, <1>10

\* A record that is made takes the place that was reserved for it.
LEMMA MadeLimits ==
    ASSUME Limits, Ready', NEW p \in Requests, Moved(p), request[p].op = "demo.create",
           NEW key, key = <<Arg(p).org, Arg(p).kind>>, key \in DOMAIN db.records,
           Commit(p, [db EXCEPT !.records[key].created = @ + 1], <<>>)
    PROVE  Limits'
<1> DEFINE records == [db.records EXCEPT ![key].created = @ + 1]
           tables == [db EXCEPT !.records = records]
<1>1. Commit(p, tables, <<>>)
  OBVIOUS
<1>2. /\ tables.orgs = db.orgs /\ tables.records = records /\ tables.today = db.today
      /\ tables.lapses = db.lapses /\ tables.reserved = db.reserved /\ tables.lock = db.lock
  BY DEF Limits, Ready, Typed, TableNames
<1> HIDE DEF tables
<1>3. db' = tables /\ request'[p].op = "none"
  <2>1. DOMAIN request = Requests
    BY DEF Limits, Ready, Typed
  <2>2. db' = tables /\ request' = [request EXCEPT ![p] = Idle]
    BY <1>1 DEF Commit
  <2>3. QED BY <2>1, <2>2 DEF Idle
<1>4. RowsOf(db.records, (DOMAIN db.orgs) \X Resources, RecordCount) /\ DOMAIN db.orgs \subseteq Orgs
  BY DEF Limits, Ready, Typed, RowsOK, DemoRowsOK, RowsOf
<1>5. key \in Orgs \X Resources /\ db.records[key] \in RecordCount
  BY <1>4 DEF RowsOf
<1>6. /\ DOMAIN records = DOMAIN db.records /\ records[key].created = db.records[key].created + 1
      /\ \A k \in DOMAIN db.records \ {key} : records[k] = db.records[k]
  BY <1>5 DEF RecordCount
<1> HIDE DEF records
<1>7. Created(db', key) = Created(db, key) + 1
  BY <1>2, <1>3, <1>6 DEF Created
<1>8. \A k \in (Orgs \X Resources) \ {key} : Created(db', k) = Created(db, k)
  BY <1>2, <1>3, <1>6 DEF Created
<1>9. \A k \in (Orgs \X Resources) \ {key} : WithinQuota(request', db', k)
  <2>1. ASSUME NEW k \in (Orgs \X Resources) \ {key}
        PROVE  WithinQuota(request', db', k)
    <3>1. Making(request', k) \subseteq Making(request, k)
      BY <1>3 DEF Making, Moved
    <3>2. Created(db', k) = Created(db, k) /\ Created(db, k) \in Nat
      BY <1>8, RowsOfBoth, QuotasCounted
    <3>3. Created(db', k) <= Created(db, k)
      BY <3>2
    <3>4. db'.reserved = db.reserved
      BY <1>2, <1>3
    <3>5. QED BY <3>1, <3>3, <3>4, QuotaKept
  <2>2. QED BY <2>1
<1>10. WithinQuota(request', db', key)
  <2>1. p \in Making(request, key) /\ Making(request', key) = Making(request, key) \ {p}
    BY <1>3, ZenonT(40) DEF Making, Moved, Arg
  <2>2. /\ IsFiniteSet(Making(request, key)) /\ Cardinality(Making(request, key)) \in Nat
        /\ Created(db, key) \in Nat /\ SeededRows[key[2]] \in Nat
    BY <1>5, RowsOfBoth, QuotasCounted
  <2>3. Cardinality(Making(request', key)) = Cardinality(Making(request, key)) - 1
    BY <2>1, <2>2, FS_RemoveElement
  <2>4. Used(request', db', key) = Used(request, db, key)
    <3> DEFINE seeds == SeededRows[key[2]]
               made == Created(db, key)
               making == Cardinality(Making(request, key))
    <3>1. seeds \in Nat /\ made \in Nat /\ making \in Nat
      BY <2>2
    <3>2. Used(request', db', key) = seeds + (made + 1) + (making - 1)
      BY <1>7, <2>3 DEF Used
    <3>3. Used(request, db, key) = seeds + made + making
      BY DEF Used
    <3> HIDE DEF seeds, made, making
    <3>4. QED BY <3>1, <3>2, <3>3
  <2>5. WithinQuota(request, db, key) /\ db'.reserved = db.reserved
    BY <1>2, <1>3, <1>5 DEF Limits, Quotas
  <2>6. QED BY <2>4, <2>5 DEF WithinQuota
<1>11. \A q \in Requests : CountsSeeds(request'[q])
  BY <1>3 DEF CountsSeeds, Moved, Limits, Quotas
<1>12. Quotas(request', db')
  BY <1>9, <1>10, <1>11 DEF Quotas
<1>13. Overdue(request', db') \subseteq Overdue(request, db)
  BY <1>2, <1>3 DEF Overdue, Moved, Creating
<1>14. Admitted(request') \subseteq Admitted(request)
  BY <1>3 DEF Admitted, Moved
<1>15. Unexpired(db') = Unexpired(db) /\ db'.lapses = db.lapses
  BY <1>2, <1>3 DEF Unexpired
<1>16. QED BY <1>12, <1>13, <1>14, <1>15, WorkspacesKept DEF Limits

LEMMA RecordLimits ==
    ASSUME Limits, Ready', NEW p \in Requests, Moved(p), CreateRecord(p) \/ DeriveRecord(p)
    PROVE  Limits'
<1>1. Typed
  BY DEF Limits, Ready
<1>2. CASE Reject(p)
  <2>1. Kept({}) /\ request'[p].op = "none"
    BY <1>1, <1>2, Rejecting DEF Idle
  <2>2. Modest(p)
    BY <2>1, OtherOpsModest DEF LimitOps, Creating
  <2>3. QED BY <2>1, <2>2, LimitsAside
<1>3. ASSUME NEW s \in DemoSessions, NEW kind \in Resources, NEW arg,
             <<CallerOrg(s), kind>> \in DOMAIN db.records,
             arg = [session |-> s, account |-> CallerAccount(s), org |-> CallerOrg(s),
                    kind |-> kind, count |-> RowCount(CallerOrg(s), kind)],
             Begin(p, "demo.reserve", arg)
      PROVE  Limits'
  <2>1. db.records[<<CallerOrg(s), kind>>] \in RecordCount
    BY <1>1, <1>3 DEF Typed, RowsOK, DemoRowsOK, RowsOf
  <2>2. RowCount(CallerOrg(s), kind) >= SeededRows[kind]
    BY <2>1, Seeded DEF RowCount, RecordCount
  <2>3. Kept({"rates"}) /\ request'[p] = [op |-> "demo.reserve", arg |-> arg]
    BY <1>1, <1>3, Calling
  <2>4. arg.kind = kind /\ arg.count = RowCount(CallerOrg(s), kind)
    BY <1>3
  <2>5. CountsSeeds(request'[p])
    BY <2>2, <2>3, <2>4 DEF CountsSeeds
  <2>6. Modest(p)
    BY <2>3, <2>5 DEF Modest, Creating
  <2>7. QED BY <2>3, <2>6, LimitsAside DEF LimitTables
<1>4. ASSUME At(p, "demo.rate"), NEW scope, NEW op, NEW arg,
             \/ op = "demo.create" /\ arg = Arg(p)
             \/ op = "none" /\ arg = None,
             Proceed(p, Counted(db, scope), op, arg, 0)
      PROVE  Limits'
  <2> DEFINE tables == Counted(db, scope)
  <2>1. DOMAIN tables = TableNames /\ \A n \in TableNames \ {"rates"} : tables[n] = db[n]
    BY <1>1, CountedTables DEF Typed
  <2> HIDE DEF tables
  <2>2. db' = tables /\ request'[p] = [op |-> op, arg |-> arg]
    BY <1>1, <1>4, Proceeding DEF tables
  <2>3. Kept({"rates"})
    BY <2>1, <2>2 DEF Kept, TableNames
  <2>4. Modest(p)
    BY <1>4, <2>2 DEF Modest, CountsSeeds, Creating, At, Arg
  <2>5. QED BY <2>3, <2>4, LimitsAside DEF LimitTables
<1>5. ASSUME NEW k \in DOMAIN db.records,
             Commit(p, [db EXCEPT !.records[k].derived = @ + 1], <<>>)
      PROVE  Limits'
  <2> DEFINE records == [db.records EXCEPT ![k].derived = @ + 1]
             tables == [db EXCEPT !.records = records]
  <2>1. Commit(p, tables, <<>>)
    BY <1>5
  <2>2. /\ tables.orgs = db.orgs /\ tables.records = records /\ tables.today = db.today
        /\ tables.lapses = db.lapses /\ tables.reserved = db.reserved /\ tables.lock = db.lock
    BY <1>1 DEF Typed, TableNames
  <2> HIDE DEF tables
  <2>3. db' = tables /\ request'[p].op = "none"
    BY <1>1, <2>1 DEF Commit, Idle, Typed
  <2>4. db.records[k] \in RecordCount
    BY <1>1 DEF Typed, RowsOK, DemoRowsOK, RowsOf
  <2>5. DOMAIN records = DOMAIN db.records
        /\ \A x \in DOMAIN records : records[x].created = db.records[x].created
    BY <2>4 DEF RecordCount
  <2> HIDE DEF records
  <2>6. ASSUME NEW x \in Orgs \X Resources
        PROVE  Created(db', x) <= Created(db, x)
    <3>1. Created(db', x) = Created(db, x) /\ Created(db, x) \in Nat
      BY <2>2, <2>3, <2>5, RowsOfBoth, QuotasCounted DEF Created
    <3>2. QED BY <3>1
  <2>7. SameReserved /\ Unexpired(db') = Unexpired(db)
    BY <2>2, <2>3 DEF SameReserved, Unexpired
  <2>8. Modest(p)
    BY <2>3, OtherOpsModest DEF LimitOps, Creating
  <2>9. QED BY <2>2, <2>3, <2>6, <2>7, <2>8, LimitsNext
<1>6. ASSUME NEW scope, NEW arg, TurnedAway(p, scope) \/ CallCounted(p, scope, "demo.derive", arg)
      PROVE  Limits'
  <2>1. Kept({"rates"}) /\ request'[p].op \in {"none", "demo.derive"}
    <3>1. CASE TurnedAway(p, scope)
      BY <1>1, <3>1, TurningAway DEF Idle
    <3>2. CASE CallCounted(p, scope, "demo.derive", arg)
      <4>1. Kept({"rates"}) /\ request'[p] = [op |-> "demo.derive", arg |-> arg]
        BY <1>1, <3>2, CountedCalling
      <4>2. QED BY <4>1
    <3>3. QED BY <1>6, <3>1, <3>2
  <2>2. Modest(p)
    BY <2>1, OtherOpsModest DEF LimitOps, Creating
  <2>3. QED BY <2>1, <2>2, LimitsAside DEF LimitTables
<1>7. CASE CreateRecord(p)
  <2>1. \/ \E s \in DemoSessions, kind \in Resources :
              LET org == CallerOrg(s)
              IN  /\ <<org, kind>> \in DOMAIN db.records
                  /\ Begin(p, "demo.reserve",
                        [session |-> s, account |-> CallerAccount(s), org |-> org, kind |-> kind,
                         count |-> RowCount(org, kind)])
        \/ request[p].op = "demo.reserve" /\ Reserve(p, Arg(p).kind, "demo.rate")
        \/ /\ At(p, "demo.rate")
           /\ LET scope == <<"demo-record", Arg(p).account>>
              IN  \/ Proceed(p, Counted(db, scope), "demo.create", Arg(p), 0)
                  \/ Proceed(p, Counted(db, scope), "none", None, 0)
        \/ Reject(p)
        \/ LET key == <<Arg(p).org, Arg(p).kind>>
           IN  /\ request[p].op = "demo.create" /\ key \in DOMAIN db.records
               /\ Commit(p, [db EXCEPT !.records[key].created = @ + 1], <<>>)
    BY <1>7 DEF CreateRecord, At
  <2>2. QED BY <2>1, <1>2, <1>3, <1>4, MadeLimits, ReservedLimits
<1>8. CASE DeriveRecord(p)
  <2>1. \/ \E scope : TurnedAway(p, scope)
        \/ \E scope, arg : CallCounted(p, scope, "demo.derive", arg)
        \/ Reject(p)
        \/ /\ Arg(p) \in DOMAIN db.records
           /\ Commit(p, [db EXCEPT !.records[Arg(p)].derived = @ + 1], <<>>)
    BY <1>8 DEF DeriveRecord, CommitIf
  <2>2. QED BY <1>2, <1>5, <1>6, <2>1
<1>9. QED BY <1>7, <1>8

LEMMA DemoLimits ==
    ASSUME Limits, Ready', NEW p \in Requests, DemoStep(p)
    PROVE  Limits'
<1>1. Moved(p)
  BY DemoStepKept DEF Limits, Ready, ArgsOK, DemoKept
<1>2. QED
  BY <1>1, StartLimits, LockLimits, CountLimits, BootstrapLimits, OrgLimits, SeedLimits, OpenLimits,
     DestroyLimits, RecordLimits DEF DemoStep

\* The steps of the other modules, one kind after the other.
LEMMA LimitsStepKept ==
    ASSUME Limits, Ready', NEW p \in Requests, RequestStep(p)
    PROVE  Limits'
<1>1. /\ Typed /\ AccountArgs(request[p]) /\ AttachmentArgs(request[p])
      /\ DemoArgs(request[p], db.orgs) /\ ArgsOK(request[p], db)
  BY DEF Limits, Ready, ArgsOK
<1>2. CASE AccountsStep(p)
  <2>1. Kept(AccountTables) /\ Moved(p) /\ request'[p].op \in AccountOps
    BY <1>1, <1>2, AccountsStepKept DEF AccountsKept
  <2>2. request'[p].op \notin LimitOps
    BY <2>1 DEF AccountOps, LimitOps, Creating
  <2>3. QED BY <2>1, <2>2, OtherOpsModest, LimitsAside DEF AccountTables, LimitTables
<1>3. CASE DemoStep(p)
  BY <1>3, DemoLimits
<1>4. CASE AttachmentsStep(p)
  <2>1. Kept(AttachmentTables) /\ Moved(p) /\ request'[p].op \in AttachmentOps
    BY <1>1, <1>4, AttachmentsStepKept DEF AttachmentsKept
  <2>2. request'[p].op \notin LimitOps
    BY <2>1 DEF AttachmentOps, LimitOps, Creating
  <2>3. SameReserved
    BY <1>1, <1>4, AttachmentsReserved
  <2>4. Modest(p)
    BY <2>2, OtherOpsModest
  <2>5. AttachmentTables \cap (LimitTables \ {"orgs", "reserved"}) = {}
        /\ "orgs" \notin AttachmentTables
    BY DEF AttachmentTables, LimitTables
  <2>6. QED BY <2>1, <2>3, <2>4, <2>5, LimitsAside
<1>5. CASE CrmMailStep(p) \/ MailboxesStep(p) \/ InboxStep(p)
  <2>1. request[p].op \in Argless \cup MailOps \cup MailboxOps \cup InboxOps
    BY <1>5, CrmMailOps, MailboxesOps, InboxStepOps
  <2>2. Left(request[p], db)
    BY <1>1, <2>1 DEF ArgsOK, Left
  <2>3. MailKept(p)
    BY <1>1, <1>5, <2>2, CrmMailStepKept, MailboxesStepKept, InboxStepKept
  <2> DEFINE names == MailTables \cup {"orgs"}
  <2>4. Kept(names) /\ Moved(p) /\ Left(request'[p], db') /\ OrgsStay
    BY <2>3 DEF MailKept, TableWrites
  <2>5. request'[p].op \notin LimitOps
    BY <2>4 DEF Left, Argless, MailOps, MailboxOps, InboxOps, LimitOps, Creating
  <2>6. names \cap (LimitTables \ {"orgs", "reserved"}) = {} /\ "reserved" \notin names
    BY DEF MailTables, LimitTables
  <2>7. db'.today = db.today
    BY <2>4, <2>6 DEF Kept, TableNames, LimitTables
  <2>8. Unexpired(db') \subseteq Unexpired(db)
    BY <2>4, <2>7 DEF OrgsStay, Unexpired
  <2>9. Modest(p)
    BY <2>5, OtherOpsModest
  <2> HIDE DEF names
  <2>10. QED BY <2>4, <2>6, <2>8, <2>9, LimitsAside
<1>6. CASE Announce(p) \/ Die(p)
  <2>1. db' = db /\ DOMAIN request = Requests
    BY <1>1, <1>6 DEF Announce, Die, Typed
  <2>2. Moved(p) /\ request'[p].op \in {"none", "announce"}
    <3>1. CASE Die(p)
      BY <2>1, <3>1 DEF Die, Moved, Idle
    <3>2. CASE Announce(p)
      BY <2>1, <3>2 DEF Announce, Moved, Idle
    <3>3. QED BY <1>6, <3>1, <3>2
  <2>3. Modest(p)
    BY <2>2, OtherOpsModest DEF LimitOps, Creating
  <2>4. Kept({})
    BY <1>1, <2>1 DEF Kept, Typed
  <2>5. QED BY <2>2, <2>3, <2>4, LimitsAside
<1>7. QED BY <1>2, <1>3, <1>4, <1>5, <1>6 DEF RequestStep

LEMMA LimitsInitially == Init => Limits
<1> SUFFICES ASSUME Init PROVE Limits
  OBVIOUS
<1>1. PICK scenario \in Scenarios : db = scenario.db /\ request = [p \in Requests |-> Idle]
  BY DEF Init
<1>2. QuotasOK(db) /\ WorkspacesOK(db) /\ Ready
  BY <1>1, ReadyInitially, ScenariosAssumption DEF ScenariosAssumption
<1>3. RowsOK(db)
  BY <1>2 DEF Ready, Typed
<1>4. \A q \in Requests : request[q].op = "none"
  BY <1>1 DEF Idle
<1>5. /\ Overdue(request, db) = {} /\ Admitted(request) = {}
      /\ \A k \in Orgs \X Resources : Making(request, k) = {}
  BY <1>4 DEF Overdue, Admitted, Making, Creating
<1>6. Cardinality({}) = 0
  BY FS_EmptySet
<1>7. Workspaces(request, db)
  <2>1. db.lapses \in Nat /\ MaxWorkspaces \in Nat /\ Cardinality(Unexpired(db)) \in Nat
    BY <1>3, WorkspacesCounted
  <2>2. QED BY <1>2, <1>5, <1>6, <2>1 DEF Workspaces, WorkspacesOK
<1>8. ASSUME NEW k \in Orgs \X Resources
      PROVE  WithinQuota(request, db, k)
  <2>1. Created(db, k) \in Nat /\ SeededRows[k[2]] \in Nat
    BY <1>3, QuotasCounted
  <2>2. Used(request, db, k) = SeededRows[k[2]] + Created(db, k)
    <3>1. Making(request, k) = {}
      BY <1>5
    <3>2. Cardinality(Making(request, k)) = 0
      BY <1>6, <3>1
    <3>3. QED BY <2>1, <3>2 DEF Used
  <2> DEFINE used == SeededRows[k[2]] + Created(db, k)
  <2>3. /\ used <= Quota[k[2]]
        /\ IF k \in DOMAIN db.reserved THEN used <= db.reserved[k] ELSE used = SeededRows[k[2]]
    BY <1>2, <1>8 DEF QuotasOK
  <2>4. Used(request, db, k) = used
    BY <2>2
  <2> HIDE DEF used
  <2>5. QED BY <2>3, <2>4 DEF WithinQuota
<1>9. \A q \in Requests : CountsSeeds(request[q])
  BY <1>4 DEF CountsSeeds
<1>10. QED BY <1>2, <1>7, <1>8, <1>9 DEF Limits, Quotas

LEMMA LimitsPreserved == Limits /\ [Next]_vars => Limits'
<1> SUFFICES ASSUME Limits, [Next]_vars PROVE Limits'
  OBVIOUS
<1>1. Ready'
  BY ReadyKept DEF Limits
<1>2. CASE NextDay \/ ExpireLease
  BY <1>1, <1>2, DayLimits, LapseLimits
<1>3. ASSUME NEW p \in Requests, RequestStep(p)
      PROVE  Limits'
  BY <1>1, <1>3, LimitsStepKept
<1>4. CASE UNCHANGED vars
  <2>1. db' = db /\ request' = request
    BY <1>4 DEF vars
  <2>2. QED BY <1>1, <2>1 DEF Limits
<1>5. QED BY <1>2, <1>3, <1>4 DEF Next

-----------------------------------------------------------------------------
(* The files *)

\* The files that a request is about to name in a row, those it alone has, and
\* those it is about to delete with a workspace.
Entering(r) ==
    IF r.op \in {"file.insert", "sync.insert"} THEN {r.arg.file} \ {None} ELSE {}
Held(r) == IF r.op = "file.remove" THEN {r.arg} ELSE Entering(r)
Condemned(r) == IF r.op = "demo.files" THEN r.arg.files ELSE {}

FileOps == {"file.insert", "sync.insert", "file.remove", "demo.destroy", "demo.files"}

\* The deletion of workspaces is for those that had expired by a day.
DestroyArgs(r, today) ==
    /\ r.op \in {"demo.destroy", "demo.files"} =>
          "day" \in DOMAIN r.arg /\ r.arg.day \in Nat /\ r.arg.day <= today
    /\ r.op = "demo.files" => "files" \in DOMAIN r.arg

\* No row is sure to name a file that a request has; one that a row may come to
\* name has none yet, and is in the storage.  What is condemned is of a demo that
\* has expired, or gone.
FileArgs(r, tables) ==
    /\ Held(r) \cap (Sure(tables.attachments) \cup Sure(tables.mailFiles)) = {}
    /\ Entering(r) \cap (DOMAIN tables.attachments \cup DOMAIN tables.mailFiles) = {}
    /\ Entering(r) \subseteq tables.stored
    /\ Held(r) \subseteq tables.stored \cup tables.gone \cup DOMAIN tables.attachments
    /\ \A f \in Condemned(r) :
          /\ f \notin DOMAIN tables.mailFiles
          /\ f \notin DOMAIN tables.attachments => f \in tables.gone
          /\ f \in DOMAIN tables.attachments => RunOut(tables, tables.attachments[f].org)
    /\ DestroyArgs(r, tables.today)

\* Two requests have one file only when its row, whose commit was not answered,
\* is deleted while its upload cleans up.
Apart(requests, tables) ==
    \A p, q \in Requests : p # q =>
        /\ Held(requests[p]) \cap Held(requests[q]) \subseteq tables.gone \cup DOMAIN tables.attachments
        /\ Entering(requests[p]) \cap (Held(requests[q]) \cup Condemned(requests[q])) = {}

Storage ==
    /\ Ready /\ FilesOK(db) /\ Apart(request, db)
    /\ \A q \in Requests : FileArgs(request[q], db)

\* What a step of `p` does to the files, their rows and their organizations.
FilesMoved(p) ==
    /\ db.gone \subseteq db'.gone /\ db.today <= db'.today
    /\ db.stored \subseteq db'.stored \cup Held(request[p]) \cup Condemned(request[p])
    /\ DOMAIN db.attachments \subseteq DOMAIN db'.attachments \cup db'.gone
    /\ \/ DOMAIN db'.attachments \subseteq DOMAIN db.attachments
       \/ DOMAIN db'.mailFiles \subseteq DOMAIN db.mailFiles
    /\ \A f \in DOMAIN db'.attachments :
          \/ f \in Entering(request[p]) /\ (f \in Sure(db'.attachments) => f \in db'.stored)
          \/ /\ f \in DOMAIN db.attachments
             /\ f \in Sure(db'.attachments) => f \in Sure(db.attachments)
             /\ RunOut(db, db.attachments[f].org) => RunOut(db', db'.attachments[f].org)
    /\ \A f \in DOMAIN db'.mailFiles :
          /\ \/ f \in Entering(request[p]) /\ (f \in Sure(db'.mailFiles) => f \in db'.stored)
             \/ f \in DOMAIN db.mailFiles /\ (f \in Sure(db'.mailFiles) => f \in Sure(db.mailFiles))
          /\ NoDemo(db', db'.mailFiles[f].org)
    /\ Held(request'[p]) \subseteq Held(request[p]) \cup FreeKeys \cup DOMAIN db.attachments
    /\ Entering(request'[p]) \subseteq Entering(request[p]) \cup FreeKeys
    /\ Condemned(request'[p]) \subseteq Condemned(request[p]) \cup DOMAIN db.attachments

LEMMA StorageNext ==
    ASSUME Storage, Ready', NEW p \in Requests, Moved(p), FilesMoved(p), FileArgs(request'[p], db')
    PROVE  Storage'
<1> DEFINE had == Held(request[p])
           named == Entering(request[p])
           doomed == Condemned(request[p])
           shared == db.gone \cup DOMAIN db.attachments
           sharedNext == db'.gone \cup DOMAIN db'.attachments
<1>1. FileArgs(request[p], db) /\ named \subseteq had
  BY DEF Storage, Entering, Held
<1>2. /\ had \cap (Sure(db.attachments) \cup Sure(db.mailFiles)) = {}
      /\ named \cap (DOMAIN db.attachments \cup DOMAIN db.mailFiles) = {}
      /\ \A f \in doomed : /\ f \notin DOMAIN db.mailFiles
                           /\ f \notin DOMAIN db.attachments => f \in db.gone
                           /\ f \in DOMAIN db.attachments => RunOut(db, db.attachments[f].org)
  BY <1>1 DEF FileArgs
<1>3. ASSUME NEW q \in Requests \ {p}
      PROVE  /\ request'[q] = request[q] /\ FileArgs(request[q], db)
             /\ Held(request[q]) \cap had \subseteq shared
             /\ Entering(request[q]) \cap (had \cup doomed) = {}
             /\ named \cap (Held(request[q]) \cup Condemned(request[q])) = {}
             /\ Entering(request[q]) \subseteq Held(request[q])
  BY DEF Storage, Apart, Moved, Held, Entering
<1>4. /\ db.gone \subseteq db'.gone /\ db.today <= db'.today
      /\ db.stored \subseteq db'.stored \cup had \cup doomed
      /\ DOMAIN db.attachments \subseteq DOMAIN db'.attachments \cup db'.gone
      /\ \A f \in DOMAIN db'.attachments :
            \/ f \in named /\ (f \in Sure(db'.attachments) => f \in db'.stored)
            \/ /\ f \in DOMAIN db.attachments
               /\ f \in Sure(db'.attachments) => f \in Sure(db.attachments)
               /\ RunOut(db, db.attachments[f].org) => RunOut(db', db'.attachments[f].org)
      /\ \A f \in DOMAIN db'.mailFiles :
            /\ \/ f \in named /\ (f \in Sure(db'.mailFiles) => f \in db'.stored)
               \/ f \in DOMAIN db.mailFiles /\ (f \in Sure(db'.mailFiles) => f \in Sure(db.mailFiles))
            /\ NoDemo(db', db'.mailFiles[f].org)
  BY DEF FilesMoved
<1>5. /\ Held(request'[p]) \subseteq had \cup FreeKeys \cup DOMAIN db.attachments
      /\ Entering(request'[p]) \subseteq named \cup FreeKeys
      /\ Condemned(request'[p]) \subseteq doomed \cup DOMAIN db.attachments
      /\ \/ DOMAIN db'.attachments \subseteq DOMAIN db.attachments
         \/ DOMAIN db'.mailFiles \subseteq DOMAIN db.mailFiles
  BY DEF FilesMoved
<1>6. FreeKeys \cap (db.gone \cup DOMAIN db.attachments \cup DOMAIN db.mailFiles \cup db.stored) = {}
  BY DEF FreeKeys, Unused
<1>7. /\ \A rows : Sure(rows) \subseteq DOMAIN rows
      /\ shared \subseteq sharedNext
  BY <1>4 DEF Sure
<1> HIDE DEF had, named, doomed
<1>8. FilesOK(db')
  <2>1. /\ DOMAIN db.attachments \cap DOMAIN db.mailFiles = {}
        /\ \A f \in Sure(db.attachments) : f \in db.stored \/ RunOut(db, db.attachments[f].org)
        /\ Sure(db.mailFiles) \subseteq db.stored
    BY DEF Storage, FilesOK
  <2>2. DOMAIN db'.attachments \cap DOMAIN db'.mailFiles = {}
    BY <1>2, <1>4, <1>5, <2>1
  <2>3. ASSUME NEW f \in Sure(db'.attachments)
        PROVE  f \in db'.stored \/ RunOut(db', db'.attachments[f].org)
    <3>1. f \in DOMAIN db'.attachments
      BY <1>7
    <3>2. f \in db'.stored
          \/ /\ f \in Sure(db.attachments) /\ f \in DOMAIN db.attachments
             /\ RunOut(db, db.attachments[f].org) => RunOut(db', db'.attachments[f].org)
      BY <1>4, <3>1
    <3>3. QED BY <1>2, <1>4, <2>1, <3>2
  <2>4. Sure(db'.mailFiles) \subseteq db'.stored
    <3>1. ASSUME NEW f \in Sure(db'.mailFiles)
          PROVE  f \in db'.stored
      <4>1. f \in DOMAIN db'.mailFiles
        BY <1>7
      <4>2. f \in db'.stored \/ (f \in Sure(db.mailFiles) /\ f \in DOMAIN db.mailFiles)
        BY <1>4, <4>1
      <4>3. QED BY <1>2, <1>4, <2>1, <4>2
    <3>2. QED BY <3>1
  <2>5. \A f \in DOMAIN db'.mailFiles : NoDemo(db', db'.mailFiles[f].org)
    BY <1>4
  <2>6. QED BY <2>2, <2>3, <2>4, <2>5 DEF FilesOK, NoDemo
<1>9. ASSUME NEW q \in Requests \ {p}
      PROVE  FileArgs(request'[q], db')
  <2> DEFINE r == request[q]
  <2>1. /\ Held(r) \cap (Sure(db.attachments) \cup Sure(db.mailFiles)) = {}
        /\ Entering(r) \cap (DOMAIN db.attachments \cup DOMAIN db.mailFiles) = {}
        /\ Entering(r) \subseteq db.stored /\ Held(r) \subseteq db.stored \cup shared
        /\ \A f \in Condemned(r) :
              /\ f \notin DOMAIN db.mailFiles
              /\ f \notin DOMAIN db.attachments => f \in db.gone
              /\ f \in DOMAIN db.attachments => RunOut(db, db.attachments[f].org)
        /\ DestroyArgs(r, db.today)
    BY <1>3 DEF FileArgs
  <2>2. /\ request'[q] = r /\ Held(r) \cap had \subseteq shared /\ Entering(r) \subseteq Held(r)
        /\ Entering(r) \cap (had \cup doomed) = {} /\ named \cap (Held(r) \cup Condemned(r)) = {}
    BY <1>3
  <2>3. db.today \in Nat /\ db'.today \in Nat
    BY DEF Storage, Ready, Typed, RowsOK, DemoRowsOK
  <2> HIDE DEF r
  <2>4. Held(r) \cap (Sure(db'.attachments) \cup Sure(db'.mailFiles)) = {}
    <3>1. \A f \in Sure(db'.attachments) : f \in named \/ f \in Sure(db.attachments)
      BY <1>4, <1>7
    <3>2. \A f \in Sure(db'.mailFiles) : f \in named \/ f \in Sure(db.mailFiles)
      BY <1>4, <1>7
    <3>3. QED BY <2>1, <2>2, <3>1, <3>2
  <2>5. Entering(r) \cap (DOMAIN db'.attachments \cup DOMAIN db'.mailFiles) = {}
    BY <1>4, <2>1, <2>2
  <2>6. Entering(r) \subseteq db'.stored
    BY <1>4, <2>1, <2>2
  <2>7. Held(r) \subseteq db'.stored \cup sharedNext
    <3>1. doomed \subseteq shared
      BY <1>2
    <3>2. QED BY <1>4, <1>7, <2>1, <2>2, <3>1
  <2>8. ASSUME NEW f \in Condemned(r)
        PROVE  /\ f \notin DOMAIN db'.mailFiles
               /\ f \notin DOMAIN db'.attachments => f \in db'.gone
               /\ f \in DOMAIN db'.attachments => RunOut(db', db'.attachments[f].org)
    BY <1>4, <2>1, <2>2
  <2>9. DestroyArgs(r, db'.today)
    BY <1>4, <2>1, <2>3 DEF DestroyArgs
  <2>10. QED BY <2>2, <2>4, <2>5, <2>6, <2>7, <2>8, <2>9 DEF FileArgs
<1>10. ASSUME NEW q \in Requests \ {p}
       PROVE  /\ Held(request'[p]) \cap Held(request'[q]) \subseteq sharedNext
              /\ Entering(request'[p]) \cap (Held(request'[q]) \cup Condemned(request'[q])) = {}
              /\ Entering(request'[q]) \cap (Held(request'[p]) \cup Condemned(request'[p])) = {}
  <2> DEFINE r == request[q]
  <2>1. /\ Entering(r) \cap (DOMAIN db.attachments \cup DOMAIN db.mailFiles) = {}
        /\ Entering(r) \subseteq db.stored /\ Held(r) \subseteq db.stored \cup shared
        /\ \A f \in Condemned(r) : f \in DOMAIN db.attachments \/ f \in db.gone
    BY <1>3 DEF FileArgs
  <2>2. /\ request'[q] = r /\ Held(r) \cap had \subseteq shared
        /\ Entering(r) \cap (had \cup doomed) = {} /\ named \cap (Held(r) \cup Condemned(r)) = {}
    BY <1>3
  <2> HIDE DEF r
  <2>3. Held(request'[p]) \cap Held(r) \subseteq sharedNext
    BY <1>5, <1>6, <1>7, <2>1, <2>2
  <2>4. Entering(request'[p]) \cap (Held(r) \cup Condemned(r)) = {}
    BY <1>5, <1>6, <2>1, <2>2
  <2>5. Entering(r) \cap (Held(request'[p]) \cup Condemned(request'[p])) = {}
    BY <1>5, <1>6, <2>1, <2>2
  <2>6. QED BY <2>2, <2>3, <2>4, <2>5
<1>11. Apart(request', db')
  <2>1. ASSUME NEW a \in Requests, NEW b \in Requests, a # b
        PROVE  /\ Held(request'[a]) \cap Held(request'[b]) \subseteq sharedNext
               /\ Entering(request'[a]) \cap (Held(request'[b]) \cup Condemned(request'[b])) = {}
    <3>1. CASE a = p
      BY <1>10, <2>1, <3>1
    <3>2. CASE b = p
      BY <1>10, <2>1, <3>2
    <3>3. CASE a # p /\ b # p
      <4>1. request'[a] = request[a] /\ request'[b] = request[b]
        BY <1>3, <3>3
      <4>2. /\ Held(request[a]) \cap Held(request[b]) \subseteq shared
            /\ Entering(request[a]) \cap (Held(request[b]) \cup Condemned(request[b])) = {}
        BY <2>1 DEF Storage, Apart
      <4>3. QED BY <1>7, <4>1, <4>2
    <3>4. QED BY <3>1, <3>2, <3>3
  <2>2. QED BY <2>1 DEF Apart
<1>12. QED BY <1>8, <1>9, <1>11 DEF Storage

\* A request that has nothing to do with files.
LEMMA EmptyHanded ==
    ASSUME NEW r, r.op \notin FileOps
    PROVE  /\ Held(r) = {} /\ Entering(r) = {} /\ Condemned(r) = {}
           /\ \A tables : FileArgs(r, tables)
BY DEF FileOps, Held, Entering, Condemned, FileArgs, DestroyArgs

\* The same of one that is to delete workspaces, but has none yet.
Plain(r, tables) ==
    r.op \notin FileOps \/ (r.op = "demo.destroy" /\ DestroyArgs(r, tables.today))

LEMMA PlainHanded ==
    ASSUME NEW r, NEW tables, Plain(r, tables)
    PROVE  /\ Held(r) = {} /\ Entering(r) = {} /\ Condemned(r) = {}
           /\ FileArgs(r, tables)
BY DEF Plain, FileOps, Held, Entering, Condemned, FileArgs, DestroyArgs

\* A step that leaves the files alone.
FilesAside ==
    /\ db.gone \subseteq db'.gone /\ db'.today = db.today /\ db'.stored = db.stored
    /\ db'.attachments = db.attachments /\ db'.mailFiles = db.mailFiles
OrgsLast ==
    \A o : /\ RunOut(db, o) => RunOut(db', o)
           /\ NoDemo(db, o) => NoDemo(db', o)

LEMMA StorageAside ==
    ASSUME Storage, Ready', NEW p \in Requests, Moved(p), FilesAside, OrgsLast,
           Held(request'[p]) \subseteq Held(request[p]) \cup FreeKeys \cup DOMAIN db.attachments,
           Entering(request'[p]) \subseteq Entering(request[p]) \cup FreeKeys,
           Condemned(request'[p]) \subseteq Condemned(request[p]) \cup DOMAIN db.attachments,
           FileArgs(request'[p], db')
    PROVE  Storage'
<1>1. db.today \in Nat
  BY DEF Storage, Ready, Typed, RowsOK, DemoRowsOK
<1>2. \A f \in DOMAIN db'.mailFiles : NoDemo(db', db'.mailFiles[f].org)
  BY DEF Storage, FilesOK, NoDemo, FilesAside, OrgsLast
<1>3. FilesMoved(p)
  BY <1>1, <1>2 DEF FilesMoved, FilesAside, OrgsLast
<1>4. QED BY <1>3, StorageNext

LEMMA OrgsStorage ==
    ASSUME Storage, Ready', NEW p \in Requests, Moved(p), NEW names, Kept(names),
           names \cap {"attachments", "stored", "mailFiles", "today"} = {}, OrgsLast,
           Plain(request'[p], db')
    PROVE  Storage'
<1>1. FilesAside
  BY DEF Kept, TableNames, FilesAside
<1>2. QED BY <1>1, PlainHanded, StorageAside

LEMMA StorageKept ==
    ASSUME Storage, Ready', NEW p \in Requests, Moved(p), NEW names, Kept(names),
           names \cap {"orgs", "attachments", "stored", "mailFiles", "today"} = {},
           request'[p].op \notin FileOps
    PROVE  Storage'
<1>1. db'.orgs = db.orgs /\ db'.today = db.today
  BY DEF Kept, TableNames
<1>2. OrgsLast
  BY <1>1 DEF OrgsLast, RunOut, NoDemo
<1>3. Plain(request'[p], db')
  BY DEF Plain
<1>4. QED BY <1>2, <1>3, OrgsStorage

LEMMA DayStorage ==
    ASSUME Storage, Ready', NextDay \/ ExpireLease
    PROVE  Storage'
<1>1. db.today \in Nat /\ RowsOf(db.orgs, Orgs, OrgRow)
  BY DEF Storage, Ready, Typed, RowsOK, DemoRowsOK
<1>2. /\ request' = request /\ db'.orgs = db.orgs /\ db'.gone = db.gone /\ db'.stored = db.stored
      /\ db'.attachments = db.attachments /\ db'.mailFiles = db.mailFiles
      /\ db'.today \in {db.today, db.today + 1}
  <2>1. CASE NextDay
    BY <2>1 DEF NextDay, Storage, Ready, Typed, TableNames
  <2>2. CASE ExpireLease
    <3> DEFINE slow == request[db.lock].op \in Creating
               lapses == IF slow THEN db.lapses + 1 ELSE db.lapses
    <3>1. db' = [db EXCEPT !.lock = None, !.lapses = lapses] /\ request' = request
      BY <2>2 DEF ExpireLease
    <3> HIDE DEF lapses
    <3>2. QED BY <3>1 DEF Storage, Ready, Typed, TableNames
  <2>3. QED BY <2>1, <2>2
<1>3. ASSUME NEW o, RunOut(db, o)
      PROVE  RunOut(db', o)
  <2>1. db.orgs[o].expires \in Nat
    BY <1>1, <1>3 DEF RunOut, RowsOf, OrgRow
  <2>2. QED BY <1>1, <1>2, <1>3, <2>1 DEF RunOut
<1>4. FilesOK(db')
  BY <1>2, <1>3 DEF Storage, FilesOK
<1>5. ASSUME NEW q \in Requests
      PROVE  FileArgs(request'[q], db')
  <2>1. FileArgs(request[q], db) /\ request'[q] = request[q]
    BY <1>2 DEF Storage
  <2>2. QED BY <1>1, <1>2, <1>3, <2>1 DEF FileArgs, DestroyArgs
<1>6. Apart(request', db')
  BY <1>2 DEF Storage, Apart
<1>7. QED BY <1>4, <1>5, <1>6 DEF Storage

-----------------------------------------------------------------------------
(* What the steps of the attachments do to them *)

\* Only its own request names a new file, and it is in the storage by then.
LEMMA UploadStorage ==
    ASSUME Storage, Ready', NEW p \in Requests, Upload(p)
    PROVE  Storage'
<1>1. Typed /\ AttachmentArgs(request[p])
  BY DEF Storage, Ready, ArgsOK
<1>2. ASSUME NEW scope, NEW op \in {"file.reserve", "file.put"}, NEW arg,
             TurnedAway(p, scope) \/ CallCounted(p, scope, op, arg)
      PROVE  Storage'
  <2>1. CASE TurnedAway(p, scope)
    <3>1. Kept({"rates"}) /\ Moved(p) /\ request'[p].op = "none"
      BY <1>1, <2>1, TurningAway DEF Idle
    <3>2. QED BY <3>1, StorageKept DEF FileOps
  <2>2. CASE CallCounted(p, scope, op, arg)
    <3>1. Kept({"rates"}) /\ Moved(p) /\ request'[p] = [op |-> op, arg |-> arg]
      BY <1>1, <2>2, CountedCalling
    <3>2. request'[p].op \notin FileOps
      BY <3>1 DEF FileOps
    <3>3. QED BY <3>1, <3>2, StorageKept
  <2>3. QED BY <1>2, <2>1, <2>2
<1>3. CASE At(p, "file.reserve") /\ Reserve(p, "attachment", "file.put")
  <2>1. Arg(p).org \in Orgs /\ Arg(p).count \in Nat /\ "attachment" \in DOMAIN Quota
    BY <1>1, <1>3, AttachmentsAssumption DEF AttachmentsAssumption, AttachmentArgs, At, Arg
  <2>2. /\ Kept({"reserved"}) /\ Moved(p)
        /\ request'[p] = Idle \/ request'[p] = [op |-> "file.put", arg |-> Arg(p)]
    BY <1>1, <1>3, <2>1, Reserving
  <2>3. request'[p].op \notin FileOps
    BY <2>2 DEF FileOps, Idle
  <2>4. QED BY <2>2, <2>3, StorageKept
<1>4. CASE Reject(p)
  <2>1. Kept({}) /\ Moved(p) /\ request'[p].op = "none"
    BY <1>1, <1>4, Rejecting DEF Idle
  <2>2. QED BY <2>1, StorageKept DEF FileOps
<1>5. \/ \E scope : \E op \in {"file.reserve", "file.put"} : \E arg :
            TurnedAway(p, scope) \/ CallCounted(p, scope, op, arg)
      \/ At(p, "file.reserve") /\ Reserve(p, "attachment", "file.put")
      \/ Reject(p)
  BY DEF Upload
<1>6. QED BY <1>2, <1>3, <1>4, <1>5

\* A step that takes files into the storage, or from it.
LEMMA StoredMoved ==
    ASSUME Storage, Ready', NEW p \in Requests, Moved(p), Kept({"stored"}),
           db.stored \subseteq db'.stored \cup Held(request[p]) \cup Condemned(request[p]),
           Held(request'[p]) \subseteq Held(request[p]) \cup FreeKeys \cup DOMAIN db.attachments,
           Entering(request'[p]) \subseteq Entering(request[p]) \cup FreeKeys,
           Condemned(request'[p]) \subseteq Condemned(request[p]) \cup DOMAIN db.attachments,
           FileArgs(request'[p], db')
    PROVE  Storage'
<1>1. /\ db'.orgs = db.orgs /\ db'.today = db.today /\ db'.attachments = db.attachments
      /\ db'.mailFiles = db.mailFiles /\ db.gone \subseteq db'.gone
  BY DEF Kept, TableNames
<1>2. db.today \in Nat
  BY DEF Storage, Ready, Typed, RowsOK, DemoRowsOK
<1>3. \A f \in DOMAIN db'.mailFiles : NoDemo(db', db'.mailFiles[f].org)
  BY <1>1 DEF Storage, FilesOK, NoDemo
<1>4. FilesMoved(p)
  BY <1>1, <1>2, <1>3 DEF FilesMoved, RunOut
<1>5. QED BY <1>4, StorageNext

LEMMA PutStorage ==
    ASSUME Storage, Ready', NEW p \in Requests, PutFile(p)
    PROVE  Storage'
<1>1. Typed
  BY DEF Storage, Ready
<1>2. CASE Proceed(p, db, "none", None, 1)
  <2>1. db' = db /\ Moved(p) /\ request'[p] = [op |-> "none", arg |-> None]
    BY <1>1, <1>2, Proceeding
  <2>2. Kept({}) /\ request'[p].op \notin FileOps
    BY <1>1, <2>1 DEF Kept, Typed, FileOps
  <2>3. QED BY <2>1, <2>2, StorageKept
<1>3. ASSUME NEW f \in FreeKeys,
             Proceed(p, [db EXCEPT !.stored = @ \cup {f}], "file.insert",
                     Over([file |-> f], Arg(p)), 0)
      PROVE  Storage'
  <2> DEFINE arg == Over([file |-> f], Arg(p))
             tables == [db EXCEPT !.stored = @ \cup {f}]
  <2>1. arg.file = f
    BY DEF Over
  <2>2. /\ DOMAIN tables = TableNames /\ tables.stored = db.stored \cup {f} /\ tables.gone = db.gone
        /\ \A n \in TableNames \ {"stored"} : tables[n] = db[n]
    BY <1>1 DEF Typed, TableNames
  <2>3. Proceed(p, tables, "file.insert", arg, 0)
    BY <1>3
  <2> HIDE DEF arg, tables
  <2>4. db' = tables /\ Moved(p) /\ request'[p] = [op |-> "file.insert", arg |-> arg]
    BY <1>1, <2>3, Proceeding
  <2>5. Kept({"stored"}) /\ db'.stored = db.stored \cup {f}
    BY <2>2, <2>4 DEF Kept
  <2>6. db'.attachments = db.attachments /\ db'.mailFiles = db.mailFiles
    BY <2>5 DEF Kept, TableNames
  <2>7. request'[p].op = "file.insert" /\ request'[p].arg.file = f
    BY <2>1, <2>4
  <2>8. /\ Entering(request'[p]) \subseteq {f} /\ Held(request'[p]) \subseteq {f}
        /\ Condemned(request'[p]) = {}
    BY <2>7 DEF Entering, Held, Condemned
  <2>9. f \notin DOMAIN db.attachments /\ f \notin DOMAIN db.mailFiles
    BY DEF FreeKeys
  <2>10. FileArgs(request'[p], db')
    BY <2>5, <2>6, <2>7, <2>8, <2>9 DEF FileArgs, DestroyArgs, Sure
  <2>11. QED BY <2>4, <2>5, <2>8, <2>10, StoredMoved
<1>4. QED BY <1>2, <1>3 DEF PutFile

LEMMA RemoveStorage ==
    ASSUME Storage, Ready', NEW p \in Requests, RemoveFile(p)
    PROVE  Storage'
<1>1. Typed /\ request[p].op = "file.remove"
  BY DEF Storage, Ready, RemoveFile, At
<1>2. Held(request[p]) = {Arg(p)}
  BY <1>1 DEF Held, Arg
<1> DEFINE f == Arg(p)
           tables == [db EXCEPT !.stored = @ \ {f}]
<1>3. /\ DOMAIN tables = TableNames /\ tables.stored = db.stored \ {f} /\ tables.gone = db.gone
      /\ \A n \in TableNames \ {"stored"} : tables[n] = db[n]
  BY <1>1 DEF Typed, TableNames
<1>4. Commit(p, tables, <<>>) \/ Proceed(p, db, "none", None, 1)
  BY DEF RemoveFile
<1> HIDE DEF tables, f
<1>5. db' \in {tables, db} /\ Moved(p) /\ request'[p].op \in {"none", "announce"}
  <2>1. CASE Commit(p, tables, <<>>)
    BY <1>1, <2>1, Committing
  <2>2. CASE Proceed(p, db, "none", None, 1)
    <3>1. db' = db /\ Moved(p) /\ request'[p] = [op |-> "none", arg |-> None]
      BY <1>1, <2>2, Proceeding
    <3>2. QED BY <3>1
  <2>3. QED BY <1>4, <2>1, <2>2
<1>6. Kept({"stored"}) /\ db.stored \subseteq db'.stored \cup {f}
  BY <1>1, <1>3, <1>5 DEF Kept, Typed
<1>7. request'[p].op \notin FileOps
  BY <1>5 DEF FileOps
<1>8. QED BY <1>2, <1>5, <1>6, <1>7, EmptyHanded, StoredMoved DEF f

LEMMA InsertStorage ==
    ASSUME Storage, Ready', NEW p \in Requests, InsertRow(p)
    PROVE  Storage'
<1>1. Typed /\ request[p].op = "file.insert" /\ FileArgs(request[p], db) /\ AttachmentArgs(request[p])
  BY DEF Storage, Ready, ArgsOK, InsertRow, At
<1> DEFINE f == Arg(p).file
<1>2. f \in Files /\ f # None
  <2>1. f \in Files
    BY <1>1 DEF AttachmentArgs, Arg
  <2>2. QED BY <2>1, AttachmentsAssumption DEF AttachmentsAssumption
<1>3. /\ Entering(request[p]) = {f} /\ Held(request[p]) = {f}
  BY <1>1, <1>2 DEF Entering, Held, Arg
<1>4. /\ f \in db.stored /\ f \notin DOMAIN db.attachments /\ f \notin DOMAIN db.mailFiles
  BY <1>1, <1>3 DEF FileArgs
<1>5. ASSUME Continue(p, "file.remove", f) \/ Proceed(p, db, "file.remove", f, 1)
      PROVE  Storage'
  <2>1. db' = db /\ Moved(p) /\ request'[p] = [op |-> "file.remove", arg |-> f]
    BY <1>1, <1>5, Proceeding, Continuing
  <2> HIDE DEF f
  <2>2. request'[p].op = "file.remove" /\ request'[p].arg = f
    BY <2>1
  <2>3. Held(request'[p]) = {f} /\ Entering(request'[p]) = {} /\ Condemned(request'[p]) = {}
    BY <2>2 DEF Held, Entering, Condemned
  <2>4. FileArgs(request'[p], db')
    BY <1>4, <2>1, <2>2, <2>3 DEF FileArgs, DestroyArgs, Sure
  <2>5. Kept({"stored"})
    BY <1>1, <2>1 DEF Kept, Typed
  <2>6. QED BY <1>3, <2>1, <2>3, <2>4, <2>5, StoredMoved
<1>6. ASSUME NEW answered \in BOOLEAN, NEW row, row.answered = answered,
             \/ answered /\ Commit(p, [db EXCEPT !.attachments = Insert(@, f, row)], <<>>)
             \/ /\ ~answered
                /\ Proceed(p, [db EXCEPT !.attachments = Insert(@, f, row)], "file.remove", f, 1)
      PROVE  Storage'
  <2> DEFINE tables == [db EXCEPT !.attachments = Insert(@, f, row)]
  <2>1. /\ DOMAIN tables = TableNames /\ tables.attachments = Insert(db.attachments, f, row)
        /\ tables.orgs = db.orgs /\ tables.today = db.today /\ tables.stored = db.stored
        /\ tables.mailFiles = db.mailFiles /\ tables.gone = db.gone
    BY <1>1 DEF Typed, TableNames
  <2>2. \/ answered /\ Commit(p, tables, <<>>)
        \/ ~answered /\ Proceed(p, tables, "file.remove", f, 1)
    BY <1>6
  <2> HIDE DEF tables, f
  <2>3. db' = tables /\ Moved(p)
    BY <1>1, <2>2, Committing, Proceeding
  <2>4. /\ answered => request'[p].op \in {"none", "announce"}
        /\ ~answered => request'[p] = [op |-> "file.remove", arg |-> f]
    BY <1>1, <2>2, Committing, Proceeding
  <2>5. /\ DOMAIN db'.attachments = DOMAIN db.attachments \cup {f} /\ db'.attachments[f] = row
        /\ \A g \in DOMAIN db.attachments : db'.attachments[g] = db.attachments[g]
    BY <1>4, <2>1, <2>3 DEF Insert
  <2>6. db.today \in Nat
    BY <1>1 DEF Typed, RowsOK, DemoRowsOK
  <2>7. \A o : (RunOut(db, o) <=> RunOut(db', o)) /\ (NoDemo(db, o) <=> NoDemo(db', o))
    BY <2>1, <2>3 DEF RunOut, NoDemo
  <2>8. db'.mailFiles = db.mailFiles /\ \A g \in DOMAIN db'.mailFiles : NoDemo(db', db'.mailFiles[g].org)
    BY <2>1, <2>3, <2>7 DEF Storage, FilesOK, NoDemo
  <2>9. \A g \in DOMAIN db'.attachments :
           \/ g \in Entering(request[p]) /\ g \in db'.stored
           \/ /\ g \in DOMAIN db.attachments
              /\ g \in Sure(db'.attachments) => g \in Sure(db.attachments)
              /\ RunOut(db, db.attachments[g].org) => RunOut(db', db'.attachments[g].org)
    BY <1>3, <1>4, <2>1, <2>3, <2>5, <2>7 DEF Sure
  <2>10. /\ Held(request'[p]) \subseteq {f} /\ Entering(request'[p]) = {}
         /\ Condemned(request'[p]) = {} /\ FileArgs(request'[p], db')
    <3>1. CASE answered
      <4>1. request'[p].op \notin FileOps
        BY <2>4, <3>1 DEF FileOps
      <4>2. QED BY <4>1, EmptyHanded
    <3>2. CASE ~answered
      <4>1. request'[p].op = "file.remove" /\ request'[p].arg = f
        BY <2>4, <3>2
      <4>2. Held(request'[p]) = {f} /\ Entering(request'[p]) = {} /\ Condemned(request'[p]) = {}
        BY <4>1 DEF Held, Entering, Condemned
      <4>3. f \notin Sure(db'.attachments) /\ f \notin Sure(db'.mailFiles)
        BY <1>4, <1>6, <2>5, <2>8, <3>2 DEF Sure
      <4>4. QED BY <2>5, <4>1, <4>2, <4>3 DEF FileArgs, DestroyArgs
    <3>3. QED BY <3>1, <3>2
  <2>11. FilesMoved(p)
    BY <1>3, <2>1, <2>3, <2>5, <2>6, <2>8, <2>9, <2>10 DEF FilesMoved
  <2>12. QED BY <2>3, <2>10, <2>11, StorageNext
<1>7. \/ Continue(p, "file.remove", f) \/ Proceed(p, db, "file.remove", f, 1)
      \/ \E answered \in BOOLEAN : \E row :
            /\ row.answered = answered
            /\ \/ answered /\ Commit(p, [db EXCEPT !.attachments = Insert(@, f, row)], <<>>)
               \/ /\ ~answered
                  /\ Proceed(p, [db EXCEPT !.attachments = Insert(@, f, row)], "file.remove", f, 1)
  <2> DEFINE row(answered) ==
                 [org |-> Arg(p).org, parent |-> Arg(p).parent, answered |-> answered]
             written(answered) == [db EXCEPT !.attachments = Insert(@, f, row(answered))]
  <2>1. \/ Commit(p, written(TRUE), <<>>) \/ Proceed(p, written(FALSE), "file.remove", f, 1)
        \/ Continue(p, "file.remove", f) \/ Proceed(p, db, "file.remove", f, 1)
    BY DEF InsertRow
  <2>2. row(TRUE).answered = TRUE /\ row(FALSE).answered = FALSE
    OBVIOUS
  <2>3. QED BY <2>1, <2>2
<1>8. QED BY <1>5, <1>6, <1>7

LEMMA DeleteStorage ==
    ASSUME Storage, Ready', NEW p \in Requests, DeleteAttachment(p)
    PROVE  Storage'
<1>1. Typed
  BY DEF Storage, Ready
<1>2. CASE Reject(p)
  <2>1. Kept({}) /\ Moved(p) /\ request'[p].op = "none"
    BY <1>1, <1>2, Rejecting DEF Idle
  <2>2. QED BY <2>1, StorageKept DEF FileOps
<1>3. ASSUME NEW f, Begin(p, "file.delete", f)
      PROVE  Storage'
  <2>1. Kept({"rates"}) /\ Moved(p) /\ request'[p] = [op |-> "file.delete", arg |-> f]
    BY <1>1, <1>3, Calling
  <2>2. request'[p].op \notin FileOps
    BY <2>1 DEF FileOps
  <2>3. QED BY <2>1, <2>2, StorageKept
<1>4. ASSUME NEW f \in DOMAIN db.attachments,
             Proceed(p, Deleting([db EXCEPT !.attachments = Without(@, {f})]), "file.remove", f, 0)
      PROVE  Storage'
  <2> DEFINE left == [db EXCEPT !.attachments = Without(@, {f})]
             tables == Deleting(left)
  <2>1. /\ DOMAIN left = TableNames /\ left.attachments = Without(db.attachments, {f})
        /\ left.orgs = db.orgs /\ left.today = db.today /\ left.stored = db.stored
        /\ left.mailFiles = db.mailFiles /\ left.gone = db.gone
    BY <1>1 DEF Typed, TableNames
  <2>2. Proceed(p, tables, "file.remove", f, 0)
    BY <1>4
  <2> HIDE DEF left
  <2>3. /\ \A n \in TableNames \ {"gone"} : tables[n] = left[n]
        /\ left.gone \subseteq tables.gone
        /\ DOMAIN db.attachments \subseteq DOMAIN left.attachments \cup tables.gone
    <3>1. "attachments" \in RowTables
      BY DEF RowTables
    <3>2. DOMAIN db["attachments"] \subseteq DOMAIN left["attachments"] \cup tables.gone
      BY <2>1, <3>1, DeletedAreGone
    <3>3. QED BY <2>1, <3>2, DeletingTables
  <2> HIDE DEF tables
  <2>4. db' = tables /\ Moved(p) /\ request'[p] = [op |-> "file.remove", arg |-> f]
    BY <1>1, <2>2, Proceeding
  <2>5. /\ db'.attachments = Without(db.attachments, {f}) /\ db'.orgs = db.orgs
        /\ db'.today = db.today /\ db'.stored = db.stored /\ db'.mailFiles = db.mailFiles
        /\ db.gone \subseteq db'.gone
        /\ DOMAIN db.attachments \subseteq DOMAIN db'.attachments \cup db'.gone
    BY <2>1, <2>3, <2>4 DEF TableNames
  <2>6. /\ DOMAIN db'.attachments = DOMAIN db.attachments \ {f} /\ f \in db'.gone
        /\ \A g \in DOMAIN db'.attachments : db'.attachments[g] = db.attachments[g]
    BY <2>5 DEF Without
  <2>7. request'[p].op = "file.remove" /\ request'[p].arg = f
    BY <2>4
  <2>8. Held(request'[p]) = {f} /\ Entering(request'[p]) = {} /\ Condemned(request'[p]) = {}
    BY <2>7 DEF Held, Entering, Condemned
  <2>9. f \notin DOMAIN db.mailFiles
    BY DEF Storage, FilesOK
  <2>10. FileArgs(request'[p], db')
    BY <2>5, <2>6, <2>7, <2>8, <2>9 DEF FileArgs, DestroyArgs, Sure
  <2>11. db.today \in Nat
    BY <1>1 DEF Typed, RowsOK, DemoRowsOK
  <2>12. \A o : (RunOut(db, o) <=> RunOut(db', o)) /\ (NoDemo(db, o) <=> NoDemo(db', o))
    BY <2>5 DEF RunOut, NoDemo
  <2>13. \A g \in DOMAIN db'.mailFiles : NoDemo(db', db'.mailFiles[g].org)
    BY <2>5, <2>12 DEF Storage, FilesOK, NoDemo
  <2>14. \A g \in DOMAIN db'.attachments :
            /\ g \in DOMAIN db.attachments
            /\ g \in Sure(db'.attachments) => g \in Sure(db.attachments)
            /\ RunOut(db, db.attachments[g].org) => RunOut(db', db'.attachments[g].org)
    BY <2>6, <2>12 DEF Sure
  <2>15. f \in DOMAIN db.attachments
    BY <1>4
  <2>16. FilesMoved(p)
    <3>1. /\ db.gone \subseteq db'.gone /\ db.today <= db'.today
          /\ db.stored \subseteq db'.stored \cup Held(request[p]) \cup Condemned(request[p])
          /\ DOMAIN db.attachments \subseteq DOMAIN db'.attachments \cup db'.gone
          /\ DOMAIN db'.attachments \subseteq DOMAIN db.attachments
      BY <2>5, <2>6, <2>11
    <3>2. \A g \in DOMAIN db'.mailFiles :
             /\ g \in DOMAIN db.mailFiles /\ (g \in Sure(db'.mailFiles) => g \in Sure(db.mailFiles))
             /\ NoDemo(db', db'.mailFiles[g].org)
      BY <2>5, <2>13
    <3>3. /\ Held(request'[p]) \subseteq DOMAIN db.attachments
          /\ Entering(request'[p]) = {} /\ Condemned(request'[p]) = {}
      BY <2>8, <2>15
    <3>4. QED BY <2>14, <3>1, <3>2, <3>3 DEF FilesMoved
  <2>17. QED BY <2>4, <2>10, <2>16, StorageNext
<1>5. \/ Reject(p) \/ \E f : Begin(p, "file.delete", f)
      \/ \E f \in DOMAIN db.attachments :
            Proceed(p, Deleting([db EXCEPT !.attachments = Without(@, {f})]), "file.remove", f, 0)
  BY DEF DeleteAttachment
<1>6. QED BY <1>2, <1>3, <1>4, <1>5

-----------------------------------------------------------------------------
(* What the steps of the demo do to them *)

LEMMA StartStorage ==
    ASSUME Storage, Ready', NEW p \in Requests, StartDemo(p) \/ RestartDemo(p) \/ QueryRecords(p)
    PROVE  Storage'
<1>1. /\ Kept({"rates"}) /\ Moved(p)
      /\ \E op \in {"none", "demo.lock"} : \E arg : request'[p] = [op |-> op, arg |-> arg]
  BY StartingDemo DEF Storage, Ready
<1>2. request'[p].op \in {"none", "demo.lock"}
  BY <1>1
<1>3. request'[p].op \notin FileOps
  BY <1>2 DEF FileOps
<1>4. QED BY <1>1, <1>3, StorageKept

LEMMA ReleasedStorage ==
    ASSUME Storage, Ready', NEW p \in Requests, NEW op, op \notin FileOps, NEW arg, NEW faults,
           Release(p, db, op, arg, faults)
    PROVE  Storage'
<1>1. /\ Kept({"rates", "stored", "reserved", "lock"}) /\ Moved(p) /\ db'.stored = db.stored
      /\ request'[p] = [op |-> op, arg |-> arg]
  BY Releasing DEF Storage, Ready
<1>2. Kept({"rates", "reserved", "lock"})
  BY <1>1 DEF Kept
<1>3. request'[p].op \notin FileOps
  BY <1>1
<1>4. QED BY <1>1, <1>2, <1>3, StorageKept

LEMMA LockStorage ==
    ASSUME Storage, Ready', NEW p \in Requests,
           AcquireLock(p) \/ CountWorkspaces(p) \/ FinishStart(p)
    PROVE  Storage'
<1>1. Typed /\ {"none", "demo.count", "demo.bootstrap", "demo.expire"} \cap FileOps = {}
  BY DEF Storage, Ready, FileOps
<1>2. CASE Reject(p)
  <2>1. Kept({}) /\ Moved(p) /\ request'[p].op = "none"
    BY <1>1, <1>2, Rejecting DEF Idle
  <2>2. QED BY <1>1, <2>1, StorageKept
<1>3. ASSUME NEW arg, Proceed(p, [db EXCEPT !.lock = p], "demo.count", arg, 0)
      PROVE  Storage'
  <2>1. db' = [db EXCEPT !.lock = p] /\ Moved(p) /\ request'[p] = [op |-> "demo.count", arg |-> arg]
    BY <1>1, <1>3, Proceeding
  <2>2. Kept({"lock"}) /\ request'[p].op = "demo.count"
    BY <1>1, <2>1 DEF Kept, Typed, TableNames
  <2>3. QED BY <1>1, <2>1, <2>2, StorageKept
<1>4. ASSUME NEW arg, Continue(p, "demo.bootstrap", arg)
      PROVE  Storage'
  <2>1. Kept({}) /\ Moved(p) /\ request'[p] = [op |-> "demo.bootstrap", arg |-> arg]
    BY <1>1, <1>4, Continuing
  <2>2. request'[p].op = "demo.bootstrap"
    BY <2>1
  <2>3. QED BY <1>1, <2>1, <2>2, StorageKept
<1>5. \/ Reject(p) \/ \E arg : Proceed(p, [db EXCEPT !.lock = p], "demo.count", arg, 0)
      \/ \E arg : Continue(p, "demo.bootstrap", arg)
      \/ \E op \in {"none", "demo.expire"} : \E arg : Release(p, db, op, arg, 0)
  BY DEF AcquireLock, CountWorkspaces, FinishStart
<1>6. QED BY <1>1, <1>2, <1>3, <1>4, <1>5, ReleasedStorage

LEMMA BootstrapStorage ==
    ASSUME Storage, Ready', NEW p \in Requests, BootstrapWorkspace(p)
    PROVE  Storage'
<1>1. CASE Release(p, db, "none", None, 1)
  BY <1>1, ReleasedStorage DEF FileOps
<1>2. ASSUME NEW org, org \notin DOMAIN db.orgs, NEW row, NEW roles, NEW accounts, NEW arg,
             Proceed(p, [db EXCEPT !.orgs = Insert(@, org, row), !.roles = roles,
                                   !.accounts = accounts], "demo.identity", arg, 0)
      PROVE  Storage'
  <2> DEFINE orgs == Insert(db.orgs, org, row)
             tables == [db EXCEPT !.orgs = orgs, !.roles = roles, !.accounts = accounts]
  <2>1. /\ DOMAIN tables = TableNames /\ tables.orgs = orgs /\ tables.gone = db.gone
        /\ \A n \in TableNames \ {"orgs", "roles", "accounts"} : tables[n] = db[n]
    BY DEF Storage, Ready, Typed, TableNames
  <2>2. Proceed(p, tables, "demo.identity", arg, 0)
    BY <1>2
  <2> HIDE DEF tables
  <2>3. db' = tables /\ Moved(p) /\ request'[p] = [op |-> "demo.identity", arg |-> arg]
    BY <2>2, Proceeding DEF Storage, Ready
  <2>4. Kept({"orgs", "roles", "accounts"}) /\ db'.orgs = orgs /\ db'.today = db.today
    BY <2>1, <2>3 DEF Kept, TableNames
  <2>5. OrgsLast
    BY <1>2, <2>4 DEF OrgsLast, RunOut, NoDemo, Insert
  <2>6. Plain(request'[p], db')
    BY <2>3 DEF Plain, FileOps
  <2>7. QED BY <2>3, <2>4, <2>5, <2>6, OrgsStorage
<1>3. \/ Release(p, db, "none", None, 1)
      \/ /\ HasRoom(Unused(Orgs), db.orgs)
         /\ \E row, roles, accounts, arg :
               Proceed(p, [db EXCEPT !.orgs = Insert(@, Fresh(Unused(Orgs), db.orgs), row),
                                     !.roles = roles, !.accounts = accounts],
                       "demo.identity", arg, 0)
  BY DEF BootstrapWorkspace, WithOrganization
<1>4. QED BY <1>1, <1>2, <1>3, Choosing

LEMMA OrgStorage ==
    ASSUME Storage, Ready', NEW p \in Requests, SetIdentity(p) \/ ExpirePrevious(p)
    PROVE  Storage'
<1>1. Typed /\ db.today \in Nat
  BY DEF Storage, Ready, Typed, RowsOK, DemoRowsOK
<1>2. ASSUME NEW org, NEW change, change = [sender |-> TRUE] \/ change = [expires |-> db.today],
             NEW op, NEW arg,
             Proceed(p, [db EXCEPT !.orgs = IF org \in DOMAIN @ THEN Patch(@, org, change) ELSE @],
                     op, arg, 0),
             Plain([op |-> op, arg |-> arg], db)
      PROVE  Storage'
  <2> DEFINE orgs == IF org \in DOMAIN db.orgs THEN Patch(db.orgs, org, change) ELSE db.orgs
             tables == [db EXCEPT !.orgs = orgs]
  <2>1. DOMAIN tables = TableNames /\ tables.orgs = orgs
        /\ \A n \in TableNames \ {"orgs"} : tables[n] = db[n]
    BY <1>1 DEF Typed, TableNames
  <2>2. Proceed(p, tables, op, arg, 0)
    BY <1>2
  <2> HIDE DEF tables
  <2>3. db' = tables /\ Moved(p) /\ request'[p] = [op |-> op, arg |-> arg]
    BY <1>1, <2>2, Proceeding
  <2>4. Kept({"orgs"}) /\ db'.orgs = orgs /\ db'.today = db.today
    BY <2>1, <2>3 DEF Kept, TableNames
  <2>5. OrgsLast
    <3>1. CASE org \notin DOMAIN db.orgs
      BY <2>4, <3>1 DEF OrgsLast, RunOut, NoDemo
    <3>2. CASE org \in DOMAIN db.orgs
      <4>1. db'.orgs = Patch(db.orgs, org, change)
        BY <2>4, <3>2
      <4> HIDE DEF orgs
      <4>2. /\ DOMAIN db'.orgs = DOMAIN db.orgs
            /\ \A o \in DOMAIN db.orgs :
                  /\ db'.orgs[o].demo = db.orgs[o].demo
                  /\ change = [sender |-> TRUE] => db'.orgs[o].expires = db.orgs[o].expires
        BY <1>1, <1>2, <3>2, <4>1, PatchingOrg
      <4>3. ASSUME NEW o, RunOut(db, o)
            PROVE  RunOut(db', o)
        <5>1. o \in DOMAIN db.orgs /\ db.orgs[o].demo /\ db.orgs[o].expires <= db.today
          BY <4>3 DEF RunOut
        <5>2. db'.orgs[o].expires <= db.today
          <6>1. CASE change = [sender |-> TRUE]
            BY <4>2, <5>1, <6>1
          <6>2. CASE change = [expires |-> db.today]
            <7>1. db.orgs[o] \in OrgRow
              BY <1>1, <5>1 DEF Typed, RowsOK, DemoRowsOK, RowsOf
            <7>2. CASE o = org
              <8>1. db'.orgs[o].expires = db.today
                BY <3>2, <4>1, <6>2, <7>1, <7>2 DEF Patch, Over, OrgRow
              <8>2. QED BY <1>1, <8>1
            <7>3. CASE o # org
              BY <4>1, <5>1, <7>3 DEF Patch
            <7>4. QED BY <7>2, <7>3
          <6>3. QED BY <1>2, <6>1, <6>2
        <5>3. QED BY <2>4, <4>2, <5>1, <5>2 DEF RunOut
      <4>4. \A o : NoDemo(db, o) => NoDemo(db', o)
        BY <4>2 DEF NoDemo
      <4>5. QED BY <4>3, <4>4 DEF OrgsLast
    <3>3. QED BY <3>1, <3>2
  <2>6. Plain(request'[p], db')
    BY <1>2, <2>3, <2>4 DEF Plain
  <2>7. QED BY <2>3, <2>4, <2>5, <2>6, OrgsStorage
<1>3. CASE SetIdentity(p)
  <2>1. \/ Release(p, db, "none", None, 1)
        \/ Proceed(p, [db EXCEPT !.orgs = IF Arg(p).org \in DOMAIN @
                                          THEN Patch(@, Arg(p).org, [sender |-> TRUE]) ELSE @],
                   "demo.seed", Arg(p), 0)
    BY <1>3 DEF SetIdentity, WithSender
  <2>2. "none" \notin FileOps /\ Plain([op |-> "demo.seed", arg |-> Arg(p)], db)
    BY DEF FileOps, Plain
  <2>3. QED BY <1>2, <2>1, <2>2, ReleasedStorage
<1>4. CASE ExpirePrevious(p)
  <2> DEFINE arg == [orgs |-> {Arg(p)}, day |-> db.today]
  <2>1. CASE Proceed(p, db, "none", None, 1)
    <3>1. db' = db /\ Moved(p) /\ request'[p] = [op |-> "none", arg |-> None]
      BY <1>1, <2>1, Proceeding
    <3>2. Kept({}) /\ request'[p].op \notin FileOps
      BY <1>1, <3>1 DEF Kept, Typed, FileOps
    <3>3. QED BY <3>1, <3>2, StorageKept
  <2>2. "day" \in DOMAIN arg /\ arg.day = db.today
    OBVIOUS
  <2>3. \/ Proceed(p, db, "none", None, 1)
        \/ Proceed(p, [db EXCEPT !.orgs = IF Arg(p) \in DOMAIN @
                                          THEN Patch(@, Arg(p), [expires |-> db.today]) ELSE @],
                   "demo.destroy", arg, 0)
    BY <1>4 DEF ExpirePrevious
  <2> HIDE DEF arg
  <2>4. Plain([op |-> "demo.destroy", arg |-> arg], db)
    BY <1>1, <2>2 DEF Plain, DestroyArgs
  <2>5. QED BY <1>2, <2>1, <2>3, <2>4
<1>5. QED BY <1>3, <1>4

\* Its rows go with a workspace, and what names its files.
LEMMA DeletedStorage ==
    ASSUME Storage, Ready', NEW p \in Requests, Moved(p), NEW org, NEW tables,
           tables = WithoutOrganization(org), \A n \in TableNames \ {"lock"} : db'[n] = tables[n],
           Plain(request'[p], db')
    PROVE  Storage'
<1> DEFINE Others(table) == Without(table, {x \in DOMAIN table : table[x].org = org})
           left == [db EXCEPT
              !.orgs = Without(@, {org}), !.accounts = Without(@, AccountsOf(org)),
              !.roles = Without(@, RolesOf(org)),
              !.sessions = Without(@, {s \in DOMAIN @ : @[s].account \in AccountsOf(org)}),
              !.resets = Without(@, {r \in DOMAIN @ : @[r].account \in AccountsOf(org)}),
              !.invitations = Others(@), !.entities = Others(@),
              !.attachments = Without(@, FilesOf(org)),
              !.records = Without(@, {k \in DOMAIN @ : k[1] = org}),
              !.templates = Others(@), !.mailboxes = Others(@), !.threads = Others(@),
              !.messages = Others(@), !.mailFiles = Others(@)]
<1>1. tables = Deleting(left)
  BY DEF WithoutOrganization
<1>2. /\ DOMAIN left = TableNames /\ left.gone = db.gone /\ left.today = db.today
      /\ left.stored = db.stored /\ left.orgs = Without(db.orgs, {org})
      /\ left.attachments = Without(db.attachments, FilesOf(org))
      /\ left.mailFiles = Others(db.mailFiles)
  BY DEF Storage, Ready, Typed, TableNames
<1> HIDE DEF left
<1>3. /\ db.gone \subseteq tables.gone /\ \A n \in TableNames \ {"gone"} : tables[n] = left[n]
      /\ DOMAIN db.attachments \subseteq DOMAIN left.attachments \cup tables.gone
  <2>1. left.gone \subseteq tables.gone /\ \A n \in TableNames \ {"gone"} : tables[n] = left[n]
    BY <1>1, <1>2, DeletingTables
  <2>2. "attachments" \in RowTables
    BY DEF RowTables
  <2>3. DOMAIN db.attachments \subseteq DOMAIN left.attachments \cup tables.gone
    BY <1>1, <1>2, <2>2, DeletedAreGone
  <2>4. QED BY <1>2, <2>1, <2>3
<1>4. /\ db.gone \subseteq db'.gone /\ db'.today = db.today /\ db'.stored = db.stored
      /\ db'.orgs = Without(db.orgs, {org})
      /\ db'.attachments = Without(db.attachments, FilesOf(org))
      /\ db'.mailFiles = Others(db.mailFiles)
      /\ DOMAIN db.attachments \subseteq DOMAIN db'.attachments \cup db'.gone
  BY <1>2, <1>3 DEF TableNames
<1>5. /\ DOMAIN db'.attachments \subseteq DOMAIN db.attachments
      /\ \A f \in DOMAIN db'.attachments :
            db'.attachments[f] = db.attachments[f] /\ db.attachments[f].org # org
  BY <1>4 DEF Without, FilesOf
<1>6. /\ DOMAIN db'.mailFiles \subseteq DOMAIN db.mailFiles
      /\ \A f \in DOMAIN db'.mailFiles :
            db'.mailFiles[f] = db.mailFiles[f] /\ db.mailFiles[f].org # org
  BY <1>4 DEF Without
<1>7. \A o : o # org => /\ RunOut(db, o) => RunOut(db', o)
                        /\ NoDemo(db, o) => NoDemo(db', o)
  BY <1>4 DEF RunOut, NoDemo, Without
<1>8. \A f \in DOMAIN db'.mailFiles : NoDemo(db', db'.mailFiles[f].org)
  BY <1>6, <1>7 DEF Storage, FilesOK, NoDemo
<1>9. db.today \in Nat
  BY DEF Storage, Ready, Typed, RowsOK, DemoRowsOK
<1>10. /\ Sure(db'.attachments) \subseteq Sure(db.attachments)
       /\ Sure(db'.mailFiles) \subseteq Sure(db.mailFiles)
  BY <1>5, <1>6 DEF Sure
<1>11. FilesMoved(p)
  BY <1>4, <1>5, <1>6, <1>7, <1>8, <1>9, <1>10, PlainHanded DEF FilesMoved
<1>12. QED BY <1>11, PlainHanded, StorageNext

LEMMA GivenUpStorage ==
    ASSUME Storage, Ready', NEW p \in Requests, GiveUpWorkspace(p)
    PROVE  Storage'
<1> DEFINE org == Arg(p).org
           tables == WithoutOrganization(org)
           unlocked == Unlocked(p, tables)
<1>1. DOMAIN tables = TableNames /\ tables.lock \in OrNone(Requests)
  BY OrganizationDeleted DEF Storage, Ready, Typed, RowsOK, DemoRowsOK
<1>2. Proceed(p, unlocked, "none", None, 1)
  BY DEF GiveUpWorkspace, Release
<1>3. \A n \in TableNames \ {"lock"} : unlocked[n] = tables[n]
  BY <1>1, Unlocking DEF Storage, Ready
<1> HIDE DEF unlocked, org
<1>4. db' = unlocked /\ Moved(p) /\ request'[p] = [op |-> "none", arg |-> None]
  BY <1>2, Proceeding DEF Storage, Ready
<1>5. Plain(request'[p], db')
  BY <1>4 DEF Plain, FileOps
<1>6. \A n \in TableNames \ {"lock"} : db'[n] = tables[n]
  BY <1>3, <1>4
<1>7. QED BY <1>4, <1>5, <1>6, DeletedStorage

LEMMA FilledStorage ==
    ASSUME Storage, Ready', NEW p \in Requests, SeedWorkspace(p) \/ OpenWorkspace(p)
    PROVE  Storage'
<1>1. Typed
  BY DEF Storage, Ready
<1>2. ASSUME NEW v, NEW tables, tables \in {[db EXCEPT !.records = v], [db EXCEPT !.sessions = v]},
             NEW op \in {"demo.session", "demo.done"}, NEW arg, Proceed(p, tables, op, arg, 0)
      PROVE  Storage'
  <2>1. db' = tables /\ Moved(p) /\ request'[p] = [op |-> op, arg |-> arg]
    BY <1>1, <1>2, Proceeding
  <2>2. Kept({"records", "sessions"})
    BY <1>1, <1>2, <2>1 DEF Kept, Typed, TableNames
  <2>3. request'[p].op \notin FileOps
    BY <2>1 DEF FileOps
  <2>4. QED BY <2>1, <2>2, <2>3, StorageKept
<1>3. \/ GiveUpWorkspace(p)
      \/ \E v, arg : Proceed(p, [db EXCEPT !.records = v], "demo.session", arg, 0)
      \/ \E v, arg : Proceed(p, [db EXCEPT !.sessions = v], "demo.done", arg, 0)
  BY DEF SeedWorkspace, OpenWorkspace
<1>4. QED BY <1>2, <1>3, GivenUpStorage

\* The keys of the files of a demo that has expired are read, and then deleted
\* one by one, before the rows that name them.
LEMMA DestroyStorage ==
    ASSUME Storage, Ready', NEW p \in Requests,
           CleanupDemos(p) \/ DestroyNext(p) \/ DestroyFiles(p)
    PROVE  Storage'
<1>1. /\ Typed /\ db.today \in Nat /\ DOMAIN db = TableNames
      /\ FileArgs(request[p], db)
  BY DEF Storage, Ready, Typed, RowsOK, DemoRowsOK
<1>2. CASE CleanupDemos(p)
  <2>1. PICK batch : Begin(p, "demo.destroy", [orgs |-> batch, day |-> db.today])
    BY <1>2 DEF CleanupDemos
  <2> DEFINE arg == [orgs |-> batch, day |-> db.today]
  <2>2. "day" \in DOMAIN arg /\ arg.day = db.today
    OBVIOUS
  <2> HIDE DEF arg
  <2>3. Kept({"rates"}) /\ Moved(p) /\ request'[p] = [op |-> "demo.destroy", arg |-> arg]
    BY <1>1, <2>1, Calling DEF arg
  <2>4. db'.today = db.today /\ db'.orgs = db.orgs
    BY <2>3 DEF Kept, TableNames
  <2>5. Plain(request'[p], db')
    BY <1>1, <2>2, <2>3, <2>4 DEF Plain, DestroyArgs
  <2>6. OrgsLast
    BY <2>4 DEF OrgsLast, RunOut, NoDemo
  <2>7. QED BY <2>3, <2>5, <2>6, OrgsStorage
<1>3. ASSUME DestroyArgs(request[p], db.today), request[p].op \in {"demo.destroy", "demo.files"}
      PROVE  "day" \in DOMAIN Arg(p) /\ Arg(p).day \in Nat /\ Arg(p).day <= db.today
  BY <1>3 DEF DestroyArgs, Arg
<1>4. DestroyArgs(request[p], db.today)
  BY <1>1 DEF FileArgs
\* Nothing but what the request has to do changes.
<1>5. ASSUME NEW arg, "day" \in DOMAIN arg, arg.day = Arg(p).day,
             request[p].op \in {"demo.destroy", "demo.files"}, Moved(p),
             request'[p] = [op |-> "demo.destroy", arg |-> arg]
      PROVE  db'.today = db.today => Plain(request'[p], db')
  BY <1>3, <1>4, <1>5 DEF Plain, DestroyArgs
<1>6. ASSUME db' = db, Moved(p), Plain(request'[p], db')
      PROVE  Storage'
  <2>1. Kept({})
    BY <1>1, <1>6 DEF Kept
  <2>2. OrgsLast
    BY <1>6 DEF OrgsLast
  <2>3. QED BY <1>6, <2>1, <2>2, OrgsStorage
<1>7. CASE DestroyNext(p)
  <2>1. request[p].op = "demo.destroy"
    BY <1>7 DEF DestroyNext, At
  <2>2. CASE Reject(p)
    <3>1. db' = db /\ Moved(p) /\ request'[p].op = "none"
      BY <1>1, <2>2, Rejecting DEF Idle
    <3>2. QED BY <1>6, <3>1 DEF Plain, FileOps
  <2>3. ASSUME NEW org, NEW rest, rest = [Arg(p) EXCEPT !.orgs = @ \ {org}]
        PROVE  "day" \in DOMAIN rest /\ rest.day = Arg(p).day
    BY <1>3, <1>4, <2>1, <2>3
  <2>4. ASSUME NEW org, NEW rest, rest = [Arg(p) EXCEPT !.orgs = @ \ {org}],
               Continue(p, "demo.destroy", rest)
        PROVE  Storage'
    <3>1. db' = db /\ Moved(p) /\ request'[p] = [op |-> "demo.destroy", arg |-> rest]
      BY <1>1, <2>4, Continuing
    <3>2. "day" \in DOMAIN rest /\ rest.day = Arg(p).day
      BY <2>3, <2>4
    <3>3. Plain(request'[p], db')
      BY <1>5, <2>1, <3>1, <3>2
    <3>4. QED BY <1>6, <3>1, <3>3
  <2>5. ASSUME NEW org, NEW rest, rest = [Arg(p) EXCEPT !.orgs = @ \ {org}],
               Doomed(org, Arg(p).day), NEW arg,
               arg = Over([org |-> org, files |-> KeysOf(org)], rest),
               Continue(p, "demo.files", arg)
        PROVE  Storage'
    <3>1. db' = db /\ Moved(p) /\ request'[p] = [op |-> "demo.files", arg |-> arg]
      BY <1>1, <2>5, Continuing
    <3>2. "day" \in DOMAIN rest /\ rest.day = Arg(p).day
      BY <2>3, <2>5
    <3>3. /\ "day" \in DOMAIN arg /\ "files" \in DOMAIN arg
          /\ arg.day = Arg(p).day /\ arg.files = KeysOf(org)
      BY <2>5, <3>2 DEF Over
    <3>4. Arg(p).day \in Nat /\ Arg(p).day <= db.today
      BY <1>3, <1>4, <2>1
    <3>5. RunOut(db, org)
      <4>1. org \in DOMAIN db.orgs /\ db.orgs[org].demo /\ db.orgs[org].expires <= Arg(p).day
        BY <2>5 DEF Doomed, ExpiredDemos, Demos
      <4>2. db.orgs[org].expires \in Nat
        BY <1>1, <4>1 DEF Typed, RowsOK, DemoRowsOK, RowsOf, OrgRow
      <4>3. QED BY <1>1, <3>4, <4>1, <4>2 DEF RunOut
    <3>6. /\ KeysOf(org) \subseteq DOMAIN db.attachments
          /\ \A f \in KeysOf(org) : db.attachments[f].org = org
      <4>1. \A f \in DOMAIN db.mailFiles : db.mailFiles[f].org # org
        BY <3>5 DEF Storage, FilesOK, RunOut
      <4>2. QED BY <4>1 DEF KeysOf, FilesOf
    <3>7. DOMAIN db.attachments \cap DOMAIN db.mailFiles = {}
      BY DEF Storage, FilesOK
    <3>8. request'[p].op = "demo.files" /\ request'[p].arg = arg
      BY <3>1
    <3>9. Held(request'[p]) = {} /\ Entering(request'[p]) = {} /\ Condemned(request'[p]) = KeysOf(org)
      BY <3>3, <3>8 DEF Held, Entering, Condemned
    <3>10. DestroyArgs(request'[p], db'.today)
      BY <3>1, <3>3, <3>4, <3>8 DEF DestroyArgs
    <3>11. FileArgs(request'[p], db')
      BY <3>1, <3>5, <3>6, <3>7, <3>9, <3>10 DEF FileArgs
    <3>12. Kept({"stored"})
      BY <1>1, <3>1 DEF Kept
    <3>13. QED BY <3>1, <3>6, <3>9, <3>11, <3>12, StoredMoved
  <2>6. \/ Reject(p)
        \/ \E org : LET rest == [Arg(p) EXCEPT !.orgs = @ \ {org}]
                    IN  \/ Continue(p, "demo.destroy", rest)
                        \/ /\ Doomed(org, Arg(p).day)
                           /\ Continue(p, "demo.files",
                                 Over([org |-> org, files |-> KeysOf(org)], rest))
    BY <1>7 DEF DestroyNext
  <2>7. QED BY <2>2, <2>4, <2>5, <2>6
<1>8. CASE DestroyFiles(p)
  <2>1. request[p].op = "demo.files"
    BY <1>8 DEF DestroyFiles, At
  <2>2. "files" \in DOMAIN Arg(p) /\ "day" \in DOMAIN Arg(p)
    BY <1>3, <1>4, <2>1 DEF DestroyArgs, Arg
  <2>3. Condemned(request[p]) = Arg(p).files /\ Held(request[p]) = {} /\ Entering(request[p]) = {}
    BY <2>1 DEF Condemned, Held, Entering, Arg
  <2>4. ASSUME NEW f \in Arg(p).files, NEW arg, arg = [Arg(p) EXCEPT !.files = @ \ {f}],
               Proceed(p, [db EXCEPT !.stored = @ \ {f}], "demo.files", arg, 0)
        PROVE  Storage'
    <3> DEFINE tables == [db EXCEPT !.stored = @ \ {f}]
    <3>1. /\ DOMAIN tables = TableNames /\ tables.stored = db.stored \ {f} /\ tables.gone = db.gone
          /\ \A n \in TableNames \ {"stored"} : tables[n] = db[n]
      BY <1>1 DEF TableNames
    <3>2. Proceed(p, tables, "demo.files", arg, 0)
      BY <2>4
    <3> HIDE DEF tables
    <3>3. db' = tables /\ Moved(p) /\ request'[p] = [op |-> "demo.files", arg |-> arg]
      BY <1>1, <3>2, Proceeding
    <3>4. Kept({"stored"}) /\ db.stored \subseteq db'.stored \cup {f}
      BY <3>1, <3>3 DEF Kept
    <3>5. /\ "day" \in DOMAIN arg /\ "files" \in DOMAIN arg
          /\ arg.day = Arg(p).day /\ arg.files = Arg(p).files \ {f}
      BY <2>2, <2>4
    <3>6. request'[p].op = "demo.files" /\ request'[p].arg = arg
      BY <3>3
    <3>7. /\ Held(request'[p]) = {} /\ Entering(request'[p]) = {}
          /\ Condemned(request'[p]) = Arg(p).files \ {f}
      BY <3>5, <3>6 DEF Held, Entering, Condemned
    <3>8. /\ db'.attachments = db.attachments /\ db'.mailFiles = db.mailFiles
          /\ db'.orgs = db.orgs /\ db'.today = db.today /\ db'.gone = db.gone
      BY <3>1, <3>3 DEF TableNames
    <3>9. DestroyArgs(request'[p], db'.today)
      BY <1>3, <1>4, <2>1, <3>5, <3>6, <3>8 DEF DestroyArgs
    <3>10. \A g \in Arg(p).files :
              /\ g \notin DOMAIN db.mailFiles
              /\ g \notin DOMAIN db.attachments => g \in db.gone
              /\ g \in DOMAIN db.attachments => RunOut(db, db.attachments[g].org)
      BY <1>1, <2>3 DEF FileArgs
    <3>11. FileArgs(request'[p], db')
      BY <3>7, <3>8, <3>9, <3>10 DEF FileArgs, RunOut
    <3>12. QED BY <2>3, <2>4, <3>3, <3>4, <3>7, <3>11, StoredMoved
  <2>5. ASSUME NEW arg, "day" \in DOMAIN arg, arg.day = Arg(p).day, NEW faults,
               \/ Proceed(p, db, "demo.destroy", arg, faults)
               \/ \E org : Proceed(p, WithoutOrganization(org), "demo.destroy", arg, faults)
        PROVE  Storage'
    <3>1. CASE Proceed(p, db, "demo.destroy", arg, faults)
      <4>1. db' = db /\ Moved(p) /\ request'[p] = [op |-> "demo.destroy", arg |-> arg]
        BY <1>1, <3>1, Proceeding
      <4>2. Plain(request'[p], db')
        BY <1>5, <2>1, <2>5, <4>1
      <4>3. QED BY <1>6, <4>1, <4>2
    <3>2. ASSUME NEW org, Proceed(p, WithoutOrganization(org), "demo.destroy", arg, faults)
          PROVE  Storage'
      <4> DEFINE tables == WithoutOrganization(org)
      <4>1. tables.today = db.today
        BY <1>1, OrganizationDeleted
      <4> HIDE DEF tables
      <4>2. db' = tables /\ Moved(p) /\ request'[p] = [op |-> "demo.destroy", arg |-> arg]
        BY <1>1, <3>2, Proceeding DEF tables
      <4>3. Plain(request'[p], db')
        BY <1>5, <2>1, <2>5, <4>1, <4>2
      <4>4. \A n \in TableNames \ {"lock"} : db'[n] = tables[n]
        BY <4>2
      <4>5. tables = WithoutOrganization(org)
        BY DEF tables
      <4>6. QED BY <4>2, <4>3, <4>4, <4>5, DeletedStorage
    <3>3. QED BY <2>5, <3>1, <3>2
  <2> DEFINE rest == [orgs |-> Arg(p).orgs, day |-> Arg(p).day]
  <2>6. \/ \E f \in Arg(p).files :
              Proceed(p, [db EXCEPT !.stored = @ \ {f}], "demo.files",
                      [Arg(p) EXCEPT !.files = @ \ {f}], 0)
        \/ \E faults : Proceed(p, db, "demo.destroy", rest, faults)
        \/ \E org : Proceed(p, WithoutOrganization(org), "demo.destroy", rest, 0)
    BY <1>8 DEF DestroyFiles
  <2>7. "day" \in DOMAIN rest /\ rest.day = Arg(p).day
    OBVIOUS
  <2> HIDE DEF rest
  <2>8. QED BY <2>4, <2>5, <2>6, <2>7
<1>9. QED BY <1>2, <1>7, <1>8

LEMMA RecordStorage ==
    ASSUME Storage, Ready', NEW p \in Requests, CreateRecord(p) \/ DeriveRecord(p)
    PROVE  Storage'
<1>1. /\ {"none", "announce", "demo.reserve", "demo.rate", "demo.create", "demo.derive"}
            \cap FileOps = {}
      /\ Typed
  BY DEF FileOps, Storage, Ready
<1>2. CASE Reject(p)
  <2>1. Kept({}) /\ Moved(p) /\ request'[p].op = "none"
    BY <1>1, <1>2, Rejecting DEF Idle
  <2>2. QED BY <1>1, <2>1, StorageKept
<1>3. ASSUME NEW v, NEW tables,
             tables \in {[db EXCEPT !.records = v], [db EXCEPT !.reserved = v],
                         [db EXCEPT !.rates = v]},
             \/ Commit(p, tables, <<>>)
             \/ \E op \in {"none", "demo.rate", "demo.create"} : \E arg :
                   Proceed(p, tables, op, arg, 0)
      PROVE  Storage'
  <2>1. db' = tables /\ Moved(p)
        /\ request'[p].op \in {"none", "announce", "demo.rate", "demo.create"}
    <3>1. CASE Commit(p, tables, <<>>)
      BY <1>1, <3>1, Committing
    <3>2. ASSUME NEW op \in {"none", "demo.rate", "demo.create"}, NEW arg,
                 Proceed(p, tables, op, arg, 0)
          PROVE  db' = tables /\ Moved(p) /\ request'[p].op = op
      <4>1. db' = tables /\ Moved(p) /\ request'[p] = [op |-> op, arg |-> arg]
        BY <1>1, <3>2, Proceeding
      <4>2. QED BY <4>1
    <3>3. QED BY <1>3, <3>1, <3>2
  <2>2. Kept({"records", "reserved", "rates"})
    BY <1>1, <1>3, <2>1 DEF Kept, Typed, TableNames
  <2>3. QED BY <1>1, <2>1, <2>2, StorageKept
<1>4. ASSUME NEW op \in {"demo.reserve", "demo.derive"}, NEW scope, NEW arg,
             Begin(p, op, arg) \/ TurnedAway(p, scope) \/ CallCounted(p, scope, op, arg)
      PROVE  Storage'
  <2>1. Kept({"rates"}) /\ Moved(p) /\ request'[p].op \in {"none", op}
    <3>1. CASE Begin(p, op, arg)
      <4>1. Kept({"rates"}) /\ Moved(p) /\ request'[p] = [op |-> op, arg |-> arg]
        BY <1>1, <3>1, Calling
      <4>2. QED BY <4>1
    <3>2. CASE TurnedAway(p, scope)
      BY <1>1, <3>2, TurningAway DEF Idle
    <3>3. CASE CallCounted(p, scope, op, arg)
      <4>1. Kept({"rates"}) /\ Moved(p) /\ request'[p] = [op |-> op, arg |-> arg]
        BY <1>1, <3>3, CountedCalling
      <4>2. QED BY <4>1
    <3>4. QED BY <1>4, <3>1, <3>2, <3>3
  <2>2. QED BY <1>1, <2>1, StorageKept
<1>5. CASE CreateRecord(p)
  <2>1. \/ \E arg : Begin(p, "demo.reserve", arg)
        \/ \E kind : Reserve(p, kind, "demo.rate")
        \/ \E v : \E op \in {"none", "demo.create"} : \E arg :
              Proceed(p, [db EXCEPT !.rates = v], op, arg, 0)
        \/ Reject(p)
        \/ \E v : Commit(p, [db EXCEPT !.records = v], <<>>)
    BY <1>5 DEF CreateRecord, Counted
  <2>2. ASSUME NEW kind, Reserve(p, kind, "demo.rate")
        PROVE  Storage'
    <3>1. \/ \E v : Commit(p, [db EXCEPT !.reserved = v], <<>>)
          \/ \E v : Proceed(p, [db EXCEPT !.reserved = v], "demo.rate", Arg(p), 0)
      BY <2>2 DEF Reserve
    <3>2. QED BY <1>3, <3>1
  <2>3. QED BY <1>2, <1>3, <1>4, <2>1, <2>2
<1>6. CASE DeriveRecord(p)
  <2>1. \/ \E scope : TurnedAway(p, scope)
        \/ \E scope, arg : CallCounted(p, scope, "demo.derive", arg)
        \/ Reject(p)
        \/ \E v : Commit(p, [db EXCEPT !.records = v], <<>>)
    BY <1>6 DEF DeriveRecord, CommitIf
  <2>2. QED BY <1>2, <1>3, <1>4, <2>1
<1>7. QED BY <1>5, <1>6

LEMMA DemoStorage ==
    ASSUME Storage, Ready', NEW p \in Requests, DemoStep(p)
    PROVE  Storage'
BY StartStorage, LockStorage, BootstrapStorage, OrgStorage, FilledStorage, DestroyStorage,
   RecordStorage DEF DemoStep

-----------------------------------------------------------------------------
(* What the steps of the mail do to them *)

LEMMA OtherMailboxesOps ==
    ASSUME NEW p \in Requests, MailboxesStep(p)
    PROVE  StoreMailFile(p) \/ InsertMessage(p) \/ request[p].op \notin {"sync.file", "sync.insert"}
<1>1. CASE MailArrives(p) \/ MailIsDeleted(p) \/ FolderIsRenumbered(p)
  BY <1>1 DEF MailArrives, MailIsDeleted, FolderIsRenumbered, Called, At
<1>2. CASE CreateMailbox(p) \/ UpdateMailbox(p) \/ TestMailbox(p) \/ RequestSync(p)
           \/ RecoverMailboxes(p)
  BY <1>2 DEF CreateMailbox, UpdateMailbox, TestMailbox, RequestSync, RecoverMailboxes, Called, At
<1>3. CASE TakeSync(p) \/ ClaimMailbox(p) \/ OpenFolder(p) \/ CloseFolder(p) \/ FinishSync(p)
           \/ FailSync(p) \/ PassMessage(p) \/ ReadMessage(p)
  BY <1>3 DEF TakeSync, ClaimMailbox, OpenFolder, CloseFolder, FinishSync, FailSync, PassMessage,
              ReadMessage, Called, At
<1>4. CASE LinkThread(p) \/ ReplyToThread(p)
  BY <1>4 DEF LinkThread, ReplyToThread, Called, At
<1>5. QED BY <1>1, <1>2, <1>3, <1>4 DEF MailboxesStep

LEMMA OtherMailStorage ==
    ASSUME Storage, Ready', NEW p \in Requests, MailKept(p),
           request[p].op \notin {"sync.file", "sync.insert"}
    PROVE  Storage'
<1>1. /\ Kept(MailTables \cup {"orgs"}) /\ OrgsStay /\ FilesSame /\ Moved(p) /\ Left(request'[p], db')
      /\ request'[p].op = "sync.insert" => request'[p].arg.file = None
  BY DEF MailKept, TableWrites
<1>2. FilesAside
  BY <1>1 DEF Kept, TableNames, MailTables, FilesAside, FilesSame
<1>3. OrgsLast
  BY <1>1, <1>2 DEF OrgsLast, OrgsStay, RunOut, NoDemo, FilesAside
<1>4. request'[p].op \notin FileOps \/ request'[p].op = "sync.insert"
  BY <1>1 DEF Left, Argless, MailOps, MailboxOps, InboxOps, FileOps
<1>5. /\ Held(request'[p]) = {} /\ Entering(request'[p]) = {} /\ Condemned(request'[p]) = {}
      /\ FileArgs(request'[p], db')
  <2>1. CASE request'[p].op \notin FileOps
    BY <2>1, EmptyHanded
  <2>2. CASE request'[p].op = "sync.insert"
    <3>1. Held(request'[p]) = {} /\ Entering(request'[p]) = {} /\ Condemned(request'[p]) = {}
      BY <1>1, <2>2 DEF Held, Entering, Condemned
    <3>2. QED BY <2>2, <3>1 DEF FileArgs, DestroyArgs
  <2>3. QED BY <1>4, <2>1, <2>2
<1>6. QED BY <1>1, <1>2, <1>3, <1>5, StorageAside

LEMMA StoreMailStorage ==
    ASSUME Storage, Ready', NEW p \in Requests, StoreMailFile(p)
    PROVE  Storage'
<1>1. Typed /\ request[p].op = "sync.file" /\ "file" \in DOMAIN Arg(p)
  <2>1. request[p].op = "sync.file" /\ MailboxArgs(request[p], db) /\ Typed
    BY DEF StoreMailFile, At, Storage, Ready, ArgsOK
  <2>2. QED BY <2>1 DEF MailboxArgs, SyncArgs, MessageArgs, Arg
<1>2. CASE Proceed(p, db, "sync.fail", Arg(p), 1)
  <2>1. db' = db /\ Moved(p) /\ request'[p] = [op |-> "sync.fail", arg |-> Arg(p)]
    BY <1>1, <1>2, Proceeding
  <2>2. Kept({}) /\ request'[p].op \notin FileOps
    BY <1>1, <2>1 DEF Kept, Typed, FileOps
  <2>3. QED BY <2>1, <2>2, StorageKept
<1>3. ASSUME NEW f \in FreeKeys,
             Proceed(p, [db EXCEPT !.stored = @ \cup {f}], "sync.insert",
                     [Arg(p) EXCEPT !.file = f], 0)
      PROVE  Storage'
  <2> DEFINE arg == [Arg(p) EXCEPT !.file = f]
             tables == [db EXCEPT !.stored = @ \cup {f}]
  <2>1. arg.file = f
    BY <1>1
  <2>2. /\ DOMAIN tables = TableNames /\ tables.stored = db.stored \cup {f} /\ tables.gone = db.gone
        /\ \A n \in TableNames \ {"stored"} : tables[n] = db[n]
    BY <1>1 DEF Typed, TableNames
  <2>3. Proceed(p, tables, "sync.insert", arg, 0)
    BY <1>3
  <2> HIDE DEF arg, tables
  <2>4. db' = tables /\ Moved(p) /\ request'[p] = [op |-> "sync.insert", arg |-> arg]
    BY <1>1, <2>3, Proceeding
  <2>5. Kept({"stored"}) /\ db'.stored = db.stored \cup {f}
    BY <2>2, <2>4 DEF Kept
  <2>6. db'.attachments = db.attachments /\ db'.mailFiles = db.mailFiles
    BY <2>5 DEF Kept, TableNames
  <2>7. request'[p].op = "sync.insert" /\ request'[p].arg.file = f
    BY <2>1, <2>4
  <2>8. /\ Entering(request'[p]) \subseteq {f} /\ Held(request'[p]) \subseteq {f}
        /\ Condemned(request'[p]) = {}
    BY <2>7 DEF Entering, Held, Condemned
  <2>9. f \notin DOMAIN db.attachments /\ f \notin DOMAIN db.mailFiles
    BY DEF FreeKeys
  <2>10. FileArgs(request'[p], db')
    BY <2>5, <2>6, <2>7, <2>8, <2>9 DEF FileArgs, DestroyArgs, Sure
  <2>11. QED BY <2>4, <2>5, <2>8, <2>10, StoredMoved
<1>4. QED BY <1>2, <1>3 DEF StoreMailFile, Fail

\* The row of a file is of the organization of its mailbox, which is no demo.
LEMMA InsertMailStorage ==
    ASSUME Storage, Ready', NEW p \in Requests, InsertMessage(p)
    PROVE  Storage'
<1> DEFINE arg == Arg(p)
<1>1. /\ Typed /\ request[p].op = "sync.insert" /\ MailboxArgs(request[p], db)
      /\ FileArgs(request[p], db)
  BY DEF InsertMessage, At, Storage, Ready, ArgsOK
<1>2. ImportArgs(arg, db) /\ FolderArgs(arg, db) /\ MessageArgs(arg, db)
  BY <1>1 DEF MailboxArgs, SyncArgs, Arg
<1>3. Held(request[p]) = {arg.file} \ {None} /\ Entering(request[p]) = {arg.file} \ {None}
  BY <1>1 DEF Held, Entering, Arg
<1>4. None \notin db.stored
  BY <1>1, AttachmentsAssumption DEF Typed, RowsOK, AttachmentRowsOK, AttachmentsAssumption
<1>5. ASSUME NEW op \in {"sync.read", "sync.fail"}, NEW given, NEW faults,
             NEW tables \in WithoutFile(db, arg), Proceed(p, tables, op, given, faults)
      PROVE  Storage'
  <2> DEFINE less == [db EXCEPT !.stored = @ \ {arg.file}]
  <2>1. /\ DOMAIN less = TableNames /\ less.stored = db.stored \ {arg.file} /\ less.gone = db.gone
        /\ \A n \in TableNames \ {"stored"} : less[n] = db[n]
    BY <1>1 DEF Typed, TableNames
  <2>2. tables \in {less, db}
    BY <1>5 DEF WithoutFile
  <2> HIDE DEF less, arg
  <2>3. db' = tables /\ Moved(p) /\ request'[p] = [op |-> op, arg |-> given]
    BY <1>1, <1>5, Proceeding
  <2>4. Kept({"stored"}) /\ db.stored \subseteq db'.stored \cup {arg.file}
    BY <1>1, <2>1, <2>2, <2>3 DEF Kept, Typed
  <2>5. request'[p].op \notin FileOps
    BY <2>3 DEF FileOps
  <2>6. db.stored \subseteq db'.stored \cup Held(request[p])
    BY <1>3, <1>4, <2>4
  <2>7. QED BY <2>3, <2>4, <2>5, <2>6, EmptyHanded, StoredMoved
<1>6. ASSUME HasRoom(Unused(Messages), db.messages), HasRoom(Unused(Threads), db.threads),
             NEW answered \in BOOLEAN, NEW tables \in WithoutFile(MessageStored(arg, answered), arg),
             answered => tables = MessageStored(arg, answered),
             NEW op \in {"sync.read", "sync.fail"}, NEW given, NEW faults,
             Proceed(p, tables, op, given, faults)
      PROVE  Storage'
  <2> DEFINE org == db.mailboxes[arg.mailbox].org
  <2>1. NoDemo(db, org)
    <3>1. arg.mailbox \in DOMAIN db.mailboxes
      BY <1>2 DEF ImportArgs
    <3>2. QED BY <1>1, <3>1, MailboxTyped
  <2> HIDE DEF arg
  <2>2. db' = tables /\ Moved(p) /\ request'[p] = [op |-> op, arg |-> given]
    BY <1>1, <1>6, Proceeding
  <2>3. /\ TableWrites /\ db'.stored \in {db.stored, db.stored \ {arg.file}}
        /\ answered => db'.stored = db.stored
        /\ arg.file = None => db'.mailFiles = db.mailFiles
        /\ arg.file # None =>
              \E file : /\ file.org = org /\ file.answered = answered
                        /\ db'.mailFiles = Insert(db.mailFiles, arg.file, file)
    BY <1>1, <1>2, <1>6, <2>2, MessageStoredTables
  <2> HIDE DEF org
  <2>4. Kept(MailTables \cup {"orgs"}) /\ OrgsStay
    BY <2>3 DEF TableWrites
  <2>5. db'.attachments = db.attachments /\ db'.today = db.today /\ db.gone \subseteq db'.gone
    BY <2>4 DEF Kept, TableNames, MailTables
  <2>6. OrgsLast
    BY <2>4, <2>5 DEF OrgsLast, OrgsStay, RunOut, NoDemo
  <2>7. \A f \in DOMAIN db'.mailFiles :
           \/ /\ f \in DOMAIN db.mailFiles /\ db'.mailFiles[f].org = db.mailFiles[f].org
              /\ f \in Sure(db'.mailFiles) => f \in Sure(db.mailFiles)
           \/ /\ f = arg.file /\ f # None /\ db'.mailFiles[f].org = org
              /\ f \in Sure(db'.mailFiles) => answered
    <3>1. CASE arg.file = None
      BY <2>3, <3>1
    <3>2. CASE arg.file # None
      <4>1. PICK file : /\ file.org = org /\ file.answered = answered
                        /\ db'.mailFiles = Insert(db.mailFiles, arg.file, file)
        BY <2>3, <3>2
      <4>2. QED BY <3>2, <4>1 DEF Insert, Sure
    <3>3. QED BY <3>1, <3>2
  <2>8. \A f \in DOMAIN db.mailFiles : NoDemo(db, db.mailFiles[f].org)
    BY DEF Storage, FilesOK, NoDemo
  <2>9. \A f \in DOMAIN db'.mailFiles :
           /\ \/ f \in Entering(request[p]) /\ (f \in Sure(db'.mailFiles) => f \in db'.stored)
              \/ f \in DOMAIN db.mailFiles /\ (f \in Sure(db'.mailFiles) => f \in Sure(db.mailFiles))
           /\ NoDemo(db', db'.mailFiles[f].org)
    <3>1. Entering(request[p]) \subseteq db.stored
      BY <1>1 DEF FileArgs
    <3>2. QED BY <1>3, <2>1, <2>3, <2>6, <2>7, <2>8, <3>1 DEF OrgsLast
  <2>10. request'[p].op \notin FileOps
    BY <2>2 DEF FileOps
  <2>11. db.today \in Nat
    BY <1>1 DEF Typed, RowsOK, DemoRowsOK
  <2>12. db.stored \subseteq db'.stored \cup Held(request[p])
    BY <1>3, <1>4, <2>3
  <2>13. FilesMoved(p)
    BY <2>5, <2>6, <2>9, <2>10, <2>11, <2>12, EmptyHanded DEF FilesMoved, OrgsLast
  <2>14. QED BY <2>2, <2>10, <2>13, EmptyHanded, StorageNext
<1>7. \/ \E tables \in WithoutFile(db, arg) : \E op \in {"sync.read", "sync.fail"} : \E given, faults :
            Proceed(p, tables, op, given, faults)
      \/ /\ HasRoom(Unused(Messages), db.messages) /\ HasRoom(Unused(Threads), db.threads)
         /\ \/ \E given : Proceed(p, MessageStored(arg, TRUE), "sync.read", given, 0)
            \/ \E tables \in WithoutFile(MessageStored(arg, FALSE), arg) : \E given :
                  Proceed(p, tables, "sync.fail", given, 1)
  BY DEF InsertMessage, Fail
<1>8. MessageStored(arg, TRUE) \in WithoutFile(MessageStored(arg, TRUE), arg)
  BY DEF WithoutFile
<1>9. QED BY <1>5, <1>6, <1>7, <1>8

-----------------------------------------------------------------------------
(* Every step keeps them *)

LEMMA StorageStepKept ==
    ASSUME Storage, Ready', NEW p \in Requests, RequestStep(p)
    PROVE  Storage'
<1>1. Typed /\ AccountArgs(request[p]) /\ ArgsOK(request[p], db)
  BY DEF Storage, Ready, ArgsOK
<1>2. CASE AccountsStep(p)
  <2>1. Kept(AccountTables) /\ Moved(p) /\ request'[p].op \in AccountOps
    BY <1>1, <1>2, AccountsStepKept DEF AccountsKept
  <2>2. request'[p].op \notin FileOps
    BY <2>1 DEF AccountOps, FileOps
  <2>3. AccountTables \cap {"orgs", "attachments", "stored", "mailFiles", "today"} = {}
    BY DEF AccountTables
  <2>4. QED BY <2>1, <2>2, <2>3, StorageKept
<1>3. CASE DemoStep(p)
  BY <1>3, DemoStorage
<1>4. CASE AttachmentsStep(p)
  BY <1>4, UploadStorage, PutStorage, InsertStorage, RemoveStorage, DeleteStorage
     DEF AttachmentsStep
<1>5. CASE CrmMailStep(p) \/ MailboxesStep(p) \/ InboxStep(p)
  <2>1. request[p].op \in Argless \cup MailOps \cup MailboxOps \cup InboxOps
    BY <1>5, CrmMailOps, MailboxesOps, InboxStepOps
  <2>2. Left(request[p], db)
    BY <1>1, <2>1 DEF ArgsOK, Left
  <2>3. MailKept(p)
    BY <1>1, <1>5, <2>2, CrmMailStepKept, MailboxesStepKept, InboxStepKept
  <2>4. \/ StoreMailFile(p) \/ InsertMessage(p)
        \/ request[p].op \notin {"sync.file", "sync.insert"}
    <3>1. CASE MailboxesStep(p)
      BY <3>1, OtherMailboxesOps
    <3>2. CASE CrmMailStep(p) \/ InboxStep(p)
      <4>1. request[p].op \in Argless \cup MailOps \cup InboxOps
        BY <3>2, CrmMailOps, InboxStepOps
      <4>2. QED BY <4>1 DEF Argless, MailOps, InboxOps
    <3>3. QED BY <1>5, <3>1, <3>2
  <2>5. QED BY <2>3, <2>4, StoreMailStorage, InsertMailStorage, OtherMailStorage
<1>6. CASE Announce(p) \/ Die(p)
  <2>1. db' = db /\ DOMAIN request = Requests
    BY <1>1, <1>6 DEF Announce, Die, Typed
  <2>2. Moved(p) /\ request'[p].op \in {"none", "announce"}
    <3>1. CASE Die(p)
      BY <2>1, <3>1 DEF Die, Moved, Idle
    <3>2. CASE Announce(p)
      BY <2>1, <3>2 DEF Announce, Moved, Idle
    <3>3. QED BY <1>6, <3>1, <3>2
  <2>3. Kept({}) /\ request'[p].op \notin FileOps
    BY <1>1, <2>1, <2>2 DEF Kept, Typed, FileOps
  <2>4. QED BY <2>2, <2>3, StorageKept
<1>7. QED BY <1>2, <1>3, <1>4, <1>5, <1>6 DEF RequestStep

LEMMA StorageInitially == Init => Storage
<1> SUFFICES ASSUME Init PROVE Storage
  OBVIOUS
<1>1. PICK scenario \in Scenarios : db = scenario.db /\ request = [p \in Requests |-> Idle]
  BY DEF Init
<1>2. FilesOK(db) /\ Ready
  BY <1>1, ReadyInitially, ScenariosAssumption DEF ScenariosAssumption
<1>3. \A q \in Requests : request[q].op = "none"
  BY <1>1 DEF Idle
<1>4. \A q \in Requests : request[q].op \notin FileOps
  BY <1>3 DEF FileOps
<1>5. ASSUME NEW q \in Requests
      PROVE  Held(request[q]) = {} /\ Entering(request[q]) = {} /\ FileArgs(request[q], db)
  BY <1>4, EmptyHanded
<1>6. QED BY <1>2, <1>5 DEF Storage, Apart

LEMMA StoragePreserved == Storage /\ [Next]_vars => Storage'
<1> SUFFICES ASSUME Storage, [Next]_vars PROVE Storage'
  OBVIOUS
<1>1. Ready'
  BY ReadyKept DEF Storage
<1>2. CASE NextDay \/ ExpireLease
  BY <1>1, <1>2, DayStorage
<1>3. ASSUME NEW p \in Requests, RequestStep(p)
      PROVE  Storage'
  BY <1>1, <1>3, StorageStepKept
<1>4. CASE UNCHANGED vars
  <2>1. db' = db /\ request' = request
    BY <1>4 DEF vars
  <2>2. FilesOK(db') /\ Apart(request', db') /\ \A q \in Requests : FileArgs(request'[q], db')
    BY <2>1 DEF Storage
  <2>3. QED BY <1>1, <2>2 DEF Storage
<1>5. QED BY <1>2, <1>3, <1>4 DEF Next

-----------------------------------------------------------------------------
(* The theorems *)

\* Whatever requests and jobs do between each other's steps, every row of every
\* table stays one that its module describes.
THEOREM RowsWellFormed == Spec => []TypeOK
<1>1. Ready => TypeOK
  BY DEF Ready, Typed, TypeOK
<1>2. QED BY <1>1, ReadyInitially, ReadyKept, PTL DEF Spec

\* No retry, overlap or death makes a message SENT that no server accepted, no
\* demo simulated and no import found on a server (email-message.processor.ts).
THEOREM SentMeansAccepted == Spec => []SentWasAccepted
<1>1. Ready => SentWasAccepted
  BY DEF Ready, Typed, SentOK, SentWasAccepted
<1>2. QED BY <1>1, ReadyInitially, ReadyKept, PTL DEF Spec

\* No import that fails, dies, is overtaken, resumes on a new validity or meets
\* mail that has just arrived moves a cursor past mail that can be imported
\* unless a message with its uid or its id is stored
\* (mailboxes.service.ts:271-443).
THEOREM CursorsCoverMessages == Spec => []CursorCoversMessages
<1>1. Ready => CursorCoversMessages
  <2> SUFFICES ASSUME Ready, NEW box \in DOMAIN db.server,
                      Known(db.mailboxes[box[1]].cursor[box[2]], db.server[box]),
                      NEW uid \in DOMAIN db.server[box].mail
                                    \cap (db.mailboxes[box[1]].cursor[box[2]].from
                                          .. db.mailboxes[box[1]].cursor[box[2]].last),
                      db.server[box].mail[uid].fit
               PROVE  Stored(box[1], box[2], uid, db.server[box].mail[uid].id)
    BY DEF CursorCoversMessages
  <2> DEFINE cursor == db.mailboxes[box[1]].cursor[box[2]]
  <2>1. box = <<box[1], box[2]>> /\ (cursor # None => Seen(db, box[1], box[2], cursor))
    BY CursorTyped DEF Ready
  <2>2. cursor # None /\ cursor.validity = db.server[box].validity
    BY DEF Known
  <2>3. uid \in DOMAIN db.server[box].mail \cap (cursor.from .. cursor.last)
    OBVIOUS
  <2> HIDE DEF cursor
  <2>4. Covered(db, box[1], box[2], uid, db.server[box].mail[uid].id)
    BY <2>1, <2>2, <2>3 DEF Seen
  <2>5. QED BY <2>4 DEF Covered, Stored
<1>2. QED BY <1>1, ReadyInitially, ReadyKept, PTL DEF Spec

\* However colleagues overlap, a conversation that is done is in nobody's list,
\* one nobody has begun is nobody's, and a day it was resolved is there exactly
\* for those that are done (shared-inbox.service.ts:156-262).
THEOREM InboxStaysConsistent == Spec => []InboxIsConsistent
<1>1. Ready => InboxIsConsistent
  <2> SUFFICES ASSUME Ready PROVE InboxIsConsistent
    OBVIOUS
  <2>1. \A t \in DOMAIN db.threads : Terminal(db.threads[t].status) <=> db.threads[t].resolved
    BY DEF Ready, Typed, ThreadsOK
  <2>2. ASSUME NEW s \in Callers(<<"Mail", "conversations">>)
        PROVE  /\ View(s, "UNASSIGNED") \cup View(s, "MINE") \subseteq View(s, "ALL")
               /\ View(s, "UNASSIGNED") =
                     {t \in View(s, "ALL") : db.threads[t].status = "UNASSIGNED"}
               /\ View(s, "MINE") \cap View(s, "UNASSIGNED") = {}
    <3> DEFINE all == OfOrg(db.threads, CallerOrg(s))
    <3>1. CallerAccount(s) # None
      <4>1. s \in DOMAIN db.sessions
        BY DEF Callers
      <4>2. CallerAccount(s) \in Accounts
        BY <4>1, CallerTyped DEF Ready
      <4>3. QED BY <4>2, AttachmentsAssumption DEF AttachmentsAssumption
    <3>2. \A t \in all :
             /\ db.threads[t].status \in {"UNASSIGNED", "OPEN", "WAITING", "RESOLVED", "CLOSED"}
             /\ db.threads[t].status = "UNASSIGNED" => db.threads[t].assignee = None
      BY ThreadRowAt DEF Ready, OfOrg, ThreadRow
    <3>3. View(s, "UNASSIGNED") =
             {t \in all : db.threads[t].status = "UNASSIGNED" /\ db.threads[t].assignee = None}
      BY DEF View
    <3>4. View(s, "MINE") =
             {t \in all : /\ db.threads[t].assignee = CallerAccount(s)
                          /\ db.threads[t].status \notin {"RESOLVED", "CLOSED"}}
      BY DEF View
    <3>5. View(s, "ALL") =
             {t \in all : db.threads[t].status \in {"UNASSIGNED", "OPEN", "WAITING"}}
      BY DEF View
    <3> HIDE DEF all
    <3>6. QED BY <3>1, <3>2, <3>3, <3>4, <3>5
  <2>3. QED BY <2>1, <2>2 DEF InboxIsConsistent
<1>2. QED BY <1>1, ReadyInitially, ReadyKept, PTL DEF Spec

\* However invitations, their acceptance and their cancellation overlap, who
\* has not joined has exactly one invitation that waits, and whoever has joined
\* none; every invitation that waits has its account (users.service.ts:169-375).
THEOREM InvitationsMatch == Spec => []InvitationsMatchAccounts
<1>1. Credentials => InvitationsMatchAccounts
  <2> SUFFICES ASSUME Credentials PROVE InvitationsMatchAccounts
    OBVIOUS
  <2>1. InvitationsOK(db)
    BY DEF Credentials
  <2>2. ASSUME NEW a \in DOMAIN db.accounts
        PROVE  db.accounts[a].password = None <=>
                  Cardinality(Pending(OrgOf(a), db.accounts[a].email)) = 1
    <3> DEFINE pending == Pending(OrgOf(a), db.accounts[a].email)
    <3>1. pending = {i \in DOMAIN db.invitations : Waiting(db, i, a)}
      BY DEF Pending, OrgOf, Waiting
    <3>2. ASSUME NEW i \in pending
          PROVE  pending = {i} /\ db.accounts[a].password = None
      <4>1. \A j \in pending : j = i
        BY <2>1, <3>1 DEF InvitationsOK
      <4>2. PICK b \in DOMAIN db.accounts : db.accounts[b].password = None /\ Waiting(db, i, b)
        BY <2>1, <3>1 DEF InvitationsOK, Waiting
      <4>3. db.accounts[b].email = db.accounts[a].email
        BY <3>1, <4>2 DEF Waiting
      <4>4. b = a
        BY <2>1, <4>3 DEF InvitationsOK
      <4>5. QED BY <4>1, <4>2, <4>4
    <3>3. db.accounts[a].password = None => pending # {}
      BY <2>1, <3>1 DEF InvitationsOK
    <3> HIDE DEF pending
    <3>4. db.accounts[a].password = None <=> Cardinality(pending) = 1
      <4>1. CASE pending = {}
        BY <3>3, <4>1, FS_EmptySet
      <4>2. ASSUME NEW i \in pending
            PROVE  db.accounts[a].password = None <=> Cardinality(pending) = 1
        BY <3>2, FS_Singleton
      <4>3. QED BY <4>1, <4>2
    <3>5. QED BY <3>4 DEF pending
  <2>3. \A i \in DOMAIN db.invitations : db.invitations[i].accepted \/
           \E a \in DOMAIN db.accounts :
              /\ db.accounts[a].password = None
              /\ db.accounts[a].email = db.invitations[i].email /\ OrgOf(a) = db.invitations[i].org
    BY <2>1 DEF InvitationsOK, Waiting, OrgOf
  <2>4. QED BY <2>2, <2>3 DEF InvitationsMatchAccounts
<1>2. QED BY <1>1, CredentialsInitially, CredentialsPreserved, PTL DEF Spec

\* A reset, a suspension or a disabling closes every session that was open
\* before it; excused is a session whose login overlapped one of them
\* (auth.service.ts:42-96, users.service.ts:150-154).
THEOREM SessionsStayCurrent == Spec => []OpenSessionsAreCurrent
<1>1. Credentials => OpenSessionsAreCurrent
  BY DEF Credentials, SessionsOK, OpenSessionsAreCurrent
<1>2. QED BY <1>1, CredentialsInitially, CredentialsPreserved, PTL DEF Spec

\* However visitors overlap and however often the lock runs out on them, there
\* is no more than one workspace too many for each time it did, and the records
\* that requests create never take a workspace over its quotas; records that
\* other work derives are not counted (demo.service.ts:67-90,
\* demo-quota.service.ts:75-94).
THEOREM DemosStayWithinLimits == Spec => []DemoStaysWithinLimits
<1>1. Limits => DemoStaysWithinLimits
  <2> SUFFICES ASSUME Limits PROVE DemoStaysWithinLimits
    OBVIOUS
  <2>1. RowsOK(db)
    BY DEF Limits, Ready, Typed
  <2>2. ActiveDemos = Unexpired(db)
    BY DEF ActiveDemos, Demos, Unexpired
  <2>3. Cardinality(Unexpired(db)) <= MaxWorkspaces + db.lapses
    <3>1. /\ Cardinality(Admitted(request)) \in Nat /\ Cardinality(Unexpired(db)) \in Nat
          /\ db.lapses \in Nat /\ MaxWorkspaces \in Nat
      BY <2>1, WorkspacesCounted
    <3>2. QED BY <3>1 DEF Limits, Workspaces
  <2>4. ASSUME NEW k \in DOMAIN db.records
        PROVE  SeededRows[k[2]] + db.records[k].created <= Quota[k[2]]
    <3>1. k \in Orgs \X Resources
      <4>1. DOMAIN db.records \subseteq (DOMAIN db.orgs) \X Resources /\ DOMAIN db.orgs \subseteq Orgs
        BY <2>1 DEF RowsOK, DemoRowsOK, RowsOf
      <4>2. QED BY <2>4, <4>1
    <3>2. Created(db, k) = db.records[k].created
      BY <2>4 DEF Created
    <3>3. /\ Cardinality(Making(request, k)) \in Nat /\ Created(db, k) \in Nat
          /\ SeededRows[k[2]] \in Nat /\ Quota[k[2]] \in Nat
      BY <2>1, <3>1, QuotasCounted
    <3>4. Used(request, db, k) <= Quota[k[2]]
      BY <3>1 DEF Limits, Quotas, WithinQuota
    <3>5. QED BY <3>2, <3>3, <3>4 DEF Used
  <2>5. QED BY <2>2, <2>3, <2>4 DEF DemoStaysWithinLimits
<1>2. QED BY <1>1, LimitsInitially, LimitsPreserved, PTL DEF Spec

\* Whoever may download a file gets it: no upload, import of mail, deletion or
\* cleanup of a workspace that fails, dies or is overtaken leaves a row without
\* its file where one who is still let in can see it, but for a row whose commit
\* was not answered
\* (attachments.service.ts:88-200, mailboxes.service.ts:731-852,
\* demo-cleanup.service.ts:57-86).
THEOREM DownloadsStayStored == Spec => []DownloadsAreStored
<1>1. Storage => DownloadsAreStored
  <2> SUFFICES ASSUME Storage PROVE DownloadsAreStored
    OBVIOUS
  <2>1. ASSUME NEW s \in Callers(<<"Attachments", "download">>), NEW f \in DOMAIN Downloads(s)
        PROVE  Downloads(s)[f] \/ f \notin Sure(db.attachments)
    <3>1. ~Expired(CallerOrg(s))
      BY DEF Callers, Authenticated, CallerOrg, CallerAccount
    <3>2. f \in DOMAIN db.attachments /\ db.attachments[f].org = CallerOrg(s)
      BY DEF Downloads, FilesOf
    <3>3. f \in db.stored \/ f \notin Sure(db.attachments)
      BY <3>1, <3>2 DEF Storage, FilesOK, RunOut, Expired
    <3>4. QED BY <3>3 DEF Downloads
  <2>2. ASSUME NEW s \in Callers(<<"Mail", "download">>)
        PROVE  MailDownloads(s) \cap Sure(db.mailFiles) \subseteq db.stored
    BY DEF Storage, FilesOK
  <2>3. QED BY <2>1, <2>2 DEF DownloadsAreStored
<1>2. QED BY <1>1, StorageInitially, StoragePreserved, PTL DEF Spec
=============================================================================
