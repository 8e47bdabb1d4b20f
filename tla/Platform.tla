------------------------------- MODULE Platform -------------------------------
(***************************************************************************)
(* Accounts, files, demo workspaces, e-mail and the shared inbox together: *)
(* any request or job may run any operation of the modules this one        *)
(* extends, between the steps of the others, and the lock of the demo may  *)
(* run out at any time.                                                    *)
(***************************************************************************)
EXTENDS SharedInbox

RequestStep(p) ==
    \/ AccountsStep(p) \/ AttachmentsStep(p) \/ DemoStep(p) \/ CrmMailStep(p)
    \/ MailboxesStep(p) \/ InboxStep(p) \/ Announce(p) \/ Die(p)

Next == NextDay \/ ExpireLease \/ \E p \in Requests : RequestStep(p)

\* As in CrmRecords: nothing is promised but what a state shows, so no
\* fairness is asked for.
Spec == Init /\ [][Next]_vars

\* Every row of every table is one that its module describes.
RowsOK(tables) ==
    /\ AccountRowsOK(tables) /\ AttachmentRowsOK(tables) /\ DemoRowsOK(tables)
    /\ MailRowsOK(tables) /\ MailboxRowsOK(tables)

TypeOK == RowsOK(db)

-----------------------------------------------------------------------------
(* What the tables are like that a run starts from *)

TableNames ==
    {"runtime", "today", "gone", "rates", "orgs", "accounts", "roles", "sessions", "resets",
     "invitations", "entities", "attachments", "stored", "reserved", "lock", "lapses", "records",
     "templates", "mailboxes", "server", "messages", "threads", "mailJobs", "syncs", "mailFiles"}

\* Foreign keys.
AccountReferencesOK(tables) ==
    /\ \A a \in DOMAIN tables.accounts : tables.accounts[a].org \in DOMAIN tables.orgs
    /\ \A s \in DOMAIN tables.sessions : tables.sessions[s].account \in DOMAIN tables.accounts
    /\ \A r \in DOMAIN tables.resets : tables.resets[r].account \in DOMAIN tables.accounts

\* Mailboxes, which a demo has none of, are served, so a demo has no
\* conversations; a conversation, and a mailbox, is of the organization of its
\* messages.
MailReferencesOK(tables) ==
    /\ \A m \in DOMAIN tables.mailboxes :
          LET org == tables.mailboxes[m].org
          IN  /\ org \in DOMAIN tables.orgs /\ ~tables.orgs[org].demo
              /\ <<m, "INBOX">> \in DOMAIN tables.server
    /\ \A box \in DOMAIN tables.server : box[1] \in DOMAIN tables.mailboxes
    /\ \A job \in DOMAIN tables.syncs : job[1] \in DOMAIN tables.mailboxes
    /\ \A t \in DOMAIN tables.threads :
          LET org == tables.threads[t].org IN org \in DOMAIN tables.orgs /\ ~tables.orgs[org].demo
    /\ \A x \in DOMAIN tables.messages :
          LET row == tables.messages[x]
          IN  /\ row.org \in DOMAIN tables.orgs
              /\ row.thread # None => /\ row.thread \in DOMAIN tables.threads
                                      /\ tables.threads[row.thread].org = row.org
              /\ row.mailbox # None => /\ row.mailbox \in DOMAIN tables.mailboxes
                                       /\ tables.mailboxes[row.mailbox].org = row.org

SentOK(tables) ==
    \A x \in DOMAIN tables.messages :
        LET row == tables.messages[x]
        IN  row.status = "SENT" => row.accepted > 0 \/ row.simulated \/ row.uid # None

ThreadsOK(tables) ==
    \A t \in DOMAIN tables.threads :
        LET row == tables.threads[t]
        IN  /\ Terminal(row.status) <=> row.resolved
            /\ row.status = "UNASSIGNED" => row.assignee = None

\* A mail of a folder whose message is there; a cursor no further than its
\* folder, with all mail up to it; and every cursor is one like that.
Covered(tables, m, f, uid, id) ==
    \E x \in DOMAIN tables.messages :
        LET row == tables.messages[x]
        IN  /\ row.mailbox = m
            /\ (row.folder = f /\ row.uid = uid) \/ (id # None /\ row.id = id)

Seen(tables, m, f, cursor) ==
    LET folder == tables.server[<<m, f>>]
    IN  /\ cursor.validity <= folder.validity
        /\ cursor.validity = folder.validity =>
              /\ cursor.last < folder.next
              /\ \A uid \in DOMAIN folder.mail \cap (cursor.from .. cursor.last) :
                    folder.mail[uid].fit => Covered(tables, m, f, uid, folder.mail[uid].id)

CursorsOK(tables) ==
    \A box \in DOMAIN tables.server :
        LET cursor == tables.mailboxes[box[1]].cursor[box[2]]
        IN  cursor # None => Seen(tables, box[1], box[2], cursor)

\* An invitation that waits for an account.  Whoever has not joined has one, and
\* there is no other; no two accounts have the same address.
Waiting(tables, i, a) ==
    /\ ~tables.invitations[i].accepted
    /\ tables.invitations[i].email = tables.accounts[a].email
    /\ tables.invitations[i].org = tables.accounts[a].org

InvitationsOK(tables) ==
    /\ \A a, b \in DOMAIN tables.accounts :
          tables.accounts[a].email = tables.accounts[b].email => a = b
    /\ \A a \in DOMAIN tables.accounts :
          /\ tables.accounts[a].password = None =>
                \E i \in DOMAIN tables.invitations : Waiting(tables, i, a)
          /\ tables.accounts[a].status # "INVITED" => tables.accounts[a].password # None
          /\ \A i, j \in DOMAIN tables.invitations :
                Waiting(tables, i, a) /\ Waiting(tables, j, a) => i = j
    /\ \A i \in DOMAIN tables.invitations :
          \/ tables.invitations[i].accepted
          \/ \E a \in DOMAIN tables.accounts :
                tables.accounts[a].password = None /\ Waiting(tables, i, a)

SessionsOK(tables) ==
    \A s \in DOMAIN tables.sessions :
        LET session == tables.sessions[s]
            account == tables.accounts[session.account]
        IN  \/ session.revoked \/ session.raced \/ session.password = None
            \/ /\ session.password = account.password
               /\ account.status \notin {"SUSPENDED", "DISABLED"}

\* The records that requests made of a kind, as the quota counts them: no more
\* than were reserved.
Created(tables, k) == IF k \in DOMAIN tables.records THEN tables.records[k].created ELSE 0

QuotasOK(tables) ==
    \A k \in Orgs \X Resources :
        LET used == SeededRows[k[2]] + Created(tables, k)
        IN  /\ used <= Quota[k[2]]
            /\ IF k \in DOMAIN tables.reserved THEN used <= tables.reserved[k]
               ELSE used = SeededRows[k[2]]

Unexpired(tables) ==
    {o \in DOMAIN tables.orgs : tables.orgs[o].demo /\ tables.orgs[o].expires > tables.today}

WorkspacesOK(tables) == Cardinality(Unexpired(tables)) <= MaxWorkspaces + tables.lapses

\* A demo that has expired.
RunOut(tables, org) ==
    /\ org \in DOMAIN tables.orgs
    /\ tables.orgs[org].demo /\ tables.orgs[org].expires <= tables.today

\* The files whose rows the API knows to be committed.
Sure(rows) == {f \in DOMAIN rows : rows[f].answered}

\* No file is attached and of a message at once; what is surely attached is in
\* the storage, but for the files of a demo that has expired, and what is surely
\* of a message is there; no message is of a demo.
FilesOK(tables) ==
    /\ DOMAIN tables.attachments \cap DOMAIN tables.mailFiles = {}
    /\ \A f \in Sure(tables.attachments) :
          f \in tables.stored \/ RunOut(tables, tables.attachments[f].org)
    /\ Sure(tables.mailFiles) \subseteq tables.stored
    /\ \A f \in DOMAIN tables.mailFiles :
          LET org == tables.mailFiles[f].org
          IN  org \in DOMAIN tables.orgs /\ ~tables.orgs[org].demo

ASSUME ScenariosAssumption ==
    \A scenario \in Scenarios :
        LET tables == scenario.db
        IN  /\ DOMAIN tables = TableNames /\ RowsOK(tables)
            /\ AccountReferencesOK(tables) /\ MailReferencesOK(tables)
            /\ SentOK(tables) /\ ThreadsOK(tables) /\ CursorsOK(tables)
            /\ InvitationsOK(tables) /\ SessionsOK(tables)
            /\ QuotasOK(tables) /\ WorkspacesOK(tables) /\ FilesOK(tables)

-----------------------------------------------------------------------------

\* Whatever may be downloaded is in the storage: uploads, deletions, imports of
\* mail and the cleanup of a workspace fail, die and overlap without leaving a
\* row whose file is gone (attachments.service.ts:88-200,
\* mailboxes.service.ts:731-852, demo-cleanup.service.ts:57-86).  Excused is a
\* row whose commit was not answered: the code deletes its file.
DownloadsAreStored ==
    /\ \A s \in Callers(<<"Attachments", "download">>) :
          \A f \in DOMAIN Downloads(s) : Downloads(s)[f] \/ f \notin Sure(db.attachments)
    /\ \A s \in Callers(<<"Mail", "download">>) :
          MailDownloads(s) \cap Sure(db.mailFiles) \subseteq db.stored
=============================================================================
