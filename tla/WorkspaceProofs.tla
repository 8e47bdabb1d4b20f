--------------------------- MODULE WorkspaceProofs ---------------------------
(***************************************************************************)
(* Lemmas about Platform, for any number of requests, accounts, workspaces *)
(* and messages: what the steps of the accounts, the attachments and the   *)
(* demo workspaces leave as it was, and that they keep the tables in order *)
(* (Typed).  MailProofs has those of the mail, PlatformProofs the theorems.*)
(***************************************************************************)
EXTENDS Platform, FiniteSetTheorems, TLAPS
LOCAL INSTANCE FiniteSetsExt

-----------------------------------------------------------------------------
(* Tables *)

\* A new row, rows that go and rows that change leave a table one of its kind.
LEMMA Inserting ==
    ASSUME NEW table, NEW ids, NEW rows, RowsOf(table, ids, rows),
           NEW id \in ids, NEW row \in rows
    PROVE  RowsOf(Insert(table, id, row), ids, rows)
BY DEF RowsOf, Insert

LEMMA Removing ==
    ASSUME NEW table, NEW ids, NEW rows, RowsOf(table, ids, rows), NEW gone
    PROVE  RowsOf(Without(table, gone), ids, rows)
BY DEF RowsOf, Without

LEMMA Patching ==
    ASSUME NEW table, NEW ids, NEW rows, RowsOf(table, ids, rows), NEW id, NEW change,
           id \in DOMAIN table => Over(change, table[id]) \in rows
    PROVE  RowsOf(Patch(table, id, change), ids, rows)
BY DEF RowsOf, Patch

LEMMA Choosing ==
    ASSUME NEW ids, NEW table, HasRoom(Unused(ids), table)
    PROVE  /\ Fresh(Unused(ids), table) \in ids
           /\ Fresh(Unused(ids), table) \notin db.gone
           /\ Fresh(Unused(ids), table) \notin DOMAIN table
BY DEF HasRoom, Fresh, Unused

\* The body of an update has some of the fields it may have.
LEMMA ChangesTyped ==
    ASSUME NEW spec, NEW change \in Changes(spec)
    PROVE  /\ DOMAIN change \subseteq DOMAIN spec
           /\ \A f \in DOMAIN change : change[f] \in spec[f]
BY DEF Changes

-----------------------------------------------------------------------------
(* Requests *)

\* What a step of `p` leaves as it was: the tables but some, the other requests.
\* What is gone is gone.
Kept(names) ==
    /\ DOMAIN db' = TableNames /\ db.gone \subseteq db'.gone
    /\ \A n \in TableNames \ names : db'[n] = db[n]
Moved(p) ==
    /\ DOMAIN request' = Requests
    /\ \A q \in Requests \ {p} : request'[q] = request[q]

Typed ==
    /\ DOMAIN db = TableNames /\ DOMAIN request = Requests
    /\ RowsOK(db) /\ AccountReferencesOK(db) /\ MailReferencesOK(db)
    /\ SentOK(db) /\ ThreadsOK(db) /\ CursorsOK(db)

AccountTables == {"rates", "gone", "accounts", "roles", "sessions", "resets", "invitations"}
AccountOps ==
    {"none", "announce", "auth.login", "auth.logout", "auth.revoke", "auth.logoutAll",
     "auth.cleanup", "auth.forgot", "auth.reset", "user.update", "user.invite", "user.resend",
     "user.cancel", "user.accept", "role.create", "role.update"}

AccountArgs(r) ==
    /\ r.op = "auth.login" => r.arg.password \in OrNone(Nat)
    /\ r.op = "user.update" =>
          /\ "status" \in DOMAIN r.arg.change => r.arg.change.status \in Statuses
          /\ "role" \in DOMAIN r.arg.change => r.arg.change.role \in Roles
    /\ r.op = "user.invite" => r.arg \in [org : Orgs, email : Emails, role : Roles]
    /\ r.op = "user.accept" => r.arg.role \in Roles
    /\ r.op = "role.create" => r.arg \in RoleRow
    /\ r.op = "role.update" =>
          /\ DOMAIN r.arg.change \subseteq {"name", "permissions"}
          /\ "name" \in DOMAIN r.arg.change => r.arg.change.name \in RoleNames
          /\ "permissions" \in DOMAIN r.arg.change =>
                r.arg.change.permissions \in SUBSET AllPermissions

AccountsKept(p) ==
    /\ Kept(AccountTables) /\ Moved(p)
    /\ AccountRowsOK(db') /\ AccountReferencesOK(db')
    /\ request'[p].op \in AccountOps /\ AccountArgs(request'[p])

USE DEF Called, Begin, BeginWriting, Continue, Commit, Reject, CommitIf, Proceed, At, Arg, Idle

\* An operation that is called writes at most what its guard counts.
LEMMA Calling ==
    ASSUME Typed, NEW p \in Requests, NEW op, NEW arg,
           \/ Begin(p, op, arg)
           \/ \E scope : BeginWriting(p, Counted(db, scope), op, arg)
    PROVE  /\ Kept({"rates"}) /\ Moved(p)
           /\ request'[p] = [op |-> op, arg |-> arg]
BY DEF Typed, Kept, Moved, TableNames, Counted

LEMMA TurningAway ==
    ASSUME Typed, NEW p \in Requests, NEW scope, TurnedAway(p, scope)
    PROVE  Kept({"rates"}) /\ Moved(p) /\ request'[p] = Idle
<1>1. BeginWriting(p, Counted(db, scope), "none", None)
  BY DEF TurnedAway
<1>2. QED BY <1>1, Calling

LEMMA CountedCalling ==
    ASSUME Typed, NEW p \in Requests, NEW scope, NEW op, NEW arg, CallCounted(p, scope, op, arg)
    PROVE  /\ Kept({"rates"}) /\ Moved(p)
           /\ request'[p] = [op |-> op, arg |-> arg]
<1>1. BeginWriting(p, Counted(db, scope), op, arg)
  BY DEF CallCounted
<1>2. QED BY <1>1, Calling

-----------------------------------------------------------------------------
(* Accounts *)

LEMMA AccountsCalled ==
    ASSUME Typed, NEW p \in Requests, Kept({"rates"}), Moved(p), request'[p].op \in AccountOps,
           AccountArgs(request'[p])
    PROVE  AccountsKept(p)
BY DEF Typed, Kept, TableNames, AccountTables, AccountsKept, RowsOK, AccountRowsOK,
   AccountReferencesOK

LEMMA AccountsWritten ==
    ASSUME Typed, NEW p \in Requests, Kept(AccountTables), Moved(p),
           request'[p].op \in {"none", "announce"},
           AccountRowsOK(db'), AccountReferencesOK(db')
    PROVE  AccountsKept(p)
BY DEF AccountsKept, AccountOps, AccountArgs

\* A transaction that changes nothing but sessions.
LEMMA SessionsWritten ==
    ASSUME Typed, NEW p \in Requests, NEW sessions, Commit(p, [db EXCEPT !.sessions = sessions], <<>>),
           RowsOf(sessions, Sessions, SessionRow),
           \A s \in DOMAIN sessions : sessions[s].account \in DOMAIN db.accounts
    PROVE  AccountsKept(p)
<1>1. Moved(p) /\ request'[p] = Idle
  BY DEF Typed, Moved
<1>2. /\ Kept({"sessions"}) /\ db'.sessions = sessions
  BY DEF Typed, Kept, TableNames
<1>3. AccountRowsOK(db')
  BY <1>2 DEF Typed, Kept, TableNames, RowsOK, AccountRowsOK
<1>4. AccountReferencesOK(db')
  BY <1>2 DEF Typed, Kept, TableNames, AccountReferencesOK
<1>5. Kept(AccountTables)
  BY <1>2 DEF Kept, AccountTables
<1>6. QED BY <1>1, <1>3, <1>4, <1>5, AccountsWritten

LEMMA Revoking ==
    ASSUME Typed, NEW which
    PROVE  /\ RowsOf(Revoked(which), Sessions, SessionRow)
           /\ \A s \in DOMAIN Revoked(which) : Revoked(which)[s].account \in DOMAIN db.accounts
<1>1. RowsOf(db.sessions, Sessions, SessionRow)
  BY DEF Typed, RowsOK, AccountRowsOK
<1>2. ASSUME NEW row \in SessionRow
      PROVE  /\ Over([revoked |-> TRUE], row) \in SessionRow
             /\ Over([revoked |-> TRUE], row).account = row.account
  BY DEF SessionRow, Over
<1>3. ASSUME NEW s \in DOMAIN Revoked(which)
      PROVE  /\ s \in Sessions /\ Revoked(which)[s] \in SessionRow
             /\ Revoked(which)[s].account = db.sessions[s].account
             /\ s \in DOMAIN db.sessions
  BY <1>1, <1>2 DEF Revoked, SetSessions, RowsOf
<1>4. RowsOf(Revoked(which), Sessions, SessionRow)
  BY <1>3 DEF RowsOf
<1>5. QED BY <1>3, <1>4 DEF Typed, AccountReferencesOK

LEMMA LoginKept ==
    ASSUME Typed, NEW p \in Requests, AccountArgs(request[p]), Login(p)
    PROVE  AccountsKept(p)
<1>1. CASE TurnedAway(p, ByAddress("login"))
  BY <1>1, TurningAway, AccountsCalled DEF AccountOps, AccountArgs
<1>2. ASSUME NEW a \in DOMAIN db.accounts,
             CallCounted(p, ByAddress("login"), "auth.login",
                   [account |-> a, password |-> db.accounts[a].password])
      PROVE  AccountsKept(p)
  <2>1. db.accounts[a].password \in OrNone(Nat)
    BY DEF Typed, RowsOK, AccountRowsOK, RowsOf, AccountRow
  <2>2. /\ Kept({"rates"}) /\ Moved(p)
        /\ request'[p] = [op |-> "auth.login",
                          arg |-> [account |-> a, password |-> db.accounts[a].password]]
    BY <1>2, CountedCalling
  <2>3. AccountArgs(request'[p])
    BY <2>1, <2>2 DEF AccountArgs
  <2>4. QED BY <2>2, <2>3, AccountsCalled DEF AccountOps
<1>3. ASSUME At(p, "auth.login"), HasRoom(Unused(Sessions), db.sessions),
             Arg(p).account \in DOMAIN db.accounts,
             NEW raced \in BOOLEAN, NEW sessions,
             sessions = Insert(db.sessions, Fresh(Unused(Sessions), db.sessions),
                           [account |-> Arg(p).account, expires |-> db.today + SessionDays,
                            revoked |-> FALSE, password |-> Arg(p).password, raced |-> raced]),
             Commit(p, [db EXCEPT !.sessions = sessions], <<>>)
      PROVE  AccountsKept(p)
  <2> DEFINE row == [account |-> Arg(p).account, expires |-> db.today + SessionDays,
                     revoked |-> FALSE, password |-> Arg(p).password, raced |-> raced]
             s == Fresh(Unused(Sessions), db.sessions)
  <2>1. s \in Sessions
    BY <1>3, Choosing
  <2>2. row \in SessionRow
    BY <1>3, AccountsAssumption
       DEF Typed, RowsOK, AccountRowsOK, DemoRowsOK, RowsOf, SessionRow, AccountArgs
  <2>3. RowsOf(db.sessions, Sessions, SessionRow)
    BY DEF Typed, RowsOK, AccountRowsOK
  <2>4. RowsOf(sessions, Sessions, SessionRow)
    BY <1>3, <2>1, <2>2, <2>3, Inserting
  <2>5. \A x \in DOMAIN sessions : sessions[x].account \in DOMAIN db.accounts
    BY <1>3 DEF Typed, AccountReferencesOK, Insert
  <2>6. QED BY <1>3, <2>4, <2>5, SessionsWritten
<1>4. CASE Reject(p)
  BY <1>4, AccountsCalled DEF Typed, Kept, Moved, AccountOps, AccountArgs
<1>5. QED
  <2>1. CASE At(p, "auth.login")
    <3> DEFINE raced == \/ db.accounts[Arg(p).account].status # "ACTIVE"
                        \/ db.accounts[Arg(p).account].password # Arg(p).password
               sessions == Insert(db.sessions, Fresh(Unused(Sessions), db.sessions),
                           [account |-> Arg(p).account, expires |-> db.today + SessionDays,
                            revoked |-> FALSE, password |-> Arg(p).password, raced |-> raced])
    <3>1. /\ HasRoom(Unused(Sessions), db.sessions)
          /\ CommitIf(p, Arg(p).account \in DOMAIN db.accounts,
                [db EXCEPT !.sessions = sessions], <<>>)
      BY <2>1 DEF Login
    <3>2. raced \in BOOLEAN
      OBVIOUS
    <3> HIDE DEF raced
    <3>3. CASE Arg(p).account \in DOMAIN db.accounts
      <4>1. Commit(p, [db EXCEPT !.sessions = sessions], <<>>)
        BY <3>1, <3>3
      <4>2. QED BY <2>1, <3>1, <3>2, <3>3, <4>1, <1>3
    <3>4. CASE Arg(p).account \notin DOMAIN db.accounts
      BY <3>1, <3>4, <1>4
    <3>5. QED BY <3>3, <3>4
  <2>2. CASE ~At(p, "auth.login")
    BY <2>2, <1>1, <1>2 DEF Login
  <2>3. QED BY <2>1, <2>2

LEMMA LogoutKept ==
    ASSUME Typed, NEW p \in Requests, AccountArgs(request[p]),
           Logout(p) \/ RevokeSession(p) \/ LogoutAll(p)
    PROVE  AccountsKept(p)
<1>1. ASSUME NEW op \in {"auth.logout", "auth.revoke", "auth.logoutAll"}, NEW arg,
             Begin(p, op, arg)
      PROVE  AccountsKept(p)
  <2>1. /\ Kept({"rates"}) /\ Moved(p)
        /\ request'[p] = [op |-> op, arg |-> arg]
    BY <1>1, Calling
  <2>2. QED BY <2>1, AccountsCalled DEF AccountOps, AccountArgs
<1>2. ASSUME NEW which, Commit(p, [db EXCEPT !.sessions = Revoked(which)], <<>>)
      PROVE  AccountsKept(p)
  BY <1>2, Revoking, SessionsWritten
<1>3. QED BY <1>1, <1>2 DEF Logout, RevokeSession, LogoutAll

LEMMA AccountsBegun ==
    ASSUME Typed, NEW p \in Requests, NEW op \in AccountOps, NEW arg,
           AccountArgs([op |-> op, arg |-> arg]),
           Begin(p, op, arg) \/ \E scope : CallCounted(p, scope, op, arg)
    PROVE  AccountsKept(p)
<1>1. /\ Kept({"rates"}) /\ Moved(p)
      /\ request'[p] = [op |-> op, arg |-> arg]
  BY Calling, CountedCalling
<1>2. QED BY <1>1, AccountsCalled

LEMMA AccountsTurnedAway ==
    ASSUME Typed, NEW p \in Requests, NEW scope, TurnedAway(p, scope)
    PROVE  AccountsKept(p)
BY TurningAway, AccountsCalled DEF AccountOps, AccountArgs

LEMMA AccountsRejected ==
    ASSUME Typed, NEW p \in Requests, Reject(p)
    PROVE  AccountsKept(p)
BY AccountsCalled DEF Typed, Kept, Moved, AccountOps, AccountArgs

LEMMA Committing ==
    ASSUME Typed, NEW p \in Requests, NEW tables, NEW events, Commit(p, tables, events)
    PROVE  /\ db' = tables /\ Moved(p)
           /\ request'[p].op \in {"none", "announce"}
BY DEF Typed, Moved

LEMMA DeletingTables ==
    ASSUME NEW tables, DOMAIN tables = TableNames
    PROVE  /\ DOMAIN Deleting(tables) = TableNames
           /\ \A n \in TableNames \ {"gone"} : Deleting(tables)[n] = tables[n]
           /\ tables.gone \subseteq Deleting(tables).gone
BY DEF Deleting, TableNames

LEMMA CleanupKept ==
    ASSUME Typed, NEW p \in Requests, AccountArgs(request[p]), CleanupCredentials(p)
    PROVE  AccountsKept(p)
<1>1. CASE Begin(p, "auth.cleanup", db.today)
  BY <1>1, AccountsBegun DEF AccountOps, AccountArgs
<1>2. ASSUME NEW sessions, NEW resets, NEW invitations, NEW tables,
             tables = [db EXCEPT !.sessions = Without(@, sessions), !.resets = Without(@, resets),
                                 !.invitations = Without(@, invitations)],
             Commit(p, Deleting(tables), <<>>)
      PROVE  AccountsKept(p)
  <2>1. /\ DOMAIN tables = TableNames /\ tables.gone = db.gone
        /\ \A n \in TableNames \ AccountTables : tables[n] = db[n]
        /\ tables.accounts = db.accounts /\ tables.roles = db.roles
        /\ tables.sessions = Without(db.sessions, sessions)
        /\ tables.resets = Without(db.resets, resets)
        /\ tables.invitations = Without(db.invitations, invitations)
    BY <1>2 DEF Typed, TableNames, AccountTables
  <2>2. /\ DOMAIN db' = TableNames
        /\ \A n \in TableNames \ {"gone"} : db'[n] = tables[n]
        /\ db.gone \subseteq db'.gone /\ Moved(p) /\ request'[p].op \in {"none", "announce"}
    <3> DEFINE deleted == Deleting(tables)
    <3>1. /\ DOMAIN deleted = TableNames /\ db.gone \subseteq deleted.gone
          /\ \A n \in TableNames \ {"gone"} : deleted[n] = tables[n]
      BY <2>1, DeletingTables
    <3>2. Commit(p, deleted, <<>>)
      BY <1>2
    <3> HIDE DEF deleted
    <3>3. db' = deleted /\ Moved(p) /\ request'[p].op \in {"none", "announce"}
      BY <3>2, Committing
    <3>4. QED BY <3>1, <3>3
  <2>3. Kept(AccountTables)
    BY <2>1, <2>2 DEF Kept, AccountTables
  <2>4. /\ db'.accounts = db.accounts /\ db'.roles = db.roles /\ db'.orgs = db.orgs
        /\ db'.sessions = Without(db.sessions, sessions)
        /\ db'.resets = Without(db.resets, resets)
        /\ db'.invitations = Without(db.invitations, invitations)
    BY <2>1, <2>2, <2>3 DEF TableNames, Kept, AccountTables
  <2>5. AccountRowsOK(db')
    BY <2>4, Removing DEF Typed, RowsOK, AccountRowsOK
  <2>6. AccountReferencesOK(db')
    BY <2>4 DEF Typed, AccountReferencesOK, Without
  <2>7. QED BY <2>2, <2>3, <2>5, <2>6, AccountsWritten
<1>3. QED BY <1>1, <1>2 DEF CleanupCredentials

LEMMA ForgotKept ==
    ASSUME Typed, NEW p \in Requests, AccountArgs(request[p]), ForgotPassword(p)
    PROVE  AccountsKept(p)
<1>1. CASE TurnedAway(p, ByAddress("forgot-password"))
  BY <1>1, AccountsTurnedAway
<1>2. ASSUME NEW a, CallCounted(p, ByAddress("forgot-password"), "auth.forgot", a)
      PROVE  AccountsKept(p)
  BY <1>2, AccountsBegun DEF AccountOps, AccountArgs
<1>3. CASE Reject(p)
  BY <1>3, AccountsRejected
<1>4. ASSUME HasRoom(Unused(Resets), db.resets), NEW a \in DOMAIN db.accounts,
             NEW r, r = Fresh(Unused(Resets), db.resets), NEW row,
             row = [account |-> a, expires |-> db.today + TokenDays, used |-> FALSE], NEW events,
             Commit(p, [db EXCEPT !.resets = Insert(@, r, row)], events)
      PROVE  AccountsKept(p)
  <2>1. r \in Resets
    BY <1>4, Choosing
  <2>2. row \in ResetRow
    BY <1>4, AccountsAssumption
       DEF Typed, RowsOK, AccountRowsOK, DemoRowsOK, RowsOf, ResetRow
  <2>3. /\ db'.resets = Insert(db.resets, r, row) /\ Kept({"resets"})
        /\ Moved(p) /\ request'[p].op \in {"none", "announce"}
    BY <1>4, Committing DEF Typed, Kept, TableNames
  <2>4. /\ db'.accounts = db.accounts /\ db'.roles = db.roles /\ db'.orgs = db.orgs
        /\ db'.sessions = db.sessions /\ db'.invitations = db.invitations
        /\ Kept(AccountTables)
    BY <2>3 DEF TableNames, Kept, AccountTables
  <2>5. AccountRowsOK(db')
    BY <2>1, <2>2, <2>3, <2>4, Inserting DEF Typed, RowsOK, AccountRowsOK
  <2>6. AccountReferencesOK(db')
    BY <1>4, <2>3, <2>4 DEF Typed, AccountReferencesOK, Insert
  <2>7. QED BY <2>3, <2>4, <2>5, <2>6, AccountsWritten
<1>5. QED BY <1>1, <1>2, <1>3, <1>4 DEF ForgotPassword

LEMMA ResetKept ==
    ASSUME Typed, NEW p \in Requests, AccountArgs(request[p]), ResetPassword(p)
    PROVE  AccountsKept(p)
<1>1. CASE TurnedAway(p, ByAddress("reset-password"))
  BY <1>1, AccountsTurnedAway
<1>2. ASSUME NEW arg, CallCounted(p, ByAddress("reset-password"), "auth.reset", arg)
      PROVE  AccountsKept(p)
  BY <1>2, AccountsBegun DEF AccountOps, AccountArgs
<1>3. CASE Reject(p)
  BY <1>3, AccountsRejected
<1>4. ASSUME NEW a, NEW r \in DOMAIN db.resets, NEW events,
             Commit(p, [PasswordReset(a) EXCEPT !.resets[r].used = TRUE], events)
      PROVE  AccountsKept(p)
  <2> DEFINE sessions == Revoked(SessionsOf(a))
  <2>1. RowsOf(sessions, Sessions, SessionRow) /\
        \A s \in DOMAIN sessions : sessions[s].account \in DOMAIN db.accounts
    BY Revoking
  <2> HIDE DEF sessions
  <2>2. /\ db'.accounts = [db.accounts EXCEPT ![a].password = NextPassword(a)]
        /\ db'.resets = [db.resets EXCEPT ![r].used = TRUE]
        /\ db'.sessions = sessions /\ Kept({"accounts", "sessions", "resets"})
        /\ Moved(p) /\ request'[p].op \in {"none", "announce"}
    <3> DEFINE tables == [PasswordReset(a) EXCEPT !.resets[r].used = TRUE]
    <3>1. /\ tables.accounts = [db.accounts EXCEPT ![a].password = NextPassword(a)]
          /\ tables.resets = [db.resets EXCEPT ![r].used = TRUE]
          /\ tables.sessions = sessions /\ DOMAIN tables = TableNames
          /\ \A n \in TableNames \ {"accounts", "sessions", "resets"} : tables[n] = db[n]
      BY DEF Typed, TableNames, PasswordReset, sessions
    <3> HIDE DEF tables
    <3>2. /\ db' = tables /\ Moved(p) /\ request'[p].op \in {"none", "announce"}
      BY <1>4, Committing DEF tables
    <3>3. QED BY <3>1, <3>2 DEF Kept, TableNames
  <2>3. db'.roles = db.roles /\ db'.orgs = db.orgs /\ db'.invitations = db.invitations
        /\ Kept(AccountTables)
    BY <2>2 DEF TableNames, Kept, AccountTables
  <2>4. a \in DOMAIN db.accounts => NextPassword(a) \in OrNone(Nat)
    BY DEF Typed, RowsOK, AccountRowsOK, RowsOf, AccountRow, NextPassword, OrNone
  <2>5. RowsOf(db'.accounts, Accounts, AccountRow)
    BY <2>2, <2>4 DEF Typed, RowsOK, AccountRowsOK, RowsOf, AccountRow
  <2>6. RowsOf(db'.resets, Resets, ResetRow)
    BY <2>2 DEF Typed, RowsOK, AccountRowsOK, RowsOf, ResetRow
  <2>7. AccountRowsOK(db')
    BY <2>1, <2>2, <2>3, <2>5, <2>6 DEF Typed, RowsOK, AccountRowsOK
  <2>8. /\ DOMAIN db'.accounts = DOMAIN db.accounts /\ DOMAIN db'.resets = DOMAIN db.resets
        /\ \A x \in DOMAIN db.accounts : db'.accounts[x].org = db.accounts[x].org
        /\ \A x \in DOMAIN db.resets : db'.resets[x].account = db.resets[x].account
    BY <2>2 DEF Typed, RowsOK, AccountRowsOK, RowsOf, AccountRow, ResetRow
  <2>9. AccountReferencesOK(db')
    BY <2>1, <2>2, <2>3, <2>8 DEF Typed, AccountReferencesOK
  <2>10. QED BY <2>2, <2>3, <2>7, <2>9, AccountsWritten
<1>5. QED BY <1>1, <1>2, <1>3, <1>4 DEF ResetPassword

LEMMA UpdateUserKept ==
    ASSUME Typed, NEW p \in Requests, AccountArgs(request[p]), UpdateUser(p)
    PROVE  AccountsKept(p)
<1>1. ASSUME NEW s \in Callers(<<"Users", "update">>), NEW a,
             NEW change \in Changes([status |-> Statuses, role |-> RolesOf(CallerOrg(s))]),
             Begin(p, "user.update", [account |-> a, change |-> change])
      PROVE  AccountsKept(p)
  <2>1. /\ "status" \in DOMAIN change => change.status \in Statuses
        /\ "role" \in DOMAIN change => change.role \in RolesOf(CallerOrg(s))
    BY ChangesTyped
  <2>2. RolesOf(CallerOrg(s)) \subseteq Roles
    BY DEF Typed, RowsOK, AccountRowsOK, RowsOf, RolesOf
  <2>3. AccountArgs([op |-> "user.update", arg |-> [account |-> a, change |-> change]])
    BY <2>1, <2>2 DEF AccountArgs
  <2>4. QED BY <1>1, <2>3, AccountsBegun DEF AccountOps
<1>2. CASE Reject(p)
  BY <1>2, AccountsRejected
<1>3. ASSUME At(p, "user.update"), NEW a \in DOMAIN db.accounts, NEW change,
             change = Arg(p).change, NEW events, Commit(p, UserUpdated(a, change), events)
      PROVE  AccountsKept(p)
  <2> DEFINE sessions == IF Given(change, "status", "ACTIVE") \in {"DISABLED", "SUSPENDED"}
                         THEN Revoked(SessionsOf(a)) ELSE db.sessions
             status == Given(change, "status", db.accounts[a].status)
             roles == IF "role" \in DOMAIN change THEN {change.role} ELSE db.accounts[a].roles
             accounts == [db.accounts EXCEPT ![a] = [@ EXCEPT !.status = status, !.roles = roles]]
  <2>1. /\ RowsOf(sessions, Sessions, SessionRow)
        /\ \A s \in DOMAIN sessions : sessions[s].account \in DOMAIN db.accounts
    BY Revoking DEF Typed, RowsOK, AccountRowsOK, AccountReferencesOK
  <2>2. db.accounts[a] \in AccountRow
    BY DEF Typed, RowsOK, AccountRowsOK, RowsOf
  <2>3. status \in Statuses /\ roles \in SUBSET Roles
    BY <1>3, <2>2 DEF AccountArgs, AccountRow, Given
  <2>4. UserUpdated(a, change) = [db EXCEPT !.accounts = accounts, !.sessions = sessions]
    <3> DEFINE mid == [db.accounts[a] EXCEPT !.status = status, !.roles = roles]
    <3>1. UserUpdated(a, change) = [db EXCEPT !.accounts[a] = mid, !.sessions = sessions]
      BY DEF UserUpdated
    <3> HIDE DEF mid
    <3>2. accounts = [db.accounts EXCEPT ![a] = mid]
      BY DEF mid
    <3>3. QED BY <3>1, <3>2
  <2> HIDE DEF sessions, status, roles
  <2>5. /\ db'.accounts = accounts /\ db'.sessions = sessions /\ Kept({"accounts", "sessions"})
        /\ Moved(p) /\ request'[p].op \in {"none", "announce"}
    BY <1>3, <2>4, Committing DEF Typed, Kept, TableNames
  <2>6. db'.roles = db.roles /\ db'.orgs = db.orgs /\ db'.invitations = db.invitations
        /\ db'.resets = db.resets /\ Kept(AccountTables)
    BY <2>5 DEF TableNames, Kept, AccountTables
  <2>7. RowsOf(db'.accounts, Accounts, AccountRow)
    BY <2>3, <2>5 DEF Typed, RowsOK, AccountRowsOK, RowsOf, AccountRow
  <2>8. AccountRowsOK(db')
    BY <2>1, <2>5, <2>6, <2>7 DEF Typed, RowsOK, AccountRowsOK
  <2>9. /\ DOMAIN db'.accounts = DOMAIN db.accounts
        /\ \A x \in DOMAIN db.accounts : db'.accounts[x].org = db.accounts[x].org
    BY <2>2, <2>5 DEF AccountRow
  <2>10. AccountReferencesOK(db')
    BY <2>1, <2>5, <2>6, <2>9 DEF Typed, AccountReferencesOK
  <2>11. QED BY <2>5, <2>6, <2>8, <2>10, AccountsWritten
<1>4. QED BY <1>1, <1>2, <1>3 DEF UpdateUser

LEMMA InviteKept ==
    ASSUME Typed, NEW p \in Requests, AccountArgs(request[p]), Invite(p)
    PROVE  AccountsKept(p)
<1>1. ASSUME NEW s \in Callers(<<"Users", "invite">>), NEW email \in Emails,
             NEW role \in RolesOf(CallerOrg(s)),
             Begin(p, "user.invite", [org |-> CallerOrg(s), email |-> email, role |-> role])
      PROVE  AccountsKept(p)
  <2>1. CallerOrg(s) \in Orgs /\ role \in Roles
    BY DEF Typed, RowsOK, AccountRowsOK, AccountReferencesOK, RowsOf, RolesOf, Callers, CallerOrg,
       OrgOf, CallerAccount, AccountRow
  <2> DEFINE arg == [org |-> CallerOrg(s), email |-> email, role |-> role]
  <2>2. AccountArgs([op |-> "user.invite", arg |-> arg])
    BY <2>1 DEF AccountArgs
  <2>3. QED BY <1>1, <2>2, AccountsBegun DEF AccountOps
<1>2. CASE Reject(p)
  BY <1>2, AccountsRejected
<1>3. ASSUME At(p, "user.invite"), HasRoom(Unused(Accounts), db.accounts),
             HasRoom(Unused(Invitations), db.invitations),
             NEW arg, arg = Arg(p), arg.org \in DOMAIN db.orgs,
             NEW i, i = Fresh(Unused(Invitations), db.invitations),
             NEW a, a = Fresh(Unused(Accounts), db.accounts), NEW account, NEW invitation,
             account = [org |-> arg.org, email |-> arg.email, status |-> "INVITED",
                        password |-> None, roles |-> {}],
             invitation = Over(arg, [expires |-> db.today + TokenDays, accepted |-> FALSE,
                                     token |-> 0]),
             NEW events,
             Commit(p, [db EXCEPT !.accounts = Insert(@, a, account),
                                  !.invitations = Insert(@, i, invitation)], events)
      PROVE  AccountsKept(p)
  <2>1. i \in Invitations /\ a \in Accounts
    BY <1>3, Choosing
  <2>2. arg \in [org : Orgs, email : Emails, role : Roles]
    BY <1>3 DEF AccountArgs
  <2>3. account \in AccountRow
    BY <1>3, <2>2 DEF AccountRow, Statuses, OrNone
  <2>4. invitation \in InvitationRow
    <3>1. db.today + TokenDays \in Nat
      BY AccountsAssumption DEF Typed, RowsOK, DemoRowsOK
    <3>2. invitation = [org |-> arg.org, email |-> arg.email, role |-> arg.role,
                        expires |-> db.today + TokenDays, accepted |-> FALSE, token |-> 0]
      BY <1>3, <2>2 DEF Over
    <3>3. QED BY <2>2, <3>1, <3>2 DEF InvitationRow
  <2>5. /\ db'.accounts = Insert(db.accounts, a, account)
        /\ db'.invitations = Insert(db.invitations, i, invitation)
        /\ Kept({"accounts", "invitations"})
        /\ Moved(p) /\ request'[p].op \in {"none", "announce"}
    BY <1>3, Committing DEF Typed, Kept, TableNames
  <2>6. /\ db'.roles = db.roles /\ db'.orgs = db.orgs
        /\ db'.sessions = db.sessions /\ db'.resets = db.resets
        /\ Kept(AccountTables)
    BY <2>5 DEF TableNames, Kept, AccountTables
  <2>7. AccountRowsOK(db')
    BY <2>1, <2>3, <2>4, <2>5, <2>6, Inserting DEF Typed, RowsOK, AccountRowsOK
  <2>8. AccountReferencesOK(db')
    BY <1>3, <2>5, <2>6 DEF Typed, AccountReferencesOK, Insert
  <2>9. QED BY <2>5, <2>6, <2>7, <2>8, AccountsWritten
<1>4. CASE At(p, "user.invite")
  <2> DEFINE i == Fresh(Unused(Invitations), db.invitations)
             a == Fresh(Unused(Accounts), db.accounts)
             account == [org |-> Arg(p).org, email |-> Arg(p).email, status |-> "INVITED",
                         password |-> None, roles |-> {}]
             invitation == Over(Arg(p), [expires |-> db.today + TokenDays, accepted |-> FALSE,
                                         token |-> 0])
             tables == [db EXCEPT !.accounts = Insert(@, a, account),
                                  !.invitations = Insert(@, i, invitation)]
  <2>1. /\ HasRoom(Unused(Accounts), db.accounts) /\ HasRoom(Unused(Invitations), db.invitations)
        /\ \/ Reject(p)
           \/ Arg(p).org \in DOMAIN db.orgs /\ Commit(p, tables, <<<<"email.invitation", i>>>>)
    BY <1>4 DEF Invite
  <2> HIDE DEF i, a, account, invitation
  <2>2. ASSUME Arg(p).org \in DOMAIN db.orgs, Commit(p, tables, <<<<"email.invitation", i>>>>)
        PROVE  AccountsKept(p)
    BY <1>3, <1>4, <2>1, <2>2 DEF i, a, account, invitation
  <2>3. QED BY <1>2, <2>1, <2>2
<1>5. QED BY <1>1, <1>4 DEF Invite

LEMMA ResendKept ==
    ASSUME Typed, NEW p \in Requests, AccountArgs(request[p]), ResendInvitation(p)
    PROVE  AccountsKept(p)
<1>1. ASSUME NEW arg, Begin(p, "user.resend", arg)
      PROVE  AccountsKept(p)
  BY <1>1, AccountsBegun DEF AccountOps, AccountArgs
<1>2. CASE Reject(p)
  BY <1>2, AccountsRejected
<1>3. ASSUME NEW i \in DOMAIN db.invitations, NEW events, NEW row,
             row = [db.invitations[i] EXCEPT !.expires = db.today + TokenDays,
                                            !.token = db.invitations[i].token + 1],
             Commit(p, [db EXCEPT !.invitations[i] = row], events)
      PROVE  AccountsKept(p)
  <2>1. row \in InvitationRow
    <3>1. db.today + TokenDays \in Nat
      BY AccountsAssumption DEF Typed, RowsOK, DemoRowsOK
    <3>2. db.invitations[i] \in InvitationRow
      BY DEF Typed, RowsOK, AccountRowsOK, RowsOf
    <3>3. db.invitations[i].token + 1 \in Nat
      BY <3>2 DEF InvitationRow
    <3>4. row = [db.invitations[i] EXCEPT !.expires = db.today + TokenDays,
                                          !.token = db.invitations[i].token + 1]
      BY <1>3
    <3>5. QED BY <3>1, <3>2, <3>3, <3>4 DEF InvitationRow
  <2>2. /\ db'.invitations = [db.invitations EXCEPT ![i] = row] /\ Kept({"invitations"})
        /\ Moved(p) /\ request'[p].op \in {"none", "announce"}
    BY <1>3, Committing DEF Typed, Kept, TableNames
  <2>3. /\ db'.accounts = db.accounts /\ db'.roles = db.roles /\ db'.orgs = db.orgs
        /\ db'.sessions = db.sessions /\ db'.resets = db.resets
        /\ Kept(AccountTables)
    BY <2>2 DEF TableNames, Kept, AccountTables
  <2>4. RowsOf(db'.invitations, Invitations, InvitationRow)
    BY <2>1, <2>2 DEF Typed, RowsOK, AccountRowsOK, RowsOf
  <2>5. AccountRowsOK(db')
    BY <2>3, <2>4 DEF Typed, RowsOK, AccountRowsOK
  <2>6. AccountReferencesOK(db')
    BY <2>3 DEF Typed, AccountReferencesOK
  <2>7. QED BY <2>2, <2>3, <2>5, <2>6, AccountsWritten
<1>4. CASE At(p, "user.resend")
  <2> DEFINE row == [db.invitations[Arg(p)] EXCEPT !.expires = db.today + TokenDays,
                                                   !.token = db.invitations[Arg(p)].token + 1]
  <2>1. \/ Reject(p)
        \/ /\ Arg(p) \in DOMAIN db.invitations
           /\ Commit(p, [db EXCEPT !.invitations[Arg(p)] = row], <<<<"email.invitation", Arg(p)>>>>)
    BY <1>4 DEF ResendInvitation
  <2>2. QED BY <1>2, <1>3, <2>1
<1>5. QED BY <1>1, <1>4 DEF ResendInvitation

LEMMA CancelKept ==
    ASSUME Typed, NEW p \in Requests, AccountArgs(request[p]), CancelInvitation(p)
    PROVE  AccountsKept(p)
<1>1. ASSUME NEW arg, Begin(p, "user.cancel", arg)
      PROVE  AccountsKept(p)
  BY <1>1, AccountsBegun DEF AccountOps, AccountArgs
<1>2. CASE Reject(p)
  BY <1>2, AccountsRejected
<1>3. ASSUME NEW a, NEW invitations, NEW sessions, sessions = SessionsOf(a), NEW resets,
             resets = {r \in DOMAIN db.resets : db.resets[r].account = a}, NEW tables,
             tables = [db EXCEPT !.invitations = Without(@, invitations),
                                 !.accounts = Without(@, {a}), !.sessions = Without(@, sessions),
                                 !.resets = Without(@, resets)],
             Commit(p, Deleting(tables), <<>>)
      PROVE  AccountsKept(p)
  <2>1. /\ DOMAIN tables = TableNames /\ tables.gone = db.gone
        /\ \A n \in TableNames \ AccountTables : tables[n] = db[n]
        /\ tables.accounts = Without(db.accounts, {a}) /\ tables.roles = db.roles
        /\ tables.sessions = Without(db.sessions, sessions)
        /\ tables.resets = Without(db.resets, resets)
        /\ tables.invitations = Without(db.invitations, invitations)
    BY <1>3 DEF Typed, TableNames, AccountTables
  <2>2. /\ DOMAIN db' = TableNames
        /\ \A n \in TableNames \ {"gone"} : db'[n] = tables[n]
        /\ db.gone \subseteq db'.gone /\ Moved(p) /\ request'[p].op \in {"none", "announce"}
    <3> DEFINE deleted == Deleting(tables)
    <3>1. /\ DOMAIN deleted = TableNames /\ db.gone \subseteq deleted.gone
          /\ \A n \in TableNames \ {"gone"} : deleted[n] = tables[n]
      BY <2>1, DeletingTables
    <3>2. Commit(p, deleted, <<>>)
      BY <1>3
    <3> HIDE DEF deleted
    <3>3. db' = deleted /\ Moved(p) /\ request'[p].op \in {"none", "announce"}
      BY <3>2, Committing
    <3>4. QED BY <3>1, <3>3
  <2>3. Kept(AccountTables)
    BY <2>1, <2>2 DEF Kept, AccountTables
  <2>4. /\ db'.accounts = Without(db.accounts, {a}) /\ db'.roles = db.roles /\ db'.orgs = db.orgs
        /\ db'.sessions = Without(db.sessions, sessions)
        /\ db'.resets = Without(db.resets, resets)
        /\ db'.invitations = Without(db.invitations, invitations)
    BY <2>1, <2>2, <2>3 DEF TableNames, Kept, AccountTables
  <2>5. AccountRowsOK(db')
    BY <2>4, Removing DEF Typed, RowsOK, AccountRowsOK
  <2>6. AccountReferencesOK(db')
    <3>1. \A x \in DOMAIN db'.accounts : db'.accounts[x].org \in DOMAIN db'.orgs
      BY <2>4 DEF Typed, AccountReferencesOK, Without
    <3>2. \A s \in DOMAIN db'.sessions : /\ db'.sessions[s].account # a
                                         /\ db'.sessions[s].account \in DOMAIN db.accounts
      <4>1. sessions = SessionsOf(a)
        BY <1>3
      <4>2. QED BY <4>1, <2>4 DEF Typed, AccountReferencesOK, Without, SessionsOf, CallerAccount
    <3>3. \A r \in DOMAIN db'.resets : /\ db'.resets[r].account # a
                                       /\ db'.resets[r].account \in DOMAIN db.accounts
      <4>1. resets = {r \in DOMAIN db.resets : db.resets[r].account = a}
        BY <1>3
      <4>2. QED BY <4>1, <2>4 DEF Typed, AccountReferencesOK, Without
    <3>4. DOMAIN db'.accounts = DOMAIN db.accounts \ {a}
      BY <2>4 DEF Without
    <3>5. QED BY <3>1, <3>2, <3>3, <3>4 DEF AccountReferencesOK
  <2>7. QED BY <2>2, <2>3, <2>5, <2>6, AccountsWritten
<1>4. CASE At(p, "user.cancel")
  <2> DEFINE a == Arg(p).account
             invitations == Pending(Arg(p).org, Arg(p).email)
             resets == {r \in DOMAIN db.resets : db.resets[r].account = a}
             tables == [db EXCEPT !.invitations = Without(@, invitations),
                                  !.accounts = Without(@, {a}),
                                  !.sessions = Without(@, SessionsOf(a)),
                                  !.resets = Without(@, resets)]
  <2>1. Reject(p) \/ Commit(p, Deleting(tables), <<>>)
    BY <1>4 DEF CancelInvitation
  <2> HIDE DEF a, invitations, tables
  <2>2. ASSUME Commit(p, Deleting(tables), <<>>)
        PROVE  AccountsKept(p)
    <3>1. tables = [db EXCEPT !.invitations = Without(@, invitations),
                              !.accounts = Without(@, {a}), !.sessions = Without(@, SessionsOf(a)),
                              !.resets = Without(@, resets)]
      BY DEF tables
    <3> HIDE DEF resets
    <3>2. QED BY <1>3, <2>2, <3>1 DEF resets
  <2>3. QED BY <1>2, <2>1, <2>2
<1>5. QED BY <1>1, <1>4 DEF CancelInvitation

LEMMA AcceptKept ==
    ASSUME Typed, NEW p \in Requests, AccountArgs(request[p]),
           AcceptInvitation(p) \/ ValidateInvitation(p)
    PROVE  AccountsKept(p)
<1>1. CASE TurnedAway(p, ByAddress("invitation"))
  BY <1>1, AccountsTurnedAway
<1>2. ASSUME NEW i \in DOMAIN db.invitations, NEW a,
             CallCounted(p, ByAddress("invitation"), "user.accept",
                   [invitation |-> i, token |-> db.invitations[i].token, account |-> a,
                    role |-> db.invitations[i].role])
      PROVE  AccountsKept(p)
  <2> DEFINE arg == [invitation |-> i, token |-> db.invitations[i].token, account |-> a,
                     role |-> db.invitations[i].role]
  <2>1. arg.role \in Roles
    BY DEF Typed, RowsOK, AccountRowsOK, RowsOf, InvitationRow
  <2>2. AccountArgs([op |-> "user.accept", arg |-> arg])
    BY <2>1 DEF AccountArgs
  <2>3. QED BY <1>2, <2>2, AccountsBegun DEF AccountOps
<1>3. CASE Reject(p)
  BY <1>3, AccountsRejected
<1>4. ASSUME At(p, "user.accept"), NEW i \in DOMAIN db.invitations, NEW a \in DOMAIN db.accounts,
             NEW row,
             row = [db.accounts[a] EXCEPT !.status = "ACTIVE", !.password = NextPassword(a),
                                          !.roles = db.accounts[a].roles \cup {Arg(p).role}],
             Commit(p, [db EXCEPT !.invitations[i].accepted = TRUE, !.accounts[a] = row], <<>>)
      PROVE  AccountsKept(p)
  <2>1. NextPassword(a) \in OrNone(Nat)
    BY DEF Typed, RowsOK, AccountRowsOK, RowsOf, AccountRow, NextPassword, OrNone
  <2>2. db.accounts[a] \in AccountRow /\ Arg(p).role \in Roles
    BY <1>4 DEF Typed, RowsOK, AccountRowsOK, RowsOf, AccountArgs
  <2>3. row \in AccountRow /\ row.org = db.accounts[a].org
    BY <1>4, <2>1, <2>2 DEF AccountRow, Statuses
  <2>4. /\ db'.invitations = [db.invitations EXCEPT ![i].accepted = TRUE]
        /\ db'.accounts = [db.accounts EXCEPT ![a] = row]
        /\ Kept({"accounts", "invitations"})
        /\ Moved(p) /\ request'[p].op \in {"none", "announce"}
    BY <1>4, Committing DEF Typed, Kept, TableNames
  <2>5. /\ db'.roles = db.roles /\ db'.orgs = db.orgs
        /\ db'.sessions = db.sessions /\ db'.resets = db.resets
        /\ Kept(AccountTables)
    BY <2>4 DEF TableNames, Kept, AccountTables
  <2>6. RowsOf(db'.invitations, Invitations, InvitationRow)
    BY <2>4, ZenonT(40) DEF Typed, RowsOK, AccountRowsOK, RowsOf, InvitationRow
  <2>7. RowsOf(db'.accounts, Accounts, AccountRow)
    BY <2>3, <2>4 DEF Typed, RowsOK, AccountRowsOK, RowsOf
  <2>8. AccountRowsOK(db')
    BY <2>5, <2>6, <2>7 DEF Typed, RowsOK, AccountRowsOK
  <2>9. /\ DOMAIN db'.accounts = DOMAIN db.accounts
        /\ \A x \in DOMAIN db.accounts : db'.accounts[x].org = db.accounts[x].org
    BY <2>3, <2>4
  <2>10. AccountReferencesOK(db')
    BY <2>5, <2>9 DEF Typed, AccountReferencesOK
  <2>11. QED BY <2>4, <2>5, <2>8, <2>10, AccountsWritten
<1>5. CASE At(p, "user.accept") /\ AcceptInvitation(p)
  <2> DEFINE i == Arg(p).invitation
             a == Arg(p).account
             row == [db.accounts[a] EXCEPT !.status = "ACTIVE", !.password = NextPassword(a),
                                           !.roles = db.accounts[a].roles \cup {Arg(p).role}]
  <2>1. \/ Reject(p)
        \/ /\ i \in DOMAIN db.invitations /\ a \in DOMAIN db.accounts
           /\ Commit(p, [db EXCEPT !.invitations[i].accepted = TRUE, !.accounts[a] = row], <<>>)
    BY <1>5 DEF AcceptInvitation
  <2>2. QED BY <1>3, <1>4, <1>5, <2>1, ZenonT(40)
<1>6. QED BY <1>1, <1>2, <1>5 DEF AcceptInvitation, ValidateInvitation

LEMMA RolesKept ==
    ASSUME Typed, NEW p \in Requests, AccountArgs(request[p]), CreateRole(p) \/ UpdateRole(p)
    PROVE  AccountsKept(p)
<1>1. ASSUME NEW s \in Callers(<<"Roles", "create">>), NEW name \in RoleNames, NEW grant \in Grants,
             Begin(p, "role.create",
                [org |-> CallerOrg(s), name |-> name, system |-> FALSE, permissions |-> grant])
      PROVE  AccountsKept(p)
  <2>1. CallerOrg(s) \in Orgs
    BY DEF Typed, RowsOK, AccountRowsOK, AccountReferencesOK, RowsOf, Callers, CallerOrg,
       OrgOf, CallerAccount, AccountRow
  <2> DEFINE arg == [org |-> CallerOrg(s), name |-> name, system |-> FALSE, permissions |-> grant]
  <2>2. arg \in RoleRow
    BY <2>1, AccountsAssumption DEF RoleRow
  <2>3. AccountArgs([op |-> "role.create", arg |-> arg])
    BY <2>2 DEF AccountArgs
  <2>4. QED BY <1>1, <2>3, AccountsBegun DEF AccountOps
<1>2. ASSUME NEW change \in Changes([name |-> RoleNames, permissions |-> Grants]), NEW r,
             Begin(p, "role.update", [role |-> r, change |-> change])
      PROVE  AccountsKept(p)
  <2>1. /\ DOMAIN change \subseteq {"name", "permissions"}
        /\ "name" \in DOMAIN change => change.name \in RoleNames
        /\ "permissions" \in DOMAIN change => change.permissions \in SUBSET AllPermissions
    BY ChangesTyped, AccountsAssumption
  <2>2. AccountArgs([op |-> "role.update", arg |-> [role |-> r, change |-> change]])
    BY <2>1 DEF AccountArgs
  <2>3. QED BY <1>2, <2>2, AccountsBegun DEF AccountOps
<1>3. CASE Reject(p)
  BY <1>3, AccountsRejected
<1>4. ASSUME NEW roles, RowsOf(roles, Roles, RoleRow), Commit(p, [db EXCEPT !.roles = roles], <<>>)
      PROVE  AccountsKept(p)
  <2>1. /\ db'.roles = roles /\ Kept({"roles"})
        /\ Moved(p) /\ request'[p].op \in {"none", "announce"}
    BY <1>4, Committing DEF Typed, Kept, TableNames
  <2>2. /\ db'.accounts = db.accounts /\ db'.invitations = db.invitations /\ db'.orgs = db.orgs
        /\ db'.sessions = db.sessions /\ db'.resets = db.resets
        /\ Kept(AccountTables)
    BY <2>1 DEF TableNames, Kept, AccountTables
  <2>3. AccountRowsOK(db') /\ AccountReferencesOK(db')
    BY <1>4, <2>1, <2>2 DEF Typed, RowsOK, AccountRowsOK, AccountReferencesOK
  <2>4. QED BY <2>1, <2>2, <2>3, AccountsWritten
<1>5. ASSUME At(p, "role.create"), HasRoom(Unused(Roles), db.roles)
      PROVE  RowsOf(Insert(db.roles, Fresh(Unused(Roles), db.roles), Arg(p)), Roles, RoleRow)
  BY <1>5, Choosing, Inserting DEF Typed, RowsOK, AccountRowsOK, AccountArgs
<1>6. ASSUME At(p, "role.update")
      PROVE  RowsOf(Patch(db.roles, Arg(p).role, Arg(p).change), Roles, RoleRow)
  <2>1. ASSUME Arg(p).role \in DOMAIN db.roles
        PROVE  Over(Arg(p).change, db.roles[Arg(p).role]) \in RoleRow
    BY <1>6, <2>1 DEF Typed, RowsOK, AccountRowsOK, AccountArgs, RowsOf, RoleRow, Over
  <2>2. QED BY <2>1, Patching DEF Typed, RowsOK, AccountRowsOK
<1>7. QED BY <1>1, <1>2, <1>3, <1>4, <1>5, <1>6 DEF CreateRole, UpdateRole

LEMMA AccountsStepKept ==
    ASSUME Typed, NEW p \in Requests, AccountArgs(request[p]), AccountsStep(p)
    PROVE  AccountsKept(p)
BY LoginKept, LogoutKept, CleanupKept, ForgotKept, ResetKept, UpdateUserKept, InviteKept,
   ResendKept, CancelKept, AcceptKept, RolesKept DEF AccountsStep

-----------------------------------------------------------------------------
(* Attachments *)

AttachmentTables == {"rates", "gone", "attachments", "stored", "reserved"}
AttachmentOps ==
    {"none", "file.reserve", "file.put", "file.insert", "file.remove", "file.delete"}
AttachmentArgs(r) ==
    /\ r.op \in {"file.reserve", "file.put", "file.insert"} =>
          r.arg.org \in Orgs /\ r.arg.parent \in Entities
    /\ r.op \in {"file.reserve", "file.put"} => r.arg = [org |-> r.arg.org, parent |-> r.arg.parent,
                                                         count |-> r.arg.count]
    /\ r.op = "file.reserve" => r.arg.count \in Nat
    /\ r.op = "file.insert" => r.arg.file \in Files

AttachmentsKept(p) ==
    /\ Kept(AttachmentTables) /\ Moved(p)
    /\ AttachmentRowsOK(db')
    /\ request'[p].op \in AttachmentOps /\ AttachmentArgs(request'[p])

LEMMA AttachmentArgless ==
    ASSUME NEW op \in {"none", "file.remove", "file.delete"}, NEW arg, NEW r,
           r = [op |-> op, arg |-> arg]
    PROVE  r.op \in AttachmentOps /\ AttachmentArgs(r)
BY DEF AttachmentOps, AttachmentArgs

LEMMA AttachmentsCalled ==
    ASSUME Typed, NEW p \in Requests, Kept({"rates"}), Moved(p), request'[p].op \in AttachmentOps,
           AttachmentArgs(request'[p])
    PROVE  AttachmentsKept(p)
BY DEF Typed, Kept, TableNames, AttachmentTables, AttachmentsKept, RowsOK, AttachmentRowsOK

\* A transaction that changes nothing but attachments and the storage.
LEMMA FilesWritten ==
    ASSUME Typed, NEW p \in Requests, Kept({"gone", "attachments", "stored"}), Moved(p),
           RowsOf(db'.attachments, Files, AttachmentRow), db'.stored \subseteq Files,
           request'[p].op \in AttachmentOps, AttachmentArgs(request'[p])
    PROVE  AttachmentsKept(p)
BY DEF Typed, Kept, TableNames, AttachmentTables, AttachmentsKept, RowsOK, AttachmentRowsOK

LEMMA Rejecting ==
    ASSUME Typed, NEW p \in Requests, Reject(p)
    PROVE  /\ db' = db /\ Moved(p) /\ request'[p] = Idle /\ \A names : Kept(names)
BY DEF Typed, Moved, Kept

LEMMA Continuing ==
    ASSUME Typed, NEW p \in Requests, NEW op, NEW arg, Continue(p, op, arg)
    PROVE  /\ db' = db /\ Moved(p) /\ request'[p] = [op |-> op, arg |-> arg]
           /\ \A names : Kept(names)
BY DEF Typed, Moved, Kept

LEMMA Proceeding ==
    ASSUME Typed, NEW p \in Requests, NEW tables, NEW op, NEW arg, NEW faults,
           Proceed(p, tables, op, arg, faults)
    PROVE  /\ db' = tables /\ Moved(p) /\ request'[p] = [op |-> op, arg |-> arg]
BY DEF Typed, Moved

LEMMA Reserving ==
    ASSUME Typed, NEW p \in Requests, NEW kind \in DOMAIN Quota, NEW op, Arg(p).org \in Orgs,
           Arg(p).count \in Nat, Reserve(p, kind, op)
    PROVE  /\ Kept({"reserved"}) /\ Moved(p)
           /\ RowsOf(db'.reserved, Orgs \X DOMAIN Quota, Nat)
           /\ request'[p] = Idle \/ request'[p] = [op |-> op, arg |-> Arg(p)]
<1> DEFINE key == <<Arg(p).org, kind>>
           current == IF key \in DOMAIN db.reserved THEN db.reserved[key] ELSE Arg(p).count
<1>1. RowsOf(db.reserved, Orgs \X DOMAIN Quota, Nat)
  BY DEF Typed, RowsOK, AttachmentRowsOK
<1>2. key \in Orgs \X DOMAIN Quota /\ current \in Nat /\ current + 1 \in Nat
  BY <1>1 DEF RowsOf
<1>3. \/ Commit(p, [db EXCEPT !.reserved = Insert(@, key, current)], <<>>)
      \/ Proceed(p, [db EXCEPT !.reserved = Insert(@, key, current + 1)], op, Arg(p), 0)
  BY DEF Reserve
<1> HIDE DEF key, current
<1>4. ASSUME NEW n \in Nat, db' = [db EXCEPT !.reserved = Insert(@, key, n)]
      PROVE  Kept({"reserved"}) /\ RowsOf(db'.reserved, Orgs \X DOMAIN Quota, Nat)
  <2>1. db'.reserved = Insert(db.reserved, key, n) /\ Kept({"reserved"})
    BY <1>4 DEF Typed, Kept, TableNames
  <2>2. QED BY <2>1, <1>1, <1>2, Inserting
<1>5. CASE Commit(p, [db EXCEPT !.reserved = Insert(@, key, current)], <<>>)
  BY <1>5, <1>2, <1>4 DEF Typed, Moved
<1>6. CASE Proceed(p, [db EXCEPT !.reserved = Insert(@, key, current + 1)], op, Arg(p), 0)
  BY <1>6, <1>2, <1>4 DEF Typed, Moved
<1>7. QED BY <1>3, <1>5, <1>6

LEMMA FilesFinite == ASSUME Typed, NEW org PROVE Cardinality(FilesOf(org)) \in Nat
<1>1. FilesOf(org) \subseteq Files
  BY DEF Typed, RowsOK, AttachmentRowsOK, RowsOf, FilesOf
<1>2. QED BY <1>1, AttachmentsAssumption, FS_Subset, FS_CardinalityType

LEMMA CallerTyped ==
    ASSUME Typed, NEW s \in DOMAIN db.sessions
    PROVE  /\ CallerAccount(s) \in DOMAIN db.accounts /\ CallerAccount(s) \in Accounts
           /\ CallerOrg(s) \in DOMAIN db.orgs /\ CallerOrg(s) \in Orgs
BY DEF Typed, RowsOK, AccountRowsOK, AccountReferencesOK, RowsOf, CallerOrg, OrgOf, CallerAccount,
   AccountRow

LEMMA UploadKept ==
    ASSUME Typed, NEW p \in Requests, AttachmentArgs(request[p]), Upload(p)
    PROVE  AttachmentsKept(p)
<1>1. ASSUME NEW scope, TurnedAway(p, scope)
      PROVE  AttachmentsKept(p)
  BY <1>1, TurningAway, AttachmentsCalled, AttachmentArgless
<1>2. ASSUME NEW kind, NEW s \in Callers(UploadRoute(kind)),
             NEW x \in LiveEntities(CallerOrg(s), {kind}), NEW scope,
             NEW op \in {"file.reserve", "file.put"}, NEW arg,
             arg = [org |-> CallerOrg(s), parent |-> x,
                    count |-> Cardinality(FilesOf(CallerOrg(s)))],
             CallCounted(p, scope, op, arg)
      PROVE  AttachmentsKept(p)
  <2>1. CallerOrg(s) \in Orgs
    BY CallerTyped DEF Callers
  <2>2. x \in Entities
    BY DEF Typed, RowsOK, AttachmentRowsOK, RowsOf, LiveEntities
  <2>3. arg.org \in Orgs /\ arg.parent \in Entities /\ arg.count \in Nat
    BY <1>2, <2>1, <2>2, FilesFinite
  <2>4. /\ Kept({"rates"}) /\ Moved(p) /\ request'[p] = [op |-> op, arg |-> arg]
    BY <1>2, CountedCalling
  <2>5. arg = [org |-> arg.org, parent |-> arg.parent, count |-> arg.count]
    BY <1>2
  <2>6. AttachmentArgs(request'[p])
    BY <2>3, <2>4, <2>5 DEF AttachmentArgs
  <2>7. QED BY <2>4, <2>6, AttachmentsCalled DEF AttachmentOps
<1>3. CASE At(p, "file.reserve") /\ Reserve(p, "attachment", "file.put")
  <2>1. /\ Kept({"reserved"}) /\ Moved(p)
        /\ RowsOf(db'.reserved, Orgs \X DOMAIN Quota, Nat)
        /\ request'[p] = Idle \/ request'[p] = [op |-> "file.put", arg |-> Arg(p)]
    BY <1>3, Reserving, AttachmentsAssumption DEF AttachmentArgs
  <2>2. AttachmentRowsOK(db') /\ Kept(AttachmentTables)
    BY <2>1 DEF Typed, RowsOK, AttachmentRowsOK, Kept, TableNames, AttachmentTables
  <2>3. request'[p].op \in AttachmentOps /\ AttachmentArgs(request'[p])
    BY <1>3, <2>1 DEF AttachmentOps, AttachmentArgs
  <2>4. QED BY <2>1, <2>2, <2>3 DEF AttachmentsKept
<1>4. CASE Reject(p)
  BY <1>4, Rejecting, AttachmentsCalled, AttachmentArgless
<1>5. QED BY <1>1, <1>2, <1>3, <1>4 DEF Upload

LEMMA PutFileKept ==
    ASSUME Typed, NEW p \in Requests, AttachmentArgs(request[p]), PutFile(p)
    PROVE  AttachmentsKept(p)
<1>1. PICK f \in FreeKeys :
          \/ Proceed(p, [db EXCEPT !.stored = @ \cup {f}], "file.insert",
                Over([file |-> f], Arg(p)), 0)
          \/ Proceed(p, db, "none", None, 1)
  BY DEF PutFile
<1>2. f \in Files
  BY DEF FreeKeys, Unused
<1>3. CASE Proceed(p, [db EXCEPT !.stored = @ \cup {f}], "file.insert",
                   Over([file |-> f], Arg(p)), 0)
  <2> DEFINE arg == Over([file |-> f], Arg(p))
  <2>1. arg.org = Arg(p).org /\ arg.parent = Arg(p).parent /\ arg.file = f
    BY DEF PutFile, AttachmentArgs, Over
  <2>2. /\ db' = [db EXCEPT !.stored = @ \cup {f}] /\ Moved(p)
        /\ request'[p] = [op |-> "file.insert", arg |-> arg]
    <3> DEFINE tables == [db EXCEPT !.stored = @ \cup {f}]
    <3>1. Proceed(p, tables, "file.insert", arg, 0)
      BY <1>3
    <3> HIDE DEF arg, tables
    <3>2. db' = tables /\ Moved(p) /\ request'[p] = [op |-> "file.insert", arg |-> arg]
      BY <3>1, Proceeding
    <3>3. QED BY <3>2 DEF tables
  <2> HIDE DEF arg
  <2>3. Kept({"gone", "attachments", "stored"}) /\ db'.stored \subseteq Files
        /\ db'.attachments = db.attachments
    BY <1>2, <2>2 DEF Typed, Kept, TableNames, RowsOK, AttachmentRowsOK
  <2>4. AttachmentArgs(request'[p])
    BY <1>2, <2>1, <2>2 DEF PutFile, AttachmentArgs
  <2>5. QED BY <2>2, <2>3, <2>4, FilesWritten
        DEF Typed, RowsOK, AttachmentRowsOK, AttachmentOps
<1>4. CASE Proceed(p, db, "none", None, 1)
  BY <1>4, Proceeding, AttachmentsCalled, AttachmentArgless DEF Typed, Kept
<1>5. QED BY <1>1, <1>3, <1>4

LEMMA InsertRowKept ==
    ASSUME Typed, NEW p \in Requests, AttachmentArgs(request[p]), InsertRow(p)
    PROVE  AttachmentsKept(p)
<1> DEFINE row(answered) ==
               [org |-> Arg(p).org, parent |-> Arg(p).parent, answered |-> answered]
           f == Arg(p).file
           written(answered) == [db EXCEPT !.attachments = Insert(@, f, row(answered))]
<1>1. f \in Files /\ \A answered \in BOOLEAN : row(answered) \in AttachmentRow
  BY DEF InsertRow, AttachmentRow, AttachmentArgs
<1>2. \/ Commit(p, written(TRUE), <<>>)
      \/ Proceed(p, written(FALSE), "file.remove", f, 1)
      \/ Continue(p, "file.remove", f)
      \/ Proceed(p, db, "file.remove", f, 1)
  BY DEF InsertRow
<1> HIDE DEF f, row
<1>3. ASSUME NEW answered \in BOOLEAN, Moved(p), db' = written(answered),
             \/ request'[p] = Idle
             \/ request'[p] = [op |-> "file.remove", arg |-> f]
      PROVE  AttachmentsKept(p)
  <2>1. /\ db'.attachments = Insert(db.attachments, f, row(answered)) /\ db'.stored = db.stored
        /\ Kept({"gone", "attachments", "stored"})
    BY <1>3 DEF Typed, Kept, TableNames
  <2>2. RowsOf(db'.attachments, Files, AttachmentRow) /\ db'.stored \subseteq Files
    BY <1>1, <2>1, Inserting DEF Typed, RowsOK, AttachmentRowsOK
  <2>3. QED BY <1>3, <2>1, <2>2, FilesWritten, AttachmentArgless
<1>4. ASSUME \/ Continue(p, "file.remove", f) \/ Proceed(p, db, "file.remove", f, 1)
      PROVE  AttachmentsKept(p)
  <2>1. db' = db /\ Moved(p) /\ request'[p] = [op |-> "file.remove", arg |-> f]
    BY <1>4, Proceeding, Continuing
  <2>2. QED BY <2>1, AttachmentsCalled, AttachmentArgless DEF Typed, Kept
<1>5. CASE Commit(p, written(TRUE), <<>>)
  <2> DEFINE tables == written(TRUE)
  <2>1. Commit(p, tables, <<>>)
    BY <1>5
  <2> HIDE DEF tables
  <2>2. db' = tables /\ Moved(p) /\ request'[p] = Idle
    BY <2>1 DEF Commit, Moved, Typed
  <2>3. QED BY <1>3, <2>2 DEF tables
<1>6. CASE Proceed(p, written(FALSE), "file.remove", f, 1)
  <2> DEFINE tables == written(FALSE)
  <2>1. Proceed(p, tables, "file.remove", f, 1)
    BY <1>6
  <2> HIDE DEF tables
  <2>2. db' = tables /\ Moved(p) /\ request'[p] = [op |-> "file.remove", arg |-> f]
    BY <2>1, Proceeding
  <2>3. QED BY <1>3, <2>2 DEF tables
<1>7. QED BY <1>2, <1>4, <1>5, <1>6

LEMMA RemoveFileKept ==
    ASSUME Typed, NEW p \in Requests, AttachmentArgs(request[p]),
           RemoveFile(p) \/ DeleteAttachment(p)
    PROVE  AttachmentsKept(p)
<1>1. ASSUME NEW f, Commit(p, [db EXCEPT !.stored = @ \ {f}], <<>>)
      PROVE  AttachmentsKept(p)
  <2>1. /\ db'.attachments = db.attachments /\ db'.stored = db.stored \ {f}
        /\ Kept({"gone", "attachments", "stored"}) /\ Moved(p) /\ request'[p] = Idle
    BY <1>1 DEF Typed, Kept, TableNames, Moved
  <2>2. QED BY <2>1, FilesWritten, AttachmentArgless
        DEF Typed, RowsOK, AttachmentRowsOK
<1>2. CASE Proceed(p, db, "none", None, 1)
  BY <1>2, Proceeding, AttachmentsCalled, AttachmentArgless DEF Typed, Kept
<1>3. CASE Reject(p)
  BY <1>3, Rejecting, AttachmentsCalled, AttachmentArgless
<1>4. ASSUME NEW f, Begin(p, "file.delete", f)
      PROVE  AttachmentsKept(p)
  <2>1. /\ Kept({"rates"}) /\ Moved(p) /\ request'[p] = [op |-> "file.delete", arg |-> f]
    BY <1>4, Calling
  <2>2. QED BY <2>1, AttachmentsCalled, AttachmentArgless
<1>5. ASSUME NEW f, NEW tables, tables = [db EXCEPT !.attachments = Without(@, {f})],
             Proceed(p, Deleting(tables), "file.remove", f, 0)
      PROVE  AttachmentsKept(p)
  <2>1. /\ DOMAIN tables = TableNames /\ tables.gone = db.gone
        /\ \A n \in TableNames \ {"attachments"} : tables[n] = db[n]
        /\ tables.attachments = Without(db.attachments, {f})
    BY <1>5 DEF Typed, TableNames
  <2> DEFINE deleted == Deleting(tables)
  <2>2. /\ DOMAIN deleted = TableNames /\ db.gone \subseteq deleted.gone
        /\ \A n \in TableNames \ {"gone"} : deleted[n] = tables[n]
    BY <2>1, DeletingTables
  <2>3. Proceed(p, deleted, "file.remove", f, 0)
    BY <1>5
  <2> HIDE DEF deleted
  <2>4. /\ db' = deleted /\ Moved(p) /\ request'[p] = [op |-> "file.remove", arg |-> f]
    BY <2>3, Proceeding
  <2>5. /\ db'.attachments = Without(db.attachments, {f}) /\ db'.stored = db.stored
        /\ Kept({"gone", "attachments", "stored"})
    BY <2>1, <2>2, <2>4 DEF Kept, TableNames
  <2>6. RowsOf(db'.attachments, Files, AttachmentRow) /\ db'.stored \subseteq Files
    BY <2>5, Removing DEF Typed, RowsOK, AttachmentRowsOK
  <2>7. QED BY <2>4, <2>5, <2>6, FilesWritten, AttachmentArgless
<1>6. QED BY <1>1, <1>2, <1>3, <1>4, <1>5 DEF RemoveFile, DeleteAttachment

LEMMA AttachmentsStepKept ==
    ASSUME Typed, NEW p \in Requests, AttachmentArgs(request[p]), AttachmentsStep(p)
    PROVE  AttachmentsKept(p)
BY UploadKept, PutFileKept, InsertRowKept, RemoveFileKept DEF AttachmentsStep

-----------------------------------------------------------------------------
(* Demo workspaces *)

DemoOps ==
    {"none", "demo.lock", "demo.count", "demo.bootstrap", "demo.identity", "demo.seed",
     "demo.session", "demo.done", "demo.expire", "demo.destroy", "demo.files", "demo.reserve",
     "demo.rate", "demo.create", "demo.derive"}
DemoArgs(r, orgs) ==
    /\ r.op \in {"demo.identity", "demo.seed", "demo.session"} =>
          /\ r.arg.org \in Orgs /\ r.arg.owner \in Accounts
          /\ r.arg.org \in DOMAIN orgs => orgs[r.arg.org].demo
    /\ r.op \in {"demo.reserve", "demo.rate", "demo.create"} =>
          r.arg.org \in Orgs /\ r.arg.kind \in Resources /\ r.arg.count \in Nat

\* A message stays the one of its mail; the uid of a mail stays its own, in a
\* folder that is not numbered anew, and new mail has a uid of its own.
SameMail(row, old) ==
    /\ row.mailbox = old.mailbox /\ row.folder = old.folder
    /\ row.uid = old.uid /\ row.id = old.id
FolderStays(folder, old) ==
    /\ folder.validity \in Nat /\ folder.next \in Nat
    /\ old.validity \in Nat /\ old.next \in Nat
    /\ old.validity <= folder.validity
    /\ old.validity = folder.validity =>
          /\ old.next <= folder.next
          /\ \A uid \in DOMAIN folder.mail :
                \/ uid >= old.next
                \/ uid \in DOMAIN old.mail /\ folder.mail[uid] = old.mail[uid]

\* Only demos come and go, and what is another organization's stays.
Grows ==
    /\ \A o \in DOMAIN db.orgs : ~db.orgs[o].demo => o \in DOMAIN db'.orgs /\ ~db'.orgs[o].demo
    /\ \A o \in DOMAIN db'.orgs :
          o \notin DOMAIN db.orgs \/ db.orgs[o].demo => db'.orgs[o].demo
    /\ \A m \in DOMAIN db.mailboxes :
          m \in DOMAIN db'.mailboxes /\ db'.mailboxes[m].org = db.mailboxes[m].org
    /\ \A t \in DOMAIN db.threads :
          t \in DOMAIN db'.threads /\ db'.threads[t].org = db.threads[t].org
    /\ \A box \in DOMAIN db.server :
          box \in DOMAIN db'.server /\ FolderStays(db'.server[box], db.server[box])
    /\ \A box \in DOMAIN db'.server \ DOMAIN db.server : box[1] \notin DOMAIN db.mailboxes
    /\ \A x \in DOMAIN db.messages : ~db.orgs[db.messages[x].org].demo =>
          /\ x \in DOMAIN db'.messages /\ db'.messages[x].org = db.messages[x].org
          /\ SameMail(db'.messages[x], db.messages[x])
          /\ db.messages[x].accepted > 0 => db'.messages[x].accepted > 0

TypedNext ==
    /\ DOMAIN db' = TableNames /\ db.gone \subseteq db'.gone
    /\ RowsOK(db') /\ AccountReferencesOK(db') /\ MailReferencesOK(db')
    /\ SentOK(db') /\ ThreadsOK(db') /\ CursorsOK(db')
DemoKept(p) ==
    /\ TypedNext /\ Grows /\ Moved(p)
    /\ request'[p].op \in DemoOps /\ DemoArgs(request'[p], db'.orgs)

\* What a cursor has behind it stays behind it.
LEMMA CoveredStays ==
    ASSUME Typed, Grows, NEW m \in DOMAIN db.mailboxes, NEW f, NEW uid, NEW id,
           Covered(db, m, f, uid, id)
    PROVE  Covered(db', m, f, uid, id)
<1>1. PICK x \in DOMAIN db.messages :
         /\ db.messages[x].mailbox = m
         /\ \/ db.messages[x].folder = f /\ db.messages[x].uid = uid
            \/ id # None /\ db.messages[x].id = id
  BY DEF Covered
<1>2. m # None
  BY CrmMailAssumption DEF CrmMailAssumption, Typed, RowsOK, MailboxRowsOK, RowsOf
<1>3. ~db.orgs[db.messages[x].org].demo
  BY <1>1, <1>2 DEF Typed, MailReferencesOK
<1>4. x \in DOMAIN db'.messages /\ SameMail(db'.messages[x], db.messages[x])
  BY <1>3 DEF Grows
<1>5. QED BY <1>1, <1>4 DEF Covered, SameMail

LEMMA SeenStays ==
    ASSUME Typed, Grows, NEW m, NEW f, <<m, f>> \in DOMAIN db.server,
           NEW cursor \in [validity : Nat, last : Nat, from : Nat], Seen(db, m, f, cursor)
    PROVE  Seen(db', m, f, cursor)
<1> DEFINE old == db.server[<<m, f>>]
           folder == db'.server[<<m, f>>]
<1>1. m \in DOMAIN db.mailboxes
  <2>1. <<m, f>>[1] = m
    OBVIOUS
  <2>2. QED BY <2>1 DEF Typed, MailReferencesOK
<1>2. FolderStays(folder, old)
  BY DEF Grows
<1>3. /\ cursor.validity <= old.validity
      /\ cursor.validity = old.validity =>
            /\ cursor.last < old.next
            /\ \A uid \in DOMAIN old.mail \cap (cursor.from .. cursor.last) :
                  old.mail[uid].fit => Covered(db, m, f, uid, old.mail[uid].id)
  BY DEF Seen
<1>4. cursor.validity \in Nat /\ cursor.last \in Nat /\ cursor.from \in Nat
  OBVIOUS
<1>5. Seen(db', m, f, cursor) <=>
         /\ cursor.validity <= folder.validity
         /\ cursor.validity = folder.validity =>
               /\ cursor.last < folder.next
               /\ \A uid \in DOMAIN folder.mail \cap (cursor.from .. cursor.last) :
                     folder.mail[uid].fit => Covered(db', m, f, uid, folder.mail[uid].id)
  BY DEF Seen
<1> HIDE DEF old, folder
<1>6. cursor.validity <= folder.validity
  BY <1>2, <1>3, <1>4 DEF FolderStays
<1>7. ASSUME cursor.validity = folder.validity
      PROVE  /\ cursor.last < folder.next
             /\ \A uid \in DOMAIN folder.mail \cap (cursor.from .. cursor.last) :
                   folder.mail[uid].fit => Covered(db', m, f, uid, folder.mail[uid].id)
  <2>1. old.validity = folder.validity /\ cursor.validity = old.validity
    BY <1>2, <1>3, <1>4, <1>7 DEF FolderStays
  <2>2. cursor.last < folder.next
    BY <1>2, <1>3, <1>4, <2>1 DEF FolderStays
  <2>3. ASSUME NEW uid \in DOMAIN folder.mail \cap (cursor.from .. cursor.last),
               folder.mail[uid].fit
        PROVE  Covered(db', m, f, uid, folder.mail[uid].id)
    <3>1. ~(uid >= old.next)
      BY <1>2, <1>3, <1>4, <2>1 DEF FolderStays
    <3>2. uid \in DOMAIN old.mail /\ folder.mail[uid] = old.mail[uid]
      BY <1>2, <2>1, <3>1 DEF FolderStays
    <3>3. Covered(db, m, f, uid, old.mail[uid].id)
      BY <1>3, <2>1, <2>3, <3>2
    <3>4. QED BY <1>1, <3>2, <3>3, CoveredStays
  <2>4. QED BY <2>2, <2>3
<1>8. QED BY <1>5, <1>6, <1>7

\* Every cursor that a step writes has its folder behind it before the step.
LEMMA CursorsStay ==
    ASSUME Typed, Grows,
           \A box \in DOMAIN db'.server :
              LET cursor == db'.mailboxes[box[1]].cursor[box[2]]
              IN  cursor # None =>
                     /\ box \in DOMAIN db.server /\ box = <<box[1], box[2]>>
                     /\ cursor \in [validity : Nat, last : Nat, from : Nat]
                     /\ Seen(db, box[1], box[2], cursor)
    PROVE  CursorsOK(db')
<1> SUFFICES ASSUME NEW box \in DOMAIN db'.server,
                    db'.mailboxes[box[1]].cursor[box[2]] # None
             PROVE  Seen(db', box[1], box[2], db'.mailboxes[box[1]].cursor[box[2]])
  BY DEF CursorsOK
<1> DEFINE m == box[1]
           f == box[2]
           cursor == db'.mailboxes[m].cursor[f]
<1>1. /\ <<m, f>> \in DOMAIN db.server /\ Seen(db, m, f, cursor)
      /\ cursor \in [validity : Nat, last : Nat, from : Nat]
  OBVIOUS
<1> HIDE DEF m, f, cursor
<1>2. Seen(db', m, f, cursor)
  BY <1>1, SeenStays
<1>3. QED BY <1>2 DEF m, f, cursor

\* A cursor of a folder.
LEMMA CursorTyped ==
    ASSUME Typed, NEW box \in DOMAIN db.server
    PROVE  /\ box = <<box[1], box[2]>> /\ box[1] \in DOMAIN db.mailboxes
           /\ LET cursor == db.mailboxes[box[1]].cursor[box[2]]
              IN  cursor # None => /\ cursor \in [validity : Nat, last : Nat, from : Nat]
                                   /\ Seen(db, box[1], box[2], cursor)
<1>1. box \in Mailboxes \X {"INBOX", "SENT"} /\ box[1] \in DOMAIN db.mailboxes
  BY DEF Typed, RowsOK, MailboxRowsOK, MailReferencesOK
<1>2. db.mailboxes[box[1]] \in MailboxRow
  BY <1>1 DEF Typed, RowsOK, MailboxRowsOK, RowsOf
<1> DEFINE cursor == db.mailboxes[box[1]].cursor[box[2]]
<1>3. cursor \in Cursor
  BY <1>1, <1>2 DEF MailboxRow
<1>4. cursor # None => Seen(db, box[1], box[2], cursor)
  BY DEF Typed, CursorsOK
<1> HIDE DEF cursor
<1>5. cursor # None => cursor \in [validity : Nat, last : Nat, from : Nat]
  BY <1>3 DEF Cursor, OrNone
<1>6. QED BY <1>1, <1>4, <1>5 DEF cursor

LEMMA CursorsUnchanged ==
    ASSUME Typed, Grows, db'.server = db.server, DOMAIN db.mailboxes \subseteq DOMAIN db'.mailboxes,
           \A m \in DOMAIN db.mailboxes : db'.mailboxes[m].cursor = db.mailboxes[m].cursor
    PROVE  CursorsOK(db')
BY CursorTyped, CursorsStay

LEMMA FolderUnchanged ==
    ASSUME Typed, NEW box \in DOMAIN db.server
    PROVE  FolderStays(db.server[box], db.server[box])
<1>1. FolderOK(db.server[box])
  BY DEF Typed, RowsOK, MailboxRowsOK
<1>2. MaxUid \in Nat
  BY CrmMailAssumption DEF CrmMailAssumption
<1> DEFINE folder == db.server[box]
<1> HIDE DEF folder
<1>3. folder.validity \in Nat /\ folder.next \in Nat
  BY <1>1, <1>2 DEF FolderOK, folder
<1>4. FolderStays(folder, folder)
  BY <1>3 DEF FolderStays
<1>5. QED BY <1>4 DEF folder

LEMMA DemoArgless ==
    ASSUME NEW op \in DemoOps \ {"demo.identity", "demo.seed", "demo.session", "demo.reserve",
                                 "demo.rate", "demo.create"},
           NEW arg, NEW r, r = [op |-> op, arg |-> arg], NEW orgs
    PROVE  r.op \in DemoOps /\ DemoArgs(r, orgs)
BY DEF DemoOps, DemoArgs

LEMMA QuietTables ==
    ASSUME Typed, Kept({"rates", "stored", "reserved", "lock"}),
           RowsOf(db'.reserved, Orgs \X DOMAIN Quota, Nat), db'.stored \subseteq Files,
           db'.lock \in OrNone(Requests)
    PROVE  TypedNext /\ Grows /\ db'.orgs = db.orgs
<1>1. /\ db'.accounts = db.accounts /\ db'.roles = db.roles /\ db'.orgs = db.orgs
      /\ db'.sessions = db.sessions /\ db'.resets = db.resets
      /\ db'.invitations = db.invitations /\ db'.entities = db.entities
      /\ db'.attachments = db.attachments /\ db'.records = db.records /\ db'.today = db.today
      /\ db'.lapses = db.lapses /\ db'.templates = db.templates /\ db'.mailboxes = db.mailboxes
      /\ db'.server = db.server /\ db'.messages = db.messages /\ db'.threads = db.threads
      /\ db'.mailJobs = db.mailJobs /\ db'.syncs = db.syncs /\ db'.mailFiles = db.mailFiles
  BY DEF Kept, TableNames
<1>2. RowsOK(db')
  BY <1>1 DEF Typed, RowsOK, AccountRowsOK, AttachmentRowsOK, DemoRowsOK, MailRowsOK, MailboxRowsOK
<1>3. AccountReferencesOK(db') /\ MailReferencesOK(db')
  BY <1>1 DEF Typed, AccountReferencesOK, MailReferencesOK
<1>4. Grows
  BY <1>1, FolderUnchanged DEF Grows, SameMail
<1>5. SentOK(db') /\ ThreadsOK(db') /\ CursorsOK(db')
  BY <1>1, <1>4, CursorsUnchanged DEF Typed, SentOK, ThreadsOK
<1>6. QED BY <1>1, <1>2, <1>3, <1>4, <1>5 DEF TypedNext, Kept

LEMMA DemoQuiet ==
    ASSUME Typed, NEW p \in Requests, Kept({"rates", "stored", "reserved", "lock"}), Moved(p),
           RowsOf(db'.reserved, Orgs \X DOMAIN Quota, Nat), db'.stored \subseteq Files,
           db'.lock \in OrNone(Requests),
           request'[p].op \in DemoOps, DemoArgs(request'[p], db.orgs)
    PROVE  DemoKept(p)
BY QuietTables DEF DemoKept

LEMMA DemoCalled ==
    ASSUME Typed, NEW p \in Requests, Kept({"rates"}), Moved(p),
           request'[p].op \in DemoOps, DemoArgs(request'[p], db.orgs)
    PROVE  DemoKept(p)
<1>1. /\ Kept({"rates", "stored", "reserved", "lock"}) /\ db'.reserved = db.reserved
      /\ db'.stored = db.stored /\ db'.lock = db.lock
  BY DEF Kept, TableNames
<1>2. QED BY <1>1, DemoQuiet DEF Typed, RowsOK, DemoRowsOK, AttachmentRowsOK

LEMMA DemoUnchanged ==
    ASSUME Typed, NEW p \in Requests, db' = db, Moved(p),
           request'[p].op \in DemoOps, DemoArgs(request'[p], db.orgs)
    PROVE  DemoKept(p)
BY DemoCalled DEF Typed, Kept

\* Organizations whose rows change, but not whether they are demos.
LEMMA PatchingOrg ==
    ASSUME Typed, NEW org \in DOMAIN db.orgs, NEW change, NEW orgs,
           orgs = Patch(db.orgs, org, change),
           \/ change = [sender |-> TRUE]
           \/ change = [expires |-> db.today]
    PROVE  /\ RowsOf(orgs, Orgs, OrgRow) /\ DOMAIN orgs = DOMAIN db.orgs
           /\ \A o \in DOMAIN orgs :
                 /\ orgs[o].demo = db.orgs[o].demo
                 /\ change = [sender |-> TRUE] => orgs[o].expires = db.orgs[o].expires
<1>1. RowsOf(db.orgs, Orgs, OrgRow) /\ db.today \in Nat
  BY DEF Typed, RowsOK, DemoRowsOK
<1>2. ASSUME NEW row \in OrgRow
      PROVE  /\ Over(change, row) \in OrgRow /\ Over(change, row).demo = row.demo
             /\ change = [sender |-> TRUE] => Over(change, row).expires = row.expires
  <2>1. CASE change = [sender |-> TRUE]
    BY <2>1 DEF OrgRow, Over
  <2>2. CASE change = [expires |-> db.today]
    BY <1>1, <2>2 DEF OrgRow, Over
  <2>3. QED BY <2>1, <2>2
<1>3. DOMAIN orgs = DOMAIN db.orgs
  BY DEF Patch
<1>4. ASSUME NEW o \in DOMAIN db.orgs
      PROVE  /\ o \in Orgs /\ orgs[o] \in OrgRow /\ orgs[o].demo = db.orgs[o].demo
             /\ change = [sender |-> TRUE] => orgs[o].expires = db.orgs[o].expires
  BY <1>1, <1>2 DEF Patch, RowsOf
<1>5. QED BY <1>3, <1>4 DEF RowsOf

LEMMA OrgsPatched ==
    ASSUME Typed, Kept({"orgs"}), RowsOf(db'.orgs, Orgs, OrgRow),
           DOMAIN db'.orgs = DOMAIN db.orgs,
           \A o \in DOMAIN db.orgs : db'.orgs[o].demo = db.orgs[o].demo
    PROVE  TypedNext /\ Grows
<1>1. /\ db'.accounts = db.accounts /\ db'.roles = db.roles /\ db'.lock = db.lock
      /\ db'.sessions = db.sessions /\ db'.resets = db.resets
      /\ db'.invitations = db.invitations /\ db'.entities = db.entities
      /\ db'.attachments = db.attachments /\ db'.records = db.records /\ db'.today = db.today
      /\ db'.reserved = db.reserved /\ db'.stored = db.stored
      /\ db'.lapses = db.lapses /\ db'.templates = db.templates /\ db'.mailboxes = db.mailboxes
      /\ db'.server = db.server /\ db'.messages = db.messages /\ db'.threads = db.threads
      /\ db'.mailJobs = db.mailJobs /\ db'.syncs = db.syncs /\ db'.mailFiles = db.mailFiles
  BY DEF Kept, TableNames
<1>2. RowsOK(db')
  BY <1>1 DEF Typed, RowsOK, AccountRowsOK, AttachmentRowsOK, DemoRowsOK, MailRowsOK, MailboxRowsOK
<1>3. AccountReferencesOK(db')
  BY <1>1 DEF Typed, AccountReferencesOK
<1>4. MailReferencesOK(db')
  BY <1>1 DEF Typed, MailReferencesOK
<1>5. Grows
  BY <1>1, FolderUnchanged DEF Grows, SameMail
<1>6. SentOK(db') /\ ThreadsOK(db') /\ CursorsOK(db')
  BY <1>1, <1>5, CursorsUnchanged DEF Typed, SentOK, ThreadsOK
<1>7. QED BY <1>1, <1>2, <1>3, <1>4, <1>5, <1>6 DEF TypedNext, Kept

LEMMA Seeded == \A kind \in Resources : SeededRows[kind] \in Nat
BY DemoAssumption DEF SeededRows

LEMMA CountedTables ==
    ASSUME NEW tables, DOMAIN tables = TableNames, NEW scope
    PROVE  /\ DOMAIN Counted(tables, scope) = TableNames
           /\ \A n \in TableNames \ {"rates"} : Counted(tables, scope)[n] = tables[n]
BY DEF Counted, TableNames

\* Whoever asks for a workspace or a list is counted.
LEMMA StartingDemo ==
    ASSUME Typed, NEW p \in Requests, StartDemo(p) \/ RestartDemo(p) \/ QueryRecords(p)
    PROVE  /\ Kept({"rates"}) /\ Moved(p)
           /\ \E op \in {"none", "demo.lock"} : \E arg : request'[p] = [op |-> op, arg |-> arg]
<1> DEFINE Counting == /\ Kept({"rates"}) /\ Moved(p)
                       /\ \E op \in {"none", "demo.lock"} : \E arg :
                             request'[p] = [op |-> op, arg |-> arg]
<1>1. ASSUME NEW scope, TurnedAway(p, scope)
      PROVE  Counting
  <2>1. Kept({"rates"}) /\ Moved(p) /\ request'[p] = [op |-> "none", arg |-> None]
    BY <1>1, TurningAway
  <2>2. QED BY <2>1
<1>2. ASSUME NEW scope, NEW arg, CallCounted(p, scope, "demo.lock", arg)
      PROVE  Counting
  <2>1. Kept({"rates"}) /\ Moved(p) /\ request'[p] = [op |-> "demo.lock", arg |-> arg]
    BY <1>2, CountedCalling
  <2>2. QED BY <2>1
<1>3. ASSUME NEW address, NEW session, NEW op \in {"none", "demo.lock"},
             BeginWriting(p, Counted(Counted(db, address), session), op, None)
      PROVE  Counting
  <2> DEFINE once == Counted(db, address)
             twice == Counted(once, session)
  <2>1. DOMAIN once = TableNames /\ \A n \in TableNames \ {"rates"} : once[n] = db[n]
    BY CountedTables DEF Typed
  <2>2. BeginWriting(p, twice, op, None)
    BY <1>3
  <2> HIDE DEF once
  <2>3. DOMAIN twice = TableNames /\ \A n \in TableNames \ {"rates"} : twice[n] = once[n]
    BY <2>1, CountedTables
  <2> HIDE DEF twice
  <2>4. Moved(p) /\ request'[p] = [op |-> op, arg |-> None] /\ db' = twice
    BY <2>2 DEF Typed, Moved
  <2>5. Kept({"rates"})
    BY <2>1, <2>3, <2>4 DEF Kept, TableNames
  <2>6. QED BY <2>4, <2>5
<1>4. ASSUME Begin(p, "none", None)
      PROVE  Counting
  <2>1. Kept({"rates"}) /\ Moved(p) /\ request'[p] = [op |-> "none", arg |-> None]
    BY <1>4, Calling
  <2>2. QED BY <2>1
<1>5. CASE StartDemo(p)
  BY <1>1, <1>2, <1>3, <1>5 DEF StartDemo
<1>6. CASE RestartDemo(p) \/ QueryRecords(p)
  BY <1>1, <1>2, <1>4, <1>6 DEF RestartDemo, QueryRecords
<1>7. QED BY <1>5, <1>6

LEMMA StartDemoKept ==
    ASSUME Typed, NEW p \in Requests, StartDemo(p) \/ RestartDemo(p) \/ QueryRecords(p)
    PROVE  DemoKept(p)
BY StartingDemo, DemoCalled, DemoArgless DEF DemoOps

\* The lock is given back.
LEMMA Releasing ==
    ASSUME Typed, NEW p \in Requests, NEW op, NEW arg, NEW faults, Release(p, db, op, arg, faults)
    PROVE  /\ Kept({"rates", "stored", "reserved", "lock"}) /\ Moved(p)
           /\ request'[p] = [op |-> op, arg |-> arg]
           /\ db'.lock \in OrNone(Requests) /\ db'.reserved = db.reserved /\ db'.stored = db.stored
<1>1. db' = [db EXCEPT !.lock = IF @ = p THEN None ELSE @]
  BY DEF Release, Unlocked
<1>2. Moved(p) /\ request'[p] = [op |-> op, arg |-> arg]
  BY DEF Release, Typed, Moved
<1>3. QED BY <1>1, <1>2 DEF Typed, Kept, TableNames, RowsOK, DemoRowsOK, OrNone

LEMMA DemoReleased ==
    ASSUME Typed, NEW p \in Requests,
           NEW op \in DemoOps \ {"demo.identity", "demo.seed", "demo.session", "demo.reserve",
                                 "demo.rate", "demo.create"},
           NEW arg, NEW faults, Release(p, db, op, arg, faults)
    PROVE  DemoKept(p)
<1>1. /\ Kept({"rates", "stored", "reserved", "lock"}) /\ Moved(p)
      /\ request'[p] = [op |-> op, arg |-> arg]
      /\ db'.lock \in OrNone(Requests) /\ db'.reserved = db.reserved /\ db'.stored = db.stored
  BY Releasing
<1>2. request'[p].op \in DemoOps /\ DemoArgs(request'[p], db.orgs)
  BY <1>1, DemoArgless
<1>3. QED BY <1>1, <1>2, DemoQuiet DEF Typed, RowsOK, AttachmentRowsOK

LEMMA LockKept ==
    ASSUME Typed, NEW p \in Requests, DemoArgs(request[p], db.orgs),
           AcquireLock(p) \/ CountWorkspaces(p) \/ FinishStart(p)
    PROVE  DemoKept(p)
<1>1. CASE Proceed(p, [db EXCEPT !.lock = p], "demo.count", Arg(p), 0)
  <2>1. /\ Kept({"rates", "stored", "reserved", "lock"}) /\ Moved(p)
        /\ request'[p] = [op |-> "demo.count", arg |-> Arg(p)]
        /\ db'.lock \in OrNone(Requests) /\ db'.reserved = db.reserved /\ db'.stored = db.stored
    BY <1>1 DEF Typed, Kept, TableNames, Moved, OrNone
  <2>2. request'[p].op \in DemoOps /\ DemoArgs(request'[p], db.orgs)
    BY <2>1, DemoArgless DEF DemoOps
  <2>3. QED BY <2>1, <2>2, DemoQuiet DEF Typed, RowsOK, AttachmentRowsOK
<1>2. CASE Reject(p)
  BY <1>2, Rejecting, DemoUnchanged, DemoArgless DEF DemoOps
<1>3. ASSUME NEW arg, Continue(p, "demo.bootstrap", arg)
      PROVE  DemoKept(p)
  <2>1. db' = db /\ Moved(p) /\ request'[p] = [op |-> "demo.bootstrap", arg |-> arg]
    BY <1>3, Continuing
  <2>2. QED BY <2>1, DemoUnchanged, DemoArgless DEF DemoOps
<1>4. ASSUME NEW op \in {"none", "demo.expire"}, NEW arg, Release(p, db, op, arg, 0)
      PROVE  DemoKept(p)
  BY <1>4, DemoReleased DEF DemoOps
<1>5. QED BY <1>1, <1>2, <1>3, <1>4 DEF AcquireLock, CountWorkspaces, FinishStart

LEMMA SetIdentityKept ==
    ASSUME Typed, NEW p \in Requests, DemoArgs(request[p], db.orgs),
           SetIdentity(p) \/ ExpirePrevious(p)
    PROVE  DemoKept(p)
<1>1. ASSUME NEW org, NEW change,
             change = [sender |-> TRUE] \/ change = [expires |-> db.today], NEW orgs,
             orgs = (IF org \in DOMAIN db.orgs THEN Patch(db.orgs, org, change) ELSE db.orgs),
             NEW op, NEW arg, Proceed(p, [db EXCEPT !.orgs = orgs], op, arg, 0),
             op \in DemoOps, DemoArgs([op |-> op, arg |-> arg], db.orgs)
      PROVE  DemoKept(p)
  <2>1. /\ RowsOf(orgs, Orgs, OrgRow) /\ DOMAIN orgs = DOMAIN db.orgs
        /\ \A o \in DOMAIN orgs : orgs[o].demo = db.orgs[o].demo
    <3>1. change = [sender |-> TRUE] \/ change = [expires |-> db.today]
      BY <1>1
    <3>2. CASE org \in DOMAIN db.orgs
      <4>1. orgs = Patch(db.orgs, org, change)
        BY <1>1, <3>2
      <4>2. QED BY <3>1, <3>2, <4>1, PatchingOrg
    <3>3. CASE org \notin DOMAIN db.orgs
      BY <1>1, <3>3 DEF Typed, RowsOK, DemoRowsOK
    <3>4. QED BY <3>2, <3>3
  <2>2. db'.orgs = orgs /\ Kept({"orgs"}) /\ Moved(p) /\ request'[p] = [op |-> op, arg |-> arg]
    BY <1>1 DEF Typed, Kept, TableNames, Moved
  <2>3. TypedNext /\ Grows
    BY <2>1, <2>2, OrgsPatched
  <2>4. DemoArgs([op |-> op, arg |-> arg], db'.orgs)
    BY <1>1, <2>1, <2>2 DEF DemoArgs
  <2>5. QED BY <1>1, <2>2, <2>3, <2>4 DEF DemoKept
<1>2. ASSUME NEW faults, Release(p, db, "none", None, faults)
      PROVE  DemoKept(p)
  BY <1>2, DemoReleased DEF DemoOps
<1>3. CASE Proceed(p, db, "none", None, 1)
  <2>1. db' = db /\ Moved(p) /\ request'[p] = [op |-> "none", arg |-> None]
    BY <1>3, Proceeding
  <2>2. QED BY <2>1, DemoUnchanged, DemoArgless DEF DemoOps
<1>4. ASSUME At(p, "demo.identity"), Proceed(p, WithSender(Arg(p).org), "demo.seed", Arg(p), 0)
      PROVE  DemoKept(p)
  <2> DEFINE org == Arg(p).org
             orgs == IF org \in DOMAIN db.orgs THEN Patch(db.orgs, org, [sender |-> TRUE])
                     ELSE db.orgs
  <2>1. WithSender(org) = [db EXCEPT !.orgs = orgs]
    BY DEF WithSender
  <2> HIDE DEF orgs
  <2>2. Proceed(p, [db EXCEPT !.orgs = orgs], "demo.seed", Arg(p), 0)
    BY <1>4, <2>1
  <2>3. DemoArgs([op |-> "demo.seed", arg |-> Arg(p)], db.orgs) /\ "demo.seed" \in DemoOps
    BY <1>4 DEF DemoArgs, DemoOps
  <2>4. QED BY <2>2, <2>3, <1>1 DEF orgs
<1>5. ASSUME At(p, "demo.expire"), NEW arg, NEW org, NEW orgs,
             orgs = (IF org \in DOMAIN db.orgs THEN Patch(db.orgs, org, [expires |-> db.today])
                     ELSE db.orgs),
             Proceed(p, [db EXCEPT !.orgs = orgs], "demo.destroy", arg, 0)
      PROVE  DemoKept(p)
  <2>1. DemoArgs([op |-> "demo.destroy", arg |-> arg], db.orgs) /\ "demo.destroy" \in DemoOps
    BY DEF DemoArgs, DemoOps
  <2>2. QED BY <1>5, <2>1, <1>1
<1>6. CASE SetIdentity(p)
  BY <1>2, <1>4, <1>6 DEF SetIdentity
<1>7. CASE ExpirePrevious(p)
  <2> DEFINE orgs == IF Arg(p) \in DOMAIN db.orgs THEN Patch(db.orgs, Arg(p), [expires |-> db.today])
                     ELSE db.orgs
             arg == [orgs |-> {Arg(p)}, day |-> db.today]
  <2>1. \/ At(p, "demo.expire") /\ Proceed(p, [db EXCEPT !.orgs = orgs], "demo.destroy", arg, 0)
        \/ Proceed(p, db, "none", None, 1)
    BY <1>7 DEF ExpirePrevious
  <2>2. orgs = IF Arg(p) \in DOMAIN db.orgs THEN Patch(db.orgs, Arg(p), [expires |-> db.today])
               ELSE db.orgs
    OBVIOUS
  <2> HIDE DEF orgs, arg
  <2>3. QED BY <2>1, <2>2, <1>3, <1>5
<1>8. QED BY <1>6, <1>7

LEMMA RecordsWritten ==
    ASSUME Typed, NEW p \in Requests, NEW records,
           RowsOf(records, (DOMAIN db.orgs) \X Resources, RecordCount),
           Kept({"records"}), db'.records = records, Moved(p),
           request'[p].op \in DemoOps, DemoArgs(request'[p], db.orgs)
    PROVE  DemoKept(p)
<1>1. /\ db'.accounts = db.accounts /\ db'.roles = db.roles /\ db'.orgs = db.orgs
      /\ db'.sessions = db.sessions /\ db'.resets = db.resets
      /\ db'.invitations = db.invitations /\ db'.entities = db.entities
      /\ db'.attachments = db.attachments /\ db'.today = db.today
      /\ db'.reserved = db.reserved /\ db'.stored = db.stored /\ db'.lock = db.lock
      /\ db'.lapses = db.lapses /\ db'.templates = db.templates /\ db'.mailboxes = db.mailboxes
      /\ db'.server = db.server /\ db'.messages = db.messages /\ db'.threads = db.threads
      /\ db'.mailJobs = db.mailJobs /\ db'.syncs = db.syncs /\ db'.mailFiles = db.mailFiles
  BY DEF Kept, TableNames
<1>2. RowsOK(db')
  BY <1>1 DEF Typed, RowsOK, AccountRowsOK, AttachmentRowsOK, DemoRowsOK, MailRowsOK, MailboxRowsOK
<1>3. AccountReferencesOK(db') /\ MailReferencesOK(db')
  BY <1>1 DEF Typed, AccountReferencesOK, MailReferencesOK
<1>4. Grows
  BY <1>1, FolderUnchanged DEF Grows, SameMail
<1>5. SentOK(db') /\ ThreadsOK(db') /\ CursorsOK(db')
  BY <1>1, <1>4, CursorsUnchanged DEF Typed, SentOK, ThreadsOK
<1>6. QED BY <1>1, <1>2, <1>3, <1>4, <1>5 DEF TypedNext, Kept, DemoKept

\* One more record of a kind.
LEMMA CountingOne ==
    ASSUME Typed, NEW k \in DOMAIN db.records, NEW records,
           \/ records = [db.records EXCEPT ![k].created = @ + 1]
           \/ records = [db.records EXCEPT ![k].derived = @ + 1]
    PROVE  RowsOf(records, (DOMAIN db.orgs) \X Resources, RecordCount)
<1>1. RowsOf(db.records, (DOMAIN db.orgs) \X Resources, RecordCount)
  BY DEF Typed, RowsOK, DemoRowsOK
<1>2. db.records[k] \in RecordCount
  BY <1>1 DEF RowsOf
<1>3. PICK row \in RecordCount : records = [db.records EXCEPT ![k] = row]
  <2>1. CASE records = [db.records EXCEPT ![k].created = @ + 1]
    <3>1. [db.records[k] EXCEPT !.created = @ + 1] \in RecordCount
      BY <1>2 DEF RecordCount
    <3>2. QED BY <2>1, <3>1
  <2>2. CASE records = [db.records EXCEPT ![k].derived = @ + 1]
    <3>1. [db.records[k] EXCEPT !.derived = @ + 1] \in RecordCount
      BY <1>2 DEF RecordCount
    <3>2. QED BY <2>2, <3>1
  <2>3. QED BY <2>1, <2>2
<1>4. QED BY <1>1, <1>3 DEF RowsOf

LEMMA CreateRecordKept ==
    ASSUME Typed, NEW p \in Requests, DemoArgs(request[p], db.orgs),
           CreateRecord(p) \/ DeriveRecord(p)
    PROVE  DemoKept(p)
<1>1. ASSUME NEW s \in DemoSessions, NEW kind \in Resources, NEW arg,
             <<CallerOrg(s), kind>> \in DOMAIN db.records,
             arg = [session |-> s, account |-> CallerAccount(s), org |-> CallerOrg(s),
                    kind |-> kind, count |-> RowCount(CallerOrg(s), kind)],
             Begin(p, "demo.reserve", arg)
      PROVE  DemoKept(p)
  <2>1. db.records[<<CallerOrg(s), kind>>] \in RecordCount
    BY <1>1 DEF Typed, RowsOK, DemoRowsOK, RowsOf
  <2>2. RowCount(CallerOrg(s), kind) \in Nat
    BY <2>1, Seeded DEF RowCount, RecordCount
  <2>3. CallerOrg(s) \in Orgs
    BY CallerTyped DEF DemoSessions
  <2>4. Kept({"rates"}) /\ Moved(p) /\ request'[p] = [op |-> "demo.reserve", arg |-> arg]
    BY <1>1, Calling
  <2>5. arg.org \in Orgs /\ arg.kind \in Resources /\ arg.count \in Nat
    BY <1>1, <2>2, <2>3
  <2>6. DemoArgs(request'[p], db.orgs)
    BY <2>4, <2>5 DEF DemoArgs
  <2>7. QED BY <2>4, <2>6, DemoCalled DEF DemoOps
<1>2. CASE At(p, "demo.reserve") /\ Reserve(p, Arg(p).kind, "demo.rate")
  <2>1. Arg(p).org \in Orgs /\ Arg(p).kind \in Resources /\ Arg(p).count \in Nat
    BY <1>2 DEF DemoArgs
  <2>2. /\ Kept({"reserved"}) /\ Moved(p)
        /\ RowsOf(db'.reserved, Orgs \X DOMAIN Quota, Nat)
        /\ request'[p] = Idle \/ request'[p] = [op |-> "demo.rate", arg |-> Arg(p)]
    BY <1>2, <2>1, Reserving, DemoAssumption
  <2>3. /\ Kept({"rates", "stored", "reserved", "lock"}) /\ db'.stored = db.stored
        /\ db'.lock = db.lock
    BY <2>2 DEF Kept, TableNames
  <2>4. request'[p].op \in DemoOps /\ DemoArgs(request'[p], db.orgs)
    BY <2>1, <2>2 DEF DemoOps, DemoArgs
  <2>5. QED BY <2>2, <2>3, <2>4, DemoQuiet DEF Typed, RowsOK, DemoRowsOK, AttachmentRowsOK
<1>3. ASSUME At(p, "demo.rate"), NEW scope, NEW op, NEW arg,
             \/ op = "demo.create" /\ arg = Arg(p)
             \/ op = "none" /\ arg = None,
             Proceed(p, Counted(db, scope), op, arg, 0)
      PROVE  DemoKept(p)
  <2> DEFINE tables == Counted(db, scope)
  <2>1. DOMAIN tables = TableNames /\ \A n \in TableNames \ {"rates"} : tables[n] = db[n]
    BY CountedTables DEF Typed
  <2> HIDE DEF tables
  <2>2. db' = tables /\ Moved(p) /\ request'[p] = [op |-> op, arg |-> arg]
    BY <1>3, Proceeding DEF tables
  <2>3. Kept({"rates"})
    BY <2>1, <2>2 DEF Kept, TableNames
  <2>4. request'[p].op \in DemoOps /\ DemoArgs(request'[p], db.orgs)
    BY <1>3, <2>2 DEF DemoOps, DemoArgs
  <2>5. QED BY <2>2, <2>3, <2>4, DemoCalled
<1>4. CASE Reject(p)
  BY <1>4, Rejecting, DemoUnchanged, DemoArgless DEF DemoOps
<1>5. ASSUME NEW k \in DOMAIN db.records, NEW records,
             \/ records = [db.records EXCEPT ![k].created = @ + 1]
             \/ records = [db.records EXCEPT ![k].derived = @ + 1],
             Commit(p, [db EXCEPT !.records = records], <<>>)
      PROVE  DemoKept(p)
  <2>1. RowsOf(records, (DOMAIN db.orgs) \X Resources, RecordCount)
    BY <1>5, CountingOne
  <2>2. db'.records = records /\ Kept({"records"}) /\ Moved(p) /\ request'[p] = Idle
    BY <1>5 DEF Typed, Kept, TableNames, Moved
  <2>3. QED BY <2>1, <2>2, RecordsWritten, DemoArgless DEF DemoOps
<1>6. ASSUME NEW scope, TurnedAway(p, scope)
      PROVE  DemoKept(p)
  BY <1>6, TurningAway, DemoCalled, DemoArgless DEF DemoOps
<1>7. ASSUME NEW scope, NEW arg, CallCounted(p, scope, "demo.derive", arg)
      PROVE  DemoKept(p)
  <2>1. Kept({"rates"}) /\ Moved(p) /\ request'[p] = [op |-> "demo.derive", arg |-> arg]
    BY <1>7, CountedCalling
  <2>2. QED BY <2>1, DemoCalled, DemoArgless DEF DemoOps
<1>8. CASE CreateRecord(p)
  <2>1. \/ /\ Called(p, "demo.create")
           /\ \E s \in DemoSessions, kind \in Resources :
              LET org == CallerOrg(s)
              IN  /\ <<org, kind>> \in DOMAIN db.records
                  /\ Begin(p, "demo.reserve",
                        [session |-> s, account |-> CallerAccount(s), org |-> org, kind |-> kind,
                         count |-> RowCount(org, kind)])
        \/ At(p, "demo.reserve") /\ Reserve(p, Arg(p).kind, "demo.rate")
        \/ /\ At(p, "demo.rate")
           /\ LET scope == <<"demo-record", Arg(p).account>>
              IN  \/ Proceed(p, Counted(db, scope), "demo.create", Arg(p), 0)
                  \/ Proceed(p, Counted(db, scope), "none", None, 0)
        \/ Reject(p)
        \/ LET k == <<Arg(p).org, Arg(p).kind>>
           IN  /\ k \in DOMAIN db.records
               /\ Commit(p, [db EXCEPT !.records = [db.records EXCEPT ![k].created = @ + 1]], <<>>)
    BY <1>8 DEF CreateRecord
  <2>2. QED BY <2>1, <1>1, <1>2, <1>3, <1>4, <1>5
<1>9. CASE DeriveRecord(p)
  <2>1. \/ \E scope : TurnedAway(p, scope)
        \/ \E scope, arg : CallCounted(p, scope, "demo.derive", arg)
        \/ Reject(p)
        \/ /\ Arg(p) \in DOMAIN db.records
           /\ Commit(p, [db EXCEPT
                 !.records = [db.records EXCEPT ![Arg(p)].derived = @ + 1]], <<>>)
    BY <1>9 DEF DeriveRecord
  <2>2. QED BY <2>1, <1>4, <1>5, <1>6, <1>7
<1>10. QED BY <1>8, <1>9

\* Five elements of a set that has as many.
LEMMA FiveElements ==
    ASSUME NEW S, IsFiniteSet(S), Cardinality(S) >= 5
    PROVE  \E a \in S, b \in S, c \in S, d \in S, e \in S :
               /\ a # b /\ a # c /\ a # d /\ a # e
               /\ b # c /\ b # d /\ b # e
               /\ c # d /\ c # e
               /\ d # e
<1>1. ASSUME NEW T, IsFiniteSet(T), NEW n \in Nat, Cardinality(T) >= n + 1
      PROVE  \E x \in T : IsFiniteSet(T \ {x}) /\ Cardinality(T \ {x}) >= n
  <2>1. Cardinality(T) \in Nat /\ Cardinality(T) # 0
    BY <1>1, FS_CardinalityType
  <2>2. PICK x \in T : TRUE
    BY <1>1, <2>1, FS_EmptySet
  <2>3. IsFiniteSet(T \ {x}) /\ Cardinality(T \ {x}) = Cardinality(T) - 1
    BY <1>1, <2>2, FS_RemoveElement
  <2>4. Cardinality(T) - 1 >= n
    BY <1>1, <2>1
  <2>5. Cardinality(T \ {x}) >= n
    BY <2>3, <2>4
  <2>6. QED BY <2>2, <2>3, <2>5
<1>2. PICK a \in S : IsFiniteSet(S \ {a}) /\ Cardinality(S \ {a}) >= 4
  BY <1>1, 5 = 4 + 1
<1> DEFINE A == S \ {a}
<1> HIDE DEF A
<1>3. IsFiniteSet(A) /\ Cardinality(A) >= 4
  BY <1>2 DEF A
<1>4. PICK b \in A : IsFiniteSet(A \ {b}) /\ Cardinality(A \ {b}) >= 3
  BY <1>1, <1>3, 4 = 3 + 1
<1> DEFINE B == A \ {b}
<1> HIDE DEF B
<1>5. IsFiniteSet(B) /\ Cardinality(B) >= 3
  BY <1>4 DEF B
<1>6. PICK c \in B : IsFiniteSet(B \ {c}) /\ Cardinality(B \ {c}) >= 2
  BY <1>1, <1>5, 3 = 2 + 1
<1> DEFINE C == B \ {c}
<1> HIDE DEF C
<1>7. IsFiniteSet(C) /\ Cardinality(C) >= 2
  BY <1>6 DEF C
<1>8. PICK d \in C : IsFiniteSet(C \ {d}) /\ Cardinality(C \ {d}) >= 1
  BY <1>1, <1>7, 2 = 1 + 1
<1>9. PICK e \in C \ {d} : TRUE
  BY <1>1, <1>8, 1 = 0 + 1
<1>10. QED BY <1>2, <1>4, <1>6, <1>8, <1>9 DEF A, B, C

\* Five values make a set of five.
LEMMA CountingFive ==
    ASSUME NEW a, NEW b, NEW c, NEW d, NEW e,
           a # b, a # c, a # d, a # e, b # c, b # d, b # e, c # d, c # e, d # e
    PROVE  IsFiniteSet({a, b, c, d, e}) /\ Cardinality({a, b, c, d, e}) = 5
<1>1. IsFiniteSet({a}) /\ Cardinality({a}) = 1
  BY FS_Singleton
<1>2. IsFiniteSet({a, b}) /\ Cardinality({a, b}) = 2
  BY <1>1, FS_AddElement, {a, b} = {a} \cup {b}
<1>3. IsFiniteSet({a, b, c}) /\ Cardinality({a, b, c}) = 3
  BY <1>2, FS_AddElement, {a, b, c} = {a, b} \cup {c}
<1>4. IsFiniteSet({a, b, c, d}) /\ Cardinality({a, b, c, d}) = 4
  BY <1>3, FS_AddElement, {a, b, c, d} = {a, b, c} \cup {d}
<1>5. QED BY <1>4, FS_AddElement, {a, b, c, d, e} = {a, b, c, d} \cup {e}

\* A new workspace gets a role of its own for each of the default ones.
LEMMA RolesChosen ==
    ASSUME Cardinality(FreeRoles) >= Cardinality(DOMAIN DefaultRoles)
    PROVE  /\ NewRoles \in [DOMAIN DefaultRoles -> FreeRoles]
           /\ \A m, n \in DOMAIN DefaultRoles : NewRoles[m] = NewRoles[n] => m = n
<1> DEFINE D == DOMAIN DefaultRoles
           chosen == CHOOSE R \in kSubset(Cardinality(D), FreeRoles) : TRUE
<1>1. D = {"Owner", "Admin", "Manager", "Staff", "Viewer"}
  BY DEF DefaultRoles
<1>2. Cardinality(D) = 5
  <2> HIDE DEF D
  <2>1. Cardinality({"Owner", "Admin", "Manager", "Staff", "Viewer"}) = 5
    BY CountingFive
  <2>2. QED BY <1>1, <2>1
<1>3. IsFiniteSet(FreeRoles)
  <2>1. FreeRoles \subseteq Roles
    BY DEF FreeRoles, Unused
  <2>2. QED BY <2>1, DemoAssumption, FS_Subset DEF DemoAssumption
<1>4. \E R \in SUBSET FreeRoles : IsFiniteSet(R) /\ Cardinality(R) = 5
  <2>1. Cardinality(FreeRoles) >= 5
    BY <1>2
  <2>2. PICK a \in FreeRoles, b \in FreeRoles, c \in FreeRoles, d \in FreeRoles,
             e \in FreeRoles :
               /\ a # b /\ a # c /\ a # d /\ a # e
               /\ b # c /\ b # d /\ b # e
               /\ c # d /\ c # e
               /\ d # e
    BY <1>3, <2>1, FiveElements
  <2>3. IsFiniteSet({a, b, c, d, e}) /\ Cardinality({a, b, c, d, e}) = 5
    BY <2>2, CountingFive
  <2>4. QED BY <2>2, <2>3
<1>5. NewRoles = CHOOSE ids \in [D -> chosen] : \A m, n \in D : ids[m] = ids[n] => m = n
  BY DEF NewRoles
<1>6. chosen \in kSubset(Cardinality(D), FreeRoles)
  BY <1>2, <1>4 DEF kSubset
<1> HIDE DEF D, chosen
<1>7. chosen \subseteq FreeRoles /\ Cardinality(chosen) = 5
  BY <1>2, <1>6 DEF kSubset
<1>8. IsFiniteSet(chosen)
  BY <1>3, <1>7, FS_Subset
<1>9. \E ids \in [D -> chosen] : \A m, n \in D : ids[m] = ids[n] => m = n
  <2>1. PICK a \in chosen, b \in chosen, c \in chosen, d \in chosen, e \in chosen :
               /\ a # b /\ a # c /\ a # d /\ a # e
               /\ b # c /\ b # d /\ b # e
               /\ c # d /\ c # e
               /\ d # e
    BY <1>7, <1>8, FiveElements
  <2> DEFINE ids == [n \in D |-> IF n = "Owner" THEN a ELSE IF n = "Admin" THEN b
                                 ELSE IF n = "Manager" THEN c ELSE IF n = "Staff" THEN d ELSE e]
  <2>2. ids \in [D -> chosen]
    BY <2>1
  <2>3. ASSUME NEW m \in D, NEW n \in D, ids[m] = ids[n]
        PROVE  m = n
    BY <1>1, <2>1, <2>3
  <2>4. QED BY <2>2, <2>3
<1>10. NewRoles \in [D -> chosen] /\ \A m, n \in D : NewRoles[m] = NewRoles[n] => m = n
  BY <1>5, <1>9
<1>11. NewRoles \in [D -> FreeRoles]
  BY <1>7, <1>10
<1>12. QED BY <1>10, <1>11 DEF D

\* All that a demo held goes with it, and nothing else.
LEMMA Destroying ==
    ASSUME Typed, NEW org, org \in DOMAIN db.orgs => db.orgs[org].demo, NEW tables,
           tables = WithoutOrganization(org), DOMAIN db' = TableNames,
           \A n \in TableNames \ {"lock"} : db'[n] = tables[n], db'.lock \in OrNone(Requests)
    PROVE  TypedNext /\ Grows
<1> DEFINE accounts == AccountsOf(org)
           roles == RolesOf(org)
           files == FilesOf(org)
           sessions == {s \in DOMAIN db.sessions : db.sessions[s].account \in accounts}
           resets == {r \in DOMAIN db.resets : db.resets[r].account \in accounts}
           records == {k \in DOMAIN db.records : k[1] = org}
           Others(table) == Without(table, {x \in DOMAIN table : table[x].org = org})
           left == [db EXCEPT
              !.orgs = Without(@, {org}), !.accounts = Without(@, accounts),
              !.roles = Without(@, roles),
              !.sessions = Without(@, {s \in DOMAIN @ : @[s].account \in accounts}),
              !.resets = Without(@, {r \in DOMAIN @ : @[r].account \in accounts}),
              !.invitations = Others(@), !.entities = Others(@),
              !.attachments = Without(@, files),
              !.records = Without(@, {k \in DOMAIN @ : k[1] = org}),
              !.templates = Others(@), !.mailboxes = Others(@), !.threads = Others(@),
              !.messages = Others(@), !.mailFiles = Others(@)]
<1>1. tables = Deleting(left)
  BY DEF WithoutOrganization
<1>2. DOMAIN left = TableNames /\ left.gone = db.gone
  BY DEF Typed, TableNames
<1>3. /\ left.today = db.today /\ left.lapses = db.lapses /\ left.reserved = db.reserved
      /\ left.stored = db.stored /\ left.server = db.server /\ left.mailJobs = db.mailJobs
      /\ left.syncs = db.syncs
      /\ left.orgs = Without(db.orgs, {org}) /\ left.accounts = Without(db.accounts, accounts)
      /\ left.roles = Without(db.roles, roles) /\ left.sessions = Without(db.sessions, sessions)
      /\ left.resets = Without(db.resets, resets) /\ left.attachments = Without(db.attachments, files)
      /\ left.records = Without(db.records, records)
  BY DEF Typed, TableNames
<1>4. /\ left.invitations = Others(db.invitations) /\ left.entities = Others(db.entities)
      /\ left.templates = Others(db.templates) /\ left.mailboxes = Others(db.mailboxes)
      /\ left.threads = Others(db.threads) /\ left.messages = Others(db.messages)
      /\ left.mailFiles = Others(db.mailFiles)
  BY DEF Typed, TableNames
<1> HIDE DEF left
<1>5. /\ DOMAIN tables = TableNames /\ db.gone \subseteq tables.gone
      /\ \A n \in TableNames \ {"gone"} : tables[n] = left[n]
  BY <1>1, <1>2, DeletingTables
<1>6. db.gone \subseteq db'.gone /\ \A n \in TableNames \ {"gone", "lock"} : db'[n] = left[n]
  BY <1>5 DEF TableNames
<1>7. /\ db'.today = db.today /\ db'.lapses = db.lapses /\ db'.reserved = db.reserved
      /\ db'.stored = db.stored /\ db'.server = db.server /\ db'.mailJobs = db.mailJobs
      /\ db'.syncs = db.syncs
      /\ db'.orgs = Without(db.orgs, {org}) /\ db'.accounts = Without(db.accounts, accounts)
      /\ db'.roles = Without(db.roles, roles) /\ db'.sessions = Without(db.sessions, sessions)
      /\ db'.resets = Without(db.resets, resets) /\ db'.attachments = Without(db.attachments, files)
      /\ db'.records = Without(db.records, records)
  BY <1>3, <1>6 DEF TableNames
<1>8. /\ db'.invitations = Others(db.invitations) /\ db'.entities = Others(db.entities)
      /\ db'.templates = Others(db.templates) /\ db'.mailboxes = Others(db.mailboxes)
      /\ db'.threads = Others(db.threads) /\ db'.messages = Others(db.messages)
      /\ db'.mailFiles = Others(db.mailFiles)
  BY <1>4, <1>6 DEF TableNames
<1>9. RowsOK(db')
  <2> HIDE DEF accounts, roles, files, sessions, resets, records
  <2>1. AccountRowsOK(db')
    BY <1>7, <1>8, Removing DEF Typed, RowsOK, AccountRowsOK
  <2>2. AttachmentRowsOK(db')
    BY <1>7, <1>8, Removing DEF Typed, RowsOK, AttachmentRowsOK
  <2>3. DemoRowsOK(db')
    <3>1. RowsOf(db'.records, (DOMAIN db'.orgs) \X Resources, RecordCount)
      BY <1>7 DEF records, Typed, RowsOK, DemoRowsOK, RowsOf, Without
    <3>2. RowsOf(db'.orgs, Orgs, OrgRow)
      BY <1>7, Removing DEF Typed, RowsOK, DemoRowsOK
    <3>3. QED BY <1>7, <3>1, <3>2 DEF Typed, RowsOK, DemoRowsOK
  <2>4. MailRowsOK(db')
    BY <1>7, <1>8, Removing DEF Typed, RowsOK, MailRowsOK
  <2>5. MailboxRowsOK(db')
    BY <1>7, <1>8, Removing DEF Typed, RowsOK, MailboxRowsOK
  <2>6. QED BY <2>1, <2>2, <2>3, <2>4, <2>5 DEF RowsOK
<1>10. AccountReferencesOK(db')
  <2>1. AccountReferencesOK(db)
    BY DEF Typed
  <2>2. ASSUME NEW a \in DOMAIN db'.accounts
        PROVE  db'.accounts[a].org \in DOMAIN db'.orgs
    <3>1. /\ a \in DOMAIN db.accounts /\ a \notin accounts
          /\ db'.accounts[a] = db.accounts[a]
      <4> HIDE DEF accounts
      <4> QED BY <1>7 DEF Without
    <3>2. db.accounts[a].org # org /\ db.accounts[a].org \in DOMAIN db.orgs
      BY <2>1, <3>1 DEF AccountReferencesOK, AccountsOf, OrgOf
    <3>3. QED BY <1>7, <3>1, <3>2 DEF Without
  <2>3. \A s \in DOMAIN db'.sessions : db'.sessions[s].account \in DOMAIN db'.accounts
    <3> HIDE DEF accounts
    <3> QED BY <1>7, <2>1 DEF AccountReferencesOK, Without
  <2>4. \A r \in DOMAIN db'.resets : db'.resets[r].account \in DOMAIN db'.accounts
    <3> HIDE DEF accounts
    <3> QED BY <1>7, <2>1 DEF AccountReferencesOK, Without
  <2>5. QED BY <2>2, <2>3, <2>4 DEF AccountReferencesOK
<1>11. /\ DOMAIN db'.mailboxes = DOMAIN db.mailboxes /\ DOMAIN db'.threads = DOMAIN db.threads
       /\ \A m \in DOMAIN db.mailboxes : db'.mailboxes[m] = db.mailboxes[m]
       /\ \A t \in DOMAIN db.threads : db'.threads[t] = db.threads[t]
  <2>1. \A m \in DOMAIN db.mailboxes : db.mailboxes[m].org # org
    BY DEF Typed, MailReferencesOK
  <2>2. \A t \in DOMAIN db.threads : db.threads[t].org # org
    BY DEF Typed, MailReferencesOK
  <2>3. ASSUME NEW table, \A x \in DOMAIN table : table[x].org # org
        PROVE  /\ DOMAIN Others(table) = DOMAIN table
               /\ \A x \in DOMAIN table : Others(table)[x] = table[x]
    BY <2>3 DEF Without
  <2>4. QED BY <1>8, <2>1, <2>2, <2>3
<1>12. MailReferencesOK(db')
  <2>1. \A x \in DOMAIN db'.messages : x \in DOMAIN db.messages /\ db'.messages[x] = db.messages[x]
                                       /\ db.messages[x].org # org
    BY <1>8 DEF Without
  <2>2. \A o \in DOMAIN db.orgs \ {org} : o \in DOMAIN db'.orgs /\ db'.orgs[o] = db.orgs[o]
    BY <1>7 DEF Without
  <2>3. \A m \in DOMAIN db.mailboxes : db.mailboxes[m].org # org
    BY DEF Typed, MailReferencesOK
  <2>4. \A t \in DOMAIN db.threads : db.threads[t].org # org
    BY DEF Typed, MailReferencesOK
  <2> HIDE DEF Others
  <2>5. ASSUME NEW m \in DOMAIN db'.mailboxes
        PROVE  /\ db'.mailboxes[m].org \in DOMAIN db'.orgs /\ ~db'.orgs[db'.mailboxes[m].org].demo
               /\ <<m, "INBOX">> \in DOMAIN db'.server
    <3>1. m \in DOMAIN db.mailboxes /\ db'.mailboxes[m] = db.mailboxes[m]
      BY <1>11
    <3>2. /\ db.mailboxes[m].org \in DOMAIN db.orgs /\ ~db.orgs[db.mailboxes[m].org].demo
          /\ <<m, "INBOX">> \in DOMAIN db.server
      BY <3>1 DEF Typed, MailReferencesOK
    <3>3. QED BY <1>7, <2>2, <2>3, <3>1, <3>2, ZenonT(40)
  <2>6. \A job \in DOMAIN db'.syncs : job[1] \in DOMAIN db'.mailboxes
    BY <1>7, <1>11 DEF Typed, MailReferencesOK
  <2>7. \A t \in DOMAIN db'.threads :
           db'.threads[t].org \in DOMAIN db'.orgs /\ ~db'.orgs[db'.threads[t].org].demo
    BY <1>11, <2>2, <2>4 DEF Typed, MailReferencesOK
  <2>8. ASSUME NEW x \in DOMAIN db'.messages
        PROVE  LET row == db'.messages[x]
               IN  /\ row.org \in DOMAIN db'.orgs
                   /\ row.thread # None => /\ row.thread \in DOMAIN db'.threads
                                           /\ db'.threads[row.thread].org = row.org
                   /\ row.mailbox # None => /\ row.mailbox \in DOMAIN db'.mailboxes
                                            /\ db'.mailboxes[row.mailbox].org = row.org
    BY <1>11, <2>1, <2>2 DEF Typed, MailReferencesOK
  <2>9. \A box \in DOMAIN db'.server : box[1] \in DOMAIN db'.mailboxes
    BY <1>7, <1>11 DEF Typed, MailReferencesOK
  <2>10. QED BY <2>5, <2>6, <2>7, <2>8, <2>9 DEF MailReferencesOK
<1>13. Grows
  <2>1. \A o \in DOMAIN db'.orgs : o \in DOMAIN db.orgs /\ db'.orgs[o] = db.orgs[o]
    BY <1>7 DEF Without
  <2>2. \A o \in DOMAIN db.orgs \ {org} : o \in DOMAIN db'.orgs /\ db'.orgs[o] = db.orgs[o]
    BY <1>7 DEF Without
  <2>3. ASSUME NEW x \in DOMAIN db.messages, ~db.orgs[db.messages[x].org].demo
        PROVE  x \in DOMAIN db'.messages /\ db'.messages[x] = db.messages[x]
    <3>1. db.messages[x].org # org
      BY <2>3 DEF Typed, MailReferencesOK
    <3>2. QED BY <1>8, <3>1 DEF Without
  <2>4. QED BY <1>7, <1>11, <2>1, <2>2, <2>3, FolderUnchanged DEF Grows, SameMail
<1>14. SentOK(db') /\ ThreadsOK(db') /\ CursorsOK(db')
  <2>1. \A x \in DOMAIN db'.messages : x \in DOMAIN db.messages /\ db'.messages[x] = db.messages[x]
    BY <1>8 DEF Without
  <2>2. CursorsOK(db')
    BY <1>7, <1>11, <1>13, CursorsUnchanged
  <2>3. QED BY <1>11, <2>1, <2>2 DEF Typed, SentOK, ThreadsOK
<1>15. QED BY <1>5, <1>6, <1>9, <1>10, <1>12, <1>13, <1>14 DEF TypedNext

\* The tables of the accounts change, and no others.
LEMMA AccountFrame ==
    ASSUME Typed, Kept(AccountTables), AccountRowsOK(db'), AccountReferencesOK(db')
    PROVE  TypedNext /\ Grows /\ db'.orgs = db.orgs
<1>1. /\ db'.orgs = db.orgs /\ db'.lock = db.lock /\ db'.entities = db.entities
      /\ db'.attachments = db.attachments /\ db'.records = db.records /\ db'.today = db.today
      /\ db'.reserved = db.reserved /\ db'.stored = db.stored
      /\ db'.lapses = db.lapses /\ db'.templates = db.templates /\ db'.mailboxes = db.mailboxes
      /\ db'.server = db.server /\ db'.messages = db.messages /\ db'.threads = db.threads
      /\ db'.mailJobs = db.mailJobs /\ db'.syncs = db.syncs /\ db'.mailFiles = db.mailFiles
  BY DEF Kept, TableNames, AccountTables
<1>2. RowsOK(db')
  BY <1>1 DEF Typed, RowsOK, AttachmentRowsOK, DemoRowsOK, MailRowsOK, MailboxRowsOK
<1>3. MailReferencesOK(db')
  BY <1>1 DEF Typed, MailReferencesOK
<1>4. Grows
  BY <1>1, FolderUnchanged DEF Grows, SameMail
<1>5. SentOK(db') /\ ThreadsOK(db') /\ CursorsOK(db')
  BY <1>1, <1>4, CursorsUnchanged DEF Typed, SentOK, ThreadsOK
<1>6. QED BY <1>1, <1>2, <1>3, <1>4, <1>5 DEF TypedNext, Kept

\* So do those of the attachments.
LEMMA AttachmentFrame ==
    ASSUME Typed, Kept(AttachmentTables), AttachmentRowsOK(db')
    PROVE  TypedNext /\ Grows /\ db'.orgs = db.orgs
<1>1. /\ db'.accounts = db.accounts /\ db'.roles = db.roles /\ db'.orgs = db.orgs
      /\ db'.sessions = db.sessions /\ db'.resets = db.resets /\ db'.lock = db.lock
      /\ db'.invitations = db.invitations
      /\ db'.records = db.records /\ db'.today = db.today
      /\ db'.lapses = db.lapses /\ db'.templates = db.templates /\ db'.mailboxes = db.mailboxes
      /\ db'.server = db.server /\ db'.messages = db.messages /\ db'.threads = db.threads
      /\ db'.mailJobs = db.mailJobs /\ db'.syncs = db.syncs /\ db'.mailFiles = db.mailFiles
  BY DEF Kept, TableNames, AttachmentTables
<1>2. RowsOK(db')
  BY <1>1 DEF Typed, RowsOK, AccountRowsOK, DemoRowsOK, MailRowsOK, MailboxRowsOK
<1>3. AccountReferencesOK(db') /\ MailReferencesOK(db')
  BY <1>1 DEF Typed, AccountReferencesOK, MailReferencesOK
<1>4. Grows
  BY <1>1, FolderUnchanged DEF Grows, SameMail
<1>5. SentOK(db') /\ ThreadsOK(db') /\ CursorsOK(db')
  BY <1>1, <1>4, CursorsUnchanged DEF Typed, SentOK, ThreadsOK
<1>6. QED BY <1>1, <1>2, <1>3, <1>4, <1>5 DEF TypedNext, Kept

LEMMA Unlocking ==
    ASSUME Typed, NEW p \in Requests, NEW tables, DOMAIN tables = TableNames,
           tables.lock \in OrNone(Requests)
    PROVE  /\ DOMAIN Unlocked(p, tables) = TableNames
           /\ \A n \in TableNames \ {"lock"} : Unlocked(p, tables)[n] = tables[n]
           /\ Unlocked(p, tables).lock \in OrNone(Requests)
BY DEF Unlocked, TableNames, OrNone

LEMMA OrganizationDeleted ==
    ASSUME NEW org, DOMAIN db = TableNames
    PROVE  /\ DOMAIN WithoutOrganization(org) = TableNames
           /\ WithoutOrganization(org).lock = db.lock
           /\ WithoutOrganization(org).today = db.today
           /\ WithoutOrganization(org).lapses = db.lapses
           /\ WithoutOrganization(org).reserved = db.reserved
           /\ WithoutOrganization(org).orgs = Without(db.orgs, {org})
           /\ WithoutOrganization(org).records =
                 Without(db.records, {k \in DOMAIN db.records : k[1] = org})
<1> DEFINE accounts == AccountsOf(org)
           sessions == {s \in DOMAIN db.sessions : db.sessions[s].account \in accounts}
           resets == {r \in DOMAIN db.resets : db.resets[r].account \in accounts}
           records == {k \in DOMAIN db.records : k[1] = org}
           Others(table) == Without(table, {x \in DOMAIN table : table[x].org = org})
           first == [db EXCEPT
              !.orgs = Without(@, {org}), !.accounts = Without(@, accounts),
              !.roles = Without(@, RolesOf(org)), !.sessions = Without(@, sessions),
              !.resets = Without(@, resets), !.invitations = Others(@),
              !.entities = Others(@), !.attachments = Without(@, FilesOf(org))]
           left == [first EXCEPT
              !.records = Without(db.records, records), !.templates = Others(db.templates),
              !.mailboxes = Others(db.mailboxes), !.threads = Others(db.threads),
              !.messages = Others(db.messages), !.mailFiles = Others(db.mailFiles)]
<1>1. WithoutOrganization(org) = Deleting(left)
  BY DEF WithoutOrganization
<1> HIDE DEF accounts, sessions, resets, records
<1>2. /\ DOMAIN left = TableNames /\ left.lock = db.lock
      /\ left.today = db.today /\ left.lapses = db.lapses /\ left.reserved = db.reserved
      /\ left.orgs = Without(db.orgs, {org}) /\ left.records = Without(db.records, records)
  <2>1. /\ DOMAIN first = TableNames /\ first.lock = db.lock /\ first.today = db.today
        /\ first.lapses = db.lapses /\ first.reserved = db.reserved
        /\ first.orgs = Without(db.orgs, {org})
    BY DEF TableNames
  <2> HIDE DEF first
  <2>2. QED BY <2>1 DEF TableNames
<1> DEFINE tables == WithoutOrganization(org)
<1> HIDE DEF left
<1>3. /\ DOMAIN tables = TableNames /\ tables.lock = db.lock
      /\ tables.today = db.today /\ tables.lapses = db.lapses /\ tables.reserved = db.reserved
      /\ tables.orgs = Without(db.orgs, {org}) /\ tables.records = Without(db.records, records)
  <2>1. /\ DOMAIN tables = TableNames /\ \A n \in TableNames \ {"gone"} : tables[n] = left[n]
    BY <1>1, <1>2, DeletingTables
  <2> HIDE DEF tables
  <2>2. QED BY <1>2, <2>1 DEF TableNames
<1> HIDE DEF tables
<1>4. QED BY <1>3 DEF tables, records

LEMMA GivingUp ==
    ASSUME Typed, NEW p \in Requests, DemoArgs(request[p], db.orgs),
           request[p].op \in {"demo.seed", "demo.session"}, GiveUpWorkspace(p)
    PROVE  DemoKept(p)
<1> DEFINE org == Arg(p).org
           tables == WithoutOrganization(org)
           unlocked == Unlocked(p, tables)
<1>1. org \in DOMAIN db.orgs => db.orgs[org].demo
  BY DEF DemoArgs
<1>2. DOMAIN tables = TableNames /\ tables.lock \in OrNone(Requests)
  BY OrganizationDeleted DEF Typed, RowsOK, DemoRowsOK
<1>3. Proceed(p, unlocked, "none", None, 1)
  BY DEF GiveUpWorkspace, Release
<1>4. /\ DOMAIN unlocked = TableNames /\ unlocked.lock \in OrNone(Requests)
      /\ \A n \in TableNames \ {"lock"} : unlocked[n] = tables[n]
  BY <1>2, Unlocking
<1> HIDE DEF unlocked, org, tables
<1>5. db' = unlocked /\ Moved(p) /\ request'[p] = [op |-> "none", arg |-> None]
  BY <1>3, Proceeding, ZenonT(40)
<1>6. TypedNext /\ Grows
  <2>1. tables = WithoutOrganization(org)
    BY DEF tables
  <2>2. QED BY <1>1, <1>4, <1>5, <2>1, Destroying
<1>7. QED BY <1>5, <1>6, DemoArgless DEF DemoKept, DemoOps

LEMMA SeedWorkspaceKept ==
    ASSUME Typed, NEW p \in Requests, DemoArgs(request[p], db.orgs), SeedWorkspace(p)
    PROVE  DemoKept(p)
<1>1. CASE GiveUpWorkspace(p)
  BY <1>1, GivingUp DEF SeedWorkspace
<1> DEFINE org == Arg(p).org
           empty == [k \in {org} \X Resources |-> [created |-> 0, derived |-> 0]]
           records == Over(empty, db.records)
<1>2. ASSUME org \in DOMAIN db.orgs,
             Proceed(p, [db EXCEPT !.records = records], "demo.session", Arg(p), 0)
      PROVE  DemoKept(p)
  <2>1. RowsOf(records, (DOMAIN db.orgs) \X Resources, RecordCount)
    <3>1. RowsOf(db.records, (DOMAIN db.orgs) \X Resources, RecordCount)
      BY DEF Typed, RowsOK, DemoRowsOK
    <3>2. ASSUME NEW k \in {org} \X Resources
          PROVE  k \in (DOMAIN db.orgs) \X Resources /\ empty[k] \in RecordCount
      BY <1>2, <3>2 DEF RecordCount
    <3> HIDE DEF empty
    <3>3. DOMAIN empty = {org} \X Resources
      BY DEF empty
    <3>4. QED BY <3>1, <3>2, <3>3 DEF RowsOf, Over
  <2> HIDE DEF records
  <2>2. /\ Kept({"records"}) /\ db'.records = records /\ Moved(p)
        /\ request'[p] = [op |-> "demo.session", arg |-> Arg(p)]
    <3> DEFINE tables == [db EXCEPT !.records = records]
    <3>1. /\ DOMAIN tables = TableNames /\ tables.records = records
          /\ \A n \in TableNames \ {"records"} : tables[n] = db[n]
      BY DEF Typed, TableNames
    <3> HIDE DEF tables
    <3>2. db' = tables /\ Moved(p) /\ request'[p] = [op |-> "demo.session", arg |-> Arg(p)]
      <4>1. Proceed(p, tables, "demo.session", Arg(p), 0)
        BY <1>2 DEF tables
      <4>2. QED BY <4>1, Proceeding, ZenonT(40)
    <3>3. QED BY <3>1, <3>2 DEF Kept, TableNames
  <2>3. request'[p].op \in DemoOps /\ DemoArgs(request'[p], db.orgs)
    <3>1. At(p, "demo.seed") \/ At(p, "demo.session")
      BY DEF SeedWorkspace
    <3>2. QED BY <2>2, <3>1 DEF DemoOps, DemoArgs
  <2>4. QED BY <2>1, <2>2, <2>3, RecordsWritten
<1>3. QED BY <1>1, <1>2 DEF SeedWorkspace

LEMMA OpenWorkspaceKept ==
    ASSUME Typed, NEW p \in Requests, DemoArgs(request[p], db.orgs), OpenWorkspace(p)
    PROVE  DemoKept(p)
<1>1. CASE GiveUpWorkspace(p)
  BY <1>1, GivingUp DEF OpenWorkspace
<1> DEFINE s == Fresh(Unused(Sessions), db.sessions)
           row == [account |-> Arg(p).owner, expires |-> db.orgs[Arg(p).org].expires,
                   revoked |-> FALSE, password |-> 1, raced |-> FALSE]
           sessions == Insert(db.sessions, s, row)
           tables == [db EXCEPT !.sessions = sessions]
<1>2. ASSUME HasRoom(Unused(Sessions), db.sessions), Arg(p).org \in DOMAIN db.orgs,
             Arg(p).owner \in DOMAIN db.accounts,
             Proceed(p, tables, "demo.done", Arg(p).previous, 0)
      PROVE  DemoKept(p)
  <2>1. s \in Sessions
    BY <1>2, Choosing
  <2>2. row \in SessionRow /\ row.account \in DOMAIN db.accounts
    <3>1. db.orgs[Arg(p).org].expires \in Nat /\ Arg(p).owner \in Accounts
      BY <1>2 DEF Typed, RowsOK, AccountRowsOK, DemoRowsOK, RowsOf, OrgRow
    <3>2. QED BY <1>2, <3>1 DEF SessionRow, OrNone
  <2> HIDE DEF s, row
  <2>3. RowsOf(sessions, Sessions, SessionRow)
    BY <2>1, <2>2, Inserting DEF Typed, RowsOK, AccountRowsOK
  <2>4. \A x \in DOMAIN sessions : sessions[x].account \in DOMAIN db.accounts
    BY <2>2 DEF Insert, Typed, AccountReferencesOK
  <2> HIDE DEF sessions
  <2>5. /\ DOMAIN tables = TableNames /\ tables.sessions = sessions
        /\ \A n \in TableNames \ {"sessions"} : tables[n] = db[n]
    BY DEF Typed, TableNames
  <2> HIDE DEF tables
  <2>6. db' = tables /\ Moved(p) /\ request'[p] = [op |-> "demo.done", arg |-> Arg(p).previous]
    BY <1>2, Proceeding, ZenonT(40)
  <2>7. /\ Kept(AccountTables) /\ db'.sessions = sessions /\ db'.accounts = db.accounts
        /\ db'.roles = db.roles /\ db'.resets = db.resets /\ db'.invitations = db.invitations
        /\ db'.orgs = db.orgs
    BY <2>5, <2>6 DEF Kept, AccountTables, TableNames
  <2>8. AccountRowsOK(db') /\ AccountReferencesOK(db')
    BY <2>3, <2>4, <2>7 DEF Typed, RowsOK, AccountRowsOK, AccountReferencesOK
  <2>9. QED BY <2>6, <2>7, <2>8, AccountFrame, DemoArgless DEF DemoKept, DemoOps
<1>3. QED BY <1>1, <1>2 DEF OpenWorkspace

LEMMA BootstrapKept ==
    ASSUME Typed, NEW p \in Requests, DemoArgs(request[p], db.orgs), BootstrapWorkspace(p)
    PROVE  DemoKept(p)
<1>1. CASE Release(p, db, "none", None, 1)
  BY <1>1, DemoReleased DEF DemoOps
<1> DEFINE org == Fresh(Unused(Orgs), db.orgs)
           owner == Fresh(Unused(Accounts), db.accounts)
           row == [active |-> TRUE, demo |-> TRUE, expires |-> db.today + WorkspaceDays,
                   sender |-> FALSE]
           email == CHOOSE e \in Emails : EmailFree(e)
           names == DOMAIN DefaultRoles
           added == [r \in {NewRoles[n] : n \in names} |->
                        [org |-> org, name |-> CHOOSE n \in names : NewRoles[n] = r,
                         system |-> TRUE, permissions |-> {}]]
           account == [org |-> org, email |-> email, status |-> "ACTIVE", password |-> 1,
                       roles |-> {NewRoles["Owner"]}]
           orgs == Insert(db.orgs, org, row)
           roles == Over(added, db.roles)
           accounts == Insert(db.accounts, owner, account)
           tables == [db EXCEPT !.orgs = orgs, !.roles = roles, !.accounts = accounts]
           arg == [org |-> org, owner |-> owner, previous |-> Arg(p)]
<1>2. ASSUME HasRoom(Unused(Orgs), db.orgs), HasRoom(Unused(Accounts), db.accounts),
             Cardinality(FreeRoles) >= Cardinality(DOMAIN DefaultRoles),
             \E e \in Emails : EmailFree(e), Proceed(p, tables, "demo.identity", arg, 0)
      PROVE  DemoKept(p)
  <2>1. org \in Orgs /\ org \notin DOMAIN db.orgs /\ owner \in Accounts
    BY <1>2, Choosing
  <2>2. NewRoles \in [names -> Roles]
    BY <1>2, RolesChosen DEF FreeRoles, Unused
  <2>3. "Owner" \in names
    BY DEF DefaultRoles
  <2>4. email \in Emails
    BY <1>2
  <2>5. row \in OrgRow /\ row.demo
    BY DemoAssumption DEF OrgRow, Typed, RowsOK, DemoRowsOK
  <2> HIDE DEF org, owner, email, names, row
  <2>6. account \in AccountRow /\ account.org = org
    BY <2>1, <2>2, <2>3, <2>4 DEF AccountRow, OrNone, Statuses
  <2>7. ASSUME NEW r \in DOMAIN added
        PROVE  r \in Roles /\ added[r] \in RoleRow
    <3>1. PICK n \in names : NewRoles[n] = r
      BY <2>7
    <3>2. (CHOOSE m \in names : NewRoles[m] = r) \in names
      BY <3>1
    <3>3. names \subseteq RoleNames
      BY AccountsAssumption DEF names, AccountsAssumption
    <3>4. {} \in SUBSET AllPermissions
      OBVIOUS
    <3>5. r \in Roles
      BY <2>2, <3>1
    <3> DEFINE name == CHOOSE m \in names : NewRoles[m] = r
    <3>6. name \in RoleNames
      BY <3>2, <3>3
    <3>7. added[r] = [org |-> org, name |-> name, system |-> TRUE, permissions |-> {}]
      BY <2>7
    <3> HIDE DEF added, name
    <3>8. QED BY <2>1, <3>4, <3>5, <3>6, <3>7 DEF RoleRow
  <2> HIDE DEF added, account
  <2>8. RowsOf(orgs, Orgs, OrgRow) /\ RowsOf(accounts, Accounts, AccountRow)
    BY <2>1, <2>5, <2>6, Inserting DEF Typed, RowsOK, AccountRowsOK, DemoRowsOK
  <2>9. RowsOf(roles, Roles, RoleRow)
    BY <2>7 DEF RowsOf, Over, Typed, RowsOK, AccountRowsOK
  <2>10. /\ DOMAIN db.orgs \subseteq DOMAIN orgs /\ DOMAIN orgs = DOMAIN db.orgs \cup {org}
         /\ \A o \in DOMAIN db.orgs : orgs[o] = db.orgs[o]
         /\ orgs[org] = row
    BY <2>1 DEF Insert
  <2>11. /\ \A a \in DOMAIN accounts : accounts[a].org \in DOMAIN orgs
         /\ DOMAIN db.accounts \subseteq DOMAIN accounts
    <3>1. \A a \in DOMAIN accounts : accounts[a].org \in DOMAIN db.orgs \cup {org}
      BY <2>6 DEF Insert, Typed, AccountReferencesOK
    <3>2. QED BY <2>10, <3>1 DEF Insert
  <2> HIDE DEF orgs, roles, accounts, arg
  <2>12. /\ DOMAIN tables = TableNames /\ tables.orgs = orgs /\ tables.roles = roles
         /\ tables.accounts = accounts
         /\ \A n \in TableNames \ {"orgs", "roles", "accounts"} : tables[n] = db[n]
    BY DEF Typed, TableNames
  <2> HIDE DEF tables
  <2>13. db' = tables /\ Moved(p) /\ request'[p] = [op |-> "demo.identity", arg |-> arg]
    BY <1>2, Proceeding
  <2>14. /\ db'.orgs = orgs /\ db'.roles = roles /\ db'.accounts = accounts
         /\ db'.lock = db.lock /\ db'.gone = db.gone
         /\ db'.sessions = db.sessions /\ db'.resets = db.resets
         /\ db'.invitations = db.invitations /\ db'.entities = db.entities
         /\ db'.attachments = db.attachments /\ db'.records = db.records /\ db'.today = db.today
         /\ db'.reserved = db.reserved /\ db'.stored = db.stored
         /\ db'.lapses = db.lapses /\ db'.templates = db.templates /\ db'.mailboxes = db.mailboxes
         /\ db'.server = db.server /\ db'.messages = db.messages /\ db'.threads = db.threads
         /\ db'.mailJobs = db.mailJobs /\ db'.syncs = db.syncs /\ db'.mailFiles = db.mailFiles
    BY <2>12, <2>13 DEF TableNames
  <2>15. RowsOK(db')
    <3>1. DemoRowsOK(db')
      <4>1. RowsOf(db.records, (DOMAIN orgs) \X Resources, RecordCount)
        BY <2>10 DEF Typed, RowsOK, DemoRowsOK, RowsOf
      <4>2. QED BY <2>8, <2>14, <4>1 DEF Typed, RowsOK, DemoRowsOK
    <3>2. AccountRowsOK(db')
      BY <2>8, <2>9, <2>14 DEF Typed, RowsOK, AccountRowsOK
    <3>3. QED BY <2>14, <3>1, <3>2 DEF Typed, RowsOK, AttachmentRowsOK, MailRowsOK, MailboxRowsOK
  <2>16. AccountReferencesOK(db')
    BY <2>11, <2>14 DEF Typed, AccountReferencesOK
  <2>17. MailReferencesOK(db')
    BY <2>10, <2>14, SMTT(40) DEF Typed, MailReferencesOK
  <2>18. Grows
    BY <2>5, <2>10, <2>14, FolderUnchanged DEF Grows, SameMail
  <2>19. request'[p].op \in DemoOps /\ DemoArgs(request'[p], orgs)
    <3>1. arg.org = org /\ arg.owner = owner
      BY DEF arg
    <3>2. QED BY <2>1, <2>5, <2>10, <2>13, <3>1 DEF DemoOps, DemoArgs
  <2>20. SentOK(db') /\ ThreadsOK(db') /\ CursorsOK(db')
    BY <2>14, <2>18, CursorsUnchanged DEF Typed, SentOK, ThreadsOK
  <2>21. QED BY <2>13, <2>12, <2>14, <2>15, <2>16, <2>17, <2>18, <2>19, <2>20 DEF DemoKept, TypedNext
<1>3. Release(p, db, "none", None, 1)
      \/ /\ HasRoom(Unused(Orgs), db.orgs) /\ HasRoom(Unused(Accounts), db.accounts)
         /\ Cardinality(FreeRoles) >= Cardinality(DOMAIN DefaultRoles)
         /\ \E e \in Emails : EmailFree(e)
         /\ Proceed(p, tables, "demo.identity", arg, 0)
  BY DEF BootstrapWorkspace, WithOrganization
<1>4. QED BY <1>1, <1>2, <1>3

LEMMA DemoMoved ==
    ASSUME Typed, NEW p \in Requests, NEW op \in {"demo.destroy", "demo.files"}, NEW arg,
           db' = db, Moved(p), request'[p] = [op |-> op, arg |-> arg]
    PROVE  DemoKept(p)
<1>1. request'[p].op \in DemoOps /\ DemoArgs(request'[p], db.orgs)
  BY DEF DemoOps, DemoArgs
<1>2. QED BY <1>1, DemoUnchanged

LEMMA DestroyNextKept ==
    ASSUME Typed, NEW p \in Requests, DemoArgs(request[p], db.orgs),
           CleanupDemos(p) \/ DestroyNext(p)
    PROVE  DemoKept(p)
<1>1. ASSUME NEW op \in {"demo.destroy", "demo.files"}, NEW arg, Continue(p, op, arg)
      PROVE  DemoKept(p)
  <2>1. db' = db /\ Moved(p) /\ request'[p] = [op |-> op, arg |-> arg]
    BY <1>1, Continuing
  <2>2. QED BY <2>1, DemoMoved
<1>2. CASE CleanupDemos(p)
  <2>1. PICK arg : Begin(p, "demo.destroy", arg)
    BY <1>2 DEF CleanupDemos
  <2>2. Kept({"rates"}) /\ Moved(p) /\ request'[p] = [op |-> "demo.destroy", arg |-> arg]
    BY <2>1, Calling
  <2>3. request'[p].op \in DemoOps /\ DemoArgs(request'[p], db.orgs)
    BY <2>2 DEF DemoOps, DemoArgs
  <2>4. QED BY <2>2, <2>3, DemoCalled
<1>3. CASE DestroyNext(p)
  <2>1. Reject(p) \/ \E arg : Continue(p, "demo.destroy", arg) \/ Continue(p, "demo.files", arg)
    BY <1>3 DEF DestroyNext
  <2>2. CASE Reject(p)
    BY <2>2, Rejecting, DemoArgless, DemoUnchanged DEF DemoOps
  <2>3. QED BY <1>1, <2>1, <2>2
<1>4. QED BY <1>2, <1>3

LEMMA DestroyFilesKept ==
    ASSUME Typed, NEW p \in Requests, DemoArgs(request[p], db.orgs), DestroyFiles(p)
    PROVE  DemoKept(p)
<1> DEFINE arg == Arg(p)
           rest == [orgs |-> arg.orgs, day |-> arg.day]
<1>1. ASSUME NEW f, NEW next, Proceed(p, [db EXCEPT !.stored = @ \ {f}], "demo.files", next, 0)
      PROVE  DemoKept(p)
  <2> DEFINE tables == [db EXCEPT !.stored = @ \ {f}]
  <2>1. /\ DOMAIN tables = TableNames /\ tables.stored = db.stored \ {f}
        /\ \A n \in TableNames \ {"stored"} : tables[n] = db[n]
    BY DEF Typed, TableNames
  <2>2. Proceed(p, tables, "demo.files", next, 0)
    BY <1>1
  <2> HIDE DEF tables
  <2>3. db' = tables /\ Moved(p) /\ request'[p] = [op |-> "demo.files", arg |-> next]
    BY <2>2, Proceeding
  <2>4. /\ Kept({"rates", "stored", "reserved", "lock"}) /\ db'.reserved = db.reserved
        /\ db'.stored \subseteq Files /\ db'.lock \in OrNone(Requests)
    BY <2>1, <2>3 DEF Kept, TableNames, Typed, RowsOK, AttachmentRowsOK, DemoRowsOK
  <2>5. RowsOf(db'.reserved, Orgs \X DOMAIN Quota, Nat)
    BY <2>4 DEF Typed, RowsOK, AttachmentRowsOK
  <2>6. QED BY <2>3, <2>4, <2>5, DemoQuiet, DemoArgless DEF DemoOps
<1>2. ASSUME NEW faults, NEW next, Proceed(p, db, "demo.destroy", next, faults)
      PROVE  DemoKept(p)
  <2>1. db' = db /\ Moved(p) /\ request'[p] = [op |-> "demo.destroy", arg |-> next]
    BY <1>2, Proceeding
  <2>2. QED BY <2>1, DemoMoved
<1>3. ASSUME Doomed(arg.org, arg.day), NEW next,
             Proceed(p, WithoutOrganization(arg.org), "demo.destroy", next, 0)
      PROVE  DemoKept(p)
  <2> DEFINE org == arg.org
             tables == WithoutOrganization(org)
  <2>1. org \in DOMAIN db.orgs => db.orgs[org].demo
    BY <1>3 DEF Doomed, ExpiredDemos, Demos
  <2>2. Proceed(p, tables, "demo.destroy", next, 0)
    BY <1>3
  <2>3. DOMAIN tables = TableNames /\ tables.lock \in OrNone(Requests)
    BY OrganizationDeleted DEF Typed, RowsOK, DemoRowsOK
  <2> HIDE DEF org
  <2>4. tables = WithoutOrganization(org)
    OBVIOUS
  <2> HIDE DEF tables
  <2>5. db' = tables /\ Moved(p) /\ request'[p] = [op |-> "demo.destroy", arg |-> next]
    BY <2>2, Proceeding
  <2>6. TypedNext /\ Grows
    BY <2>1, <2>3, <2>4, <2>5, Destroying
  <2>7. QED BY <2>5, <2>6, DemoArgless DEF DemoKept, DemoOps
<1>4. \/ \E f \in arg.files :
            \/ Proceed(p, [db EXCEPT !.stored = @ \ {f}], "demo.files", [arg EXCEPT !.files = @ \ {f}], 0)
            \/ Proceed(p, db, "demo.destroy", rest, 1)
      \/ Proceed(p, db, "demo.destroy", rest, 0)
      \/ /\ Doomed(arg.org, arg.day)
         /\ Proceed(p, WithoutOrganization(arg.org), "demo.destroy", rest, 0)
  BY DEF DestroyFiles
<1> HIDE DEF arg, rest
<1>5. QED BY <1>1, <1>2, <1>3, <1>4

LEMMA DemoStepKept ==
    ASSUME Typed, NEW p \in Requests, DemoArgs(request[p], db.orgs), DemoStep(p)
    PROVE  DemoKept(p)
BY StartDemoKept, LockKept, SetIdentityKept, CreateRecordKept, SeedWorkspaceKept, OpenWorkspaceKept,
   BootstrapKept, DestroyNextKept, DestroyFilesKept DEF DemoStep
=============================================================================
