------------------------------ MODULE Accounts ------------------------------
(***************************************************************************)
(* Sessions, passwords, users, invitations and roles:                      *)
(* apps/api/src/auth/auth.service.ts, auth-maintenance.service.ts, users   *)
(* and roles.                                                              *)
(*                                                                         *)
(* A password is a version, None before there is one.  A session remembers *)
(* which version opened it, and in `raced` that the password or the status *)
(* of its account changed while the login was under way: the program       *)
(* remembers neither.  The token of an invitation is a version too.  The   *)
(* e-mails that carry the tokens are announced.                            *)
(***************************************************************************)
EXTENDS AccessControl

CONSTANTS Emails, Resets, Invitations, RoleNames,
          Grants,      \* the sets of permissions that roles are given
          SessionDays, \* SESSION_TTL_SECONDS
          TokenDays    \* PASSWORD_RESET_TTL_SECONDS, INVITATION_TTL_SECONDS

ASSUME AccountsAssumption ==
    /\ SessionDays \in Nat /\ TokenDays \in Nat
    /\ Grants \subseteq SUBSET AllPermissions /\ DOMAIN DefaultRoles \subseteq RoleNames

Statuses == {"INVITED", "ACTIVE", "SUSPENDED", "DISABLED"}
AccountRow == [org : Orgs, email : Emails, status : Statuses, password : OrNone(Nat),
               roles : SUBSET Roles]
RoleRow == [org : Orgs, name : RoleNames, system : BOOLEAN, permissions : SUBSET AllPermissions]
SessionRow == [account : Accounts, expires : Nat, revoked : BOOLEAN, password : OrNone(Nat),
               raced : BOOLEAN]
ResetRow == [account : Accounts, expires : Nat, used : BOOLEAN]
InvitationRow == [org : Orgs, email : Emails, role : Roles, expires : Nat, accepted : BOOLEAN,
                  token : Nat]

\* Ids and the keys of files are random: what a deleted row had, no other gets.
RowTables ==
    {"orgs", "accounts", "roles", "sessions", "resets", "invitations", "entities", "attachments",
     "templates", "mailboxes", "threads", "messages", "mailFiles"}
Deleting(tables) ==
    [tables EXCEPT !.gone = @ \cup UNION {DOMAIN db[t] \ DOMAIN tables[t] : t \in RowTables}]
Unused(ids) == ids \ db.gone

AccountsOf(org) == {a \in DOMAIN db.accounts : OrgOf(a) = org}
CallerAccount(s) == db.sessions[s].account
CallerOrg(s) == OrgOf(CallerAccount(s))
NextPassword(a) == IF db.accounts[a].password = None THEN 1 ELSE db.accounts[a].password + 1
SetSessions(which, change) ==
    [s \in DOMAIN db.sessions |->
        IF s \in which THEN Over(change, db.sessions[s]) ELSE db.sessions[s]]
Revoked(which) == SetSessions(which, [revoked |-> TRUE])
SessionsOf(a) == {s \in DOMAIN db.sessions : CallerAccount(s) = a}

-----------------------------------------------------------------------------
(* Sessions *)

\* The session is created for the account as it was read.
Login(p) ==
    \/ /\ Called(p, "auth.login") /\ Open(<<"Auth", "login">>) /\ Runtime = "production"
       /\ \/ TurnedAway(p, ByAddress("login"))
          \/ \E a \in DOMAIN db.accounts :
             /\ db.accounts[a].password # None /\ db.accounts[a].status = "ACTIVE"
             /\ db.orgs[OrgOf(a)].active /\ ~db.orgs[OrgOf(a)].demo
             /\ CallCounted(p, ByAddress("login"), "auth.login",
                   [account |-> a, password |-> db.accounts[a].password])
    \/ /\ At(p, "auth.login") /\ HasRoom(Unused(Sessions), db.sessions)
       /\ LET a == Arg(p).account
              now == db.accounts[a]
          IN  CommitIf(p, a \in DOMAIN db.accounts,
                 [db EXCEPT !.sessions = Insert(@, Fresh(Unused(Sessions), @),
                     [account |-> a, expires |-> db.today + SessionDays, revoked |-> FALSE,
                      password |-> Arg(p).password,
                      raced |-> now.status # "ACTIVE" \/ now.password # Arg(p).password])],
                 <<>>)

Logout(p) ==
    \/ /\ Called(p, "auth.logout")
       /\ \E s \in Callers(<<"Auth", "logout">>) : Begin(p, "auth.logout", s)
    \/ At(p, "auth.logout") /\ Commit(p, [db EXCEPT !.sessions = Revoked({Arg(p)})], <<>>)

\* Only one's own sessions.
RevokeSession(p) ==
    \/ /\ Called(p, "auth.revoke")
       /\ \E s \in Callers(<<"Auth", "revoke">>) : \E other \in SessionsOf(CallerAccount(s)) :
             Begin(p, "auth.revoke", other)
    \/ At(p, "auth.revoke") /\ Commit(p, [db EXCEPT !.sessions = Revoked({Arg(p)})], <<>>)

LogoutAll(p) ==
    \/ /\ Called(p, "auth.logoutAll")
       /\ \E s \in Callers(<<"Auth", "logoutAll">>), exceptCurrent \in BOOLEAN :
             Begin(p, "auth.logoutAll",
                [account |-> CallerAccount(s), keep |-> IF exceptCurrent THEN {s} ELSE {}])
    \/ /\ At(p, "auth.logoutAll")
       /\ Commit(p, [db EXCEPT
             !.sessions = Revoked(SessionsOf(Arg(p).account) \ Arg(p).keep)], <<>>)

\* AuthMaintenanceService: what has expired, been revoked or been used.
CleanupCredentials(p) ==
    \/ Called(p, "auth.cleanup") /\ Begin(p, "auth.cleanup", db.today)
    \/ /\ At(p, "auth.cleanup")
       /\ LET now == Arg(p)
          IN  Commit(p, Deleting(
                 [db EXCEPT
                    !.sessions = Without(@, {s \in DOMAIN @ : @[s].expires < now \/ @[s].revoked}),
                    !.resets = Without(@, {r \in DOMAIN @ : @[r].expires < now \/ @[r].used}),
                    !.invitations = Without(@, {i \in DOMAIN @ : @[i].accepted})]),
                 <<>>)

-----------------------------------------------------------------------------
(* Passwords *)

ForgotPassword(p) ==
    \/ /\ Called(p, "auth.forgot") /\ Open(<<"Auth", "forgotPassword">>)
       /\ \/ TurnedAway(p, ByAddress("forgot-password"))
          \/ \E a \in DOMAIN db.accounts :
             /\ db.accounts[a].status = "ACTIVE"
             /\ CallCounted(p, ByAddress("forgot-password"), "auth.forgot", a)
    \/ /\ At(p, "auth.forgot") /\ HasRoom(Unused(Resets), db.resets)
       /\ LET r == Fresh(Unused(Resets), db.resets)
          IN  CommitIf(p, Arg(p) \in DOMAIN db.accounts,
                 [db EXCEPT !.resets = Insert(@, r,
                     [account |-> Arg(p), expires |-> db.today + TokenDays, used |-> FALSE])],
                 <<<<"email.reset", r>>>>)

\* Faulty variant of PasswordReset: the sessions opened with the old password stay.
PasswordResetOnly(a) == [db EXCEPT !.accounts[a].password = NextPassword(a)]

PasswordReset(a) ==
    [db EXCEPT !.accounts[a].password = NextPassword(a), !.sessions = Revoked(SessionsOf(a))]

\* One reset uses the token, whoever comes second is refused.
ResetPassword(p) ==
    \/ /\ Called(p, "auth.reset") /\ Open(<<"Auth", "resetPassword">>)
       /\ \/ TurnedAway(p, ByAddress("reset-password"))
          \/ \E r \in DOMAIN db.resets :
             /\ ~db.resets[r].used /\ db.resets[r].expires > db.today
             /\ db.accounts[db.resets[r].account].status = "ACTIVE"
             /\ CallCounted(p, ByAddress("reset-password"), "auth.reset",
                   [reset |-> r, account |-> db.resets[r].account])
    \/ /\ At(p, "auth.reset")
       /\ LET r == Arg(p).reset
          IN  CommitIf(p,
                 r \in DOMAIN db.resets /\ ~db.resets[r].used /\ db.resets[r].expires > db.today,
                 [PasswordReset(Arg(p).account) EXCEPT !.resets[r].used = TRUE], <<>>)

-----------------------------------------------------------------------------
(* Users: an account set back to INVITED has no invitation. *)

UserUpdated(a, change) ==
    LET row == db.accounts[a]
        status == Given(change, "status", row.status)
        roles == IF "role" \in DOMAIN change THEN {change.role} ELSE row.roles
        closed == Given(change, "status", "ACTIVE") \in {"DISABLED", "SUSPENDED"}
    IN  [db EXCEPT !.accounts[a] = [row EXCEPT !.status = status, !.roles = roles],
                   !.sessions = IF closed THEN Revoked(SessionsOf(a)) ELSE @]

UpdateUser(p) ==
    \/ /\ Called(p, "user.update")
       /\ \E s \in Callers(<<"Users", "update">>) : \E a \in AccountsOf(CallerOrg(s)),
             change \in Changes([status |-> Statuses, role |-> RolesOf(CallerOrg(s))]) :
             LET mine == PermissionsOf(CallerAccount(s))
             IN  /\ "status" \in DOMAIN change =>
                       /\ "user.disable" \in mine
                       /\ a = CallerAccount(s) => change.status = "ACTIVE"
                 /\ db.accounts[a].status = "INVITED" => change = <<>>
                 /\ "role" \in DOMAIN change => "role.manage" \in mine
                 /\ Begin(p, "user.update", [account |-> a, change |-> change])
    \/ /\ At(p, "user.update")
       /\ CommitIf(p, Arg(p).account \in DOMAIN db.accounts,
             UserUpdated(Arg(p).account, Arg(p).change), <<>>)

Pending(org, email) ==
    {i \in DOMAIN db.invitations :
        /\ db.invitations[i].org = org /\ db.invitations[i].email = email
        /\ ~db.invitations[i].accepted}

\* Faulty variant of EmailFree: whoever has not joined yet does not count.
EmailOfNoMember(email) ==
    \A a \in DOMAIN db.accounts : db.accounts[a].password # None => db.accounts[a].email # email

EmailFree(email) == \A a \in DOMAIN db.accounts : db.accounts[a].email # email

Invite(p) ==
    \/ /\ Called(p, "user.invite")
       /\ \E s \in Callers(<<"Users", "invite">>), email \in Emails :
             \E role \in RolesOf(CallerOrg(s)) :
             /\ EmailFree(email)
             /\ Begin(p, "user.invite", [org |-> CallerOrg(s), email |-> email, role |-> role])
    \/ /\ At(p, "user.invite")
       /\ HasRoom(Unused(Accounts), db.accounts) /\ HasRoom(Unused(Invitations), db.invitations)
       /\ LET arg == Arg(p)
              i == Fresh(Unused(Invitations), db.invitations)
          IN  CommitIf(p, EmailFree(arg.email) /\ arg.org \in DOMAIN db.orgs,
                 [db EXCEPT
                    !.accounts = Insert(@, Fresh(Unused(Accounts), @),
                        [org |-> arg.org, email |-> arg.email, status |-> "INVITED",
                         password |-> None, roles |-> {}]),
                    !.invitations = Insert(@, i,
                        Over(arg, [expires |-> db.today + TokenDays, accepted |-> FALSE,
                                   token |-> 0]))],
                 <<<<"email.invitation", i>>>>)

Invited(s) == {a \in AccountsOf(CallerOrg(s)) : db.accounts[a].status = "INVITED"}

ResendInvitation(p) ==
    \/ /\ Called(p, "user.resend")
       /\ \E s \in Callers(<<"Users", "resendInvitation">>) : \E a \in Invited(s) :
             \E i \in Pending(CallerOrg(s), db.accounts[a].email) : Begin(p, "user.resend", i)
    \/ /\ At(p, "user.resend")
       /\ LET i == Arg(p)
              row == db.invitations[i]
          IN  CommitIf(p, i \in DOMAIN db.invitations /\ ~row.accepted,
                 [db EXCEPT !.invitations[i] =
                     [row EXCEPT !.expires = db.today + TokenDays, !.token = row.token + 1]],
                 <<<<"email.invitation", i>>>>)

\* Both deletions find something: the invitations of the address, and the
\* account that was read, still invited.  Its sessions and resets go with it.
CancelStillPending(arg) ==
    /\ Pending(arg.org, arg.email) # {}
    /\ arg.account \in DOMAIN db.accounts /\ db.accounts[arg.account].status = "INVITED"

CancelInvitation(p) ==
    \/ /\ Called(p, "user.cancel")
       /\ \E s \in Callers(<<"Users", "cancelInvitation">>) : \E a \in Invited(s) :
             Begin(p, "user.cancel",
                [account |-> a, org |-> OrgOf(a), email |-> db.accounts[a].email])
    \/ /\ At(p, "user.cancel")
       /\ CommitIf(p, CancelStillPending(Arg(p)),
             Deleting([db EXCEPT
                !.invitations = Without(@, Pending(Arg(p).org, Arg(p).email)),
                !.accounts = Without(@, {Arg(p).account}),
                !.sessions = Without(@, SessionsOf(Arg(p).account)),
                !.resets = Without(@, {r \in DOMAIN @ : @[r].account = Arg(p).account})]),
             <<>>)

Acceptable(i) == ~db.invitations[i].accepted /\ db.invitations[i].expires > db.today

ValidateInvitation(p) ==
    /\ Called(p, "user.validate") /\ Open(<<"Users", "validateInvitation">>)
    /\ TurnedAway(p, ByAddress("invitation"))

\* The token must be the one of the e-mail sent last, when it is used too.
AcceptInvitation(p) ==
    \/ /\ Called(p, "user.accept") /\ Open(<<"Users", "acceptInvitation">>)
       /\ \/ TurnedAway(p, ByAddress("invitation"))
          \/ \E i \in DOMAIN db.invitations, a \in DOMAIN db.accounts :
             /\ Acceptable(i)
             /\ db.accounts[a].email = db.invitations[i].email
             /\ OrgOf(a) = db.invitations[i].org /\ db.accounts[a].status = "INVITED"
             /\ CallCounted(p, ByAddress("invitation"), "user.accept",
                   [invitation |-> i, token |-> db.invitations[i].token, account |-> a,
                    role |-> db.invitations[i].role])
    \/ /\ At(p, "user.accept")
       /\ LET i == Arg(p).invitation
              a == Arg(p).account
              row == db.accounts[a]
              roles == row.roles \cup {Arg(p).role}
          IN  CommitIf(p,
                 /\ i \in DOMAIN db.invitations /\ Acceptable(i)
                 /\ db.invitations[i].token = Arg(p).token
                 /\ a \in DOMAIN db.accounts /\ Arg(p).role \notin row.roles,
                 [db EXCEPT
                    !.invitations[i].accepted = TRUE,
                    !.accounts[a] = [row EXCEPT !.status = "ACTIVE", !.password = NextPassword(a),
                                                !.roles = roles]],
                 <<>>)

-----------------------------------------------------------------------------
(* Roles *)

RoleNameFree(org, name, except) ==
    \A r \in RolesOf(org) \ except : db.roles[r].name # name

CreateRole(p) ==
    \/ /\ Called(p, "role.create")
       /\ \E s \in Callers(<<"Roles", "create">>), name \in RoleNames, grant \in Grants :
             Begin(p, "role.create",
                [org |-> CallerOrg(s), name |-> name, system |-> FALSE, permissions |-> grant])
    \/ /\ At(p, "role.create") /\ HasRoom(Unused(Roles), db.roles)
       /\ CommitIf(p, RoleNameFree(Arg(p).org, Arg(p).name, {}),
             [db EXCEPT !.roles = Insert(@, Fresh(Unused(Roles), @), Arg(p))], <<>>)

UpdateRole(p) ==
    \/ /\ Called(p, "role.update")
       /\ \E s \in Callers(<<"Roles", "update">>),
             change \in Changes([name |-> RoleNames, permissions |-> Grants]) :
             \E r \in RolesOf(CallerOrg(s)) :
             ~db.roles[r].system /\ Begin(p, "role.update", [role |-> r, change |-> change])
    \/ /\ At(p, "role.update")
       /\ LET r == Arg(p).role
              name == Given(Arg(p).change, "name", db.roles[r].name)
          IN  CommitIf(p, RoleNameFree(db.roles[r].org, name, {r}),
                 [db EXCEPT !.roles = Patch(@, r, Arg(p).change)], <<>>)

-----------------------------------------------------------------------------

AccountsStep(p) ==
    \/ Login(p) \/ Logout(p) \/ RevokeSession(p) \/ LogoutAll(p) \/ CleanupCredentials(p)
    \/ ForgotPassword(p) \/ ResetPassword(p) \/ UpdateUser(p) \/ Invite(p)
    \/ ResendInvitation(p) \/ CancelInvitation(p) \/ ValidateInvitation(p)
    \/ AcceptInvitation(p) \/ CreateRole(p) \/ UpdateRole(p)

AccountRowsOK(tables) ==
    /\ RowsOf(tables.accounts, Accounts, AccountRow)
    /\ RowsOf(tables.roles, Roles, RoleRow)
    /\ RowsOf(tables.sessions, Sessions, SessionRow)
    /\ RowsOf(tables.resets, Resets, ResetRow)
    /\ RowsOf(tables.invitations, Invitations, InvitationRow)

\* Whoever has not joined yet has exactly one invitation that can be sent
\* again or cancelled, and an invitation waits for exactly one account, however
\* invitations, their acceptance and their cancellation overlap
\* (users.service.ts:169-375).
InvitationsMatchAccounts ==
    /\ \A a \in DOMAIN db.accounts :
          db.accounts[a].password = None <=> 
              Cardinality(Pending(OrgOf(a), db.accounts[a].email)) = 1
    /\ \A i \in DOMAIN db.invitations : db.invitations[i].accepted \/
          \E a \in DOMAIN db.accounts :
             /\ db.accounts[a].password = None
             /\ db.accounts[a].email = db.invitations[i].email /\ OrgOf(a) = db.invitations[i].org

\* A session that is open was opened with the password its account has now,
\* and not for an account that has been suspended or disabled since, unless
\* its login overlapped the change (auth.service.ts:42-96, 236-244,
\* users.service.ts:150-154).
OpenSessionsAreCurrent ==
    \A s \in DOMAIN db.sessions :
        LET session == db.sessions[s]
            account == db.accounts[session.account]
        IN  session.revoked \/ session.raced \/ session.password = None \/
            /\ session.password = account.password
            /\ account.status \notin {"SUSPENDED", "DISABLED"}
=============================================================================
