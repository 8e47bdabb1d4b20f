--------------------------- MODULE DemoWorkspaces ---------------------------
(***************************************************************************)
(* The workspaces of the public demo, from their creation under a lock to  *)
(* the deletion of all they held: apps/api/src/demo and                    *)
(* bootstrap.service.ts.                                                   *)
(*                                                                         *)
(* db.lock is the request that holds demo:workspace-creation in Redis,     *)
(* db.lapses how often its 30 seconds ran out on a request that was still  *)
(* at work.  db.records counts, per workspace and kind of record, the rows *)
(* that requests to create one made, and those other requests derived.     *)
(***************************************************************************)
EXTENDS Attachments
LOCAL INSTANCE FiniteSetsExt

CONSTANTS Resources,     \* the kinds of records a run counts
          MaxWorkspaces, \* DEMO_MAX_ACTIVE_WORKSPACES
          WorkspaceDays, \* DEMO_SESSION_TTL_SECONDS
          BatchSize      \* DEMO_CLEANUP_BATCH_SIZE

\* CREATE_ROUTES: what a demo may have a limited number of, and the controller
\* whose create makes one (no controller creates notifications).
CreateControllers ==
    [lead |-> "Leads", deal |-> "Deals", company |-> "Companies", contact |-> "Contacts",
     project |-> "Projects", task |-> "Tasks", case |-> "Cases", activity |-> "Activities",
     savedView |-> "SavedViews", customFieldDefinition |-> "CustomFields", tag |-> "Tags",
     automationRule |-> "Automations"]

\* The routes that add such a record to another one, which no quota counts.
DerivingRoutes ==
    [lead |-> {<<"Mail", "createLead">>}, deal |-> {<<"Leads", "convert">>},
     project |-> {<<"Deals", "createProject">>},
     task |-> {<<"Cases", "task">>, <<"Mail", "createTask">>},
     case |-> {<<"Mail", "createCase">>}, company |-> {<<"Leads", "convert">>},
     contact |-> {<<"Leads", "convert">>}]

\* The rows DemoSeederService writes.
SeededRows ==
    [lead |-> 10, deal |-> 6, company |-> 5, contact |-> 9, project |-> 3, task |-> 12,
     case |-> 3, activity |-> 4, savedView |-> 2, customFieldDefinition |-> 2, tag |-> 3,
     automationRule |-> 1]

OrgRow == [active : BOOLEAN, demo : BOOLEAN, expires : Nat, sender : BOOLEAN]
RecordCount == [created : Nat, derived : Nat]

ASSUME DemoAssumption ==
    /\ None \notin Requests
    /\ IsFiniteSet(Requests) /\ IsFiniteSet(Orgs) /\ IsFiniteSet(Roles)
    /\ MaxWorkspaces \in Nat /\ WorkspaceDays \in Nat
    /\ "attachment" \notin Resources /\ Resources \subseteq DOMAIN Quota
    /\ Resources \subseteq DOMAIN SeededRows
    /\ \A kind \in Resources : SeededRows[kind] <= Quota[kind]

Demos == {o \in DOMAIN db.orgs : db.orgs[o].demo}
ActiveDemos == {o \in Demos : db.orgs[o].expires > db.today}
ExpiredDemos(day) == {o \in Demos : db.orgs[o].expires <= day}

-----------------------------------------------------------------------------
(* The lock *)

Unlocked(p, tables) == [tables EXCEPT !.lock = IF @ = p THEN None ELSE @]

\* finally: only the holder's own lock is released.
Release(p, tables, op, arg, faults) == Proceed(p, Unlocked(p, tables), op, arg, faults)

Creating == {"demo.count", "demo.bootstrap", "demo.identity", "demo.seed", "demo.session"}

\* The lease runs out, on a request that died or on one that is slow.
ExpireLease ==
    /\ db.lock # None
    /\ LET slow == request[db.lock].op \in Creating
       IN  /\ slow => env.faults > 0
           /\ db' = [db EXCEPT !.lock = None, !.lapses = IF slow THEN @ + 1 ELSE @]
           /\ env' = [env EXCEPT !.faults = IF slow THEN @ - 1 ELSE @]
    /\ UNCHANGED <<request, announced>>

-----------------------------------------------------------------------------
(* Starting *)

\* Counted per address, and per session when the browser still has one; the
\* challenge may refuse the request too.
StartDemo(p) ==
    /\ Called(p, "demo.start") /\ Open(<<"Demo", "start">>) /\ Runtime = "demo"
    /\ LET address == ByAddress("demo-start-ip")
       IN  \/ TurnedAway(p, address)
           \/ CallCounted(p, address, "demo.lock", None)
           \/ \E s \in DOMAIN db.sessions :
                LET session == <<"demo-start-session", s>>
                    both == Counted(Counted(db, address), session)
                IN  /\ WithinRate(address)
                    /\ \/ BeginWriting(p, both, "none", None)
                       \/ WithinRate(session) /\ BeginWriting(p, both, "demo.lock", None)

\* A new workspace first, then the old one goes.
RestartDemo(p) ==
    /\ Called(p, "demo.restart")
    /\ \E s \in Callers(<<"Demo", "restart">>) :
       /\ db.orgs[CallerOrg(s)].demo
       /\ \/ TurnedAway(p, ByAddress("demo-start-ip"))
          \/ CallCounted(p, ByAddress("demo-start-ip"), "demo.lock", CallerOrg(s))

\* Another request may hold the lock for all of the 20 seconds.
AcquireLock(p) ==
    /\ At(p, "demo.lock")
    /\ IF db.lock = None
       THEN Proceed(p, [db EXCEPT !.lock = p], "demo.count", Arg(p), 0)
       ELSE Reject(p)

CountWorkspaces(p) ==
    /\ At(p, "demo.count")
    /\ IF Cardinality(ActiveDemos) >= MaxWorkspaces THEN Release(p, db, "none", None, 0)
       ELSE Continue(p, "demo.bootstrap", Arg(p))

\* IdentityBootstrapService.run for an organization that is new: its default
\* roles and its owner, in one transaction.
WithOrganization(tables, org, row, owner, email, roles) ==
    [tables EXCEPT
       !.orgs = Insert(@, org, row),
       !.roles = Over([r \in {roles[n] : n \in DOMAIN DefaultRoles} |->
                          [org |-> org, name |-> CHOOSE n \in DOMAIN DefaultRoles : roles[n] = r,
                           system |-> TRUE, permissions |-> {}]], @),
       !.accounts = Insert(@, owner,
           [org |-> org, email |-> email, status |-> "ACTIVE", password |-> 1,
            roles |-> {roles["Owner"]}])]

\* Ids for the default roles, by name.
FreeRoles == Unused(Roles) \ DOMAIN db.roles
NewRoles ==
    LET chosen == CHOOSE R \in kSubset(Cardinality(DOMAIN DefaultRoles), FreeRoles) : TRUE
    IN  CHOOSE ids \in [DOMAIN DefaultRoles -> chosen] :
            \A m, n \in DOMAIN DefaultRoles : ids[m] = ids[n] => m = n

BootstrapWorkspace(p) ==
    /\ At(p, "demo.bootstrap")
    /\ HasRoom(Unused(Orgs), db.orgs) /\ HasRoom(Unused(Accounts), db.accounts)
    /\ Cardinality(FreeRoles) >= Cardinality(DOMAIN DefaultRoles) /\ \E e \in Emails : EmailFree(e)
    /\ LET org == Fresh(Unused(Orgs), db.orgs)
           owner == Fresh(Unused(Accounts), db.accounts)
           row == [active |-> TRUE, demo |-> TRUE, expires |-> db.today + WorkspaceDays,
                   sender |-> FALSE]
           email == CHOOSE e \in Emails : EmailFree(e)
       IN  \/ Proceed(p, WithOrganization(db, org, row, owner, email, NewRoles),
                 "demo.identity", [org |-> org, owner |-> owner, previous |-> Arg(p)], 0)
           \/ Release(p, db, "none", None, 1)

WithSender(org) ==
    [db EXCEPT !.orgs = IF org \in DOMAIN @ THEN Patch(@, org, [sender |-> TRUE]) ELSE @]

\* The sender the workspace shows.  A failure leaves the organization as it is.
SetIdentity(p) ==
    /\ At(p, "demo.identity")
    /\ \/ Proceed(p, WithSender(Arg(p).org), "demo.seed", Arg(p), 0)
       \/ Release(p, db, "none", None, 1)

\* All that refers to an organization goes with it.
WithoutOrganization(org) ==
    LET accounts == AccountsOf(org)
        OfOthers(table) == Without(table, {x \in DOMAIN table : table[x].org = org})
    IN  Deleting([db EXCEPT
           !.orgs = Without(@, {org}), !.accounts = Without(@, accounts),
           !.roles = Without(@, RolesOf(org)),
           !.sessions = Without(@, {s \in DOMAIN @ : @[s].account \in accounts}),
           !.resets = Without(@, {r \in DOMAIN @ : @[r].account \in accounts}),
           !.invitations = OfOthers(@),
           !.entities = OfOthers(@),
           !.attachments = Without(@, FilesOf(org)),
           !.records = Without(@, {k \in DOMAIN @ : k[1] = org}),
           !.templates = OfOthers(@), !.mailboxes = OfOthers(@), !.threads = OfOthers(@),
           !.messages = OfOthers(@), !.mailFiles = OfOthers(@)])

GiveUpWorkspace(p) == Release(p, WithoutOrganization(Arg(p).org), "none", None, 1)

SeedWorkspace(p) ==
    /\ At(p, "demo.seed")
    /\ \/ /\ Arg(p).org \in DOMAIN db.orgs
          /\ Proceed(p,
                [db EXCEPT !.records = Over([k \in {Arg(p).org} \X Resources |->
                                                [created |-> 0, derived |-> 0]], @)],
                "demo.session", Arg(p), 0)
       \/ GiveUpWorkspace(p)

\* The session of a workspace ends with it.
OpenWorkspace(p) ==
    /\ At(p, "demo.session")
    /\ \/ /\ HasRoom(Unused(Sessions), db.sessions)
          /\ Arg(p).org \in DOMAIN db.orgs /\ Arg(p).owner \in DOMAIN db.accounts
          /\ Proceed(p,
                [db EXCEPT !.sessions = Insert(@, Fresh(Unused(Sessions), @),
                    [account |-> Arg(p).owner, expires |-> db.orgs[Arg(p).org].expires,
                     revoked |-> FALSE, password |-> 1, raced |-> FALSE])],
                "demo.done", Arg(p).previous, 0)
       \/ GiveUpWorkspace(p)

FinishStart(p) ==
    /\ At(p, "demo.done")
    /\ IF Arg(p) = None THEN Release(p, db, "none", None, 0)
       ELSE Release(p, db, "demo.expire", Arg(p), 0)

-----------------------------------------------------------------------------
(* Destroying: `orgs` are to go, for those that have expired by `day`. *)

ExpirePrevious(p) ==
    /\ At(p, "demo.expire")
    /\ \/ Proceed(p,
             [db EXCEPT !.orgs = IF Arg(p) \in DOMAIN @ THEN Patch(@, Arg(p), [expires |-> db.today])
                                 ELSE @],
             "demo.destroy", [orgs |-> {Arg(p)}, day |-> db.today], 0)
       \/ Proceed(p, db, "none", None, 1)

CleanupDemos(p) ==
    /\ Called(p, "demo.cleanup") /\ Runtime = "demo"
    /\ \E batch \in SUBSET ExpiredDemos(db.today) :
       /\ Cardinality(batch) <= BatchSize
       /\ Begin(p, "demo.destroy", [orgs |-> batch, day |-> db.today])

Doomed(org, day) == org \in ExpiredDemos(day)

KeysOf(org) ==
    FilesOf(org) \cup {f \in DOMAIN db.mailFiles : db.mailFiles[f].org = org}

DestroyNext(p) ==
    /\ At(p, "demo.destroy")
    /\ IF Arg(p).orgs = {} THEN Reject(p)
       ELSE \E org \in Arg(p).orgs :
            LET rest == [Arg(p) EXCEPT !.orgs = @ \ {org}]
            IN  IF Doomed(org, Arg(p).day)
                THEN Continue(p, "demo.files", Over([org |-> org, files |-> KeysOf(org)], rest))
                ELSE Continue(p, "demo.destroy", rest)

\* One file after another.  What the storage refuses to delete leaves the
\* workspace for the next cleanup.
DestroyFiles(p) ==
    /\ At(p, "demo.files")
    /\ LET arg == Arg(p)
           rest == [orgs |-> arg.orgs, day |-> arg.day]
       IN  \/ \E f \in arg.files :
                 \/ Proceed(p, [db EXCEPT !.stored = @ \ {f}], "demo.files",
                       [arg EXCEPT !.files = @ \ {f}], 0)
                 \/ Proceed(p, db, "demo.destroy", rest, 1)
           \/ /\ arg.files = {}
              /\ Proceed(p, IF Doomed(arg.org, arg.day) THEN WithoutOrganization(arg.org) ELSE db,
                    "demo.destroy", rest, 0)

-----------------------------------------------------------------------------
(* Working in a demo: DemoSafetyGuard *)

DemoSessions == {s \in DOMAIN db.sessions : Authenticated(s) /\ Runtime = "demo"}
RowCount(org, kind) ==
    LET count == db.records[<<org, kind>>]
    IN  SeededRows[kind] + count.created + count.derived

\* The quota is reserved, and the rate counted, before the caller's token and
\* permissions and the body are looked at.
CreateRecord(p) ==
    \/ /\ Called(p, "demo.create")
       /\ \E s \in DemoSessions, kind \in Resources :
          LET org == CallerOrg(s)
          IN  /\ <<org, kind>> \in DOMAIN db.records
              /\ Begin(p, "demo.reserve",
                    [session |-> s, account |-> CallerAccount(s), org |-> org, kind |-> kind,
                     count |-> RowCount(org, kind)])
    \/ At(p, "demo.reserve") /\ Reserve(p, Arg(p).kind, "demo.rate")
    \/ /\ At(p, "demo.rate")
       /\ LET scope == <<"demo-record", Arg(p).account>>
          IN  Proceed(p, Counted(db, scope), IF WithinRate(scope) THEN "demo.create" ELSE "none",
                 IF WithinRate(scope) THEN Arg(p) ELSE None, 0)
    \/ /\ At(p, "demo.create")
       /\ \/ Reject(p)
          \/ /\ <<Arg(p).org, Arg(p).kind>> \in DOMAIN db.records
             /\ Permitted(Arg(p).account, <<CreateControllers[Arg(p).kind], "create">>)
             /\ Commit(p, [db EXCEPT !.records[<<Arg(p).org, Arg(p).kind>>].created = @ + 1], <<>>)

DeriveRecord(p) ==
    \/ /\ Called(p, "demo.derive")
       /\ \E kind \in Resources \cap DOMAIN DerivingRoutes : \E route \in DerivingRoutes[kind] :
             \E s \in Callers(route) :
             LET scope == <<"demo-record", CallerAccount(s)>>
             IN  /\ <<CallerOrg(s), kind>> \in DOMAIN db.records
                 /\ \/ TurnedAway(p, scope)
                    \/ CallCounted(p, scope, "demo.derive", <<CallerOrg(s), kind>>)
    \/ /\ At(p, "demo.derive")
       /\ CommitIf(p, Arg(p) \in DOMAIN db.records,
             [db EXCEPT !.records[Arg(p)].derived = @ + 1], <<>>)

\* Searches, reports, forecasts and lists are counted too; a query that is
\* too large is refused before.
QueryRecords(p) ==
    /\ Called(p, "demo.query")
    /\ \E s \in DemoSessions :
       \/ TurnedAway(p, <<"demo-query", CallerAccount(s)>>)
       \/ Begin(p, "none", None)

-----------------------------------------------------------------------------

DemoStep(p) ==
    \/ StartDemo(p) \/ RestartDemo(p) \/ AcquireLock(p) \/ CountWorkspaces(p)
    \/ BootstrapWorkspace(p) \/ SetIdentity(p) \/ SeedWorkspace(p) \/ OpenWorkspace(p)
    \/ FinishStart(p) \/ ExpirePrevious(p) \/ CleanupDemos(p) \/ DestroyNext(p)
    \/ DestroyFiles(p) \/ CreateRecord(p) \/ DeriveRecord(p) \/ QueryRecords(p)

DemoRowsOK(tables) ==
    /\ tables.lock \in OrNone(Requests) /\ tables.lapses \in Nat /\ tables.today \in Nat
    /\ RowsOf(tables.orgs, Orgs, OrgRow)
    /\ RowsOf(tables.records, (DOMAIN tables.orgs) \X Resources, RecordCount)

\* There are never more workspaces than allowed, but for one more each time
\* the lock ran out on a slow creation; and requests that create records never
\* take a workspace over its quotas, however they overlap
\* (demo.service.ts:67-90, demo-quota.service.ts:75-94).
DemoStaysWithinLimits ==
    /\ Cardinality(ActiveDemos) <= MaxWorkspaces + db.lapses
    /\ \A k \in DOMAIN db.records : SeededRows[k[2]] + db.records[k].created <= Quota[k[2]]
=============================================================================
