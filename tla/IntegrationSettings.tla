------------------------- MODULE IntegrationSettings -------------------------
(***************************************************************************)
(* What an organization sets up to exchange events with other systems:     *)
(* connections, webhook subscriptions and the ids other systems have for   *)
(* its records (apps/api/src/integrations/integrations.service.ts).  What  *)
(* travels over them is modelled in WebhookDelivery and InboundEvents.     *)
(*                                                                         *)
(* db.connections, db.hooks (the subscriptions) and db.mappings are        *)
(* tables.  A secret is one of two: what a signature is checked against.   *)
(***************************************************************************)
EXTENDS Reports

CONSTANTS Connections, Hooks, Mappings,
          ConnectionNames, HookNames,
          EventTypes,  \* some of the events that webhooks may subscribe to
          ExternalIds  \* <<type, id>> of a record in another system

Directions == {"INBOUND", "OUTBOUND", "BOTH"}
ConnectionRow == [name : ConnectionNames, status : {"ACTIVE", "DISABLED", "ERROR"},
                  direction : Directions, secret : {"first", "second"}]
HookRow == [connection : Connections, name : HookNames, active : BOOLEAN, events : SUBSET EventTypes]
MappingRow == [connection : Connections, external : ExternalIds,
               record : Leads \cup Companies \cup Contacts \cup Projects \cup Tasks]

NameFree(table, name, except) == \A x \in DOMAIN table \ {except} : table[x].name # name

NewConnections == [name : ConnectionNames, direction : Directions]

CreateConnection(p) ==
    \/ /\ Called(p, "connection.create")
       /\ \E input \in NewConnections :
          Begin(p, "connection.create", [status |-> "ACTIVE", secret |-> "first"] @@ input)
    \/ /\ At(p, "connection.create") /\ HasRoom(Connections, db.connections)
       /\ CommitIf(p, NameFree(db.connections, Arg(p).name, None),
             [db EXCEPT !.connections = Insert(@, Fresh(Connections, @), Arg(p))], <<>>)

ConnectionList == DOMAIN db.connections

ConnectionChanges ==
    Changes([name |-> ConnectionNames, status |-> {"ACTIVE", "DISABLED", "ERROR"},
             direction |-> Directions])

\* A direction may be taken from a connection that has subscriptions: they
\* stay, and are no longer served.
UpdateConnection(p) ==
    \/ /\ Called(p, "connection.update")
       /\ \E c \in ConnectionList,
          change \in ConnectionChanges :
          Begin(p, "connection.update", [connection |-> c, change |-> change])
    \/ /\ At(p, "connection.update")
       /\ LET c == Arg(p).connection
          IN  CommitIf(p, NameFree(db.connections, Given(Arg(p).change, "name", None), c),
                 [db EXCEPT !.connections = Patch(@, c, Arg(p).change)], <<>>)

\* What was signed with the old secret is refused from now on.
RotateSecret(p) ==
    \/ /\ Called(p, "connection.rotate")
       /\ \E c \in ConnectionList, secret \in {"first", "second"} :
          Begin(p, "connection.rotate", [connection |-> c, secret |-> secret])
    \/ /\ At(p, "connection.rotate")
       /\ Commit(p, [db EXCEPT !.connections[Arg(p).connection].secret = Arg(p).secret], <<>>)

-----------------------------------------------------------------------------
(* Subscriptions *)

NewHooks ==
    [connection : DOMAIN db.connections, name : HookNames, events : SUBSET EventTypes \ {{}}]

CreateHook(p) ==
    \/ /\ Called(p, "hook.create")
       /\ \E input \in NewHooks :
          /\ db.connections[input.connection].direction # "INBOUND"
          /\ Begin(p, "hook.create", [active |-> TRUE] @@ input)
    \/ /\ At(p, "hook.create") /\ HasRoom(Hooks, db.hooks)
       /\ CommitIf(p, NameFree(db.hooks, Arg(p).name, None),
             [db EXCEPT !.hooks = Insert(@, Fresh(Hooks, @), Arg(p))], <<>>)

HookChanges ==
    Changes([name |-> HookNames, active |-> BOOLEAN, events |-> SUBSET EventTypes \ {{}}])

UpdateHook(p) ==
    \/ /\ Called(p, "hook.update")
       /\ \E h \in DOMAIN db.hooks,
          change \in HookChanges :
          Begin(p, "hook.update", [hook |-> h, change |-> change])
    \/ /\ At(p, "hook.update")
       /\ LET h == Arg(p).hook
          IN  CommitIf(p, NameFree(db.hooks, Given(Arg(p).change, "name", None), h),
                 [db EXCEPT !.hooks = Patch(@, h, Arg(p).change)], <<>>)

\* Those that a delivery may be made for.
UsableHooks ==
    {h \in DOMAIN db.hooks :
        /\ db.hooks[h].active
        /\ db.connections[db.hooks[h].connection].status = "ACTIVE"
        /\ db.connections[db.hooks[h].connection].direction \in {"OUTBOUND", "BOTH"}}

-----------------------------------------------------------------------------
(* Ids in other systems *)

\* An archived record is one too.
MappableRecords ==
    DOMAIN db.leads \cup DOMAIN db.companies \cup DOMAIN db.contacts \cup DOMAIN db.projects
    \cup DOMAIN db.tasks

CreateMapping(p) ==
    \/ /\ Called(p, "mapping.create")
       /\ \E c \in DOMAIN db.connections, external \in ExternalIds, x \in MappableRecords :
          Begin(p, "mapping.create", [connection |-> c, external |-> external, record |-> x])
    \/ /\ At(p, "mapping.create") /\ HasRoom(Mappings, db.mappings)
       /\ CommitIf(p, \A m \in DOMAIN db.mappings :
                         <<db.mappings[m].connection, db.mappings[m].external>>
                             # <<Arg(p).connection, Arg(p).external>>,
             [db EXCEPT !.mappings = Insert(@, Fresh(Mappings, @), Arg(p))], <<>>)

-----------------------------------------------------------------------------
IntegrationsStep(p) ==
    \/ CreateConnection(p) \/ UpdateConnection(p) \/ RotateSecret(p)
    \/ CreateHook(p) \/ UpdateHook(p) \/ CreateMapping(p)

IntegrationRowsOK ==
    /\ \A c \in DOMAIN db.connections : db.connections[c] \in ConnectionRow
    /\ \A h \in DOMAIN db.hooks :
          db.hooks[h] \in HookRow /\ db.hooks[h].connection \in DOMAIN db.connections
    /\ \A m \in DOMAIN db.mappings : db.mappings[m] \in MappingRow
=============================================================================
