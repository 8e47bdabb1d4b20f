---------------------------- MODULE RequestStore -----------------------------
(***************************************************************************)
(* What the modules of the API's services share: the tables of the         *)
(* database, the requests that work on them, and the announcements of what *)
(* they did.                                                               *)
(*                                                                         *)
(* An operation of a service is a request that first checks what it reads  *)
(* and then, in a later step, writes its transaction: other requests write *)
(* between the two.  A transaction is one step, at its commit.  Once       *)
(* committed it announces what it did, one event after another.  A table   *)
(* maps the ids in use to rows; rows of the one organization only, because *)
(* every query names the caller's.                                         *)
(***************************************************************************)
EXTENDS Naturals, Integers, FiniteSets, Sequences, TLC
LOCAL INSTANCE FiniteSetsExt

CONSTANTS Requests,   \* API requests in progress at a time
          MaxChanges, \* bound: fields that one update names
          None,       \* no id: a null column
          Scenarios   \* initial tables, the operations called on them, bounds

VARIABLES
    db,         \* the tables, by name
    request,    \* per request: the operation and what it has checked and chosen
    announced,  \* the <<event, id>> handed to automations and webhooks
    env         \* operations that may be called, calls, faults and days left

vars == <<db, request, announced, env>>

-----------------------------------------------------------------------------
(* Tables *)

OrNone(S) == S \cup {None}
\* change @@ row: the row with the fields of the change.
Over(change, row) ==
    [f \in DOMAIN change \cup DOMAIN row |-> IF f \in DOMAIN change THEN change[f] ELSE row[f]]
Insert(table, id, row) == [x \in DOMAIN table \cup {id} |-> IF x = id THEN row ELSE table[x]]
Without(table, ids) == [x \in DOMAIN table \ ids |-> table[x]]
Patch(table, id, change) == [table EXCEPT ![id] = Over(change, @)]
RowsOf(table, ids, rows) == \A x \in DOMAIN table : x \in ids /\ table[x] \in rows
Live(table) == {x \in DOMAIN table : ~table[x].archived}
LiveOrNone(table) == OrNone(Live(table))
Total(f(_), S) == MapThenSumSet(f, S)

\* A random id that no row has; a run has as many as the constants give it.
HasRoom(ids, table) == ids \ DOMAIN table # {}
Fresh(ids, table) == CHOOSE x \in ids \ DOMAIN table : TRUE

\* The bodies of an update: fields that are left out leave the row alone.
Changes(spec) ==
    {c \in UNION {[F -> UNION {spec[f] : f \in F}] :
                    F \in {F \in SUBSET DOMAIN spec : Cardinality(F) <= MaxChanges}} :
        \A f \in DOMAIN c : c[f] \in spec[f]}
Given(change, field, old) == IF field \in DOMAIN change THEN change[field] ELSE old

-----------------------------------------------------------------------------
(* Requests *)

Idle == [op |-> "none", arg |-> None]
At(p, op) == request[p].op = op
Arg(p) == request[p].arg
Serial == env.serial
Quiet == \A p \in Requests : At(p, "none")

Called(p, op) ==
    /\ At(p, "none") /\ op \in env.ops /\ env.calls > 0
    /\ Serial => Quiet

\* What a guard counts is written before the operation begins.
BeginWriting(p, tables, op, arg) ==
    /\ db' = tables
    /\ request' = [request EXCEPT ![p] = [op |-> op, arg |-> arg]]
    /\ env' = [env EXCEPT !.calls = @ - 1]
    /\ UNCHANGED announced

Begin(p, op, arg) == BeginWriting(p, db, op, arg)

\* The checks go on with a later query.
Continue(p, op, arg) ==
    /\ request' = [request EXCEPT ![p] = [op |-> op, arg |-> arg]]
    /\ UNCHANGED <<db, announced, env>>

\* The transaction commits; the events are published after it.
Commit(p, tables, events) ==
    /\ db' = tables
    /\ request' = [request EXCEPT
          ![p] = IF events = <<>> THEN Idle ELSE [op |-> "announce", arg |-> events]]
    /\ UNCHANGED <<announced, env>>

\* An exception inside the transaction rolls it back.
Reject(p) ==
    /\ request' = [request EXCEPT ![p] = Idle]
    /\ UNCHANGED <<db, announced, env>>

CommitIf(p, condition, tables, events) ==
    IF condition THEN Commit(p, tables, events) ELSE Reject(p)

\* Writes and goes on; what fails for want of the queue or the database
\* takes one of the faults the environment has.
Proceed(p, tables, op, arg, faults) ==
    /\ env.faults >= faults
    /\ db' = tables
    /\ request' = [request EXCEPT ![p] = [op |-> op, arg |-> arg]]
    /\ env' = [env EXCEPT !.faults = @ - faults]
    /\ UNCHANGED announced

Announce(p) ==
    /\ At(p, "announce")
    /\ announced' = announced \cup {Head(Arg(p))}
    /\ request' = [request EXCEPT
          ![p] = IF Len(Arg(p)) = 1 THEN Idle ELSE [op |-> "announce", arg |-> Tail(Arg(p))]]
    /\ UNCHANGED <<db, env>>

\* The API process dies, or the client's connection to the database breaks.
Die(p) ==
    /\ ~At(p, "none") /\ env.faults > 0
    /\ request' = [request EXCEPT ![p] = Idle]
    /\ env' = [env EXCEPT !.faults = @ - 1]
    /\ UNCHANGED <<db, announced>>

\* Time passes: tomorrow.
NextDay ==
    /\ env.days > 0
    /\ db' = [db EXCEPT !.today = @ + 1]
    /\ env' = [env EXCEPT !.days = @ - 1]
    /\ UNCHANGED <<request, announced>>

Init ==
    \E scenario \in Scenarios :
        /\ db = scenario.db
        /\ request = [p \in Requests |-> Idle]
        /\ announced = {}
        /\ env = scenario.env
=============================================================================
