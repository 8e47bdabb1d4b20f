------------------------------- MODULE RuleRuns -------------------------------
(***************************************************************************)
(* What automation rules do: apps/api/src/automations/automations.service.ts*)
(* from an event to the actions of the runs that it starts.                *)
(*                                                                         *)
(* db.runs is the table.  `cause` is no column: the run whose action       *)
(* published the event.  Claims, attempts, retries and recovery of one run *)
(* are modelled in AutomationRuns; here a run is carried out once, and an  *)
(* action is one step with the record of its result.  The messages and     *)
(* deliveries that actions queue are modelled in CrmMail and               *)
(* WebhookDelivery.                                                        *)
(***************************************************************************)
EXTENDS AutomationRules

CONSTANT Runs

RunRow == [rule : Rules, record : Leads \cup Deals \cup Projects \cup Tasks \cup Payments \cup Cases,
           depth : Nat, cause : OrNone(Runs),
           status : {"PENDING", "PROCESSING", "SUCCEEDED", "SKIPPED", "FAILED"}]

TableOf(kind) ==
    CASE kind = "LEAD" -> db.leads
      [] kind = "DEAL" -> db.deals
      [] kind = "PROJECT" -> db.projects
      [] kind = "TASK" -> db.tasks
      [] kind = "PAYMENT" -> db.payments
      [] kind = "CASE" -> db.cases

ProjectFrom(source, x) ==
    LET found == {j \in DOMAIN db.projects : db.projects[j][source] = x}
    IN  IF found = {} THEN None ELSE CHOOSE j \in found : TRUE
TagsOf(x) == {tag \in DOMAIN db.tags : <<tag, x>> \in db.tagged}

\* snapshotEntity, of what the tables keep.
Snapshot(kind, x) ==
    LET row == TableOf(kind)[x]
    IN  CASE kind = "LEAD" -> [stageId |-> row.stage, pipelineId |-> row.pipeline, ownerId |-> row.owner,
                               tagIds |-> TagsOf(x), project |-> ProjectFrom("lead", x)]
          [] kind = "DEAL" -> [stageId |-> row.stage, pipelineId |-> row.pipeline, ownerId |-> row.owner,
                               tagIds |-> TagsOf(x), amount |-> row.amount,
                               project |-> ProjectFrom("deal", x)]
          [] kind = "PROJECT" -> [status |-> row.status, ownerId |-> row.manager, tagIds |-> TagsOf(x),
                                  amount |-> row.value, project |-> x]
          [] kind = "TASK" -> [status |-> row.status, ownerId |-> row.assignee, project |-> row.project]
          [] kind = "PAYMENT" -> [amount |-> row.amount, ownerId |-> row.recorder, project |-> row.project]
          [] kind = "CASE" -> [status |-> row.status, priority |-> row.priority, ownerId |-> row.assignee,
                               about |-> row.about, project |-> None]

-----------------------------------------------------------------------------
(* From an event to runs: publishBusinessEvent *)

\* The events that say what a record was and became; those of a case do not.
CarryChange == {t \in Triggers : TransitionChoices(t) # {}} \ {"case.status_changed"}
ChangedField(trigger) ==
    CASE trigger \in {"lead.stage_changed", "deal.stage_changed"} -> "stageId"
      [] trigger \in {"lead.owner_changed", "deal.owner_changed"} -> "ownerId"
      [] OTHER -> "status"

\* What the service read may be older than the snapshot, when requests overlap.
ChangesOf(event, snapshot) ==
    LET values == OrNone(TransitionValues(event))
    IN  IF event \notin CarryChange THEN {AnyChange}
        ELSE [from : values, to : IF Serial THEN {snapshot[ChangedField(event)]} ELSE values]

MatchesTriggerConfig(config, change) ==
    config # None => /\ config.from \in {None, change.from}
                     /\ config.to \in {None, change.to}

\* A service that has committed announces to the rules too.
PublishEvent(p) ==
    /\ At(p, "announce") /\ "rule.publish" \in env.ops
    /\ Continue(p, "rule.event",
          [event |-> Head(Arg(p)), depth |-> 0, cause |-> None,
           then |-> IF Len(Arg(p)) = 1 THEN Idle ELSE [op |-> "announce", arg |-> Tail(Arg(p))]])

FinishRun(tables, run, status) == [tables EXCEPT !.runs[run].status = status]

\* An event of a record that has been archived since is refused: the request
\* that published it fails, or the run.
RefuseEvent(p) ==
    /\ db' = IF Arg(p).cause = None THEN db ELSE FinishRun(db, Arg(p).cause, "FAILED")
    /\ request' = [request EXCEPT ![p] = Idle]

\* The webhooks are told first.  The runs are counted, and the rules read,
\* before any run is created.
ReadRules(p) ==
    /\ At(p, "rule.event")
    /\ LET arg == Arg(p)
           event == arg.event[1]
           x == arg.event[2]
           kind == KindOf(event)
           left == db.limits.runs - Cardinality(DOMAIN db.runs)
           Stop == request' = [request EXCEPT ![p] = arg.then] /\ UNCHANGED db
       IN  /\ announced' = announced \cup {arg.event}
           /\ UNCHANGED env
           /\ IF event \notin Triggers \/ arg.depth >= db.limits.depth THEN Stop
              ELSE IF x \notin Live(TableOf(kind)) THEN RefuseEvent(p)
              ELSE IF left <= 0 THEN Stop
              ELSE \E change \in ChangesOf(event, Snapshot(kind, x)) :
                      /\ UNCHANGED db
                      /\ request' = [request EXCEPT ![p] =
                            [op |-> "rule.queue",
                             arg |-> [event |-> event, record |-> x, depth |-> arg.depth,
                                      cause |-> arg.cause, then |-> arg.then, left |-> left,
                                      snapshot |-> Snapshot(kind, x), queued |-> {},
                                      due |-> {r \in DOMAIN db.rules :
                                                 /\ db.rules[r].active /\ db.rules[r].trigger = event
                                                 /\ MatchesTriggerConfig(db.rules[r].config, change)}]]]

\* One run after another.  The id of the event is new, so that each is created.
QueueRun(p) ==
    /\ At(p, "rule.queue")
    /\ LET arg == Arg(p)
       IN  \/ /\ arg.due = arg.queued \/ Cardinality(arg.queued) >= arg.left
              /\ request' = [request EXCEPT ![p] = arg.then]
              /\ UNCHANGED <<db, announced, env>>
           \/ /\ Cardinality(arg.queued) < arg.left /\ HasRoom(Runs, db.runs)
              /\ \E r \in arg.due \ arg.queued :
                    Proceed(p,
                       [db EXCEPT !.runs = Insert(@, Fresh(Runs, @),
                           [rule |-> r, record |-> arg.record, depth |-> arg.depth,
                            cause |-> arg.cause, snapshot |-> arg.snapshot, status |-> "PENDING"])],
                       "rule.queue", [arg EXCEPT !.queued = @ \cup {r}], 0)

-----------------------------------------------------------------------------
(* A run: processRun *)

\* evaluateCondition: what it may say of a snapshot.  Fields that the tables
\* do not keep, and custom fields, may say either.  No amount counts as 0 in
\* a comparison, and several tags equal none.
Verdicts(snapshot, c) ==
    LET value == snapshot[c.field]
        empty == IF c.field = "tagIds" THEN value = {} ELSE value = None
        equal == IF c.field \in NumericFields THEN value = c.number
                 ELSE c.field # "tagIds" /\ value = c.value
    IN  IF c.field \notin DOMAIN snapshot THEN BOOLEAN
        ELSE {CASE c.op = "IS_EMPTY" -> empty
                [] c.op = "IS_NOT_EMPTY" -> ~empty
                [] c.op = "EQUALS" -> equal
                [] c.op = "NOT_EQUALS" -> ~equal
                [] c.op = "CONTAINS" -> c.value \in value
                [] c.op = "GREATER_THAN" -> AmountOf(value) > c.number
                [] c.op = "LESS_THAN" -> AmountOf(value) < c.number}

\* A worker takes a pending run: the rule, as it is by now, and the snapshot,
\* as it was, decide what becomes of it.
StartRun(p) ==
    /\ At(p, "none") /\ "rule.run" \in env.ops /\ (Serial => Quiet)
    /\ \E run \in DOMAIN db.runs :
       LET rule == db.rules[db.runs[run].rule]
           verdicts == {Verdicts(db.runs[run].snapshot, rule.conditions[i]) : i \in DOMAIN rule.conditions}
           ends(status) == Proceed(p, FinishRun(db, run, status), "none", None, 0)
       IN  /\ db.runs[run].status = "PENDING"
           /\ \/ /\ ~rule.active \/ \E v \in verdicts : FALSE \in v
                 /\ ends("SKIPPED")
              \/ /\ rule.active /\ \A v \in verdicts : TRUE \in v
                 /\ IF Len(rule.actions) > db.limits.actions THEN ends("FAILED")
                    ELSE Proceed(p, FinishRun(db, run, "PROCESSING"), "rule.act",
                            [run |-> run, actions |-> rule.actions, creator |-> rule.creator], 0)

-----------------------------------------------------------------------------
(* The actions: executeAction *)

Acting(p, types) == At(p, "rule.act") /\ Head(Arg(p).actions).type \in types
Action(p) == Head(Arg(p).actions)
RunOf(p) == db.runs[Arg(p).run]
KindOfRun(p) == db.rules[RunOf(p).rule].kind
OwnerOf(p) == Given(Action(p), "ownerId", RunOf(p).snapshot.ownerId)

\* The result is saved: the next action, or the run has succeeded.
Performed(p, tables) ==
    IF Len(Arg(p).actions) = 1
    THEN Proceed(p, FinishRun(tables, Arg(p).run, "SUCCEEDED"), "none", None, 0)
    ELSE Proceed(p, tables, "rule.act", [Arg(p) EXCEPT !.actions = Tail(@)], 0)

\* The rest is not carried out.
PerformedIf(p, condition, tables) ==
    IF condition THEN Performed(p, tables)
    ELSE Proceed(p, FinishRun(db, Arg(p).run, "FAILED"), "none", None, 0)

\* A tag that is gone cannot be added.
TagRecord(p) ==
    /\ Acting(p, {"ADD_TAG", "REMOVE_TAG"})
    /\ LET label == <<Action(p).tagId, RunOf(p).record>>
       IN  IF Action(p).type = "ADD_TAG"
           THEN PerformedIf(p, label[1] \in DOMAIN db.tags, [db EXCEPT !.tagged = @ \cup {label}])
           ELSE Performed(p, [db EXCEPT !.tagged = @ \ {label}])

\* Whatever has become of the record and of the user; nothing is announced,
\* and a project's new manager does not become a member.
AssignOwner(p) ==
    /\ Acting(p, {"ASSIGN_OWNER"})
    /\ LET x == RunOf(p).record
           owner == Action(p).ownerId
       IN  Performed(p,
              CASE KindOfRun(p) = "LEAD" -> [db EXCEPT !.leads[x].owner = owner]
                [] KindOfRun(p) = "DEAL" -> [db EXCEPT !.deals[x].owner = owner]
                [] KindOfRun(p) = "PROJECT" -> [db EXCEPT !.projects[x].manager = owner]
                [] KindOfRun(p) = "CASE" -> [db EXCEPT !.cases[x].assignee = owner]
                [] KindOfRun(p) = "TASK" -> [db EXCEPT !.tasks[x].assignee = owner])

\* Only cases keep a priority.
ChangePriority(p) ==
    /\ Acting(p, {"CHANGE_PRIORITY"})
    /\ Performed(p, IF KindOfRun(p) = "CASE"
                    THEN [db EXCEPT !.cases[RunOf(p).record].priority = Action(p).priority] ELSE db)

\* Due tomorrow; the lead's next follow-up stays what it was.
CreateRunFollowUp(p) ==
    /\ Acting(p, {"CREATE_FOLLOW_UP"}) /\ HasRoom(FollowUps, db.followUps)
    /\ Performed(p,
          [db EXCEPT !.followUps = Insert(@, Fresh(FollowUps, @),
              [lead |-> RunOf(p).record, due |-> db.today + 1, assignee |-> OwnerOf(p),
               status |-> "PENDING"])])

\* What is created has a priority of work, of which "NORMAL" is none.
PriorityFits(p) == Given(Action(p), "priority", "MEDIUM") \in WorkPriorities

\* The rule's creator, when there is nobody else.
CreateRunActivity(p) ==
    /\ Acting(p, {"CREATE_SCHEDULED_ACTIVITY"}) /\ HasRoom(Activities, db.activities)
    /\ PerformedIf(p, PriorityFits(p),
          [db EXCEPT !.activities = Insert(@, Fresh(Activities, @),
              [status |-> "PLANNED",
               owner |-> IF OwnerOf(p) = None THEN Arg(p).creator ELSE OwnerOf(p),
               start |-> db.today + 1, end |-> None, reminder |-> None,
               about |-> RunOf(p).record])])

\* Faulty variant of Deeper: what a run publishes is like any other event.
SameDepth(run) == db.runs[run].depth

\* What a run publishes is one level below it.
Deeper(run) == db.runs[run].depth + 1

\* The task goes to the record's project, or to the case.  Its creation is
\* published before the action has succeeded.
CreateRunTask(p) ==
    /\ Acting(p, {"CREATE_TASK"}) /\ HasRoom(Tasks, db.tasks)
    /\ LET t == Fresh(Tasks, db.tasks)
           project == RunOf(p).snapshot.project
           row == [archived |-> FALSE, project |-> project, assignee |-> OwnerOf(p),
                   case |-> IF KindOfRun(p) = "CASE" THEN RunOf(p).record ELSE None,
                   status |-> "TODO", due |-> db.today + 1, completed |-> None]
       IN  IF ~PriorityFits(p) \/ (project = None /\ KindOfRun(p) # "CASE")
           THEN PerformedIf(p, FALSE, db)
           ELSE Proceed(p, [db EXCEPT !.tasks = Insert(@, t, row)], "rule.event",
                   [event |-> <<"task.created", t>>, depth |-> Deeper(Arg(p).run),
                    cause |-> Arg(p).run, then |-> [op |-> "rule.done", arg |-> Arg(p)]], 0)

TaskPublished(p) == At(p, "rule.done") /\ Performed(p, db)

\* The recipient is the user who is named, or the owner at the event.
CreateRunNotice(p) ==
    /\ Acting(p, {"CREATE_NOTIFICATION"})
    /\ PerformedIf(p, OwnerOf(p) \in ActiveUsers,
          Notify(db, OwnerOf(p), "AUTOMATION", RunOf(p).record, Arg(p).run))

\* The address is the record's by now: a lead's contact may be archived, the
\* case's contact, as it was at the event, may not.
RecipientOf(p) ==
    LET record == RunOf(p).record
        about == RunOf(p).snapshot.about
        AddressOf(contact) == IF contact = None THEN None ELSE db.contacts[contact].email
    IN  IF KindOfRun(p) = "CASE"
        THEN IF about \in Live(db.contacts) THEN AddressOf(about) ELSE None
        ELSE IF db.leads[record].archived THEN None
        ELSE IF Action(p).source = "LEAD_EMAIL" THEN db.leads[record].email
        ELSE AddressOf(db.leads[record].contact)
QueueRunEmail(p) ==
    /\ Acting(p, {"SEND_EMAIL"})
    /\ PerformedIf(p, RecipientOf(p) # None, db)

QueueRunWebhook(p) ==
    /\ Acting(p, {"TRIGGER_WEBHOOK"})
    /\ PerformedIf(p, Action(p).hook \in UsableHooks, db)

-----------------------------------------------------------------------------
RunsStep(p) ==
    \/ PublishEvent(p) \/ ReadRules(p) \/ QueueRun(p) \/ StartRun(p)
    \/ TagRecord(p) \/ AssignOwner(p) \/ ChangePriority(p) \/ CreateRunFollowUp(p)
    \/ CreateRunActivity(p) \/ CreateRunTask(p) \/ TaskPublished(p) \/ CreateRunNotice(p)
    \/ QueueRunEmail(p) \/ QueueRunWebhook(p)

RunRowsOK ==
    \A run \in DOMAIN db.runs :
        /\ [f \in DOMAIN db.runs[run] \ {"snapshot"} |-> db.runs[run][f]] \in RunRow
        /\ db.runs[run].rule \in DOMAIN db.rules

(* Properties *)

\* A rule that does what starts it again ends all the same: a chain of runs,
\* each caused by the one before, is never longer than the limit ("Nested
\* automation events carry execution depth; depth five is the hard maximum").
ChainsAreBounded ==
    \A run \in DOMAIN db.runs :
        LET chain[n \in 0..db.limits.depth] ==
                IF n = 0 THEN run ELSE IF chain[n - 1] = None THEN None ELSE db.runs[chain[n - 1]].cause
        IN  chain[db.limits.depth] = None

\* A rule that waits for a change to something, whatever it was before, gets
\* a run when a record has changed to that and the rule is read.
ChangesReachRules ==
    Serial =>
        \A p \in Requests : At(p, "rule.queue") =>
            \A r \in DOMAIN db.rules :
                LET config == db.rules[r].config
                IN  /\ db.rules[r].active /\ db.rules[r].trigger = Arg(p).event
                    /\ config # None /\ config.from = None /\ config.to # None
                    /\ TransitionChoices(Arg(p).event) # {}
                    /\ config.to = Arg(p).snapshot[ChangedField(Arg(p).event)]
                    => r \in Arg(p).due
=============================================================================
