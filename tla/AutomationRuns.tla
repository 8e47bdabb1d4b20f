--------------------------- MODULE AutomationRuns ---------------------------
(***************************************************************************)
(* Automation runs: publishBusinessEvent, processRun, retryRun,            *)
(* recoverPendingRuns and the rule switches of                             *)
(* apps/api/src/automations/automations.service.ts.                        *)
(*                                                                         *)
(* An event gives every active matching rule one AutomationRun row and a   *)
(* job.  A worker claims the row on (status, attemptCount), loads the rule *)
(* as it is now, and performs its actions in order, saving the list of     *)
(* results after each one; an attempt starts after the results already     *)
(* saved.  Every database call is a step of its own.  The runs that a      *)
(* nested task.created event gives to other rules are runs like these.  A  *)
(* worker whose lock on its job lapsed goes on with its handler beside the *)
(* one that takes the stalled job; how it ends no longer matters to the    *)
(* queue.                                                                  *)
(***************************************************************************)
EXTENDS JobQueue, Sequences, FiniteSets, FiniteSetsExt

CONSTANTS Rules, Events,
          Jobs,           \* slots for execution jobs; their ids are never reused
          Workers, Admins,
          NoRun, NoJob, NoRule,
          ActionLists,    \* action lists of rules: "task", "create" or "upsert" each
          MaxAttempts,    \* AUTOMATION_MAX_ATTEMPTS
          Environments    \* what the world around may do, see env

Runs == Rules \X Events
Indexes == 1..Max({Len(list) : list \in ActionLists})
EnvironmentRecords ==
    [kinds : SUBSET {"queue", "database", "business", "worker"},
     switching : BOOLEAN, actions : ActionLists, edits : SUBSET ActionLists, limit : Nat,
     maxRetries : Nat, maxFaults : Nat, retries : Nat, faults : Nat]

ASSUME AutomationAssumption ==
    /\ NoRun \notin Runs /\ NoJob \notin Jobs /\ NoRule \notin Rules
    /\ ActionLists \subseteq Seq({"task", "create", "upsert"})
    /\ IsFiniteSet(ActionLists) /\ IsFiniteSet(Workers)
    /\ MaxAttempts \in Nat \ {0}
    /\ Environments \subseteq EnvironmentRecords
    /\ \A x \in Environments : x.retries = 0 /\ x.faults = 0

VARIABLES
    rule,       \* the automation_rules rows
    run,        \* the automation_runs rows
    jobs, worker,
    publisher,  \* event -> the call of publishBusinessEvent in progress
    admin,      \* the API requests running retryRun
    sweep,      \* the rows recoverPendingRuns has read and not yet enqueued
    made,       \* run -> action -> how many times it was performed
    env         \* the rules' first action list, the lists administrators change
                \* it to, whether they switch rules off and on, the limit
                \* DEMO_AUTOMATION_MAX_ACTIONS_PER_RUN; the number, and the bound,
                \* of users' retries and of the faults of the given kinds

vars == <<rule, run, jobs, worker, publisher, admin, sweep, made,
          env>>

-----------------------------------------------------------------------------
Unfinished == [i \in Indexes |-> "none"]
Idle == [at |-> "idle", job |-> NoJob, target |-> NoRun, status |-> "absent",
         attempt |-> 0, actions |-> <<>>, results |-> Unfinished, transient |-> FALSE]
Quiet == [at |-> "idle", todo |-> {}, rule |-> NoRule]
Free == [at |-> "idle", run |-> NoRun]

\* The run that the data of w's job named when w took it.
Target(w) == worker[w].target

Init ==
    /\ env \in Environments
    /\ rule = [r \in Rules |-> [active |-> TRUE, actions |-> env.actions]]
    /\ run \in [Runs -> [status : {"absent"}, attempt : {0}, retryable : {FALSE},
                         matches : BOOLEAN, results : {Unfinished}]]
    /\ jobs = [j \in Jobs |-> NoRecord(NoRun)]
    /\ worker = [w \in Workers |-> Idle]
    /\ publisher = [e \in Events |-> Quiet]
    /\ admin = [a \in Admins |-> Free]
    /\ sweep = {}
    /\ made = [x \in Runs |-> [i \in Indexes |-> 0]]

Fault(kind) ==
    /\ kind \in env.kinds
    /\ env.faults < env.maxFaults
    /\ env' = [env EXCEPT !.faults = @ + 1]

\* enqueueAutomationRun: the id is fresh, so the job takes any free slot.
Enqueue(x) ==
    \E j \in Jobs :
        /\ jobs[j].state = "none"
        /\ jobs' = [jobs EXCEPT ![j] = Added(@, x)]

\* The add succeeds, or fails and is only logged or counted.
TryEnqueue(x) ==
    \/ Enqueue(x) /\ UNCHANGED env
    \/ Fault("queue") /\ UNCHANGED jobs

Released(job) == IF Live(job) THEN job ELSE NoRecord(NoRun)

\* The job records when w has left its job as `job`: BullMQ accepts the end of
\* a handler only from the worker that still holds the job's lock.
Left(w, job) ==
    IF worker[w].job = NoJob THEN jobs ELSE [jobs EXCEPT ![worker[w].job] = Released(job)]

Return(w) ==
    /\ jobs' = Left(w, Returned(jobs[worker[w].job]))
    /\ worker' = [worker EXCEPT ![w] = Idle]

Throw(w) ==
    /\ jobs' = Left(w, Thrown(jobs[worker[w].job]))
    /\ worker' = [worker EXCEPT ![w] = Idle]

Goto(w, step) ==
    /\ worker' = [worker EXCEPT ![w].at = step]
    /\ UNCHANGED jobs

\* An error is thrown to the step that catches it.
Raise(w, step, transient) ==
    /\ worker' = [worker EXCEPT ![w].at = step, ![w].transient = transient]
    /\ UNCHANGED jobs

\* finishRun: the row is written by its id, whatever it holds.
Finished(x, status, retryable) ==
    run' = [run EXCEPT ![x].status = status, ![x].retryable = retryable]

-----------------------------------------------------------------------------
(* publishBusinessEvent *)

\* The active rules are read.  An event with a deterministic id (an overdue
\* task, an expired quotation) is published again by later sweeps.
PublishRead(e) ==
    /\ publisher[e].at = "idle"
    /\ \E r \in Rules : rule[r].active
    /\ publisher' = [publisher EXCEPT ![e] =
          [Quiet EXCEPT !.at = "upsert", !.todo = {r \in Rules : rule[r].active}]]
    /\ UNCHANGED <<rule, run, jobs, worker, admin, sweep, made, env>>

Continue(e, rest) ==
    publisher' = [publisher EXCEPT ![e] =
        IF rest = {} THEN Quiet ELSE [Quiet EXCEPT !.at = "upsert", !.todo = rest]]

\* One run per rule and event; only a run that is PENDING gets a job.
PublishUpsert(e, r) ==
    /\ publisher[e].at = "upsert"
    /\ r \in publisher[e].todo
    /\ run' = [run EXCEPT ![<<r, e>>].status = IF @ = "absent" THEN "PENDING" ELSE @]
    /\ IF run'[<<r, e>>].status = "PENDING"
       THEN publisher' = [publisher EXCEPT ![e].at = "enqueue", ![e].rule = r]
       ELSE Continue(e, publisher[e].todo \ {r})
    /\ UNCHANGED <<rule, jobs, worker, admin, sweep, made, env>>

PublishEnqueue(e) ==
    /\ publisher[e].at = "enqueue"
    /\ TryEnqueue(<<publisher[e].rule, e>>)
    /\ Continue(e, publisher[e].todo \ {publisher[e].rule})
    /\ UNCHANGED <<rule, run, worker, admin, sweep, made>>

-----------------------------------------------------------------------------
(* processRun: the claim *)

Take(w, j) ==
    /\ worker[w].at = "idle"
    /\ jobs[j].state = "waiting"
    /\ jobs' = [jobs EXCEPT ![j] = Started(@)]
    /\ worker' = [worker EXCEPT ![w] = [Idle EXCEPT !.at = "read", !.job = j,
                                                  !.target = jobs[j].target]]
    /\ UNCHANGED <<rule, run, publisher, admin, sweep, made, env>>

\* Faulty variant of Claimable: the status is not looked at.
ClaimableAnyStatus(x) == run[x].attempt < MaxAttempts

Claimable(x) ==
    /\ run[x].status \in {"PENDING", "FAILED"}
    /\ run[x].attempt < MaxAttempts

Read(w) ==
    /\ worker[w].at = "read"
    /\ LET x == Target(w)
       IN  IF Claimable(x)
           THEN /\ worker' = [worker EXCEPT ![w].at = "claim",
                                            ![w].status = run[x].status,
                                            ![w].attempt = run[x].attempt + 1]
                /\ UNCHANGED jobs
           ELSE Return(w)
    /\ UNCHANGED <<rule, run, publisher, admin, sweep, made, env>>

\* Faulty variant of Unclaimed: nothing is compared.
UnclaimedUnchecked(w) == worker[w].at = "claim"

\* The row is unchanged since the worker read it.
Unclaimed(w) ==
    /\ run[Target(w)].status = worker[w].status
    /\ run[Target(w)].attempt = worker[w].attempt - 1

\* The update increments the counter in the database.
Claim(w) ==
    /\ worker[w].at = "claim"
    /\ IF Unclaimed(w)
       THEN /\ run' = [run EXCEPT ![Target(w)].status = "PROCESSING",
                                  ![Target(w)].attempt = @ + 1]
            /\ Goto(w, "load")
       ELSE Return(w) /\ UNCHANGED run
    /\ UNCHANGED <<rule, publisher, admin, sweep, made, env>>

\* Faulty variant of Load: every attempt starts from the first action.
LoadForgetful(w) ==
    /\ worker[w].at = "load"
    /\ worker' = [worker EXCEPT ![w].at = "perform", ![w].results = Unfinished,
                                ![w].actions = rule[Target(w)[1]].actions]
    /\ UNCHANGED <<rule, run, jobs, publisher, admin, sweep, made, env>>

\* The rule and the saved results are read again; a rule switched off since,
\* or conditions the snapshot does not meet, end the run as SKIPPED.
Load(w) ==
    /\ worker[w].at = "load"
    /\ LET x == Target(w)
           now == rule[x[1]]
       IN  CASE ~now.active \/ ~run[x].matches ->
                   Finished(x, "SKIPPED", FALSE) /\ Return(w)
             [] now.active /\ run[x].matches /\ Len(now.actions) > env.limit ->
                   Finished(x, "FAILED", FALSE) /\ Return(w)
             [] OTHER ->
                   /\ worker' = [worker EXCEPT ![w].at = "perform",
                                               ![w].attempt = run[x].attempt,
                                               ![w].actions = now.actions,
                                               ![w].results = run[x].results]
                   /\ UNCHANGED <<run, jobs>>
    /\ UNCHANGED <<rule, publisher, admin, sweep, made, env>>

-----------------------------------------------------------------------------
(* processRun: the actions *)

\* Faulty variant of Remaining: an action that failed is not tried again.
RemainingUntried(w) == {i \in DOMAIN worker[w].actions : worker[w].results[i] = "none"}

\* The actions without a SUCCEEDED result, and the one the loop is at.
Remaining(w) == {i \in DOMAIN worker[w].actions : worker[w].results[i] # "SUCCEEDED"}
Current(w) == Min(Remaining(w))

\* executeAction: tasks and follow-ups are new rows each time; tags, owners,
\* priorities, notifications, scheduled activities, emails and webhooks are
\* written under stable keys.
Perform(w) ==
    /\ worker[w].at = "perform"
    /\ Remaining(w) # {}
    /\ \/ /\ made' = [made EXCEPT ![Target(w)][Current(w)] = @ + 1]
          /\ Goto(w, IF worker[w].actions[Current(w)] = "task" THEN "publish" ELSE "save")
          /\ UNCHANGED env
       \/ /\ \/ Fault("business") /\ Raise(w, "reject", FALSE)
             \/ Fault("database") /\ Raise(w, "reject", TRUE)
          /\ UNCHANGED made
    /\ UNCHANGED <<rule, run, publisher, admin, sweep>>

\* Faulty variant of PublishNested: a failed publication repeats the action.
PublishNestedAgain(w) ==
    /\ worker[w].at = "publish"
    /\ \/ Goto(w, "save") /\ UNCHANGED env
       \/ Fault("database") /\ Goto(w, "perform")
    /\ UNCHANGED <<rule, run, publisher, admin, sweep, made>>

\* A created task publishes task.created; when that fails the action fails,
\* and the task stays.
PublishNested(w) ==
    /\ worker[w].at = "publish"
    /\ \/ Goto(w, "save") /\ UNCHANGED env
       \/ Fault("database") /\ Raise(w, "reject", TRUE)
    /\ UNCHANGED <<rule, run, publisher, admin, sweep, made>>

With(w, result) == [worker[w].results EXCEPT ![Current(w)] = result]

\* The whole list of results is written from the worker's copy.
Save(w) ==
    /\ worker[w].at = "save"
    /\ \/ /\ run' = [run EXCEPT ![Target(w)].results = With(w, "SUCCEEDED")]
          /\ worker' = [worker EXCEPT ![w].results = With(w, "SUCCEEDED"),
                                      ![w].at = "perform"]
          /\ UNCHANGED <<jobs, env>>
       \/ Fault("database") /\ Raise(w, "reject", TRUE) /\ UNCHANGED run
    /\ UNCHANGED <<rule, publisher, admin, sweep, made>>

\* The inner catch block saves the failure and throws on; when the save
\* itself fails, that error is thrown instead.
SaveFailure(w) ==
    /\ worker[w].at = "reject"
    /\ \/ /\ run' = [run EXCEPT ![Target(w)].results = With(w, "FAILED")]
          /\ worker' = [worker EXCEPT ![w].results = With(w, "FAILED"), ![w].at = "fail"]
          /\ UNCHANGED <<jobs, env>>
       \/ Fault("database") /\ Raise(w, "fail", TRUE) /\ UNCHANGED run
    /\ UNCHANGED <<rule, publisher, admin, sweep, made>>

FinishSucceeded(w) ==
    /\ worker[w].at = "perform"
    /\ Remaining(w) = {}
    /\ \/ Finished(Target(w), "SUCCEEDED", FALSE) /\ Return(w) /\ UNCHANGED env
       \/ Fault("database") /\ Raise(w, "fail", TRUE) /\ UNCHANGED run
    /\ UNCHANGED <<rule, publisher, admin, sweep, made>>

\* Faulty variant of FinishFailed: a transient failure is not thrown on.
FinishFailedQuietly(w) ==
    /\ worker[w].at = "fail"
    /\ Finished(Target(w), "FAILED", worker[w].transient /\ worker[w].attempt < MaxAttempts)
    /\ Return(w)
    /\ UNCHANGED <<rule, publisher, admin, sweep, made, env>>

\* The outer catch block: transient errors are thrown on while attempts are
\* left, so that the queue retries the job.
FinishFailed(w) ==
    /\ worker[w].at = "fail"
    /\ LET retryable == worker[w].transient /\ worker[w].attempt < MaxAttempts
       IN  /\ Finished(Target(w), "FAILED", retryable)
           /\ IF retryable THEN Throw(w) ELSE Return(w)
    /\ UNCHANGED <<rule, publisher, admin, sweep, made, env>>

\* A database call outside the try blocks throws: the job fails.
DatabaseError(w) ==
    /\ worker[w].at \in {"read", "claim", "load", "fail"}
    /\ Fault("database")
    /\ Throw(w)
    /\ UNCHANGED <<rule, run, publisher, admin, sweep, made>>

\* The worker process dies: the job it still had stalls, the run stays as it is.
WorkerCrash(w) ==
    /\ worker[w].at # "idle"
    /\ Fault("worker")
    /\ jobs' = Left(w, Stalled(jobs[worker[w].job]))
    /\ worker' = [worker EXCEPT ![w] = Idle]
    /\ UNCHANGED <<rule, run, publisher, admin, sweep, made>>

\* The lock is not renewed in time: the job stalls, the handler goes on.
LockLapse(w) ==
    /\ worker[w].job # NoJob
    /\ Fault("worker")
    /\ jobs' = Left(w, Stalled(jobs[worker[w].job]))
    /\ worker' = [worker EXCEPT ![w].job = NoJob]
    /\ UNCHANGED <<rule, run, publisher, admin, sweep, made>>

-----------------------------------------------------------------------------
(* retryRun, recoverPendingRuns, updateRule *)

RetryRead(a, x) ==
    /\ admin[a].at = "idle"
    /\ env.retries < env.maxRetries
    /\ run[x].status = "FAILED" /\ run[x].retryable /\ run[x].attempt < MaxAttempts
    /\ admin' = [admin EXCEPT ![a] = [at |-> "write", run |-> x]]
    /\ env' = [env EXCEPT !.retries = @ + 1]
    /\ UNCHANGED <<rule, run, jobs, worker, publisher, sweep, made>>

RetryWrite(a) ==
    /\ admin[a].at = "write"
    /\ run' = [run EXCEPT ![admin[a].run].status = "PENDING"]
    /\ admin' = [admin EXCEPT ![a].at = "enqueue"]
    /\ UNCHANGED <<rule, jobs, worker, publisher, sweep, made, env>>

RetryEnqueue(a) ==
    /\ admin[a].at = "enqueue"
    /\ TryEnqueue(admin[a].run)
    /\ admin' = [admin EXCEPT ![a] = Free]
    /\ UNCHANGED <<rule, run, worker, publisher, sweep, made>>

Recoverable(x) == run[x].status = "PENDING" /\ rule[x[1]].active

\* Faulty variant of SweepRead: only failed runs are looked for.
SweepReadFailed ==
    /\ sweep = {}
    /\ sweep' = {x \in Runs : run[x].status = "FAILED" /\ rule[x[1]].active}
    /\ sweep' # {}
    /\ UNCHANGED <<rule, run, jobs, worker, publisher, admin, made, env>>

SweepRead ==
    /\ sweep = {}
    /\ sweep' = {x \in Runs : Recoverable(x)}
    /\ sweep' # {}
    /\ UNCHANGED <<rule, run, jobs, worker, publisher, admin, made, env>>

SweepEnqueue(x) ==
    /\ x \in sweep
    /\ TryEnqueue(x)
    /\ sweep' = sweep \ {x}
    /\ UNCHANGED <<rule, run, worker, publisher, admin, made>>

SwitchRule(r) ==
    /\ env.switching
    /\ rule' = [rule EXCEPT ![r].active = ~@]
    /\ UNCHANGED <<run, jobs, worker, publisher, admin, sweep, made, env>>

EditRule(r) ==
    /\ \E list \in env.edits \ {rule[r].actions} : rule' = [rule EXCEPT ![r].actions = list]
    /\ UNCHANGED <<run, jobs, worker, publisher, admin, sweep, made, env>>

-----------------------------------------------------------------------------
Handle(w) ==
    \/ Read(w) \/ Claim(w) \/ Load(w)
    \/ Perform(w) \/ PublishNested(w) \/ Save(w) \/ SaveFailure(w)
    \/ FinishSucceeded(w) \/ FinishFailed(w) \/ DatabaseError(w)

Next ==
    \/ \E e \in Events :
          PublishRead(e) \/ (\E r \in Rules : PublishUpsert(e, r)) \/ PublishEnqueue(e)
    \/ \E w \in Workers :
          (\E j \in Jobs : Take(w, j)) \/ Handle(w) \/ WorkerCrash(w) \/ LockLapse(w)
    \/ \E a \in Admins :
          (\E x \in Runs : RetryRead(a, x)) \/ RetryWrite(a) \/ RetryEnqueue(a)
    \/ SweepRead
    \/ \E x \in Runs : SweepEnqueue(x)
    \/ \E r \in Rules : SwitchRule(r) \/ EditRule(r)

Spec == Init /\ [][Next]_vars

\* Handlers and requests go on, every waiting job is handed out, the recovery
\* job fires every minute.
Fairness ==
    /\ \A w \in Workers : WF_vars(Handle(w))
    /\ \A j \in Jobs : SF_vars(\E w \in Workers : Take(w, j))
    /\ \A e \in Events : WF_vars((\E r \in Rules : PublishUpsert(e, r)) \/ PublishEnqueue(e))
    /\ \A a \in Admins : WF_vars(RetryWrite(a) \/ RetryEnqueue(a))
    /\ WF_vars(SweepRead)
    /\ \A x \in Runs : SF_vars(SweepEnqueue(x))

FairSpec == Spec /\ Fairness

-----------------------------------------------------------------------------
(* Properties *)

Results == [Indexes -> {"none", "SUCCEEDED", "FAILED"}]

RunRecords ==
    [status : {"absent", "PENDING", "PROCESSING", "SUCCEEDED", "SKIPPED", "FAILED"},
     attempt : Nat, retryable : BOOLEAN, matches : BOOLEAN, results : Results]

RowsOK ==
    /\ rule \in [Rules -> [active : BOOLEAN, actions : ActionLists]]
    /\ run \in [Runs -> RunRecords]

QueueOK == jobs \in [Jobs -> JobRecords(Runs \cup {NoRun})]

WorkerRecords ==
    [at : {"idle", "read", "claim", "load", "perform", "publish", "save", "reject", "fail"},
     job : Jobs \cup {NoJob}, target : Runs \cup {NoRun},
     status : {"absent", "PENDING", "FAILED"}, attempt : Nat, actions : ActionLists \cup {<<>>}, results : Results,
     transient : BOOLEAN]

WorkersOK == worker \in [Workers -> WorkerRecords]

CallsOK ==
    /\ publisher \in [Events -> [at : {"idle", "upsert", "enqueue"},
                                 todo : SUBSET Rules, rule : Rules \cup {NoRule}]]
    /\ admin \in [Admins -> [at : {"idle", "write", "enqueue"}, run : Runs \cup {NoRun}]]
    /\ sweep \in SUBSET Runs

LogsOK == made \in [Runs -> [Indexes -> Nat]]

EnvOK ==
    /\ env \in EnvironmentRecords
    /\ env.retries <= env.maxRetries /\ env.faults <= env.maxFaults

\* Every row, job and process is in a state the code can produce.
TypeOK == RowsOK /\ QueueOK /\ WorkersOK /\ CallsOK /\ LogsOK /\ EnvOK

Executing(w, x) ==
    /\ worker[w].at \in {"load", "perform", "publish", "save", "reject", "fail"}
    /\ Target(w) = x

\* In an environment without user retries, the claim makes the execution of
\* a run exclusive, also while a worker whose job was taken for stalled is
\* still executing it.
ExclusiveExecution ==
    \A x \in Runs, w1, w2 \in Workers :
        env.maxRetries = 0 /\ w1 # w2 => ~(Executing(w1, x) /\ Executing(w2, x))

\* An action is performed at most once per attempt of its run, also when
\* saving its result or publishing its task fails.
OncePerAttempt ==
    \A x \in Runs, i \in Indexes : made[x][i] <= run[x].attempt

\* A run that says SUCCEEDED has performed every action of its rule, over
\* however many attempts and workers, in environments where the rule is not
\* edited in between.
SucceededPerformedAll ==
    \A x \in Runs :
        env.edits = {} /\ run[x].status = "SUCCEEDED" =>
            \A i \in DOMAIN env.actions : made[x][i] > 0

SavedSuccessKept ==
    \A x \in Runs, i \in Indexes :
        env.maxRetries = 0 /\ run[x].results[i] = "SUCCEEDED"
            => run'[x].results[i] = "SUCCEEDED" /\ made'[x][i] = made[x][i]

\* An action whose success has been saved is not performed again, and the
\* saved success is not lost, in environments without user retries.
SavedSuccessIsFinal == [][SavedSuccessKept]_vars

\* A transient failure is not the end of a run while it has attempts left:
\* FAILED and retryable, some job will take it up, in environments without
\* user retries where no add to the queue and no worker fails.  Database calls
\* that fail outside the try block use up attempts of the job and none of the
\* run: the faults must be fewer than the attempts a job has.
RetryableHasJob ==
    \A x \in Runs :
        (/\ env.maxRetries = 0 /\ env.kinds \cap {"queue", "worker"} = {}
         /\ env.maxFaults < QueueAttempts
         /\ run[x].status = "FAILED" /\ run[x].retryable)
            => \E j \in Jobs : Live(jobs[j]) /\ jobs[j].target = x

\* A PENDING run of an active rule is taken up, also when its enqueue failed
\* or a worker died before claiming it, in environments without user retries:
\* retryRun may write PENDING over a run that has just succeeded with its
\* last attempt, and no claim accepts that.
PendingIsWorked ==
    \A x \in Runs : (env.maxRetries = 0 /\ Recoverable(x)) ~> ~Recoverable(x)
=============================================================================
