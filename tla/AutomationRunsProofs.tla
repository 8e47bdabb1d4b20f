------------------------ MODULE AutomationRunsProofs ------------------------
(***************************************************************************)
(* AutomationRuns for every number of rules, events, jobs, workers,        *)
(* actions, attempts and faults: the types, that the claim makes the       *)
(* execution of a run exclusive, that an action is performed at most once  *)
(* per attempt, that a saved success is final, that SUCCEEDED means every  *)
(* action was performed, and that a retryable run has a job.               *)
(***************************************************************************)
EXTENDS AutomationRuns, JobQueueProofs, FiniteSetTheorems, WellFoundedInduction

JobTargets == Runs \cup {NoRun}

\* A job record of the right type; one that is live names a run.
GoodJob(job) == Sound(job, JobTargets) /\ (Live(job) => job.target \in Runs)

JobsSound == \A j \in Jobs : GoodJob(jobs[j])

\* A busy worker works on a run.  While it holds the lock of its job, that job
\* is active, names the same run and has no other holder.
BusyHasJob ==
    /\ \A w \in Workers :
          /\ worker[w].at # "idle" => worker[w].target \in Runs
          /\ worker[w].job # NoJob =>
                /\ worker[w].at # "idle"
                /\ jobs[worker[w].job].state = "active"
                /\ jobs[worker[w].job].target = worker[w].target
    /\ \A w1, w2 \in Workers :
          worker[w1].job # NoJob /\ worker[w1].job = worker[w2].job => w1 = w2

\* A call in progress is about a run.
CallsHaveRuns ==
    /\ \A e \in Events : publisher[e].at = "enqueue" => publisher[e].rule \in Rules
    /\ \A a \in Admins : admin[a].at # "idle" => admin[a].run \in Runs

IInv == TypeOK /\ JobsSound /\ BusyHasJob /\ CallsHaveRuns

\* A worker that is still busy is at the run it was at.
TargetsKept ==
    \A w \in Workers :
        worker[w].at # "idle" /\ worker'[w].at # "idle" => Target(w)' = Target(w)

\* A step of one worker.
Acts(w) == (\E j \in Jobs : Take(w, j)) \/ Handle(w) \/ WorkerCrash(w) \/ LockLapse(w)

USE DEF Acts

\* Nothing is stored and nobody is at work.
LEMMA InitIInv == Init => IInv
<1> SUFFICES ASSUME Init PROVE IInv
  OBVIOUS
<1>1. Sound(NoRecord(NoRun), JobTargets) /\ ~Live(NoRecord(NoRun))
  BY NoRecordSound DEF JobTargets, NoRecord, Live
<1>2. JobsSound
  BY <1>1 DEF Init, JobsSound, GoodJob
<1>3. QueueOK
  BY <1>1 DEF Init, Sound, QueueOK, JobTargets
<1>4. EnvOK
  BY AutomationAssumption DEF Init, AutomationAssumption, EnvironmentRecords, EnvOK
<1>5. Unfinished \in Results
  BY DEF Unfinished, Results
<1>6. RowsOK
  <2>1. env.actions \in ActionLists
    BY <1>4 DEF EnvOK, EnvironmentRecords
  <2>2. rule \in [Rules -> [active : BOOLEAN, actions : ActionLists]]
    BY <2>1 DEF Init
  <2>3. {Unfinished} \subseteq Results
    BY <1>5
  <2> DEFINE Fresh == [status : {"absent"}, attempt : {0}, retryable : {FALSE},
                       matches : BOOLEAN, results : {Unfinished}]
  <2>4. Fresh \subseteq RunRecords
    <3>1. SUFFICES ASSUME NEW r \in Fresh PROVE r \in RunRecords
      OBVIOUS
    <3>2. r = [status |-> r.status, attempt |-> r.attempt, retryable |-> r.retryable,
               matches |-> r.matches, results |-> r.results]
      BY <3>1
    <3>3. r.status = "absent" /\ r.attempt \in Nat
      BY <3>1
    <3>4. r.retryable \in BOOLEAN
      <4>1. r.retryable \in {FALSE}
        BY <3>1
      <4> QED
        BY <4>1, Zenon
    <3>5. r.matches \in BOOLEAN
      BY <3>1
    <3>6. r.results \in Results
      BY <2>3, <3>1
    <3> QED
      BY <3>2, <3>3, <3>4, <3>5, <3>6 DEF RunRecords
  <2>5. run \in [Runs -> Fresh]
    BY DEF Init
  <2>6. run \in [Runs -> RunRecords]
    <3> HIDE DEF Fresh
    <3> QED
      BY <2>4, <2>5
  <2> QED
    BY <2>2, <2>6 DEF RowsOK
<1>7. WorkersOK /\ CallsOK /\ LogsOK
  BY <1>5 DEF Init, WorkersOK, WorkerRecords, CallsOK, LogsOK, Idle, Quiet, Free
<1> QED
  BY <1>2, <1>3, <1>4, <1>6, <1>7
     DEF Init, IInv, TypeOK, BusyHasJob, CallsHaveRuns, Idle, Quiet, Free

-----------------------------------------------------------------------------
(* The queue's part of a step *)

\* Replacing a job record by a good one keeps them all good.
LEMMA OneJobReplaced ==
    ASSUME IInv, NEW j \in Jobs, NEW job, GoodJob(job),
           jobs' = [jobs EXCEPT ![j] = job]
    PROVE  JobsSound' /\ QueueOK'
<1>1. QueueOK
  BY DEF IInv, TypeOK
<1>2. \A y \in Jobs : GoodJob(jobs'[y])
  BY <1>1 DEF IInv, JobsSound, QueueOK
<1>3. JobsSound'
  BY <1>2 DEF JobsSound
<1> QED
  BY <1>1, <1>3 DEF JobsSound, GoodJob, Sound, QueueOK, JobTargets

\* What a released job leaves behind is good.
LEMMA ReleasedGood ==
    ASSUME NEW job, Sound(job, JobTargets), Live(job) => job.target \in Runs
    PROVE  GoodJob(Released(job))
BY NoRecordSound DEF Released, GoodJob, JobTargets, NoRecord, Live

\* Workers that keep their jobs stay with their runs.
LEMMA JobsKept ==
    ASSUME IInv, UNCHANGED jobs,
           \A x \in Workers : /\ worker'[x].job = worker[x].job
                              /\ worker'[x].target = worker[x].target
                              /\ worker'[x].at = "idle" <=> worker[x].at = "idle"
    PROVE  JobsSound' /\ QueueOK' /\ BusyHasJob' /\ TargetsKept
<1>1. JobsSound' /\ QueueOK'
  BY DEF IInv, TypeOK, QueueOK, JobsSound
<1>2. BusyHasJob'
  BY DEF IInv, BusyHasJob
<1>3. TargetsKept
  BY DEF TargetsKept, Target
<1> QED
  BY <1>1, <1>2, <1>3

\* A step that no worker takes and that adds at most one job.
LEMMA EnqueueKeeps ==
    ASSUME IInv, UNCHANGED worker, NEW x \in Runs, Enqueue(x) \/ UNCHANGED jobs
    PROVE  JobsSound' /\ QueueOK' /\ BusyHasJob' /\ TargetsKept
<1>1. CASE UNCHANGED jobs
  BY <1>1, JobsKept
<1>2. CASE Enqueue(x)
  <2>1. PICK j \in Jobs : jobs[j].state = "none" /\ jobs' = [jobs EXCEPT ![j] = Added(@, x)]
    BY <1>2 DEF Enqueue
  <2>2. GoodJob(Added(jobs[j], x))
    BY <2>1, AddedSound DEF IInv, JobsSound, GoodJob, JobTargets, Added
  <2>3. JobsSound' /\ QueueOK'
    BY <2>1, <2>2, OneJobReplaced
  <2>4. \A y \in Jobs : jobs[y].state = "active" => jobs'[y] = jobs[y]
    BY <2>1 DEF IInv, TypeOK, QueueOK
  <2>5. \A w \in Workers : worker[w].job # NoJob => worker[w].job \in Jobs
    BY DEF IInv, TypeOK, WorkersOK, WorkerRecords
  <2>6. BusyHasJob' /\ TargetsKept
    BY <2>4, <2>5 DEF IInv, BusyHasJob, TargetsKept, Target
  <2> QED
    BY <2>3, <2>6
<1> QED
  BY <1>1, <1>2

\* Whatever a worker leaves its job as, if it still had one, the others keep
\* theirs.
LEMMA JobLeft ==
    ASSUME IInv, NEW w \in Workers, NEW job, jobs' = Left(w, job),
           worker[w].job # NoJob =>
               Sound(job, JobTargets) /\ (Live(job) => job.target \in Runs)
    PROVE  /\ JobsSound' /\ QueueOK'
           /\ \A x \in Workers \ {w} : worker[x].job # NoJob =>
                 jobs'[worker[x].job] = jobs[worker[x].job]
<1>1. CASE worker[w].job = NoJob
  BY <1>1 DEF Left, IInv, TypeOK, QueueOK, JobsSound
<1>2. CASE worker[w].job # NoJob
  <2>1. /\ worker[w].job \in Jobs
        /\ \A x \in Workers : worker[x].job # NoJob => worker[x].job \in Jobs
    BY <1>2 DEF IInv, TypeOK, WorkersOK, WorkerRecords
  <2>2. GoodJob(Released(job))
    BY <1>2, ReleasedGood
  <2>3. jobs' = [jobs EXCEPT ![worker[w].job] = Released(job)]
    BY <1>2 DEF Left
  <2>4. \A x \in Workers \ {w} : worker[x].job # NoJob => worker[x].job # worker[w].job
    BY <1>2 DEF IInv, BusyHasJob
  <2> QED
    BY <2>1, <2>2, <2>3, <2>4, OneJobReplaced DEF IInv, TypeOK, QueueOK
<1> QED
  BY <1>1, <1>2

\* The job that a worker holds is active and names the worker's run.
LEMMA HeldJob ==
    ASSUME IInv, NEW w \in Workers, worker[w].job # NoJob
    PROVE  /\ worker[w].job \in Jobs /\ Sound(jobs[worker[w].job], JobTargets)
           /\ jobs[worker[w].job].state = "active" /\ Live(jobs[worker[w].job])
           /\ jobs[worker[w].job].target = Target(w) /\ Target(w) \in Runs
           /\ worker[w].at # "idle"
BY DEF IInv, TypeOK, WorkersOK, WorkerRecords, BusyHasJob, JobsSound, GoodJob, Live, Target

\* The job records that a worker can leave.
LEMMA EndedSound ==
    ASSUME IInv, NEW w \in Workers, worker[w].job # NoJob,
           NEW job \in {Returned(jobs[worker[w].job]), Thrown(jobs[worker[w].job]),
                        Stalled(jobs[worker[w].job])}
    PROVE  Sound(job, JobTargets) /\ (Live(job) => job.target \in Runs)
<1> DEFINE j == worker[w].job
<1>1. Sound(jobs[j], JobTargets) /\ Live(jobs[j]) /\ jobs[j].target \in Runs
  BY HeldJob
<1>2. /\ Sound(Returned(jobs[j]), JobTargets) /\ ~Live(Returned(jobs[j]))
      /\ Sound(Thrown(jobs[j]), JobTargets) /\ Thrown(jobs[j]).target = jobs[j].target
      /\ Sound(Stalled(jobs[j]), JobTargets) /\ Stalled(jobs[j]).target = jobs[j].target
  <2>1. ~Live(Returned(jobs[j]))
    BY <1>1 DEF Returned, Live, Sound, JobRecords
  <2> QED
    BY <1>1, <2>1, ReturnedSound, ThrownSound, StalledSound
<1> QED
  BY <1>1, <1>2

\* However a handler ends, only its own job changes, and its worker is free.
LEMMA HandlerEnds ==
    ASSUME IInv, NEW w \in Workers, worker[w].at # "idle",
           \/ Return(w)
           \/ Throw(w)
           \/ /\ jobs' = Left(w, Stalled(jobs[worker[w].job]))
              /\ worker' = [worker EXCEPT ![w] = Idle]
    PROVE  /\ JobsSound' /\ QueueOK' /\ BusyHasJob' /\ WorkersOK' /\ TargetsKept
           /\ worker' = [worker EXCEPT ![w] = Idle]
<1>1. PICK job \in {Returned(jobs[worker[w].job]), Thrown(jobs[worker[w].job]),
                    Stalled(jobs[worker[w].job])} : jobs' = Left(w, job)
  BY DEF Return, Throw
<1>2. /\ JobsSound' /\ QueueOK'
      /\ \A x \in Workers \ {w} : worker[x].job # NoJob =>
            jobs'[worker[x].job] = jobs[worker[x].job]
  BY <1>1, EndedSound, JobLeft
<1>3. worker' = [worker EXCEPT ![w] = Idle]
  BY DEF Return, Throw
<1>4. Idle \in WorkerRecords /\ Idle.at = "idle" /\ Idle.job = NoJob
  BY DEF Idle, Unfinished, Results, WorkerRecords
<1>5. WorkersOK'
  BY <1>3, <1>4 DEF IInv, TypeOK, WorkersOK
<1>6. /\ worker'[w].at = "idle" /\ worker'[w].job = NoJob
      /\ \A x \in Workers \ {w} : worker'[x] = worker[x]
  BY <1>3, <1>4 DEF IInv, TypeOK, WorkersOK
<1>7. BusyHasJob' /\ TargetsKept
  BY <1>2, <1>6 DEF IInv, BusyHasJob, TargetsKept, Target
<1> QED
  BY <1>2, <1>3, <1>5, <1>7

\* A worker that loses its lock goes on with the same run.
LEMMA LapseKeeps ==
    ASSUME IInv, NEW w \in Workers, LockLapse(w)
    PROVE  JobsSound' /\ QueueOK' /\ BusyHasJob' /\ WorkersOK' /\ TargetsKept
<1>1. /\ jobs' = Left(w, Stalled(jobs[worker[w].job]))
      /\ worker[w].job # NoJob
      /\ worker' = [worker EXCEPT ![w].job = NoJob]
  BY DEF LockLapse
<1>2. /\ JobsSound' /\ QueueOK'
      /\ \A x \in Workers \ {w} : worker[x].job # NoJob =>
            jobs'[worker[x].job] = jobs[worker[x].job]
  BY <1>1, EndedSound, JobLeft
<1>3. WorkersOK'
  BY <1>1 DEF IInv, TypeOK, WorkersOK, WorkerRecords
<1>4. /\ worker'[w].at = worker[w].at /\ worker'[w].target = worker[w].target
      /\ worker'[w].job = NoJob
      /\ \A x \in Workers \ {w} : worker'[x] = worker[x]
  BY <1>1 DEF IInv, TypeOK, WorkersOK, WorkerRecords
<1>5. BusyHasJob' /\ TargetsKept
  BY <1>2, <1>4 DEF IInv, BusyHasJob, TargetsKept, Target
<1> QED
  BY <1>2, <1>3, <1>5

\* A handler that goes on with a well typed worker keeps its job.
LEMMA HandlerGoesOn ==
    ASSUME IInv, UNCHANGED jobs, NEW w \in Workers, worker[w].at # "idle", NEW new,
           worker' = [worker EXCEPT ![w] = new], new.job = worker[w].job,
           new.target = worker[w].target, new.at # "idle", new \in WorkerRecords
    PROVE  JobsSound' /\ QueueOK' /\ BusyHasJob' /\ WorkersOK' /\ TargetsKept
<1>1. WorkersOK'
  BY DEF IInv, TypeOK, WorkersOK
<1>2. \A x \in Workers : /\ worker'[x].job = worker[x].job
                         /\ worker'[x].target = worker[x].target
                         /\ worker'[x].at = "idle" <=> worker[x].at = "idle"
  BY DEF IInv, TypeOK, WorkersOK
<1> QED
  BY <1>1, <1>2, JobsKept

\* A fault is counted, and the other bounds of the environment stay.
LEMMA FaultCounted ==
    ASSUME EnvOK, NEW kind, Fault(kind)
    PROVE  EnvOK' /\ env'.maxRetries = env.maxRetries /\ env'.retries = env.retries
BY DEF EnvOK, EnvironmentRecords, Fault

-----------------------------------------------------------------------------
(* The publications, the users' retries, the sweep and the rules *)

\* Every step of publishBusinessEvent keeps the invariant.
LEMMA PublishStep ==
    ASSUME IInv, NEW e \in Events,
           PublishRead(e) \/ (\E r \in Rules : PublishUpsert(e, r)) \/ PublishEnqueue(e)
    PROVE  IInv' /\ TargetsKept
<1> USE DEF IInv, TypeOK
<1>1. ASSUME PublishRead(e) PROVE IInv' /\ TargetsKept
  <2>1. UNCHANGED <<rule, run, jobs, worker, admin, sweep, made, env>>
    BY <1>1 DEF PublishRead
  <2>2. JobsSound' /\ QueueOK' /\ BusyHasJob' /\ TargetsKept
    BY <2>1, JobsKept
  <2>3. CallsOK' /\ CallsHaveRuns'
    BY <1>1 DEF CallsOK, CallsHaveRuns, PublishRead, Quiet
  <2> QED
    BY <2>1, <2>2, <2>3 DEF RowsOK, RunRecords, WorkersOK, LogsOK, EnvOK
<1>2. ASSUME NEW r \in Rules, PublishUpsert(e, r) PROVE IInv' /\ TargetsKept
  <2>1. UNCHANGED <<rule, jobs, worker, admin, sweep, made, env>>
    BY <1>2 DEF PublishUpsert
  <2>2. JobsSound' /\ QueueOK' /\ BusyHasJob' /\ TargetsKept
    BY <2>1, JobsKept
  <2>3. ASSUME run[<<r, e>>].status = "absent" PROVE RowsOK'
    <3>1. run' = [run EXCEPT ![<<r, e>>].status = "PENDING"]
      BY <1>2, <2>3 DEF PublishUpsert
    <3> QED
      BY <2>1, <3>1 DEF RowsOK, RunRecords
  <2>4. ASSUME run[<<r, e>>].status # "absent" PROVE RowsOK'
    <3>1. run' = [run EXCEPT ![<<r, e>>].status = run[<<r, e>>].status]
      BY <1>2, <2>4 DEF PublishUpsert
    <3> QED
      BY <2>1, <3>1 DEF RowsOK, RunRecords
  <2>5. \/ publisher' = [publisher EXCEPT ![e].at = "enqueue", ![e].rule = r]
        \/ Continue(e, publisher[e].todo \ {r})
    BY <1>2 DEF PublishUpsert
  <2>6. CallsOK' /\ CallsHaveRuns'
    <3>1. CASE publisher' = [publisher EXCEPT ![e].at = "enqueue", ![e].rule = r]
      <4> DEFINE new == [publisher[e] EXCEPT !.at = "enqueue", !.rule = r]
      <4>1. publisher' = [publisher EXCEPT ![e] = new]
        BY <3>1
      <4>2. /\ new.rule = r
            /\ new \in [at : {"idle", "upsert", "enqueue"},
                       todo : SUBSET Rules, rule : Rules \cup {NoRule}]
        BY ZenonT(40) DEF CallsOK
      <4> HIDE DEF new
      <4> QED
        BY <2>1, <4>1, <4>2 DEF CallsOK, CallsHaveRuns
    <3>2. CASE Continue(e, publisher[e].todo \ {r})
      BY <2>1, <3>2 DEF CallsOK, CallsHaveRuns, Continue, Quiet
    <3> QED
      BY <2>5, <3>1, <3>2
  <2>7. RowsOK'
    BY <2>3, <2>4
  <2> QED
    BY <2>1, <2>2, <2>6, <2>7 DEF WorkersOK, LogsOK, EnvOK
<1>3. ASSUME PublishEnqueue(e) PROVE IInv' /\ TargetsKept
  <2>1. UNCHANGED <<rule, run, worker, admin, sweep, made>>
    BY <1>3 DEF PublishEnqueue
  <2>2. <<publisher[e].rule, e>> \in Runs
    BY <1>3 DEF PublishEnqueue, CallsHaveRuns, Runs
  <2>3. Enqueue(<<publisher[e].rule, e>>) \/ UNCHANGED jobs
    BY <1>3 DEF PublishEnqueue, TryEnqueue
  <2>4. JobsSound' /\ QueueOK' /\ BusyHasJob' /\ TargetsKept
    BY <2>1, <2>2, <2>3, EnqueueKeeps
  <2>5. EnvOK'
    BY <1>3, FaultCounted DEF PublishEnqueue, TryEnqueue, EnvOK
  <2>6. CallsOK' /\ CallsHaveRuns'
    BY <1>3, <2>1 DEF PublishEnqueue, CallsOK, CallsHaveRuns, Continue, Quiet
  <2> QED
    BY <2>1, <2>4, <2>5, <2>6 DEF RowsOK, RunRecords, WorkersOK, LogsOK
<1> QED
  BY <1>1, <1>2, <1>3

\* Every step of retryRun keeps the invariant.
LEMMA AdminStep ==
    ASSUME IInv, NEW a \in Admins,
           (\E x \in Runs : RetryRead(a, x)) \/ RetryWrite(a) \/ RetryEnqueue(a)
    PROVE  IInv' /\ TargetsKept
<1> USE DEF IInv, TypeOK
<1>1. ASSUME NEW x \in Runs, RetryRead(a, x) PROVE IInv' /\ TargetsKept
  <2>1. UNCHANGED <<rule, run, jobs, worker, publisher, sweep, made>>
    BY <1>1 DEF RetryRead
  <2>2. JobsSound' /\ QueueOK' /\ BusyHasJob' /\ TargetsKept
    BY <2>1, JobsKept
  <2>3. EnvOK'
    BY <1>1 DEF RetryRead, EnvOK, EnvironmentRecords
  <2>4. CallsOK' /\ CallsHaveRuns'
    BY <1>1 DEF CallsOK, CallsHaveRuns, RetryRead
  <2> QED
    BY <2>1, <2>2, <2>3, <2>4 DEF RowsOK, RunRecords, WorkersOK, LogsOK
<1>2. ASSUME RetryWrite(a) PROVE IInv' /\ TargetsKept
  <2>1. UNCHANGED <<rule, jobs, worker, publisher, sweep, made, env>>
    BY <1>2 DEF RetryWrite
  <2>2. JobsSound' /\ QueueOK' /\ BusyHasJob' /\ TargetsKept
    BY <2>1, JobsKept
  <2>3. RowsOK'
    BY <1>2, <2>1, ZenonT(40) DEF RowsOK, RunRecords, RetryWrite
  <2>4. CallsOK' /\ CallsHaveRuns'
    BY <1>2 DEF CallsOK, CallsHaveRuns, RetryWrite
  <2> QED
    BY <2>1, <2>2, <2>3, <2>4 DEF WorkersOK, LogsOK, EnvOK
<1>3. ASSUME RetryEnqueue(a) PROVE IInv' /\ TargetsKept
  <2>1. UNCHANGED <<rule, run, worker, publisher, sweep, made>>
    BY <1>3 DEF RetryEnqueue
  <2>2. admin[a].run \in Runs /\ (Enqueue(admin[a].run) \/ UNCHANGED jobs)
    BY <1>3 DEF RetryEnqueue, CallsHaveRuns, TryEnqueue
  <2>3. JobsSound' /\ QueueOK' /\ BusyHasJob' /\ TargetsKept
    BY <2>1, <2>2, EnqueueKeeps
  <2>4. EnvOK'
    BY <1>3, FaultCounted DEF RetryEnqueue, TryEnqueue, EnvOK
  <2>5. CallsOK' /\ CallsHaveRuns'
    BY <1>3 DEF RetryEnqueue, CallsOK, CallsHaveRuns, Free
  <2> QED
    BY <2>1, <2>3, <2>4, <2>5 DEF RowsOK, RunRecords, WorkersOK, LogsOK
<1> QED
  BY <1>1, <1>2, <1>3

\* Every step of recoverPendingRuns and updateRule keeps the invariant.
LEMMA SweepStep ==
    ASSUME IInv,
           \/ SweepRead
           \/ \E x \in Runs : SweepEnqueue(x)
           \/ \E r \in Rules : SwitchRule(r) \/ EditRule(r)
    PROVE  IInv' /\ TargetsKept
<1> USE DEF IInv, TypeOK
<1>1. ASSUME SweepRead PROVE IInv' /\ TargetsKept
  <2>1. UNCHANGED <<rule, run, jobs, worker, publisher, admin, made, env>>
    BY <1>1 DEF SweepRead
  <2>2. JobsSound' /\ QueueOK' /\ BusyHasJob' /\ TargetsKept
    BY <2>1, JobsKept
  <2>3. CallsOK'
    BY <1>1, <2>1 DEF SweepRead, CallsOK
  <2> QED
    BY <2>1, <2>2, <2>3 DEF RowsOK, RunRecords, WorkersOK, CallsHaveRuns, LogsOK, EnvOK
<1>2. ASSUME NEW x \in Runs, SweepEnqueue(x) PROVE IInv' /\ TargetsKept
  <2>1. UNCHANGED <<rule, run, worker, publisher, admin, made>>
    BY <1>2 DEF SweepEnqueue
  <2>2. Enqueue(x) \/ UNCHANGED jobs
    BY <1>2 DEF SweepEnqueue, TryEnqueue
  <2>3. JobsSound' /\ QueueOK' /\ BusyHasJob' /\ TargetsKept
    BY <2>1, <2>2, EnqueueKeeps
  <2>4. EnvOK'
    BY <1>2, FaultCounted DEF SweepEnqueue, TryEnqueue, EnvOK
  <2>5. CallsOK'
    BY <1>2, <2>1 DEF SweepEnqueue, CallsOK
  <2> QED
    BY <2>1, <2>3, <2>4, <2>5 DEF RowsOK, RunRecords, WorkersOK, CallsHaveRuns, LogsOK
<1>3. ASSUME NEW r \in Rules, SwitchRule(r) \/ EditRule(r) PROVE IInv' /\ TargetsKept
  <2>1. UNCHANGED <<run, jobs, worker, publisher, admin, sweep, made, env>>
    BY <1>3 DEF SwitchRule, EditRule
  <2>2. JobsSound' /\ QueueOK' /\ BusyHasJob' /\ TargetsKept
    BY <2>1, JobsKept
  <2> DEFINE b == ~rule[r].active
  <2>3. ASSUME SwitchRule(r) PROVE RowsOK'
    <3>1. rule' = [rule EXCEPT ![r].active = b] /\ b \in BOOLEAN
      BY <2>3 DEF SwitchRule
    <3> HIDE DEF b
    <3> QED
      BY <2>1, <3>1 DEF RowsOK, RunRecords
  <2>4. ASSUME EditRule(r) PROVE RowsOK'
    BY <2>1, <2>4 DEF EditRule, RowsOK, RunRecords, EnvOK, EnvironmentRecords
  <2>5. RowsOK'
    BY <1>3, <2>3, <2>4
  <2> QED
    BY <2>1, <2>2, <2>5 DEF WorkersOK, CallsOK, CallsHaveRuns, LogsOK, EnvOK
<1> QED
  BY <1>1, <1>2, <1>3

-----------------------------------------------------------------------------
(* The workers *)

\* A worker takes a waiting job, which nobody else runs.
LEMMA TakeStep ==
    ASSUME IInv, NEW w \in Workers, NEW j \in Jobs, Take(w, j)
    PROVE  IInv' /\ TargetsKept
<1> USE DEF IInv, TypeOK
<1> DEFINE new == [Idle EXCEPT !.at = "read", !.job = j, !.target = jobs[j].target]
<1>1. UNCHANGED <<rule, run, publisher, admin, sweep, made, env>>
  BY DEF Take
<1>2. /\ jobs' = [jobs EXCEPT ![j] = Started(jobs[j])] /\ jobs[j].state = "waiting"
      /\ worker' = [worker EXCEPT ![w] = new] /\ worker[w].at = "idle"
  BY DEF Take
<1>3. /\ GoodJob(Started(jobs[j])) /\ Started(jobs[j]).state = "active"
      /\ Started(jobs[j]).target = jobs[j].target /\ jobs[j].target \in Runs
  BY <1>2, StartedSound DEF JobsSound, GoodJob, Live
<1>4. JobsSound' /\ QueueOK'
  BY <1>2, <1>3, OneJobReplaced
<1>5. /\ new.at = "read" /\ new.job = j /\ new.target = jobs[j].target
      /\ new \in WorkerRecords
  BY <1>3 DEF Idle, Unfinished, Results, WorkerRecords
<1> HIDE DEF new
<1>6. WorkersOK'
  BY <1>2, <1>5 DEF WorkersOK
<1>7. /\ worker'[w].at = "read" /\ worker'[w].job = j /\ jobs'[j].state = "active"
      /\ worker'[w].target = jobs[j].target /\ jobs'[j].target = jobs[j].target
      /\ \A x \in Workers \ {w} : worker'[x] = worker[x]
      /\ \A y \in Jobs \ {j} : jobs'[y] = jobs[y]
  BY <1>2, <1>3, <1>5 DEF WorkersOK, QueueOK
<1>8. \A x \in Workers : /\ worker[x].job # j
                         /\ worker[x].job # NoJob => worker[x].job \in Jobs
  BY <1>2, AutomationAssumption
     DEF BusyHasJob, WorkersOK, WorkerRecords, AutomationAssumption
<1>9. BusyHasJob' /\ TargetsKept
  BY <1>2, <1>3, <1>7, <1>8 DEF BusyHasJob, TargetsKept, Target
<1> QED
  BY <1>1, <1>4, <1>6, <1>9 DEF RowsOK, RunRecords, CallsOK, CallsHaveRuns, LogsOK, EnvOK

\* The run of a busy worker.
LEMMA TargetIsRun ==
    ASSUME IInv, NEW w \in Workers, worker[w].at # "idle"
    PROVE  Target(w) \in Runs
BY DEF IInv, BusyHasJob, Target

\* A handler that goes on to its next step.
LEMMA GotoKeeps ==
    ASSUME IInv, NEW w \in Workers, worker[w].at # "idle",
           NEW step \in {"read", "claim", "load", "perform", "publish", "save", "reject",
                         "fail"},
           Goto(w, step) \/ (\E t \in BOOLEAN : Raise(w, step, t))
    PROVE  JobsSound' /\ QueueOK' /\ BusyHasJob' /\ WorkersOK' /\ TargetsKept
<1>1. CASE Goto(w, step)
  <2> DEFINE new == [worker[w] EXCEPT !.at = step]
  <2>1. /\ new \in WorkerRecords /\ new.job = worker[w].job
        /\ new.target = worker[w].target /\ new.at # "idle"
    BY DEF IInv, TypeOK, WorkersOK, WorkerRecords
  <2>2. worker' = [worker EXCEPT ![w] = new] /\ UNCHANGED jobs
    BY <1>1 DEF Goto
  <2> HIDE DEF new
  <2> QED
    BY <2>1, <2>2, HandlerGoesOn
<1>2. CASE \E t \in BOOLEAN : Raise(w, step, t)
  <2>1. PICK t \in BOOLEAN : Raise(w, step, t)
    BY <1>2
  <2> DEFINE new == [worker[w] EXCEPT !.at = step, !.transient = t]
  <2>2. /\ new \in WorkerRecords /\ new.job = worker[w].job
        /\ new.target = worker[w].target /\ new.at # "idle"
    BY DEF IInv, TypeOK, WorkersOK, WorkerRecords
  <2>3. worker' = [worker EXCEPT ![w] = new] /\ UNCHANGED jobs
    BY <2>1 DEF Raise
  <2> HIDE DEF new
  <2> QED
    BY <2>2, <2>3, HandlerGoesOn
<1> QED
  BY <1>1, <1>2

\* finishRun writes a row of the right type.
LEMMA FinishedTyped ==
    ASSUME RowsOK, UNCHANGED rule, NEW x,
           NEW status \in {"PROCESSING", "SUCCEEDED", "SKIPPED", "FAILED"},
           NEW retryable \in BOOLEAN, Finished(x, status, retryable)
    PROVE  RowsOK'
<1>1. run' = [run EXCEPT ![x].status = status, ![x].retryable = retryable]
  BY DEF Finished
<1> QED
  BY <1>1, ZenonT(40) DEF RowsOK, RunRecords

\* A list of results in which one is replaced.
LEMMA WithTyped ==
    ASSUME IInv, NEW w \in Workers, NEW result \in {"SUCCEEDED", "FAILED"}
    PROVE  With(w, result) \in Results
<1>1. worker[w].results \in Results
  BY DEF IInv, TypeOK, WorkersOK, WorkerRecords
<1> DEFINE c == Current(w)
<1> HIDE DEF c
<1>2. [worker[w].results EXCEPT ![c] = result] \in Results
  BY <1>1 DEF Results
<1> QED
  BY <1>2 DEF With, c

\* The claim of a run, and what is read before it, keep the invariant.
LEMMA ClaimStep ==
    ASSUME IInv, NEW w \in Workers, Read(w) \/ Claim(w) \/ Load(w)
    PROVE  IInv' /\ TargetsKept
<1> USE DEF IInv, TypeOK
<1> DEFINE x == Target(w)
<1>1. /\ worker[w].at # "idle" /\ UNCHANGED <<rule, publisher, admin, sweep, made, env>>
      /\ CallsOK' /\ CallsHaveRuns' /\ LogsOK' /\ EnvOK'
  BY DEF Read, Claim, Load, CallsOK, CallsHaveRuns, LogsOK, EnvOK
<1>2. x \in Runs
  BY <1>1, TargetIsRun
<1>3. ASSUME Read(w) PROVE IInv' /\ TargetsKept
  <2>1. UNCHANGED run /\ RowsOK'
    BY <1>1, <1>3 DEF Read, RowsOK, RunRecords
  <2>2. CASE Claimable(x)
    <3> DEFINE new == [worker[w] EXCEPT !.at = "claim", !.status = run[x].status,
                                        !.attempt = run[x].attempt + 1]
    <3>1. run[x].attempt + 1 \in Nat /\ run[x].status \in {"PENDING", "FAILED"}
      BY <1>2, <2>2 DEF RowsOK, RunRecords, Claimable
    <3>2. /\ new \in WorkerRecords /\ new.job = worker[w].job
          /\ new.target = worker[w].target /\ new.at # "idle"
      BY <3>1 DEF WorkersOK, WorkerRecords
    <3>3. worker' = [worker EXCEPT ![w] = new] /\ UNCHANGED jobs
      BY <1>3, <2>2 DEF Read, WorkersOK, WorkerRecords
    <3> HIDE DEF new
    <3> QED
      BY <1>1, <2>1, <3>2, <3>3, HandlerGoesOn
  <2>3. CASE ~Claimable(x)
    <3>1. Return(w)
      BY <1>3, <2>3 DEF Read
    <3> QED
      BY <1>1, <2>1, <3>1, HandlerEnds
  <2> QED
    BY <2>2, <2>3
<1>4. ASSUME Claim(w) PROVE IInv' /\ TargetsKept
  <2>1. CASE Unclaimed(w)
    <3> DEFINE new == [run[x] EXCEPT !.status = "PROCESSING", !.attempt = run[x].attempt + 1]
    <3>1. run' = [run EXCEPT ![x] = new] /\ Goto(w, "load")
      BY <1>2, <1>4, <2>1 DEF Claim, RowsOK, RunRecords
    <3>2. new \in RunRecords
      <4>1. run[x] \in RunRecords
        BY <1>2 DEF RowsOK, RunRecords
      <4>2. run[x].attempt + 1 \in Nat
        BY <4>1 DEF RunRecords
      <4> QED
        BY <4>1, <4>2 DEF RunRecords
    <3> HIDE DEF new
    <3>3. RowsOK'
      BY <1>1, <3>1, <3>2 DEF RowsOK, RunRecords
    <3> QED
      BY <1>1, <3>1, <3>3, GotoKeeps
  <2>2. CASE ~Unclaimed(w)
    BY <1>1, <1>4, <2>2, HandlerEnds DEF Claim, RowsOK, RunRecords
  <2> QED
    BY <2>1, <2>2
<1>5. ASSUME Load(w) PROVE IInv' /\ TargetsKept
  <2> DEFINE now == rule[x[1]]
             new == [worker[w] EXCEPT !.at = "perform", !.attempt = run[x].attempt,
                                      !.actions = now.actions, !.results = run[x].results]
  <2>1. \/ (\E s \in {"SKIPPED", "FAILED"} : Finished(x, s, FALSE)) /\ Return(w)
        \/ worker' = [worker EXCEPT ![w] = new] /\ UNCHANGED <<run, jobs>>
    BY <1>5 DEF Load, WorkersOK, WorkerRecords
  <2>2. CASE (\E s \in {"SKIPPED", "FAILED"} : Finished(x, s, FALSE)) /\ Return(w)
    <3>1. RowsOK'
      BY <1>1, <2>2, FinishedTyped
    <3> QED
      BY <1>1, <2>2, <3>1, HandlerEnds
  <2>3. CASE worker' = [worker EXCEPT ![w] = new] /\ UNCHANGED <<run, jobs>>
    <3>1. now.actions \in ActionLists
      BY <1>2 DEF RowsOK, RunRecords, Runs
    <3>2. run[x].attempt \in Nat /\ run[x].results \in Results
      BY <1>2 DEF RowsOK, RunRecords
    <3>3. /\ new \in WorkerRecords /\ new.job = worker[w].job
          /\ new.target = worker[w].target /\ new.at # "idle"
      BY <3>1, <3>2 DEF WorkersOK, WorkerRecords
    <3>4. RowsOK'
      BY <1>1, <2>3 DEF RowsOK, RunRecords
    <3> HIDE DEF new
    <3> QED
      BY <1>1, <2>3, <3>3, <3>4, HandlerGoesOn
  <2> QED
    BY <2>1, <2>2, <2>3
<1> QED
  BY <1>3, <1>4, <1>5

\* Performing the actions, and saving what came of them, keeps the invariant.
LEMMA ActionStep ==
    ASSUME IInv, NEW w \in Workers,
           Perform(w) \/ PublishNested(w) \/ Save(w) \/ SaveFailure(w)
    PROVE  IInv' /\ TargetsKept
<1> USE DEF IInv, TypeOK
<1> DEFINE x == Target(w)
<1>1. /\ worker[w].at # "idle" /\ UNCHANGED <<rule, publisher, admin, sweep>>
      /\ CallsOK' /\ CallsHaveRuns'
  BY DEF Perform, PublishNested, Save, SaveFailure, CallsOK, CallsHaveRuns
<1>2. x \in Runs
  BY <1>1, TargetIsRun
<1>3. EnvOK'
  BY FaultCounted DEF Perform, PublishNested, Save, SaveFailure, EnvOK
<1>4. ASSUME Perform(w) PROVE IInv' /\ TargetsKept
  <2>1. UNCHANGED run /\ RowsOK'
    BY <1>1, <1>4 DEF Perform, RowsOK
  <2>2. \/ \E step \in {"publish", "save"} : Goto(w, step)
        \/ \E t \in BOOLEAN : Raise(w, "reject", t)
    BY <1>4 DEF Perform
  <2>3. JobsSound' /\ QueueOK' /\ BusyHasJob' /\ WorkersOK' /\ TargetsKept
    BY <1>1, <2>2, GotoKeeps
  <2> DEFINE c == Current(w)
  <2>4. made' = made \/ made' = [made EXCEPT ![x][c] = @ + 1]
    BY <1>4 DEF Perform
  <2> HIDE DEF c
  <2>5. LogsOK'
    <3>1. made[x] \in [Indexes -> Nat]
      BY <1>2 DEF LogsOK
    <3>2. [made[x] EXCEPT ![c] = @ + 1] \in [Indexes -> Nat]
      <4>1. CASE c \in Indexes
        BY <3>1, <4>1
      <4>2. CASE c \notin Indexes
        <5> DEFINE n == made[x][c] + 1
        <5> HIDE DEF n
        <5>1. [made[x] EXCEPT ![c] = n] \in [Indexes -> Nat]
          BY <3>1, <4>2
        <5> QED
          BY <5>1 DEF n
      <4> QED
        BY <4>1, <4>2
    <3> QED
      BY <2>4, <3>2 DEF LogsOK
  <2> QED
    BY <1>1, <1>3, <2>1, <2>3, <2>5
<1>5. ASSUME PublishNested(w) PROVE IInv' /\ TargetsKept
  <2>1. UNCHANGED <<run, made>> /\ RowsOK' /\ LogsOK'
    BY <1>1, <1>5 DEF PublishNested, RowsOK, LogsOK
  <2>2. Goto(w, "save") \/ \E t \in BOOLEAN : Raise(w, "reject", t)
    BY <1>5 DEF PublishNested
  <2> QED
    BY <1>1, <1>3, <2>1, <2>2, GotoKeeps
<1>6. ASSUME NEW result \in {"SUCCEEDED", "FAILED"},
             NEW step \in {"perform", "fail"},
             run' = [run EXCEPT ![x].results = With(w, result)],
             worker' = [worker EXCEPT ![w].results = With(w, result), ![w].at = step],
             UNCHANGED <<jobs, made>>
      PROVE  IInv' /\ TargetsKept
  <2> DEFINE list == With(w, result)
  <2>1. list \in Results
    BY WithTyped
  <2> HIDE DEF list
  <2>2. run' = [run EXCEPT ![x].results = list] /\ run[x] \in RunRecords
    BY <1>2, <1>6 DEF list, RowsOK
  <2>3. RowsOK'
    BY <1>1, <2>1, <2>2 DEF RowsOK, RunRecords
  <2> DEFINE new == [worker[w] EXCEPT !.results = list, !.at = step]
  <2>4. worker' = [worker EXCEPT ![w] = new]
    BY <1>6 DEF list
  <2>5. /\ new \in WorkerRecords /\ new.job = worker[w].job
        /\ new.target = worker[w].target /\ new.at # "idle"
    BY <2>1 DEF WorkersOK, WorkerRecords
  <2> HIDE DEF new
  <2>6. JobsSound' /\ QueueOK' /\ BusyHasJob' /\ WorkersOK' /\ TargetsKept
    BY <1>1, <1>6, <2>4, <2>5, HandlerGoesOn
  <2> QED
    BY <1>1, <1>3, <1>6, <2>3, <2>6 DEF LogsOK
<1>7. ASSUME Save(w) \/ SaveFailure(w) PROVE IInv' /\ TargetsKept
  <2>1. CASE \E result \in {"SUCCEEDED", "FAILED"}, step \in {"perform", "fail"} :
                /\ run' = [run EXCEPT ![x].results = With(w, result)]
                /\ worker' = [worker EXCEPT ![w].results = With(w, result), ![w].at = step]
                /\ UNCHANGED <<jobs, made>>
    BY <1>6, <2>1
  <2>2. CASE /\ \E step \in {"reject", "fail"} : Raise(w, step, TRUE)
             /\ UNCHANGED <<run, made>>
    <3>1. RowsOK' /\ LogsOK'
      BY <1>1, <2>2 DEF RowsOK, LogsOK
    <3> QED
      BY <1>1, <1>3, <2>2, <3>1, GotoKeeps
  <2> QED
    BY <1>7, <2>1, <2>2 DEF Save, SaveFailure
<1> QED
  BY <1>4, <1>5, <1>7

\* However an attempt ends, the invariant is kept.
LEMMA FinishStep ==
    ASSUME IInv, NEW w \in Workers,
           \/ FinishSucceeded(w) \/ FinishFailed(w) \/ DatabaseError(w)
           \/ WorkerCrash(w) \/ LockLapse(w)
    PROVE  IInv' /\ TargetsKept
<1> USE DEF IInv, TypeOK
<1> DEFINE x == Target(w)
<1>1. /\ worker[w].at # "idle" /\ UNCHANGED <<rule, publisher, admin, sweep, made>>
      /\ CallsOK' /\ CallsHaveRuns' /\ LogsOK'
  BY HeldJob DEF FinishSucceeded, FinishFailed, DatabaseError, WorkerCrash, LockLapse,
                 CallsOK, CallsHaveRuns, LogsOK
<1>2. EnvOK'
  BY FaultCounted
     DEF FinishSucceeded, FinishFailed, DatabaseError, WorkerCrash, LockLapse, EnvOK
<1>3. ASSUME FinishSucceeded(w) PROVE IInv' /\ TargetsKept
  <2>1. CASE Finished(x, "SUCCEEDED", FALSE) /\ Return(w)
    BY <1>1, <1>2, <2>1, FinishedTyped, HandlerEnds
  <2>2. CASE Raise(w, "fail", TRUE) /\ UNCHANGED run
    BY <1>1, <1>2, <2>2, GotoKeeps DEF RowsOK
  <2> QED
    BY <1>3, <2>1, <2>2 DEF FinishSucceeded
<1>4. ASSUME FinishFailed(w) PROVE IInv' /\ TargetsKept
  <2> DEFINE b == worker[w].transient /\ worker[w].attempt < MaxAttempts
  <2>1. b \in BOOLEAN /\ Finished(x, "FAILED", b) /\ (Throw(w) \/ Return(w))
    BY <1>4 DEF FinishFailed
  <2> HIDE DEF b
  <2> QED
    BY <1>1, <1>2, <2>1, FinishedTyped, HandlerEnds
<1>5. ASSUME DatabaseError(w) PROVE IInv' /\ TargetsKept
  BY <1>1, <1>2, <1>5, HandlerEnds DEF DatabaseError, RowsOK
<1>6. ASSUME WorkerCrash(w) PROVE IInv' /\ TargetsKept
  BY <1>1, <1>2, <1>6, HandlerEnds DEF WorkerCrash, RowsOK
<1>7. ASSUME LockLapse(w) PROVE IInv' /\ TargetsKept
  BY <1>1, <1>2, <1>7, LapseKeeps DEF LockLapse, RowsOK
<1> QED
  BY <1>3, <1>4, <1>5, <1>6, <1>7

\* What a lapsed lock leaves as it is.
LEMMA LapseFrame ==
    ASSUME IInv, NEW w \in Workers, LockLapse(w)
    PROVE  /\ worker'[w].at = worker[w].at /\ worker'[w].results = worker[w].results
           /\ worker'[w].actions = worker[w].actions
           /\ worker'[w].attempt = worker[w].attempt
           /\ \A y \in Workers \ {w} : worker'[y] = worker[y]
           /\ Remaining(w)' = Remaining(w) /\ Current(w)' = Current(w)
           /\ Target(w)' = Target(w) /\ worker'[w].job = NoJob
           /\ worker[w].at # "idle" /\ UNCHANGED <<rule, run, admin, made>>
           /\ env'.maxRetries = env.maxRetries
<1>1. /\ worker'[w].at = worker[w].at /\ worker'[w].results = worker[w].results
      /\ worker'[w].actions = worker[w].actions
      /\ worker'[w].attempt = worker[w].attempt
      /\ worker'[w].target = worker[w].target /\ worker'[w].job = NoJob
      /\ \A y \in Workers \ {w} : worker'[y] = worker[y]
  BY DEF LockLapse, IInv, TypeOK, WorkersOK, WorkerRecords
<1>2. Remaining(w)' = Remaining(w)
  BY <1>1 DEF Remaining
<1>3. worker[w].at # "idle" /\ UNCHANGED <<rule, run, admin, made>>
  BY HeldJob DEF LockLapse
<1>4. env'.maxRetries = env.maxRetries
  BY FaultCounted DEF LockLapse, IInv, TypeOK
<1> QED
  BY <1>1, <1>2, <1>3, <1>4 DEF Current, Target

-----------------------------------------------------------------------------
\* The invariant is inductive, and every step leaves busy workers their runs.
LEMMA NextIInv == IInv /\ [Next]_vars => IInv' /\ TargetsKept
<1> SUFFICES ASSUME IInv, [Next]_vars PROVE IInv' /\ TargetsKept
  OBVIOUS
<1>1. CASE UNCHANGED vars
  BY <1>1 DEF vars, IInv, TypeOK, RowsOK, QueueOK, WorkersOK, CallsOK, LogsOK, EnvOK,
              JobsSound, BusyHasJob, CallsHaveRuns, TargetsKept, Target
<1>2. CASE \E e \in Events :
              PublishRead(e) \/ (\E r \in Rules : PublishUpsert(e, r)) \/ PublishEnqueue(e)
  BY <1>2, PublishStep
<1>3. CASE \E w \in Workers : Acts(w)
  BY <1>3, TakeStep, ClaimStep, ActionStep, FinishStep DEF Handle
<1>4. CASE \E a \in Admins :
              (\E x \in Runs : RetryRead(a, x)) \/ RetryWrite(a) \/ RetryEnqueue(a)
  BY <1>4, AdminStep
<1>5. CASE \/ SweepRead
           \/ \E x \in Runs : SweepEnqueue(x)
           \/ \E r \in Rules : SwitchRule(r) \/ EditRule(r)
  BY <1>5, SweepStep
<1> QED
  BY <1>1, <1>2, <1>3, <1>4, <1>5 DEF Next

\* Rows, job records, workers, calls and counters stay in the states the code
\* of publishBusinessEvent, processRun and retryRun can produce.
THEOREM TypeCorrect == Spec => []TypeOK
<1>1. IInv => TypeOK
  BY DEF IInv
<1>2. IInv /\ [Next]_vars => IInv'
  BY NextIInv
<1> QED
  BY <1>1, <1>2, InitIInv, PTL DEF Spec

-----------------------------------------------------------------------------
(* The claim, without users' retries *)

\* The worker has claimed its run; it has loaded the rule and the results.
Working(w) == worker[w].at \in {"load", "perform", "publish", "save", "reject", "fail"}
Performing(w) == worker[w].at \in {"perform", "publish", "save", "reject", "fail"}

\* While a worker has a claimed run, the row says PROCESSING, which no claim
\* accepts, and holds the results the worker knows of.
Claimed ==
    env.maxRetries = 0 =>
        /\ \A a \in Admins : admin[a].at = "idle"
        /\ \A w \in Workers : Working(w) => run[Target(w)].status = "PROCESSING"
        /\ \A w1, w2 \in Workers :
              Working(w1) /\ Working(w2) /\ Target(w1) = Target(w2) => w1 = w2
        /\ \A w \in Workers : Performing(w) => worker[w].results = run[Target(w)].results

\* A worker that is at an action has one left.
AtAnAction ==
    \A w \in Workers : worker[w].at \in {"publish", "save", "reject"} => Remaining(w) # {}

\* The least element of a set of numbers.
LEMMA MinIsMember ==
    ASSUME NEW S, S \subseteq Nat, S # {}
    PROVE  Min(S) \in S
<1> DEFINE less == {p \in Nat \X Nat : p[1] < p[2]}
<1>1. IsWellFoundedOn(less, Nat)
  BY NatLessThanWellFounded DEF OpToRel
<1> HIDE DEF less
<1>2. PICK n \in S : \A m \in S : ~(<<m, n>> \in less)
  BY <1>1, WFMin
<1>3. \A m \in S : n <= m
  <2>1. SUFFICES ASSUME NEW m \in S, ~(n <= m) PROVE FALSE
    OBVIOUS
  <2>2. m \in Nat /\ n \in Nat /\ m < n
    BY <2>1
  <2>3. <<m, n>> \in Nat \X Nat /\ <<m, n>>[1] < <<m, n>>[2]
    BY <2>2
  <2>4. <<m, n>> \in less
    BY <2>3, Zenon DEF less
  <2> QED
    BY <1>2, <2>1, <2>4
<1> QED
  BY <1>3 DEF Min

\* The loop is at an action that is left.
LEMMA CurrentRemains ==
    ASSUME IInv, NEW w \in Workers, Remaining(w) # {}
    PROVE  Current(w) \in Remaining(w)
<1>1. worker[w].actions \in ActionLists \cup {<<>>}
  BY DEF IInv, TypeOK, WorkersOK, WorkerRecords
<1>2. ActionLists \cup {<<>>} \subseteq Seq({"task", "create", "upsert"})
  <2>1. <<>> \in Seq({"task", "create", "upsert"})
    OBVIOUS
  <2>2. ActionLists \subseteq Seq({"task", "create", "upsert"})
    BY AutomationAssumption DEF AutomationAssumption
  <2> QED
    BY <2>1, <2>2, Zenon
<1>3. DOMAIN worker[w].actions \subseteq Nat
  BY <1>1, <1>2
<1>4. Remaining(w) \subseteq Nat
  BY <1>3 DEF Remaining
<1> QED
  BY <1>4, MinIsMember DEF Current

\* A step of one worker that writes no row but that of its claimed run.
LEMMA WorkerKeepsClaims ==
    ASSUME IInv, Claimed, AtAnAction, TargetsKept, UNCHANGED admin,
           env'.maxRetries = env.maxRetries, NEW w \in Workers,
           \A y \in Workers \ {w} : worker'[y] = worker[y],
           \A x \in Runs : (Working(w) /\ x = Target(w)) \/ run'[x] = run[x],
           Working(w)' => Working(w) /\ run'[Target(w)].status = run[Target(w)].status,
           env.maxRetries = 0 /\ Performing(w)' =>
              worker'[w].results = run'[Target(w)].results,
           worker'[w].at \in {"publish", "save", "reject"} => Remaining(w)' # {}
    PROVE  Claimed' /\ AtAnAction'
<1>1. \A y \in Workers : Working(y) => worker[y].at # "idle" /\ Target(y) \in Runs
  BY TargetIsRun DEF Working
<1>2. \A y \in Workers : Working(y)' => Working(y) /\ Target(y)' = Target(y)
  BY DEF Working, TargetsKept
<1>3. AtAnAction'
  BY DEF AtAnAction, Remaining
<1>4. ASSUME env.maxRetries = 0
      PROVE  /\ \A y \in Workers : Working(y)' =>
                    run'[Target(y)].status = run[Target(y)].status
             /\ \A y \in Workers \ {w} : Working(y)' => run'[Target(y)] = run[Target(y)]
  BY <1>1, <1>2, <1>4 DEF Claimed
<1>5. ASSUME env.maxRetries = 0
      PROVE  \A y \in Workers : Performing(y)' =>
                worker'[y].results = run'[Target(y)'].results
  <2>1. SUFFICES ASSUME NEW y \in Workers, Performing(y)'
                 PROVE  worker'[y].results = run'[Target(y)'].results
    OBVIOUS
  <2>2. Working(y)'
    BY <2>1 DEF Working, Performing
  <2>3. CASE y = w
    BY <1>2, <1>5, <2>1, <2>2, <2>3
  <2>4. CASE y # w
    <3>1. Performing(y)
      BY <2>1, <2>4 DEF Performing
    <3> QED
      BY <1>2, <1>4, <1>5, <2>2, <2>4, <3>1 DEF Claimed
  <2> QED
    BY <2>3, <2>4
<1>6. Claimed'
  BY <1>2, <1>4, <1>5 DEF Claimed
<1> QED
  BY <1>3, <1>6

\* A step of nobody at work that writes no row in processing.
LEMMA OthersKeepClaims ==
    ASSUME IInv, Claimed, AtAnAction, TargetsKept, UNCHANGED worker,
           env'.maxRetries = env.maxRetries,
           env.maxRetries = 0 => \A a \in Admins : admin'[a].at = "idle",
           env.maxRetries = 0 =>
              \A x \in Runs : run[x].status = "PROCESSING" => run'[x] = run[x]
    PROVE  Claimed' /\ AtAnAction'
<1>1. AtAnAction'
  BY DEF AtAnAction, Remaining
<1>2. \A y \in Workers : /\ Working(y)' = Working(y) /\ Performing(y)' = Performing(y)
                         /\ Working(y) => Target(y)' = Target(y) /\ Target(y) \in Runs
                         /\ Performing(y) => Working(y)
  BY TargetIsRun DEF Working, Performing, TargetsKept
<1>3. Claimed'
  BY <1>2 DEF Claimed
<1> QED
  BY <1>1, <1>3

\* A handler that ends has written no other row than that of its claimed run.
LEMMA EndKeepsClaims ==
    ASSUME IInv, Claimed, AtAnAction, TargetsKept, UNCHANGED admin,
           env'.maxRetries = env.maxRetries, NEW w \in Workers,
           worker' = [worker EXCEPT ![w] = Idle],
           \A x \in Runs : (Working(w) /\ x = Target(w)) \/ run'[x] = run[x]
    PROVE  Claimed' /\ AtAnAction'
<1>1. /\ worker'[w].at = "idle"
      /\ \A y \in Workers \ {w} : worker'[y] = worker[y]
  BY DEF IInv, TypeOK, WorkersOK, Idle
<1>2. ~Working(w)' /\ ~Performing(w)'
  BY <1>1 DEF Working, Performing
<1> QED
  BY <1>1, <1>2, WorkerKeepsClaims

\* Nobody without a claim writes a row in processing, and a row that can be
\* claimed is not in processing.
LEMMA ClaimedInductive ==
    ASSUME IInv, Claimed, AtAnAction, TargetsKept, Next
    PROVE  Claimed' /\ AtAnAction'
<1> USE DEF IInv, TypeOK
<1>1. ASSUME NEW e \in Events,
             PublishRead(e) \/ (\E r \in Rules : PublishUpsert(e, r)) \/ PublishEnqueue(e)
      PROVE  Claimed' /\ AtAnAction'
  <2>1. UNCHANGED <<worker, admin>> /\ env'.maxRetries = env.maxRetries
    BY <1>1, FaultCounted DEF PublishRead, PublishUpsert, PublishEnqueue, TryEnqueue
  <2>2. \A x \in Runs : run[x].status = "PROCESSING" => run'[x] = run[x]
    <3>1. CASE UNCHANGED run
      BY <3>1
    <3>2. CASE \E r \in Rules : PublishUpsert(e, r)
      <4>1. PICK r \in Rules : PublishUpsert(e, r)
        BY <3>2
      <4>2. CASE run[<<r, e>>].status = "absent"
        BY <4>1, <4>2 DEF PublishUpsert, RowsOK
      <4>3. CASE run[<<r, e>>].status # "absent"
        <5>1. run' = [run EXCEPT ![<<r, e>>].status = run[<<r, e>>].status]
          BY <4>1, <4>3 DEF PublishUpsert
        <5>2. run' = run
          BY <5>1 DEF RowsOK, RunRecords
        <5> QED
          BY <5>2
      <4> QED
        BY <4>2, <4>3
    <3> QED
      BY <1>1, <3>1, <3>2 DEF PublishRead, PublishEnqueue
  <2> QED
    BY <2>1, <2>2, OthersKeepClaims DEF Claimed
<1>2. ASSUME NEW a \in Admins,
             (\E x \in Runs : RetryRead(a, x)) \/ RetryWrite(a) \/ RetryEnqueue(a)
      PROVE  Claimed' /\ AtAnAction'
  <2>1. UNCHANGED worker /\ env'.maxRetries = env.maxRetries
    BY <1>2, FaultCounted DEF RetryRead, RetryWrite, RetryEnqueue, TryEnqueue, EnvOK,
                              EnvironmentRecords
  <2>2. env.maxRetries # 0
    BY <1>2 DEF RetryRead, RetryWrite, RetryEnqueue, EnvOK, EnvironmentRecords, Claimed
  <2> QED
    BY <2>1, <2>2, OthersKeepClaims
<1>3. ASSUME \/ SweepRead
             \/ \E x \in Runs : SweepEnqueue(x)
             \/ \E r \in Rules : SwitchRule(r) \/ EditRule(r)
      PROVE  Claimed' /\ AtAnAction'
  <2>1. UNCHANGED <<run, worker, admin>> /\ env'.maxRetries = env.maxRetries
    BY <1>3, FaultCounted DEF SweepRead, SweepEnqueue, SwitchRule, EditRule, TryEnqueue
  <2> QED
    BY <2>1, OthersKeepClaims DEF Claimed
<1>4. ASSUME NEW w \in Workers, NEW j \in Jobs, Take(w, j)
      PROVE  Claimed' /\ AtAnAction'
  <2>1. /\ UNCHANGED <<run, admin, env>> /\ worker'[w].at = "read"
        /\ \A y \in Workers \ {w} : worker'[y] = worker[y]
    BY <1>4 DEF Take, WorkersOK, Idle
  <2>2. ~Working(w)' /\ ~Performing(w)'
    BY <2>1 DEF Working, Performing
  <2> QED
    BY <2>1, <2>2, WorkerKeepsClaims
<1>5. ASSUME NEW w \in Workers, Handle(w) \/ WorkerCrash(w)
      PROVE  Claimed' /\ AtAnAction'
  <2> DEFINE x == Target(w)
  <2>1. worker[w].at # "idle" /\ UNCHANGED admin
    BY <1>5 DEF Handle, Read, Claim, Load, Perform, PublishNested, Save, SaveFailure,
                FinishSucceeded, FinishFailed, DatabaseError, WorkerCrash
  <2>2. env'.maxRetries = env.maxRetries
    BY <1>5, FaultCounted
       DEF Handle, Read, Claim, Load, Perform, PublishNested, Save, SaveFailure,
           FinishSucceeded, FinishFailed, DatabaseError, WorkerCrash
  <2>3. x \in Runs
    BY <2>1, TargetIsRun
  <2>4. ASSUME NEW s, NEW t, Finished(x, s, t)
        PROVE  \A y \in Runs : y = x \/ run'[y] = run[y]
    BY <2>4 DEF Finished, RowsOK
  <2>5. ASSUME Return(w) \/ Throw(w) \/ WorkerCrash(w)
        PROVE  worker' = [worker EXCEPT ![w] = Idle]
    BY <2>5 DEF Return, Throw, WorkerCrash
  <2>6. ASSUME NEW step, Goto(w, step) \/ (\E t \in BOOLEAN : Raise(w, step, t))
        PROVE  /\ \A y \in Workers \ {w} : worker'[y] = worker[y]
               /\ worker'[w].at = step /\ worker'[w].results = worker[w].results
               /\ Remaining(w)' = Remaining(w) /\ Target(w)' = Target(w)
    <3>1. /\ \A y \in Workers \ {w} : worker'[y] = worker[y]
          /\ worker'[w].at = step /\ worker'[w].results = worker[w].results
          /\ worker'[w].actions = worker[w].actions
          /\ worker'[w].target = worker[w].target
          /\ UNCHANGED jobs
      BY <2>6 DEF Goto, Raise, WorkersOK, WorkerRecords
    <3> QED
      BY <3>1 DEF Remaining, Target
  <2>7. ASSUME Read(w) PROVE Claimed' /\ AtAnAction'
    <3>1. CASE Return(w)
      BY <1>5, <2>1, <2>2, <2>5, <2>7, <3>1, EndKeepsClaims DEF Read
    <3>2. CASE ~Return(w)
      <4>1. /\ UNCHANGED run /\ worker'[w].at = "claim"
            /\ \A y \in Workers \ {w} : worker'[y] = worker[y]
        BY <2>7, <3>2 DEF Read, WorkersOK, WorkerRecords
      <4>2. ~Working(w)' /\ ~Performing(w)'
        BY <4>1 DEF Working, Performing
      <4> QED
        BY <2>1, <2>2, <4>1, <4>2, WorkerKeepsClaims
    <3> QED
      BY <3>1, <3>2
  <2>8. ASSUME Claim(w) PROVE Claimed' /\ AtAnAction'
    <3>1. CASE ~Unclaimed(w)
      BY <2>1, <2>2, <2>5, <2>8, <3>1, EndKeepsClaims DEF Claim
    <3>2. CASE Unclaimed(w)
      <4>1. /\ run' = [run EXCEPT ![x].status = "PROCESSING", ![x].attempt = @ + 1]
            /\ Goto(w, "load")
        BY <2>8, <3>2 DEF Claim
      <4>2. /\ \A y \in Runs \ {x} : run'[y] = run[y]
            /\ run'[x].status = "PROCESSING" /\ run'[x].results = run[x].results
        BY <2>3, <4>1 DEF RowsOK, RunRecords
      <4>3. /\ \A y \in Workers \ {w} : worker'[y] = worker[y]
            /\ worker'[w].at = "load" /\ Target(w)' = x
        BY <2>6, <4>1
      <4>4. run[x].status # "PROCESSING"
        BY <3>2 DEF Unclaimed, WorkersOK, WorkerRecords
      <4>5. \A y \in Workers \ {w} :
                /\ Working(y)' = Working(y) /\ Performing(y)' = Performing(y)
                /\ Working(y) => Target(y)' = Target(y) /\ Target(y) \in Runs
                /\ Performing(y) => Working(y)
        BY <4>3, TargetIsRun DEF Working, Performing, TargetsKept
      <4>6. env.maxRetries = 0 => \A y \in Workers \ {w} : Working(y) => Target(y) # x
        BY <4>4 DEF Claimed
      <4>7. Claimed'
        <5>1. SUFFICES ASSUME env.maxRetries = 0
                       PROVE  /\ \A a \in Admins : admin'[a].at = "idle"
                              /\ \A y \in Workers :
                                    Working(y)' => run'[Target(y)'].status = "PROCESSING"
                              /\ \A y, z \in Workers :
                                    Working(y)' /\ Working(z)' /\ Target(y)' = Target(z)'
                                       => y = z
                              /\ \A y \in Workers :
                                    Performing(y)' =>
                                       worker'[y].results = run'[Target(y)'].results
          BY <2>2 DEF Claimed
        <5>2. \A a \in Admins : admin'[a].at = "idle"
          BY <2>1, <5>1 DEF Claimed
        <5>3. \A y \in Workers \ {w} : Working(y)' =>
                  /\ Working(y) /\ Target(y)' = Target(y) /\ Target(y) # x
                  /\ run'[Target(y)] = run[Target(y)]
          BY <4>2, <4>5, <4>6, <5>1
        <5>4. \A y \in Workers : Working(y)' => run'[Target(y)'].status = "PROCESSING"
          BY <4>2, <4>3, <5>1, <5>3 DEF Claimed
        <5>5. \A y, z \in Workers :
                  Working(y)' /\ Working(z)' /\ Target(y)' = Target(z)' => y = z
          BY <4>3, <5>1, <5>3 DEF Claimed
        <5>6. \A y \in Workers :
                  Performing(y)' => worker'[y].results = run'[Target(y)'].results
          <6>1. ~Performing(w)'
            BY <4>3 DEF Performing
          <6>2. \A y \in Workers \ {w} : Performing(y)' =>
                    Performing(y) /\ worker'[y] = worker[y] /\ Working(y)'
            BY <4>3, <4>5
          <6> QED
            BY <5>1, <5>3, <6>1, <6>2 DEF Claimed
        <5> QED
          BY <5>2, <5>4, <5>5, <5>6
      <4>8. AtAnAction'
        BY <4>3 DEF AtAnAction, Remaining
      <4> QED
        BY <4>7, <4>8
    <3> QED
      BY <3>1, <3>2
  <2>9. ASSUME Load(w) PROVE Claimed' /\ AtAnAction'
    <3>1. Working(w)
      BY <2>9 DEF Load, Working
    <3>2. CASE (\E s \in {"SKIPPED", "FAILED"} : Finished(x, s, FALSE)) /\ Return(w)
      BY <2>1, <2>2, <2>4, <2>5, <3>1, <3>2, EndKeepsClaims
    <3>3. CASE /\ worker' = [worker EXCEPT ![w].at = "perform",
                                            ![w].attempt = run[x].attempt,
                                            ![w].actions = rule[x[1]].actions,
                                            ![w].results = run[x].results]
               /\ UNCHANGED <<run, jobs>>
      <4>1. /\ \A y \in Workers \ {w} : worker'[y] = worker[y]
            /\ worker'[w].at = "perform" /\ worker'[w].results = run[x].results
            /\ worker'[w].target = worker[w].target
        BY <3>3 DEF WorkersOK, WorkerRecords
      <4>2. Target(w)' = x
        BY <3>3, <4>1 DEF Target
      <4> QED
        BY <2>1, <2>2, <3>1, <3>3, <4>1, <4>2, WorkerKeepsClaims
    <3> QED
      BY <2>9, <3>2, <3>3 DEF Load
  <2>10. ASSUME Perform(w) \/ PublishNested(w) PROVE Claimed' /\ AtAnAction'
    <3>1. /\ Working(w) /\ Performing(w) /\ UNCHANGED run /\ Remaining(w) # {}
      BY <2>10 DEF Perform, PublishNested, Working, Performing, AtAnAction
    <3>2. PICK step \in {"publish", "save", "reject"} :
              Goto(w, step) \/ (\E t \in BOOLEAN : Raise(w, step, t))
      BY <2>10 DEF Perform, PublishNested
    <3>3. /\ \A y \in Workers \ {w} : worker'[y] = worker[y]
          /\ worker'[w].results = worker[w].results
          /\ Remaining(w)' = Remaining(w) /\ Target(w)' = x
      BY <2>6, <3>2
    <3> QED
      BY <2>1, <2>2, <2>3, <3>1, <3>3, WorkerKeepsClaims DEF Claimed
  <2>11. ASSUME Save(w) \/ SaveFailure(w) PROVE Claimed' /\ AtAnAction'
    <3>1. Working(w) /\ Performing(w)
      BY <2>11 DEF Save, SaveFailure, Working, Performing
    <3>2. CASE \E result \in {"SUCCEEDED", "FAILED"}, step \in {"perform", "fail"} :
                  /\ run' = [run EXCEPT ![x].results = With(w, result)]
                  /\ worker' = [worker EXCEPT ![w].results = With(w, result), ![w].at = step]
                  /\ UNCHANGED jobs
      <4> PICK result \in {"SUCCEEDED", "FAILED"}, step \in {"perform", "fail"} :
                  /\ run' = [run EXCEPT ![x].results = With(w, result)]
                  /\ worker' = [worker EXCEPT ![w].results = With(w, result), ![w].at = step]
        BY <3>2
      <4> DEFINE list == With(w, result)
      <4>1. /\ run' = [run EXCEPT ![x].results = list]
            /\ worker' = [worker EXCEPT ![w].results = list, ![w].at = step]
        OBVIOUS
      <4> HIDE DEF list
      <4>2. /\ \A y \in Workers \ {w} : worker'[y] = worker[y]
            /\ worker'[w].at = step /\ worker'[w].results = list
            /\ worker'[w].target = worker[w].target
        BY <4>1 DEF WorkersOK, WorkerRecords
      <4>3. /\ \A y \in Runs \ {x} : run'[y] = run[y]
            /\ run'[x].status = run[x].status /\ run'[x].results = list
        BY <2>3, <4>1 DEF RowsOK, RunRecords
      <4>4. Target(w)' = x
        BY <3>2, <4>2 DEF Target
      <4> QED
        BY <2>1, <2>2, <3>1, <4>2, <4>3, <4>4, WorkerKeepsClaims
    <3>3. CASE Raise(w, "reject", TRUE) /\ UNCHANGED run /\ worker[w].at = "save"
      <4>1. /\ \A y \in Workers \ {w} : worker'[y] = worker[y]
            /\ worker'[w].results = worker[w].results
            /\ Remaining(w)' = Remaining(w) /\ Target(w)' = x
        BY <2>6, <3>3
      <4> QED
        BY <2>1, <2>2, <2>3, <3>1, <3>3, <4>1, WorkerKeepsClaims DEF Claimed, AtAnAction
    <3>4. CASE Raise(w, "fail", TRUE) /\ UNCHANGED run
      <4>1. /\ \A y \in Workers \ {w} : worker'[y] = worker[y]
            /\ worker'[w].at = "fail" /\ worker'[w].results = worker[w].results
            /\ Target(w)' = x
        BY <2>6, <3>4
      <4> QED
        BY <2>1, <2>2, <2>3, <3>1, <3>4, <4>1, WorkerKeepsClaims DEF Claimed
    <3> QED
      BY <2>11, <3>2, <3>3, <3>4 DEF Save, SaveFailure
  <2>12. ASSUME FinishSucceeded(w) \/ FinishFailed(w) PROVE Claimed' /\ AtAnAction'
    <3>1. Working(w) /\ (worker[w].at = "perform" => Performing(w))
      BY <2>12 DEF FinishSucceeded, FinishFailed, Working, Performing
    <3>2. CASE (\E s, t : Finished(x, s, t)) /\ (Return(w) \/ Throw(w))
      BY <2>1, <2>2, <2>4, <2>5, <3>1, <3>2, EndKeepsClaims
    <3>3. CASE Raise(w, "fail", TRUE) /\ UNCHANGED run /\ worker[w].at = "perform"
      <4>1. /\ \A y \in Workers \ {w} : worker'[y] = worker[y]
            /\ worker'[w].at = "fail" /\ worker'[w].results = worker[w].results
            /\ Target(w)' = x
        BY <2>6, <3>3
      <4> QED
        BY <2>1, <2>2, <2>3, <3>1, <3>3, <4>1, WorkerKeepsClaims DEF Claimed
    <3> QED
      BY <2>12, <3>2, <3>3 DEF FinishSucceeded, FinishFailed
  <2>13. ASSUME DatabaseError(w) \/ WorkerCrash(w) PROVE Claimed' /\ AtAnAction'
    BY <2>1, <2>2, <2>5, <2>13, EndKeepsClaims DEF DatabaseError, WorkerCrash
  <2> QED
    BY <1>5, <2>7, <2>8, <2>9, <2>10, <2>11, <2>12, <2>13 DEF Handle
<1>6. ASSUME NEW w \in Workers, LockLapse(w) PROVE Claimed' /\ AtAnAction'
  <2>1. Working(w)' = Working(w) /\ Performing(w)' = Performing(w)
    BY <1>6, LapseFrame DEF Working, Performing
  <2> QED
    BY <1>6, <2>1, LapseFrame, WorkerKeepsClaims DEF Claimed, AtAnAction
<1> QED
  BY <1>1, <1>2, <1>3, <1>4, <1>5, <1>6 DEF Next

RInv == IInv /\ Claimed /\ AtAnAction

\* Nobody has claimed anything.
LEMMA InitRInv == Init => RInv
<1> SUFFICES ASSUME Init PROVE RInv
  OBVIOUS
<1>1. \A w \in Workers : worker[w].at = "idle"
  BY DEF Init, Idle
<1>2. \A a \in Admins : admin[a].at = "idle"
  BY DEF Init, Free
<1> QED
  BY <1>1, <1>2, InitIInv DEF RInv, Claimed, AtAnAction, Working, Performing

LEMMA NextRInv == RInv /\ [Next]_vars => RInv'
<1>1. ASSUME RInv, UNCHANGED vars PROVE Claimed' /\ AtAnAction'
  BY <1>1 DEF vars, RInv, Claimed, AtAnAction, Working, Performing, Remaining, Target
<1> QED
  BY <1>1, NextIInv, ClaimedInductive DEF RInv

\* The claim of processRun: without users' retries no two workers execute the
\* same run, whatever fails and however many jobs there are for it.
THEOREM RunHasOneExecutor == Spec => []ExclusiveExecution
<1>1. RInv => ExclusiveExecution
  BY DEF RInv, Claimed, ExclusiveExecution, Executing, Working
<1> QED
  BY <1>1, InitRInv, NextRInv, PTL DEF Spec

\* Only the worker that executes a run saves results or performs actions, and
\* it is at an action without a saved success.
LEMMA SuccessIsKept == RInv /\ [Next]_vars => SavedSuccessKept \/ UNCHANGED vars
<1> SUFFICES ASSUME RInv, Next, NEW x \in Runs, NEW i \in Indexes,
                    env.maxRetries = 0, run[x].results[i] = "SUCCEEDED"
             PROVE  run'[x].results[i] = "SUCCEEDED" /\ made'[x][i] = made[x][i]
  BY DEF SavedSuccessKept
<1> USE DEF RInv, IInv, TypeOK
<1>1. ASSUME NEW y \in Runs, NEW s, run' = [run EXCEPT ![y].status = s]
      PROVE  run'[x].results = run[x].results
  BY <1>1 DEF RowsOK, RunRecords
<1>2. ASSUME NEW y, NEW s, NEW t, Finished(y, s, t)
      PROVE  run'[x].results = run[x].results
  BY <1>2 DEF Finished, RowsOK, RunRecords
<1>3. CASE UNCHANGED <<run, made>>
  BY <1>3
<1>4. ASSUME NEW e \in Events, NEW r \in Rules, PublishUpsert(e, r)
      PROVE  UNCHANGED made /\ run'[x].results = run[x].results
  <2>1. <<r, e>> \in Runs /\ UNCHANGED made
    BY <1>4 DEF PublishUpsert, Runs
  <2>2. \E s : run' = [run EXCEPT ![<<r, e>>].status = s]
    BY <1>4 DEF PublishUpsert
  <2> QED
    BY <1>1, <2>1, <2>2
<1>5. ASSUME NEW a \in Admins, RetryWrite(a)
      PROVE  UNCHANGED made /\ run'[x].results = run[x].results
  BY <1>1, <1>5 DEF RetryWrite, CallsHaveRuns
<1>6. ASSUME NEW w \in Workers, Claim(w) \/ Load(w) \/ FinishSucceeded(w) \/ FinishFailed(w)
      PROVE  UNCHANGED made /\ run'[x].results = run[x].results
  <2>1. UNCHANGED made /\ worker[w].at # "idle"
    BY <1>6 DEF Claim, Load, FinishSucceeded, FinishFailed
  <2>2. CASE Claim(w)
    <3>1. Target(w) \in Runs
      BY <2>1, TargetIsRun
    <3> QED
      BY <2>1, <2>2, <3>1 DEF Claim, RowsOK, RunRecords
  <2>3. CASE ~Claim(w)
    <3>1. UNCHANGED run \/ \E y, s, t : Finished(y, s, t)
      BY <1>6, <2>3 DEF Load, FinishSucceeded, FinishFailed
    <3> QED
      BY <1>2, <2>1, <3>1
  <2> QED
    BY <2>2, <2>3
<1>7. ASSUME NEW w \in Workers, Perform(w)
      PROVE  UNCHANGED run /\ made'[x][i] = made[x][i]
  <2>1. Performing(w) /\ worker[w].at # "idle" /\ Remaining(w) # {} /\ UNCHANGED run
    BY <1>7 DEF Perform, Performing
  <2> DEFINE c == Current(w)
  <2>2. worker[w].results[c] # "SUCCEEDED"
    BY <2>1, CurrentRemains DEF Remaining
  <2>3. worker[w].results = run[Target(w)].results
    BY <2>1 DEF Claimed
  <2>4. made' = made \/ made' = [made EXCEPT ![Target(w)][c] = @ + 1]
    BY <1>7 DEF Perform
  <2>5. ~(Target(w) = x /\ c = i)
    BY <2>2, <2>3
  <2> HIDE DEF c
  <2>6. Target(w) \in Runs
    BY <2>1, TargetIsRun
  <2> QED
    BY <2>1, <2>4, <2>5, <2>6 DEF LogsOK
<1>8. ASSUME NEW w \in Workers, Save(w) \/ SaveFailure(w)
      PROVE  UNCHANGED made /\ run'[x].results[i] = "SUCCEEDED"
  <2>1. /\ Performing(w) /\ worker[w].at # "idle" /\ UNCHANGED made
        /\ worker[w].at \in {"save", "reject"}
    BY <1>8 DEF Save, SaveFailure, Performing
  <2>2. Remaining(w) # {}
    BY <2>1 DEF AtAnAction
  <2> DEFINE c == Current(w)
  <2>3. worker[w].results[c] # "SUCCEEDED"
    BY <2>2, CurrentRemains DEF Remaining
  <2>4. worker[w].results = run[Target(w)].results
    BY <2>1 DEF Claimed
  <2>5. ~(Target(w) = x /\ c = i)
    BY <2>3, <2>4
  <2>6. \/ UNCHANGED run
        \/ \E result \in {"SUCCEEDED", "FAILED"} :
              run' = [run EXCEPT ![Target(w)].results =
                                    [worker[w].results EXCEPT ![c] = result]]
    BY <1>8 DEF Save, SaveFailure, With
  <2> HIDE DEF c
  <2>7. Target(w) \in Runs
    BY <2>1, TargetIsRun
  <2> QED
    BY <2>1, <2>4, <2>5, <2>6, <2>7 DEF RowsOK, RunRecords, Results
<1>9. \/ UNCHANGED <<run, made>>
      \/ \E e \in Events, r \in Rules : PublishUpsert(e, r)
      \/ \E a \in Admins : RetryWrite(a)
      \/ \E w \in Workers :
            \/ Claim(w) \/ Load(w) \/ FinishSucceeded(w) \/ FinishFailed(w)
            \/ Perform(w) \/ Save(w) \/ SaveFailure(w)
  BY DEF Next, Handle, PublishRead, PublishEnqueue, Take, Read, PublishNested, DatabaseError,
         WorkerCrash, LockLapse, RetryRead, RetryEnqueue, SweepRead, SweepEnqueue,
         SwitchRule, EditRule
<1> QED
  BY <1>3, <1>4, <1>5, <1>6, <1>7, <1>8, <1>9

\* Without users' retries an action whose success is saved is never performed
\* again, and the saved success is never overwritten.
THEOREM SavedSuccessStays == Spec => SavedSuccessIsFinal
<1>1. RInv /\ [Next]_vars => [SavedSuccessKept]_vars
  BY SuccessIsKept
<1> QED
  BY <1>1, InitRInv, NextRInv, PTL DEF Spec, SavedSuccessIsFinal

-----------------------------------------------------------------------------
(* An action is performed at most once per attempt, also when users retry *)

\* The worker may still perform action i of run x in its attempt.
ToPerform(w, x, i) ==
    /\ worker[w].at # "idle"
    /\ Target(w) = x
    /\ \/ worker[w].at = "load"
       \/ worker[w].at = "perform" /\ worker[w].results[i] # "SUCCEEDED"
       \/ /\ worker[w].at \in {"publish", "save"}
          /\ worker[w].results[i] # "SUCCEEDED" /\ i # Current(w)

Performers(x, i) == {w \in Workers : ToPerform(w, x, i)}

\* The attempts counted cover the times the action was performed and those it
\* may still be.
AttemptsCover ==
    \A x \in Runs, i \in Indexes :
        made[x][i] + Cardinality(Performers(x, i)) <= run[x].attempt

CInv == IInv /\ AttemptsCover

\* The performers are finitely many, and fewer of them count less.
LEMMA PerformersFinite ==
    ASSUME NEW S, S \subseteq Workers
    PROVE  IsFiniteSet(S) /\ Cardinality(S) \in Nat
BY AutomationAssumption, FS_Subset, FS_CardinalityType DEF AutomationAssumption

\* A step after which every performer was one before, and that performs nothing.
LEMMA FewerPerformers ==
    ASSUME CInv, IInv', UNCHANGED made,
           \A x \in Runs : run'[x].attempt >= run[x].attempt,
           \A x \in Runs, i \in Indexes, w \in Workers :
              ToPerform(w, x, i)' => ToPerform(w, x, i)
    PROVE  AttemptsCover'
<1> SUFFICES ASSUME NEW x \in Runs, NEW i \in Indexes
             PROVE  made'[x][i] + Cardinality(Performers(x, i)') <= run'[x].attempt
  BY DEF AttemptsCover
<1>1. Performers(x, i)' \subseteq Performers(x, i) /\ Performers(x, i) \subseteq Workers
  BY DEF Performers
<1>2. Cardinality(Performers(x, i)') <= Cardinality(Performers(x, i))
  BY <1>1, PerformersFinite, FS_Subset
<1>3. Cardinality(Performers(x, i)) \in Nat /\ Cardinality(Performers(x, i)') \in Nat
  BY <1>1, PerformersFinite
<1>4. made[x][i] \in Nat /\ run[x].attempt \in Nat /\ run'[x].attempt \in Nat
  BY DEF CInv, IInv, TypeOK, LogsOK, RowsOK, RunRecords
<1>5. made[x][i] + Cardinality(Performers(x, i)) <= run[x].attempt
  BY DEF CInv, AttemptsCover
<1>6. run'[x].attempt >= run[x].attempt /\ made'[x][i] = made[x][i]
  OBVIOUS
<1> QED
  BY <1>2, <1>3, <1>4, <1>5, <1>6

\* The claim counts an attempt for the one worker it lets perform actions.
LEMMA ClaimCovers ==
    ASSUME CInv, IInv', TargetsKept, NEW w \in Workers, Claim(w), Unclaimed(w)
    PROVE  AttemptsCover'
<1> USE DEF CInv, IInv, TypeOK
<1> SUFFICES ASSUME NEW x \in Runs, NEW i \in Indexes
             PROVE  made'[x][i] + Cardinality(Performers(x, i)') <= run'[x].attempt
  BY DEF AttemptsCover
<1>1. /\ worker[w].at = "claim" /\ UNCHANGED made /\ Goto(w, "load")
      /\ run' = [run EXCEPT ![Target(w)].status = "PROCESSING", ![Target(w)].attempt = @ + 1]
  BY DEF Claim
<1>2. /\ \A y \in Workers \ {w} : worker'[y] = worker[y] /\ Target(y)' = Target(y)
      /\ Target(w)' = Target(w)
  BY <1>1 DEF Goto, WorkersOK, WorkerRecords, Target
<1>3. \A y \in Workers \ {w} : ToPerform(y, x, i)' => ToPerform(y, x, i)
  BY <1>2 DEF ToPerform, Current, Remaining
<1>4. ToPerform(w, x, i)' => Target(w) = x
  BY <1>2 DEF ToPerform
<1>5. /\ made[x][i] \in Nat /\ run[x].attempt \in Nat /\ made'[x][i] = made[x][i]
      /\ made[x][i] + Cardinality(Performers(x, i)) <= run[x].attempt
  BY <1>1 DEF LogsOK, RowsOK, RunRecords, AttemptsCover
<1>6. Performers(x, i) \subseteq Workers /\ Performers(x, i)' \subseteq Workers
  BY DEF Performers
<1>7. /\ IsFiniteSet(Performers(x, i)) /\ Cardinality(Performers(x, i)) \in Nat
      /\ Cardinality(Performers(x, i)') \in Nat
  BY <1>6, PerformersFinite
<1>8. CASE Target(w) = x
  <2>1. run'[x].attempt = run[x].attempt + 1
    BY <1>1, <1>8 DEF RowsOK, RunRecords
  <2>2. Performers(x, i)' \subseteq Performers(x, i) \cup {w}
    BY <1>3 DEF Performers
  <2>3. /\ IsFiniteSet(Performers(x, i) \cup {w})
        /\ Cardinality(Performers(x, i) \cup {w}) \in Nat
        /\ Cardinality(Performers(x, i) \cup {w}) <= Cardinality(Performers(x, i)) + 1
    BY <1>6, <1>7, PerformersFinite, FS_AddElement
  <2>4. Cardinality(Performers(x, i)') <= Cardinality(Performers(x, i) \cup {w})
    BY <2>2, <2>3, FS_Subset
  <2> QED
    BY <1>5, <1>7, <2>1, <2>3, <2>4
<1>9. CASE Target(w) # x
  <2>1. run'[x].attempt = run[x].attempt
    BY <1>1, <1>9 DEF RowsOK, RunRecords
  <2>2. Performers(x, i)' \subseteq Performers(x, i)
    BY <1>3, <1>4, <1>9 DEF Performers
  <2>3. Cardinality(Performers(x, i)') <= Cardinality(Performers(x, i))
    BY <1>7, <2>2, FS_Subset
  <2> QED
    BY <1>5, <1>7, <2>1, <2>3
<1> QED
  BY <1>8, <1>9

\* A worker that has performed an action does not perform it again.
LEMMA PerformCovers ==
    ASSUME CInv, IInv', TargetsKept, NEW w \in Workers, Perform(w)
    PROVE  AttemptsCover'
<1> USE DEF CInv, IInv, TypeOK
<1> DEFINE c == Current(w)
           t == Target(w)
<1>1. /\ worker[w].at = "perform" /\ Remaining(w) # {} /\ UNCHANGED run
  BY DEF Perform
<1>2. worker[w].results[c] # "SUCCEEDED"
  BY <1>1, CurrentRemains DEF Remaining
<1>3. PICK step \in {"publish", "save", "reject"} :
          /\ UNCHANGED jobs
          /\ Goto(w, step) \/ \E b \in BOOLEAN : Raise(w, step, b)
          /\ \/ made' = made
             \/ step # "reject" /\ made' = [made EXCEPT ![t][c] = @ + 1]
  BY DEF Perform, Goto, Raise
<1>4. /\ \A y \in Workers \ {w} : worker'[y] = worker[y] /\ Target(y)' = Target(y)
      /\ worker'[w].at = step /\ worker'[w].results = worker[w].results
      /\ worker'[w].actions = worker[w].actions
      /\ worker'[w].target = worker[w].target
  BY <1>3 DEF Goto, Raise, WorkersOK, WorkerRecords, Target
<1>5. Current(w)' = c /\ Target(w)' = t
  BY <1>3, <1>4 DEF Current, Remaining, Target
<1>6. \A x \in Runs, i \in Indexes :
          /\ \A y \in Workers \ {w} : ToPerform(y, x, i)' => ToPerform(y, x, i)
          /\ ToPerform(w, x, i)' => ToPerform(w, x, i) /\ i # c
  <2>1. SUFFICES ASSUME NEW x \in Runs, NEW i \in Indexes
                 PROVE  /\ \A y \in Workers \ {w} : ToPerform(y, x, i)' => ToPerform(y, x, i)
                        /\ ToPerform(w, x, i)' => ToPerform(w, x, i) /\ i # c
    OBVIOUS
  <2>2. \A y \in Workers \ {w} : ToPerform(y, x, i)' => ToPerform(y, x, i)
    BY <1>4 DEF ToPerform, Current, Remaining
  <2>3. ToPerform(w, x, i)' => ToPerform(w, x, i) /\ i # c
    <3> HIDE DEF c, t
    <3> QED
      BY <1>1, <1>3, <1>4, <1>5 DEF ToPerform, c, t
  <2> QED
    BY <2>2, <2>3
<1>7. CASE made' = made
  BY <1>1, <1>6, <1>7, FewerPerformers DEF RowsOK, RunRecords
<1>8. CASE made' = [made EXCEPT ![t][c] = @ + 1]
  <2>1. SUFFICES ASSUME NEW x \in Runs, NEW i \in Indexes
                 PROVE  made'[x][i] + Cardinality(Performers(x, i)') <= run'[x].attempt
    BY DEF AttemptsCover
  <2>2. /\ made[x][i] \in Nat /\ run[x].attempt \in Nat /\ run'[x].attempt = run[x].attempt
        /\ made[x][i] + Cardinality(Performers(x, i)) <= run[x].attempt
    BY <1>1 DEF LogsOK, RowsOK, RunRecords, AttemptsCover
  <2>3. Performers(x, i) \subseteq Workers /\ Performers(x, i)' \subseteq Performers(x, i)
    BY <1>6 DEF Performers
  <2>4. /\ IsFiniteSet(Performers(x, i)) /\ Cardinality(Performers(x, i)) \in Nat
        /\ Cardinality(Performers(x, i)') \in Nat
        /\ Cardinality(Performers(x, i)') <= Cardinality(Performers(x, i))
    BY <2>3, PerformersFinite, FS_Subset
  <2>5. CASE x = t /\ i = c
    <3>1. made'[x][i] = made[x][i] + 1
      <4> HIDE DEF c, t
      <4> QED
        BY <1>8, <2>5 DEF LogsOK
    <3>2. w \in Performers(x, i)
      BY <1>1, <1>2, <2>5 DEF Performers, ToPerform
    <3>3. Performers(x, i)' \subseteq Performers(x, i) \ {w}
      BY <1>6, <2>5 DEF Performers
    <3>4. /\ IsFiniteSet(Performers(x, i) \ {w})
          /\ Cardinality(Performers(x, i) \ {w}) = Cardinality(Performers(x, i)) - 1
      BY <2>4, <3>2, FS_RemoveElement
    <3>5. Cardinality(Performers(x, i)') <= Cardinality(Performers(x, i)) - 1
      BY <3>3, <3>4, FS_Subset
    <3> QED
      BY <2>2, <2>4, <3>1, <3>5
  <2>6. CASE ~(x = t /\ i = c)
    <3>1. made'[x][i] = made[x][i]
      <4> HIDE DEF c, t
      <4> QED
        BY <1>8, <2>6 DEF LogsOK
    <3> QED
      BY <2>2, <2>4, <3>1
  <2> QED
    BY <2>5, <2>6
<1> QED
  BY <1>3, <1>7, <1>8

\* Every other step of a worker leaves it no more to perform than before.
LEMMA WorkerCovers ==
    ASSUME CInv, IInv', TargetsKept, NEW w \in Workers,
           \/ \E j \in Jobs : Take(w, j)
           \/ Read(w) \/ (Claim(w) /\ ~Unclaimed(w)) \/ Load(w)
           \/ PublishNested(w) \/ Save(w) \/ SaveFailure(w)
           \/ FinishSucceeded(w) \/ FinishFailed(w) \/ DatabaseError(w) \/ WorkerCrash(w)
    PROVE  AttemptsCover'
<1> USE DEF CInv, IInv, TypeOK
<1>1. UNCHANGED made
  BY DEF Take, Read, Claim, Load, PublishNested, Save, SaveFailure, FinishSucceeded,
         FinishFailed, DatabaseError, WorkerCrash
<1>2. \A x \in Runs : run'[x].attempt >= run[x].attempt
  <2>1. \A x \in Runs : run'[x].attempt = run[x].attempt
    <3>1. CASE UNCHANGED run
      BY <3>1
    <3>2. CASE \E y, s, b : Finished(y, s, b)
      BY <3>2 DEF Finished, RowsOK, RunRecords
    <3>3. CASE \E list : run' = [run EXCEPT ![Target(w)].results = list]
      BY <3>3 DEF RowsOK, RunRecords
    <3> QED
      BY <3>1, <3>2, <3>3
         DEF Take, Read, Claim, Load, PublishNested, Save, SaveFailure, FinishSucceeded,
             FinishFailed, DatabaseError, WorkerCrash
  <2> QED
    BY <2>1 DEF RowsOK, RunRecords
<1>3. \A y \in Workers \ {w} : worker'[y] = worker[y]
  BY DEF Take, Read, Claim, Load, PublishNested, Save, SaveFailure, FinishSucceeded,
         FinishFailed, DatabaseError, WorkerCrash, Goto, Raise, Return, Throw, WorkersOK
<1>4. SUFFICES ASSUME NEW x \in Runs, NEW i \in Indexes, ToPerform(w, x, i)'
               PROVE  ToPerform(w, x, i)
  <2>1. \A x \in Runs, i \in Indexes, y \in Workers \ {w} :
            ToPerform(y, x, i)' => ToPerform(y, x, i)
    BY <1>3 DEF ToPerform, TargetsKept, Current, Remaining
  <2> QED
    BY <1>1, <1>2, <2>1, FewerPerformers
<1>5. CASE Load(w)
  <2>1. worker[w].at = "load"
    BY <1>5 DEF Load
  <2>2. Target(w)' = Target(w)
    BY <1>4, <2>1 DEF ToPerform, TargetsKept
  <2> QED
    BY <1>4, <2>1, <2>2 DEF ToPerform
<1>6. CASE PublishNested(w)
  <2>1. /\ worker[w].at = "publish" /\ UNCHANGED jobs
        /\ worker'[w].at \in {"save", "reject"} /\ worker'[w].results = worker[w].results
        /\ worker'[w].actions = worker[w].actions
        /\ worker'[w].target = worker[w].target
    BY <1>6 DEF PublishNested, Goto, Raise, WorkersOK, WorkerRecords
  <2>2. Current(w)' = Current(w) /\ Target(w)' = Target(w)
    BY <2>1 DEF Current, Remaining, Target
  <2> QED
    BY <1>4, <2>1, <2>2 DEF ToPerform
<1>7. CASE Save(w)
  <2>1. worker[w].at = "save" /\ UNCHANGED jobs
    BY <1>7 DEF Save, Raise
  <2>2. CASE worker' = [worker EXCEPT ![w].results = With(w, "SUCCEEDED"), ![w].at = "perform"]
    <3> DEFINE c == Current(w)
    <3>1. With(w, "SUCCEEDED") = [worker[w].results EXCEPT ![c] = "SUCCEEDED"]
      BY DEF With
    <3> HIDE DEF c
    <3>2. /\ worker'[w].at = "perform" /\ worker'[w].target = worker[w].target
          /\ worker'[w].results = [worker[w].results EXCEPT ![c] = "SUCCEEDED"]
      BY <2>2, <3>1 DEF WorkersOK, WorkerRecords
    <3>3. i # c /\ worker[w].results[i] # "SUCCEEDED"
      BY <1>4, <3>2 DEF ToPerform, WorkersOK, WorkerRecords, Results
    <3>4. Target(w)' = Target(w)
      BY <2>1, <3>2 DEF Target
    <3> QED
      BY <1>4, <2>1, <3>3, <3>4 DEF ToPerform, c
  <2>3. CASE Raise(w, "reject", TRUE)
    BY <1>4, <2>3 DEF Raise, ToPerform, WorkersOK, WorkerRecords
  <2> QED
    BY <1>7, <2>2, <2>3 DEF Save
<1>8. CASE worker'[w].at \notin {"load", "perform", "publish", "save"}
  BY <1>4, <1>8 DEF ToPerform
<1>9. \/ Load(w) \/ PublishNested(w) \/ Save(w)
      \/ worker'[w].at \notin {"load", "perform", "publish", "save"}
  <2>1. ASSUME NEW step, Goto(w, step) \/ (\E b \in BOOLEAN : Raise(w, step, b))
        PROVE  worker'[w].at = step
    BY <2>1 DEF Goto, Raise, WorkersOK, WorkerRecords
  <2>2. ASSUME Return(w) \/ Throw(w) \/ WorkerCrash(w) PROVE worker'[w].at = "idle"
    BY <2>2 DEF Return, Throw, WorkerCrash, WorkersOK, Idle
  <2>3. ASSUME Read(w) PROVE worker'[w].at \in {"claim", "idle"}
    BY <2>2, <2>3 DEF Read, WorkersOK, WorkerRecords
  <2>4. ASSUME NEW j \in Jobs, Take(w, j) PROVE worker'[w].at = "read"
    BY <2>4 DEF Take, WorkersOK, Idle
  <2>5. ASSUME SaveFailure(w) PROVE worker'[w].at = "fail"
    <3> DEFINE list == With(w, "FAILED")
    <3>1. \/ worker' = [worker EXCEPT ![w].results = list, ![w].at = "fail"]
          \/ Raise(w, "fail", TRUE)
      BY <2>5 DEF SaveFailure
    <3> HIDE DEF list
    <3>2. CASE worker' = [worker EXCEPT ![w].results = list, ![w].at = "fail"]
      BY <3>2 DEF WorkersOK, WorkerRecords
    <3> QED
      BY <2>1, <3>1, <3>2
  <2>6. ASSUME \/ Claim(w) /\ ~Unclaimed(w)
               \/ FinishSucceeded(w) \/ FinishFailed(w) \/ DatabaseError(w)
        PROVE  worker'[w].at \in {"idle", "fail"}
    BY <2>1, <2>2, <2>6 DEF Claim, FinishSucceeded, FinishFailed, DatabaseError
  <2> QED
    BY <2>2, <2>3, <2>4, <2>5, <2>6
<1> QED
  BY <1>5, <1>6, <1>7, <1>8, <1>9

\* A worker without its lock has no more to perform than before.
LEMMA LapseCovers ==
    ASSUME CInv, IInv', TargetsKept, NEW w \in Workers, LockLapse(w)
    PROVE  AttemptsCover'
<1>1. IInv
  BY DEF CInv
<1>2. \A x \in Runs, i \in Indexes, y \in Workers :
          ToPerform(y, x, i)' => ToPerform(y, x, i)
  <2> SUFFICES ASSUME NEW x \in Runs, NEW i \in Indexes, NEW y \in Workers,
                      ToPerform(y, x, i)'
               PROVE  ToPerform(y, x, i)
    OBVIOUS
  <2>1. CASE y = w
    BY <1>1, <2>1, LapseFrame DEF ToPerform
  <2>2. CASE y # w
    <3>1. worker'[y] = worker[y]
      BY <1>1, <2>2, LapseFrame
    <3> QED
      BY <3>1 DEF ToPerform, Current, Remaining, Target
  <2> QED
    BY <2>1, <2>2
<1>3. /\ UNCHANGED made
      /\ \A x \in Runs : run'[x].attempt >= run[x].attempt
  BY <1>1, LapseFrame DEF IInv, TypeOK, RowsOK, RunRecords
<1> QED
  BY <1>2, <1>3, FewerPerformers

\* Attempts are never taken back, and only a claim lets a worker perform actions.
LEMMA NextCInv == CInv /\ [Next]_vars => CInv'
<1> SUFFICES ASSUME CInv, [Next]_vars PROVE AttemptsCover'
  BY NextIInv DEF CInv
<1> USE DEF CInv
<1>1. IInv' /\ TargetsKept
  BY NextIInv
<1>2. ASSUME UNCHANGED <<worker, made>>,
             \A x \in Runs : run'[x].attempt = run[x].attempt
      PROVE  AttemptsCover'
  <2>1. \A x \in Runs, i \in Indexes, w \in Workers :
            ToPerform(w, x, i)' => ToPerform(w, x, i)
    BY <1>1, <1>2 DEF ToPerform, TargetsKept, Current, Remaining
  <2>2. \A x \in Runs : run'[x].attempt >= run[x].attempt
    BY <1>2 DEF IInv, TypeOK, RowsOK, RunRecords
  <2> QED
    BY <1>1, <1>2, <2>1, <2>2, FewerPerformers
<1>3. CASE UNCHANGED vars
  BY <1>2, <1>3 DEF vars
<1>4. CASE \E w \in Workers : Acts(w)
  <2>1. PICK w \in Workers : Acts(w)
    BY <1>4
  <2>2. CASE Claim(w) /\ Unclaimed(w)
    BY <1>1, <2>2, ClaimCovers
  <2>3. CASE Perform(w)
    BY <1>1, <2>3, PerformCovers
  <2>4. CASE \/ \E j \in Jobs : Take(w, j)
             \/ Read(w) \/ (Claim(w) /\ ~Unclaimed(w)) \/ Load(w)
             \/ PublishNested(w) \/ Save(w) \/ SaveFailure(w)
             \/ FinishSucceeded(w) \/ FinishFailed(w) \/ DatabaseError(w) \/ WorkerCrash(w)
    BY <1>1, <2>4, WorkerCovers
  <2>5. \/ \E j \in Jobs : Take(w, j)
        \/ Read(w) \/ Claim(w) \/ Load(w) \/ Perform(w)
        \/ PublishNested(w) \/ Save(w) \/ SaveFailure(w)
        \/ FinishSucceeded(w) \/ FinishFailed(w) \/ DatabaseError(w)
        \/ WorkerCrash(w) \/ LockLapse(w)
    BY <2>1 DEF Handle
  <2>6. CASE LockLapse(w)
    BY <1>1, <2>6, LapseCovers
  <2> QED
    BY <2>2, <2>3, <2>4, <2>5, <2>6
<1>5. ASSUME NEW e \in Events,
             PublishRead(e) \/ (\E r \in Rules : PublishUpsert(e, r)) \/ PublishEnqueue(e)
      PROVE  AttemptsCover'
  <2>1. UNCHANGED <<worker, made>>
    BY <1>5 DEF PublishRead, PublishUpsert, PublishEnqueue
  <2>2. UNCHANGED run \/ \E y, s : run' = [run EXCEPT ![y].status = s]
    <3>1. ASSUME NEW r \in Rules, PublishUpsert(e, r)
          PROVE  \E y, s : run' = [run EXCEPT ![y].status = s]
      BY <3>1 DEF PublishUpsert
    <3> QED
      BY <1>5, <3>1 DEF PublishRead, PublishEnqueue
  <2>3. \A x \in Runs : run'[x].attempt = run[x].attempt
    BY <2>2 DEF IInv, TypeOK, RowsOK, RunRecords
  <2> QED
    BY <1>2, <2>1, <2>3
<1>6. CASE \E a \in Admins :
              (\E x \in Runs : RetryRead(a, x)) \/ RetryWrite(a) \/ RetryEnqueue(a)
  <2>1. UNCHANGED <<worker, made>>
    BY <1>6 DEF RetryRead, RetryWrite, RetryEnqueue
  <2>2. UNCHANGED run \/ \E y, s : run' = [run EXCEPT ![y].status = s]
    BY <1>6 DEF RetryRead, RetryWrite, RetryEnqueue
  <2>3. \A x \in Runs : run'[x].attempt = run[x].attempt
    BY <2>2 DEF IInv, TypeOK, RowsOK, RunRecords
  <2> QED
    BY <1>2, <2>1, <2>3
<1>7. CASE \/ SweepRead
           \/ \E x \in Runs : SweepEnqueue(x)
           \/ \E r \in Rules : SwitchRule(r) \/ EditRule(r)
  BY <1>2, <1>7 DEF SweepRead, SweepEnqueue, SwitchRule, EditRule
<1> QED
  BY <1>3, <1>4, <1>5, <1>6, <1>7 DEF Next

\* Nothing has been performed.
LEMMA InitCInv == Init => CInv
<1> SUFFICES ASSUME Init, NEW x \in Runs, NEW i \in Indexes
             PROVE  made[x][i] + Cardinality(Performers(x, i)) <= run[x].attempt
  BY InitIInv DEF CInv, AttemptsCover
<1>1. Performers(x, i) = {}
  BY DEF Init, Performers, ToPerform, Idle
<1>2. Cardinality(Performers(x, i)) = 0
  BY <1>1, FS_EmptySet
<1>3. made[x][i] = 0
  BY DEF Init
<1>4. run[x].attempt = 0
  BY DEF Init
<1> QED
  BY <1>2, <1>3, <1>4

\* However users retry, jobs are repeated and workers die, an action of a rule
\* is performed at most once for every attempt counted in its run.
THEOREM ActionOncePerAttempt == Spec => []OncePerAttempt
<1>1. CInv => OncePerAttempt
  <2> SUFFICES ASSUME CInv, NEW x \in Runs, NEW i \in Indexes
               PROVE  made[x][i] <= run[x].attempt
    BY DEF OncePerAttempt
  <2>1. Cardinality(Performers(x, i)) \in Nat
    BY PerformersFinite DEF Performers
  <2>2. made[x][i] \in Nat /\ run[x].attempt \in Nat
    BY DEF CInv, IInv, TypeOK, LogsOK, RowsOK, RunRecords
  <2> QED
    BY <2>1, <2>2 DEF CInv, AttemptsCover
<1> QED
  BY <1>1, InitCInv, NextCInv, PTL DEF Spec

-----------------------------------------------------------------------------
(* What SUCCEEDED means *)

\* A result that says SUCCEEDED, in a row or in a worker's copy, and the one
\* a worker is about to save, are about an action that was performed.
SuccessWasMade ==
    /\ \A x \in Runs, i \in Indexes : run[x].results[i] = "SUCCEEDED" => made[x][i] > 0
    /\ \A w \in Workers : Performing(w) =>
          \A i \in Indexes : worker[w].results[i] = "SUCCEEDED" => made[Target(w)][i] > 0
    /\ \A w \in Workers :
          worker[w].at \in {"publish", "save"} => made[Target(w)][Current(w)] > 0

\* Without edits there is only one list of actions.
OneActionList ==
    env.edits = {} =>
        /\ \A r \in Rules : rule[r].actions = env.actions
        /\ \A w \in Workers : Performing(w) => worker[w].actions = env.actions

\* A finite set of numbers has a greatest one.
LEMMA MaxIsThere ==
    ASSUME NEW S, S \subseteq Nat, S # {}, IsFiniteSet(S)
    PROVE  Max(S) \in S /\ \A n \in S : n <= Max(S)
<1> DEFINE Top(T) == \E m \in T : \A n \in T : n <= m
           Sets(n) == {T \in SUBSET S : T # {} /\ IsFiniteSet(T) /\ Cardinality(T) = n}
           bad == {n \in Nat : \E T \in Sets(n) : ~Top(T)}
           less == {p \in Nat \X Nat : p[1] < p[2]}
<1>1. bad = {}
  <2>1. SUFFICES ASSUME bad # {} PROVE FALSE
    OBVIOUS
  <2>2. IsWellFoundedOn(less, Nat)
    BY NatLessThanWellFounded DEF OpToRel
  <2>3. bad \subseteq Nat
    OBVIOUS
  <2> HIDE DEF less
  <2>4. PICK n \in bad : \A m \in bad : ~(<<m, n>> \in less)
    BY <2>1, <2>2, <2>3, WFMin, Zenon
  <2>5. PICK T \in SUBSET S : T # {} /\ IsFiniteSet(T) /\ Cardinality(T) = n /\ ~Top(T)
    BY <2>4
  <2>6. PICK x \in T : TRUE
    BY <2>5
  <2> DEFINE rest == T \ {x}
  <2>7. /\ IsFiniteSet(rest) /\ Cardinality(rest) = n - 1 /\ n \in Nat
        /\ rest \in SUBSET S
    BY <2>3, <2>4, <2>5, <2>6, FS_RemoveElement
  <2>8. T \subseteq Nat /\ x \in Nat
    BY <2>5, <2>6
  <2>9. CASE rest = {}
    <3>1. T = {x}
      BY <2>6, <2>9
    <3> QED
      BY <2>5, <2>8, <3>1
  <2>10. CASE rest # {}
    <3>1. Cardinality(rest) \in Nat
      BY <2>7, FS_CardinalityType
    <3>2. n - 1 \in Nat /\ <<n - 1, n>> \in less
      BY <2>7, <3>1 DEF less
    <3>3. n - 1 \notin bad
      BY <2>4, <3>2
    <3>4. Top(rest)
      BY <2>7, <2>10, <3>2, <3>3
    <3>5. PICK m \in rest : \A y \in rest : y <= m
      BY <3>4
    <3>6. CASE x <= m
      BY <2>5, <2>8, <3>5, <3>6
    <3>7. CASE ~(x <= m)
      BY <2>5, <2>6, <2>8, <3>5, <3>7
    <3> QED
      BY <3>6, <3>7
  <2> QED
    BY <2>9, <2>10
<1>2. Cardinality(S) \in Nat
  BY FS_CardinalityType
<1>3. Top(S)
  BY <1>1, <1>2
<1> QED
  BY <1>3 DEF Max

\* Every action of a list has an index.
LEMMA ListsFit ==
    ASSUME NEW list \in ActionLists PROVE DOMAIN list \subseteq Indexes
<1> DEFINE lengths == {Len(l) : l \in ActionLists}
           f == [l \in ActionLists |-> Len(l)]
<1>1. \A l \in ActionLists : Len(l) \in Nat /\ DOMAIN l = 1..Len(l)
  BY AutomationAssumption DEF AutomationAssumption
<1>2. f \in Surjection(ActionLists, lengths)
  BY DEF Surjection
<1> HIDE DEF f
<1>3. IsFiniteSet(lengths)
  BY <1>2, FS_Surjection, AutomationAssumption DEF AutomationAssumption
<1>4. lengths \subseteq Nat /\ Len(list) \in lengths
  BY <1>1
<1>5. Max(lengths) \in Nat /\ Len(list) <= Max(lengths)
  BY <1>3, <1>4, MaxIsThere
<1>6. Indexes = 1..Max(lengths)
  BY DEF Indexes
<1> HIDE DEF lengths
<1> QED
  BY <1>1, <1>5, <1>6

\* The loop is at an index.
LEMMA CurrentIsIndex ==
    ASSUME IInv, NEW w \in Workers, Remaining(w) # {}
    PROVE  Current(w) \in Indexes /\ worker[w].results[Current(w)] # "SUCCEEDED"
<1>1. Current(w) \in DOMAIN worker[w].actions
      /\ worker[w].results[Current(w)] # "SUCCEEDED"
  BY CurrentRemains DEF Remaining
<1>2. worker[w].actions \in ActionLists \cup {<<>>}
  BY DEF IInv, TypeOK, WorkersOK, WorkerRecords
<1>3. DOMAIN <<>> = {}
  OBVIOUS
<1> QED
  BY <1>1, <1>2, <1>3, ListsFit

\* What was performed stays performed, and the environment keeps its lists.
LEMMA MadeGrows ==
    ASSUME IInv, [Next]_vars
    PROVE  /\ \A x \in Runs, i \in Indexes : made[x][i] > 0 => made'[x][i] > 0
           /\ env'.edits = env.edits /\ env'.actions = env.actions
<1>1. LogsOK /\ EnvOK
  BY DEF IInv, TypeOK
<1>2. UNCHANGED made \/ \E w \in Workers : \E x, i : made' = [made EXCEPT ![x][i] = @ + 1]
  BY DEF Next, Handle, PublishRead, PublishUpsert, PublishEnqueue, Take, Read, Claim, Load,
         Perform, PublishNested, Save, SaveFailure, FinishSucceeded, FinishFailed,
         DatabaseError, WorkerCrash, LockLapse, RetryRead, RetryWrite, RetryEnqueue,
         SweepRead, SweepEnqueue, SwitchRule, EditRule, vars
<1>3. \A x \in Runs, i \in Indexes : made[x][i] > 0 => made'[x][i] > 0
  BY <1>1, <1>2 DEF LogsOK
<1>4. \/ UNCHANGED env
      \/ \E kind : Fault(kind)
      \/ \E a \in Admins, x \in Runs : RetryRead(a, x)
  BY DEF Next, Handle, PublishRead, PublishUpsert, PublishEnqueue, TryEnqueue, Take, Read,
         Claim, Load, Perform, PublishNested, Save, SaveFailure, FinishSucceeded,
         FinishFailed, DatabaseError, WorkerCrash, LockLapse, RetryWrite, RetryEnqueue,
         SweepRead, SweepEnqueue, SwitchRule, EditRule, vars
<1>5. env'.edits = env.edits /\ env'.actions = env.actions
  BY <1>1, <1>4 DEF Fault, RetryRead, EnvOK, EnvironmentRecords
<1> QED
  BY <1>3, <1>5

\* What one worker changes: itself, and the row of its run.
LEMMA OneWorkerActs ==
    ASSUME IInv, NEW w \in Workers,
           Acts(w)
    PROVE  /\ \A y \in Workers \ {w} : worker'[y] = worker[y]
           /\ \A x \in Runs : x # Target(w) => run'[x] = run[x]
           /\ worker[w].at = "idle" => UNCHANGED run
<1>1. WorkersOK /\ RowsOK
  BY DEF IInv, TypeOK
<1>2. \A y \in Workers \ {w} : worker'[y] = worker[y]
  BY <1>1 DEF Handle, Take, Read, Claim, Load, Perform, PublishNested, Save, SaveFailure,
              FinishSucceeded, FinishFailed, DatabaseError, WorkerCrash, LockLapse, Return,
              Throw, Goto, Raise, WorkersOK
<1>3. /\ \A x \in Runs : x # Target(w) => run'[x] = run[x]
      /\ worker[w].at = "idle" => UNCHANGED run
  BY <1>1 DEF Handle, Take, Read, Claim, Load, Perform, PublishNested, Save, SaveFailure,
              FinishSucceeded, FinishFailed, DatabaseError, WorkerCrash, LockLapse,
              Finished, RowsOK
<1> QED
  BY <1>2, <1>3

\* A worker that ends, or that goes on without a new list of results.
LEMMA NextStepOf ==
    ASSUME IInv, NEW w \in Workers
    PROVE  /\ Return(w) \/ Throw(w) \/ WorkerCrash(w) => worker'[w] = Idle
           /\ \A step : Goto(w, step) \/ (\E t \in BOOLEAN : Raise(w, step, t)) =>
                 /\ worker'[w].at = step /\ worker'[w].results = worker[w].results
                 /\ worker'[w].actions = worker[w].actions
                 /\ worker'[w].attempt = worker[w].attempt
                 /\ worker'[w].job = worker[w].job
                 /\ Remaining(w)' = Remaining(w) /\ Current(w)' = Current(w)
                 /\ UNCHANGED jobs /\ Target(w)' = Target(w)
<1>1. WorkersOK
  BY DEF IInv, TypeOK
<1>2. ASSUME NEW step, Goto(w, step) \/ (\E t \in BOOLEAN : Raise(w, step, t))
      PROVE  /\ worker'[w].at = step /\ worker'[w].results = worker[w].results
             /\ worker'[w].actions = worker[w].actions /\ worker'[w].job = worker[w].job
             /\ worker'[w].target = worker[w].target
             /\ worker'[w].attempt = worker[w].attempt
             /\ UNCHANGED jobs
  BY <1>1, <1>2 DEF Goto, Raise, WorkersOK, WorkerRecords
<1>3. ASSUME NEW step, Goto(w, step) \/ (\E t \in BOOLEAN : Raise(w, step, t))
      PROVE  /\ Remaining(w)' = Remaining(w) /\ Current(w)' = Current(w)
             /\ Target(w)' = Target(w)
  <2>1. Remaining(w)' = Remaining(w)
    BY <1>2, <1>3 DEF Remaining
  <2> QED
    BY <1>2, <1>3, <2>1 DEF Current, Target
<1>4. Return(w) \/ Throw(w) \/ WorkerCrash(w) => worker'[w] = Idle
  BY <1>1 DEF Return, Throw, WorkerCrash, WorkersOK
<1> QED
  BY <1>2, <1>3, <1>4

\* The handler of one worker keeps successes true: what it saves it performed.
LEMMA HandlerSuccess ==
    ASSUME IInv, IInv', AtAnAction, SuccessWasMade, [Next]_vars, NEW w \in Workers, Handle(w),
           NEW t \in Runs, t = Target(w)
    PROVE  /\ \A i \in Indexes : run'[t].results[i] = "SUCCEEDED" => made'[t][i] > 0
           /\ Performing(w)' =>
                 /\ Target(w)' = t
                 /\ \A i \in Indexes : worker'[w].results[i] = "SUCCEEDED" => made'[t][i] > 0
           /\ worker'[w].at \in {"publish", "save"} => made'[t][Current(w)'] > 0
<1>1. WorkersOK /\ RowsOK /\ LogsOK /\ LogsOK'
  BY DEF IInv, TypeOK
<1>2. \A i \in Indexes : made[t][i] > 0 => made'[t][i] > 0
  BY MadeGrows
<1>3. \A i \in Indexes : run[t].results[i] = "SUCCEEDED" => made'[t][i] > 0
  BY <1>2 DEF SuccessWasMade
<1>4. Performing(w) =>
          \A i \in Indexes : worker[w].results[i] = "SUCCEEDED" => made'[t][i] > 0
  BY <1>2 DEF SuccessWasMade
<1>5. Idle.at = "idle"
  BY DEF Idle
<1>6. CASE Read(w) \/ Claim(w) \/ DatabaseError(w)
  <2>1. run'[t].results = run[t].results
    BY <1>1, <1>6 DEF Read, Claim, DatabaseError, RowsOK, RunRecords
  <2>2. worker'[w].at \in {"idle", "claim", "load"}
    <3>1. CASE Return(w) \/ Throw(w)
      BY <1>5, <3>1, NextStepOf
    <3>2. CASE ~(Return(w) \/ Throw(w))
      BY <1>1, <1>6, <3>2 DEF Read, Claim, DatabaseError, Goto, WorkersOK, WorkerRecords
    <3> QED
      BY <3>1, <3>2
  <2> QED
    BY <1>3, <2>1, <2>2 DEF Performing
<1>7. CASE Load(w)
  <2>1. run'[t].results = run[t].results
    BY <1>1, <1>7 DEF Load, Finished, RowsOK, RunRecords
  <2>2. CASE Return(w)
    BY <1>3, <1>5, <2>1, <2>2, NextStepOf DEF Performing
  <2>3. CASE ~Return(w)
    <3>1. /\ worker'[w].at = "perform" /\ worker'[w].results = run[t].results
          /\ worker'[w].target = worker[w].target
      <4>1. /\ worker' = [worker EXCEPT ![w].at = "perform", ![w].attempt = run[t].attempt,
                                        ![w].actions = rule[t[1]].actions,
                                        ![w].results = run[t].results]
            /\ UNCHANGED jobs
        BY <1>7, <2>3 DEF Load
      <4> QED
        BY <1>1, <4>1 DEF WorkersOK, WorkerRecords
    <3> QED
      BY <1>3, <2>1, <3>1 DEF Target
  <2> QED
    BY <2>2, <2>3
<1>8. CASE Perform(w)
  <2>1. Performing(w) /\ UNCHANGED run /\ Remaining(w) # {}
    BY <1>8 DEF Perform, Performing
  <2>2. PICK c \in Indexes : c = Current(w)
    BY <2>1, CurrentIsIndex
  <2>3. CASE Goto(w, "publish") \/ Goto(w, "save")
    <3>1. made' = [made EXCEPT ![t][c] = @ + 1]
      <4>1. ASSUME NEW tr \in BOOLEAN, Raise(w, "reject", tr) PROVE FALSE
        <5>1. worker'[w].at = "reject"
          BY <4>1, NextStepOf
        <5>2. worker'[w].at \in {"publish", "save"}
          BY <2>3, NextStepOf
        <5> QED
          BY <5>1, <5>2
      <4> QED
        BY <1>8, <2>2, <4>1 DEF Perform
    <3>2. made'[t][c] > 0
      BY <1>1, <3>1 DEF LogsOK
    <3>3. /\ worker'[w].results = worker[w].results /\ Current(w)' = c
          /\ Target(w)' = t
      BY <2>2, <2>3, NextStepOf
    <3> QED
      BY <1>3, <1>4, <2>1, <3>2, <3>3
  <2>4. CASE \E tr \in BOOLEAN : Raise(w, "reject", tr)
    <3>1. /\ worker'[w].results = worker[w].results /\ worker'[w].at = "reject"
          /\ Target(w)' = t
      BY <2>4, NextStepOf
    <3> QED
      BY <1>3, <1>4, <2>1, <3>1
  <2> QED
    BY <1>8, <2>3, <2>4 DEF Perform
<1>9. CASE PublishNested(w)
  <2>1. Performing(w) /\ UNCHANGED run /\ Remaining(w) # {} /\ worker[w].at = "publish"
    BY <1>9 DEF PublishNested, Performing, AtAnAction
  <2>2. Goto(w, "save") \/ \E tr \in BOOLEAN : Raise(w, "reject", tr)
    BY <1>9 DEF PublishNested
  <2>3. PICK c \in Indexes : c = Current(w)
    BY <2>1, CurrentIsIndex
  <2>4. /\ worker'[w].results = worker[w].results /\ Current(w)' = c
        /\ Target(w)' = t
    BY <2>2, <2>3, NextStepOf
  <2>5. made'[t][c] > 0
    BY <1>2, <2>1, <2>3 DEF SuccessWasMade
  <2> QED
    BY <1>3, <1>4, <2>1, <2>4, <2>5
<1>10. CASE Save(w) \/ SaveFailure(w)
  <2>1. Performing(w) /\ Remaining(w) # {} /\ worker[w].at \in {"save", "reject"}
    BY <1>10 DEF Save, SaveFailure, Performing, AtAnAction
  <2>2. PICK c \in Indexes : c = Current(w)
    BY <2>1, CurrentIsIndex
  <2>3. CASE UNCHANGED run /\ \E step \in {"reject", "fail"} : Raise(w, step, TRUE)
    <3>1. /\ worker'[w].results = worker[w].results /\ worker'[w].at \in {"reject", "fail"}
          /\ Target(w)' = t
      BY <2>3, NextStepOf
    <3> QED
      BY <1>3, <1>4, <2>1, <2>3, <3>1
  <2>4. CASE \E result \in {"SUCCEEDED", "FAILED"}, step \in {"perform", "fail"} :
                /\ run' = [run EXCEPT ![t].results = With(w, result)]
                /\ worker' = [worker EXCEPT ![w].results = With(w, result), ![w].at = step]
                /\ UNCHANGED jobs
                /\ result = "SUCCEEDED" => worker[w].at = "save"
    <3>1. PICK result \in {"SUCCEEDED", "FAILED"}, step \in {"perform", "fail"} :
                /\ run' = [run EXCEPT ![t].results = With(w, result)]
                /\ worker' = [worker EXCEPT ![w].results = With(w, result), ![w].at = step]
                /\ UNCHANGED jobs
                /\ result = "SUCCEEDED" => worker[w].at = "save"
      BY <2>4
    <3>2. PICK new : new = With(w, result)
      OBVIOUS
    <3>3. new = [worker[w].results EXCEPT ![c] = result]
      BY <2>2, <3>2 DEF With
    <3>4. \A i \in Indexes : new[i] = "SUCCEEDED" => made'[t][i] > 0
      <4>1. result = "SUCCEEDED" => made'[t][c] > 0
        BY <1>2, <2>2, <3>1 DEF SuccessWasMade
      <4>2. DOMAIN worker[w].results = Indexes
        BY <1>1 DEF WorkersOK, WorkerRecords, Results
      <4> QED
        BY <1>4, <2>1, <3>3, <4>1, <4>2
    <3>5. run'[t].results = new
      BY <1>1, <3>1, <3>2 DEF RowsOK, RunRecords
    <3>6. /\ worker'[w].results = new /\ worker'[w].at = step
          /\ worker'[w].target = worker[w].target
      BY <1>1, <3>1, <3>2 DEF WorkersOK, WorkerRecords
    <3>7. Target(w)' = t
      BY <3>1, <3>6 DEF Target
    <3> QED
      BY <3>4, <3>5, <3>6, <3>7
  <2> QED
    BY <1>10, <2>3, <2>4 DEF Save, SaveFailure
<1>11. CASE FinishSucceeded(w) \/ FinishFailed(w)
  <2>1. run'[t].results = run[t].results
    BY <1>1, <1>11 DEF FinishSucceeded, FinishFailed, Finished, RowsOK, RunRecords
  <2>2. CASE Return(w) \/ Throw(w)
    BY <1>3, <1>5, <2>1, <2>2, NextStepOf DEF Performing
  <2>3. CASE Raise(w, "fail", TRUE) /\ worker[w].at = "perform"
    <3>1. /\ worker'[w].results = worker[w].results /\ worker'[w].at = "fail"
          /\ Target(w)' = t
      BY <2>3, NextStepOf
    <3> QED
      BY <1>3, <1>4, <2>1, <2>3, <3>1 DEF Performing
  <2> QED
    BY <1>11, <2>2, <2>3 DEF FinishSucceeded, FinishFailed
<1> QED
  BY <1>6, <1>7, <1>8, <1>9, <1>10, <1>11 DEF Handle

\* Steps that no worker takes.
LEMMA NobodyActs ==
    ASSUME IInv, [Next]_vars,
           ~\E w \in Workers : Acts(w)
    PROVE  /\ UNCHANGED <<worker, made>>
           /\ \A x \in Runs : /\ run'[x].results = run[x].results
                              /\ run'[x].attempt = run[x].attempt
                              /\ run'[x].retryable = run[x].retryable
                              /\ run'[x].status \in {run[x].status, "PENDING"}
<1>1. RowsOK /\ CallsHaveRuns
  BY DEF IInv, TypeOK
<1>2. UNCHANGED <<worker, made>>
  BY DEF Next, PublishRead, PublishUpsert, PublishEnqueue, RetryRead, RetryWrite,
         RetryEnqueue, SweepRead, SweepEnqueue, SwitchRule, EditRule, vars
<1>3. \/ UNCHANGED run
      \/ \E x \in Runs : \E status \in {run[x].status, "PENDING"} :
             run' = [run EXCEPT ![x].status = status]
  <2>1. ASSUME NEW e \in Events, NEW r \in Rules, PublishUpsert(e, r)
        PROVE  \E x \in Runs : \E status \in {run[x].status, "PENDING"} :
                   run' = [run EXCEPT ![x].status = status]
    <3>1. <<r, e>> \in Runs
      BY DEF Runs
    <3> QED
      BY <2>1, <3>1 DEF PublishUpsert
  <2>2. ASSUME NEW a \in Admins, RetryWrite(a)
        PROVE  \E x \in Runs : \E status \in {run[x].status, "PENDING"} :
                   run' = [run EXCEPT ![x].status = status]
    BY <1>1, <2>2 DEF RetryWrite, CallsHaveRuns
  <2> QED
    BY <2>1, <2>2 DEF Next, PublishRead, PublishEnqueue, RetryRead,
         RetryEnqueue, SweepRead, SweepEnqueue, SwitchRule, EditRule, vars
<1>4. \A x \in Runs : /\ run'[x].results = run[x].results
                      /\ run'[x].attempt = run[x].attempt
                      /\ run'[x].retryable = run[x].retryable
                      /\ run'[x].status \in {run[x].status, "PENDING"}
  BY <1>1, <1>3 DEF RowsOK, RunRecords
<1> QED
  BY <1>2, <1>4

\* Every step keeps successes true.
LEMMA SuccessWasMadeKept ==
    ASSUME IInv, IInv', TargetsKept, AtAnAction, SuccessWasMade, [Next]_vars
    PROVE  SuccessWasMade'
<1>1. \A x \in Runs, i \in Indexes : made[x][i] > 0 => made'[x][i] > 0
  BY MadeGrows
<1>2. ASSUME NEW y \in Workers, worker'[y] = worker[y]
      PROVE  /\ Performing(y)' =>
                   \A i \in Indexes : worker'[y].results[i] = "SUCCEEDED"
                                         => made'[Target(y)'][i] > 0
             /\ worker'[y].at \in {"publish", "save"} => made'[Target(y)'][Current(y)'] > 0
  <2>1. /\ Performing(y)' = Performing(y) /\ Current(y)' = Current(y)
        /\ Performing(y) => worker[y].at # "idle"
    BY <1>2 DEF Performing, Current, Remaining
  <2>2. Performing(y) => Target(y) \in Runs /\ Target(y)' = Target(y)
    BY <1>2, <2>1, TargetIsRun DEF TargetsKept
  <2>3. worker[y].at \in {"publish", "save"} => Performing(y) /\ Current(y) \in Indexes
    BY CurrentIsIndex DEF AtAnAction, Performing
  <2>4. ASSUME Performing(y), NEW i \in Indexes, worker[y].results[i] = "SUCCEEDED"
        PROVE  made'[Target(y)'][i] > 0
    BY <1>1, <2>2, <2>4 DEF SuccessWasMade
  <2>5. ASSUME worker[y].at \in {"publish", "save"}
        PROVE  made'[Target(y)'][Current(y)'] > 0
    BY <1>1, <2>1, <2>2, <2>3, <2>5 DEF SuccessWasMade
  <2> QED
    BY <1>2, <2>1, <2>4, <2>5
<1>3. ASSUME NEW w \in Workers, Handle(w) PROVE SuccessWasMade'
  <2>1. worker[w].at # "idle"
    BY <1>3 DEF Handle, Read, Claim, Load, Perform, PublishNested, Save, SaveFailure,
                FinishSucceeded, FinishFailed, DatabaseError
  <2>2. PICK t \in Runs : t = Target(w)
    BY <2>1, TargetIsRun
  <2>3. /\ \A y \in Workers \ {w} : worker'[y] = worker[y]
        /\ \A x \in Runs : x # t => run'[x] = run[x]
    BY <1>3, <2>2, OneWorkerActs
  <2>4. /\ \A i \in Indexes : run'[t].results[i] = "SUCCEEDED" => made'[t][i] > 0
        /\ Performing(w)' =>
              /\ Target(w)' = t
              /\ \A i \in Indexes : worker'[w].results[i] = "SUCCEEDED" => made'[t][i] > 0
        /\ worker'[w].at \in {"publish", "save"} => made'[t][Current(w)'] > 0
    BY <1>3, <2>2, HandlerSuccess
  <2>5. \A x \in Runs, i \in Indexes :
            run'[x].results[i] = "SUCCEEDED" => made'[x][i] > 0
    BY <1>1, <2>3, <2>4 DEF SuccessWasMade
  <2>6. ASSUME NEW y \in Workers, Performing(y)', NEW i \in Indexes,
               worker'[y].results[i] = "SUCCEEDED"
        PROVE  made'[Target(y)'][i] > 0
    BY <1>2, <2>3, <2>4, <2>6
  <2>7. ASSUME NEW y \in Workers, worker'[y].at \in {"publish", "save"}
        PROVE  made'[Target(y)'][Current(y)'] > 0
    <3>1. Performing(y)'
      BY <2>7 DEF Performing
    <3> QED
      BY <1>2, <2>3, <2>4, <2>7, <3>1
  <2> QED
    BY <2>5, <2>6, <2>7 DEF SuccessWasMade
<1>4. ASSUME NEW w \in Workers, (\E j \in Jobs : Take(w, j)) \/ WorkerCrash(w)
      PROVE  SuccessWasMade'
  <2>1. UNCHANGED run /\ worker'[w].at \in {"idle", "read"}
    <3>1. Idle.at = "idle" /\ WorkersOK
      BY DEF Idle, IInv, TypeOK
    <3> QED
      BY <1>4, <3>1, NextStepOf, ZenonT(40) DEF Take, WorkerCrash, WorkersOK, Idle
  <2>2. \A y \in Workers \ {w} : worker'[y] = worker[y]
    BY <1>4, OneWorkerActs
  <2>3. \A x \in Runs, i \in Indexes :
            run'[x].results[i] = "SUCCEEDED" => made'[x][i] > 0
    BY <1>1, <2>1 DEF SuccessWasMade
  <2>4. ~Performing(w)' /\ worker'[w].at \notin {"publish", "save"}
    BY <2>1 DEF Performing
  <2> QED
    BY <1>2, <2>2, <2>3, <2>4 DEF SuccessWasMade
<1>5. CASE ~\E w \in Workers : Acts(w)
  <2>1. UNCHANGED worker /\ \A x \in Runs : run'[x].results = run[x].results
    BY <1>5, NobodyActs
  <2> QED
    BY <1>1, <1>2, <2>1 DEF SuccessWasMade
<1>6. ASSUME NEW w \in Workers, LockLapse(w) PROVE SuccessWasMade'
  <2>1. Performing(w)' = Performing(w)
    BY <1>6, LapseFrame DEF Performing
  <2> QED
    BY <1>1, <1>2, <1>6, <2>1, LapseFrame DEF SuccessWasMade
<1> QED
  BY <1>3, <1>4, <1>5, <1>6

\* Without edits rules keep their actions, and workers know no others.
LEMMA OneActionListKept ==
    ASSUME IInv, IInv', TargetsKept, OneActionList, [Next]_vars
    PROVE  OneActionList'
<1> SUFFICES ASSUME env'.edits = {}
             PROVE  /\ \A r \in Rules : rule'[r].actions = env'.actions
                    /\ \A w \in Workers : Performing(w)' => worker'[w].actions = env'.actions
  BY DEF OneActionList
<1>1. /\ env.edits = {} /\ env'.actions = env.actions
      /\ \A r \in Rules : rule[r].actions = env.actions
      /\ \A w \in Workers : Performing(w) => worker[w].actions = env.actions
  BY MadeGrows DEF OneActionList
<1>2. RowsOK /\ WorkersOK
  BY DEF IInv, TypeOK
<1>3. \A r \in Rules : rule'[r].actions = rule[r].actions
  <2>1. UNCHANGED rule \/ \E r \in Rules : SwitchRule(r)
    BY <1>1 DEF Next, Handle, PublishRead, PublishUpsert, PublishEnqueue, Take, Read, Claim,
         Load, Perform, PublishNested, Save, SaveFailure, FinishSucceeded, FinishFailed,
         DatabaseError, WorkerCrash, LockLapse, RetryRead, RetryWrite, RetryEnqueue,
         SweepRead, SweepEnqueue, EditRule, vars
  <2> QED
    BY <1>2, <2>1 DEF SwitchRule, RowsOK
<1>4. ASSUME NEW w \in Workers, Handle(w), Performing(w)'
      PROVE  worker'[w].actions = env.actions
  <2>1. Idle.at = "idle"
    BY DEF Idle
  <2>2. ~Return(w) /\ ~Throw(w)
    BY <1>4, <2>1, NextStepOf DEF Performing
  <2>3. CASE Load(w)
    <3>1. Target(w) \in Runs
      BY <2>3, TargetIsRun DEF Load
    <3>2. worker' = [worker EXCEPT ![w].at = "perform",
                                   ![w].attempt = run[Target(w)].attempt,
                                   ![w].actions = rule[Target(w)[1]].actions,
                                   ![w].results = run[Target(w)].results]
      BY <2>2, <2>3 DEF Load
    <3>3. worker'[w].actions = rule[Target(w)[1]].actions
      BY <1>2, <3>2 DEF WorkersOK, WorkerRecords
    <3>4. Target(w)[1] \in Rules
      BY <3>1 DEF Runs
    <3> QED
      BY <1>1, <3>3, <3>4
  <2>4. CASE Read(w) \/ Claim(w)
    <3>1. worker'[w].at \in {"claim", "load"}
      BY <1>2, <2>2, <2>4 DEF Read, Claim, Goto, WorkersOK, WorkerRecords
    <3> QED
      BY <1>4, <3>1 DEF Performing
  <2>5. CASE Save(w) \/ SaveFailure(w)
    <3>1. Performing(w)
      BY <2>5 DEF Performing, Save, SaveFailure
    <3>2. worker'[w].actions = worker[w].actions
      BY <1>2, <2>5 DEF Save, SaveFailure, Raise, WorkersOK, WorkerRecords
    <3> QED
      BY <1>1, <3>1, <3>2
  <2>6. CASE \/ Perform(w) \/ PublishNested(w) \/ FinishSucceeded(w) \/ FinishFailed(w)
             \/ DatabaseError(w)
    <3>1. /\ \E step : Goto(w, step) \/ \E t \in BOOLEAN : Raise(w, step, t)
          /\ worker[w].at \in {"perform", "publish", "fail"}
      BY <2>2, <2>6 DEF Perform, PublishNested, FinishSucceeded, FinishFailed, DatabaseError
    <3>2. worker'[w].actions = worker[w].actions
      BY <3>1, NextStepOf
    <3> QED
      BY <1>1, <3>1, <3>2 DEF Performing
  <2> QED
    BY <1>4, <2>3, <2>4, <2>5, <2>6 DEF Handle
<1>5. ASSUME NEW w \in Workers, Performing(w)', ~Handle(w)
      PROVE  worker'[w].actions = env.actions
  <2>1. worker'[w] = worker[w] \/ LockLapse(w)
    <3>1. ASSUME (\E j \in Jobs : Take(w, j)) \/ WorkerCrash(w) PROVE FALSE
      <4>1. worker'[w].at \in {"idle", "read"}
        <5>1. WorkerCrash(w) => worker'[w].at = "idle"
          BY NextStepOf DEF Idle
        <5>2. (\E j \in Jobs : Take(w, j)) => worker'[w].at = "read"
          BY <1>2 DEF Take, WorkersOK, Idle
        <5> QED
          BY <3>1, <5>1, <5>2
      <4> QED
        BY <1>5, <4>1 DEF Performing
    <3>2. ASSUME NEW y \in Workers,
                 Acts(y)
          PROVE  worker'[w] = worker[w] \/ LockLapse(w)
      BY <1>5, <3>1, <3>2, OneWorkerActs
    <3> QED
      BY <3>2, NobodyActs
  <2>2. worker'[w].at = worker[w].at /\ worker'[w].actions = worker[w].actions
    BY <2>1, LapseFrame
  <2> QED
    BY <1>1, <1>5, <2>2 DEF Performing
<1> QED
  BY <1>1, <1>3, <1>4, <1>5

\* SUCCEEDED is written where no action remains.
LEMMA SucceededRows ==
    ASSUME IInv, IInv', [Next]_vars, NEW x \in Runs, run'[x].status = "SUCCEEDED",
           run[x].status # "SUCCEEDED"
    PROVE  \E w \in Workers : /\ Performing(w) /\ Remaining(w) = {} /\ Target(w) = x
<1>1. RowsOK
  BY DEF IInv, TypeOK
<1>2. PICK w \in Workers : Acts(w)
  BY NobodyActs
<1>3. x = Target(w) /\ worker[w].at # "idle"
  BY <1>2, OneWorkerActs
<1>4. Handle(w)
  BY <1>2, <1>3 DEF Take, WorkerCrash, LockLapse
<1>5. ~Read(w) /\ ~Perform(w) /\ ~PublishNested(w) /\ ~DatabaseError(w)
  BY DEF Read, Perform, PublishNested, DatabaseError
<1>6. ~Claim(w) /\ ~Save(w) /\ ~SaveFailure(w)
  <2>1. ~Claim(w)
    BY <1>1, <1>3 DEF Claim, RowsOK, RunRecords
  <2>2. ASSUME NEW list, run' = [run EXCEPT ![x].results = list] PROVE FALSE
    BY <1>1, <2>2 DEF RowsOK, RunRecords
  <2> QED
    BY <1>3, <2>1, <2>2 DEF Save, SaveFailure
<1>7. ~Load(w) /\ ~FinishFailed(w)
  BY <1>1 DEF Load, FinishFailed, Finished, RowsOK, RunRecords
<1>8. FinishSucceeded(w)
  BY <1>4, <1>5, <1>6, <1>7 DEF Handle
<1> QED
  BY <1>3, <1>8 DEF FinishSucceeded, Performing

\* SUCCEEDED keeps its meaning.
LEMMA SucceededKept ==
    ASSUME IInv, IInv', SuccessWasMade, OneActionList, SucceededPerformedAll, [Next]_vars
    PROVE  SucceededPerformedAll'
<1> SUFFICES ASSUME NEW x \in Runs, env'.edits = {}, run'[x].status = "SUCCEEDED",
                    NEW i \in DOMAIN env'.actions
             PROVE  made'[x][i] > 0
  BY DEF SucceededPerformedAll
<1>1. /\ env.edits = {} /\ env'.actions = env.actions /\ i \in DOMAIN env.actions
      /\ \A y \in Runs, n \in Indexes : made[y][n] > 0 => made'[y][n] > 0
  BY MadeGrows
<1>2. i \in Indexes
  BY <1>1, ListsFit DEF IInv, TypeOK, EnvOK, EnvironmentRecords
<1>3. CASE run[x].status = "SUCCEEDED"
  BY <1>1, <1>2, <1>3 DEF SucceededPerformedAll
<1>4. CASE run[x].status # "SUCCEEDED"
  <2>1. PICK w \in Workers : Performing(w) /\ Remaining(w) = {} /\ Target(w) = x
    BY <1>4, SucceededRows
  <2>2. worker[w].actions = env.actions
    BY <1>1, <2>1 DEF OneActionList
  <2>3. worker[w].results[i] = "SUCCEEDED"
    BY <1>1, <2>1, <2>2 DEF Remaining
  <2> QED
    BY <1>1, <1>2, <2>1, <2>3 DEF SuccessWasMade
<1> QED
  BY <1>3, <1>4

SInv == RInv /\ SuccessWasMade /\ OneActionList /\ SucceededPerformedAll

LEMMA InitSInv == Init => SInv
<1> SUFFICES ASSUME Init PROVE SInv
  OBVIOUS
<1>1. \A w \in Workers : worker[w].at = "idle"
  BY DEF Init, Idle
<1>2. \A x \in Runs : /\ run[x].status = "absent" /\ run[x].results = Unfinished
  BY DEF Init
<1>3. SuccessWasMade
  BY <1>1, <1>2 DEF SuccessWasMade, Performing, Unfinished
<1>4. OneActionList
  BY <1>1 DEF OneActionList, Performing, Init
<1>5. SucceededPerformedAll
  BY <1>2 DEF SucceededPerformedAll
<1> QED
  BY <1>3, <1>4, <1>5, InitRInv DEF SInv

LEMMA NextSInv == SInv /\ [Next]_vars => SInv'
<1> SUFFICES ASSUME SInv, [Next]_vars PROVE SInv'
  OBVIOUS
<1>1. RInv' /\ IInv /\ IInv' /\ TargetsKept /\ AtAnAction
  BY NextRInv, NextIInv DEF SInv, RInv
<1> QED
  BY <1>1, SuccessWasMadeKept, OneActionListKept, SucceededKept DEF SInv

\* Where rules are not edited, a run that says SUCCEEDED has performed every
\* action of its rule, whatever failed and over however many attempts.
THEOREM SucceededMeansPerformed == Spec => []SucceededPerformedAll
<1>1. SInv => SucceededPerformedAll
  BY DEF SInv
<1> QED
  BY <1>1, InitSInv, NextSInv, PTL DEF Spec

-----------------------------------------------------------------------------
(* Retries of transient failures *)

\* The job that w holds, if it still holds one, was thrown less than n times.
ThrownLess(w, n) == worker[w].job # NoJob => jobs[worker[w].job].made < n

\* Every run of a job that was thrown took a fault, and so did the transient
\* error that is about to be thrown.
FaultsCover ==
    /\ \A j \in Jobs : Live(jobs[j]) => jobs[j].made <= env.faults
    /\ \A w \in Workers :
          worker[w].at \in {"reject", "fail"} /\ worker[w].transient
              => ThrownLess(w, env.faults)

\* Without users' retries a worker knows the number of its attempt, and a run
\* that is left retryable has an attempt left.
AttemptsKnown ==
    env.maxRetries = 0 =>
        /\ \A w \in Workers : Performing(w) => worker[w].attempt = run[Target(w)].attempt
        /\ \A x \in Runs : run[x].status = "FAILED" /\ run[x].retryable
                              => run[x].attempt < MaxAttempts

\* The environment in which no job is lost.
Lossless ==
    /\ env.maxRetries = 0 /\ env.kinds \cap {"queue", "worker"} = {}
    /\ env.maxFaults < QueueAttempts

\* There no worker loses its lock.
LocksAreHeld ==
    Lossless => \A w \in Workers : worker[w].at # "idle" => worker[w].job # NoJob

\* The job is waiting, or its worker has not read the row of x or has read
\* what is there now.
Ahead(j, x) ==
    /\ Live(jobs[j]) /\ jobs[j].target = x
    /\ \/ jobs[j].state = "waiting"
       \/ \E w \in Workers :
             /\ worker[w].at # "idle" /\ worker[w].job = j
             /\ worker[w].at = "read" \/ (worker[w].at = "claim" /\ Unclaimed(w))

RetriesAreAhead ==
    Lossless =>
        \A x \in Runs : run[x].status = "FAILED" /\ run[x].retryable
                           => \E j \in Jobs : Ahead(j, x)

LInv == FaultsCover /\ AttemptsKnown /\ LocksAreHeld /\ RetriesAreAhead

\* The bounds of the environment stay, and faults are only added.
LEMMA EnvKept ==
    ASSUME IInv, [Next]_vars
    PROVE  /\ env'.maxRetries = env.maxRetries /\ env'.kinds = env.kinds
           /\ env'.maxFaults = env.maxFaults /\ env.maxFaults \in Nat
           /\ env.faults \in Nat /\ env'.faults \in Nat
           /\ env'.faults >= env.faults /\ env'.faults <= env.maxFaults
           /\ \A kind : Fault(kind) => env'.faults = env.faults + 1 /\ kind \in env.kinds
<1>1. EnvOK /\ EnvOK'
  BY NextIInv DEF IInv, TypeOK
<1>2. \/ UNCHANGED env
      \/ \E kind : Fault(kind)
      \/ \E a \in Admins, x \in Runs : RetryRead(a, x)
  BY DEF Next, Handle, PublishRead, PublishUpsert, PublishEnqueue, TryEnqueue, Take, Read,
         Claim, Load, Perform, PublishNested, Save, SaveFailure, FinishSucceeded,
         FinishFailed, DatabaseError, WorkerCrash, LockLapse, RetryWrite, RetryEnqueue,
         SweepRead, SweepEnqueue, SwitchRule, EditRule, vars
<1>3. /\ env'.maxRetries = env.maxRetries /\ env'.kinds = env.kinds
      /\ env'.maxFaults = env.maxFaults /\ env'.faults >= env.faults
  BY <1>1, <1>2 DEF Fault, RetryRead, EnvOK, EnvironmentRecords
<1>4. \A kind : Fault(kind) => env'.faults = env.faults + 1 /\ kind \in env.kinds
  BY <1>1 DEF Fault, EnvOK, EnvironmentRecords
<1> QED
  BY <1>1, <1>3, <1>4 DEF EnvOK, EnvironmentRecords

\* A handler in a step of its own: what becomes of its job, and where a
\* transient error comes from.
LEMMA HandlerFaults ==
    ASSUME IInv, [Next]_vars, FaultsCover, NEW w \in Workers,
           Handle(w) \/ WorkerCrash(w)
    PROVE  /\ \/ UNCHANGED jobs
              \/ Return(w)
              \/ Throw(w) /\ ThrownLess(w, env'.faults)
              \/ WorkerCrash(w)
           /\ worker'[w].at \in {"reject", "fail"} /\ worker'[w].transient =>
                 /\ UNCHANGED jobs /\ worker'[w].job = worker[w].job
                 /\ ThrownLess(w, env'.faults)
<1> DEFINE j == worker[w].job
<1>1. WorkersOK
  BY DEF IInv, TypeOK
<1>2. /\ env.faults \in Nat /\ env'.faults \in Nat /\ env'.faults >= env.faults
      /\ \A kind : Fault(kind) => env'.faults = env.faults + 1
  BY EnvKept
<1>3. worker[w].at # "idle"
  BY DEF Handle, Read, Claim, Load, Perform, PublishNested, Save, SaveFailure,
         FinishSucceeded, FinishFailed, DatabaseError, WorkerCrash
<1>4. j # NoJob => j \in Jobs /\ Live(jobs[j])
  BY HeldJob
<1>5. j # NoJob => jobs[j].made \in Nat /\ jobs[j].made <= env.faults
  BY <1>4, QueueAssumption
     DEF FaultsCover, IInv, JobsSound, GoodJob, Sound, JobRecords, QueueAssumption
<1>6. \A kind : Fault(kind) => ThrownLess(w, env'.faults)
  BY <1>2, <1>5 DEF ThrownLess
<1>7. worker[w].at \in {"reject", "fail"} /\ worker[w].transient => ThrownLess(w, env'.faults)
  BY <1>2, <1>5 DEF FaultsCover, ThrownLess
<1>8. Idle.at = "idle"
  BY DEF Idle
<1>9. ASSUME Return(w) \/ Throw(w) \/ WorkerCrash(w)
      PROVE  worker'[w].at = "idle"
  BY <1>8, <1>9, NextStepOf
<1>10. ASSUME NEW step, NEW t \in BOOLEAN, Raise(w, step, t)
       PROVE  /\ worker'[w].at = step /\ worker'[w].transient = t
              /\ worker'[w].job = j /\ UNCHANGED jobs
  BY <1>1, <1>10 DEF Raise, WorkersOK, WorkerRecords
<1>11. ASSUME NEW step, Goto(w, step)
       PROVE  worker'[w].at = step /\ UNCHANGED jobs
  BY <1>1, <1>11 DEF Goto, WorkersOK, WorkerRecords
<1>12. CASE Read(w) \/ Claim(w) \/ Load(w)
  <2>1. CASE Return(w)
    BY <1>9, <2>1
  <2>2. CASE ~Return(w)
    <3>1. UNCHANGED jobs
      BY <1>11, <1>12, <2>2 DEF Read, Claim, Load
    <3>2. worker'[w].at \in {"claim", "load", "perform"}
      <4>1. CASE Read(w)
        BY <1>1, <2>2, <4>1 DEF Read, WorkersOK, WorkerRecords
      <4>2. CASE Claim(w)
        BY <1>11, <2>2, <4>2 DEF Claim
      <4>3. CASE Load(w)
        <5>1. worker' = [worker EXCEPT ![w].at = "perform",
                                       ![w].attempt = run[Target(w)].attempt,
                                       ![w].actions = rule[Target(w)[1]].actions,
                                       ![w].results = run[Target(w)].results]
          BY <2>2, <4>3 DEF Load
        <5> QED
          BY <1>1, <5>1 DEF WorkersOK, WorkerRecords
      <4> QED
        BY <1>12, <4>1, <4>2, <4>3
    <3> QED
      BY <3>1, <3>2
  <2> QED
    BY <2>1, <2>2
<1>13. CASE Perform(w) \/ PublishNested(w)
  <2>1. CASE \E step \in {"publish", "save"} : Goto(w, step)
    BY <1>11, <2>1
  <2>2. CASE Raise(w, "reject", FALSE)
    BY <1>10, <2>2
  <2>3. CASE Raise(w, "reject", TRUE) /\ Fault("database")
    BY <1>6, <1>10, <2>3
  <2> QED
    BY <1>13, <2>1, <2>2, <2>3 DEF Perform, PublishNested
<1>14. CASE Save(w) \/ SaveFailure(w) \/ FinishSucceeded(w)
  <2>1. CASE \E step \in {"reject", "fail"} : Raise(w, step, TRUE) /\ Fault("database")
    BY <1>6, <1>10, <2>1
  <2>2. CASE Return(w)
    BY <1>9, <2>2
  <2>3. CASE /\ worker' = [worker EXCEPT ![w].results = With(w, "SUCCEEDED"),
                                         ![w].at = "perform"]
             /\ UNCHANGED jobs
    <3>1. worker'[w].at = "perform"
      BY <1>1, <2>3 DEF WorkersOK, WorkerRecords
    <3> QED
      BY <2>3, <3>1
  <2>4. CASE /\ worker' = [worker EXCEPT ![w].results = With(w, "FAILED"), ![w].at = "fail"]
             /\ UNCHANGED jobs /\ worker[w].at = "reject"
    <3>1. worker'[w].transient = worker[w].transient /\ worker'[w].job = j
      BY <1>1, <2>4 DEF WorkersOK, WorkerRecords
    <3> QED
      BY <1>7, <2>4, <3>1
  <2> QED
    BY <1>14, <2>1, <2>2, <2>3, <2>4 DEF Save, SaveFailure, FinishSucceeded
<1>15. CASE FinishFailed(w)
  <2>1. Return(w) \/ (Throw(w) /\ worker[w].at = "fail" /\ worker[w].transient)
    BY <1>15 DEF FinishFailed
  <2> QED
    BY <1>7, <1>9, <2>1
<1>16. CASE DatabaseError(w)
  <2>1. Throw(w) /\ Fault("database")
    BY <1>16 DEF DatabaseError
  <2> QED
    BY <1>6, <1>9, <2>1
<1>17. CASE WorkerCrash(w)
  BY <1>9, <1>17
<1> QED
  BY <1>12, <1>13, <1>14, <1>15, <1>16, <1>17 DEF Handle

\* Every thrown run of a job is covered by a fault.
LEMMA FaultsCoverKept ==
    ASSUME IInv, IInv', FaultsCover, [Next]_vars
    PROVE  FaultsCover'
<1>1. WorkersOK /\ QueueOK
  BY DEF IInv, TypeOK
<1>2. env.faults \in Nat /\ env'.faults \in Nat /\ env'.faults >= env.faults
  BY EnvKept
<1>3. \A j \in Jobs : jobs[j].made \in Nat
  BY <1>1, QueueAssumption DEF QueueOK, JobRecords, QueueAssumption
<1>4. ASSUME NEW j \in Jobs, jobs'[j] = jobs[j], Live(jobs'[j])
      PROVE  jobs'[j].made <= env'.faults
  BY <1>2, <1>3, <1>4 DEF FaultsCover
<1>5. ASSUME NEW w \in Workers, worker'[w] = worker[w],
             worker[w].job # NoJob => jobs'[worker[w].job] = jobs[worker[w].job],
             worker'[w].at \in {"reject", "fail"}, worker'[w].transient
      PROVE  ThrownLess(w, env.faults)'
  <2>1. worker[w].job # NoJob => worker[w].job \in Jobs
    BY HeldJob
  <2> QED
    BY <1>2, <1>3, <1>5, <2>1 DEF FaultsCover, ThrownLess
<1>6. ASSUME NEW w \in Workers, Handle(w) \/ WorkerCrash(w) \/ LockLapse(w) PROVE FaultsCover'
  <2> DEFINE own == worker[w].job
  <2>1. own # NoJob => own \in Jobs /\ jobs[own] \in JobRecords(JobTargets) /\ Live(jobs[own])
    BY HeldJob DEF Sound
  <2>2. /\ \/ UNCHANGED jobs
           \/ jobs' = Left(w, Returned(jobs[own]))
           \/ jobs' = Left(w, Thrown(jobs[own])) /\ ThrownLess(w, env'.faults)
           \/ jobs' = Left(w, Stalled(jobs[own]))
        /\ worker'[w].at \in {"reject", "fail"} /\ worker'[w].transient =>
              ThrownLess(w, env.faults)'
    <3>1. CASE LockLapse(w)
      <4>1. worker'[w].job = NoJob
        BY <3>1, LapseFrame
      <4> QED
        BY <3>1, <4>1 DEF LockLapse, ThrownLess
    <3>2. CASE Handle(w) \/ WorkerCrash(w)
      <4>1. /\ \/ UNCHANGED jobs
               \/ Return(w)
               \/ Throw(w) /\ ThrownLess(w, env'.faults)
               \/ WorkerCrash(w)
            /\ worker'[w].at \in {"reject", "fail"} /\ worker'[w].transient =>
                  /\ UNCHANGED jobs /\ worker'[w].job = own
                  /\ ThrownLess(w, env'.faults)
        BY <3>2, HandlerFaults
      <4> QED
        BY <4>1 DEF Return, Throw, WorkerCrash, ThrownLess
    <3> QED
      BY <1>6, <3>1, <3>2
  <2>3. ASSUME NEW j \in Jobs PROVE jobs'[j] = jobs[j] \/ (j = own /\ own # NoJob)
    BY <1>1, <2>2 DEF Left, QueueOK
  <2>4. \/ own # NoJob => jobs'[own] = jobs[own]
        \/ own # NoJob /\ (Live(jobs'[own]) => jobs'[own].made <= env'.faults)
    <3> SUFFICES ASSUME own # NoJob, jobs'[own] # jobs[own], Live(jobs'[own])
                 PROVE  jobs'[own].made <= env'.faults
      OBVIOUS
    <3>1. /\ own \in Jobs /\ jobs[own] \in JobRecords(JobTargets)
          /\ jobs[own].made \in Nat /\ jobs[own].made <= env.faults
      BY <1>3, <2>1 DEF FaultsCover
    <3> DEFINE old == jobs[own]
    <3>2. PICK job \in {Returned(old), Thrown(old), Stalled(old)} :
              /\ jobs' = Left(w, job)
              /\ job = Thrown(old) => ThrownLess(w, env'.faults) \/ job = Stalled(old)
                                         \/ job = Returned(old)
      BY <2>2
    <3>3. jobs'[own] = Released(job)
      BY <1>1, <3>1, <3>2 DEF Left, QueueOK
    <3>4. Live(job) /\ jobs'[own] = job
      BY <3>3 DEF Released, NoRecord, Live
    <3>5. ~Live(Returned(old))
      BY <3>1 DEF Returned, Live, JobRecords
    <3>6. Stalled(old).made = old.made /\ Thrown(old).made = old.made + 1
      BY <3>1 DEF Stalled, Thrown, JobRecords
    <3>7. CASE job = Stalled(old)
      BY <1>2, <3>1, <3>4, <3>6, <3>7
    <3>8. CASE job # Stalled(old)
      <4>1. job = Thrown(old) /\ ThrownLess(w, env'.faults)
        BY <3>2, <3>4, <3>5, <3>8
      <4>2. old.made < env'.faults
        BY <4>1 DEF ThrownLess
      <4> QED
        BY <1>2, <3>1, <3>4, <3>6, <4>1, <4>2
    <3> QED
      BY <3>7, <3>8
  <2>5. \A j \in Jobs : Live(jobs'[j]) => jobs'[j].made <= env'.faults
    BY <1>4, <2>3, <2>4
  <2>6. ASSUME NEW y \in Workers, worker'[y].at \in {"reject", "fail"}, worker'[y].transient
        PROVE  ThrownLess(y, env.faults)'
    <3>1. CASE y = w
      BY <2>2, <2>6, <3>1
    <3>2. CASE y # w
      <4>1. worker'[y] = worker[y]
        BY <1>6, <3>2, OneWorkerActs
      <4>2. worker[y].job # NoJob => worker[y].job \in Jobs /\ worker[y].job # own
        BY <3>2, HeldJob DEF IInv, BusyHasJob
      <4>3. worker[y].job # NoJob => jobs'[worker[y].job] = jobs[worker[y].job]
        BY <2>3, <4>2
      <4> QED
        BY <1>5, <2>6, <4>1, <4>3
    <3> QED
      BY <3>1, <3>2
  <2> QED
    BY <2>5, <2>6 DEF FaultsCover
<1>7. ASSUME NEW w \in Workers, NEW i \in Jobs, Take(w, i) PROVE FaultsCover'
  <2>1. /\ jobs[i].state = "waiting" /\ jobs'[i].made = jobs[i].made
        /\ \A j \in Jobs : j # i => jobs'[j] = jobs[j]
        /\ worker'[w].at = "read"
        /\ \A y \in Workers \ {w} : worker'[y] = worker[y]
    BY <1>1, <1>7 DEF Take, Started, QueueOK, WorkersOK, JobRecords, Idle
  <2>2. jobs[i].made <= env'.faults
    BY <1>2, <1>3, <2>1 DEF FaultsCover, Live
  <2>3. \A y \in Workers : worker[y].job # NoJob =>
            worker[y].job \in Jobs /\ worker[y].job # i
    BY <2>1, HeldJob
  <2> QED
    BY <1>4, <1>5, <2>1, <2>2, <2>3 DEF FaultsCover
<1>8. CASE ~\E w \in Workers : Acts(w)
  <2>1. UNCHANGED worker
    BY <1>8, NobodyActs
  <2>2. UNCHANGED jobs \/ \E x : Enqueue(x)
    BY <1>8 DEF Next, PublishRead, PublishUpsert, PublishEnqueue, TryEnqueue, RetryRead,
         RetryWrite, RetryEnqueue, SweepRead, SweepEnqueue, SwitchRule, EditRule, vars
  <2>3. \A j \in Jobs : \/ jobs'[j] = jobs[j]
                        \/ jobs[j].state = "none" /\ jobs'[j].made = 0
    <3>1. ASSUME NEW x, Enqueue(x)
          PROVE  \A j \in Jobs : \/ jobs'[j] = jobs[j]
                                 \/ jobs[j].state = "none" /\ jobs'[j].made = 0
      <4>1. PICK i \in Jobs :
                jobs[i].state = "none" /\ jobs' = [jobs EXCEPT ![i] = Added(jobs[i], x)]
        BY <3>1 DEF Enqueue
      <4> DEFINE new == Added(jobs[i], x)
      <4>2. new.made = 0
        BY <4>1 DEF Added
      <4> QED
        BY <1>1, <4>1, <4>2 DEF QueueOK
    <3> QED
      BY <2>2, <3>1
  <2>4. \A w \in Workers : worker[w].job # NoJob =>
            jobs'[worker[w].job] = jobs[worker[w].job]
    BY <2>3, HeldJob
  <2> QED
    BY <1>2, <1>4, <1>5, <2>1, <2>3, <2>4 DEF FaultsCover
<1> QED
  BY <1>6, <1>7, <1>8

\* What a handler does to the number of the attempt.
LEMMA HandlerAttempts ==
    ASSUME IInv, Claimed, AttemptsKnown, env.maxRetries = 0, NEW w \in Workers,
           Handle(w), NEW t, t = Target(w)
    PROVE  /\ Performing(w)' => /\ worker'[w].attempt = run'[t].attempt
                                /\ Target(w)' = t
           /\ run'[t].attempt = run[t].attempt \/ run[t].status # "PROCESSING"
           /\ run'[t].status = "FAILED" /\ run'[t].retryable => run'[t].attempt < MaxAttempts
<1>1. WorkersOK /\ RowsOK
  BY DEF IInv, TypeOK
<1>2. worker[w].at # "idle"
  BY DEF Handle, Read, Claim, Load, Perform, PublishNested, Save, SaveFailure,
         FinishSucceeded, FinishFailed, DatabaseError
<1>3. t \in Runs
  BY <1>2, TargetIsRun
<1>4. Working(w) => run[t].status = "PROCESSING"
  BY DEF Claimed
<1>5. Performing(w) => worker[w].attempt = run[t].attempt
  BY DEF AttemptsKnown
<1>6. run[t].status = "FAILED" /\ run[t].retryable => run[t].attempt < MaxAttempts
  BY <1>3 DEF AttemptsKnown
<1>7. Idle.at = "idle"
  BY DEF Idle
<1>8. Return(w) \/ Throw(w) => ~Performing(w)'
  BY <1>7, NextStepOf DEF Performing
<1>9. CASE Read(w) \/ DatabaseError(w)
  <2>1. UNCHANGED run
    BY <1>9 DEF Read, DatabaseError
  <2>2. ~Performing(w)'
    <3>1. CASE Return(w) \/ Throw(w)
      BY <1>8, <3>1
    <3>2. CASE ~(Return(w) \/ Throw(w))
      BY <1>1, <1>9, <3>2 DEF Read, DatabaseError, WorkersOK, WorkerRecords, Performing
    <3> QED
      BY <3>1, <3>2
  <2> QED
    BY <1>6, <2>1, <2>2
<1>10. CASE Claim(w)
  <2>1. ~Performing(w)'
    <3>1. Return(w) \/ Goto(w, "load")
      BY <1>10 DEF Claim
    <3>2. Goto(w, "load") => worker'[w].at = "load"
      BY NextStepOf
    <3> QED
      BY <1>8, <3>1, <3>2 DEF Performing
  <2>2. CASE Unclaimed(w)
    <3>1. run[t].status # "PROCESSING"
      BY <1>1, <2>2 DEF Unclaimed, WorkersOK, WorkerRecords
    <3>2. run'[t].status = "PROCESSING"
      BY <1>1, <1>3, <1>10, <2>2 DEF Claim, RowsOK, RunRecords
    <3> QED
      BY <2>1, <3>1, <3>2
  <2>3. CASE ~Unclaimed(w)
    BY <1>6, <1>10, <2>1, <2>3 DEF Claim
  <2> QED
    BY <2>2, <2>3
<1>11. CASE Load(w)
  <2>1. CASE \E status \in {"SKIPPED", "FAILED"} : Finished(t, status, FALSE) /\ Return(w)
    <3>1. run'[t].attempt = run[t].attempt /\ run'[t].retryable = FALSE
      BY <1>1, <1>3, <2>1 DEF Finished, RowsOK, RunRecords
    <3> QED
      BY <1>8, <2>1, <3>1
  <2>2. CASE /\ worker' = [worker EXCEPT ![w].at = "perform",
                                         ![w].attempt = run[t].attempt,
                                         ![w].actions = rule[t[1]].actions,
                                         ![w].results = run[t].results]
             /\ UNCHANGED <<run, jobs>>
    <3>1. worker'[w].attempt = run[t].attempt /\ worker'[w].target = worker[w].target
      BY <1>1, <2>2 DEF WorkersOK, WorkerRecords
    <3>2. Target(w)' = t
      BY <2>2, <3>1 DEF Target
    <3> QED
      BY <1>6, <2>2, <3>1, <3>2
  <2> QED
    BY <1>11, <2>1, <2>2 DEF Load
<1>12. CASE Perform(w) \/ PublishNested(w)
  <2>1. UNCHANGED run /\ Performing(w)
    BY <1>12 DEF Perform, PublishNested, Performing
  <2>2. \E step : Goto(w, step) \/ (\E tr \in BOOLEAN : Raise(w, step, tr))
    BY <1>12 DEF Perform, PublishNested
  <2>3. worker'[w].attempt = worker[w].attempt /\ Target(w)' = t
    BY <2>2, NextStepOf
  <2> QED
    BY <1>5, <1>6, <2>1, <2>3
<1>13. CASE Save(w) \/ SaveFailure(w)
  <2>1. Performing(w)
    BY <1>13 DEF Save, SaveFailure, Performing
  <2>2. CASE UNCHANGED run /\ \E step : Raise(w, step, TRUE)
    <3>1. worker'[w].attempt = worker[w].attempt /\ Target(w)' = t
      BY <2>2, NextStepOf
    <3> QED
      BY <1>5, <1>6, <2>1, <2>2, <3>1
  <2>3. CASE \E list, step :
                /\ run' = [run EXCEPT ![t].results = list]
                /\ worker' = [worker EXCEPT ![w].results = list, ![w].at = step]
                /\ UNCHANGED jobs
    <3>1. /\ run'[t].attempt = run[t].attempt /\ run'[t].status = run[t].status
          /\ worker'[w].attempt = worker[w].attempt
          /\ worker'[w].target = worker[w].target
      BY <1>1, <1>3, <2>3 DEF RowsOK, RunRecords, WorkersOK, WorkerRecords
    <3>2. Target(w)' = t
      BY <2>3, <3>1 DEF Target
    <3>3. run'[t].status # "FAILED"
      BY <1>4, <2>1, <3>1 DEF Working, Performing
    <3> QED
      BY <1>5, <2>1, <3>1, <3>2, <3>3
  <2> QED
    BY <1>13, <2>2, <2>3 DEF Save, SaveFailure
<1>14. CASE FinishSucceeded(w)
  <2>1. Performing(w)
    BY <1>14 DEF FinishSucceeded, Performing
  <2>2. CASE Finished(t, "SUCCEEDED", FALSE) /\ Return(w)
    <3>1. run'[t].attempt = run[t].attempt /\ run'[t].status = "SUCCEEDED"
      BY <1>1, <1>3, <2>2 DEF Finished, RowsOK, RunRecords
    <3> QED
      BY <1>8, <2>2, <3>1
  <2>3. CASE Raise(w, "fail", TRUE) /\ UNCHANGED run
    <3>1. worker'[w].attempt = worker[w].attempt /\ Target(w)' = t
      BY <2>3, NextStepOf
    <3> QED
      BY <1>5, <1>6, <2>1, <2>3, <3>1
  <2> QED
    BY <1>14, <2>2, <2>3 DEF FinishSucceeded
<1>15. CASE FinishFailed(w)
  <2>1. Performing(w)
    BY <1>15 DEF FinishFailed, Performing
  <2>2. PICK b : /\ b = (worker[w].transient /\ worker[w].attempt < MaxAttempts)
                 /\ Finished(t, "FAILED", b) /\ (Throw(w) \/ Return(w))
    BY <1>15 DEF FinishFailed
  <2>3. run'[t].attempt = run[t].attempt /\ run'[t].retryable = b
    BY <1>1, <1>3, <2>2 DEF Finished, RowsOK, RunRecords
  <2> QED
    BY <1>5, <1>8, <2>1, <2>2, <2>3
<1> QED
  BY <1>9, <1>10, <1>11, <1>12, <1>13, <1>14, <1>15 DEF Handle

\* Attempts stay known and bounded.
LEMMA AttemptsKnownKept ==
    ASSUME IInv, IInv', TargetsKept, Claimed, AttemptsKnown, [Next]_vars
    PROVE  AttemptsKnown'
<1> SUFFICES ASSUME env'.maxRetries = 0
             PROVE  /\ \A w \in Workers :
                          Performing(w)' => worker'[w].attempt = run'[Target(w)'].attempt
                    /\ \A x \in Runs : run'[x].status = "FAILED" /\ run'[x].retryable
                                          => run'[x].attempt < MaxAttempts
  BY DEF AttemptsKnown
<1>1. env.maxRetries = 0
  BY EnvKept
<1>2. ASSUME NEW y \in Workers, Performing(y)', worker'[y] = worker[y],
             run'[Target(y)].attempt = run[Target(y)].attempt
      PROVE  worker'[y].attempt = run'[Target(y)'].attempt
  <2>1. Performing(y) /\ worker[y].at # "idle"
    BY <1>2 DEF Performing
  <2>2. Target(y)' = Target(y)
    BY <1>2, <2>1 DEF TargetsKept
  <2> QED
    BY <1>1, <1>2, <2>1, <2>2 DEF AttemptsKnown
<1>3. ASSUME NEW x \in Runs, run'[x].attempt = run[x].attempt,
             run'[x].retryable = run[x].retryable,
             run'[x].status \in {run[x].status, "PENDING"},
             run'[x].status = "FAILED", run'[x].retryable
      PROVE  run'[x].attempt < MaxAttempts
  BY <1>1, <1>3 DEF AttemptsKnown
<1>4. CASE \E w \in Workers : Handle(w)
  <2>1. PICK w \in Workers : Handle(w)
    BY <1>4
  <2>2. PICK t : t = Target(w)
    OBVIOUS
  <2>3. /\ Performing(w)' => /\ worker'[w].attempt = run'[t].attempt
                             /\ Target(w)' = t
        /\ run'[t].attempt = run[t].attempt \/ run[t].status # "PROCESSING"
        /\ run'[t].status = "FAILED" /\ run'[t].retryable => run'[t].attempt < MaxAttempts
    BY <1>1, <2>1, <2>2, HandlerAttempts
  <2>4. /\ \A y \in Workers \ {w} : worker'[y] = worker[y]
        /\ \A x \in Runs : x # t => run'[x] = run[x]
    BY <2>1, <2>2, OneWorkerActs
  <2>5. ASSUME NEW y \in Workers \ {w}, Performing(y)'
        PROVE  worker'[y].attempt = run'[Target(y)'].attempt
    <3>1. worker'[y] = worker[y] /\ Performing(y) /\ Working(y) /\ worker[y].at # "idle"
      BY <2>4, <2>5 DEF Performing, Working
    <3>2. run[Target(y)].status = "PROCESSING" /\ Target(y) \in Runs
      BY <1>1, <3>1, TargetIsRun DEF Claimed
    <3>3. run'[Target(y)].attempt = run[Target(y)].attempt
      BY <2>3, <2>4, <3>2
    <3> QED
      BY <1>2, <2>5, <3>1, <3>3
  <2>6. ASSUME NEW x \in Runs, run'[x].status = "FAILED", run'[x].retryable
        PROVE  run'[x].attempt < MaxAttempts
    BY <1>3, <2>3, <2>4, <2>6
  <2> QED
    BY <2>3, <2>5, <2>6
<1>5. CASE \E w \in Workers : (\E j \in Jobs : Take(w, j)) \/ WorkerCrash(w)
  <2>1. PICK w \in Workers : (\E j \in Jobs : Take(w, j)) \/ WorkerCrash(w)
    BY <1>5
  <2>2. UNCHANGED run /\ ~Performing(w)'
    <3>1. Idle.at = "idle" /\ WorkersOK
      BY DEF Idle, IInv, TypeOK
    <3>2. WorkerCrash(w) => worker'[w].at = "idle"
      BY <3>1, NextStepOf
    <3>3. (\E j \in Jobs : Take(w, j)) => worker'[w].at = "read"
      BY <3>1 DEF Take, WorkersOK, Idle
    <3> QED
      BY <2>1, <3>2, <3>3 DEF Take, WorkerCrash, Performing
  <2>3. \A y \in Workers \ {w} : worker'[y] = worker[y]
    BY <2>1, OneWorkerActs
  <2> QED
    BY <1>2, <1>3, <2>2, <2>3
<1>6. CASE ~\E w \in Workers : Acts(w)
  <2>1. UNCHANGED worker /\ \A x \in Runs : /\ run'[x].attempt = run[x].attempt
                                            /\ run'[x].retryable = run[x].retryable
                                            /\ run'[x].status \in {run[x].status, "PENDING"}
    BY <1>6, NobodyActs
  <2>2. \A y \in Workers : Performing(y)' => Target(y) \in Runs
    BY <2>1, TargetIsRun DEF Performing
  <2> QED
    BY <1>2, <1>3, <2>1, <2>2
<1>7. ASSUME NEW w \in Workers, LockLapse(w) PROVE AttemptsKnown'
  <2>1. Performing(w)' = Performing(w)
    BY <1>7, LapseFrame DEF Performing
  <2> QED
    BY <1>2, <1>7, <2>1, LapseFrame DEF AttemptsKnown
<1> QED
  BY <1>4, <1>5, <1>6, <1>7 DEF AttemptsKnown

\* A job that no step touches goes on to take up its run.
LEMMA AheadStays ==
    ASSUME IInv, NEW j \in Jobs, NEW x \in Runs, Ahead(j, x), jobs'[j] = jobs[j],
           run'[x].status = run[x].status, run'[x].attempt = run[x].attempt,
           \A w \in Workers : worker[w].at # "idle" /\ worker[w].job = j
                                 => worker'[w] = worker[w]
    PROVE  Ahead(j, x)'
<1>1. CASE jobs[j].state = "waiting"
  BY <1>1 DEF Ahead, Live
<1>2. CASE jobs[j].state # "waiting"
  <2>1. PICK w \in Workers : /\ worker[w].at # "idle" /\ worker[w].job = j
                             /\ \/ worker[w].at = "read"
                                \/ worker[w].at = "claim" /\ Unclaimed(w)
    BY <1>2 DEF Ahead
  <2>2. worker'[w] = worker[w] /\ Target(w)' = Target(w) /\ Target(w) = x
    BY <2>1, AutomationAssumption, HeldJob DEF Ahead, Target, AutomationAssumption
  <2>3. Unclaimed(w) => Unclaimed(w)'
    BY <2>2 DEF Unclaimed
  <2> QED
    BY <2>1, <2>2, <2>3 DEF Ahead
<1> QED
  BY <1>1, <1>2

\* The handler that leaves its run FAILED and retryable, or fails before the
\* claim, throws with an attempt of the job left.
LEMMA HandlerAhead ==
    ASSUME IInv, [Next]_vars, Lossless, Claimed, FaultsCover, AttemptsKnown, LocksAreHeld,
           NEW w \in Workers, Handle(w), NEW t, t = Target(w), NEW j, j = worker[w].job,
           run'[t].status = "FAILED", run'[t].retryable,
           \/ run'[t] # run[t]
           \/ worker[w].at = "read"
           \/ worker[w].at = "claim" /\ Unclaimed(w)
    PROVE  Ahead(j, t)'
<1>1. RowsOK /\ WorkersOK /\ QueueOK
  BY DEF IInv, TypeOK
<1>2. worker[w].at # "idle"
  BY DEF Handle, Read, Claim, Load, Perform, PublishNested, Save, SaveFailure,
         FinishSucceeded, FinishFailed, DatabaseError
<1>3. /\ j \in Jobs /\ jobs[j].state = "active" /\ Live(jobs[j])
      /\ t \in Runs /\ jobs[j].target = t /\ Sound(jobs[j], JobTargets)
  BY <1>2, HeldJob DEF LocksAreHeld
<1>4. Working(w) => run[t].status = "PROCESSING"
  BY DEF Claimed, Lossless
<1>5. /\ env.faults \in Nat /\ env'.faults \in Nat /\ env'.faults >= env.faults
      /\ env'.faults < QueueAttempts
      /\ \A kind : Fault(kind) => env'.faults = env.faults + 1
  BY EnvKept, QueueAssumption DEF Lossless, QueueAssumption
<1>6. ASSUME Throw(w), jobs[j].made < env'.faults PROVE Ahead(j, t)'
  <2>1. jobs[j].made \in Nat /\ jobs[j].made + 1 < QueueAttempts
    BY <1>3, <1>5, <1>6, QueueAssumption DEF QueueAssumption, Sound, JobRecords
  <2>2. Thrown(jobs[j]).state = "waiting" /\ Thrown(jobs[j]).target = t
    BY <1>3, <2>1 DEF Thrown, Sound, JobRecords
  <2>3. jobs'[j] = Thrown(jobs[j])
    BY <1>1, <1>2, <1>3, <1>6, <2>2 DEF Throw, Left, Released, Live, QueueOK, LocksAreHeld
  <2> QED
    BY <2>2, <2>3 DEF Ahead, Live
<1>7. CASE Read(w)
  <2>1. UNCHANGED run
    BY <1>7 DEF Read
  <2>2. Claimable(t)
    BY <1>3, <2>1 DEF AttemptsKnown, Lossless, Claimable
  <2>3. /\ UNCHANGED jobs /\ worker'[w].at = "claim" /\ worker'[w].job = j
        /\ worker'[w].target = worker[w].target
        /\ worker'[w].status = run[t].status
        /\ worker'[w].attempt = run[t].attempt + 1
    BY <1>1, <1>7, <2>2 DEF Read, WorkersOK, WorkerRecords
  <2>4. run[t].attempt \in Nat
    BY <1>1, <1>3 DEF RowsOK, RunRecords
  <2>5. Target(w)' = t
    BY <1>3, <2>3 DEF Target
  <2>6. run'[t] = run[t] /\ (run[t].attempt + 1) - 1 = run[t].attempt
    BY <2>1, <2>4
  <2>7. Unclaimed(w)'
    BY <2>3, <2>5, <2>6 DEF Unclaimed
  <2> QED
    BY <1>3, <2>3, <2>7 DEF Ahead, Live
<1>8. ~Claim(w)
  <2>1. ASSUME Claim(w), Unclaimed(w) PROVE FALSE
    BY <1>1, <1>3, <2>1 DEF Claim, RowsOK, RunRecords
  <2>2. ASSUME Claim(w), ~Unclaimed(w) PROVE FALSE
    BY <2>2 DEF Claim
  <2> QED
    BY <2>1, <2>2
<1>9. ~Load(w) /\ ~FinishSucceeded(w)
  <2>1. ASSUME NEW status, Finished(t, status, FALSE) PROVE FALSE
    BY <1>1, <1>3, <2>1 DEF Finished, RowsOK, RunRecords
  <2> QED
    BY <2>1 DEF Load, FinishSucceeded
<1>10. ~Perform(w) /\ ~PublishNested(w)
  BY DEF Perform, PublishNested
<1>11. ~Save(w) /\ ~SaveFailure(w)
  <2>1. ASSUME Working(w), NEW list, run' = [run EXCEPT ![t].results = list] PROVE FALSE
    BY <1>1, <1>3, <1>4, <2>1 DEF RowsOK, RunRecords
  <2> QED
    BY <2>1 DEF Save, SaveFailure, Working
<1>12. CASE FinishFailed(w)
  <2>1. PICK b : /\ b = (worker[w].transient /\ worker[w].attempt < MaxAttempts)
                 /\ Finished(t, "FAILED", b) /\ (b => Throw(w)) /\ worker[w].at = "fail"
    BY <1>12 DEF FinishFailed
  <2>2. run'[t].retryable = b
    <3>1. ASSUME NEW v \in BOOLEAN, Finished(t, "FAILED", v) PROVE run'[t].retryable = v
      BY <1>1, <1>3, <3>1 DEF Finished, RowsOK, RunRecords
    <3>2. b \in BOOLEAN
      BY <2>1
    <3> QED
      BY <2>1, <3>1, <3>2
  <2>3. Throw(w) /\ worker[w].transient
    BY <2>1, <2>2
  <2>4. jobs[j].made < env.faults /\ jobs[j].made \in Nat
    BY <1>2, <1>3, <2>1, <2>3, QueueAssumption
       DEF FaultsCover, ThrownLess, LocksAreHeld, QueueAssumption, Sound, JobRecords
  <2> QED
    BY <1>5, <1>6, <2>3, <2>4
<1>13. CASE DatabaseError(w)
  <2>1. jobs[j].made <= env.faults /\ jobs[j].made \in Nat
    BY <1>3, QueueAssumption DEF FaultsCover, QueueAssumption, Sound, JobRecords
  <2>2. Throw(w) /\ env'.faults = env.faults + 1
    BY <1>5, <1>13 DEF DatabaseError
  <2> QED
    BY <1>5, <1>6, <2>1, <2>2
<1> QED
  BY <1>7, <1>8, <1>9, <1>10, <1>11, <1>12, <1>13 DEF Handle

\* A handler step in a lossless environment leaves every retryable run a job.
LEMMA HandlerRetries ==
    ASSUME IInv, [Next]_vars, Lossless, Claimed, FaultsCover, AttemptsKnown,
           LocksAreHeld, RetriesAreAhead, NEW w \in Workers, Handle(w), NEW x \in Runs,
           run'[x].status = "FAILED", run'[x].retryable
    PROVE  \E j \in Jobs : Ahead(j, x)'
<1> PICK own : own = worker[w].job
  OBVIOUS
<1>1. worker[w].at # "idle" /\ QueueOK
  BY DEF Handle, Read, Claim, Load, Perform, PublishNested, Save, SaveFailure,
         FinishSucceeded, FinishFailed, DatabaseError, IInv, TypeOK
<1>2. /\ own \in Jobs /\ jobs[own].state = "active"
      /\ \A y \in Workers \ {w} : worker[y].job # own
      /\ jobs[own].target = Target(w)
  BY <1>1, HeldJob DEF IInv, BusyHasJob, LocksAreHeld
<1>3. /\ \A y \in Workers \ {w} : worker'[y] = worker[y]
      /\ \A y \in Runs : y # Target(w) => run'[y] = run[y]
  BY OneWorkerActs
<1>4. \A i \in Jobs : i # own => jobs'[i] = jobs[i]
  <2>1. UNCHANGED jobs \/ Return(w) \/ Throw(w) \/ WorkerCrash(w)
    BY HandlerFaults
  <2> QED
    BY <1>1, <2>1 DEF Return, Throw, WorkerCrash, Left, QueueOK
<1>5. CASE run'[x] # run[x]
  <2>1. x = Target(w)
    BY <1>3, <1>5
  <2> QED
    BY <1>2, <1>5, <2>1, HandlerAhead
<1>6. CASE run'[x] = run[x]
  <2>1. PICK j \in Jobs : Ahead(j, x)
    BY <1>6 DEF RetriesAreAhead
  <2>2. CASE j # own
    <3>1. \A y \in Workers : worker[y].at # "idle" /\ worker[y].job = j
                                 => worker'[y] = worker[y]
      BY <1>3, <2>2
    <3> QED
      BY <1>4, <1>6, <2>1, <2>2, <3>1, AheadStays
  <2>3. CASE j = own
    <3>1. x = Target(w)
      BY <1>2, <2>1, <2>3 DEF Ahead
    <3>2. \/ worker[w].at = "read"
          \/ worker[w].at = "claim" /\ Unclaimed(w)
      BY <1>2, <2>1, <2>3 DEF Ahead
    <3> QED
      BY <1>2, <3>1, <3>2, HandlerAhead
  <2> QED
    BY <2>2, <2>3
<1> QED
  BY <1>5, <1>6

\* Without faults of workers no lock is lost.
LEMMA LocksAreHeldKept ==
    ASSUME IInv, LocksAreHeld, [Next]_vars
    PROVE  LocksAreHeld'
<1> SUFFICES ASSUME Lossless', NEW x \in Workers, worker'[x].at # "idle"
             PROVE  worker'[x].job # NoJob
  BY DEF LocksAreHeld
<1>1. Lossless /\ \A kind : Fault(kind) => kind \in env.kinds
  BY EnvKept DEF Lossless
<1>2. WorkersOK
  BY DEF IInv, TypeOK
<1>3. worker[x].at # "idle" => worker[x].job # NoJob
  BY <1>1 DEF LocksAreHeld
<1>4. CASE worker'[x] = worker[x]
  BY <1>3, <1>4
<1>5. CASE \E j \in Jobs : Take(x, j)
  BY <1>2, <1>5, AutomationAssumption DEF Take, WorkersOK, Idle, AutomationAssumption
<1>6. CASE Handle(x)
  <2>1. worker[x].at # "idle"
    BY <1>6 DEF Handle, Read, Claim, Load, Perform, PublishNested, Save, SaveFailure,
         FinishSucceeded, FinishFailed, DatabaseError
  <2>2. worker'[x].job = worker[x].job \/ worker'[x] = Idle
    <3>1. CASE Return(x) \/ Throw(x) \/ \E step : Goto(x, step)
                             \/ \E t \in BOOLEAN : Raise(x, step, t)
      BY <3>1, NextStepOf
    <3>2. CASE Load(x)
      <4>1. \/ Return(x)
            \/ worker' = [worker EXCEPT ![x].at = "perform",
                                        ![x].attempt = run[Target(x)].attempt,
                                        ![x].actions = rule[Target(x)[1]].actions,
                                        ![x].results = run[Target(x)].results]
        BY <3>2 DEF Load
      <4> QED
        BY <1>2, <3>1, <4>1 DEF WorkersOK, WorkerRecords
    <3>3. CASE Read(x)
      BY <1>2, <3>1, <3>3 DEF Read, WorkersOK, WorkerRecords
    <3>4. CASE Save(x) \/ SaveFailure(x)
      BY <1>2, <3>1, <3>4 DEF Save, SaveFailure, WorkersOK, WorkerRecords
    <3>5. CASE \/ Claim(x) \/ Perform(x) \/ PublishNested(x) \/ FinishSucceeded(x)
               \/ FinishFailed(x) \/ DatabaseError(x)
      BY <3>1, <3>5 DEF Claim, Perform, PublishNested, FinishSucceeded, FinishFailed,
                        DatabaseError
    <3> QED
      BY <1>6, <3>2, <3>3, <3>4, <3>5 DEF Handle
  <2> QED
    BY <1>3, <2>1, <2>2 DEF Idle
<1>7. ~WorkerCrash(x) /\ ~LockLapse(x)
  BY <1>1 DEF WorkerCrash, LockLapse, Lossless
<1>8. (\E j \in Jobs : Take(x, j)) \/ Handle(x) \/ worker'[x] = worker[x]
  <2>1. CASE \E y \in Workers : Acts(y)
    BY <1>7, <2>1, OneWorkerActs
  <2>2. CASE ~\E y \in Workers : Acts(y)
    BY <2>2, NobodyActs
  <2> QED
    BY <2>1, <2>2
<1> QED
  BY <1>4, <1>5, <1>6, <1>8

\* Every step leaves every retryable run a job.
LEMMA RetriesAreAheadKept ==
    ASSUME IInv, IInv', Claimed, LInv, [Next]_vars
    PROVE  RetriesAreAhead'
<1> SUFFICES ASSUME Lossless', NEW x \in Runs, run'[x].status = "FAILED", run'[x].retryable
             PROVE  \E j \in Jobs : Ahead(j, x)'
  BY DEF RetriesAreAhead
<1>1. Lossless /\ \A kind : Fault(kind) => kind \in env.kinds
  BY EnvKept DEF Lossless
<1>2. FaultsCover /\ AttemptsKnown /\ LocksAreHeld /\ RetriesAreAhead /\ WorkersOK /\ QueueOK
  BY DEF LInv, IInv, TypeOK
<1>3. CASE \E w \in Workers : Handle(w)
  BY <1>1, <1>2, <1>3, HandlerRetries
<1>4. ASSUME NEW w \in Workers, WorkerCrash(w) \/ LockLapse(w) PROVE FALSE
  BY <1>1, <1>4 DEF WorkerCrash, LockLapse, Lossless
<1>5. CASE \E w \in Workers : \E i \in Jobs : Take(w, i)
  <2>1. PICK w \in Workers, i \in Jobs : Take(w, i)
    BY <1>5
  <2>2. /\ UNCHANGED run /\ jobs[i].state = "waiting" /\ worker[w].at = "idle"
        /\ worker'[w].at = "read" /\ worker'[w].job = i
        /\ \A y \in Workers \ {w} : worker'[y] = worker[y]
        /\ \A k \in Jobs : k # i => jobs'[k] = jobs[k]
    BY <1>2, <2>1 DEF Take, WorkersOK, QueueOK, Idle
  <2>3. jobs'[i].target = jobs[i].target /\ jobs'[i].state = "active"
    BY <1>2, <2>1 DEF Take, Started, QueueOK, JobRecords
  <2>4. PICK j \in Jobs : Ahead(j, x)
    BY <1>1, <1>2, <2>2 DEF RetriesAreAhead
  <2>5. CASE j = i
    BY <2>2, <2>3, <2>4, <2>5 DEF Ahead, Live
  <2>6. CASE j # i
    <3>1. \A y \in Workers : worker[y].at # "idle" /\ worker[y].job = j
                                 => worker'[y] = worker[y]
      BY <2>2
    <3> QED
      BY <2>2, <2>4, <2>6, <3>1, AheadStays
  <2> QED
    BY <2>5, <2>6
<1>6. CASE ~\E w \in Workers : Acts(w)
  <2>1. UNCHANGED worker /\ run'[x].status \in {run[x].status, "PENDING"}
        /\ run'[x].retryable = run[x].retryable
    BY <1>6, NobodyActs
  <2>2. run[x].status = "FAILED" /\ run[x].retryable
    BY <2>1
  <2>3. PICK j \in Jobs : Ahead(j, x)
    BY <1>1, <1>2, <2>2 DEF RetriesAreAhead
  <2>4. UNCHANGED jobs \/ \E y : Enqueue(y)
    BY <1>6 DEF Next, PublishRead, PublishUpsert, PublishEnqueue, TryEnqueue, RetryRead,
         RetryWrite, RetryEnqueue, SweepRead, SweepEnqueue, SwitchRule, EditRule, vars
  <2>5. jobs'[j] = jobs[j]
    BY <1>2, <2>3, <2>4 DEF Enqueue, Ahead, Live, QueueOK
  <2>6. run'[x].status = run[x].status /\ run'[x].retryable = run[x].retryable
        /\ run'[x].attempt = run[x].attempt
    BY <1>6, <2>1, <2>2, NobodyActs
  <2> QED
    BY <2>1, <2>3, <2>5, <2>6, AheadStays
<1> QED
  BY <1>3, <1>4, <1>5, <1>6

LEMMA NextLInv == RInv /\ LInv /\ [Next]_vars => LInv'
<1> SUFFICES ASSUME RInv, LInv, [Next]_vars PROVE LInv'
  OBVIOUS
<1>1. IInv /\ IInv' /\ TargetsKept /\ Claimed
  BY NextIInv DEF RInv
<1> QED
  BY <1>1, FaultsCoverKept, AttemptsKnownKept, LocksAreHeldKept, RetriesAreAheadKept
     DEF LInv

\* Where no add to the queue and no worker fails, and the database fails less
\* often than a job has attempts, a run left FAILED and retryable has a job.
THEOREM RetryableRunsHaveJobs == Spec => []RetryableHasJob
<1>1. Init => LInv
  <2> SUFFICES ASSUME Init PROVE LInv
    OBVIOUS
  <2>1. FaultsCover
    BY DEF Init, FaultsCover, Idle, NoRecord, Live
  <2>2. AttemptsKnown
    BY DEF Init, AttemptsKnown, Performing, Idle
  <2>3. RetriesAreAhead
    BY DEF Init, RetriesAreAhead
  <2>4. LocksAreHeld
    BY DEF Init, LocksAreHeld, Idle
  <2> QED
    BY <2>1, <2>2, <2>3, <2>4 DEF LInv
<1>2. LInv => RetryableHasJob
  BY DEF LInv, RetriesAreAhead, Ahead, Lossless, RetryableHasJob
<1> QED
  BY <1>1, <1>2, NextLInv, InitRInv, NextRInv, PTL DEF Spec
=============================================================================
