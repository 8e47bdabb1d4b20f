------------------------ MODULE WebhookDeliveryProofs ------------------------
(***************************************************************************)
(* WebhookDelivery for every number of events, subscriptions, jobs,        *)
(* workers, users, retries and faults: the types, the match of jobs and    *)
(* workers, and what the claim guarantees about attempts.                  *)
(***************************************************************************)
EXTENDS WebhookDelivery, JobQueueProofs

JobTargets == Deliveries \cup {NoDelivery}

\* Every job record is sound, and a live one names a delivery.
JobsSound ==
    \A j \in Jobs : /\ Sound(jobs[j], JobTargets)
                    /\ Live(jobs[j]) => jobs[j].target \in Deliveries

\* A retry in progress is about a delivery.
AdminsHaveDeliveries ==
    \A a \in Admins : admin[a].at # "idle" => admin[a].delivery \in Deliveries

\* Nothing was sent under a number the row has not reached.
PostedWasIssued ==
    \A d \in Deliveries : BagToSet(posted[d]) \subseteq 1..delivery[d].attempt

\* What the claim guarantees.
ClaimsOK == OneWorkerPerAttempt /\ AttemptPostedOnce /\ PostedWasIssued

IInv == TypeOK /\ JobsSound /\ JobsMatchWorkers /\ AdminsHaveDeliveries /\ ClaimsOK

\* Nothing is stored and nobody is at work.
LEMMA InitIInv == Init => IInv
<1> SUFFICES ASSUME Init PROVE IInv
  OBVIOUS
<1>1. JobsSound
  BY NoRecordSound DEF Init, JobsSound, JobTargets, NoRecord, Live
<1>2. QueueOK
  BY <1>1 DEF Init, JobsSound, Sound, QueueOK, JobTargets
<1>3. IsABag(EmptyBag) /\ BagToSet(EmptyBag) = {}
  BY DEF IsABag, BagToSet, SetToBag, EmptyBag
<1>4. EnvOK
  BY WebhookAssumption DEF Init, WebhookAssumption, EnvironmentRecords, EnvOK
<1>5. EndpointsOK /\ RowsOK /\ WorkersOK /\ CallersOK /\ LogsOK
  BY <1>3 DEF Init, EndpointsOK, EndpointStates, RowsOK, Statuses, WorkersOK, CallersOK,
              LogsOK, Idle, Quiet, NoRetry
<1>6. AdminsHaveDeliveries
  BY DEF Init, AdminsHaveDeliveries, NoRetry
<1>7. JobsMatchWorkers
  BY <1>1 DEF Init, JobsMatchWorkers, JobsSound, Idle
<1>8. \A w \in Workers : worker[w].at = "idle"
  BY DEF Init, Idle
<1>9. ClaimsOK
  BY <1>3, <1>8 DEF Init, ClaimsOK, OneWorkerPerAttempt, AttemptPostedOnce, PostedWasIssued,
                    Claimed, ClaimedSteps
<1> QED
  BY <1>1, <1>2, <1>4, <1>5, <1>6, <1>7, <1>9 DEF IInv, TypeOK

-----------------------------------------------------------------------------
(* The queue's part of a step *)

\* Replacing a job record by a sound one keeps them all sound.
LEMMA OneJobReplaced ==
    ASSUME IInv, NEW j \in Jobs, NEW job, Sound(job, JobTargets),
           Live(job) => job.target \in Deliveries,
           jobs' = [jobs EXCEPT ![j] = job]
    PROVE  JobsSound' /\ QueueOK'
<1>1. QueueOK
  BY DEF IInv, TypeOK
<1>2. \A x \in Jobs : /\ Sound(jobs'[x], JobTargets)
                      /\ Live(jobs'[x]) => jobs'[x].target \in Deliveries
  BY <1>1 DEF IInv, JobsSound, QueueOK
<1>3. JobsSound'
  BY <1>2 DEF JobsSound
<1> QED
  BY <1>1, <1>3 DEF JobsSound, Sound, QueueOK, JobTargets

\* The records that a step leaves alone stay sound.
LEMMA JobsUntouched ==
    ASSUME IInv, UNCHANGED jobs
    PROVE  JobsSound' /\ QueueOK'
BY DEF IInv, TypeOK, QueueOK, JobsSound

\* An add takes a free slot: it never touches the record of an active job.
LEMMA EnqueueKeeps ==
    ASSUME IInv, NEW d \in Deliveries, Enqueue(d) \/ UNCHANGED jobs
    PROVE  /\ JobsSound' /\ QueueOK'
           /\ \A x \in Jobs : jobs[x].state = "active" => jobs'[x] = jobs[x]
<1>1. CASE UNCHANGED jobs
  BY <1>1, JobsUntouched
<1>2. CASE Enqueue(d)
  <2>1. PICK j \in Jobs : /\ jobs[j].state = "none"
                          /\ jobs' = [jobs EXCEPT ![j] = Added(jobs[j], d)]
    BY <1>2 DEF Enqueue
  <2>2. Sound(Added(jobs[j], d), JobTargets)
    BY AddedSound DEF IInv, JobsSound, JobTargets
  <2>3. Added(jobs[j], d).target = d
    BY <2>1 DEF Added
  <2>4. QueueOK
    BY DEF IInv, TypeOK
  <2>5. \A x \in Jobs : jobs[x].state = "active" => jobs'[x] = jobs[x]
    BY <2>1, <2>4 DEF QueueOK
  <2> QED
    BY <2>1, <2>2, <2>3, <2>5, OneJobReplaced
<1> QED
  BY <1>1, <1>2

\* Workers that keep their jobs, and jobs that stay active, still match.
LEMMA MatchKept ==
    ASSUME IInv, JobsSound',
           \A w \in Workers : /\ worker'[w].job = worker[w].job
                              /\ worker'[w].target = worker[w].target
                              /\ worker'[w].at # "idle" <=> worker[w].at # "idle",
           \A x \in Jobs : jobs[x].state = "active" => jobs'[x] = jobs[x]
    PROVE  /\ JobsMatchWorkers'
           /\ \A w \in Workers : Target(w)' = Target(w)
<1>1. \A w \in Workers : worker[w].job # NoJob => worker[w].job \in Jobs
  BY DEF IInv, TypeOK, WorkersOK
<1>2. \A w \in Workers :
          /\ worker'[w].at # "idle" => worker'[w].target \in Deliveries
          /\ worker'[w].job # NoJob =>
                /\ worker'[w].at # "idle"
                /\ jobs'[worker'[w].job].state = "active"
                /\ jobs'[worker'[w].job].target = worker'[w].target
  BY <1>1 DEF IInv, JobsMatchWorkers
<1>3. \A w1, w2 \in Workers :
          w1 # w2 /\ worker'[w1].job # NoJob => worker'[w1].job # worker'[w2].job
  BY DEF IInv, JobsMatchWorkers
<1>4. \A j \in Jobs : Live(jobs'[j]) => jobs'[j].target \in Deliveries
  BY DEF JobsSound
<1> QED
  BY <1>2, <1>3, <1>4 DEF JobsMatchWorkers, Target

\* A step that claims nothing and sends nothing keeps what claims guarantee.
LEMMA ClaimsKept ==
    ASSUME IInv, UNCHANGED posted,
           \A d \in Deliveries : delivery'[d].attempt = delivery[d].attempt,
           \A w \in Workers : worker'[w].at \in ClaimedSteps =>
               /\ worker[w].at \in ClaimedSteps
               /\ worker'[w].attempt = worker[w].attempt
               /\ Target(w)' = Target(w)
               /\ worker'[w].at \in {"prepare", "post"}
                      => worker[w].at \in {"prepare", "post"}
    PROVE  ClaimsOK'
<1>1. \A w \in Workers, d \in Deliveries : Claimed(w, d)' =>
          Claimed(w, d) /\ worker'[w].attempt = worker[w].attempt
  BY DEF Claimed
<1>2. OneWorkerPerAttempt'
  BY <1>1 DEF IInv, ClaimsOK, OneWorkerPerAttempt
<1>3. {"prepare", "post"} \subseteq ClaimedSteps
  BY DEF ClaimedSteps
<1>4. AttemptPostedOnce'
  BY <1>3 DEF IInv, ClaimsOK, AttemptPostedOnce
<1>5. PostedWasIssued'
  BY DEF IInv, ClaimsOK, PostedWasIssued
<1> QED
  BY <1>2, <1>4, <1>5 DEF ClaimsOK

\* A step of anybody but a worker, which may add a job.
LEMMA WorkersUntouched ==
    ASSUME IInv, UNCHANGED <<worker, posted>>, JobsSound',
           \A x \in Jobs : jobs[x].state = "active" => jobs'[x] = jobs[x],
           \A d \in Deliveries : delivery'[d].attempt = delivery[d].attempt
    PROVE  JobsMatchWorkers' /\ ClaimsOK' /\ WorkersOK'
<1>1. JobsMatchWorkers' /\ \A w \in Workers : Target(w)' = Target(w)
  BY MatchKept
<1>2. "idle" \notin ClaimedSteps
  BY DEF ClaimedSteps
<1>3. ClaimsOK'
  BY <1>1, <1>2, ClaimsKept
<1> QED
  BY <1>1, <1>3 DEF IInv, TypeOK, WorkersOK

\* However a worker leaves its job, only that record changes, and it changes
\* only when the worker still holds the lock.
LEMMA JobLeft ==
    ASSUME IInv, NEW w \in Workers, worker[w].at # "idle", UNCHANGED posted,
           \A d \in Deliveries : delivery'[d].attempt = delivery[d].attempt,
           NEW new, worker' = [worker EXCEPT ![w] = new], new.job = NoJob,
           new.at # "idle" => /\ new.at = worker[w].at /\ new.target = worker[w].target
                              /\ new.attempt = worker[w].attempt,
           \/ jobs' = Left(w, Returned(jobs[worker[w].job]))
           \/ jobs' = Left(w, Thrown(jobs[worker[w].job]))
           \/ jobs' = Left(w, Stalled(jobs[worker[w].job]))
    PROVE  JobsSound' /\ QueueOK' /\ JobsMatchWorkers' /\ ClaimsOK'
<1> DEFINE j == worker[w].job
<1>1. /\ DOMAIN worker = Workers /\ DOMAIN jobs = Jobs /\ "idle" \notin ClaimedSteps
      /\ \A x \in Workers : worker[x].job # NoJob => worker[x].job \in Jobs
  BY DEF IInv, TypeOK, WorkersOK, QueueOK, ClaimedSteps
<1>2. /\ worker'[w] = new /\ \A x \in Workers \ {w} : worker'[x] = worker[x]
  BY <1>1
<1>3. \A x \in Workers : worker'[x].at # "idle" =>
          /\ worker'[x].at = worker[x].at /\ worker'[x].target = worker[x].target
          /\ worker'[x].attempt = worker[x].attempt
  BY <1>2
<1>4. ClaimsOK'
  BY <1>1, <1>3, ClaimsKept DEF Target
<1>5. \A x \in Workers : worker'[x].job # NoJob =>
          x # w /\ worker'[x] = worker[x] /\ worker[x].job # j
  BY <1>2 DEF IInv, JobsMatchWorkers
<1>6. /\ JobsSound' /\ QueueOK'
      /\ \A x \in Jobs \ {j} : jobs'[x] = jobs[x]
  <2>1. CASE j = NoJob
    <3>1. UNCHANGED jobs
      BY <2>1 DEF Left
    <3> QED
      BY <3>1, JobsUntouched
  <2>2. CASE j # NoJob
    <3>1. /\ j \in Jobs /\ Live(jobs[j]) /\ Sound(jobs[j], JobTargets)
          /\ jobs[j].target \in Deliveries
      BY <1>1, <2>2 DEF IInv, JobsMatchWorkers, JobsSound, Live
    <3>2. PICK done : /\ done \in {Returned(jobs[j]), Thrown(jobs[j]), Stalled(jobs[j])}
                      /\ jobs' = [jobs EXCEPT ![j] = Released(done)]
      BY <2>2 DEF Left
    <3>3. Sound(done, JobTargets) /\ done.target = jobs[j].target
      <4>1. Sound(Returned(jobs[j]), JobTargets) /\ Returned(jobs[j]).target = jobs[j].target
        BY <3>1, ReturnedSound DEF Returned, Sound, JobRecords
      <4>2. Sound(Thrown(jobs[j]), JobTargets) /\ Thrown(jobs[j]).target = jobs[j].target
        BY <3>1, ThrownSound
      <4>3. Sound(Stalled(jobs[j]), JobTargets) /\ Stalled(jobs[j]).target = jobs[j].target
        BY <3>1, StalledSound
      <4> QED
        BY <3>2, <4>1, <4>2, <4>3
    <3>4. /\ Sound(Released(done), JobTargets)
          /\ Live(Released(done)) => Released(done).target \in Deliveries
      <4>1. CASE Live(done)
        BY <3>1, <3>3, <4>1 DEF Released
      <4>2. CASE ~Live(done)
        BY <4>2, NoRecordSound DEF Released, JobTargets, NoRecord, Live
      <4> QED
        BY <4>1, <4>2
    <3>5. JobsSound' /\ QueueOK'
      BY <3>1, <3>2, <3>4, OneJobReplaced
    <3> QED
      BY <1>1, <3>2, <3>5
  <2> QED
    BY <2>1, <2>2
<1>7. JobsMatchWorkers'
  <2>1. \A x \in Workers :
            /\ worker'[x].at # "idle" => worker'[x].target \in Deliveries
            /\ worker'[x].job # NoJob =>
                  /\ worker'[x].at # "idle"
                  /\ jobs'[worker'[x].job].state = "active"
                  /\ jobs'[worker'[x].job].target = worker'[x].target
    BY <1>1, <1>3, <1>5, <1>6 DEF IInv, JobsMatchWorkers
  <2>2. \A x, y \in Workers :
            x # y /\ worker'[x].job # NoJob => worker'[x].job # worker'[y].job
    BY <1>2, <1>5 DEF IInv, JobsMatchWorkers
  <2>3. \A i \in Jobs : Live(jobs'[i]) => jobs'[i].target \in Deliveries
    BY <1>6 DEF JobsSound
  <2> QED
    BY <2>1, <2>2, <2>3 DEF JobsMatchWorkers
<1> QED
  BY <1>4, <1>6, <1>7

\* The worker is free when its handler has ended.
LEMMA HandlerEnds ==
    ASSUME IInv, NEW w \in Workers, worker[w].at # "idle", UNCHANGED posted,
           \A d \in Deliveries : delivery'[d].attempt = delivery[d].attempt,
           \/ Return(w)
           \/ Throw(w)
           \/ /\ jobs' = Left(w, Stalled(jobs[worker[w].job]))
              /\ worker' = [worker EXCEPT ![w] = Idle]
    PROVE  JobsSound' /\ QueueOK' /\ JobsMatchWorkers' /\ ClaimsOK' /\ WorkersOK'
<1>1. worker' = [worker EXCEPT ![w] = Idle] /\ Idle.job = NoJob /\ Idle.at = "idle"
  BY DEF Return, Throw, Idle
<1>2. \/ jobs' = Left(w, Returned(jobs[worker[w].job]))
      \/ jobs' = Left(w, Thrown(jobs[worker[w].job]))
      \/ jobs' = Left(w, Stalled(jobs[worker[w].job]))
  BY DEF Return, Throw
<1>3. JobsSound' /\ QueueOK' /\ JobsMatchWorkers' /\ ClaimsOK'
  BY <1>1, <1>2, JobLeft
<1>4. WorkersOK'
  BY <1>1 DEF IInv, TypeOK, WorkersOK, Idle
<1> QED
  BY <1>3, <1>4

\* A worker that goes on to a step that needs no more of its claim than the
\* step it is at.
LEMMA HandlerGoesOn ==
    ASSUME IInv, NEW w \in Workers, worker[w].at # "idle", UNCHANGED posted,
           \A d \in Deliveries : delivery'[d].attempt = delivery[d].attempt,
           NEW step \in {"idle", "read", "claim"} \cup ClaimedSteps, Goto(w, step),
           worker[w].at \in ClaimedSteps, step # "idle",
           step \in {"prepare", "post"} => worker[w].at \in {"prepare", "post"}
    PROVE  JobsSound' /\ QueueOK' /\ JobsMatchWorkers' /\ ClaimsOK' /\ WorkersOK'
<1>1. UNCHANGED jobs /\ worker' = [worker EXCEPT ![w].at = step]
  BY DEF Goto
<1>2. WorkersOK
  BY DEF IInv, TypeOK
<1>3. \A x \in Workers : /\ worker'[x].job = worker[x].job
                         /\ worker'[x].target = worker[x].target
                         /\ worker'[x].attempt = worker[x].attempt
                         /\ worker'[x].at # "idle" <=> worker[x].at # "idle"
                         /\ worker'[x].at \in ClaimedSteps => worker[x].at \in ClaimedSteps
                         /\ worker'[x].at \in {"prepare", "post"}
                                => worker[x].at \in {"prepare", "post"}
  BY <1>1, <1>2 DEF WorkersOK
<1>4. JobsSound' /\ QueueOK'
  BY <1>1, JobsUntouched
<1>5. JobsMatchWorkers' /\ \A x \in Workers : Target(x)' = Target(x)
  BY <1>1, <1>3, <1>4, MatchKept
<1>6. "idle" \notin ClaimedSteps
  BY DEF ClaimedSteps
<1>7. ClaimsOK'
  BY <1>3, <1>5, <1>6, ClaimsKept
<1>8. WorkersOK'
  BY <1>1, <1>2 DEF WorkersOK
<1> QED
  BY <1>4, <1>5, <1>7, <1>8

\* A fault is counted.
LEMMA FaultCounted == ASSUME EnvOK, Fault PROVE EnvOK'
BY DEF EnvOK, EnvironmentRecords, Fault

-----------------------------------------------------------------------------
(* The publishers, the users, the sweep and the administrators *)

\* A row that is written by a caller keeps its attempt counter.
LEMMA RowWritten ==
    ASSUME RowsOK, NEW d \in Deliveries, NEW status \in Statuses,
           delivery' = [delivery EXCEPT ![d].status = status]
    PROVE  RowsOK' /\ \A x \in Deliveries : delivery'[x].attempt = delivery[x].attempt
BY DEF RowsOK

\* A publisher's remaining deliveries are deliveries.
LEMMA PublisherTyped ==
    ASSUME CallersOK, NEW e \in Events, NEW rest \in SUBSET Deliveries,
           PublisherLeft(e, rest), UNCHANGED <<admin, sweep>>
    PROVE  CallersOK'
<1>1. PICK at \in {"idle", "enqueue", "done"} :
          publisher' = [publisher EXCEPT ![e] = [at |-> at, todo |-> rest]]
  BY DEF PublisherLeft
<1> QED
  BY <1>1 DEF CallersOK

\* Every step of publishBusinessEvent and triggerConfiguredWebhook keeps the
\* invariant.
LEMMA PublisherStep ==
    ASSUME IInv, PublisherNext PROVE IInv'
<1> USE DEF IInv, TypeOK
<1>1. ASSUME NEW e \in Events, PublishRead(e) PROVE IInv'
  <2>1. UNCHANGED <<endpoint, delivery, jobs, worker, admin, sweep, posted, accepted, env>>
    BY <1>1 DEF PublishRead
  <2>2. JobsSound' /\ QueueOK' /\ JobsMatchWorkers' /\ ClaimsOK' /\ WorkersOK'
    BY <2>1, JobsUntouched, WorkersUntouched
  <2>3. {e} \X {s \in Subscriptions : endpoint[s] = "live"} \in SUBSET Deliveries
    BY DEF Deliveries
  <2>4. CallersOK'
    BY <1>1, <2>1, <2>3 DEF PublishRead, CallersOK
  <2> QED
    BY <2>1, <2>2, <2>4 DEF EndpointsOK, RowsOK, LogsOK, EnvOK, AdminsHaveDeliveries
<1>2. ASSUME NEW e \in Events, PublishCreate(e) PROVE IInv'
  <2>1. UNCHANGED <<endpoint, jobs, worker, admin, sweep, posted, accepted, env>>
    BY <1>2 DEF PublishCreate
  <2>2. RowsOK' /\ \A d \in Deliveries : delivery'[d].attempt = delivery[d].attempt
    BY <1>2 DEF PublishCreate, RowsOK, Statuses
  <2>3. JobsSound' /\ QueueOK' /\ JobsMatchWorkers' /\ ClaimsOK' /\ WorkersOK'
    BY <2>1, <2>2, JobsUntouched, WorkersUntouched
  <2>4. CallersOK'
    BY <1>2, <2>1 DEF PublishCreate, CallersOK
  <2> QED
    BY <2>1, <2>2, <2>3, <2>4 DEF EndpointsOK, LogsOK, EnvOK, AdminsHaveDeliveries
<1>3. ASSUME NEW e \in Events, PublisherCrash(e) PROVE IInv'
  <2>1. UNCHANGED <<endpoint, delivery, jobs, worker, admin, sweep, posted, accepted>>
    BY <1>3 DEF PublisherCrash
  <2>2. JobsSound' /\ QueueOK' /\ JobsMatchWorkers' /\ ClaimsOK' /\ WorkersOK'
    BY <2>1, JobsUntouched, WorkersUntouched
  <2>3. CallersOK'
    BY <1>3, <2>1, PublisherTyped DEF PublisherCrash
  <2>4. EnvOK'
    BY <1>3, FaultCounted DEF PublisherCrash
  <2> QED
    BY <2>1, <2>2, <2>3, <2>4 DEF EndpointsOK, RowsOK, LogsOK, AdminsHaveDeliveries
<1>4. ASSUME NEW e \in Events, NEW d \in Deliveries, PublishEnqueue(e, d) PROVE IInv'
  <2>1. UNCHANGED <<endpoint, delivery, worker, admin, sweep, posted, accepted>>
    BY <1>4 DEF PublishEnqueue
  <2>2. Enqueue(d) \/ UNCHANGED jobs
    BY <1>4 DEF PublishEnqueue
  <2>3. JobsSound' /\ QueueOK' /\ JobsMatchWorkers' /\ ClaimsOK' /\ WorkersOK'
    BY <2>1, <2>2, EnqueueKeeps, WorkersUntouched
  <2>4. publisher[e].todo \ {d} \in SUBSET Deliveries
    BY DEF CallersOK
  <2>5. CallersOK'
    BY <1>4, <2>1, <2>4, PublisherTyped DEF PublishEnqueue
  <2>6. EnvOK'
    BY <1>4, FaultCounted DEF PublishEnqueue, EnvOK
  <2> QED
    BY <2>1, <2>3, <2>5, <2>6 DEF EndpointsOK, RowsOK, LogsOK, AdminsHaveDeliveries
<1>5. ASSUME NEW e \in AutomationEvents, NEW s \in Subscriptions, Trigger(e, s) PROVE IInv'
  <2>1. UNCHANGED <<endpoint, jobs, worker, admin, sweep, posted, accepted, env>>
    BY <1>5 DEF Trigger
  <2>2. <<e, s>> \in Deliveries /\ e \in Events
    BY DEF Deliveries, Events
  <2>3. PICK status \in Statuses : delivery' = [delivery EXCEPT ![<<e, s>>].status = status]
    <3>1. CASE delivery[<<e, s>>].status = "absent"
      <4>1. delivery' = [delivery EXCEPT ![<<e, s>>].status = "PENDING"]
        BY <1>5, <3>1 DEF Trigger
      <4> QED
        BY <4>1 DEF Statuses
    <3>2. CASE delivery[<<e, s>>].status # "absent"
      <4>1. delivery' = [delivery EXCEPT ![<<e, s>>].status = delivery[<<e, s>>].status]
        BY <1>5, <3>2 DEF Trigger
      <4> QED
        BY <2>2, <4>1 DEF RowsOK
    <3> QED
      BY <3>1, <3>2
  <2>4. RowsOK' /\ \A d \in Deliveries : delivery'[d].attempt = delivery[d].attempt
    BY <2>2, <2>3, RowWritten
  <2>5. JobsSound' /\ QueueOK' /\ JobsMatchWorkers' /\ ClaimsOK' /\ WorkersOK'
    BY <2>1, <2>4, JobsUntouched, WorkersUntouched
  <2>6. CallersOK'
    BY <1>5, <2>1, <2>2 DEF Trigger, CallersOK
  <2> QED
    BY <2>1, <2>4, <2>5, <2>6 DEF EndpointsOK, LogsOK, EnvOK, AdminsHaveDeliveries
<1> QED
  BY <1>1, <1>2, <1>3, <1>4, <1>5 DEF PublisherNext

\* Every step of retryDelivery keeps the invariant.
LEMMA RetryStep ==
    ASSUME IInv, RetryNext PROVE IInv'
<1> USE DEF IInv, TypeOK
<1>1. ASSUME NEW a \in Admins, NEW d \in Deliveries, RetryRead(a, d) PROVE IInv'
  <2>1. UNCHANGED <<endpoint, delivery, jobs, worker, publisher, sweep, posted, accepted>>
    BY <1>1 DEF RetryRead
  <2>2. JobsSound' /\ QueueOK' /\ JobsMatchWorkers' /\ ClaimsOK' /\ WorkersOK'
    BY <2>1, JobsUntouched, WorkersUntouched
  <2>3. CallersOK' /\ AdminsHaveDeliveries'
    BY <1>1, <2>1 DEF RetryRead, CallersOK, AdminsHaveDeliveries
  <2>4. EnvOK'
    BY <1>1 DEF RetryRead, EnvOK, EnvironmentRecords
  <2> QED
    BY <2>1, <2>2, <2>3, <2>4 DEF EndpointsOK, RowsOK, LogsOK
<1>2. ASSUME NEW a \in Admins, RetryWrite(a) PROVE IInv'
  <2>1. UNCHANGED <<endpoint, jobs, worker, publisher, sweep, posted, accepted, env>>
    BY <1>2 DEF RetryWrite
  <2>2. admin[a].delivery \in Deliveries
    BY <1>2 DEF RetryWrite, AdminsHaveDeliveries
  <2>3. RowsOK' /\ \A d \in Deliveries : delivery'[d].attempt = delivery[d].attempt
    BY <1>2, <2>2, RowWritten DEF RetryWrite, Statuses
  <2>4. JobsSound' /\ QueueOK' /\ JobsMatchWorkers' /\ ClaimsOK' /\ WorkersOK'
    BY <2>1, <2>3, JobsUntouched, WorkersUntouched
  <2>5. CallersOK' /\ AdminsHaveDeliveries'
    BY <1>2, <2>1 DEF RetryWrite, CallersOK, AdminsHaveDeliveries
  <2> QED
    BY <2>1, <2>3, <2>4, <2>5 DEF EndpointsOK, LogsOK, EnvOK
<1>3. ASSUME NEW a \in Admins, RetryEnqueue(a) PROVE IInv'
  <2>1. UNCHANGED <<endpoint, delivery, worker, publisher, sweep, posted, accepted>>
    BY <1>3 DEF RetryEnqueue
  <2>2. admin[a].delivery \in Deliveries
    BY <1>3 DEF RetryEnqueue, AdminsHaveDeliveries
  <2>3. Enqueue(admin[a].delivery) \/ UNCHANGED jobs
    BY <1>3 DEF RetryEnqueue
  <2>4. JobsSound' /\ QueueOK' /\ JobsMatchWorkers' /\ ClaimsOK' /\ WorkersOK'
    BY <2>1, <2>2, <2>3, EnqueueKeeps, WorkersUntouched
  <2>5. CallersOK' /\ AdminsHaveDeliveries'
    BY <1>3, <2>1 DEF RetryEnqueue, CallersOK, AdminsHaveDeliveries, NoRetry
  <2>6. EnvOK'
    BY <1>3, FaultCounted DEF RetryEnqueue, EnvOK
  <2> QED
    BY <2>1, <2>4, <2>5, <2>6 DEF EndpointsOK, RowsOK, LogsOK
<1> QED
  BY <1>1, <1>2, <1>3 DEF RetryNext

\* Every step of recoverPendingWork keeps the invariant.
LEMMA SweepStep ==
    ASSUME IInv, SweepNext PROVE IInv'
<1> USE DEF IInv, TypeOK
<1>1. ASSUME SweepRead PROVE IInv'
  <2>1. UNCHANGED <<endpoint, delivery, jobs, worker, publisher, admin, posted, accepted, env>>
    BY <1>1 DEF SweepRead
  <2>2. JobsSound' /\ QueueOK' /\ JobsMatchWorkers' /\ ClaimsOK' /\ WorkersOK'
    BY <2>1, JobsUntouched, WorkersUntouched
  <2>3. CallersOK'
    BY <1>1, <2>1 DEF SweepRead, CallersOK
  <2> QED
    BY <2>1, <2>2, <2>3 DEF EndpointsOK, RowsOK, LogsOK, EnvOK, AdminsHaveDeliveries
<1>2. ASSUME NEW d \in Deliveries, SweepEnqueue(d) PROVE IInv'
  <2>1. UNCHANGED <<endpoint, delivery, worker, publisher, admin, posted, accepted>>
    BY <1>2 DEF SweepEnqueue
  <2>2. Enqueue(d) \/ UNCHANGED jobs
    BY <1>2 DEF SweepEnqueue
  <2>3. JobsSound' /\ QueueOK' /\ JobsMatchWorkers' /\ ClaimsOK' /\ WorkersOK'
    BY <2>1, <2>2, EnqueueKeeps, WorkersUntouched
  <2>4. CallersOK'
    BY <1>2, <2>1 DEF SweepEnqueue, CallersOK
  <2>5. EnvOK'
    BY <1>2, FaultCounted DEF SweepEnqueue, EnvOK
  <2> QED
    BY <2>1, <2>3, <2>4, <2>5 DEF EndpointsOK, RowsOK, LogsOK, AdminsHaveDeliveries
<1> QED
  BY <1>1, <1>2 DEF SweepNext

\* A change of an endpoint keeps the invariant.
LEMMA ReconfigureStep ==
    ASSUME IInv, NEW s \in Subscriptions, Reconfigure(s) PROVE IInv'
<1> USE DEF IInv, TypeOK
<1>1. UNCHANGED <<delivery, jobs, worker, publisher, admin, sweep, posted, accepted, env>>
  BY DEF Reconfigure
<1>2. JobsSound' /\ QueueOK' /\ JobsMatchWorkers' /\ ClaimsOK' /\ WorkersOK'
  BY <1>1, JobsUntouched, WorkersUntouched
<1>3. EndpointsOK'
  BY DEF Reconfigure, EndpointsOK, EnvOK, EnvironmentRecords
<1> QED
  BY <1>1, <1>2, <1>3 DEF RowsOK, CallersOK, LogsOK, EnvOK, AdminsHaveDeliveries

-----------------------------------------------------------------------------
(* The workers *)

\* Taking a waiting job cannot give it a second holder: a held job is active.
LEMMA TakeStep ==
    ASSUME IInv, NEW w \in Workers, NEW j \in Jobs, Take(w, j)
    PROVE  IInv'
<1> USE DEF IInv, TypeOK
<1> DEFINE taken == [Idle EXCEPT !.at = "read", !.job = j, !.target = jobs[j].target]
<1>1. UNCHANGED <<endpoint, delivery, publisher, admin, sweep, posted, accepted, env>>
  BY DEF Take
<1>2. /\ jobs' = [jobs EXCEPT ![j] = Started(jobs[j])] /\ jobs[j].state = "waiting"
      /\ worker' = [worker EXCEPT ![w] = taken]
  BY DEF Take
<1>3. /\ Sound(Started(jobs[j]), JobTargets) /\ Started(jobs[j]).state = "active"
      /\ Started(jobs[j]).target = jobs[j].target
  BY <1>2, StartedSound DEF JobsSound
<1>4. jobs[j].target \in Deliveries
  BY <1>2 DEF JobsSound, Live
<1>5. JobsSound' /\ QueueOK'
  BY <1>2, <1>3, <1>4, OneJobReplaced
<1>6. WorkersOK'
  BY <1>2, <1>4 DEF WorkersOK, Idle
<1>7. taken.at = "read" /\ taken.job = j /\ taken.target = jobs[j].target
  BY DEF Idle
<1> HIDE DEF taken
<1>8. /\ worker'[w] = taken /\ jobs'[j] = Started(jobs[j])
      /\ \A x \in Workers \ {w} : worker'[x] = worker[x]
      /\ \A i \in Jobs \ {j} : jobs'[i] = jobs[i]
  BY <1>2 DEF WorkersOK, QueueOK
<1>9. \A x \in Workers : worker[x].job # NoJob => worker[x].job \in Jobs \ {j}
  BY <1>2 DEF JobsMatchWorkers, WorkersOK
<1>10. j # NoJob
  BY WebhookAssumption DEF WebhookAssumption
<1>11. JobsMatchWorkers'
  <2>1. /\ worker'[w].at # "idle" /\ worker'[w].target \in Deliveries
        /\ jobs'[worker'[w].job].state = "active"
        /\ jobs'[worker'[w].job].target = worker'[w].target
    BY <1>3, <1>4, <1>7, <1>8
  <2>2. \A x \in Workers \ {w} :
            /\ worker'[x].at # "idle" => worker'[x].target \in Deliveries
            /\ worker'[x].job # NoJob =>
                  /\ worker'[x].at # "idle"
                  /\ jobs'[worker'[x].job].state = "active"
                  /\ jobs'[worker'[x].job].target = worker'[x].target
    BY <1>8, <1>9 DEF JobsMatchWorkers
  <2>3. \A x, y \in Workers :
            x # y /\ worker'[x].job # NoJob => worker'[x].job # worker'[y].job
    BY <1>7, <1>8, <1>9, <1>10 DEF JobsMatchWorkers
  <2>4. \A i \in Jobs : Live(jobs'[i]) => jobs'[i].target \in Deliveries
    BY <1>5 DEF JobsSound
  <2> QED
    BY <2>1, <2>2, <2>3, <2>4 DEF JobsMatchWorkers
<1>12. "idle" \notin ClaimedSteps /\ "read" \notin ClaimedSteps
  BY DEF ClaimedSteps
<1>13. \A x \in Workers : worker'[x].at \in ClaimedSteps =>
           x # w /\ worker'[x] = worker[x] /\ Target(x)' = Target(x)
  BY <1>7, <1>8, <1>12 DEF Target
<1>14. ClaimsOK'
  BY <1>1, <1>13, ClaimsKept
<1> QED
  BY <1>1, <1>5, <1>6, <1>11, <1>14
     DEF EndpointsOK, RowsOK, CallersOK, LogsOK, EnvOK, AdminsHaveDeliveries

\* A busy worker works on a delivery.
LEMMA BusyHasTarget ==
    ASSUME IInv, NEW w \in Workers, worker[w].at # "idle"
    PROVE  Target(w) \in Deliveries
BY DEF IInv, JobsMatchWorkers, Target

\* An outcome that is written keeps the attempt counter.
LEMMA OutcomeWritten ==
    ASSUME RowsOK, NEW d \in Deliveries, NEW status \in Statuses, NEW r \in BOOLEAN,
           delivery' = [delivery EXCEPT ![d].status = status, ![d].retryable = r]
    PROVE  RowsOK' /\ \A x \in Deliveries : delivery'[x].attempt = delivery[x].attempt
<1> DEFINE new == [delivery[d] EXCEPT !.status = status, !.retryable = r]
<1>1. delivery' = [delivery EXCEPT ![d] = new]
  BY DEF RowsOK
<1>2. /\ new \in [status : Statuses, attempt : Nat, retryable : BOOLEAN]
      /\ new.attempt = delivery[d].attempt
  BY DEF RowsOK
<1> HIDE DEF new
<1> QED
  BY <1>1, <1>2 DEF RowsOK

\* The worker notes the row's status and the number it will claim.
LEMMA ReadStep ==
    ASSUME IInv, NEW w \in Workers, Read(w)
    PROVE  IInv'
<1> USE DEF IInv, TypeOK
<1> DEFINE d == Target(w)
<1>1. /\ UNCHANGED <<endpoint, delivery, publisher, admin, sweep, posted, accepted, env>>
      /\ worker[w].at = "read"
  BY DEF Read
<1>2. d \in Deliveries
  BY <1>1, BusyHasTarget
<1> SUFFICES JobsSound' /\ QueueOK' /\ JobsMatchWorkers' /\ ClaimsOK' /\ WorkersOK'
  BY <1>1 DEF EndpointsOK, RowsOK, CallersOK, LogsOK, EnvOK, AdminsHaveDeliveries
<1>3. CASE Eligible(d)
  <2> DEFINE new == [worker[w] EXCEPT !.at = "claim", !.status = delivery[d].status,
                                      !.attempt = delivery[d].attempt + 1]
  <2>1. worker' = [worker EXCEPT ![w] = new] /\ UNCHANGED jobs
    BY <1>3 DEF Read, WorkersOK
  <2>2. delivery[d].attempt + 1 \in Nat /\ delivery[d].status \in {"PENDING", "FAILED"}
    BY <1>2, <1>3 DEF RowsOK, Eligible
  <2>3. /\ new \in [at : {"idle", "read", "claim"} \cup ClaimedSteps, job : Jobs \cup {NoJob},
                    target : Deliveries \cup {NoDelivery},
                    status : {"absent", "PENDING", "FAILED"}, attempt : Nat]
        /\ new.job = worker[w].job /\ new.target = worker[w].target /\ new.at = "claim"
    BY <2>2 DEF WorkersOK
  <2> HIDE DEF new
  <2>4. WorkersOK'
    BY <2>1, <2>3 DEF WorkersOK
  <2>5. \A x \in Workers : /\ worker'[x].job = worker[x].job
                           /\ worker'[x].target = worker[x].target
                           /\ worker'[x].at # "idle" <=> worker[x].at # "idle"
    BY <1>1, <2>1, <2>3 DEF WorkersOK
  <2>6. JobsSound' /\ QueueOK'
    BY <2>1, JobsUntouched
  <2>7. JobsMatchWorkers' /\ \A x \in Workers : Target(x)' = Target(x)
    BY <2>1, <2>5, <2>6, MatchKept
  <2>8. "idle" \notin ClaimedSteps /\ "claim" \notin ClaimedSteps
    BY DEF ClaimedSteps
  <2>9. \A x \in Workers : worker'[x].at \in ClaimedSteps =>
            worker'[x] = worker[x] /\ Target(x)' = Target(x)
    BY <2>1, <2>3, <2>7, <2>8 DEF WorkersOK
  <2>10. ClaimsOK'
    BY <1>1, <2>9, ClaimsKept
  <2> QED
    BY <2>4, <2>6, <2>7, <2>10
<1>4. CASE ~Eligible(d)
  <2>1. Return(w)
    BY <1>4 DEF Read
  <2> QED
    BY <1>1, <2>1, HandlerEnds
<1> QED
  BY <1>3, <1>4

\* The number a successful claim writes is one that nobody holds and under
\* which nothing was sent: the compare-and-set finds the row at the number
\* before it, and every claimed or sent number is at most the row's.
LEMMA ClaimWins ==
    ASSUME IInv, NEW w \in Workers, Claim(w), Unclaimed(w)
    PROVE  /\ IInv'
           /\ \A x \in Deliveries : delivery'[x].attempt =
                  IF x = Target(w) THEN delivery[x].attempt + 1 ELSE delivery[x].attempt
<1> USE DEF IInv, TypeOK
<1> DEFINE d == Target(w)
           n == worker[w].attempt
           row == [delivery[d] EXCEPT !.status = "PROCESSING", !.attempt = n]
<1>1. /\ UNCHANGED <<endpoint, publisher, admin, sweep, posted, accepted, env>>
      /\ worker[w].at = "claim"
  BY DEF Claim
<1>2. d \in Deliveries
  BY <1>1, BusyHasTarget
<1>3. PICK step \in {"demo", "prepare"} : Goto(w, step)
  BY DEF Claim
<1>4. delivery' = [delivery EXCEPT ![d].status = "PROCESSING", ![d].attempt = n]
  BY DEF Claim
<1>5. n = delivery[d].attempt + 1 /\ n \in Nat /\ delivery[d].attempt \in Nat
  <2>1. n \in Nat /\ delivery[d].attempt \in Nat /\ delivery[d].attempt = n - 1
    BY <1>2 DEF Unclaimed, RowsOK, WorkersOK
  <2> QED
    BY <2>1
<1>6. delivery' = [delivery EXCEPT ![d] = row]
  BY <1>4 DEF RowsOK
<1>7. row \in [status : Statuses, attempt : Nat, retryable : BOOLEAN] /\ row.attempt = n
  BY <1>2, <1>5 DEF RowsOK, Statuses
<1> HIDE DEF row
<1>8. /\ RowsOK' /\ delivery'[d].attempt = n
      /\ \A x \in Deliveries \ {d} : delivery'[x] = delivery[x]
  BY <1>2, <1>6, <1>7 DEF RowsOK
<1>9. UNCHANGED jobs /\ worker' = [worker EXCEPT ![w].at = step]
  BY <1>3 DEF Goto
<1>10. step \in ClaimedSteps /\ "claim" \notin ClaimedSteps /\ "idle" \notin ClaimedSteps
  BY DEF ClaimedSteps
<1>11. WorkersOK'
  BY <1>9, <1>10 DEF WorkersOK
<1>12. \A x \in Workers : /\ worker'[x].job = worker[x].job
                          /\ worker'[x].target = worker[x].target
                          /\ worker'[x].attempt = worker[x].attempt
                          /\ worker'[x].at # "idle" <=> worker[x].at # "idle"
                          /\ x # w => worker'[x] = worker[x]
  BY <1>1, <1>9 DEF WorkersOK
<1>13. JobsSound' /\ QueueOK'
  BY <1>9, JobsUntouched
<1>14. JobsMatchWorkers' /\ \A x \in Workers : Target(x)' = Target(x)
  BY <1>9, <1>12, <1>13, MatchKept
<1>15. \A x \in Workers \ {w}, t \in Deliveries : Claimed(x, t)' => Claimed(x, t)
  BY <1>10, <1>12, <1>14 DEF Claimed
<1>16. \A t \in Deliveries : Claimed(w, t)' => t = d
  BY <1>10, <1>14 DEF Claimed
<1>17. OneWorkerPerAttempt'
  <2>1. \A t \in Deliveries, x \in Workers :
            Claimed(x, t)' => worker'[x].attempt \in 1..delivery'[t].attempt
    <3> SUFFICES ASSUME NEW t \in Deliveries, NEW x \in Workers, Claimed(x, t)'
                 PROVE  worker'[x].attempt \in 1..delivery'[t].attempt
      OBVIOUS
    <3>1. CASE x = w
      BY <1>5, <1>8, <1>12, <1>16, <3>1
    <3>2. CASE x # w
      <4>1. worker[x].attempt \in 1..delivery[t].attempt
        BY <1>15, <3>2 DEF ClaimsOK, OneWorkerPerAttempt
      <4>2. delivery[t].attempt \in Nat
        BY DEF RowsOK
      <4>3. CASE t = d
        BY <1>5, <1>8, <1>12, <4>1, <4>3
      <4>4. CASE t # d
        BY <1>8, <1>12, <4>1, <4>4
      <4> QED
        BY <4>3, <4>4
    <3> QED
      BY <3>1, <3>2
  <2>2. \A t \in Deliveries, x, y \in Workers :
            x # y /\ Claimed(x, t)' /\ Claimed(y, t)' => worker'[x].attempt # worker'[y].attempt
    <3>1. \A t \in Deliveries, x \in Workers \ {w} :
              Claimed(x, t)' /\ Claimed(w, t)' => worker[x].attempt # n
      <4> SUFFICES ASSUME NEW t \in Deliveries, NEW x \in Workers \ {w},
                          Claimed(x, t)', Claimed(w, t)'
                   PROVE  worker[x].attempt # n
        OBVIOUS
      <4>1. t = d /\ Claimed(x, t)
        BY <1>15, <1>16
      <4>2. worker[x].attempt \in 1..delivery[d].attempt
        BY <4>1 DEF ClaimsOK, OneWorkerPerAttempt
      <4> QED
        BY <1>5, <4>2
    <3>2. \A t \in Deliveries, x, y \in Workers \ {w} :
              x # y /\ Claimed(x, t)' /\ Claimed(y, t)' => worker[x].attempt # worker[y].attempt
      BY <1>15 DEF ClaimsOK, OneWorkerPerAttempt
    <3>3. \A x \in Workers : worker'[x].attempt = worker[x].attempt
      BY <1>12
    <3> QED
      BY <3>1, <3>2, <3>3
  <2> QED
    BY <2>1, <2>2 DEF OneWorkerPerAttempt
<1>18. AttemptPostedOnce'
  <2>1. n \notin BagToSet(posted[d])
    BY <1>2, <1>5 DEF ClaimsOK, PostedWasIssued
  <2>2. \A x \in Workers : worker'[x].at \in {"prepare", "post"} => Target(x)' = Target(x)
    BY <1>14
  <2> QED
    BY <1>1, <1>12, <2>1, <2>2 DEF ClaimsOK, AttemptPostedOnce
<1>19. PostedWasIssued'
  <2>1. \A t \in Deliveries : 1..delivery[t].attempt \subseteq 1..delivery'[t].attempt
    BY <1>5, <1>8 DEF RowsOK
  <2> QED
    BY <1>1, <2>1 DEF ClaimsOK, PostedWasIssued
<1>20. IInv'
  BY <1>1, <1>8, <1>11, <1>13, <1>14, <1>17, <1>18, <1>19
     DEF ClaimsOK, EndpointsOK, CallersOK, LogsOK, EnvOK, AdminsHaveDeliveries
<1>21. \A x \in Deliveries : delivery'[x].attempt =
           IF x = d THEN delivery[x].attempt + 1 ELSE delivery[x].attempt
  BY <1>5, <1>8
<1> QED
  BY <1>20, <1>21

\* A claim that finds the row changed ends the handler.
LEMMA ClaimLoses ==
    ASSUME IInv, NEW w \in Workers, Claim(w), ~Unclaimed(w)
    PROVE  IInv' /\ UNCHANGED <<delivery, posted>>
<1> USE DEF IInv, TypeOK
<1>1. /\ UNCHANGED <<endpoint, delivery, publisher, admin, sweep, posted, accepted, env>>
      /\ worker[w].at = "claim" /\ Return(w)
  BY DEF Claim
<1>2. JobsSound' /\ QueueOK' /\ JobsMatchWorkers' /\ ClaimsOK' /\ WorkersOK'
  BY <1>1, HandlerEnds
<1> QED
  BY <1>1, <1>2 DEF EndpointsOK, RowsOK, CallersOK, LogsOK, EnvOK, AdminsHaveDeliveries

\* A claimed number is sent by the worker that holds it, and by nobody else:
\* another worker about to send for the same delivery holds another number.
LEMMA PostStep ==
    ASSUME IInv, NEW w \in Workers, Post(w)
    PROVE  /\ IInv'
           /\ worker[w].attempt \in (1..delivery[Target(w)].attempt) \ BagToSet(posted[Target(w)])
<1> USE DEF IInv, TypeOK
<1> DEFINE d == Target(w)
           n == worker[w].attempt
<1>1. /\ UNCHANGED <<endpoint, delivery, publisher, admin, sweep, env>>
      /\ worker[w].at = "post"
      /\ posted' = [posted EXCEPT ![d] = @ (+) SetToBag({n})]
  BY DEF Post
<1>2. d \in Deliveries
  BY <1>1, BusyHasTarget
<1>3. PICK step \in {"ok", "retryable", "permanent", "catch"} : Goto(w, step)
  BY DEF Post
<1>4. /\ "post" \in ClaimedSteps /\ "idle" \notin ClaimedSteps
      /\ step \in ClaimedSteps \ {"prepare", "post"}
  BY DEF ClaimedSteps
<1>5. Claimed(w, d) /\ n \in 1..delivery[d].attempt /\ n \notin BagToSet(posted[d])
  BY <1>1, <1>2, <1>4 DEF Claimed, ClaimsOK, OneWorkerPerAttempt, AttemptPostedOnce
<1>6. n \in Nat
  BY DEF WorkersOK
<1>7. /\ IsABag(posted[d] (+) SetToBag({n}))
      /\ BagToSet(posted[d] (+) SetToBag({n})) = BagToSet(posted[d]) \cup {n}
  BY <1>2, <1>6 DEF LogsOK, IsABag, BagToSet, SetToBag, (+)
<1>8. /\ BagToSet(posted'[d]) = BagToSet(posted[d]) \cup {n} /\ IsABag(posted'[d])
      /\ \A t \in Deliveries \ {d} : posted'[t] = posted[t]
      /\ DOMAIN posted' = Deliveries
  BY <1>1, <1>2, <1>7 DEF LogsOK
<1>9. accepted' \in [Deliveries -> BOOLEAN]
  BY DEF Post, LogsOK
<1>10. LogsOK'
  BY <1>6, <1>8, <1>9 DEF LogsOK
<1>11. UNCHANGED jobs /\ worker' = [worker EXCEPT ![w].at = step]
  BY <1>3 DEF Goto
<1>12. WorkersOK'
  BY <1>4, <1>11 DEF WorkersOK
<1>13. /\ worker'[w].at = step
       /\ \A x \in Workers : /\ worker'[x].job = worker[x].job
                             /\ worker'[x].target = worker[x].target
                             /\ worker'[x].attempt = worker[x].attempt
                             /\ worker'[x].at # "idle" <=> worker[x].at # "idle"
                             /\ x # w => worker'[x] = worker[x]
  BY <1>1, <1>11 DEF WorkersOK
<1>14. JobsSound' /\ QueueOK'
  BY <1>11, JobsUntouched
<1>15. JobsMatchWorkers' /\ \A x \in Workers : Target(x)' = Target(x)
  BY <1>11, <1>13, <1>14, MatchKept
<1>16. \A x \in Workers, t \in Deliveries :
           Claimed(x, t)' => Claimed(x, t) /\ worker'[x].attempt = worker[x].attempt
  BY <1>1, <1>4, <1>13, <1>15 DEF Claimed
<1>17. OneWorkerPerAttempt'
  BY <1>1, <1>16 DEF ClaimsOK, OneWorkerPerAttempt
<1>18. AttemptPostedOnce'
  <2> SUFFICES ASSUME NEW x \in Workers, worker'[x].at \in {"prepare", "post"}
               PROVE  worker'[x].attempt \notin BagToSet(posted'[Target(x)'])
    BY DEF AttemptPostedOnce
  <2>1. /\ x # w /\ worker[x].at \in {"prepare", "post"} /\ Target(x)' = Target(x)
        /\ worker'[x].attempt = worker[x].attempt
    BY <1>4, <1>13, <1>15
  <2>2. worker[x].attempt \notin BagToSet(posted[Target(x)]) /\ Target(x) \in Deliveries
    BY <2>1, BusyHasTarget DEF ClaimsOK, AttemptPostedOnce
  <2>3. CASE Target(x) = d
    <3>1. Claimed(x, d)
      BY <2>1, <2>3 DEF Claimed, ClaimedSteps
    <3>2. worker[x].attempt # n
      BY <1>2, <1>5, <2>1, <3>1 DEF ClaimsOK, OneWorkerPerAttempt
    <3> QED
      BY <1>8, <2>1, <2>2, <2>3, <3>2
  <2>4. CASE Target(x) # d
    BY <1>8, <2>1, <2>2, <2>4
  <2> QED
    BY <2>3, <2>4
<1>19. PostedWasIssued'
  BY <1>1, <1>5, <1>8, ZenonT(40) DEF ClaimsOK, PostedWasIssued
<1> QED
  BY <1>1, <1>5, <1>10, <1>12, <1>14, <1>15, <1>17, <1>18, <1>19
     DEF ClaimsOK, EndpointsOK, RowsOK, CallersOK, EnvOK, AdminsHaveDeliveries

\* The steps of a handler that neither claim nor send, the death of its worker
\* and the lapse of its lock.
Settles(w) ==
    \/ Simulate(w) \/ Prepare(w) \/ RecordDelivered(w) \/ RecordPermanent(w)
    \/ RecordRetryable(w) \/ CatchRead(w) \/ CatchWrite(w) \/ DatabaseError(w)
    \/ WorkerCrash(w) \/ LockLapse(w)

\* What such a step leaves alone.
LEMMA SettlesFrame ==
    ASSUME IInv, NEW w \in Workers, Settles(w)
    PROVE  /\ UNCHANGED <<endpoint, publisher, admin, sweep, posted, accepted>>
           /\ worker[w].at # "idle" /\ EnvOK'
<1>1. EnvOK
  BY DEF IInv, TypeOK
<1>2. UNCHANGED env \/ Fault
  BY DEF Settles, Simulate, Prepare, RecordDelivered, RecordPermanent, RecordRetryable,
         CatchRead, CatchWrite, DatabaseError, WorkerCrash, LockLapse
<1>3. EnvOK'
  BY <1>1, <1>2, FaultCounted DEF EnvOK
<1>4. worker[w].at # "idle"
  BY DEF IInv, JobsMatchWorkers, Settles, Simulate, Prepare, RecordDelivered,
         RecordPermanent, RecordRetryable, CatchRead, CatchWrite, DatabaseError,
         WorkerCrash, LockLapse
<1> QED
  BY <1>3, <1>4 DEF Settles, Simulate, Prepare, RecordDelivered, RecordPermanent,
                    RecordRetryable, CatchRead, CatchWrite, DatabaseError, WorkerCrash,
                    LockLapse

\* Such a step writes at most an outcome, never the attempt counter.
LEMMA SettlesRow ==
    ASSUME IInv, NEW w \in Workers, Settles(w)
    PROVE  RowsOK' /\ \A x \in Deliveries : delivery'[x].attempt = delivery[x].attempt
<1>1. RowsOK
  BY DEF IInv, TypeOK
<1>2. Target(w) \in Deliveries
  BY SettlesFrame, BusyHasTarget
<1>3. CASE UNCHANGED delivery
  BY <1>1, <1>3 DEF RowsOK
<1>4. CASE Simulate(w) \/ RecordDelivered(w)
  BY <1>1, <1>2, <1>4, OutcomeWritten DEF Simulate, RecordDelivered, Statuses
<1>5. CASE RecordPermanent(w) \/ RecordRetryable(w) \/ CatchWrite(w)
  <2>1. PICK r \in BOOLEAN : Failed(Target(w), r)
    BY <1>5 DEF RecordPermanent, RecordRetryable, CatchWrite
  <2> QED
    BY <1>1, <1>2, <2>1, OutcomeWritten DEF Failed, Statuses
<1>6. CASE Prepare(w) \/ CatchRead(w) \/ DatabaseError(w) \/ WorkerCrash(w) \/ LockLapse(w)
  BY <1>3, <1>6 DEF Prepare, CatchRead, DatabaseError, WorkerCrash, LockLapse
<1> QED
  BY <1>4, <1>5, <1>6 DEF Settles

\* Such a step keeps the invariant.
LEMMA SettlesStep ==
    ASSUME IInv, NEW w \in Workers, Settles(w)
    PROVE  IInv'
<1>1. /\ UNCHANGED <<endpoint, publisher, admin, sweep, posted, accepted>>
      /\ worker[w].at # "idle" /\ EnvOK'
  BY SettlesFrame
<1>2. RowsOK' /\ \A x \in Deliveries : delivery'[x].attempt = delivery[x].attempt
  BY SettlesRow
<1>3. \/ Return(w) \/ Throw(w) \/ WorkerCrash(w) \/ LockLapse(w)
      \/ worker[w].at = "prepare" /\ Goto(w, "post")
      \/ worker[w].at \in {"ok", "permanent", "retryable"} /\ Goto(w, "catch")
      \/ worker[w].at = "catch" /\ Goto(w, "overwrite")
  BY DEF Settles, Simulate, Prepare, RecordDelivered, RecordPermanent, RecordRetryable,
         CatchRead, CatchWrite, DatabaseError
<1>4. JobsSound' /\ QueueOK' /\ JobsMatchWorkers' /\ ClaimsOK' /\ WorkersOK'
  <2>1. CASE Return(w) \/ Throw(w) \/ WorkerCrash(w)
    BY <1>1, <1>2, <2>1, HandlerEnds DEF WorkerCrash
  <2>2. CASE worker[w].at = "prepare" /\ Goto(w, "post")
    BY <1>1, <1>2, <2>2, HandlerGoesOn DEF ClaimedSteps
  <2>3. CASE worker[w].at \in {"ok", "permanent", "retryable"} /\ Goto(w, "catch")
    BY <1>1, <1>2, <2>3, HandlerGoesOn DEF ClaimedSteps
  <2>4. CASE worker[w].at = "catch" /\ Goto(w, "overwrite")
    BY <1>1, <1>2, <2>4, HandlerGoesOn DEF ClaimedSteps
  <2>5. CASE LockLapse(w)
    <3>1. WorkersOK
      BY DEF IInv, TypeOK
    <3> DEFINE new == [worker[w] EXCEPT !.job = NoJob]
    <3>2. /\ worker' = [worker EXCEPT ![w] = new]
          /\ jobs' = Left(w, Stalled(jobs[worker[w].job]))
      BY <2>5, <3>1 DEF LockLapse, WorkersOK
    <3>3. /\ new.job = NoJob /\ new.at = worker[w].at /\ new.target = worker[w].target
          /\ new.attempt = worker[w].attempt
      BY <3>1 DEF WorkersOK
    <3>4. WorkersOK'
      BY <3>1, <3>2 DEF WorkersOK
    <3> HIDE DEF new
    <3> QED
      BY <1>1, <1>2, <3>2, <3>3, <3>4, JobLeft
  <2> QED
    BY <1>3, <2>1, <2>2, <2>3, <2>4, <2>5
<1> QED
  BY <1>1, <1>2, <1>4
     DEF IInv, TypeOK, EndpointsOK, CallersOK, LogsOK, AdminsHaveDeliveries

-----------------------------------------------------------------------------
\* The invariant is inductive.
LEMMA NextIInv == IInv /\ [Next]_vars => IInv'
<1> SUFFICES ASSUME IInv, [Next]_vars PROVE IInv'
  OBVIOUS
<1>1. CASE UNCHANGED vars
  <2>1. UNCHANGED <<endpoint, delivery, jobs, worker, publisher, admin, sweep, posted,
                    accepted, env>>
    BY <1>1 DEF vars
  <2>2. JobsSound' /\ QueueOK' /\ JobsMatchWorkers' /\ ClaimsOK' /\ WorkersOK'
    BY <2>1, JobsUntouched, WorkersUntouched
  <2> QED
    BY <2>1, <2>2 DEF IInv, TypeOK, EndpointsOK, RowsOK, CallersOK, LogsOK, EnvOK,
                      AdminsHaveDeliveries
<1>2. ASSUME NEW w \in Workers, NEW j \in Jobs, Take(w, j) PROVE IInv'
  BY <1>2, TakeStep
<1>3. ASSUME NEW w \in Workers, Handle(w) \/ WorkerCrash(w) \/ LockLapse(w) PROVE IInv'
  BY <1>3, ReadStep, ClaimWins, ClaimLoses, PostStep, SettlesStep DEF Handle, Settles
<1> QED
  BY <1>1, <1>2, <1>3, PublisherStep, RetryStep, SweepStep, ReconfigureStep
     DEF Next, WorkerNext

\* Rows, jobs, workers, requests and logs stay in the states the code of the
\* publishers, processDelivery, retryDelivery and the sweep can produce.
THEOREM TypeCorrect == Spec => []TypeOK
<1>1. IInv => TypeOK
  BY DEF IInv
<1> QED
  BY <1>1, InitIInv, NextIInv, PTL DEF Spec

\* The claim of processDelivery: no two workers process a delivery under the
\* same attempt number, be it through two jobs or through one that was handed
\* out again while its first handler still ran.
THEOREM AttemptHasOneWorker == Spec => []OneWorkerPerAttempt
<1>1. IInv => OneWorkerPerAttempt
  BY DEF IInv, ClaimsOK
<1> QED
  BY <1>1, InitIInv, NextIInv, PTL DEF Spec

\* An attempt is sent at most once, also after users' retries, stalled jobs
\* and crashes.
THEOREM NoAttemptPostedTwice == Spec => []AttemptPostedOnce
<1>1. IInv => AttemptPostedOnce
  BY DEF IInv, ClaimsOK
<1> QED
  BY <1>1, InitIInv, NextIInv, PTL DEF Spec

-----------------------------------------------------------------------------
(* What DELIVERED means *)

\* A worker that is to record a success has the target's acceptance, and one
\* that simulates works for a demo organization.
SuccessIsKnown ==
    \A w \in Workers :
        /\ worker[w].at = "ok" => accepted[Target(w)]
        /\ worker[w].at = "demo" => env.demo

AcceptanceKnown == DeliveredWasAccepted /\ SuccessIsKnown

\* What was accepted stays accepted, and an organization stays a demo or not.
LEMMA AcceptanceStays ==
    ASSUME IInv, [Next]_vars
    PROVE  /\ \A d \in Deliveries : accepted[d] => accepted'[d]
           /\ env'.demo = env.demo
<1>1. LogsOK /\ EnvOK
  BY DEF IInv, TypeOK
<1>2. UNCHANGED accepted \/ \E w \in Workers : Post(w)
  BY DEF Next, WorkerNext, Take, Handle, Read, Claim, Simulate, Prepare, RecordDelivered,
         RecordPermanent, RecordRetryable, CatchRead, CatchWrite, DatabaseError,
         WorkerCrash, LockLapse, PublisherNext, PublishRead, PublishCreate, PublisherCrash,
         PublishEnqueue, Trigger, RetryNext, RetryRead, RetryWrite, RetryEnqueue,
         SweepNext, SweepRead, SweepEnqueue, Reconfigure, vars
<1>3. \A d \in Deliveries : accepted[d] => accepted'[d]
  BY <1>1, <1>2 DEF Post, LogsOK
<1>4. UNCHANGED env \/ Fault \/ \E a \in Admins, d \in Deliveries : RetryRead(a, d)
  BY DEF Next, WorkerNext, Take, Handle, Read, Claim, Simulate, Prepare, Post,
         RecordDelivered, RecordPermanent, RecordRetryable, CatchRead, CatchWrite,
         DatabaseError, WorkerCrash, LockLapse, PublisherNext, PublishRead, PublishCreate,
         PublisherCrash, PublishEnqueue, Trigger, RetryNext, RetryWrite, RetryEnqueue,
         SweepNext, SweepRead, SweepEnqueue, Reconfigure, vars
<1>5. env'.demo = env.demo
  BY <1>1, <1>4 DEF Fault, RetryRead, EnvOK, EnvironmentRecords
<1> QED
  BY <1>3, <1>5

\* DELIVERED is written by Simulate and RecordDelivered, and by nothing else.
LEMMA DeliveredRows ==
    ASSUME IInv, [Next]_vars, NEW d \in Deliveries, delivery'[d].status = "DELIVERED",
           delivery[d].status # "DELIVERED"
    PROVE  \E w \in Workers : (Simulate(w) \/ RecordDelivered(w)) /\ Target(w) = d
<1>1. RowsOK /\ AdminsHaveDeliveries
  BY DEF IInv, TypeOK
<1>2. delivery' # delivery
  OBVIOUS
<1>3. ASSUME NEW w \in Workers, NEW j \in Jobs, Take(w, j) PROVE FALSE
  BY <1>2, <1>3 DEF Take
<1>4. ASSUME NEW w \in Workers, Handle(w)
      PROVE  (Simulate(w) \/ RecordDelivered(w)) /\ Target(w) = d
  <2>1. ~Read(w) /\ ~Prepare(w) /\ ~Post(w) /\ ~CatchRead(w) /\ ~DatabaseError(w)
    BY <1>2 DEF Read, Prepare, Post, CatchRead, DatabaseError
  <2>2. ~Claim(w)
    BY <1>1, <1>2 DEF Claim, RowsOK
  <2>3. ~RecordPermanent(w) /\ ~RecordRetryable(w) /\ ~CatchWrite(w)
    BY <1>1 DEF RecordPermanent, RecordRetryable, CatchWrite, Failed, RowsOK
  <2>4. Simulate(w) \/ RecordDelivered(w)
    BY <1>4, <2>1, <2>2, <2>3 DEF Handle
  <2> QED
    BY <1>1, <1>2, <2>4 DEF Simulate, RecordDelivered, RowsOK
<1>5. ASSUME NEW w \in Workers, WorkerCrash(w) \/ LockLapse(w) PROVE FALSE
  BY <1>2, <1>5 DEF WorkerCrash, LockLapse
<1>6. CASE PublisherNext
  <2>1. ASSUME NEW e \in Events, PublishCreate(e) PROVE FALSE
    BY <1>1, <2>1 DEF PublishCreate, RowsOK
  <2>2. ASSUME NEW e \in AutomationEvents, NEW s \in Subscriptions, Trigger(e, s) PROVE FALSE
    BY <1>1, <2>2 DEF Trigger, RowsOK
  <2> QED
    BY <1>2, <1>6, <2>1, <2>2 DEF PublisherNext, PublishRead, PublisherCrash, PublishEnqueue
<1>7. CASE RetryNext
  <2>1. ASSUME NEW a \in Admins, RetryWrite(a) PROVE FALSE
    BY <1>1, <2>1 DEF RetryWrite, RowsOK
  <2> QED
    BY <1>2, <1>7, <2>1 DEF RetryNext, RetryRead, RetryEnqueue
<1>8. CASE SweepNext \/ (\E s \in Subscriptions : Reconfigure(s)) \/ UNCHANGED vars
  BY <1>2, <1>8 DEF SweepNext, SweepRead, SweepEnqueue, Reconfigure, vars
<1> QED
  BY <1>3, <1>4, <1>5, <1>6, <1>7, <1>8 DEF Next, WorkerNext

\* The workers that do not act in a step keep their steps and deliveries.
LEMMA BystandersStay ==
    ASSUME IInv, NEW w \in Workers,
           (\E j \in Jobs : Take(w, j)) \/ Handle(w) \/ WorkerCrash(w) \/ LockLapse(w)
    PROVE  \A x \in Workers \ {w} : worker'[x] = worker[x] /\ Target(x)' = Target(x)
<1>1. WorkersOK
  BY DEF IInv, TypeOK
<1>2. \A x \in Workers \ {w} : worker'[x] = worker[x]
  <2>1. ASSUME \/ \E j \in Jobs : Take(w, j)
               \/ Return(w) \/ Throw(w) \/ WorkerCrash(w) \/ LockLapse(w)
               \/ \E step : Goto(w, step)
        PROVE  \A x \in Workers \ {w} : worker'[x] = worker[x]
    BY <1>1, <2>1 DEF Take, Return, Throw, WorkerCrash, LockLapse, Goto, WorkersOK
  <2>2. Read(w) => Return(w) \/ \A x \in Workers \ {w} : worker'[x] = worker[x]
    BY <1>1 DEF Read, WorkersOK
  <2> QED
    BY <2>1, <2>2 DEF Handle, Claim, Simulate, Prepare, Post, RecordDelivered,
                      RecordPermanent, RecordRetryable, CatchRead, CatchWrite, DatabaseError
<1> QED
  BY <1>2 DEF Target

\* A worker gets to recording a success through an accepted request, and to a
\* simulation in a demo organization.
LEMMA SuccessIsMade ==
    ASSUME IInv, SuccessIsKnown, NEW w \in Workers,
           (\E j \in Jobs : Take(w, j)) \/ Handle(w) \/ WorkerCrash(w) \/ LockLapse(w)
    PROVE  /\ worker'[w].at = "ok" => accepted'[Target(w)']
           /\ worker'[w].at = "demo" => env'.demo
<1>1. WorkersOK /\ LogsOK /\ EnvOK /\ Idle.at = "idle"
  BY DEF IInv, TypeOK, Idle
<1>2. ASSUME NEW step, Goto(w, step)
      PROVE  worker'[w].at = step /\ Target(w)' = Target(w)
  BY <1>1, <1>2 DEF Goto, Target, WorkersOK
<1>3. ASSUME \/ Return(w) \/ Throw(w) \/ WorkerCrash(w)
             \/ \E j \in Jobs : Take(w, j)
      PROVE  worker'[w].at \in {"idle", "read"}
  BY <1>1, <1>3 DEF Return, Throw, WorkerCrash, Take, WorkersOK, Idle
<1>4. ASSUME NEW step \in {"post", "catch", "overwrite", "prepare"}, Goto(w, step)
      PROVE  worker'[w].at \notin {"ok", "demo"}
  BY <1>2, <1>4
<1>5. CASE Read(w)
  <2>1. worker'[w].at \in {"idle", "claim"}
    BY <1>1, <1>5 DEF Read, Return, WorkersOK, Idle
  <2> QED
    BY <2>1
<1>6. CASE Claim(w)
  <2>1. CASE Goto(w, IF env.demo THEN "demo" ELSE "prepare")
    <3>1. CASE env.demo
      BY <1>2, <1>6, <2>1, <3>1 DEF Claim
    <3>2. CASE ~env.demo
      BY <1>4, <2>1, <3>2
    <3> QED
      BY <3>1, <3>2
  <2>2. CASE Return(w)
    BY <1>3, <2>2
  <2> QED
    BY <1>6, <2>1, <2>2 DEF Claim
<1>7. CASE Post(w)
  <2>1. Target(w) \in Deliveries
    BY <1>7, BusyHasTarget DEF Post
  <2>2. \/ Goto(w, "ok") /\ accepted' = [accepted EXCEPT ![Target(w)] = TRUE]
        \/ \E answer \in {"retryable", "permanent", "catch"} : Goto(w, answer)
    BY <1>7 DEF Post
  <2>3. CASE Goto(w, "ok") /\ accepted' = [accepted EXCEPT ![Target(w)] = TRUE]
    <3>1. accepted'[Target(w)]
      BY <1>1, <2>1, <2>3 DEF LogsOK
    <3>2. Target(w)' = Target(w) /\ worker'[w].at = "ok"
      BY <1>2, <2>3
    <3> QED
      BY <3>1, <3>2
  <2>4. CASE \E answer \in {"retryable", "permanent", "catch"} : Goto(w, answer)
    BY <1>2, <2>4
  <2> QED
    BY <2>2, <2>3, <2>4
<1>8. CASE Settles(w)
  <2>1. \/ Return(w) \/ Throw(w) \/ WorkerCrash(w) \/ LockLapse(w)
        \/ \E step \in {"post", "catch", "overwrite"} : Goto(w, step)
    BY <1>8 DEF Settles, Simulate, Prepare, RecordDelivered, RecordPermanent,
                RecordRetryable, CatchRead, CatchWrite, DatabaseError
  <2>2. CASE LockLapse(w)
    <3>1. /\ worker'[w].at = worker[w].at /\ Target(w)' = Target(w)
          /\ UNCHANGED accepted /\ env'.demo = env.demo
      BY <1>1, <2>2 DEF LockLapse, Fault, Target, WorkersOK, EnvOK, EnvironmentRecords
    <3> QED
      BY <3>1 DEF SuccessIsKnown
  <2> QED
    BY <1>3, <1>4, <2>1, <2>2
<1> QED
  BY <1>3, <1>5, <1>6, <1>7, <1>8 DEF Handle, Settles

LEMMA AcceptanceKnownKept ==
    ASSUME IInv, AcceptanceKnown, [Next]_vars
    PROVE  AcceptanceKnown'
<1>1. /\ \A d \in Deliveries : accepted[d] => accepted'[d]
      /\ env'.demo = env.demo
  BY AcceptanceStays
<1>2. DeliveredWasAccepted'
  <2> SUFFICES ASSUME NEW d \in Deliveries, delivery'[d].status = "DELIVERED"
               PROVE  env'.demo \/ accepted'[d]
    BY DEF DeliveredWasAccepted
  <2>1. CASE delivery[d].status = "DELIVERED"
    BY <1>1, <2>1 DEF AcceptanceKnown, DeliveredWasAccepted
  <2>2. CASE delivery[d].status # "DELIVERED"
    <3>1. PICK w \in Workers : (Simulate(w) \/ RecordDelivered(w)) /\ Target(w) = d
      BY <2>2, DeliveredRows
    <3>2. worker[w].at \in {"demo", "ok"}
      BY <3>1 DEF Simulate, RecordDelivered
    <3> QED
      BY <1>1, <3>1, <3>2 DEF AcceptanceKnown, SuccessIsKnown
  <2> QED
    BY <2>1, <2>2
<1>3. SuccessIsKnown'
  <2>1. CASE \E w \in Workers :
                (\E j \in Jobs : Take(w, j)) \/ Handle(w) \/ WorkerCrash(w) \/ LockLapse(w)
    <3>1. PICK w \in Workers :
              (\E j \in Jobs : Take(w, j)) \/ Handle(w) \/ WorkerCrash(w) \/ LockLapse(w)
      BY <2>1
    <3>2. /\ worker'[w].at = "ok" => accepted'[Target(w)']
          /\ worker'[w].at = "demo" => env'.demo
      BY <3>1, SuccessIsMade DEF AcceptanceKnown
    <3>3. ASSUME NEW x \in Workers \ {w}
          PROVE  /\ worker'[x].at = "ok" => accepted'[Target(x)']
                 /\ worker'[x].at = "demo" => env'.demo
      <4>1. worker'[x] = worker[x] /\ Target(x)' = Target(x)
        BY <3>1, BystandersStay
      <4>2. worker[x].at = "ok" => Target(x) \in Deliveries
        BY BusyHasTarget
      <4> QED
        BY <1>1, <4>1, <4>2 DEF AcceptanceKnown, SuccessIsKnown
    <3>4. ASSUME NEW x \in Workers
          PROVE  /\ worker'[x].at = "ok" => accepted'[Target(x)']
                 /\ worker'[x].at = "demo" => env'.demo
      <4>1. CASE x = w
        BY <3>2, <4>1
      <4>2. CASE x # w
        BY <3>3, <4>2
      <4> QED
        BY <4>1, <4>2
    <3> QED
      BY <3>4 DEF SuccessIsKnown, Target
  <2>2. CASE ~WorkerNext
    <3>1. UNCHANGED worker
      BY <2>2 DEF Next, PublisherNext, PublishRead, PublishCreate, PublisherCrash,
             PublishEnqueue, Trigger, RetryNext, RetryRead, RetryWrite, RetryEnqueue,
             SweepNext, SweepRead, SweepEnqueue, Reconfigure, vars
    <3>2. \A x \in Workers : worker[x].at # "idle" =>
              worker'[x] = worker[x] /\ Target(x)' = Target(x) /\ Target(x) \in Deliveries
      BY <3>1, BusyHasTarget DEF Target
    <3> QED
      BY <1>1, <3>1, <3>2 DEF AcceptanceKnown, SuccessIsKnown
  <2> QED
    BY <2>1, <2>2 DEF WorkerNext
<1> QED
  BY <1>2, <1>3 DEF AcceptanceKnown

\* DELIVERED is only written for a payload that the target accepted, or in a
\* demo organization, whatever races and errors came between.
THEOREM DeliveredMeansAccepted == Spec => []DeliveredWasAccepted
<1>1. Init => AcceptanceKnown
  BY DEF Init, Idle, AcceptanceKnown, DeliveredWasAccepted, SuccessIsKnown
<1>2. IInv /\ AcceptanceKnown /\ [Next]_vars => AcceptanceKnown'
  BY AcceptanceKnownKept
<1>3. AcceptanceKnown => DeliveredWasAccepted
  BY DEF AcceptanceKnown
<1> QED
  BY <1>1, <1>2, <1>3, InitIInv, NextIInv, PTL DEF Spec

-----------------------------------------------------------------------------
(* The attempt counter is a ticket dispenser *)

Numbers == [d \in Deliveries |-> delivery[d].attempt]

\* Steps that neither claim nor send change no number.
LEMMA OtherSteps ==
    ASSUME IInv,
           \/ \E w \in Workers : (\E j \in Jobs : Take(w, j)) \/ Read(w) \/ Settles(w)
           \/ PublisherNext \/ RetryNext \/ SweepNext
           \/ \E s \in Subscriptions : Reconfigure(s)
           \/ UNCHANGED vars
    PROVE  UNCHANGED <<Numbers, posted>>
<1> SUFFICES /\ UNCHANGED posted
             /\ \A d \in Deliveries : delivery'[d].attempt = delivery[d].attempt
  BY DEF Numbers
<1>1. RowsOK /\ AdminsHaveDeliveries
  BY DEF IInv, TypeOK
<1>2. CASE \E w \in Workers : (\E j \in Jobs : Take(w, j)) \/ Read(w)
  BY <1>2 DEF Take, Read
<1>3. CASE \E w \in Workers : Settles(w)
  BY <1>3, SettlesFrame, SettlesRow
<1>4. CASE PublisherNext
  <2>1. CASE \E e \in Events : PublishRead(e) \/ PublisherCrash(e)
                                  \/ \E d \in Deliveries : PublishEnqueue(e, d)
    BY <2>1 DEF PublishRead, PublisherCrash, PublishEnqueue
  <2>2. CASE \E e \in Events : PublishCreate(e)
    BY <1>1, <2>2 DEF PublishCreate, RowsOK
  <2>3. ASSUME NEW e \in AutomationEvents, NEW s \in Subscriptions, Trigger(e, s)
        PROVE  /\ UNCHANGED posted
               /\ \A d \in Deliveries : delivery'[d].attempt = delivery[d].attempt
    BY <1>1, <2>3 DEF Trigger, RowsOK
  <2> QED
    BY <1>4, <2>1, <2>2, <2>3 DEF PublisherNext
<1>5. CASE RetryNext
  BY <1>1, <1>5 DEF RetryNext, RetryRead, RetryWrite, RetryEnqueue, RowsOK
<1>6. CASE SweepNext
  BY <1>6 DEF SweepNext, SweepRead, SweepEnqueue
<1>7. CASE \E s \in Subscriptions : Reconfigure(s)
  BY <1>7 DEF Reconfigure
<1>8. CASE UNCHANGED vars
  BY <1>8 DEF vars
<1> QED
  BY <1>2, <1>3, <1>4, <1>5, <1>6, <1>7, <1>8

\* Every step issues a ticket, uses one, or does neither.
LEMMA StepImplementsTickets ==
    ASSUME IInv, [Next]_vars PROVE [Tickets!Next]_(Tickets!tvars)
<1>1. ASSUME NEW w \in Workers, Claim(w)
      PROVE  Tickets!Next \/ UNCHANGED <<Numbers, posted>>
  <2>1. worker[w].at # "idle" /\ UNCHANGED posted
    BY <1>1 DEF Claim
  <2>2. PICK t \in Deliveries : t = Target(w)
    BY <2>1, BusyHasTarget
  <2>3. CASE Unclaimed(w)
    <3>1. \A d \in Deliveries : delivery'[d].attempt =
              IF d = t THEN delivery[d].attempt + 1 ELSE delivery[d].attempt
      BY <1>1, <2>2, <2>3, ClaimWins
    <3>2. Numbers' = [Numbers EXCEPT ![t] = @ + 1]
      BY <3>1 DEF Numbers
    <3>3. Tickets!Issue(t)
      BY <2>1, <3>2 DEF Tickets!Issue, Numbers
    <3> QED
      BY <3>3 DEF Tickets!Next
  <2>4. CASE ~Unclaimed(w)
    BY <1>1, <2>4, ClaimLoses DEF Numbers
  <2> QED
    BY <2>3, <2>4
<1>2. ASSUME NEW w \in Workers, Post(w) PROVE Tickets!Next
  <2>1. worker[w].at # "idle" /\ UNCHANGED delivery
    BY <1>2 DEF Post
  <2>2. PICK t \in Deliveries : t = Target(w)
    BY <2>1, BusyHasTarget
  <2>3. \E n \in (1..Numbers[t]) \ BagToSet(posted[t]) :
            posted' = [posted EXCEPT ![t] = @ (+) SetToBag({n})]
    BY <1>2, <2>2, PostStep DEF Post, Numbers
  <2>4. UNCHANGED Numbers
    BY <2>1 DEF Numbers
  <2>5. Tickets!Use(t)
    BY <2>3, <2>4 DEF Tickets!Use, Numbers, (+), BagToSet, SetToBag,
                      Tickets!(+), Tickets!BagToSet, Tickets!SetToBag
  <2> QED
    BY <2>5 DEF Tickets!Next
<1>3. Tickets!Next \/ UNCHANGED <<Numbers, posted>>
  BY <1>1, <1>2, OtherSteps DEF Next, WorkerNext, Handle, Settles
<1> QED
  BY <1>3 DEF Numbers, Tickets!tvars

\* Deliveries implement tickets: attempt numbers are issued one at a time, by
\* the claim alone, and the payload is sent at most once under each.
THEOREM DeliveryImplementsTickets == Spec => ImplementsTickets
<1>1. Init => Tickets!Init
  <2> SUFFICES ASSUME Init PROVE Tickets!Init
    OBVIOUS
  <2>1. \A d \in Deliveries : delivery[d].attempt = 0
    BY DEF Init
  <2>2. posted = [d \in Deliveries |-> EmptyBag]
    BY DEF Init
  <2> QED
    BY <2>1, <2>2 DEF Tickets!Init, EmptyBag, SetToBag, Tickets!EmptyBag, Tickets!SetToBag
<1>2. IInv /\ [Next]_vars => [Tickets!Next]_(Tickets!tvars)
  BY StepImplementsTickets
<1> QED
  BY <1>1, <1>2, InitIInv, NextIInv, PTL DEF Spec, Tickets!Spec, ImplementsTickets
-----------------------------------------------------------------------------
(* Retries in a calm environment *)

\* Nothing was reconfigured, no user asked for a retry and no lock lapsed.
CalmIsQuiet ==
    /\ \A w \in Workers : worker[w].at # "idle" => worker[w].job # NoJob
    /\ \A s \in Subscriptions : endpoint[s] = "live"
    /\ \A a \in Admins : admin[a].at = "idle"

\* Every run of a job that was thrown, and the one that is to be, claimed an
\* attempt number of its own.
RunsWereClaimed ==
    /\ \A j \in Jobs : Live(jobs[j]) => jobs[j].made <= delivery[jobs[j].target].attempt
    /\ \A w \in Workers :
          worker[w].at \in ClaimedSteps =>
              jobs[worker[w].job].made < delivery[Target(w)].attempt

\* The job will run the delivery again as long as its row is FAILED: it is
\* waiting, or its worker has not read the row or has read what is there
\* now, or is about to throw.
WillRunAgain(j) ==
    \/ jobs[j].state = "waiting"
    \/ \E w \in Workers :
          /\ worker[w].at # "idle" /\ worker[w].job = j
          /\ \/ worker[w].at \in {"read", "catch"}
             \/ worker[w].at = "claim" /\ Unclaimed(w)

RetriesAreAhead ==
    \A d \in Deliveries :
        delivery[d].status = "FAILED" /\ delivery[d].retryable
            => \/ delivery[d].attempt >= QueueAttempts
               \/ \E j \in Jobs : Live(jobs[j]) /\ jobs[j].target = d /\ WillRunAgain(j)

CalmInv == Calm => CalmIsQuiet /\ RunsWereClaimed /\ RetriesAreAhead

\* Every attempt number is a natural number, and only grows.
LEMMA AttemptsGrow ==
    ASSUME IInv, [Next]_vars, NEW d \in Deliveries
    PROVE  /\ delivery[d].attempt \in Nat /\ delivery'[d].attempt \in Nat
           /\ delivery'[d].attempt >= delivery[d].attempt
<1>1. /\ delivery[d].attempt \in Nat /\ delivery'[d].attempt \in Nat
      /\ Numbers[d] = delivery[d].attempt /\ Numbers'[d] = delivery'[d].attempt
  BY NextIInv DEF IInv, TypeOK, RowsOK, Numbers
<1>2. ASSUME NEW w \in Workers, Claim(w)
      PROVE  delivery'[d].attempt \in {delivery[d].attempt, delivery[d].attempt + 1}
  BY <1>2, ClaimWins, ClaimLoses
<1>3. ASSUME NEW w \in Workers, Post(w) PROVE UNCHANGED delivery
  BY <1>3 DEF Post
<1>4. \/ delivery'[d].attempt \in {delivery[d].attempt, delivery[d].attempt + 1}
      \/ UNCHANGED Numbers
  BY <1>2, <1>3, OtherSteps DEF Next, WorkerNext, Handle, Settles
<1> QED
  BY <1>1, <1>4

\* A calm environment is calm for ever: nothing faults, nobody asks.
LEMMA CalmStays ==
    ASSUME IInv, [Next]_vars
    PROVE  /\ Calm' => Calm
           /\ Calm => ~Fault /\ \A a \in Admins, d \in Deliveries : ~RetryRead(a, d)
<1>1. EnvOK
  BY DEF IInv, TypeOK
<1>2. UNCHANGED env \/ Fault \/ \E a \in Admins, d \in Deliveries : RetryRead(a, d)
  BY DEF Next, WorkerNext, Take, Handle, Read, Claim, Simulate, Prepare, Post,
         RecordDelivered, RecordPermanent, RecordRetryable, CatchRead, CatchWrite,
         DatabaseError, WorkerCrash, LockLapse, PublisherNext, PublishRead, PublishCreate,
         PublisherCrash, PublishEnqueue, Trigger, RetryNext, RetryWrite, RetryEnqueue,
         SweepNext, SweepRead, SweepEnqueue, Reconfigure, vars
<1>3. Calm' => Calm
  BY <1>1, <1>2 DEF Fault, RetryRead, EnvOK, EnvironmentRecords, Calm
<1> QED
  BY <1>1, <1>3 DEF Fault, RetryRead, EnvOK, EnvironmentRecords, Calm

\* What the handler of one worker leaves to the others.
LEMMA HandlerFrame ==
    ASSUME IInv, CalmIsQuiet, NEW w \in Workers, Handle(w)
    PROVE  /\ worker[w].at # "idle" /\ UNCHANGED <<endpoint, admin>>
           /\ worker[w].job \in Jobs /\ jobs[worker[w].job].state = "active"
           /\ worker[w].job # NoJob
           /\ jobs[worker[w].job].target = Target(w)
           /\ \A i \in Jobs : i # worker[w].job => jobs'[i] = jobs[i]
           /\ \A d \in Deliveries : d # Target(w) => delivery'[d] = delivery[d]
           /\ \A x \in Workers \ {w} : worker'[x] = worker[x]
<1>1. RowsOK /\ WorkersOK /\ QueueOK /\ JobsMatchWorkers
  BY DEF IInv, TypeOK
<1>2. worker[w].at # "idle" /\ UNCHANGED <<endpoint, admin>>
  BY DEF Handle, Read, Claim, Simulate, Prepare, Post, RecordDelivered, RecordPermanent,
         RecordRetryable, CatchRead, CatchWrite, DatabaseError
<1>3. UNCHANGED jobs \/ Return(w) \/ Throw(w)
  BY DEF Handle, Read, Claim, Simulate, Prepare, Post, RecordDelivered, RecordPermanent,
         RecordRetryable, CatchRead, CatchWrite, DatabaseError, Goto
<1>4. \A i \in Jobs : i # worker[w].job => jobs'[i] = jobs[i]
  BY <1>1, <1>3 DEF Return, Throw, Left, QueueOK
<1>5. \A d \in Deliveries : d # Target(w) => delivery'[d] = delivery[d]
  BY <1>1 DEF Handle, Read, Claim, Simulate, Prepare, Post, RecordDelivered,
              RecordPermanent, RecordRetryable, CatchRead, CatchWrite, DatabaseError,
              Failed, RowsOK
<1>6. \A x \in Workers \ {w} : worker'[x] = worker[x]
  BY BystandersStay
<1>7. worker[w].job # NoJob /\ worker[w].job \in Jobs
  BY <1>1, <1>2 DEF CalmIsQuiet, WorkersOK
<1> QED
  BY <1>1, <1>2, <1>4, <1>5, <1>6, <1>7 DEF JobsMatchWorkers, Target

\* A handler that goes on keeps the job it has.
LEMMA HandlerKeepsJob ==
    ASSUME IInv, NEW w \in Workers, Handle(w)
    PROVE  worker'[w].at # "idle" => worker'[w].job = worker[w].job
<1>1. WorkersOK /\ Idle.at = "idle"
  BY DEF IInv, TypeOK, Idle
<1>2. ASSUME Return(w) \/ Throw(w) PROVE worker'[w].at = "idle"
  BY <1>1, <1>2 DEF Return, Throw, WorkersOK
<1>3. ASSUME NEW step, Goto(w, step) PROVE worker'[w].job = worker[w].job
  BY <1>1, <1>3 DEF Goto, WorkersOK
<1>4. Read(w) => Return(w) \/ worker'[w].job = worker[w].job
  BY <1>1 DEF Read, WorkersOK
<1> QED
  BY <1>2, <1>3, <1>4 DEF Handle, Claim, Simulate, Prepare, Post, RecordDelivered,
                          RecordPermanent, RecordRetryable, CatchRead, CatchWrite,
                          DatabaseError

\* How a handler step ends in a calm environment: a job that is thrown was
\* claimed, and a worker has claimed its attempt or claims it now.
LEMMA CalmHandler ==
    ASSUME IInv, [Next]_vars, Calm, NEW w \in Workers, Handle(w)
    PROVE  /\ \/ UNCHANGED jobs
              \/ Return(w)
              \/ Throw(w) /\ worker[w].at \in {"catch", "overwrite"}
           /\ worker'[w].at \in ClaimedSteps =>
                 /\ UNCHANGED jobs
                 /\ worker'[w].job = worker[w].job
                 /\ Target(w)' = Target(w)
                 /\ worker[w].at \in ClaimedSteps \/ (Claim(w) /\ Unclaimed(w))
<1>1. WorkersOK
  BY DEF IInv, TypeOK
<1>2. ~Fault
  BY CalmStays
<1>3. Idle.at \notin ClaimedSteps /\ "claim" \notin ClaimedSteps /\ "read" \notin ClaimedSteps
  BY DEF Idle, ClaimedSteps
<1>4. ASSUME Return(w) \/ Throw(w) PROVE worker'[w].at \notin ClaimedSteps
  BY <1>1, <1>3, <1>4 DEF Return, Throw, WorkersOK
<1>5. ASSUME NEW step, Goto(w, step)
      PROVE  /\ UNCHANGED jobs /\ worker'[w].job = worker[w].job
             /\ Target(w)' = Target(w)
  BY <1>1, <1>5 DEF Goto, Target, WorkersOK
<1>6. CASE Read(w)
  <2>1. worker'[w].at \notin ClaimedSteps
    BY <1>1, <1>3, <1>4, <1>6 DEF Read, WorkersOK
  <2> QED
    BY <1>6, <2>1 DEF Read
<1>7. CASE Claim(w)
  BY <1>4, <1>5, <1>7 DEF Claim, Goto
<1>8. CASE Simulate(w) \/ RecordDelivered(w) \/ RecordPermanent(w)
  BY <1>4, <1>8 DEF Simulate, RecordDelivered, RecordPermanent
<1>9. CASE Prepare(w) \/ Post(w) \/ RecordRetryable(w)
  <2>1. worker[w].at \in ClaimedSteps
    BY <1>9 DEF Prepare, Post, RecordRetryable, ClaimedSteps
  <2>2. \E step : Goto(w, step)
    BY <1>2, <1>9 DEF Prepare, Post, RecordRetryable
  <2> QED
    BY <1>5, <2>1, <2>2
<1>10. CASE CatchRead(w) \/ CatchWrite(w)
  <2>1. worker[w].at \in {"catch", "overwrite"} /\ worker[w].at \in ClaimedSteps
    BY <1>10 DEF CatchRead, CatchWrite, ClaimedSteps
  <2>2. Throw(w) \/ \E step : Goto(w, step)
    BY <1>10 DEF CatchRead, CatchWrite
  <2> QED
    BY <1>4, <1>5, <2>1, <2>2
<1>11. ~DatabaseError(w)
  BY <1>2 DEF DatabaseError
<1> QED
  BY <1>6, <1>7, <1>8, <1>9, <1>10, <1>11 DEF Handle

\* A handler step in a calm environment keeps the count of claimed runs.
LEMMA HandlerRuns ==
    ASSUME IInv, [Next]_vars, Calm, CalmIsQuiet, RunsWereClaimed, NEW w \in Workers, Handle(w)
    PROVE  RunsWereClaimed'
<1> DEFINE j == worker[w].job
           t == Target(w)
<1>1. /\ worker[w].at # "idle" /\ j \in Jobs /\ jobs[j].state = "active"
      /\ j # NoJob /\ jobs[j].target = t
      /\ \A i \in Jobs : i # j => jobs'[i] = jobs[i]
      /\ \A x \in Workers \ {w} : worker'[x] = worker[x]
  BY HandlerFrame
<1>2. t \in Deliveries /\ jobs[j].target = t /\ Sound(jobs[j], JobTargets) /\ Live(jobs[j])
  BY <1>1, BusyHasTarget DEF IInv, JobsSound, Live
<1>3. /\ \A d \in Deliveries : /\ delivery[d].attempt \in Nat /\ delivery'[d].attempt \in Nat
                                /\ delivery'[d].attempt >= delivery[d].attempt
      /\ \A i \in Jobs : jobs[i].made \in Nat /\ jobs'[i].made \in Nat
  BY AttemptsGrow, NextIInv, QueueAssumption
     DEF IInv, TypeOK, QueueOK, JobRecords, QueueAssumption
<1>4. /\ UNCHANGED jobs \/ Return(w) \/ (Throw(w) /\ worker[w].at \in {"catch", "overwrite"})
      /\ worker'[w].at \in ClaimedSteps =>
             /\ UNCHANGED jobs /\ worker'[w].job = j /\ Target(w)' = t
             /\ worker[w].at \in ClaimedSteps \/ (Claim(w) /\ Unclaimed(w))
  BY CalmHandler
<1>5. QueueOK
  BY DEF IInv, TypeOK
<1>6. ASSUME NEW i \in Jobs, Live(jobs'[i])
      PROVE  jobs'[i].made <= delivery'[jobs'[i].target].attempt
  <2>1. CASE jobs'[i] = jobs[i]
    <3>1. jobs[i].target \in Deliveries /\ jobs[i].made <= delivery[jobs[i].target].attempt
      BY <1>6, <2>1 DEF RunsWereClaimed, IInv, JobsSound
    <3> QED
      BY <1>3, <2>1, <3>1
  <2>2. CASE jobs'[i] # jobs[i]
    <3>1. i = j /\ jobs' # jobs
      BY <1>1, <2>2
    <3>2. ~Return(w)
      BY <1>1, <1>5, <1>6, <3>1 DEF Return, Left, Released, Returned, NoRecord, Live, QueueOK, JobRecords
    <3>3. Throw(w) /\ worker[w].at \in ClaimedSteps
      BY <1>4, <3>1, <3>2 DEF ClaimedSteps
    <3>4. jobs'[j] = Thrown(jobs[j])
      BY <1>1, <1>5, <1>6, <3>1, <3>3 DEF Throw, Left, Released, NoRecord, Live, QueueOK
    <3>5. jobs'[j].made = jobs[j].made + 1 /\ jobs'[j].target = t
      BY <1>2, <3>4 DEF Thrown, Sound, JobRecords
    <3>6. jobs[j].made < delivery[t].attempt
      BY <3>3 DEF RunsWereClaimed
    <3> QED
      BY <1>2, <1>3, <3>1, <3>5, <3>6
  <2> QED
    BY <2>1, <2>2
<1>7. ASSUME NEW x \in Workers, worker'[x].at \in ClaimedSteps
      PROVE  jobs'[worker'[x].job].made < delivery'[worker'[x].target].attempt
  <2>1. CASE x = w
    <3>1. UNCHANGED jobs /\ worker'[x].job = j /\ worker'[x].target = t
      BY <1>4, <1>7, <2>1 DEF Target
    <3>2. CASE worker[w].at \in ClaimedSteps
      <4>1. jobs[j].made < delivery[t].attempt
        BY <3>2 DEF RunsWereClaimed
      <4> QED
        BY <1>1, <1>2, <1>3, <2>1, <3>1, <4>1
    <3>3. CASE Claim(w) /\ Unclaimed(w)
      <4>1. delivery'[t].attempt = delivery[t].attempt + 1
        BY <1>2, <3>3, ClaimWins
      <4>2. jobs[j].made <= delivery[t].attempt
        BY <1>1, <1>2 DEF RunsWereClaimed
      <4> QED
        BY <1>1, <1>2, <1>3, <3>1, <4>1, <4>2
    <3> QED
      BY <1>4, <1>7, <2>1, <3>2, <3>3
  <2>2. CASE x # w
    <3>1. worker'[x] = worker[x] /\ worker[x].at # "idle"
      BY <1>1, <1>7, <2>2 DEF ClaimedSteps
    <3>2. worker[x].job \in Jobs /\ jobs'[worker[x].job] = jobs[worker[x].job]
      <4>1. WorkersOK
        BY DEF IInv, TypeOK
      <4>2. worker[x].job \in Jobs /\ worker[x].job # j
        BY <1>1, <2>2, <3>1, <4>1 DEF CalmIsQuiet, WorkersOK, IInv, JobsMatchWorkers
      <4> QED
        BY <1>1, <4>2
    <3>3. jobs[worker[x].job].made < delivery[Target(x)].attempt /\ Target(x) \in Deliveries
      BY <1>7, <3>1, BusyHasTarget DEF RunsWereClaimed
    <3> QED
      BY <1>3, <3>1, <3>2, <3>3 DEF Target
  <2> QED
    BY <2>1, <2>2
<1> QED
  BY <1>6, <1>7 DEF RunsWereClaimed, Target

\* What the invariant says of one job and one delivery.
Ahead(j, d) == Live(jobs[j]) /\ jobs[j].target = d /\ WillRunAgain(j)

\* A job that no step touches goes on to run its delivery.
LEMMA AheadStays ==
    ASSUME IInv, NEW j \in Jobs, NEW d \in Deliveries, Ahead(j, d), jobs'[j] = jobs[j],
           delivery'[d] = delivery[d],
           \A x \in Workers : worker[x].at # "idle" /\ worker[x].job = j
                                 => worker'[x] = worker[x]
    PROVE  Ahead(j, d)'
<1>1. CASE jobs[j].state = "waiting"
  BY <1>1 DEF Ahead, WillRunAgain, Live
<1>2. CASE jobs[j].state # "waiting"
  <2>1. PICK x \in Workers : /\ worker[x].at # "idle" /\ worker[x].job = j
                             /\ \/ worker[x].at \in {"read", "catch"}
                                \/ worker[x].at = "claim" /\ Unclaimed(x)
    BY <1>2 DEF Ahead, WillRunAgain
  <2>2. worker'[x] = worker[x] /\ Target(x)' = Target(x) /\ Target(x) = d
    BY <2>1, WebhookAssumption DEF Ahead, Target, IInv, JobsMatchWorkers, WebhookAssumption
  <2>3. Unclaimed(x) => Unclaimed(x)'
    BY <2>2 DEF Unclaimed
  <2> QED
    BY <2>1, <2>2, <2>3 DEF Ahead, WillRunAgain
<1> QED
  BY <1>1, <1>2

\* The handler that leaves its row FAILED and retryable will run again, or
\* threw its last attempt.
LEMMA HandlerAhead ==
    ASSUME IInv, [Next]_vars, Calm, CalmIsQuiet, RunsWereClaimed, NEW w \in Workers,
           Handle(w), NEW t, t = Target(w), NEW j, j = worker[w].job,
           delivery'[t].status = "FAILED", delivery'[t].retryable,
           \/ delivery'[t] # delivery[t]
           \/ worker[w].at \in {"read", "catch"}
           \/ worker[w].at = "claim" /\ Unclaimed(w)
    PROVE  delivery'[t].attempt >= QueueAttempts \/ Ahead(j, t)'
<1>1. RowsOK /\ WorkersOK /\ QueueOK
  BY DEF IInv, TypeOK
<1>2. /\ worker[w].at # "idle" /\ j \in Jobs /\ jobs[j].state = "active"
      /\ j # NoJob /\ jobs[j].target = t
  BY HandlerFrame
<1>3. t \in Deliveries /\ jobs[j].target = t /\ Sound(jobs[j], JobTargets)
  BY <1>2, BusyHasTarget DEF IInv, JobsSound
<1>4. ASSUME Throw(w), worker[w].at \in {"catch", "overwrite"}
      PROVE  delivery'[t].attempt >= QueueAttempts \/ Ahead(j, t)'
  <2>1. jobs[j].made < delivery[t].attempt
    BY <1>4 DEF RunsWereClaimed, ClaimedSteps
  <2>2. /\ delivery[t].attempt \in Nat /\ delivery'[t].attempt \in Nat
        /\ delivery'[t].attempt >= delivery[t].attempt
        /\ jobs[j].made \in Nat /\ QueueAttempts \in Nat
    BY <1>3, AttemptsGrow, QueueAssumption DEF QueueAssumption, Sound, JobRecords
  <2>3. CASE jobs[j].made + 1 < QueueAttempts
    <3>1. Thrown(jobs[j]).state = "waiting" /\ Thrown(jobs[j]).target = t
      BY <1>3, <2>3 DEF Thrown, Sound, JobRecords
    <3>2. jobs'[j] = Thrown(jobs[j])
      BY <1>1, <1>2, <1>4, <3>1 DEF Throw, Left, Released, Live, QueueOK
    <3> QED
      BY <3>1, <3>2 DEF Ahead, WillRunAgain, Live
  <2>4. CASE ~(jobs[j].made + 1 < QueueAttempts)
    BY <2>1, <2>2, <2>4
  <2> QED
    BY <2>3, <2>4
<1>5. CASE Read(w)
  <2>1. UNCHANGED delivery
    BY <1>5 DEF Read
  <2>2. Eligible(t)
    BY <1>3, <2>1 DEF CalmIsQuiet, Eligible, Deliveries
  <2>3. /\ UNCHANGED jobs /\ worker'[w].at = "claim" /\ worker'[w].job = j
        /\ worker'[w].status = delivery[t].status
        /\ worker'[w].attempt = delivery[t].attempt + 1
    BY <1>1, <1>5, <2>2 DEF Read, WorkersOK
  <2>4. worker'[w].target = t
    BY <1>1, <1>5, <2>2 DEF Read, WorkersOK, Target
  <2>5. delivery[t].attempt \in Nat
    BY <1>1, <1>3 DEF RowsOK
  <2>6. Target(w)' = t
    BY <2>4 DEF Target
  <2>7. delivery'[t] = delivery[t] /\ (delivery[t].attempt + 1) - 1 = delivery[t].attempt
    BY <2>1, <2>5
  <2>8. Unclaimed(w)'
    BY <2>3, <2>6, <2>7 DEF Unclaimed
  <2> QED
    BY <1>2, <1>3, <2>3, <2>8 DEF Ahead, WillRunAgain, Live
<1>6. ~Claim(w)
  <2>1. ASSUME Claim(w), Unclaimed(w) PROVE FALSE
    BY <1>1, <1>3, <2>1 DEF Claim, RowsOK
  <2>2. ASSUME Claim(w), ~Unclaimed(w) PROVE FALSE
    BY <2>2 DEF Claim
  <2> QED
    BY <2>1, <2>2
<1>7. ~Simulate(w) /\ ~RecordDelivered(w) /\ ~RecordPermanent(w)
  BY <1>1, <1>3 DEF Simulate, RecordDelivered, RecordPermanent, Failed, RowsOK
<1>8. ~Prepare(w) /\ ~Post(w)
  BY DEF Prepare, Post
<1>9. CASE RecordRetryable(w)
  <2>1. UNCHANGED jobs /\ worker'[w].at = "catch" /\ worker'[w].job = j
    BY <1>1, <1>9 DEF RecordRetryable, Goto, WorkersOK
  <2> QED
    BY <1>2, <1>3, <2>1 DEF Ahead, WillRunAgain, Live
<1>10. CASE CatchRead(w) \/ CatchWrite(w)
  <2>1. Throw(w) /\ worker[w].at \in {"catch", "overwrite"}
    BY <1>10 DEF CatchRead, CatchWrite
  <2> QED
    BY <1>4, <2>1
<1>11. ~DatabaseError(w)
  BY CalmStays DEF DatabaseError
<1> QED
  BY <1>5, <1>6, <1>7, <1>8, <1>9, <1>10, <1>11 DEF Handle

LEMMA HandlerRetries ==
    ASSUME IInv, [Next]_vars, Calm, CalmIsQuiet, RunsWereClaimed, RetriesAreAhead,
           NEW w \in Workers, Handle(w), NEW d \in Deliveries,
           delivery'[d].status = "FAILED", delivery'[d].retryable
    PROVE  delivery'[d].attempt >= QueueAttempts \/ \E j \in Jobs : Ahead(j, d)'
<1> PICK own : own = worker[w].job
  OBVIOUS
<1>1. /\ worker[w].at # "idle" /\ own \in Jobs /\ jobs[own].state = "active"
      /\ own # NoJob /\ jobs[own].target = Target(w)
      /\ \A i \in Jobs : i # own => jobs'[i] = jobs[i]
      /\ \A x \in Deliveries : x # Target(w) => delivery'[x] = delivery[x]
      /\ \A x \in Workers \ {w} : worker'[x] = worker[x]
  BY HandlerFrame
<1>2. CASE delivery'[d] # delivery[d]
  <2>1. d = Target(w)
    BY <1>1, <1>2
  <2>2. delivery'[d].attempt >= QueueAttempts \/ Ahead(own, d)'
    BY <1>2, <2>1, HandlerAhead
  <2> QED
    BY <1>1, <2>2
<1>3. CASE delivery'[d] = delivery[d]
  <2>1. delivery[d].attempt >= QueueAttempts \/ \E j \in Jobs : Ahead(j, d)
    BY <1>3 DEF RetriesAreAhead, Ahead
  <2>2. ASSUME NEW j \in Jobs, Ahead(j, d), j # own PROVE Ahead(j, d)'
    <3>1. \A x \in Workers : worker[x].at # "idle" /\ worker[x].job = j
                                 => worker'[x] = worker[x]
      BY <1>1, <2>2
    <3> QED
      BY <1>1, <1>3, <2>2, <3>1, AheadStays
  <2>3. ASSUME Ahead(own, d)
        PROVE  delivery'[d].attempt >= QueueAttempts \/ Ahead(own, d)'
    <3>1. d = Target(w)
      BY <1>1, <2>3 DEF Ahead
    <3>2. \/ worker[w].at \in {"read", "catch"}
          \/ worker[w].at = "claim" /\ Unclaimed(w)
      BY <1>1, <2>3 DEF Ahead, WillRunAgain, IInv, JobsMatchWorkers
    <3> QED
      BY <3>1, <3>2, HandlerAhead
  <2> QED
    BY <1>1, <1>3, <2>1, <2>2, <2>3
<1> QED
  BY <1>2, <1>3

\* Taking a job brings its worker to the row it will run again.
LEMMA TakeCalm ==
    ASSUME IInv, CalmIsQuiet, RunsWereClaimed, RetriesAreAhead, NEW w \in Workers,
           NEW j \in Jobs, Take(w, j)
    PROVE  CalmIsQuiet' /\ RunsWereClaimed' /\ RetriesAreAhead'
<1>1. WorkersOK /\ QueueOK
  BY DEF IInv, TypeOK
<1>2. /\ UNCHANGED delivery /\ jobs[j].state = "waiting" /\ worker[w].at = "idle"
      /\ worker'[w].at = "read" /\ worker'[w].job = j
      /\ jobs'[j] = Started(jobs[j])
      /\ \A x \in Workers \ {w} : worker'[x] = worker[x]
      /\ \A i \in Jobs : i # j => jobs'[i] = jobs[i]
  BY <1>1 DEF Take, WorkersOK, QueueOK, Idle
<1>3. /\ jobs'[j].target = jobs[j].target /\ jobs'[j].made = jobs[j].made
      /\ jobs'[j].state = "active" /\ Live(jobs[j])
  BY <1>1, <1>2 DEF Started, QueueOK, JobRecords, Live
<1>4. \A x \in Workers : worker[x].at # "idle" => worker[x].job \in Jobs /\ worker[x].job # j
  BY <1>1, <1>2 DEF CalmIsQuiet, WorkersOK, IInv, JobsMatchWorkers
<1>5. RunsWereClaimed'
  <2>1. ASSUME NEW i \in Jobs, Live(jobs'[i])
        PROVE  jobs'[i].made <= delivery'[jobs'[i].target].attempt
    BY <1>2, <1>3, <2>1 DEF RunsWereClaimed
  <2>2. ASSUME NEW x \in Workers, worker'[x].at \in ClaimedSteps
        PROVE  jobs'[worker'[x].job].made < delivery'[Target(x)'].attempt
    BY <1>2, <1>4, <2>2 DEF RunsWereClaimed, ClaimedSteps, Target
  <2> QED
    BY <2>1, <2>2 DEF RunsWereClaimed
<1>6. ASSUME NEW d \in Deliveries, NEW i \in Jobs, Ahead(i, d) PROVE Ahead(i, d)'
  <2>1. CASE i = j
    BY <1>2, <1>3, <1>6, <2>1 DEF Ahead, WillRunAgain, Live
  <2>2. CASE i # j
    <3>1. \A x \in Workers : worker[x].at # "idle" /\ worker[x].job = i
                                 => worker'[x] = worker[x]
      BY <1>2
    <3> QED
      BY <1>2, <1>6, <2>2, <3>1, AheadStays
  <2> QED
    BY <2>1, <2>2
<1>7. CalmIsQuiet'
  <2>1. j # NoJob /\ UNCHANGED <<endpoint, admin>>
    BY WebhookAssumption DEF WebhookAssumption, Take
  <2> QED
    BY <1>2, <2>1 DEF CalmIsQuiet
<1> QED
  BY <1>2, <1>5, <1>6, <1>7 DEF RetriesAreAhead, Ahead

\* What the callers, the sweep and the administrators do to rows and jobs in
\* a calm environment: a row they write is PENDING, a job they add is new.
LEMMA CallersCalm ==
    ASSUME IInv, [Next]_vars, Calm, CalmIsQuiet, ~WorkerNext
    PROVE  /\ UNCHANGED <<worker, endpoint, admin>>
           /\ \A d \in Deliveries : \/ delivery'[d] = delivery[d]
                                    \/ delivery'[d].status = "PENDING"
           /\ \A i \in Jobs : \/ jobs'[i] = jobs[i]
                              \/ jobs[i].state = "none" /\ jobs'[i].made = 0
<1>1. RowsOK /\ QueueOK /\ EnvOK
  BY DEF IInv, TypeOK
<1>2. ASSUME NEW d, Enqueue(d)
      PROVE  \A i \in Jobs : \/ jobs'[i] = jobs[i]
                             \/ jobs[i].state = "none" /\ jobs'[i].made = 0
  <2>1. PICK j \in Jobs : /\ jobs[j].state = "none"
                          /\ jobs' = [jobs EXCEPT ![j] = Added(jobs[j], d)]
    BY <1>2 DEF Enqueue
  <2>2. PICK new : /\ new = Added(jobs[j], d) /\ new.made = 0
                   /\ jobs' = [jobs EXCEPT ![j] = new]
    BY <2>1 DEF Added
  <2>3. jobs'[j].made = 0 /\ \A i \in Jobs : i # j => jobs'[i] = jobs[i]
    BY <1>1, <2>2 DEF QueueOK
  <2> QED
    BY <2>1, <2>3
<1>3. CASE PublisherNext
  <2>1. UNCHANGED <<worker, endpoint, admin>> /\ (UNCHANGED jobs \/ \E d : Enqueue(d))
    BY <1>3 DEF PublisherNext, PublishRead, PublishCreate, PublisherCrash, PublishEnqueue,
                Trigger
  <2>2. ASSUME NEW e \in AutomationEvents, NEW s \in Subscriptions, Trigger(e, s)
        PROVE  \A d \in Deliveries : \/ delivery'[d] = delivery[d]
                                     \/ delivery'[d].status = "PENDING"
    BY <1>1, <2>2 DEF Trigger, RowsOK, Deliveries, Events
  <2>3. ASSUME NEW e \in Events, PublishCreate(e)
        PROVE  \A d \in Deliveries : \/ delivery'[d] = delivery[d]
                                     \/ delivery'[d].status = "PENDING"
    BY <1>1, <2>3 DEF PublishCreate, RowsOK
  <2>4. UNCHANGED delivery \/ (\E e \in Events : PublishCreate(e))
            \/ \E e \in AutomationEvents, s \in Subscriptions : Trigger(e, s)
    BY <1>3 DEF PublisherNext, PublishRead, PublisherCrash, PublishEnqueue
  <2> QED
    BY <1>2, <2>1, <2>2, <2>3, <2>4
<1>4. ~RetryNext
  BY CalmStays DEF CalmIsQuiet, RetryNext, RetryWrite, RetryEnqueue
<1>5. CASE SweepNext
  <2>1. UNCHANGED <<worker, endpoint, admin, delivery>> /\ (UNCHANGED jobs \/ \E d : Enqueue(d))
    BY <1>5 DEF SweepNext, SweepRead, SweepEnqueue
  <2> QED
    BY <1>2, <2>1
<1>6. ~\E s \in Subscriptions : Reconfigure(s)
  BY DEF Reconfigure, Calm
<1>7. CASE UNCHANGED vars
  BY <1>7 DEF vars
<1> QED
  BY <1>3, <1>4, <1>5, <1>6, <1>7 DEF Next

LEMMA CalmInvKept ==
    ASSUME IInv, CalmInv, [Next]_vars
    PROVE  CalmInv'
<1> SUFFICES ASSUME Calm' PROVE CalmIsQuiet' /\ RunsWereClaimed' /\ RetriesAreAhead'
  BY DEF CalmInv
<1>1. Calm /\ CalmIsQuiet /\ RunsWereClaimed /\ RetriesAreAhead
  BY CalmStays DEF CalmInv
<1>2. ASSUME NEW w \in Workers, NEW j \in Jobs, Take(w, j)
      PROVE  CalmIsQuiet' /\ RunsWereClaimed' /\ RetriesAreAhead'
  BY <1>1, <1>2, TakeCalm
<1>3. ASSUME NEW w \in Workers, Handle(w)
      PROVE  CalmIsQuiet' /\ RunsWereClaimed' /\ RetriesAreAhead'
  <2>1. CalmIsQuiet'
    <3>1. /\ worker[w].at # "idle" /\ worker[w].job # NoJob /\ UNCHANGED <<endpoint, admin>>
          /\ \A x \in Workers \ {w} : worker'[x] = worker[x]
      BY <1>1, <1>3, HandlerFrame
    <3>2. worker'[w].at # "idle" => worker'[w].job = worker[w].job
      BY <1>3, HandlerKeepsJob
    <3> QED
      BY <1>1, <3>1, <3>2 DEF CalmIsQuiet
  <2>2. RunsWereClaimed'
    BY <1>1, <1>3, HandlerRuns
  <2>3. RetriesAreAhead'
    BY <1>1, <1>3, HandlerRetries DEF RetriesAreAhead, Ahead
  <2> QED
    BY <2>1, <2>2, <2>3
<1>4. ASSUME NEW w \in Workers, WorkerCrash(w) \/ LockLapse(w) PROVE FALSE
  BY <1>1, <1>4, CalmStays DEF WorkerCrash, LockLapse
<1>5. CASE ~WorkerNext
  <2>1. /\ UNCHANGED <<worker, endpoint, admin>>
        /\ \A d \in Deliveries : \/ delivery'[d] = delivery[d]
                                 \/ delivery'[d].status = "PENDING"
        /\ \A i \in Jobs : \/ jobs'[i] = jobs[i]
                           \/ jobs[i].state = "none" /\ jobs'[i].made = 0
    BY <1>1, <1>5, CallersCalm
  <2>2. \A d \in Deliveries : /\ delivery[d].attempt \in Nat /\ delivery'[d].attempt \in Nat
                              /\ delivery'[d].attempt >= delivery[d].attempt
    BY AttemptsGrow
  <2>3. \A i \in Jobs : /\ jobs[i].made \in Nat
                        /\ Live(jobs[i]) => jobs[i].target \in Deliveries
                        /\ Live(jobs'[i]) => jobs'[i].target \in Deliveries
    BY NextIInv, QueueAssumption
       DEF IInv, JobsSound, Sound, JobRecords, QueueAssumption
  <2>4. RunsWereClaimed'
    <3>1. ASSUME NEW i \in Jobs, Live(jobs'[i])
          PROVE  jobs'[i].made <= delivery'[jobs'[i].target].attempt
      <4>1. CASE jobs'[i] = jobs[i]
        BY <1>1, <2>2, <2>3, <3>1, <4>1 DEF RunsWereClaimed
      <4>2. CASE jobs'[i].made = 0
        BY <2>2, <2>3, <3>1, <4>2
      <4> QED
        BY <2>1, <4>1, <4>2
    <3>2. ASSUME NEW x \in Workers, worker'[x].at \in ClaimedSteps
          PROVE  jobs'[worker'[x].job].made < delivery'[Target(x)'].attempt
      <4>1. /\ worker[x].at # "idle" /\ worker[x].at \in ClaimedSteps
            /\ worker'[x].job = worker[x].job /\ worker'[x].target = worker[x].target
        BY <2>1, <3>2 DEF ClaimedSteps
      <4>2. worker[x].job \in Jobs /\ jobs[worker[x].job].state = "active"
        BY <1>1, <4>1 DEF CalmIsQuiet, IInv, JobsMatchWorkers, TypeOK, WorkersOK
      <4>3. jobs'[worker[x].job] = jobs[worker[x].job]
        BY <2>1, <4>2
      <4>4. Target(x) \in Deliveries /\ jobs[worker[x].job].made < delivery[Target(x)].attempt
        BY <1>1, <4>1, BusyHasTarget DEF RunsWereClaimed
      <4> QED
        BY <2>2, <2>3, <4>1, <4>2, <4>3, <4>4 DEF Target
    <3> QED
      BY <3>1, <3>2 DEF RunsWereClaimed
  <2>5. RetriesAreAhead'
    <3> SUFFICES ASSUME NEW d \in Deliveries, delivery'[d].status = "FAILED",
                        delivery'[d].retryable
                 PROVE  delivery'[d].attempt >= QueueAttempts \/ \E j \in Jobs : Ahead(j, d)'
      BY DEF RetriesAreAhead, Ahead
    <3>1. delivery'[d] = delivery[d]
      BY <2>1
    <3>2. delivery[d].attempt >= QueueAttempts \/ \E j \in Jobs : Ahead(j, d)
      BY <1>1, <3>1 DEF RetriesAreAhead, Ahead
    <3>3. ASSUME NEW j \in Jobs, Ahead(j, d) PROVE Ahead(j, d)'
      <4>1. jobs'[j] = jobs[j]
        BY <2>1, <3>3 DEF Ahead, Live
      <4> QED
        BY <2>1, <3>1, <3>3, <4>1, AheadStays
    <3> QED
      BY <3>1, <3>2, <3>3
  <2> QED
    BY <1>1, <2>1, <2>4, <2>5 DEF CalmIsQuiet
<1> QED
  BY <1>2, <1>3, <1>4, <1>5 DEF WorkerNext

\* Where nothing faults and nobody interferes, automatic retries only stop
\* when the attempts are used up, although concurrent jobs of the same row
\* drop out silently when they lose a claim.
THEOREM CalmRetriesAreMade == Spec => []RetriesAreMade
<1>1. Init => CalmInv
  <2> SUFFICES ASSUME Init PROVE CalmInv
    OBVIOUS
  <2>1. CalmIsQuiet
    BY DEF Init, CalmIsQuiet, NoRetry, Idle
  <2>2. RunsWereClaimed
    BY DEF Init, RunsWereClaimed, Idle, ClaimedSteps, NoRecord, Live
  <2>3. RetriesAreAhead
    BY DEF Init, RetriesAreAhead
  <2> QED
    BY <2>1, <2>2, <2>3 DEF CalmInv
<1>2. IInv /\ CalmInv /\ [Next]_vars => CalmInv'
  BY CalmInvKept
<1>3. CalmInv => RetriesAreMade
  BY DEF CalmInv, RetriesAreAhead, RetriesAreMade
<1> QED
  BY <1>1, <1>2, <1>3, InitIInv, NextIInv, PTL DEF Spec
=============================================================================
