------------------------- MODULE InboundEventsProofs -------------------------
(***************************************************************************)
(* InboundEvents for every number of events, calls, workers, attempts and  *)
(* faults: the types, that workers which have claimed one event hold       *)
(* different attempts, also when one of them was taken for dead, and that  *)
(* attempts are claimed and used like tickets.                             *)
(***************************************************************************)
EXTENDS InboundEvents, JobQueueProofs

JobTargets == Events \cup {NoEvent}

\* Every job record is sound: in particular a live job has an attempt left.
JobsSound == \A e \in Events : Sound(jobs[e], JobTargets)

\* A busy worker is about an event; while it holds the lock, it runs the active
\* job of that event.
BusyHasJob ==
    \A w \in Workers :
        /\ worker[w].at # "idle" => worker[w].event \in Events
        /\ worker[w].holds =>
              worker[w].at # "idle" /\ jobs[worker[w].event].state = "active"

\* The fixed job id: an event's job is held by one worker at a time.
OneHolderPerEvent ==
    \A w1, w2 \in Workers :
        w1 # w2 /\ worker[w1].holds /\ worker[w2].holds => worker[w1].event # worker[w2].event

\* A call in progress is about an event.
CallsHaveEvents ==
    /\ \A r \in Requests : request[r].at # "idle" => request[r].event \in Events
    /\ \A a \in Admins : admin[a].at # "idle" => admin[a].event \in Events

IInv == TypeOK /\ JobsSound /\ BusyHasJob /\ CallsHaveEvents /\ OneHolderPerEvent

\* Nothing is stored and nobody is at work.
LEMMA InitIInv == Init => IInv
<1> SUFFICES ASSUME Init PROVE IInv
  OBVIOUS
<1>1. JobsSound
  BY NoRecordSound DEF Init, JobsSound, JobTargets
<1>2. QueueOK
  BY <1>1 DEF Init, JobsSound, Sound, QueueOK, JobTargets
<1>3. IsABag(EmptyBag) /\ BagToSet(EmptyBag) = {}
  BY DEF IsABag, BagToSet, SetToBag, EmptyBag
<1>4. EnvOK
  BY InboundAssumption DEF Init, InboundAssumption, EnvironmentRecords, EnvOK
<1>5. TypeOK
  BY <1>2, <1>3, <1>4 DEF Init, TypeOK, RowsOK, WorkersOK, CallsOK, LogsOK, Idle, Free
<1> QED
  BY <1>1, <1>5 DEF Init, IInv, BusyHasJob, CallsHaveEvents, OneHolderPerEvent, Idle, Free

-----------------------------------------------------------------------------
(* The queue's part of a step *)

\* Replacing a job record by a sound one keeps them all sound.
LEMMA OneJobReplaced ==
    ASSUME IInv, NEW e \in Events, NEW job, Sound(job, JobTargets),
           jobs' = [jobs EXCEPT ![e] = job]
    PROVE  JobsSound' /\ QueueOK'
<1>1. QueueOK
  BY DEF IInv, TypeOK
<1>2. \A x \in Events : Sound(jobs'[x], JobTargets)
  BY <1>1 DEF IInv, JobsSound, QueueOK
<1>3. JobsSound'
  BY <1>2 DEF JobsSound
<1> QED
  BY <1>1, <1>3 DEF JobsSound, Sound, QueueOK, JobTargets

\* The records that a step leaves alone stay sound.
LEMMA JobsUntouched ==
    ASSUME IInv, UNCHANGED jobs
    PROVE  JobsSound' /\ QueueOK'
BY DEF IInv, TypeOK, QueueOK, JobsSound

\* An add never touches the record of a job that is being run.
LEMMA EnqueueKeeps ==
    ASSUME IInv, NEW e \in Events, Enqueue(e)
    PROVE  /\ JobsSound' /\ QueueOK'
           /\ \A x \in Events : jobs[x].state = "active" => jobs'[x] = jobs[x]
<1>1. Sound(Added(jobs[e], e), JobTargets)
  BY AddedSound DEF IInv, JobsSound, JobTargets
<1>2. jobs' = [jobs EXCEPT ![e] = Added(jobs[e], e)]
  BY DEF Enqueue
<1>3. QueueOK
  BY DEF IInv, TypeOK
<1>4. \A x \in Events : jobs[x].state = "active" => jobs'[x] = jobs[x]
  BY <1>2, <1>3 DEF QueueOK, Added
<1> QED
  BY <1>1, <1>2, <1>4, OneJobReplaced

\* However a worker leaves its job, only that record changes, and it changes
\* only when the worker still holds the lock.
LEMMA JobLeft ==
    ASSUME IInv, NEW w \in Workers, worker[w].at # "idle",
           NEW new, worker' = [worker EXCEPT ![w] = new],
           new.holds = FALSE, new.at # "idle" => new.event = worker[w].event,
           \/ jobs' = Left(w, Returned(jobs[worker[w].event]))
           \/ jobs' = Left(w, Thrown(jobs[worker[w].event]))
           \/ jobs' = Left(w, Stalled(jobs[worker[w].event]))
    PROVE  JobsSound' /\ QueueOK' /\ BusyHasJob' /\ OneHolderPerEvent'
<1> DEFINE e == worker[w].event
<1>1. e \in Events /\ Sound(jobs[e], JobTargets)
  BY DEF IInv, BusyHasJob, JobsSound
<1>2. /\ DOMAIN worker = Workers /\ DOMAIN jobs = Events
      /\ \A x \in Workers : worker[x].holds \in BOOLEAN
  BY DEF IInv, TypeOK, WorkersOK, QueueOK
<1>3. CASE ~worker[w].holds
  <2>1. UNCHANGED jobs
    BY <1>3 DEF Left
  <2>2. JobsSound' /\ QueueOK'
    BY <2>1, JobsUntouched
  <2>3. \A x \in Workers :
            /\ worker'[x].holds => worker'[x] = worker[x]
            /\ worker'[x].at # "idle" => worker'[x].event = worker[x].event
                                           /\ worker[x].at # "idle"
    BY <1>2
  <2>4. BusyHasJob' /\ OneHolderPerEvent'
    BY <2>1, <2>3 DEF IInv, BusyHasJob, OneHolderPerEvent
  <2> QED
    BY <2>2, <2>4
<1>4. CASE worker[w].holds
  <2>1. Live(jobs[e])
    BY <1>4 DEF IInv, BusyHasJob, Live
  <2>2. /\ Sound(Returned(jobs[e]), JobTargets)
        /\ Sound(Thrown(jobs[e]), JobTargets)
        /\ Sound(Stalled(jobs[e]), JobTargets)
    BY <1>1, <2>1, ReturnedSound, ThrownSound, StalledSound
  <2>3. PICK job : Sound(job, JobTargets) /\ jobs' = [jobs EXCEPT ![e] = job]
    BY <1>4, <2>2 DEF Left
  <2>4. JobsSound' /\ QueueOK'
    BY <1>1, <2>3, OneJobReplaced
  <2>5. \A x \in Workers :
            /\ worker'[x].holds => x # w /\ worker'[x] = worker[x] /\ worker[x].event # e
            /\ worker'[x].at # "idle" => worker'[x].event = worker[x].event
                                           /\ worker[x].at # "idle"
    BY <1>2, <1>4 DEF IInv, OneHolderPerEvent
  <2>6. BusyHasJob'
    BY <1>2, <2>3, <2>5 DEF IInv, BusyHasJob
  <2>7. OneHolderPerEvent'
    BY <2>5 DEF IInv, OneHolderPerEvent
  <2> QED
    BY <2>4, <2>6, <2>7
<1> QED
  BY <1>2, <1>3, <1>4

\* The worker is free when its handler has ended.
LEMMA HandlerEnds ==
    ASSUME IInv, NEW w \in Workers, worker[w].at # "idle",
           \/ Return(w)
           \/ Throw(w)
           \/ /\ jobs' = Left(w, Stalled(jobs[worker[w].event]))
              /\ worker' = [worker EXCEPT ![w] = Idle]
    PROVE  /\ JobsSound' /\ QueueOK'
           /\ worker' = [worker EXCEPT ![w] = Idle]
           /\ BusyHasJob' /\ OneHolderPerEvent'
<1>1. worker' = [worker EXCEPT ![w] = Idle] /\ Idle.holds = FALSE /\ Idle.at = "idle"
  BY DEF Return, Throw, Idle
<1>2. \/ jobs' = Left(w, Returned(jobs[worker[w].event]))
      \/ jobs' = Left(w, Thrown(jobs[worker[w].event]))
      \/ jobs' = Left(w, Stalled(jobs[worker[w].event]))
  BY DEF Return, Throw
<1> QED
  BY <1>1, <1>2, JobLeft

\* Workers that keep their events keep their jobs.
LEMMA EventsKept ==
    ASSUME IInv, UNCHANGED jobs,
           \A x \in Workers : /\ worker'[x].event = worker[x].event
                              /\ worker'[x].holds = worker[x].holds
                              /\ worker'[x].at # "idle" <=> worker[x].at # "idle"
    PROVE  BusyHasJob' /\ OneHolderPerEvent'
<1>1. BusyHasJob'
  BY DEF IInv, BusyHasJob
<1>2. OneHolderPerEvent'
  BY DEF IInv, OneHolderPerEvent
<1> QED
  BY <1>1, <1>2

\* A worker that goes on to its next step keeps its job.
LEMMA HandlerGoesOn ==
    ASSUME IInv, NEW w \in Workers, worker[w].at # "idle",
           NEW step, step # "idle", Goto(w, step)
    PROVE  /\ JobsSound' /\ QueueOK'
           /\ BusyHasJob' /\ OneHolderPerEvent'
<1>1. UNCHANGED jobs /\ worker' = [worker EXCEPT ![w].at = step]
  BY DEF Goto
<1>2. \A x \in Workers : /\ worker'[x].event = worker[x].event
                          /\ worker'[x].holds = worker[x].holds
                          /\ worker'[x].at # "idle" <=> worker[x].at # "idle"
  BY <1>1 DEF IInv, TypeOK, WorkersOK
<1>3. JobsSound' /\ QueueOK'
  BY <1>1, JobsUntouched
<1>4. BusyHasJob' /\ OneHolderPerEvent'
  BY <1>1, <1>2, EventsKept
<1> QED
  BY <1>3, <1>4

\* A step that no worker takes and that keeps the records of active jobs.
LEMMA WorkersUntouched ==
    ASSUME IInv, UNCHANGED worker,
           \A x \in Events : jobs[x].state = "active" => jobs'[x] = jobs[x]
    PROVE  BusyHasJob' /\ OneHolderPerEvent'
BY DEF IInv, BusyHasJob, OneHolderPerEvent

\* A fault is counted.
LEMMA FaultCounted ==
    ASSUME EnvOK, NEW kind, Fault(kind) PROVE EnvOK'
BY DEF EnvOK, EnvironmentRecords, Fault

-----------------------------------------------------------------------------
(* The webhook calls *)

\* Every step of a call of receiveInbound keeps the invariant.
LEMMA CallStep ==
    ASSUME IInv, NEW r \in Requests,
           (\E e \in Events : Receive(r, e)) \/ Proceed(r) \/ RequestAbort(r)
    PROVE  IInv'
<1> USE DEF IInv, TypeOK
<1>1. ASSUME NEW e \in Events, Receive(r, e) PROVE IInv'
  <2>1. UNCHANGED <<jobs, worker, admin, sweep, processed, env>>
    BY <1>1 DEF Receive
  <2>2. JobsSound' /\ QueueOK' /\ BusyHasJob' /\ OneHolderPerEvent'
    BY <2>1, JobsUntouched, WorkersUntouched
  <2>3. RowsOK'
    BY <1>1 DEF RowsOK, Receive
  <2>4. CallsOK' /\ CallsHaveEvents'
    BY <1>1 DEF CallsOK, CallsHaveEvents, Receive
  <2>5. LogsOK'
    BY <1>1, <2>1 DEF LogsOK, Receive
  <2> QED
    BY <2>1, <2>2, <2>3, <2>4, <2>5 DEF WorkersOK, EnvOK
<1>2. ASSUME Touch(r) PROVE IInv'
  <2>1. UNCHANGED <<event, jobs, worker, sweep, answered, processed, env>>
    BY <1>2 DEF Touch
  <2>2. JobsSound' /\ QueueOK' /\ BusyHasJob' /\ OneHolderPerEvent'
    BY <2>1, JobsUntouched, WorkersUntouched
  <2>3. CallsOK' /\ CallsHaveEvents'
    BY <1>2 DEF CallsOK, CallsHaveEvents, Touch
  <2> QED
    BY <2>1, <2>2, <2>3 DEF RowsOK, WorkersOK, LogsOK, EnvOK
<1>3. ASSUME RequestEnqueue(r) PROVE IInv'
  <2>1. request[r].event \in Events
    BY <1>3 DEF CallsHaveEvents, RequestEnqueue
  <2>2. Enqueue(request[r].event) \/ UNCHANGED jobs
    BY <1>3 DEF RequestEnqueue, EnqueueError
  <2>3. /\ JobsSound' /\ QueueOK'
        /\ \A x \in Events : jobs[x].state = "active" => jobs'[x] = jobs[x]
    BY <2>1, <2>2, EnqueueKeeps, JobsUntouched
  <2>4. UNCHANGED <<event, worker, sweep, processed, admin>>
    BY <1>3 DEF RequestEnqueue
  <2>5. BusyHasJob' /\ OneHolderPerEvent'
    BY <2>3, <2>4, WorkersUntouched
  <2>6. EnvOK'
    BY <1>3, FaultCounted DEF RequestEnqueue, EnqueueError, EnvOK
  <2>7. CallsOK' /\ CallsHaveEvents'
    BY <1>3, <2>1 DEF CallsOK, CallsHaveEvents, RequestEnqueue, Free
  <2>8. LogsOK'
    BY <1>3, <2>1, <2>4 DEF LogsOK, RequestEnqueue
  <2> QED
    BY <2>3, <2>4, <2>5, <2>6, <2>7, <2>8 DEF RowsOK, WorkersOK
<1>4. ASSUME RequestFail(r) PROVE IInv'
  <2>1. UNCHANGED <<jobs, worker, sweep, answered, processed, env>>
    BY <1>4 DEF RequestFail
  <2>2. JobsSound' /\ QueueOK' /\ BusyHasJob' /\ OneHolderPerEvent'
    BY <2>1, JobsUntouched, WorkersUntouched
  <2>3. RowsOK'
    BY <1>4 DEF RowsOK, RequestFail
  <2>4. CallsOK' /\ CallsHaveEvents'
    BY <1>4 DEF CallsOK, CallsHaveEvents, RequestFail, Free
  <2> QED
    BY <2>1, <2>2, <2>3, <2>4 DEF WorkersOK, LogsOK, EnvOK
<1>5. ASSUME RequestAbort(r) PROVE IInv'
  <2>1. UNCHANGED <<event, jobs, worker, sweep, answered, processed>>
    BY <1>5 DEF RequestAbort
  <2>2. JobsSound' /\ QueueOK' /\ BusyHasJob' /\ OneHolderPerEvent'
    BY <2>1, JobsUntouched, WorkersUntouched
  <2>3. EnvOK'
    BY <1>5, FaultCounted DEF RequestAbort
  <2>4. CallsOK' /\ CallsHaveEvents'
    BY <1>5 DEF CallsOK, CallsHaveEvents, RequestAbort, Free
  <2> QED
    BY <2>1, <2>2, <2>3, <2>4 DEF RowsOK, WorkersOK, LogsOK
<1> QED
  BY <1>1, <1>2, <1>3, <1>4, <1>5 DEF Proceed

-----------------------------------------------------------------------------
(* The workers *)

\* Taking a waiting job cannot give it a second holder: a holder's job is
\* active, and an event has one job record.
LEMMA TakeStep ==
    ASSUME IInv, NEW w \in Workers, NEW e \in Events, Take(w, e)
    PROVE  IInv'
<1> USE DEF IInv, TypeOK
<1> DEFINE taken == [Idle EXCEPT !.at = "read", !.event = e, !.holds = TRUE]
<1>1. UNCHANGED <<event, request, admin, sweep, answered, processed, env>>
  BY DEF Take
<1>2. /\ jobs' = [jobs EXCEPT ![e] = Started(jobs[e])] /\ jobs[e].state = "waiting"
      /\ worker' = [worker EXCEPT ![w] = taken]
  BY DEF Take
<1>3. Sound(Started(jobs[e]), JobTargets) /\ Started(jobs[e]).state = "active"
  BY <1>2, StartedSound DEF JobsSound
<1>4. JobsSound' /\ QueueOK'
  BY <1>2, <1>3, OneJobReplaced
<1>5. WorkersOK'
  BY <1>2 DEF WorkersOK, Idle
<1>6. taken.at = "read" /\ taken.event = e /\ taken.holds = TRUE
  BY DEF Idle
<1> HIDE DEF taken
<1>7. /\ worker'[w].at = "read" /\ worker'[w].event = e /\ jobs'[e].state = "active"
      /\ \A x \in Workers \ {w} : worker'[x] = worker[x]
      /\ \A y \in Events \ {e} : jobs'[y] = jobs[y]
  BY <1>2, <1>3, <1>6 DEF WorkersOK, QueueOK
<1>8. \A x \in Workers : worker[x].holds => worker[x].event # e
  BY <1>2 DEF BusyHasJob
<1>9. BusyHasJob' /\ OneHolderPerEvent'
  BY <1>7, <1>8 DEF BusyHasJob, OneHolderPerEvent
<1> QED
  BY <1>1, <1>4, <1>5, <1>9 DEF RowsOK, CallsOK, LogsOK, EnvOK, CallsHaveEvents

\* A busy worker's next value is of the right type.
LEMMA WorkerTyped ==
    ASSUME IInv, NEW w \in Workers, worker[w].at # "idle",
           \/ worker' = [worker EXCEPT ![w] = Idle]
           \/ \E step \in {"read", "claim", "write", "fail"} :
                 worker' = [worker EXCEPT ![w].at = step]
    PROVE  WorkersOK'
<1> USE DEF IInv, TypeOK, WorkersOK, Idle
<1>1. CASE worker' = [worker EXCEPT ![w] = Idle]
  BY <1>1
<1>2. CASE \E step \in {"read", "claim", "write", "fail"} :
              worker' = [worker EXCEPT ![w].at = step]
  BY <1>2
<1> QED
  BY <1>1, <1>2

\* Every step of processInboundEvent, the death of its worker and the lapse
\* of its lock, keep the invariant.
LEMMA HandleStep ==
    ASSUME IInv, NEW w \in Workers, Handle(w) \/ WorkerCrash(w) \/ LockLapse(w)
    PROVE  IInv'
<1> USE DEF IInv, TypeOK
<1> DEFINE e == worker[w].event
<1>1. worker[w].at # "idle" /\ e \in Events
  BY DEF Handle, Read, Claim, WriteProcessed, WriteFailed, DatabaseError, WorkerCrash,
         LockLapse, BusyHasJob
<1>2. /\ UNCHANGED <<request, admin, sweep, answered>>
      /\ CallsHaveEvents' /\ CallsOK'
  BY DEF Handle, Read, Claim, WriteProcessed, WriteFailed, DatabaseError, WorkerCrash,
         LockLapse, CallsHaveEvents, CallsOK
<1>3. ASSUME Read(w) PROVE IInv'
  <2>1. UNCHANGED <<event, processed, env>>
    BY <1>3 DEF Read
  <2>2. CASE event[e].status \in {"RECEIVED", "FAILED"}
    <3>1. /\ UNCHANGED jobs
          /\ worker' = [worker EXCEPT ![w].at = "claim", ![w].status = event[e].status,
                                      ![w].attempt = event[e].attempt + 1]
      BY <1>3, <2>2 DEF Read, Processable
    <3> DEFINE new == [worker[w] EXCEPT !.at = "claim", !.status = event[e].status,
                                        !.attempt = event[e].attempt + 1]
    <3>2. event[e].attempt + 1 \in Nat
      BY <1>1 DEF RowsOK
    <3>3. worker' = [worker EXCEPT ![w] = new]
      BY <3>1 DEF WorkersOK
    <3>4. /\ new.event = worker[w].event /\ new.holds = worker[w].holds
          /\ new.at = "claim"
          /\ new \in [at : {"idle", "read", "claim", "write", "fail"},
                      event : Events \cup {NoEvent},
                      status : {"absent", "RECEIVED", "FAILED"}, attempt : Nat,
                      holds : BOOLEAN]
      BY <2>2, <3>2 DEF WorkersOK
    <3>5. WorkersOK'
      BY <3>3, <3>4 DEF WorkersOK
    <3> HIDE DEF new
    <3>6. \A x \in Workers : /\ worker'[x].event = worker[x].event
                             /\ worker'[x].holds = worker[x].holds
                             /\ worker'[x].at # "idle" <=> worker[x].at # "idle"
      <4>1. worker'[w] = new /\ \A x \in Workers \ {w} : worker'[x] = worker[x]
        BY <3>3 DEF WorkersOK
      <4>2. /\ worker'[w].event = worker[w].event /\ worker'[w].holds = worker[w].holds
            /\ worker'[w].at = "claim" /\ worker[w].at # "idle"
        BY <1>1, <3>4, <4>1
      <4> QED
        BY <4>1, <4>2
    <3>7. BusyHasJob' /\ OneHolderPerEvent'
      BY <3>1, <3>6, EventsKept
    <3> QED
      BY <1>2, <2>1, <3>1, <3>5, <3>7, JobsUntouched DEF RowsOK, LogsOK, EnvOK
  <2>3. CASE ~(event[e].status \in {"RECEIVED", "FAILED"})
    <3>1. Return(w)
      BY <1>3, <2>3 DEF Read, Processable
    <3> QED
      BY <1>1, <1>2, <2>1, <3>1, HandlerEnds, WorkerTyped DEF RowsOK, LogsOK, EnvOK
  <2> QED
    BY <2>2, <2>3
<1>4. ASSUME Claim(w) PROVE IInv'
  <2>1. UNCHANGED <<processed, env>>
    BY <1>4 DEF Claim
  <2>2. RowsOK'
    BY <1>4 DEF Claim, RowsOK, WorkersOK
  <2>3. Goto(w, "write") \/ Return(w)
    BY <1>4 DEF Claim
  <2>4. JobsSound' /\ QueueOK' /\ BusyHasJob' /\ OneHolderPerEvent'
    BY <1>1, <2>3, HandlerGoesOn, HandlerEnds
  <2>5. WorkersOK'
    BY <1>1, <2>3, WorkerTyped DEF Goto, Return
  <2> QED
    BY <1>2, <2>1, <2>2, <2>4, <2>5 DEF LogsOK, EnvOK
<1>5. ASSUME WriteProcessed(w) PROVE IInv'
  <2>1. Return(w) /\ UNCHANGED env
    BY <1>5 DEF WriteProcessed
  <2>2. RowsOK'
    BY <1>5 DEF WriteProcessed, RowsOK
  <2>3. worker[w].attempt \in Nat
    BY DEF WorkersOK
  <2>4. /\ IsABag(processed[e] (+) SetToBag({worker[w].attempt}))
        /\ BagToSet(processed[e] (+) SetToBag({worker[w].attempt})) \subseteq Nat
    BY <1>1, <2>3 DEF LogsOK, IsABag, BagToSet, SetToBag, (+)
  <2>5. processed' = [processed EXCEPT ![e] = processed[e] (+) SetToBag({worker[w].attempt})]
    BY <1>5 DEF WriteProcessed
  <2>6. LogsOK'
    BY <1>2, <2>4, <2>5 DEF LogsOK
  <2> QED
    BY <1>1, <1>2, <2>1, <2>2, <2>6, HandlerEnds, WorkerTyped DEF EnvOK
<1>6. ASSUME WriteFailed(w) PROVE IInv'
  <2>1. Throw(w) /\ UNCHANGED <<processed, env>>
    BY <1>6 DEF WriteFailed
  <2> DEFINE b == worker[w].attempt < EventAttempts
             failed(r) == [event EXCEPT ![e].status = "FAILED", ![e].retryable = r]
  <2>2. event' = failed(b) /\ b \in BOOLEAN
    BY <1>6 DEF WriteFailed
  <2> HIDE DEF b
  <2>3. \A r \in BOOLEAN : failed(r) \in
            [Events -> [status : {"absent", "RECEIVED", "PROCESSING", "PROCESSED", "FAILED"},
                        attempt : Nat, retryable : BOOLEAN]]
    BY DEF RowsOK
  <2>4. RowsOK'
    BY <2>2, <2>3 DEF RowsOK
  <2> QED
    BY <1>1, <1>2, <2>1, <2>4, HandlerEnds, WorkerTyped DEF LogsOK, EnvOK
<1>7. ASSUME DatabaseError(w) PROVE IInv'
  <2>1. UNCHANGED <<event, processed>> /\ EnvOK'
    BY <1>7, FaultCounted DEF DatabaseError
  <2>2. Goto(w, "fail") \/ Throw(w)
    BY <1>7 DEF DatabaseError
  <2>3. JobsSound' /\ QueueOK' /\ BusyHasJob' /\ OneHolderPerEvent'
    BY <1>1, <2>2, HandlerGoesOn, HandlerEnds
  <2>4. WorkersOK'
    BY <1>1, <2>2, WorkerTyped DEF Goto, Throw
  <2> QED
    BY <1>2, <2>1, <2>3, <2>4 DEF RowsOK, LogsOK
<1>8. ASSUME WorkerCrash(w) PROVE IInv'
  <2>1. UNCHANGED <<event, processed>> /\ EnvOK'
    BY <1>8, FaultCounted DEF WorkerCrash
  <2>2. /\ JobsSound' /\ QueueOK' /\ BusyHasJob' /\ OneHolderPerEvent'
        /\ worker' = [worker EXCEPT ![w] = Idle]
    BY <1>1, <1>8, HandlerEnds DEF WorkerCrash
  <2> QED
    BY <1>1, <1>2, <2>1, <2>2, WorkerTyped DEF RowsOK, LogsOK
<1>9. ASSUME LockLapse(w) PROVE IInv'
  <2>1. UNCHANGED <<event, processed>> /\ EnvOK'
    BY <1>9, FaultCounted DEF LockLapse
  <2> DEFINE new == [worker[w] EXCEPT !.holds = FALSE]
  <2>2. /\ worker' = [worker EXCEPT ![w] = new]
        /\ jobs' = Left(w, Stalled(jobs[e]))
        /\ new.holds = FALSE /\ new.event = e
    BY <1>9 DEF LockLapse, WorkersOK
  <2>3. WorkersOK'
    BY <2>2 DEF WorkersOK
  <2> HIDE DEF new
  <2>4. JobsSound' /\ QueueOK' /\ BusyHasJob' /\ OneHolderPerEvent'
    BY <1>1, <2>2, JobLeft
  <2> QED
    BY <1>2, <2>1, <2>3, <2>4 DEF RowsOK, LogsOK
<1> QED
  BY <1>3, <1>4, <1>5, <1>6, <1>7, <1>8, <1>9 DEF Handle

-----------------------------------------------------------------------------
(* The users' retries, the sweep and the retention of finished jobs *)

\* Every step of retryEvent keeps the invariant.
LEMMA AdminStep ==
    ASSUME IInv, NEW a \in Admins,
           (\E e \in Events : RetryRead(a, e)) \/ RetryWrite(a) \/ RetryEnqueue(a)
    PROVE  IInv'
<1> USE DEF IInv, TypeOK
<1>1. ASSUME NEW e \in Events, RetryRead(a, e) PROVE IInv'
  <2>1. UNCHANGED <<event, jobs, worker, request, sweep, answered, processed>>
    BY <1>1 DEF RetryRead
  <2>2. JobsSound' /\ QueueOK' /\ BusyHasJob' /\ OneHolderPerEvent'
    BY <2>1, JobsUntouched, WorkersUntouched
  <2>3. EnvOK'
    BY <1>1 DEF RetryRead, EnvOK, EnvironmentRecords
  <2>4. CallsOK' /\ CallsHaveEvents'
    BY <1>1 DEF CallsOK, CallsHaveEvents, RetryRead
  <2> QED
    BY <2>1, <2>2, <2>3, <2>4 DEF RowsOK, WorkersOK, LogsOK
<1>2. ASSUME RetryWrite(a) PROVE IInv'
  <2>1. UNCHANGED <<jobs, worker, request, sweep, answered, processed, env>>
    BY <1>2 DEF RetryWrite
  <2>2. JobsSound' /\ QueueOK' /\ BusyHasJob' /\ OneHolderPerEvent'
    BY <2>1, JobsUntouched, WorkersUntouched
  <2>3. RowsOK'
    BY <1>2 DEF RowsOK, RetryWrite
  <2>4. CallsOK' /\ CallsHaveEvents'
    BY <1>2 DEF CallsOK, CallsHaveEvents, RetryWrite
  <2> QED
    BY <2>1, <2>2, <2>3, <2>4 DEF WorkersOK, LogsOK, EnvOK
<1>3. ASSUME RetryEnqueue(a) PROVE IInv'
  <2>1. admin[a].event \in Events
    BY <1>3 DEF CallsHaveEvents, RetryEnqueue
  <2>2. Enqueue(admin[a].event) \/ UNCHANGED jobs
    BY <1>3 DEF RetryEnqueue, EnqueueError
  <2>3. /\ JobsSound' /\ QueueOK'
        /\ \A x \in Events : jobs[x].state = "active" => jobs'[x] = jobs[x]
    BY <2>1, <2>2, EnqueueKeeps, JobsUntouched
  <2>4. UNCHANGED <<event, worker, request, sweep, answered, processed>>
    BY <1>3 DEF RetryEnqueue
  <2>5. BusyHasJob' /\ OneHolderPerEvent'
    BY <2>3, <2>4, WorkersUntouched
  <2>6. EnvOK'
    BY <1>3, FaultCounted DEF RetryEnqueue, EnqueueError, EnvOK
  <2>7. CallsOK' /\ CallsHaveEvents'
    BY <1>3 DEF CallsOK, CallsHaveEvents, RetryEnqueue, Free
  <2> QED
    BY <2>3, <2>4, <2>5, <2>6, <2>7 DEF RowsOK, WorkersOK, LogsOK
<1> QED
  BY <1>1, <1>2, <1>3

\* Every step of recoverPendingWork, and the removal of a finished job, keeps
\* the invariant.
LEMMA QueueStep ==
    ASSUME IInv, SweepRead \/ \E e \in Events : SweepEnqueue(e) \/ Expire(e)
    PROVE  IInv'
<1> USE DEF IInv, TypeOK
<1>1. ASSUME SweepRead PROVE IInv'
  <2>1. UNCHANGED <<event, jobs, worker, request, admin, answered, processed, env>>
    BY <1>1 DEF SweepRead
  <2>2. JobsSound' /\ QueueOK' /\ BusyHasJob' /\ OneHolderPerEvent'
    BY <2>1, JobsUntouched, WorkersUntouched
  <2>3. LogsOK'
    BY <1>1, <2>1 DEF SweepRead, LogsOK
  <2> QED
    BY <2>1, <2>2, <2>3 DEF RowsOK, WorkersOK, CallsOK, CallsHaveEvents, EnvOK
<1>2. ASSUME NEW e \in Events, SweepEnqueue(e) PROVE IInv'
  <2>1. Enqueue(e) \/ UNCHANGED jobs
    BY <1>2 DEF SweepEnqueue, EnqueueError
  <2>2. /\ JobsSound' /\ QueueOK'
        /\ \A x \in Events : jobs[x].state = "active" => jobs'[x] = jobs[x]
    BY <2>1, EnqueueKeeps, JobsUntouched
  <2>3. UNCHANGED <<event, worker, request, admin, answered, processed>>
    BY <1>2 DEF SweepEnqueue
  <2>4. BusyHasJob' /\ OneHolderPerEvent'
    BY <2>2, <2>3, WorkersUntouched
  <2>5. EnvOK'
    BY <1>2, FaultCounted DEF SweepEnqueue, EnqueueError, EnvOK
  <2>6. LogsOK'
    BY <1>2, <2>3 DEF SweepEnqueue, LogsOK
  <2> QED
    BY <2>2, <2>3, <2>4, <2>5, <2>6 DEF RowsOK, WorkersOK, CallsOK, CallsHaveEvents
<1>3. ASSUME NEW e \in Events, Expire(e) PROVE IInv'
  <2>1. /\ UNCHANGED <<event, worker, request, admin, sweep, answered, processed, env>>
        /\ jobs' = [jobs EXCEPT ![e] = NoRecord(NoEvent)]
        /\ jobs[e].state # "active"
    BY <1>3 DEF Expire
  <2>2. JobsSound' /\ QueueOK'
    BY <2>1, NoRecordSound, OneJobReplaced DEF JobTargets
  <2>3. \A x \in Events : jobs[x].state = "active" => jobs'[x] = jobs[x]
    BY <2>1 DEF QueueOK
  <2>4. BusyHasJob' /\ OneHolderPerEvent'
    BY <2>1, <2>3, WorkersUntouched
  <2> QED
    BY <2>1, <2>2, <2>4 DEF RowsOK, WorkersOK, CallsOK, LogsOK, CallsHaveEvents, EnvOK
<1> QED
  BY <1>1, <1>2, <1>3

-----------------------------------------------------------------------------
\* The invariant is inductive.
LEMMA NextIInv == IInv /\ [Next]_vars => IInv'
<1> SUFFICES ASSUME IInv, [Next]_vars PROVE IInv'
  OBVIOUS
<1>1. CASE UNCHANGED vars
  BY <1>1 DEF vars, IInv, TypeOK, RowsOK, QueueOK, WorkersOK, CallsOK, LogsOK, EnvOK,
              JobsSound, BusyHasJob, CallsHaveEvents, OneHolderPerEvent
<1>2. CASE \E r \in Requests :
              (\E e \in Events : Receive(r, e)) \/ Proceed(r) \/ RequestAbort(r)
  BY <1>2, CallStep
<1>3. CASE \E w \in Workers :
              (\E e \in Events : Take(w, e)) \/ Handle(w) \/ WorkerCrash(w) \/ LockLapse(w)
  BY <1>3, TakeStep, HandleStep
<1>4. CASE \E a \in Admins :
              (\E e \in Events : RetryRead(a, e)) \/ RetryWrite(a) \/ RetryEnqueue(a)
  BY <1>4, AdminStep
<1>5. CASE SweepRead \/ \E e \in Events : SweepEnqueue(e) \/ Expire(e)
  BY <1>5, QueueStep
<1> QED
  BY <1>1, <1>2, <1>3, <1>4, <1>5 DEF Next

\* Rows, job records, workers, calls and logs stay in the states the code of
\* receiveInbound, processInboundEvent and retryEvent can produce.
THEOREM TypeCorrect == Spec => []TypeOK
<1>1. IInv => TypeOK
  BY DEF IInv
<1> QED
  BY <1>1, InitIInv, NextIInv, PTL DEF Spec

-----------------------------------------------------------------------------
(* The attempt counter is a ticket dispenser *)

Numbers == [e \in Events |-> event[e].attempt]

\* An event was processed only under numbers its row has reached, and a worker
\* about to process it holds one that is not used yet.
NumbersIssued ==
    /\ \A e \in Events : \A n \in BagToSet(processed[e]) : n \in 1..event[e].attempt
    /\ \A w \in Workers : worker[w].at = "claim" => worker[w].attempt >= 1
    /\ \A w \in Workers :
          worker[w].at = "write" =>
             worker[w].attempt \notin BagToSet(processed[worker[w].event])

NInv == IInv /\ NumbersIssued /\ OneWorkerPerAttempt

\* A step that issues and uses no number, after which nobody has newly claimed
\* an event.
LEMMA NumbersKept ==
    ASSUME NInv, UNCHANGED processed,
           \A e \in Events : event'[e].attempt = event[e].attempt,
           \A w \in Workers : worker'[w].at \in {"claim", "write", "fail"} =>
              \/ worker'[w].at = "claim" /\ worker'[w].attempt >= 1
              \/ /\ \/ worker'[w].at = worker[w].at
                    \/ worker'[w].at = "fail" /\ Claimed(w)
                 /\ worker'[w].event = worker[w].event
                 /\ worker'[w].attempt = worker[w].attempt
    PROVE  /\ NumbersIssued' /\ OneWorkerPerAttempt'
           /\ UNCHANGED <<Numbers, processed>>
<1> USE DEF NInv, IInv, TypeOK, Claimed
<1>1. \A w \in Workers : Claimed(w) => worker[w].event \in Events
  BY DEF BusyHasJob
<1>2. \A e \in Events : \A n \in BagToSet(processed'[e]) : n \in 1..event'[e].attempt
  BY DEF NumbersIssued
<1>3. \A w \in Workers : worker'[w].at = "claim" => worker'[w].attempt >= 1
  BY DEF NumbersIssued
<1>4. \A w \in Workers : Claimed(w)' =>
          /\ Claimed(w) /\ worker'[w].event = worker[w].event
          /\ worker'[w].attempt = worker[w].attempt
          /\ event'[worker'[w].event].attempt = event[worker[w].event].attempt
  BY <1>1
<1>5. \A w \in Workers : worker'[w].at = "write" =>
          worker'[w].attempt \notin BagToSet(processed'[worker'[w].event])
  BY DEF NumbersIssued
<1>6. NumbersIssued'
  BY <1>2, <1>3, <1>5 DEF NumbersIssued
<1>7. OneWorkerPerAttempt'
  <2> USE DEF OneWorkerPerAttempt
  <2>1. \A w \in Workers : Claimed(w)' => worker'[w].attempt \in 1..event'[worker'[w].event].attempt
    BY <1>4
  <2>2. \A w1, w2 \in Workers :
            w1 # w2 /\ Claimed(w1)' /\ Claimed(w2)' /\ worker'[w1].event = worker'[w2].event
                => worker'[w1].attempt # worker'[w2].attempt
    BY <1>4
  <2> QED
    BY <2>1, <2>2
<1> QED
  BY <1>6, <1>7 DEF Numbers

\* A claim that succeeds issues the next number, which is nobody else's.
LEMMA ClaimIssues ==
    ASSUME NInv, NEW w \in Workers, Claim(w), Unclaimed(w),
           NEW e, e = worker[w].event
    PROVE  e \in Events /\ NumbersIssued' /\ OneWorkerPerAttempt' /\ Tickets!Issue(e)
<1> USE DEF NInv, IInv, TypeOK
<1>1. /\ worker[w].at = "claim" /\ e \in Events /\ UNCHANGED processed
      /\ event[e].attempt = worker[w].attempt - 1
      /\ worker[w].attempt \in Nat /\ event[e].attempt \in Nat
  BY DEF Claim, Unclaimed, BusyHasJob, WorkersOK, RowsOK
<1>2. /\ event'[e].attempt = event[e].attempt + 1
      /\ worker[w].attempt = event[e].attempt + 1
      /\ \A x \in Events \ {e} : event'[x] = event[x]
  BY <1>1 DEF Claim, RowsOK
<1>3. /\ worker'[w].at = "write" /\ worker'[w].attempt = worker[w].attempt
      /\ worker'[w].event = e
      /\ \A y \in Workers \ {w} : worker'[y] = worker[y]
  BY DEF Claim, Goto, WorkersOK
<1>4. \A x \in Events : /\ event[x].attempt \in Nat /\ event'[x].attempt \in Nat
                         /\ event[x].attempt <= event'[x].attempt
  BY <1>1, <1>2 DEF RowsOK
<1>5. \A y \in Workers \ {w} : Claimed(y) =>
          /\ worker[y].event \in Events
          /\ worker[y].attempt \in 1..event[worker[y].event].attempt
  BY DEF BusyHasJob, OneWorkerPerAttempt, Claimed
<1>6. \A x \in Events : \A n \in BagToSet(processed'[x]) : n \in 1..event'[x].attempt
  <2>1. ASSUME NEW x \in Events, NEW n \in BagToSet(processed'[x])
        PROVE  n \in 1..event'[x].attempt
    <3>1. n \in 1..event[x].attempt
      BY <1>1, <2>1 DEF NumbersIssued
    <3> QED
      BY <1>4, <3>1
  <2> QED
    BY <2>1
<1>7. worker[w].attempt \notin BagToSet(processed[e])
  BY <1>1, <1>2 DEF NumbersIssued
<1>8. NumbersIssued'
  <2>1. \A y \in Workers : worker'[y].at = "claim" => worker'[y].attempt >= 1
    BY <1>3 DEF NumbersIssued
  <2>2. \A y \in Workers : worker'[y].at = "write" =>
            worker'[y].attempt \notin BagToSet(processed'[worker'[y].event])
    BY <1>1, <1>3, <1>7 DEF NumbersIssued
  <2> QED
    BY <1>6, <2>1, <2>2 DEF NumbersIssued
<1>9. OneWorkerPerAttempt'
  <2>1. \A y \in Workers : Claimed(y)' =>
            worker'[y].attempt \in 1..event'[worker'[y].event].attempt
    <3>1. worker'[w].attempt \in 1..event'[worker'[w].event].attempt
      BY <1>1, <1>2, <1>3
    <3>2. ASSUME NEW y \in Workers \ {w}, Claimed(y)'
          PROVE  worker'[y].attempt \in 1..event'[worker'[y].event].attempt
      <4>1. /\ worker'[y] = worker[y] /\ worker[y].event \in Events
            /\ worker[y].attempt \in 1..event[worker[y].event].attempt
        BY <1>3, <1>5, <3>2 DEF Claimed
      <4> QED
        BY <1>4, <4>1
    <3> QED
      BY <3>1, <3>2
  <2>2. \A y \in Workers \ {w} : Claimed(y)' /\ worker'[y].event = e
            => worker'[y].attempt # worker'[w].attempt
    BY <1>1, <1>2, <1>3, <1>5 DEF Claimed
  <2>3. \A y, z \in Workers \ {w} :
            y # z /\ Claimed(y)' /\ Claimed(z)' /\ worker'[y].event = worker'[z].event
                => worker'[y].attempt # worker'[z].attempt
    BY <1>3 DEF OneWorkerPerAttempt, Claimed
  <2>4. ASSUME NEW y \in Workers, NEW z \in Workers,
               y # z, Claimed(y)', Claimed(z)', worker'[y].event = worker'[z].event
        PROVE  worker'[y].attempt # worker'[z].attempt
    BY <1>3, <2>2, <2>3, <2>4
  <2> QED
    BY <2>1, <2>4 DEF OneWorkerPerAttempt
<1>10. Numbers' = [Numbers EXCEPT ![e] = @ + 1]
  BY <1>1, <1>2 DEF Numbers
<1> QED
  BY <1>1, <1>8, <1>9, <1>10 DEF Tickets!Issue, Numbers

\* Processing an event uses the worker's number.
LEMMA ProcessUses ==
    ASSUME NInv, NEW w \in Workers, WriteProcessed(w)
    PROVE  NumbersIssued' /\ OneWorkerPerAttempt' /\ Tickets!Use(worker[w].event)
<1> USE DEF NInv, IInv, TypeOK
<1> DEFINE e == worker[w].event
           n == worker[w].attempt
<1>1. /\ worker[w].at = "write" /\ e \in Events /\ n \in Nat /\ event[e].attempt \in Nat
      /\ IsABag(processed[e])
      /\ processed' = [processed EXCEPT ![e] = processed[e] (+) SetToBag({n})]
  BY DEF WriteProcessed, BusyHasJob, WorkersOK, RowsOK, LogsOK
<1>2. n \in 1..event[e].attempt /\ n \notin BagToSet(processed[e])
  BY <1>1 DEF NumbersIssued, OneWorkerPerAttempt, Claimed
<1>3. \A x \in Events : event'[x].attempt = event[x].attempt
  BY DEF WriteProcessed, RowsOK
<1>4. /\ worker'[w].at = "idle"
      /\ \A y \in Workers \ {w} : worker'[y] = worker[y]
  BY DEF WriteProcessed, Return, WorkersOK, Idle
<1>5. \A y \in Workers \ {w} : Claimed(y) =>
          worker[y].event \in Events /\ (worker[y].event = e => worker[y].attempt # n)
  BY <1>1 DEF BusyHasJob, OneWorkerPerAttempt, Claimed
<1> HIDE DEF e, n
<1>6. BagToSet(processed[e] (+) SetToBag({n})) = BagToSet(processed[e]) \cup {n}
  BY <1>1 DEF IsABag, BagToSet, SetToBag, (+)
<1>7. /\ BagToSet(processed'[e]) = BagToSet(processed[e]) \cup {n}
      /\ \A x \in Events \ {e} : processed'[x] = processed[x]
  BY <1>1, <1>6 DEF LogsOK
<1>8. \A x \in Events : \A m \in BagToSet(processed'[x]) : m \in 1..event'[x].attempt
  BY <1>2, <1>3, <1>7 DEF NumbersIssued
<1>9. \A y \in Workers : worker'[y].at = "claim" => worker'[y].attempt >= 1
  BY <1>4 DEF NumbersIssued
<1>10. \A y \in Workers : worker'[y].at = "write" =>
          worker'[y].attempt \notin BagToSet(processed'[worker'[y].event])
  BY <1>4, <1>5, <1>7 DEF NumbersIssued, Claimed
<1>11. NumbersIssued' /\ OneWorkerPerAttempt'
  <2>1. NumbersIssued'
    BY <1>8, <1>9, <1>10 DEF NumbersIssued
  <2>2. \A y \in Workers : Claimed(y)' =>
            /\ Claimed(y) /\ worker'[y] = worker[y]
            /\ event'[worker[y].event].attempt = event[worker[y].event].attempt
    BY <1>3, <1>4, <1>5 DEF Claimed
  <2>3. OneWorkerPerAttempt'
    BY <2>2 DEF OneWorkerPerAttempt
  <2> QED
    BY <2>1, <2>3
<1>12. UNCHANGED Numbers
  BY <1>3 DEF Numbers
<1>13. Numbers[e] = event[e].attempt
  BY <1>1 DEF Numbers
<1>14. \E m \in (1..Numbers[e]) \ BagToSet(processed[e]) :
           processed' = [processed EXCEPT ![e] = @ (+) SetToBag({m})]
  BY <1>1, <1>2, <1>13
<1>15. Tickets!Use(e)
  BY <1>12, <1>14 DEF Tickets!Use, Numbers, (+), BagToSet, SetToBag,
                      Tickets!(+), Tickets!BagToSet, Tickets!SetToBag
<1> QED
  BY <1>11, <1>15 DEF e

\* Every other step changes no number.
LEMMA OtherSteps ==
    ASSUME NInv,
           \/ \E r \in Requests :
                 (\E e \in Events : Receive(r, e)) \/ Proceed(r) \/ RequestAbort(r)
           \/ \E w \in Workers :
                 \/ (\E e \in Events : Take(w, e)) \/ Read(w) \/ (Claim(w) /\ ~Unclaimed(w))
                 \/ WriteFailed(w) \/ DatabaseError(w) \/ WorkerCrash(w) \/ LockLapse(w)
           \/ \E a \in Admins :
                 (\E e \in Events : RetryRead(a, e)) \/ RetryWrite(a) \/ RetryEnqueue(a)
           \/ SweepRead \/ \E e \in Events : SweepEnqueue(e) \/ Expire(e)
    PROVE  NumbersIssued' /\ OneWorkerPerAttempt' /\ UNCHANGED <<Numbers, processed>>
<1> USE DEF NInv, IInv, TypeOK
<1>1. ASSUME NEW r \in Requests,
             (\E e \in Events : Receive(r, e)) \/ Proceed(r) \/ RequestAbort(r)
      PROVE  NumbersIssued' /\ OneWorkerPerAttempt' /\ UNCHANGED <<Numbers, processed>>
  <2>1. UNCHANGED <<worker, processed>>
    BY <1>1 DEF Receive, Proceed, Touch, RequestEnqueue, RequestFail, RequestAbort
  <2>2. \A e \in Events : event'[e].attempt = event[e].attempt
    <3>1. ASSUME NEW x \in Events, Receive(r, x)
          PROVE  \A e \in Events : event'[e].attempt = event[e].attempt
      BY <3>1 DEF Receive, RowsOK
    <3>2. CASE RequestFail(r)
      BY <3>2 DEF RequestFail, RowsOK
    <3>3. CASE Touch(r) \/ RequestEnqueue(r) \/ RequestAbort(r)
      <4>1. event' = event
        BY <3>3 DEF Touch, RequestEnqueue, RequestAbort
      <4>2. QED BY <4>1
    <3>4. QED BY <1>1, <3>1, <3>2, <3>3 DEF Proceed
  <2> QED
    BY <2>1, <2>2, NumbersKept
<1>2. ASSUME NEW a \in Admins,
             (\E e \in Events : RetryRead(a, e)) \/ RetryWrite(a) \/ RetryEnqueue(a)
      PROVE  NumbersIssued' /\ OneWorkerPerAttempt' /\ UNCHANGED <<Numbers, processed>>
  <2>1. UNCHANGED <<worker, processed>>
    BY <1>2 DEF RetryRead, RetryWrite, RetryEnqueue
  <2>2. \A e \in Events : event'[e].attempt = event[e].attempt
    BY <1>2 DEF RetryRead, RetryWrite, RetryEnqueue, RowsOK
  <2> QED
    BY <2>1, <2>2, NumbersKept
<1>3. ASSUME SweepRead \/ \E e \in Events : SweepEnqueue(e) \/ Expire(e)
      PROVE  NumbersIssued' /\ OneWorkerPerAttempt' /\ UNCHANGED <<Numbers, processed>>
  <2>1. UNCHANGED <<event, worker, processed>>
    BY <1>3 DEF SweepRead, SweepEnqueue, Expire
  <2> QED
    BY <2>1, NumbersKept
<1>4. ASSUME NEW w \in Workers,
             \/ (\E e \in Events : Take(w, e)) \/ Read(w) \/ (Claim(w) /\ ~Unclaimed(w))
             \/ WriteFailed(w) \/ DatabaseError(w) \/ WorkerCrash(w) \/ LockLapse(w)
      PROVE  NumbersIssued' /\ OneWorkerPerAttempt' /\ UNCHANGED <<Numbers, processed>>
  <2>1. UNCHANGED processed
    BY <1>4 DEF Take, Read, Claim, WriteFailed, DatabaseError, WorkerCrash, LockLapse
  <2>2. \A e \in Events : event'[e].attempt = event[e].attempt
    <3>1. CASE WriteFailed(w)
      BY <3>1 DEF WriteFailed, RowsOK
    <3>2. CASE UNCHANGED event
      BY <3>2
    <3>3. WriteFailed(w) \/ UNCHANGED event
      BY <1>4 DEF Take, Read, Claim, DatabaseError, WorkerCrash, LockLapse
    <3> QED
      BY <3>1, <3>2, <3>3
  <2> DEFINE Kept == /\ \A y \in Workers \ {w} : worker'[y] = worker[y]
                     /\ worker'[w].at \in {"claim", "write", "fail"} =>
                          \/ worker'[w].at = "claim" /\ worker'[w].attempt >= 1
                          \/ /\ \/ worker'[w].at = worker[w].at
                                \/ worker'[w].at = "fail" /\ Claimed(w)
                             /\ worker'[w].event = worker[w].event
                             /\ worker'[w].attempt = worker[w].attempt
  <2>3. ASSUME worker[w].at = "write", Goto(w, "fail") PROVE Kept
    BY <2>3 DEF Goto, WorkersOK, Claimed
  <2>4. ASSUME worker' = [worker EXCEPT ![w] = Idle] PROVE Kept
    BY <2>4 DEF WorkersOK, Idle
  <2>5. ASSUME NEW e \in Events, Take(w, e) PROVE Kept
    <3> DEFINE taken == [Idle EXCEPT !.at = "read", !.event = e, !.holds = TRUE]
    <3>1. worker' = [worker EXCEPT ![w] = taken] /\ taken.at = "read"
      BY <2>5 DEF Take, Idle
    <3> HIDE DEF taken
    <3> QED
      BY <3>1 DEF WorkersOK
  <2>6. ASSUME Read(w) PROVE Kept
    <3> DEFINE e == worker[w].event
    <3>1. e \in Events /\ event[e].attempt \in Nat
      BY <2>6 DEF Read, BusyHasJob, RowsOK
    <3>2. CASE ~Processable(e)
      BY <2>4, <2>6, <3>2 DEF Read, Return
    <3>3. CASE Processable(e)
      <4> DEFINE reader == [worker[w] EXCEPT !.at = "claim", !.status = event[e].status,
                                             !.attempt = event[e].attempt + 1]
      <4>1. worker' = [worker EXCEPT ![w] = reader]
        BY <2>6, <3>3 DEF Read
      <4>2. reader.at = "claim" /\ reader.attempt >= 1
        BY <3>1 DEF WorkersOK
      <4> HIDE DEF reader
      <4> QED
        BY <4>1, <4>2 DEF WorkersOK
    <3> QED
      BY <3>2, <3>3
  <2>7. ASSUME Claim(w), ~Unclaimed(w) PROVE Kept
    BY <2>4, <2>7 DEF Claim, Return
  <2>8. ASSUME WriteFailed(w) \/ DatabaseError(w) \/ WorkerCrash(w) PROVE Kept
    <3>1. \/ worker' = [worker EXCEPT ![w] = Idle]
          \/ worker[w].at = "write" /\ Goto(w, "fail")
      BY <2>8 DEF WriteFailed, DatabaseError, WorkerCrash, Throw
    <3> QED
      BY <2>3, <2>4, <3>1
  <2>9. ASSUME LockLapse(w) PROVE Kept
    BY <2>9 DEF LockLapse, WorkersOK
  <2>10. Kept
    BY <1>4, <2>5, <2>6, <2>7, <2>8, <2>9
  <2> QED
    BY <2>1, <2>2, <2>10, NumbersKept
<1> QED
  BY <1>1, <1>2, <1>3, <1>4

\* Every step issues a number, uses one, or does neither.
LEMMA StepImplementsTickets ==
    NInv /\ [Next]_vars => NInv' /\ [Tickets!Next]_(Tickets!tvars)
<1> SUFFICES ASSUME NInv, [Next]_vars
             PROVE  NumbersIssued' /\ OneWorkerPerAttempt' /\ [Tickets!Next]_(Tickets!tvars)
  BY NextIInv DEF NInv
<1>1. CASE UNCHANGED vars
  <2>1. NumbersIssued' /\ OneWorkerPerAttempt'
    BY <1>1 DEF vars, NInv, NumbersIssued, OneWorkerPerAttempt, Claimed
  <2> QED
    BY <1>1, <2>1 DEF vars, Tickets!tvars
<1>2. ASSUME NEW w \in Workers, (Claim(w) /\ Unclaimed(w)) \/ WriteProcessed(w)
      PROVE  NumbersIssued' /\ OneWorkerPerAttempt' /\ Tickets!Next
  <2>1. worker[w].event \in Events
    BY <1>2 DEF Claim, WriteProcessed, NInv, IInv, BusyHasJob
  <2>2. CASE Claim(w) /\ Unclaimed(w)
    <3>1. PICK e : e = worker[w].event
      OBVIOUS
    <3>2. e \in Events /\ NumbersIssued' /\ OneWorkerPerAttempt' /\ Tickets!Issue(e)
      BY <2>2, <3>1, ClaimIssues
    <3> QED
      BY <3>2 DEF Tickets!Next
  <2>3. CASE WriteProcessed(w)
    <3>1. NumbersIssued' /\ OneWorkerPerAttempt' /\ Tickets!Use(worker[w].event)
      BY <2>3, ProcessUses
    <3> QED
      BY <2>1, <3>1 DEF Tickets!Next
  <2> QED
    BY <1>2, <2>2, <2>3
<1>3. CASE NumbersIssued' /\ OneWorkerPerAttempt' /\ UNCHANGED <<Numbers, processed>>
  BY <1>3 DEF Numbers, Tickets!tvars
<1>4. CASE Next
  <2>1. CASE \E w \in Workers : (Claim(w) /\ Unclaimed(w)) \/ WriteProcessed(w)
    BY <1>2, <2>1
  <2>2. CASE ~\E w \in Workers : (Claim(w) /\ Unclaimed(w)) \/ WriteProcessed(w)
    BY <1>3, <1>4, <2>2, OtherSteps DEF Next, Handle
  <2> QED
    BY <2>1, <2>2
<1> QED
  BY <1>1, <1>4

\* No event has been claimed.
LEMMA InitNInv == Init => NInv
<1> SUFFICES ASSUME Init PROVE NumbersIssued /\ OneWorkerPerAttempt
  BY InitIInv DEF NInv
<1>1. \A e \in Events : BagToSet(processed[e]) = {}
  BY DEF Init, EmptyBag, SetToBag, BagToSet
<1>2. \A w \in Workers : worker[w].at = "idle"
  BY DEF Init, Idle
<1> QED
  BY <1>1, <1>2 DEF NumbersIssued, OneWorkerPerAttempt, Claimed

\* Inbound events implement tickets: attempt numbers are issued one at a time,
\* by the claim alone, and an event is processed at most once under each.
THEOREM InboundImplementsTickets == Spec => ImplementsTickets
<1>1. Init => Tickets!Init
  <2> SUFFICES ASSUME Init PROVE Tickets!Init
    OBVIOUS
  <2>1. \A e \in Events : event[e].attempt = 0
    BY DEF Init
  <2>2. processed = [e \in Events |-> EmptyBag]
    BY DEF Init
  <2> QED
    BY <2>1, <2>2 DEF Tickets!Init, EmptyBag, SetToBag, Tickets!EmptyBag, Tickets!SetToBag
<1> QED
  BY <1>1, InitNInv, StepImplementsTickets, PTL DEF Spec, Tickets!Spec, ImplementsTickets

\* processInboundEvent claims by comparing status and attempt: workers that have
\* claimed one event hold different attempts, of which the row has reached each,
\* also when a stalled job was handed out while its first handler still ran and
\* whatever faults, retries and repeated calls there are.
THEOREM AttemptHasOneWorker == Spec => []OneWorkerPerAttempt
<1>1. NInv /\ [Next]_vars => NInv'
  BY StepImplementsTickets
<1>2. NInv => OneWorkerPerAttempt
  BY DEF NInv
<1> QED
  BY <1>1, <1>2, InitNInv, PTL DEF Spec
=============================================================================
