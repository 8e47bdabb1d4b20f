---------------------------- MODULE InboundEvents ----------------------------
(***************************************************************************)
(* Inbound integration events: receiveInbound, processInboundEvent,        *)
(* retryEvent and the event half of recoverPendingWork in                  *)
(* apps/api/src/integrations/integrations.service.ts.                      *)
(*                                                                         *)
(* A provider's call stores an IntegrationEvent row once per external id   *)
(* and adds a processing job.  Unlike delivery jobs, the job's id is made  *)
(* from the event's id alone, so an event has one job record at a time and *)
(* any add is ignored while that record is kept, finished or not.  A       *)
(* worker whose lock on the job lapsed goes on with its handler beside the *)
(* one that takes the stalled job; how it ends no longer matters to the    *)
(* queue.                                                                  *)
(***************************************************************************)
EXTENDS JobQueue, Bags

CONSTANTS Events,         \* external event ids of one connection
          Requests,       \* concurrent webhook calls
          Workers, Admins,
          NoEvent,
          EventAttempts,  \* the 5 of "attemptCount + 1 < 5"
          Environments    \* what the world around may do, see env

EnvironmentRecords ==
    [kinds : SUBSET {"queue", "database", "api", "worker"},
     maxRetries : Nat, maxFaults : Nat, retries : Nat, faults : Nat]

ASSUME InboundAssumption ==
    /\ NoEvent \notin Events
    /\ EventAttempts \in Nat \ {0}
    /\ Environments \subseteq EnvironmentRecords
    /\ \A x \in Environments : x.retries = 0 /\ x.faults = 0

VARIABLES
    event,      \* the integration_events rows
    jobs,       \* event -> the record of its processing job
    worker,     \* the worker processes and the row values they read
    request,    \* the webhook calls in progress
    admin,      \* the API requests running retryEvent
    sweep,      \* the rows recoverPendingWork has read and not yet enqueued
    answered,   \* the events the provider has been told are accepted
    processed,  \* event -> the bag of attempts that wrote PROCESSED
    env         \* the number, and the bound, of the retries users request and of
                \* the faults of the given kinds

vars == <<event, jobs, worker, request, admin, sweep, answered, processed,
          env>>

-----------------------------------------------------------------------------
Free == [at |-> "idle", event |-> NoEvent]
Idle == [at |-> "idle", event |-> NoEvent, status |-> "absent", attempt |-> 0,
         holds |-> FALSE]

Init ==
    /\ event = [e \in Events |->
                  [status |-> "absent", attempt |-> 0, retryable |-> TRUE]]
    /\ jobs = [e \in Events |-> NoRecord(NoEvent)]
    /\ worker = [w \in Workers |-> Idle]
    /\ request = [r \in Requests |-> Free]
    /\ admin = [a \in Admins |-> Free]
    /\ sweep = {}
    /\ answered = {}
    /\ processed = [e \in Events |-> EmptyBag]
    /\ env \in Environments

Fault(kind) ==
    /\ kind \in env.kinds
    /\ env.faults < env.maxFaults
    /\ env' = [env EXCEPT !.faults = @ + 1]

\* enqueueIntegrationEvent
Enqueue(e) == jobs' = [jobs EXCEPT ![e] = Added(@, e)]

\* The add reached Redis or it did not, but the caller sees an error.
EnqueueError(e) ==
    /\ Fault("queue")
    /\ Enqueue(e) \/ UNCHANGED jobs

\* The job records when w has left its job as `job`: BullMQ accepts the end of
\* a handler only from the worker that still holds the job's lock.
Left(w, job) ==
    IF worker[w].holds THEN [jobs EXCEPT ![worker[w].event] = job] ELSE jobs

Return(w) ==
    /\ jobs' = Left(w, Returned(jobs[worker[w].event]))
    /\ worker' = [worker EXCEPT ![w] = Idle]

Throw(w) ==
    /\ jobs' = Left(w, Thrown(jobs[worker[w].event]))
    /\ worker' = [worker EXCEPT ![w] = Idle]

Goto(w, step) ==
    /\ worker' = [worker EXCEPT ![w].at = step]
    /\ UNCHANGED jobs

-----------------------------------------------------------------------------
(* receiveInbound; a call that fails the size, rate, signature, timestamp   *)
(* or header checks changes nothing and is left out.                        *)

\* The row is inserted; the unique index turns a second call with the same
\* external id into the answer "duplicate", which is also an acceptance.
Receive(r, e) ==
    /\ request[r].at = "idle"
    /\ IF event[e].status = "absent"
       THEN /\ event' = [event EXCEPT ![e].status = "RECEIVED"]
            /\ request' = [request EXCEPT ![r] = [at |-> "touch", event |-> e]]
            /\ UNCHANGED answered
       ELSE /\ answered' = answered \cup {e}
            /\ UNCHANGED <<event, request>>
    /\ UNCHANGED <<jobs, worker, admin, sweep, processed, env>>

\* The connection's lastActivityAt is written.
Touch(r) ==
    /\ request[r].at = "touch"
    /\ request' = [request EXCEPT ![r].at = "enqueue"]
    /\ UNCHANGED <<event, jobs, worker, admin, sweep, answered, processed,
                   env>>

RequestEnqueue(r) ==
    /\ request[r].at = "enqueue"
    /\ \/ /\ Enqueue(request[r].event)
          /\ answered' = answered \cup {request[r].event}
          /\ request' = [request EXCEPT ![r] = Free]
          /\ UNCHANGED env
       \/ /\ EnqueueError(request[r].event)
          /\ request' = [request EXCEPT ![r].at = "fail"]
          /\ UNCHANGED answered
    /\ UNCHANGED <<event, worker, admin, sweep, processed>>

\* 'Queue unavailable' is written over whatever the row holds by now.
RequestFail(r) ==
    /\ request[r].at = "fail"
    /\ event' = [event EXCEPT ![request[r].event].status = "FAILED",
                              ![request[r].event].retryable = TRUE]
    /\ request' = [request EXCEPT ![r] = Free]
    /\ UNCHANGED <<jobs, worker, admin, sweep, answered, processed, env>>

\* The call ends early: its process dies or a database call throws.
RequestAbort(r) ==
    /\ request[r].at # "idle"
    /\ \/ Fault("api")
       \/ request[r].at \in {"touch", "fail"} /\ Fault("database")
    /\ request' = [request EXCEPT ![r] = Free]
    /\ UNCHANGED <<event, jobs, worker, admin, sweep, answered, processed>>

-----------------------------------------------------------------------------
(* processInboundEvent *)

\* The job is taken; webToLead.processEvent has found no submission for the
\* event, so the generic handler runs.
Take(w, e) ==
    /\ worker[w].at = "idle"
    /\ jobs[e].state = "waiting"
    /\ jobs' = [jobs EXCEPT ![e] = Started(@)]
    /\ worker' = [worker EXCEPT ![w] = [Idle EXCEPT !.at = "read", !.event = e,
                                                  !.holds = TRUE]]
    /\ UNCHANGED <<event, request, admin, sweep, answered, processed, env>>

\* Faulty variant of Processable: the status is not looked at.
ProcessableAny(e) == event[e].status # "absent"

Processable(e) == event[e].status \in {"RECEIVED", "FAILED"}

Read(w) ==
    /\ worker[w].at = "read"
    /\ LET e == worker[w].event
       IN  IF Processable(e)
           THEN /\ worker' = [worker EXCEPT ![w].at = "claim",
                                            ![w].status = event[e].status,
                                            ![w].attempt = event[e].attempt + 1]
                /\ UNCHANGED jobs
           ELSE Return(w)
    /\ UNCHANGED <<event, request, admin, sweep, answered, processed, env>>

\* The row is unchanged since the worker read it.
Unclaimed(w) ==
    /\ event[worker[w].event].status = worker[w].status
    /\ event[worker[w].event].attempt = worker[w].attempt - 1

\* Faulty variant of Claim: the attempt counter is not incremented.
ClaimUncounted(w) ==
    /\ worker[w].at = "claim"
    /\ IF Unclaimed(w)
       THEN event' = [event EXCEPT ![worker[w].event].status = "PROCESSING"] /\ Goto(w, "write")
       ELSE Return(w) /\ UNCHANGED event
    /\ UNCHANGED <<request, admin, sweep, answered, processed, env>>

Claim(w) ==
    /\ worker[w].at = "claim"
    /\ IF Unclaimed(w)
       THEN /\ event' = [event EXCEPT ![worker[w].event].status = "PROCESSING",
                                      ![worker[w].event].attempt = worker[w].attempt]
            /\ Goto(w, "write")
       ELSE Return(w) /\ UNCHANGED event
    /\ UNCHANGED <<request, admin, sweep, answered, processed, env>>

WriteProcessed(w) ==
    /\ worker[w].at = "write"
    /\ event' = [event EXCEPT ![worker[w].event].status = "PROCESSED",
                              ![worker[w].event].retryable = FALSE]
    /\ processed' = [processed EXCEPT ![worker[w].event] = @ (+) SetToBag({worker[w].attempt})]
    /\ Return(w)
    /\ UNCHANGED <<request, admin, sweep, answered, env>>

\* Faulty variant of WriteFailed: the error is thrown, nothing is written.
WriteNothing(w) ==
    /\ worker[w].at = "fail"
    /\ Throw(w)
    /\ UNCHANGED <<event, request, admin, sweep, answered, processed, env>>

\* The catch block: retryable until the last attempt, then the error goes on.
WriteFailed(w) ==
    /\ worker[w].at = "fail"
    /\ event' = [event EXCEPT ![worker[w].event].status = "FAILED",
                              ![worker[w].event].retryable = worker[w].attempt < EventAttempts]
    /\ Throw(w)
    /\ UNCHANGED <<request, admin, sweep, answered, processed, env>>

DatabaseError(w) ==
    /\ worker[w].at # "idle"
    /\ Fault("database")
    /\ IF worker[w].at = "write" THEN Goto(w, "fail") ELSE Throw(w)
    /\ UNCHANGED <<event, request, admin, sweep, answered, processed>>

\* The worker process dies; its job, if it still had one, stalls.
WorkerCrash(w) ==
    /\ worker[w].at # "idle"
    /\ Fault("worker")
    /\ jobs' = Left(w, Stalled(jobs[worker[w].event]))
    /\ worker' = [worker EXCEPT ![w] = Idle]
    /\ UNCHANGED <<event, request, admin, sweep, answered, processed>>

\* The lock is not renewed in time: the job stalls, the handler goes on.
LockLapse(w) ==
    /\ worker[w].holds
    /\ Fault("worker")
    /\ jobs' = Left(w, Stalled(jobs[worker[w].event]))
    /\ worker' = [worker EXCEPT ![w].holds = FALSE]
    /\ UNCHANGED <<event, request, admin, sweep, answered, processed>>

-----------------------------------------------------------------------------
(* retryEvent *)

RetryRead(a, e) ==
    /\ admin[a].at = "idle"
    /\ env.retries < env.maxRetries
    /\ event[e].status = "FAILED" /\ event[e].retryable
    /\ admin' = [admin EXCEPT ![a] = [at |-> "write", event |-> e]]
    /\ env' = [env EXCEPT !.retries = @ + 1]
    /\ UNCHANGED <<event, jobs, worker, request, sweep, answered, processed>>

RetryWrite(a) ==
    /\ admin[a].at = "write"
    /\ event' = [event EXCEPT ![admin[a].event].status = "RECEIVED"]
    /\ admin' = [admin EXCEPT ![a].at = "enqueue"]
    /\ UNCHANGED <<jobs, worker, request, sweep, answered, processed, env>>

RetryEnqueue(a) ==
    /\ admin[a].at = "enqueue"
    /\ \/ Enqueue(admin[a].event) /\ UNCHANGED env
       \/ EnqueueError(admin[a].event)
    /\ admin' = [admin EXCEPT ![a] = Free]
    /\ UNCHANGED <<event, worker, request, sweep, answered, processed>>

-----------------------------------------------------------------------------
(* recoverPendingWork, events, and BullMQ's retention of finished jobs *)

\* Faulty variant of SweepRead: only failed events are looked for.
SweepReadFailed ==
    /\ sweep = {}
    /\ sweep' = {e \in Events : event[e].status = "FAILED"}
    /\ sweep' # {}
    /\ UNCHANGED <<event, jobs, worker, request, admin, answered, processed,
                   env>>

SweepRead ==
    /\ sweep = {}
    /\ sweep' = {e \in Events : event[e].status = "RECEIVED"}
    /\ sweep' # {}
    /\ UNCHANGED <<event, jobs, worker, request, admin, answered, processed,
                   env>>

SweepEnqueue(e) ==
    /\ e \in sweep
    /\ \/ Enqueue(e) /\ UNCHANGED env
       \/ EnqueueError(e)
    /\ sweep' = sweep \ {e}
    /\ UNCHANGED <<event, worker, request, admin, answered, processed>>

\* removeOnComplete after a day, removeOnFail after a week.
Expire(e) ==
    /\ jobs[e].state \in {"completed", "failed"}
    /\ jobs' = [jobs EXCEPT ![e] = NoRecord(NoEvent)]
    /\ UNCHANGED <<event, worker, request, admin, sweep, answered, processed,
                   env>>

-----------------------------------------------------------------------------
Handle(w) ==
    Read(w) \/ Claim(w) \/ WriteProcessed(w) \/ WriteFailed(w) \/ DatabaseError(w)

Proceed(r) == Touch(r) \/ RequestEnqueue(r) \/ RequestFail(r)

Next ==
    \/ \E r \in Requests :
          (\E e \in Events : Receive(r, e)) \/ Proceed(r) \/ RequestAbort(r)
    \/ \E w \in Workers :
          (\E e \in Events : Take(w, e)) \/ Handle(w) \/ WorkerCrash(w) \/ LockLapse(w)
    \/ \E a \in Admins :
          (\E e \in Events : RetryRead(a, e)) \/ RetryWrite(a) \/ RetryEnqueue(a)
    \/ SweepRead
    \/ \E e \in Events : SweepEnqueue(e) \/ Expire(e)

Spec == Init /\ [][Next]_vars

\* Handlers and requests go on, waiting jobs are handed out, the recovery job
\* fires every minute.  Nothing makes a finished record expire in time.
Fairness ==
    /\ \A w \in Workers : WF_vars(Handle(w))
    /\ \A e \in Events : SF_vars(\E w \in Workers : Take(w, e))
    /\ \A r \in Requests : WF_vars(Proceed(r))
    /\ \A a \in Admins : WF_vars(RetryWrite(a) \/ RetryEnqueue(a))
    /\ WF_vars(SweepRead)
    /\ \A e \in Events : WF_vars(SweepEnqueue(e))

FairSpec == Spec /\ Fairness

-----------------------------------------------------------------------------
(* Properties *)

RowsOK ==
    event \in [Events ->
        [status : {"absent", "RECEIVED", "PROCESSING", "PROCESSED", "FAILED"},
         attempt : Nat, retryable : BOOLEAN]]

QueueOK == jobs \in [Events -> JobRecords(Events \cup {NoEvent})]

WorkersOK ==
    worker \in [Workers ->
        [at : {"idle", "read", "claim", "write", "fail"}, event : Events \cup {NoEvent},
         status : {"absent", "RECEIVED", "FAILED"}, attempt : Nat,
         holds : BOOLEAN]]

CallsOK ==
    /\ request \in [Requests -> [at : {"idle", "touch", "enqueue", "fail"},
                                 event : Events \cup {NoEvent}]]
    /\ admin \in [Admins -> [at : {"idle", "write", "enqueue"},
                             event : Events \cup {NoEvent}]]

LogsOK ==
    /\ sweep \in SUBSET Events
    /\ answered \in SUBSET Events
    /\ DOMAIN processed = Events
    /\ \A e \in Events : IsABag(processed[e]) /\ BagToSet(processed[e]) \subseteq Nat

EnvOK ==
    /\ env \in EnvironmentRecords
    /\ env.retries <= env.maxRetries /\ env.faults <= env.maxFaults

\* Every row, job record and process is in a state the code can produce.
TypeOK == RowsOK /\ QueueOK /\ WorkersOK /\ CallsOK /\ LogsOK /\ EnvOK

Claimed(w) == worker[w].at \in {"write", "fail"}

\* In this whole behaviour no user retries, no worker dies or stalls, and there are
\* fewer faults than a job has attempts.
Mild ==
    /\ env.maxRetries = 0
    /\ env.maxFaults < QueueAttempts
    /\ "worker" \notin env.kinds

\* The compare-and-set claim: two workers that have claimed one event, be it
\* that the first was taken for dead while it was still running, hold different
\* attempt numbers, and none the row has not reached.
OneWorkerPerAttempt ==
    \A w1, w2 \in Workers :
        /\ Claimed(w1) => worker[w1].attempt \in 1..event[worker[w1].event].attempt
        /\ w1 # w2 /\ Claimed(w1) /\ Claimed(w2) /\ worker[w1].event = worker[w2].event
               => worker[w1].attempt # worker[w2].attempt

\* In a mild environment no stored event is left waiting: it is claimed even
\* when its enqueue failed or the API process died before it.
ReceivedIsClaimed ==
    \A e \in Events :
        Mild /\ event[e].status = "RECEIVED" ~> event[e].status # "RECEIVED"

\* In a mild environment with at most one fault, an event the provider was
\* told is accepted ends PROCESSED, or FAILED where users can see it.
AnsweredIsSettled ==
    \A e \in Events :
        Mild /\ env.maxFaults <= 1 /\ e \in answered
            ~> event[e].status \in {"PROCESSED", "FAILED"}

\* docs/MILESTONE_10, "Authorized users may retry failed records marked
\* retryable": a retry that answers "accepted" leaves a job that will run,
\* unless the event was taken up already.
RetryRequeues ==
    [][\A a \in Admins :
          RetryEnqueue(a) /\ env' = env /\ event[admin[a].event].status = "RECEIVED"
              => Live(jobs'[admin[a].event])]_vars

\* What the claim promises: see ClaimTickets.
Tickets == INSTANCE ClaimTickets WITH
    Items <- Events,
    issued <- [e \in Events |-> event[e].attempt],
    used <- processed
ImplementsTickets == Tickets!Spec
=============================================================================
