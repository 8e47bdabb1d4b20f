--------------------------- MODULE WebhookDelivery ---------------------------
(***************************************************************************)
(* Outbound webhooks: apps/api/src/integrations/integrations.service.ts.   *)
(*                                                                         *)
(* A business event creates one WebhookDelivery row per matching           *)
(* subscription and a job for each row; an automation action upserts one   *)
(* row.  Workers take jobs, claim the row with a compare-and-set on        *)
(* (status, attempt), POST the payload and write the outcome.  A sweep     *)
(* adds another job for every PENDING row, and a user may set a FAILED     *)
(* row back to PENDING.  Every database call is a step of its own, so all  *)
(* the interleavings of workers, sweep and API requests are here.          *)
(*                                                                         *)
(* Delivery jobs have ids with the current time in them, never reused: a   *)
(* slot of `jobs` is free again once its job has finished.  A worker whose *)
(* lock on its job lapsed goes on with its handler beside the one that     *)
(* takes the stalled job; how it ends no longer matters to the queue.      *)
(***************************************************************************)
EXTENDS JobQueue, FiniteSets, Bags

CONSTANTS BusinessEvents,    \* events published by the application services
          AutomationEvents,  \* idempotency keys of automation webhook actions
          Subscriptions,
          Jobs,              \* slots for delivery jobs in the queue
          Workers,
          Admins,            \* API requests that retry deliveries
          NoDelivery,
          NoJob,
          Environments       \* what the world around may do, see env

Events == BusinessEvents \cup AutomationEvents
Deliveries == Events \X Subscriptions
EndpointStates == {"live", "inbound", "off"}
EnvironmentRecords == [demo : BOOLEAN, settings : SUBSET EndpointStates,
                       maxRetries : Nat, maxFaults : Nat, retries : Nat, faults : Nat]

ASSUME WebhookAssumption ==
    /\ NoDelivery \notin Deliveries
    /\ NoJob \notin Jobs
    /\ BusinessEvents \cap AutomationEvents = {}
    /\ Environments \subseteq EnvironmentRecords
    /\ \A x \in Environments : x.retries = 0 /\ x.faults = 0

VARIABLES
    endpoint,   \* subscription -> "live", "inbound" (direction changed) or "off"
    delivery,   \* the webhook_deliveries rows
    jobs,       \* the delivery jobs
    worker,     \* the worker processes and the row values they read
    publisher,  \* the callers that create deliveries
    admin,      \* the API requests running retryDelivery
    sweep,      \* the rows recoverPendingWork has read and not yet enqueued
    posted,     \* delivery -> the bag of attempts under which fetch was called
    accepted,   \* delivery -> the target has accepted the payload
    env         \* demo: organization.mode = 'DEMO'; settings: what administrators
                \* set endpoints to; the number, and the bound, of the retries users
                \* request and of the crashes, database and queue errors

vars == <<endpoint, delivery, jobs, worker, publisher, admin, sweep,
          posted, accepted, env>>

-----------------------------------------------------------------------------
Statuses == {"absent", "PENDING", "PROCESSING", "DELIVERED", "FAILED"}

\* The steps of a worker that has won the claim and not given it up.
ClaimedSteps ==
    {"demo", "prepare", "post", "ok", "retryable", "permanent", "catch", "overwrite"}

Idle == [at |-> "idle", job |-> NoJob, target |-> NoDelivery, status |-> "absent",
         attempt |-> 0]
Quiet == [at |-> "idle", todo |-> {}]
NoRetry == [at |-> "idle", delivery |-> NoDelivery]

\* The delivery that the data of w's job named when w took it.
Target(w) == worker[w].target

\* Faulty variant of Eligible: the row's status is not looked at.
EligibleAnyStatus(d) == endpoint[d[2]] # "off"

\* processDelivery's condition for working on a row.
Eligible(d) ==
    /\ delivery[d].status \in {"PENDING", "FAILED"}
    /\ endpoint[d[2]] # "off"

\* recoverPendingWork's condition for a row.
Recoverable(d) ==
    /\ delivery[d].status = "PENDING"
    /\ endpoint[d[2]] # "off"

Init ==
    /\ endpoint = [s \in Subscriptions |-> "live"]
    /\ delivery = [d \in Deliveries |->
                     [status |-> "absent", attempt |-> 0, retryable |-> TRUE]]
    /\ jobs = [j \in Jobs |-> NoRecord(NoDelivery)]
    /\ worker = [w \in Workers |-> Idle]
    /\ publisher = [e \in Events |-> Quiet]
    /\ admin = [a \in Admins |-> NoRetry]
    /\ sweep = {}
    /\ posted = [d \in Deliveries |-> EmptyBag]
    /\ accepted = [d \in Deliveries |-> FALSE]
    /\ env \in Environments

-----------------------------------------------------------------------------
(* Helpers of the actions *)

\* A crash, a database error or a queue error.
Fault ==
    /\ env.faults < env.maxFaults
    /\ env' = [env EXCEPT !.faults = @ + 1]

\* enqueueWebhookDelivery: the id is fresh, so the job takes any free slot.
Enqueue(d) ==
    \E j \in Jobs :
        /\ jobs[j].state = "none"
        /\ jobs' = [jobs EXCEPT ![j] = Added(@, d)]

\* A finished delivery job leaves nothing that a later add can collide with.
Released(job) ==
    IF Live(job) THEN job ELSE NoRecord(NoDelivery)

\* The job records when w has left its job as `job`: BullMQ accepts the end of
\* a handler only from the worker that still holds the job's lock.
Left(w, job) ==
    IF worker[w].job = NoJob THEN jobs ELSE [jobs EXCEPT ![worker[w].job] = Released(job)]

\* The handler returns: the job is completed and the worker is free.
Return(w) ==
    /\ jobs' = Left(w, Returned(jobs[worker[w].job]))
    /\ worker' = [worker EXCEPT ![w] = Idle]

\* The handler throws: the job waits for its next attempt, or has failed.
Throw(w) ==
    /\ jobs' = Left(w, Thrown(jobs[worker[w].job]))
    /\ worker' = [worker EXCEPT ![w] = Idle]

Goto(w, step) ==
    /\ worker' = [worker EXCEPT ![w].at = step]
    /\ UNCHANGED jobs

\* failDelivery
Failed(d, retryable) ==
    delivery' = [delivery EXCEPT ![d].status = "FAILED", ![d].retryable = retryable]

-----------------------------------------------------------------------------
(* publishBusinessEvent, triggerConfiguredWebhook *)

\* The subscriptions that want the event are read and the event row is
\* written; without a subscription the call returns.
PublishRead(e) ==
    /\ e \in BusinessEvents
    /\ publisher[e].at = "idle"
    /\ LET wanted == {e} \X {s \in Subscriptions : endpoint[s] = "live"}
       IN  publisher' = [publisher EXCEPT ![e] =
               [at |-> IF wanted = {} THEN "done" ELSE "create", todo |-> wanted]]
    /\ UNCHANGED <<endpoint, delivery, jobs, worker, admin, sweep, posted,
                   accepted, env>>

\* One transaction creates the deliveries of all subscriptions read.
PublishCreate(e) ==
    /\ publisher[e].at = "create"
    /\ delivery' = [d \in Deliveries |->
                      IF d \in publisher[e].todo
                      THEN [delivery[d] EXCEPT !.status = "PENDING"]
                      ELSE delivery[d]]
    /\ publisher' = [publisher EXCEPT ![e].at = "enqueue"]
    /\ UNCHANGED <<endpoint, jobs, worker, admin, sweep, posted, accepted,
                   env>>

\* The automation's webhook: the row is created unless it exists, and gets
\* another job whenever it is still PENDING.  An automation run that is
\* retried calls this again with the same idempotency key.
Trigger(e, s) ==
    /\ e \in AutomationEvents
    /\ publisher[e].at = "idle"
    /\ endpoint[s] = "live"
    /\ delivery' = [delivery EXCEPT ![<<e, s>>].status =
                      IF @ = "absent" THEN "PENDING" ELSE @]
    /\ delivery'[<<e, s>>].status = "PENDING"
    /\ publisher' = [publisher EXCEPT ![e] = [at |-> "enqueue", todo |-> {<<e, s>>}]]
    /\ UNCHANGED <<endpoint, jobs, worker, admin, sweep, posted, accepted,
                   env>>

\* The caller is done with the deliveries of `rest`.
PublisherLeft(e, rest) ==
    publisher' = [publisher EXCEPT ![e] =
        [at |-> CASE rest # {} -> "enqueue"
                  [] rest = {} /\ e \in BusinessEvents -> "done"
                  [] OTHER -> "idle",
         todo |-> rest]]

\* Promise.allSettled over the deliveries: each enqueue succeeds or fails on
\* its own, and a failure is only logged.  (triggerConfiguredWebhook has a
\* single delivery and throws to the automation run, which ends the call.)
PublishEnqueue(e, d) ==
    /\ publisher[e].at = "enqueue"
    /\ d \in publisher[e].todo
    /\ \/ Enqueue(d) /\ UNCHANGED env
       \/ Fault /\ UNCHANGED jobs
    /\ PublisherLeft(e, publisher[e].todo \ {d})
    /\ UNCHANGED <<endpoint, delivery, worker, admin, sweep, posted, accepted>>

\* The API process dies while it publishes.
PublisherCrash(e) ==
    /\ publisher[e].at \in {"create", "enqueue"}
    /\ Fault
    /\ PublisherLeft(e, {})
    /\ UNCHANGED <<endpoint, delivery, jobs, worker, admin, sweep, posted,
                   accepted>>

-----------------------------------------------------------------------------
(* processDelivery *)

Take(w, j) ==
    /\ worker[w].at = "idle"
    /\ jobs[j].state = "waiting"
    /\ jobs' = [jobs EXCEPT ![j] = Started(@)]
    /\ worker' = [worker EXCEPT ![w] = [Idle EXCEPT !.at = "read", !.job = j,
                                                  !.target = jobs[j].target]]
    /\ UNCHANGED <<endpoint, delivery, publisher, admin, sweep, posted,
                   accepted, env>>

Read(w) ==
    /\ worker[w].at = "read"
    /\ LET d == Target(w)
       IN  IF Eligible(d)
           THEN /\ worker' = [worker EXCEPT ![w].at = "claim",
                                            ![w].status = delivery[d].status,
                                            ![w].attempt = delivery[d].attempt + 1]
                /\ UNCHANGED jobs
           ELSE Return(w)
    /\ UNCHANGED <<endpoint, delivery, publisher, admin, sweep, posted,
                   accepted, env>>

\* Faulty variants of Unclaimed: no comparison, or of the status alone.
UnclaimedUnchecked(w) == worker[w].at = "claim"
UnclaimedByStatus(w) == delivery[Target(w)].status = worker[w].status

\* The row is unchanged since the worker read it.
Unclaimed(w) ==
    LET d == Target(w)
    IN  /\ delivery[d].status = worker[w].status
        /\ delivery[d].attempt = worker[w].attempt - 1

Claim(w) ==
    /\ worker[w].at = "claim"
    /\ IF Unclaimed(w)
       THEN /\ delivery' = [delivery EXCEPT
                              ![Target(w)].status = "PROCESSING",
                              ![Target(w)].attempt = worker[w].attempt]
            /\ Goto(w, IF env.demo THEN "demo" ELSE "prepare")
       ELSE Return(w) /\ UNCHANGED delivery
    /\ UNCHANGED <<endpoint, publisher, admin, sweep, posted, accepted, env>>

\* A demo organization's delivery is recorded as delivered and never sent.
Simulate(w) ==
    /\ worker[w].at = "demo"
    /\ delivery' = [delivery EXCEPT ![Target(w)].status = "DELIVERED",
                                    ![Target(w)].retryable = FALSE]
    /\ Return(w)
    /\ UNCHANGED <<endpoint, publisher, admin, sweep, posted, accepted, env>>

\* urls.validate and secrets.decrypt, outside the try block: when they throw
\* (the host no longer resolves, the key was changed) nothing is written.
Prepare(w) ==
    /\ worker[w].at = "prepare"
    /\ \/ Goto(w, "post") /\ UNCHANGED env
       \/ Fault /\ Throw(w)
    /\ UNCHANGED <<endpoint, delivery, publisher, admin, sweep, posted, accepted>>

\* Faulty variant of Post: every answer counts as a delivery.
PostUnchecked(w) ==
    /\ worker[w].at = "post"
    /\ posted' = [posted EXCEPT ![Target(w)] = @ (+) SetToBag({worker[w].attempt})]
    /\ Goto(w, "ok")
    /\ UNCHANGED <<endpoint, delivery, publisher, admin, sweep, accepted, env>>

\* fetch: the answer is a success, an HTTP 408, 429 or 5xx, another failure
\* status, or none at all (timeout, network error), when the target may
\* nevertheless have accepted the payload.
Post(w) ==
    /\ worker[w].at = "post"
    /\ posted' = [posted EXCEPT ![Target(w)] = @ (+) SetToBag({worker[w].attempt})]
    /\ \/ Goto(w, "ok") /\ accepted' = [accepted EXCEPT ![Target(w)] = TRUE]
       \/ \E answer \in {"retryable", "permanent", "catch"} :
             Goto(w, answer) /\ UNCHANGED accepted
       \/ Goto(w, "catch") /\ accepted' = [accepted EXCEPT ![Target(w)] = TRUE]
    /\ UNCHANGED <<endpoint, delivery, publisher, admin, sweep, env>>

RecordDelivered(w) ==
    /\ worker[w].at = "ok"
    /\ delivery' = [delivery EXCEPT ![Target(w)].status = "DELIVERED",
                                    ![Target(w)].retryable = FALSE]
    /\ Return(w)
    /\ UNCHANGED <<endpoint, publisher, admin, sweep, posted, accepted, env>>

RecordPermanent(w) ==
    /\ worker[w].at = "permanent"
    /\ Failed(Target(w), FALSE)
    /\ Return(w)
    /\ UNCHANGED <<endpoint, publisher, admin, sweep, posted, accepted, env>>

\* Faulty variant of RecordRetryable: the error is not thrown again.
RecordRetryableSwallowed(w) ==
    /\ worker[w].at = "retryable"
    /\ Failed(Target(w), TRUE)
    /\ Return(w)
    /\ UNCHANGED <<endpoint, publisher, admin, sweep, posted, accepted, env>>

\* A retryable answer is recorded, then thrown into the handler's own catch.
RecordRetryable(w) ==
    /\ worker[w].at = "retryable"
    /\ Failed(Target(w), TRUE)
    /\ Goto(w, "catch")
    /\ UNCHANGED <<endpoint, publisher, admin, sweep, posted, accepted, env>>

\* The catch block reads the status again ...
CatchRead(w) ==
    /\ worker[w].at = "catch"
    /\ IF delivery[Target(w)].status = "FAILED"
       THEN Throw(w)
       ELSE Goto(w, "overwrite")
    /\ UNCHANGED <<endpoint, delivery, publisher, admin, sweep, posted,
                   accepted, env>>

\* Faulty variant of CatchWrite: the error is thrown, no status is written.
CatchWriteNothing(w) ==
    /\ worker[w].at = "overwrite"
    /\ Throw(w)
    /\ UNCHANGED <<endpoint, delivery, publisher, admin, sweep, posted,
                   accepted, env>>

\* ... and writes FAILED over whatever it is by then.
CatchWrite(w) ==
    /\ worker[w].at = "overwrite"
    /\ Failed(Target(w), TRUE)
    /\ Throw(w)
    /\ UNCHANGED <<endpoint, publisher, admin, sweep, posted, accepted, env>>

\* A database call of the handler throws: inside the try block the catch
\* block is entered, everywhere else the job fails.
DatabaseError(w) ==
    /\ worker[w].at \in {"read", "claim", "demo", "ok", "permanent",
                         "retryable", "catch", "overwrite"}
    /\ Fault
    /\ IF worker[w].at \in {"ok", "permanent", "retryable"}
       THEN Goto(w, "catch")
       ELSE Throw(w)
    /\ UNCHANGED <<endpoint, delivery, publisher, admin, sweep, posted, accepted>>

\* The worker process dies: the job it still had stalls, the row stays as it is.
WorkerCrash(w) ==
    /\ worker[w].at # "idle"
    /\ Fault
    /\ jobs' = Left(w, Stalled(jobs[worker[w].job]))
    /\ worker' = [worker EXCEPT ![w] = Idle]
    /\ UNCHANGED <<endpoint, delivery, publisher, admin, sweep, posted, accepted>>

\* The lock is not renewed in time: the job stalls, the handler goes on.
LockLapse(w) ==
    /\ worker[w].job # NoJob
    /\ Fault
    /\ jobs' = Left(w, Stalled(jobs[worker[w].job]))
    /\ worker' = [worker EXCEPT ![w].job = NoJob]
    /\ UNCHANGED <<endpoint, delivery, publisher, admin, sweep, posted, accepted>>

-----------------------------------------------------------------------------
(* retryDelivery *)

RetryRead(a, d) ==
    /\ admin[a].at = "idle"
    /\ env.retries < env.maxRetries
    /\ delivery[d].status = "FAILED" /\ delivery[d].retryable
    /\ admin' = [admin EXCEPT ![a] = [at |-> "write", delivery |-> d]]
    /\ env' = [env EXCEPT !.retries = @ + 1]
    /\ UNCHANGED <<endpoint, delivery, jobs, worker, publisher, sweep, posted,
                   accepted>>

\* The update names the row by its id only.
RetryWrite(a) ==
    /\ admin[a].at = "write"
    /\ delivery' = [delivery EXCEPT ![admin[a].delivery].status = "PENDING"]
    /\ admin' = [admin EXCEPT ![a].at = "enqueue"]
    /\ UNCHANGED <<endpoint, jobs, worker, publisher, sweep, posted, accepted,
                   env>>

RetryEnqueue(a) ==
    /\ admin[a].at = "enqueue"
    /\ \/ Enqueue(admin[a].delivery) /\ UNCHANGED env
       \/ Fault /\ UNCHANGED jobs
    /\ admin' = [admin EXCEPT ![a] = NoRetry]
    /\ UNCHANGED <<endpoint, delivery, worker, publisher, sweep, posted, accepted>>

-----------------------------------------------------------------------------
(* recoverPendingWork, deliveries *)

\* Faulty variant of SweepRead: only failed rows are looked for.
SweepReadFailed ==
    /\ sweep = {}
    /\ sweep' = {d \in Deliveries : delivery[d].status = "FAILED"}
    /\ sweep' # {}
    /\ UNCHANGED <<endpoint, delivery, jobs, worker, publisher, admin, posted,
                   accepted, env>>

SweepRead ==
    /\ sweep = {}
    /\ sweep' = {d \in Deliveries : Recoverable(d)}
    /\ sweep' # {}
    /\ UNCHANGED <<endpoint, delivery, jobs, worker, publisher, admin, posted,
                   accepted, env>>

SweepEnqueue(d) ==
    /\ d \in sweep
    /\ \/ Enqueue(d) /\ UNCHANGED env
       \/ Fault /\ UNCHANGED jobs
    /\ sweep' = sweep \ {d}
    /\ UNCHANGED <<endpoint, delivery, worker, publisher, admin, posted, accepted>>

-----------------------------------------------------------------------------
(* updateSubscription and updateConnection: an endpoint is switched off or  *)
(* on, or its connection's direction changes.                               *)
Reconfigure(s) ==
    /\ \E setting \in env.settings \ {endpoint[s]} :
          endpoint' = [endpoint EXCEPT ![s] = setting]
    /\ UNCHANGED <<delivery, jobs, worker, publisher, admin, sweep, posted,
                   accepted, env>>

-----------------------------------------------------------------------------
Handle(w) ==
    \/ Read(w) \/ Claim(w) \/ Simulate(w) \/ Prepare(w) \/ Post(w)
    \/ RecordDelivered(w) \/ RecordPermanent(w) \/ RecordRetryable(w)
    \/ CatchRead(w) \/ CatchWrite(w) \/ DatabaseError(w)

WorkerNext ==
    \E w \in Workers :
        (\E j \in Jobs : Take(w, j)) \/ Handle(w) \/ WorkerCrash(w) \/ LockLapse(w)

PublisherNext ==
    \/ \E e \in Events :
          \/ PublishRead(e) \/ PublishCreate(e) \/ PublisherCrash(e)
          \/ \E d \in Deliveries : PublishEnqueue(e, d)
    \/ \E e \in AutomationEvents, s \in Subscriptions : Trigger(e, s)

RetryNext ==
    \E a \in Admins :
        (\E d \in Deliveries : RetryRead(a, d)) \/ RetryWrite(a) \/ RetryEnqueue(a)

SweepNext == SweepRead \/ \E d \in Deliveries : SweepEnqueue(d)

Next ==
    WorkerNext \/ PublisherNext \/ RetryNext \/ SweepNext
        \/ \E s \in Subscriptions : Reconfigure(s)

Spec == Init /\ [][Next]_vars

\* What the deployment guarantees: a running worker goes on with its handler,
\* every waiting job is handed out some day (the queue is first-in first-out
\* and its backoff delays are finite), a request in flight goes on, and the
\* repeatable recovery job fires every minute.  Faults are never fair.
Fairness ==
    /\ \A w \in Workers : WF_vars(Handle(w))
    /\ \A j \in Jobs : SF_vars(\E w \in Workers : Take(w, j))
    /\ \A e \in Events : WF_vars(PublishCreate(e) \/ \E d \in Deliveries : PublishEnqueue(e, d))
    /\ \A a \in Admins : WF_vars(RetryWrite(a) \/ RetryEnqueue(a))
    /\ WF_vars(SweepRead)
    /\ \A d \in Deliveries : SF_vars(SweepEnqueue(d))

FairSpec == Spec /\ Fairness
-----------------------------------------------------------------------------
(* Properties *)

EndpointsOK == endpoint \in [Subscriptions -> EndpointStates]

RowsOK ==
    delivery \in [Deliveries -> [status : Statuses, attempt : Nat, retryable : BOOLEAN]]

QueueOK == jobs \in [Jobs -> JobRecords(Deliveries \cup {NoDelivery})]

WorkersOK ==
    worker \in [Workers ->
        [at : {"idle", "read", "claim"} \cup ClaimedSteps, job : Jobs \cup {NoJob},
         target : Deliveries \cup {NoDelivery},
         status : {"absent", "PENDING", "FAILED"}, attempt : Nat]]

CallersOK ==
    /\ publisher \in [Events -> [at : {"idle", "create", "enqueue", "done"},
                                 todo : SUBSET Deliveries]]
    /\ admin \in [Admins -> [at : {"idle", "write", "enqueue"},
                             delivery : Deliveries \cup {NoDelivery}]]
    /\ sweep \in SUBSET Deliveries

LogsOK ==
    /\ DOMAIN posted = Deliveries
    /\ \A d \in Deliveries : IsABag(posted[d]) /\ BagToSet(posted[d]) \subseteq Nat
    /\ accepted \in [Deliveries -> BOOLEAN]

EnvOK ==
    /\ env \in EnvironmentRecords
    /\ env.retries <= env.maxRetries /\ env.faults <= env.maxFaults

\* Every row, job, worker and request is in a state the code can write.
TypeOK ==
    /\ EndpointsOK /\ RowsOK /\ QueueOK /\ WorkersOK /\ CallersOK /\ LogsOK /\ EnvOK

\* Nothing but the code's own steps, in this whole behaviour.
Calm == env.maxRetries = 0 /\ env.maxFaults = 0 /\ env.settings = {}

\* A busy worker works on a delivery.  While it holds the lock of its job, that
\* job is active, names the same delivery and has no other holder.
JobsMatchWorkers ==
    /\ \A w \in Workers :
          /\ worker[w].at # "idle" => worker[w].target \in Deliveries
          /\ worker[w].job # NoJob =>
                /\ worker[w].at # "idle"
                /\ jobs[worker[w].job].state = "active"
                /\ jobs[worker[w].job].target = worker[w].target
    /\ \A w1, w2 \in Workers :
          w1 # w2 /\ worker[w1].job # NoJob => worker[w1].job # worker[w2].job
    /\ \A j \in Jobs : Live(jobs[j]) => jobs[j].target \in Deliveries

Claimed(w, d) == worker[w].at \in ClaimedSteps /\ Target(w) = d

\* The compare-and-set claim: however many jobs the sweep, the publisher and
\* users add for one delivery, and though a stalled job is taken again while its
\* first handler still runs, no two workers process the delivery under the same
\* attempt number, and no worker holds a number the row has not reached.
OneWorkerPerAttempt ==
    \A d \in Deliveries, w1, w2 \in Workers :
        /\ Claimed(w1, d) => worker[w1].attempt \in 1..delivery[d].attempt
        /\ w1 # w2 /\ Claimed(w1, d) /\ Claimed(w2, d)
               => worker[w1].attempt # worker[w2].attempt

\* A claimed attempt is sent at most once: a retry, also one that follows a
\* reset to PENDING, always goes out under a new attempt number.
AttemptPostedOnce ==
    \A w \in Workers :
        worker[w].at \in {"prepare", "post"} =>
            worker[w].attempt \notin BagToSet(posted[Target(w)])

\* DELIVERED is only ever written when the target accepted the payload or
\* the organization is a demo, whatever races and errors came between.
DeliveredWasAccepted ==
    \A d \in Deliveries :
        delivery[d].status = "DELIVERED" => env.demo \/ accepted[d]

\* In a calm environment automatic retries only stop when the attempts are
\* used up: a delivery left FAILED and retryable with no job behind it has
\* made all of them, although concurrent jobs for the same row drop out
\* silently when they lose a claim.
RetriesAreMade ==
    \A d \in Deliveries :
        Calm /\ delivery[d].status = "FAILED" /\ delivery[d].retryable
            => \/ delivery[d].attempt >= QueueAttempts
               \/ \E j \in Jobs : Live(jobs[j]) /\ jobs[j].target = d

\* A PENDING delivery does not stay PENDING while its endpoint is on, even
\* when the enqueue failed, the publisher died or a worker crashed.
PendingIsWorked ==
    \A d \in Deliveries : Recoverable(d) ~> ~Recoverable(d)

\* In a calm environment a claimed delivery reaches DELIVERED or FAILED.
ClaimsSettle ==
    \A d \in Deliveries :
        Calm /\ delivery[d].status = "PROCESSING" ~> delivery[d].status \in {"DELIVERED", "FAILED"}

\* What the claim promises, whatever the number of jobs: see ClaimTickets.
Tickets == INSTANCE ClaimTickets WITH
    Items <- Deliveries,
    issued <- [d \in Deliveries |-> delivery[d].attempt],
    used <- posted
ImplementsTickets == Tickets!Spec
=============================================================================
