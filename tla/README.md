# A verification project for UniCRM

UniCRM is a multi-tenant CRM: a NestJS API (`src/apps/api`), a worker process
started from the same code, a PostgreSQL database behind Prisma, Redis with
BullMQ for jobs, a file or S3 storage, and a Next.js interface that is a client
of the API. This directory holds TLA+ models of the API's services and of the
parts of the interface that decide what requests are made, the TLC
configurations that check them, and TLAPS proofs: about the jobs behind webhooks,
inbound events and automation runs, about quotations, and about the accounts,
files, demo workspaces, e-mail and mailboxes of `Platform`.

## 1. Inventory

One API process answers requests concurrently: every `await` is a point where
another request, a worker or the database may change what was read before. One
`worker` container (and a `demo-worker` for demo organizations) takes jobs from
the one BullMQ queue `unicrm`; several may run. All of them share the database;
almost all state is rows, and PostgreSQL runs the transactions at its default
isolation, read committed. So a check and the write it protects are atomic only
when they are one statement, such as `updateMany({where: {id, status}})`.

| Component | State | Operations | What is hard | What makes it correct |
|---|---|---|---|---|
| `jobs` | jobs in Redis | enqueue*, recurring schedules, dispatch | fixed versus fresh job ids, retained records, stalls, retries | a job that is needed exists; whoever works on a row has claimed it |
| `integrations`, outbound | subscriptions, events, `webhook_deliveries` | publishBusinessEvent, triggerConfiguredWebhook, processDelivery, retryDelivery, recoverPendingWork | several jobs for one row, timeouts whose request arrived, crashes between claim and result | an attempt has one worker and is sent once; outcomes are true; retries are made |
| `integrations`, inbound | `integration_events` | receiveInbound, processInboundEvent, retryEvent, recoverPendingWork | duplicated calls, queue errors after an add, jobs kept under a fixed id | an accepted event is processed or visibly failed |
| `automations` | rules, `automation_runs` | rule editing, publishBusinessEvent, processRun, retryRun, recoverPendingRuns | partial execution, results saved after effects, rules edited between attempts, events caused by actions | no action is repeated after its result was saved; attempts are bounded |
| `quotations` | quotations, items, counters, PDF files | create, update, archive, transition, expireDue, pdfContent | draft check and write apart, compensation of a stored file, expiry without a timer | life cycle; the sent content and its snapshot are fixed; one announcement per change |
| `email` | `email_messages` | send, sendAutomation, processDelivery, recoverQueued | sending without a claim; recovery after one minute; idempotency by lookup | a message is sent once; a queued message is sent some day |
| `mailboxes` | mailboxes, threads, messages, cursors | connect, update, syncMailbox, recoverMailboxes, shared inbox | stale claims, cursors, a disabled mailbox written over | a message is stored once; the cursor never passes an unstored message |
| `web-to-lead` | forms, submissions | receive, test, processEvent | duplicate counts, lead created in a retried job | one lead per submission |
| `leads`, `deals`, `pipelines` | records, stages | changeStage, convert, createProject, replaceStages, archive | a record moves while its pipeline is archived or its stages are replaced | records stay in live stages; one conversion per lead |
| `projects`, `tasks`, `cases`, `activities`, `payments` | records | editing, archiving | checks of archived parents | an archived record is not edited |
| accounts (`auth`, `users`, `roles`) | users, sessions, tokens, invitations | login, reset, disable, invite, accept, cancel | login against reset, accept against cancel | tokens are used once; no session survives a reset or a disabling |
| `demo` | demo organizations, quota counters, a Redis lease | start, restart, cleanup, quotas | a lease that is not renewed, quotas counted before inserts, files of deleted organizations | the workspace bound; nothing left behind |
| `attachments`, storage | rows and files | upload, download, delete | a file without a row and a row without a file | every row has its file |
| `data-management` | import and export jobs | preview, commit, export, merge, bulk update | merging records that others edit | references follow the merged record |
| `companies`, `contacts`, `catalog`, `tags`, `custom-fields`, `saved-views`, `notifications` | rows | editing | unique indexes only | uniqueness |
| `dashboard`, `reports`, `forecast`, `search` | none | queries | - | read-only |
| `bootstrap`, `config`, `health`, `audit`, `common` | none of their own | start-up, logging | - | - |
| `apps/web`, `packages/*` | browser state | the rule editor and the mapping editor of web forms | a definition is kept as a form and as a graph | what is shown is what is sent and stored |

Interactions: application services call `automations.publishBusinessEvent`,
which first calls `integrations.publishBusinessEvent` and then creates runs;
runs call email, webhooks and, through created tasks, publish again; every
service that works later goes through `jobs`; the worker's recurring jobs call
the `recover*` operations. Row status and attempt counters are the only link
between a job and its row.

`PROJECT.json` lists every component with its status, and under `hazards` the
places in this code where such an order matters most, with the property that
covers each or the reason why none does. Section 6 lists further ones.

## 2. The modules

### Jobs and what they work on: one database call per step

| Module | Models | Code |
|---|---|---|
| `JobQueue` | the records of the queue as pure functions of a record: added, started, returned, thrown, stalled | `jobs.service.ts`, `job-worker.service.ts` |
| `ClaimTickets` | abstract: what a claim promises. Tickets are issued 1, 2, ... per item and each is used at most once | - |
| `WebhookDelivery` | outbound webhooks | `integrations.service.ts`, from publishBusinessEvent to processDelivery and recovery |
| `InboundEvents` | inbound events | `integrations.service.ts`, receiveInbound, processInboundEvent, retryEvent |
| `AutomationRuns` | claim, attempts, saved results, retries and recovery of automation runs | `automations.service.ts`, publishBusinessEvent, processRun, retryRun |
| `Quotations` | the life of a quotation, its snapshot and its expiry | `quotations.service.ts`, `local-storage.service.ts` |
| `JobQueueProofs`, `WebhookDeliveryProofs`, `InboundEventsProofs`, `AutomationRunsProofs`, `QuotationsProofs` | theorems and their proofs | - |

`WebhookDelivery`, `InboundEvents` and `AutomationRuns` compose `JobQueue` by
EXTENDS: each owns a variable `jobs` of job records and applies the queue's
functions to them. `WebhookDelivery` and `InboundEvents` are shown to implement
`ClaimTickets` (`ImplementsTickets`): the attempt counter of the row is the last
ticket, and the bag of attempts under which the work was done is what was used.

### The services: one transaction per step

Every module of this part describes one service or a few that share tables, and
extends the one before it, so that the last of a chain can run all their
operations against each other.

| Module | Models | Code under `apps/api/src` (or `apps/web/src`) |
|---|---|---|
| `RequestStore` | tables, requests, commits, announcements, deaths, days | Prisma and the controllers, as the services use them |
| `CrmStore` | the tables of the CRM and the check of related rows | `crm/crm-validation.service.ts` |
| `Tagging` | tags, custom fields and their values | `tags`, `custom-fields` |
| `SalesPipelines` | pipelines and stages | `pipelines` |
| `LeadRecords` | leads, follow-ups, conversion | `leads` |
| `Directory` | companies, contacts, catalog, saved views | `companies`, `contacts`, `catalog`, `saved-views` |
| `DealRecords` | deals, their items, stages and projects | `deals` |
| `ProjectRecords` | projects, members, tasks, comments | `projects`, `tasks` |
| `ServiceRecords` | cases, activities, payments, notifications | `cases`, `activities`, `payments`, `notifications` |
| `WebForms` | web forms, submissions, their job, the lead they make; the mapping editor | `web-to-lead`, `integrations`; `components/settings/web-to-lead-settings.tsx` |
| `DataTools` | imports, exports, duplicates, merges, bulk updates | `data-management` |
| `Reports` | what each report, list, figure and search counts | `reports`, `forecast`, `dashboard`, `search` |
| `IntegrationSettings` | connections, secrets, subscriptions, external ids | `integrations` |
| `RuleBuilder` | the rule editor: form, graph, and from one to the other | `components/settings/automations-settings.tsx` |
| `AutomationRules` | validation, compilation and storage of rules | `automations` |
| `RuleRuns` | which event starts which rule; conditions, actions, chains | `automations` |
| `CrmRecords` | all of the above together | - |
| `AccessControl` | routes with their permissions, guards, rate limits | `auth`, all controllers, `demo-capability.service.ts` |
| `Accounts` | login, logout, resets, users, invitations, roles | `auth`, `users`, `roles` |
| `Attachments` | upload, download, deletion, reservation of a quota | `attachments`, `redis.service.ts` |
| `DemoWorkspaces` | creation under a lease, quotas, restart, cleanup | `demo`, `bootstrap.service.ts` |
| `CrmMail` | templates, messages, delivery, recovery | `email` |
| `Mailboxes` | connections, import by cursor, threads, replies | `mailboxes` |
| `SharedInbox` | assignment, status, notes, records made of mail | `mailboxes/shared-inbox.service.ts` |
| `Platform` | `AccessControl` to `SharedInbox` together | - |
| `WorkspaceProofs`, `MailProofs`, `PlatformProofs` | lemmas about accounts, files and demos; lemmas about mail; the theorems about `Platform` | - |

`CrmRecords` stands on `RequestStore`, `CrmStore`, `Tagging`, ... in the order of
the table; `Platform` on `RequestStore`, `AccessControl`, ...: they are two
independent systems over the same way of describing a service. `MC*` modules
give each system its small instances.

### How state and actions correspond to the code

For the jobs:

* A row is a record with the columns the control flow looks at. Names, payloads,
  amounts, error texts and timestamps are left out; the content of a quotation
  is a version number.
* A process (worker, request, publisher, sweep) is a record with the step it is
  at and the values it has read and still uses. Between two steps anything may
  happen. `Unclaimed` is the `where` of a compare-and-set; a write that names the
  row by id only has no such guard (`CatchWrite`, `RetryWrite`, `Update`,
  `Finished`).
* A delivery or run job has a fresh id (`Date.now()` in it) and takes any free
  slot of `jobs`; an inbound event's job has the fixed id
  `integration-event-<id>`, so `jobs` is indexed by the event, an add is ignored
  while a record is there, and `Expire` is the end of its retention.
* `WorkerCrash` ends a handler: its job is stalled and handed out again, at
  most `MaxStalls` times, the row stays as it is. `LockLapse` is the stall of a
  job whose handler is alive: the worker goes on beside the one that takes the
  job again, and its end no longer counts for the queue (`Left`).
  `DatabaseError` makes a call
  of the handler throw, inside or outside its try block as in the code.
  `EnqueueError` covers both an add that was lost and an add that was made
  although the caller saw an error.

For the services:

* `db` is a record of tables, each a function from the ids in use to rows. An
  operation is an action with one or more steps: `Called` begins a request that
  has read and checked what it needs, `Begin` and `Continue` keep what it goes on
  with in `request[p].arg`, and `Commit` writes. Whatever the code reads before
  its transaction is read in an earlier step, with other requests in between;
  whatever it checks inside the transaction, or by a unique index or a `where`,
  is read in the step that commits. Two transactions of one row still overlap in
  PostgreSQL: what a transaction reads before its write is taken as one step
  with it, except where the code's correctness depends on it, and there a
  property says `Serial` (see `NextFollowUpIsEarliest`).
* An operation that the code performs in several transactions or with a file,
  the queue or a mail server in between has a step for each (`UploadAttachment`,
  `SyncMailbox`, the creation of a workspace, an import), and each may be the
  last: `Die` ends any request between its steps. A failed write is rolled back;
  where a catch block deletes a file for it (`InsertRow`, `InsertMessage`), the
  write may also have been committed and only its answer lost. The column
  `answered` of the file's row, which the code does not have, tells the two apart.
* A caller is any account that has the permissions of the route in
  `AccessControl`; in `CrmRecords` permissions are left out, since no operation
  there tells callers apart beyond the user it writes down.
* Ids are never used again (they are random in the code): `db.gone` has the ids
  of deleted rows, and a new row takes one that is neither in use nor gone. A
  row that names another by a foreign key is written only while that row is
  there, and goes with it where the schema says `onDelete: Cascade`.
* Announced events are a sequence left in the request, handed out one at a time
  by `Announce`; in the scenarios of rules `RuleRuns` takes them instead, reads
  the rules and queues runs.
* Days, and minutes where the code looks at them, may pass between any two steps
  (`NextDay`; a lock or a claim that goes stale may do so at any time).

In all modules the variable `env` is chosen once, at the start: which faults may
happen, at most how many, how many retries, calls or days there are. It is how
one run checks a property under several bounds, and how a property names its
assumption (`Calm`, `Mild`, `Serial`).

## 3. What is checked

Deadlock is not checked in any run: a system in which every event is processed
and whose calls and faults are used up really has nothing left to do.

| Run | Instance | Shows |
|---|---|---|
| `WebhookSafety` | 1 event, 1 subscription, 2 workers, 2 job slots, 1 user, four environments (no faults; one user retry; one fault and any change of the endpoint; a demo organization with a retry and a fault), symmetric in workers and slots | `AttemptPostedOnce`, `ImplementsTickets`: the claim keeps attempts apart, whatever jobs exist. `DeliveredWasAccepted`: DELIVERED is never written without an acceptance. `RetriesAreMade`: without faults a FAILED retryable row without a job has used its attempts. |
| `WebhookLiveness` | the same for an automation's webhook, 1 worker | `PendingIsWorked`, `ClaimsSettle` |
| `Inbound` | 1 external id called twice, 2 workers, 1 user, 3 attempts; up to two faults without worker deaths, one fault, and all faults with a retry | `ImplementsTickets`, and for mild environments `ReceivedIsClaimed`, `AnsweredIsSettled` |
| `Runs` | 1 rule, 1 event, 2 workers, 2 slots, 2 attempts, lists of up to two actions; a user retry, two actions with two faults, edits of the rule under a limit of actions, a rule switched off and on | `ExclusiveExecution`, `OncePerAttempt`, `SavedSuccessIsFinal`: no action is repeated after its success was saved, and none more often than attempts were counted. `SucceededPerformedAll`, `RetryableHasJob`, `PendingIsWorked` |
| `Quotations` | 1 quotation, 2 requests, 2 storage keys, 1 edit, 1 day, one fault of each kind | `Lifecycle`, `SnapshotKeptUnlessPublishFails`, `NoOrphanFiles`, `AnnouncedOnce`, `ExpiryIsAnnounced` |
| `CrmRecords` | 2 requests, 43 scenarios of one to three calls over tables that hold one or two rows each | `PositionsContiguous` of custom fields; `NextFollowUpIsEarliest` of leads; `StagesFit`: records stay in stages of their pipeline; `FormsMatchGraphs`: a rule's form and its graph say the same, also after two editors have saved parts of it at once; `ChainsAreBounded`: rules that start each other end; `ReportsAgree`: two screens never show two figures of the same thing, and cases carry the days of their status; `OneLeadPerSubmission` |
| `Platform` | 2 requests, 20 scenarios of two to four calls, up to two faults and a day | `InvitationsMatchAccounts`, `OpenSessionsAreCurrent`, `DownloadsAreStored`, `DemoStaysWithinLimits`, `CursorCoversMessages`, `SentWasAccepted`, `InboxIsConsistent` |
| `InboundRetryLost` | the code's five attempts, one fault, one retry | violation of `RetryRequeues` |
| `QuotationSnapshotLost` | a failing publication | violation of `SnapshotKept` |
| `QuotationEdited` | no fault | violation of `ContentFrozen` |
| `PipelineWithoutLost` | two requests that replace the stages of one pipeline | violation of `PipelinesCanBeWonAndLost` |
| `CaseChangeLost` | a rule for cases that become CLOSED, one update of a case | violation of `ChangesReachRules` |

What these properties do not say:

* The claims are about attempts, not about effects. A delivery that a user's
  retry resets after it was delivered is sent again under a new number, which
  `AttemptPostedOnce` and `ImplementsTickets` allow; an action whose result was
  not saved is performed again in the next attempt, which `OncePerAttempt`
  allows. `ClaimsSettle` speaks of behaviours without faults and with one
  worker; `ExclusiveExecution` and `RetryableHasJob` name the faults and retries
  they exclude.
* `FormsMatchGraphs` compares kind, trigger, conditions, actions and the
  configuration of the trigger. A graph that says nothing of the configuration
  is excused: `update` then keeps the stored one (`automations.service.ts:224`).
* `OpenSessionsAreCurrent` says that a reset or a suspension misses none of the
  sessions that were open before it; a login that overlaps one is excused, since
  the code lets it keep its session.
* `DemoStaysWithinLimits` grants a workspace per lapse of the lock, and counts
  the records that requests create, not those that other work derives.
* `CursorCoversMessages` is satisfied by another row with the same uid or
  message id, which is what the code looks for (section 6).
* `DownloadsAreStored` excuses a row whose commit was not answered: the catch
  blocks of `attachments.service.ts:190` and `mailboxes.service.ts:850` delete
  its file.
* `SentWasAccepted` and `InboxIsConsistent` forbid neither that a message is
  sent twice nor that of two colleagues' changes the later one wins.
* `NextFollowUpIsEarliest` is stated for requests that do not overlap.

Every passing run also checks the `TypeOK` of its system, except
`WebhookLiveness`, whose states are a part of those of `WebhookSafety`.

Why these bounds are enough:

* For the jobs, rows do not interact (every statement names one row, and the
  sweeps treat each row they read by itself), so one row shows what can happen
  to any; two workers and two jobs are the least that race, and a third worker
  could only repeat what the second does, because a claim has one winner. Two
  attempts, or three, are enough for a first, a repeated and a last one. One
  fault of any kind at any step is what the code's catch blocks handle; two are
  allowed where a catch block itself may fail.
* For the services, an inconsistency needs a check and a write of one request
  around a write of another: two requests, and a third or fourth call where an
  operation has to be prepared by another (an invitation before its acceptance,
  a message before its delivery). A scenario restricts the operations to those
  that read or write the same tables, since operations on disjoint tables
  commute, and begins with the rows they need, in the states the operations
  themselves leave. A scenario whose question is what one request can ask for,
  not how two overlap (`NewLeads`, `Drawing`, `Importing`), has calls one after
  another over a larger set of inputs. A row has at most one field changed per
  update (`MaxChanges`). Between them the scenarios fire every action.
* The counterexamples of the mutants in `PROJECT.json` all lie within these
  bounds.

### Where the code and what is said of it disagree

1. **`InboundRetryLost`.** `docs/MILESTONE_10_GENERIC_INTEGRATION_PLATFORM.md:78`
   says that received events are requeued and that users may retry failed ones.
   A finished job's record is kept, for a day or a week, under the event's
   fixed id (`jobs.service.ts:75-79`), and an add under a kept id is ignored. A
   worker that read the FAILED row just before `retryEvent` wrote RECEIVED loses
   its claim and completes its job; the retry's add, and every add of the sweep,
   is then swallowed, and the event is RECEIVED without a job that will run.
2. **`QuotationSnapshotLost`.** `README.md:170-172` promises that later downloads
   return the immutable snapshot. `transition` publishes the change inside the
   try block whose catch deletes the file (`quotations.service.ts:479-493`): a
   publication that throws after the commit leaves a SENT quotation whose file
   is gone.
3. **`QuotationEdited`.** `README.md:173-174` says sent content is not editable.
   `update` checks for a draft in one call and writes by id in another
   (`quotations.service.ts:284`, `332-336`); a send in between is not noticed.
4. **`PipelineWithoutLost`.** `pipelines-settings.tsx:205` and `validateStages`
   ask for exactly one won and one lost stage. `replaceStages`
   (`pipelines.service.ts:231-243`) creates the stages that come without an id
   and then deletes all stages of the pipeline that the request did not name by
   id, the new ones included: a request with a new lost stage leaves the
   pipeline without one.
5. **`CaseChangeLost`.** A rule may wait for a case to change from or to a status
   (`automations.service.ts:978-989`), and `matchesTriggerConfig` compares
   `fromStatus` and `toStatus`; `CasesService.publish`
   (`cases.service.ts:581`) sends neither, so such a rule never runs.

### Fairness

* `WF(Handle(w))`: a Node.js handler goes on after each `await`; every call it
  makes has a timeout or fails. A handler is one process, so weak fairness.
* `SF(Take)` per job: the queue is first in, first out and its backoff delays
  are finite, so a job that waits again and again while a worker becomes free
  is taken. Weak fairness would not do, because with one worker the job is not
  takeable while the worker is busy.
* `WF(SweepRead)` and fairness of `SweepEnqueue`: `scheduleRecurringMaintenance`
  registers the recovery jobs as repeatable jobs that fire every minute. The
  model's sweep reads all rows; the code's reads at most 100 at a time.
* Requests in progress go on; none is assumed to arrive, no user retries, and
  a finished job's record is never assumed to expire in time.
* Faults are never fair.
* `CrmRecords` and `Platform` assume no fairness and state no liveness: what
  they promise is what a state shows, whoever stops wherever.

## 4. What is proved

`JobQueueProofs` proves that each function of the queue turns a sound job record
into a sound one, where `Sound` says that a live record has attempts left and
counts within their bounds. That is the fact needed to type `Thrown`, whose
counter stays in range only because a live job has not used its attempts up.

`WebhookDeliveryProofs` proves, for any set of events, subscriptions, job slots,
workers and users and for any bounds, from `WebhookAssumption` and
`QueueAssumption` alone:

* `TypeCorrect == Spec => []TypeOK`
* `AttemptHasOneWorker == Spec => []OneWorkerPerAttempt`
* `NoAttemptPostedTwice == Spec => []AttemptPostedOnce`
* `DeliveryImplementsTickets == Spec => ImplementsTickets`
* `DeliveredMeansAccepted == Spec => []DeliveredWasAccepted`
* `CalmRetriesAreMade == Spec => []RetriesAreMade`

The inductive invariant `IInv` adds to these statements that job records are
sound and a live one names a delivery, that a worker which still holds the lock
of its job runs an active job nobody else holds (`JobsMatchWorkers`), that a
retry in progress is about a delivery, and `PostedWasIssued`: nothing was sent under a number the row has not
reached. That last part is what the argument turns on. A claim succeeds only if
the row still carries the number before the worker's own, so the new number
exceeds every number a worker holds (`OneWorkerPerAttempt`) and every number
sent (`PostedWasIssued`): `ClaimWins`. A post adds the worker's number to the
sent ones; any other worker about to send for the same delivery holds another
number: `PostStep`. Every other step keeps the attempt counter and the log, and
can only make workers give claims up (`ClaimsKept`), which covers a user's reset
to PENDING as well as the catch block's overwrite. The refinement reads off the
same lemmas: `ClaimWins` is `Issue`, `PostStep` is `Use`, the rest stutters
(`OtherSteps`).

`DeliveredWasAccepted` needs `SuccessIsKnown` beside it: a worker that is about
to write DELIVERED has the target's answer, or works for a demo. `RetriesAreMade`
is about a row without a job; its proof needs to know what every job of a row
will do. `CalmInv` says so: without faults and interference each run of a job
that threw claimed a number of its own (`RunsWereClaimed`), so a job that has
used its attempts up has brought the row to its last; and a FAILED retryable
row has a job that will run it again as long as the row is FAILED
(`RetriesAreAhead`). A worker that read an older number drops out silently, but
the claim it lost was made by another job, which is then the one that throws.

`InboundEventsProofs` proves, for any set of events, calls, workers and users
and for any bounds, from `InboundAssumption` and `QueueAssumption` alone:

* `TypeCorrect == Spec => []TypeOK`
* `AttemptHasOneWorker == Spec => []OneWorkerPerAttempt`
* `InboundImplementsTickets == Spec => ImplementsTickets`

None is inductive. The inductive invariant `IInv` of that module adds that job
records are sound, that a worker which holds the lock of its job runs an *active*
job (`BusyHasJob`) and is the only one who holds it (`OneHolderPerEvent`), and
that a call in progress is about an event. A worker takes a *waiting* job, an
event has one record, and no add, sweep or retry changes the record of an active
job (`EnqueueKeeps`); `Stalled` and `Thrown` make the record waiting again only
in the step in which the worker gives up the lock. So the fixed id gives a job
one holder, but not one handler: whose lock lapsed goes on, and what keeps it
apart from its successor is the claim. `OneWorkerPerAttempt` is inductive together
with `IInv` and `NumbersIssued`: what was processed was processed under numbers
the row has reached, and a worker about to write PROCESSED holds one that is not
used yet. A claim succeeds only if the row still carries the number the worker
has read, so the new one exceeds all that others hold. The proof has one lemma
per actor, with one step per action.

`AutomationRunsProofs` proves, for any set of rules, events, jobs and
users, finitely many workers and lists of actions and any bounds, from `AutomationAssumption`
and `QueueAssumption` alone:

* `TypeCorrect == Spec => []TypeOK`
* `RunHasOneExecutor == Spec => []ExclusiveExecution`
* `SavedSuccessStays == Spec => SavedSuccessIsFinal`
* `ActionOncePerAttempt == Spec => []OncePerAttempt`
* `SucceededMeansPerformed == Spec => []SucceededPerformedAll`
* `RetryableRunsHaveJobs == Spec => []RetryableHasJob`

The invariants stand on each other. `IInv`: types, good job records, a busy
worker is at a run, and while it holds the lock of its job, that job is active
and nobody else's; calls in progress are about runs; a
step leaves every worker that stays busy at its run (`TargetsKept`). `RInv` adds
`Claimed`: without users' retries, a run that some worker has claimed is in
PROCESSING, has no other worker that claimed it, and its row holds exactly the results the
worker has in memory. It is inductive because a claim accepts no row in
PROCESSING, and because nobody else writes such a row; that is also where users'
retries break it, since `retryRun` writes PENDING by id. With `AtAnAction`, and
`CurrentRemains`, which says that the loop is at an action without a saved
success, `SavedSuccessIsFinal` follows step by step. `CInv` adds
`AttemptsCover`: the number of times an action was performed plus the number of
workers that may still perform it in their attempt is at most the attempts
counted. A claim adds one to both sides, performing moves one from the second
summand to the first. It holds with users' retries too, which
`ExclusiveExecution` does not.

`SucceededPerformedAll` follows from `SInv`: a saved or remembered success was
performed (`SuccessWasMade`), and without edits there is one list of actions
(`OneActionList`), so the loop ends only behind the last of them.
`RetryableHasJob` follows from `LInv`. It counts: a job throws only after a
fault, so it has attempts left while there were fewer faults than attempts
(`FaultsCover`); a worker knows its attempt's number, so a run that is left
retryable is not at its last (`AttemptsKnown`); and of such a run some job is
still ahead (`RetriesAreAhead`), because whoever wrote FAILED is about to throw.

`QuotationsProofs` proves, for any sets of quotations, requests and storage keys
and any bounds, from `QuotationAssumption` alone:

* `TypesCorrect == Spec => []TypeOK`
* `LifecycleInOrder == Spec => Lifecycle`
* `NoFileOrphaned == Spec => []NoOrphanFiles`
* `NothingAnnouncedTwice == Spec => []AnnouncedOnce`
* `SnapshotNeverLost == Spec => SnapshotKeptUnlessPublishFails`

Its inductive invariant says who owns a file and who owes an announcement. A file
that a request holds is stored and held by no other (`FilesHeld`); a quotation's
snapshot was written, and is in the hands of a request that would delete it only
after a failed publication (`SnapshotsOwned`); whoever is to announce a change
is the only one, the change was made, and was not announced before
(`AnnouncersAlone`). The compare-and-set of `transition` and the `updateMany` of
`expireDue` make a new announcer in the same step as the status, which no row can reach
twice (`Lifecycle`).

`PlatformProofs`, on the lemmas of `WorkspaceProofs` and `MailProofs`, proves,
for any sets of organizations, accounts, files, mailboxes, messages and requests
and any bounds, from the assumptions about the constants and from
`ScenariosAssumption`, which says that the tables a scenario begins with are in
order:

* `RowsWellFormed == Spec => []TypeOK`
* `SentMeansAccepted == Spec => []SentWasAccepted`
* `InboxStaysConsistent == Spec => []InboxIsConsistent`
* `InvitationsMatch == Spec => []InvitationsMatchAccounts`
* `SessionsStayCurrent == Spec => []OpenSessionsAreCurrent`
* `DemosStayWithinLimits == Spec => []DemoStaysWithinLimits`
* `CursorsCoverMessages == Spec => []CursorCoversMessages`
* `DownloadsStayStored == Spec => []DownloadsAreStored`

An operation reads in one step and writes in a later one, so none of these is
inductive. The inductive invariant `Ready` adds to the order of the tables
(`Typed`) that what each request has checked and chosen is of the kind it will
write and still true of the tables it writes to (`ArgsOK`, one part per
service): the delivery that is to write SENT has an accepted message, a reply
has its thread, a note its conversation. That the requests of others do not
spoil it is `Grows`, which every step satisfies: only demos come and go, a
thread and a mailbox keep their organization, an accepted message stays
accepted, and nothing of the mail belongs to a demo. So the proof needs one
lemma per operation about what it writes and one about what all others leave
alone, and not one per pair of operations.

`CursorsCoverMessages` rests on `Ready` too. The property speaks of the cursor
that is saved; what has to stay true in between is known only to the import: the
cursors it began with and has reached, the first uid, the validity and the last
uid it has passed in the folder it is in, and the uids it has still to read
(`ImportArgs`, `FolderArgs`, `MessageArgs`). `Reading` says that all mail from
that first uid to the last it read or is about to read is stored or still to be
read; so a cursor taken from it has nothing unstored behind it, whichever import
saves it last. That a server may get mail, lose mail or number a folder anew
while an import reads it does not spoil this because of what `Grows` says of
folders: a validity never returns, under one validity a uid below the next one
is never given to other mail, and a message keeps the mailbox, folder, uid and
id it was stored with.

`InvitationsMatch` and `SessionsStayCurrent` rest on a second inductive invariant, `Credentials`, on top of
`Ready`. `InvitationsOK` says what the property leaves out and its steps need:
no two accounts have the same address, and whoever is not INVITED has a password. What a
request has read of an account or an invitation is true only while that row
exists, since a cancellation or the end of a demo may delete it before the
request writes; so `CredentialArgs` speaks of rows that still exist, and of ids
that are gone otherwise. It stays true through the steps of all others because
they satisfy `CredentialsStay`: an id that is gone does not come back, an
account keeps its address and its organization, one that has a password never
loses it, and in a demo, where accounts cannot be edited, statuses and passwords
do not change at all (a demo's first session is written with the password its
owner was created with, several steps later).

`DemosStayWithinLimits` rests on a third, `Limits`, again on top of `Ready`. The
property itself is not inductive, since a request checks the limit in one step and
uses what it was given in later ones; so `Limits` counts promises like what they
promise. For the quota (`Quotas`): the rows a workspace is seeded with, the records
made, and the requests that have reserved a place and not used it yet are together
at most what is reserved, and that at most the quota (`WithinQuota`). A request
that dies, or is turned away by the rate limit after it reserved, only loses a place;
a first reservation begins at the rows that exist, which are at least those seeded
(`CountsSeeds`), and because the script takes the count only where there is no counter
yet, the second of two first reservations builds on the first. For the workspaces (`Workspaces`): the unexpired demos and
the requests that have counted them and are about to create one (`Admitted`) are
at most the limit and the lapses, and the requests between the lock and the end of
the creation that do not hold the lock any more (`Overdue`) are at most the lapses.
So of those that may be let in at once one holds the lock, and each of the others
was counted as a lapse.

`DownloadsStayStored` rests on a fourth, `Storage`, again on top of `Ready`. The
storage and the tables are written in different steps, and whoever fails between
them leaves one without the other; by the order of the steps that is a file
without a row, and never a row without a file but where a workspace is deleted.
`Storage` says so of the rows (`FilesOK`: the file of a row whose commit was
answered is stored, unless its
workspace is a demo that has expired, which nobody is let in to any more) and
of the requests between the two steps (`FileArgs`, `Apart`): a file that a
request has stored and will name in a row is named by no row and held by no
other request, and one that it is to remove by no row that was answered, so neither the removal after a failed insertion nor that of
another request can meet it; a file to be removed after its row was deleted
belongs to an id that does not come back; and what the deletion of workspaces
removes was attached in a demo that had expired when the deletion began, on a
day that has not moved back, or is gone. That mail has no files in a demo is
what keeps this deletion away from them.

Only model-checked: everything else in section 3. All liveness properties stay
with TLC, because the prover has no rule for fairness and ENABLED; so does what
a recursive definition computes for all inputs, because the induction theorems
take an operator as parameter. `CrmRecords` is not proved about: its operations build rows with `@@` and `:>`,
which the provers take as unknown operators, and `WebForms` has a pattern that
the proof manager does not parse. Every invariant that the run of `Platform`
checks is proved.

## 5. What is not modelled

* Configuration, `health`, `audit`, logging and the request context
  keep no state that another component reads.
* CSV parsing, PDF layout, the text of e-mails, the arithmetic of quotation
  totals, passwords' hashes, signatures and encryption are what a library or a
  formula does; the models keep the decision that follows from them.
* The screens of `apps/web` other than the rule editor and the mapping editor
  show lists and send single requests, which the API's modules take from any
  caller that has the permission.
* Task.overdue and the events of web forms are published, but the scenarios of
  rules do not start from them; a run of `RuleRuns` is carried out once, its
  attempts are in `AutomationRuns`; the deliveries its actions queue are in
  `CrmMail` and `WebhookDelivery`. The submission of a web form is processed by
  the job of an inbound event: `WebForms` counts the attempts of that job,
  `InboundEvents` has its workers and their stalls.
* No liveness of the services. A request that stops after its commit leaves its
  events unannounced, and nothing in the code makes up for that.
* In the job modules: the checks that refuse a call before it changes anything.
* The counter of a demo's quota goes from Redis when nothing was created for as
  long as a demo session lasts, and the next creation counts the rows again. The
  models keep it: a creation under way does not last that long.

## 6. Known weaknesses that no property states

Seen while modelling; the models show the behaviour, and where a document
promises more, the place is given.

* **Work that stops.** A worker that dies after its claim leaves a delivery, an
  inbound event or a run in PROCESSING, which no sweep looks for; a business
  event is lost between the commit and its publication; an import that dies
  leaves its job PROCESSING. Database errors outside a handler's try block use
  up the attempts of the job without counting one of the run.
* **Writes by id.** `retryRun` writes PENDING over a run that has succeeded since
  (`automations.service.ts:302`), `retryEvent` of web forms RECEIVED over one in
  progress and `receive` FAILED over any; the last message state of two
  deliveries wins, so SENT may become FAILED; a disabled mailbox is switched on
  by the import that was under way (`mailboxes.service.ts:410-418`, while
  `docs/MILESTONE_14` wants it off, 439); setting a conversation's due day
  writes back the status read before; of two links of a conversation the later
  wins.
* **Checks before transactions.** The demo's limit of runs is counted before the
  runs are inserted (`automations.service.ts:349`); the type of a custom field is
  checked before the transaction that changes it; of two saved views both may
  end as default; a login that overlaps a password reset keeps its session; nothing keeps the
  last Owner.
* **Rows left as they are.** A bulk update leaves `completedAt` of tasks and the
  members of projects (`data-management.service.ts:930`, `README.md:150-151`);
  merged companies keep deals and cases at the archived one; replacing a stage
  by one of another outcome, or creating a deal in a won stage, sets no day; the
  follow-ups of automations leave `nextFollowUpAt`; a demo's quotation files
  survive its cleanup; deleted and renumbered mail may be taken for known
  (`mailboxes.service.ts:700-707`, `docs/MILESTONE_14:103`).
* **Rules that became invalid**, by an archived tag or a disabled hook, and such
  web forms, cannot even be switched off, because every update validates all
  (`web-to-lead.service.ts:186-200`).
* **The rule editor.** Saving from the history tab after editing the form sends
  the stale graph, which wins; choosing the form tab again refills the form from
  it; switching a rule with a from/to choice to another trigger keeps the old
  choice in the API, which refuses it; priorities of cases are offered from a
  list of statuses, operators are offered for tags, and every action for every
  kind of record, all of which the API refuses. A web form without mappings is
  shown with an empty e-mail mapping.
* **Permissions.** A Viewer, "read-only" in `README.md:131`, may change the
  unread flag that all share; `docs/MILESTONE_10:94` gives a Manager reading,
  logs and retries, the code also the management of integrations.

## 7. Plan

Done: all modules of section 2, the runs of section 3, the proofs of section 4.

Next, in this order:

1. An abstract specification of a table whose rows are changed by single
   transactions, and `SharedInbox` and `SalesPipelines` as implementations of it.
2. `StagesFit` as a theorem: the invariant needs what each transaction rereads.
3. Liveness of web form submissions, with the workers of `InboundEvents`.
