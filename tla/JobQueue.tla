------------------------------ MODULE JobQueue ------------------------------
(***************************************************************************)
(* The job records of the `unicrm` BullMQ queue, as jobs.service.ts and    *)
(* job-worker.service.ts use it.  BullMQ itself is a library: this module  *)
(* states what the services rely on.  Every operator is a pure function    *)
(* from a job record to its next value; the modules that own a queue keep  *)
(* a variable `jobs` that maps job ids to records.                         *)
(*                                                                         *)
(*   - `queue.add` with an id that still has a record is ignored.          *)
(*   - A handler that throws is retried until `attempts` runs were made;   *)
(*     then the record stays, failed, until its retention age is reached.  *)
(*   - A job whose worker died or did not renew its lock in time is handed *)
(*     out again, at most MaxStalls times; then it fails.                  *)
(* The delay of the exponential backoff is the time a record stays         *)
(* waiting.                                                                *)
(***************************************************************************)
EXTENDS Naturals

CONSTANTS QueueAttempts,   \* `attempts` of the job options
          MaxStalls        \* BullMQ's maxStalledCount

ASSUME QueueAssumption ==
    QueueAttempts \in Nat \ {0} /\ MaxStalls \in Nat

JobStates == {"none", "waiting", "active", "completed", "failed"}

\* The job records whose data names a member of Targets.
JobRecords(Targets) ==
    [state : JobStates, target : Targets,
     made : 0..QueueAttempts, stalls : 0..MaxStalls]

\* No record is kept under the id.
NoRecord(nobody) ==
    [state |-> "none", target |-> nobody, made |-> 0, stalls |-> 0]

\* The job will run, or is running.
Live(job) == job.state \in {"waiting", "active"}

\* queue.add: a record under the same id, finished or not, wins.
Added(job, target) ==
    IF job.state = "none"
    THEN [state |-> "waiting", target |-> target, made |-> 0, stalls |-> 0]
    ELSE job

Started(job) == [job EXCEPT !.state = "active"]

Returned(job) == [job EXCEPT !.state = "completed"]

Thrown(job) ==
    [job EXCEPT !.made = @ + 1,
                !.state = IF job.made + 1 < QueueAttempts THEN "waiting" ELSE "failed"]

Stalled(job) ==
    IF job.stalls < MaxStalls
    THEN [job EXCEPT !.state = "waiting", !.stalls = @ + 1]
    ELSE [job EXCEPT !.state = "failed"]
=============================================================================
