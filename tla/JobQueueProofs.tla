--------------------------- MODULE JobQueueProofs ---------------------------
(***************************************************************************)
(* What the operators of JobQueue preserve, for every number of attempts   *)
(* and stalls.  Used by the proofs about the modules that own a queue.     *)
(***************************************************************************)
EXTENDS JobQueue, TLAPS

\* A record of the right type; one that is live has an attempt left.
Sound(job, T) ==
    /\ job \in JobRecords(T)
    /\ Live(job) => job.made < QueueAttempts

\* Without a record the queue has nothing to run.
LEMMA NoRecordSound ==
    ASSUME NEW T, NEW t \in T
    PROVE  Sound(NoRecord(t), T)
BY QueueAssumption DEF QueueAssumption, Sound, NoRecord, JobRecords, JobStates, Live

\* queue.add, with an id in use or not.
LEMMA AddedSound ==
    ASSUME NEW T, NEW t \in T, NEW job, Sound(job, T)
    PROVE  Sound(Added(job, t), T)
BY QueueAssumption DEF QueueAssumption, Sound, Added, JobRecords, JobStates, Live

\* A worker takes a waiting job.
LEMMA StartedSound ==
    ASSUME NEW T, NEW job, Sound(job, T), job.state = "waiting"
    PROVE  /\ Sound(Started(job), T)
           /\ Started(job).state = "active" /\ Started(job).target = job.target
BY DEF Sound, Started, JobRecords, JobStates, Live

\* Its handler returns.
LEMMA ReturnedSound ==
    ASSUME NEW T, NEW job, Sound(job, T)
    PROVE  Sound(Returned(job), T)
BY DEF Sound, Returned, JobRecords, JobStates, Live

\* Its handler throws: only a live job may, for it has an attempt left.
LEMMA ThrownSound ==
    ASSUME NEW T, NEW job, Sound(job, T), Live(job)
    PROVE  Sound(Thrown(job), T) /\ Thrown(job).target = job.target
<1>1. /\ job \in JobRecords(T) /\ job.made \in Nat
      /\ job.made < QueueAttempts /\ QueueAttempts \in Nat
  BY QueueAssumption DEF QueueAssumption, Sound, JobRecords
<1>2. job.made + 1 \in 0..QueueAttempts
  BY <1>1
<1>3. CASE job.made + 1 < QueueAttempts
  <2>1. Thrown(job) = [job EXCEPT !.made = @ + 1, !.state = "waiting"]
    BY <1>3 DEF Thrown
  <2> QED
    BY <1>1, <1>2, <1>3, <2>1 DEF Sound, JobRecords, JobStates, Live
<1>4. CASE ~(job.made + 1 < QueueAttempts)
  <2>1. Thrown(job) = [job EXCEPT !.made = @ + 1, !.state = "failed"]
    BY <1>4 DEF Thrown
  <2> QED
    BY <1>1, <1>2, <2>1 DEF Sound, JobRecords, JobStates, Live
<1> QED
  BY <1>3, <1>4

\* Its worker dies.
LEMMA StalledSound ==
    ASSUME NEW T, NEW job, Sound(job, T), Live(job)
    PROVE  Sound(Stalled(job), T) /\ Stalled(job).target = job.target
<1>1. job \in JobRecords(T) /\ job.made < QueueAttempts /\ MaxStalls \in Nat
  BY QueueAssumption DEF QueueAssumption, Sound
<1>2. CASE job.stalls < MaxStalls
  <2>1. /\ job.stalls + 1 \in 0..MaxStalls
        /\ Stalled(job) = [job EXCEPT !.state = "waiting", !.stalls = @ + 1]
    BY <1>1, <1>2 DEF Stalled, JobRecords
  <2> QED
    BY <1>1, <2>1 DEF Sound, JobRecords, JobStates, Live
<1>3. CASE ~(job.stalls < MaxStalls)
  BY <1>1, <1>3 DEF Sound, Stalled, JobRecords, JobStates, Live
<1> QED
  BY <1>2, <1>3
=============================================================================
