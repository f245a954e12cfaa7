------------------------ MODULE DispatcherPoolProofs ------------------------
(***************************************************************************)
(* What the workers and the cleaners owe a job, for every number of        *)
(* requests, workers, cleaners and notes: one review per merge request; the*)
(* key of a queued job in reach of a worker; a backlog that stays bounded; *)
(* one carrier for the cleanup of every job that is in cleanup; notes that *)
(* fit into one event, so that no merge of them loses one; no outcome of a *)
(* review on the notes that were aborted before they were reviewed; and    *)
(* for every reaction that is left "in progress" somebody who settles it.  *)
(***************************************************************************)
EXTENDS DispatcherProofs, FiniteSetTheorems

Running == {m \in MR : job[m].status = "running"}

\* A job marked running has its worker, ...
RunningHeld == \A m \in Running : \E w \in Worker : Busy(w) /\ worker[w].mr = m
\* ... an idle worker has no job, ...
IdleFree == \A w \in Worker : ~Busy(w) => worker[w].mr = None
\* ... and the counter that admission relies on counts the running jobs.
Counted == IsFiniteSet(Running) /\ running = Cardinality(Running)

PoolInv == RunningHeld /\ IdleFree /\ Counted

-----------------------------------------------------------------------------
(* Steps that start and end no review.                                     *)

\* Every review that runs after the step ran before it.
NoneStarts == \A m \in MR : job'[m].status = "running" => job[m].status = "running"
\* Every worker keeps its job.
SameHolders == \A w \in Worker : worker'[w].mr = worker[w].mr /\ (Busy(w)' <=> Busy(w))

\* A review that ran still has its busy worker, and a busy worker's job runs: when
\* no review starts and no worker changes hands, none has ended either.
LEMMA SamePool ==
    ASSUME IInv, IInv', PoolInv, NoneStarts, SameHolders, UNCHANGED running
    PROVE  PoolInv'
<1>1. ASSUME NEW m \in Running
      PROVE  m \in Running'
  <2>1. PICK w \in Worker : Busy(w) /\ worker[w].mr = m
    BY DEF PoolInv, RunningHeld
  <2>2. job'[m].status = "running"
    BY <2>1 DEF SameHolders, IInv, Rest, Assigned
  <2> QED
    BY <2>2 DEF Running
<1>2. Running' = Running
  BY <1>1 DEF Running, NoneStarts
<1>3. RunningHeld' /\ IdleFree'
  BY <1>2 DEF PoolInv, RunningHeld, IdleFree, SameHolders
<1>4. Counted'
  BY <1>2 DEF PoolInv, Counted
<1> QED
  BY <1>3, <1>4 DEF PoolInv

\* A step that leaves the workers alone.
LEMMA IntakeKeepsPool ==
    ASSUME IInv, IInv', PoolInv, NoneStarts, UNCHANGED <<worker, running>>
    PROVE  PoolInv'
BY SamePool DEF SameHolders, Busy

\* Only the job that a step works on can be started by it.
LEMMA OthersStartNothing ==
    ASSUME NEW m \in MR, JobStep(m), job'[m].status = "running" => job[m].status = "running"
    PROVE  NoneStarts
BY DEF JobStep, NoneStarts

LEMMA SavedAlone ==
    ASSUME StoreOK, NEW m \in MR, NEW j, Save(m, j)
    PROVE  \A n \in MR \ {m} : job'[n] = job[n]
BY DEF Save, StoreOK

LEMMA UnchangedJobs ==
    ASSUME UNCHANGED job
    PROVE  NoneStarts
BY DEF NoneStarts

LEMMA IntakePool ==
    ASSUME IInv, IInv', PoolInv, NEW m \in MR, EnqueueEvent(m) \/ Abort(m)
    PROVE  PoolInv'
<1>1. NoneStarts /\ UNCHANGED running
  <2>1. CASE EnqueueEvent(m)
    <3>1. \A k \in Trigger : [kind |-> k, targets |-> {}, unsure |-> {}] \in Event
      BY DEF Event
    <3>2. PICK e \in Event : Enqueue(m, e)
      BY <2>1, <3>1 DEF EnqueueEvent, Trigger
    <3> QED
      BY <3>2, EnqueueStep, OthersStartNothing DEF Accepted, Created, ParkedBehind, Joined
  <2>2. CASE Abort(m)
    <3>1. JobStep(m) /\ (job'[m].status = "running" => job[m].status = "running")
      BY <2>2, AbortRunningStep, AbortQueuedStep, AbortPendingStep DEF Abort, AbortRunning
    <3> QED
      BY <2>2, <3>1, OthersStartNothing DEF Abort, pool
  <2> QED
    BY <2>1, <2>2
<1>2. UNCHANGED worker
  BY DEF EnqueueEvent, Abort
<1> QED
  BY <1>1, <1>2, IntakeKeepsPool

LEMMA HandlerPool ==
    ASSUME IInv, IInv', PoolInv, NEW n \in Note, AwardAck(n) \/ HandleReview(n)
    PROVE  PoolInv'
<1>1. CASE AwardAck(n)
  BY <1>1, UnchangedJobs, IntakeKeepsPool DEF AwardAck, store, pool
<1>2. CASE HandleReview(n) /\ Enqueue(NoteMR[n], CommandEvent(n))
  <2>1. NoteMR[n] \in MR /\ CommandEvent(n) \in Event
    BY SizeAssumption DEF CommandEvent, Event, Trigger, Target
  <2>2. Accepted(NoteMR[n], CommandEvent(n))
    BY <1>2, <2>1, EnqueueStep
  <2>3. NoneStarts
    BY <2>1, <2>2, OthersStartNothing DEF Accepted, Created, ParkedBehind, Joined
  <2> QED
    BY <1>2, <2>2, <2>3, IntakeKeepsPool DEF HandleReview, Accepted
<1>3. CASE HandleReview(n) /\ UNCHANGED <<store, pool>>
  BY <1>3, UnchangedJobs, IntakeKeepsPool DEF HandleReview, store, pool
<1> QED
  BY <1>1, <1>2, <1>3 DEF HandleReview

LEMMA CleanerPool ==
    ASSUME IInv, IInv', PoolInv, NEW c \in Cleaner, CleanerStep(c)
    PROVE  PoolInv'
<1>1. CASE CleanerTake(c) \/ CleanerSettle(c) \/ CleanerCancelled(c)
  BY <1>1, UnchangedJobs, IntakeKeepsPool
  DEF CleanerTake, CleanerSettle, CleanerCancelled, store, pool
<1>2. CASE CleanerComplete(c)
  <2>1. alive /\ cleaner[c].work \in Work
    BY <1>2, HeldFacts DEF CleanerComplete
  <2>2. ASSUME cleaner[c].work.durable PROVE NoneStarts
    <3>1. cleaner[c].work.mr \in MR /\ Completed(cleaner[c].work.mr)
      BY <1>2, <2>1, <2>2, CompleteDurableStep DEF CleanerComplete, Work
    <3> QED
      BY <3>1, UnchangedJobs, OthersStartNothing
      DEF Completed, KeepsCleanup, GivesWay, NoJob
  <2>3. ASSUME ~cleaner[c].work.durable PROVE NoneStarts
    BY <1>2, <2>3, UnchangedJobs DEF CleanerComplete, store
  <2> QED
    BY <1>2, <2>2, <2>3, IntakeKeepsPool DEF CleanerComplete
<1> QED
  BY <1>1, <1>2 DEF CleanerStep

LEMMA TimerPool ==
    ASSUME IInv, IInv', PoolInv, NEW m \in MR, TimerFires(m)
    PROVE  PoolInv'
<1> DEFINE j == [job[m] EXCEPT !.cleanupQueued = FALSE]
<1>1. job[m] \in Job /\ JobShape(job[m])
  BY DEF IInv, TypeOK, StoreOK
<1>2. j.status = job[m].status
  BY <1>1 DEF Job
<1>3. NoneStarts
  <2>1. CASE UNCHANGED job
    BY <2>1, UnchangedJobs
  <2>2. CASE j.status = "cleanup" /\ job' = [job EXCEPT ![m] = Reserved(j)]
    <3>1. Reserved(j).status = "cleanup"
      BY <1>1, <1>2, <2>2, ReservationType
    <3> QED
      BY <2>2, <3>1 DEF NoneStarts, IInv, TypeOK, StoreOK
  <2> QED
    BY <2>1, <2>2 DEF TimerFires
<1> QED
  BY <1>3, IntakeKeepsPool DEF TimerFires, pool

LEMMA RestorePool ==
    ASSUME IInv, IInv', PoolInv, NEW m \in MR, RestoreJob(m)
    PROVE  PoolInv'
<1> DEFINE e == disk[m]
           queued == [NoJob EXCEPT !.status = "queued", !.latest = e.event, !.persisted = TRUE]
           settling == [NoJob EXCEPT !.status = "cleanup", !.latest = e.event,
                         !.pending = e.pending, !.version = 1, !.persisted = TRUE,
                         !.cleanup = [event |-> e.event, outcome |-> e.outcome,
                                      aborted |-> e.aborted]]
<1>1. queued.status = "queued" /\ Reserved(settling).status = "cleanup"
  BY DEF NoJob, Reserved
<1>2. job' = [job EXCEPT ![m] = queued] \/ job' = [job EXCEPT ![m] = Reserved(settling)]
  BY DEF RestoreJob
<1> HIDE DEF queued, settling
<1>3. NoneStarts
  BY <1>1, <1>2 DEF NoneStarts, IInv, TypeOK, StoreOK
<1> QED
  BY <1>3, IntakeKeepsPool DEF RestoreJob

\* An entry that is dropped had no job: nothing but the file goes.
LEMMA DropFacts ==
    ASSUME IInv, NEW m \in MR, DropEntry(m)
    PROVE  /\ phase = "restoring" /\ disk[m] \in Entry /\ job[m] = NoJob
           /\ UNCHANGED <<job, queue, overflow, running, sweep, worker, cleaner, fallback, phase,
                          jobCancelled, cleanupCancelled, mark, open, inflight, handler>>
           /\ disk' = [disk EXCEPT ![m] = None]
           /\ dropped' = dropped \cup EntryTargets(disk[m])
<1>1. /\ phase = "restoring" /\ disk[m] \in Entry /\ job[m] = NoJob
      /\ job \in [MR -> Job]
  BY DEF DropEntry, IInv, Rest, Loading, TypeOK, StoreOK
<1>2. job' = [job EXCEPT ![m] = NoJob] /\ disk' = [disk EXCEPT ![m] = None]
  BY DEF DropEntry, Forget
<1>3. job' = job
  BY <1>1, <1>2
<1> QED
  BY <1>1, <1>2, <1>3 DEF DropEntry, pool, remote

LEMMA DropPool ==
    ASSUME IInv, IInv', PoolInv, NEW m \in MR, DropEntry(m)
    PROVE  PoolInv'
BY DropFacts, UnchangedJobs, IntakeKeepsPool

-----------------------------------------------------------------------------
(* The workers.                                                            *)

\* A review under way keeps its worker.
LEMMA ReviewHolders ==
    ASSUME IInv, NEW w \in Worker,
           \/ CheckRequest(w) \/ StartReaction(w) \/ RunReview(w)
           \/ BeginSettlement(w) \/ SettleReview(w)
    PROVE  SameHolders
<1> DEFINE m == worker[w].mr
<1>0. Busy(w) /\ worker \in [Worker -> WorkerState]
  BY DEF CheckRequest, StartReaction, RunReview, BeginSettlement, SettleReview, Busy, IInv,
     TypeOK, WorkerOK
<1>1. ASSUME NEW v, v.mr = m, v.step # "idle", worker' = [worker EXCEPT ![w] = v]
      PROVE  SameHolders
  BY <1>0, <1>1 DEF SameHolders, Busy
<1>2. worker[w] \in WorkerState
  BY <1>0
<1>3. ASSUME NEW o, Goto(w, Ends("begin", o), o)
      PROVE  SameHolders
  <2> DEFINE v == [worker[w] EXCEPT !.step = Ends("begin", o), !.outcome = o]
  <2>1. worker' = [worker EXCEPT ![w] = v]
    BY <1>0, <1>3 DEF Goto
  <2>2. v.mr = m /\ v.step # "idle"
    BY <1>2 DEF Ends, WorkerState
  <2> QED
    BY <1>1, <2>1, <2>2
<1>4. CASE CheckRequest(w)
  <2>1. CASE worker' = [worker EXCEPT ![w].step = "start", ![w].event.targets = @ \cup {m}]
    BY <1>0, <2>1 DEF SameHolders, Busy, WorkerState
  <2> QED
    BY <1>3, <1>4, <2>1 DEF CheckRequest
<1>5. CASE StartReaction(w)
  BY <1>0, <1>5 DEF SameHolders, Busy, StartReaction, WorkerState
<1>6. CASE RunReview(w)
  BY <1>3, <1>6 DEF RunReview
<1>7. CASE BeginSettlement(w)
  BY <1>0, <1>7 DEF SameHolders, Busy, BeginSettlement, WorkerState
<1>8. CASE SettleReview(w)
  <2>1. PICK e : worker' = [worker EXCEPT ![w].step = "finish", ![w].event = e]
    BY <1>8 DEF SettleReview
  <2> DEFINE v == [worker[w] EXCEPT !.step = "finish", !.event = e]
  <2>2. worker' = [worker EXCEPT ![w] = v]
    BY <1>0, <2>1
  <2>3. v.mr = m /\ v.step # "idle"
    BY <1>2 DEF WorkerState
  <2> QED
    BY <1>1, <2>2, <2>3
<1> QED
  BY <1>4, <1>5, <1>6, <1>7, <1>8

\* A review under way changes its own job only, which runs already.
LEMMA ReviewPool ==
    ASSUME IInv, IInv', PoolInv, NEW w \in Worker,
           \/ CheckRequest(w) \/ StartReaction(w) \/ RunReview(w)
           \/ BeginSettlement(w) \/ SettleReview(w)
    PROVE  PoolInv'
<1> DEFINE m == worker[w].mr
<1>1. Busy(w) /\ worker \in [Worker -> WorkerState]
  BY DEF CheckRequest, StartReaction, RunReview, BeginSettlement, SettleReview, Busy, IInv,
     TypeOK, WorkerOK
<1>2. m \in MR /\ job[m].status = "running"
  BY <1>1, BusyFacts
<1>3. \A n \in MR \ {m} : job'[n] = job[n]
  BY <1>2, SavedAlone
  DEF CheckRequest, StartReaction, RunReview, BeginSettlement, SettleReview, store, IInv, TypeOK
<1>4. NoneStarts
  BY <1>2, <1>3 DEF NoneStarts
<1>5. SameHolders
  BY ReviewHolders
<1>6. UNCHANGED running
  BY DEF CheckRequest, StartReaction, RunReview, BeginSettlement, SettleReview, pool
<1> QED
  BY <1>4, <1>5, <1>6, SamePool

\* A worker that takes a job marks it running and counts it.
LEMMA TakePool ==
    ASSUME IInv, IInv', PoolInv, NEW w \in Worker, Take(w)
    PROVE  PoolInv'
<1> DEFINE m == Head(queue)
<1>1. m \in MR
  BY DEF Take, IInv, TypeOK, PoolOK
<1>2. CASE ~Takeable(m)
  <2>1. UNCHANGED <<job, running, worker>>
    BY <1>2 DEF Take
  <2> QED
    BY <2>1, UnchangedJobs, IntakeKeepsPool
<1>3. CASE Takeable(m)
  <2>1. /\ job' = [job EXCEPT ![m].status = "running", ![m].cancelled = FALSE]
        /\ running' = running + 1
        /\ worker' = [worker EXCEPT ![w] =
               [step |-> "check", mr |-> m, event |-> job[m].latest,
                outcome |-> "none", version |-> 0]]
    BY <1>3 DEF Take
  <2>2. job[m].status = "queued" /\ ~Busy(w)
    BY <1>3 DEF Takeable, Take, Busy
  <2>3. job'[m].status = "running" /\ \A n \in MR \ {m} : job'[n] = job[n]
    BY <1>1, <2>1 DEF IInv, TypeOK, StoreOK, Job
  <2>4. Running' = Running \cup {m} /\ m \notin Running
    BY <1>1, <2>2, <2>3 DEF Running
  <2>5. /\ worker'[w].mr = m /\ worker'[w].step = "check"
        /\ \A u \in Worker \ {w} : worker'[u] = worker[u]
    BY <2>1 DEF IInv, TypeOK, WorkerOK
  <2>6. RunningHeld'
    BY <2>2, <2>4, <2>5 DEF PoolInv, RunningHeld, Busy
  <2>7. IdleFree'
    BY <2>5 DEF PoolInv, IdleFree, Busy
  <2>8. Counted'
    BY <2>1, <2>4, FS_AddElement DEF PoolInv, Counted
  <2> QED
    BY <2>6, <2>7, <2>8 DEF PoolInv
<1> QED
  BY <1>2, <1>3

\* A worker that finishes takes its job out of the running ones, whatever is left to do.
LEMMA FinishPool ==
    ASSUME IInv, IInv', PoolInv, NEW w \in Worker, Finish(w)
    PROVE  PoolInv'
<1> DEFINE m == worker[w].mr
           e == worker[w].event
           o == worker[w].outcome
<1>1. /\ Busy(w) /\ m \in MR /\ e \in Event /\ job[m].status = "running"
      /\ o \in Outcome \cup {"interrupted"}
  BY BusyFacts DEF Finish, Busy, IInv, TypeOK, WorkerOK, WorkerShape, WorkerState
<1>2. JobStep(m) /\ job'[m].status # "running"
  <2>1. CASE o = "interrupted" /\ FinishInterrupted(m, e)
    BY <1>1, <2>1, FinishInterruptedStep
  <2>2. CASE o # "interrupted" /\ Preempted(w) /\ FinishAborted(m)
    BY <1>1, <2>2, FinishAbortedStep DEF Preempted
  <2>3. CASE o # "interrupted" /\ FinishUnsettled(m, e, o)
    BY <1>1, <2>3, FinishUnsettledStep
  <2>4. CASE EndOrPromote(m)
    BY <1>1, <2>4, EndOrPromoteStep DEF GivesWay, NoJob
  <2> QED
    BY <2>1, <2>2, <2>3, <2>4 DEF Finish
<1>3. Running' = Running \ {m} /\ m \in Running
  BY <1>1, <1>2 DEF Running, JobStep
<1>4. running' = running - 1 /\ worker' = [worker EXCEPT ![w] = IdleWorker]
  BY DEF Finish
<1>5. /\ worker'[w].mr = None /\ worker'[w].step = "idle"
      /\ \A u \in Worker \ {w} : worker'[u] = worker[u]
  BY <1>4 DEF IdleWorker, IInv, TypeOK, WorkerOK
<1>6. RunningHeld'
  BY <1>3, <1>5 DEF PoolInv, RunningHeld, Busy
<1>7. IdleFree'
  BY <1>5 DEF PoolInv, IdleFree, Busy
<1>8. Counted'
  BY <1>3, <1>4, FS_RemoveElement DEF PoolInv, Counted
<1> QED
  BY <1>6, <1>7, <1>8 DEF PoolInv

-----------------------------------------------------------------------------
(* The life of the daemon.                                                 *)

LEMMA EmptyPool ==
    ASSUME job = [m \in MR |-> NoJob], worker = [w \in Worker |-> IdleWorker], running = 0
    PROVE  PoolInv
<1>1. Running = {}
  BY DEF Running, NoJob
<1>2. RunningHeld /\ IdleFree
  BY <1>1 DEF RunningHeld, IdleFree, Busy, IdleWorker
<1>3. Counted
  BY <1>1, FS_EmptySet DEF Counted
<1> QED
  BY <1>2, <1>3 DEF PoolInv

LEMMA HaltPool ==
    ASSUME Halt
    PROVE  PoolInv'
<1>1. /\ job' = [m \in MR |-> NoJob] /\ worker' = [w \in Worker |-> IdleWorker]
      /\ running' = 0
  BY DEF Halt
<1>2. Running' = {}
  BY <1>1 DEF Running, NoJob
<1>3. RunningHeld' /\ IdleFree'
  BY <1>1, <1>2 DEF RunningHeld, IdleFree, Busy, IdleWorker
<1>4. Counted'
  BY <1>1, <1>2, FS_EmptySet DEF Counted
<1> QED
  BY <1>3, <1>4 DEF PoolInv

LEMMA LifecyclePool ==
    ASSUME IInv, IInv', PoolInv, Lifecycle
    PROVE  PoolInv'
<1>1. CASE Exit \/ Crash
  BY <1>1, HaltPool DEF Exit, Crash
<1>2. CASE ~(Exit \/ Crash)
  <2>1. UNCHANGED <<job, running, worker>>
    BY <1>2 DEF Lifecycle, Serve, Stop, CloseIntake, GraceExpires, StopCleanup,
       CleanupGraceExpires, Start, Quiet, store, pool
  <2> QED
    BY <2>1, UnchangedJobs, IntakeKeepsPool
<1> QED
  BY <1>1, <1>2

-----------------------------------------------------------------------------

LEMMA NextPool ==
    ASSUME IInv, IInv', PoolInv, [Next]_vars
    PROVE  PoolInv'
<1>1. ASSUME NEW m \in MR, \/ EnqueueEvent(m) \/ Abort(m) \/ TimerFires(m)
                           \/ RestoreJob(m) \/ DropEntry(m)
      PROVE  PoolInv'
  BY <1>1, IntakePool, TimerPool, RestorePool, DropPool
<1>2. ASSUME NEW n \in Note, AwardAck(n) \/ HandleReview(n)
      PROVE  PoolInv'
  BY <1>2, HandlerPool
<1>3. ASSUME NEW w \in Worker, WorkerStep(w)
      PROVE  PoolInv'
  BY <1>3, TakePool, ReviewPool, FinishPool DEF WorkerStep
<1>4. ASSUME NEW c \in Cleaner, CleanerStep(c)
      PROVE  PoolInv'
  BY <1>4, CleanerPool
<1>5. ASSUME NEW t \in Target, LateCommit(t) \/ WindowEnds(t)
      PROVE  PoolInv'
  BY <1>5, UnchangedJobs, IntakeKeepsPool DEF LateCommit, WindowEnds, store, pool
<1>6. CASE Lifecycle
  BY <1>6, LifecyclePool
<1>7. CASE UNCHANGED vars
  BY <1>7, UnchangedJobs, IntakeKeepsPool DEF vars, store, pool
<1> QED
  BY <1>1, <1>2, <1>3, <1>4, <1>5, <1>6, <1>7 DEF Next

\* The invariant says what the property says: the busy workers and the running jobs
\* are paired one to one.
LEMMA PoolInvImplies == IInv /\ PoolInv => OneReviewPerRequest
<1> SUFFICES ASSUME IInv, PoolInv PROVE OneReviewPerRequest
  OBVIOUS
<1>1. ASSUME NEW v \in Worker, NEW w \in Worker, worker[v].mr = worker[w].mr,
             worker[v].mr # None
      PROVE  v = w
  BY <1>1 DEF PoolInv, IdleFree, IInv, Rest, Exclusive
<1>2. Running = {worker[w].mr : w \in {w \in Worker : worker[w].step # "idle"}}
  <2>1. ASSUME NEW m \in Running
        PROVE  m \in {worker[w].mr : w \in {w \in Worker : worker[w].step # "idle"}}
    BY DEF PoolInv, RunningHeld, Busy
  <2>2. ASSUME NEW w \in Worker, worker[w].step # "idle"
        PROVE  worker[w].mr \in Running
    BY <2>2, BusyFacts DEF Busy, Running
  <2> QED
    BY <2>1, <2>2
<1>3. running = Cardinality(Running)
  BY DEF PoolInv, Counted
<1> QED
  BY <1>1, <1>2, <1>3 DEF OneReviewPerRequest, Running

\* No merge request is ever reviewed by two workers at once, a worker's job is marked
\* running and no other is, and Dispatcher.running counts exactly those jobs: through
\* coalescing, aborts, cleanup, shutdown, crashes and restarts.
THEOREM OneReviewAtATime == Spec => []OneReviewPerRequest
<1>1. Init => PoolInv
  BY EmptyPool DEF Init
<1>2. IInv /\ IInv' /\ PoolInv /\ [Next]_vars => PoolInv'
  BY NextPool
<1>3. IInv /\ PoolInv => OneReviewPerRequest
  BY PoolInvImplies
<1> QED
  BY <1>1, <1>2, <1>3, InductiveInvariant, PTL DEF Spec

-----------------------------------------------------------------------------
(* The queue: whoever waits for a worker will be found by one.             *)

\* The keys a worker can still receive.
Keys == {queue[i] : i \in DOMAIN queue} \cup {overflow[i] : i \in DOMAIN overflow}
Working(p) == p \in {"restoring", "up"}

Keyed == Working(phase) => \A m \in MR : job[m].status = "queued" => m \in Keys
ParkedWhenFull == overflow # <<>> => Len(queue) = QueueCap
\* A review is interrupted by the end of the grace period, after intake closed.
Patience ==
    /\ jobCancelled => phase \in {"closed", "settling"}
    /\ \A w \in Worker : Busy(w) /\ worker[w].outcome = "interrupted" => jobCancelled

KeysInv == Keyed /\ ParkedWhenFull /\ Patience

\* What the channel and the parked keys hold together, whichever way it is split.
LEMMA AppendedKeys ==
    ASSUME NEW m \in MR, NEW s \in Seq(MR)
    PROVE  {Append(s, m)[i] : i \in DOMAIN Append(s, m)} = {s[i] : i \in DOMAIN s} \cup {m}
<1> DEFINE t == Append(s, m)
<1>1. /\ Len(s) \in Nat /\ DOMAIN s = 1..Len(s) /\ DOMAIN t = 1..(Len(s) + 1)
      /\ t[Len(s) + 1] = m /\ \A i \in 1..Len(s) : t[i] = s[i]
  OBVIOUS
<1> HIDE DEF t
<1>2. ASSUME NEW i \in DOMAIN t PROVE t[i] \in {s[k] : k \in DOMAIN s} \cup {m}
  BY <1>1
<1>3. ASSUME NEW i \in DOMAIN s PROVE s[i] \in {t[k] : k \in DOMAIN t}
  BY <1>1
<1>4. m \in {t[k] : k \in DOMAIN t}
  BY <1>1
<1>5. {t[i] : i \in DOMAIN t} = {s[i] : i \in DOMAIN s} \cup {m}
  BY <1>2, <1>3, <1>4
<1> QED
  BY <1>5 DEF t

LEMMA Concatenated ==
    ASSUME NEW s \in Seq(MR), NEW t \in Seq(MR)
    PROVE  /\ Len(s \o t) = Len(s) + Len(t) /\ DOMAIN (s \o t) = 1..(Len(s) + Len(t))
           /\ \A i \in 1..Len(s) : (s \o t)[i] = s[i]
           /\ \A i \in 1..Len(t) : (s \o t)[Len(s) + i] = t[i]
OBVIOUS

LEMMA PushedKey ==
    ASSUME PoolOK, ParkedWhenFull, NEW m \in MR, PushKey(m)
    PROVE  Keys' = Keys \cup {m} /\ ParkedWhenFull'
<1>1. queue \in Seq(MR) /\ overflow \in Seq(MR) /\ Len(queue) <= QueueCap /\ QueueCap \in Nat
  BY SizeAssumption DEF PoolOK
<1>2. CASE Len(queue) < QueueCap
  <2>1. queue' = Append(queue, m) /\ overflow' = overflow /\ overflow = <<>>
    BY <1>2, <1>1 DEF PushKey, ParkedWhenFull
  <2> QED
    BY <1>1, <2>1, AppendedKeys DEF Keys, ParkedWhenFull
<1>3. CASE ~(Len(queue) < QueueCap)
  <2>1. overflow' = Append(overflow, m) /\ queue' = queue /\ Len(queue) = QueueCap
    BY <1>3, <1>1 DEF PushKey
  <2> QED
    BY <1>1, <2>1, AppendedKeys DEF Keys, ParkedWhenFull
<1> QED
  BY <1>2, <1>3

\* A receive takes one key away and loses none of the parked ones.
LEMMA DrainedKeys ==
    ASSUME PoolOK, ParkedWhenFull, queue # <<>>,
           queue' = Drained(Tail(queue))[1], overflow' = Drained(Tail(queue))[2]
    PROVE  Keys \subseteq Keys' \cup {Head(queue)} /\ ParkedWhenFull'
<1> DEFINE keys == Tail(queue)
           moved == IF Len(overflow) <= QueueCap - Len(keys) THEN Len(overflow)
                    ELSE QueueCap - Len(keys)
           first == SubSeq(overflow, 1, moved)
           last == SubSeq(overflow, moved + 1, Len(overflow))
<1>1. /\ queue \in Seq(MR) /\ overflow \in Seq(MR) /\ Len(queue) <= QueueCap
      /\ QueueCap \in Nat /\ Len(queue) \in Nat /\ Len(overflow) \in Nat
  BY SizeAssumption DEF PoolOK
<1>2. /\ keys \in Seq(MR) /\ Len(keys) = Len(queue) - 1 /\ Len(keys) \in Nat
      /\ \A i \in 1..Len(keys) : keys[i] = queue[i + 1]
  BY <1>1
<1>3. moved \in 0..Len(overflow) /\ moved + Len(keys) <= QueueCap
  BY <1>1, <1>2
<1>4. moved < Len(overflow) => moved + Len(keys) = QueueCap
  BY <1>1, <1>2
<1>5. queue' = keys \o first /\ overflow' = last
  BY DEF Drained
<1> HIDE DEF keys, moved
<1>6. /\ first \in Seq(MR) /\ Len(first) = moved /\ \A i \in 1..moved : first[i] = overflow[i]
      /\ last \in Seq(MR) /\ Len(last) = Len(overflow) - moved
      /\ \A i \in 1..(Len(overflow) - moved) : last[i] = overflow[i + moved]
  BY <1>1, <1>3
<1> HIDE DEF first, last
<1>7. /\ Len(queue') = Len(keys) + moved /\ DOMAIN queue' = 1..(Len(keys) + moved)
      /\ \A i \in 1..Len(keys) : queue'[i] = keys[i]
      /\ \A i \in 1..moved : queue'[Len(keys) + i] = first[i]
  <2>1. /\ Len(keys \o first) = Len(keys) + Len(first)
        /\ DOMAIN (keys \o first) = 1..(Len(keys) + Len(first))
        /\ \A i \in 1..Len(keys) : (keys \o first)[i] = keys[i]
        /\ \A i \in 1..Len(first) : (keys \o first)[Len(keys) + i] = first[i]
    BY <1>2, <1>6, Concatenated
  <2>2. Len(first) = moved /\ queue' = keys \o first
    BY <1>5, <1>6
  <2> QED
    BY <2>1, <2>2, Zenon
<1>8. ParkedWhenFull'
  BY <1>3, <1>4, <1>5, <1>6, <1>7 DEF ParkedWhenFull
<1>9. ASSUME NEW i \in DOMAIN queue, queue[i] # Head(queue)
      PROVE  queue[i] \in Keys'
  <2>1. i \in 1..Len(queue) /\ i # 1
    BY <1>1, <1>9
  <2>2. i - 1 \in 1..Len(keys) /\ queue[i] = keys[i - 1]
    BY <1>1, <1>2, <2>1
  <2>3. i - 1 \in DOMAIN queue' /\ queue'[i - 1] = queue[i]
    BY <1>2, <1>3, <1>7, <2>2
  <2> QED
    BY <2>3 DEF Keys
<1>10. ASSUME NEW i \in DOMAIN overflow
       PROVE  overflow[i] \in Keys'
  <2>1. i \in 1..Len(overflow)
    BY <1>1
  <2>2. CASE i <= moved
    <3>1. i \in 1..moved
      BY <1>3, <2>1, <2>2
    <3>2. Len(keys) + i \in DOMAIN queue' /\ queue'[Len(keys) + i] = overflow[i]
      BY <1>2, <1>3, <1>6, <1>7, <3>1
    <3> QED
      BY <3>2 DEF Keys
  <2>3. CASE ~(i <= moved)
    <3>1. i - moved \in 1..(Len(overflow) - moved) /\ i - moved \in DOMAIN last
      BY <1>1, <1>3, <1>6, <2>1, <2>3
    <3>2. last[i - moved] = overflow[i]
      BY <1>3, <1>6, <2>1, <3>1
    <3> QED
      BY <1>5, <3>1, <3>2 DEF Keys
  <2> QED
    BY <2>2, <2>3
<1> QED
  BY <1>8, <1>9, <1>10 DEF Keys

-----------------------------------------------------------------------------
(* Every step keeps the keys.                                              *)

\* No job comes to wait for a worker without a key.
KeysStep ==
    /\ Working(phase') => Working(phase)
    /\ Working(phase') => Keys \cap {m \in MR : job'[m].status = "queued"} \subseteq Keys'
    /\ Working(phase') =>
         \A m \in MR : job'[m].status = "queued" => job[m].status = "queued" \/ m \in Keys'

LEMMA KeysKept ==
    ASSUME KeysInv, KeysStep
    PROVE  Keyed'
BY DEF KeysInv, Keyed, KeysStep

\* The interruption of a review is a matter of the worker and the life of the daemon.
LEMMA PatienceKept ==
    ASSUME KeysInv, UNCHANGED <<phase, jobCancelled>>,
           \A w \in Worker : Busy(w)' /\ worker'[w].outcome = "interrupted" =>
               jobCancelled \/ (Busy(w) /\ worker[w].outcome = "interrupted")
    PROVE  Patience'
BY DEF KeysInv, Patience

\* A step that leaves the queue alone and puts nobody into it.
LEMMA SameKeys ==
    ASSUME KeysInv, UNCHANGED <<queue, overflow>>, Working(phase') => Working(phase),
           \A m \in MR : job'[m].status = "queued" => job[m].status = "queued"
    PROVE  Keyed' /\ ParkedWhenFull'
BY DEF KeysInv, Keyed, ParkedWhenFull, Keys

LEMMA EnqueueKeys ==
    ASSUME IInv, KeysInv, NEW m \in MR, NEW e \in Event, Enqueue(m, e), UNCHANGED <<worker, life>>
    PROVE  KeysInv'
<1>1. Patience'
  BY PatienceKept DEF Busy, life
<1>2. Accepted(m, e) /\ JobStep(m)
  BY EnqueueStep DEF Accepted
<1>3. CASE Admit(m, e)
  <2>1. /\ queue' = Append(queue, m) /\ overflow' = overflow /\ Len(queue) < QueueCap
        /\ queue \in Seq(MR)
    BY <1>3, SizeAssumption DEF Admit, Refuses, IInv, TypeOK, PoolOK
  <2>2. overflow = <<>>
    BY <2>1, SizeAssumption DEF KeysInv, ParkedWhenFull
  <2>3. Keys' = Keys \cup {m}
    BY <2>1, AppendedKeys DEF Keys
  <2>4. Keyed'
    BY <1>2, <2>3, KeysKept DEF KeysStep, JobStep, life
  <2>5. ParkedWhenFull'
    BY <2>1, <2>2 DEF ParkedWhenFull
  <2> QED
    BY <1>1, <2>4, <2>5 DEF KeysInv
<1>4. CASE ~Admit(m, e)
  <2>1. UNCHANGED <<queue, overflow>>
    BY <1>4 DEF Enqueue, ParkBehindCleanup, ParkBehindReview, Coalesce, pool
  <2>2. job[m].status # "none"
    BY <1>4 DEF Enqueue, ParkBehindCleanup, ParkBehindReview, Coalesce, IInv, TypeOK, StoreOK,
       JobShape, NoJob
  <2>3. job'[m].status = "queued" => job[m].status = "queued"
    BY <1>2, <2>2 DEF Accepted, Created, ParkedBehind, Joined, NoJob
  <2> QED
    BY <1>1, <1>2, <2>1, <2>3, SameKeys DEF KeysInv, JobStep, life
<1> QED
  BY <1>3, <1>4

LEMMA IntakeKeys ==
    ASSUME IInv, KeysInv, NEW m \in MR, EnqueueEvent(m) \/ Abort(m)
    PROVE  KeysInv'
<1>1. CASE EnqueueEvent(m)
  <2>1. \A k \in Trigger : [kind |-> k, targets |-> {}, unsure |-> {}] \in Event
    BY DEF Event
  <2>2. PICK e \in Event : Enqueue(m, e)
    BY <1>1, <2>1 DEF EnqueueEvent, Trigger
  <2>3. UNCHANGED <<worker, life>>
    BY <1>1 DEF EnqueueEvent
  <2> QED
    BY <2>2, <2>3, EnqueueKeys
<1>2. CASE Abort(m)
  <2>1. JobStep(m) /\ job'[m].status # "queued"
    BY <1>2, AbortRunningStep, AbortQueuedStep, AbortPendingStep DEF Abort
  <2>2. UNCHANGED <<queue, overflow, phase, jobCancelled, worker>>
    BY <1>2 DEF Abort, pool, life
  <2>3. Patience'
    BY <2>2, PatienceKept DEF Busy
  <2> QED
    BY <2>1, <2>2, <2>3, SameKeys DEF KeysInv, JobStep
<1> QED
  BY <1>1, <1>2

\* A step that leaves queue, workers, jobs and life alone.
LEMMA IdleKeys ==
    ASSUME KeysInv, UNCHANGED <<queue, overflow, job, worker, life>>
    PROVE  KeysInv'
<1>1. UNCHANGED <<phase, jobCancelled>>
  BY DEF life
<1>2. Patience'
  BY <1>1, PatienceKept DEF Busy
<1>3. Keyed' /\ ParkedWhenFull'
  BY <1>1, SameKeys
<1> QED
  BY <1>2, <1>3 DEF KeysInv

LEMMA HandlerKeys ==
    ASSUME IInv, KeysInv, NEW n \in Note, AwardAck(n) \/ HandleReview(n)
    PROVE  KeysInv'
<1>1. CASE AwardAck(n)
  BY <1>1, IdleKeys DEF AwardAck, store, pool
<1>2. CASE HandleReview(n) /\ Enqueue(NoteMR[n], CommandEvent(n))
  <2>1. NoteMR[n] \in MR /\ CommandEvent(n) \in Event
    BY SizeAssumption DEF CommandEvent, Event, Trigger, Target
  <2> QED
    BY <1>2, <2>1, EnqueueKeys DEF HandleReview
<1>3. CASE HandleReview(n) /\ UNCHANGED <<store, pool>>
  BY <1>3, IdleKeys DEF HandleReview, store, pool
<1> QED
  BY <1>1, <1>2, <1>3 DEF HandleReview

\* The channel takes the key of a promoted job as long as anybody reads it.
LEMMA PromotedKey ==
    ASSUME IInv, KeysInv, NEW m \in MR, EndOrPromote(m), UNCHANGED life
    PROVE  Keyed' /\ ParkedWhenFull'
<1>1. JobStep(m) /\ GivesWay(m)
  BY EndOrPromoteStep
<1>2. CASE UNCHANGED <<queue, overflow>> /\ (Working(phase) => job'[m].status # "queued")
  BY <1>1, <1>2 DEF KeysInv, Keyed, ParkedWhenFull, Keys, JobStep, life
<1>3. CASE PushKey(m)
  <2>1. Keys' = Keys \cup {m} /\ ParkedWhenFull'
    BY <1>3, PushedKey DEF IInv, TypeOK, KeysInv
  <2> QED
    BY <1>1, <2>1, KeysKept DEF KeysStep, JobStep, life
<1>4. closed => ~Working(phase)
  BY DEF closed, Working
<1>5. job[m].pending = None => job'[m].status # "queued"
  BY <1>1 DEF GivesWay, NoJob
<1> QED
  BY <1>2, <1>3, <1>4, <1>5 DEF EndOrPromote

LEMMA CleanerKeys ==
    ASSUME IInv, KeysInv, NEW c \in Cleaner, CleanerStep(c)
    PROVE  KeysInv'
<1>1. CASE CleanerTake(c) \/ CleanerSettle(c) \/ CleanerCancelled(c)
  BY <1>1, IdleKeys DEF CleanerTake, CleanerSettle, CleanerCancelled, store, pool
<1>2. CASE CleanerComplete(c)
  <2>1. UNCHANGED <<worker, life, handler, phase, jobCancelled>>
    BY <1>2 DEF CleanerComplete, life
  <2>2. Patience'
    BY <2>1, PatienceKept DEF Busy
  <2>3. alive /\ cleaner[c].work \in Work
    BY <1>2, HeldFacts DEF CleanerComplete
  <2>4. ASSUME cleaner[c].work.durable PROVE Keyed' /\ ParkedWhenFull'
    <3> DEFINE m == cleaner[c].work.mr
    <3>1. m \in MR /\ Completed(m)
      BY <1>2, <2>1, <2>3, <2>4, CompleteDurableStep DEF CleanerComplete, Work
    <3>2. CASE EndOrPromote(m)
      BY <2>1, <3>1, <3>2, PromotedKey
    <3>3. CASE UNCHANGED <<job, queue, overflow>>
      BY <2>1, <3>3, SameKeys
    <3>4. CASE JobStep(m) /\ KeepsCleanup(m) /\ UNCHANGED <<queue, overflow>>
      BY <2>1, <3>1, <3>4, SameKeys DEF JobStep, KeepsCleanup
    <3> QED
      BY <3>1, <3>2, <3>3, <3>4 DEF Completed
  <2>5. ASSUME ~cleaner[c].work.durable PROVE Keyed' /\ ParkedWhenFull'
    BY <1>2, <2>1, <2>5, SameKeys DEF CleanerComplete, store
  <2> QED
    BY <2>2, <2>4, <2>5 DEF KeysInv
<1> QED
  BY <1>1, <1>2 DEF CleanerStep

LEMMA TimerKeys ==
    ASSUME IInv, KeysInv, NEW m \in MR, TimerFires(m)
    PROVE  KeysInv'
<1> DEFINE j == [job[m] EXCEPT !.cleanupQueued = FALSE]
<1>1. job[m] \in Job /\ JobShape(job[m]) /\ j.status = job[m].status
  BY DEF IInv, TypeOK, StoreOK, Job
<1>2. UNCHANGED <<queue, overflow, worker, phase, jobCancelled>>
  BY DEF TimerFires, pool, life
<1>3. Patience'
  BY <1>2, PatienceKept DEF Busy
<1>4. CASE UNCHANGED job
  BY <1>2, <1>3, <1>4, SameKeys DEF KeysInv
<1>5. CASE j.status = "cleanup" /\ job' = [job EXCEPT ![m] = Reserved(j)]
  <2>1. Reserved(j).status = "cleanup"
    BY <1>1, <1>5, ReservationType
  <2>2. \A n \in MR : job'[n].status = "queued" => job[n].status = "queued"
    BY <1>5, <2>1 DEF IInv, TypeOK, StoreOK
  <2> QED
    BY <1>2, <1>3, <2>2, SameKeys DEF KeysInv
<1> QED
  BY <1>4, <1>5 DEF TimerFires

\* Restoring a runnable entry queues its key, in the channel or beside it.
LEMMA RestoreKeys ==
    ASSUME IInv, KeysInv, NEW m \in MR, RestoreJob(m)
    PROVE  KeysInv'
<1> DEFINE e == disk[m]
           settling == [NoJob EXCEPT !.status = "cleanup", !.latest = e.event,
                         !.pending = e.pending, !.version = 1, !.persisted = TRUE,
                         !.cleanup = [event |-> e.event, outcome |-> e.outcome,
                                      aborted |-> e.aborted]]
<1>1. UNCHANGED <<worker, phase, jobCancelled>>
  BY DEF RestoreJob
<1>2. Patience'
  BY <1>1, PatienceKept DEF Busy
<1>3. Reserved(settling).status = "cleanup"
  BY DEF NoJob, Reserved
<1>4. CASE e.outcome = "none"
  <2>1. PushKey(m) /\ \A n \in MR \ {m} : job'[n] = job[n]
    BY <1>4 DEF RestoreJob, IInv, TypeOK, StoreOK
  <2>2. Keys' = Keys \cup {m} /\ ParkedWhenFull'
    BY <2>1, PushedKey DEF IInv, TypeOK, KeysInv
  <2>3. Keyed'
    BY <1>1, <2>1, <2>2, KeysKept DEF KeysStep
  <2> QED
    BY <1>2, <2>2, <2>3 DEF KeysInv
<1>5. CASE e.outcome # "none"
  <2>1. job' = [job EXCEPT ![m] = Reserved(settling)] /\ UNCHANGED <<queue, overflow>>
    BY <1>5 DEF RestoreJob
  <2> HIDE DEF settling
  <2>2. \A n \in MR : job'[n].status = "queued" => job[n].status = "queued"
    BY <1>3, <2>1 DEF IInv, TypeOK, StoreOK
  <2> QED
    BY <1>1, <1>2, <2>1, <2>2, SameKeys DEF KeysInv
<1> QED
  BY <1>4, <1>5

LEMMA DropKeys ==
    ASSUME IInv, KeysInv, NEW m \in MR, DropEntry(m)
    PROVE  KeysInv'
<1>1. UNCHANGED <<job, queue, overflow, worker, phase, jobCancelled>>
  BY DropFacts
<1>2. Patience'
  BY <1>1, PatienceKept DEF Busy
<1>3. Keyed' /\ ParkedWhenFull'
  BY <1>1, SameKeys
<1> QED
  BY <1>2, <1>3 DEF KeysInv

LEMMA TakeKeys ==
    ASSUME IInv, KeysInv, NEW w \in Worker, Take(w)
    PROVE  KeysInv'
<1> DEFINE m == Head(queue)
<1>1. /\ queue' = Drained(Tail(queue))[1] /\ overflow' = Drained(Tail(queue))[2]
      /\ queue # <<>> /\ m \in MR /\ UNCHANGED <<phase, jobCancelled>>
  BY DEF Take, IInv, TypeOK, PoolOK, life
<1>2. Keys \subseteq Keys' \cup {m} /\ ParkedWhenFull'
  BY <1>1, DrainedKeys DEF IInv, TypeOK, KeysInv
<1>3. job'[m].status # "queued" /\ \A n \in MR \ {m} : job'[n] = job[n]
  BY <1>1 DEF Take, Takeable, IInv, TypeOK, StoreOK, Job
<1>4. Keyed'
  BY <1>1, <1>2, <1>3, KeysKept DEF KeysStep
<1>5. \A u \in Worker : worker'[u] = worker[u] \/ worker'[u].outcome = "none"
  BY DEF Take, IInv, TypeOK, WorkerOK
<1>6. Patience'
  BY <1>1, <1>5, PatienceKept DEF Busy
<1> QED
  BY <1>2, <1>4, <1>6 DEF KeysInv

\* A review learns of its interruption from the context the daemon cancelled.
LEMMA ReviewKeys ==
    ASSUME IInv, IInv', KeysInv, NEW w \in Worker,
           \/ CheckRequest(w) \/ StartReaction(w) \/ RunReview(w)
           \/ BeginSettlement(w) \/ SettleReview(w)
    PROVE  KeysInv'
<1> DEFINE m == worker[w].mr
<1>1. Busy(w) /\ worker \in [Worker -> WorkerState] /\ worker[w] \in WorkerState
  BY DEF CheckRequest, StartReaction, RunReview, BeginSettlement, SettleReview, Busy, IInv,
     TypeOK, WorkerOK
<1>2. m \in MR /\ job[m].status = "running"
  BY <1>1, BusyFacts
<1>3. \A n \in MR \ {m} : job'[n] = job[n]
  BY <1>2, SavedAlone
  DEF CheckRequest, StartReaction, RunReview, BeginSettlement, SettleReview, store, IInv, TypeOK
<1>4. UNCHANGED <<queue, overflow, phase, jobCancelled>>
  BY DEF CheckRequest, StartReaction, RunReview, BeginSettlement, SettleReview, pool, life
<1>5. ASSUME NEW o, Goto(w, Ends("begin", o), o), o = "interrupted" => jobCancelled
      PROVE  Patience' /\ Busy(w)' /\ worker'[w].mr = m
  <2> DEFINE v == [worker[w] EXCEPT !.step = Ends("begin", o), !.outcome = o]
  <2>1. worker' = [worker EXCEPT ![w] = v]
    BY <1>1, <1>5 DEF Goto
  <2>2. v.outcome = o /\ v.step # "idle" /\ v.mr = m
    BY <1>1 DEF WorkerState, Ends
  <2> HIDE DEF v
  <2>3. worker'[w] = v /\ \A u \in Worker \ {w} : worker'[u] = worker[u]
    BY <1>1, <2>1
  <2> QED
    BY <1>4, <1>5, <2>2, <2>3, PatienceKept DEF Busy
<1>6. ASSUME NEW v, worker' = [worker EXCEPT ![w] = v], v.outcome = worker[w].outcome,
             v.step # "idle", v.mr = m
      PROVE  Patience' /\ Busy(w)' /\ worker'[w].mr = m
  <2>1. worker'[w] = v /\ \A u \in Worker \ {w} : worker'[u] = worker[u]
    BY <1>1, <1>6
  <2> QED
    BY <1>1, <1>4, <1>6, <2>1, PatienceKept DEF Busy
<1>7. Patience' /\ Busy(w)' /\ worker'[w].mr = m
  <2>1. CASE CheckRequest(w)
    <3>1. CASE \E o \in PreRunOutcomes(w) : Goto(w, Ends("begin", o), o)
      BY <1>5, <3>1 DEF PreRunOutcomes
    <3>2. CASE worker' = [worker EXCEPT ![w].step = "start", ![w].event.targets = @ \cup {m}]
      <4> DEFINE e == [worker[w].event EXCEPT !.targets = @ \cup {m}]
                 v == [worker[w] EXCEPT !.step = "start", !.event = e]
      <4>1. worker' = [worker EXCEPT ![w] = v]
        BY <1>1, <3>2 DEF WorkerState
      <4> HIDE DEF e
      <4>2. v.outcome = worker[w].outcome /\ v.step # "idle" /\ v.mr = m
        BY <1>1 DEF WorkerState
      <4> QED
        BY <1>6, <4>1, <4>2
    <3> QED
      BY <2>1, <3>1, <3>2 DEF CheckRequest
  <2>2. CASE StartReaction(w)
    <3>1. CASE worker' = [worker EXCEPT ![w].step = "run"]
      <4> DEFINE v == [worker[w] EXCEPT !.step = "run"]
      <4>1. worker' = [worker EXCEPT ![w] = v]
        BY <1>1, <3>1
      <4>2. v.outcome = worker[w].outcome /\ v.step # "idle" /\ v.mr = m
        BY <1>1 DEF WorkerState
      <4> QED
        BY <1>6, <4>1, <4>2
    <3>2. CASE worker' = [worker EXCEPT ![w].step = "run", ![w].event.unsure = @ \cup {m}]
      <4> DEFINE e == [worker[w].event EXCEPT !.unsure = @ \cup {m}]
                 v == [worker[w] EXCEPT !.step = "run", !.event = e]
      <4>1. worker' = [worker EXCEPT ![w] = v]
        BY <1>1, <3>2 DEF WorkerState
      <4> HIDE DEF e
      <4>2. v.outcome = worker[w].outcome /\ v.step # "idle" /\ v.mr = m
        BY <1>1 DEF WorkerState
      <4> QED
        BY <1>6, <4>1, <4>2
    <3> QED
      BY <2>2, <3>1, <3>2 DEF StartReaction
  <2>3. CASE RunReview(w)
    <3>1. PICK o \in RunOutcomes(w) : Goto(w, Ends("begin", o), o)
      BY <2>3 DEF RunReview
    <3>2. o = "interrupted" => jobCancelled
      <4>1. ASSUME ~jobCancelled, Contexted(w).cancelled PROVE RunOutcomes(w) = {"aborted"}
        BY <4>1 DEF RunOutcomes
      <4>2. ASSUME ~jobCancelled, ~Contexted(w).cancelled
            PROVE  RunOutcomes(w) = {"done", "failed"}
        BY <4>2 DEF RunOutcomes, CtxDone
      <4> QED
        BY <3>1, <4>1, <4>2
    <3> QED
      BY <1>5, <3>1, <3>2
  <2>4. CASE BeginSettlement(w)
    <3>1. ASSUME NEW n, worker' = [worker EXCEPT ![w].step = "settle", ![w].version = n]
          PROVE  Patience' /\ Busy(w)' /\ worker'[w].mr = m
      <4> DEFINE v == [worker[w] EXCEPT !.step = "settle", !.version = n]
      <4>1. worker' = [worker EXCEPT ![w] = v]
        BY <1>1, <3>1 DEF WorkerState
      <4>2. v.outcome = worker[w].outcome /\ v.step # "idle" /\ v.mr = m
        BY <1>1 DEF WorkerState
      <4> QED
        BY <1>6, <4>1, <4>2
    <3> QED
      BY <2>4, <3>1 DEF BeginSettlement
  <2>5. CASE SettleReview(w)
    <3>1. PICK e : worker' = [worker EXCEPT ![w].step = "finish", ![w].event = e]
      BY <2>5 DEF SettleReview
    <3> DEFINE v == [worker[w] EXCEPT !.step = "finish", !.event = e]
    <3>2. worker' = [worker EXCEPT ![w] = v]
      BY <1>1, <3>1
    <3>3. v.outcome = worker[w].outcome /\ v.step # "idle" /\ v.mr = m
      BY <1>1 DEF WorkerState
    <3> QED
      BY <1>6, <3>2, <3>3
  <2> QED
    BY <2>1, <2>2, <2>3, <2>4, <2>5
<1>8. job'[m].status = "running"
  BY <1>7 DEF IInv, Rest, Assigned
<1>9. \A n \in MR : job'[n].status = "queued" => job[n].status = "queued"
  BY <1>3, <1>8
<1> QED
  BY <1>4, <1>7, <1>9, SameKeys DEF KeysInv

\* A finished review leaves a job that waits only behind its key, unless the daemon
\* has stopped to take jobs.
LEMMA FinishKeys ==
    ASSUME IInv, KeysInv, NEW w \in Worker, Finish(w)
    PROVE  KeysInv'
<1> DEFINE m == worker[w].mr
           e == worker[w].event
           o == worker[w].outcome
<1>1. /\ Busy(w) /\ m \in MR /\ e \in Event /\ job[m].status = "running"
      /\ o \in Outcome \cup {"interrupted"}
  BY BusyFacts DEF Finish, Busy, IInv, TypeOK, WorkerOK, WorkerShape, WorkerState
<1>2. UNCHANGED <<life, phase, jobCancelled>> /\ worker' = [worker EXCEPT ![w] = IdleWorker]
  BY DEF Finish, life
<1>3. /\ worker'[w].step = "idle"
      /\ \A u \in Worker \ {w} : worker'[u] = worker[u]
  BY <1>2 DEF IdleWorker, IInv, TypeOK, WorkerOK
<1>4. Patience'
  BY <1>2, <1>3, PatienceKept DEF Busy
<1>5. CASE o = "interrupted" /\ FinishInterrupted(m, e)
  <2>1. ~Working(phase)
    BY <1>1, <1>5 DEF KeysInv, Patience, Working
  <2>2. UNCHANGED <<queue, overflow>>
    BY <1>1, <1>5, FinishInterruptedStep
  <2> QED
    BY <1>2, <1>4, <2>1, <2>2 DEF KeysInv, Keyed, ParkedWhenFull
<1>6. CASE o # "interrupted" /\ EndOrPromote(m)
  BY <1>1, <1>2, <1>4, <1>6, PromotedKey DEF KeysInv
<1>7. ASSUME JobStep(m), job'[m].status # "queued", UNCHANGED <<queue, overflow>>
      PROVE  KeysInv'
  BY <1>2, <1>4, <1>7, SameKeys DEF KeysInv, JobStep
<1>8. CASE o # "interrupted" /\ Preempted(w) /\ FinishAborted(m)
  BY <1>1, <1>7, <1>8, FinishAbortedStep DEF Preempted
<1>9. CASE o # "interrupted" /\ FinishUnsettled(m, e, o)
  BY <1>1, <1>7, <1>9, FinishUnsettledStep
<1> QED
  BY <1>5, <1>6, <1>8, <1>9 DEF Finish

LEMMA LifecycleKeys ==
    ASSUME IInv, KeysInv, Lifecycle
    PROVE  KeysInv'
<1>1. CASE Exit \/ Crash
  <2>1. /\ job' = [m \in MR |-> NoJob] /\ queue' = <<>> /\ overflow' = <<>>
        /\ worker' = [w \in Worker |-> IdleWorker] /\ jobCancelled' = FALSE
    BY <1>1 DEF Exit, Crash, Halt
  <2>2. Keyed' /\ ParkedWhenFull'
    BY <2>1 DEF Keyed, ParkedWhenFull, NoJob
  <2>3. Patience'
    BY <2>1 DEF Patience, Busy, IdleWorker
  <2> QED
    BY <2>2, <2>3 DEF KeysInv
<1>2. CASE ~(Exit \/ Crash)
  <2>1. UNCHANGED <<job, queue, overflow, worker>>
    BY <1>2 DEF Lifecycle, Serve, Stop, CloseIntake, GraceExpires, StopCleanup,
       CleanupGraceExpires, Start, Quiet, store, pool
  <2>2. CASE Start
    <3>1. \A m \in MR : job'[m].status # "queued"
      BY <2>1, <2>2 DEF Start, IInv, Rest, Asleep, alive, NoJob
    <3>2. jobCancelled' = jobCancelled /\ jobCancelled = FALSE
      BY <2>2 DEF Start, KeysInv, Patience, IInv, TypeOK, LifeOK
    <3> QED
      BY <2>1, <3>1, <3>2 DEF KeysInv, Keyed, ParkedWhenFull, Patience, Busy
  <2>3. CASE ~Start
    <3>1. /\ Working(phase') => Working(phase)
          /\ jobCancelled' => phase' \in {"closed", "settling"}
          /\ jobCancelled => jobCancelled'
      BY <1>2, <2>3 DEF Lifecycle, Serve, Stop, CloseIntake, GraceExpires, StopCleanup,
         CleanupGraceExpires, Working, KeysInv, Patience
    <3>2. Keyed' /\ ParkedWhenFull'
      BY <2>1, <3>1, SameKeys
    <3>3. Patience'
      BY <2>1, <3>1 DEF KeysInv, Patience, Busy
    <3> QED
      BY <3>2, <3>3 DEF KeysInv
  <2> QED
    BY <2>2, <2>3
<1> QED
  BY <1>1, <1>2

LEMMA NextKeys ==
    ASSUME IInv, IInv', KeysInv, [Next]_vars
    PROVE  KeysInv'
<1>1. ASSUME NEW m \in MR, \/ EnqueueEvent(m) \/ Abort(m) \/ TimerFires(m)
                           \/ RestoreJob(m) \/ DropEntry(m)
      PROVE  KeysInv'
  BY <1>1, IntakeKeys, TimerKeys, RestoreKeys, DropKeys
<1>2. ASSUME NEW n \in Note, AwardAck(n) \/ HandleReview(n)
      PROVE  KeysInv'
  BY <1>2, HandlerKeys
<1>3. ASSUME NEW w \in Worker, WorkerStep(w)
      PROVE  KeysInv'
  BY <1>3, TakeKeys, ReviewKeys, FinishKeys DEF WorkerStep
<1>4. ASSUME NEW c \in Cleaner, CleanerStep(c)
      PROVE  KeysInv'
  BY <1>4, CleanerKeys
<1>5. ASSUME NEW t \in Target, LateCommit(t) \/ WindowEnds(t)
      PROVE  KeysInv'
  BY <1>5, IdleKeys DEF LateCommit, WindowEnds, store, pool
<1>6. CASE Lifecycle
  BY <1>6, LifecycleKeys
<1>7. CASE UNCHANGED vars
  BY <1>7, IdleKeys DEF vars, store, pool
<1> QED
  BY <1>1, <1>2, <1>3, <1>4, <1>5, <1>6, <1>7 DEF Next

\* While workers run, every queued job's key is in the channel or parked beside it, and
\* keys are parked only while the channel is full: through skipped keys of aborted jobs,
\* promotions past a full channel and the restore of a journal longer than the channel.
THEOREM NobodyWaitsForgotten == Spec => []QueuedHasKey
<1>1. Init => KeysInv
  <2> SUFFICES ASSUME Init PROVE KeysInv
    OBVIOUS
  <2>1. Keyed /\ ParkedWhenFull
    BY DEF Init, Keyed, ParkedWhenFull, NoJob
  <2>2. Patience
    BY DEF Init, Patience, Busy, IdleWorker
  <2> QED
    BY <2>1, <2>2 DEF KeysInv
<1>2. IInv /\ IInv' /\ KeysInv /\ [Next]_vars => KeysInv'
  BY NextKeys
<1>3. KeysInv => QueuedHasKey
  BY DEF KeysInv, Keyed, Keys, Working, ParkedWhenFull, QueuedHasKey
<1> QED
  BY <1>1, <1>2, <1>3, InductiveInvariant, PTL DEF Spec

-----------------------------------------------------------------------------
(* The backlog: how many merge requests the daemon has taken on.           *)

\* The requests with a job, in memory or in the state directory.
Taken == {m \in MR : job[m].status # "none" \/ disk[m] # None}
Bounded == IsFiniteSet(Taken) /\ Cardinality(Taken) <= QueueCap + Cardinality(Worker)

\* At most one running job per worker.
LEMMA RunningFew ==
    ASSUME IInv, PoolInv
    PROVE  Cardinality(Running) <= Cardinality(Worker)
<1> DEFINE holder == [m \in Running |-> CHOOSE w \in Worker : Busy(w) /\ worker[w].mr = m]
<1>1. ASSUME NEW m \in Running
      PROVE  holder[m] \in Worker /\ worker[holder[m]].mr = m
  <2>1. \E w \in Worker : Busy(w) /\ worker[w].mr = m
    BY DEF PoolInv, RunningHeld
  <2> QED
    BY <2>1
<1> HIDE DEF holder
<1>2. holder \in [Running -> Worker]
  BY <1>1 DEF holder
<1>3. \A m, n \in Running : holder[m] = holder[n] => m = n
  BY <1>1
<1>4. holder \in Injection(Running, Worker)
  BY <1>2, <1>3 DEF Injection, IsInjective
<1> QED
  BY <1>4, WorkerAssumption, FS_Injection

LEMMA NothingTaken ==
    ASSUME Bounded, Taken' \subseteq Taken
    PROVE  Bounded'
<1>1. IsFiniteSet(Taken') /\ Cardinality(Taken') <= Cardinality(Taken)
  BY FS_Subset DEF Bounded
<1>2. Cardinality(Taken) \in Nat /\ Cardinality(Taken') \in Nat /\ QueueCap \in Nat
      /\ Cardinality(Worker) \in Nat
  BY <1>1, FS_CardinalityType, WorkerAssumption, SizeAssumption DEF Bounded
<1> QED
  BY <1>1, <1>2 DEF Bounded

\* A step on the job of a merge request that is taken takes no other.
LEMMA OneOfTaken ==
    ASSUME Bounded, NEW m \in MR, JobStep(m), job[m].status # "none"
    PROVE  Bounded'
<1>1. Taken' \subseteq Taken
  BY DEF Taken, JobStep
<1> QED
  BY <1>1, NothingTaken

\* A step that leaves jobs and journal alone.
LEMMA SameTaken ==
    ASSUME Bounded, UNCHANGED <<job, disk>>
    PROVE  Bounded'
BY DEF Bounded, Taken

\* Admission counts the jobs that no worker holds: those are below the capacity, and
\* there are no more of the others than workers.
LEMMA AdmitBounded ==
    ASSUME IInv, PoolInv, Bounded, Serving, NEW m \in MR, NEW e \in Event, Admit(m, e),
           JobStep(m)
    PROVE  Bounded'
<1>1. alive /\ toLoad = {} /\ ~(Backlog >= QueueCap)
  BY ServingFacts DEF Admit, Refuses
<1>2. \A n \in MR : disk[n] # None => job[n].status # "none"
  BY <1>1 DEF IInv, Rest, JournalCoherent, Known, Coherent
<1>3. Taken = {n \in MR : job[n].status # "none"}
  BY <1>2 DEF Taken
<1>4. Backlog = Cardinality(Taken) - Cardinality(Running)
  BY <1>3 DEF Backlog, PoolInv, Counted
<1>5. Cardinality(Running) <= Cardinality(Worker)
  BY RunningFew
<1>6. /\ Cardinality(Taken) \in Nat /\ Cardinality(Running) \in Nat
      /\ Cardinality(Worker) \in Nat /\ QueueCap \in Nat
  BY FS_CardinalityType, WorkerAssumption, SizeAssumption DEF Bounded, PoolInv, Counted
<1>7. Cardinality(Taken) + 1 <= QueueCap + Cardinality(Worker)
  BY <1>1, <1>4, <1>5, <1>6
<1>8. Taken' \subseteq Taken \cup {m}
  BY DEF Taken, JobStep
<1>9. /\ IsFiniteSet(Taken \cup {m})
      /\ Cardinality(Taken \cup {m}) <= Cardinality(Taken) + 1
  BY <1>6, FS_AddElement DEF Bounded
<1>10. /\ IsFiniteSet(Taken') /\ Cardinality(Taken') <= Cardinality(Taken \cup {m})
       /\ Cardinality(Taken') \in Nat /\ Cardinality(Taken \cup {m}) \in Nat
  BY <1>8, <1>9, FS_Subset, FS_CardinalityType
<1> QED
  BY <1>6, <1>7, <1>9, <1>10 DEF Bounded

LEMMA EnqueueBounded ==
    ASSUME IInv, PoolInv, Bounded, Serving, NEW m \in MR, NEW e \in Event, Enqueue(m, e)
    PROVE  Bounded'
<1>1. JobStep(m)
  BY EnqueueStep DEF Accepted
<1>2. CASE Admit(m, e)
  BY <1>1, <1>2, AdmitBounded
<1>3. CASE ~Admit(m, e)
  <2>1. job[m].status # "none"
    BY <1>3 DEF Enqueue, ParkBehindCleanup, ParkBehindReview, Coalesce, IInv, TypeOK, StoreOK,
       JobShape, NoJob
  <2> QED
    BY <1>1, <2>1, OneOfTaken
<1> QED
  BY <1>2, <1>3

LEMMA NextBounded ==
    ASSUME IInv, IInv', PoolInv, Bounded, [Next]_vars
    PROVE  Bounded'
<1>1. ASSUME NEW m \in MR, EnqueueEvent(m)
      PROVE  Bounded'
  <2>1. \A k \in Trigger : [kind |-> k, targets |-> {}, unsure |-> {}] \in Event
    BY DEF Event
  <2>2. PICK e \in Event : Enqueue(m, e)
    BY <1>1, <2>1 DEF EnqueueEvent, Trigger
  <2> QED
    BY <1>1, <2>2, EnqueueBounded DEF EnqueueEvent
<1>2. ASSUME NEW m \in MR, Abort(m)
      PROVE  Bounded'
  <2>1. JobStep(m) /\ job[m].status # "none"
    BY <1>2, AbortRunningStep, AbortQueuedStep, AbortPendingStep DEF Abort, AbortRunning
  <2> QED
    BY <2>1, OneOfTaken
<1>3. ASSUME NEW m \in MR, TimerFires(m)
      PROVE  Bounded'
  <2>1. CASE UNCHANGED job
    BY <1>3, <2>1, SameTaken DEF TimerFires
  <2>2. CASE ~UNCHANGED job
    <3>1. /\ [job[m] EXCEPT !.cleanupQueued = FALSE].status = "cleanup"
          /\ job' = [job EXCEPT ![m] = Reserved([job[m] EXCEPT !.cleanupQueued = FALSE])]
          /\ UNCHANGED disk
      BY <1>3, <2>2 DEF TimerFires
    <3>2. job[m].status = "cleanup"
      BY <3>1 DEF IInv, TypeOK, StoreOK, Job
    <3>3. Taken' \subseteq Taken
      BY <3>1, <3>2 DEF Taken, IInv, TypeOK, StoreOK
    <3> QED
      BY <3>3, NothingTaken
  <2> QED
    BY <2>1, <2>2
<1>4. ASSUME NEW m \in MR, RestoreJob(m)
      PROVE  Bounded'
  <2>1. disk[m] # None /\ UNCHANGED disk /\ \A n \in MR \ {m} : job'[n] = job[n]
    BY <1>4 DEF RestoreJob, IInv, Rest, Loading, TypeOK, StoreOK
  <2>2. Taken' \subseteq Taken
    BY <2>1 DEF Taken
  <2> QED
    BY <2>2, NothingTaken
<1>14. ASSUME NEW m \in MR, DropEntry(m)
       PROVE  Bounded'
  <2>1. job' = job /\ disk' = [disk EXCEPT ![m] = None]
    BY <1>14, DropFacts
  <2>2. Taken' \subseteq Taken
    BY <2>1 DEF Taken, IInv, TypeOK, StoreOK
  <2> QED
    BY <2>2, NothingTaken
<1>5. ASSUME NEW n \in Note, AwardAck(n) \/ HandleReview(n)
      PROVE  Bounded'
  <2>1. CASE HandleReview(n) /\ Enqueue(NoteMR[n], CommandEvent(n))
    <3>1. NoteMR[n] \in MR /\ CommandEvent(n) \in Event
      BY SizeAssumption DEF CommandEvent, Event, Trigger, Target
    <3>2. Serving
      BY <2>1 DEF HandleReview, IInv, Rest, Asleep
    <3> QED
      BY <2>1, <3>1, <3>2, EnqueueBounded
  <2>2. CASE UNCHANGED store
    BY <2>2, SameTaken DEF store
  <2> QED
    BY <1>5, <2>1, <2>2 DEF AwardAck, HandleReview
<1>6. ASSUME NEW w \in Worker, Take(w)
      PROVE  Bounded'
  <2>1. UNCHANGED disk
    BY <1>6 DEF Take
  <2>2. ASSUME NEW n \in MR, job'[n].status # "none" PROVE job[n].status # "none"
    BY <1>6, <2>2 DEF Take, Takeable, IInv, TypeOK, StoreOK, PoolOK
  <2>3. Taken' \subseteq Taken
    BY <2>1, <2>2 DEF Taken
  <2> QED
    BY <2>3, NothingTaken
<1>7. ASSUME NEW w \in Worker, Busy(w),
             \A n \in MR \ {worker[w].mr} : job'[n] = job[n] /\ disk'[n] = disk[n]
      PROVE  Bounded'
  <2>1. worker[w].mr \in MR /\ job[worker[w].mr].status = "running"
    BY <1>7, BusyFacts
  <2>2. Taken' \subseteq Taken
    BY <1>7, <2>1 DEF Taken
  <2> QED
    BY <2>2, NothingTaken
<1>8. ASSUME NEW w \in Worker, \/ CheckRequest(w) \/ StartReaction(w) \/ RunReview(w)
                               \/ BeginSettlement(w) \/ SettleReview(w)
      PROVE  Bounded'
  <2>1. Busy(w)
    BY <1>8 DEF CheckRequest, StartReaction, RunReview, BeginSettlement, SettleReview, Busy
  <2>2. ASSUME NEW m \in MR, NEW j, Save(m, j)
        PROVE  \A n \in MR \ {m} : job'[n] = job[n] /\ disk'[n] = disk[n]
    BY <2>2 DEF Save, IInv, TypeOK, StoreOK
  <2>3. UNCHANGED <<job, disk>> \/ \E j : Save(worker[w].mr, j)
    BY <1>8 DEF CheckRequest, StartReaction, RunReview, BeginSettlement, SettleReview, store
  <2>4. worker[w].mr \in MR
    BY <2>1, BusyFacts
  <2> QED
    BY <1>7, <2>1, <2>2, <2>3, <2>4, SameTaken
<1>9. ASSUME NEW w \in Worker, Finish(w)
      PROVE  Bounded'
  <2> DEFINE m == worker[w].mr
  <2>1. /\ Busy(w) /\ m \in MR /\ worker[w].event \in Event /\ job[m].status = "running"
        /\ worker[w].outcome \in Outcome \cup {"interrupted"}
    BY <1>9, BusyFacts
    DEF Finish, Busy, IInv, TypeOK, WorkerOK, WorkerShape, WorkerState
  <2>2. JobStep(m)
    BY <1>9, <2>1, FinishInterruptedStep, FinishAbortedStep, FinishUnsettledStep,
       EndOrPromoteStep DEF Finish, Preempted
  <2> QED
    BY <2>1, <2>2, OneOfTaken
<1>10. ASSUME NEW c \in Cleaner, CleanerStep(c)
       PROVE  Bounded'
  <2>1. CASE UNCHANGED <<job, disk>>
    BY <2>1, SameTaken
  <2>2. CASE CleanerComplete(c) /\ cleaner[c].work.durable
    <3> DEFINE k == cleaner[c].work
    <3>1. alive /\ k \in Work /\ k.mr \in MR /\ CompleteDurable(k)
          /\ UNCHANGED <<worker, life, handler>>
      BY <2>2, HeldFacts DEF CleanerComplete
    <3>2. Completed(k.mr)
      BY <3>1, CompleteDurableStep
    <3> QED
      BY <3>1, <3>2, SameTaken, OneOfTaken DEF Completed
  <2> QED
    BY <1>10, <2>1, <2>2
    DEF CleanerStep, CleanerTake, CleanerSettle, CleanerCancelled, CleanerComplete, store
<1>11. ASSUME NEW t \in Target, LateCommit(t) \/ WindowEnds(t)
       PROVE  Bounded'
  BY <1>11, SameTaken DEF LateCommit, WindowEnds, store
<1>12. CASE Lifecycle
  <2>1. CASE Exit
    <3>1. ASSUME NEW n \in MR, disk'[n] # None PROVE job[n].status # "none" \/ disk[n] # None
      BY <2>1, <3>1 DEF Exit
    <3>2. \A n \in MR : job'[n].status = "none"
      BY <2>1 DEF Exit, Halt, NoJob
    <3>3. Taken' \subseteq Taken
      BY <3>1, <3>2 DEF Taken
    <3> QED
      BY <3>3, NothingTaken
  <2>2. CASE Crash
    <3>1. Taken' \subseteq Taken
      BY <2>2 DEF Taken, Crash, Halt, NoJob
    <3> QED
      BY <3>1, NothingTaken
  <2>3. CASE UNCHANGED <<job, disk>>
    BY <2>3, SameTaken
  <2> QED
    BY <1>12, <2>1, <2>2, <2>3 DEF Lifecycle, Serve, Stop, CloseIntake, GraceExpires,
       StopCleanup, CleanupGraceExpires, Start, Quiet, store
<1>13. CASE UNCHANGED vars
  BY <1>13, SameTaken DEF vars, store
<1> QED
  BY <1>1, <1>2, <1>3, <1>4, <1>5, <1>6, <1>8, <1>9, <1>10, <1>11, <1>12, <1>13, <1>14
  DEF Next, WorkerStep

\* However long GitLab is away, the merge requests the daemon has taken on are no more
\* than the queue's capacity and the workers: jobs in cleanup count for admission, and a
\* restart finds no more in the state directory than the process before it had taken.
THEOREM BacklogStaysBounded == Spec => []BacklogBounded
<1>1. Init => Bounded
  <2> SUFFICES ASSUME Init PROVE Bounded
    OBVIOUS
  <2>1. Taken = {}
    BY DEF Init, Taken, NoJob
  <2>2. Cardinality(Worker) \in Nat /\ QueueCap \in Nat
    BY FS_CardinalityType, WorkerAssumption, SizeAssumption
  <2> QED
    BY <2>1, <2>2, FS_EmptySet DEF Bounded
<1>2. IInv /\ IInv' /\ PoolInv /\ Bounded /\ [Next]_vars => Bounded'
  BY NextBounded
<1>3. Bounded => BacklogBounded
  <2> SUFFICES ASSUME Bounded PROVE BacklogBounded
    OBVIOUS
  <2> DEFINE jobs == {m \in MR : job[m].status # "none"}
  <2>1. jobs \subseteq Taken
    BY DEF Taken
  <2>2. IsFiniteSet(jobs) /\ Cardinality(jobs) <= Cardinality(Taken)
    BY <2>1, FS_Subset DEF Bounded
  <2>3. /\ Cardinality(jobs) \in Nat /\ Cardinality(Taken) \in Nat
        /\ Cardinality(Worker) \in Nat /\ QueueCap \in Nat
    BY <2>2, FS_CardinalityType, WorkerAssumption, SizeAssumption DEF Bounded
  <2> QED
    BY <2>2, <2>3 DEF Bounded, BacklogBounded
<1>4. Init => PoolInv
  BY EmptyPool DEF Init
<1>5. IInv /\ IInv' /\ PoolInv /\ [Next]_vars => PoolInv'
  BY NextPool
<1> QED
  BY <1>1, <1>2, <1>3, <1>4, <1>5, InductiveInvariant, PTL DEF Spec

-----------------------------------------------------------------------------
(* Durable cleanup: one reservation, one carrier.                          *)

InQueue(m) == {k \in cleanupQueue : k.durable /\ k.mr = m}
InHand(m) == {c \in Cleaner : cleaner[c].step # "idle" /\ cleaner[c].work.durable
                                /\ cleaner[c].work.mr = m}

\* Where the cleanup of a job can be: queued, held by a cleaner, reserved in a full
\* queue, or behind a timer; in one of these places, or in none.
Nowhere(m) == InQueue(m) = {} /\ InHand(m) = {} /\ m \notin waiting /\ m \notin delayed
Somewhere(m) ==
    \/ (\E k : InQueue(m) = {k}) /\ InHand(m) = {} /\ m \notin waiting /\ m \notin delayed
    \/ InQueue(m) = {} /\ (\E c : InHand(m) = {c}) /\ m \notin waiting /\ m \notin delayed
    \/ InQueue(m) = {} /\ InHand(m) = {} /\ m \in waiting /\ m \notin delayed
    \/ InQueue(m) = {} /\ InHand(m) = {} /\ m \notin waiting /\ m \in delayed

Carried(m) ==
    IF job[m].status = "cleanup" THEN job[m].cleanupQueued /\ Somewhere(m)
    ELSE ~job[m].cleanupQueued /\ Nowhere(m)

\* Cleanup is only cancelled after everything else has ended, and a process that is
\* gone carries nothing.
CarryInv ==
    /\ ~closed => \A m \in MR : Carried(m)
    /\ cleanupCancelled => phase = "settling"
    /\ ~alive => cleanupQueue = {} /\ waiting = {} /\ delayed = {}

\* The cleanup of request m stays where it is.
StaysPut(m) ==
    /\ InQueue(m)' = InQueue(m) /\ InHand(m)' = InHand(m)
    /\ (m \in waiting') <=> (m \in waiting)
    /\ (m \in delayed') <=> (m \in delayed)
SameCarriage(m) ==
    /\ StaysPut(m)
    /\ (job'[m].status = "cleanup") <=> (job[m].status = "cleanup")
    /\ job'[m].cleanupQueued <=> job[m].cleanupQueued

LEMMA CarriedOn ==
    ASSUME NEW m \in MR, Carried(m), SameCarriage(m)
    PROVE  Carried(m)'
BY DEF Carried, SameCarriage, StaysPut, Nowhere, Somewhere

\* A step while the daemon is open, that does nothing to the life of the daemon.
LEMMA OpenStep ==
    ASSUME IInv, CarryInv, ~closed, UNCHANGED <<phase, cleanupCancelled>>,
           \A m \in MR : Carried(m)'
    PROVE  CarryInv'
BY DEF CarryInv, alive, closed

\* Once it is closed, nothing is promised until the process is gone.
LEMMA ClosedStep ==
    ASSUME CarryInv, closed, alive, UNCHANGED <<phase, cleanupCancelled>>
    PROVE  CarryInv'
BY DEF CarryInv, alive, closed

\* Best-effort releases carry nobody's cleanup.
LEMMA ReleasesApart ==
    ASSUME NEW m, NEW notes, NEW e, QueueReleases(m, notes, e)
    PROVE  \A n \in MR : InQueue(n)' = InQueue(n)
<1>1. CASE phase = "settling"
  BY <1>1 DEF QueueReleases, InQueue
<1>2. CASE phase # "settling"
  <2>1. PICK fit \in SUBSET notes :
          cleanupQueue' = cleanupQueue \cup {ReleaseWork(m, n, e) : n \in fit}
    BY <1>2 DEF QueueReleases
  <2>2. \A n : ~ReleaseWork(m, n, e).durable
    BY DEF ReleaseWork
  <2> QED
    BY <2>1, <2>2 DEF InQueue
<1> QED
  BY <1>1, <1>2

\* A job that has no carrier gets one by scheduling it, and only that job does.
LEMMA Enlisted ==
    ASSUME SweepOK, NEW m \in MR, NEW j, Enlist(m, j),
           InQueue(m) = {}, m \notin waiting, m \notin delayed', InHand(m)' = {}
    PROVE  /\ Somewhere(m)'
           /\ \A n \in MR \ {m} : InQueue(n)' = InQueue(n) /\ (n \in waiting' <=> n \in waiting)
<1>1. CASE Cardinality(cleanupQueue) < CleanupCap
  <2>1. cleanupQueue' = cleanupQueue \cup {DurableWork(m, j)} /\ waiting' = waiting
    BY <1>1 DEF Enlist
  <2>2. DurableWork(m, j).durable /\ DurableWork(m, j).mr = m
    BY DEF DurableWork
  <2>3. InQueue(m)' = {DurableWork(m, j)}
    BY <2>1, <2>2 DEF InQueue
  <2>4. \A n \in MR \ {m} : InQueue(n)' = InQueue(n)
    BY <2>1, <2>2 DEF InQueue
  <2> QED
    BY <2>1, <2>3, <2>4 DEF Somewhere
<1>2. CASE ~(Cardinality(cleanupQueue) < CleanupCap)
  <2>1. waiting' = waiting \cup {m} /\ cleanupQueue' = cleanupQueue
    BY <1>2 DEF Enlist
  <2> QED
    BY <2>1 DEF Somewhere, InQueue
<1> QED
  BY <1>1, <1>2

LEMMA Scheduled ==
    ASSUME SweepOK, ~closed, NEW m \in MR, NEW j, QueueDurable(m, j),
           InQueue(m) = {}, m \notin waiting, m \notin delayed, InHand(m)' = {}
    PROVE  /\ Somewhere(m)'
           /\ \A n \in MR \ {m} : /\ InQueue(n)' = InQueue(n)
                                  /\ n \in waiting' <=> n \in waiting
                                  /\ n \in delayed' <=> n \in delayed
<1>1. CASE Uncertain(j.cleanup)
  <2>1. delayed' = delayed \cup {m} /\ cleanupQueue' = cleanupQueue /\ waiting' = waiting
    BY <1>1 DEF QueueDurable
  <2> QED
    BY <2>1 DEF Somewhere, InQueue
<1>2. CASE ~Uncertain(j.cleanup)
  <2>1. Enlist(m, j) /\ delayed' = delayed
    BY <1>2 DEF QueueDurable
  <2> QED
    BY <2>1, Enlisted
<1> QED
  BY <1>1, <1>2

\* A job record, whatever its other fields are.
Flagged(j) == {"status", "cleanupQueued"} \subseteq DOMAIN j

\* What a write leaves of the job's reservation.
LEMMA SavedFlag ==
    ASSUME StoreOK, NEW m \in MR, NEW j, Flagged(j), Save(m, j)
    PROVE  /\ job'[m].cleanupQueued = j.cleanupQueued /\ job'[m].status = j.status
           /\ \A n \in MR \ {m} : job'[n] = job[n]
<1>1. PICK ok \in BOOLEAN : job' = [job EXCEPT ![m] = [j EXCEPT !.persisted = ok]]
  BY DEF Save
<1> DEFINE saved == [j EXCEPT !.persisted = ok]
<1>2. saved.cleanupQueued = j.cleanupQueued /\ saved.status = j.status
  BY DEF Flagged
<1> HIDE DEF saved
<1>3. job'[m] = saved /\ \A n \in MR \ {m} : job'[n] = job[n]
  BY <1>1 DEF StoreOK, saved
<1> QED
  BY <1>2, <1>3

LEMMA JobFlagged ==
    ASSUME NEW j \in Job
    PROVE  Flagged(j)
BY DEF Job, Flagged

\* No other field has a say in the reservation.
LEMMA FieldApart ==
    ASSUME NEW j, Flagged(j), NEW f \in {"latest", "pending", "cleanup", "version", "cancelled"},
           NEW v
    PROVE  LET i == [j EXCEPT ![f] = v]
           IN  Flagged(i) /\ i.status = j.status /\ i.cleanupQueued = j.cleanupQueued
BY DEF Flagged

LEMMA ReservedFlag ==
    ASSUME NEW j, Flagged(j), ~closed
    PROVE  Reserved(j).cleanupQueued /\ Reserved(j).status = j.status /\ Flagged(Reserved(j))
BY DEF Reserved, Flagged

\* The step that leaves every reservation and every carrier where it was.
LEMMA AllCarried ==
    ASSUME IInv, CarryInv, ~closed, UNCHANGED <<phase, cleanupCancelled, waiting, delayed>>,
           \A n \in MR : InQueue(n)' = InQueue(n) /\ InHand(n)' = InHand(n),
           \A n \in MR : /\ job'[n].status = "cleanup" <=> job[n].status = "cleanup"
                         /\ job'[n].cleanupQueued <=> job[n].cleanupQueued
    PROVE  CarryInv'
<1>1. \A n \in MR : Carried(n)'
  BY CarriedOn DEF SameCarriage, StaysPut, CarryInv
<1> QED
  BY <1>1, OpenStep

LEMMA EnqueueCarry ==
    ASSUME IInv, CarryInv, NEW m \in MR, NEW e \in Event, Enqueue(m, e),
           UNCHANGED <<cleaner, life>>
    PROVE  CarryInv'
<1>1. ~closed /\ UNCHANGED <<phase, cleanupCancelled, waiting, delayed>>
  BY DEF Enqueue, life
<1>2. \A n \in MR : InQueue(n)' = InQueue(n) /\ InHand(n)' = InHand(n)
  <2>1. UNCHANGED cleanupQueue \/ \E notes : QueueReleases(m, notes, e)
    BY DEF Enqueue, Admit, ParkBehindCleanup, ParkBehindReview, Coalesce
  <2>2. \A n \in MR : InQueue(n)' = InQueue(n)
    BY <2>1, ReleasesApart DEF InQueue
  <2> QED
    BY <2>2 DEF InHand
<1>3. Flagged(job[m]) /\ Accepted(m, e)
  BY JobFlagged, EnqueueStep DEF IInv, TypeOK, StoreOK
<1>4. job'[m].cleanupQueued <=> job[m].cleanupQueued
  <2>1. ASSUME NEW f \in {"latest", "pending"}, NEW v, Save(m, [job[m] EXCEPT ![f] = v])
        PROVE  job'[m].cleanupQueued = job[m].cleanupQueued
    <3> DEFINE i == [job[m] EXCEPT ![f] = v]
    <3>1. Flagged(i) /\ i.cleanupQueued = job[m].cleanupQueued
      BY <1>3, FieldApart
    <3>2. Save(m, i)
      BY <2>1
    <3> HIDE DEF i
    <3> QED
      BY <3>1, <3>2, SavedFlag DEF IInv, TypeOK
  <2>2. CASE Admit(m, e)
    <3> DEFINE j == [NoJob EXCEPT !.status = "queued", !.latest = e]
    <3>1. Flagged(j) /\ j.cleanupQueued = FALSE /\ NoJob.cleanupQueued = FALSE
      BY DEF NoJob, Flagged
    <3>2. Save(m, j) /\ job[m] = NoJob
      BY <2>2 DEF Admit, IInv, TypeOK, StoreOK, JobShape
    <3> HIDE DEF j
    <3> QED
      BY <3>1, <3>2, SavedFlag DEF IInv, TypeOK
  <2>3. CASE ~Admit(m, e)
    <3>1. (\E v : Save(m, [job[m] EXCEPT !.pending = v]))
          \/ (\E v : Save(m, [job[m] EXCEPT !.latest = v]))
      BY <2>3 DEF Enqueue, ParkBehindCleanup, ParkBehindReview, Coalesce
    <3> QED
      BY <2>1, <3>1
  <2> QED
    BY <2>2, <2>3
<1>5. job'[m].status = "cleanup" <=> job[m].status = "cleanup"
  BY <1>3 DEF Accepted, Created, ParkedBehind, Joined, NoJob
<1>6. \A n \in MR \ {m} : job'[n] = job[n]
  BY <1>3 DEF Accepted, JobStep
<1> QED
  BY <1>1, <1>2, <1>4, <1>5, <1>6, AllCarried

\* A job that had no carrier, or has just lost it, is scheduled.
LEMMA ScheduledCarry ==
    ASSUME IInv, CarryInv, ~closed, UNCHANGED <<phase, cleanupCancelled>>,
           NEW m \in MR, NEW j, QueueDurable(m, j),
           InQueue(m) = {}, m \notin waiting, m \notin delayed, InHand(m)' = {},
           \A n \in MR \ {m} : InHand(n)' = InHand(n) /\ job'[n] = job[n],
           job'[m].status = "cleanup", job'[m].cleanupQueued
    PROVE  CarryInv'
<1>1. /\ Somewhere(m)'
      /\ \A n \in MR \ {m} : /\ InQueue(n)' = InQueue(n)
                             /\ n \in waiting' <=> n \in waiting
                             /\ n \in delayed' <=> n \in delayed
  BY Scheduled DEF IInv, TypeOK
<1>2. Carried(m)'
  BY <1>1 DEF Carried
<1>3. \A n \in MR \ {m} : Carried(n)'
  BY <1>1, CarriedOn DEF SameCarriage, StaysPut, CarryInv
<1> QED
  BY <1>2, <1>3, OpenStep

\* A job that is not in cleanup has nothing scheduled.
LEMMA NothingScheduled ==
    ASSUME CarryInv, ~closed, NEW m \in MR, job[m].status # "cleanup"
    PROVE  /\ InQueue(m) = {} /\ InHand(m) = {} /\ m \notin waiting /\ m \notin delayed
           /\ ~job[m].cleanupQueued
BY DEF CarryInv, Carried, Nowhere

\* The record with two fields changed, as the actions write it.
LEMMA AbortingFlag ==
    ASSUME NEW j \in Job, NEW e \in Event
    PROVE  /\ Flagged(Aborting(j, e)) /\ Aborting(j, e).cleanupQueued = j.cleanupQueued
           /\ Aborting(j, e).status = j.status
<1> DEFINE next == j.version + 1
           c == CleanupOf(e, "aborted")
           i1 == [j EXCEPT !.latest = e]
           i2 == [i1 EXCEPT !.pending = None]
           i3 == [i2 EXCEPT !.cleanup = c]
           i4 == [i3 EXCEPT !.version = next]
<1>1. Aborting(j, e) = i4
  BY DEF Aborting
<1> HIDE DEF next, c
<1>2. Flagged(j)
  BY JobFlagged
<1>3. Flagged(i1) /\ i1.status = j.status /\ i1.cleanupQueued = j.cleanupQueued
  BY <1>2, FieldApart
<1> HIDE DEF i1
<1>4. Flagged(i2) /\ i2.status = j.status /\ i2.cleanupQueued = j.cleanupQueued
  BY <1>3, FieldApart
<1> HIDE DEF i2
<1>5. Flagged(i3) /\ i3.status = j.status /\ i3.cleanupQueued = j.cleanupQueued
  BY <1>4, FieldApart
<1> HIDE DEF i3
<1>6. Flagged(i4) /\ i4.status = j.status /\ i4.cleanupQueued = j.cleanupQueued
  BY <1>5, FieldApart
<1> QED
  BY <1>1, <1>6

\* Marking a job as in cleanup.
LEMMA StatusApart ==
    ASSUME NEW j, Flagged(j), NEW s
    PROVE  LET i == [j EXCEPT !.status = s]
           IN  Flagged(i) /\ i.status = s /\ i.cleanupQueued = j.cleanupQueued
BY DEF Flagged

LEMMA AbortCarry ==
    ASSUME IInv, CarryInv, ~closed, NEW m \in MR, Abort(m)
    PROVE  CarryInv'
<1>1. UNCHANGED <<phase, cleanupCancelled>> /\ \A n \in MR : InHand(n)' = InHand(n)
  BY DEF Abort, life, InHand
<1>2. job[m] \in Job /\ Flagged(job[m]) /\ StoreOK /\ JobShape(job[m])
  BY JobFlagged DEF IInv, TypeOK, StoreOK
<1>3. CASE AbortPending(m)
  <2>1. PICK a \in Parked(job[m].cleanup.aborted, job[m].pending) :
          /\ Save(m, [job[m] EXCEPT !.cleanup.aborted = Reduced(a, Notes(a)), !.pending = None,
                                    !.version = @ + 1])
          /\ QueueReleases(m, (MaybeTargets(job[m].cleanup.aborted)
                               \cup Notes(job[m].pending)) \ a.targets, job[m].pending)
    BY <1>3 DEF AbortPending
  <2> DEFINE c == [job[m].cleanup EXCEPT !.aborted = Reduced(a, Notes(a))]
             next == job[m].version + 1
             i1 == [job[m] EXCEPT !.cleanup = c]
             i2 == [i1 EXCEPT !.pending = None]
             i3 == [i2 EXCEPT !.version = next]
  <2>2. Save(m, i3)
    BY <1>2, <2>1 DEF Job
  <2> HIDE DEF c, next
  <2>3. Flagged(i1) /\ i1.status = job[m].status /\ i1.cleanupQueued = job[m].cleanupQueued
    BY <1>2, FieldApart
  <2> HIDE DEF i1
  <2>4. Flagged(i2) /\ i2.status = job[m].status /\ i2.cleanupQueued = job[m].cleanupQueued
    BY <2>3, FieldApart
  <2> HIDE DEF i2
  <2>5. Flagged(i3) /\ i3.status = job[m].status /\ i3.cleanupQueued = job[m].cleanupQueued
    BY <2>4, FieldApart
  <2> HIDE DEF i3
  <2>6. /\ job'[m].cleanupQueued = job[m].cleanupQueued /\ job'[m].status = job[m].status
        /\ \A n \in MR \ {m} : job'[n] = job[n]
    BY <1>2, <2>2, <2>5, SavedFlag
  <2>7. \A n \in MR : InQueue(n)' = InQueue(n)
    BY <2>1, ReleasesApart
  <2>8. UNCHANGED <<phase, cleanupCancelled, waiting, delayed>>
    BY <1>1, <1>3 DEF AbortPending
  <2> QED
    BY <1>1, <2>6, <2>7, <2>8, AllCarried
<1>4. CASE AbortRunning(m)
  <2>1. PICK e \in IF job[m].pending = None THEN {job[m].latest}
                   ELSE Merges(job[m].latest, job[m].pending) :
          Save(m, [Aborting(job[m], e) EXCEPT !.cancelled = TRUE])
    BY <1>4 DEF AbortRunning
  <2>2. e \in Event
    BY <1>2, <1>4, AbortedEventType DEF AbortRunning, JobShape
  <2> DEFINE i == Aborting(job[m], e)
             j == [i EXCEPT !.cancelled = TRUE]
  <2>3. Flagged(i) /\ i.status = job[m].status /\ i.cleanupQueued = job[m].cleanupQueued
    BY <1>2, <2>2, AbortingFlag
  <2>4. Save(m, j)
    BY <2>1
  <2> HIDE DEF i
  <2>5. Flagged(j) /\ j.status = job[m].status /\ j.cleanupQueued = job[m].cleanupQueued
    BY <2>3, FieldApart
  <2> HIDE DEF j
  <2>6. /\ job'[m].cleanupQueued = job[m].cleanupQueued /\ job'[m].status = job[m].status
        /\ \A n \in MR \ {m} : job'[n] = job[n]
    BY <1>2, <2>4, <2>5, SavedFlag
  <2>7. UNCHANGED <<phase, cleanupCancelled, waiting, delayed>> /\ UNCHANGED cleanupQueue
    BY <1>1, <1>4 DEF AbortRunning, sweep
  <2> QED
    BY <1>1, <2>6, <2>7, AllCarried DEF InQueue
<1>5. CASE AbortQueued(m)
  <2>1. PICK e \in IF job[m].pending = None THEN {job[m].latest}
                   ELSE Merges(job[m].latest, job[m].pending) :
          /\ Save(m, Reserved([Aborting(job[m], e) EXCEPT !.status = "cleanup"]))
          /\ QueueDurable(m, [Aborting(job[m], e) EXCEPT !.status = "cleanup"])
    BY <1>5 DEF AbortQueued
  <2>2. e \in Event
    BY <1>2, <1>5, AbortedEventType DEF AbortQueued, JobShape
  <2> DEFINE i == Aborting(job[m], e)
             j == [i EXCEPT !.status = "cleanup"]
  <2>3. Flagged(i)
    BY <1>2, <2>2, AbortingFlag
  <2>4. Save(m, Reserved(j)) /\ QueueDurable(m, j)
    BY <2>1
  <2> HIDE DEF i
  <2>5. Flagged(j) /\ j.status = "cleanup"
    BY <2>3, StatusApart
  <2> HIDE DEF j
  <2>6. Flagged(Reserved(j)) /\ Reserved(j).cleanupQueued /\ Reserved(j).status = "cleanup"
    BY <2>5, ReservedFlag
  <2>7. /\ job'[m].cleanupQueued /\ job'[m].status = "cleanup"
        /\ \A n \in MR \ {m} : job'[n] = job[n]
    BY <1>2, <2>4, <2>6, SavedFlag
  <2>8. /\ InQueue(m) = {} /\ InHand(m) = {} /\ m \notin waiting /\ m \notin delayed
    BY <1>5, NothingScheduled DEF AbortQueued
  <2> QED
    BY <1>1, <2>4, <2>7, <2>8, ScheduledCarry
<1> QED
  BY <1>3, <1>4, <1>5 DEF Abort

LEMMA TimerCarry ==
    ASSUME IInv, CarryInv, ~closed, NEW m \in MR, TimerFires(m)
    PROVE  CarryInv'
<1> DEFINE j == [job[m] EXCEPT !.cleanupQueued = FALSE]
<1>1. /\ UNCHANGED <<phase, cleanupCancelled>> /\ m \in delayed /\ delayed' = delayed \ {m}
      /\ \A n \in MR : InHand(n)' = InHand(n)
  BY DEF TimerFires, life, InHand
<1>2. /\ job[m].status = "cleanup" /\ job[m].cleanupQueued
      /\ InQueue(m) = {} /\ InHand(m) = {} /\ m \notin waiting
  BY <1>1 DEF CarryInv, Carried, Nowhere, Somewhere
<1>3. job[m] \in Job /\ job[m].cleanup # None /\ Flagged(job[m])
  BY <1>2, JobFlagged DEF IInv, TypeOK, StoreOK, JobShape
<1>4. j.status = "cleanup" /\ j.cleanup # None /\ Flagged(j)
  BY <1>2, <1>3 DEF Job, Flagged
<1>5. job' = [job EXCEPT ![m] = Reserved(j)] /\ Enlist(m, j)
  BY <1>2, <1>4 DEF TimerFires
<1> HIDE DEF j
<1>6. job'[m].status = "cleanup" /\ job'[m].cleanupQueued /\ \A n \in MR \ {m} : job'[n] = job[n]
  BY <1>4, <1>5, ReservedFlag DEF IInv, TypeOK, StoreOK
<1>7. /\ Somewhere(m)'
      /\ \A n \in MR \ {m} : InQueue(n)' = InQueue(n) /\ (n \in waiting' <=> n \in waiting)
  BY <1>1, <1>2, <1>5, Enlisted DEF IInv, TypeOK
<1>8. Carried(m)'
  BY <1>6, <1>7 DEF Carried
<1>9. \A n \in MR \ {m} : Carried(n)'
  BY <1>1, <1>6, <1>7, CarriedOn DEF SameCarriage, StaysPut, CarryInv
<1> QED
  BY <1>1, <1>8, <1>9, OpenStep

LEMMA RestoreCarry ==
    ASSUME IInv, CarryInv, ~closed, NEW m \in MR, RestoreJob(m)
    PROVE  CarryInv'
<1> DEFINE e == disk[m]
           queued == [NoJob EXCEPT !.status = "queued", !.latest = e.event, !.persisted = TRUE]
           settling == [NoJob EXCEPT !.status = "cleanup", !.latest = e.event,
                         !.pending = e.pending, !.version = 1, !.persisted = TRUE,
                         !.cleanup = [event |-> e.event, outcome |-> e.outcome,
                                      aborted |-> e.aborted]]
<1>1. /\ UNCHANGED <<phase, cleanupCancelled>> /\ \A n \in MR : InHand(n)' = InHand(n)
      /\ job[m].status = "none"
  BY DEF RestoreJob, InHand, IInv, Rest, Loading, NoJob
<1>2. /\ InQueue(m) = {} /\ InHand(m) = {} /\ m \notin waiting /\ m \notin delayed
      /\ ~job[m].cleanupQueued
  BY <1>1, NothingScheduled
<1>3. CASE e.outcome = "none"
  <2>1. job' = [job EXCEPT ![m] = queued] /\ UNCHANGED sweep
    BY <1>3 DEF RestoreJob
  <2>2. queued.status = "queued" /\ queued.cleanupQueued = FALSE
    BY DEF NoJob
  <2> HIDE DEF queued
  <2>3. /\ job'[m].status = "queued" /\ job'[m].cleanupQueued = FALSE
        /\ \A n \in MR \ {m} : job'[n] = job[n]
    BY <2>1, <2>2 DEF IInv, TypeOK, StoreOK
  <2>4. /\ UNCHANGED <<phase, cleanupCancelled, waiting, delayed>>
        /\ \A n \in MR : InQueue(n)' = InQueue(n)
    BY <1>1, <2>1 DEF sweep, InQueue
  <2> QED
    BY <1>1, <1>2, <2>3, <2>4, AllCarried
<1>4. CASE e.outcome # "none"
  <2>1. job' = [job EXCEPT ![m] = Reserved(settling)] /\ QueueDurable(m, settling)
    BY <1>4 DEF RestoreJob
  <2>2. Flagged(settling) /\ settling.status = "cleanup"
    BY DEF NoJob, Flagged
  <2> HIDE DEF settling
  <2>3. /\ job'[m].status = "cleanup" /\ job'[m].cleanupQueued
        /\ \A n \in MR \ {m} : job'[n] = job[n]
    BY <2>1, <2>2, ReservedFlag DEF IInv, TypeOK, StoreOK
  <2> QED
    BY <1>1, <1>2, <2>1, <2>3, ScheduledCarry
<1> QED
  BY <1>3, <1>4

\* Steps of the workers that schedule nothing.
LEMMA QuietCarry ==
    ASSUME IInv, CarryInv, ~closed, UNCHANGED <<life, sweep, cleaner>>,
           \A n \in MR : /\ job'[n].status = "cleanup" <=> job[n].status = "cleanup"
                         /\ job'[n].cleanupQueued <=> job[n].cleanupQueued
    PROVE  CarryInv'
<1>1. UNCHANGED <<phase, cleanupCancelled, waiting, delayed>>
  BY DEF life, sweep
<1>2. \A n \in MR : InQueue(n)' = InQueue(n) /\ InHand(n)' = InHand(n)
  BY DEF sweep, InQueue, InHand
<1> QED
  BY <1>1, <1>2, AllCarried

LEMMA TakeCarry ==
    ASSUME IInv, CarryInv, ~closed, NEW w \in Worker, Take(w)
    PROVE  CarryInv'
<1> DEFINE m == Head(queue)
<1>1. m \in MR /\ job[m] \in Job
  BY DEF Take, IInv, TypeOK, PoolOK, StoreOK
<1>2. \A n \in MR : /\ job'[n].status = "cleanup" <=> job[n].status = "cleanup"
                    /\ job'[n].cleanupQueued <=> job[n].cleanupQueued
  <2>1. CASE Takeable(m)
    <3> DEFINE i == [job[m] EXCEPT !.status = "running"]
               j == [i EXCEPT !.cancelled = FALSE]
    <3>1. job' = [job EXCEPT ![m] = j]
      BY <2>1 DEF Take, IInv, TypeOK, StoreOK
    <3>2. Flagged(i) /\ i.status = "running" /\ i.cleanupQueued = job[m].cleanupQueued
      BY <1>1, JobFlagged, StatusApart
    <3> HIDE DEF i
    <3>3. j.status = "running" /\ j.cleanupQueued = job[m].cleanupQueued
      BY <3>2, FieldApart
    <3> HIDE DEF j
    <3> QED
      BY <2>1, <3>1, <3>3 DEF Takeable, IInv, TypeOK, StoreOK
  <2>2. CASE ~Takeable(m)
    BY <2>2 DEF Take
  <2> QED
    BY <2>1, <2>2
<1> QED
  BY <1>2, QuietCarry DEF Take

LEMMA RecordedFlag ==
    ASSUME NEW j \in Job, NEW targets, NEW unsure
    PROVE  /\ Flagged(Recorded(j, targets, unsure))
           /\ Recorded(j, targets, unsure).cleanupQueued = j.cleanupQueued
<1> DEFINE Released(e) == [e EXCEPT !.targets = @ \cup targets, !.unsure = @ \cup unsure]
           r == Recorded(j, targets, unsure)
<1>1. CASE j.cleanup = None
  <2>1. r = [j EXCEPT !.latest = Released(j.latest)]
    BY <1>1 DEF Recorded, Job
  <2> HIDE DEF Released, r
  <2>2. Flagged(r) /\ r.cleanupQueued = j.cleanupQueued
    BY <2>1, JobFlagged, FieldApart
  <2> QED
    BY <2>2 DEF r
<1>2. CASE j.cleanup # None
  <2> DEFINE c == [j.cleanup EXCEPT !.event = Released(j.cleanup.event)]
             next == j.version + 1
             i1 == [j EXCEPT !.cleanup = c]
             i2 == [i1 EXCEPT !.latest = Released(j.cleanup.event)]
             i3 == [i2 EXCEPT !.version = next]
  <2>1. r = i3
    BY <1>2 DEF Recorded, Job
  <2> HIDE DEF c, Released, next, r
  <2>2. Flagged(i1) /\ i1.cleanupQueued = j.cleanupQueued
    BY JobFlagged, FieldApart
  <2> HIDE DEF i1
  <2>3. Flagged(i2) /\ i2.cleanupQueued = j.cleanupQueued
    BY <2>2, FieldApart
  <2> HIDE DEF i2
  <2>4. Flagged(i3) /\ i3.cleanupQueued = j.cleanupQueued
    BY <2>3, FieldApart
  <2> QED
    BY <2>1, <2>4 DEF r
<1> QED
  BY <1>1, <1>2

LEMMA ReviewCarry ==
    ASSUME IInv, IInv', CarryInv, ~closed, NEW w \in Worker,
           \/ CheckRequest(w) \/ StartReaction(w) \/ RunReview(w)
           \/ BeginSettlement(w) \/ SettleReview(w)
    PROVE  CarryInv'
<1> DEFINE m == worker[w].mr
<1>1. Busy(w) /\ m \in MR /\ job[m].status = "running" /\ job[m] \in Job
  BY BusyFacts DEF CheckRequest, StartReaction, RunReview, BeginSettlement, SettleReview, Busy
<1>2. job'[m].status = "running"
  BY <1>1, ReviewHolders DEF SameHolders, IInv, Rest, Assigned
<1>3. ASSUME NEW j, Flagged(j), j.cleanupQueued = job[m].cleanupQueued, Save(m, j)
      PROVE  /\ job'[m].cleanupQueued = job[m].cleanupQueued
             /\ \A n \in MR \ {m} : job'[n] = job[n]
  BY <1>1, <1>3, SavedFlag DEF IInv, TypeOK
<1>4. /\ job'[m].cleanupQueued = job[m].cleanupQueued
      /\ \A n \in MR \ {m} : job'[n] = job[n]
  <2>1. CASE UNCHANGED job
    BY <2>1
  <2>2. ASSUME NEW targets, NEW unsure, Save(m, Recorded(job[m], targets, unsure))
        PROVE  /\ job'[m].cleanupQueued = job[m].cleanupQueued
               /\ \A n \in MR \ {m} : job'[n] = job[n]
    BY <1>1, <1>3, <2>2, RecordedFlag
  <2>3. CASE BeginSettlement(w) /\ job[m].cleanup = None
    <3> DEFINE e == worker[w].event
               c == CleanupOf(e, worker[w].outcome)
               next == job[m].version + 1
               i1 == [job[m] EXCEPT !.latest = e]
               i2 == [i1 EXCEPT !.version = next]
               i3 == [i2 EXCEPT !.cleanup = c]
    <3>1. Save(m, i3)
      BY <2>3 DEF BeginSettlement
    <3> HIDE DEF e, c, next
    <3>2. Flagged(i1) /\ i1.cleanupQueued = job[m].cleanupQueued
      BY <1>1, JobFlagged, FieldApart
    <3> HIDE DEF i1
    <3>3. Flagged(i2) /\ i2.cleanupQueued = job[m].cleanupQueued
      BY <3>2, FieldApart
    <3> HIDE DEF i2
    <3>4. Flagged(i3) /\ i3.cleanupQueued = job[m].cleanupQueued
      BY <3>3, FieldApart
    <3> HIDE DEF i3
    <3> QED
      BY <1>3, <3>1, <3>4
  <2> QED
    BY <2>1, <2>2, <2>3
    DEF CheckRequest, StartReaction, RunReview, BeginSettlement, SettleReview, store
<1>5. UNCHANGED <<life, sweep, cleaner>>
  BY DEF CheckRequest, StartReaction, RunReview, BeginSettlement, SettleReview
<1> QED
  BY <1>1, <1>2, <1>4, <1>5, QuietCarry

\* Whoever ends or is promoted has nothing scheduled.
LEMMA GivenWay ==
    ASSUME StoreOK, NEW m \in MR, EndOrPromote(m)
    PROVE  /\ job'[m].status # "cleanup" /\ ~job'[m].cleanupQueued
           /\ \A n \in MR \ {m} : job'[n] = job[n]
<1>1. CASE Forget(m)
  BY <1>1 DEF Forget, NoJob, StoreOK
<1>2. CASE Save(m, Promoted(job[m]))
  <2>1. Promoted(job[m]).status = "queued" /\ Promoted(job[m]).cleanupQueued = FALSE
        /\ Flagged(Promoted(job[m]))
    BY DEF Promoted, StoreOK, Job, Flagged
  <2> QED
    BY <1>2, <2>1, SavedFlag
<1> QED
  BY <1>1, <1>2 DEF EndOrPromote

LEMMA FinishCarry ==
    ASSUME IInv, KeysInv, CarryInv, ~closed, NEW w \in Worker, Finish(w)
    PROVE  CarryInv'
<1> DEFINE m == worker[w].mr
           e == worker[w].event
           o == worker[w].outcome
<1>1. Busy(w) /\ m \in MR /\ job[m].status = "running" /\ job[m] \in Job /\ Flagged(job[m])
  BY BusyFacts, JobFlagged DEF Finish, Busy
<1>2. /\ InQueue(m) = {} /\ InHand(m) = {} /\ m \notin waiting /\ m \notin delayed
      /\ ~job[m].cleanupQueued
  BY <1>1, NothingScheduled
<1>3. UNCHANGED <<phase, cleanupCancelled>> /\ \A n \in MR : InHand(n)' = InHand(n)
  BY DEF Finish, life, InHand
<1>4. o # "interrupted"
  BY <1>1 DEF KeysInv, Patience, closed
<1>5. StoreOK
  BY DEF IInv, TypeOK
<1>6. CASE FinishAborted(m)
  <2> DEFINE i == [job[m] EXCEPT !.status = "cleanup"]
             j == [i EXCEPT !.cancelled = FALSE]
  <2>1. Flagged(i) /\ i.status = "cleanup"
    BY <1>1, StatusApart
  <2>2. /\ Save(m, Reserved(j)) \/ job' = [job EXCEPT ![m] = Reserved(j)]
        /\ QueueDurable(m, j)
    BY <1>6 DEF FinishAborted
  <2> HIDE DEF i
  <2>3. Flagged(j) /\ j.status = "cleanup"
    BY <2>1, FieldApart
  <2> HIDE DEF j
  <2>4. Flagged(Reserved(j)) /\ Reserved(j).cleanupQueued /\ Reserved(j).status = "cleanup"
    BY <2>3, ReservedFlag
  <2>5. /\ job'[m].status = "cleanup" /\ job'[m].cleanupQueued
        /\ \A n \in MR \ {m} : job'[n] = job[n]
    <3>1. CASE Save(m, Reserved(j))
      BY <1>1, <1>5, <2>4, <3>1, SavedFlag
    <3>2. CASE job' = [job EXCEPT ![m] = Reserved(j)]
      BY <1>1, <1>5, <2>4, <3>2 DEF StoreOK
    <3> QED
      BY <2>2, <3>1, <3>2
  <2> QED
    BY <1>1, <1>2, <1>3, <2>2, <2>5, ScheduledCarry
<1>7. CASE FinishUnsettled(m, e, o)
  <2> DEFINE c == CleanupOf(e, o)
             next == job[m].version + 1
             i1 == [job[m] EXCEPT !.status = "cleanup"]
             i2 == [i1 EXCEPT !.latest = e]
             i3 == [i2 EXCEPT !.cancelled = FALSE]
             i4 == [i3 EXCEPT !.cleanup = c]
             i5 == [i4 EXCEPT !.version = next]
  <2>1. Save(m, Reserved(i5)) /\ QueueDurable(m, i5)
    BY <1>7 DEF FinishUnsettled
  <2> HIDE DEF c, next
  <2>2. Flagged(i1) /\ i1.status = "cleanup"
    BY <1>1, StatusApart
  <2> HIDE DEF i1
  <2>3. Flagged(i2) /\ i2.status = "cleanup"
    BY <2>2, FieldApart
  <2> HIDE DEF i2
  <2>4. Flagged(i3) /\ i3.status = "cleanup"
    BY <2>3, FieldApart
  <2> HIDE DEF i3
  <2>5. Flagged(i4) /\ i4.status = "cleanup"
    BY <2>4, FieldApart
  <2> HIDE DEF i4
  <2>6. Flagged(i5) /\ i5.status = "cleanup"
    BY <2>5, FieldApart
  <2> HIDE DEF i5
  <2>7. Flagged(Reserved(i5)) /\ Reserved(i5).cleanupQueued /\ Reserved(i5).status = "cleanup"
    BY <2>6, ReservedFlag
  <2>8. /\ job'[m].status = "cleanup" /\ job'[m].cleanupQueued
        /\ \A n \in MR \ {m} : job'[n] = job[n]
    BY <1>1, <1>5, <2>1, <2>7, SavedFlag
  <2> QED
    BY <1>1, <1>2, <1>3, <2>1, <2>8, ScheduledCarry
<1>8. CASE EndOrPromote(m) /\ UNCHANGED sweep
  <2>1. \A n \in MR : InQueue(n)' = InQueue(n)
    BY <1>8 DEF sweep, InQueue
  <2>2. UNCHANGED <<phase, cleanupCancelled, waiting, delayed>>
    BY <1>3, <1>8 DEF sweep
  <2>3. \A n \in MR : /\ job'[n].status = "cleanup" <=> job[n].status = "cleanup"
                      /\ job'[n].cleanupQueued <=> job[n].cleanupQueued
    BY <1>1, <1>2, <1>5, <1>8, GivenWay
  <2> QED
    BY <1>3, <2>1, <2>2, <2>3, AllCarried
<1> QED
  BY <1>4, <1>6, <1>7, <1>8 DEF Finish

\* A cleaner that picks up work makes room for reservations that waited.
LEMMA CleanerTakeCarry ==
    ASSUME IInv, CarryInv, ~closed, NEW c \in Cleaner, CleanerTake(c)
    PROVE  CarryInv'
<1>1. PICK k \in cleanupQueue :
        /\ cleaner' = [cleaner EXCEPT ![c] = [step |-> "held", work |-> k]]
        /\ DrainWaiting(cleanupQueue \ {k})
  BY DEF CleanerTake
<1>2. PICK moved \in SUBSET Promotable :
        /\ cleanupQueue' = (cleanupQueue \ {k}) \cup {DurableWork(m, job[m]) : m \in moved}
        /\ waiting' = Promotable \ moved
  BY <1>1 DEF DrainWaiting
<1>3. /\ UNCHANGED <<phase, cleanupCancelled, job, delayed>> /\ cleaner[c].step = "idle"
      /\ cleaner \in [Cleaner -> CleanerState] /\ waiting \subseteq MR
  BY DEF CleanerTake, life, store, IInv, TypeOK, CleanerOK, SweepOK
<1>4. /\ cleaner'[c].step = "held" /\ cleaner'[c].work = k
      /\ \A d \in Cleaner \ {c} : cleaner'[d] = cleaner[d]
  BY <1>1, <1>3
<1>5. Promotable = waiting
  <2>1. ASSUME NEW m \in waiting PROVE m \in Promotable
    <3>1. job[m].status = "cleanup" /\ job[m].cleanupQueued
      BY <1>3, <2>1 DEF CarryInv, Carried, Nowhere
    <3>2. job[m].cleanup # None
      BY <1>3, <2>1, <3>1 DEF IInv, TypeOK, StoreOK, JobShape
    <3> QED
      BY <3>1, <3>2 DEF Promotable
  <2> QED
    BY <2>1 DEF Promotable
<1>6. moved \subseteq waiting
  BY <1>2, <1>5
<1>7. ASSUME NEW n \in MR PROVE Carried(n)'
  <2>0. Carried(n)
    BY DEF CarryInv
  <2>1. InQueue(n)' = {x \in cleanupQueue \ {k} : x.durable /\ x.mr = n}
                       \cup (IF n \in moved THEN {DurableWork(n, job[n])} ELSE {})
    <3>1. \A m \in moved : DurableWork(m, job[m]).durable /\ DurableWork(m, job[m]).mr = m
      BY DEF DurableWork
    <3> QED
      BY <1>2, <3>1 DEF InQueue
  <2>2. InHand(n)' = IF k.durable /\ k.mr = n THEN InHand(n) \cup {c} ELSE InHand(n)
    BY <1>3, <1>4 DEF InHand
  <2>3. CASE k \in InQueue(n)
    <3>1. /\ InQueue(n) = {k} /\ InHand(n) = {} /\ n \notin waiting /\ n \notin delayed
          /\ job[n].status = "cleanup" /\ job[n].cleanupQueued
      BY <2>0, <2>3 DEF Carried, Nowhere, Somewhere
    <3>2. InHand(n)' = {c}
      BY <2>2, <2>3, <3>1 DEF InQueue
    <3>3. n \notin moved /\ n \notin waiting' /\ n \notin delayed'
      BY <1>2, <1>3, <1>5, <1>6, <3>1
    <3>4. InQueue(n)' = {}
      BY <2>1, <3>1, <3>3 DEF InQueue
    <3>5. Somewhere(n)'
      BY <3>2, <3>3, <3>4 DEF Somewhere
    <3> QED
      BY <1>3, <3>1, <3>5 DEF Carried
  <2>4. CASE k \notin InQueue(n) /\ n \in moved
    <3>1. /\ InQueue(n) = {} /\ InHand(n) = {} /\ n \notin delayed
          /\ job[n].status = "cleanup" /\ job[n].cleanupQueued
      BY <1>6, <2>0, <2>4 DEF Carried, Nowhere, Somewhere
    <3>2. InHand(n)' = {}
      BY <1>1, <2>2, <2>4, <3>1 DEF InQueue
    <3>3. n \notin waiting' /\ n \notin delayed'
      BY <1>2, <1>3, <2>4, <3>1
    <3>4. InQueue(n)' = {DurableWork(n, job[n])}
      BY <2>1, <2>4, <3>1 DEF InQueue
    <3>5. Somewhere(n)'
      BY <3>2, <3>3, <3>4 DEF Somewhere
    <3> QED
      BY <1>3, <3>1, <3>5 DEF Carried
  <2>5. CASE k \notin InQueue(n) /\ n \notin moved
    <3>1. InHand(n)' = InHand(n)
      BY <1>1, <2>2, <2>5 DEF InQueue
    <3>2. InQueue(n)' = InQueue(n)
      BY <2>1, <2>5 DEF InQueue
    <3>3. (n \in waiting' <=> n \in waiting) /\ (n \in delayed' <=> n \in delayed)
      BY <1>2, <1>3, <1>5, <2>5
    <3> QED
      BY <1>3, <2>0, <3>1, <3>2, <3>3, CarriedOn DEF SameCarriage, StaysPut
  <2> QED
    BY <2>3, <2>4, <2>5
<1> QED
  BY <1>3, <1>7, OpenStep

LEMMA CleanerSettleCarry ==
    ASSUME IInv, CarryInv, ~closed, NEW c \in Cleaner, CleanerSettle(c)
    PROVE  CarryInv'
<1> DEFINE k == cleaner[c].work
<1>1. /\ UNCHANGED <<phase, cleanupCancelled, job, cleanupQueue, waiting, delayed>>
      /\ cleaner[c].step = "held" /\ cleaner \in [Cleaner -> CleanerState] /\ k \in Work
  BY HeldFacts DEF CleanerSettle, life, sweep, IInv, TypeOK, CleanerOK
<1>2. PICK e, a : cleaner' = [cleaner EXCEPT ![c] =
        [step |-> "settled", work |-> [k EXCEPT !.event = e, !.aborted = a]]]
  BY DEF CleanerSettle
<1> DEFINE left == [k EXCEPT !.event = e, !.aborted = a]
<1>3. left.durable = k.durable /\ left.mr = k.mr
  BY <1>1 DEF Work
<1> HIDE DEF left
<1>4. /\ cleaner'[c].step = "settled" /\ cleaner'[c].work = left
      /\ \A d \in Cleaner \ {c} : cleaner'[d] = cleaner[d]
  BY <1>1, <1>2 DEF left
<1>5. \A n \in MR : InHand(n)' = InHand(n) /\ InQueue(n)' = InQueue(n)
  BY <1>1, <1>3, <1>4 DEF InHand, InQueue
<1> QED
  BY <1>1, <1>5, AllCarried

\* A cleaner that has finished hands the reservation on, or gives it back.
LEMMA CleanerCompleteCarry ==
    ASSUME IInv, CarryInv, ~closed, NEW c \in Cleaner, CleanerComplete(c)
    PROVE  CarryInv'
<1>0. PICK k \in Work : k = cleaner[c].work
  BY HeldFacts DEF CleanerComplete
<1>9. PICK m \in MR : m = k.mr
  BY DEF Work
<1> DEFINE j == [job[m] EXCEPT !.cleanupQueued = FALSE]
           rest == [event |-> k.event, outcome |-> k.outcome, aborted |-> k.aborted]
           left == [j EXCEPT !.cleanup = rest, !.latest = k.event]
<1>1. /\ UNCHANGED <<phase, cleanupCancelled>> /\ cleaner[c].step = "settled"
      /\ cleaner[c].work = k /\ k.mr = m /\ cleaner \in [Cleaner -> CleanerState] /\ StoreOK
      /\ job[m] \in Job /\ JobShape(job[m]) /\ Flagged(job[m])
  BY <1>0, <1>9, JobFlagged DEF CleanerComplete, life, IInv, TypeOK, CleanerOK, StoreOK
<1>2. /\ cleaner'[c].step = "idle" /\ \A d \in Cleaner \ {c} : cleaner'[d] = cleaner[d]
  BY <1>1 DEF CleanerComplete, IdleCleaner
<1>3. CASE ~k.durable
  <2>1. \A n \in MR : InHand(n)' = InHand(n) /\ InQueue(n)' = InQueue(n)
    BY <1>1, <1>2, <1>3 DEF CleanerComplete, sweep, InHand, InQueue
  <2>2. UNCHANGED <<phase, cleanupCancelled, waiting, delayed, job>>
    BY <1>1, <1>3 DEF CleanerComplete, sweep, store
  <2> QED
    BY <2>1, <2>2, AllCarried
<1>4. CASE k.durable
  <2>1. /\ job[m].status = "cleanup" /\ job[m].cleanupQueued /\ InHand(m) = {c}
        /\ InQueue(m) = {} /\ m \notin waiting /\ m \notin delayed
    <3>1. c \in InHand(m)
      BY <1>1, <1>4 DEF InHand
    <3> QED
      BY <1>1, <3>1 DEF CarryInv, Carried, Nowhere, Somewhere
  <2>2. InHand(m)' = {} /\ \A n \in MR \ {m} : InHand(n)' = InHand(n)
    BY <1>1, <1>2, <2>1 DEF InHand
  <2>3. job[m].cleanup # None
    BY <1>1, <2>1 DEF JobShape
  <2>4. j.status = "cleanup" /\ j.cleanup # None /\ Flagged(j)
    BY <1>1, <2>1, <2>3 DEF Job, Flagged
  <2>5. /\ \/ job' = [job EXCEPT ![m] = Reserved(j)] /\ QueueDurable(m, j)
           \/ Save(m, Reserved(left)) /\ QueueDurable(m, left)
           \/ EndOrPromote(m) /\ UNCHANGED sweep
    BY <1>1, <1>4, <2>4 DEF CleanerComplete, CompleteDurable, Requeue
  <2>6. CASE job' = [job EXCEPT ![m] = Reserved(j)] /\ QueueDurable(m, j)
    <3> HIDE DEF j
    <3>1. /\ job'[m].status = "cleanup" /\ job'[m].cleanupQueued
          /\ \A n \in MR \ {m} : job'[n] = job[n]
      BY <1>1, <2>4, <2>6, ReservedFlag DEF StoreOK
    <3> QED
      BY <1>1, <2>1, <2>2, <2>6, <3>1, ScheduledCarry
  <2>7. CASE Save(m, Reserved(left)) /\ QueueDurable(m, left)
    <3> DEFINE i1 == [j EXCEPT !.cleanup = rest]
               i2 == [i1 EXCEPT !.latest = k.event]
    <3>1. left = i2
      OBVIOUS
    <3> HIDE DEF j, rest, left
    <3>2. Flagged(i1) /\ i1.status = "cleanup"
      BY <2>4, FieldApart
    <3> HIDE DEF i1
    <3>3. Flagged(left) /\ left.status = "cleanup"
      BY <3>1, <3>2, FieldApart
    <3>4. /\ Flagged(Reserved(left)) /\ Reserved(left).cleanupQueued
          /\ Reserved(left).status = "cleanup"
      BY <3>3, ReservedFlag
    <3>5. /\ job'[m].status = "cleanup" /\ job'[m].cleanupQueued
          /\ \A n \in MR \ {m} : job'[n] = job[n]
      BY <1>1, <2>7, <3>4, SavedFlag
    <3> QED
      BY <1>1, <2>1, <2>2, <2>7, <3>5, ScheduledCarry
  <2>8. CASE EndOrPromote(m) /\ UNCHANGED sweep
    <3>1. /\ job'[m].status # "cleanup" /\ ~job'[m].cleanupQueued
          /\ \A n \in MR \ {m} : job'[n] = job[n]
      BY <1>1, <2>8, GivenWay
    <3>2. /\ UNCHANGED <<waiting, delayed>> /\ \A n \in MR : InQueue(n)' = InQueue(n)
      BY <2>8 DEF sweep, InQueue
    <3>3. Carried(m)'
      BY <2>1, <2>2, <3>1, <3>2 DEF Carried, Nowhere
    <3>4. \A n \in MR \ {m} : Carried(n)'
      BY <2>2, <3>1, <3>2, CarriedOn DEF SameCarriage, StaysPut, CarryInv
    <3> QED
      BY <1>1, <3>3, <3>4, OpenStep
  <2> QED
    BY <2>5, <2>6, <2>7, <2>8
<1> QED
  BY <1>3, <1>4

LEMMA HandlerCarry ==
    ASSUME IInv, CarryInv, ~closed, NEW n \in Note, AwardAck(n) \/ HandleReview(n)
    PROVE  CarryInv'
<1>1. CASE HandleReview(n) /\ Enqueue(NoteMR[n], CommandEvent(n))
  <2>1. NoteMR[n] \in MR /\ CommandEvent(n) \in Event
    BY SizeAssumption DEF CommandEvent, Event, Trigger, Target
  <2>2. UNCHANGED <<cleaner, life>>
    BY <1>1 DEF HandleReview
  <2> QED
    BY <1>1, <2>1, <2>2, EnqueueCarry
<1>2. CASE /\ UNCHANGED <<store, waiting, delayed, cleaner, life>>
           /\ UNCHANGED cleanupQueue \/ \E notes, e : QueueReleases(NoteMR[n], notes, e)
  <2>1. \A x \in MR : InQueue(x)' = InQueue(x)
    BY <1>2, ReleasesApart DEF InQueue
  <2>2. /\ UNCHANGED <<phase, cleanupCancelled, waiting, delayed, job>>
        /\ \A x \in MR : InHand(x)' = InHand(x)
    BY <1>2 DEF life, store, InHand
  <2> QED
    BY <2>1, <2>2, AllCarried
<1> QED
  BY <1>1, <1>2 DEF AwardAck, HandleReview, sweep

\* A new process starts with nothing to carry.
LEMMA LifecycleCarry ==
    ASSUME IInv, CarryInv, Lifecycle
    PROVE  CarryInv'
<1>1. CASE Exit \/ Crash
  BY <1>1 DEF Exit, Crash, Halt, CarryInv, closed, alive
<1>2. CASE Start
  <2>1. /\ phase' = "restoring" /\ ~alive /\ UNCHANGED <<cleanupCancelled, job, sweep, cleaner>>
    BY <1>2 DEF Start, Quiet, store, alive
  <2>2. /\ \A m \in MR : job[m] = NoJob /\ InHand(m) = {}
        /\ cleanupQueue = {} /\ waiting = {} /\ delayed = {} /\ ~cleanupCancelled
    BY <2>1 DEF IInv, Rest, Asleep, CarryInv, InHand, alive
  <2>3. \A m \in MR : Carried(m)'
    BY <2>1, <2>2 DEF Carried, Nowhere, InQueue, InHand, NoJob, sweep
  <2> QED
    BY <2>1, <2>2, <2>3 DEF CarryInv, alive
<1>3. CASE Serve \/ Stop
  <2>1. /\ ~closed /\ ~closed' /\ alive /\ alive'
        /\ UNCHANGED <<cleanupCancelled, job, sweep, cleaner>>
    BY <1>3 DEF Serve, Stop, Quiet, store, closed, alive
  <2>2. \A m \in MR : SameCarriage(m)
    BY <2>1 DEF SameCarriage, StaysPut, InQueue, InHand, sweep
  <2>4. \A m \in MR : Carried(m)'
    BY <2>1, <2>2, CarriedOn DEF CarryInv
  <2>3. ~cleanupCancelled
    BY <2>1 DEF CarryInv, closed
  <2> QED
    BY <2>1, <2>3, <2>4 DEF CarryInv
<1>4. CASE CloseIntake \/ GraceExpires \/ StopCleanup \/ CleanupGraceExpires
  <2>1. closed' /\ alive'
    BY <1>4 DEF CloseIntake, GraceExpires, StopCleanup, CleanupGraceExpires, closed, alive
  <2>2. cleanupCancelled' => phase' = "settling"
    BY <1>4 DEF CloseIntake, GraceExpires, StopCleanup, CleanupGraceExpires, CarryInv
  <2> QED
    BY <2>1, <2>2 DEF CarryInv
<1> QED
  BY <1>1, <1>2, <1>3, <1>4 DEF Lifecycle

LEMMA DropCarry ==
    ASSUME IInv, CarryInv, ~closed, NEW m \in MR, DropEntry(m)
    PROVE  CarryInv'
<1>1. UNCHANGED <<job, sweep, cleaner, phase, cleanupCancelled>>
  BY DropFacts
<1>2. \A n \in MR : InQueue(n)' = InQueue(n) /\ InHand(n)' = InHand(n)
  BY <1>1 DEF sweep, InQueue, InHand
<1> QED
  BY <1>1, <1>2, AllCarried DEF sweep

LEMMA NextCarry ==
    ASSUME IInv, IInv', KeysInv, CarryInv, [Next]_vars
    PROVE  CarryInv'
<1>1. CASE Lifecycle
  BY <1>1, LifecycleCarry
<1>2. CASE closed /\ ~Lifecycle
  <2> DEFINE Same == UNCHANGED <<phase, cleanupCancelled>> /\ (~alive => UNCHANGED sweep)
  <2>1. ASSUME NEW m \in MR, \/ EnqueueEvent(m) \/ Abort(m) \/ TimerFires(m)
                             \/ RestoreJob(m) \/ DropEntry(m)
        PROVE  Same
    <3>1. EnqueueEvent(m) \/ Abort(m) => Same
      BY DEF EnqueueEvent, Abort, life, Serving, alive
    <3>2. TimerFires(m) => Same
      BY DEF TimerFires, life
    <3>3. RestoreJob(m) => alive
      BY DEF RestoreJob, IInv, Rest, Loading, alive
    <3>4. RestoreJob(m) => UNCHANGED <<phase, cleanupCancelled>>
      BY DEF RestoreJob
    <3>5. DropEntry(m) => Same
      BY DropFacts
    <3> QED
      BY <2>1, <3>1, <3>2, <3>3, <3>4, <3>5
  <2>2. ASSUME NEW n \in Note, AwardAck(n) \/ HandleReview(n)
        PROVE  Same
    BY <2>2 DEF AwardAck, HandleReview, life, Serving, alive, IInv, Rest, Asleep
  <2>3. ASSUME NEW w \in Worker, WorkerStep(w)
        PROVE  Same
    BY <2>3 DEF WorkerStep, Take, CheckRequest, StartReaction, RunReview, BeginSettlement,
       SettleReview, Finish, life, Serving, alive, IInv, Rest, Asleep, Busy
  <2>4. ASSUME NEW c \in Cleaner, CleanerStep(c)
        PROVE  Same
    <3>1. cleaner[c].step # "idle" => alive
      BY DEF IInv, Rest, Asleep
    <3>2. CASE CleanerTake(c)
      <4>1. alive /\ UNCHANGED <<phase, cleanupCancelled>>
        BY <3>2 DEF CleanerTake, life
      <4> QED
        BY <4>1
    <3>3. CASE CleanerSettle(c)
      <4>1. cleaner[c].step # "idle" /\ UNCHANGED <<phase, cleanupCancelled>>
        BY <3>3 DEF CleanerSettle, life
      <4> QED
        BY <3>1, <4>1
    <3>4. CASE CleanerCancelled(c)
      <4>1. cleaner[c].step # "idle" /\ UNCHANGED <<phase, cleanupCancelled>>
        BY <3>4 DEF CleanerCancelled, life
      <4> QED
        BY <3>1, <4>1
    <3>5. CASE CleanerComplete(c)
      <4>1. cleaner[c].step # "idle" /\ UNCHANGED <<phase, cleanupCancelled>>
        BY <3>5 DEF CleanerComplete, life
      <4> QED
        BY <3>1, <4>1
    <3> QED
      BY <2>4, <3>2, <3>3, <3>4, <3>5 DEF CleanerStep
  <2>5. ASSUME \/ \E t \in Target : LateCommit(t) \/ WindowEnds(t)
               \/ UNCHANGED vars
        PROVE  Same
    BY <2>5 DEF LateCommit, WindowEnds, vars, life
  <2>6. Same
    BY <1>2, <2>1, <2>2, <2>3, <2>4, <2>5 DEF Next
  <2>7. CASE alive
    BY <1>2, <2>6, <2>7, ClosedStep
  <2>8. CASE ~alive
    <3>1. ~closed' = FALSE /\ phase' = phase /\ cleanupCancelled' = cleanupCancelled
      BY <1>2, <2>6 DEF closed
    <3>2. cleanupQueue' = cleanupQueue /\ waiting' = waiting /\ delayed' = delayed
      BY <2>6, <2>8 DEF sweep
    <3> QED
      BY <2>8, <3>1, <3>2 DEF CarryInv, alive
  <2> QED
    BY <2>7, <2>8
<1>3. CASE ~closed /\ ~Lifecycle
  <2>1. ASSUME NEW m \in MR, EnqueueEvent(m)
        PROVE  CarryInv'
    <3>1. \A x \in Trigger : [kind |-> x, targets |-> {}, unsure |-> {}] \in Event
      BY DEF Event
    <3>2. PICK e \in Event : Enqueue(m, e)
      BY <2>1, <3>1 DEF EnqueueEvent, Trigger
    <3>3. UNCHANGED <<cleaner, life>>
      BY <2>1 DEF EnqueueEvent
    <3> QED
      BY <3>2, <3>3, EnqueueCarry
  <2>2. ASSUME NEW m \in MR, Abort(m) \/ TimerFires(m) \/ RestoreJob(m) \/ DropEntry(m)
        PROVE  CarryInv'
    BY <1>3, <2>2, AbortCarry, TimerCarry, RestoreCarry, DropCarry
  <2>3. ASSUME NEW n \in Note, AwardAck(n) \/ HandleReview(n)
        PROVE  CarryInv'
    BY <1>3, <2>3, HandlerCarry
  <2>4. ASSUME NEW w \in Worker, WorkerStep(w)
        PROVE  CarryInv'
    BY <1>3, <2>4, TakeCarry, ReviewCarry, FinishCarry DEF WorkerStep
  <2>5. ASSUME NEW c \in Cleaner, CleanerStep(c)
        PROVE  CarryInv'
    <3>1. ~CleanerCancelled(c)
      BY <1>3 DEF CleanerCancelled, CarryInv, closed
    <3> QED
      BY <1>3, <2>5, <3>1, CleanerTakeCarry, CleanerSettleCarry, CleanerCompleteCarry
      DEF CleanerStep
  <2>6. ASSUME \/ \E t \in Target : LateCommit(t) \/ WindowEnds(t)
               \/ UNCHANGED vars
        PROVE  CarryInv'
    <3>1. UNCHANGED <<store, life, sweep, cleaner>>
      BY <2>6 DEF LateCommit, WindowEnds, vars
    <3>2. UNCHANGED job
      BY <3>1 DEF store
    <3> QED
      BY <1>3, <3>1, <3>2, QuietCarry
  <2> QED
    BY <1>3, <2>1, <2>2, <2>3, <2>4, <2>5, <2>6 DEF Next
<1> QED
  BY <1>1, <1>2, <1>3

\* One place, one carrier.
LEMMA CarriedCount ==
    ASSUME NEW m \in MR, Carried(m)
    PROVE  /\ CarriersOf(m) = IF job[m].cleanupQueued THEN 1 ELSE 0
           /\ job[m].cleanupQueued <=> job[m].status = "cleanup"
<1>1. CarriersOf(m) = Cardinality(InQueue(m)) + Cardinality(InHand(m))
        + (IF m \in waiting THEN 1 ELSE 0) + (IF m \in delayed THEN 1 ELSE 0)
  BY DEF CarriersOf, InQueue, InHand
<1>2. Cardinality({}) = 0 /\ \A x : Cardinality({x}) = 1
  BY FS_EmptySet, FS_Singleton
<1>3. CASE job[m].status = "cleanup"
  <2>1. job[m].cleanupQueued /\ Somewhere(m)
    BY <1>3 DEF Carried
  <2>2. CarriersOf(m) = 1
    <3> HIDE DEF InQueue, InHand
    <3>1. CASE ~(m \in waiting) /\ ~(m \in delayed)
      <4>1. CarriersOf(m) = Cardinality(InQueue(m)) + Cardinality(InHand(m)) + 0 + 0
        BY <1>1, <3>1
      <4>2. \/ Cardinality(InQueue(m)) = 1 /\ Cardinality(InHand(m)) = 0
            \/ Cardinality(InQueue(m)) = 0 /\ Cardinality(InHand(m)) = 1
        BY <1>2, <2>1, <3>1 DEF Somewhere
      <4> QED
        BY <4>1, <4>2
    <3>2. CASE m \in waiting \/ m \in delayed
      <4>1. /\ Cardinality(InQueue(m)) = 0 /\ Cardinality(InHand(m)) = 0
            /\ m \in waiting <=> ~(m \in delayed)
        BY <1>2, <2>1, <3>2 DEF Somewhere
      <4> QED
        BY <1>1, <4>1
    <3> QED
      BY <3>1, <3>2
  <2> QED
    BY <1>3, <2>1, <2>2
<1>4. CASE job[m].status # "cleanup"
  <2>1. ~job[m].cleanupQueued /\ Nowhere(m)
    BY <1>4 DEF Carried
  <2>2. /\ Cardinality(InQueue(m)) = 0 /\ Cardinality(InHand(m)) = 0
        /\ m \notin waiting /\ m \notin delayed
    BY <1>2, <2>1 DEF Nowhere
  <2>3. CarriersOf(m) = 0
    BY <1>1, <2>2
  <2> QED
    BY <1>4, <2>1, <2>3
<1> QED
  BY <1>3, <1>4

LEMMA InvariantCarry == Spec => []CarryInv
<1>1. Init => KeysInv /\ CarryInv
  <2> SUFFICES ASSUME Init PROVE KeysInv /\ CarryInv
    OBVIOUS
  <2>1. Keyed /\ ParkedWhenFull
    BY DEF Init, Keyed, ParkedWhenFull, NoJob
  <2>2. Patience
    BY DEF Init, Patience, Busy, IdleWorker
  <2>3. \A m \in MR : Carried(m)
    BY DEF Init, Carried, Nowhere, InQueue, InHand, NoJob, IdleCleaner
  <2> QED
    BY <2>1, <2>2, <2>3 DEF Init, KeysInv, CarryInv
<1>2. IInv /\ IInv' /\ KeysInv /\ [Next]_vars => KeysInv'
  BY NextKeys
<1>3. IInv /\ IInv' /\ KeysInv /\ CarryInv /\ [Next]_vars => CarryInv'
  BY NextCarry
<1> QED
  BY <1>1, <1>2, <1>3, InductiveInvariant, PTL DEF Spec

\* As long as the daemon is open, a job in cleanup has exactly one carrier (a place in the
\* cleanup queue, a cleaner, a reservation of a full queue or a timer) and no other job has
\* any: through aborts that change the work under way, retries, requeues and restarts.
THEOREM CleanupIsOnItsWay == Spec => []CleanupHasCarrier
<1>1. CarryInv => CleanupHasCarrier
  BY CarriedCount DEF CarryInv, CleanupHasCarrier
<1> QED
  BY <1>1, InvariantCarry, PTL

-----------------------------------------------------------------------------
(* The cap on notes: what a job has taken on fits into one event.          *)

Fits(notes) == IsFiniteSet(notes) /\ Cardinality(notes) <= MaxAckNotes

\* The notes that a job's latest and its pending event name together.
MergedNotes(j) == Notes(j.latest) \cup (IF j.pending = None THEN {} ELSE Notes(j.pending))

JobFits(j) ==
    /\ j.status # "none" /\ j.cleanup = None => Fits(MergedNotes(j))
    /\ j.pending # None => Fits(Notes(j.pending))
EntryFits(e) ==
    /\ e.outcome = "none" => Fits(Notes(e.event))
    /\ e.pending # None => Fits(Notes(e.pending))

\* A worker's copy of the event names no note that its job does not name.
CopiesNothingNew(w) == Busy(w) /\ job[worker[w].mr].cleanup = None =>
    Notes(worker[w].event) \subseteq Notes(job[worker[w].mr].latest)

CapInv ==
    /\ \A m \in MR : JobFits(job[m]) /\ (disk[m] # None => EntryFits(disk[m]))
    /\ ~closed => \A m \in MR : job[m].status = "queued" => job[m].pending = None
    /\ \A w \in Worker : CopiesNothingNew(w)

LEMMA FitsFinite ==
    ASSUME NEW S, Fits(S), NEW T \in SUBSET S
    PROVE  Fits(T)
<1>1. /\ IsFiniteSet(T) /\ Cardinality(T) <= Cardinality(S) /\ Cardinality(T) \in Nat
      /\ Cardinality(S) \in Nat /\ MaxAckNotes \in Nat
  BY FS_Subset, FS_CardinalityType, SizeAssumption DEF Fits
<1> QED
  BY <1>1 DEF Fits

LEMMA KeptFits ==
    ASSUME NEW have, NEW new, IsFiniteSet(have), IsFiniteSet(new), NEW k \in KeptNotes(have, new)
    PROVE  Fits(k)
<1>1. IsFiniteSet(have \cup new) /\ MaxAckNotes \in Nat
  BY FS_Union, SizeAssumption
<1>2. IsFiniteSet(k)
  BY <1>1, KeptNotesBetween, FS_Subset
<1>3. Cardinality(k) <= MaxAckNotes
  BY <1>1 DEF KeptNotes
<1> QED
  BY <1>2, <1>3 DEF Fits

\* The notes of an event made by a merge are the ones kept.
LEMMA MergedNotesAre ==
    ASSUME NEW have \in Event, NEW new \in Event, NEW notes \in SUBSET Note
    PROVE  Notes(MergeKeeping(have, new, notes)) = notes
<1>1. MergeKeeping(have, new, notes).targets
        = notes \cup ((have.targets \cup new.targets) \cap MR)
  BY DEF MergeKeeping
<1> QED
  BY <1>1, NilFacts DEF Notes

LEMMA MergesFit ==
    ASSUME NEW have \in Event, NEW new \in Event, Fits(Notes(have)), Fits(Notes(new)),
           NEW e \in Merges(have, new)
    PROVE  Fits(Notes(e))
<1>1. PICK notes \in KeptNotes(Notes(have), Notes(new)) : e = MergeKeeping(have, new, notes)
  BY DEF Merges
<1>2. notes \in SUBSET Note /\ Fits(notes)
  BY KeptNotesBetween, KeptFits DEF Notes, Fits
<1> QED
  BY <1>1, <1>2, MergedNotesAre

LEMMA ParkedFits ==
    ASSUME NEW pending \in MaybeEvent, NEW e \in Event, Fits(Notes(e)),
           pending # None => Fits(Notes(pending)), NEW p \in Parked(pending, e)
    PROVE  Fits(Notes(p))
BY MergesFit DEF Parked, MaybeEvent

LEMMA ResumeNotes ==
    ASSUME NEW j \in Job, j.latest # None
    PROVE  Notes(Resume(j)) = MergedNotes(j)
<1>1. CASE j.pending = None
  BY <1>1 DEF Resume, MergedNotes
<1>2. CASE j.pending # None
  <2>1. j.latest \in Event /\ j.pending \in Event
    BY <1>2 DEF Job, MaybeEvent
  <2>2. Notes(j.latest) \cup Notes(j.pending) \in SUBSET Note
    BY DEF Notes
  <2>3. Notes(MergeKeeping(j.latest, j.pending, Notes(j.latest) \cup Notes(j.pending)))
          = Notes(j.latest) \cup Notes(j.pending)
    BY <2>1, <2>2, MergedNotesAre
  <2> QED
    BY <1>2, <2>3 DEF Resume, MergedNotes
<1> QED
  BY <1>1, <1>2

\* The journal entry of a job that fits does.
LEMMA EntryOfFits ==
    ASSUME NEW j \in Job, JobShape(j), j.status # "none", JobFits(j)
    PROVE  EntryFits(EntryOf(j))
<1>1. CASE j.cleanup = None
  <2>1. j.latest # None /\ Fits(MergedNotes(j))
    BY <1>1 DEF JobShape, JobFits
  <2>2. Notes(Resume(j)) = MergedNotes(j)
    BY <2>1, ResumeNotes
  <2> QED
    BY <1>1, <2>1, <2>2 DEF EntryOf, EntryFits
<1>2. CASE j.cleanup # None
  <2>1. j.cleanup.outcome # "none"
    BY <1>2 DEF Job, Cleanup, Outcome
  <2> QED
    BY <1>2, <2>1 DEF EntryOf, EntryFits, JobFits
<1> QED
  BY <1>1, <1>2

\* A step on the job of one merge request that leaves the other jobs and workers alone.
LEMMA CapStep ==
    ASSUME IInv, IInv', CapInv, NEW m \in MR, Known(m)', phase' = phase,
           \A n \in MR \ {m} : job'[n] = job[n] /\ disk'[n] = disk[n],
           JobFits(job[m])',
           ~closed /\ job'[m].status = "queued" => job'[m].pending = None,
           \A w \in Worker : CopiesNothingNew(w)'
    PROVE  CapInv'
<1>1. disk'[m] # None => EntryFits(disk'[m])
  <2>1. job'[m] \in Job /\ JobShape(job'[m]) /\ Coherent(m)'
    BY DEF IInv, Rest, JournalCoherent, TypeOK, StoreOK
  <2>2. disk'[m] # None => disk'[m] = EntryOf(job'[m]) /\ job'[m].status # "none"
    BY <2>1 DEF Coherent
  <2> QED
    BY <2>1, <2>2, EntryOfFits
<1>2. \A n \in MR : JobFits(job'[n]) /\ (disk'[n] # None => EntryFits(disk'[n]))
  BY <1>1 DEF CapInv
<1>3. closed' = closed
  BY DEF closed
<1>4. ~closed' => \A n \in MR : job'[n].status = "queued" => job'[n].pending = None
  BY <1>3 DEF CapInv
<1> QED
  BY <1>2, <1>4 DEF CapInv

\* The workers' copies, when no worker moves.
LEMMA CopiesKept ==
    ASSUME IInv, CapInv, NEW m \in MR, \A n \in MR \ {m} : job'[n] = job[n], UNCHANGED worker,
           job[m].status = "running" /\ job'[m].cleanup = None =>
               job[m].cleanup = None /\ job'[m].latest = job[m].latest
    PROVE  \A w \in Worker : CopiesNothingNew(w)'
<1>1. ASSUME NEW w \in Worker, Busy(w)', job'[worker'[w].mr].cleanup = None
      PROVE  Notes(worker'[w].event) \subseteq Notes(job'[worker'[w].mr].latest)
  <2>1. Busy(w) /\ worker'[w] = worker[w]
    BY <1>1 DEF Busy
  <2>2. job[worker[w].mr].status = "running" /\ worker[w].mr \in MR
    BY <2>1, BusyFacts
  <2>3. job[worker[w].mr].cleanup = None /\ job'[worker[w].mr].latest = job[worker[w].mr].latest
    BY <1>1, <2>1, <2>2
  <2> QED
    BY <2>1, <2>3 DEF CapInv, CopiesNothingNew
<1> QED
  BY <1>1 DEF CopiesNothingNew

\* A job that runs or waits for nothing but its reactions has one event that fits.
LEMMA LatestFits ==
    ASSUME NEW j \in Job, JobShape(j), j.status # "none", j.cleanup = None, JobFits(j)
    PROVE  /\ j.latest \in Event /\ Fits(Notes(j.latest)) /\ j.pending \in MaybeEvent
           /\ j.pending # None => Fits(Notes(j.pending))
<1>1. Fits(MergedNotes(j)) /\ Notes(j.latest) \subseteq MergedNotes(j)
  BY DEF JobFits, MergedNotes
<1> QED
  BY <1>1, FitsFinite DEF JobFits, Job, JobShape, MaybeEvent

\* A write of a job with another pending or another latest event.
LEMMA SavedPending ==
    ASSUME StoreOK, NEW m \in MR, NEW p, Save(m, [job[m] EXCEPT !.pending = p])
    PROVE  job'[m].pending = p /\ job'[m].latest = job[m].latest
           /\ job'[m].cleanup = job[m].cleanup /\ job'[m].status = job[m].status
<1>1. PICK ok \in BOOLEAN :
        job' = [job EXCEPT ![m] = [[job[m] EXCEPT !.pending = p] EXCEPT !.persisted = ok]]
  BY DEF Save
<1>2. job'[m] = [[job[m] EXCEPT !.pending = p] EXCEPT !.persisted = ok] /\ job[m] \in Job
  BY <1>1 DEF StoreOK
<1> QED
  BY <1>2 DEF Job

LEMMA SavedLatest ==
    ASSUME StoreOK, NEW m \in MR, NEW l, Save(m, [job[m] EXCEPT !.latest = l])
    PROVE  job'[m].latest = l /\ job'[m].pending = job[m].pending
           /\ job'[m].cleanup = job[m].cleanup /\ job'[m].status = job[m].status
<1>1. PICK ok \in BOOLEAN :
        job' = [job EXCEPT ![m] = [[job[m] EXCEPT !.latest = l] EXCEPT !.persisted = ok]]
  BY DEF Save
<1>2. job'[m] = [[job[m] EXCEPT !.latest = l] EXCEPT !.persisted = ok] /\ job[m] \in Job
  BY <1>1 DEF StoreOK
<1> QED
  BY <1>2 DEF Job

\* Whatever arrives and wherever it is put, the job keeps to the cap.
LEMMA EnqueueFits ==
    ASSUME IInv, CapInv, NEW m \in MR, NEW e \in Event, Fits(Notes(e)), Enqueue(m, e)
    PROVE  /\ JobFits(job'[m])
           /\ job'[m].status = "queued" => job'[m].pending = None
<1>1. Accepted(m, e) /\ JobStep(m)
  BY EnqueueStep DEF Accepted
<1>2. job[m] \in Job /\ JobShape(job[m]) /\ JobFits(job[m]) /\ StoreOK
  BY DEF IInv, TypeOK, StoreOK, CapInv
<1>3. CASE Admit(m, e)
  <2>1. Created(m, e)
    BY <1>1, <1>3 DEF Admit, Accepted, ParkedBehind, Joined
  <2> QED
    BY <2>1 DEF Created, JobFits, MergedNotes
<1>4. CASE ParkBehindCleanup(m, e)
  <2>1. PICK p \in Parked(job[m].pending, e) : Save(m, [job[m] EXCEPT !.pending = p])
    BY <1>4 DEF ParkBehindCleanup
  <2>2. job'[m].pending = p /\ job'[m].cleanup # None /\ job'[m].status = job[m].status
    BY <1>2, <1>4, <2>1, SavedPending DEF ParkBehindCleanup
  <2>3. Fits(Notes(p))
    BY <1>2, ParkedFits DEF JobFits, Job
  <2>4. job[m].status # "queued"
    BY <1>2, <1>4 DEF ParkBehindCleanup, JobShape
  <2> QED
    BY <2>2, <2>3, <2>4 DEF JobFits
<1>5. CASE ParkBehindReview(m, e)
  <2>1. PICK p \in Parked(job[m].pending, e) :
          \E kept \in KeptNotes(JobTargets(job[m]) \cap Note, Notes(p)) :
             Save(m, [job[m] EXCEPT !.pending = Fitting(p, kept)])
    BY <1>5 DEF ParkBehindReview
  <2>2. PICK kept \in KeptNotes(JobTargets(job[m]) \cap Note, Notes(p)) :
          Save(m, [job[m] EXCEPT !.pending = Fitting(p, kept)])
    BY <2>1
  <2> DEFINE fitting == Fitting(p, kept)
  <2>3. /\ job[m].latest \in Event /\ Fits(Notes(job[m].latest)) /\ job[m].pending \in MaybeEvent
        /\ job[m].pending # None => Fits(Notes(job[m].pending))
    BY <1>2, <1>5, LatestFits DEF ParkBehindReview
  <2>4. p \in Event /\ Fits(Notes(p))
    BY <2>3, ParkedType, ParkedFits
  <2>5. Fits(kept) /\ Notes(job[m].latest) \subseteq kept
    <3>1. JobTargets(job[m]) \cap Note = MergedNotes(job[m])
      BY <2>3, <1>5, NilFacts DEF JobTargets, MaybeTargets, MergedNotes, Notes, ParkBehindReview
    <3>2. Fits(MergedNotes(job[m])) /\ Notes(job[m].latest) \subseteq MergedNotes(job[m])
      BY <1>2, <1>5 DEF JobFits, MergedNotes, ParkBehindReview
    <3> QED
      BY <2>4, <3>1, <3>2, KeptFits, KeptNotesBetween DEF Fits
  <2>6. Notes(fitting) \subseteq kept
    <3>1. fitting.targets = (kept \cup MR) \cap p.targets
      BY <2>4 DEF Fitting, Reduced, Event
    <3> QED
      BY <3>1, NilFacts DEF Notes
  <2> HIDE DEF fitting
  <2>7. Save(m, [job[m] EXCEPT !.pending = fitting])
    BY <2>2 DEF fitting
  <2>8. /\ job'[m].pending = fitting /\ job'[m].latest = job[m].latest
        /\ job'[m].cleanup = None /\ job'[m].status = "running"
    BY <1>2, <1>5, <2>7, SavedPending DEF ParkBehindReview
  <2>9. MergedNotes(job'[m]) \subseteq kept
    BY <2>5, <2>6, <2>8 DEF MergedNotes
  <2>10. Fits(MergedNotes(job'[m])) /\ Fits(Notes(fitting))
    BY <2>5, <2>6, <2>9, FitsFinite
  <2> QED
    BY <2>8, <2>10 DEF JobFits
<1>6. CASE Coalesce(m, e)
  <2>1. PICK l \in Merges(job[m].latest, e) : Save(m, [job[m] EXCEPT !.latest = l])
    BY <1>6 DEF Coalesce
  <2>2. job'[m].latest = l /\ job'[m].pending = job[m].pending
    BY <1>2, <2>1, SavedLatest
  <2>3. job[m].pending = None
    BY <1>6 DEF CapInv, Coalesce, Enqueue
  <2>4. job[m].latest \in Event /\ Fits(Notes(job[m].latest))
    BY <1>2, <1>6, LatestFits DEF Coalesce
  <2>5. Fits(Notes(l))
    BY <2>4, MergesFit
  <2> QED
    BY <2>2, <2>3, <2>5 DEF JobFits, MergedNotes
<1> QED
  BY <1>3, <1>4, <1>5, <1>6 DEF Enqueue

LEMMA EnqueueCap ==
    ASSUME IInv, IInv', CapInv, Serving, NEW m \in MR, NEW e \in Event, Fits(Notes(e)),
           Enqueue(m, e), UNCHANGED <<worker, life>>
    PROVE  CapInv'
<1>1. Accepted(m, e) /\ JobStep(m)
  BY EnqueueStep DEF Accepted
<1>2. Known(m)' /\ phase' = phase
  BY ServingFacts DEF Known, alive, life
<1>3. JobFits(job'[m]) /\ (job'[m].status = "queued" => job'[m].pending = None)
  BY EnqueueFits
<1>4. job[m].status = "running" =>
        job'[m].cleanup = job[m].cleanup /\ job'[m].latest = job[m].latest
  BY <1>1 DEF Accepted, Created, ParkedBehind, Joined, NoJob
<1>5. \A w \in Worker : CopiesNothingNew(w)'
  BY <1>1, <1>4, CopiesKept DEF JobStep
<1> QED
  BY <1>1, <1>2, <1>3, <1>5, CapStep DEF JobStep

\* Few notes: one, or none.
LEMMA OneNoteFits ==
    ASSUME NEW n
    PROVE  Fits({n}) /\ Fits({})
<1>1. MaxAckNotes \in Nat /\ MaxAckNotes # 0
  BY SizeAssumption
<1>2. IsFiniteSet({n}) /\ Cardinality({n}) = 1
  BY FS_Singleton
<1>3. IsFiniteSet({}) /\ Cardinality({}) = 0
  BY FS_EmptySet
<1> QED
  BY <1>1, <1>2, <1>3 DEF Fits

LEMMA IntakeCap ==
    ASSUME IInv, IInv', CapInv, NEW m \in MR, EnqueueEvent(m)
    PROVE  CapInv'
<1>1. \A k \in Trigger : /\ [kind |-> k, targets |-> {}, unsure |-> {}] \in Event
                         /\ Notes([kind |-> k, targets |-> {}, unsure |-> {}]) = {}
  BY DEF Event, Notes
<1>2. PICK e \in Event : Enqueue(m, e) /\ Notes(e) = {}
  BY <1>1 DEF EnqueueEvent, Trigger
<1>3. Serving /\ UNCHANGED <<worker, life>>
  BY DEF EnqueueEvent
<1> QED
  BY <1>2, <1>3, OneNoteFits, EnqueueCap

LEMMA AbortCap ==
    ASSUME IInv, IInv', CapInv, NEW m \in MR, Abort(m)
    PROVE  CapInv'
<1>1. Known(m)' /\ phase' = phase /\ UNCHANGED worker
  BY ServingFacts DEF Abort, Known, alive, life
<1>2. JobStep(m) /\ job'[m].pending = None /\ job'[m].status # "queued" /\ job'[m].cleanup # None
  <2>1. CASE AbortRunning(m)
    BY <2>1, AbortRunningStep
  <2>2. CASE AbortQueued(m) \/ AbortPending(m)
    <3>1. JobStep(m) /\ job'[m].pending = None /\ job'[m].status = "cleanup"
      BY <2>2, AbortQueuedStep, AbortPendingStep
    <3>2. JobShape(job'[m])
      BY DEF IInv, TypeOK, StoreOK
    <3> QED
      BY <3>1, <3>2 DEF JobShape
  <2> QED
    BY <2>1, <2>2 DEF Abort
<1>3. JobFits(job'[m])
  BY <1>2 DEF JobFits
<1>4. \A w \in Worker : CopiesNothingNew(w)'
  BY <1>1, <1>2, CopiesKept DEF JobStep
<1> QED
  BY <1>1, <1>2, <1>3, <1>4, CapStep DEF JobStep

\* A step that leaves jobs, journal and workers alone while the daemon stays open or not.
LEMMA IdleCap ==
    ASSUME CapInv, UNCHANGED <<job, disk, worker>>, ~closed' => ~closed
    PROVE  CapInv'
BY DEF CapInv, CopiesNothingNew, Busy

LEMMA TimerCap ==
    ASSUME IInv, IInv', CapInv, NEW m \in MR, TimerFires(m)
    PROVE  CapInv'
<1> DEFINE j == [job[m] EXCEPT !.cleanupQueued = FALSE]
<1>1. job[m] \in Job /\ JobShape(job[m]) /\ j.status = job[m].status
  BY DEF IInv, TypeOK, StoreOK, Job
<1>2. UNCHANGED <<disk, worker, phase>> /\ closed' = closed
  BY DEF TimerFires, life, closed
<1>3. CASE UNCHANGED job
  BY <1>2, <1>3, IdleCap
<1>4. CASE j.status = "cleanup" /\ job' = [job EXCEPT ![m] = Reserved(j)]
  <2>1. /\ Reserved(j).latest = job[m].latest /\ Reserved(j).pending = job[m].pending
        /\ Reserved(j).cleanup = job[m].cleanup /\ Reserved(j).status = job[m].status
    BY <1>1, <1>4, ReservationType
  <2>2. /\ job'[m] = Reserved(j) /\ \A n \in MR \ {m} : job'[n] = job[n]
    BY <1>4 DEF IInv, TypeOK, StoreOK
  <2> HIDE DEF j
  <2>3. \A w \in Worker : CopiesNothingNew(w)'
    BY <1>2, <2>1, <2>2, CopiesKept
  <2>4. \A n \in MR : JobFits(job'[n]) /\ (disk'[n] # None => EntryFits(disk'[n]))
    <3>1. JobFits(job[m]) => JobFits(job'[m])
      BY <2>1, <2>2 DEF JobFits, MergedNotes
    <3> QED
      BY <1>2, <2>2, <3>1 DEF CapInv
  <2>5. ~closed' => \A n \in MR : job'[n].status = "queued" => job'[n].pending = None
    BY <1>2, <2>1, <2>2 DEF CapInv
  <2> QED
    BY <2>3, <2>4, <2>5 DEF CapInv
<1> QED
  BY <1>3, <1>4 DEF TimerFires

LEMMA DropCap ==
    ASSUME IInv, CapInv, NEW m \in MR, DropEntry(m)
    PROVE  CapInv'
<1>1. /\ UNCHANGED <<job, worker>> /\ closed' = closed
      /\ disk' = [disk EXCEPT ![m] = None]
  BY DropFacts DEF closed
<1>2. \A n \in MR : disk'[n] # None => disk[n] # None /\ disk'[n] = disk[n]
  BY <1>1 DEF IInv, TypeOK, StoreOK
<1> QED
  BY <1>1, <1>2 DEF CapInv, CopiesNothingNew, Busy

\* An entry that is restored is a job that fits.
LEMMA RestoreCap ==
    ASSUME IInv, IInv', CapInv, NEW m \in MR, RestoreJob(m)
    PROVE  CapInv'
<1> DEFINE e == disk[m]
           queued == [NoJob EXCEPT !.status = "queued", !.latest = e.event, !.persisted = TRUE]
           settling == [NoJob EXCEPT !.status = "cleanup", !.latest = e.event,
                         !.pending = e.pending, !.version = 1, !.persisted = TRUE,
                         !.cleanup = [event |-> e.event, outcome |-> e.outcome,
                                      aborted |-> e.aborted]]
<1>1. /\ UNCHANGED <<disk, worker, phase>> /\ closed' = closed /\ e # None
      /\ job[m].status # "running" /\ job[m].cleanup = None
  BY DEF RestoreJob, closed, IInv, Rest, Loading, NoJob
<1>2. EntryFits(e)
  BY <1>1 DEF CapInv
<1>3. /\ job'[m].pending = None \/ job'[m].pending = e.pending
      /\ job'[m].status = "queued" => /\ e.outcome = "none" /\ job'[m].pending = None
                                      /\ job'[m].latest = e.event
      /\ job'[m].cleanup = None => job'[m].status = "queued"
      /\ \A n \in MR \ {m} : job'[n] = job[n]
  <2>1. CASE e.outcome = "none"
    <3>1. job' = [job EXCEPT ![m] = queued]
      BY <2>1 DEF RestoreJob
    <3>2. queued.pending = None /\ queued.latest = e.event /\ queued.status = "queued"
      BY DEF NoJob
    <3> HIDE DEF queued
    <3>3. job'[m] = queued /\ \A n \in MR \ {m} : job'[n] = job[n]
      BY <3>1 DEF IInv, TypeOK, StoreOK
    <3> QED
      BY <2>1, <3>2, <3>3
  <2>2. CASE e.outcome # "none"
    <3>1. job' = [job EXCEPT ![m] = Reserved(settling)]
      BY <2>2 DEF RestoreJob
    <3>2. Reserved(settling).pending = e.pending /\ Reserved(settling).status = "cleanup"
      BY DEF NoJob, Reserved
    <3> HIDE DEF settling
    <3>3. job'[m] = Reserved(settling) /\ \A n \in MR \ {m} : job'[n] = job[n]
      BY <3>1 DEF IInv, TypeOK, StoreOK
    <3>4. job'[m].cleanup # None
      BY <3>2, <3>3 DEF IInv, TypeOK, StoreOK, JobShape
    <3> QED
      BY <3>2, <3>3, <3>4
  <2> QED
    BY <2>1, <2>2
<1>4. JobFits(job'[m])
  BY <1>2, <1>3 DEF JobFits, EntryFits, MergedNotes
<1>5. \A w \in Worker : CopiesNothingNew(w)'
  BY <1>1, <1>3, CopiesKept
<1>6. \A n \in MR : JobFits(job'[n]) /\ (disk'[n] # None => EntryFits(disk'[n]))
  BY <1>1, <1>3, <1>4 DEF CapInv
<1>7. ~closed' => \A n \in MR : job'[n].status = "queued" => job'[n].pending = None
  BY <1>1, <1>3 DEF CapInv
<1> QED
  BY <1>5, <1>6, <1>7 DEF CapInv

LEMMA HandlerCap ==
    ASSUME IInv, IInv', CapInv, NEW n \in Note, AwardAck(n) \/ HandleReview(n)
    PROVE  CapInv'
<1>1. CASE HandleReview(n) /\ Enqueue(NoteMR[n], CommandEvent(n))
  <2>1. NoteMR[n] \in MR /\ CommandEvent(n) \in Event /\ Notes(CommandEvent(n)) = {n}
    BY SizeAssumption DEF CommandEvent, Event, Trigger, Target, Notes
  <2>2. Serving /\ UNCHANGED <<worker, life>>
    BY <1>1 DEF HandleReview, IInv, Rest, Asleep
  <2> QED
    BY <1>1, <2>1, <2>2, OneNoteFits, EnqueueCap
<1>2. CASE UNCHANGED <<store, worker, life>>
  <2>1. UNCHANGED <<job, disk, worker>> /\ closed' = closed
    BY <1>2 DEF store, life, closed
  <2> QED
    BY <2>1, IdleCap
<1> QED
  BY <1>1, <1>2 DEF AwardAck, HandleReview

\* A worker starts from its job's event.
LEMMA TakeCap ==
    ASSUME IInv, IInv', CapInv, NEW w \in Worker, Take(w)
    PROVE  CapInv'
<1>1. PICK m \in MR : m = Head(queue)
  BY DEF Take, IInv, TypeOK, PoolOK
<1>2. UNCHANGED <<disk, phase>> /\ closed' = closed
  BY DEF Take, life, closed
<1>3. CASE ~Takeable(m)
  <2>1. UNCHANGED <<job, disk, worker>>
    BY <1>1, <1>2, <1>3 DEF Take
  <2> QED
    BY <1>2, <2>1, IdleCap
<1>4. CASE Takeable(m)
  <2>1. /\ job' = [job EXCEPT ![m].status = "running", ![m].cancelled = FALSE]
        /\ worker' = [worker EXCEPT ![w] =
               [step |-> "check", mr |-> m, event |-> job[m].latest,
                outcome |-> "none", version |-> 0]]
    BY <1>1, <1>4 DEF Take
  <2>2. job[m] \in Job /\ job[m].status = "queued" /\ job[m].cleanup = None
    BY <1>4 DEF Takeable, IInv, TypeOK, StoreOK, JobShape
  <2>3. /\ job'[m].status = "running" /\ job'[m].latest = job[m].latest
        /\ job'[m].pending = job[m].pending /\ job'[m].cleanup = job[m].cleanup
        /\ \A n \in MR \ {m} : job'[n] = job[n]
    BY <2>1, <2>2 DEF IInv, TypeOK, StoreOK, Job
  <2>4. /\ worker'[w].mr = m /\ worker'[w].event = job[m].latest
        /\ \A u \in Worker \ {w} : worker'[u] = worker[u]
    BY <2>1 DEF IInv, TypeOK, WorkerOK
  <2>5. \A n \in MR : JobFits(job'[n]) /\ (disk'[n] # None => EntryFits(disk'[n]))
    <3>1. JobFits(job[m]) => JobFits(job'[m])
      BY <2>2, <2>3 DEF JobFits, MergedNotes
    <3> QED
      BY <1>2, <2>3, <3>1 DEF CapInv
  <2>6. ~closed' => \A n \in MR : job'[n].status = "queued" => job'[n].pending = None
    BY <1>2, <2>3 DEF CapInv
  <2>7. ASSUME NEW u \in Worker PROVE CopiesNothingNew(u)'
    <3>1. CASE u = w
      BY <2>3, <2>4, <3>1 DEF CopiesNothingNew
    <3>2. CASE u # w
      <4>1. ASSUME Busy(u) PROVE worker[u].mr \in MR /\ worker[u].mr # m
        BY <2>2, <4>1, BusyFacts
      <4>2. Busy(u)' = Busy(u) /\ worker'[u] = worker[u]
        BY <2>4, <3>2 DEF Busy
      <4>3. Busy(u) => job'[worker[u].mr] = job[worker[u].mr]
        BY <2>3, <4>1
      <4> QED
        BY <4>2, <4>3 DEF CapInv, CopiesNothingNew
    <3> QED
      BY <3>1, <3>2
  <2> QED
    BY <2>5, <2>6, <2>7 DEF CapInv
<1> QED
  BY <1>3, <1>4

\* What the worker notes in the job about the merge request's reaction names no note.
LEMMA RecordedNotes ==
    ASSUME NEW j \in Job, JobShape(j), j.status = "running",
           NEW targets \in SUBSET MR, NEW unsure \in SUBSET MR, JobFits(j)
    PROVE  LET r == Recorded(j, targets, unsure)
           IN  /\ r \in Job /\ JobShape(r) /\ r.status = "running" /\ JobFits(r)
               /\ r.cleanup = None => j.cleanup = None /\ Notes(r.latest) = Notes(j.latest)
<1> DEFINE r == Recorded(j, targets, unsure)
<1>1. targets \in SUBSET Target /\ unsure \in SUBSET Target
  BY DEF Target
<1>2. /\ r \in Job /\ JobShape(r) /\ r.status = "running" /\ r.pending = j.pending
      /\ r.cleanup = None <=> j.cleanup = None
  BY <1>1, RecordedType
<1>3. ASSUME j.cleanup = None PROVE Notes(r.latest) = Notes(j.latest)
  <2>1. j.latest \in Event
    BY DEF Job, JobShape, MaybeEvent
  <2> DEFINE e == [j.latest EXCEPT !.targets = @ \cup targets, !.unsure = @ \cup unsure]
  <2>2. r.latest = e
    BY <1>3 DEF Recorded, Job
  <2>3. e.targets = j.latest.targets \cup targets
    BY <2>1 DEF Event
  <2> HIDE DEF e, r
  <2>4. Notes(e) = Notes(j.latest)
    BY <2>3, NilFacts DEF Notes
  <2> QED
    BY <2>2, <2>4
<1> HIDE DEF r
<1>4. JobFits(r)
  BY <1>2, <1>3 DEF JobFits, MergedNotes
<1> QED
  BY <1>2, <1>3, <1>4 DEF r

\* A step of a review that writes its job, or not, and keeps the worker's copy in bounds.
LEMMA ReviewCapStep ==
    ASSUME IInv, IInv', CapInv, NEW w \in Worker, Busy(w), NEW m \in MR, m = worker[w].mr,
           NEW v, worker' = [worker EXCEPT ![w] = v], v.mr = m, UNCHANGED life,
           Notes(v.event) \subseteq Notes(worker[w].event),
           \/ UNCHANGED <<job, disk>>
           \/ \E r \in Job : /\ JobShape(r) /\ r.status = "running" /\ JobFits(r) /\ Save(m, r)
                             /\ r.cleanup = None => /\ job[m].cleanup = None
                                                    /\ Notes(r.latest) = Notes(job[m].latest)
    PROVE  CapInv'
<1>1. job[m].status = "running" /\ Serving /\ JobFits(job[m])
  BY BusyFacts DEF CapInv
<1>2. /\ job'[m].status = "running" /\ JobFits(job'[m])
      /\ \A n \in MR \ {m} : job'[n] = job[n] /\ disk'[n] = disk[n]
      /\ job'[m].cleanup = None => /\ job[m].cleanup = None
                                   /\ Notes(job'[m].latest) = Notes(job[m].latest)
  <2>1. CASE UNCHANGED <<job, disk>>
    BY <1>1, <2>1
  <2>2. CASE ~UNCHANGED <<job, disk>>
    <3>1. PICK r \in Job : /\ JobShape(r) /\ r.status = "running" /\ JobFits(r) /\ Save(m, r)
                           /\ r.cleanup = None => /\ job[m].cleanup = None
                                                  /\ Notes(r.latest) = Notes(job[m].latest)
      BY <2>2
    <3>2. /\ JobStep(m) /\ job'[m].status = r.status /\ job'[m].latest = r.latest
          /\ job'[m].pending = r.pending /\ job'[m].cleanup = r.cleanup
      BY <3>1, SaveStep DEF IInv, TypeOK
    <3> QED
      BY <3>1, <3>2 DEF JobStep, JobFits, MergedNotes
  <2> QED
    BY <2>1, <2>2
<1>3. Known(m)' /\ phase' = phase
  BY <1>1, ServingFacts DEF Known, alive, life
<1>4. worker'[w] = v /\ \A u \in Worker \ {w} : worker'[u] = worker[u]
  BY DEF IInv, TypeOK, WorkerOK
<1>5. ASSUME NEW u \in Worker PROVE CopiesNothingNew(u)'
  <2>1. CASE u = w
    <3>1. CopiesNothingNew(w)
      BY DEF CapInv
    <3> QED
      BY <1>2, <1>4, <2>1, <3>1 DEF CopiesNothingNew
  <2>2. CASE u # w
    <3>1. ASSUME Busy(u) PROVE worker[u].mr \in MR \ {m}
      BY <2>2, <3>1, BusyFacts DEF IInv, Rest, Exclusive
    <3>2. Busy(u)' = Busy(u) /\ worker'[u] = worker[u]
      BY <1>4, <2>2 DEF Busy
    <3>3. Busy(u) => job'[worker[u].mr] = job[worker[u].mr]
      BY <1>2, <3>1
    <3> QED
      BY <3>2, <3>3 DEF CapInv, CopiesNothingNew
  <2> QED
    BY <2>1, <2>2
<1> QED
  BY <1>2, <1>3, <1>5, CapStep

LEMMA ReviewCap ==
    ASSUME IInv, IInv', CapInv, NEW w \in Worker,
           \/ CheckRequest(w) \/ StartReaction(w) \/ RunReview(w)
           \/ BeginSettlement(w) \/ SettleReview(w)
    PROVE  CapInv'
<1> DEFINE copy == worker[w].event
<1>1. Busy(w) /\ worker \in [Worker -> WorkerState] /\ worker[w] \in WorkerState
  BY DEF CheckRequest, StartReaction, RunReview, BeginSettlement, SettleReview, Busy, IInv,
     TypeOK, WorkerOK
<1>2. PICK m \in MR : m = worker[w].mr /\ copy \in Event
  BY <1>1, BusyFacts DEF IInv, TypeOK, WorkerOK, WorkerShape, WorkerState, MaybeEvent, Busy
<1>3. /\ job[m] \in Job /\ JobShape(job[m]) /\ JobFits(job[m]) /\ job[m].status = "running"
      /\ UNCHANGED life
  BY <1>1, <1>2, BusyFacts
  DEF CheckRequest, StartReaction, RunReview, BeginSettlement, SettleReview, CapInv, IInv,
      TypeOK, StoreOK
<1>4. ASSUME NEW v, worker' = [worker EXCEPT ![w] = v], v.mr = m,
             Notes(v.event) \subseteq Notes(copy), UNCHANGED <<job, disk>>
      PROVE  CapInv'
  BY <1>1, <1>2, <1>3, <1>4, ReviewCapStep
<1>5. ASSUME NEW v, worker' = [worker EXCEPT ![w] = v], v.mr = m,
             Notes(v.event) \subseteq Notes(copy),
             NEW r \in Job, JobShape(r), r.status = "running", JobFits(r), Save(m, r),
             r.cleanup = None => /\ job[m].cleanup = None
                                 /\ Notes(r.latest) = Notes(job[m].latest)
      PROVE  CapInv'
  BY <1>1, <1>2, <1>3, <1>5, ReviewCapStep
<1>6. ASSUME NEW step, NEW o, Goto(w, step, o), UNCHANGED store
      PROVE  CapInv'
  <2> DEFINE v == [worker[w] EXCEPT !.step = step, !.outcome = o]
  <2>1. worker' = [worker EXCEPT ![w] = v] /\ UNCHANGED <<job, disk>>
    BY <1>1, <1>6 DEF Goto, store
  <2>2. v.mr = m /\ v.event = copy
    BY <1>1, <1>2 DEF WorkerState
  <2> HIDE DEF v
  <2> QED
    BY <1>4, <2>1, <2>2
\* What the worker notes about the merge request's own reaction is about no note.
<1>7. ASSUME NEW targets \in SUBSET MR, NEW unsure \in SUBSET MR,
             Save(m, Recorded(job[m], targets, unsure)),
             NEW v, worker' = [worker EXCEPT ![w] = v], v.mr = m,
             Notes(v.event) \subseteq Notes(copy)
      PROVE  CapInv'
  <2> DEFINE r == Recorded(job[m], targets, unsure)
  <2>1. /\ r \in Job /\ JobShape(r) /\ r.status = "running" /\ JobFits(r)
        /\ r.cleanup = None => job[m].cleanup = None /\ Notes(r.latest) = Notes(job[m].latest)
    BY <1>3, RecordedNotes
  <2>2. Save(m, r)
    BY <1>7
  <2> HIDE DEF r
  <2> QED
    BY <1>5, <1>7, <2>1, <2>2
<1>8. CASE CheckRequest(w)
  <2>1. CASE \E o \in PreRunOutcomes(w) : Goto(w, Ends("begin", o), o) /\ UNCHANGED store
    BY <1>6, <2>1
  <2>2. CASE /\ Save(m, Recorded(job[m], {m}, {}))
             /\ worker' = [worker EXCEPT ![w].step = "start", ![w].event.targets = @ \cup {m}]
    <3> DEFINE e == [copy EXCEPT !.targets = @ \cup {m}]
               v == [worker[w] EXCEPT !.step = "start", !.event = e]
    <3>1. worker' = [worker EXCEPT ![w] = v]
      BY <1>1, <2>2 DEF WorkerState
    <3>2. e.targets = copy.targets \cup {m}
      BY <1>2 DEF Event
    <3> HIDE DEF e
    <3>3. v.mr = m /\ v.event = e
      BY <1>1, <1>2 DEF WorkerState
    <3>4. Notes(e) \subseteq Notes(copy)
      BY <3>2, NilFacts DEF Notes
    <3> HIDE DEF v
    <3>5. {m} \in SUBSET MR /\ {} \in SUBSET MR
      OBVIOUS
    <3> QED
      BY <1>7, <2>2, <3>1, <3>3, <3>4, <3>5
  <2> QED
    BY <1>2, <1>8, <2>1, <2>2 DEF CheckRequest
<1>9. CASE StartReaction(w)
  <2>1. ASSUME worker' = [worker EXCEPT ![w].step = "run"], UNCHANGED <<job, disk>>
        PROVE  CapInv'
    <3> DEFINE v == [worker[w] EXCEPT !.step = "run"]
    <3>1. worker' = [worker EXCEPT ![w] = v]
      BY <1>1, <2>1
    <3>2. v.mr = m /\ v.event = copy
      BY <1>1, <1>2 DEF WorkerState
    <3> HIDE DEF v
    <3> QED
      BY <1>4, <2>1, <3>1, <3>2
  <2>2. CASE /\ Save(m, Recorded(job[m], {}, {m}))
             /\ worker' = [worker EXCEPT ![w].step = "run", ![w].event.unsure = @ \cup {m}]
    <3> DEFINE e == [copy EXCEPT !.unsure = @ \cup {m}]
               v == [worker[w] EXCEPT !.step = "run", !.event = e]
    <3>1. worker' = [worker EXCEPT ![w] = v]
      BY <1>1, <2>2 DEF WorkerState
    <3>2. e.targets = copy.targets
      BY <1>2 DEF Event
    <3> HIDE DEF e
    <3>3. v.mr = m /\ v.event = e
      BY <1>1, <1>2 DEF WorkerState
    <3>4. Notes(e) \subseteq Notes(copy)
      BY <3>2 DEF Notes
    <3> HIDE DEF v
    <3>5. {m} \in SUBSET MR /\ {} \in SUBSET MR
      OBVIOUS
    <3> QED
      BY <1>7, <2>2, <3>1, <3>3, <3>4, <3>5
  <2> QED
    BY <1>2, <1>9, <2>1, <2>2 DEF StartReaction, store
<1>10. CASE RunReview(w)
  BY <1>6, <1>10 DEF RunReview
<1>11. CASE BeginSettlement(w)
  <2>1. CASE job[m].cleanup = None
    <3> DEFINE next == job[m].version + 1
               c == CleanupOf(copy, worker[w].outcome)
               i == [job[m] EXCEPT !.latest = copy, !.cleanup = c]
               r == [i EXCEPT !.version = next]
               v == [worker[w] EXCEPT !.step = "settle", !.version = next]
    <3>1. Save(m, r) /\ worker' = [worker EXCEPT ![w] = v]
      BY <1>1, <1>2, <1>11, <2>1 DEF BeginSettlement
    <3>2. next \in Nat
      BY <1>3 DEF Job
    <3>3. c \in Cleanup /\ c # None
      BY <1>1, <1>2, <1>11, NilFacts
      DEF CleanupOf, Cleanup, MaybeEvent, BeginSettlement, IInv, TypeOK, WorkerOK, WorkerShape
    <3> HIDE DEF next, c
    <3>4. v.mr = m /\ v.event = copy
      BY <1>1, <1>2 DEF WorkerState
    <3>5. i \in Job /\ i.status = "running" /\ i.latest = copy /\ i.cleanup = c
          /\ i.pending = job[m].pending
      BY <1>2, <1>3, <3>3 DEF Job, MaybeEvent
    <3> HIDE DEF i
    <3>6. r \in Job /\ r.status = "running" /\ r.latest = copy /\ r.cleanup = c
          /\ r.pending = job[m].pending
      BY <3>2, <3>5 DEF Job
    <3> HIDE DEF r, v
    <3>7. JobShape(r) /\ JobFits(r)
      BY <1>2, <1>3, <3>3, <3>6, NilFacts DEF JobShape, JobFits
    <3> QED
      BY <1>5, <3>1, <3>3, <3>4, <3>6, <3>7
  <2>2. CASE job[m].cleanup # None
    <3> DEFINE v == [worker[w] EXCEPT !.step = "settle", !.version = 0]
    <3>1. worker' = [worker EXCEPT ![w] = v] /\ UNCHANGED <<job, disk>>
      BY <1>1, <1>2, <1>11, <2>2 DEF BeginSettlement, store
    <3>2. v.mr = m /\ v.event = copy
      BY <1>1, <1>2 DEF WorkerState
    <3> HIDE DEF v
    <3> QED
      BY <1>4, <3>1, <3>2
  <2> QED
    BY <2>1, <2>2
<1>12. CASE SettleReview(w)
  <2>1. PICK failed \in SUBSET copy.targets :
          \E applied \in SUBSET failed, gone \in SUBSET (copy.targets \ failed) :
             worker' = [worker EXCEPT ![w].step = "finish",
                            ![w].event = Reduced(copy, Unsettled(copy, failed, gone))]
    BY <1>12 DEF SettleReview
  <2>2. PICK gone \in SUBSET (copy.targets \ failed) :
             worker' = [worker EXCEPT ![w].step = "finish",
                            ![w].event = Reduced(copy, Unsettled(copy, failed, gone))]
    BY <2>1
  <2> DEFINE left == Reduced(copy, Unsettled(copy, failed, gone))
             v == [worker[w] EXCEPT !.step = "finish", !.event = left]
  <2>3. worker' = [worker EXCEPT ![w] = v]
    BY <1>1, <2>2 DEF WorkerState
  <2>4. left.targets \subseteq copy.targets
    BY <1>2 DEF Reduced, Unsettled, Event
  <2> HIDE DEF left
  <2>5. v.mr = m /\ v.event = left
    BY <1>1, <1>2 DEF WorkerState
  <2> HIDE DEF v
  <2>6. Notes(left) \subseteq Notes(copy)
    BY <2>4 DEF Notes
  <2>7. UNCHANGED <<job, disk>>
    BY <1>12 DEF SettleReview
  <2> QED
    BY <1>4, <2>3, <2>5, <2>6, <2>7
<1> QED
  BY <1>8, <1>9, <1>10, <1>11, <1>12

\* A job that gives way is gone, or starts over with the event that was parked.
LEMMA GivenWayFits ==
    ASSUME CapInv, NEW m \in MR, GivesWay(m)
    PROVE  JobFits(job'[m]) /\ job'[m].pending = None
<1>1. CASE job[m].pending = None
  BY <1>1 DEF GivesWay, NoJob, JobFits
<1>2. CASE job[m].pending # None
  <2>1. /\ job'[m].latest = job[m].pending /\ job'[m].pending = None
        /\ Fits(Notes(job[m].pending))
    BY <1>2 DEF GivesWay, CapInv, JobFits
  <2> QED
    BY <2>1 DEF JobFits, MergedNotes
<1> QED
  BY <1>1, <1>2

LEMMA FinishCap ==
    ASSUME IInv, IInv', KeysInv, CapInv, NEW w \in Worker, Finish(w)
    PROVE  CapInv'
<1> DEFINE e == worker[w].event
           o == worker[w].outcome
<1>1. PICK m \in MR : m = worker[w].mr
  BY BusyFacts DEF Finish, Busy
<1>2. /\ Busy(w) /\ e \in Event /\ job[m].status = "running" /\ JobFits(job[m])
      /\ job[m] \in Job /\ o \in Outcome \cup {"interrupted"} /\ Serving
  BY <1>1, BusyFacts
  DEF Finish, Busy, CapInv, IInv, TypeOK, StoreOK, WorkerOK, WorkerShape, WorkerState
<1>3. /\ UNCHANGED life /\ worker'[w].step = "idle"
      /\ \A u \in Worker \ {w} : worker'[u] = worker[u]
  BY DEF Finish, IdleWorker, IInv, TypeOK, WorkerOK
<1>4. Known(m)' /\ phase' = phase
  BY <1>2, <1>3, ServingFacts DEF Known, alive, life
<1>5. ASSUME JobStep(m), JobFits(job'[m]),
             ~closed /\ job'[m].status = "queued" => job'[m].pending = None
      PROVE  CapInv'
  <2>1. ASSUME NEW u \in Worker PROVE CopiesNothingNew(u)'
    <3>1. CASE u = w
      BY <1>3, <3>1 DEF CopiesNothingNew, Busy
    <3>2. CASE u # w
      <4>1. ASSUME Busy(u) PROVE worker[u].mr \in MR \ {m}
        BY <1>1, <1>2, <3>2, <4>1, BusyFacts DEF IInv, Rest, Exclusive
      <4>2. Busy(u)' = Busy(u) /\ worker'[u] = worker[u]
        BY <1>3, <3>2 DEF Busy
      <4>3. Busy(u) => job'[worker[u].mr] = job[worker[u].mr]
        BY <1>5, <4>1 DEF JobStep
      <4> QED
        BY <4>2, <4>3 DEF CapInv, CopiesNothingNew
    <3> QED
      BY <3>1, <3>2
  <2> QED
    BY <1>4, <1>5, <2>1, CapStep DEF JobStep
<1>6. ASSUME JobStep(m), job'[m].status = "cleanup", job'[m].pending = job[m].pending
      PROVE  CapInv'
  <2>1. job'[m].cleanup # None
    BY <1>6 DEF IInv, TypeOK, StoreOK, JobShape
  <2> QED
    BY <1>2, <1>5, <1>6, <2>1 DEF JobFits
<1>7. CASE o = "interrupted" /\ FinishInterrupted(m, e)
  <2>1. /\ JobStep(m) /\ job'[m].pending = job[m].pending
        /\ job'[m].status = IF job[m].cleanup = None THEN "queued" ELSE "cleanup"
        /\ job'[m].cleanup = job[m].cleanup
        /\ job[m].cleanup = None => job'[m].latest = e
    BY <1>2, <1>7, FinishInterruptedStep
  <2>2. CASE job[m].cleanup # None
    BY <1>6, <2>1, <2>2
  <2>3. CASE job[m].cleanup = None
    <3>1. closed
      BY <1>2, <1>7 DEF KeysInv, Patience, closed
    <3>2. Notes(e) \subseteq Notes(job[m].latest)
      BY <1>1, <1>2, <2>3 DEF CapInv, CopiesNothingNew
    <3>3. MergedNotes(job'[m]) \subseteq MergedNotes(job[m])
      BY <2>1, <2>3, <3>2 DEF MergedNotes
    <3>4. Fits(MergedNotes(job'[m])) /\ (job'[m].pending # None => Fits(Notes(job'[m].pending)))
      BY <1>2, <2>1, <2>3, <3>3, FitsFinite DEF JobFits
    <3> QED
      BY <1>5, <2>1, <3>1, <3>4 DEF JobFits
  <2> QED
    BY <2>2, <2>3
<1>8. CASE o # "interrupted" /\ Preempted(w) /\ FinishAborted(m)
  BY <1>1, <1>2, <1>6, <1>8, FinishAbortedStep DEF Preempted
<1>9. CASE o # "interrupted" /\ FinishUnsettled(m, e, o)
  BY <1>2, <1>6, <1>9, FinishUnsettledStep
<1>10. CASE o # "interrupted" /\ EndOrPromote(m)
  BY <1>5, <1>10, EndOrPromoteStep, GivenWayFits
<1> QED
  BY <1>1, <1>7, <1>8, <1>9, <1>10 DEF Finish

LEMMA CleanerCap ==
    ASSUME IInv, IInv', CapInv, NEW c \in Cleaner, CleanerStep(c)
    PROVE  CapInv'
<1>1. UNCHANGED <<worker, phase>> /\ closed' = closed
  BY DEF CleanerStep, CleanerTake, CleanerSettle, CleanerCancelled, CleanerComplete, life, closed
<1>2. CASE UNCHANGED <<job, disk>>
  BY <1>1, <1>2, IdleCap
<1>3. CASE CleanerComplete(c) /\ cleaner[c].work.durable
  <2>1. alive /\ cleaner[c].work \in Work /\ CompleteDurable(cleaner[c].work)
    BY <1>3, HeldFacts DEF CleanerComplete
  <2>2. PICK m \in MR : m = cleaner[c].work.mr
    BY <2>1 DEF Work
  <2>3. Completed(m)
    BY <1>3, <2>1, <2>2, CompleteDurableStep DEF CleanerComplete
  <2>4. CASE UNCHANGED <<job, disk>>
    BY <1>2, <2>4
  <2>5. CASE JobStep(m) /\ job[m].status = "cleanup" /\ (KeepsCleanup(m) \/ GivesWay(m))
    <3>1. /\ JobFits(job'[m])
          /\ job'[m].status = "queued" => job'[m].pending = None
      <4>1. CASE KeepsCleanup(m)
        <5>1. job'[m].cleanup # None
          BY <4>1 DEF KeepsCleanup, IInv, TypeOK, StoreOK, JobShape
        <5> QED
          BY <4>1, <5>1 DEF KeepsCleanup, JobFits, CapInv
      <4> QED
        BY <2>5, <4>1, GivenWayFits
    <3>2. Known(m)'
      <4>1. m \notin toLoad /\ toLoad' = toLoad
        BY <1>3, <2>5 DEF IInv, Rest, Loading, NoJob, CleanerComplete, life
      <4> QED
        BY <1>1, <2>1, <4>1 DEF Known, alive
    <3>3. \A w \in Worker : CopiesNothingNew(w)'
      BY <1>1, <2>5, CopiesKept DEF JobStep
    <3> QED
      BY <1>1, <2>5, <3>1, <3>2, <3>3, CapStep DEF JobStep
  <2> QED
    BY <2>3, <2>4, <2>5 DEF Completed
<1> QED
  BY <1>2, <1>3
  DEF CleanerStep, CleanerTake, CleanerSettle, CleanerCancelled, CleanerComplete, store

\* A process that is gone leaves what its journal holds.
LEMMA EmptyCap ==
    ASSUME job = [m \in MR |-> NoJob], worker = [w \in Worker |-> IdleWorker],
           \A m \in MR : disk[m] # None => EntryFits(disk[m])
    PROVE  CapInv
BY DEF CapInv, JobFits, NoJob, CopiesNothingNew, Busy, IdleWorker

LEMMA HaltCap ==
    ASSUME Halt, \A m \in MR : disk'[m] # None => EntryFits(disk'[m])
    PROVE  CapInv'
BY DEF Halt, CapInv, JobFits, NoJob, CopiesNothingNew, Busy, IdleWorker

LEMMA LifecycleCap ==
    ASSUME IInv, CapInv, Lifecycle
    PROVE  CapInv'
<1>1. CASE Exit
  <2> DEFINE unsaved == {m \in MR : job[m].status # "none" /\ ~job[m].persisted}
  <2>1. PICK saved \in SUBSET unsaved :
          disk' = [m \in MR |-> IF m \in saved THEN EntryOf(job[m]) ELSE disk[m]]
    BY <1>1 DEF Exit
  <2>2. \A m \in unsaved : EntryFits(EntryOf(job[m]))
    BY EntryOfFits DEF CapInv, IInv, TypeOK, StoreOK
  <2>3. \A m \in MR : disk'[m] # None => EntryFits(disk'[m])
    BY <2>1, <2>2 DEF CapInv
  <2> QED
    BY <1>1, <2>3, HaltCap DEF Exit
<1>2. CASE Crash
  <2>1. Halt /\ UNCHANGED disk
    BY <1>2 DEF Crash
  <2> QED
    BY <2>1, HaltCap DEF CapInv
<1>3. CASE Start
  <2>1. UNCHANGED <<job, disk, worker>> /\ \A m \in MR : job[m].status = "none"
    BY <1>3 DEF Start, Quiet, store, IInv, Rest, Asleep, alive, NoJob
  <2> QED
    BY <2>1 DEF CapInv, CopiesNothingNew, Busy
<1>4. CASE Serve \/ Stop \/ CloseIntake \/ GraceExpires \/ StopCleanup \/ CleanupGraceExpires
  <2>1. UNCHANGED <<job, disk, worker>> /\ (~closed' => ~closed)
    BY <1>4 DEF Serve, Stop, CloseIntake, GraceExpires, StopCleanup, CleanupGraceExpires, Quiet,
       store, closed
  <2> QED
    BY <2>1, IdleCap
<1> QED
  BY <1>1, <1>2, <1>3, <1>4 DEF Lifecycle

LEMMA NextCap ==
    ASSUME IInv, IInv', KeysInv, CapInv, [Next]_vars
    PROVE  CapInv'
<1>1. ASSUME NEW m \in MR, \/ EnqueueEvent(m) \/ Abort(m) \/ TimerFires(m)
                           \/ RestoreJob(m) \/ DropEntry(m)
      PROVE  CapInv'
  BY <1>1, IntakeCap, AbortCap, TimerCap, RestoreCap, DropCap
<1>2. ASSUME NEW n \in Note, AwardAck(n) \/ HandleReview(n)
      PROVE  CapInv'
  BY <1>2, HandlerCap
<1>3. ASSUME NEW w \in Worker, WorkerStep(w)
      PROVE  CapInv'
  BY <1>3, TakeCap, ReviewCap, FinishCap DEF WorkerStep
<1>4. ASSUME NEW c \in Cleaner, CleanerStep(c)
      PROVE  CapInv'
  BY <1>4, CleanerCap
<1>5. ASSUME NEW t \in Target, LateCommit(t) \/ WindowEnds(t)
      PROVE  CapInv'
  <2>1. UNCHANGED <<job, disk, worker>> /\ closed' = closed
    BY <1>5 DEF LateCommit, WindowEnds, store, life, closed
  <2> QED
    BY <2>1, IdleCap
<1>6. CASE Lifecycle
  BY <1>6, LifecycleCap
<1>7. CASE UNCHANGED vars
  <2>1. UNCHANGED <<job, disk, worker>> /\ closed' = closed
    BY <1>7 DEF vars, store, life, closed
  <2> QED
    BY <2>1, IdleCap
<1> QED
  BY <1>1, <1>2, <1>3, <1>4, <1>5, <1>6, <1>7 DEF Next

LEMMA InvariantCap == Spec => []CapInv
<1>1. Init => KeysInv /\ CapInv
  <2> SUFFICES ASSUME Init PROVE KeysInv /\ CapInv
    OBVIOUS
  <2>1. Keyed /\ ParkedWhenFull /\ Patience
    BY DEF Init, Keyed, ParkedWhenFull, Patience, Busy, IdleWorker, NoJob
  <2>2. CapInv
    BY EmptyCap DEF Init
  <2> QED
    BY <2>1, <2>2 DEF KeysInv
<1>2. IInv /\ IInv' /\ KeysInv /\ CapInv /\ [Next]_vars => KeysInv' /\ CapInv'
  BY NextKeys, NextCap
<1> QED
  BY <1>1, <1>2, InductiveInvariant, PTL DEF Spec

\* What a running review and the event parked behind it name together fits into one event,
\* at every step of every schedule: the merge a journal write or a restart makes of them
\* therefore loses no note, whether the two grew while the review ran, were restored, or
\* came back from a review that the shutdown interrupted.
THEOREM ResumedWorkFits == Spec => []ResumeFits
<1>1. IInv /\ CapInv => ResumeFits
  <2> SUFFICES ASSUME IInv, CapInv, NEW m \in MR, job[m].status = "running",
                      job[m].cleanup = None
               PROVE  Cardinality(Notes(Resume(job[m]))) <= MaxAckNotes
    BY DEF ResumeFits
  <2>1. job[m] \in Job /\ job[m].latest # None
    BY DEF IInv, TypeOK, StoreOK, JobShape
  <2>2. Fits(MergedNotes(job[m]))
    BY DEF CapInv, JobFits
  <2> QED
    BY <2>1, <2>2, ResumeNotes DEF Fits
<1> QED
  BY <1>1, InvariantCap, InductiveInvariant, PTL

-----------------------------------------------------------------------------
(* Reactions: what was never reviewed shows no outcome.                    *)

\* Whatever names a target as reviewed, or about to be: the job, the worker's copy of
\* its event, the cleanup work on its way, and the entry that is not restored yet.
JobClaims(j) ==
    MaybeTargets(j.latest) \cup (IF j.cleanup = None THEN {} ELSE j.cleanup.event.targets)
JobRevokes(j) == IF j.cleanup = None THEN {} ELSE MaybeTargets(j.cleanup.aborted)
Unread(m) == IF Known(m) THEN None ELSE disk[m]
EntryClaims(e) == IF e = None THEN {} ELSE e.event.targets
EntryAwaits(e) == IF e = None THEN {} ELSE MaybeTargets(e.pending)
EntryRevokes(e) == IF e = None THEN {} ELSE MaybeTargets(e.aborted)

InReview(m) ==
    {t \in Target : \E w \in Worker : Busy(w) /\ worker[w].mr = m /\ t \in worker[w].event.targets}
OnTheWay(m) ==
    {t \in Target : \/ \E k \in InQueue(m) : t \in k.event.targets
                    \/ \E c \in InHand(m) : t \in cleaner[c].work.event.targets}
RevokedOnTheWay(m) ==
    {t \in Target : \/ \E k \in InQueue(m) : t \in MaybeTargets(k.aborted)
                    \/ \E c \in InHand(m) : t \in MaybeTargets(cleaner[c].work.aborted)}

\* The three sorts of targets of a request: those an outcome may be shown on, those of
\* the review that waits, and those of reviews aborted before they ran.
Claimed(m) == JobClaims(job[m]) \cup InReview(m) \cup OnTheWay(m) \cup EntryClaims(Unread(m))
Awaiting(m) == MaybeTargets(job[m].pending) \cup EntryAwaits(Unread(m))
Revoked(m) == JobRevokes(job[m]) \cup RevokedOnTheWay(m) \cup EntryRevokes(Unread(m))

Apart(m) ==
    /\ Claimed(m) \cap Awaiting(m) = {}
    /\ Claimed(m) \cap Revoked(m) = {}
    /\ Awaiting(m) \cap Revoked(m) = {}

\* A command note of the request whose webhook request is over.
Own(m, t) == t \in Note /\ NoteMR[t] = m /\ handler[t] = "done"
Undecorated(t) == mark[t] \in {"none", "busy"}
Homed(m) ==
    /\ \A t \in Claimed(m) : t = m \/ Own(m, t)
    /\ \A t \in Awaiting(m) \cup Revoked(m) : Own(m, t) /\ Undecorated(t)

\* A note nobody was asked to review yet shows no outcome, and a best-effort release
\* leaves none.
Undecided == \A n \in Note : handler[n] # "done" => Undecorated(n)
Release(k) == ~k.durable => k.outcome = "aborted"
Releases ==
    /\ \A k \in cleanupQueue : Release(k)
    /\ \A c \in Cleaner : cleaner[c].step # "idle" => Release(cleaner[c].work)

SortInv == (\A m \in MR : Apart(m) /\ Homed(m)) /\ Undecided /\ Releases

-----------------------------------------------------------------------------
(* How a step moves targets between the sorts.                             *)

\* The note whose webhook request this step ends.
Arrived(m) == {n \in Note : NoteMR[n] = m /\ handler[n] # "done" /\ handler'[n] = "done"}

Stays(m) ==
    Claimed(m)' \subseteq Claimed(m) \cup {m}
    /\ Awaiting(m)' \subseteq Awaiting(m) /\ Revoked(m)' \subseteq Revoked(m)
Joins(m) ==
    Claimed(m)' \subseteq Claimed(m) \cup Arrived(m) \cup {m}
    /\ Awaiting(m)' \subseteq Awaiting(m) /\ Revoked(m)' \subseteq Revoked(m)
Parks(m) ==
    Claimed(m)' \subseteq Claimed(m) \cup {m}
    /\ Awaiting(m)' \subseteq Awaiting(m) \cup Arrived(m) /\ Revoked(m)' \subseteq Revoked(m)
TakesTurn(m) ==
    Claimed(m)' \subseteq Claimed(m) \cup Awaiting(m) \cup {m}
    /\ Awaiting(m)' = {} /\ Revoked(m)' \subseteq Revoked(m)
Aborts(m) ==
    Claimed(m)' \subseteq Claimed(m) \cup {m}
    /\ Awaiting(m)' = {} /\ Revoked(m)' \subseteq Revoked(m) \cup Awaiting(m)
Moves(m) == Stays(m) \/ Joins(m) \/ Parks(m) \/ TakesTurn(m) \/ Aborts(m)

\* An outcome is only shown on what was reviewed.
ShownOnClaimed ==
    \A t \in Target : Undecorated(t) /\ ~Undecorated(t)' => \E m \in MR : t \in Claimed(m)
NoneForgotten == \A n \in Note : handler[n] = "done" => handler'[n] = "done"

LEMMA SortStep ==
    ASSUME SortInv, ShownOnClaimed, NoneForgotten, Releases', \A m \in MR : Moves(m)
    PROVE  SortInv'
<1>1. ASSUME NEW n \in Note, handler'[n] # "done"
      PROVE  Undecorated(n)'
  <2>1. handler[n] # "done" /\ Undecorated(n)
    BY <1>1 DEF NoneForgotten, SortInv, Undecided
  <2>2. \A m \in MR : n \notin Claimed(m)
    BY <2>1, NilFacts DEF SortInv, Homed, Own
  <2> QED
    BY <2>1, <2>2 DEF ShownOnClaimed, Target
<1>2. ASSUME NEW m \in MR
      PROVE  Apart(m)' /\ Homed(m)'
  <2>1. Apart(m) /\ Homed(m) /\ Moves(m)
    BY DEF SortInv
  <2>2. \A t \in Awaiting(m) \cup Revoked(m) : t \in Note /\ t # m /\ t \notin Arrived(m)
    BY <2>1, NilFacts DEF Homed, Own, Arrived
  <2>3. \A t \in Claimed(m) : t \notin Arrived(m)
    BY <2>1, NilFacts DEF Homed, Own, Arrived
  <2>4. m \notin Arrived(m)
    BY NilFacts DEF Arrived
  <2>5. Apart(m)'
    BY <2>1, <2>2, <2>3, <2>4
    DEF Apart, Moves, Stays, Joins, Parks, TakesTurn, Aborts
  <2>6. ASSUME NEW t \in Claimed(m)'
        PROVE  t = m \/ Own(m, t)'
    <3>1. t \in Claimed(m) \cup Awaiting(m) \cup {m} \cup Arrived(m)
      BY <2>1, <2>6 DEF Moves, Stays, Joins, Parks, TakesTurn, Aborts
    <3> QED
      BY <2>1, <3>1 DEF Homed, Own, Arrived, NoneForgotten
  <2>7. ASSUME NEW t \in Awaiting(m)' \cup Revoked(m)'
        PROVE  Own(m, t)' /\ Undecorated(t)'
    <3>1. t \in Awaiting(m) \cup Revoked(m) \cup Arrived(m)
      BY <2>1, <2>7 DEF Moves, Stays, Joins, Parks, TakesTurn, Aborts
    <3>2. t \in Note /\ NoteMR[t] = m /\ handler'[t] = "done"
      BY <2>1, <3>1 DEF Homed, Own, Arrived, NoneForgotten
    <3>3. Undecorated(t)
      BY <2>1, <3>1 DEF Homed, Arrived, SortInv, Undecided
    <3>4. ASSUME NEW n \in MR PROVE t \notin Claimed(n)
      <4>1. t \in Claimed(n) => t = n \/ Own(n, t)
        BY DEF SortInv, Homed
      <4>2. t # n
        BY <3>2, NilFacts
      <4>3. t \notin Claimed(m)
        BY <2>1, <2>3, <3>1 DEF Apart
      <4> QED
        BY <3>2, <4>1, <4>2, <4>3 DEF Own
    <3>5. t \in Target
      BY <3>2 DEF Target
    <3> QED
      BY <3>2, <3>3, <3>4, <3>5 DEF ShownOnClaimed, Own
  <2> QED
    BY <2>5, <2>6, <2>7 DEF Homed
<1> QED
  BY <1>1, <1>2 DEF SortInv, Undecided
-----------------------------------------------------------------------------
(* Moves of one request, from what happens to its job and its carriers.    *)

\* Cleanup work never names more than what it was made from.
Within(k, l) ==
    /\ k.durable = l.durable /\ k.mr = l.mr /\ k.outcome = l.outcome
    /\ k.event.targets \subseteq l.event.targets
    /\ MaybeTargets(k.aborted) \subseteq MaybeTargets(l.aborted)
\* Work made from the cleanup that a job has after the step.
MadeFrom(k, j) ==
    /\ k.event.targets \subseteq JobClaims(j)
    /\ MaybeTargets(k.aborted) \subseteq JobRevokes(j)
Conveyed ==
    /\ \A k \in cleanupQueue' : k \in cleanupQueue \/ (IF k.durable THEN MadeFrom(k, job'[k.mr])
                                                       ELSE k.outcome = "aborted")
    /\ \A c \in Cleaner : cleaner'[c].step # "idle" =>
          \/ cleaner'[c].work \in cleanupQueue
          \/ cleaner[c].step # "idle" /\ Within(cleaner'[c].work, cleaner[c].work)

LEMMA ConveyedReleases ==
    ASSUME SortInv, Conveyed, cleanupQueue' \subseteq Work
    PROVE  Releases'
BY DEF SortInv, Conveyed, Releases, Release, Within

LEMMA ConveyedTargets ==
    ASSUME Conveyed, NEW m \in MR
    PROVE  /\ OnTheWay(m)' \subseteq OnTheWay(m) \cup JobClaims(job'[m])
           /\ RevokedOnTheWay(m)' \subseteq RevokedOnTheWay(m) \cup JobRevokes(job'[m])
<1>1. ASSUME NEW k \in InQueue(m)'
      PROVE  k \in InQueue(m) \/ MadeFrom(k, job'[m])
  BY DEF InQueue, Conveyed
<1>2. ASSUME NEW c \in InHand(m)'
      PROVE  \/ cleaner'[c].work \in InQueue(m)
             \/ c \in InHand(m) /\ Within(cleaner'[c].work, cleaner[c].work)
  BY DEF InHand, InQueue, Conveyed, Within
<1>3. OnTheWay(m)' \subseteq OnTheWay(m) \cup JobClaims(job'[m])
  <2> SUFFICES ASSUME NEW t \in OnTheWay(m)' PROVE t \in OnTheWay(m) \cup JobClaims(job'[m])
    OBVIOUS
  <2>1. CASE \E k \in InQueue(m)' : t \in k.event.targets
    BY <1>1, <2>1 DEF OnTheWay, MadeFrom
  <2>2. CASE \E c \in InHand(m)' : t \in cleaner'[c].work.event.targets
    BY <1>2, <2>2 DEF OnTheWay, Within
  <2> QED
    BY <2>1, <2>2 DEF OnTheWay
<1>4. RevokedOnTheWay(m)' \subseteq RevokedOnTheWay(m) \cup JobRevokes(job'[m])
  <2> SUFFICES ASSUME NEW t \in RevokedOnTheWay(m)'
               PROVE  t \in RevokedOnTheWay(m) \cup JobRevokes(job'[m])
    OBVIOUS
  <2>1. CASE \E k \in InQueue(m)' : t \in MaybeTargets(k.aborted)
    BY <1>1, <2>1 DEF RevokedOnTheWay, MadeFrom
  <2>2. CASE \E c \in InHand(m)' : t \in MaybeTargets(cleaner'[c].work.aborted)
    BY <1>2, <2>2 DEF RevokedOnTheWay, Within
  <2> QED
    BY <2>1, <2>2 DEF RevokedOnTheWay
<1> QED
  BY <1>3, <1>4

\* A review's copy of its event comes from its job, or gains the request itself.
Reviewed ==
    \A w \in Worker : Busy(w)' =>
       \/ /\ Busy(w) /\ worker'[w].mr = worker[w].mr
          /\ worker'[w].event.targets \subseteq worker[w].event.targets \cup {worker[w].mr}
       \/ worker'[w].event.targets \subseteq JobClaims(job[worker'[w].mr])

LEMMA ReviewedTargets ==
    ASSUME Reviewed, NEW m \in MR
    PROVE  InReview(m)' \subseteq InReview(m) \cup JobClaims(job[m]) \cup {m}
<1> SUFFICES ASSUME NEW t \in InReview(m)' PROVE t \in InReview(m) \cup JobClaims(job[m]) \cup {m}
  OBVIOUS
<1>1. PICK w \in Worker : Busy(w)' /\ worker'[w].mr = m /\ t \in worker'[w].event.targets /\ t \in Target
  BY DEF InReview
<1> QED
  BY <1>1 DEF Reviewed, InReview

\* A request whose job and unread entry stay as they are keeps its targets.
LEMMA OneStays ==
    ASSUME Conveyed, Reviewed, NEW m \in MR, job'[m] = job[m], Unread(m)' = Unread(m)
    PROVE  Stays(m)
<1>1. /\ OnTheWay(m)' \subseteq OnTheWay(m) \cup JobClaims(job[m])
      /\ RevokedOnTheWay(m)' \subseteq RevokedOnTheWay(m) \cup JobRevokes(job[m])
  BY ConveyedTargets
<1>2. InReview(m)' \subseteq InReview(m) \cup JobClaims(job[m]) \cup {m}
  BY ReviewedTargets
<1> QED
  BY <1>1, <1>2 DEF Stays, Claimed, Awaiting, Revoked

\* What becomes of a job decides how the targets of its request move.
JobStays(m) ==
    /\ JobClaims(job'[m]) \subseteq Claimed(m) \cup {m}
    /\ MaybeTargets(job'[m].pending) \subseteq Awaiting(m)
    /\ JobRevokes(job'[m]) \subseteq Revoked(m)
JobJoins(m) ==
    /\ JobClaims(job'[m]) \subseteq Claimed(m) \cup Arrived(m)
    /\ MaybeTargets(job'[m].pending) \subseteq Awaiting(m)
    /\ JobRevokes(job'[m]) \subseteq Revoked(m)
JobParks(m) ==
    /\ JobClaims(job'[m]) \subseteq Claimed(m)
    /\ MaybeTargets(job'[m].pending) \subseteq Awaiting(m) \cup Arrived(m)
    /\ JobRevokes(job'[m]) \subseteq Revoked(m)
JobTakesTurn(m) ==
    /\ JobClaims(job'[m]) \subseteq Claimed(m) \cup Awaiting(m) \cup {m}
    /\ job'[m].pending = None
    /\ JobRevokes(job'[m]) \subseteq Revoked(m)
JobAborts(m) ==
    /\ JobClaims(job'[m]) \subseteq Claimed(m)
    /\ job'[m].pending = None
    /\ JobRevokes(job'[m]) \subseteq Revoked(m) \cup Awaiting(m)
JobMoves(m) ==
    JobStays(m) \/ JobJoins(m) \/ JobParks(m) \/ JobTakesTurn(m) \/ JobAborts(m)

LEMMA OneMoves ==
    ASSUME Conveyed, Reviewed, NEW m \in MR, Unread(m)' = None, JobMoves(m)
    PROVE  Moves(m)
<1>1. /\ OnTheWay(m)' \subseteq OnTheWay(m) \cup JobClaims(job'[m])
      /\ RevokedOnTheWay(m)' \subseteq RevokedOnTheWay(m) \cup JobRevokes(job'[m])
  BY ConveyedTargets
<1>2. InReview(m)' \subseteq InReview(m) \cup JobClaims(job[m]) \cup {m}
  BY ReviewedTargets
<1>3. /\ Claimed(m)' \subseteq Claimed(m) \cup JobClaims(job'[m]) \cup {m}
      /\ Awaiting(m)' = MaybeTargets(job'[m].pending)
      /\ Revoked(m)' \subseteq Revoked(m) \cup JobRevokes(job'[m])
  BY <1>1, <1>2 DEF Claimed, Awaiting, Revoked, EntryClaims, EntryAwaits, EntryRevokes
<1>4. CASE JobStays(m)
  BY <1>3, <1>4 DEF Moves, Stays, JobStays
<1>5. CASE JobJoins(m)
  BY <1>3, <1>5 DEF Moves, Joins, JobJoins
<1>6. CASE JobParks(m)
  BY <1>3, <1>6 DEF Moves, Parks, JobParks
<1>7. CASE JobTakesTurn(m)
  BY <1>3, <1>7 DEF Moves, TakesTurn, JobTakesTurn, MaybeTargets
<1>8. CASE JobAborts(m)
  BY <1>3, <1>8 DEF Moves, Aborts, JobAborts, MaybeTargets
<1> QED
  BY <1>4, <1>5, <1>6, <1>7, <1>8 DEF JobMoves

\* A step that touches the job of one restored request.
LEMMA JobStepMoves ==
    ASSUME Conveyed, Reviewed, NEW m \in MR, Known(m), UNCHANGED life,
           \A n \in MR \ {m} : job'[n] = job[n] /\ disk'[n] = disk[n],
           JobMoves(m)
    PROVE  \A n \in MR : Moves(n)
<1>1. \A n \in MR : Known(n)' <=> Known(n)
  BY DEF Known, alive, life
<1>2. Moves(m)
  <2>1. Unread(m)' = None
    BY <1>1 DEF Unread
  <2> QED
    BY <2>1, OneMoves
<1>3. ASSUME NEW n \in MR \ {m} PROVE Moves(n)
  <2>1. Unread(n)' = Unread(n)
    BY <1>1 DEF Unread
  <2> QED
    BY <2>1, OneStays DEF Moves
<1> QED
  BY <1>2, <1>3

\* A step that leaves jobs, journal and life alone.
LEMMA AllStay ==
    ASSUME Conveyed, Reviewed, UNCHANGED <<job, disk, life>>
    PROVE  \A m \in MR : Moves(m)
<1>1. ASSUME NEW m \in MR PROVE Stays(m)
  <2>1. Unread(m)' = Unread(m) /\ job'[m] = job[m]
    BY DEF Unread, Known, alive, life
  <2> QED
    BY <2>1, OneStays
<1> QED
  BY <1>1 DEF Moves
-----------------------------------------------------------------------------
(* Webhook intake and abort.                                               *)

\* Merging and parking name nothing new.
LEMMA MergedWithin ==
    ASSUME NEW have \in Event, NEW new \in Event, NEW e \in Merges(have, new)
    PROVE  e.targets \subseteq have.targets \cup new.targets
<1>1. PICK notes \in KeptNotes(Notes(have), Notes(new)) : e = MergeKeeping(have, new, notes)
  BY DEF Merges
<1>2. notes \subseteq Notes(have) \cup Notes(new)
  BY KeptNotesBetween
<1> QED
  BY <1>1, <1>2 DEF MergeKeeping, Notes

LEMMA ParkedWithin ==
    ASSUME NEW pending \in MaybeEvent, NEW e \in Event, NEW p \in Parked(pending, e)
    PROVE  p \in Event /\ p.targets \subseteq MaybeTargets(pending) \cup e.targets
BY MergedWithin, ParkedType DEF Parked, MaybeEvent, MaybeTargets

\* Releases join the queue, and nothing else does.
LEMMA ReleasesConvey ==
    ASSUME NEW m, NEW notes, NEW e, QueueReleases(m, notes, e)
    PROVE  \A k \in cleanupQueue' : k \in cleanupQueue \/ (~k.durable /\ k.outcome = "aborted")
<1>1. CASE phase = "settling"
  BY <1>1 DEF QueueReleases
<1>2. CASE phase # "settling"
  <2>1. PICK fit \in SUBSET notes :
          cleanupQueue' = cleanupQueue \cup {ReleaseWork(m, n, e) : n \in fit}
    BY <1>2 DEF QueueReleases
  <2>2. \A n : ~ReleaseWork(m, n, e).durable /\ ReleaseWork(m, n, e).outcome = "aborted"
    BY DEF ReleaseWork
  <2> QED
    BY <2>1, <2>2
<1> QED
  BY <1>1, <1>2

\* Scheduling a cleanup makes work from the cleanup of the job, and no other.
LEMMA EnlistConveys ==
    ASSUME NEW m \in MR, NEW j, Enlist(m, j), j.cleanup # None, job'[m].cleanup = j.cleanup
    PROVE  \A k \in cleanupQueue' : k \in cleanupQueue \/ (k.durable /\ MadeFrom(k, job'[k.mr]))
<1>1. /\ DurableWork(m, j).durable /\ DurableWork(m, j).mr = m
      /\ DurableWork(m, j).event = j.cleanup.event /\ DurableWork(m, j).aborted = j.cleanup.aborted
  BY DEF DurableWork
<1>2. MadeFrom(DurableWork(m, j), job'[m])
  BY <1>1 DEF MadeFrom, JobClaims, JobRevokes
<1> QED
  BY <1>1, <1>2 DEF Enlist

LEMMA ScheduleConveys ==
    ASSUME NEW m \in MR, NEW j, QueueDurable(m, j), j.cleanup # None, job'[m].cleanup = j.cleanup
    PROVE  \A k \in cleanupQueue' : k \in cleanupQueue \/ (k.durable /\ MadeFrom(k, job'[k.mr]))
BY EnlistConveys DEF QueueDurable, sweep

\* Cleaners that stay as they are, or put their work down.
LEMMA ConveyedBy ==
    ASSUME \A k \in cleanupQueue' :
               k \in cleanupQueue \/ (IF k.durable THEN MadeFrom(k, job'[k.mr])
                                      ELSE k.outcome = "aborted"),
           \A c \in Cleaner : cleaner'[c].step # "idle" =>
               cleaner[c].step # "idle" /\ cleaner'[c].work = cleaner[c].work
    PROVE  Conveyed
BY DEF Conveyed, Within

LEMMA SameReviews == ASSUME UNCHANGED worker PROVE Reviewed
BY DEF Reviewed, Busy

\* An event that arrives joins what is claimed or what waits.
LEMMA EnqueueMoves ==
    ASSUME IInv, NEW m \in MR, NEW e \in Event, e.targets \subseteq Arrived(m), Enqueue(m, e),
           Known(m), UNCHANGED <<worker, cleaner, life>>
    PROVE  (\A n \in MR : Moves(n)) /\ Conveyed
<1>1. JobStep(m)
  BY EnqueueStep DEF Accepted
<1>2. job[m] \in Job /\ JobShape(job[m]) /\ StoreOK
  BY DEF IInv, TypeOK, StoreOK
<1>3. Conveyed
  <2>1. \A k \in cleanupQueue' : k \in cleanupQueue \/ (~k.durable /\ k.outcome = "aborted")
    BY ReleasesConvey DEF Enqueue, Admit, ParkBehindCleanup, ParkBehindReview, Coalesce
  <2> QED
    BY <2>1, ConveyedBy
<1>4. CASE Admit(m, e)
  <2>1. Created(m, e)
    BY <1>4, EnqueueStep DEF Admit, Accepted, ParkedBehind, Joined
  <2>2. JobJoins(m)
    BY <2>1 DEF Created, JobJoins, JobClaims, JobRevokes, MaybeTargets
  <2> QED
    BY <1>1, <1>3, <2>2, SameReviews, JobStepMoves DEF JobMoves, JobStep
<1>5. ASSUME NEW p, Save(m, [job[m] EXCEPT !.pending = p]), p \in Event,
             p.targets \subseteq MaybeTargets(job[m].pending) \cup e.targets
      PROVE  \A n \in MR : Moves(n)
  <2>1. /\ job'[m].pending = p /\ job'[m].latest = job[m].latest
        /\ job'[m].cleanup = job[m].cleanup
    BY <1>2, <1>5, SavedPending
  <2>2. JobParks(m)
    BY <1>5, <2>1, NilFacts
    DEF JobParks, JobClaims, JobRevokes, Claimed, Awaiting, Revoked, MaybeTargets
  <2> QED
    BY <1>1, <1>3, <2>2, SameReviews, JobStepMoves DEF JobMoves, JobStep
<1>6. CASE ParkBehindCleanup(m, e)
  <2>1. PICK p \in Parked(job[m].pending, e) : Save(m, [job[m] EXCEPT !.pending = p])
    BY <1>6 DEF ParkBehindCleanup
  <2>2. p \in Event /\ p.targets \subseteq MaybeTargets(job[m].pending) \cup e.targets
    BY <1>2, ParkedWithin DEF Job
  <2> QED
    BY <1>3, <1>5, <2>1, <2>2
<1>7. CASE ParkBehindReview(m, e)
  <2>1. PICK p \in Parked(job[m].pending, e) :
          \E kept \in KeptNotes(JobTargets(job[m]) \cap Note, Notes(p)) :
             Save(m, [job[m] EXCEPT !.pending = Fitting(p, kept)])
    BY <1>7 DEF ParkBehindReview
  <2>2. PICK kept \in KeptNotes(JobTargets(job[m]) \cap Note, Notes(p)) :
          Save(m, [job[m] EXCEPT !.pending = Fitting(p, kept)])
    BY <2>1
  <2>3. p \in Event /\ p.targets \subseteq MaybeTargets(job[m].pending) \cup e.targets
    BY <1>2, ParkedWithin DEF Job
  <2>4. (kept \cup MR) \cap p.targets \in SUBSET Target
    BY <2>3 DEF Event
  <2>5. Fitting(p, kept) \in Event /\ Fitting(p, kept).targets \subseteq p.targets
    BY <2>3, <2>4, ReducedType DEF Fitting
  <2> QED
    BY <1>3, <1>5, <2>2, <2>3, <2>5
<1>8. CASE Coalesce(m, e)
  <2>1. PICK l \in Merges(job[m].latest, e) : Save(m, [job[m] EXCEPT !.latest = l])
    BY <1>8 DEF Coalesce
  <2>2. job[m].latest \in Event
    BY <1>2, <1>8 DEF Coalesce, Job, JobShape, MaybeEvent
  <2>3. l \in Event /\ l.targets \subseteq job[m].latest.targets \cup e.targets
    BY <2>1, <2>2, MergesType, MergedWithin
  <2>4. /\ job'[m].latest = l /\ job'[m].pending = job[m].pending
        /\ job'[m].cleanup = job[m].cleanup
    BY <1>2, <2>1, SavedLatest
  <2>5. JobJoins(m)
    BY <2>2, <2>3, <2>4, NilFacts
    DEF JobJoins, JobClaims, JobRevokes, Claimed, Awaiting, Revoked, MaybeTargets
  <2> QED
    BY <1>1, <1>3, <2>5, SameReviews, JobStepMoves DEF JobMoves, JobStep
<1> QED
  BY <1>3, <1>4, <1>6, <1>7, <1>8 DEF Enqueue

\* Steps that change no reaction show nothing.
LEMMA SameMarks == ASSUME UNCHANGED mark PROVE ShownOnClaimed
BY DEF ShownOnClaimed, Undecorated
LEMMA SameHandlers == ASSUME UNCHANGED handler PROVE NoneForgotten
BY DEF NoneForgotten

LEMMA IntakeSorts ==
    ASSUME IInv, IInv', SortInv, NEW m \in MR, EnqueueEvent(m)
    PROVE  SortInv'
<1>1. \A k \in Trigger : /\ [kind |-> k, targets |-> {}, unsure |-> {}] \in Event
                         /\ [kind |-> k, targets |-> {}, unsure |-> {}].targets = {}
  BY DEF Event
<1>2. PICK e \in Event : Enqueue(m, e) /\ e.targets = {}
  BY <1>1 DEF EnqueueEvent, Trigger
<1>3. Known(m) /\ UNCHANGED <<worker, cleaner, life, mark, handler>>
  BY ServingFacts DEF EnqueueEvent, Known, remote
<1>4. (\A n \in MR : Moves(n)) /\ Conveyed
  BY <1>2, <1>3, EnqueueMoves
<1>5. Releases'
  BY <1>4, ConveyedReleases DEF IInv, TypeOK, SweepOK
<1> QED
  BY <1>3, <1>4, <1>5, SameMarks, SameHandlers, SortStep

LEMMA HandlerSorts ==
    ASSUME IInv, IInv', SortInv, NEW n \in Note, AwardAck(n) \/ HandleReview(n)
    PROVE  SortInv'
<1>1. cleanupQueue' \subseteq Work
  BY DEF IInv, TypeOK, SweepOK
<1>2. NoneForgotten /\ ShownOnClaimed
  BY DEF NoneForgotten, ShownOnClaimed, Undecorated, AwardAck, HandleReview, TimesOut, remote,
     IInv, TypeOK, RemoteOK, RequestsOK
<1>3. UNCHANGED <<worker, cleaner, life>>
  BY DEF AwardAck, HandleReview
<1>4. CASE HandleReview(n) /\ Enqueue(NoteMR[n], CommandEvent(n))
  <2>1. /\ NoteMR[n] \in MR /\ CommandEvent(n) \in Event /\ CommandEvent(n).targets = {n}
    BY SizeAssumption DEF CommandEvent, Event, Trigger, Target
  <2>2. Known(NoteMR[n])
    BY <1>4, ServingFacts DEF HandleReview, Known, IInv, Rest, Asleep
  <2>3. n \in Arrived(NoteMR[n])
    BY <1>4 DEF HandleReview, Arrived, IInv, TypeOK, RequestsOK
  <2>4. (\A m \in MR : Moves(m)) /\ Conveyed
    BY <1>3, <1>4, <2>1, <2>2, <2>3, EnqueueMoves
  <2> QED
    BY <1>1, <1>2, <2>4, ConveyedReleases, SortStep
<1>5. CASE UNCHANGED <<store, worker, cleaner, life>> /\ ~Enqueue(NoteMR[n], CommandEvent(n))
  <2>1. \A k \in cleanupQueue' : k \in cleanupQueue \/ (~k.durable /\ k.outcome = "aborted")
    BY <1>5, ReleasesConvey DEF AwardAck, HandleReview, sweep
  <2>2. Conveyed
    BY <1>5, <2>1, ConveyedBy
  <2>3. \A m \in MR : Moves(m)
    BY <1>5, <2>2, SameReviews, AllStay DEF store
  <2> QED
    BY <1>1, <1>2, <2>2, <2>3, ConveyedReleases, SortStep
<1>6. CASE AwardAck(n)
  <2>1. Conveyed
    BY <1>6, ConveyedBy DEF AwardAck, sweep
  <2>2. \A m \in MR : Moves(m)
    BY <1>6, <2>1, SameReviews, AllStay DEF AwardAck, store
  <2> QED
    BY <1>1, <1>2, <2>1, <2>2, ConveyedReleases, SortStep
<1> QED
  BY <1>3, <1>4, <1>5, <1>6 DEF HandleReview

\* A write leaves the job's events as they are given.
LEMMA SavedJob ==
    ASSUME StoreOK, NEW m \in MR, NEW j \in Job, Save(m, j)
    PROVE  /\ job'[m].latest = j.latest /\ job'[m].pending = j.pending
           /\ job'[m].cleanup = j.cleanup
           /\ \A n \in MR \ {m} : job'[n] = job[n] /\ disk'[n] = disk[n]
<1>1. PICK ok \in BOOLEAN :
        /\ job' = [job EXCEPT ![m] = [j EXCEPT !.persisted = ok]]
        /\ disk' = [disk EXCEPT ![m] = IF ok THEN EntryOf(j) ELSE None]
  BY DEF Save
<1>2. job'[m] = [j EXCEPT !.persisted = ok]
  BY <1>1 DEF StoreOK
<1> QED
  BY <1>1, <1>2 DEF Job, StoreOK

\* What an abort of the job itself leaves: one event, to be settled as aborted.
LEMMA AbortedJob ==
    ASSUME NEW j \in Job, j.latest # None,
           NEW e \in IF j.pending = None THEN {j.latest} ELSE Merges(j.latest, j.pending)
    PROVE  LET a == Aborting(j, e)
           IN  /\ a \in Job /\ a.latest = e /\ a.pending = None
               /\ a.cleanup = CleanupOf(e, "aborted") /\ a.cleanup # None
               /\ e.targets \subseteq MaybeTargets(j.latest) \cup MaybeTargets(j.pending)
<1>1. j.latest \in Event /\ j.pending \in MaybeEvent
  BY DEF Job, MaybeEvent
<1>2. e \in Event
  BY AbortedEventType
<1>3. e.targets \subseteq MaybeTargets(j.latest) \cup MaybeTargets(j.pending)
  BY <1>1, MergedWithin DEF MaybeTargets, MaybeEvent
<1> DEFINE a == [j EXCEPT !.latest = e, !.pending = None]
           next == j.version + 1
           b == [a EXCEPT !.cleanup = CleanupOf(e, "aborted"), !.version = next]
<1>4. a \in Job
  BY <1>2 DEF Job, MaybeEvent
<1>5. Aborting(j, e) = b
  BY DEF Aborting
<1> HIDE DEF a, next
<1>6. b.cleanup = CleanupOf(e, "aborted")
  BY <1>4 DEF Job
<1> QED
  BY <1>2, <1>3, <1>5, <1>6, AbortingType

LEMMA AbortSorts ==
    ASSUME IInv, IInv', SortInv, NEW m \in MR, Abort(m)
    PROVE  SortInv'
<1>1. Known(m) /\ UNCHANGED <<worker, cleaner, life, mark, handler>>
  BY ServingFacts DEF Abort, Known, remote
<1>2. job[m] \in Job /\ JobShape(job[m]) /\ StoreOK
  BY DEF IInv, TypeOK, StoreOK
<1>3. ASSUME JobMoves(m), Conveyed, \A n \in MR \ {m} : job'[n] = job[n] /\ disk'[n] = disk[n]
      PROVE  SortInv'
  <2>1. \A n \in MR : Moves(n)
    BY <1>1, <1>3, SameReviews, JobStepMoves
  <2>2. Releases'
    BY <1>3, ConveyedReleases DEF IInv, TypeOK, SweepOK
  <2> QED
    BY <1>1, <2>1, <2>2, SameMarks, SameHandlers, SortStep
<1>4. ASSUME NEW e \in IF job[m].pending = None THEN {job[m].latest}
                       ELSE Merges(job[m].latest, job[m].pending),
             job[m].latest # None, job'[m].latest = e, job'[m].pending = None,
             job'[m].cleanup = CleanupOf(e, "aborted")
      PROVE  JobTakesTurn(m)
  <2>1. e.targets \subseteq MaybeTargets(job[m].latest) \cup MaybeTargets(job[m].pending)
    BY <1>2, <1>4, AbortedJob
  <2>2. e \in Event
    BY <1>2, <1>4, AbortedEventType
  <2>3. JobClaims(job'[m]) = e.targets /\ JobRevokes(job'[m]) = {}
    BY <1>4, <2>2, NilFacts DEF JobClaims, JobRevokes, CleanupOf, MaybeTargets
  <2> QED
    BY <1>4, <2>1, <2>3 DEF JobTakesTurn, Claimed, Awaiting, JobClaims
<1>5. CASE AbortPending(m)
  <2>1. PICK a \in Parked(job[m].cleanup.aborted, job[m].pending) :
          /\ Save(m, [job[m] EXCEPT !.cleanup.aborted = Reduced(a, Notes(a)), !.pending = None,
                                    !.version = @ + 1])
          /\ QueueReleases(m, (MaybeTargets(job[m].cleanup.aborted)
                               \cup Notes(job[m].pending)) \ a.targets, job[m].pending)
    BY <1>5 DEF AbortPending
  <2>2. /\ job[m].pending \in Event /\ job[m].cleanup \in Cleanup
        /\ job[m].cleanup.aborted \in MaybeEvent /\ job[m].cleanup # None
    BY <1>2, <1>5, NilFacts DEF AbortPending, Job, JobShape, MaybeEvent, Cleanup
  <2> DEFINE r == Reduced(a, Notes(a))
             c == [job[m].cleanup EXCEPT !.aborted = r]
             next == job[m].version + 1
             i == [job[m] EXCEPT !.cleanup = c]
             j == [i EXCEPT !.pending = None, !.version = next]
  <2>3. a \in Event
        /\ a.targets \subseteq MaybeTargets(job[m].cleanup.aborted) \cup job[m].pending.targets
    BY <2>2, ParkedWithin
  <2>4. r \in Event /\ r.targets \subseteq a.targets
    BY <2>3, ReducedType DEF Notes, Event
  <2>5. Save(m, j)
    BY <1>2, <2>1 DEF Job
  <2>6. next \in Nat
    BY <1>2 DEF Job
  <2> HIDE DEF r, next
  <2>7. c \in Cleanup /\ c.event = job[m].cleanup.event /\ c.aborted = r
    BY <2>2, <2>4 DEF Cleanup, MaybeEvent
  <2> HIDE DEF c
  <2>8. i \in Job /\ i.latest = job[m].latest /\ i.cleanup = c
    BY <1>2, <2>7 DEF Job
  <2> HIDE DEF i
  <2>9. j \in Job /\ j.latest = job[m].latest /\ j.pending = None /\ j.cleanup = c
    BY <2>6, <2>8 DEF Job, MaybeEvent
  <2> HIDE DEF j
  <2>10. /\ job'[m].latest = job[m].latest /\ job'[m].pending = None /\ job'[m].cleanup = c
         /\ \A n \in MR \ {m} : job'[n] = job[n] /\ disk'[n] = disk[n]
    BY <1>2, <2>5, <2>9, SavedJob
  <2>11. JobAborts(m)
    <3>1. JobClaims(job'[m]) = JobClaims(job[m])
      BY <2>2, <2>7, <2>10, NilFacts DEF JobClaims
    <3>2. JobRevokes(job'[m]) = r.targets
      BY <2>4, <2>7, <2>10, NilFacts DEF JobRevokes, MaybeTargets
    <3>3. r.targets \subseteq JobRevokes(job[m]) \cup MaybeTargets(job[m].pending)
      BY <2>2, <2>3, <2>4, NilFacts DEF JobRevokes, MaybeTargets
    <3> QED
      BY <2>10, <3>1, <3>2, <3>3 DEF JobAborts, Claimed, Awaiting, Revoked
  <2>12. Conveyed
    <3>1. \A k \in cleanupQueue' : k \in cleanupQueue \/ (~k.durable /\ k.outcome = "aborted")
      BY <2>1, ReleasesConvey
    <3> QED
      BY <1>1, <3>1, ConveyedBy
  <2> QED
    BY <1>3, <2>10, <2>11, <2>12 DEF JobMoves
<1>6. CASE AbortRunning(m)
  <2>1. PICK e \in IF job[m].pending = None THEN {job[m].latest}
                   ELSE Merges(job[m].latest, job[m].pending) :
          Save(m, [Aborting(job[m], e) EXCEPT !.cancelled = TRUE])
    BY <1>6 DEF AbortRunning
  <2>2. job[m].latest # None
    BY <1>2, <1>6 DEF AbortRunning, JobShape
  <2> DEFINE a == Aborting(job[m], e)
             j == [a EXCEPT !.cancelled = TRUE]
  <2>3. a \in Job /\ a.latest = e /\ a.pending = None /\ a.cleanup = CleanupOf(e, "aborted")
    BY <1>2, <2>2, AbortedJob
  <2>4. Save(m, j)
    BY <2>1
  <2> HIDE DEF a
  <2>5. j \in Job /\ j.latest = e /\ j.pending = None /\ j.cleanup = CleanupOf(e, "aborted")
    BY <2>3 DEF Job
  <2> HIDE DEF j
  <2>6. /\ job'[m].latest = e /\ job'[m].pending = None
        /\ job'[m].cleanup = CleanupOf(e, "aborted")
        /\ \A n \in MR \ {m} : job'[n] = job[n] /\ disk'[n] = disk[n]
    BY <1>2, <2>4, <2>5, SavedJob
  <2>7. Conveyed
    BY <1>1, <1>6, ConveyedBy DEF AbortRunning, sweep
  <2> QED
    BY <1>3, <1>4, <2>2, <2>6, <2>7 DEF JobMoves
<1>7. CASE AbortQueued(m)
  <2>1. PICK e \in IF job[m].pending = None THEN {job[m].latest}
                   ELSE Merges(job[m].latest, job[m].pending) :
          /\ Save(m, Reserved([Aborting(job[m], e) EXCEPT !.status = "cleanup"]))
          /\ QueueDurable(m, [Aborting(job[m], e) EXCEPT !.status = "cleanup"])
    BY <1>7 DEF AbortQueued
  <2>2. job[m].latest # None
    BY <1>2, <1>7 DEF AbortQueued, JobShape
  <2> DEFINE a == Aborting(job[m], e)
             j == [a EXCEPT !.status = "cleanup"]
  <2>3. /\ a \in Job /\ a.latest = e /\ a.pending = None
        /\ a.cleanup = CleanupOf(e, "aborted") /\ a.cleanup # None
    BY <1>2, <2>2, AbortedJob
  <2>4. Save(m, Reserved(j)) /\ QueueDurable(m, j)
    BY <2>1
  <2> HIDE DEF a
  <2>5. /\ j \in Job /\ j.latest = e /\ j.pending = None /\ j.status = "cleanup"
        /\ j.cleanup = CleanupOf(e, "aborted") /\ j.cleanup # None
    BY <2>3 DEF Job, Status
  <2> HIDE DEF j
  <2>6. /\ Reserved(j) \in Job /\ Reserved(j).latest = e /\ Reserved(j).pending = None
        /\ Reserved(j).cleanup = j.cleanup
    BY <2>5, ReservedType
  <2>7. /\ job'[m].latest = e /\ job'[m].pending = None /\ job'[m].cleanup = j.cleanup
        /\ \A n \in MR \ {m} : job'[n] = job[n] /\ disk'[n] = disk[n]
    BY <1>2, <2>4, <2>6, SavedJob
  <2>8. Conveyed
    BY <1>1, <2>4, <2>5, <2>7, ScheduleConveys, ConveyedBy
  <2> QED
    BY <1>3, <1>4, <2>2, <2>5, <2>7, <2>8 DEF JobMoves
<1> QED
  BY <1>5, <1>6, <1>7 DEF Abort

-----------------------------------------------------------------------------
(* Reviews.                                                                *)

\* A round of replacements shows outcomes on its own targets only.
LEMMA ReplaceShows ==
    ASSUME NEW shown, NEW failed, NEW applied, NEW gone, applied \subseteq DOMAIN shown,
           Replace(shown, failed, applied, gone),
           NEW t \in Target, Undecorated(t), ~Undecorated(t)'
    PROVE  t \in DOMAIN shown /\ shown[t] \notin {"none", "busy"}
BY DEF Replace, Undecorated

LEMMA BusyMarks ==
    ASSUME RemoteOK, NEW t, mark' = [mark EXCEPT ![t] = "busy"]
    PROVE  ShownOnClaimed
BY DEF ShownOnClaimed, Undecorated, RemoteOK

\* What a worker has in review is claimed.
LEMMA CopyClaimed ==
    ASSUME IInv, NEW w \in Worker, Busy(w)
    PROVE  worker[w].event.targets \subseteq Claimed(worker[w].mr)
<1>1. worker[w].event.targets \subseteq Target
  BY BusyFacts DEF Event
<1> QED
  BY <1>1 DEF Claimed, InReview

\* A step of a review that writes its job, or not, and names nothing but its request anew.
LEMMA ReviewStepSorts ==
    ASSUME IInv, IInv', SortInv, NEW w \in Worker, Busy(w), NEW m \in MR, m = worker[w].mr,
           NEW v, worker' = [worker EXCEPT ![w] = v], v.mr = m,
           v.event.targets \subseteq worker[w].event.targets \cup {m},
           UNCHANGED <<cleaner, sweep, life, handler>>, ShownOnClaimed,
           \/ UNCHANGED <<job, disk>>
           \/ \E r \in Job : /\ Save(m, r) /\ r.pending = job[m].pending
                             /\ JobClaims(r) \subseteq Claimed(m) \cup {m}
                             /\ JobRevokes(r) \subseteq Revoked(m)
    PROVE  SortInv'
<1>1. Known(m)
  BY BusyFacts, ServingFacts DEF Known
<1>2. Reviewed
  <2>1. worker'[w] = v /\ \A u \in Worker \ {w} : worker'[u] = worker[u]
    BY DEF IInv, TypeOK, WorkerOK
  <2> QED
    BY <2>1 DEF Reviewed, Busy
<1>3. Conveyed
  BY ConveyedBy DEF sweep
<1>4. \A n \in MR : Moves(n)
  <2>1. CASE UNCHANGED <<job, disk>>
    BY <1>2, <1>3, <2>1, AllStay
  <2>2. CASE \E r \in Job : /\ Save(m, r) /\ r.pending = job[m].pending
                            /\ JobClaims(r) \subseteq Claimed(m) \cup {m}
                            /\ JobRevokes(r) \subseteq Revoked(m)
    <3>1. PICK r \in Job : /\ Save(m, r) /\ r.pending = job[m].pending
                           /\ JobClaims(r) \subseteq Claimed(m) \cup {m}
                           /\ JobRevokes(r) \subseteq Revoked(m)
      BY <2>2
    <3>2. /\ job'[m].latest = r.latest /\ job'[m].pending = r.pending
          /\ job'[m].cleanup = r.cleanup
          /\ \A n \in MR \ {m} : job'[n] = job[n] /\ disk'[n] = disk[n]
      BY <3>1, SavedJob DEF IInv, TypeOK
    <3>3. JobStays(m)
      BY <3>1, <3>2 DEF JobStays, JobClaims, JobRevokes, Awaiting
    <3> QED
      BY <1>1, <1>2, <1>3, <3>2, <3>3, JobStepMoves DEF JobMoves
  <2> QED
    BY <2>1, <2>2
<1>5. Releases'
  BY <1>3, ConveyedReleases DEF IInv, TypeOK, SweepOK
<1> QED
  BY <1>4, <1>5, SameHandlers, SortStep

LEMMA RecordedTargets ==
    ASSUME NEW j \in Job, JobShape(j), j.status = "running",
           NEW targets \in SUBSET Target, NEW unsure \in SUBSET Target
    PROVE  LET r == Recorded(j, targets, unsure)
           IN  /\ r \in Job /\ r.pending = j.pending
               /\ JobClaims(r) \subseteq JobClaims(j) \cup targets
               /\ JobRevokes(r) = JobRevokes(j)
<1> DEFINE Released(e) == [e EXCEPT !.targets = @ \cup targets, !.unsure = @ \cup unsure]
           r == Recorded(j, targets, unsure)
<1>1. ASSUME NEW e \in Event
      PROVE  Released(e) \in Event /\ Released(e).targets = e.targets \cup targets
  BY DEF Event
<1>2. r \in Job /\ r.pending = j.pending
  BY RecordedType
<1>3. CASE j.cleanup = None
  <2>1. j.latest \in Event
    BY DEF Job, JobShape, MaybeEvent
  <2>2. r.latest = Released(j.latest) /\ r.cleanup = None
    BY <1>3 DEF Recorded, Job
  <2> HIDE DEF Released, r
  <2> QED
    BY <1>1, <1>2, <1>3, <2>1, <2>2, NilFacts DEF JobClaims, JobRevokes, MaybeTargets, r
<1>4. CASE j.cleanup # None
  <2> DEFINE c == [j.cleanup EXCEPT !.event = Released(j.cleanup.event)]
             i == [j EXCEPT !.cleanup = c, !.latest = Released(j.cleanup.event)]
             next == j.version + 1
  <2>1. j.cleanup \in Cleanup /\ j.cleanup.event \in Event
    BY <1>4 DEF Job, Cleanup
  <2>2. Released(j.cleanup.event) \in Event
        /\ Released(j.cleanup.event).targets = j.cleanup.event.targets \cup targets
    BY <1>1, <2>1
  <2>3. r = [i EXCEPT !.version = next]
    BY <1>4 DEF Recorded, Job
  <2> HIDE DEF Released, r
  <2>4. /\ c \in Cleanup /\ c.event = Released(j.cleanup.event)
        /\ c.aborted = j.cleanup.aborted
    BY <2>1, <2>2 DEF Cleanup
  <2> HIDE DEF c
  <2>5. i \in Job /\ i.cleanup = c /\ i.latest = Released(j.cleanup.event)
    BY <2>2, <2>4 DEF Job, MaybeEvent
  <2> HIDE DEF i, next
  <2>6. r.cleanup = c /\ r.latest = Released(j.cleanup.event)
    BY <2>3, <2>5 DEF Job
  <2> QED
    BY <1>2, <1>4, <2>1, <2>2, <2>4, <2>6, NilFacts
    DEF JobClaims, JobRevokes, MaybeTargets, r
<1> QED
  BY <1>3, <1>4

LEMMA TakeSorts ==
    ASSUME IInv, IInv', SortInv, NEW w \in Worker, Take(w)
    PROVE  SortInv'
<1>1. PICK m \in MR : m = Head(queue)
  BY DEF Take, IInv, TypeOK, PoolOK
<1>2. Known(m) /\ UNCHANGED <<disk, sweep, cleaner, life, remote, handler>>
  BY ServingFacts DEF Take, Known, Serving
<1>3. Conveyed
  BY <1>2, ConveyedBy DEF sweep
<1>4. Releases'
  BY <1>3, ConveyedReleases DEF IInv, TypeOK, SweepOK
<1>5. ASSUME \A n \in MR : Moves(n)
      PROVE  SortInv'
  BY <1>2, <1>4, <1>5, SameMarks, SameHandlers, SortStep DEF remote
<1>6. CASE ~Takeable(m)
  <2>1. UNCHANGED <<job, worker>>
    BY <1>1, <1>6 DEF Take
  <2> QED
    BY <1>2, <1>3, <1>5, <2>1, SameReviews, AllStay
<1>7. CASE Takeable(m)
  <2>1. /\ job' = [job EXCEPT ![m].status = "running", ![m].cancelled = FALSE]
        /\ worker' = [worker EXCEPT ![w] =
               [step |-> "check", mr |-> m, event |-> job[m].latest,
                outcome |-> "none", version |-> 0]]
    BY <1>1, <1>7 DEF Take
  <2>2. job[m] \in Job /\ job[m].latest # None
    BY <1>7 DEF Takeable, IInv, TypeOK, StoreOK, JobShape
  <2>3. /\ job'[m].latest = job[m].latest
        /\ job'[m].pending = job[m].pending /\ job'[m].cleanup = job[m].cleanup
        /\ \A n \in MR \ {m} : job'[n] = job[n]
    BY <2>1, <2>2 DEF IInv, TypeOK, StoreOK, Job
  <2>4. /\ worker'[w].mr = m /\ worker'[w].event = job[m].latest
        /\ \A u \in Worker \ {w} : worker'[u] = worker[u]
    BY <2>1 DEF IInv, TypeOK, WorkerOK
  <2>5. Reviewed
    BY <2>2, <2>4 DEF Reviewed, Busy, JobClaims, MaybeTargets
  <2>6. JobStays(m)
    BY <2>3 DEF JobStays, JobClaims, JobRevokes, Claimed, Awaiting, Revoked
  <2> QED
    BY <1>2, <1>3, <1>5, <2>3, <2>5, <2>6, JobStepMoves DEF JobMoves
<1> QED
  BY <1>6, <1>7

LEMMA ReviewSorts ==
    ASSUME IInv, IInv', SortInv, NEW w \in Worker,
           \/ CheckRequest(w) \/ StartReaction(w) \/ RunReview(w)
           \/ BeginSettlement(w) \/ SettleReview(w)
    PROVE  SortInv'
<1> DEFINE copy == worker[w].event
<1>1. Busy(w) /\ worker \in [Worker -> WorkerState] /\ worker[w] \in WorkerState
  BY DEF CheckRequest, StartReaction, RunReview, BeginSettlement, SettleReview, Busy, IInv,
     TypeOK, WorkerOK
<1>2. PICK m \in MR : m = worker[w].mr /\ copy \in Event
  BY <1>1, BusyFacts DEF IInv, TypeOK, WorkerOK, WorkerShape, WorkerState, MaybeEvent, Busy
<1>3. /\ job[m] \in Job /\ JobShape(job[m]) /\ job[m].status = "running"
      /\ UNCHANGED <<cleaner, sweep, life, handler>>
  BY <1>1, <1>2, BusyFacts
  DEF CheckRequest, StartReaction, RunReview, BeginSettlement, SettleReview, IInv, TypeOK, StoreOK
<1>4. ASSUME NEW v, worker' = [worker EXCEPT ![w] = v], v.mr = m,
             v.event.targets \subseteq copy.targets \cup {m}, UNCHANGED <<job, disk>>,
             ShownOnClaimed
      PROVE  SortInv'
  BY <1>1, <1>2, <1>3, <1>4, ReviewStepSorts
<1>5. ASSUME NEW v, worker' = [worker EXCEPT ![w] = v], v.mr = m,
             v.event.targets \subseteq copy.targets \cup {m},
             NEW r \in Job, Save(m, r), r.pending = job[m].pending,
             JobClaims(r) \subseteq Claimed(m) \cup {m}, JobRevokes(r) \subseteq Revoked(m),
             ShownOnClaimed
      PROVE  SortInv'
  BY <1>1, <1>2, <1>3, <1>5, ReviewStepSorts
<1>6. ASSUME NEW step, NEW o, Goto(w, step, o), UNCHANGED <<store, mark>>
      PROVE  SortInv'
  <2> DEFINE v == [worker[w] EXCEPT !.step = step, !.outcome = o]
  <2>1. worker' = [worker EXCEPT ![w] = v] /\ UNCHANGED <<job, disk>>
    BY <1>1, <1>6 DEF Goto, store
  <2>2. v.mr = m /\ v.event = copy
    BY <1>1, <1>2 DEF WorkerState
  <2> HIDE DEF v
  <2> QED
    BY <1>4, <1>6, <2>1, <2>2, SameMarks
<1>7. ASSUME NEW targets \in SUBSET {m}, NEW unsure \in SUBSET {m},
             Save(m, Recorded(job[m], targets, unsure)),
             NEW v, worker' = [worker EXCEPT ![w] = v], v.mr = m,
             v.event.targets \subseteq copy.targets \cup {m}, UNCHANGED mark
      PROVE  SortInv'
  <2> DEFINE r == Recorded(job[m], targets, unsure)
  <2>1. targets \in SUBSET Target /\ unsure \in SUBSET Target
    BY DEF Target
  <2>2. /\ r \in Job /\ r.pending = job[m].pending
        /\ JobClaims(r) \subseteq JobClaims(job[m]) \cup targets
        /\ JobRevokes(r) = JobRevokes(job[m])
    BY <1>3, <2>1, RecordedTargets
  <2>3. Save(m, r)
    BY <1>7
  <2> HIDE DEF r
  <2>4. JobClaims(r) \subseteq Claimed(m) \cup {m} /\ JobRevokes(r) \subseteq Revoked(m)
    BY <2>2 DEF Claimed, Revoked
  <2> QED
    BY <1>5, <1>7, <2>2, <2>3, <2>4, SameMarks
<1>8. CASE CheckRequest(w)
  <2>1. UNCHANGED mark
    BY <1>8 DEF CheckRequest, remote
  <2>2. CASE \E o \in PreRunOutcomes(w) : Goto(w, Ends("begin", o), o) /\ UNCHANGED store
    BY <1>6, <2>1, <2>2
  <2>3. CASE /\ Save(m, Recorded(job[m], {m}, {}))
             /\ worker' = [worker EXCEPT ![w].step = "start", ![w].event.targets = @ \cup {m}]
    <3> DEFINE e == [copy EXCEPT !.targets = @ \cup {m}]
               v == [worker[w] EXCEPT !.step = "start", !.event = e]
    <3>1. worker' = [worker EXCEPT ![w] = v]
      BY <1>1, <2>3 DEF WorkerState
    <3>2. e.targets = copy.targets \cup {m}
      BY <1>2 DEF Event
    <3> HIDE DEF e
    <3>3. v.mr = m /\ v.event = e
      BY <1>1, <1>2 DEF WorkerState
    <3> HIDE DEF v
    <3>4. {m} \in SUBSET {m} /\ {} \in SUBSET {m}
      OBVIOUS
    <3> QED
      BY <1>7, <2>1, <2>3, <3>1, <3>2, <3>3, <3>4
  <2> QED
    BY <1>2, <1>8, <2>2, <2>3 DEF CheckRequest
<1>9. CASE StartReaction(w)
  <2>1. ASSUME worker' = [worker EXCEPT ![w].step = "run"], UNCHANGED <<job, disk>>,
               ShownOnClaimed
        PROVE  SortInv'
    <3> DEFINE v == [worker[w] EXCEPT !.step = "run"]
    <3>1. worker' = [worker EXCEPT ![w] = v]
      BY <1>1, <2>1
    <3>2. v.mr = m /\ v.event = copy
      BY <1>1, <1>2 DEF WorkerState
    <3> HIDE DEF v
    <3> QED
      BY <1>4, <2>1, <3>1, <3>2
  <2>2. CASE mark' = [mark EXCEPT ![m] = "busy"]
             /\ worker' = [worker EXCEPT ![w].step = "run"] /\ UNCHANGED store
    BY <2>1, <2>2, BusyMarks DEF store, IInv, TypeOK
  <2>3. CASE worker' = [worker EXCEPT ![w].step = "run"] /\ UNCHANGED <<job, disk, remote>>
    BY <2>1, <2>3, SameMarks DEF remote
  <2>4. CASE /\ TimesOut(m) /\ Save(m, Recorded(job[m], {}, {m}))
             /\ worker' = [worker EXCEPT ![w].step = "run", ![w].event.unsure = @ \cup {m}]
    <3> DEFINE e == [copy EXCEPT !.unsure = @ \cup {m}]
               v == [worker[w] EXCEPT !.step = "run", !.event = e]
    <3>1. worker' = [worker EXCEPT ![w] = v]
      BY <1>1, <2>4 DEF WorkerState
    <3>2. e.targets = copy.targets
      BY <1>2 DEF Event
    <3> HIDE DEF e
    <3>3. v.mr = m /\ v.event = e
      BY <1>1, <1>2 DEF WorkerState
    <3> HIDE DEF v
    <3>4. {m} \in SUBSET {m} /\ {} \in SUBSET {m} /\ UNCHANGED mark
      BY <2>4 DEF TimesOut
    <3> QED
      BY <1>7, <2>4, <3>1, <3>2, <3>3, <3>4
  <2> QED
    BY <1>2, <1>9, <2>2, <2>3, <2>4 DEF StartReaction
<1>10. CASE RunReview(w)
  BY <1>6, <1>10 DEF RunReview, remote
<1>11. CASE BeginSettlement(w)
  <2>1. UNCHANGED mark
    BY <1>11 DEF BeginSettlement, remote
  <2>2. CASE job[m].cleanup = None
    <3> DEFINE next == job[m].version + 1
               c == CleanupOf(copy, worker[w].outcome)
               i == [job[m] EXCEPT !.latest = copy, !.cleanup = c]
               r == [i EXCEPT !.version = next]
               v == [worker[w] EXCEPT !.step = "settle", !.version = next]
    <3>1. Save(m, r) /\ worker' = [worker EXCEPT ![w] = v]
      BY <1>1, <1>2, <1>11, <2>2 DEF BeginSettlement
    <3>2. next \in Nat
      BY <1>3 DEF Job
    <3>3. c \in Cleanup /\ c # None /\ c.event = copy /\ c.aborted = None
      BY <1>1, <1>2, <1>11, NilFacts
      DEF CleanupOf, Cleanup, MaybeEvent, BeginSettlement, IInv, TypeOK, WorkerOK, WorkerShape
    <3> HIDE DEF next, c
    <3>4. v.mr = m /\ v.event = copy
      BY <1>1, <1>2 DEF WorkerState
    <3>5. i \in Job /\ i.latest = copy /\ i.cleanup = c /\ i.pending = job[m].pending
      BY <1>2, <1>3, <3>3 DEF Job, MaybeEvent
    <3> HIDE DEF i
    <3>6. r \in Job /\ r.latest = copy /\ r.cleanup = c /\ r.pending = job[m].pending
      BY <3>2, <3>5 DEF Job
    <3> HIDE DEF r, v
    <3>7. JobClaims(r) = copy.targets /\ JobRevokes(r) = {}
      BY <1>2, <3>3, <3>6, NilFacts DEF JobClaims, JobRevokes, MaybeTargets
    <3>8. copy.targets \subseteq Claimed(m)
      BY <1>1, <1>2, CopyClaimed
    <3> QED
      BY <1>5, <2>1, <3>1, <3>4, <3>6, <3>7, <3>8, SameMarks
  <2>3. CASE job[m].cleanup # None
    <3> DEFINE v == [worker[w] EXCEPT !.step = "settle", !.version = 0]
    <3>1. worker' = [worker EXCEPT ![w] = v] /\ UNCHANGED <<job, disk>>
      BY <1>1, <1>2, <1>11, <2>3 DEF BeginSettlement, store
    <3>2. v.mr = m /\ v.event = copy
      BY <1>1, <1>2 DEF WorkerState
    <3> HIDE DEF v
    <3> QED
      BY <1>4, <2>1, <3>1, <3>2, SameMarks
  <2> QED
    BY <2>2, <2>3
<1>12. CASE SettleReview(w)
  <2> DEFINE shown == [t \in copy.targets |-> Shown(worker[w].outcome)]
  <2>1. PICK failed \in SUBSET copy.targets :
          \E applied \in SUBSET failed, gone \in SUBSET (copy.targets \ failed) :
             /\ Replace(shown, failed, applied, gone)
             /\ worker' = [worker EXCEPT ![w].step = "finish",
                               ![w].event = Reduced(copy, Unsettled(copy, failed, gone))]
    BY <1>12 DEF SettleReview
  <2>2. PICK applied \in SUBSET failed, gone \in SUBSET (copy.targets \ failed) :
             /\ Replace(shown, failed, applied, gone)
             /\ worker' = [worker EXCEPT ![w].step = "finish",
                               ![w].event = Reduced(copy, Unsettled(copy, failed, gone))]
    BY <2>1
  <2> DEFINE left == Reduced(copy, Unsettled(copy, failed, gone))
             v == [worker[w] EXCEPT !.step = "finish", !.event = left]
  <2>3. worker' = [worker EXCEPT ![w] = v]
    BY <1>1, <2>2 DEF WorkerState
  <2>4. left.targets \subseteq copy.targets
    BY <1>2 DEF Reduced, Unsettled, Event
  <2> HIDE DEF left
  <2>5. v.mr = m /\ v.event = left
    BY <1>1, <1>2 DEF WorkerState
  <2> HIDE DEF v
  <2>6. UNCHANGED <<job, disk>>
    BY <1>12 DEF SettleReview
  <2>7. ShownOnClaimed
    <3>1. DOMAIN shown = copy.targets /\ copy.targets \subseteq Claimed(m)
      BY <1>1, <1>2, CopyClaimed
    <3> HIDE DEF shown
    <3>2. \A t \in Target : Undecorated(t) /\ ~Undecorated(t)' => t \in DOMAIN shown
      BY <2>2, <3>1, ReplaceShows
    <3> QED
      BY <3>1, <3>2 DEF ShownOnClaimed
  <2> QED
    BY <1>4, <2>3, <2>4, <2>5, <2>6, <2>7
<1> QED
  BY <1>8, <1>9, <1>10, <1>11, <1>12

\* A step on the job of one restored request that shows nothing.
LEMMA JobStepSorts ==
    ASSUME IInv, IInv', SortInv, NEW m \in MR, Known(m), UNCHANGED <<life, mark, handler>>,
           Conveyed, Reviewed, JobMoves(m),
           \A n \in MR \ {m} : job'[n] = job[n] /\ disk'[n] = disk[n]
    PROVE  SortInv'
<1>1. \A n \in MR : Moves(n)
  BY JobStepMoves
<1>2. Releases'
  BY ConveyedReleases DEF IInv, TypeOK, SweepOK
<1> QED
  BY <1>1, <1>2, SameMarks, SameHandlers, SortStep

\* A step that touches no job, file or phase.
LEMMA IdleSorts ==
    ASSUME IInv, IInv', SortInv, UNCHANGED <<job, disk, life, handler>>, Conveyed, Reviewed,
           ShownOnClaimed
    PROVE  SortInv'
<1>1. \A n \in MR : Moves(n)
  BY AllStay
<1>2. Releases'
  BY ConveyedReleases DEF IInv, TypeOK, SweepOK
<1> QED
  BY <1>1, <1>2, SameHandlers, SortStep

LEMMA SameJobStays ==
    ASSUME NEW m \in MR, job'[m].latest = job[m].latest, job'[m].pending = job[m].pending,
           job'[m].cleanup = job[m].cleanup
    PROVE  JobMoves(m)
BY DEF JobMoves, JobStays, JobClaims, JobRevokes, Claimed, Awaiting, Revoked

LEMMA GivenWayMoves ==
    ASSUME NEW m \in MR, GivesWay(m)
    PROVE  JobMoves(m)
<1>1. JobTakesTurn(m)
  BY DEF GivesWay, NoJob, JobTakesTurn, JobClaims, JobRevokes, Claimed, Awaiting, MaybeTargets
<1> QED
  BY <1>1 DEF JobMoves

LEMMA FinishSorts ==
    ASSUME IInv, IInv', SortInv, NEW w \in Worker, Finish(w)
    PROVE  SortInv'
<1> DEFINE e == worker[w].event
           o == worker[w].outcome
<1>1. PICK m \in MR : m = worker[w].mr
  BY BusyFacts DEF Finish, Busy
<1>2. /\ Busy(w) /\ e \in Event /\ Serving /\ job[m] \in Job /\ StoreOK
      /\ o \in Outcome \cup {"interrupted"} /\ Known(m)
  BY <1>1, BusyFacts, ServingFacts
  DEF Finish, Busy, IInv, TypeOK, WorkerOK, WorkerShape, WorkerState, Known
<1>3. UNCHANGED <<life, mark, handler, cleaner>>
  BY DEF Finish, remote
<1>4. Reviewed
  <2>1. worker'[w].step = "idle" /\ \A u \in Worker \ {w} : worker'[u] = worker[u]
    BY DEF Finish, IdleWorker, IInv, TypeOK, WorkerOK
  <2> QED
    BY <2>1 DEF Reviewed, Busy
<1>5. e.targets \subseteq Claimed(m)
  BY <1>1, <1>2, CopyClaimed
<1>6. ASSUME \A k \in cleanupQueue' : k \in cleanupQueue \/ (k.durable /\ MadeFrom(k, job'[k.mr])),
             JobMoves(m), \A n \in MR \ {m} : job'[n] = job[n] /\ disk'[n] = disk[n]
      PROVE  SortInv'
  <2>1. Conveyed
    BY <1>3, <1>6, ConveyedBy
  <2> QED
    BY <1>2, <1>3, <1>4, <1>6, <2>1, JobStepSorts
<1>7. CASE o = "interrupted" /\ FinishInterrupted(m, e)
  <2> DEFINE j == IF job[m].cleanup = None
                  THEN [job[m] EXCEPT !.status = "queued", !.latest = e, !.cancelled = FALSE]
                  ELSE [job[m] EXCEPT !.status = "cleanup", !.cancelled = FALSE]
  <2>1. Save(m, j) /\ UNCHANGED sweep
    BY <1>7 DEF FinishInterrupted
  <2>2. /\ j \in Job /\ j.pending = job[m].pending /\ j.cleanup = job[m].cleanup
        /\ j.latest = IF job[m].cleanup = None THEN e ELSE job[m].latest
    BY <1>2 DEF Job, Status, MaybeEvent
  <2> HIDE DEF j
  <2>3. /\ job'[m].latest = j.latest /\ job'[m].pending = j.pending
        /\ job'[m].cleanup = j.cleanup
        /\ \A n \in MR \ {m} : job'[n] = job[n] /\ disk'[n] = disk[n]
    BY <1>2, <2>1, <2>2, SavedJob
  <2>4. MaybeTargets(job'[m].latest) \subseteq Claimed(m)
    BY <1>5, <2>2, <2>3 DEF MaybeTargets, Claimed, JobClaims
  <2>5. JobStays(m)
    BY <2>2, <2>3, <2>4 DEF JobStays, JobClaims, JobRevokes, Claimed, Awaiting, Revoked
  <2> QED
    BY <1>6, <2>1, <2>3, <2>5 DEF JobMoves, sweep
<1>8. CASE o # "interrupted" /\ Preempted(w) /\ FinishAborted(m)
  <2> DEFINE j == [job[m] EXCEPT !.status = "cleanup", !.cancelled = FALSE]
  <2>1. /\ j \in Job /\ j.status = "cleanup" /\ j.latest = job[m].latest
        /\ j.pending = job[m].pending /\ j.cleanup = job[m].cleanup /\ j.cleanup # None
    BY <1>1, <1>2, <1>8 DEF Job, Status, Preempted
  <2>2. QueueDurable(m, j)
    BY <1>8 DEF FinishAborted
  <2>3. \/ Save(m, Reserved(j))
        \/ job' = [job EXCEPT ![m] = Reserved(j)] /\ UNCHANGED <<disk, faults>>
    BY <1>8 DEF FinishAborted
  <2> HIDE DEF j
  <2>4. /\ Reserved(j) \in Job /\ Reserved(j).latest = j.latest
        /\ Reserved(j).pending = j.pending /\ Reserved(j).cleanup = j.cleanup
    BY <2>1, ReservedType
  <2>5. /\ job'[m].latest = j.latest /\ job'[m].pending = j.pending
        /\ job'[m].cleanup = j.cleanup
        /\ \A n \in MR \ {m} : job'[n] = job[n] /\ disk'[n] = disk[n]
    <3>1. CASE Save(m, Reserved(j))
      BY <1>2, <2>4, <3>1, SavedJob
    <3>2. CASE job' = [job EXCEPT ![m] = Reserved(j)] /\ UNCHANGED disk
      BY <1>2, <2>4, <3>2 DEF StoreOK
    <3> QED
      BY <2>3, <3>1, <3>2
  <2> QED
    BY <1>6, <2>1, <2>2, <2>5, ScheduleConveys, SameJobStays
<1>9. CASE o # "interrupted" /\ FinishUnsettled(m, e, o)
  <2> DEFINE c == CleanupOf(e, o)
             next == job[m].version + 1
             i == [job[m] EXCEPT !.status = "cleanup", !.latest = e, !.cancelled = FALSE]
             j == [i EXCEPT !.cleanup = c, !.version = next]
  <2>1. Save(m, Reserved(j)) /\ QueueDurable(m, j)
    BY <1>9 DEF FinishUnsettled
  <2>2. next \in Nat
    BY <1>2 DEF Job
  <2>3. c \in Cleanup /\ c # None /\ c.event = e /\ c.aborted = None
    BY <1>2, <1>9, NilFacts DEF CleanupOf, Cleanup, MaybeEvent
  <2> HIDE DEF c, next
  <2>4. i \in Job /\ i.status = "cleanup" /\ i.latest = e /\ i.pending = job[m].pending
    BY <1>2 DEF Job, Status, MaybeEvent
  <2> HIDE DEF i
  <2>5. /\ j \in Job /\ j.status = "cleanup" /\ j.latest = e /\ j.pending = job[m].pending
        /\ j.cleanup = c
    BY <2>2, <2>3, <2>4 DEF Job
  <2> HIDE DEF j
  <2>6. /\ Reserved(j) \in Job /\ Reserved(j).latest = e
        /\ Reserved(j).pending = job[m].pending /\ Reserved(j).cleanup = c
    BY <2>5, ReservedType
  <2>7. /\ job'[m].latest = e /\ job'[m].pending = job[m].pending /\ job'[m].cleanup = c
        /\ \A n \in MR \ {m} : job'[n] = job[n] /\ disk'[n] = disk[n]
    BY <1>2, <2>1, <2>6, SavedJob
  <2>8. JobStays(m)
    <3>1. JobClaims(job'[m]) = e.targets /\ JobRevokes(job'[m]) = {}
      BY <1>2, <2>3, <2>7, NilFacts DEF JobClaims, JobRevokes, MaybeTargets
    <3> QED
      BY <1>5, <2>7, <3>1 DEF JobStays, Awaiting
  <2> QED
    BY <1>6, <2>1, <2>3, <2>5, <2>7, <2>8, ScheduleConveys DEF JobMoves
<1>10. CASE o # "interrupted" /\ EndOrPromote(m) /\ UNCHANGED sweep
  <2>1. JobStep(m) /\ GivesWay(m)
    BY <1>10, EndOrPromoteStep
  <2> QED
    BY <1>6, <1>10, <2>1, GivenWayMoves DEF JobStep, sweep
<1> QED
  BY <1>1, <1>7, <1>8, <1>9, <1>10 DEF Finish
-----------------------------------------------------------------------------
(* Cleanup workers, timers and late awards.                                *)

\* What a cleaner holds for a job is claimed, or revoked.
LEMMA HeldClaimed ==
    ASSUME IInv, NEW c \in Cleaner, cleaner[c].step # "idle", cleaner[c].work.durable
    PROVE  /\ cleaner[c].work.event.targets \subseteq Claimed(cleaner[c].work.mr)
           /\ MaybeTargets(cleaner[c].work.aborted) \subseteq Revoked(cleaner[c].work.mr)
<1> DEFINE k == cleaner[c].work
<1>1. k.event.targets \subseteq Target /\ MaybeTargets(k.aborted) \subseteq Target
  BY HeldFacts DEF Event, MaybeEvent, MaybeTargets
<1>2. c \in InHand(k.mr)
  BY DEF InHand
<1> QED
  BY <1>1, <1>2 DEF Claimed, OnTheWay, Revoked, RevokedOnTheWay

LEMMA CleanerTakeSorts ==
    ASSUME IInv, IInv', SortInv, NEW c \in Cleaner, CleanerTake(c)
    PROVE  SortInv'
<1>1. PICK k \in cleanupQueue :
        /\ cleaner' = [cleaner EXCEPT ![c] = [step |-> "held", work |-> k]]
        /\ DrainWaiting(cleanupQueue \ {k})
  BY DEF CleanerTake
<1>2. UNCHANGED <<job, disk, life, handler, mark, worker>>
  BY DEF CleanerTake, store, remote
<1>3. /\ cleaner'[c].work = k
      /\ \A d \in Cleaner \ {c} : cleaner'[d] = cleaner[d]
  BY <1>1 DEF IInv, TypeOK, CleanerOK
<1>4. ASSUME NEW x \in cleanupQueue'
      PROVE  x \in cleanupQueue \/ (x.durable /\ MadeFrom(x, job[x.mr]))
  <2>1. PICK moved \in SUBSET Promotable :
          x \in (cleanupQueue \ {k}) \cup {DurableWork(m, job[m]) : m \in moved}
    BY <1>1, <1>4 DEF DrainWaiting
  <2>2. ASSUME NEW m \in moved, x = DurableWork(m, job[m])
        PROVE  x.durable /\ MadeFrom(x, job[x.mr])
    <3>1. /\ x.durable /\ x.mr = m /\ x.event = job[m].cleanup.event
          /\ x.aborted = job[m].cleanup.aborted /\ job[m].cleanup # None
      BY <2>2 DEF DurableWork, Promotable
    <3> QED
      BY <3>1 DEF MadeFrom, JobClaims, JobRevokes
  <2> QED
    BY <2>1, <2>2
<1>5. Conveyed
  BY <1>2, <1>3, <1>4 DEF Conveyed, Within
<1> QED
  BY <1>2, <1>5, SameReviews, SameMarks, IdleSorts

LEMMA CleanerSettleSorts ==
    ASSUME IInv, IInv', SortInv, NEW c \in Cleaner, CleanerSettle(c)
    PROVE  SortInv'
<1> DEFINE k == cleaner[c].work
           shown == Attempt(k)
           Left(e, failed, gone) == Reduced(e, Unsettled(e, failed, gone))
<1>1. /\ k \in Work /\ k.event \in Event /\ k.aborted \in MaybeEvent
      /\ cleaner[c].step = "held" /\ cleaner \in [Cleaner -> CleanerState]
  BY HeldFacts DEF CleanerSettle, IInv, TypeOK, CleanerOK
<1>2. UNCHANGED <<job, disk, life, handler, worker, cleanupQueue>>
  BY DEF CleanerSettle, sweep
<1>3. PICK failed \in SUBSET (DOMAIN shown) :
        \E applied \in SUBSET failed, gone \in SUBSET (DOMAIN shown \ failed) :
          /\ Replace(shown, failed, applied, gone)
          /\ cleaner' = [cleaner EXCEPT ![c] = [step |-> "settled", work |->
                [k EXCEPT !.event = Left(@, failed, gone),
                          !.aborted = IF @ = None THEN None ELSE Left(@, failed, gone)]]]
  BY DEF CleanerSettle
<1>4. PICK applied \in SUBSET failed, gone \in SUBSET (DOMAIN shown \ failed) :
          /\ Replace(shown, failed, applied, gone)
          /\ cleaner' = [cleaner EXCEPT ![c] = [step |-> "settled", work |->
                [k EXCEPT !.event = Left(@, failed, gone),
                          !.aborted = IF @ = None THEN None ELSE Left(@, failed, gone)]]]
  BY <1>3
<1>5. ASSUME NEW e \in Event
      PROVE  Left(e, failed, gone) \in Event /\ Left(e, failed, gone).targets \subseteq e.targets
  BY UnsettledType, ReducedType DEF Unsettled
<1>6. ShownOnClaimed
  <2>1. ASSUME NEW t \in DOMAIN shown, shown[t] \notin {"none", "busy"}
        PROVE  t \in k.event.targets /\ k.outcome # "aborted"
    BY <2>1 DEF Attempt, Shown
  <2>2. ASSUME NEW t \in DOMAIN shown, shown[t] \notin {"none", "busy"}
        PROVE  k.mr \in MR /\ t \in Claimed(k.mr)
    <3>1. k.durable
      BY <1>1, <2>1, <2>2 DEF SortInv, Releases, Release
    <3> QED
      BY <1>1, <2>1, <2>2, <3>1, HeldClaimed DEF Work
  <2> HIDE DEF shown
  <2> QED
    BY <1>4, <2>2, ReplaceShows DEF ShownOnClaimed
<1> HIDE DEF Left, shown
<1> DEFINE event == Left(k.event, failed, gone)
           aborted == IF k.aborted = None THEN None ELSE Left(k.aborted, failed, gone)
           rest == [k EXCEPT !.event = event, !.aborted = aborted]
<1>7. /\ event \in Event /\ event.targets \subseteq k.event.targets
      /\ aborted \in MaybeEvent /\ MaybeTargets(aborted) \subseteq MaybeTargets(k.aborted)
  BY <1>1, <1>5, NilFacts DEF MaybeEvent, MaybeTargets
<1>8. cleaner'[c].work = rest /\ \A d \in Cleaner \ {c} : cleaner'[d] = cleaner[d]
  BY <1>1, <1>4 DEF Work
<1> HIDE DEF event, aborted
<1>9. Within(rest, k)
  BY <1>1, <1>7 DEF Within, Work
<1> HIDE DEF rest
<1>10. Conveyed
  BY <1>1, <1>2, <1>8, <1>9 DEF Conveyed, Within
<1> QED
  BY <1>2, <1>6, <1>10, SameReviews, IdleSorts

LEMMA CleanerCancelledSorts ==
    ASSUME IInv, IInv', SortInv, NEW c \in Cleaner, CleanerCancelled(c)
    PROVE  SortInv'
<1>1. UNCHANGED <<job, disk, life, handler, mark, worker, cleanupQueue>>
  BY DEF CleanerCancelled, store, remote, sweep
<1>2. cleaner[c].step = "held" /\ cleaner \in [Cleaner -> CleanerState]
  BY DEF CleanerCancelled, IInv, TypeOK, CleanerOK
<1>3. \/ cleaner' = [cleaner EXCEPT ![c].step = "settled"]
      \/ cleaner' = [cleaner EXCEPT ![c] = IdleCleaner]
  BY DEF CleanerCancelled
<1>4. \A d \in Cleaner : cleaner'[d].step # "idle" =>
          cleaner[d].step # "idle" /\ cleaner'[d].work = cleaner[d].work
  BY <1>2, <1>3 DEF IdleCleaner, CleanerState
<1> QED
  BY <1>1, <1>4, ConveyedBy, SameReviews, SameMarks, IdleSorts

LEMMA CleanerCompleteSorts ==
    ASSUME IInv, IInv', SortInv, NEW c \in Cleaner, CleanerComplete(c)
    PROVE  SortInv'
<1> DEFINE k == cleaner[c].work
<1>1. UNCHANGED <<life, handler, mark, worker>>
  BY DEF CleanerComplete, remote
<1>2. \A d \in Cleaner : cleaner'[d].step # "idle" =>
          cleaner[d].step # "idle" /\ cleaner'[d].work = cleaner[d].work
  BY DEF CleanerComplete, IdleCleaner, IInv, TypeOK, CleanerOK
<1>3. CASE UNCHANGED <<store, sweep>>
  BY <1>1, <1>2, <1>3, ConveyedBy, SameReviews, SameMarks, IdleSorts DEF store, sweep
<1>4. CASE k.durable /\ CompleteDurable(k)
  <2>1. PICK m \in MR : m = k.mr
    BY HeldFacts DEF CleanerComplete
  <2>2. /\ job[m] \in Job /\ StoreOK /\ alive /\ k \in Work /\ k.event \in Event
        /\ k.aborted \in MaybeEvent
    BY HeldFacts DEF CleanerComplete, IInv, TypeOK, StoreOK
  <2>3. k.event.targets \subseteq Claimed(m) /\ MaybeTargets(k.aborted) \subseteq Revoked(m)
    BY <1>4, <2>1, HeldClaimed DEF CleanerComplete
  <2>4. ASSUME job[m].status = "cleanup", JobMoves(m),
               \A x \in cleanupQueue' :
                  x \in cleanupQueue \/ (x.durable /\ MadeFrom(x, job'[x.mr])),
               \A n \in MR \ {m} : job'[n] = job[n] /\ disk'[n] = disk[n]
        PROVE  SortInv'
    <3>1. Known(m)
      BY <2>2, <2>4 DEF Known, IInv, Rest, Loading, NoJob
    <3>2. Conveyed
      BY <1>2, <2>4, ConveyedBy
    <3> QED
      BY <1>1, <2>4, <3>1, <3>2, SameReviews, JobStepSorts
  <2> DEFINE j == [job[m] EXCEPT !.cleanupQueued = FALSE]
             rest == [event |-> k.event, outcome |-> k.outcome, aborted |-> k.aborted]
             left == [j EXCEPT !.cleanup = rest, !.latest = k.event]
  <2>5. /\ j \in Job /\ j.status = job[m].status /\ j.latest = job[m].latest
        /\ j.pending = job[m].pending /\ j.cleanup = job[m].cleanup
    BY <2>2 DEF Job
  <2>6. CASE j.status = "cleanup" /\ j.cleanup # None /\ Requeue(m, j) /\ UNCHANGED disk
    <3>1. job' = [job EXCEPT ![m] = Reserved(j)] /\ QueueDurable(m, j)
      BY <2>6 DEF Requeue
    <3> HIDE DEF j
    <3>2. /\ Reserved(j).latest = job[m].latest /\ Reserved(j).pending = job[m].pending
          /\ Reserved(j).cleanup = job[m].cleanup
      BY <2>5, <2>6, ReservedType
    <3>3. /\ job'[m].latest = job[m].latest /\ job'[m].pending = job[m].pending
          /\ job'[m].cleanup = job[m].cleanup
          /\ \A n \in MR \ {m} : job'[n] = job[n] /\ disk'[n] = disk[n]
      BY <2>2, <2>6, <3>1, <3>2 DEF StoreOK
    <3> QED
      BY <2>4, <2>5, <2>6, <3>1, <3>3, ScheduleConveys, SameJobStays
  <2>7. CASE j.status = "cleanup" /\ Save(m, Reserved(left)) /\ QueueDurable(m, left)
    <3>1. /\ rest \in Cleanup /\ rest # None /\ rest.event = k.event
          /\ rest.aborted = k.aborted
      BY <2>2, NilFacts DEF Work, Cleanup
    <3> HIDE DEF j, rest
    <3>2. /\ left \in Job /\ left.status = "cleanup" /\ left.cleanup = rest
          /\ left.latest = k.event /\ left.pending = job[m].pending
      BY <2>2, <2>5, <2>7, <3>1 DEF Job, MaybeEvent
    <3>3. Save(m, Reserved(left)) /\ QueueDurable(m, left)
      BY <2>7
    <3> HIDE DEF left
    <3>4. /\ Reserved(left) \in Job /\ Reserved(left).latest = k.event
          /\ Reserved(left).pending = job[m].pending /\ Reserved(left).cleanup = rest
      BY <3>2, ReservedType
    <3>5. /\ job'[m].latest = k.event /\ job'[m].pending = job[m].pending
          /\ job'[m].cleanup = rest
          /\ \A n \in MR \ {m} : job'[n] = job[n] /\ disk'[n] = disk[n]
      BY <2>2, <3>3, <3>4, SavedJob
    <3>6. JobStays(m)
      <4>1. /\ JobClaims(job'[m]) = k.event.targets
            /\ JobRevokes(job'[m]) = MaybeTargets(k.aborted)
        BY <2>2, <3>1, <3>5, NilFacts DEF JobClaims, JobRevokes, MaybeTargets
      <4> QED
        BY <2>3, <3>5, <4>1 DEF JobStays, Awaiting
    <3> QED
      BY <2>4, <2>5, <2>7, <3>1, <3>2, <3>3, <3>5, <3>6, ScheduleConveys DEF JobMoves
  <2>8. CASE j.status = "cleanup" /\ EndOrPromote(m) /\ UNCHANGED sweep
    <3>1. JobStep(m) /\ GivesWay(m)
      BY <2>8, EndOrPromoteStep
    <3> QED
      BY <2>4, <2>5, <2>8, <3>1, GivenWayMoves DEF JobStep, sweep
  <2> QED
    BY <1>3, <1>4, <2>1, <2>6, <2>7, <2>8 DEF CompleteDurable
<1> QED
  BY <1>3, <1>4 DEF CleanerComplete

LEMMA TimerSorts ==
    ASSUME IInv, IInv', SortInv, NEW m \in MR, TimerFires(m)
    PROVE  SortInv'
<1> DEFINE j == [job[m] EXCEPT !.cleanupQueued = FALSE]
<1>1. UNCHANGED <<disk, life, handler, mark, worker, cleaner>>
  BY DEF TimerFires, remote
<1>2. /\ j \in Job /\ j.status = job[m].status /\ j.latest = job[m].latest
      /\ j.pending = job[m].pending /\ j.cleanup = job[m].cleanup
  BY DEF IInv, TypeOK, StoreOK, Job
<1>3. CASE UNCHANGED <<job, cleanupQueue>>
  BY <1>1, <1>3, ConveyedBy, SameReviews, SameMarks, IdleSorts
<1>4. CASE /\ j.status = "cleanup" /\ j.cleanup # None
           /\ job' = [job EXCEPT ![m] = Reserved(j)]
           /\ IF closed THEN UNCHANGED <<cleanupQueue, waiting>> ELSE Enlist(m, j)
  <2> HIDE DEF j
  <2>1. Known(m)
    BY <1>2, <1>4 DEF TimerFires, Known, IInv, Rest, Loading, NoJob
  <2>2. /\ Reserved(j).latest = job[m].latest /\ Reserved(j).pending = job[m].pending
        /\ Reserved(j).cleanup = job[m].cleanup
    BY <1>2, <1>4, ReservedType
  <2>3. /\ job'[m].latest = job[m].latest /\ job'[m].pending = job[m].pending
        /\ job'[m].cleanup = job[m].cleanup
        /\ \A n \in MR \ {m} : job'[n] = job[n] /\ disk'[n] = disk[n]
    BY <1>1, <1>4, <2>2 DEF IInv, TypeOK, StoreOK
  <2>4. \A k \in cleanupQueue' :
            k \in cleanupQueue \/ (k.durable /\ MadeFrom(k, job'[k.mr]))
    BY <1>2, <1>4, <2>3, EnlistConveys
  <2>5. Conveyed
    BY <1>1, <2>4, ConveyedBy
  <2> QED
    BY <1>1, <2>1, <2>3, <2>5, SameJobStays, SameReviews, JobStepSorts
<1> QED
  BY <1>3, <1>4 DEF TimerFires

LEMMA RemoteSorts ==
    ASSUME IInv, IInv', SortInv, NEW t \in Target, LateCommit(t) \/ WindowEnds(t)
    PROVE  SortInv'
<1>1. UNCHANGED <<job, disk, life, handler, worker, cleaner, cleanupQueue>>
  BY DEF LateCommit, WindowEnds, store, sweep
<1>2. ShownOnClaimed
  BY BusyMarks, SameMarks DEF LateCommit, WindowEnds, IInv, TypeOK
<1> QED
  BY <1>1, <1>2, ConveyedBy, SameReviews, IdleSorts

-----------------------------------------------------------------------------
(* Restart and shutdown.                                                   *)

\* Restoring reads what the entry names into the job, and schedules what it settles.
LEMMA RestoreSorts ==
    ASSUME IInv, IInv', SortInv, NEW m \in MR, RestoreJob(m)
    PROVE  SortInv'
<1> DEFINE e == disk[m]
           queued == [NoJob EXCEPT !.status = "queued", !.latest = e.event, !.persisted = TRUE]
           c == [event |-> e.event, outcome |-> e.outcome, aborted |-> e.aborted]
           settling == [NoJob EXCEPT !.status = "cleanup", !.latest = e.event,
                         !.pending = e.pending, !.version = 1, !.persisted = TRUE,
                         !.cleanup = c]
<1>1. /\ UNCHANGED <<disk, worker, cleaner, phase, mark, handler>> /\ toLoad' = toLoad \ {m}
      /\ phase = "restoring" /\ e \in Entry /\ EntryShape(e) /\ m \in toLoad
  BY DEF RestoreJob, remote, IInv, Rest, Loading, TypeOK, StoreOK
<1>2. Unread(m) = e /\ Unread(m)' = None
      /\ \A n \in MR \ {m} : Unread(n)' = Unread(n)
  BY <1>1 DEF Unread, Known, alive
<1>3. e.event \in Event /\ e.pending \in MaybeEvent /\ e.aborted \in MaybeEvent /\ e # None
  BY <1>1, NilFacts DEF Entry
<1>4. ASSUME job'[m].latest = e.event,
             job'[m].pending = None \/ job'[m].pending = e.pending,
             job'[m].cleanup = None \/ job'[m].cleanup = c,
             \A n \in MR \ {m} : job'[n] = job[n],
             \A k \in cleanupQueue' :
                k \in cleanupQueue \/ (k.durable /\ MadeFrom(k, job'[k.mr]))
      PROVE  SortInv'
  <2>1. Conveyed
    BY <1>1, <1>4, ConveyedBy
  <2>2. /\ JobClaims(job'[m]) \subseteq e.event.targets
        /\ JobRevokes(job'[m]) \subseteq MaybeTargets(e.aborted)
        /\ MaybeTargets(job'[m].pending) \subseteq MaybeTargets(e.pending)
    <3>1. MaybeTargets(job'[m].latest) \subseteq e.event.targets
      BY <1>4 DEF MaybeTargets
    <3>2. MaybeTargets(job'[m].pending) \subseteq MaybeTargets(e.pending)
      BY <1>4 DEF MaybeTargets
    <3> QED
      BY <1>4, <3>1, <3>2 DEF JobClaims, JobRevokes
  <2>3. JobStays(m)
    BY <1>2, <1>3, <2>2
    DEF JobStays, Claimed, Awaiting, Revoked, EntryClaims, EntryAwaits, EntryRevokes
  <2>4. Moves(m)
    BY <1>1, <1>2, <2>1, <2>3, SameReviews, OneMoves DEF JobMoves
  <2>5. \A n \in MR \ {m} : Moves(n)
    BY <1>1, <1>2, <1>4, <2>1, SameReviews, OneStays DEF Moves
  <2>6. Releases'
    BY <2>1, ConveyedReleases DEF IInv, TypeOK, SweepOK
  <2> QED
    BY <1>1, <2>4, <2>5, <2>6, SameMarks, SameHandlers, SortStep
<1>5. CASE e.outcome = "none"
  <2>1. job' = [job EXCEPT ![m] = queued] /\ UNCHANGED cleanupQueue
    BY <1>5 DEF RestoreJob, sweep
  <2>2. queued.latest = e.event /\ queued.pending = None /\ queued.cleanup = None
    BY DEF NoJob
  <2> HIDE DEF queued
  <2>3. job'[m] = queued /\ \A n \in MR \ {m} : job'[n] = job[n]
    BY <2>1 DEF IInv, TypeOK, StoreOK
  <2> QED
    BY <1>4, <2>1, <2>2, <2>3
<1>6. CASE e.outcome # "none"
  <2>1. job' = [job EXCEPT ![m] = Reserved(settling)] /\ QueueDurable(m, settling)
    BY <1>6 DEF RestoreJob
  <2>2. c # None
    BY <1>1, <1>3, <1>6, NilFacts DEF Entry, Cleanup
  <2> HIDE DEF c
  <2>3. /\ settling.cleanup = c /\ Reserved(settling).latest = e.event
        /\ Reserved(settling).pending = e.pending /\ Reserved(settling).cleanup = c
    BY DEF NoJob, Reserved
  <2> HIDE DEF settling
  <2>4. job'[m] = Reserved(settling) /\ \A n \in MR \ {m} : job'[n] = job[n]
    BY <2>1 DEF IInv, TypeOK, StoreOK
  <2>5. \A k \in cleanupQueue' :
            k \in cleanupQueue \/ (k.durable /\ MadeFrom(k, job'[k.mr]))
    BY <2>1, <2>2, <2>3, <2>4, ScheduleConveys
  <2> QED
    BY <1>4, <2>3, <2>4, <2>5
<1> QED
  BY <1>5, <1>6

\* What an entry that is dropped named, nobody names any more.
LEMMA DropSorts ==
    ASSUME IInv, IInv', SortInv, NEW m \in MR, DropEntry(m)
    PROVE  SortInv'
<1>1. /\ UNCHANGED <<job, worker, cleaner, cleanupQueue, phase, mark, handler>>
      /\ disk' = [disk EXCEPT ![m] = None] /\ toLoad' = toLoad \ {m}
  BY DropFacts DEF DropEntry, sweep
<1>2. /\ Unread(m)' = None
      /\ \A n \in MR \ {m} : Unread(n)' = Unread(n)
  BY <1>1 DEF Unread, Known, alive, IInv, TypeOK, StoreOK
<1>3. Conveyed
  BY <1>1, ConveyedBy
<1>4. JobStays(m)
  BY <1>1, <1>2
  DEF JobStays, Claimed, Awaiting, Revoked, EntryClaims, EntryAwaits, EntryRevokes
<1>5. Moves(m)
  BY <1>1, <1>2, <1>3, <1>4, SameReviews, OneMoves DEF JobMoves
<1>6. \A n \in MR \ {m} : Moves(n)
  BY <1>1, <1>2, <1>3, SameReviews, OneStays DEF Moves
<1>7. Releases'
  BY <1>3, ConveyedReleases DEF IInv, TypeOK, SweepOK
<1> QED
  BY <1>1, <1>5, <1>6, <1>7, SameMarks, SameHandlers, SortStep

LEMMA ResumeWithin ==
    ASSUME NEW j \in Job, j.latest # None
    PROVE  Resume(j).targets \subseteq MaybeTargets(j.latest) \cup MaybeTargets(j.pending)
BY DEF Resume, MergeKeeping, Notes, MaybeTargets

\* What a process leaves behind is in its journal: the entry of a job that has no cleanup
\* names the review that waited together with the one that ran.
LEMMA HaltMoves ==
    ASSUME IInv, Halt, NEW m \in MR,
           \/ disk'[m] = disk[m]
           \/ Known(m) /\ job[m].status # "none" /\ disk'[m] = EntryOf(job[m])
    PROVE  Moves(m)
<1>1. /\ Claimed(m)' = EntryClaims(disk'[m])
      /\ Awaiting(m)' = EntryAwaits(disk'[m])
      /\ Revoked(m)' = EntryRevokes(disk'[m])
  <2>1. job'[m] = NoJob /\ Unread(m)' = disk'[m]
    BY DEF Halt, Unread, Known, alive
  <2>2. InReview(m)' = {} /\ OnTheWay(m)' = {} /\ RevokedOnTheWay(m)' = {}
    BY DEF Halt, InReview, Busy, IdleWorker, OnTheWay, RevokedOnTheWay, InQueue, InHand,
       IdleCleaner
  <2> QED
    BY <2>1, <2>2, NoJobType DEF Claimed, Awaiting, Revoked, JobClaims, JobRevokes, MaybeTargets
<1>2. CASE ~Known(m)
  <2>1. Unread(m) = disk[m] /\ disk'[m] = disk[m]
    BY <1>2 DEF Unread
  <2> QED
    BY <1>1, <2>1 DEF Moves, Stays, Claimed, Awaiting, Revoked
<1>3. CASE disk'[m] = None
  BY <1>1, <1>3 DEF Moves, Stays, EntryClaims, EntryAwaits, EntryRevokes
<1>4. CASE Known(m) /\ disk'[m] # None
  <2>1. job[m].status # "none" /\ disk'[m] = EntryOf(job[m])
    BY <1>4 DEF IInv, Rest, JournalCoherent, Coherent
  <2>2. job[m] \in Job /\ job[m].latest # None
    BY <2>1 DEF IInv, TypeOK, StoreOK, JobShape
  <2>3. CASE job[m].cleanup = None
    <3>1. /\ disk'[m].event = Resume(job[m]) /\ disk'[m].pending = None
          /\ disk'[m].aborted = None
      BY <2>1, <2>3 DEF EntryOf
    <3>2. Resume(job[m]).targets
            \subseteq MaybeTargets(job[m].latest) \cup MaybeTargets(job[m].pending)
      BY <2>2, ResumeWithin
    <3>3. TakesTurn(m)
      BY <1>1, <1>4, <3>1, <3>2
      DEF TakesTurn, EntryClaims, EntryAwaits, EntryRevokes, Claimed, Awaiting, JobClaims,
          MaybeTargets
    <3> QED
      BY <3>3 DEF Moves
  <2>4. CASE job[m].cleanup # None
    <3>1. /\ disk'[m].event = job[m].cleanup.event /\ disk'[m].pending = job[m].pending
          /\ disk'[m].aborted = job[m].cleanup.aborted
      BY <2>1, <2>4 DEF EntryOf
    <3>2. Stays(m)
      BY <1>1, <1>4, <2>4, <3>1
      DEF Stays, EntryClaims, EntryAwaits, EntryRevokes, Claimed, Awaiting, Revoked, JobClaims,
          JobRevokes
    <3> QED
      BY <3>2 DEF Moves
  <2> QED
    BY <2>3, <2>4
<1> QED
  BY <1>2, <1>3, <1>4

\* A process that ends cuts off webhook requests, never one that is over.
LEMMA HaltHandlers == ASSUME Halt PROVE NoneForgotten
BY DEF Halt, Cut, NoneForgotten

\* The last sweep shows the outcome of a cleanup only on what that cleanup names.
LEMMA ExitSorts ==
    ASSUME IInv, IInv', SortInv, Exit
    PROVE  SortInv'
<1> DEFINE unsaved == {m \in MR : job[m].status # "none" /\ ~job[m].persisted}
           Lost(saved) == fallback \cup UNION {JobTargets(job[m]) : m \in unsaved \ saved}
           Home(t) == IF t \in Note THEN NoteMR[t] ELSE t
           Cl(t) == job[Home(t)].cleanup
           Out(saved) == [t \in Lost(saved) |->
                IF Cl(t) # None /\ t \in Cl(t).event.targets THEN Shown(Cl(t).outcome)
                ELSE "none"]
<1>1. PICK saved \in SUBSET unsaved :
        /\ \E failed \in SUBSET Lost(saved) :
           \E applied \in SUBSET failed, gone \in SUBSET (Lost(saved) \ failed) :
              Replace(Out(saved), failed, applied, gone)
        /\ disk' = [m \in MR |-> IF m \in saved THEN EntryOf(job[m]) ELSE disk[m]]
  BY DEF Exit
<1>2. Halt /\ alive /\ toLoad = {}
  BY DEF Exit, alive, IInv, Rest, Loading
<1>3. ShownOnClaimed
  <2>1. DOMAIN Out(saved) = Lost(saved)
    OBVIOUS
  <2>2. ASSUME NEW t \in Target, t \in Lost(saved), Out(saved)[t] \notin {"none", "busy"}
        PROVE  \E m \in MR : t \in Claimed(m)
    <3>1. Cl(t) # None /\ t \in Cl(t).event.targets
      BY <2>2
    <3>2. Home(t) \in MR
      BY SizeAssumption DEF Target
    <3> QED
      BY <3>1, <3>2 DEF Claimed, JobClaims
  <2> HIDE DEF Lost, Out
  <2>3. \A t \in Target : Undecorated(t) /\ ~Undecorated(t)' =>
            t \in Lost(saved) /\ Out(saved)[t] \notin {"none", "busy"}
    BY <1>1, <2>1, ReplaceShows
  <2> QED
    BY <2>2, <2>3 DEF ShownOnClaimed
<1>4. ASSUME NEW m \in MR PROVE Moves(m)
  <2>1. Known(m)
    BY <1>2 DEF Known
  <2>2. disk'[m] = disk[m] \/ (job[m].status # "none" /\ disk'[m] = EntryOf(job[m]))
    BY <1>1
  <2> QED
    BY <1>2, <2>1, <2>2, HaltMoves
<1>5. Releases'
  BY <1>2 DEF Halt, Releases, IdleCleaner
<1> QED
  BY <1>2, <1>3, <1>4, <1>5, HaltHandlers, SortStep

LEMMA LifecycleSorts ==
    ASSUME IInv, IInv', SortInv, Lifecycle
    PROVE  SortInv'
<1>1. CASE Exit
  BY <1>1, ExitSorts
<1>2. CASE Crash
  <2>1. Halt /\ UNCHANGED <<disk, mark>>
    BY <1>2 DEF Crash, remote
  <2>2. NoneForgotten
    BY <2>1, HaltHandlers
  <2>3. Releases'
    BY <2>1 DEF Halt, Releases, IdleCleaner
  <2> QED
    BY <2>1, <2>2, <2>3, HaltMoves, SameMarks, SortStep
<1>3. CASE Start \/ Serve \/ Stop \/ CloseIntake \/ GraceExpires \/ StopCleanup
           \/ CleanupGraceExpires
  <2>1. UNCHANGED <<job, disk, worker, cleaner, mark, handler>>
    BY <1>3 DEF Start, Serve, Stop, CloseIntake, GraceExpires, StopCleanup, CleanupGraceExpires,
       Quiet, store, remote
  <2>2. cleanupQueue' \subseteq cleanupQueue
    BY <1>3 DEF Start, Serve, Stop, CloseIntake, GraceExpires, StopCleanup, CleanupGraceExpires,
       Quiet, sweep
  <2>3. Conveyed
    BY <2>1, <2>2, ConveyedBy
  <2>4. ASSUME NEW m \in MR PROVE Unread(m)' = Unread(m)
    <3>1. CASE Start
      BY <3>1 DEF Start, Quiet, store, Unread, Known, alive
    <3>2. CASE ~Start
      <4>1. toLoad' = toLoad /\ alive /\ alive'
        BY <1>3, <3>2 DEF Serve, Stop, CloseIntake, GraceExpires, StopCleanup,
           CleanupGraceExpires, Quiet, alive
      <4> QED
        BY <2>1, <4>1 DEF Unread, Known
    <3> QED
      BY <3>1, <3>2
  <2>5. \A m \in MR : Moves(m)
    BY <2>1, <2>3, <2>4, SameReviews, OneStays DEF Moves
  <2>6. Releases'
    BY <2>3, ConveyedReleases DEF IInv, TypeOK, SweepOK
  <2> QED
    BY <2>1, <2>5, <2>6, SameMarks, SameHandlers, SortStep
<1> QED
  BY <1>1, <1>2, <1>3 DEF Lifecycle

LEMMA NextSorts ==
    ASSUME IInv, IInv', SortInv, [Next]_vars
    PROVE  SortInv'
<1>1. ASSUME NEW m \in MR, \/ EnqueueEvent(m) \/ Abort(m) \/ TimerFires(m)
                           \/ RestoreJob(m) \/ DropEntry(m)
      PROVE  SortInv'
  BY <1>1, IntakeSorts, AbortSorts, TimerSorts, RestoreSorts, DropSorts
<1>2. ASSUME NEW n \in Note, AwardAck(n) \/ HandleReview(n)
      PROVE  SortInv'
  BY <1>2, HandlerSorts
<1>3. ASSUME NEW w \in Worker, WorkerStep(w)
      PROVE  SortInv'
  BY <1>3, TakeSorts, ReviewSorts, FinishSorts DEF WorkerStep
<1>4. ASSUME NEW c \in Cleaner, CleanerStep(c)
      PROVE  SortInv'
  BY <1>4, CleanerTakeSorts, CleanerSettleSorts, CleanerCancelledSorts, CleanerCompleteSorts
  DEF CleanerStep
<1>5. ASSUME NEW t \in Target, LateCommit(t) \/ WindowEnds(t)
      PROVE  SortInv'
  BY <1>5, RemoteSorts
<1>6. CASE Lifecycle
  BY <1>6, LifecycleSorts
<1>7. CASE UNCHANGED vars
  <2>1. UNCHANGED <<job, disk, life, handler, worker, cleaner, cleanupQueue, mark>>
    BY <1>7 DEF vars, store, sweep, remote
  <2> QED
    BY <2>1, ConveyedBy, SameReviews, SameMarks, IdleSorts
<1> QED
  BY <1>1, <1>2, <1>3, <1>4, <1>5, <1>6, <1>7 DEF Next

LEMMA InvariantSorts == Spec => []SortInv
<1>1. Init => SortInv
  <2> SUFFICES ASSUME Init PROVE SortInv
    OBVIOUS
  <2>1. ASSUME NEW m \in MR
        PROVE  Claimed(m) = {} /\ Awaiting(m) = {} /\ Revoked(m) = {}
    <3>1. job[m] = NoJob /\ Unread(m) = None
      BY DEF Init, Unread
    <3>2. InReview(m) = {} /\ OnTheWay(m) = {} /\ RevokedOnTheWay(m) = {}
      BY DEF Init, InReview, Busy, IdleWorker, OnTheWay, RevokedOnTheWay, InQueue, InHand,
         IdleCleaner
    <3> QED
      BY <3>1, <3>2, NoJobType DEF Claimed, Awaiting, Revoked, JobClaims, JobRevokes,
         MaybeTargets, EntryClaims, EntryAwaits, EntryRevokes
  <2>2. Undecided
    BY DEF Init, Undecided, Undecorated, Target
  <2>3. Releases
    BY DEF Init, Releases, IdleCleaner
  <2> QED
    BY <2>1, <2>2, <2>3 DEF SortInv, Apart, Homed
<1>2. IInv /\ IInv' /\ SortInv /\ [Next]_vars => SortInv'
  BY NextSorts
<1> QED
  BY <1>1, <1>2, InductiveInvariant, PTL DEF Spec

\* The note of a review that was aborted before it ran never shows the outcome of the
\* review ahead of it: through parking, merging, aborts in the middle of a settlement,
\* retries, restarts and the last sweep of a shutdown, no target is ever named both by a
\* cleanup's event and by the notes that cleanup only revokes, and marks that show an
\* outcome are only put on the former.
THEOREM RevokedStayUndecorated == Spec => []RevokedNotDecorated
<1>1. SortInv => RevokedNotDecorated
  BY DEF SortInv, Homed, Revoked, JobRevokes, Undecorated, RevokedNotDecorated
<1> QED
  BY <1>1, InvariantSorts, PTL

-----------------------------------------------------------------------------
(* Reactions: whoever must settle one, does.                               *)

\* The reaction says "in progress", or an award that timed out may still land; nobody
\* has given it up.
Live(t) == t \notin dropped /\ (mark[t] = "busy" \/ t \in inflight)
Flying(t) == t \in inflight /\ t \notin dropped
Over(S) == \A t \in S : ~Live(t)

\* An event knows of the awards that may still land on its targets.
Wary(e) == \A t \in MaybeTargets(e) : Flying(t) => t \in MaybeUnsure(e)
JobWary(j) ==
    /\ Wary(j.latest) /\ Wary(j.pending)
    /\ j.cleanup # None => Wary(j.cleanup.event) /\ Wary(j.cleanup.aborted)
EntryWary(e) == e # None => Wary(e.event) /\ Wary(e.pending) /\ Wary(e.aborted)

\* A job in cleanup settles the event it has, a review has aborted nothing behind itself.
Agreed(j) == j.cleanup # None =>
    j.latest = j.cleanup.event /\ (j.status = "running" => j.cleanup.aborted = None)
Sound(m) == JobWary(job[m]) /\ EntryWary(Unread(m)) /\ Agreed(job[m])

\* An award is in doubt only in its window, and only once it was asked for.
Windows ==
    /\ inflight \subseteq open
    /\ \A n \in Note : handler[n] \in {"new", "acked"} => n \notin inflight

\* The worker's copy is the job's event, unless an abort came between; what it has
\* settled in the job's event is settled.
Matched(w) == worker[w].version # 0 /\ worker[w].version = job[worker[w].mr].version
Tied(w) == Busy(w) =>
    LET v == worker[w]
        j == job[v.mr] IN
    /\ v.version <= j.version
    /\ v.step = "start" => v.mr \in MaybeTargets(j.latest)
    /\ j.cleanup = None => /\ v.event = j.latest
                           /\ v.step \in {"settle", "finish"} => v.outcome = "interrupted"
    /\ v.step = "check" /\ v.mr \in MaybeTargets(j.latest) => v.mr \in v.event.targets
    /\ v.step = "settle" /\ Matched(w) => v.event = j.latest
    /\ v.step = "finish" /\ v.outcome # "interrupted" /\ Matched(w) =>
          Wary(v.event) /\ Over(MaybeTargets(j.latest) \ v.event.targets)

\* A release names notes.  Cleanup of a job is on its way once, and what it has settled
\* of the job's cleanup is settled, unless that has changed since.
Released(k) ==
    /\ k.aborted = None /\ Wary(k.event)
    /\ \A t \in k.event.targets : t \in Note /\ handler[t] = "done"
Current(k) == LET j == job[k.mr] IN
    /\ j.status = "cleanup" /\ k.version <= j.version
    /\ k.version = j.version =>
          /\ Wary(k.event) /\ Wary(k.aborted)
          /\ Over((MaybeTargets(j.latest) \cup JobRevokes(j)) \ WorkTargets(k))
WorkOK(k) == IF k.durable THEN Current(k) ELSE Released(k)
Works == cleanupQueue \cup {cleaner[c].work : c \in {c \in Cleaner : cleaner[c].step # "idle"}}
Solo(m) ==
    /\ \A k, l \in InQueue(m) : k = l
    /\ \A c, d \in InHand(m) : c = d
    /\ InQueue(m) = {} \/ InHand(m) = {}

\* Somebody who survives what the daemon survives will settle t.
Awarded(t) == t \in Note /\ handler[t] \in {"acked", "unsure"}
Naming(m) == JobTargets(job[m]) \cup (IF Unread(m) = None THEN {} ELSE EntryTargets(Unread(m)))
Releasing(t) == \E k \in Works : ~k.durable /\ t \in k.event.targets
Kept(t) == Awarded(t) \/ (\E m \in MR : t \in Naming(m)) \/ Releasing(t) \/ t \in fallback
Covered == \A t \in Target : Live(t) => Kept(t)

ReactInv ==
    /\ \A m \in MR : Sound(m) /\ Solo(m)
    /\ Windows /\ fallback \subseteq Note
    /\ \A w \in Worker : Tied(w)
    /\ \A k \in Works : WorkOK(k)
    /\ Covered

\* An abort during a settlement finds a parked event that fits the cap together with
\* the event being settled.
Room == \A m \in MR : job[m].status = "running" /\ job[m].cleanup # None =>
    Fits(MergedNotes(job[m]))

-----------------------------------------------------------------------------
(* What a step leaves as it is.                                            *)

\* The reaction of t is no more in doubt, and no more unsettled, than before.
Steady(t) == (Flying(t)' => Flying(t)) /\ (Live(t)' => Live(t))
Calm(m) == \A t \in Target : t = m \/ Own(m, t) => Steady(t)
NotesCalm == \A n \in Note : handler[n] = "done" => Steady(n)
Of(m, S) == \A t \in S : t = m \/ Own(m, t)

LEMMA RemoteSteady ==
    ASSUME inflight' \subseteq inflight, dropped \subseteq dropped',
           \A t \in Target : mark'[t] = "busy" => mark[t] = "busy" \/ t \in inflight,
           NEW t \in Target
    PROVE  Steady(t)
BY DEF Steady, Flying, Live

LEMMA SameRemote ==
    ASSUME UNCHANGED <<mark, inflight>>, dropped \subseteq dropped', NEW t \in Target
    PROVE  Steady(t)
BY DEF Steady, Flying, Live

LEMMA CalmBy ==
    ASSUME NotesCalm, NEW m \in MR, Steady(m)
    PROVE  Calm(m)
BY DEF Calm, NotesCalm, Own

\* The same of what is given, after the step.
WaryAfter(e) == \A t \in MaybeTargets(e) : Flying(t)' => t \in MaybeUnsure(e)
OverAfter(S) == \A t \in S : ~Live(t)'

LEMMA WaryKept ==
    ASSUME NEW m \in MR, Calm(m), NEW e \in MaybeEvent, Wary(e), Of(m, MaybeTargets(e))
    PROVE  WaryAfter(e)
<1>1. MaybeTargets(e) \subseteq Target
  BY DEF MaybeTargets, MaybeEvent, Event
<1> QED
  BY <1>1 DEF Wary, WaryAfter, Of, Calm, Steady

LEMMA OverKept ==
    ASSUME NEW m \in MR, Calm(m), NEW S \in SUBSET Target, Over(S), Of(m, S)
    PROVE  OverAfter(S)
BY DEF Over, OverAfter, Of, Calm, Steady

\* Everything a job, its entry and its worker name is the request or a note on it.
LEMMA JobIsOf ==
    ASSUME SortInv, NEW m \in MR
    PROVE  /\ Of(m, MaybeTargets(job[m].latest)) /\ Of(m, MaybeTargets(job[m].pending))
           /\ job[m].cleanup # None => Of(m, job[m].cleanup.event.targets)
           /\ job[m].cleanup # None => Of(m, MaybeTargets(job[m].cleanup.aborted))
           /\ Of(m, JobRevokes(job[m]))
BY DEF SortInv, Homed, Of, Claimed, Awaiting, Revoked, JobClaims, JobRevokes, Own

LEMMA EntryIsOf ==
    ASSUME SortInv, NEW m \in MR, Unread(m) # None
    PROVE  /\ Of(m, Unread(m).event.targets) /\ Of(m, MaybeTargets(Unread(m).pending))
           /\ Of(m, MaybeTargets(Unread(m).aborted))
BY DEF SortInv, Homed, Of, Claimed, Awaiting, Revoked, EntryClaims, EntryAwaits, EntryRevokes, Own

LEMMA CopyIsOf ==
    ASSUME IInv, SortInv, NEW w \in Worker, Busy(w)
    PROVE  Of(worker[w].mr, worker[w].event.targets)
<1>1. worker[w].mr \in MR /\ worker[w].event.targets \subseteq Claimed(worker[w].mr)
  BY BusyFacts, CopyClaimed
<1> QED
  BY <1>1 DEF SortInv, Homed, Of

LEMMA WorkIsOf ==
    ASSUME IInv, SortInv, NEW k \in Works, k.durable
    PROVE  /\ k \in Work /\ k.mr \in MR
           /\ Of(k.mr, k.event.targets) /\ Of(k.mr, MaybeTargets(k.aborted))
<1>1. k \in Work
  BY HeldFacts DEF Works, IInv, TypeOK, SweepOK
<1>2. k.mr \in MR /\ k.event.targets \subseteq Target /\ MaybeTargets(k.aborted) \subseteq Target
  BY <1>1 DEF Work, Event, MaybeEvent, MaybeTargets
<1>3. k.event.targets \subseteq Claimed(k.mr) /\ MaybeTargets(k.aborted) \subseteq Revoked(k.mr)
  <2>1. CASE k \in cleanupQueue
    BY <1>2, <2>1 DEF Claimed, Revoked, OnTheWay, RevokedOnTheWay, InQueue
  <2>2. CASE \E c \in Cleaner : cleaner[c].step # "idle" /\ k = cleaner[c].work
    BY <2>2, HeldClaimed
  <2> QED
    BY <2>1, <2>2 DEF Works
<1> QED
  BY <1>1, <1>2, <1>3 DEF SortInv, Homed, Of, Own

\* The events of a job after a step.
JobAfter(r) ==
    /\ WaryAfter(r.latest) /\ WaryAfter(r.pending)
    /\ r.cleanup # None => WaryAfter(r.cleanup.event) /\ WaryAfter(r.cleanup.aborted)

LEMMA JobEventsKept ==
    ASSUME IInv, SortInv, ReactInv, NEW m \in MR, Calm(m)
    PROVE  JobAfter(job[m])
<1>1. /\ job[m] \in Job /\ job[m].latest \in MaybeEvent /\ job[m].pending \in MaybeEvent
      /\ job[m].cleanup # None =>
            job[m].cleanup.event \in Event /\ job[m].cleanup.aborted \in MaybeEvent
  BY DEF IInv, TypeOK, StoreOK, Job, Cleanup
<1>2. /\ Wary(job[m].latest) /\ Wary(job[m].pending)
      /\ job[m].cleanup # None => Wary(job[m].cleanup.event) /\ Wary(job[m].cleanup.aborted)
  BY DEF ReactInv, Sound, JobWary
<1>3. /\ Of(m, MaybeTargets(job[m].latest)) /\ Of(m, MaybeTargets(job[m].pending))
      /\ job[m].cleanup # None => Of(m, job[m].cleanup.event.targets)
      /\ job[m].cleanup # None => Of(m, MaybeTargets(job[m].cleanup.aborted))
  BY JobIsOf
<1>4. WaryAfter(job[m].latest) /\ WaryAfter(job[m].pending)
  BY <1>1, <1>2, <1>3, WaryKept
<1>5. ASSUME job[m].cleanup # None
      PROVE  WaryAfter(job[m].cleanup.event) /\ WaryAfter(job[m].cleanup.aborted)
  <2>1. job[m].cleanup.event \in MaybeEvent /\ job[m].cleanup.event # None
    BY <1>1, <1>5, NilFacts DEF MaybeEvent
  <2>2. Of(m, MaybeTargets(job[m].cleanup.event))
    BY <1>3, <1>5, <2>1 DEF MaybeTargets
  <2> QED
    BY <1>1, <1>2, <1>3, <1>5, <2>1, <2>2, WaryKept
<1> QED
  BY <1>4, <1>5 DEF JobAfter

LEMMA EntryKept ==
    ASSUME IInv, SortInv, ReactInv, NEW m \in MR, Calm(m), Unread(m) # None
    PROVE  /\ WaryAfter(Unread(m).event) /\ WaryAfter(Unread(m).pending)
           /\ WaryAfter(Unread(m).aborted)
<1>1. Unread(m) \in Entry
  BY DEF Unread, IInv, TypeOK, StoreOK
<1>2. /\ Unread(m).event \in MaybeEvent /\ Unread(m).event # None
      /\ Unread(m).pending \in MaybeEvent /\ Unread(m).aborted \in MaybeEvent
  BY <1>1, NilFacts DEF Entry, MaybeEvent
<1>3. Wary(Unread(m).event) /\ Wary(Unread(m).pending) /\ Wary(Unread(m).aborted)
  BY DEF ReactInv, Sound, EntryWary
<1>4. /\ Of(m, MaybeTargets(Unread(m).event)) /\ Of(m, MaybeTargets(Unread(m).pending))
      /\ Of(m, MaybeTargets(Unread(m).aborted))
  BY <1>2, EntryIsOf DEF MaybeTargets
<1> QED
  BY <1>2, <1>3, <1>4, WaryKept

\* A job that is r after the step, and whose entry is read or as it was.
LEMMA SoundAs ==
    ASSUME IInv, SortInv, ReactInv, NEW m \in MR, NEW r, JobAfter(r),
           job'[m].latest = r.latest, job'[m].pending = r.pending, job'[m].cleanup = r.cleanup,
           Agreed(job'[m]),
           Unread(m)' = None \/ (Unread(m)' = Unread(m) /\ Calm(m))
    PROVE  Sound(m)'
<1>1. JobWary(job[m])'
  BY DEF JobWary, JobAfter, Wary, WaryAfter
<1>2. EntryWary(Unread(m))'
  <2>1. CASE Unread(m)' = None
    BY <2>1 DEF EntryWary
  <2>2. CASE Unread(m)' = Unread(m) /\ Unread(m) # None /\ Calm(m)
    BY <2>2, EntryKept DEF EntryWary, Wary, WaryAfter
  <2> QED
    BY <2>1, <2>2
<1>3. Agreed(job[m])'
  BY DEF Agreed
<1> QED
  BY <1>1, <1>2, <1>3 DEF Sound

\* A job the step leaves alone, but for flags.
LEMMA SameSound ==
    ASSUME IInv, SortInv, ReactInv, NEW m \in MR, Calm(m),
           job'[m].latest = job[m].latest, job'[m].pending = job[m].pending,
           job'[m].cleanup = job[m].cleanup,
           job'[m].status = "running" => job[m].status = "running" \/ job[m].cleanup = None,
           Unread(m)' = None \/ Unread(m)' = Unread(m)
    PROVE  Sound(m)'
<1>1. Agreed(job'[m])
  BY DEF ReactInv, Sound, Agreed
<1> QED
  BY <1>1, JobEventsKept, SoundAs

-----------------------------------------------------------------------------
(* Work on its way.                                                        *)

ReleasedAfter(k) ==
    /\ k.aborted = None /\ WaryAfter(k.event)
    /\ \A t \in k.event.targets : t \in Note /\ handler'[t] = "done"
CurrentAfter(k) ==
    /\ job'[k.mr].status = "cleanup" /\ k.version <= job'[k.mr].version
    /\ k.version = job'[k.mr].version =>
          /\ WaryAfter(k.event) /\ WaryAfter(k.aborted)
          /\ OverAfter((MaybeTargets(job'[k.mr].latest) \cup JobRevokes(job'[k.mr])) \ WorkTargets(k))
WorkAfter(k) == IF k.durable THEN CurrentAfter(k) ELSE ReleasedAfter(k)

LEMMA WorkIsAfter ==
    ASSUME NEW k
    PROVE  WorkAfter(k) => WorkOK(k)'
BY DEF WorkAfter, WorkOK, CurrentAfter, ReleasedAfter, Current, Released, Wary, WaryAfter, Over, OverAfter

\* A release keeps what it is.
LEMMA ReleaseKept ==
    ASSUME IInv, ReactInv, NotesCalm, NoneForgotten, NEW k \in Works, ~k.durable
    PROVE  WorkAfter(k)
<1>1. Released(k)
  BY DEF ReactInv, WorkOK
<1>2. k.event # None
  BY HeldFacts, NilFacts DEF Works, IInv, TypeOK, SweepOK, Work
<1>3. WaryAfter(k.event)
  BY <1>1, <1>2 DEF Released, Wary, WaryAfter, NotesCalm, Steady, MaybeTargets
<1> QED
  BY <1>1, <1>3 DEF Released, ReleasedAfter, WorkAfter, NoneForgotten

\* Cleanup work stays right while its job stays in cleanup: as it was, or newer.
InCleanup(m) ==
    /\ job'[m].status = "cleanup"
    /\ \/ job'[m].version > job[m].version
       \/ /\ Calm(m) /\ job'[m].version = job[m].version
          /\ job'[m].latest = job[m].latest /\ job'[m].cleanup = job[m].cleanup

LEMMA DurableKept ==
    ASSUME IInv, IInv', SortInv, ReactInv, NEW k \in Works, k.durable, InCleanup(k.mr)
    PROVE  WorkAfter(k)
<1> DEFINE m == k.mr
<1>1. Current(k) /\ k \in Work /\ m \in MR
  BY WorkIsOf DEF ReactInv, WorkOK
<1>2. job[m] \in Job /\ job'[m] \in Job
  BY <1>1 DEF IInv, TypeOK, StoreOK
<1>3. CASE job'[m].version > job[m].version
  <2>1. /\ k.version \in Nat /\ job[m].version \in Nat /\ job'[m].version \in Nat
        /\ k.version <= job[m].version
    BY <1>1, <1>2 DEF Work, Job, Current
  <2>2. k.version <= job'[m].version /\ k.version # job'[m].version
    BY <1>3, <2>1
  <2> QED
    BY <2>2 DEF WorkAfter, CurrentAfter, InCleanup
<1>4. CASE /\ Calm(m) /\ job'[m].version = job[m].version
           /\ job'[m].latest = job[m].latest /\ job'[m].cleanup = job[m].cleanup
  <2> SUFFICES ASSUME k.version = job[m].version
               PROVE  /\ WaryAfter(k.event) /\ WaryAfter(k.aborted)
                      /\ OverAfter((MaybeTargets(job[m].latest) \cup JobRevokes(job[m]))
                                     \ WorkTargets(k))
    BY <1>1, <1>4 DEF WorkAfter, CurrentAfter, InCleanup, Current, JobRevokes
  <2>1. /\ k.event \in MaybeEvent /\ k.event # None /\ k.aborted \in MaybeEvent
    BY <1>1, NilFacts DEF Work, MaybeEvent
  <2>2. WaryAfter(k.event) /\ WaryAfter(k.aborted)
    <3>1. Of(m, MaybeTargets(k.event)) /\ Of(m, MaybeTargets(k.aborted))
      BY <2>1, WorkIsOf DEF MaybeTargets
    <3> QED
      BY <1>1, <1>4, <2>1, <3>1, WaryKept DEF Current
  <2>3. OverAfter((MaybeTargets(job[m].latest) \cup JobRevokes(job[m])) \ WorkTargets(k))
    <3> DEFINE S == (MaybeTargets(job[m].latest) \cup JobRevokes(job[m])) \ WorkTargets(k)
    <3>1. Of(m, S)
      BY <1>1, JobIsOf DEF Of
    <3>2. S \subseteq Target
      BY <1>2 DEF Job, Cleanup, MaybeTargets, JobRevokes, MaybeEvent, Event
    <3>3. Over(S)
      BY <1>1 DEF Current
    <3> QED
      BY <1>1, <1>4, <3>1, <3>2, <3>3, OverKept
  <2> QED
    BY <2>2, <2>3
<1> QED
  BY <1>3, <1>4 DEF InCleanup

\* A cleanup is on its way once: while the intake is open because it has one carrier, and
\* later because nothing new is scheduled.
LEMMA SoloStep ==
    ASSUME ReactInv, CarryInv',
           closed' => \A m \in MR : InQueue(m)' \subseteq InQueue(m) /\ InHand(m)' \subseteq InHand(m)
    PROVE  \A m \in MR : Solo(m)'
<1> SUFFICES ASSUME NEW m \in MR PROVE Solo(m)'
  OBVIOUS
<1>1. CASE closed'
  BY <1>1 DEF ReactInv, Solo
<1>2. CASE ~closed'
  BY <1>2 DEF CarryInv, Carried, Somewhere, Nowhere, Solo
<1> QED
  BY <1>1, <1>2

\* A worker that does nothing, while its job stays as it is or is aborted.
LEMMA TiedStep ==
    ASSUME IInv, IInv', SortInv, ReactInv, NEW w \in Worker, worker'[w] = worker[w], Busy(w),
           NEW m, m = worker[w].mr,
           \/ /\ Calm(m) /\ job'[m].version = job[m].version
              /\ job'[m].latest = job[m].latest /\ job'[m].cleanup = job[m].cleanup
           \/ /\ job'[m].version > job[m].version /\ job'[m].cleanup # None
              /\ m \in MaybeTargets(job'[m].latest) <=> m \in MaybeTargets(job[m].latest)
    PROVE  Tied(w)'
<1>1. /\ m \in MR /\ job[m] \in Job /\ job'[m] \in Job /\ worker[w].event \in Event
      /\ worker[w].version \in Nat
  BY BusyFacts DEF IInv, TypeOK, StoreOK, WorkerOK, WorkerState
<1>2. Tied(w) /\ Busy(w)'
  BY DEF ReactInv, Busy
<1>3. CASE /\ Calm(m) /\ job'[m].version = job[m].version
           /\ job'[m].latest = job[m].latest /\ job'[m].cleanup = job[m].cleanup
  <2>1. ASSUME worker[w].step = "finish", worker[w].outcome # "interrupted", Matched(w)
        PROVE  /\ WaryAfter(worker[w].event)
               /\ OverAfter(MaybeTargets(job[m].latest) \ worker[w].event.targets)
    <3>1. /\ Wary(worker[w].event)
          /\ Over(MaybeTargets(job[m].latest) \ worker[w].event.targets)
      BY <1>2, <2>1 DEF Tied
    <3>2. /\ worker[w].event \in MaybeEvent /\ worker[w].event # None
          /\ MaybeTargets(job[m].latest) \subseteq Target
      BY <1>1, NilFacts DEF MaybeEvent, Job, MaybeTargets, Event
    <3>3. /\ Of(m, MaybeTargets(worker[w].event))
          /\ Of(m, MaybeTargets(job[m].latest) \ worker[w].event.targets)
      BY <1>1, <3>2, CopyIsOf, JobIsOf DEF MaybeTargets, Of
    <3>4. WaryAfter(worker[w].event)
      BY <1>1, <1>3, <3>1, <3>2, <3>3, WaryKept
    <3>5. OverAfter(MaybeTargets(job[m].latest) \ worker[w].event.targets)
      BY <1>1, <1>3, <3>1, <3>2, <3>3, OverKept
    <3> QED
      BY <3>4, <3>5
  <2> QED
    BY <1>2, <1>3, <2>1 DEF Tied, Matched, Wary, WaryAfter, Over, OverAfter
<1>4. CASE /\ job'[m].version > job[m].version /\ job'[m].cleanup # None
           /\ m \in MaybeTargets(job'[m].latest) <=> m \in MaybeTargets(job[m].latest)
  <2>1. worker[w].version <= job[m].version
    BY <1>2 DEF Tied
  <2>2. /\ worker[w].version <= job'[m].version /\ worker[w].version # job'[m].version
    BY <1>1, <1>4, <2>1 DEF Job
  <2> QED
    BY <1>2, <1>4, <2>2 DEF Tied, Matched
<1> QED
  BY <1>3, <1>4

\* The step of everything: what it does to the jobs in D, to the workers that move and to
\* the work it adds is to be shown, the rest is as it was.
LEMMA ReactStep ==
    ASSUME IInv, IInv', SortInv, CarryInv', ReactInv, NEW D \in SUBSET MR,
           NotesCalm, \A n \in MR \ D : Steady(n), NoneForgotten, Windows', fallback' \subseteq Note,
           \A n \in MR \ D : job'[n] = job[n] /\ Unread(n)' = Unread(n),
           \A n \in D : Sound(n)',
           \A w \in Worker : Busy(w)' =>
               Tied(w)' \/ (worker'[w] = worker[w] /\ worker[w].mr \notin D),
           \A k \in Works' : k \in Works \/ WorkAfter(k),
           \A k \in Works' : k \in Works /\ k.durable /\ k.mr \in D =>
               InCleanup(k.mr) \/ WorkAfter(k),
           \A m \in MR : Solo(m)',
           Covered'
    PROVE  ReactInv'
<1>1. \A n \in MR \ D : Calm(n)
  BY CalmBy
<1>2. ASSUME NEW n \in MR PROVE Sound(n)'
  BY <1>1, SameSound
<1>3. ASSUME NEW w \in Worker PROVE Tied(w)'
  <2>1. CASE ~Busy(w)'
    BY <2>1 DEF Tied
  <2>2. CASE Busy(w)' /\ worker'[w] = worker[w] /\ worker[w].mr \notin D
    <3>1. Busy(w) /\ worker[w].mr \in MR
      BY <2>2, BusyFacts DEF Busy
    <3> QED
      BY <1>1, <2>2, <3>1, TiedStep
  <2> QED
    BY <2>1, <2>2
<1>4. ASSUME NEW k \in Works' PROVE WorkOK(k)'
  <2>1. WorkAfter(k)
    <3>1. CASE k \in Works /\ k.durable
      <4>1. k.mr \in MR
        BY <3>1, WorkIsOf
      <4>2. CASE k.mr \notin D
        <5>1. InCleanup(k.mr)
          BY <1>1, <3>1, <4>1, <4>2 DEF InCleanup, ReactInv, WorkOK, Current
        <5> QED
          BY <3>1, <5>1, DurableKept
      <4>3. CASE k.mr \in D
        BY <3>1, <4>3, DurableKept
      <4> QED
        BY <4>2, <4>3
    <3>2. CASE k \in Works /\ ~k.durable
      BY <3>2, ReleaseKept
    <3> QED
      BY <3>1, <3>2
  <2> QED
    BY <2>1, WorkIsAfter
<1> QED
  BY <1>2, <1>3, <1>4 DEF ReactInv

-----------------------------------------------------------------------------
(* Who keeps a reaction.                                                   *)

\* A reaction that stays unsettled stays with somebody.
LEMMA CoveredStep ==
    ASSUME ReactInv,
           \A t \in Target : Live(t)' => Live(t) \/ Kept(t)',
           \A t \in Target : Live(t)' /\ Awarded(t) => Kept(t)',
           \A t \in Target : Live(t)' /\ Releasing(t) => Kept(t)',
           \A t \in fallback : Live(t)' => Kept(t)',
           \A m \in MR : \A t \in Naming(m) : Live(t)' => Kept(t)'
    PROVE  Covered'
BY DEF ReactInv, Covered, Kept

\* The same where only the jobs in D change hands.
LEMMA CoveredHands ==
    ASSUME ReactInv, NEW D \in SUBSET MR, \A t \in Target : Steady(t),
           \A t \in Target : Awarded(t) => Kept(t)',
           \A k \in Works : ~k.durable => k \in Works',
           fallback \subseteq fallback',
           \A n \in MR \ D : job'[n] = job[n] /\ Unread(n)' = Unread(n),
           \A n \in D : \A t \in Naming(n) : Live(t)' => Kept(t)'
    PROVE  Covered'
<1>1. \A t \in Target : Live(t)' => Live(t)
  BY DEF Steady
<1>2. \A t \in Target : Releasing(t) => Releasing(t)'
  BY DEF Releasing
<1>3. \A n \in MR \ D : Naming(n)' = Naming(n)
  BY DEF Naming
<1> QED
  BY <1>1, <1>2, <1>3, CoveredStep DEF Kept

-----------------------------------------------------------------------------
(* Merging and parking, and what they release.                             *)

LEMMA MergedKeeps ==
    ASSUME NEW have \in Event, NEW new \in Event, NEW e \in Merges(have, new)
    PROVE  /\ have.targets \subseteq e.targets
           /\ WaryAfter(have) /\ WaryAfter(new) => WaryAfter(e)
           /\ Fits(Notes(have) \cup Notes(new)) => e.targets = have.targets \cup new.targets
<1>1. PICK notes \in KeptNotes(Notes(have), Notes(new)) : e = MergeKeeping(have, new, notes)
  BY DEF Merges
<1>2. Notes(have) \subseteq notes /\ notes \subseteq Notes(have) \cup Notes(new)
  BY KeptNotesBetween
<1>3. /\ e.targets = notes \cup ((have.targets \cup new.targets) \cap MR)
      /\ e.unsure = (have.unsure \cup new.unsure) \cap e.targets
  BY <1>1 DEF MergeKeeping
<1>4. have.targets \subseteq Note \cup MR /\ new.targets \subseteq Note \cup MR
  BY DEF Event, Target
<1>5. e.targets \subseteq have.targets \cup new.targets
  BY <1>2, <1>3 DEF Notes
<1>6. have # None /\ new # None /\ e # None
  BY MergesType, NilFacts
<1>7. ASSUME WaryAfter(have), WaryAfter(new) PROVE WaryAfter(e)
  BY <1>3, <1>5, <1>6, <1>7 DEF WaryAfter, MaybeTargets, MaybeUnsure
<1>8. ASSUME Fits(Notes(have) \cup Notes(new)) PROVE e.targets = have.targets \cup new.targets
  <2>1. notes = Notes(have) \cup Notes(new)
    BY <1>8 DEF KeptNotes, Fits
  <2> QED
    BY <1>3, <1>4, <2>1 DEF Notes
<1> QED
  BY <1>2, <1>3, <1>4, <1>7, <1>8 DEF Notes

LEMMA ParkedKeeps ==
    ASSUME NEW pending \in MaybeEvent, NEW e \in Event, NEW p \in Parked(pending, e)
    PROVE  /\ p \in Event /\ MaybeTargets(pending) \subseteq p.targets
           /\ p.targets \subseteq MaybeTargets(pending) \cup e.targets
           /\ WaryAfter(pending) /\ WaryAfter(e) => WaryAfter(p)
BY MergedKeeps, ParkedWithin DEF Parked, MaybeEvent, MaybeTargets

LEMMA ReducedKeeps ==
    ASSUME NEW e \in Event, NEW S \in SUBSET e.targets
    PROVE  /\ Reduced(e, S) \in Event /\ Reduced(e, S).targets = S
           /\ Reduced(e, S).unsure = e.unsure \cap S
           /\ WaryAfter(e) => WaryAfter(Reduced(e, S))
<1>1. Reduced(e, S) \in Event /\ Reduced(e, S).targets = S /\ Reduced(e, S).unsure = e.unsure \cap S
  BY DEF Reduced, Event
<1>2. e # None /\ Reduced(e, S) # None
  BY <1>1, NilFacts
<1> QED
  BY <1>1, <1>2 DEF WaryAfter, MaybeTargets, MaybeUnsure

\* What is released is on its way, or given up.
LEMMA ReleasesGive ==
    ASSUME NEW m, NEW e \in Event, NEW notes \in SUBSET e.targets, QueueReleases(m, notes, e),
           notes \subseteq Note, \A n \in notes : handler'[n] = "done", WaryAfter(e),
           UNCHANGED cleaner
    PROVE  /\ \A k \in Works' : k \in Works \/ WorkAfter(k)
           /\ Works \subseteq Works'
           /\ \A n \in notes : Live(n)' => Releasing(n)'
           /\ dropped \subseteq dropped'
           /\ \A n \in MR : InQueue(n)' = InQueue(n) /\ InHand(n)' = InHand(n)
<1>0. \A n \in MR : InQueue(n)' = InQueue(n) /\ InHand(n)' = InHand(n)
  BY ReleasesApart DEF InHand
<1>1. CASE phase = "settling"
  BY <1>0, <1>1 DEF QueueReleases, Works, Live
<1>2. CASE phase # "settling"
  <2>1. PICK fit \in SUBSET notes :
          /\ cleanupQueue' = cleanupQueue \cup {ReleaseWork(m, n, e) : n \in fit}
          /\ dropped' = dropped \cup (notes \ fit)
    BY <1>2 DEF QueueReleases
  <2>2. ASSUME NEW n \in notes
        PROVE  /\ ~ReleaseWork(m, n, e).durable /\ ReleaseWork(m, n, e).event.targets = {n}
               /\ WorkAfter(ReleaseWork(m, n, e))
    <3>1. ReleaseWork(m, n, e).event = Reduced(e, {n}) /\ ReleaseWork(m, n, e).aborted = None
          /\ ReleaseWork(m, n, e).durable = FALSE
      BY DEF ReleaseWork
    <3>2. Reduced(e, {n}).targets = {n} /\ WaryAfter(Reduced(e, {n}))
      BY ReducedKeeps
    <3> HIDE DEF ReleaseWork
    <3> QED
      BY <3>1, <3>2 DEF WorkAfter, ReleasedAfter
  <2>3. Works' = Works \cup {ReleaseWork(m, n, e) : n \in fit}
    BY <2>1 DEF Works
  <2>4. \A n \in notes : Live(n)' => Releasing(n)'
    BY <2>1, <2>2, <2>3 DEF Live, Releasing
  <2> QED
    BY <1>0, <2>1, <2>2, <2>3, <2>4
<1> QED
  BY <1>1, <1>2

LEMMA SavedFields ==
    ASSUME StoreOK, NEW m \in MR, NEW j \in Job, Save(m, j)
    PROVE  /\ job'[m].status = j.status /\ job'[m].version = j.version
           /\ job'[m].latest = j.latest /\ job'[m].pending = j.pending
           /\ job'[m].cleanup = j.cleanup
           /\ \A n \in MR \ {m} : job'[n] = job[n] /\ disk'[n] = disk[n]
<1>1. PICK ok \in BOOLEAN :
        /\ job' = [job EXCEPT ![m] = [j EXCEPT !.persisted = ok]]
        /\ disk' = [disk EXCEPT ![m] = IF ok THEN EntryOf(j) ELSE None]
  BY DEF Save
<1>2. job'[m] = [j EXCEPT !.persisted = ok]
  BY <1>1 DEF StoreOK
<1>3. /\ job'[m].status = j.status /\ job'[m].version = j.version
      /\ job'[m].latest = j.latest /\ job'[m].pending = j.pending
      /\ job'[m].cleanup = j.cleanup
  BY <1>2 DEF Job
<1> QED
  BY <1>1, <1>3, SavedJob

-----------------------------------------------------------------------------
(* Webhook intake.                                                         *)

\* What becomes of an event that arrives: it is the event of a new job, or part of what
\* waits, or of a queued job's event; what is left out is released.
Begins(m, e) ==
    /\ job[m] = NoJob /\ job'[m].status = "queued" /\ job'[m].latest = e
    /\ job'[m].pending = None /\ job'[m].cleanup = None
    /\ UNCHANGED <<cleanupQueue, dropped>>
Grows(have, new, got) ==
    /\ MaybeTargets(have) \subseteq got.targets
    /\ got.targets \subseteq MaybeTargets(have) \cup new.targets
    /\ WaryAfter(have) /\ WaryAfter(new) => WaryAfter(got)
Waits(m, e) ==
    /\ job[m].status \in {"running", "cleanup"}
    /\ job'[m].status = job[m].status /\ job'[m].version = job[m].version
    /\ job'[m].latest = job[m].latest /\ job'[m].cleanup = job[m].cleanup
    /\ job'[m].pending \in Event /\ Grows(job[m].pending, e, job'[m].pending)
    /\ QueueReleases(m, e.targets \ job'[m].pending.targets, e)
Combines(m, e) ==
    /\ job[m].status = "queued" /\ job[m].cleanup = None
    /\ job'[m].status = "queued" /\ job'[m].pending = job[m].pending /\ job'[m].cleanup = None
    /\ job'[m].latest \in Event /\ Grows(job[m].latest, e, job'[m].latest)
    /\ QueueReleases(m, e.targets \ job'[m].latest.targets, e)

LEMMA ParksPending ==
    ASSUME IInv, NEW m \in MR, NEW e \in Event, NEW p \in Event,
           job[m].status \in {"running", "cleanup"}, Save(m, [job[m] EXCEPT !.pending = p]),
           Grows(job[m].pending, e, p),
           QueueReleases(m, (MaybeTargets(job[m].pending) \cup e.targets) \ p.targets, e)
    PROVE  Waits(m, e)
<1>1. job[m] \in Job /\ p \in MaybeEvent /\ StoreOK
  BY DEF IInv, TypeOK, StoreOK, MaybeEvent
<1>2. [job[m] EXCEPT !.pending = p] \in Job
  BY <1>1 DEF Job
<1>3. /\ job'[m].status = job[m].status /\ job'[m].version = job[m].version
      /\ job'[m].latest = job[m].latest /\ job'[m].cleanup = job[m].cleanup
      /\ job'[m].pending = p
  BY <1>1, <1>2, SavedFields DEF Job
<1>4. (MaybeTargets(job[m].pending) \cup e.targets) \ p.targets = e.targets \ p.targets
  BY DEF Grows
<1> QED
  BY <1>3, <1>4 DEF Waits

LEMMA EnqueueDoes ==
    ASSUME IInv, NEW m \in MR, NEW e \in Event, Enqueue(m, e)
    PROVE  Begins(m, e) \/ Waits(m, e) \/ Combines(m, e)
<1>1. job[m] \in Job /\ JobShape(job[m]) /\ StoreOK /\ job[m].pending \in MaybeEvent
  BY DEF IInv, TypeOK, StoreOK, Job
<1>2. CASE Admit(m, e)
  <2>1. Created(m, e)
    BY <1>2, EnqueueStep DEF Admit, Accepted, ParkedBehind, Joined
  <2> QED
    BY <1>2, <2>1 DEF Created, Begins, Admit
<1>3. CASE ParkBehindCleanup(m, e)
  <2>1. PICK p \in Parked(job[m].pending, e) :
          /\ Save(m, [job[m] EXCEPT !.pending = p])
          /\ QueueReleases(m, (MaybeTargets(job[m].pending) \cup e.targets) \ p.targets, e)
    BY <1>3 DEF ParkBehindCleanup
  <2>2. job[m].status \in {"running", "cleanup"}
    BY <1>1, <1>3 DEF ParkBehindCleanup, Job, Status, JobShape, NoJob
  <2>3. p \in Event /\ Grows(job[m].pending, e, p)
    BY <1>1, <2>1, ParkedKeeps DEF Grows
  <2> QED
    BY <2>1, <2>2, <2>3, ParksPending
<1>4. CASE ParkBehindReview(m, e)
  <2>1. PICK p \in Parked(job[m].pending, e) :
          \E kept \in KeptNotes(JobTargets(job[m]) \cap Note, Notes(p)) :
            /\ Save(m, [job[m] EXCEPT !.pending = Fitting(p, kept)])
            /\ QueueReleases(m, (MaybeTargets(job[m].pending) \cup e.targets)
                                  \ Fitting(p, kept).targets, e)
    BY <1>4 DEF ParkBehindReview
  <2>2. PICK kept \in KeptNotes(JobTargets(job[m]) \cap Note, Notes(p)) :
            /\ Save(m, [job[m] EXCEPT !.pending = Fitting(p, kept)])
            /\ QueueReleases(m, (MaybeTargets(job[m].pending) \cup e.targets)
                                  \ Fitting(p, kept).targets, e)
    BY <2>1
  <2>3. p \in Event /\ Grows(job[m].pending, e, p)
    BY <1>1, <2>1, ParkedKeeps DEF Grows
  <2> DEFINE S == (kept \cup MR) \cap p.targets
             f == Fitting(p, kept)
  <2>4. f \in Event /\ f.targets = S /\ (WaryAfter(p) => WaryAfter(f))
    BY <2>3, ReducedKeeps DEF Fitting
  <2>5. MaybeTargets(job[m].pending) \subseteq S
    <3>1. MaybeTargets(job[m].pending) \subseteq Note \cup MR
      BY <1>1 DEF MaybeTargets, MaybeEvent, Event, Target
    <3>2. MaybeTargets(job[m].pending) \cap Note \subseteq kept
      BY <2>2, KeptNotesBetween DEF JobTargets
    <3> QED
      BY <2>3, <3>1, <3>2 DEF Grows
  <2>6. Grows(job[m].pending, e, f)
    BY <2>3, <2>4, <2>5 DEF Grows
  <2> HIDE DEF f
  <2>7. Save(m, [job[m] EXCEPT !.pending = f])
        /\ QueueReleases(m, (MaybeTargets(job[m].pending) \cup e.targets) \ f.targets, e)
    BY <2>2 DEF f
  <2> QED
    BY <1>4, <2>4, <2>6, <2>7, ParksPending DEF ParkBehindReview
<1>5. CASE Coalesce(m, e)
  <2>1. PICK l \in Merges(job[m].latest, e) :
          /\ Save(m, [job[m] EXCEPT !.latest = l])
          /\ QueueReleases(m, (job[m].latest.targets \cup e.targets) \ l.targets, e)
    BY <1>5 DEF Coalesce
  <2>2. /\ job[m].status = "queued" /\ job[m].cleanup = None /\ job[m].latest \in Event
        /\ job[m].latest # None
    BY <1>1, <1>5, NilFacts DEF Coalesce, JobShape, Job, MaybeEvent
  <2>3. l \in Event /\ Grows(job[m].latest, e, l)
    BY <2>1, <2>2, MergesType, MergedKeeps, MergedWithin DEF Grows, MaybeTargets
  <2>4. [job[m] EXCEPT !.latest = l] \in Job
    BY <1>1, <2>3 DEF Job, MaybeEvent
  <2>5. /\ job'[m].status = "queued" /\ job'[m].pending = job[m].pending
        /\ job'[m].cleanup = None /\ job'[m].latest = l
    BY <1>1, <2>1, <2>2, <2>4, SavedFields DEF Job
  <2>6. (job[m].latest.targets \cup e.targets) \ l.targets = e.targets \ l.targets
    BY <2>2, <2>3 DEF Grows, MaybeTargets
  <2> QED
    BY <2>1, <2>2, <2>3, <2>5, <2>6 DEF Combines
<1> QED
  BY <1>2, <1>3, <1>4, <1>5 DEF Enqueue

\* Steps that change no reaction are calm for every target.
LEMMA StillCalm ==
    ASSUME UNCHANGED <<mark, inflight>>, dropped \subseteq dropped'
    PROVE  /\ \A t \in Target : Steady(t)
           /\ NotesCalm /\ \A m \in MR : Steady(m) /\ Calm(m)
<1>1. \A t \in Target : Steady(t)
  BY SameRemote
<1> QED
  BY <1>1 DEF NotesCalm, Calm, Target

LEMMA ReleaseNothing ==
    ASSUME NEW m, NEW e, QueueReleases(m, {}, e)
    PROVE  cleanupQueue' = cleanupQueue /\ dropped' = dropped
BY DEF QueueReleases

\* An event that arrives finds somebody for each of its targets.
LEMMA EnqueueReacts ==
    ASSUME IInv, IInv', SortInv, CarryInv', ReactInv, NEW m \in MR, NEW e \in Event,
           e.targets \subseteq Arrived(m), WaryAfter(e), Enqueue(m, e), Known(m), NoneForgotten,
           UNCHANGED <<worker, cleaner, life, remote, fallback>>,
           \A n \in Note : handler'[n] = handler[n] \/ (n \in e.targets /\ handler'[n] = "done")
    PROVE  ReactInv'
<1>1. /\ job[m] \in Job /\ job[m].latest \in MaybeEvent /\ job[m].pending \in MaybeEvent
      /\ JobShape(job[m])
  BY DEF IInv, TypeOK, StoreOK, Job
<1>2. /\ \A n \in MR \ {m} : job'[n] = job[n] /\ Unread(n)' = Unread(n)
      /\ Unread(m) = None /\ Unread(m)' = None
  BY EnqueueStep DEF Accepted, JobStep, Unread, Known, life, alive
<1>3. e.targets \subseteq Note /\ \A n \in e.targets : handler'[n] = "done"
  BY DEF Arrived
<1>4. /\ \A k \in Works' : k \in Works \/ WorkAfter(k)
      /\ Works \subseteq Works'
      /\ dropped \subseteq dropped'
      /\ \A n \in MR : InQueue(n)' = InQueue(n) /\ InHand(n)' = InHand(n)
      /\ Waits(m, e) => \A n \in e.targets \ job'[m].pending.targets : Live(n)' => Releasing(n)'
      /\ Combines(m, e) => \A n \in e.targets \ job'[m].latest.targets : Live(n)' => Releasing(n)'
  <2>1. CASE Begins(m, e)
    BY <2>1 DEF Begins, Works, InQueue, InHand, Waits, Combines, NoJob
  <2>2. CASE Waits(m, e)
    <3> DEFINE notes == e.targets \ job'[m].pending.targets
    <3>1. notes \in SUBSET e.targets /\ QueueReleases(m, notes, e)
      BY <2>2 DEF Waits
    <3> HIDE DEF notes
    <3>2. /\ \A k \in Works' : k \in Works \/ WorkAfter(k)
          /\ Works \subseteq Works'
          /\ \A n \in notes : Live(n)' => Releasing(n)'
          /\ dropped \subseteq dropped'
          /\ \A n \in MR : InQueue(n)' = InQueue(n) /\ InHand(n)' = InHand(n)
      BY <1>3, <3>1, ReleasesGive
    <3>3. ~Combines(m, e)
      BY <2>2 DEF Waits, Combines
    <3> QED
      BY <3>2, <3>3 DEF notes
  <2>3. CASE Combines(m, e)
    <3> DEFINE notes == e.targets \ job'[m].latest.targets
    <3>1. notes \in SUBSET e.targets /\ QueueReleases(m, notes, e)
      BY <2>3 DEF Combines
    <3> HIDE DEF notes
    <3>2. /\ \A k \in Works' : k \in Works \/ WorkAfter(k)
          /\ Works \subseteq Works'
          /\ \A n \in notes : Live(n)' => Releasing(n)'
          /\ dropped \subseteq dropped'
          /\ \A n \in MR : InQueue(n)' = InQueue(n) /\ InHand(n)' = InHand(n)
      BY <1>3, <3>1, ReleasesGive
    <3>3. ~Waits(m, e)
      BY <2>3 DEF Waits, Combines
    <3> QED
      BY <3>2, <3>3 DEF notes
  <2> QED
    BY <2>1, <2>2, <2>3, EnqueueDoes
<1>5. /\ \A t \in Target : Steady(t)
      /\ NotesCalm /\ \A n \in MR : Steady(n) /\ Calm(n)
  BY <1>4, StillCalm DEF remote
<1>6. JobAfter(job[m]) /\ Agreed(job[m])
  BY <1>5, JobEventsKept DEF ReactInv, Sound
<1>7. Sound(m)'
  <2>1. JobAfter(job'[m])
    <3>1. CASE Begins(m, e)
      BY <3>1 DEF Begins, JobAfter, WaryAfter, MaybeTargets
    <3>2. CASE Waits(m, e)
      BY <1>6, <3>2 DEF Waits, Grows, JobAfter
    <3>3. CASE Combines(m, e)
      BY <1>6, <3>3 DEF Combines, Grows, JobAfter
    <3> QED
      BY <3>1, <3>2, <3>3, EnqueueDoes
  <2>2. Agreed(job'[m])
    BY <1>6, EnqueueDoes DEF Begins, Waits, Combines, Agreed
  <2> QED
    BY <1>2, <2>1, <2>2, SoundAs
<1>15. job[m].status \in {"running", "cleanup"} => Waits(m, e)
  <2>1. Begins(m, e) => job[m].status = "none"
    BY NoJobType DEF Begins
  <2>2. Combines(m, e) => job[m].status = "queued"
    BY DEF Combines
  <2> QED
    BY <2>1, <2>2, EnqueueDoes
<1>8. ASSUME NEW w \in Worker, Busy(w)'
      PROVE  Tied(w)' \/ (worker'[w] = worker[w] /\ worker[w].mr \notin {m})
  <2>1. Busy(w)
    BY <1>8 DEF Busy
  <2>2. CASE worker[w].mr = m
    <3>1. Waits(m, e)
      BY <1>15, <2>1, <2>2, BusyFacts
    <3> QED
      BY <1>5, <2>1, <2>2, <3>1, TiedStep DEF Waits
  <2> QED
    BY <2>2
<1>9. ASSUME NEW k \in Works', k \in Works, k.durable, k.mr \in {m}
      PROVE  InCleanup(k.mr)
  <2>1. job[m].status = "cleanup"
    BY <1>9 DEF ReactInv, WorkOK, Current
  <2>2. Waits(m, e)
    BY <1>15, <2>1
  <2> QED
    BY <1>5, <1>9, <2>1, <2>2 DEF InCleanup, Waits
<1>10. \A n \in MR : Solo(n)'
  BY <1>4, SoloStep
<1>11. ASSUME NEW t \in e.targets, Live(t)' PROVE Kept(t)'
  <2>1. CASE Begins(m, e)
    BY <1>11, <2>1, NilFacts DEF Begins, Kept, Naming, JobTargets, MaybeTargets
  <2>2. CASE Waits(m, e)
    <3>1. CASE t \in job'[m].pending.targets
      BY <2>2, <3>1, NilFacts DEF Waits, Kept, Naming, JobTargets, MaybeTargets
    <3> QED
      BY <1>4, <1>11, <2>2, <3>1 DEF Kept
  <2>3. CASE Combines(m, e)
    <3>1. CASE t \in job'[m].latest.targets
      BY <2>3, <3>1, NilFacts DEF Combines, Kept, Naming, JobTargets, MaybeTargets
    <3> QED
      BY <1>4, <1>11, <2>3, <3>1 DEF Kept
  <2> QED
    BY <2>1, <2>2, <2>3, EnqueueDoes
<1>12. ASSUME NEW t \in Naming(m) PROVE t \in Naming(m)'
  <2>1. t \in JobTargets(job[m])
    BY <1>2, <1>12 DEF Naming
  <2>2. CASE Begins(m, e)
    BY <2>1, <2>2 DEF Begins, JobTargets, NoJob, MaybeTargets
  <2>3. CASE Waits(m, e)
    <3>1. MaybeTargets(job[m].pending) \subseteq MaybeTargets(job'[m].pending)
      BY <2>3, NilFacts DEF Waits, Grows, MaybeTargets
    <3>2. JobTargets(job[m]) \subseteq JobTargets(job'[m])
      BY <2>3, <3>1 DEF Waits, JobTargets
    <3> QED
      BY <2>1, <3>2 DEF Naming
  <2>4. CASE Combines(m, e)
    <3>1. MaybeTargets(job[m].latest) \subseteq MaybeTargets(job'[m].latest)
      BY <2>4, NilFacts DEF Combines, Grows, MaybeTargets
    <3>2. JobTargets(job[m]) \subseteq JobTargets(job'[m])
      BY <2>4, <3>1 DEF Combines, JobTargets
    <3> QED
      BY <2>1, <3>2 DEF Naming
  <2> QED
    BY <2>2, <2>3, <2>4, EnqueueDoes
<1>13. Covered'
  <2>1. ASSUME NEW t \in Target, Live(t)' PROVE Kept(t)'
    <3>1. Kept(t)
      BY <1>5, <2>1 DEF Steady, ReactInv, Covered
    <3>2. CASE Awarded(t)
      BY <1>11, <2>1, <3>2 DEF Awarded, Kept
    <3>3. CASE Releasing(t)
      BY <1>4, <3>3 DEF Releasing, Kept
    <3>4. CASE t \in fallback
      BY <3>4 DEF Kept
    <3>5. ASSUME NEW n \in MR, t \in Naming(n) PROVE Kept(t)'
      <4>1. CASE n = m
        BY <1>12, <3>5, <4>1 DEF Kept
      <4>2. CASE n # m
        <5>1. Naming(n)' = Naming(n)
          BY <1>2, <4>2 DEF Naming
        <5> QED
          BY <3>5, <5>1 DEF Kept
      <4> QED
        BY <4>1, <4>2
    <3> QED
      BY <3>1, <3>2, <3>3, <3>4, <3>5 DEF Kept
  <2> QED
    BY <2>1 DEF Covered
<1>14. Windows' /\ fallback' \subseteq Note
  BY DEF ReactInv, Windows, remote
<1> QED
  <2>1. {m} \in SUBSET MR
    OBVIOUS
  <2> HIDE DEF ReactInv
  <2> QED
    BY <1>2, <1>4, <1>5, <1>7, <1>8, <1>9, <1>10, <1>13, <1>14, <2>1, ReactStep

LEMMA IntakeReacts ==
    ASSUME IInv, IInv', SortInv, CarryInv', ReactInv, NEW m \in MR, EnqueueEvent(m)
    PROVE  ReactInv'
<1>1. \A k \in Trigger : /\ [kind |-> k, targets |-> {}, unsure |-> {}] \in Event
                         /\ [kind |-> k, targets |-> {}, unsure |-> {}].targets = {}
  BY DEF Event
<1>2. PICK e \in Event : Enqueue(m, e) /\ e.targets = {}
  BY <1>1 DEF EnqueueEvent, Trigger
<1>3. Known(m) /\ UNCHANGED <<worker, cleaner, life, remote, handler, fallback>>
  BY ServingFacts DEF EnqueueEvent, Known
<1>4. WaryAfter(e)
  BY <1>2, NilFacts DEF WaryAfter, MaybeTargets
<1> QED
  BY <1>2, <1>3, <1>4, SameHandlers, EnqueueReacts

LEMMA HandleReviewReacts ==
    ASSUME IInv, IInv', SortInv, CarryInv', ReactInv, NEW n \in Note, HandleReview(n)
    PROVE  ReactInv'
<1> DEFINE m == NoteMR[n]
           e == CommandEvent(n)
<1>1. /\ m \in MR /\ e \in Event /\ e.targets = {n}
      /\ e.unsure = IF handler[n] = "unsure" THEN {n} ELSE {}
  BY SizeAssumption DEF CommandEvent, Event, Trigger, Target
<1>2. /\ handler[n] \in {"acked", "unsure"} /\ handler' = [handler EXCEPT ![n] = "done"]
      /\ UNCHANGED <<worker, cleaner, fallback, life, remote>>
  BY DEF HandleReview
<1>3. /\ handler'[n] = "done" /\ \A o \in Note \ {n} : handler'[o] = handler[o]
      /\ NoneForgotten /\ n \in Arrived(m)
  BY <1>2 DEF IInv, TypeOK, RequestsOK, NoneForgotten, Arrived
<1>4. dropped \subseteq dropped'
  BY EnqueueDoes, <1>1 DEF HandleReview, Enqueue, QueueReleases, Admit, ParkBehindCleanup, ParkBehindReview, Coalesce
<1>5. WaryAfter(e)
  <2>1. Flying(n)' => n \in e.unsure
    BY <1>1, <1>2, <1>4 DEF Flying, ReactInv, Windows, remote
  <2>2. e # None
    BY <1>1, NilFacts
  <2> QED
    BY <1>1, <2>1, <2>2 DEF WaryAfter, MaybeTargets, MaybeUnsure
<1> HIDE DEF e, m
<1>6. CASE Enqueue(m, e)
  <2>1. Known(m)
    BY <1>2, ServingFacts DEF Known, IInv, Rest, Asleep
  <2>2. \A o \in Note : handler'[o] = handler[o] \/ (o \in e.targets /\ handler'[o] = "done")
    BY <1>1, <1>3
  <2> QED
    BY <1>1, <1>2, <1>3, <1>5, <1>6, <2>1, <2>2, EnqueueReacts
<1>7. CASE QueueReleases(m, {n}, e) /\ UNCHANGED <<store, pool, waiting, delayed>>
  <2>1. /\ \A k \in Works' : k \in Works \/ WorkAfter(k)
        /\ Works \subseteq Works'
        /\ Live(n)' => Releasing(n)'
        /\ \A o \in MR : InQueue(o)' = InQueue(o) /\ InHand(o)' = InHand(o)
    <3>1. {n} \in SUBSET e.targets /\ {n} \subseteq Note /\ \A o \in {n} : handler'[o] = "done"
      BY <1>1, <1>3
    <3> QED
      BY <1>1, <1>2, <1>5, <1>7, <3>1, ReleasesGive
  <2>2. /\ \A t \in Target : Steady(t)
        /\ NotesCalm /\ \A o \in MR : Steady(o) /\ Calm(o)
    BY <1>2, <1>4, StillCalm DEF remote
  <2>3. \A o \in MR : job'[o] = job[o] /\ Unread(o)' = Unread(o) /\ Naming(o)' = Naming(o)
    BY <1>2, <1>7 DEF store, life, Unread, Known, alive, Naming
  <2>4. \A o \in MR : Solo(o)'
    BY <2>1, SoloStep
  <2>5. Covered'
    <3>1. \A t \in Target : Awarded(t) => Awarded(t)' \/ t = n
      BY <1>3 DEF Awarded
    <3>2. \A t \in Target : Releasing(t) => Releasing(t)'
      BY <2>1 DEF Releasing
    <3> QED
      BY <1>2, <2>1, <2>2, <2>3, <3>1, <3>2 DEF ReactInv, Covered, Kept, Steady
  <2>6. Windows' /\ fallback' \subseteq Note
    BY <1>2, <1>3 DEF ReactInv, Windows, remote
  <2>7. {} \in SUBSET MR
    OBVIOUS
  <2>8. \A w \in Worker : worker'[w] = worker[w]
    BY <1>2
  <2> QED
    BY <1>3, <2>1, <2>2, <2>3, <2>4, <2>5, <2>6, <2>7, <2>8, ReactStep
<1> QED
  BY <1>6, <1>7 DEF HandleReview, m, e

LEMMA AwardAckReacts ==
    ASSUME IInv, IInv', SortInv, CarryInv', ReactInv, NEW n \in Note, AwardAck(n)
    PROVE  ReactInv'
<1>1. /\ handler[n] = "new" /\ handler'[n] \in {"acked", "unsure"}
      /\ \A o \in Note \ {n} : handler'[o] = handler[o]
      /\ UNCHANGED <<job, disk, life, cleanupQueue, cleaner, fallback, worker, dropped>>
  BY DEF AwardAck, store, sweep, IInv, TypeOK, RequestsOK
<1>2. \A t \in Target \ {n} : mark'[t] = mark[t]
  BY DEF AwardAck, TimesOut, IInv, TypeOK, RemoteOK
<1>3. /\ \A t \in Target \ {n} : t \in inflight' <=> t \in inflight
      /\ handler'[n] = "acked" => inflight' = inflight
      /\ inflight' \subseteq open'
  BY <1>1 DEF AwardAck, TimesOut, ReactInv, Windows, IInv, TypeOK, RequestsOK
<1>4. \A t \in Target \ {n} : Steady(t)
  BY <1>1, <1>2, <1>3 DEF Steady, Flying, Live
<1>5. NotesCalm /\ NoneForgotten /\ \A m \in MR : Steady(m)
  <2>1. \A m \in MR : m \in Target \ {n}
    BY NoneAssumption DEF Target
  <2>2. \A o \in Note : handler[o] = "done" => o \in Target \ {n} /\ handler'[o] = "done"
    BY <1>1 DEF Target
  <2> QED
    BY <1>4, <2>1, <2>2 DEF NotesCalm, NoneForgotten
<1>6. Windows' /\ fallback' \subseteq Note
  <2>1. \A o \in Note : handler'[o] \in {"new", "acked"} => o \notin inflight'
    BY <1>1, <1>3 DEF ReactInv, Windows, Target
  <2> QED
    BY <1>1, <1>3, <2>1 DEF ReactInv, Windows
<1>7. /\ \A o \in MR : job'[o] = job[o] /\ Unread(o)' = Unread(o) /\ Naming(o)' = Naming(o)
      /\ Works' = Works
      /\ \A o \in MR : InQueue(o)' = InQueue(o) /\ InHand(o)' = InHand(o)
  BY <1>1 DEF life, Unread, Known, alive, Naming, Works, InQueue, InHand
<1>8. \A o \in MR : Solo(o)'
  BY <1>7, SoloStep
<1>9. Covered'
  <2>1. Awarded(n)'
    BY <1>1 DEF Awarded
  <2>2. \A t \in Target \ {n} : Awarded(t) => Awarded(t)'
    BY <1>1 DEF Awarded
  <2>3. \A t \in Target : Releasing(t) => Releasing(t)'
    BY <1>7 DEF Releasing
  <2> QED
    BY <1>1, <1>4, <1>7, <2>1, <2>2, <2>3 DEF ReactInv, Covered, Kept, Steady
<1>10. {} \in SUBSET MR
  OBVIOUS
<1> QED
  BY <1>1, <1>5, <1>6, <1>7, <1>8, <1>9, <1>10, ReactStep

-----------------------------------------------------------------------------
(* Scheduling the cleanup of a job.                                        *)

\* Job m is in cleanup after the step, with the version and the cleanup of j.
Scheduling(m, j) ==
    /\ j.cleanup # None /\ WaryAfter(j.cleanup.event) /\ WaryAfter(j.cleanup.aborted)
    /\ job'[m].status = "cleanup" /\ job'[m].version = j.version
    /\ job'[m].cleanup = j.cleanup /\ job'[m].latest = j.cleanup.event

\* The work made of a job's cleanup leaves nothing of it out.
LEMMA NewWork ==
    ASSUME NEW m \in MR, NEW j, j.version \in Nat, Scheduling(m, j)
    PROVE  WorkAfter(DurableWork(m, j)) /\ DurableWork(m, j).durable
<1> DEFINE k == DurableWork(m, j)
<1>1. /\ k.durable = TRUE /\ k.mr = m /\ k.version = j.version /\ k.event = j.cleanup.event
      /\ k.aborted = j.cleanup.aborted
  BY DEF DurableWork
<1> HIDE DEF k
<1>2. (MaybeTargets(job'[m].latest) \cup JobRevokes(job'[m])) \ WorkTargets(k) = {}
  BY <1>1 DEF Scheduling, WorkTargets, JobRevokes, MaybeTargets
<1>3. WorkAfter(k)
  BY <1>1, <1>2 DEF WorkAfter, CurrentAfter, Scheduling, OverAfter
<1> QED
  BY <1>1, <1>3 DEF k

LEMMA EnlistedWork ==
    ASSUME NEW m \in MR, NEW j, j.version \in Nat, Scheduling(m, j), Enlist(m, j)
    PROVE  /\ cleanupQueue \subseteq cleanupQueue'
           /\ \A k \in cleanupQueue' : k \in cleanupQueue \/ (k.durable /\ WorkAfter(k))
BY NewWork DEF Enlist

LEMMA ScheduledWork ==
    ASSUME NEW m \in MR, NEW j, j.version \in Nat, Scheduling(m, j), QueueDurable(m, j)
    PROVE  /\ cleanupQueue \subseteq cleanupQueue'
           /\ \A k \in cleanupQueue' : k \in cleanupQueue \/ (k.durable /\ WorkAfter(k))
           /\ closed => cleanupQueue' = cleanupQueue
BY EnlistedWork DEF QueueDurable, sweep

-----------------------------------------------------------------------------
(* Abort.                                                                  *)

\* What an abort does to the job: behind a cleanup the pending notes join the ones to
\* revoke, else the event of the job takes in the pending one and is to be settled.
Revokes(m) ==
    /\ job[m].status = "cleanup" /\ job[m].pending # None /\ job'[m].status = "cleanup"
    /\ job'[m].version = job[m].version + 1
    /\ job'[m].latest = job[m].latest /\ job'[m].pending = None
    /\ job[m].cleanup # None /\ job'[m].cleanup # None
    /\ job'[m].cleanup.event = job[m].cleanup.event
    /\ \E a \in Parked(job[m].cleanup.aborted, job[m].pending) :
          /\ job'[m].cleanup.aborted = Reduced(a, Notes(a))
          /\ QueueReleases(m, (MaybeTargets(job[m].cleanup.aborted)
                               \cup Notes(job[m].pending)) \ a.targets, job[m].pending)
Gathers(m) ==
    /\ job[m].status \in {"queued", "running"} /\ job'[m].pending = None
    /\ job'[m].version = job[m].version + 1
    /\ job'[m].cleanup = CleanupOf(job'[m].latest, "aborted")
    /\ job'[m].latest \in IF job[m].pending = None THEN {job[m].latest}
                          ELSE Merges(job[m].latest, job[m].pending)
    /\ dropped' = dropped

LEMMA AbortPendingDoes ==
    ASSUME IInv, NEW m \in MR, AbortPending(m)
    PROVE  /\ Revokes(m) /\ \A n \in MR \ {m} : job'[n] = job[n] /\ disk'[n] = disk[n]
<1>2. job[m] \in Job /\ JobShape(job[m]) /\ StoreOK
  BY DEF IInv, TypeOK, StoreOK
<1> QED
  <2>1. PICK a \in Parked(job[m].cleanup.aborted, job[m].pending) :
          /\ Save(m, [job[m] EXCEPT !.cleanup.aborted = Reduced(a, Notes(a)), !.pending = None,
                                    !.version = @ + 1])
          /\ QueueReleases(m, (MaybeTargets(job[m].cleanup.aborted)
                               \cup Notes(job[m].pending)) \ a.targets, job[m].pending)
    BY DEF AbortPending
  <2>2. /\ job[m].pending \in Event /\ job[m].cleanup \in Cleanup
        /\ job[m].cleanup.aborted \in MaybeEvent /\ job[m].cleanup # None
    BY <1>2, NilFacts DEF AbortPending, Job, JobShape, MaybeEvent, Cleanup
  <2> DEFINE r == Reduced(a, Notes(a))
             c == [job[m].cleanup EXCEPT !.aborted = r]
             next == job[m].version + 1
             i == [job[m] EXCEPT !.cleanup = c]
             j == [i EXCEPT !.pending = None, !.version = next]
  <2>3. a \in Event
    BY <2>2, ParkedWithin
  <2>4. r \in Event
    BY <2>3, ReducedType DEF Notes, Event
  <2>5. Save(m, j)
    BY <1>2, <2>1 DEF Job
  <2>6. next \in Nat /\ next = job[m].version + 1
    BY <1>2 DEF Job
  <2>12. r = Reduced(a, Notes(a))
    OBVIOUS
  <2> HIDE DEF r, next
  <2>7. c \in Cleanup /\ c.event = job[m].cleanup.event /\ c.aborted = r
    BY <2>2, <2>4 DEF Cleanup, MaybeEvent
  <2> HIDE DEF c
  <2>8. i \in Job /\ i.latest = job[m].latest /\ i.cleanup = c /\ i.status = job[m].status
    BY <1>2, <2>7 DEF Job
  <2> HIDE DEF i
  <2>9. /\ j \in Job /\ j.latest = job[m].latest /\ j.pending = None /\ j.cleanup = c
        /\ j.version = next /\ j.status = job[m].status
    BY <2>6, <2>8 DEF Job, MaybeEvent
  <2> HIDE DEF j
  <2>10. /\ job'[m].latest = job[m].latest /\ job'[m].pending = None /\ job'[m].cleanup = c
         /\ job'[m].version = next /\ job'[m].status = job[m].status
         /\ \A n \in MR \ {m} : job'[n] = job[n] /\ disk'[n] = disk[n]
    BY <1>2, <2>5, <2>9, SavedFields
  <2>11. c # None /\ job[m].status = "cleanup" /\ job[m].pending # None
    BY <2>7, NilFacts DEF AbortPending
  <2> QED
    BY <2>1, <2>2, <2>6, <2>7, <2>10, <2>11, <2>12 DEF Revokes

LEMMA AbortedFields ==
    ASSUME NEW j \in Job, j.latest # None,
           NEW e \in IF j.pending = None THEN {j.latest} ELSE Merges(j.latest, j.pending)
    PROVE  LET a == Aborting(j, e)
           IN  /\ a \in Job /\ a.latest = e /\ a.pending = None
               /\ a.cleanup = CleanupOf(e, "aborted") /\ a.cleanup # None
               /\ a.status = j.status /\ a.version = j.version + 1
<1>2. e \in Event
  BY AbortedEventType
<1> DEFINE a == [j EXCEPT !.latest = e, !.pending = None]
           next == j.version + 1
           b == [a EXCEPT !.cleanup = CleanupOf(e, "aborted"), !.version = next]
<1>4. a \in Job
  BY <1>2 DEF Job, MaybeEvent
<1>5. Aborting(j, e) = b
  BY DEF Aborting
<1>6. next = j.version + 1
  OBVIOUS
<1> HIDE DEF a, next
<1>7. b.version = next
  BY <1>4 DEF Job
<1> QED
  BY <1>2, <1>5, <1>6, <1>7, AbortedJob, AbortingType

LEMMA AbortRunningDoes ==
    ASSUME IInv, NEW m \in MR, AbortRunning(m)
    PROVE  /\ Gathers(m) /\ job'[m].status = "running" /\ cleanupQueue' = cleanupQueue
           /\ \A n \in MR \ {m} : job'[n] = job[n] /\ disk'[n] = disk[n]
<1>1. job[m] \in Job /\ JobShape(job[m]) /\ StoreOK /\ job[m].latest # None
  BY DEF IInv, TypeOK, StoreOK, AbortRunning, JobShape
<1>2. PICK e \in IF job[m].pending = None THEN {job[m].latest}
                 ELSE Merges(job[m].latest, job[m].pending) :
        Save(m, [Aborting(job[m], e) EXCEPT !.cancelled = TRUE])
  BY DEF AbortRunning
<1> DEFINE a == Aborting(job[m], e)
           j == [a EXCEPT !.cancelled = TRUE]
<1>3. /\ a \in Job /\ a.latest = e /\ a.pending = None /\ a.cleanup = CleanupOf(e, "aborted")
      /\ a.status = "running" /\ a.version = job[m].version + 1
  BY <1>1, AbortedFields DEF AbortRunning
<1>4. Save(m, j)
  BY <1>2
<1> HIDE DEF a
<1>5. /\ j \in Job /\ j.latest = e /\ j.pending = None /\ j.cleanup = CleanupOf(e, "aborted")
      /\ j.status = "running" /\ j.version = job[m].version + 1
  BY <1>3 DEF Job
<1> HIDE DEF j
<1>6. /\ job'[m].latest = e /\ job'[m].pending = None
      /\ job'[m].cleanup = CleanupOf(e, "aborted") /\ job'[m].status = "running"
      /\ job'[m].version = job[m].version + 1
      /\ \A n \in MR \ {m} : job'[n] = job[n] /\ disk'[n] = disk[n]
  BY <1>1, <1>4, <1>5, SavedFields
<1> QED
  BY <1>6 DEF Gathers, AbortRunning, sweep

LEMMA AbortQueuedDoes ==
    ASSUME IInv, NEW m \in MR, AbortQueued(m)
    PROVE  /\ Gathers(m) /\ job[m].status = "queued" /\ job'[m].status = "cleanup"
           /\ \A n \in MR \ {m} : job'[n] = job[n] /\ disk'[n] = disk[n]
           /\ \E j : /\ QueueDurable(m, j) /\ j.cleanup = job'[m].cleanup /\ j.cleanup # None
                     /\ j.version = job'[m].version /\ j.version \in Nat
<1>1. job[m] \in Job /\ JobShape(job[m]) /\ StoreOK /\ job[m].latest # None
  BY DEF IInv, TypeOK, StoreOK, AbortQueued, JobShape
<1>2. PICK e \in IF job[m].pending = None THEN {job[m].latest}
                 ELSE Merges(job[m].latest, job[m].pending) :
        /\ Save(m, Reserved([Aborting(job[m], e) EXCEPT !.status = "cleanup"]))
        /\ QueueDurable(m, [Aborting(job[m], e) EXCEPT !.status = "cleanup"])
  BY DEF AbortQueued
<1> DEFINE a == Aborting(job[m], e)
           j == [a EXCEPT !.status = "cleanup"]
<1>3. /\ a \in Job /\ a.latest = e /\ a.pending = None /\ a.cleanup = CleanupOf(e, "aborted")
      /\ a.cleanup # None /\ a.version = job[m].version + 1
  BY <1>1, AbortedFields
<1>4. Save(m, Reserved(j)) /\ QueueDurable(m, j)
  BY <1>2
<1> HIDE DEF a
<1>5. /\ j \in Job /\ j.latest = e /\ j.pending = None /\ j.cleanup = CleanupOf(e, "aborted")
      /\ j.cleanup # None /\ j.status = "cleanup" /\ j.version = job[m].version + 1
      /\ j.version \in Nat
  BY <1>3 DEF Job, Status
<1> HIDE DEF j
<1>6. /\ Reserved(j) \in Job /\ Reserved(j).latest = e /\ Reserved(j).pending = None
      /\ Reserved(j).cleanup = j.cleanup /\ Reserved(j).status = "cleanup"
      /\ Reserved(j).version = j.version
  BY <1>5, ReservedType DEF Reserved, Job
<1>7. /\ job'[m].latest = e /\ job'[m].pending = None /\ job'[m].cleanup = j.cleanup
      /\ job'[m].status = "cleanup" /\ job'[m].version = j.version
      /\ \A n \in MR \ {m} : job'[n] = job[n] /\ disk'[n] = disk[n]
  BY <1>1, <1>4, <1>6, SavedFields
<1> QED
  BY <1>4, <1>5, <1>7 DEF Gathers, AbortQueued

\* An abort of the job itself leaves no reaction behind.
LEMMA GathersAll ==
    ASSUME IInv, SortInv, CapInv, Room, ReactInv, NEW m \in MR, Gathers(m), Calm(m)
    PROVE  /\ JobTargets(job[m]) \subseteq MaybeTargets(job'[m].latest)
           /\ WaryAfter(job'[m].latest) /\ job'[m].latest \in Event
           /\ m \in MaybeTargets(job'[m].latest) <=> m \in MaybeTargets(job[m].latest)
<1>1. /\ job[m] \in Job /\ JobShape(job[m]) /\ job[m].latest \in Event
      /\ job[m].pending \in MaybeEvent
  <2>1. job[m] \in Job /\ JobShape(job[m])
    BY DEF IInv, TypeOK, StoreOK
  <2> QED
    BY <2>1 DEF Job, JobShape, Gathers, MaybeEvent
<1>2. /\ WaryAfter(job[m].latest) /\ WaryAfter(job[m].pending)
  BY JobEventsKept DEF JobAfter
<1>3. Fits(MergedNotes(job[m]))
  BY DEF Gathers, CapInv, JobFits, Room, JobShape, IInv, TypeOK, StoreOK
<1>4. JobTargets(job[m]) \subseteq job[m].latest.targets \cup MaybeTargets(job[m].pending)
  <2>1. CASE job[m].cleanup = None
    BY <1>1, <2>1, NilFacts DEF JobTargets, MaybeTargets
  <2>2. CASE job[m].cleanup # None
    <3>1. job[m].status = "running"
      BY <1>1, <2>2 DEF Gathers, JobShape
    <3>2. job[m].latest = job[m].cleanup.event /\ job[m].cleanup.aborted = None
      BY <2>2, <3>1 DEF ReactInv, Sound, Agreed
    <3> QED
      BY <1>1, <2>2, <3>2, NilFacts DEF JobTargets, MaybeTargets
  <2> QED
    BY <2>1, <2>2
<1>5. m \notin MaybeTargets(job[m].pending)
  BY NoneAssumption DEF SortInv, Homed, Awaiting, Own
<1>6. CASE job[m].pending = None
  BY <1>1, <1>2, <1>4, <1>6, NilFacts DEF Gathers, MaybeTargets
<1>7. CASE job[m].pending # None
  <2>1. /\ job[m].pending \in Event /\ job'[m].latest \in Merges(job[m].latest, job[m].pending)
    BY <1>1, <1>7 DEF Gathers, MaybeEvent
  <2>2. Fits(Notes(job[m].latest) \cup Notes(job[m].pending))
    BY <1>3, <1>7 DEF MergedNotes
  <2>3. /\ WaryAfter(job'[m].latest) /\ job'[m].latest \in Event
        /\ job'[m].latest.targets = job[m].latest.targets \cup job[m].pending.targets
    BY <1>1, <1>2, <2>1, <2>2, MergedKeeps, MergesType
  <2> QED
    BY <1>1, <1>4, <1>5, <1>7, <2>3, NilFacts DEF MaybeTargets
<1> QED
  BY <1>6, <1>7

\* What an abort behind a cleanup takes over is to be revoked, or released.
LEMMA RevokesAll ==
    ASSUME IInv, SortInv, ReactInv, NEW m \in MR, Revokes(m), Calm(m), NoneForgotten,
           UNCHANGED cleaner
    PROVE  /\ WaryAfter(job'[m].cleanup.aborted)
           /\ \A k \in Works' : k \in Works \/ WorkAfter(k)
           /\ Works \subseteq Works'
           /\ \A t \in MaybeTargets(job[m].cleanup.aborted) \cup MaybeTargets(job[m].pending) :
                 Live(t)' => t \in MaybeTargets(job'[m].cleanup.aborted) \/ Releasing(t)'
           /\ dropped \subseteq dropped'
           /\ \A n \in MR : InQueue(n)' = InQueue(n) /\ InHand(n)' = InHand(n)
<1> DEFINE p == job[m].pending
           old == job[m].cleanup.aborted
<1>1. /\ job[m] \in Job /\ JobShape(job[m]) /\ p \in MaybeEvent /\ old \in MaybeEvent
  BY DEF IInv, TypeOK, StoreOK, Revokes, Job, Cleanup
<1>2. \A t \in MaybeTargets(p) \cup MaybeTargets(old) : t \in Note /\ handler[t] = "done"
  BY DEF SortInv, Homed, Awaiting, Revoked, JobRevokes, Own, Revokes
<1>3. PICK a \in Parked(old, p) :
          /\ job'[m].cleanup.aborted = Reduced(a, Notes(a))
          /\ QueueReleases(m, (MaybeTargets(old) \cup Notes(p)) \ a.targets, p)
  BY DEF Revokes
<1>4. WaryAfter(p) /\ WaryAfter(old)
  BY JobEventsKept DEF JobAfter, Revokes
<1>5. p \in Event /\ p # None
  BY <1>1, NilFacts DEF Revokes, MaybeEvent
<1>6. /\ a \in Event /\ MaybeTargets(old) \subseteq a.targets
      /\ a.targets \subseteq MaybeTargets(old) \cup p.targets /\ WaryAfter(a)
  BY <1>1, <1>3, <1>4, <1>5, ParkedKeeps
<1>7. Notes(p) = p.targets /\ MaybeTargets(p) = p.targets /\ Notes(a) = a.targets
  BY <1>2, <1>5, <1>6 DEF Notes, MaybeTargets
<1>8. /\ WaryAfter(job'[m].cleanup.aborted)
      /\ MaybeTargets(job'[m].cleanup.aborted) = a.targets
  BY <1>3, <1>6, <1>7, ReducedKeeps, NilFacts DEF MaybeTargets
<1> DEFINE notes == (MaybeTargets(old) \cup Notes(p)) \ a.targets
<1>9. /\ notes \in SUBSET p.targets /\ notes \subseteq Note
      /\ \A n \in notes : handler'[n] = "done"
  BY <1>2, <1>6, <1>7 DEF NoneForgotten
<1>10. QueueReleases(m, notes, p)
  BY <1>3
<1>11. \A t \in MaybeTargets(old) \cup MaybeTargets(p) : t \in a.targets \/ t \in notes
  BY <1>7
<1> HIDE DEF notes
<1>12. /\ \A k \in Works' : k \in Works \/ WorkAfter(k)
       /\ Works \subseteq Works'
       /\ \A n \in notes : Live(n)' => Releasing(n)'
       /\ dropped \subseteq dropped'
       /\ \A n \in MR : InQueue(n)' = InQueue(n) /\ InHand(n)' = InHand(n)
  BY <1>4, <1>5, <1>9, <1>10, ReleasesGive
<1> QED
  BY <1>8, <1>11, <1>12

\* A step on one job that changes no reaction: who names its targets still does, or
\* gives them up.
LEMMA JobReacts ==
    ASSUME IInv, IInv', SortInv, CarryInv', ReactInv, NEW m \in MR, Known(m),
           UNCHANGED <<life, remote, handler, fallback>>, dropped \subseteq dropped',
           \A n \in MR \ {m} : job'[n] = job[n] /\ disk'[n] = disk[n],
           NEW r, JobAfter(r), Agreed(job'[m]), job'[m].latest = r.latest,
           job'[m].pending = r.pending, job'[m].cleanup = r.cleanup,
           \A w \in Worker : Busy(w)' =>
               Tied(w)' \/ (worker'[w] = worker[w] /\ worker[w].mr # m),
           \A k \in Works' : k \in Works \/ WorkAfter(k),
           \A k \in Works' : k \in Works /\ k.durable /\ k.mr = m =>
               InCleanup(m) \/ WorkAfter(k),
           \A k \in Works : ~k.durable => k \in Works',
           \A n \in MR : Solo(n)',
           \A t \in JobTargets(job[m]) : Live(t)' => Kept(t)'
    PROVE  ReactInv'
<1>1. \A t \in Target : Steady(t)
  BY StillCalm DEF remote
<1>2. NotesCalm /\ \A n \in MR : Steady(n) /\ Calm(n)
  BY StillCalm DEF remote
<1>3. \A n \in MR \ {m} : Unread(n)' = Unread(n)
  BY DEF Unread, Known, alive, life
<1>4. Unread(m) = None /\ Unread(m)' = None
  BY DEF Unread, Known, alive, life
<1>5. Sound(m)'
  BY <1>4, SoundAs
<1>6. Covered'
  <2>1. \A t \in Naming(m) : Live(t)' => Kept(t)'
    BY <1>4 DEF Naming
  <2>2. \A t \in Target : Awarded(t) => Kept(t)'
    BY DEF Awarded, Kept
  <2>3. {m} \in SUBSET MR
    OBVIOUS
  <2> HIDE DEF ReactInv
  <2> QED
    BY <1>1, <1>3, <2>1, <2>2, <2>3, CoveredHands
<1>7. Windows' /\ fallback' \subseteq Note
  BY DEF ReactInv, Windows, remote
<1>8. NoneForgotten
  BY DEF NoneForgotten
<1>9. {m} \in SUBSET MR
  OBVIOUS
<1> HIDE DEF ReactInv
<1> QED
  BY <1>2, <1>3, <1>5, <1>6, <1>7, <1>8, <1>9, ReactStep

LEMMA AbortReacts ==
    ASSUME IInv, IInv', SortInv, CarryInv', CapInv, Room, ReactInv, NEW m \in MR, Abort(m)
    PROVE  ReactInv'
<1>1. /\ Known(m) /\ alive
      /\ UNCHANGED <<worker, cleaner, fallback, life, remote, handler>>
  BY ServingFacts DEF Abort, Known
<1>2. dropped \subseteq dropped'
  BY DEF Abort, AbortPending, AbortRunning, AbortQueued, QueueReleases
<1>3. Calm(m) /\ NoneForgotten
  BY <1>1, <1>2, StillCalm DEF remote, NoneForgotten
<1>4. job[m] \in Job /\ job'[m] \in Job /\ JobAfter(job[m])
  BY <1>3, JobEventsKept DEF IInv, TypeOK, StoreOK
<1>5. \A w \in Worker : Busy(w)' => Busy(w) /\ worker'[w] = worker[w]
  BY <1>1 DEF Busy
<1>6. CASE AbortPending(m)
  <2>1. /\ Revokes(m) /\ \A n \in MR \ {m} : job'[n] = job[n] /\ disk'[n] = disk[n]
    BY <1>6, AbortPendingDoes
  <2>2. /\ WaryAfter(job'[m].cleanup.aborted)
        /\ \A k \in Works' : k \in Works \/ WorkAfter(k)
        /\ Works \subseteq Works'
        /\ \A t \in MaybeTargets(job[m].cleanup.aborted) \cup MaybeTargets(job[m].pending) :
              Live(t)' => t \in MaybeTargets(job'[m].cleanup.aborted) \/ Releasing(t)'
        /\ \A n \in MR : InQueue(n)' = InQueue(n) /\ InHand(n)' = InHand(n)
    BY <1>1, <1>3, <2>1, RevokesAll
  <2>3. JobAfter(job'[m])
    BY <1>4, <2>1, <2>2 DEF JobAfter, Revokes, WaryAfter, MaybeTargets
  <2>4. Agreed(job'[m])
    BY <2>1 DEF ReactInv, Sound, Agreed, Revokes
  <2>5. ASSUME NEW w \in Worker, Busy(w)' PROVE worker'[w] = worker[w] /\ worker[w].mr # m
    BY <1>5, <2>1, <2>5, BusyFacts DEF Revokes
  <2>6. InCleanup(m)
    BY <1>4, <2>1 DEF Revokes, InCleanup, Job
  <2>7. \A n \in MR : Solo(n)'
    BY <2>2, SoloStep
  <2>8. ASSUME NEW t \in JobTargets(job[m]), Live(t)' PROVE Kept(t)'
    <3>1. CASE t \in MaybeTargets(job[m].cleanup.aborted) \cup MaybeTargets(job[m].pending)
      <4>1. t \in MaybeTargets(job'[m].cleanup.aborted) => t \in JobTargets(job'[m])
        BY <2>1 DEF JobTargets, Revokes
      <4> QED
        BY <2>2, <2>8, <3>1, <4>1 DEF Kept, Naming
    <3>2. CASE t \in MaybeTargets(job[m].latest) \cup job[m].cleanup.event.targets
      <4>1. t \in JobTargets(job'[m])
        BY <2>1, <3>2 DEF JobTargets, Revokes
      <4> QED
        BY <4>1 DEF Kept, Naming
    <3> QED
      BY <2>1, <2>8, <3>1, <3>2 DEF JobTargets, Revokes
  <2> HIDE DEF ReactInv
  <2> QED
    BY <1>1, <1>2, <2>1, <2>2, <2>3, <2>4, <2>5, <2>6, <2>7, <2>8, JobReacts
<1>7. ASSUME Gathers(m),
             \A n \in MR \ {m} : job'[n] = job[n] /\ disk'[n] = disk[n],
             \A w \in Worker : Busy(w)' =>
                 Tied(w)' \/ (worker'[w] = worker[w] /\ worker[w].mr # m),
             \A k \in cleanupQueue' : k \in cleanupQueue \/ WorkAfter(k),
             cleanupQueue \subseteq cleanupQueue', closed => cleanupQueue' = cleanupQueue
      PROVE  ReactInv'
  <2>1. /\ JobTargets(job[m]) \subseteq MaybeTargets(job'[m].latest)
        /\ WaryAfter(job'[m].latest) /\ job'[m].latest \in Event
    BY <1>3, <1>7, GathersAll
  <2>2. /\ job'[m].pending = None /\ job'[m].cleanup = CleanupOf(job'[m].latest, "aborted")
        /\ job'[m].cleanup.event = job'[m].latest /\ job'[m].cleanup.aborted = None
        /\ job[m].status # "cleanup"
    BY <1>7 DEF Gathers, CleanupOf
  <2>3. JobAfter(job'[m]) /\ Agreed(job'[m])
    BY <2>1, <2>2 DEF JobAfter, Agreed, WaryAfter, MaybeTargets
  <2>4. \A k \in Works' : k \in Works \/ WorkAfter(k)
    BY <1>1, <1>7 DEF Works
  <2>5. Works \subseteq Works'
    BY <1>1, <1>7 DEF Works
  <2>6. \A k \in Works : k.durable => k.mr # m
    BY <2>2 DEF ReactInv, WorkOK, Current
  <2>7. \A n \in MR : Solo(n)'
    BY <1>1, <1>7, SoloStep DEF InQueue, InHand, closed, life
  <2>8. \A t \in JobTargets(job[m]) : Kept(t)'
    BY <2>1 DEF JobTargets, Kept, Naming
  <2> HIDE DEF ReactInv
  <2> QED
    BY <1>1, <1>2, <1>7, <2>3, <2>4, <2>5, <2>6, <2>7, <2>8, JobReacts
<1>8. CASE AbortRunning(m)
  <2>1. /\ Gathers(m) /\ job'[m].status = "running" /\ cleanupQueue' = cleanupQueue
        /\ \A n \in MR \ {m} : job'[n] = job[n] /\ disk'[n] = disk[n]
    BY <1>8, AbortRunningDoes
  <2>2. /\ job'[m].version > job[m].version /\ job'[m].cleanup # None
        /\ m \in MaybeTargets(job'[m].latest) <=> m \in MaybeTargets(job[m].latest)
    <3>1. job'[m].latest \in Event
      BY <1>3, <2>1, GathersAll
    <3>2. CleanupOf(job'[m].latest, "aborted") # None
      BY <3>1, AbortingType, NilFacts DEF CleanupOf, Cleanup, Outcome, MaybeEvent
    <3>3. m \in MaybeTargets(job'[m].latest) <=> m \in MaybeTargets(job[m].latest)
      BY <1>3, <2>1, GathersAll
    <3>4. job'[m].cleanup # None
      BY <2>1, <3>2 DEF Gathers
    <3>5. job[m].version \in Nat /\ job'[m].version = job[m].version + 1
      BY <1>4, <2>1 DEF Gathers, Job
    <3> QED
      BY <3>3, <3>4, <3>5
  <2>3. ASSUME NEW w \in Worker, Busy(w)', worker[w].mr = m PROVE Tied(w)'
    BY <1>5, <2>2, <2>3, TiedStep
  <2> QED
    BY <1>5, <1>7, <2>1, <2>3
<1>9. CASE AbortQueued(m)
  <2>1. /\ Gathers(m) /\ job[m].status = "queued" /\ job'[m].status = "cleanup"
        /\ \A n \in MR \ {m} : job'[n] = job[n] /\ disk'[n] = disk[n]
    BY <1>9, AbortQueuedDoes
  <2>2. PICK j : /\ QueueDurable(m, j) /\ j.cleanup = job'[m].cleanup /\ j.cleanup # None
                 /\ j.version = job'[m].version /\ j.version \in Nat
    BY <1>9, AbortQueuedDoes
  <2>3. Scheduling(m, j)
    <3>1. WaryAfter(job'[m].latest) /\ job'[m].latest \in Event
      BY <1>3, <2>1, GathersAll
    <3> QED
      BY <2>1, <2>2, <3>1 DEF Scheduling, Gathers, CleanupOf, WaryAfter, MaybeTargets
  <2>4. /\ cleanupQueue \subseteq cleanupQueue'
        /\ \A k \in cleanupQueue' : k \in cleanupQueue \/ WorkAfter(k)
        /\ closed => cleanupQueue' = cleanupQueue
    BY <2>2, <2>3, ScheduledWork
  <2>5. \A w \in Worker : Busy(w)' => worker'[w] = worker[w] /\ worker[w].mr # m
    BY <1>5, <2>1, BusyFacts
  <2> QED
    BY <1>7, <2>1, <2>4, <2>5
<1> QED
  BY <1>6, <1>8, <1>9 DEF Abort

-----------------------------------------------------------------------------
(* Reviews.                                                                *)

\* A step of one worker on the job it has, or takes.
LEMMA ReviewReacts ==
    ASSUME IInv, IInv', SortInv, CarryInv', ReactInv, NEW w \in Worker, NEW m \in MR, Known(m),
           job[m].status # "cleanup",
           UNCHANGED <<cleaner, life, handler, fallback, dropped>>,
           \A v \in Worker \ {w} : worker'[v] = worker[v] /\ (Busy(v) => worker[v].mr # m),
           Tied(w)',
           \A n \in MR \ {m} : job'[n] = job[n] /\ disk'[n] = disk[n],
           \A t \in Target \ {m} : Steady(t), Windows',
           JobAfter(job'[m]), Agreed(job'[m]),
           cleanupQueue \subseteq cleanupQueue', closed => cleanupQueue' = cleanupQueue,
           \A k \in cleanupQueue' : k \in cleanupQueue \/ WorkAfter(k),
           Live(m)' => Live(m) \/ m \in JobTargets(job'[m]),
           \A t \in JobTargets(job[m]) : Live(t)' => t \in JobTargets(job'[m])
    PROVE  ReactInv'
<1>1. NotesCalm /\ \A n \in MR \ {m} : Steady(n)
  BY NoneAssumption DEF NotesCalm, Target
<1>2. \A n \in MR \ {m} : Unread(n)' = Unread(n)
  BY DEF Unread, Known, alive, life
<1>3. Unread(m) = None /\ Unread(m)' = None
  BY DEF Unread, Known, alive, life
<1>4. Sound(m)'
  BY <1>3, SoundAs
<1>5. ASSUME NEW v \in Worker, Busy(v)'
      PROVE  Tied(v)' \/ (worker'[v] = worker[v] /\ worker[v].mr # m)
  BY <1>5 DEF Busy
<1>6. Works \subseteq Works' /\ \A k \in Works' : k \in Works \/ WorkAfter(k)
  BY DEF Works
<1>7. \A k \in Works : k.durable => k.mr # m
  BY DEF ReactInv, WorkOK, Current
<1>8. \A n \in MR : Solo(n)'
  BY SoloStep DEF InQueue, InHand, closed, life
<1>9. Covered'
  <2>1. \A n \in MR \ {m} : Naming(n)' = Naming(n)
    BY <1>2 DEF Naming
  <2>2. \A t \in Naming(m) : Live(t)' => t \in Naming(m)'
    BY <1>3 DEF Naming
  <2>3. \A t \in Target : Releasing(t) => Releasing(t)'
    BY <1>6 DEF Releasing
  <2>4. \A t \in Target : Awarded(t) => Awarded(t)'
    BY DEF Awarded
  <2>5. \A t \in Target : Live(t)' => Live(t) \/ Kept(t)'
    BY DEF Steady, Kept, Naming
  <2> QED
    BY <2>1, <2>2, <2>3, <2>4, <2>5, CoveredStep DEF Kept
<1>10. NoneForgotten /\ fallback' \subseteq Note
  BY DEF NoneForgotten, ReactInv
<1>11. {m} \in SUBSET MR
  OBVIOUS
<1> HIDE DEF ReactInv
<1> QED
  BY <1>1, <1>2, <1>4, <1>5, <1>6, <1>7, <1>8, <1>9, <1>10, <1>11, ReactStep

\* A step that touches no job and leaves every reaction as settled as it was.
LEMMA IdleReacts ==
    ASSUME IInv, IInv', SortInv, CarryInv', ReactInv, UNCHANGED <<job, handler>>,
           \A n \in MR : Unread(n)' = Unread(n),
           \A t \in Target : Steady(t), Windows', fallback \subseteq fallback', fallback' \subseteq Note,
           \A w \in Worker : Busy(w)' => worker'[w] = worker[w],
           Works \subseteq Works', \A k \in Works' : k \in Works \/ WorkAfter(k),
           \A n \in MR : Solo(n)'
    PROVE  ReactInv'
<1>1. NotesCalm /\ \A n \in MR : Steady(n)
  BY DEF NotesCalm, Target
<1>2. \A t \in Target : Awarded(t) => Kept(t)'
  BY DEF Awarded, Kept
<1>3. {} \in SUBSET MR
  OBVIOUS
<1> HIDE DEF ReactInv
<1>4. Covered'
  BY <1>2, <1>3, CoveredHands
<1>5. NoneForgotten
  BY DEF NoneForgotten
<1> QED
  BY <1>1, <1>3, <1>4, <1>5, ReactStep

LEMMA TakeReacts ==
    ASSUME IInv, IInv', SortInv, CarryInv', ReactInv, NEW w \in Worker, Take(w)
    PROVE  ReactInv'
<1>1. PICK m \in MR : m = Head(queue)
  BY DEF Take, IInv, TypeOK, PoolOK
<1>2. /\ Known(m) /\ \A n \in MR : Unread(n)' = Unread(n)
      /\ UNCHANGED <<disk, sweep, cleaner, fallback, life, remote, handler, dropped>>
  BY ServingFacts DEF Take, Known, Serving, Unread, life, alive
<1>3. /\ \A t \in Target : Steady(t)
      /\ NotesCalm /\ \A n \in MR : Steady(n) /\ Calm(n)
  BY <1>2, StillCalm DEF remote
<1>4. Works' = Works /\ cleanupQueue' = cleanupQueue
  BY <1>2 DEF Works, sweep
<1>5. Windows' /\ fallback' \subseteq Note
  BY <1>2 DEF ReactInv, Windows, remote
<1>6. CASE ~Takeable(m)
  <2>1. UNCHANGED <<job, worker>>
    BY <1>1, <1>6 DEF Take
  <2>2. \A n \in MR : Solo(n)'
    BY <1>2, <1>4, SoloStep DEF InQueue, InHand
  <2> HIDE DEF ReactInv
  <2> QED
    BY <1>2, <1>3, <1>4, <1>5, <2>1, <2>2, IdleReacts
<1>7. CASE Takeable(m)
  <2>1. /\ job' = [job EXCEPT ![m].status = "running", ![m].cancelled = FALSE]
        /\ worker' = [worker EXCEPT ![w] =
               [step |-> "check", mr |-> m, event |-> job[m].latest,
                outcome |-> "none", version |-> 0]]
    BY <1>1, <1>7 DEF Take
  <2>2. /\ job[m] \in Job /\ job[m].latest # None /\ job[m].status = "queued"
        /\ job[m].cleanup = None
    BY <1>7 DEF Takeable, IInv, TypeOK, StoreOK, JobShape
  <2>3. /\ job'[m].latest = job[m].latest /\ job'[m].version = job[m].version
        /\ job'[m].pending = job[m].pending /\ job'[m].cleanup = None
        /\ \A n \in MR \ {m} : job'[n] = job[n]
    BY <2>1, <2>2 DEF IInv, TypeOK, StoreOK, Job
  <2>4. /\ worker'[w] = [step |-> "check", mr |-> m, event |-> job[m].latest,
                         outcome |-> "none", version |-> 0]
        /\ \A u \in Worker \ {w} : worker'[u] = worker[u]
    BY <2>1 DEF IInv, TypeOK, WorkerOK
  <2>5. Tied(w)'
    <3>1. 0 <= job[m].version
      BY <2>2 DEF Job
    <3> QED
      BY <2>2, <2>3, <2>4, <3>1 DEF Tied, MaybeTargets
  <2>6. JobAfter(job'[m]) /\ Agreed(job'[m])
    BY <1>3, <2>2, <2>3, JobEventsKept DEF JobAfter, Agreed
  <2>7. \A v \in Worker \ {w} : Busy(v) => worker[v].mr # m
    BY <2>2, BusyFacts
  <2>8. JobTargets(job'[m]) = JobTargets(job[m])
    BY <2>2, <2>3 DEF JobTargets
  <2>9. \A t \in Target : Live(t)' => Live(t)
    BY <1>3 DEF Steady
  <2>10. m \in Target
    BY DEF Target
  <2> HIDE DEF ReactInv
  <2> QED
    BY <1>2, <1>3, <1>4, <1>5, <2>2, <2>3, <2>4, <2>5, <2>6, <2>7, <2>8, <2>9, <2>10,
       ReviewReacts
<1> QED
  BY <1>6, <1>7

\* A request whose reaction is not settled is named by the event of its job.
LEMMA NamesItself ==
    ASSUME IInv, SortInv, ReactInv, NEW m \in MR, Known(m), Live(m)
    PROVE  m \in MaybeTargets(job[m].latest)
<1>1. m \in Target /\ m \notin Note
  BY NoneAssumption DEF Target
<1>2. PICK n \in MR : m \in Naming(n)
  BY <1>1 DEF ReactInv, Covered, Kept, Awarded, Releasing, WorkOK, Released
<1>3. n = m
  <2>1. CASE m \in JobTargets(job[n])
    <3>1. m \in Claimed(n) \cup Awaiting(n) \cup Revoked(n)
      BY <2>1 DEF JobTargets, Claimed, Awaiting, Revoked, JobClaims, JobRevokes
    <3> QED
      BY <1>1, <3>1 DEF SortInv, Homed, Own
  <2>2. CASE Unread(n) # None /\ m \in EntryTargets(Unread(n))
    <3>1. m \in Claimed(n) \cup Awaiting(n) \cup Revoked(n)
      BY <2>2 DEF EntryTargets, Claimed, Awaiting, Revoked, EntryClaims, EntryAwaits, EntryRevokes
    <3> QED
      BY <1>1, <3>1 DEF SortInv, Homed, Own
  <2> QED
    BY <1>2, <2>1, <2>2 DEF Naming
<1>4. m \in JobTargets(job[m])
  BY <1>2, <1>3 DEF Naming, Unread
<1>5. m \notin MaybeTargets(job[m].pending) /\ m \notin JobRevokes(job[m])
  BY <1>1 DEF SortInv, Homed, Own, Awaiting, Revoked
<1>6. CASE job[m].cleanup = None
  BY <1>4, <1>5, <1>6 DEF JobTargets
<1>7. CASE job[m].cleanup # None
  <2>1. m \in MaybeTargets(job[m].latest) \cup job[m].cleanup.event.targets
    BY <1>4, <1>5, <1>7 DEF JobTargets, JobRevokes
  <2>2. job[m].latest = job[m].cleanup.event
    BY <1>7 DEF ReactInv, Sound, Agreed
  <2>3. job[m].cleanup.event # None
    BY <1>7, NilFacts DEF IInv, TypeOK, StoreOK, Job, Cleanup
  <2> QED
    BY <2>1, <2>2, <2>3 DEF MaybeTargets
<1> QED
  BY <1>6, <1>7

\* Awards that were not in doubt before are not in doubt after.
LEMMA QuietEvents ==
    ASSUME ReactInv, NEW m \in MR, inflight' \subseteq inflight, dropped \subseteq dropped'
    PROVE  JobAfter(job[m]) /\ Agreed(job[m])
BY DEF ReactInv, Sound, JobWary, JobAfter, Wary, WaryAfter, Flying

\* The event of a job, with what its worker notes about its own reaction.
Widened(e, targets, unsure) == [e EXCEPT !.targets = @ \cup targets, !.unsure = @ \cup unsure]

LEMMA WidenedType ==
    ASSUME NEW e \in Event, NEW targets \in SUBSET Target, NEW unsure \in SUBSET Target
    PROVE  /\ Widened(e, targets, unsure) \in Event
           /\ Widened(e, targets, unsure).targets = e.targets \cup targets
           /\ Widened(e, targets, unsure).unsure = e.unsure \cup unsure
           /\ Widened(e, targets, unsure) # None
<1>1. /\ Widened(e, targets, unsure) \in Event
      /\ Widened(e, targets, unsure).targets = e.targets \cup targets
      /\ Widened(e, targets, unsure).unsure = e.unsure \cup unsure
  BY DEF Widened, Event
<1> QED
  BY <1>1, NilFacts

LEMMA RecordedDoes ==
    ASSUME NEW j \in Job, JobShape(j), j.status = "running",
           j.cleanup # None => j.latest = j.cleanup.event,
           NEW targets \in SUBSET Target, NEW unsure \in SUBSET Target
    PROVE  LET r == Recorded(j, targets, unsure)
           IN  /\ r \in Job /\ r.status = "running" /\ r.pending = j.pending
               /\ r.latest = Widened(j.latest, targets, unsure)
               /\ j.cleanup = None => r.cleanup = None /\ r.version = j.version
               /\ j.cleanup # None => /\ r.cleanup # None /\ r.cleanup.event = r.latest
                                      /\ r.cleanup.aborted = j.cleanup.aborted
                                      /\ r.version = j.version + 1
<1> DEFINE e == Widened(j.latest, targets, unsure)
           r == Recorded(j, targets, unsure)
<1>1. j.latest \in Event /\ j.version \in Nat
  BY DEF Job, JobShape, MaybeEvent
<1>2. e \in Event
  BY <1>1, WidenedType
<1>3. CASE j.cleanup = None
  <2>1. r = [j EXCEPT !.latest = e]
    BY <1>3 DEF Recorded, Widened, Job
  <2> HIDE DEF e, r
  <2>2. /\ r \in Job /\ r.status = "running" /\ r.latest = e /\ r.cleanup = None
        /\ r.pending = j.pending /\ r.version = j.version
    BY <1>2, <1>3, <2>1 DEF Job, MaybeEvent
  <2> QED
    BY <1>3, <2>2 DEF r, e
<1>4. CASE j.cleanup # None
  <2> DEFINE c == [j.cleanup EXCEPT !.event = e]
             i == [j EXCEPT !.cleanup = c, !.latest = e]
             next == j.version + 1
  <2>1. j.cleanup \in Cleanup
    BY <1>4 DEF Job
  <2>2. r = [i EXCEPT !.version = next]
    BY <1>4 DEF Recorded, Widened, Job
  <2> HIDE DEF e, r
  <2>3. c \in Cleanup /\ c.event = e /\ c.aborted = j.cleanup.aborted /\ c # None
    BY <1>2, <2>1, NilFacts DEF Cleanup
  <2> HIDE DEF c
  <2>4. /\ i \in Job /\ i.status = "running" /\ i.cleanup = c /\ i.latest = e
        /\ i.pending = j.pending
    BY <1>2, <2>3 DEF Job, MaybeEvent
  <2>5. next \in Nat /\ next = j.version + 1
    BY <1>1
  <2> HIDE DEF i, next
  <2>6. /\ r \in Job /\ r.status = "running" /\ r.cleanup = c /\ r.latest = e
        /\ r.pending = j.pending /\ r.version = next
    BY <2>2, <2>4, <2>5 DEF Job
  <2> QED
    BY <1>4, <2>3, <2>5, <2>6 DEF r, e
<1> QED
  BY <1>3, <1>4

\* What every step of a review has in common.
InStep(w, m) ==
    /\ Busy(w) /\ m = worker[w].mr /\ UNCHANGED <<cleaner, sweep, life, handler, fallback, dropped>>
    /\ Windows' /\ \A t \in Target \ {m} : Steady(t)

LEMMA InStepReacts ==
    ASSUME IInv, IInv', SortInv, CarryInv', ReactInv, NEW w \in Worker, NEW m \in MR, InStep(w, m),
           NEW v, worker' = [worker EXCEPT ![w] = v], Tied(w)',
           \A n \in MR \ {m} : job'[n] = job[n] /\ disk'[n] = disk[n],
           JobAfter(job'[m]), Agreed(job'[m]),
           Live(m)' => Live(m) \/ m \in JobTargets(job'[m]),
           JobTargets(job[m]) \subseteq JobTargets(job'[m])
    PROVE  ReactInv'
<1>1. Known(m) /\ job[m].status # "cleanup"
  BY BusyFacts, ServingFacts DEF InStep, Known
<1>2. \A u \in Worker \ {w} : worker'[u] = worker[u] /\ (Busy(u) => worker[u].mr # m)
  BY DEF InStep, IInv, TypeOK, WorkerOK, Rest, Exclusive
<1> HIDE DEF ReactInv
<1> QED
  BY <1>1, <1>2, ReviewReacts DEF InStep, sweep

\* The job is not written.
LEMMA UnwrittenReacts ==
    ASSUME IInv, IInv', SortInv, CarryInv', ReactInv, NEW w \in Worker, NEW m \in MR, InStep(w, m),
           NEW v, worker' = [worker EXCEPT ![w] = v], Tied(w)', UNCHANGED <<job, disk>>,
           inflight' \subseteq inflight, Live(m)' => Live(m) \/ m \in JobTargets(job[m])
    PROVE  ReactInv'
<1>1. dropped \subseteq dropped'
  BY DEF InStep
<1>2. JobAfter(job[m]) /\ Agreed(job[m])
  BY <1>1, QuietEvents
<1> HIDE DEF ReactInv
<1> QED
  BY <1>2, InStepReacts

\* The job is written with what its worker notes.
LEMMA RecordedReacts ==
    ASSUME IInv, IInv', SortInv, CarryInv', ReactInv, NEW w \in Worker, NEW m \in MR, InStep(w, m),
           NEW v, worker' = [worker EXCEPT ![w] = v], Tied(w)',
           NEW targets \in SUBSET {m}, NEW unsure \in SUBSET {m},
           Save(m, Recorded(job[m], targets, unsure)),
           m \in MaybeTargets(job[m].latest) \cup targets,
           Flying(m)' => m \in MaybeUnsure(job[m].latest) \cup unsure
    PROVE  ReactInv'
<1> DEFINE r == Recorded(job[m], targets, unsure)
           e == Widened(job[m].latest, targets, unsure)
<1>1. /\ job[m] \in Job /\ JobShape(job[m]) /\ job[m].status = "running"
      /\ job[m].latest \in Event /\ job[m].latest # None /\ StoreOK
      /\ job[m].pending \in MaybeEvent
  BY BusyFacts, NilFacts DEF InStep, IInv, TypeOK, Job
<1>2. /\ targets \in SUBSET Target /\ unsure \in SUBSET Target
      /\ job[m].cleanup # None =>
            job[m].latest = job[m].cleanup.event /\ job[m].cleanup.aborted = None
  BY <1>1 DEF Target, ReactInv, Sound, Agreed
<1>3. /\ r \in Job /\ r.status = "running" /\ r.pending = job[m].pending /\ r.latest = e
      /\ job[m].cleanup = None => r.cleanup = None
      /\ job[m].cleanup # None => /\ r.cleanup # None /\ r.cleanup.event = r.latest
                                  /\ r.cleanup.aborted = None
  BY <1>1, <1>2, RecordedDoes
<1>4. /\ e.targets = job[m].latest.targets \cup targets
      /\ e.unsure = job[m].latest.unsure \cup unsure /\ e # None
  BY <1>1, <1>2, WidenedType
<1>5. Save(m, r)
  OBVIOUS
<1> HIDE DEF r, e
<1>6. /\ job'[m].status = "running" /\ job'[m].pending = job[m].pending /\ job'[m].latest = e
      /\ job[m].cleanup = None => job'[m].cleanup = None
      /\ job[m].cleanup # None => /\ job'[m].cleanup # None /\ job'[m].cleanup.event = e
                                  /\ job'[m].cleanup.aborted = None
      /\ \A n \in MR \ {m} : job'[n] = job[n] /\ disk'[n] = disk[n]
  BY <1>1, <1>3, <1>5, SavedFields
<1>7. /\ \A t \in Target \ {m} : Flying(t)' => Flying(t)
      /\ job[m].latest.targets \subseteq Target
      /\ MaybeTargets(job[m].pending) \subseteq Target \ {m}
  <2>1. m \notin MaybeTargets(job[m].pending)
    BY NoneAssumption DEF SortInv, Homed, Awaiting, Own
  <2> QED
    BY <1>1, <2>1 DEF InStep, Steady, Event, MaybeEvent, MaybeTargets
<1>8. Wary(job[m].latest) /\ Wary(job[m].pending)
  BY DEF ReactInv, Sound, JobWary
<1>9. WaryAfter(e)
  <2>1. \A t \in e.targets \ {m} : Flying(t)' => t \in e.unsure
    BY <1>1, <1>4, <1>7, <1>8 DEF Wary, MaybeTargets, MaybeUnsure
  <2>2. Flying(m)' => m \in e.unsure
    BY <1>1, <1>4 DEF MaybeUnsure
  <2> QED
    BY <1>4, <2>1, <2>2 DEF WaryAfter, MaybeTargets, MaybeUnsure
<1>10. WaryAfter(job[m].pending)
  BY <1>7, <1>8 DEF Wary, WaryAfter
<1>11. JobAfter(job'[m]) /\ Agreed(job'[m])
  BY <1>6, <1>9, <1>10 DEF JobAfter, Agreed, WaryAfter, MaybeTargets
<1>12. m \in JobTargets(job'[m]) /\ JobTargets(job[m]) \subseteq JobTargets(job'[m])
  BY <1>1, <1>2, <1>4, <1>6 DEF JobTargets, MaybeTargets
<1> HIDE DEF ReactInv
<1> QED
  BY <1>6, <1>11, <1>12, InStepReacts

LEMMA GotoReacts ==
    ASSUME IInv, IInv', SortInv, CarryInv', ReactInv, NEW w \in Worker, Busy(w),
           NEW o, Goto(w, Ends("begin", o), o),
           UNCHANGED <<store, cleaner, sweep, life, handler, fallback, dropped, remote>>
    PROVE  ReactInv'
<1> DEFINE v == [worker[w] EXCEPT !.step = Ends("begin", o), !.outcome = o]
<1>0. PICK m \in MR : m = worker[w].mr
  BY BusyFacts
<1>1. m \in MR /\ worker[w] \in WorkerState /\ worker \in [Worker -> WorkerState]
  BY BusyFacts DEF IInv, TypeOK, WorkerOK
<1>2. worker' = [worker EXCEPT ![w] = v]
  BY <1>1 DEF Goto
<1>3. /\ v.step = Ends("begin", o) /\ v.mr = m /\ v.event = worker[w].event /\ v.outcome = o
      /\ v.version = worker[w].version
  BY <1>0, <1>1 DEF WorkerState
<1> HIDE DEF v
<1>4. worker'[w] = v
  BY <1>1, <1>2
<1>5. v.step \in {"begin", "finish"} /\ (v.step = "finish" => v.outcome = "interrupted")
  BY <1>3 DEF Ends
<1>6. Tied(w)'
  <2>1. Tied(w) /\ job' = job
    BY DEF ReactInv, store
  <2> QED
    BY <1>0, <1>3, <1>4, <1>5, <2>1 DEF Tied, Busy
<1>7. InStep(w, m)
  <2>1. \A t \in Target : Steady(t)
    BY SameRemote DEF remote
  <2> QED
    BY <1>0, <2>1 DEF InStep, ReactInv, Windows, remote
<1>8. inflight' \subseteq inflight /\ UNCHANGED <<job, disk>> /\ (Live(m)' => Live(m))
  BY DEF remote, store, Live
<1> HIDE DEF ReactInv
<1> QED
  BY <1>1, <1>2, <1>6, <1>7, <1>8, UnwrittenReacts

LEMMA CheckRequestReacts ==
    ASSUME IInv, IInv', SortInv, CarryInv', ReactInv, NEW w \in Worker, CheckRequest(w)
    PROVE  ReactInv'
<1> DEFINE e == worker[w].event
<1>1. /\ Busy(w) /\ worker[w].step = "check"
      /\ UNCHANGED <<cleaner, sweep, life, handler, fallback, dropped, remote>>
  BY DEF CheckRequest, Busy
<1>0. PICK m \in MR : m = worker[w].mr
  BY <1>1, BusyFacts
<1>2. /\ m \in MR /\ e \in Event /\ worker[w] \in WorkerState /\ worker \in [Worker -> WorkerState]
      /\ job[m] \in Job /\ JobShape(job[m]) /\ job[m].status = "running" /\ Known(m)
      /\ job[m].latest \in Event /\ job[m].latest # None
  BY <1>0, <1>1, BusyFacts, ServingFacts, NilFacts DEF IInv, TypeOK, WorkerOK, Known
<1>3. CASE \E o \in PreRunOutcomes(w) : Goto(w, Ends("begin", o), o) /\ UNCHANGED store
  BY <1>0, <1>1, <1>3, GotoReacts
<1>4. CASE /\ Save(m, Recorded(job[m], {m}, {}))
           /\ worker' = [worker EXCEPT ![w].step = "start", ![w].event.targets = @ \cup {m}]
  <2> DEFINE f == Widened(e, {m}, {})
             v == [worker[w] EXCEPT !.step = "start", !.event = f]
  <2>1. f = [e EXCEPT !.targets = @ \cup {m}]
    BY <1>0, <1>2 DEF Widened, Event
  <2>2. worker' = [worker EXCEPT ![w] = v]
    BY <1>0, <1>2, <1>4, <2>1 DEF WorkerState
  <2>3. {m} \in SUBSET {m} /\ {} \in SUBSET {m} /\ {m} \in SUBSET Target /\ {} \in SUBSET Target
    BY <1>0, <1>2 DEF Target
  <2> HIDE DEF f
  <2>4. /\ v.step = "start" /\ v.mr = m /\ v.event = f /\ v.version = worker[w].version
    BY <1>0, <1>2 DEF WorkerState
  <2> HIDE DEF v
  <2>5. worker'[w] = v
    BY <1>0, <1>2, <2>2
  <2> DEFINE r == Recorded(job[m], {m}, {})
             l == Widened(job[m].latest, {m}, {})
  <2>6. /\ r \in Job /\ r.latest = l
        /\ job[m].cleanup = None => r.cleanup = None /\ r.version = job[m].version
        /\ job[m].cleanup # None => r.cleanup # None /\ r.version = job[m].version + 1
    <3>1. job[m].cleanup # None => job[m].latest = job[m].cleanup.event
      BY <1>0, <1>2 DEF ReactInv, Sound, Agreed
    <3> QED
      BY <1>0, <1>2, <2>3, <3>1, RecordedDoes
  <2>7. l.targets = job[m].latest.targets \cup {m} /\ l # None
    <3>1. job[m].latest \in Event /\ {m} \in SUBSET Target /\ {} \in SUBSET Target
      BY <1>2, <2>3
    <3>2. l \in Event /\ l.targets = job[m].latest.targets \cup {m}
      BY <3>1 DEF Widened, Event
    <3> HIDE DEF l
    <3> QED
      BY <3>2, NilFacts
  <2>8. Save(m, r)
    BY <1>0, <1>4
  <2>9. job[m].latest = e => l = f
    BY DEF f
  <2> HIDE DEF r, l
  <2>10. /\ job'[m].latest = l
         /\ job[m].cleanup = None => job'[m].cleanup = None /\ job'[m].version = job[m].version
         /\ job[m].cleanup # None => job'[m].cleanup # None /\ job'[m].version = job[m].version + 1
    BY <1>0, <1>2, <2>6, <2>8, SavedFields DEF IInv, TypeOK
  <2>11. Tied(w)'
    <3>1. Tied(w) /\ m \in MaybeTargets(job'[m].latest)
      BY <1>0, <1>2, <2>7, <2>10 DEF ReactInv, MaybeTargets
    <3>2. worker[w].version <= job'[m].version
      <4>1. worker[w].version \in Nat /\ job[m].version \in Nat /\ worker[w].version <= job[m].version
        BY <1>0, <1>1, <1>2, <3>1 DEF Tied, WorkerState, Job
      <4> QED
        BY <1>0, <2>10, <4>1
    <3>3. job'[m].cleanup = None => f = job'[m].latest
      BY <1>0, <1>1, <2>9, <2>10, <3>1 DEF Tied
    <3> QED
      BY <1>0, <2>4, <2>5, <3>1, <3>2, <3>3 DEF Tied
  <2>12. InStep(w, m)
    <3>1. \A t \in Target : Steady(t)
      BY <1>0, <1>1, SameRemote DEF remote
    <3> QED
      BY <1>0, <1>1, <3>1 DEF InStep, ReactInv, Windows, remote
  <2>13. Flying(m)' => m \in MaybeUnsure(job[m].latest) \cup {}
    <3>1. Flying(m)' => Flying(m)
      BY <1>0, <1>1 DEF remote, Flying
    <3>2. Flying(m) => m \in MaybeTargets(job[m].latest)
      BY <1>0, <1>2, NamesItself DEF Flying, Live
    <3> QED
      BY <1>0, <1>2, <3>1, <3>2 DEF ReactInv, Sound, JobWary, Wary
  <2>14. Save(m, Recorded(job[m], {m}, {})) /\ m \in MaybeTargets(job[m].latest) \cup {m}
    BY <1>0, <1>4
  <2> HIDE DEF ReactInv
  <2> QED
    BY <1>0, <1>2, <2>2, <2>3, <2>11, <2>12, <2>13, <2>14, RecordedReacts
<1> QED
  BY <1>0, <1>3, <1>4 DEF CheckRequest

LEMMA StartReactionReacts ==
    ASSUME IInv, IInv', SortInv, CarryInv', ReactInv, NEW w \in Worker, StartReaction(w)
    PROVE  ReactInv'
<1> DEFINE e == worker[w].event
<1>1. /\ Busy(w) /\ worker[w].step = "start"
      /\ UNCHANGED <<cleaner, sweep, life, handler, fallback, dropped>>
  BY DEF StartReaction, Busy
<1>0. PICK m \in MR : m = worker[w].mr
  BY <1>1, BusyFacts
<1>2. /\ m \in MR /\ e \in Event /\ worker[w] \in WorkerState /\ worker \in [Worker -> WorkerState]
      /\ job[m] \in Job /\ JobShape(job[m]) /\ job[m].status = "running"
      /\ m \in Target /\ m \notin Note
  BY <1>0, <1>1, BusyFacts, NoneAssumption DEF IInv, TypeOK, WorkerOK, Target
<1>3. Tied(w) /\ m \in MaybeTargets(job[m].latest)
  BY <1>0, <1>1 DEF ReactInv, Tied
<1>4. ASSUME worker' = [worker EXCEPT ![w].step = "run"], UNCHANGED <<job, disk, inflight, open>>,
             \A t \in Target \ {m} : mark'[t] = mark[t]
      PROVE  ReactInv'
  <2> DEFINE v == [worker[w] EXCEPT !.step = "run"]
  <2>1. worker' = [worker EXCEPT ![w] = v]
    BY <1>0, <1>2, <1>4
  <2>2. /\ v.step = "run" /\ v.mr = m /\ v.event = e /\ v.version = worker[w].version
    BY <1>0, <1>2 DEF WorkerState
  <2> HIDE DEF v
  <2>3. worker'[w] = v
    BY <1>0, <1>2, <2>1
  <2>4. Tied(w)'
    BY <1>0, <1>1, <1>3, <1>4, <2>2, <2>3 DEF Tied, Busy
  <2>5. InStep(w, m)
    BY <1>0, <1>1, <1>4 DEF InStep, ReactInv, Windows, Steady, Flying, Live
  <2>6. inflight' \subseteq inflight /\ UNCHANGED <<job, disk>> /\ m \in JobTargets(job[m])
    BY <1>0, <1>3, <1>4 DEF JobTargets
  <2> HIDE DEF ReactInv
  <2> QED
    BY <1>0, <1>2, <2>1, <2>4, <2>5, <2>6, UnwrittenReacts
<1>5. CASE mark' = [mark EXCEPT ![m] = "busy"]
           /\ worker' = [worker EXCEPT ![w].step = "run"] /\ UNCHANGED <<store, open, inflight>>
  <2>1. \A t \in Target \ {m} : mark'[t] = mark[t]
    BY <1>0, <1>5 DEF IInv, TypeOK, RemoteOK
  <2> QED
    BY <1>0, <1>4, <1>5, <2>1 DEF store
<1>6. CASE worker' = [worker EXCEPT ![w].step = "run"] /\ UNCHANGED <<job, disk, remote>>
  BY <1>0, <1>4, <1>6 DEF remote
<1>7. CASE /\ TimesOut(m) /\ Save(m, Recorded(job[m], {}, {m}))
           /\ worker' = [worker EXCEPT ![w].step = "run", ![w].event.unsure = @ \cup {m}]
  <2> DEFINE f == Widened(e, {}, {m})
             v == [worker[w] EXCEPT !.step = "run", !.event = f]
  <2>1. f = [e EXCEPT !.unsure = @ \cup {m}]
    BY <1>0, <1>2 DEF Widened, Event
  <2>2. worker' = [worker EXCEPT ![w] = v]
    BY <1>0, <1>2, <1>7, <2>1 DEF WorkerState
  <2>3. {m} \in SUBSET {m} /\ {} \in SUBSET {m} /\ {m} \in SUBSET Target /\ {} \in SUBSET Target
    BY <1>0, <1>2
  <2> HIDE DEF f
  <2>4. /\ v.step = "run" /\ v.mr = m /\ v.event = f /\ v.version = worker[w].version
    BY <1>0, <1>2 DEF WorkerState
  <2> HIDE DEF v
  <2>5. worker'[w] = v
    BY <1>0, <1>2, <2>2
  <2> DEFINE r == Recorded(job[m], {}, {m})
             l == Widened(job[m].latest, {}, {m})
  <2>6. /\ r \in Job /\ r.latest = l
        /\ job[m].cleanup = None => r.cleanup = None /\ r.version = job[m].version
        /\ job[m].cleanup # None => r.cleanup # None /\ r.version = job[m].version + 1
    <3>1. job[m].cleanup # None => job[m].latest = job[m].cleanup.event
      BY <1>0, <1>2 DEF ReactInv, Sound, Agreed
    <3> QED
      BY <1>0, <1>2, <2>3, <3>1, RecordedDoes
  <2>8. Save(m, r)
    BY <1>0, <1>7
  <2>9. job[m].latest = e => l = f
    BY DEF f
  <2> HIDE DEF r, l
  <2>10. /\ job'[m].latest = l
         /\ job[m].cleanup = None => job'[m].cleanup = None /\ job'[m].version = job[m].version
         /\ job[m].cleanup # None => job'[m].cleanup # None /\ job'[m].version = job[m].version + 1
    BY <1>0, <1>2, <2>6, <2>8, SavedFields DEF IInv, TypeOK
  <2>11. Tied(w)'
    <3>2. worker[w].version <= job'[m].version
      <4>1. worker[w].version \in Nat /\ job[m].version \in Nat /\ worker[w].version <= job[m].version
        BY <1>0, <1>1, <1>2, <1>3 DEF Tied, WorkerState, Job, Busy
      <4> QED
        BY <1>0, <2>10, <4>1
    <3>3. job'[m].cleanup = None => f = job'[m].latest
      BY <1>0, <1>1, <1>3, <2>9, <2>10 DEF Tied
    <3> QED
      BY <1>0, <2>4, <2>5, <3>2, <3>3 DEF Tied
  <2>12. InStep(w, m)
    <3>1. open' = open \cup {m} /\ inflight' = inflight \cup {m} /\ mark' = mark
      BY <1>0, <1>7 DEF TimesOut
    <3>2. Windows'
      BY <1>0, <1>1, <1>2, <3>1 DEF ReactInv, Windows
    <3> QED
      BY <1>0, <1>1, <3>1, <3>2 DEF InStep, Steady, Flying, Live
  <2>14. /\ Save(m, Recorded(job[m], {}, {m})) /\ m \in MaybeTargets(job[m].latest) \cup {}
         /\ Flying(m)' => m \in MaybeUnsure(job[m].latest) \cup {m}
    BY <1>0, <1>3, <1>7
  <2> HIDE DEF ReactInv
  <2> QED
    BY <1>0, <1>2, <2>2, <2>3, <2>11, <2>12, <2>14, RecordedReacts
<1> QED
  BY <1>0, <1>5, <1>6, <1>7 DEF StartReaction

LEMMA RunReviewReacts ==
    ASSUME IInv, IInv', SortInv, CarryInv', ReactInv, NEW w \in Worker, RunReview(w)
    PROVE  ReactInv'
BY GotoReacts DEF RunReview, Busy

LEMMA BeginSettlementReacts ==
    ASSUME IInv, IInv', SortInv, CarryInv', ReactInv, NEW w \in Worker, BeginSettlement(w)
    PROVE  ReactInv'
<1> DEFINE e == worker[w].event
           o == worker[w].outcome
<1>1. /\ Busy(w) /\ worker[w].step = "begin" /\ o \in Outcome
      /\ UNCHANGED <<cleaner, sweep, life, handler, fallback, dropped, remote>>
  BY DEF BeginSettlement, Busy, IInv, TypeOK, WorkerOK, WorkerShape
<1>0. PICK m \in MR : m = worker[w].mr
  BY <1>1, BusyFacts
<1>2. /\ m \in MR /\ e \in Event /\ worker[w] \in WorkerState /\ worker \in [Worker -> WorkerState]
      /\ job[m] \in Job /\ job[m].latest \in Event /\ StoreOK
  BY <1>0, <1>1, BusyFacts DEF IInv, TypeOK, WorkerOK
<1>3. InStep(w, m) /\ Calm(m)
  <2>1. /\ \A t \in Target : Steady(t)
        /\ Calm(m)
    BY <1>0, <1>1, <1>2, StillCalm DEF remote
  <2> QED
    BY <1>0, <1>1, <2>1 DEF InStep, ReactInv, Windows, remote
<1>4. Tied(w)
  BY DEF ReactInv
<1>5. CASE job[m].cleanup = None
  <2> DEFINE next == job[m].version + 1
             c == CleanupOf(e, o)
             i == [job[m] EXCEPT !.latest = e, !.cleanup = c]
             r == [i EXCEPT !.version = next]
             v == [worker[w] EXCEPT !.step = "settle", !.version = next]
  <2>1. Save(m, r) /\ worker' = [worker EXCEPT ![w] = v]
    BY <1>0, <1>1, <1>2, <1>5 DEF BeginSettlement
  <2>2. next \in Nat
    BY <1>0, <1>2 DEF Job
  <2>3. c \in Cleanup /\ c # None /\ c.event = e /\ c.aborted = None
    BY <1>0, <1>1, <1>2, NilFacts DEF CleanupOf, Cleanup, MaybeEvent
  <2> HIDE DEF next, c
  <2>4. /\ v.step = "settle" /\ v.mr = m /\ v.event = e /\ v.version = next
    BY <1>0, <1>2 DEF WorkerState
  <2>5. i \in Job /\ i.latest = e /\ i.cleanup = c /\ i.pending = job[m].pending
    BY <1>0, <1>2, <2>3 DEF Job, MaybeEvent
  <2> HIDE DEF i
  <2>6. /\ r \in Job /\ r.latest = e /\ r.cleanup = c /\ r.pending = job[m].pending
        /\ r.version = next
    BY <1>0, <2>2, <2>5 DEF Job
  <2> HIDE DEF r, v
  <2>7. /\ job'[m].latest = e /\ job'[m].cleanup = c /\ job'[m].pending = job[m].pending
        /\ job'[m].version = next
        /\ \A n \in MR \ {m} : job'[n] = job[n] /\ disk'[n] = disk[n]
    BY <1>0, <1>2, <2>1, <2>6, SavedFields
  <2>8. worker'[w] = v
    BY <1>0, <1>2, <2>1
  <2>9. Tied(w)'
    <3>1. next <= next
      BY <1>0, <2>2
    <3> QED
      BY <1>0, <2>3, <2>4, <2>7, <2>8, <3>1 DEF Tied
  <2>10. e = job[m].latest
    BY <1>0, <1>1, <1>4, <1>5 DEF Tied
  <2>11. JobAfter(job'[m]) /\ Agreed(job'[m])
    BY <1>0, <1>2, <1>3, <2>3, <2>7, <2>10, JobEventsKept DEF JobAfter, Agreed, WaryAfter, MaybeTargets
  <2>12. JobTargets(job[m]) \subseteq JobTargets(job'[m])
    BY <1>0, <1>5, <2>7, <2>10 DEF JobTargets
  <2>13. Live(m)' => Live(m)
    BY <1>0, <1>1 DEF remote, Live
  <2> HIDE DEF ReactInv
  <2> QED
    BY <1>0, <1>2, <1>3, <2>1, <2>7, <2>9, <2>11, <2>12, <2>13, InStepReacts
<1>6. CASE job[m].cleanup # None
  <2> DEFINE v == [worker[w] EXCEPT !.step = "settle", !.version = 0]
  <2>1. worker' = [worker EXCEPT ![w] = v] /\ UNCHANGED <<job, disk>>
    BY <1>0, <1>1, <1>2, <1>6 DEF BeginSettlement, store
  <2>2. v.step = "settle" /\ v.mr = m /\ v.version = 0
    BY <1>0, <1>2 DEF WorkerState
  <2> HIDE DEF v
  <2>3. worker'[w] = v
    BY <1>0, <1>2, <2>1
  <2>4. Tied(w)'
    <3>1. 0 <= job[m].version
      BY <1>0, <1>2 DEF Job
    <3> QED
      BY <1>0, <1>6, <2>1, <2>2, <2>3, <3>1 DEF Tied, Matched
  <2>5. inflight' \subseteq inflight /\ (Live(m)' => Live(m))
    BY <1>0, <1>1 DEF remote, Live
  <2> HIDE DEF ReactInv
  <2> QED
    BY <1>0, <1>2, <1>3, <2>1, <2>4, <2>5, UnwrittenReacts
<1> QED
  BY <1>0, <1>5, <1>6

\* A round of replacements settles what did not fail: its award is neither shown nor, once
\* the window is over or the target gone, still to come.
LEMMA ReplaceDoes ==
    ASSUME IInv, Windows, NEW shown, DOMAIN shown \subseteq Target,
           \A t \in DOMAIN shown : shown[t] # "busy",
           NEW failed \in SUBSET (DOMAIN shown), NEW applied \in SUBSET failed,
           NEW gone \in SUBSET (DOMAIN shown \ failed), Replace(shown, failed, applied, gone),
           dropped \subseteq dropped', \A n \in Note : handler'[n] \in {handler[n], "lost"}
    PROVE  /\ \A t \in Target : Steady(t)
           /\ inflight' \subseteq inflight /\ dropped \subseteq dropped' /\ Windows'
           /\ \A t \in DOMAIN shown : Live(t)' =>
                 t \in failed \/ (Flying(t) /\ t \notin gone /\ t \in open)
<1>1. /\ \A t \in Target : mark'[t] = IF t \in gone THEN "none"
                              ELSE IF t \in (DOMAIN shown \ failed) \cup applied THEN shown[t]
                              ELSE mark[t]
      /\ open' = open \ gone /\ inflight' = inflight \ gone
  BY DEF Replace
<1>2. \A t \in Target : mark'[t] = "busy" => mark[t] = "busy"
  BY <1>1
<1>3. \A t \in Target : Steady(t)
  BY <1>1, <1>2, RemoteSteady
<1>4. Windows'
  BY <1>1 DEF Windows
<1>5. ASSUME NEW t \in DOMAIN shown, Live(t)', t \notin failed
      PROVE  Flying(t) /\ t \notin gone /\ t \in open
  BY <1>1, <1>5 DEF Live, Flying, Windows
<1> QED
  BY <1>1, <1>3, <1>4, <1>5

\* An event after the round that settled it: what is left names everything still in doubt.
LEMMA ReducedDoes ==
    ASSUME NEW e \in Event, Wary(e), NEW failed, NEW gone, \A t \in Target : Steady(t)
    PROVE  LET f == Reduced(e, Unsettled(e, failed, gone))
           IN  /\ f \in Event /\ f # None /\ f.targets = Unsettled(e, failed, gone)
               /\ WaryAfter(f)
               /\ \A t \in e.targets : (t \in failed \/ (Flying(t) /\ t \notin gone /\ t \in open))
                                          => t \in f.targets
<1> DEFINE U == Unsettled(e, failed, gone)
           f == Reduced(e, U)
<1>1. U \in SUBSET e.targets /\ e # None /\ e.targets \subseteq Target
  BY NilFacts DEF Unsettled, Event
<1>2. \A t \in e.targets : Flying(t) => t \in e.unsure
  BY <1>1 DEF Wary, MaybeTargets, MaybeUnsure
<1>3. \A t \in e.targets : (t \in failed \/ (Flying(t) /\ t \notin gone /\ t \in open)) => t \in U
  BY <1>2 DEF Unsettled
<1> HIDE DEF U
<1>4. f \in Event /\ f.targets = U /\ f.unsure = e.unsure \cap U
  BY <1>1, ReducedKeeps
<1>5. f # None
  BY <1>4, NilFacts
<1>6. WaryAfter(f)
  BY <1>1, <1>2, <1>4, <1>5 DEF WaryAfter, MaybeTargets, MaybeUnsure, Steady
<1> QED
  BY <1>3, <1>4, <1>5, <1>6 DEF U

LEMMA SettleReviewReacts ==
    ASSUME IInv, IInv', SortInv, CarryInv', ReactInv, NEW w \in Worker, SettleReview(w)
    PROVE  ReactInv'
<1>1. /\ Busy(w) /\ worker[w].step = "settle"
      /\ UNCHANGED <<job, disk, sweep, cleaner, life, handler, fallback, dropped>>
  BY DEF SettleReview, Busy
<1>0. PICK m \in MR : m = worker[w].mr
  BY <1>1, BusyFacts
<1> DEFINE e == worker[w].event
           shown == [t \in e.targets |-> Shown(worker[w].outcome)]
<1>2. /\ e \in Event /\ e.targets \subseteq Target /\ worker[w] \in WorkerState
      /\ worker[w].outcome \in Outcome /\ worker \in [Worker -> WorkerState]
      /\ job[m] \in Job
  BY <1>0, <1>1, BusyFacts DEF IInv, TypeOK, WorkerOK, WorkerShape, Event
<1>3. PICK failed \in SUBSET e.targets :
        \E applied \in SUBSET failed, gone \in SUBSET (e.targets \ failed) :
          /\ Replace(shown, failed, applied, gone)
          /\ worker' = [worker EXCEPT ![w].step = "finish",
                            ![w].event = Reduced(e, Unsettled(e, failed, gone))]
  BY DEF SettleReview
<1>4. PICK applied \in SUBSET failed, gone \in SUBSET (e.targets \ failed) :
          /\ Replace(shown, failed, applied, gone)
          /\ worker' = [worker EXCEPT ![w].step = "finish",
                            ![w].event = Reduced(e, Unsettled(e, failed, gone))]
  BY <1>3
<1> DEFINE f == Reduced(e, Unsettled(e, failed, gone))
           v == [worker[w] EXCEPT !.step = "finish", !.event = f]
<1>5. DOMAIN shown = e.targets /\ \A t \in e.targets : shown[t] # "busy"
  BY DEF Shown
<1>6. worker' = [worker EXCEPT ![w] = v]
  BY <1>2, <1>4
<1> HIDE DEF shown
<1>7. /\ \A t \in Target : Steady(t)
      /\ inflight' \subseteq inflight /\ Windows'
      /\ \A t \in e.targets : Live(t)' =>
            t \in failed \/ (Flying(t) /\ t \notin gone /\ t \in open)
  <2>1. /\ DOMAIN shown \subseteq Target /\ \A t \in DOMAIN shown : shown[t] # "busy"
        /\ failed \in SUBSET (DOMAIN shown) /\ gone \in SUBSET (DOMAIN shown \ failed)
    BY <1>2, <1>5
  <2>2. Windows /\ dropped \subseteq dropped' /\ handler' = handler
    BY <1>1 DEF ReactInv
  <2>3. Replace(shown, failed, applied, gone)
    BY <1>4
  <2> HIDE DEF e, ReactInv
  <2>4. /\ \A t \in Target : Steady(t)
        /\ inflight' \subseteq inflight /\ Windows'
        /\ \A t \in DOMAIN shown : Live(t)' =>
              t \in failed \/ (Flying(t) /\ t \notin gone /\ t \in open)
    BY <2>1, <2>2, <2>3, ReplaceDoes
  <2> QED
    BY <1>5, <2>4
<1> HIDE DEF f
<1>8. v.step = "finish" /\ v.mr = m /\ v.event = f /\ v.version = worker[w].version
  BY <1>0, <1>2 DEF WorkerState
<1> HIDE DEF v
<1>9. worker'[w] = v
  BY <1>2, <1>6
<1>10. Tied(w) /\ job[m].cleanup # None /\ Wary(job[m].latest)
  BY <1>0, <1>1, <1>2 DEF ReactInv, Tied, Outcome, Sound, JobWary
<1>11. ASSUME Matched(w) PROVE WaryAfter(f) /\ OverAfter(MaybeTargets(job[m].latest) \ f.targets)
  <2>1. e = job[m].latest /\ e # None
    BY <1>0, <1>1, <1>2, <1>10, <1>11, NilFacts DEF Tied
  <2>2. /\ WaryAfter(f)
        /\ \A t \in e.targets : (t \in failed \/ (Flying(t) /\ t \notin gone /\ t \in open))
                                          => t \in f.targets
    BY <1>2, <1>7, <1>10, <2>1, ReducedDoes DEF f
  <2> QED
    BY <1>7, <2>1, <2>2 DEF OverAfter, MaybeTargets
<1>12. Tied(w)'
  <2>1. Matched(w)' => Matched(w)
    BY <1>0, <1>1, <1>8, <1>9 DEF Matched
  <2> QED
    BY <1>0, <1>1, <1>8, <1>9, <1>10, <1>11, <2>1
       DEF Tied, Wary, WaryAfter, Over, OverAfter
<1>13. InStep(w, m)
  BY <1>0, <1>1, <1>7 DEF InStep
<1>14. Live(m)' => Live(m)
  BY <1>7 DEF Steady, Target
<1> HIDE DEF ReactInv
<1> QED
  BY <1>1, <1>6, <1>7, <1>12, <1>13, <1>14, UnwrittenReacts

\* A review ends: the job and the events it has left.
LEMMA FinishesReact ==
    ASSUME IInv, IInv', SortInv, CarryInv', ReactInv, NEW w \in Worker, Finish(w),
           NEW m \in MR, m = worker[w].mr,
           \A n \in MR \ {m} : job'[n] = job[n] /\ disk'[n] = disk[n],
           JobAfter(job'[m]), Agreed(job'[m]),
           cleanupQueue \subseteq cleanupQueue', closed => cleanupQueue' = cleanupQueue,
           \A k \in cleanupQueue' : k \in cleanupQueue \/ WorkAfter(k),
           \A t \in JobTargets(job[m]) : Live(t)' => t \in JobTargets(job'[m])
    PROVE  ReactInv'
<1>1. /\ Busy(w) /\ UNCHANGED <<cleaner, life, handler, fallback, dropped, remote>>
      /\ worker' = [worker EXCEPT ![w] = IdleWorker]
  BY DEF Finish, Busy
<1>2. Known(m) /\ job[m].status # "cleanup"
  BY <1>1, BusyFacts, ServingFacts DEF Known
<1>3. \A u \in Worker \ {w} : worker'[u] = worker[u] /\ (Busy(u) => worker[u].mr # m)
  BY <1>1 DEF Busy, IInv, TypeOK, WorkerOK, Rest, Exclusive
<1>4. Tied(w)'
  BY <1>1 DEF Tied, Busy, IdleWorker, IInv, TypeOK, WorkerOK
<1>5. (\A t \in Target : Steady(t)) /\ Windows' /\ (Live(m)' => Live(m))
  BY <1>1, StillCalm DEF remote, ReactInv, Windows, Live
<1> HIDE DEF ReactInv
<1> QED
  BY <1>1, <1>2, <1>3, <1>4, <1>5, ReviewReacts

LEMMA FinishReacts ==
    ASSUME IInv, IInv', SortInv, CarryInv', ReactInv, NEW w \in Worker, Finish(w)
    PROVE  ReactInv'
<1>0. PICK m \in MR : m = worker[w].mr
  BY BusyFacts DEF Finish, Busy
<1> DEFINE e == worker[w].event
           o == worker[w].outcome
<1>1. /\ Busy(w) /\ worker[w].step = "finish"
      /\ UNCHANGED <<cleaner, life, handler, fallback, dropped, remote>>
  BY DEF Finish, Busy
<1>2. /\ e \in Event /\ e # None /\ o \in Outcome \cup {"interrupted"}
      /\ job[m] \in Job /\ StoreOK /\ job[m].latest \in Event /\ job[m].latest # None
      /\ job[m].status = "running" /\ job[m].pending \in MaybeEvent
  BY <1>0, <1>1, BusyFacts, NilFacts DEF IInv, TypeOK, WorkerOK, WorkerShape, WorkerState, Job
<1>3. Calm(m) /\ \A t \in Target : Steady(t)
  BY <1>1, StillCalm DEF remote
<1>4. JobAfter(job[m]) /\ Agreed(job[m]) /\ Tied(w)
  BY <1>3, JobEventsKept DEF ReactInv, Sound
<1>5. ASSUME job'[m].latest = job[m].latest, job'[m].pending = job[m].pending,
             job'[m].cleanup = job[m].cleanup
      PROVE  JobAfter(job'[m]) /\ Agreed(job'[m]) /\ JobTargets(job'[m]) = JobTargets(job[m])
  BY <1>2, <1>4, <1>5 DEF JobAfter, Agreed, JobTargets
<1>6. job[m].cleanup # None => /\ job[m].cleanup.aborted = None
                               /\ job[m].cleanup.event = job[m].latest
  BY <1>2, <1>4 DEF Agreed
<1>7. CASE o = "interrupted" /\ FinishInterrupted(m, e)
  <2> DEFINE j == IF job[m].cleanup = None
                  THEN [job[m] EXCEPT !.status = "queued", !.latest = e, !.cancelled = FALSE]
                  ELSE [job[m] EXCEPT !.status = "cleanup", !.cancelled = FALSE]
  <2>1. Save(m, j) /\ UNCHANGED sweep
    BY <1>7 DEF FinishInterrupted
  <2>2. job[m].cleanup = None => e = job[m].latest
    BY <1>0, <1>1, <1>4 DEF Tied
  <2>3. /\ j \in Job /\ j.pending = job[m].pending /\ j.cleanup = job[m].cleanup
        /\ j.latest = job[m].latest
    BY <1>2, <2>2 DEF Job, Status, MaybeEvent
  <2> HIDE DEF j
  <2>4. /\ job'[m].latest = job[m].latest /\ job'[m].pending = job[m].pending
        /\ job'[m].cleanup = job[m].cleanup
        /\ \A n \in MR \ {m} : job'[n] = job[n] /\ disk'[n] = disk[n]
    BY <1>2, <2>1, <2>3, SavedFields
  <2>5. JobAfter(job'[m]) /\ Agreed(job'[m]) /\ JobTargets(job'[m]) = JobTargets(job[m])
    BY <1>5, <2>4
  <2> HIDE DEF ReactInv, e, o
  <2> QED
    BY <1>0, <2>1, <2>4, <2>5, FinishesReact DEF sweep
<1>8. CASE o # "interrupted" /\ Preempted(w) /\ FinishAborted(m)
  <2> DEFINE j == [job[m] EXCEPT !.status = "cleanup", !.cancelled = FALSE]
  <2>1. /\ j \in Job /\ j.status = "cleanup" /\ j.latest = job[m].latest
        /\ j.pending = job[m].pending /\ j.cleanup = job[m].cleanup /\ j.cleanup # None
        /\ j.version = job[m].version /\ j.version \in Nat
    BY <1>0, <1>2, <1>8 DEF Job, Status, Preempted
  <2>2. QueueDurable(m, j)
    BY <1>8 DEF FinishAborted
  <2>3. \/ Save(m, Reserved(j))
        \/ job' = [job EXCEPT ![m] = Reserved(j)] /\ UNCHANGED <<disk, faults>>
    BY <1>8 DEF FinishAborted
  <2> HIDE DEF j
  <2>4. /\ Reserved(j) \in Job /\ Reserved(j).latest = j.latest
        /\ Reserved(j).pending = j.pending /\ Reserved(j).cleanup = j.cleanup
        /\ Reserved(j).status = "cleanup" /\ Reserved(j).version = j.version
    BY <2>1, ReservedType DEF Reserved, Job
  <2>5. /\ job'[m].latest = j.latest /\ job'[m].pending = j.pending
        /\ job'[m].cleanup = j.cleanup /\ job'[m].status = "cleanup"
        /\ job'[m].version = j.version
        /\ \A n \in MR \ {m} : job'[n] = job[n] /\ disk'[n] = disk[n]
    <3>1. CASE Save(m, Reserved(j))
      BY <1>2, <2>4, <3>1, SavedFields
    <3>2. CASE job' = [job EXCEPT ![m] = Reserved(j)] /\ UNCHANGED disk
      BY <1>2, <2>4, <3>2 DEF StoreOK
    <3> QED
      BY <2>3, <3>1, <3>2
  <2>6. JobAfter(job'[m]) /\ Agreed(job'[m]) /\ JobTargets(job'[m]) = JobTargets(job[m])
    BY <1>5, <2>1, <2>5
  <2>7. Scheduling(m, j)
    BY <1>4, <1>6, <2>1, <2>5 DEF Scheduling, JobAfter
  <2>8. /\ cleanupQueue \subseteq cleanupQueue'
        /\ \A k \in cleanupQueue' : k \in cleanupQueue \/ WorkAfter(k)
        /\ closed => cleanupQueue' = cleanupQueue
    BY <2>1, <2>2, <2>7, ScheduledWork
  <2> HIDE DEF ReactInv, e, o
  <2> QED
    BY <1>0, <2>5, <2>6, <2>8, FinishesReact
<1>9. ASSUME o # "interrupted", ~Preempted(w)
      PROVE  /\ Wary(e) /\ Over(MaybeTargets(job[m].latest) \ e.targets)
             /\ JobTargets(job[m]) = MaybeTargets(job[m].latest) \cup MaybeTargets(job[m].pending)
  <2>1. job[m].cleanup # None
    BY <1>0, <1>1, <1>4, <1>9 DEF Tied
  <2>2. Matched(w)
    BY <1>0, <1>9, <2>1 DEF Preempted, Matched
  <2>3. Wary(e) /\ Over(MaybeTargets(job[m].latest) \ e.targets)
    BY <1>0, <1>1, <1>4, <1>9, <2>2 DEF Tied
  <2> QED
    BY <1>2, <1>6, <2>1, <2>3 DEF JobTargets, MaybeTargets
<1>10. CASE o # "interrupted" /\ ~Preempted(w) /\ FinishUnsettled(m, e, o)
  <2> DEFINE c == CleanupOf(e, o)
             next == job[m].version + 1
             i == [job[m] EXCEPT !.status = "cleanup", !.latest = e, !.cancelled = FALSE]
             j == [i EXCEPT !.cleanup = c, !.version = next]
  <2>1. Save(m, Reserved(j)) /\ QueueDurable(m, j)
    BY <1>10 DEF FinishUnsettled
  <2>2. next \in Nat
    BY <1>2 DEF Job
  <2>3. c \in Cleanup /\ c # None /\ c.event = e /\ c.aborted = None
    BY <1>2, <1>10, NilFacts DEF CleanupOf, Cleanup, MaybeEvent
  <2> HIDE DEF c, next
  <2>4. i \in Job /\ i.status = "cleanup" /\ i.latest = e /\ i.pending = job[m].pending
    BY <1>2 DEF Job, Status, MaybeEvent
  <2> HIDE DEF i
  <2>5. /\ j \in Job /\ j.status = "cleanup" /\ j.latest = e /\ j.pending = job[m].pending
        /\ j.cleanup = c /\ j.version \in Nat
    BY <2>2, <2>3, <2>4 DEF Job
  <2> HIDE DEF j
  <2>6. /\ Reserved(j) \in Job /\ Reserved(j).latest = e /\ Reserved(j).cleanup = c
        /\ Reserved(j).pending = job[m].pending /\ Reserved(j).status = "cleanup"
        /\ Reserved(j).version = j.version
    BY <2>5, ReservedType DEF Reserved, Job
  <2>7. /\ job'[m].latest = e /\ job'[m].pending = job[m].pending /\ job'[m].cleanup = c
        /\ job'[m].status = "cleanup" /\ job'[m].version = j.version
        /\ \A n \in MR \ {m} : job'[n] = job[n] /\ disk'[n] = disk[n]
    BY <1>2, <2>1, <2>6, SavedFields
  <2>8. WaryAfter(e)
    <3>1. e.targets \subseteq Target
      BY <1>2 DEF Event
    <3> QED
      BY <1>2, <1>3, <1>9, <1>10, <3>1 DEF Wary, WaryAfter, MaybeTargets, Steady
  <2>9. JobAfter(job'[m]) /\ Agreed(job'[m])
    BY <1>4, <2>3, <2>7, <2>8 DEF JobAfter, Agreed, WaryAfter, MaybeTargets
  <2>10. Scheduling(m, j)
    BY <2>3, <2>5, <2>7, <2>8 DEF Scheduling, WaryAfter, MaybeTargets
  <2>11. /\ cleanupQueue \subseteq cleanupQueue'
         /\ \A k \in cleanupQueue' : k \in cleanupQueue \/ WorkAfter(k)
         /\ closed => cleanupQueue' = cleanupQueue
    BY <2>1, <2>5, <2>10, ScheduledWork
  <2>12. ASSUME NEW t \in JobTargets(job[m]), Live(t)' PROVE t \in JobTargets(job'[m])
    <3>1. t \in MaybeTargets(job[m].latest) => t \in e.targets
      <4>1. t \in MaybeTargets(job[m].latest) => t \in Target
        BY <1>2 DEF MaybeTargets, Event
      <4> QED
        BY <1>3, <1>9, <1>10, <2>12, <4>1 DEF Over, Steady
    <3>2. t \in e.targets \cup MaybeTargets(job[m].pending)
      BY <1>9, <1>10, <2>12, <3>1
    <3> QED
      BY <1>2, <2>7, <3>2 DEF JobTargets, MaybeTargets
  <2> HIDE DEF ReactInv, e, o
  <2> QED
    BY <1>0, <2>7, <2>9, <2>11, <2>12, FinishesReact
<1>11. CASE o # "interrupted" /\ ~Preempted(w) /\ e.targets = {} /\ EndOrPromote(m)
            /\ UNCHANGED sweep
  <2>1. /\ GivesWay(m) /\ \A n \in MR \ {m} : job'[n] = job[n] /\ disk'[n] = disk[n]
    BY <1>11, EndOrPromoteStep DEF JobStep
  <2>2. JobAfter(job'[m]) /\ Agreed(job'[m])
    BY <1>4, <2>1 DEF GivesWay, NoJob, JobAfter, Agreed, WaryAfter, MaybeTargets
  <2>3. MaybeTargets(job[m].pending) \subseteq JobTargets(job'[m])
    BY <2>1 DEF GivesWay, JobTargets, MaybeTargets
  <2>4. ASSUME NEW t \in JobTargets(job[m]), Live(t)' PROVE t \in JobTargets(job'[m])
    <3>1. t \notin MaybeTargets(job[m].latest)
      <4>1. t \in MaybeTargets(job[m].latest) => t \in Target
        BY <1>2 DEF MaybeTargets, Event
      <4> QED
        BY <1>3, <1>9, <1>11, <2>4, <4>1 DEF Over, Steady
    <3> QED
      BY <1>9, <1>11, <2>3, <2>4, <3>1
  <2> HIDE DEF ReactInv, e, o
  <2> QED
    BY <1>0, <1>11, <2>1, <2>2, <2>4, FinishesReact DEF sweep
<1> QED
  BY <1>0, <1>7, <1>8, <1>10, <1>11 DEF Finish

-----------------------------------------------------------------------------
(* Cleanup workers, timers and late awards.                                *)

\* What a step that touches no job has in common.
LEMMA UntouchedJobs ==
    ASSUME UNCHANGED <<job, disk, life>>
    PROVE  \A n \in MR : job'[n] = job[n] /\ Unread(n)' = Unread(n)
BY DEF life, Unread, Known, alive

LEMMA CleanerTakeReacts ==
    ASSUME IInv, IInv', SortInv, CarryInv', ReactInv, NEW c \in Cleaner, CleanerTake(c)
    PROVE  ReactInv'
<1>1. PICK k \in cleanupQueue :
        /\ cleaner' = [cleaner EXCEPT ![c] = [step |-> "held", work |-> k]]
        /\ DrainWaiting(cleanupQueue \ {k})
  BY DEF CleanerTake
<1>2. /\ UNCHANGED <<job, disk, life, handler, fallback, remote, worker, dropped>>
      /\ cleaner[c].step = "idle"
  BY DEF CleanerTake, store
<1>3. /\ cleaner'[c].work = k /\ cleaner'[c].step = "held"
      /\ \A d \in Cleaner \ {c} : cleaner'[d] = cleaner[d]
  BY <1>1 DEF IInv, TypeOK, CleanerOK
<1>4. (\A t \in Target : Steady(t)) /\ \A n \in MR : Calm(n)
  BY <1>2, StillCalm DEF remote
<1>5. ASSUME NEW x \in cleanupQueue' PROVE x \in cleanupQueue \/ WorkAfter(x)
  <2>1. PICK moved \in SUBSET Promotable :
          x \in (cleanupQueue \ {k}) \cup {DurableWork(n, job[n]) : n \in moved}
    BY <1>1, <1>5 DEF DrainWaiting
  <2>2. ASSUME NEW n \in moved, x = DurableWork(n, job[n])
        PROVE  WorkAfter(x)
    <3>1. n \in MR /\ job[n] \in Job /\ job[n].cleanup # None /\ job[n].status = "cleanup"
      BY DEF Promotable, IInv, TypeOK, SweepOK, StoreOK
    <3>2. JobAfter(job[n]) /\ Agreed(job[n])
      BY <1>4, <3>1, JobEventsKept DEF ReactInv, Sound
    <3>3. Scheduling(n, job[n]) /\ job[n].version \in Nat
      BY <1>2, <3>1, <3>2 DEF Scheduling, JobAfter, Agreed, Job
    <3> QED
      BY <2>2, <3>1, <3>3, NewWork
  <2> QED
    BY <2>1, <2>2
<1>6. cleanupQueue \ {k} \subseteq cleanupQueue' /\ (closed => cleanupQueue' = cleanupQueue \ {k})
  BY <1>1 DEF DrainWaiting
<1>7. Works \subseteq Works' /\ \A x \in Works' : x \in Works \/ WorkAfter(x)
  <2>1. ASSUME NEW x \in Works PROVE x \in Works'
    <3>1. CASE x = k
      BY <1>3, <3>1 DEF Works
    <3>2. CASE x \in cleanupQueue /\ x # k
      BY <1>6, <3>2 DEF Works
    <3>3. CASE \E d \in Cleaner : cleaner[d].step # "idle" /\ x = cleaner[d].work
      BY <1>2, <1>3, <3>3 DEF Works
    <3> QED
      BY <3>1, <3>2, <3>3 DEF Works
  <2>2. ASSUME NEW x \in Works' PROVE x \in Works \/ WorkAfter(x)
    <3>1. CASE x \in cleanupQueue'
      BY <1>5, <3>1 DEF Works
    <3>2. CASE \E d \in Cleaner : cleaner'[d].step # "idle" /\ x = cleaner'[d].work
      BY <1>3, <3>2 DEF Works
    <3> QED
      BY <3>1, <3>2 DEF Works
  <2> QED
    BY <2>1, <2>2
<1>8. ASSUME NEW n \in MR PROVE Solo(n)'
  <2>1. CASE ~closed'
    BY <2>1 DEF CarryInv, Carried, Somewhere, Nowhere, Solo
  <2>2. CASE closed'
    <3>1. InQueue(n)' = InQueue(n) \ {k}
      BY <1>2, <1>6, <2>2 DEF InQueue, closed, life
    <3>2. CASE k.durable /\ k.mr = n
      <4>1. k \in InQueue(n)
        BY <3>2 DEF InQueue
      <4>2. InHand(n) = {} /\ InQueue(n)' = {}
        BY <3>1, <4>1 DEF ReactInv, Solo
      <4>3. InHand(n)' \subseteq {c}
        BY <1>3, <4>2 DEF InHand
      <4> QED
        BY <4>2, <4>3 DEF Solo
    <3>3. CASE ~(k.durable /\ k.mr = n)
      <4>1. InHand(n)' = InHand(n)
        BY <1>2, <1>3, <3>3 DEF InHand
      <4> QED
        BY <3>1, <4>1 DEF ReactInv, Solo
    <3> QED
      BY <3>2, <3>3
  <2> QED
    BY <2>1, <2>2
<1>9. Windows' /\ fallback' \subseteq Note /\ \A n \in MR : Unread(n)' = Unread(n)
  BY <1>2, UntouchedJobs DEF ReactInv, Windows, remote
<1> HIDE DEF ReactInv
<1> QED
  BY <1>2, <1>4, <1>7, <1>8, <1>9, IdleReacts

\* A step of a cleaner that touches no job: what its work released and no longer does is
\* settled, given up, or left to the shutdown.
LEMMA CleanerReacts ==
    ASSUME IInv, IInv', SortInv, CarryInv', ReactInv, NEW c \in Cleaner, cleaner[c].step # "idle",
           UNCHANGED <<job, disk, life, worker, cleanupQueue, handler>>,
           \A t \in Target : Steady(t), Windows', fallback \subseteq fallback', fallback' \subseteq Note,
           \A d \in Cleaner \ {c} : cleaner'[d] = cleaner[d],
           cleaner'[c].step # "idle" =>
               /\ cleaner'[c].work.durable = cleaner[c].work.durable
               /\ cleaner'[c].work.mr = cleaner[c].work.mr
               /\ cleaner'[c].work = cleaner[c].work \/ WorkAfter(cleaner'[c].work),
           ~cleaner[c].work.durable => \A t \in cleaner[c].work.event.targets :
               Live(t)' => \/ t \in fallback'
                           \/ cleaner'[c].step # "idle" /\ t \in cleaner'[c].work.event.targets
    PROVE  ReactInv'
<1> DEFINE k == cleaner[c].work
<1>1. \A x \in Works' : x \in Works \/ WorkAfter(x)
  BY DEF Works
<1>2. \A n \in MR : InQueue(n)' = InQueue(n) /\ InHand(n)' \subseteq InHand(n)
  BY DEF InQueue, InHand
<1>3. \A n \in MR : Solo(n)'
  BY <1>2, SoloStep
<1>4. \A n \in MR : job'[n] = job[n] /\ Unread(n)' = Unread(n)
  BY UntouchedJobs
<1>5. NotesCalm /\ NoneForgotten /\ \A n \in MR : Steady(n)
  BY DEF NotesCalm, NoneForgotten, Target
<1>6. ASSUME NEW t \in Target, Live(t)', Releasing(t) PROVE Kept(t)'
  <2>1. PICK x \in Works : ~x.durable /\ t \in x.event.targets
    BY <1>6 DEF Releasing
  <2>2. CASE x \in Works'
    BY <2>1, <2>2 DEF Kept, Releasing
  <2>3. CASE x = k /\ t \in fallback'
    BY <2>3 DEF Kept
  <2>4. CASE x = k /\ cleaner'[c].step # "idle" /\ t \in cleaner'[c].work.event.targets
    <3>1. cleaner'[c].work \in Works' /\ ~cleaner'[c].work.durable
      BY <2>1, <2>4 DEF Works
    <3> QED
      BY <2>4, <3>1 DEF Kept, Releasing
  <2>5. x \in Works' \/ x = k
    BY DEF Works
  <2> QED
    BY <1>6, <2>1, <2>2, <2>3, <2>4, <2>5
<1>7. Covered'
  <2>1. \A t \in Target : Live(t)' => Live(t)
    BY DEF Steady
  <2>2. \A t \in Target : Awarded(t) => Kept(t)'
    BY DEF Awarded, Kept
  <2>3. \A t \in fallback : Kept(t)'
    BY DEF Kept
  <2>4. \A n \in MR : Naming(n)' = Naming(n)
    BY <1>4 DEF Naming
  <2>5. \A n \in MR : \A t \in Naming(n) : Kept(t)'
    BY <2>4 DEF Kept
  <2> HIDE DEF ReactInv
  <2> QED
    BY <1>6, <2>1, <2>2, <2>3, <2>5, CoveredStep
<1>8. {} \in SUBSET MR
  OBVIOUS
<1> HIDE DEF ReactInv
<1> QED
  BY <1>1, <1>3, <1>4, <1>5, <1>7, <1>8, ReactStep

LEMMA CleanerCancelledReacts ==
    ASSUME IInv, IInv', SortInv, CarryInv', ReactInv, NEW c \in Cleaner, CleanerCancelled(c)
    PROVE  ReactInv'
<1> DEFINE k == cleaner[c].work
<1>1. /\ UNCHANGED <<job, disk, life, worker, cleanupQueue, handler, remote, dropped>>
      /\ cleaner[c].step = "held" /\ cleaner \in [Cleaner -> CleanerState]
      /\ cleaner[c].step # "idle"
  BY DEF CleanerCancelled, store, sweep, IInv, TypeOK, CleanerOK
<1>2. /\ \A t \in Target : Steady(t)
      /\ Windows' /\ fallback \subseteq Note
  BY <1>1, StillCalm DEF ReactInv, Windows, remote
<1>3. k \in Works /\ WorkOK(k)
  BY <1>1 DEF Works, ReactInv
<1>4. CASE k.durable
  <2>1. cleaner' = [cleaner EXCEPT ![c].step = "settled"] /\ UNCHANGED fallback
    BY <1>4 DEF CleanerCancelled
  <2>2. /\ \A d \in Cleaner \ {c} : cleaner'[d] = cleaner[d]
        /\ cleaner'[c].work = k
    BY <1>1, <2>1 DEF CleanerState
  <2> HIDE DEF ReactInv
  <2> QED
    BY <1>1, <1>2, <1>4, <2>1, <2>2, CleanerReacts
<1>5. CASE ~k.durable
  <2>1. /\ cleaner' = [cleaner EXCEPT ![c] = IdleCleaner]
        /\ fallback' = fallback \cup WorkTargets(k)
    BY <1>5 DEF CleanerCancelled
  <2>2. /\ \A d \in Cleaner \ {c} : cleaner'[d] = cleaner[d]
        /\ cleaner'[c].step = "idle"
    BY <1>1, <2>1 DEF IdleCleaner
  <2>3. WorkTargets(k) = k.event.targets /\ k.event.targets \subseteq Note
    BY <1>3, <1>5 DEF WorkOK, Released, WorkTargets, MaybeTargets
  <2>4. fallback \subseteq fallback' /\ fallback' \subseteq Note /\ k.event.targets \subseteq fallback'
    BY <1>2, <2>1, <2>3
  <2> HIDE DEF ReactInv
  <2> QED
    BY <1>1, <1>2, <2>2, <2>4, CleanerReacts
<1> QED
  BY <1>4, <1>5

LEMMA GivenUpReacts ==
    ASSUME IInv, IInv', SortInv, CarryInv', ReactInv, NEW c \in Cleaner, CleanerComplete(c),
           ~cleaner[c].work.durable
    PROVE  ReactInv'
<1> DEFINE k == cleaner[c].work
<1>1. /\ UNCHANGED <<job, disk, life, worker, cleanupQueue, handler, remote>>
      /\ cleaner[c].step # "idle" /\ cleaner \in [Cleaner -> CleanerState]
      /\ cleaner' = [cleaner EXCEPT ![c] = IdleCleaner]
  BY DEF CleanerComplete, store, sweep, IInv, TypeOK, CleanerOK
<1>2. k \in Works /\ WorkOK(k)
  BY <1>1 DEF Works, ReactInv
<1>3. /\ fallback' = IF cleanupCancelled THEN fallback \cup WorkTargets(k) ELSE fallback
      /\ dropped' = IF cleanupCancelled THEN dropped ELSE dropped \cup WorkTargets(k)
  BY DEF CleanerComplete
<1>4. WorkTargets(k) = k.event.targets /\ k.event.targets \subseteq Note
  BY <1>2 DEF WorkOK, Released, WorkTargets, MaybeTargets
<1>5. /\ \A t \in Target : Steady(t)
      /\ Windows' /\ fallback \subseteq fallback' /\ fallback' \subseteq Note
  BY <1>1, <1>3, <1>4, StillCalm DEF ReactInv, Windows, remote
<1>6. \A t \in k.event.targets : Live(t)' => t \in fallback'
  BY <1>3, <1>4 DEF Live
<1>7. /\ \A d \in Cleaner \ {c} : cleaner'[d] = cleaner[d]
      /\ cleaner'[c].step = "idle"
  BY <1>1 DEF IdleCleaner
<1> HIDE DEF ReactInv
<1> QED
  BY <1>1, <1>5, <1>6, <1>7, CleanerReacts

\* A round on cleanup work: what it leaves out of the work is settled.
LEMMA SettledWork ==
    ASSUME IInv, SortInv, ReactInv, NEW k \in Works, k \in Work, NEW failed, NEW gone, NEW rest \in Work,
           UNCHANGED <<job, handler>>, \A t \in Target : Steady(t),
           \A t \in k.event.targets \cup (MaybeTargets(k.aborted) \cap Note) : Live(t)' =>
               t \in failed \/ (Flying(t) /\ t \notin gone /\ t \in open),
           rest.durable = k.durable, rest.mr = k.mr, rest.version = k.version,
           rest.event = Reduced(k.event, Unsettled(k.event, failed, gone)),
           rest.aborted = IF k.aborted = None THEN None
                          ELSE Reduced(k.aborted, Unsettled(k.aborted, failed, gone))
    PROVE  /\ WorkAfter(rest)
           /\ ~k.durable => \A t \in k.event.targets : Live(t)' => t \in rest.event.targets
<1>1. /\ k.event \in Event /\ k.event # None /\ k.aborted \in MaybeEvent /\ WorkOK(k)
  BY NilFacts DEF Work, ReactInv
<1>2. ASSUME Wary(k.event)
      PROVE  /\ WaryAfter(rest.event) /\ rest.event.targets \subseteq k.event.targets
             /\ \A t \in k.event.targets : Live(t)' => t \in rest.event.targets
  <2>1. /\ WaryAfter(rest.event) /\ rest.event.targets = Unsettled(k.event, failed, gone)
        /\ \A t \in k.event.targets : (t \in failed \/ (Flying(t) /\ t \notin gone /\ t \in open))
                                          => t \in rest.event.targets
    BY <1>1, <1>2, ReducedDoes
  <2> QED
    BY <2>1 DEF Unsettled
<1>3. ASSUME Wary(k.aborted)
      PROVE  /\ WaryAfter(rest.aborted)
             /\ \A t \in MaybeTargets(k.aborted) \cap Note :
                   Live(t)' => t \in MaybeTargets(rest.aborted)
  <2>1. CASE k.aborted = None
    BY <2>1 DEF WaryAfter, MaybeTargets
  <2>2. CASE k.aborted # None
    <3>1. k.aborted \in Event
      BY <1>1, <2>2 DEF MaybeEvent
    <3>2. rest.aborted = Reduced(k.aborted, Unsettled(k.aborted, failed, gone))
      BY <2>2
    <3>3. /\ WaryAfter(rest.aborted) /\ rest.aborted # None
          /\ \A t \in k.aborted.targets :
                (t \in failed \/ (Flying(t) /\ t \notin gone /\ t \in open))
                   => t \in rest.aborted.targets
      BY <1>3, <3>1, <3>2, ReducedDoes
    <3> QED
      BY <2>2, <3>3 DEF MaybeTargets
  <2> QED
    BY <2>1, <2>2
<1>4. CASE ~k.durable
  <2>1. Released(k)
    BY <1>1, <1>4 DEF WorkOK
  <2>2. Wary(k.event) /\ k.aborted = None
    BY <2>1 DEF Released
  <2>3. ReleasedAfter(rest)
    BY <1>2, <2>1, <2>2 DEF Released, ReleasedAfter
  <2> QED
    BY <1>2, <1>4, <2>2, <2>3 DEF WorkAfter
<1>5. CASE k.durable
  <2>1. Current(k)
    BY <1>1, <1>5 DEF WorkOK
  <2>2. k.mr \in MR /\ MaybeTargets(k.aborted) \subseteq Note
    <3>1. k.mr \in MR
      BY DEF Work
    <3>2. MaybeTargets(k.aborted) \subseteq Revoked(k.mr)
      <4>1. CASE k \in cleanupQueue
        <5>1. MaybeTargets(k.aborted) \subseteq Target
          BY <1>1 DEF MaybeTargets, MaybeEvent, Event
        <5> QED
          BY <1>5, <4>1, <5>1 DEF Revoked, RevokedOnTheWay, InQueue
      <4>2. CASE \E c \in Cleaner : cleaner[c].step # "idle" /\ k = cleaner[c].work
        BY <1>5, <4>2, HeldClaimed
      <4> QED
        BY <4>1, <4>2 DEF Works
    <3> QED
      BY <3>1, <3>2 DEF SortInv, Homed, Own
  <2>3. ASSUME k.version = job[k.mr].version
        PROVE  /\ WaryAfter(rest.event) /\ WaryAfter(rest.aborted)
               /\ OverAfter((MaybeTargets(job[k.mr].latest) \cup JobRevokes(job[k.mr]))
                              \ WorkTargets(rest))
    <3>1. /\ Wary(k.event) /\ Wary(k.aborted)
          /\ Over((MaybeTargets(job[k.mr].latest) \cup JobRevokes(job[k.mr])) \ WorkTargets(k))
      BY <2>1, <2>3 DEF Current
    <3>2. MaybeTargets(job[k.mr].latest) \cup JobRevokes(job[k.mr]) \subseteq Target
      <4>1. job[k.mr] \in Job
        BY <2>2 DEF IInv, TypeOK, StoreOK
      <4> QED
        BY <4>1 DEF Job, MaybeEvent, Event, Cleanup, MaybeTargets, JobRevokes
    <3>3. \A t \in WorkTargets(k) : Live(t)' => t \in WorkTargets(rest)
      BY <1>2, <1>3, <2>2, <3>1 DEF WorkTargets
    <3> QED
      BY <1>2, <1>3, <3>1, <3>2, <3>3 DEF Over, OverAfter, Steady
  <2>4. CurrentAfter(rest)
    BY <2>1, <2>3 DEF Current, CurrentAfter
  <2> QED
    BY <1>5, <2>4 DEF WorkAfter
<1> QED
  BY <1>4, <1>5

LEMMA CleanerSettleReacts ==
    ASSUME IInv, IInv', SortInv, CarryInv', ReactInv, NEW c \in Cleaner, CleanerSettle(c)
    PROVE  ReactInv'
<1> DEFINE k == cleaner[c].work
           shown == Attempt(k)
           Left(e, failed, gone) == Reduced(e, Unsettled(e, failed, gone))
<1>1. /\ k \in Work /\ k.event \in Event /\ k.aborted \in MaybeEvent
      /\ cleaner[c].step = "held" /\ cleaner \in [Cleaner -> CleanerState]
      /\ k \in Works /\ cleaner[c].step # "idle"
  BY HeldFacts DEF CleanerSettle, IInv, TypeOK, CleanerOK, Works
<1>2. UNCHANGED <<job, disk, life, handler, worker, cleanupQueue, fallback, dropped>>
  BY DEF CleanerSettle, sweep
<1>3. PICK failed \in SUBSET (DOMAIN shown) :
        \E applied \in SUBSET failed, gone \in SUBSET (DOMAIN shown \ failed) :
          /\ Replace(shown, failed, applied, gone)
          /\ cleaner' = [cleaner EXCEPT ![c] = [step |-> "settled", work |->
                [k EXCEPT !.event = Left(@, failed, gone),
                          !.aborted = IF @ = None THEN None ELSE Left(@, failed, gone)]]]
  BY DEF CleanerSettle
<1>4. PICK applied \in SUBSET failed, gone \in SUBSET (DOMAIN shown \ failed) :
          /\ Replace(shown, failed, applied, gone)
          /\ cleaner' = [cleaner EXCEPT ![c] = [step |-> "settled", work |->
                [k EXCEPT !.event = Left(@, failed, gone),
                          !.aborted = IF @ = None THEN None ELSE Left(@, failed, gone)]]]
  BY <1>3
<1>5. ASSUME NEW e \in Event
      PROVE  Left(e, failed, gone) \in Event /\ Left(e, failed, gone).targets \subseteq e.targets
  BY UnsettledType, ReducedType DEF Unsettled
<1> DEFINE dom == k.event.targets \cup (MaybeTargets(k.aborted) \cap Note)
<1>6. DOMAIN shown = dom /\ dom \subseteq Target /\ \A t \in dom : shown[t] # "busy"
  BY <1>1 DEF Attempt, Shown, Event, Target
<1> HIDE DEF shown
<1>7. /\ \A t \in Target : Steady(t)
      /\ Windows'
      /\ \A t \in dom : Live(t)' =>
            t \in failed \/ (Flying(t) /\ t \notin gone /\ t \in open)
  <2>1. DOMAIN shown \subseteq Target /\ \A t \in DOMAIN shown : shown[t] # "busy"
    BY <1>6
  <2>2. Windows /\ dropped \subseteq dropped' /\ handler' = handler
    BY <1>2 DEF ReactInv
  <2>3. Replace(shown, failed, applied, gone)
    BY <1>4
  <2> HIDE DEF ReactInv
  <2>4. /\ \A t \in Target : Steady(t)
        /\ Windows'
        /\ \A t \in DOMAIN shown : Live(t)' =>
              t \in failed \/ (Flying(t) /\ t \notin gone /\ t \in open)
    BY <2>1, <2>2, <2>3, ReplaceDoes
  <2> QED
    BY <1>6, <2>4
<1> DEFINE event == Left(k.event, failed, gone)
           aborted == IF k.aborted = None THEN None ELSE Left(k.aborted, failed, gone)
           rest == [k EXCEPT !.event = event, !.aborted = aborted]
<1>8. event \in Event /\ aborted \in MaybeEvent
  BY <1>1, <1>5 DEF MaybeEvent
<1>9. /\ cleaner'[c].work = rest /\ cleaner'[c].step = "settled"
      /\ \A d \in Cleaner \ {c} : cleaner'[d] = cleaner[d]
  BY <1>1, <1>4 DEF Work
<1> HIDE DEF event, aborted
<1>10. /\ rest \in Work /\ rest.durable = k.durable /\ rest.mr = k.mr /\ rest.version = k.version
       /\ rest.event = event /\ rest.aborted = aborted
  BY <1>1, <1>8 DEF Work
<1> HIDE DEF rest
<1>11. /\ WorkAfter(rest)
       /\ ~k.durable => \A t \in k.event.targets : Live(t)' => t \in rest.event.targets
  <2>1. /\ rest.event = Reduced(k.event, Unsettled(k.event, failed, gone))
        /\ rest.aborted = IF k.aborted = None THEN None
                          ELSE Reduced(k.aborted, Unsettled(k.aborted, failed, gone))
    BY <1>10 DEF event, aborted
  <2> HIDE DEF ReactInv, k
  <2>2. \A t \in k.event.targets \cup (MaybeTargets(k.aborted) \cap Note) : Live(t)' =>
               t \in failed \/ (Flying(t) /\ t \notin gone /\ t \in open)
    BY <1>7
  <2> QED
    BY <1>1, <1>2, <1>7, <1>10, <2>1, <2>2, SettledWork
<1>12. fallback \subseteq fallback' /\ fallback' \subseteq Note
  BY <1>2 DEF ReactInv
<1> HIDE DEF ReactInv
<1> QED
  BY <1>1, <1>2, <1>7, <1>9, <1>10, <1>11, <1>12, CleanerReacts

\* The cleanup of a job moves on: the job, the events it has left and the cleanup it is to
\* get are to be shown.
LEMMA CleanupReacts ==
    ASSUME IInv, IInv', SortInv, CarryInv', ReactInv, NEW m \in MR, Known(m),
           job[m].status = "cleanup",
           UNCHANGED <<life, remote, handler, fallback, dropped, worker>>,
           \A n \in MR \ {m} : job'[n] = job[n] /\ disk'[n] = disk[n],
           JobAfter(job'[m]), Agreed(job'[m]),
           cleanupQueue \subseteq cleanupQueue', closed => cleanupQueue' = cleanupQueue,
           \A k \in cleanupQueue' : k \in cleanupQueue \/ WorkAfter(k),
           \A c \in Cleaner : cleaner'[c].step # "idle" => cleaner'[c] = cleaner[c],
           \A c \in Cleaner : cleaner[c].step # "idle" /\ ~cleaner[c].work.durable =>
               cleaner'[c] = cleaner[c],
           \A k \in Works : k.durable /\ k.mr = m /\ k \in Works' => InCleanup(m) \/ WorkAfter(k),
           \A t \in JobTargets(job[m]) : Live(t)' => t \in JobTargets(job'[m])
    PROVE  ReactInv'
<1>1. /\ \A k \in Works' : k \in Works \/ WorkAfter(k)
      /\ \A k \in Works : ~k.durable => k \in Works'
  BY DEF Works
<1>2. \A n \in MR : Solo(n)'
  BY SoloStep DEF InQueue, InHand, closed, life
<1>3. \A w \in Worker : Busy(w)' => worker'[w] = worker[w] /\ worker[w].mr # m
  BY BusyFacts DEF Busy
<1>4. \A t \in JobTargets(job[m]) : Live(t)' => Kept(t)'
  BY DEF Kept, Naming
<1>5. \A k \in Works' : k \in Works /\ k.durable /\ k.mr = m => InCleanup(m) \/ WorkAfter(k)
  OBVIOUS
<1> HIDE DEF ReactInv
<1> QED
  BY <1>1, <1>2, <1>3, <1>4, <1>5, JobReacts

\* The cleanup of a job is scheduled again.
LEMMA RescheduleReacts ==
    ASSUME IInv, IInv', SortInv, CarryInv', ReactInv, NEW m \in MR, Known(m), NEW j \in Job,
           j.status = "cleanup", j.cleanup # None, job[m].status = "cleanup",
           j.version = job[m].version, j.latest = job[m].latest, j.pending = job[m].pending,
           j.cleanup = job[m].cleanup, job' = [job EXCEPT ![m] = Reserved(j)],
           UNCHANGED <<life, remote, handler, fallback, dropped, worker, disk>>,
           QueueDurable(m, j) \/ (~closed /\ Enlist(m, j)) \/ UNCHANGED cleanupQueue,
           \A c \in Cleaner : cleaner'[c].step # "idle" => cleaner'[c] = cleaner[c],
           \A c \in Cleaner : cleaner[c].step # "idle" /\ ~cleaner[c].work.durable =>
               cleaner'[c] = cleaner[c]
    PROVE  ReactInv'
<1>1. /\ Reserved(j) \in Job /\ Reserved(j).latest = j.latest
      /\ Reserved(j).pending = j.pending /\ Reserved(j).cleanup = j.cleanup
      /\ Reserved(j).status = "cleanup" /\ Reserved(j).version = j.version
  BY ReservedType DEF Reserved, Job
<1>2. /\ job'[m].latest = job[m].latest /\ job'[m].pending = job[m].pending
      /\ job'[m].cleanup = job[m].cleanup /\ job'[m].status = "cleanup"
      /\ job'[m].version = job[m].version
      /\ \A n \in MR \ {m} : job'[n] = job[n] /\ disk'[n] = disk[n]
  BY <1>1 DEF IInv, TypeOK, StoreOK
<1>3. Calm(m)
  BY StillCalm DEF remote
<1>4. JobAfter(job[m]) /\ Agreed(job[m])
  BY <1>3, JobEventsKept DEF ReactInv, Sound
<1>5. JobAfter(job'[m]) /\ Agreed(job'[m]) /\ JobTargets(job'[m]) = JobTargets(job[m])
  BY <1>2, <1>4 DEF JobAfter, Agreed, JobTargets
<1>6. InCleanup(m)
  BY <1>2, <1>3 DEF InCleanup
<1>7. Scheduling(m, j) /\ j.version \in Nat
  BY <1>2, <1>4 DEF Scheduling, JobAfter, Agreed, Job
<1>8. /\ cleanupQueue \subseteq cleanupQueue'
      /\ \A k \in cleanupQueue' : k \in cleanupQueue \/ WorkAfter(k)
      /\ closed => cleanupQueue' = cleanupQueue
  <2>1. CASE QueueDurable(m, j)
    BY <1>7, <2>1, ScheduledWork
  <2>2. CASE ~closed /\ Enlist(m, j)
    BY <1>7, <2>2, EnlistedWork
  <2> QED
    BY <2>1, <2>2
<1> HIDE DEF ReactInv
<1> QED
  BY <1>2, <1>5, <1>6, <1>8, CleanupReacts

LEMMA TimerReacts ==
    ASSUME IInv, IInv', SortInv, CarryInv', ReactInv, NEW m \in MR, TimerFires(m)
    PROVE  ReactInv'
<1> DEFINE j == [job[m] EXCEPT !.cleanupQueued = FALSE]
<1>1. UNCHANGED <<disk, life, remote, handler, worker, cleaner, fallback, dropped>>
  BY DEF TimerFires
<1>2. /\ j \in Job /\ j.status = job[m].status /\ j.latest = job[m].latest
      /\ j.pending = job[m].pending /\ j.cleanup = job[m].cleanup /\ j.version = job[m].version
  BY DEF IInv, TypeOK, StoreOK, Job
<1>3. CASE UNCHANGED <<job, cleanupQueue>>
  <2>1. (\A t \in Target : Steady(t)) /\ Windows' /\ fallback' \subseteq Note
    BY <1>1, StillCalm DEF ReactInv, Windows, remote
  <2>2. \A n \in MR : Unread(n)' = Unread(n)
    BY <1>1, <1>3, UntouchedJobs
  <2>3. Works' = Works /\ \A n \in MR : Solo(n)'
    BY <1>1, <1>3 DEF Works, Solo, InQueue, InHand, ReactInv
  <2> HIDE DEF ReactInv
  <2> QED
    BY <1>1, <1>3, <2>1, <2>2, <2>3, IdleReacts
<1>4. CASE /\ j.status = "cleanup" /\ j.cleanup # None
           /\ job' = [job EXCEPT ![m] = Reserved(j)]
           /\ IF closed THEN UNCHANGED <<cleanupQueue, waiting>> ELSE Enlist(m, j)
  <2> HIDE DEF j
  <2>1. Known(m)
    BY <1>2, <1>4 DEF TimerFires, Known, IInv, Rest, Loading, NoJob
  <2>2. QueueDurable(m, j) \/ (~closed /\ Enlist(m, j)) \/ UNCHANGED cleanupQueue
    BY <1>4
  <2> HIDE DEF ReactInv
  <2> QED
    BY <1>1, <1>2, <1>4, <2>1, <2>2, RescheduleReacts
<1> QED
  BY <1>3, <1>4 DEF TimerFires

LEMMA CompleteReacts ==
    ASSUME IInv, IInv', SortInv, CarryInv', ReactInv, NEW c \in Cleaner, CleanerComplete(c),
           cleaner[c].work.durable
    PROVE  ReactInv'
<1>0. PICK k \in Work : k = cleaner[c].work
  BY HeldFacts DEF CleanerComplete
<1>1. PICK m \in MR : m = k.mr
  BY DEF Work
<1> DEFINE j == [job[m] EXCEPT !.cleanupQueued = FALSE]
           rest == [event |-> k.event, outcome |-> k.outcome, aborted |-> k.aborted]
           left == [j EXCEPT !.cleanup = rest, !.latest = k.event]
<1>2. /\ UNCHANGED <<life, remote, handler, fallback, dropped, worker>>
      /\ cleaner[c].step # "idle" /\ cleaner \in [Cleaner -> CleanerState]
      /\ cleaner' = [cleaner EXCEPT ![c] = IdleCleaner] /\ CompleteDurable(k)
  BY <1>0 DEF CleanerComplete, IInv, TypeOK, CleanerOK
<1>3. k \in Works /\ Current(k) /\ k.durable
  BY <1>0, <1>2 DEF Works, ReactInv, WorkOK
<1>4. /\ job[m] \in Job /\ JobShape(job[m]) /\ StoreOK /\ job[m].status = "cleanup"
      /\ job[m].cleanup # None /\ job[m].version \in Nat
  BY <1>1, <1>3 DEF Current, IInv, TypeOK, StoreOK, JobShape, Job
<1>5. Known(m)
  <2>1. alive
    BY <1>2, HeldFacts
  <2>2. m \notin toLoad
    BY <1>4 DEF IInv, Rest, Loading, NoJob
  <2> QED
    BY <2>1, <2>2 DEF Known
<1>6. /\ \A d \in Cleaner : cleaner'[d].step # "idle" => cleaner'[d] = cleaner[d]
      /\ \A d \in Cleaner : cleaner[d].step # "idle" /\ ~cleaner[d].work.durable =>
               cleaner'[d] = cleaner[d]
      /\ \A d \in Cleaner : cleaner'[d].step # "idle" => d # c
  BY <1>0, <1>2, <1>3 DEF IdleCleaner
<1>7. Calm(m) /\ (\A t \in Target : Steady(t)) /\ JobAfter(job[m]) /\ Agreed(job[m])
  <2>1. Calm(m) /\ \A t \in Target : Steady(t)
    BY <1>2, StillCalm DEF remote
  <2> QED
    BY <2>1, JobEventsKept DEF ReactInv, Sound
<1>8. /\ j \in Job /\ j.status = "cleanup" /\ j.latest = job[m].latest
      /\ j.pending = job[m].pending /\ j.cleanup = job[m].cleanup /\ j.version = job[m].version
  BY <1>4 DEF Job
<1>9. CASE Requeue(m, j) /\ UNCHANGED disk
  <2>1. job' = [job EXCEPT ![m] = Reserved(j)] /\ QueueDurable(m, j)
    BY <1>9 DEF Requeue
  <2> HIDE DEF ReactInv, j
  <2> QED
    BY <1>2, <1>4, <1>5, <1>6, <1>8, <1>9, <2>1, RescheduleReacts
<1>10. /\ \A x \in InQueue(m) : FALSE
       /\ \A x \in Works' : x \in Works /\ x.durable /\ x.mr = m => x \in cleanupQueue'
  <2>1. c \in InHand(m)
    BY <1>0, <1>1, <1>2, <1>3 DEF InHand
  <2>2. InQueue(m) = {} /\ InHand(m) = {c}
    BY <2>1 DEF ReactInv, Solo
  <2>3. \A d \in Cleaner : cleaner'[d].step # "idle" => cleaner'[d] = cleaner[d] /\ d # c
    BY <1>6
  <2>4. ASSUME NEW d \in Cleaner, cleaner'[d].step # "idle"
        PROVE  ~(cleaner'[d].work.durable /\ cleaner'[d].work.mr = m)
    BY <2>2, <2>3, <2>4 DEF InHand
  <2> QED
    BY <2>2, <2>4 DEF Works
<1>11. ASSUME k.version = job[m].version
       PROVE  /\ WaryAfter(k.event) /\ WaryAfter(k.aborted)
              /\ \A t \in JobTargets(job[m]) : Live(t)' =>
                    t \in MaybeTargets(job[m].pending) \cup WorkTargets(k)
  <2>1. /\ Wary(k.event) /\ Wary(k.aborted)
        /\ Over((MaybeTargets(job[m].latest) \cup JobRevokes(job[m])) \ WorkTargets(k))
    BY <1>1, <1>3, <1>11 DEF Current
  <2>2. MaybeTargets(k.event) \subseteq Target /\ MaybeTargets(k.aborted) \subseteq Target
        /\ JobTargets(job[m]) \subseteq Target
    BY <1>4 DEF Work, Event, MaybeEvent, MaybeTargets, Job, Cleanup, JobTargets
  <2>3. WaryAfter(k.event) /\ WaryAfter(k.aborted)
    BY <1>7, <2>1, <2>2 DEF Wary, WaryAfter, Steady
  <2>4. JobTargets(job[m]) \subseteq MaybeTargets(job[m].latest) \cup MaybeTargets(job[m].pending)
                                      \cup JobRevokes(job[m])
    <3>1. job[m].latest = job[m].cleanup.event /\ job[m].cleanup.event # None
      BY <1>4, <1>7, NilFacts DEF Agreed, Job, Cleanup
    <3> QED
      BY <1>4, <3>1 DEF JobTargets, JobRevokes, MaybeTargets
  <2> QED
    BY <1>7, <2>1, <2>2, <2>3, <2>4 DEF Over, Steady
<1>12. CASE /\ k.version = job[m].version /\ Save(m, Reserved(left)) /\ QueueDurable(m, left)
  <2>1. /\ rest \in Cleanup /\ rest # None /\ rest.event = k.event
        /\ rest.aborted = k.aborted /\ k.event \in Event /\ k.event # None
    BY NilFacts DEF Work, Cleanup
  <2>2. Save(m, Reserved(left)) /\ QueueDurable(m, left)
    BY <1>12
  <2> HIDE DEF j, rest
  <2>3. /\ left \in Job /\ left.status = "cleanup" /\ left.cleanup = rest
        /\ left.latest = k.event /\ left.pending = job[m].pending
        /\ left.version = job[m].version
    BY <1>8, <2>1 DEF Job, MaybeEvent
  <2> HIDE DEF left
  <2>4. /\ Reserved(left) \in Job /\ Reserved(left).latest = k.event
        /\ Reserved(left).pending = job[m].pending /\ Reserved(left).cleanup = rest
        /\ Reserved(left).status = "cleanup" /\ Reserved(left).version = left.version
    BY <2>3, ReservedType DEF Reserved, Job
  <2>5. /\ job'[m].latest = k.event /\ job'[m].pending = job[m].pending
        /\ job'[m].cleanup = rest /\ job'[m].status = "cleanup"
        /\ job'[m].version = left.version
        /\ \A n \in MR \ {m} : job'[n] = job[n] /\ disk'[n] = disk[n]
    BY <1>4, <2>2, <2>4, SavedFields
  <2>6. JobAfter(job'[m]) /\ Agreed(job'[m])
    BY <1>7, <1>11, <1>12, <2>1, <2>5 DEF JobAfter, Agreed
  <2>7. Scheduling(m, left) /\ left.version \in Nat
    BY <1>4, <1>11, <1>12, <2>1, <2>3, <2>5 DEF Scheduling
  <2>8. /\ cleanupQueue \subseteq cleanupQueue'
        /\ \A x \in cleanupQueue' : x \in cleanupQueue \/ WorkAfter(x)
        /\ closed => cleanupQueue' = cleanupQueue
    BY <2>2, <2>7, ScheduledWork
  <2>9. \A x \in Works : x.durable /\ x.mr = m /\ x \in Works' => WorkAfter(x)
    BY <1>10, <2>8 DEF InQueue
  <2>10. \A t \in JobTargets(job[m]) : Live(t)' => t \in JobTargets(job'[m])
    BY <1>11, <1>12, <2>1, <2>5 DEF JobTargets, WorkTargets, MaybeTargets
  <2> HIDE DEF ReactInv
  <2> QED
    BY <1>2, <1>4, <1>5, <1>6, <2>5, <2>6, <2>8, <2>9, <2>10, CleanupReacts
<1>13. CASE /\ k.version = job[m].version /\ WorkTargets(k) = {} /\ EndOrPromote(m)
            /\ UNCHANGED sweep
  <2>1. /\ GivesWay(m) /\ \A n \in MR \ {m} : job'[n] = job[n] /\ disk'[n] = disk[n]
    BY <1>13, EndOrPromoteStep DEF JobStep
  <2>2. JobAfter(job'[m]) /\ Agreed(job'[m])
    BY <1>7, <2>1 DEF GivesWay, NoJob, JobAfter, Agreed, WaryAfter, MaybeTargets
  <2>3. MaybeTargets(job[m].pending) \subseteq JobTargets(job'[m])
    BY <2>1 DEF GivesWay, JobTargets, MaybeTargets
  <2>4. \A t \in JobTargets(job[m]) : Live(t)' => t \in JobTargets(job'[m])
    BY <1>11, <1>13, <2>3
  <2>5. cleanupQueue' = cleanupQueue
    BY <1>13 DEF sweep
  <2>6. \A x \in Works : x.durable /\ x.mr = m /\ x \in Works' => WorkAfter(x)
    BY <1>10, <2>5 DEF InQueue
  <2> HIDE DEF ReactInv
  <2> QED
    BY <1>2, <1>4, <1>5, <1>6, <2>1, <2>2, <2>4, <2>5, <2>6, CleanupReacts
<1> QED
  BY <1>1, <1>2, <1>4, <1>8, <1>9, <1>12, <1>13 DEF CompleteDurable

LEMMA RemoteReacts ==
    ASSUME IInv, IInv', SortInv, CarryInv', ReactInv, NEW t \in Target,
           LateCommit(t) \/ WindowEnds(t)
    PROVE  ReactInv'
<1>1. UNCHANGED <<job, disk, life, handler, worker, cleaner, cleanupQueue, fallback, dropped>>
  BY DEF LateCommit, WindowEnds, store, sweep
<1>2. /\ inflight' \subseteq inflight
      /\ \A u \in Target : mark'[u] = "busy" => mark[u] = "busy" \/ u \in inflight
  BY DEF LateCommit, WindowEnds, IInv, TypeOK, RemoteOK
<1>3. \A u \in Target : Steady(u)
  BY <1>1, <1>2, RemoteSteady
<1>4. Windows' /\ fallback' \subseteq Note
  <2>1. inflight' = inflight \ {t} /\ (open' = open \/ open' = open \ {t})
    BY DEF LateCommit, WindowEnds
  <2> QED
    BY <1>1, <2>1 DEF ReactInv, Windows
<1>5. \A n \in MR : Unread(n)' = Unread(n)
  BY <1>1, UntouchedJobs
<1>6. Works' = Works /\ \A n \in MR : Solo(n)'
  BY <1>1 DEF Works, Solo, InQueue, InHand, ReactInv
<1> HIDE DEF ReactInv
<1> QED
  BY <1>1, <1>3, <1>4, <1>5, <1>6, IdleReacts

-----------------------------------------------------------------------------
(* Restart and shutdown.                                                   *)

LEMMA RestoreReacts ==
    ASSUME IInv, IInv', SortInv, CarryInv', ReactInv, NEW m \in MR, RestoreJob(m)
    PROVE  ReactInv'
<1> DEFINE e == disk[m]
           queued == [NoJob EXCEPT !.status = "queued", !.latest = e.event, !.persisted = TRUE]
           c == [event |-> e.event, outcome |-> e.outcome, aborted |-> e.aborted]
           settling == [NoJob EXCEPT !.status = "cleanup", !.latest = e.event,
                         !.pending = e.pending, !.version = 1, !.persisted = TRUE,
                         !.cleanup = c]
<1>1. /\ UNCHANGED <<disk, worker, cleaner, phase, remote, handler, fallback, dropped>>
      /\ toLoad' = toLoad \ {m} /\ phase = "restoring" /\ e \in Entry /\ EntryShape(e)
      /\ m \in toLoad /\ job[m] = NoJob
  BY DEF RestoreJob, IInv, Rest, Loading, TypeOK, StoreOK
<1>2. Unread(m) = e /\ Unread(m)' = None
      /\ \A n \in MR \ {m} : Unread(n)' = Unread(n)
  BY <1>1 DEF Unread, Known, alive
<1>3. e.event \in Event /\ e.pending \in MaybeEvent /\ e.aborted \in MaybeEvent /\ e # None
      /\ e.event # None
  BY <1>1, NilFacts DEF Entry
<1>4. /\ \A t \in Target : Steady(t)
      /\ NotesCalm /\ \A n \in MR : Steady(n) /\ Calm(n)
  BY <1>1, StillCalm DEF remote
<1>5. WaryAfter(e.event) /\ WaryAfter(e.pending) /\ WaryAfter(e.aborted)
  BY <1>2, <1>3, <1>4, EntryKept
<1>6. NoneForgotten /\ Windows' /\ fallback' \subseteq Note /\ ~closed
  BY <1>1 DEF ReactInv, Windows, remote, NoneForgotten, closed
<1>7. \A w \in Worker : Busy(w)' => worker'[w] = worker[w] /\ worker[w].mr # m
  <2> SUFFICES ASSUME NEW w \in Worker, Busy(w)' PROVE worker'[w] = worker[w] /\ worker[w].mr # m
    OBVIOUS
  <2>1. worker' = worker /\ Busy(w) /\ job[m].status # "running"
    BY <1>1 DEF Busy, NoJob
  <2>2. job[worker[w].mr].status = "running"
    BY <2>1, BusyFacts
  <2> QED
    BY <2>1, <2>2
<1>8. \A k \in Works : k.durable => k.mr # m
  <2>1. job[m].status # "cleanup"
    BY <1>1 DEF NoJob
  <2>2. \A k \in Works : k.durable => job[k.mr].status = "cleanup"
    BY DEF ReactInv, WorkOK, Current
  <2> QED
    BY <2>1, <2>2
<1>9. ASSUME JobAfter(job'[m]), Agreed(job'[m]), \A n \in MR \ {m} : job'[n] = job[n],
             EntryTargets(e) \subseteq JobTargets(job'[m]),
             cleanupQueue \subseteq cleanupQueue',
             \A k \in cleanupQueue' : k \in cleanupQueue \/ WorkAfter(k)
      PROVE  ReactInv'
  <2>1. Sound(m)'
    BY <1>2, <1>9, SoundAs
  <2>2. Works \subseteq Works' /\ \A k \in Works' : k \in Works \/ WorkAfter(k)
    BY <1>1, <1>9 DEF Works
  <2>3. \A n \in MR : Solo(n)'
    BY <1>1, SoloStep DEF closed
  <2>4. \A t \in Naming(m) : Kept(t)'
    <3>1. JobTargets(job[m]) = {}
      BY <1>1 DEF NoJob, JobTargets, MaybeTargets
    <3> QED
      BY <1>2, <1>3, <1>9, <3>1 DEF Naming, Kept
  <2>5. \A t \in Target : Awarded(t) => Kept(t)'
    BY <1>1 DEF Awarded, Kept
  <2>6. {m} \in SUBSET MR
    OBVIOUS
  <2> HIDE DEF ReactInv
  <2>7. Covered'
    BY <1>1, <1>2, <1>4, <1>9, <2>2, <2>4, <2>5, <2>6, CoveredHands
  <2> QED
    BY <1>2, <1>4, <1>6, <1>7, <1>8, <1>9, <2>1, <2>2, <2>3, <2>6, <2>7, ReactStep
<1>10. CASE e.outcome = "none"
  <2>1. job' = [job EXCEPT ![m] = queued] /\ UNCHANGED cleanupQueue
    BY <1>10 DEF RestoreJob, sweep
  <2>2. queued.latest = e.event /\ queued.pending = None /\ queued.cleanup = None
    BY DEF NoJob
  <2> HIDE DEF queued
  <2>3. job'[m] = queued /\ \A n \in MR \ {m} : job'[n] = job[n]
    BY <2>1 DEF IInv, TypeOK, StoreOK
  <2>4. e.pending = None /\ e.aborted = None
    BY <1>1, <1>10 DEF EntryShape
  <2>5. JobAfter(job'[m]) /\ Agreed(job'[m])
    BY <1>5, <2>2, <2>3 DEF JobAfter, Agreed, WaryAfter, MaybeTargets
  <2>6. EntryTargets(e) \subseteq JobTargets(job'[m])
    BY <1>3, <2>2, <2>3, <2>4 DEF EntryTargets, JobTargets, MaybeTargets
  <2> QED
    BY <1>9, <2>1, <2>3, <2>5, <2>6
<1>11. CASE e.outcome # "none"
  <2>1. job' = [job EXCEPT ![m] = Reserved(settling)] /\ QueueDurable(m, settling)
    BY <1>11 DEF RestoreJob
  <2>2. c # None /\ c.event = e.event /\ c.aborted = e.aborted
    BY <1>1, <1>3, <1>11, NilFacts DEF Entry, Cleanup
  <2> HIDE DEF c
  <2>3. /\ settling.cleanup = c /\ settling.version = 1 /\ Reserved(settling).version = 1
        /\ Reserved(settling).status = "cleanup" /\ Reserved(settling).latest = e.event
        /\ Reserved(settling).pending = e.pending /\ Reserved(settling).cleanup = c
    BY DEF NoJob, Reserved
  <2> HIDE DEF settling
  <2>4. job'[m] = Reserved(settling) /\ \A n \in MR \ {m} : job'[n] = job[n]
    BY <2>1 DEF IInv, TypeOK, StoreOK
  <2>5. JobAfter(job'[m]) /\ Agreed(job'[m])
    BY <1>5, <2>2, <2>3, <2>4 DEF JobAfter, Agreed
  <2>6. EntryTargets(e) \subseteq JobTargets(job'[m])
    BY <1>3, <2>2, <2>3, <2>4 DEF EntryTargets, JobTargets, MaybeTargets
  <2>7. Scheduling(m, settling) /\ settling.version \in Nat
    BY <1>5, <2>2, <2>3, <2>4 DEF Scheduling
  <2>8. /\ cleanupQueue \subseteq cleanupQueue'
        /\ \A k \in cleanupQueue' : k \in cleanupQueue \/ WorkAfter(k)
    BY <2>1, <2>7, ScheduledWork
  <2> QED
    BY <1>9, <2>4, <2>5, <2>6, <2>8
<1> QED
  BY <1>10, <1>11

\* An entry that is dropped gives up what it names.
LEMMA DropReacts ==
    ASSUME IInv, IInv', SortInv, CarryInv', ReactInv, NEW m \in MR, DropEntry(m)
    PROVE  ReactInv'
<1>1. /\ UNCHANGED <<job, cleanupQueue, worker, cleaner, fallback, phase, mark, open, inflight,
                     handler>>
      /\ disk' = [disk EXCEPT ![m] = None] /\ toLoad' = toLoad \ {m}
      /\ dropped' = dropped \cup EntryTargets(disk[m])
      /\ phase = "restoring" /\ job[m] = NoJob /\ m \in toLoad /\ disk[m] # None
  BY DropFacts DEF DropEntry, sweep, IInv, Rest, Loading
<1>2. /\ Unread(m) = disk[m] /\ Unread(m)' = None
      /\ \A n \in MR \ {m} : Unread(n)' = Unread(n)
  BY <1>1 DEF Unread, Known, alive, IInv, TypeOK, StoreOK
<1>3. /\ \A t \in Target : Steady(t)
      /\ NotesCalm /\ \A n \in MR : Steady(n) /\ Calm(n)
  BY <1>1, StillCalm
<1>4. NoneForgotten /\ Windows' /\ fallback' \subseteq Note /\ ~closed
  BY <1>1 DEF ReactInv, Windows, NoneForgotten, closed
<1>5. Sound(m)'
  BY <1>1, <1>2, <1>3, SameSound
<1>6. Works' = Works /\ \A n \in MR : Solo(n)'
  BY <1>1 DEF Works, Solo, InQueue, InHand, ReactInv
<1>7. \A t \in Naming(m) : Live(t)' => Kept(t)'
  <2>1. JobTargets(job[m]) = {}
    BY <1>1 DEF NoJob, JobTargets, MaybeTargets
  <2> QED
    BY <1>1, <1>2, <2>1 DEF Naming, Live
<1>8. \A t \in Target : Awarded(t) => Kept(t)'
  BY <1>1 DEF Awarded, Kept
<1>9. {m} \in SUBSET MR
  OBVIOUS
<1>10. \A w \in Worker : Busy(w)' => worker'[w] = worker[w] /\ worker[w].mr # m
  <2> SUFFICES ASSUME NEW w \in Worker, Busy(w)' PROVE worker'[w] = worker[w] /\ worker[w].mr # m
    OBVIOUS
  <2>1. worker' = worker /\ Busy(w) /\ job[m].status # "running"
    BY <1>1 DEF Busy, NoJob
  <2>2. job[worker[w].mr].status = "running"
    BY <2>1, BusyFacts
  <2> QED
    BY <2>1, <2>2
<1>11. \A k \in Works : k.durable => k.mr # m
  <2>1. job[m].status # "cleanup"
    BY <1>1 DEF NoJob
  <2>2. \A k \in Works : k.durable => job[k.mr].status = "cleanup"
    BY DEF ReactInv, WorkOK, Current
  <2> QED
    BY <2>1, <2>2
<1> HIDE DEF ReactInv
<1>12. Covered'
  BY <1>1, <1>2, <1>3, <1>6, <1>7, <1>8, <1>9, CoveredHands
<1> QED
  BY <1>1, <1>2, <1>3, <1>4, <1>5, <1>6, <1>9, <1>10, <1>11, <1>12, ReactStep

\* The daemon goes through its life without losing sight of anything.
LEMMA QuietReacts ==
    ASSUME IInv, IInv', SortInv, CarryInv', ReactInv,
           UNCHANGED <<store, sweep, worker, cleaner, fallback, remote, handler, dropped>>,
           \A n \in MR : Unread(n)' = Unread(n)
    PROVE  ReactInv'
<1>1. UNCHANGED <<job, handler, worker, cleaner, cleanupQueue, fallback, dropped>>
  BY DEF store, sweep
<1>2. \A t \in Target : Steady(t)
  BY StillCalm DEF remote
<1>3. Windows' /\ fallback' \subseteq Note
  BY DEF ReactInv, Windows, remote
<1>4. Works' = Works /\ \A n \in MR : Solo(n)'
  BY <1>1 DEF Works, Solo, InQueue, InHand, ReactInv
<1> HIDE DEF ReactInv
<1> QED
  BY <1>1, <1>2, <1>3, <1>4, IdleReacts

LEMMA QuietLifeReacts ==
    ASSUME IInv, IInv', SortInv, CarryInv', ReactInv,
           Serve \/ Stop \/ CloseIntake \/ GraceExpires \/ StopCleanup \/ Start
    PROVE  ReactInv'
<1>1. UNCHANGED <<store, sweep, worker, cleaner, fallback, remote, handler, dropped>>
  BY DEF Serve, Stop, CloseIntake, GraceExpires, StopCleanup, Start, Quiet
<1>2. ASSUME NEW n \in MR PROVE Unread(n)' = Unread(n)
  <2>1. CASE Serve \/ Stop \/ CloseIntake \/ GraceExpires \/ StopCleanup
    BY <1>1, <2>1 DEF Serve, Stop, CloseIntake, GraceExpires, StopCleanup, Unread, Known,
       alive, store
  <2>2. CASE Start
    BY <1>1, <2>2 DEF Start, Unread, Known, alive, store
  <2> QED
    BY <2>1, <2>2
<1> HIDE DEF ReactInv
<1> QED
  BY <1>1, <1>2, QuietReacts

LEMMA GraceReacts ==
    ASSUME IInv, IInv', SortInv, CarryInv', ReactInv, CleanupGraceExpires
    PROVE  ReactInv'
<1>1. /\ UNCHANGED <<job, disk, worker, cleaner, remote, handler, dropped, phase, toLoad>>
      /\ cleanupQueue' = {}
      /\ fallback' = fallback \cup
            UNION {WorkTargets(k) : k \in {k \in cleanupQueue : ~k.durable}}
  BY DEF CleanupGraceExpires, store
<1>2. /\ \A t \in Target : Steady(t)
      /\ NotesCalm /\ \A n \in MR : Steady(n)
  BY <1>1, StillCalm DEF remote
<1>3. \A n \in MR : job'[n] = job[n] /\ Unread(n)' = Unread(n)
  BY <1>1 DEF Unread, Known, alive
<1>4. \A k \in cleanupQueue : ~k.durable =>
          WorkTargets(k) = k.event.targets /\ k.event.targets \subseteq Note
  BY DEF ReactInv, Works, WorkOK, Released, WorkTargets, MaybeTargets
<1>5. /\ fallback \subseteq fallback' /\ fallback' \subseteq Note
      /\ \A k \in cleanupQueue : ~k.durable => k.event.targets \subseteq fallback'
  <2>1. fallback' \subseteq Note
    BY <1>1, <1>4 DEF ReactInv
  <2>2. \A k \in cleanupQueue : ~k.durable => k.event.targets \subseteq fallback'
    BY <1>1, <1>4
  <2> QED
    BY <1>1, <2>1, <2>2
<1>6. Works' \subseteq Works /\ \A k \in Works : k \in Works' \/ k \in cleanupQueue
  BY <1>1 DEF Works
<1>7. Windows' /\ NoneForgotten
  BY <1>1 DEF ReactInv, Windows, remote, NoneForgotten
<1>8. \A n \in MR : Solo(n)'
  <2>1. \A n \in MR : InQueue(n)' \subseteq InQueue(n) /\ InHand(n)' = InHand(n)
    BY <1>1 DEF InQueue, InHand
  <2> QED
    BY <2>1, SoloStep
<1>9. Covered'
  <2>1. \A t \in Target : Live(t)' => Live(t)
    BY <1>2 DEF Steady
  <2>2. \A t \in Target : Awarded(t) => Kept(t)'
    BY <1>1 DEF Awarded, Kept
  <2>3. \A t \in fallback : Kept(t)'
    BY <1>5 DEF Kept
  <2>4. \A n \in MR : Naming(n)' = Naming(n)
    BY <1>3 DEF Naming
  <2>5. \A n \in MR : \A t \in Naming(n) : Kept(t)'
    BY <2>4 DEF Kept
  <2>6. \A t \in Target : Releasing(t) => Kept(t)'
    BY <1>5, <1>6 DEF Releasing, Kept
  <2> HIDE DEF ReactInv
  <2> QED
    BY <2>1, <2>2, <2>3, <2>5, <2>6, CoveredStep
<1>10. {} \in SUBSET MR /\ \A w \in Worker : worker'[w] = worker[w]
  BY <1>1
<1> HIDE DEF ReactInv
<1> QED
  BY <1>2, <1>3, <1>5, <1>6, <1>7, <1>8, <1>9, <1>10, ReactStep

\* An entry written for a job names everything the job names, and knows what the job knows
\* of the awards that may still land.
LEMMA EntryTakesAll ==
    ASSUME NEW j \in Job, JobShape(j), j.status # "none", JobAfter(j), Agreed(j)
    PROVE  /\ WaryAfter(EntryOf(j).event) /\ WaryAfter(EntryOf(j).pending)
           /\ WaryAfter(EntryOf(j).aborted)
           /\ JobTargets(j) \subseteq EntryTargets(EntryOf(j))
           /\ EntryOf(j) # None
<1>1. /\ j.latest \in Event /\ j.latest # None /\ j.pending \in MaybeEvent
      /\ EntryOf(j) # None
  BY EntryOfType, NilFacts DEF JobShape, Job, MaybeEvent
<1>2. CASE j.cleanup = None
  <2>1. /\ EntryOf(j).event = Resume(j) /\ EntryOf(j).pending = None /\ EntryOf(j).aborted = None
    BY <1>2 DEF EntryOf
  <2>2. /\ Resume(j) # None /\ WaryAfter(Resume(j))
        /\ MaybeTargets(j.latest) \cup MaybeTargets(j.pending) \subseteq Resume(j).targets
    <3>1. CASE j.pending = None
      BY <1>1, <3>1 DEF Resume, JobAfter, MaybeTargets
    <3>2. CASE j.pending # None
      <4>1. j.pending \in Event
        BY <1>1, <3>2 DEF MaybeEvent
      <4>2. /\ Resume(j).targets = (Notes(j.latest) \cup Notes(j.pending))
                                     \cup ((j.latest.targets \cup j.pending.targets) \cap MR)
            /\ Resume(j).unsure = (j.latest.unsure \cup j.pending.unsure) \cap Resume(j).targets
        BY <3>2 DEF Resume, MergeKeeping
      <4>3. Resume(j).targets = j.latest.targets \cup j.pending.targets
        BY <1>1, <4>1, <4>2 DEF Notes, Event, Target
      <4>4. Resume(j) # None
        BY <1>1, ResumeType, NilFacts
      <4>5. WaryAfter(Resume(j))
        BY <1>1, <3>2, <4>2, <4>3, <4>4 DEF JobAfter, WaryAfter, MaybeTargets, MaybeUnsure
      <4> QED
        BY <1>1, <3>2, <4>3, <4>4, <4>5 DEF MaybeTargets
    <3> QED
      BY <3>1, <3>2
  <2>3. WaryAfter(None)
    BY DEF WaryAfter, MaybeTargets
  <2> QED
    BY <1>1, <1>2, <2>1, <2>2, <2>3 DEF JobTargets, EntryTargets
<1>3. CASE j.cleanup # None
  <2>1. /\ EntryOf(j).event = j.cleanup.event /\ EntryOf(j).pending = j.pending
        /\ EntryOf(j).aborted = j.cleanup.aborted
    BY <1>3 DEF EntryOf
  <2>2. j.latest = j.cleanup.event
    BY <1>3 DEF Agreed
  <2> QED
    BY <1>1, <1>3, <2>1, <2>2 DEF JobAfter, JobTargets, EntryTargets, MaybeTargets
<1> QED
  BY <1>2, <1>3

\* A process that is gone leaves everything unsettled to its journal, or gave it up.
LEMMA HaltReacts ==
    ASSUME IInv, SortInv, ReactInv, Halt, \A t \in Target : Steady(t), Windows',
           \A m \in MR : \/ disk'[m] = disk[m]
                         \/ Known(m) /\ job[m].status # "none" /\ disk'[m] = EntryOf(job[m]),
           \A m \in MR : Known(m) /\ disk'[m] = None => \A t \in JobTargets(job[m]) : ~Live(t)',
           \A t \in Target : Awarded(t) /\ Live(t)' => Awarded(t)',
           \A t \in Target : Releasing(t) \/ t \in fallback => ~Live(t)'
    PROVE  ReactInv'
<1>1. \A m \in MR : job'[m] = NoJob /\ Unread(m)' = disk'[m]
  BY DEF Halt, Unread, Known, alive
<1>2. \A m \in MR : Calm(m)
  BY DEF Calm
<1>3. ASSUME NEW m \in MR, disk'[m] # None
      PROVE  /\ EntryWary(Unread(m))'
             /\ \A t \in Naming(m) : Live(t)' => t \in Naming(m)'
  <2>1. CASE ~Known(m)
    <3>1. /\ disk'[m] = disk[m] /\ Unread(m) = disk[m] /\ Unread(m) # None
          /\ Unread(m)' = Unread(m)
      BY <1>1, <1>3, <2>1 DEF Unread
    <3>2. JobTargets(job[m]) = {}
      <4>1. job[m] = NoJob
        BY <2>1 DEF Known, IInv, Rest, Loading, Asleep
      <4> QED
        BY <4>1 DEF NoJob, JobTargets, MaybeTargets
    <3>3. EntryWary(Unread(m))'
      BY <1>2, <3>1, EntryKept DEF EntryWary, Wary, WaryAfter
    <3> QED
      BY <3>1, <3>2, <3>3 DEF Naming
  <2>2. CASE Known(m)
    <3>1. job[m].status # "none" /\ disk'[m] = EntryOf(job[m]) /\ Unread(m) = None
      BY <1>3, <2>2 DEF IInv, Rest, JournalCoherent, Coherent, Unread
    <3>2. /\ job[m] \in Job /\ JobShape(job[m]) /\ JobAfter(job[m]) /\ Agreed(job[m])
      BY <1>2, JobEventsKept DEF IInv, TypeOK, StoreOK, ReactInv, Sound
    <3>3. /\ WaryAfter(disk'[m].event) /\ WaryAfter(disk'[m].pending)
          /\ WaryAfter(disk'[m].aborted)
          /\ JobTargets(job[m]) \subseteq EntryTargets(disk'[m])
      BY <3>1, <3>2, EntryTakesAll
    <3>4. EntryWary(Unread(m))'
      BY <1>1, <3>3 DEF EntryWary, Wary, WaryAfter
    <3> QED
      BY <1>1, <1>3, <3>1, <3>3, <3>4 DEF Naming
  <2> QED
    BY <2>1, <2>2
<1>4. ASSUME NEW m \in MR PROVE Sound(m)'
  <2>1. JobWary(NoJob)' /\ Agreed(NoJob)
    BY DEF NoJob, JobWary, Wary, MaybeTargets, Agreed
  <2>2. EntryWary(Unread(m))'
    BY <1>1, <1>3 DEF EntryWary
  <2> QED
    BY <1>1, <2>1, <2>2 DEF Sound, JobWary, Agreed
<1>5. Works' = {} /\ fallback' = {}
  BY DEF Halt, Works, IdleCleaner
<1>6. \A m \in MR : Solo(m)'
  BY DEF Halt, Solo, InQueue, InHand, IdleCleaner
<1>7. \A w \in Worker : Tied(w)'
  BY DEF Halt, Tied, Busy, IdleWorker
<1>8. Covered'
  <2>1. ASSUME NEW m \in MR, NEW t \in Naming(m), Live(t)' PROVE Kept(t)'
    <3>1. CASE disk'[m] # None
      BY <1>3, <2>1, <3>1 DEF Kept
    <3>2. CASE disk'[m] = None
      <4>1. CASE Known(m)
        BY <2>1, <3>2, <4>1 DEF Naming, Unread
      <4>2. CASE ~Known(m)
        <5>1. job[m] = NoJob
          BY <4>2 DEF Known, IInv, Rest, Loading, Asleep
        <5>2. disk[m] = None
          BY <3>2, <4>2
        <5> QED
          BY <2>1, <4>2, <5>1, <5>2 DEF Naming, Unread, NoJob, JobTargets, MaybeTargets
      <4> QED
        BY <4>1, <4>2
    <3> QED
      BY <3>1, <3>2
  <2>2. \A t \in Target : Live(t)' => Live(t)
    BY DEF Steady
  <2>3. \A t \in Target : Live(t)' /\ Awarded(t) => Kept(t)'
    BY DEF Kept
  <2>4. \A t \in fallback : ~Live(t)'
    BY DEF ReactInv, Target
  <2> HIDE DEF ReactInv
  <2> QED
    BY <2>1, <2>2, <2>3, <2>4, CoveredStep
<1> QED
  BY <1>4, <1>5, <1>6, <1>7, <1>8 DEF ReactInv

LEMMA CrashReacts ==
    ASSUME IInv, SortInv, ReactInv, Crash
    PROVE  ReactInv'
<1>1. /\ Halt /\ UNCHANGED <<disk, mark, open, inflight>>
      /\ \A n \in Note : handler'[n] \in {handler[n], "lost"}
  BY DEF Crash, Halt, remote
<1>2. /\ dropped \subseteq dropped' /\ fallback \subseteq dropped'
      /\ \A t \in Target : Awarded(t) => t \in dropped'
      /\ \A m \in MR : ~job[m].persisted => JobTargets(job[m]) \subseteq dropped'
  BY DEF Crash, Cut, Awarded
<1>3. \A k \in Works : ~k.durable => k.event.targets \subseteq dropped'
  BY DEF Crash, Works, WorkTargets
<1>4. (\A t \in Target : Steady(t)) /\ Windows'
  BY <1>1, <1>2, StillCalm DEF ReactInv, Windows
<1>5. ASSUME NEW m \in MR, Known(m), disk'[m] = None, NEW t \in JobTargets(job[m])
      PROVE  ~Live(t)'
  <2>1. /\ job[m] \in Job /\ JobShape(job[m])
        /\ job[m].status # "none" /\ job[m].persisted => disk[m] = EntryOf(job[m])
    BY <1>5 DEF IInv, TypeOK, StoreOK, Rest, JournalCoherent, Coherent
  <2>2. ~job[m].persisted
    <3>1. CASE job[m].status = "none"
      BY <2>1, <3>1 DEF JobShape, NoJob
    <3>2. CASE job[m].status # "none"
      BY <1>1, <1>5, <2>1, <3>2, EntryOfType, NilFacts
    <3> QED
      BY <3>1, <3>2
  <2> QED
    BY <1>2, <1>5, <2>2 DEF Live
<1>6. \A t \in Target : /\ Awarded(t) => ~Live(t)'
                        /\ Releasing(t) \/ t \in fallback => ~Live(t)'
  BY <1>2, <1>3 DEF Releasing, Live
<1> HIDE DEF ReactInv
<1> QED
  BY <1>1, <1>4, <1>5, <1>6, HaltReacts

LEMMA ExitReacts ==
    ASSUME IInv, SortInv, ReactInv, Exit
    PROVE  ReactInv'
<1> DEFINE unsaved == {m \in MR : job[m].status # "none" /\ ~job[m].persisted}
           Lost(saved) == fallback \cup UNION {JobTargets(job[m]) : m \in unsaved \ saved}
           Cl(t) == job[IF t \in Note THEN NoteMR[t] ELSE t].cleanup
           Out(saved) == [t \in Lost(saved) |->
                IF Cl(t) # None /\ t \in Cl(t).event.targets THEN Shown(Cl(t).outcome)
                ELSE "none"]
<1>1. PICK saved \in SUBSET unsaved :
        /\ Lost(saved) \cap open = {}
        /\ \E failed \in SUBSET Lost(saved) :
           \E applied \in SUBSET failed, gone \in SUBSET (Lost(saved) \ failed) :
              /\ Replace(Out(saved), failed, applied, gone)
              /\ dropped' = dropped \cup failed \cup Cut
        /\ disk' = [m \in MR |-> IF m \in saved THEN EntryOf(job[m]) ELSE disk[m]]
  BY DEF Exit
<1>2. /\ Halt /\ alive /\ toLoad = {} /\ cleanupQueue = {}
      /\ \A c \in Cleaner : cleaner[c].step = "idle"
      /\ \A n \in Note : handler'[n] \in {handler[n], "lost"}
  BY DEF Exit, Halt, alive, IInv, Rest, Loading
<1>3. \A m \in MR : Known(m) /\ job[m] \in Job /\ JobShape(job[m]) /\ Coherent(m)
  BY <1>2 DEF Known, IInv, Rest, JournalCoherent, TypeOK, StoreOK
<1>4. Lost(saved) \subseteq Target /\ DOMAIN Out(saved) = Lost(saved)
  <2>1. \A m \in MR : JobTargets(job[m]) \subseteq Target
    <3> SUFFICES ASSUME NEW m \in MR PROVE JobTargets(job[m]) \subseteq Target
      OBVIOUS
    <3>1. job[m] \in Job
      BY <1>3
    <3> QED
      BY <3>1 DEF Job, Cleanup, JobTargets, MaybeTargets, MaybeEvent, Event
  <2> QED
    BY <2>1 DEF ReactInv, Target
<1>5. \A t \in Lost(saved) : Out(saved)[t] # "busy"
  BY DEF Shown
<1>6. fallback \subseteq Lost(saved) /\ \A m \in unsaved \ saved : JobTargets(job[m]) \subseteq Lost(saved)
  OBVIOUS
<1> HIDE DEF Lost, Out
<1>7. PICK failed \in SUBSET Lost(saved) :
           \E applied \in SUBSET failed, gone \in SUBSET (Lost(saved) \ failed) :
              /\ Replace(Out(saved), failed, applied, gone)
              /\ dropped' = dropped \cup failed \cup Cut
  BY <1>1
<1>8. /\ \A t \in Target : Steady(t)
      /\ Windows' /\ \A t \in Lost(saved) : ~Live(t)'
  <2>1. PICK applied \in SUBSET failed, gone \in SUBSET (Lost(saved) \ failed) :
              Replace(Out(saved), failed, applied, gone)
    BY <1>7
  <2>2. Windows /\ dropped \subseteq dropped'
    BY <1>7 DEF ReactInv
  <2>3. PICK shown : shown = Out(saved)
    OBVIOUS
  <2>4. /\ DOMAIN shown = Lost(saved) /\ DOMAIN shown \subseteq Target
        /\ \A t \in DOMAIN shown : shown[t] # "busy"
        /\ failed \in SUBSET (DOMAIN shown) /\ applied \in SUBSET failed
        /\ gone \in SUBSET (DOMAIN shown \ failed)
        /\ Replace(shown, failed, applied, gone)
    BY <1>4, <1>5, <2>1, <2>3
  <2> HIDE DEF ReactInv
  <2>5. /\ \A t \in Target : Steady(t)
        /\ Windows'
        /\ \A t \in DOMAIN shown : Live(t)' =>
                 t \in failed \/ (Flying(t) /\ t \notin gone /\ t \in open)
    BY <1>2, <2>2, <2>4, ReplaceDoes
  <2> QED
    BY <1>1, <1>7, <2>4, <2>5 DEF Live
<1>9. \A m \in MR : disk'[m] = disk[m] \/ (Known(m) /\ job[m].status # "none" /\ disk'[m] = EntryOf(job[m]))
  BY <1>1, <1>3
<1>10. ASSUME NEW m \in MR, Known(m), disk'[m] = None, NEW t \in JobTargets(job[m])
       PROVE  ~Live(t)'
  <2>1. job[m].status # "none"
    BY <1>3, <1>10 DEF JobShape, NoJob, JobTargets, MaybeTargets
  <2>2. disk'[m] # EntryOf(job[m])
    BY <1>3, <1>10, <2>1, EntryOfType, NilFacts
  <2>3. m \in unsaved \ saved
    BY <1>1, <1>3, <2>1, <2>2 DEF Coherent
  <2> QED
    BY <1>6, <1>8, <1>10, <2>3
<1>11. \A t \in Target : /\ Awarded(t) => ~Live(t)'
                         /\ Releasing(t) \/ t \in fallback => ~Live(t)'
  <2>1. \A t \in Target : Awarded(t) => ~Live(t)'
    BY <1>7 DEF Awarded, Cut, Live
  <2>2. \A t \in Target : Releasing(t) \/ t \in fallback => ~Live(t)'
    BY <1>2, <1>6, <1>8 DEF Releasing, Works
  <2> QED
    BY <2>1, <2>2
<1> HIDE DEF ReactInv
<1> QED
  BY <1>2, <1>8, <1>9, <1>10, <1>11, HaltReacts

LEMMA LifecycleReacts ==
    ASSUME IInv, IInv', SortInv, CarryInv', ReactInv, Lifecycle
    PROVE  ReactInv'
<1>1. CASE Serve \/ Stop \/ CloseIntake \/ GraceExpires \/ StopCleanup \/ Start
  BY <1>1, QuietLifeReacts
<1>2. CASE CleanupGraceExpires
  BY <1>2, GraceReacts
<1>3. CASE Exit
  BY <1>3, ExitReacts
<1>4. CASE Crash
  BY <1>4, CrashReacts
<1> QED
  BY <1>1, <1>2, <1>3, <1>4 DEF Lifecycle

LEMMA NextReacts ==
    ASSUME IInv, IInv', SortInv, CarryInv', CapInv, Room, ReactInv, [Next]_vars
    PROVE  ReactInv'
<1>1. ASSUME NEW m \in MR, \/ EnqueueEvent(m) \/ Abort(m) \/ TimerFires(m)
                           \/ RestoreJob(m) \/ DropEntry(m)
      PROVE  ReactInv'
  BY <1>1, IntakeReacts, AbortReacts, TimerReacts, RestoreReacts, DropReacts
<1>2. ASSUME NEW n \in Note, AwardAck(n) \/ HandleReview(n)
      PROVE  ReactInv'
  BY <1>2, AwardAckReacts, HandleReviewReacts
<1>3. ASSUME NEW w \in Worker, WorkerStep(w)
      PROVE  ReactInv'
  BY <1>3, TakeReacts, CheckRequestReacts, StartReactionReacts, RunReviewReacts,
     BeginSettlementReacts, SettleReviewReacts, FinishReacts DEF WorkerStep
<1>4. ASSUME NEW c \in Cleaner, CleanerStep(c)
      PROVE  ReactInv'
  <2>1. CASE CleanerComplete(c)
    BY <2>1, GivenUpReacts, CompleteReacts
  <2> QED
    BY <1>4, <2>1, CleanerTakeReacts, CleanerSettleReacts, CleanerCancelledReacts
       DEF CleanerStep
<1>5. ASSUME NEW t \in Target, LateCommit(t) \/ WindowEnds(t)
      PROVE  ReactInv'
  BY <1>5, RemoteReacts
<1>6. CASE Lifecycle
  BY <1>6, LifecycleReacts
<1>7. CASE UNCHANGED vars
  <2>1. UNCHANGED <<store, sweep, worker, cleaner, fallback, remote, handler, dropped>>
    BY <1>7 DEF vars
  <2>2. \A n \in MR : Unread(n)' = Unread(n)
    BY <1>7, UntouchedJobs DEF vars, store
  <2> HIDE DEF ReactInv
  <2> QED
    BY <2>1, <2>2, QuietReacts
<1> QED
  BY <1>1, <1>2, <1>3, <1>4, <1>5, <1>6, <1>7 DEF Next

LEMMA InitReacts ==
    ASSUME Init
    PROVE  ReactInv
<1>1. \A m \in MR : job[m] = NoJob /\ Unread(m) = None
  BY DEF Init, Unread
<1>2. JobWary(NoJob) /\ Agreed(NoJob)
  BY DEF NoJob, JobWary, Wary, MaybeTargets, Agreed
<1>3. \A m \in MR : Sound(m)
  BY <1>1, <1>2 DEF Sound, EntryWary
<1>4. Works = {} /\ \A m \in MR : Solo(m)
  BY DEF Init, Works, Solo, InQueue, InHand, IdleCleaner
<1>5. Windows /\ fallback \subseteq Note /\ \A w \in Worker : Tied(w)
  BY DEF Init, Windows, Tied, Busy, IdleWorker
<1>6. Covered
  BY DEF Init, Covered, Live
<1> QED
  BY <1>3, <1>4, <1>5, <1>6 DEF ReactInv

LEMMA KeptAreHeld ==
    ASSUME IInv, ReactInv
    PROVE  NoStrandedReaction
<1> SUFFICES ASSUME NEW t \in Target, Kept(t)
             PROVE  Held(t)
  BY DEF NoStrandedReaction, ReactInv, Covered, Live
<1>1. CASE Awarded(t) \/ t \in fallback
  BY <1>1 DEF Awarded, Held
<1>2. CASE \E m \in MR : t \in Naming(m)
  <2>1. PICK m \in MR : t \in Naming(m)
    BY <1>2
  <2>2. CASE Known(m)
    BY <2>1, <2>2 DEF Naming, Unread, Held
  <2>3. CASE ~Known(m)
    <3>1. job[m] = NoJob
      BY <2>3 DEF Known, IInv, Rest, Loading, Asleep
    <3>2. disk[m] # None /\ t \in EntryTargets(disk[m])
      BY <2>1, <2>3, <3>1 DEF Naming, Unread, NoJob, JobTargets, MaybeTargets
    <3> QED
      BY <2>3, <3>2 DEF Held
  <2> QED
    BY <2>2, <2>3
<1>3. CASE Releasing(t)
  <2>1. PICK k \in Works : t \in WorkTargets(k)
    BY <1>3 DEF Releasing, WorkTargets
  <2> QED
    BY <2>1 DEF Works, Held
<1> QED
  BY <1>1, <1>2, <1>3 DEF Kept

\* Every reaction the bot left "in progress", or whose award may still land, has someone
\* who will settle it, was given up by a path that logs it, or was known only to the memory
\* of a process that ended (a job without its entry, a webhook request between its award and
\* its job): through acknowledgements in doubt, reviews that are aborted, settled anew or
\* re-run, retries, timers, restarts, crashes and the last sweep of a shutdown.  The one way
\* around it is an abort that drops notes over the cap in the middle of a settlement
\* (AbortRunning), and `Room` excludes just that.
THEOREM NoReactionLeftBehind == Spec /\ []Room => []NoStrandedReaction
<1>1. IInv /\ IInv' /\ SortInv /\ CarryInv' /\ CapInv /\ Room /\ ReactInv /\ [Next]_vars
        => ReactInv'
  BY NextReacts
<1>2. Spec /\ []Room => []ReactInv
  BY <1>1, InitReacts, InductiveInvariant, InvariantCarry, InvariantCap, InvariantSorts,
     PTL DEF Spec
<1>3. IInv /\ ReactInv => NoStrandedReaction
  BY KeptAreHeld
<1> QED
  BY <1>2, <1>3, InductiveInvariant, PTL

\* No request has more notes than one event carries.
Roomy == \A m \in MR : Fits({n \in Note : NoteMR[n] = m})

LEMMA RoomForAll ==
    ASSUME IInv, SortInv, Roomy
    PROVE  Room
<1> SUFFICES ASSUME NEW m \in MR, job[m].status = "running"
             PROVE  Fits(MergedNotes(job[m]))
  BY DEF Room
<1>1. Of(m, MaybeTargets(job[m].latest)) /\ Of(m, MaybeTargets(job[m].pending))
  BY JobIsOf
<1>2. job[m].latest # None
  BY DEF IInv, TypeOK, StoreOK, JobShape
<1>3. MergedNotes(job[m]) \subseteq {n \in Note : NoteMR[n] = m}
  BY <1>1, <1>2, NilFacts DEF MergedNotes, Notes, Of, Own, MaybeTargets
<1> QED
  BY <1>3, FitsFinite DEF Roomy

\* That is so without any further condition where every request has at most as many
\* command notes as one event carries.
COROLLARY NoReactionLeftBehindInRoom ==
    ASSUME Roomy
    PROVE  Spec => []NoStrandedReaction
<1>1. IInv /\ SortInv => Room
  BY RoomForAll
<1> QED
  BY <1>1, InductiveInvariant, InvariantSorts, NoReactionLeftBehind, PTL
=============================================================================
