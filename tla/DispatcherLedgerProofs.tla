----------------------- MODULE DispatcherLedgerProofs -----------------------
(***************************************************************************)
(* The dispatcher implements the ledger of reviews, for every set of merge *)
(* requests, notes and workers, with crashes and restarts at any point.    *)
(***************************************************************************)
EXTENDS DispatcherLedger, DispatcherPoolProofs

-----------------------------------------------------------------------------
(* The invariant the refinement needs beside the others.                   *)

\* While the dispatcher is open a queued job has nothing pending: a worker that takes
\* it takes all that is owed.
Fresh == ~closed => \A m \in MR : job[m].status = "queued" => job[m].pending = None
\* Only the end of the grace period interrupts a review, ...
Interrupted == \A w \in Worker : worker[w].outcome = "interrupted" => jobCancelled
\* ... and the grace period ends after the intake was closed.
Cancelled == jobCancelled => phase \in {"closed", "settling"}
Retiring == Fresh /\ Interrupted /\ Cancelled
LInv == IInv /\ PoolInv /\ Retiring

LEMMA KeepsRetiring ==
    ASSUME Retiring, UNCHANGED life,
           \A m \in MR : ~closed /\ job'[m].status = "queued" =>
               \/ job'[m].pending = None
               \/ job[m].status = "queued" /\ job'[m].pending = job[m].pending,
           \A w \in Worker : worker'[w].outcome = "interrupted" =>
               worker[w].outcome = "interrupted" \/ jobCancelled
    PROVE  Retiring'
BY DEF Retiring, Fresh, Interrupted, Cancelled, life, closed

-----------------------------------------------------------------------------
(* The ledger that a step of the dispatcher writes.                        *)

\* What the ledger logs beside the failures.
logs == <<askedBar, withdrawnBar>>

Refines == [Ledger!LedgerNext]_(Ledger!vars)

\* What is in progress of a job.
Active(j) == IF j.status = "running" /\ j.cleanup = None THEN j.latest.kind ELSE "none"

LEMMA StutterRefines ==
    ASSUME UNCHANGED <<job, disk, life>>, UNCHANGED logs
    PROVE  Refines
<1>1. UNCHANGED <<todoBar, activeBar, safeBar, askedBar, withdrawnBar>>
  BY DEF todoBar, activeBar, safeBar, Known, alive, life, logs
<1>2. CASE UNCHANGED faults
  BY <1>1, <1>2 DEF Refines, Ledger!vars
<1>3. CASE faults' # faults
  BY <1>1, <1>3 DEF Refines, Ledger!LedgerNext, Ledger!Fail
<1> QED
  BY <1>2, <1>3

\* A step on one restored job changes the ledger's record of that job alone.
LEMMA BarStep ==
    ASSUME IInv, NEW m \in MR, JobStep(m), alive, m \notin toLoad, UNCHANGED life
    PROVE  /\ todoBar' = [todoBar EXCEPT ![m] = OwedByJob(job'[m])]
           /\ activeBar' = [activeBar EXCEPT ![m] = Active(job'[m])]
           /\ Ledger!Journal(m)
           /\ todoBar[m] = OwedByJob(job[m]) /\ activeBar[m] = Active(job[m])
<1>1. Known(m) /\ Known(m)' /\ \A n \in MR : Known(n)' <=> Known(n)
  BY DEF Known, alive, life
<1>2. \A n \in MR \ {m} : job'[n] = job[n] /\ disk'[n] = disk[n]
  BY DEF JobStep
<1>3. todoBar' = [todoBar EXCEPT ![m] = OwedByJob(job'[m])] /\ todoBar[m] = OwedByJob(job[m])
  BY <1>1, <1>2 DEF todoBar
<1>4. activeBar' = [activeBar EXCEPT ![m] = Active(job'[m])] /\ activeBar[m] = Active(job[m])
  BY <1>2 DEF activeBar, Active
<1>5. Ledger!Journal(m)
  <2>1. \A n \in MR \ {m} : n \in safeBar' <=> n \in safeBar
    BY <1>1, <1>2 DEF safeBar
  <2>2. safeBar \subseteq MR /\ safeBar' \subseteq MR
    BY DEF safeBar
  <2>3. CASE m \in safeBar'
    <3>1. safeBar' = safeBar \cup {m}
      BY <2>1, <2>2, <2>3
    <3> QED
      BY <3>1 DEF Ledger!Journal
  <2>4. CASE m \notin safeBar /\ m \notin safeBar'
    <3>1. safeBar' = safeBar
      BY <2>1, <2>2, <2>4
    <3> QED
      BY <3>1 DEF Ledger!Journal
  <2>5. CASE m \in safeBar /\ m \notin safeBar'
    <3>1. safeBar' = safeBar \ {m}
      BY <2>1, <2>2, <2>5
    <3>2. /\ job[m].status # "none" /\ job[m].persisted
          /\ job'[m].status = "none" \/ ~job'[m].persisted
      BY <1>1, <2>5 DEF safeBar
    <3>3. CASE job'[m].status = "none"
      <4>1. job'[m] = NoJob
        BY <3>3 DEF JobStep, StoreOK, JobShape
      <4>2. OwedByJob(job'[m]) = "none" /\ Active(job'[m]) = "none"
        BY <4>1 DEF OwedByJob, Active, NoJob
      <4>3. todoBar'[m] = "none" /\ activeBar'[m] = "none"
        BY <1>1, <4>2 DEF todoBar, activeBar, Active
      <4> QED
        BY <3>1, <4>3 DEF Ledger!Journal, Ledger!Unsafe, Ledger!Nothing
    <3>4. CASE job'[m].status # "none"
      <4>1. Journaled => faults' # faults
        BY <3>2, <3>4 DEF JobStep, Written
      <4> QED
        BY <3>1, <4>1 DEF Ledger!Journal, Ledger!Unsafe
    <3> QED
      BY <3>3, <3>4
  <2> QED
    BY <2>3, <2>4, <2>5
<1> QED
  BY <1>3, <1>4, <1>5

\* A step that leaves what a job owes and what is in progress is bookkeeping, one
\* that only ends what is in progress ends a review.
LEMMA RewriteRefines ==
    ASSUME IInv, NEW m \in MR, JobStep(m), alive, m \notin toLoad, UNCHANGED life,
           UNCHANGED logs,
           OwedByJob(job'[m]) = OwedByJob(job[m]),
           Active(job'[m]) = Active(job[m]) \/ Active(job'[m]) = "none"
    PROVE  Refines
<1>1. /\ todoBar' = [todoBar EXCEPT ![m] = OwedByJob(job'[m])]
      /\ activeBar' = [activeBar EXCEPT ![m] = Active(job'[m])]
      /\ Ledger!Journal(m)
      /\ todoBar[m] = OwedByJob(job[m]) /\ activeBar[m] = Active(job[m])
  BY BarStep
<1>2. todoBar' = todoBar
  BY <1>1 DEF todoBar
<1>3. CASE Active(job'[m]) = Active(job[m])
  <2>1. activeBar' = activeBar
    BY <1>1, <1>3 DEF activeBar
  <2>2. Ledger!Rewrite(m)
    BY <1>1, <1>2, <2>1 DEF Ledger!Rewrite, logs
  <2> QED
    BY <2>2 DEF Refines, Ledger!LedgerNext
<1>4. CASE Active(job'[m]) = "none" /\ Active(job[m]) # "none"
  <2>1. Ledger!End(m)
    BY <1>1, <1>2, <1>4 DEF Ledger!End, Ledger!Nothing, logs
  <2> QED
    BY <2>1 DEF Refines, Ledger!LedgerNext
<1> QED
  BY <1>3, <1>4

LEMMA AcceptRefines ==
    ASSUME IInv, NEW m \in MR, NEW e \in Event, Accepted(m, e), Serving, UNCHANGED life,
           askedBar' # askedBar, UNCHANGED withdrawnBar
    PROVE  Refines
<1>1. alive /\ toLoad = {} /\ JobStep(m)
  BY ServingFacts DEF Accepted
<1>2. /\ todoBar' = [todoBar EXCEPT ![m] = OwedByJob(job'[m])]
      /\ activeBar' = [activeBar EXCEPT ![m] = Active(job'[m])]
      /\ Ledger!Journal(m)
      /\ todoBar[m] = OwedByJob(job[m]) /\ activeBar[m] = Active(job[m])
  BY <1>1, BarStep
<1>3. job[m] \in Job /\ JobShape(job[m]) /\ job'[m] \in Job
  BY <1>1 DEF JobStep, IInv, TypeOK, StoreOK
<1>4. /\ job[m].latest \in MaybeEvent /\ job[m].pending \in MaybeEvent
      /\ e.kind \in Trigger
      /\ job[m].latest # None => job[m].latest.kind \in Trigger
      /\ job[m].pending # None => job[m].pending.kind \in Trigger
  BY <1>3 DEF Job, MaybeEvent, Event
<1>5. /\ OwedByJob(job'[m]) = Ledger!Join(OwedByJob(job[m]), e.kind)
      /\ Active(job'[m]) = Active(job[m])
  <2>1. CASE Created(m, e)
    BY <1>4, <2>1, NilFacts
    DEF Created, NoJob, OwedByJob, Active, Resume, Ledger!Join, Ledger!Nothing, Trigger
  <2>2. CASE ParkedBehind(m, e)
    <3>1. job'[m].pending # None
      BY <2>2, NilFacts DEF ParkedBehind
    <3> QED
      BY <1>4, <2>2, <3>1
      DEF ParkedBehind, OwedByJob, Active, Stronger, Ledger!Join, Ledger!Nothing, Trigger
  <2>3. CASE Joined(m, e)
    <3>1. /\ job[m].latest # None /\ job'[m].latest # None
          /\ job'[m].latest.kind = Stronger(job[m].latest.kind, e.kind)
      BY <1>3, <2>3, NilFacts DEF Joined, JobShape
    <3>2. /\ Resume(job[m]).kind = IF job[m].pending = None THEN job[m].latest.kind
                               ELSE Stronger(job[m].latest.kind, job[m].pending.kind)
          /\ Resume(job'[m]).kind = IF job[m].pending = None THEN job'[m].latest.kind
                               ELSE Stronger(job'[m].latest.kind, job[m].pending.kind)
      BY <1>3, <2>3, <3>1, ResumeType DEF Joined
    <3> QED
      BY <1>4, <2>3, <3>1, <3>2
      DEF Joined, OwedByJob, Active, Stronger, Ledger!Join, Ledger!Nothing, Trigger
  <2> QED
    BY <2>1, <2>2, <2>3 DEF Accepted
<1>6. activeBar' = activeBar
  BY <1>2, <1>5 DEF activeBar
<1>7. Ledger!Accept(m, e.kind)
  BY <1>2, <1>5, <1>6 DEF Ledger!Accept
<1>8. e.kind \in Ledger!Trigger
  BY <1>4 DEF Trigger, Ledger!Trigger
<1> QED
  BY <1>7, <1>8 DEF Refines, Ledger!LedgerNext

\* Only the job of the step can have become queued with something pending.
LEMMA OneJobRetires ==
    ASSUME Retiring, NEW m \in MR, JobStep(m), UNCHANGED life,
           ~closed /\ job'[m].status = "queued" =>
               \/ job'[m].pending = None
               \/ job[m].status = "queued" /\ job'[m].pending = job[m].pending,
           \A w \in Worker : worker'[w].outcome = "interrupted" =>
               worker[w].outcome = "interrupted" \/ jobCancelled
    PROVE  Retiring'
<1>1. \A n \in MR \ {m} : job'[n] = job[n]
  BY DEF JobStep
<1>2. ASSUME NEW n \in MR, ~closed, job'[n].status = "queued"
      PROVE  \/ job'[n].pending = None
             \/ job[n].status = "queued" /\ job'[n].pending = job[n].pending
  BY <1>1, <1>2
<1> QED
  BY <1>2 DEF Retiring, Fresh, Interrupted, Cancelled, life, closed

LEMMA AcceptedRetires ==
    ASSUME LInv, NEW m \in MR, NEW e \in Event, Accepted(m, e), UNCHANGED <<worker, life>>
    PROVE  Retiring'
<1>1. job'[m].status = "queued" =>
        \/ job'[m].pending = None
        \/ job[m].status = "queued" /\ job'[m].pending = job[m].pending
  BY DEF Accepted, Created, ParkedBehind, Joined
<1>2. JobStep(m) /\ Retiring /\ UNCHANGED life
  BY DEF LInv, Accepted
<1>3. \A w \in Worker : worker'[w].outcome = worker[w].outcome
  OBVIOUS
<1> QED
  BY <1>1, <1>2, <1>3, OneJobRetires

\* A step that takes no request and calls nothing off logs nothing.
LEMMA AskedSame ==
    ASSUME used'["auto"] = used["auto"], used'["emoji"] = used["emoji"],
           used'["abort"] = used["abort"], used'["vanish"] = used["vanish"],
           \A n \in Note : handler'[n] = "done" <=> handler[n] = "done"
    PROVE  UNCHANGED logs
BY DEF logs, askedBar, withdrawnBar

-----------------------------------------------------------------------------
(* Webhooks and aborts.                                                    *)

LEMMA EnqueueEventLedger ==
    ASSUME LInv, NEW m \in MR, EnqueueEvent(m)
    PROVE  Refines /\ Retiring'
<1>1. PICK e \in Event : Enqueue(m, e)
  <2>1. \A k \in Trigger : [kind |-> k, targets |-> {}, unsure |-> {}] \in Event
    BY DEF Event
  <2> QED
    BY <2>1 DEF EnqueueEvent, Trigger
<1>2. Accepted(m, e)
  BY <1>1, EnqueueStep DEF LInv
<1>3. askedBar' # askedBar
  <2>1. used \in [EnvEvent -> Nat]
    BY DEF LInv, IInv, TypeOK, RequestsOK
  <2>2. used'["auto"] = used["auto"] + 1 \/ used'["emoji"] = used["emoji"] + 1
    BY <2>1 DEF EnqueueEvent, Use, EnvEvent
  <2>3. used["auto"] \in Nat /\ used["emoji"] \in Nat
    BY <2>1 DEF EnvEvent
  <2>4. used'["auto"] # used["auto"] \/ used'["emoji"] # used["emoji"]
    BY <2>2, <2>3
  <2> QED
    BY <2>4 DEF askedBar
<1>4. UNCHANGED withdrawnBar
  BY DEF EnqueueEvent, Use, withdrawnBar, LInv, IInv, TypeOK, RequestsOK, EnvEvent
<1> QED
  BY <1>2, <1>3, <1>4, AcceptRefines, AcceptedRetires DEF EnqueueEvent, LInv

LEMMA AwardAckLedger ==
    ASSUME LInv, NEW n \in Note, AwardAck(n)
    PROVE  Refines /\ Retiring'
<1>1. UNCHANGED <<job, disk, life, worker>>
  BY DEF AwardAck, store
<1>2. UNCHANGED logs
  <2>1. /\ used'["auto"] = used["auto"] /\ used'["emoji"] = used["emoji"]
        /\ used'["abort"] = used["abort"] /\ used'["vanish"] = used["vanish"]
    BY DEF AwardAck, TimesOut, Use, LInv, IInv, TypeOK, RequestsOK, EnvEvent
  <2>2. \A k \in Note : handler'[k] = "done" <=> handler[k] = "done"
    BY DEF AwardAck, LInv, IInv, TypeOK, RequestsOK
  <2> QED
    BY <2>1, <2>2, AskedSame
<1> QED
  BY <1>1, <1>2, StutterRefines, KeepsRetiring DEF LInv

LEMMA HandleReviewLedger ==
    ASSUME LInv, NEW n \in Note, HandleReview(n)
    PROVE  Refines /\ Retiring'
<1>1. NoteMR[n] \in MR /\ CommandEvent(n) \in Event
  BY SizeAssumption DEF CommandEvent, Event, Trigger, Target
<1>2. Serving /\ UNCHANGED <<worker, life>>
  BY DEF HandleReview, LInv, IInv, Rest, Asleep
<1>3. askedBar' # askedBar
  <2>1. handler[n] # "done" /\ handler'[n] = "done"
    BY DEF HandleReview, LInv, IInv, TypeOK, RequestsOK
  <2> QED
    BY <2>1 DEF askedBar
<1>4. UNCHANGED withdrawnBar
  BY DEF HandleReview, withdrawnBar
<1>5. CASE Enqueue(NoteMR[n], CommandEvent(n))
  <2>1. Accepted(NoteMR[n], CommandEvent(n))
    BY <1>1, <1>5, EnqueueStep DEF LInv
  <2> QED
    BY <1>1, <1>2, <1>3, <1>4, <2>1, AcceptRefines, AcceptedRetires DEF LInv
<1>6. CASE UNCHANGED store
  <2>1. UNCHANGED <<job, disk>>
    BY <1>6 DEF store
  <2>2. UNCHANGED <<todoBar, activeBar, safeBar>>
    BY <1>2, <2>1 DEF todoBar, activeBar, safeBar, Known, alive, life
  <2>3. Ledger!Refuse
    BY <1>3, <1>4, <1>6, <2>2 DEF Ledger!Refuse, store
  <2>4. Retiring'
    BY <1>2, <2>1, KeepsRetiring DEF LInv
  <2> QED
    BY <2>3, <2>4 DEF Refines, Ledger!LedgerNext
<1> QED
  BY <1>5, <1>6 DEF HandleReview

LEMMA AbortLedger ==
    ASSUME LInv, NEW m \in MR, Abort(m)
    PROVE  Refines /\ Retiring'
<1>1. alive /\ toLoad = {} /\ UNCHANGED <<life, worker>>
  BY ServingFacts DEF Abort, LInv
<1>2. /\ JobStep(m) /\ job'[m].status # "queued" /\ job'[m].pending = None
      /\ job'[m].status = "running" => job'[m].cleanup # None
  BY AbortRunningStep, AbortQueuedStep, AbortPendingStep DEF Abort, LInv
<1>3. OwedByJob(job'[m]) = "none" /\ Active(job'[m]) = "none"
  BY <1>2 DEF OwedByJob, Active
<1>4. UNCHANGED askedBar /\ withdrawnBar' # withdrawnBar
  <2>1. used \in [EnvEvent -> Nat]
    BY DEF LInv, IInv, TypeOK, RequestsOK
  <2>2. used' = [used EXCEPT !["abort"] = used["abort"] + 1] /\ UNCHANGED handler
    BY DEF Abort, Use
  <2>3. /\ used'["auto"] = used["auto"] /\ used'["emoji"] = used["emoji"]
        /\ used'["abort"] = used["abort"] + 1 /\ used["abort"] \in Nat
    BY <2>1, <2>2 DEF EnvEvent
  <2>4. used'["abort"] # used["abort"]
    BY <2>3
  <2> QED
    BY <2>2, <2>3, <2>4 DEF askedBar, withdrawnBar
<1>5. Ledger!Cancel(m)
  BY <1>1, <1>2, <1>3, <1>4, BarStep DEF LInv, Ledger!Cancel, Ledger!Nothing
<1>6. Retiring'
  BY <1>1, <1>2, OneJobRetires DEF LInv
<1> QED
  BY <1>5, <1>6 DEF Refines, Ledger!LedgerNext

-----------------------------------------------------------------------------
(* Review workers.                                                         *)

\* A worker takes a queued job with everything it owes.
LEMMA TakeLedger ==
    ASSUME LInv, NEW w \in Worker, Take(w)
    PROVE  Refines /\ Retiring'
<1> DEFINE m == Head(queue)
<1>1. /\ m \in MR /\ ~closed /\ alive /\ toLoad = {} /\ UNCHANGED life
      /\ UNCHANGED <<handler, used, disk>>
  BY ServingFacts DEF Take, Serving, LInv, IInv, TypeOK, PoolOK, closed
<1>2. UNCHANGED logs /\ UNCHANGED faults
  BY <1>1 DEF askedBar, withdrawnBar, logs, Take
<1>3. CASE ~Takeable(m)
  <2>1. UNCHANGED <<job, worker>>
    BY <1>3 DEF Take
  <2> QED
    BY <1>1, <1>2, <2>1, StutterRefines, KeepsRetiring DEF LInv
<1>4. CASE Takeable(m)
  <2>1. /\ job' = [job EXCEPT ![m].status = "running", ![m].cancelled = FALSE]
        /\ worker' = [worker EXCEPT ![w] =
               [step |-> "check", mr |-> m, event |-> job[m].latest,
                outcome |-> "none", version |-> 0]]
    BY <1>4 DEF Take
  <2>2. /\ job[m] \in Job /\ job[m].status = "queued" /\ job[m].cleanup = None
        /\ job[m].pending = None /\ job[m].latest \in Event
    BY <1>1, <1>4
    DEF Takeable, LInv, IInv, TypeOK, StoreOK, JobShape, Retiring, Fresh, Job, MaybeEvent
  <2>3. /\ job'[m].status = "running" /\ job'[m].latest = job[m].latest
        /\ job'[m].pending = None /\ job'[m].cleanup = None
        /\ job'[m].persisted = job[m].persisted
        /\ \A n \in MR \ {m} : job'[n] = job[n]
    BY <1>1, <2>1, <2>2 DEF LInv, IInv, TypeOK, StoreOK, Job
  <2>4. \A n \in MR : Known(n) /\ Known(n)'
    BY <1>1 DEF Known, alive, life
  <2>5. /\ todoBar[m] = job[m].latest.kind /\ activeBar[m] = "none"
        /\ todoBar' = [todoBar EXCEPT ![m] = "none"]
        /\ activeBar' = [activeBar EXCEPT ![m] = todoBar[m]]
    BY <1>1, <2>2, <2>3, <2>4 DEF todoBar, activeBar, OwedByJob, Resume
  <2>6. safeBar' = safeBar
    BY <1>1, <2>2, <2>3, <2>4 DEF safeBar
  <2>7. job[m].latest.kind # "none"
    BY <2>2 DEF Event, Trigger
  <2>8. Ledger!Begin(m)
    BY <1>2, <2>5, <2>6, <2>7 DEF Ledger!Begin, Ledger!Nothing, logs
  <2>9. Retiring'
    <3>1. \A u \in Worker : worker'[u].outcome = "interrupted" => worker[u].outcome = "interrupted"
      BY <2>1 DEF LInv, IInv, TypeOK, WorkerOK
    <3>2. ASSUME NEW n \in MR, job'[n].status = "queued"
          PROVE  job[n].status = "queued" /\ job'[n].pending = job[n].pending
      BY <2>3, <3>2
    <3> QED
      BY <1>1, <3>1, <3>2, KeepsRetiring DEF LInv
  <2> QED
    BY <1>1, <2>8, <2>9 DEF Refines, Ledger!LedgerNext
<1> QED
  BY <1>3, <1>4

\* A worker that notes a reaction in its job owes and reviews what it did.
LEMMA RecordedLedger ==
    ASSUME LInv, NEW w \in Worker, Busy(w),
           NEW targets \in SUBSET Target, NEW unsure \in SUBSET Target,
           Save(worker[w].mr, Recorded(job[worker[w].mr], targets, unsure)),
           UNCHANGED life, UNCHANGED logs
    PROVE  /\ Refines
           /\ \A n \in MR : job'[n].status = "queued" =>
                 job[n].status = "queued" /\ job'[n].pending = job[n].pending
<1> DEFINE m == worker[w].mr
           r == Recorded(job[m], targets, unsure)
<1>1. /\ m \in MR /\ job[m] \in Job /\ JobShape(job[m]) /\ job[m].status = "running"
      /\ alive /\ toLoad = {}
  BY BusyFacts, ServingFacts DEF LInv
<1>2. /\ r \in Job /\ JobShape(r) /\ r.status = "running" /\ r.pending = job[m].pending
      /\ r.cleanup = None <=> job[m].cleanup = None
      /\ job[m].cleanup = None => r.latest.kind = job[m].latest.kind
  BY <1>1, RecordedType
<1> HIDE DEF r
<1>3. Save(m, r)
  BY DEF r
<1>4. /\ JobStep(m) /\ job'[m].status = "running" /\ job'[m].latest = r.latest
      /\ job'[m].cleanup = r.cleanup /\ job'[m].pending = r.pending
  BY <1>1, <1>2, <1>3, SaveStep DEF LInv, IInv, TypeOK
<1>5. OwedByJob(job'[m]) = OwedByJob(job[m]) /\ Active(job'[m]) = Active(job[m])
  BY <1>1, <1>2, <1>4 DEF OwedByJob, Active
<1>6. Refines
  BY <1>1, <1>4, <1>5, RewriteRefines DEF LInv
<1> QED
  BY <1>1, <1>4, <1>6 DEF JobStep

LEMMA CheckRequestLedger ==
    ASSUME LInv, NEW w \in Worker, CheckRequest(w)
    PROVE  Refines /\ Retiring'
<1>1. /\ Busy(w) /\ worker[w].mr \in Target /\ worker \in [Worker -> WorkerState]
      /\ UNCHANGED life /\ UNCHANGED logs
  BY BusyFacts DEF CheckRequest, Busy, LInv, Target, logs, askedBar, withdrawnBar, IInv, TypeOK, WorkerOK
<1>2. ASSUME NEW o \in PreRunOutcomes(w), Goto(w, Ends("begin", o), o), UNCHANGED store
      PROVE  Refines /\ Retiring'
  <2>1. \A u \in Worker : worker'[u].outcome = "interrupted" =>
            worker[u].outcome = "interrupted" \/ jobCancelled
    <3>1. o = "interrupted" => jobCancelled
      BY <1>2 DEF PreRunOutcomes
    <3> DEFINE v == [worker[w] EXCEPT !.step = Ends("begin", o), !.outcome = o]
    <3>2. worker' = [worker EXCEPT ![w] = v]
      BY <1>1, <1>2 DEF Goto
    <3>3. v.outcome = o
      BY <1>1 DEF WorkerState
    <3> QED
      BY <1>1, <3>1, <3>2, <3>3
  <2> QED
    BY <1>1, <1>2, <2>1, StutterRefines, KeepsRetiring DEF LInv, store
<1>3. ASSUME Save(worker[w].mr, Recorded(job[worker[w].mr], {worker[w].mr}, {})),
             worker' = [worker EXCEPT ![w].step = "start",
                                      ![w].event.targets = @ \cup {worker[w].mr}]
      PROVE  Refines /\ Retiring'
  <2>1. {worker[w].mr} \in SUBSET Target /\ {} \in SUBSET Target
    BY <1>1
  <2>2. /\ Refines
        /\ \A n \in MR : job'[n].status = "queued" =>
              job[n].status = "queued" /\ job'[n].pending = job[n].pending
    BY <1>1, <1>3, <2>1, RecordedLedger
  <2>3. \A u \in Worker : worker'[u].outcome = worker[u].outcome
    BY <1>1, <1>3 DEF WorkerState
  <2> QED
    BY <1>1, <2>2, <2>3, KeepsRetiring DEF LInv
<1> QED
  BY <1>2, <1>3 DEF CheckRequest

LEMMA StartReactionLedger ==
    ASSUME LInv, NEW w \in Worker, StartReaction(w)
    PROVE  Refines /\ Retiring'
<1>1. /\ Busy(w) /\ worker[w].mr \in Target /\ worker \in [Worker -> WorkerState]
      /\ UNCHANGED life
  BY BusyFacts DEF StartReaction, Busy, LInv, Target, IInv, TypeOK, WorkerOK
<1>2. UNCHANGED logs
  <2>1. /\ used'["auto"] = used["auto"] /\ used'["emoji"] = used["emoji"]
        /\ used'["abort"] = used["abort"] /\ used'["vanish"] = used["vanish"]
    BY DEF StartReaction, TimesOut, Use, LInv, IInv, TypeOK, RequestsOK, EnvEvent
  <2> QED
    BY <2>1, AskedSame DEF StartReaction
<1>3. \A u \in Worker : worker'[u].outcome = worker[u].outcome
  BY <1>1 DEF StartReaction, WorkerState
<1>4. CASE UNCHANGED <<job, disk>>
  BY <1>1, <1>2, <1>3, <1>4, StutterRefines, KeepsRetiring DEF LInv
<1>5. CASE Save(worker[w].mr, Recorded(job[worker[w].mr], {}, {worker[w].mr}))
  <2>1. {worker[w].mr} \in SUBSET Target /\ {} \in SUBSET Target
    BY <1>1
  <2>2. /\ Refines
        /\ \A n \in MR : job'[n].status = "queued" =>
              job[n].status = "queued" /\ job'[n].pending = job[n].pending
    BY <1>1, <1>2, <1>5, <2>1, RecordedLedger
  <2> QED
    BY <1>1, <1>3, <2>2, KeepsRetiring DEF LInv
<1> QED
  BY <1>4, <1>5 DEF StartReaction, store

LEMMA RunReviewLedger ==
    ASSUME LInv, NEW w \in Worker, RunReview(w)
    PROVE  Refines /\ Retiring'
<1>1. /\ worker \in [Worker -> WorkerState] /\ UNCHANGED <<job, disk, life>>
      /\ UNCHANGED logs
  BY DEF RunReview, store, logs, askedBar, withdrawnBar, LInv, IInv, TypeOK, WorkerOK
<1>2. PICK o \in RunOutcomes(w) : Goto(w, Ends("begin", o), o)
  BY DEF RunReview
<1>3. o = "interrupted" => jobCancelled
  BY DEF RunOutcomes, CtxDone
<1> DEFINE v == [worker[w] EXCEPT !.step = Ends("begin", o), !.outcome = o]
<1>4. worker' = [worker EXCEPT ![w] = v]
  BY <1>1, <1>2 DEF Goto
<1>5. v.outcome = o
  BY <1>1 DEF WorkerState
<1>6. \A u \in Worker : worker'[u].outcome = "interrupted" =>
          worker[u].outcome = "interrupted" \/ jobCancelled
  BY <1>1, <1>3, <1>4, <1>5
<1> QED
  BY <1>1, <1>6, StutterRefines, KeepsRetiring DEF LInv

\* From the settlement of its reactions on a review is over.
LEMMA BeginSettlementLedger ==
    ASSUME LInv, NEW w \in Worker, BeginSettlement(w)
    PROVE  Refines /\ Retiring'
<1> DEFINE m == worker[w].mr
           e == worker[w].event
           o == worker[w].outcome
<1>1. /\ Busy(w) /\ m \in MR /\ e \in Event /\ worker \in [Worker -> WorkerState]
      /\ o \in Outcome /\ job[m] \in Job /\ job[m].status = "running"
      /\ alive /\ toLoad = {} /\ UNCHANGED life /\ UNCHANGED logs
  BY BusyFacts, ServingFacts
  DEF BeginSettlement, Busy, LInv, IInv, TypeOK, WorkerOK, WorkerShape, logs, askedBar, withdrawnBar
<1>2. \A u \in Worker : worker'[u].outcome = worker[u].outcome
  BY <1>1 DEF BeginSettlement, WorkerState
<1>3. CASE job[m].cleanup = None
  <2> DEFINE next == job[m].version + 1
             c == CleanupOf(e, o)
             i == [job[m] EXCEPT !.latest = e, !.cleanup = c]
             j == [i EXCEPT !.version = next]
  <2>1. next \in Nat
    BY <1>1 DEF Job
  <2>2. Save(m, j)
    BY <1>3 DEF BeginSettlement
  <2>3. c \in Cleanup
    BY <1>1 DEF CleanupOf, Cleanup, MaybeEvent
  <2> HIDE DEF next, c
  <2>4. /\ i \in Job /\ i.status = "running" /\ i.latest = e /\ i.cleanup = c
        /\ i.pending = job[m].pending
    BY <1>1, <2>3 DEF Job, MaybeEvent
  <2> HIDE DEF i
  <2>5. /\ j \in Job /\ j.status = "running" /\ j.latest = e /\ j.cleanup = c
        /\ j.pending = job[m].pending
    BY <2>1, <2>4 DEF Job
  <2> HIDE DEF j
  <2>6. JobShape(j)
    BY <1>1, <2>3, <2>5, NilFacts DEF JobShape
  <2>7. /\ JobStep(m) /\ job'[m].status = "running" /\ job'[m].cleanup # None
        /\ job'[m].pending = job[m].pending
    BY <1>1, <2>2, <2>3, <2>5, <2>6, SaveStep, NilFacts DEF LInv, IInv, TypeOK
  <2>8. OwedByJob(job'[m]) = OwedByJob(job[m]) /\ Active(job'[m]) = "none"
    BY <1>1, <2>7 DEF OwedByJob, Active
  <2>9. Refines
    BY <1>1, <2>7, <2>8, RewriteRefines DEF LInv
  <2> QED
    BY <1>1, <1>2, <2>7, <2>9, OneJobRetires DEF LInv
<1>4. CASE UNCHANGED store
  BY <1>1, <1>2, <1>4, StutterRefines, KeepsRetiring DEF LInv, store
<1> QED
  BY <1>3, <1>4 DEF BeginSettlement

LEMMA SettleReviewLedger ==
    ASSUME LInv, NEW w \in Worker, SettleReview(w)
    PROVE  Refines /\ Retiring'
<1>1. /\ worker \in [Worker -> WorkerState] /\ UNCHANGED <<job, disk, life>>
      /\ UNCHANGED logs
  BY DEF SettleReview, logs, askedBar, withdrawnBar, LInv, IInv, TypeOK, WorkerOK
<1>2. PICK e : worker' = [worker EXCEPT ![w].step = "finish", ![w].event = e]
  BY DEF SettleReview
<1>3. \A u \in Worker : worker'[u].outcome = worker[u].outcome
  BY <1>1, <1>2 DEF WorkerState
<1> QED
  BY <1>1, <1>3, StutterRefines, KeepsRetiring DEF LInv

\* What finishing leaves is owed again, or has been owed behind the review all along.
LEMMA FinishLedger ==
    ASSUME LInv, NEW w \in Worker, Finish(w)
    PROVE  Refines /\ Retiring'
<1> DEFINE m == worker[w].mr
           e == worker[w].event
           o == worker[w].outcome
<1>1. /\ Busy(w) /\ m \in MR /\ e \in Event /\ job[m].status = "running"
      /\ job[m] \in Job /\ JobShape(job[m]) /\ job[m].latest \in Event
      /\ o \in Outcome \cup {"interrupted"} /\ alive /\ toLoad = {}
  BY BusyFacts, ServingFacts
  DEF Finish, Busy, LInv, IInv, TypeOK, WorkerOK, WorkerShape, WorkerState
<1>2. UNCHANGED life /\ UNCHANGED logs
  BY DEF Finish, logs, askedBar, withdrawnBar
<1>3. \A u \in Worker : worker'[u].outcome = "interrupted" => worker[u].outcome = "interrupted"
  BY DEF Finish, IdleWorker, LInv, IInv, TypeOK, WorkerOK
<1>4. ASSUME JobStep(m), \/ job'[m].status = "cleanup" /\ job'[m].pending = job[m].pending
                         \/ GivesWay(m)
      PROVE  Refines /\ Retiring'
  <2>1. OwedByJob(job'[m]) = OwedByJob(job[m]) /\ Active(job'[m]) = "none"
    <3>1. OwedByJob(job[m]) = IF job[m].pending # None THEN job[m].pending.kind ELSE "none"
      BY <1>1 DEF OwedByJob
    <3>2. CASE job'[m].status = "cleanup" /\ job'[m].pending = job[m].pending
      BY <3>1, <3>2 DEF OwedByJob, Active
    <3>3. CASE GivesWay(m)
      BY <3>1, <3>3 DEF OwedByJob, Active, GivesWay, NoJob, Resume
    <3> QED
      BY <1>4, <3>2, <3>3
  <2>2. job'[m].status = "queued" => job'[m].pending = None
    BY <1>4 DEF GivesWay, NoJob
  <2> QED
    BY <1>1, <1>2, <1>3, <1>4, <2>1, <2>2, RewriteRefines, OneJobRetires DEF LInv
<1>5. CASE o = "interrupted" /\ FinishInterrupted(m, e)
  <2>1. /\ JobStep(m) /\ job'[m].pending = job[m].pending
        /\ job'[m].status = IF job[m].cleanup = None THEN "queued" ELSE "cleanup"
        /\ job'[m].cleanup = job[m].cleanup
        /\ job[m].cleanup = None => job'[m].latest = e
    BY <1>1, <1>5, FinishInterruptedStep DEF LInv
  <2>2. closed
    BY <1>5 DEF LInv, Retiring, Interrupted, Cancelled, closed
  <2>3. Retiring'
    BY <1>1, <1>2, <1>3, <2>1, <2>2, OneJobRetires DEF LInv
  <2>4. CASE job[m].cleanup # None
    BY <1>4, <2>1, <2>4
  <2>5. CASE job[m].cleanup = None
    <3>1. e.kind = job[m].latest.kind
      BY <1>1, <2>5 DEF LInv, IInv, Rest, SameKind
    <3>2. job[m].pending # None => job[m].pending.kind \in Trigger
      BY <1>1 DEF Job, MaybeEvent, Event
    <3>3. e.kind \in Trigger
      BY <1>1 DEF Event
    <3>4. job'[m] \in Job /\ job'[m].latest = e /\ job'[m].latest # None
      BY <1>1, <2>1, <2>5, NilFacts DEF JobStep, StoreOK
    <3>5. Resume(job'[m]).kind = IF job[m].pending = None THEN e.kind
                                 ELSE Stronger(e.kind, job[m].pending.kind)
      BY <2>1, <3>4, ResumeType
    <3>6. /\ OwedByJob(job'[m]) = Ledger!Join(OwedByJob(job[m]), Active(job[m]))
          /\ Active(job[m]) # "none" /\ Active(job'[m]) = "none"
      BY <1>1, <2>1, <2>5, <3>1, <3>2, <3>3, <3>5
      DEF OwedByJob, Active, Stronger, Ledger!Join, Ledger!Nothing, Trigger
    <3>7. /\ todoBar' = [todoBar EXCEPT ![m] = OwedByJob(job'[m])]
          /\ activeBar' = [activeBar EXCEPT ![m] = Active(job'[m])]
          /\ Ledger!Journal(m)
          /\ todoBar[m] = OwedByJob(job[m]) /\ activeBar[m] = Active(job[m])
      BY <1>1, <1>2, <2>1, BarStep DEF LInv
    <3>8. Ledger!Interrupt(m)
      BY <1>2, <3>6, <3>7 DEF Ledger!Interrupt, Ledger!Nothing, logs
    <3> QED
      BY <1>1, <2>3, <3>8 DEF Refines, Ledger!LedgerNext
  <2> QED
    BY <2>4, <2>5
<1>6. CASE o # "interrupted" /\ Preempted(w) /\ FinishAborted(m)
  BY <1>1, <1>4, <1>6, FinishAbortedStep DEF Preempted, LInv
<1>7. CASE o # "interrupted" /\ FinishUnsettled(m, e, o)
  BY <1>1, <1>4, <1>7, FinishUnsettledStep DEF LInv
<1>8. CASE EndOrPromote(m)
  BY <1>1, <1>4, <1>8, EndOrPromoteStep DEF LInv
<1> QED
  BY <1>5, <1>6, <1>7, <1>8 DEF Finish

-----------------------------------------------------------------------------
(* Cleanup.                                                                *)

LEMMA CleanerLedger ==
    ASSUME LInv, NEW c \in Cleaner, CleanerStep(c)
    PROVE  Refines /\ Retiring'
<1>1. UNCHANGED <<life, worker>> /\ UNCHANGED logs
  BY DEF CleanerStep, CleanerTake, CleanerSettle, CleanerCancelled, CleanerComplete, logs, askedBar,
     withdrawnBar
<1>2. ASSUME UNCHANGED <<job, disk>>
      PROVE  Refines /\ Retiring'
  BY <1>1, <1>2, StutterRefines, KeepsRetiring DEF LInv
<1>3. CASE CleanerTake(c) \/ CleanerSettle(c) \/ CleanerCancelled(c)
  BY <1>2, <1>3 DEF CleanerTake, CleanerSettle, CleanerCancelled, store
<1>4. CASE CleanerComplete(c) /\ ~cleaner[c].work.durable
  BY <1>2, <1>4 DEF CleanerComplete, store
<1>5. CASE CleanerComplete(c) /\ cleaner[c].work.durable
  <2> DEFINE k == cleaner[c].work
             m == k.mr
  <2>1. alive /\ k \in Work /\ m \in MR
    BY <1>5, HeldFacts DEF CleanerComplete, LInv, Work
  <2>2. Completed(m) /\ CompleteDurable(k)
    BY <1>1, <1>5, <2>1, CompleteDurableStep DEF CleanerComplete, LInv
  <2>3. CASE JobStep(m) /\ job[m].status = "cleanup" /\ (KeepsCleanup(m) \/ GivesWay(m))
    <3>1. OwedByJob(job'[m]) = OwedByJob(job[m]) /\ Active(job'[m]) = "none"
      BY <2>3 DEF OwedByJob, Active, KeepsCleanup, GivesWay, NoJob, Resume
    <3>2. job'[m].status = "queued" => job'[m].pending = None
      BY <2>3 DEF KeepsCleanup, GivesWay, NoJob
    <3>3. m \notin toLoad
      BY <2>3 DEF LInv, IInv, Rest, Loading, NoJob
    <3> QED
      BY <1>1, <2>1, <2>3, <3>1, <3>2, <3>3, RewriteRefines, OneJobRetires DEF LInv
  <2>4. CASE UNCHANGED <<job, disk>>
    BY <1>2, <2>4
  <2> QED
    BY <2>2, <2>3, <2>4 DEF Completed
<1> QED
  BY <1>3, <1>4, <1>5 DEF CleanerStep

LEMMA TimerLedger ==
    ASSUME LInv, NEW m \in MR, TimerFires(m)
    PROVE  Refines /\ Retiring'
<1> DEFINE j == [job[m] EXCEPT !.cleanupQueued = FALSE]
           r == Reserved(j)
<1>1. /\ alive /\ UNCHANGED <<life, worker, disk, faults>> /\ UNCHANGED logs
      /\ job[m] \in Job /\ JobShape(job[m])
  BY DEF TimerFires, logs, askedBar, withdrawnBar, LInv, IInv, TypeOK, StoreOK
<1>2. CASE UNCHANGED job
  BY <1>1, <1>2, StutterRefines, KeepsRetiring DEF LInv
<1>3. CASE j.status = "cleanup" /\ job' = [job EXCEPT ![m] = r]
  <2>1. job[m].status = "cleanup"
    BY <1>1, <1>3 DEF Job
  <2>2. /\ r \in Job /\ JobShape(r) /\ r.status = "cleanup" /\ r.pending = job[m].pending
        /\ EntryOf(r) = EntryOf(job[m]) /\ r.persisted = job[m].persisted
    BY <1>1, <2>1, ReservationType
  <2> HIDE DEF r
  <2>3. JobStep(m) /\ job'[m] = r
    BY <1>1, <1>3, <2>1, <2>2, UnsavedStep DEF LInv, IInv, TypeOK
  <2>4. OwedByJob(job'[m]) = OwedByJob(job[m]) /\ Active(job'[m]) = "none"
    BY <2>1, <2>2, <2>3 DEF OwedByJob, Active
  <2>5. m \notin toLoad
    BY <2>1 DEF LInv, IInv, Rest, Loading, NoJob
  <2> QED
    BY <1>1, <2>2, <2>3, <2>4, <2>5, RewriteRefines, OneJobRetires DEF LInv
<1> QED
  BY <1>2, <1>3 DEF TimerFires

LEMMA RemoteLedger ==
    ASSUME LInv, NEW t \in Target, LateCommit(t) \/ WindowEnds(t)
    PROVE  Refines /\ Retiring'
<1>1. UNCHANGED <<job, disk, life, worker>> /\ UNCHANGED logs
  BY DEF LateCommit, WindowEnds, store, logs, askedBar, withdrawnBar
<1> QED
  BY <1>1, StutterRefines, KeepsRetiring DEF LInv

-----------------------------------------------------------------------------
(* The life of the daemon.                                                 *)

\* What a job's journal entry owes is what the job owes and what is in progress of it.
LEMMA EntryOwes ==
    ASSUME NEW j \in Job, JobShape(j), j.status # "none"
    PROVE  /\ EntryOf(j) # None
           /\ OwedByEntry(EntryOf(j)) = Ledger!Join(OwedByJob(j), Active(j))
<1>1. EntryOf(j) # None
  BY EntryOfType, NilFacts
<1>2. /\ j.latest # None /\ j.latest \in Event /\ j.latest.kind \in Trigger
      /\ j.pending # None => j.pending.kind \in Trigger
  BY DEF Job, JobShape, MaybeEvent, Event
<1>3. CASE j.cleanup = None
  <2>1. Resume(j).kind = IF j.pending = None THEN j.latest.kind
                         ELSE Stronger(j.latest.kind, j.pending.kind)
    BY <1>2, ResumeType
  <2>2. OwedByEntry(EntryOf(j)) = Resume(j).kind
    BY <1>1, <1>3 DEF OwedByEntry, EntryOf
  <2>3. j.status \in {"queued", "running"}
    BY <1>3 DEF Job, Status, JobShape
  <2> QED
    BY <1>1, <1>2, <1>3, <2>1, <2>2, <2>3
    DEF OwedByJob, Active, Stronger, Ledger!Join, Ledger!Nothing, Trigger
<1>4. CASE j.cleanup # None
  <2>1. j.cleanup.outcome # "none"
    BY <1>4 DEF Job, Cleanup, Outcome
  <2>2. OwedByEntry(EntryOf(j)) = IF j.pending # None THEN j.pending.kind ELSE "none"
    BY <1>1, <1>4, <2>1 DEF OwedByEntry, EntryOf
  <2>3. OwedByJob(j) = (IF j.pending # None THEN j.pending.kind ELSE "none")
        /\ Active(j) = "none"
    BY <1>4 DEF OwedByJob, Active, JobShape
  <2> QED
    BY <1>1, <1>2, <2>2, <2>3 DEF Ledger!Join, Ledger!Nothing, Trigger
<1> QED
  BY <1>3, <1>4

\* Restoring an entry gives its job what the entry owes.
LEMMA RestoreJobLedger ==
    ASSUME LInv, NEW m \in MR, RestoreJob(m)
    PROVE  Refines /\ Retiring'
<1> DEFINE e == disk[m]
           queued == [NoJob EXCEPT !.status = "queued", !.latest = e.event, !.persisted = TRUE]
           settling == [NoJob EXCEPT !.status = "cleanup", !.latest = e.event,
                         !.pending = e.pending, !.version = 1, !.persisted = TRUE,
                         !.cleanup = [event |-> e.event, outcome |-> e.outcome,
                                      aborted |-> e.aborted]]
           after == IF e.outcome = "none" THEN queued ELSE Reserved(settling)
<1>1. /\ m \in toLoad /\ toLoad' = toLoad \ {m} /\ alive /\ job[m] = NoJob /\ e # None
      /\ EntryShape(e) /\ job \in [MR -> Job]
      /\ UNCHANGED <<disk, faults, worker, phase, jobCancelled>> /\ UNCHANGED logs
  BY DEF RestoreJob, LInv, IInv, Rest, Loading, TypeOK, StoreOK, alive, logs, askedBar, withdrawnBar
<1>2. job' = [job EXCEPT ![m] = after]
  BY DEF RestoreJob
<1>3. /\ after.status \in {"queued", "cleanup"} /\ after.persisted
      /\ after.status = "queued" <=> e.outcome = "none"
      /\ after.latest = e.event
      /\ after.pending = IF e.outcome = "none" THEN None ELSE e.pending
  BY DEF NoJob, Reserved
<1> HIDE DEF after
<1>4. job'[m] = after /\ \A n \in MR \ {m} : job'[n] = job[n]
  BY <1>1, <1>2
<1>5. Known(m)' /\ ~Known(m) /\ \A n \in MR \ {m} : Known(n)' <=> Known(n)
  BY <1>1 DEF Known, alive
<1>6. OwedByJob(after) = OwedByEntry(e)
  BY <1>1, <1>3 DEF OwedByJob, OwedByEntry, EntryShape, Resume
<1>7. todoBar' = todoBar
  BY <1>1, <1>4, <1>5, <1>6 DEF todoBar
<1>8. activeBar' = activeBar
  BY <1>1, <1>3, <1>4 DEF activeBar, NoJob
<1>9. safeBar' = safeBar
  BY <1>1, <1>3, <1>4, <1>5 DEF safeBar
<1>10. Refines
  BY <1>1, <1>7, <1>8, <1>9 DEF Refines, Ledger!vars, logs
<1>11. Retiring'
  <2>1. ASSUME NEW n \in MR, ~closed, job'[n].status = "queued"
        PROVE  job'[n].pending = None
    BY <1>3, <1>4, <2>1 DEF LInv, Retiring, Fresh
  <2> QED
    BY <1>1, <2>1 DEF LInv, Retiring, Fresh, Interrupted, Cancelled, closed
<1> QED
  BY <1>10, <1>11

\* An entry that a restart refuses is called off.
LEMMA DropEntryLedger ==
    ASSUME LInv, NEW m \in MR, DropEntry(m)
    PROVE  Refines /\ Retiring'
<1>1. /\ m \in toLoad /\ toLoad' = toLoad \ {m} /\ alive /\ job[m] = NoJob
      /\ UNCHANGED <<faults, worker, phase, jobCancelled, handler>>
  BY DEF DropEntry, Forget, LInv, IInv, Rest, Loading, alive
<1>2. /\ job'[m] = NoJob /\ disk'[m] = None
      /\ \A n \in MR \ {m} : job'[n] = job[n] /\ disk'[n] = disk[n]
      /\ \A n \in MR : job'[n] = job[n]
  BY <1>1 DEF DropEntry, Forget, LInv, IInv, TypeOK, StoreOK
<1>3. Known(m)' /\ ~Known(m) /\ \A n \in MR \ {m} : Known(n)' <=> Known(n)
  BY <1>1 DEF Known, alive
<1>4. todoBar' = [todoBar EXCEPT ![m] = Ledger!Nothing]
  <2>1. \A n \in MR : todoBar'[n] = IF n = m THEN Ledger!Nothing ELSE todoBar[n]
    BY <1>2, <1>3 DEF todoBar, OwedByJob, NoJob, Ledger!Nothing
  <2> QED
    BY <2>1 DEF todoBar
<1>5. activeBar' = [activeBar EXCEPT ![m] = Ledger!Nothing]
  BY <1>1, <1>2 DEF activeBar, NoJob, Ledger!Nothing
<1>6. safeBar' = safeBar \ {m} /\ todoBar'[m] = Ledger!Nothing /\ activeBar'[m] = Ledger!Nothing
  <2>1. safeBar' = safeBar \ {m}
    BY <1>2, <1>3 DEF safeBar, NoJob
  <2>2. m \in DOMAIN todoBar /\ m \in DOMAIN activeBar
    BY DEF todoBar, activeBar
  <2> QED
    BY <1>4, <1>5, <2>1, <2>2
<1>7. UNCHANGED askedBar /\ withdrawnBar' # withdrawnBar
  <2>1. used \in [EnvEvent -> Nat]
    BY DEF LInv, IInv, TypeOK, RequestsOK
  <2>2. used' = [used EXCEPT !["vanish"] = used["vanish"] + 1]
    BY DEF DropEntry, Use
  <2>3. /\ used'["auto"] = used["auto"] /\ used'["emoji"] = used["emoji"]
        /\ used'["vanish"] = used["vanish"] + 1 /\ used["vanish"] \in Nat
    BY <2>1, <2>2 DEF EnvEvent
  <2>4. used'["vanish"] # used["vanish"]
    BY <2>3
  <2> QED
    BY <1>1, <2>3, <2>4 DEF askedBar, withdrawnBar
<1>8. Ledger!Cancel(m)
  BY <1>4, <1>5, <1>6, <1>7 DEF Ledger!Cancel, Ledger!Journal, Ledger!Unsafe
<1>9. Retiring'
  BY <1>1, <1>2 DEF LInv, Retiring, Fresh, Interrupted, Cancelled, closed
<1> QED
  BY <1>8, <1>9 DEF Refines, Ledger!LedgerNext

\* What survives the end of the process is what is safe, and all it owes.
LEMMA HaltLedger ==
    ASSUME LInv, Halt, alive, UNCHANGED logs, NEW kept \in SUBSET MR,
           \A m \in kept : disk'[m] # None
               /\ OwedByEntry(disk'[m]) = Ledger!Join(todoBar[m], activeBar[m]),
           \A m \in MR \ kept : disk'[m] = None
    PROVE  Ledger!Restart(kept) /\ Retiring'
<1>1. \A m \in MR : ~Known(m)' /\ job'[m] = NoJob
  BY DEF Halt, Known, alive
<1>2. \A m \in MR : todoBar'[m] = OwedByEntry(disk'[m])
  BY <1>1 DEF todoBar
<1>3. todoBar' = [m \in MR |-> IF m \in kept THEN Ledger!Join(todoBar[m], activeBar[m])
                              ELSE Ledger!Nothing]
  BY <1>1 DEF todoBar, OwedByEntry, Ledger!Nothing
<1>4. activeBar' = [m \in MR |-> Ledger!Nothing]
  BY <1>1 DEF activeBar, NoJob, Ledger!Nothing
<1>5. safeBar' = kept
  BY <1>1 DEF safeBar
<1>6. Ledger!Restart(kept)
  BY <1>3, <1>4, <1>5 DEF Ledger!Restart, logs
<1>7. Retiring'
  BY <1>1 DEF Halt, Retiring, Fresh, Interrupted, Cancelled, IdleWorker, NoJob
<1> QED
  BY <1>6, <1>7

\* The state directory holds what a restart owes of every job that is safe.
LEMMA SafeEntry ==
    ASSUME LInv, alive, NEW m \in MR
    PROVE  IF m \in safeBar
           THEN disk[m] # None /\ OwedByEntry(disk[m]) = Ledger!Join(todoBar[m], activeBar[m])
           ELSE disk[m] = None
<1>1. job[m] \in Job /\ JobShape(job[m]) /\ disk[m] \in Entry \cup {None}
  BY DEF LInv, IInv, TypeOK, StoreOK
<1>2. CASE Known(m)
  <2>1. disk[m] = IF job[m].status # "none" /\ job[m].persisted THEN EntryOf(job[m]) ELSE None
    BY <1>2 DEF LInv, IInv, Rest, JournalCoherent, Coherent
  <2>2. todoBar[m] = OwedByJob(job[m]) /\ activeBar[m] = Active(job[m])
    BY <1>2 DEF todoBar, activeBar, Active
  <2>3. m \in safeBar <=> job[m].status # "none" /\ job[m].persisted
    BY <1>2 DEF safeBar
  <2> QED
    BY <1>1, <2>1, <2>2, <2>3, EntryOwes
<1>3. CASE ~Known(m)
  <2>1. m \in toLoad /\ disk[m] # None /\ job[m] = NoJob
    BY <1>3 DEF Known, LInv, IInv, Rest, Loading
  <2>2. todoBar[m] = OwedByEntry(disk[m]) /\ activeBar[m] = "none" /\ m \in safeBar
    BY <1>3, <2>1 DEF todoBar, activeBar, safeBar, NoJob
  <2>3. OwedByEntry(disk[m]) \in {"auto", "manual", "none"}
    <3>1. disk[m] \in Entry
      BY <1>1, <2>1
    <3>2. disk[m].event.kind \in Trigger
      BY <3>1 DEF Entry, Event
    <3>3. disk[m].pending # None => disk[m].pending.kind \in Trigger
      BY <3>1 DEF Entry, MaybeEvent, Event
    <3> QED
      BY <3>2, <3>3 DEF OwedByEntry, Trigger
  <2> QED
    BY <2>1, <2>2, <2>3 DEF Ledger!Join, Ledger!Nothing
<1> QED
  BY <1>2, <1>3

LEMMA CrashLedger ==
    ASSUME LInv, Crash
    PROVE  Refines /\ Retiring'
<1>1. UNCHANGED logs
  <2>1. /\ used'["auto"] = used["auto"] /\ used'["emoji"] = used["emoji"]
        /\ used'["abort"] = used["abort"] /\ used'["vanish"] = used["vanish"]
    BY DEF Crash, Use, LInv, IInv, TypeOK, RequestsOK, EnvEvent
  <2>2. \A n \in Note : handler'[n] = "done" <=> handler[n] = "done"
    BY DEF Crash, Halt, Cut, LInv, IInv, TypeOK, RequestsOK
  <2> QED
    BY <2>1, <2>2, AskedSame
<1>2. safeBar \in SUBSET MR
  BY DEF safeBar
<1>3. alive /\ UNCHANGED disk /\ Halt
  BY DEF Crash
<1>4. Ledger!Restart(safeBar) /\ Retiring'
  BY <1>1, <1>2, <1>3, SafeEntry, HaltLedger
<1> QED
  BY <1>4 DEF Refines, Ledger!LedgerNext, Ledger!Crash

\* An orderly exit: nobody reviews any more, and more may have been written.
LEMMA ExitLedger ==
    ASSUME LInv, Exit
    PROVE  Refines /\ Retiring'
<1>1. /\ phase = "settling" /\ alive /\ toLoad = {} /\ Halt /\ UNCHANGED used
  BY DEF Exit, alive, LInv, IInv, Rest, Loading
<1>2. UNCHANGED logs
  <2>1. \A n \in Note : handler'[n] = "done" <=> handler[n] = "done"
    BY <1>1 DEF Halt, Cut, LInv, IInv, TypeOK, RequestsOK
  <2> QED
    BY <1>1, <2>1, AskedSame
<1>3. PICK saved \in SUBSET {m \in MR : job[m].status # "none" /\ ~job[m].persisted} :
        disk' = [m \in MR |-> IF m \in saved THEN EntryOf(job[m]) ELSE disk[m]]
  BY DEF Exit
<1> DEFINE kept == safeBar \cup saved
<1>4. kept \in SUBSET MR /\ safeBar \subseteq kept
  BY <1>3 DEF safeBar
<1>5. ASSUME NEW m \in MR
      PROVE  Known(m) /\ todoBar[m] = OwedByJob(job[m]) /\ activeBar[m] = Active(job[m])
  BY <1>1 DEF Known, todoBar, activeBar, Active
<1>6. ASSUME NEW m \in kept
      PROVE  disk'[m] # None /\ OwedByEntry(disk'[m]) = Ledger!Join(todoBar[m], activeBar[m])
  <2>1. CASE m \in saved
    <3>1. m \in MR /\ job[m] \in Job /\ JobShape(job[m]) /\ job[m].status # "none"
      BY <1>3, <2>1 DEF LInv, IInv, TypeOK, StoreOK
    <3> QED
      BY <1>3, <1>5, <2>1, <3>1, EntryOwes
  <2>2. CASE m \notin saved
    BY <1>1, <1>3, <1>4, <2>2, SafeEntry
  <2> QED
    BY <2>1, <2>2
<1>7. ASSUME NEW m \in MR \ kept
      PROVE  disk'[m] = None
  BY <1>1, <1>3, SafeEntry
<1>8. Ledger!Restart(kept) /\ Retiring'
  BY <1>1, <1>2, <1>4, <1>6, <1>7, HaltLedger
<1>9. \A m \in MR : activeBar[m] = Ledger!Nothing
  <2>1. \A w \in Worker : ~Busy(w)
    BY <1>1 DEF LInv, IInv, Rest, Asleep, Serving
  <2>2. \A m \in MR : job[m].status # "running"
    BY <2>1 DEF LInv, PoolInv, RunningHeld, Running
  <2> QED
    BY <2>2 DEF activeBar, Ledger!Nothing
<1>10. Ledger!Exit
  BY <1>4, <1>8, <1>9 DEF Ledger!Exit
<1> QED
  BY <1>8, <1>10 DEF Refines, Ledger!LedgerNext

\* A started process owes what the state directory owes, before it has read it.
LEMMA StartLedger ==
    ASSUME LInv, Start
    PROVE  Refines /\ Retiring'
<1>1. /\ phase = "down" /\ phase' = "restoring" /\ toLoad' = {m \in MR : disk[m] # None}
      /\ UNCHANGED <<job, disk, faults, worker, jobCancelled>> /\ UNCHANGED logs
  BY DEF Start, Quiet, store, logs, askedBar, withdrawnBar
<1>2. \A m \in MR : job[m] = NoJob /\ ~Known(m) /\ (Known(m)' <=> disk[m] = None)
  BY <1>1 DEF LInv, IInv, Rest, Asleep, Known, alive
<1>3. NoJob.status = "none" /\ OwedByJob(NoJob) = "none" /\ OwedByEntry(None) = "none"
  BY DEF NoJob, OwedByJob, OwedByEntry
<1>4. UNCHANGED <<todoBar, activeBar, safeBar>>
  BY <1>1, <1>2, <1>3 DEF todoBar, activeBar, safeBar
<1>5. Retiring'
  BY <1>1, <1>2, <1>3 DEF LInv, Retiring, Fresh, Interrupted, Cancelled
<1> QED
  BY <1>1, <1>4, <1>5 DEF Refines, Ledger!vars, logs

LEMMA PhaseLedger ==
    ASSUME LInv,
           Serve \/ Stop \/ CloseIntake \/ GraceExpires \/ StopCleanup \/ CleanupGraceExpires
    PROVE  Refines /\ Retiring'
<1>1. alive /\ alive' /\ UNCHANGED <<job, disk, faults, worker, handler, toLoad>>
  BY DEF Serve, Stop, CloseIntake, GraceExpires, StopCleanup, CleanupGraceExpires, Quiet, alive,
     store
<1>2. UNCHANGED logs
  <2>1. /\ used'["auto"] = used["auto"] /\ used'["emoji"] = used["emoji"]
        /\ used'["abort"] = used["abort"] /\ used'["vanish"] = used["vanish"]
    BY DEF Serve, Stop, CloseIntake, GraceExpires, StopCleanup, CleanupGraceExpires, Quiet, Use,
       LInv, IInv, TypeOK, RequestsOK, EnvEvent
  <2> QED
    BY <1>1, <2>1, AskedSame
<1>3. UNCHANGED <<todoBar, activeBar, safeBar>>
  BY <1>1 DEF todoBar, activeBar, safeBar, Known
<1>4. Retiring'
  BY <1>1 DEF Serve, Stop, CloseIntake, GraceExpires, StopCleanup, CleanupGraceExpires, Quiet,
     LInv, Retiring, Fresh, Interrupted, Cancelled, closed
<1> QED
  BY <1>1, <1>2, <1>3, <1>4 DEF Refines, Ledger!vars, logs

-----------------------------------------------------------------------------

LEMMA InitLedger == Init => LInv /\ Ledger!LedgerInit
<1> SUFFICES ASSUME Init PROVE LInv /\ Ledger!LedgerInit
  OBVIOUS
<1>1. IInv
  BY InitInvariant
<1>2. PoolInv
  BY EmptyPool DEF Init
<1>3. Retiring
  BY DEF Init, Retiring, Fresh, Interrupted, Cancelled, NoJob, IdleWorker
<1>4. \A m \in MR : Known(m) /\ job[m] = NoJob
  BY DEF Init, Known, alive
<1>5. NoJob.status = "none" /\ OwedByJob(NoJob) = "none"
  BY DEF NoJob, OwedByJob
<1>6. Ledger!LedgerInit
  BY <1>4, <1>5 DEF Ledger!LedgerInit, Ledger!Nothing, todoBar, activeBar, safeBar
<1> QED
  BY <1>1, <1>2, <1>3, <1>6 DEF LInv

LEMMA NextLedger ==
    ASSUME LInv, [Next]_vars
    PROVE  Refines /\ Retiring'
<1>1. ASSUME NEW m \in MR, \/ EnqueueEvent(m) \/ Abort(m) \/ TimerFires(m)
                            \/ RestoreJob(m) \/ DropEntry(m)
      PROVE  Refines /\ Retiring'
  BY <1>1, EnqueueEventLedger, AbortLedger, TimerLedger, RestoreJobLedger, DropEntryLedger
<1>2. ASSUME NEW n \in Note, AwardAck(n) \/ HandleReview(n)
      PROVE  Refines /\ Retiring'
  BY <1>2, AwardAckLedger, HandleReviewLedger
<1>3. ASSUME NEW w \in Worker, WorkerStep(w)
      PROVE  Refines /\ Retiring'
  BY <1>3, TakeLedger, CheckRequestLedger, StartReactionLedger, RunReviewLedger,
     BeginSettlementLedger, SettleReviewLedger, FinishLedger DEF WorkerStep
<1>4. ASSUME NEW c \in Cleaner, CleanerStep(c)
      PROVE  Refines /\ Retiring'
  BY <1>4, CleanerLedger
<1>5. ASSUME NEW t \in Target, LateCommit(t) \/ WindowEnds(t)
      PROVE  Refines /\ Retiring'
  BY <1>5, RemoteLedger
<1>6. CASE Lifecycle
  BY <1>6, PhaseLedger, ExitLedger, CrashLedger, StartLedger DEF Lifecycle
<1>7. CASE UNCHANGED vars
  <2>1. UNCHANGED <<job, disk, life, worker>> /\ UNCHANGED logs
    BY <1>7 DEF vars, store, logs, askedBar, withdrawnBar
  <2> QED
    BY <2>1, StutterRefines, KeepsRetiring DEF LInv
<1> QED
  BY <1>1, <1>2, <1>3, <1>4, <1>5, <1>6, <1>7 DEF Next

\* The dispatcher implements the ledger of reviews: every request it accepts is owed
\* until it is begun or called off by an abort or by a restart that refuses its entry,
\* however it is merged, parked, journalled, interrupted or restored; nothing that ended
\* comes back; and the end of the process loses only what a failed write left off the disk.
THEOREM LedgerImplemented == Spec => LedgerSpec
<1>1. Init => LInv /\ Ledger!LedgerInit
  BY InitLedger
<1>2. LInv /\ [Next]_vars => LInv' /\ [Ledger!LedgerNext]_(Ledger!vars)
  <2> SUFFICES ASSUME LInv, [Next]_vars PROVE LInv' /\ [Ledger!LedgerNext]_(Ledger!vars)
    OBVIOUS
  <2>1. IInv'
    BY NextInvariant DEF LInv
  <2>2. PoolInv'
    BY <2>1, NextPool DEF LInv
  <2> QED
    BY <2>1, <2>2, NextLedger DEF LInv, Refines
<1> QED
  BY <1>1, <1>2, PTL DEF Spec, LedgerSpec, Ledger!LedgerSpec
=============================================================================
