-------------------------- MODULE DispatcherProofs --------------------------
(***************************************************************************)
(* The dispatcher is well typed and its journal is coherent, for every set *)
(* of merge requests, notes, workers and cleaners and for every capacity.  *)
(***************************************************************************)
EXTENDS Dispatcher, TLAPS

-----------------------------------------------------------------------------
(* What merging, reducing and journalling an event returns.                *)

\* No nil value is an event, a cleanup, an entry or a work item.
LEMMA NilFacts ==
    /\ None \notin Event /\ None \notin Cleanup /\ None \notin Entry /\ None \notin Work
    /\ None \notin MR /\ MR \cap Note = {}
BY NoneAssumption

\* mergeAckNotes keeps what is there and adds nothing that is not offered.
LEMMA KeptNotesBetween ==
    ASSUME NEW have, NEW new, NEW k \in KeptNotes(have, new)
    PROVE  have \subseteq k /\ k \subseteq have \cup new
BY DEF KeptNotes

\* A merged event is an event that names nothing new, with the stronger trigger.
LEMMA MergeKeepingType ==
    ASSUME NEW have \in Event, NEW new \in Event, NEW notes \in SUBSET Note
    PROVE  /\ MergeKeeping(have, new, notes) \in Event
           /\ MergeKeeping(have, new, notes).kind = Stronger(have.kind, new.kind)
BY DEF MergeKeeping, Event, Trigger, Target, Stronger

LEMMA MergesType ==
    ASSUME NEW have \in Event, NEW new \in Event, NEW e \in Merges(have, new)
    PROVE  e \in Event /\ e.kind = Stronger(have.kind, new.kind)
<1>1. PICK notes \in KeptNotes(Notes(have), Notes(new)) : e = MergeKeeping(have, new, notes)
  BY DEF Merges
<1>2. notes \in SUBSET Note
  BY KeptNotesBetween DEF Notes
<1> QED
  BY <1>1, <1>2, MergeKeepingType

LEMMA ParkedType ==
    ASSUME NEW pending \in MaybeEvent, NEW e \in Event, NEW p \in Parked(pending, e)
    PROVE  /\ p \in Event
           /\ p.kind = IF pending = None THEN e.kind ELSE Stronger(pending.kind, e.kind)
BY MergesType DEF Parked, MaybeEvent

\* Taking targets away leaves an event of the same kind.
LEMMA ReducedType ==
    ASSUME NEW e \in Event, NEW remaining \in SUBSET Target
    PROVE  /\ Reduced(e, remaining) \in Event
           /\ Reduced(e, remaining).kind = e.kind
           /\ Reduced(e, remaining).targets = remaining
BY DEF Reduced, Event

\* What a restart must run is an event.
LEMMA ResumeType ==
    ASSUME NEW j \in Job, j.latest # None
    PROVE  /\ Resume(j) \in Event
           /\ Resume(j).kind = IF j.pending = None THEN j.latest.kind
                               ELSE Stronger(j.latest.kind, j.pending.kind)
<1>1. j.latest \in Event /\ j.pending \in MaybeEvent
  BY DEF Job, MaybeEvent
<1>2. CASE j.pending = None
  BY <1>1, <1>2 DEF Resume
<1>3. CASE j.pending # None
  <2>1. j.pending \in Event
    BY <1>1, <1>3 DEF MaybeEvent
  <2>2. Notes(j.latest) \cup Notes(j.pending) \in SUBSET Note
    BY DEF Notes
  <2> QED
    BY <1>1, <1>3, <2>1, <2>2, MergeKeepingType DEF Resume
<1> QED
  BY <1>2, <1>3

\* The entry of a job that exists is well formed.
LEMMA EntryOfType ==
    ASSUME NEW j \in Job, JobShape(j), j.status # "none"
    PROVE  EntryOf(j) \in Entry /\ EntryShape(EntryOf(j))
<1>1. j.latest # None
  BY DEF JobShape
<1>2. CASE j.cleanup = None
  BY <1>1, <1>2, ResumeType DEF EntryOf, Entry, EntryShape, MaybeEvent, Outcome
<1>3. CASE j.cleanup # None
  <2>1. j.cleanup \in Cleanup /\ j.pending \in MaybeEvent
    BY <1>3 DEF Job
  <2> QED
    BY <1>3, <2>1 DEF EntryOf, Entry, EntryShape, Cleanup, Outcome
<1> QED
  BY <1>2, <1>3
-----------------------------------------------------------------------------
(* Steps that touch one job.                                               *)

LEMMA NoJobType ==
    /\ NoJob \in Job /\ JobShape(NoJob) /\ NoJob.status = "none" /\ NoJob.latest = None
    /\ NoJob.pending = None /\ NoJob.cleanup = None
BY DEF NoJob, Job, JobShape, Status, MaybeEvent

\* The job is gone, on disk, as unsaved as it was, or the write of this step failed.
Written(m) ==
    \/ job'[m].status = "none" \/ job'[m].persisted
    \/ job[m].status # "none" /\ ~job[m].persisted
    \/ Journaled => faults' # faults

\* The step leaves every other job and its file alone, the store well typed, the file of
\* job m as coherent as it was, and job m on disk unless its write fails.
JobStep(m) ==
    /\ StoreOK' /\ Written(m)
    /\ Coherent(m) => Coherent(m)'
    /\ \A n \in MR \ {m} : job'[n] = job[n] /\ disk'[n] = disk[n]

LEMMA SaveStep ==
    ASSUME StoreOK, NEW m \in MR, NEW j \in Job, JobShape(j), j.status # "none", Save(m, j)
    PROVE  /\ JobStep(m) /\ Coherent(m)'
           /\ job'[m] \in Job /\ job'[m].status = j.status /\ job'[m].latest = j.latest
           /\ job'[m].pending = j.pending /\ job'[m].cleanup = j.cleanup
<1>1. PICK ok \in BOOLEAN :
        /\ job' = [job EXCEPT ![m] = [j EXCEPT !.persisted = ok]]
        /\ disk' = [disk EXCEPT ![m] = IF ok THEN EntryOf(j) ELSE None]
        /\ faults' = IF Journaled /\ ~ok THEN faults + 1 ELSE faults
  BY DEF Save
<1> DEFINE saved == [j EXCEPT !.persisted = ok]
<1>2. /\ saved \in Job /\ saved.status = j.status /\ saved.latest = j.latest
      /\ saved.pending = j.pending /\ saved.cleanup = j.cleanup /\ saved.persisted = ok
  BY DEF Job
<1>3. JobShape(saved) /\ EntryOf(saved) = EntryOf(j)
  BY <1>2 DEF JobShape, EntryOf, Resume
<1>4. EntryOf(j) \in Entry /\ EntryShape(EntryOf(j)) /\ EntryOf(j) # None
  BY EntryOfType, NilFacts
<1> HIDE DEF saved
<1>5. job'[m] = saved /\ disk'[m] = IF ok THEN EntryOf(j) ELSE None
  BY <1>1 DEF StoreOK, saved
<1>6. \A n \in MR \ {m} : job'[n] = job[n] /\ disk'[n] = disk[n]
  BY <1>1 DEF StoreOK
<1>7. StoreOK'
  <2>1. job' \in [MR -> Job]
    BY <1>1, <1>2 DEF StoreOK, saved
  <2>2. disk' \in [MR -> Entry \cup {None}]
    BY <1>1, <1>4 DEF StoreOK
  <2>3. faults' \in Nat
    BY <1>1 DEF StoreOK
  <2>4. ASSUME NEW n \in MR
        PROVE  JobShape(job'[n]) /\ (disk'[n] # None => EntryShape(disk'[n]))
    BY <1>3, <1>4, <1>5, <1>6 DEF StoreOK
  <2> QED
    BY <2>1, <2>2, <2>3, <2>4 DEF StoreOK
<1>8. Coherent(m)'
  BY <1>2, <1>3, <1>5 DEF Coherent
<1>9. Written(m)
  BY <1>1, <1>2, <1>5 DEF StoreOK, Written
<1> QED
  BY <1>2, <1>5, <1>6, <1>7, <1>8, <1>9 DEF JobStep

\* A change of the job that the journal does not tell from the old one needs no write.
LEMMA UnsavedStep ==
    ASSUME StoreOK, NEW m \in MR, NEW j \in Job, JobShape(j), j.status # "none",
           job[m].status # "none", EntryOf(j) = EntryOf(job[m]),
           j.persisted = job[m].persisted,
           job' = [job EXCEPT ![m] = j], UNCHANGED <<disk, faults>>
    PROVE  JobStep(m) /\ job'[m] = j
<1>1. job'[m] = j /\ \A n \in MR \ {m} : job'[n] = job[n]
  BY DEF StoreOK
<1>2. StoreOK'
  BY <1>1 DEF StoreOK
<1>3. Coherent(m) => Coherent(m)'
  BY <1>1 DEF Coherent
<1>4. Written(m)
  BY <1>1 DEF Written
<1> QED
  BY <1>1, <1>2, <1>3, <1>4 DEF JobStep

LEMMA ForgetStep ==
    ASSUME StoreOK, NEW m \in MR, Forget(m)
    PROVE  JobStep(m) /\ Coherent(m)' /\ job'[m] = NoJob
<1>1. job'[m] = NoJob /\ disk'[m] = None
  BY DEF Forget, StoreOK
<1>2. \A n \in MR \ {m} : job'[n] = job[n] /\ disk'[n] = disk[n]
  BY DEF Forget, StoreOK
<1>3. NoJob \in Job /\ JobShape(NoJob) /\ NoJob.status = "none"
  BY NoJobType
<1>4. StoreOK'
  BY <1>1, <1>2, <1>3 DEF Forget, StoreOK
<1>5. Coherent(m)'
  BY <1>1, <1>3 DEF Coherent
<1> QED
  BY <1>1, <1>2, <1>3, <1>4, <1>5 DEF JobStep, Written
-----------------------------------------------------------------------------
(* The inductive invariant.                                                *)

Busy(w) == worker[w].step # "idle"

\* A busy worker holds a job that is marked running, ...
Assigned == \A w \in Worker : Busy(w) => job[worker[w].mr].status = "running"
\* ... alone, ...
Exclusive == \A v, w \in Worker :
    Busy(v) /\ Busy(w) /\ worker[v].mr = worker[w].mr => v = w
\* ... and its copy of the event has the trigger of the job it will hand back.
SameKind == \A w \in Worker : Busy(w) /\ job[worker[w].mr].cleanup = None =>
    worker[w].event.kind = job[worker[w].mr].latest.kind
\* Entries are restored before anything else may touch their jobs.
Loading == \A m \in toLoad : phase = "restoring" /\ disk[m] # None /\ job[m] = NoJob
\* Nobody reviews outside of service nor after the workers were waited for, no webhook is
\* handled outside of service; a process that is gone keeps nothing.
Asleep ==
    /\ ~Serving => \A n \in Note : handler[n] \notin {"acked", "unsure"}
    /\ ~Serving \/ phase = "settling" => \A w \in Worker : ~Busy(w)
    /\ ~alive => /\ \A m \in MR : job[m] = NoJob
                 /\ \A c \in Cleaner : cleaner[c].step = "idle"

Rest == Assigned /\ Exclusive /\ SameKind /\ Loading /\ Asleep /\ JournalCoherent
IInv == TypeOK /\ Rest

LEMMA JobStepKeepsJournal ==
    ASSUME IInv, NEW m \in MR, JobStep(m), alive, m \notin toLoad, UNCHANGED life
    PROVE  JournalCoherent'
BY DEF IInv, Rest, life, JournalCoherent, JobStep, Known, alive, Coherent

\* A step on one restored job, by whoever may touch it.
LEMMA JobStepKeepsRest ==
    ASSUME IInv, NEW m \in MR, JobStep(m), alive, m \notin toLoad, UNCHANGED life,
           \A w \in Worker : Busy(w)' => Busy(w) /\ worker'[w].mr = worker[w].mr,
           \A w \in Worker : Busy(w)' /\ worker'[w].mr # m =>
               worker'[w].event.kind = worker[w].event.kind,
           \A w \in Worker : Busy(w)' /\ worker'[w].mr = m =>
               /\ job'[m].status = "running"
               /\ job'[m].cleanup = None => worker'[w].event.kind = job'[m].latest.kind,
           ~Serving => \A n \in Note : handler'[n] = handler[n]
    PROVE  Rest'
<1> USE DEF IInv, Rest, life
<1>1. \A n \in MR \ {m} : job'[n] = job[n] /\ disk'[n] = disk[n]
  BY DEF JobStep
<1>2. \A w \in Worker : Busy(w) => worker[w].mr \in MR
  BY DEF TypeOK, WorkerOK, WorkerShape, Busy
<1>3. Assigned'
  BY <1>1, <1>2 DEF Assigned
<1>4. Exclusive'
  BY DEF Exclusive
<1>5. SameKind'
  BY <1>1, <1>2 DEF SameKind
<1>6. Loading'
  BY <1>1 DEF Loading, TypeOK, LifeOK
<1>7. Asleep'
  BY DEF Asleep, Serving, alive
<1>8. JournalCoherent'
  BY JobStepKeepsJournal
<1> QED
  BY <1>3, <1>4, <1>5, <1>6, <1>7, <1>8

\* A step that touches no job.
LEMMA OtherStepKeepsRest ==
    ASSUME IInv, alive, UNCHANGED <<job, disk, life>>,
           \A w \in Worker : Busy(w)' =>
               /\ Busy(w) /\ worker'[w].mr = worker[w].mr
               /\ worker'[w].event.kind = worker[w].event.kind,
           ~Serving => \A n \in Note : handler'[n] = handler[n]
    PROVE  Rest'
<1> USE DEF IInv, Rest, life
<1>1. Assigned' /\ Exclusive' /\ SameKind'
  BY DEF Assigned, Exclusive, SameKind
<1>2. Loading' /\ JournalCoherent'
  BY DEF Loading, JournalCoherent, Known, alive, Coherent
<1>3. Asleep'
  BY DEF Asleep, Serving, alive
<1> QED
  BY <1>1, <1>2, <1>3

\* In service every job is restored, and the process is there.
LEMMA ServingFacts ==
    ASSUME IInv, Serving
    PROVE  alive /\ toLoad = {} /\ phase # "down"
BY DEF IInv, Rest, Loading, Serving, alive

\* A busy worker means that the daemon is in service.
LEMMA BusyFacts ==
    ASSUME IInv, NEW w \in Worker, Busy(w)
    PROVE  /\ Serving /\ worker[w].mr \in MR /\ worker[w].event \in Event
           /\ job[worker[w].mr] \in Job /\ job[worker[w].mr].status = "running"
           /\ job[worker[w].mr].latest \in Event
           /\ JobShape(job[worker[w].mr])
<1>1. Serving /\ job[worker[w].mr].status = "running" /\ worker[w].mr \in MR
  BY DEF IInv, Rest, Asleep, Assigned, TypeOK, WorkerOK, WorkerShape, Busy
<1>2. worker[w].event \in Event
  BY DEF IInv, TypeOK, WorkerOK, WorkerShape, WorkerState, MaybeEvent, Busy
<1>3. job[worker[w].mr] \in Job /\ JobShape(job[worker[w].mr])
  BY <1>1 DEF IInv, TypeOK, StoreOK
<1>4. job[worker[w].mr].latest \in Event
  BY <1>1, <1>3 DEF Job, JobShape, MaybeEvent
<1> QED
  BY <1>1, <1>2, <1>3, <1>4
-----------------------------------------------------------------------------
(* Scheduling.                                                             *)

LEMMA QueueReleasesType ==
    ASSUME SweepOK, RequestsOK, NEW m \in MR, NEW notes \in SUBSET Target, NEW e \in Event,
           QueueReleases(m, notes, e)
    PROVE  cleanupQueue' \subseteq Work /\ dropped' \subseteq Target
<1>1. ASSUME NEW n \in notes PROVE ReleaseWork(m, n, e) \in Work
  <2>1. Reduced(e, {n}) \in Event
    BY ReducedType
  <2> QED
    BY <2>1 DEF ReleaseWork, Work, Outcome, MaybeEvent
<1>2. CASE phase = "settling"
  BY <1>2 DEF QueueReleases, SweepOK, RequestsOK
<1>3. CASE phase # "settling"
  <2>1. PICK fit \in SUBSET notes :
          /\ cleanupQueue' = cleanupQueue \cup {ReleaseWork(m, n, e) : n \in fit}
          /\ dropped' = dropped \cup (notes \ fit)
    BY <1>3 DEF QueueReleases
  <2> QED
    BY <1>1, <2>1 DEF SweepOK, RequestsOK
<1> QED
  BY <1>2, <1>3

LEMMA DurableWorkType ==
    ASSUME NEW m \in MR, NEW j \in Job, j.cleanup # None
    PROVE  DurableWork(m, j) \in Work
BY DEF DurableWork, Work, Job, Cleanup

LEMMA EnlistType ==
    ASSUME SweepOK, NEW m \in MR, NEW j \in Job, j.cleanup # None, Enlist(m, j)
    PROVE  cleanupQueue' \subseteq Work /\ waiting' \subseteq MR
BY DurableWorkType DEF Enlist, SweepOK

LEMMA QueueDurableType ==
    ASSUME SweepOK, NEW m \in MR, NEW j \in Job, j.cleanup # None, QueueDurable(m, j)
    PROVE  SweepOK'
BY EnlistType DEF QueueDurable, SweepOK, sweep

LEMMA PushKeyType ==
    ASSUME PoolOK, NEW m \in MR, PushKey(m)
    PROVE  queue' \in Seq(MR) /\ Len(queue') <= QueueCap /\ overflow' \in Seq(MR)
<1>1. CASE Len(queue) < QueueCap
  <2>1. queue' = Append(queue, m) /\ overflow' = overflow
    BY <1>1 DEF PushKey
  <2>2. queue \in Seq(MR) /\ overflow \in Seq(MR)
    BY DEF PoolOK
  <2>3. Append(queue, m) \in Seq(MR) /\ Len(Append(queue, m)) = Len(queue) + 1
    BY <2>2
  <2> QED
    BY <1>1, <2>1, <2>2, <2>3, SizeAssumption
<1>2. CASE ~(Len(queue) < QueueCap)
  BY <1>2 DEF PushKey, PoolOK
<1> QED
  BY <1>1, <1>2

\* Making a reservation changes nothing else of a job.
LEMMA ReservedType ==
    ASSUME NEW j \in Job, j.status # "none"
    PROVE  /\ Reserved(j) \in Job /\ Reserved(j).status = j.status
           /\ Reserved(j).latest = j.latest /\ Reserved(j).pending = j.pending
           /\ Reserved(j).cleanup = j.cleanup /\ Reserved(j).persisted = j.persisted
           /\ EntryOf(Reserved(j)) = EntryOf(j)
           /\ JobShape(j) => JobShape(Reserved(j))
<1>1. closed \in BOOLEAN
  BY DEF closed
<1>2. /\ Reserved(j) \in Job /\ Reserved(j).status = j.status
      /\ Reserved(j).latest = j.latest /\ Reserved(j).pending = j.pending
      /\ Reserved(j).cleanup = j.cleanup /\ Reserved(j).persisted = j.persisted
  BY <1>1 DEF Reserved, Job
<1> QED
  BY <1>2 DEF EntryOf, Resume, JobShape

LEMMA UseType ==
    ASSUME RequestsOK, NEW kind \in EnvEvent, Use(kind)
    PROVE  used' \in [EnvEvent -> Nat]
BY DEF Use, RequestsOK

-----------------------------------------------------------------------------
(* Webhook intake.                                                         *)

\* What accepting an event does to the job of its merge request: it creates the job,
\* parks the event behind a review or a cleanup, or joins it to a queued job's event.
Created(m, e) ==
    /\ job[m] = NoJob
    /\ job'[m].status = "queued" /\ job'[m].latest = e
    /\ job'[m].pending = None /\ job'[m].cleanup = None
ParkedBehind(m, e) ==
    /\ job[m].status \in {"running", "cleanup"} /\ job'[m].status = job[m].status
    /\ job'[m].latest = job[m].latest /\ job'[m].cleanup = job[m].cleanup
    /\ job'[m].pending \in Event
    /\ job'[m].pending.kind = IF job[m].pending = None THEN e.kind
                              ELSE Stronger(job[m].pending.kind, e.kind)
Joined(m, e) ==
    /\ job[m].status = "queued" /\ job'[m].status = "queued"
    /\ job'[m].latest \in Event
    /\ job'[m].latest.kind = Stronger(job[m].latest.kind, e.kind)
    /\ job'[m].pending = job[m].pending /\ job'[m].cleanup = None
Accepted(m, e) ==
    /\ JobStep(m) /\ PoolOK' /\ SweepOK' /\ dropped' \subseteq Target
    /\ running' = running
    /\ Created(m, e) \/ ParkedBehind(m, e) \/ Joined(m, e)

LEMMA AdmitStep ==
    ASSUME IInv, NEW m \in MR, NEW e \in Event, Admit(m, e), UNCHANGED <<waiting, delayed>>
    PROVE  Accepted(m, e)
<1> DEFINE j == [NoJob EXCEPT !.status = "queued", !.latest = e]
<1>1. /\ j \in Job /\ JobShape(j) /\ j.status = "queued" /\ j.latest = e
      /\ j.pending = None /\ j.cleanup = None
  BY NilFacts DEF NoJob, Job, JobShape, Status, MaybeEvent
<1>2. Save(m, j) /\ job[m] = NoJob
  BY DEF Admit, IInv, TypeOK, StoreOK, JobShape
<1> HIDE DEF j
<1>3. JobStep(m) /\ Created(m, e)
  BY <1>1, <1>2, SaveStep DEF IInv, TypeOK, Created
<1>4. PoolOK'
  <2>1. queue \in Seq(MR) /\ queue' = Append(queue, m) /\ ~(Len(queue) >= QueueCap)
    BY DEF Admit, Refuses, IInv, TypeOK, PoolOK
  <2>2. queue' \in Seq(MR) /\ Len(queue') <= QueueCap
    BY <2>1, SizeAssumption
  <2> QED
    BY <2>2 DEF Admit, IInv, TypeOK, PoolOK
<1>5. SweepOK' /\ dropped' \subseteq Target
  BY DEF Admit, IInv, TypeOK, SweepOK, RequestsOK
<1> QED
  BY <1>3, <1>4, <1>5 DEF Accepted, Admit

LEMMA ParkBehindCleanupStep ==
    ASSUME IInv, NEW m \in MR, NEW e \in Event, ParkBehindCleanup(m, e),
           UNCHANGED <<waiting, delayed>>
    PROVE  Accepted(m, e)
<1>1. PICK p \in Parked(job[m].pending, e) :
        /\ Save(m, [job[m] EXCEPT !.pending = p])
        /\ QueueReleases(m, (MaybeTargets(job[m].pending) \cup e.targets) \ p.targets, e)
  BY DEF ParkBehindCleanup
<1> DEFINE j == [job[m] EXCEPT !.pending = p]
<1>2. job[m] \in Job /\ JobShape(job[m]) /\ job[m].cleanup # None
  BY DEF ParkBehindCleanup, IInv, TypeOK, StoreOK
<1>3. job[m].status # "none" /\ job[m].pending \in MaybeEvent
  BY <1>2 DEF JobShape, NoJob, Job
<1>4. /\ p \in Event
      /\ p.kind = IF job[m].pending = None THEN e.kind
                  ELSE Stronger(job[m].pending.kind, e.kind)
  BY <1>3, ParkedType
<1>5. /\ j.pending = p
      /\ j \in Job /\ JobShape(j) /\ j.status = job[m].status
      /\ j.latest = job[m].latest /\ j.cleanup = job[m].cleanup
  BY <1>2, <1>3, <1>4 DEF Job, JobShape, MaybeEvent
<1>6. Save(m, j)
  BY <1>1
<1> HIDE DEF j
<1>7. JobStep(m) /\ ParkedBehind(m, e)
  <2>1. job[m].status \in {"running", "cleanup"}
    BY <1>2, <1>3 DEF Job, Status, JobShape
  <2> QED
    BY <1>3, <1>4, <1>5, <1>6, <2>1, SaveStep DEF IInv, TypeOK, ParkedBehind
<1>8. (MaybeTargets(job[m].pending) \cup e.targets) \ p.targets \in SUBSET Target
  BY <1>3 DEF MaybeTargets, MaybeEvent, Event
<1>9. cleanupQueue' \subseteq Work /\ dropped' \subseteq Target
  BY <1>1, <1>8, QueueReleasesType DEF IInv, TypeOK
<1> QED
  BY <1>7, <1>9 DEF Accepted, ParkBehindCleanup, IInv, TypeOK, SweepOK, PoolOK, pool

LEMMA ParkBehindReviewStep ==
    ASSUME IInv, NEW m \in MR, NEW e \in Event, ParkBehindReview(m, e),
           UNCHANGED <<waiting, delayed>>
    PROVE  Accepted(m, e)
<1>0. PICK p \in Parked(job[m].pending, e) :
        \E kept \in KeptNotes(JobTargets(job[m]) \cap Note, Notes(p)) :
          /\ Save(m, [job[m] EXCEPT !.pending = Fitting(p, kept)])
          /\ QueueReleases(m, (MaybeTargets(job[m].pending) \cup e.targets)
                                 \ Fitting(p, kept).targets, e)
  BY DEF ParkBehindReview
<1>1. PICK kept \in KeptNotes(JobTargets(job[m]) \cap Note, Notes(p)) :
        /\ Save(m, [job[m] EXCEPT !.pending = Fitting(p, kept)])
        /\ QueueReleases(m, (MaybeTargets(job[m].pending) \cup e.targets)
                               \ Fitting(p, kept).targets, e)
  BY <1>0
<1> DEFINE j == [job[m] EXCEPT !.pending = Fitting(p, kept)]
<1>2. job[m] \in Job /\ JobShape(job[m]) /\ job[m].status = "running"
  BY DEF ParkBehindReview, IInv, TypeOK, StoreOK
<1>3. job[m].pending \in MaybeEvent
  BY <1>2 DEF Job
<1>4. /\ p \in Event
      /\ p.kind = IF job[m].pending = None THEN e.kind
                  ELSE Stronger(job[m].pending.kind, e.kind)
  BY <1>3, ParkedType
<1>5. Fitting(p, kept) \in Event /\ Fitting(p, kept).kind = p.kind
  <2>1. (kept \cup MR) \cap p.targets \in SUBSET Target
    BY <1>4 DEF Event
  <2> QED
    BY <1>4, <2>1, ReducedType DEF Fitting
<1>6. /\ j \in Job /\ JobShape(j) /\ j.status = job[m].status
      /\ j.latest = job[m].latest /\ j.cleanup = job[m].cleanup
      /\ j.pending = Fitting(p, kept)
  BY <1>2, <1>5 DEF Job, JobShape, MaybeEvent
<1>7. Save(m, j)
  BY <1>1
<1> HIDE DEF j
<1>8. JobStep(m) /\ ParkedBehind(m, e)
  BY <1>2, <1>4, <1>5, <1>6, <1>7, SaveStep DEF IInv, TypeOK, ParkedBehind
<1>9. (MaybeTargets(job[m].pending) \cup e.targets) \ Fitting(p, kept).targets \in SUBSET Target
  BY <1>3 DEF MaybeTargets, MaybeEvent, Event
<1>10. cleanupQueue' \subseteq Work /\ dropped' \subseteq Target
  BY <1>1, <1>9, QueueReleasesType DEF IInv, TypeOK
<1> QED
  BY <1>8, <1>10 DEF Accepted, ParkBehindReview, IInv, TypeOK, SweepOK, PoolOK, pool

LEMMA CoalesceStep ==
    ASSUME IInv, NEW m \in MR, NEW e \in Event, Coalesce(m, e), UNCHANGED <<waiting, delayed>>
    PROVE  Accepted(m, e)
<1>1. PICK l \in Merges(job[m].latest, e) :
        /\ Save(m, [job[m] EXCEPT !.latest = l])
        /\ QueueReleases(m, (job[m].latest.targets \cup e.targets) \ l.targets, e)
  BY DEF Coalesce
<1> DEFINE j == [job[m] EXCEPT !.latest = l]
<1>2. /\ job[m] \in Job /\ JobShape(job[m]) /\ job[m].status = "queued"
      /\ job[m].cleanup = None
  BY DEF Coalesce, IInv, TypeOK, StoreOK
<1>3. job[m].latest \in Event
  BY <1>2 DEF Job, JobShape, MaybeEvent
<1>4. l \in Event /\ l.kind = Stronger(job[m].latest.kind, e.kind)
  BY <1>3, MergesType
<1>5. /\ j \in Job /\ JobShape(j) /\ j.status = "queued" /\ j.latest = l
      /\ j.pending = job[m].pending /\ j.cleanup = None
  BY <1>2, <1>4, NilFacts DEF Job, JobShape, MaybeEvent
<1>6. Save(m, j)
  BY <1>1
<1> HIDE DEF j
<1>7. JobStep(m) /\ Joined(m, e)
  BY <1>2, <1>4, <1>5, <1>6, SaveStep DEF IInv, TypeOK, Joined
<1>8. (job[m].latest.targets \cup e.targets) \ l.targets \in SUBSET Target
  BY <1>3 DEF Event
<1>9. cleanupQueue' \subseteq Work /\ dropped' \subseteq Target
  BY <1>1, <1>8, QueueReleasesType DEF IInv, TypeOK
<1> QED
  BY <1>2, <1>7, <1>9 DEF Accepted, Coalesce, IInv, TypeOK, SweepOK, PoolOK, pool

LEMMA EnqueueStep ==
    ASSUME IInv, NEW m \in MR, NEW e \in Event, Enqueue(m, e)
    PROVE  Accepted(m, e)
BY AdmitStep, ParkBehindCleanupStep, ParkBehindReviewStep, CoalesceStep DEF Enqueue

\* An accepted event leaves the workers with what they held.
LEMMA AcceptedKeepsRest ==
    ASSUME IInv, NEW m \in MR, NEW e, Accepted(m, e), Serving, UNCHANGED <<worker, life>>
    PROVE  Rest'
<1>1. alive /\ toLoad = {}
  BY ServingFacts
<1>2. ASSUME NEW w \in Worker, Busy(w)', worker'[w].mr = m
      PROVE  /\ job'[m].status = "running"
             /\ job'[m].cleanup = None => worker'[w].event.kind = job'[m].latest.kind
  <2>1. Busy(w) /\ worker[w].mr = m
    BY <1>2 DEF Busy
  <2>2. job[m].status = "running"
    BY <2>1, BusyFacts
  <2>3. job[m].cleanup = None => worker[w].event.kind = job[m].latest.kind
    BY <2>1 DEF IInv, Rest, SameKind
  <2> QED
    BY <2>2, <2>3 DEF Accepted, Created, ParkedBehind, Joined, NoJob
<1>3. \A w \in Worker : Busy(w)' => Busy(w) /\ worker'[w] = worker[w]
  BY DEF Busy
<1> QED
  BY <1>1, <1>2, <1>3, JobStepKeepsRest DEF Accepted

LEMMA EnqueueEventStep ==
    ASSUME IInv, NEW m \in MR, EnqueueEvent(m)
    PROVE  IInv'
<1>1. PICK e \in Event : Enqueue(m, e)
  <2>1. \A k \in Trigger : [kind |-> k, targets |-> {}, unsure |-> {}] \in Event
    BY DEF Event
  <2> QED
    BY <2>1 DEF EnqueueEvent, Trigger
<1>3. Accepted(m, e)
  BY <1>1, EnqueueStep
<1>4. Rest'
  BY <1>3, AcceptedKeepsRest DEF EnqueueEvent
<1>5. RequestsOK'
  <2>1. used' \in [EnvEvent -> Nat]
    BY UseType DEF EnqueueEvent, EnvEvent, IInv, TypeOK
  <2> QED
    BY <1>3, <2>1 DEF EnqueueEvent, Accepted, IInv, TypeOK, RequestsOK
<1>6. WorkerOK' /\ CleanerOK' /\ LifeOK' /\ RemoteOK'
  BY DEF EnqueueEvent, IInv, TypeOK, WorkerOK, WorkerShape, CleanerOK, LifeOK, RemoteOK, life, remote
<1> QED
  BY <1>3, <1>4, <1>5, <1>6 DEF IInv, TypeOK, Accepted, JobStep

LEMMA AwardAckStep ==
    ASSUME IInv, NEW n \in Note, AwardAck(n)
    PROVE  IInv'
<1>1. Serving /\ alive /\ UNCHANGED <<job, disk, life>> /\ UNCHANGED worker
  BY ServingFacts DEF AwardAck, store
<1>2. Rest'
  BY <1>1, OtherStepKeepsRest DEF Busy
<1>3. RemoteOK' /\ RequestsOK'
  BY DEF AwardAck, TimesOut, Use, IInv, TypeOK, RemoteOK, RequestsOK, Target, Mark, EnvEvent
<1> QED
  BY <1>2, <1>3 DEF AwardAck, IInv, TypeOK, StoreOK, PoolOK, WorkerOK, WorkerShape, SweepOK,
       CleanerOK, LifeOK, store, pool, sweep, life

LEMMA HandleReviewStep ==
    ASSUME IInv, NEW n \in Note, HandleReview(n)
    PROVE  IInv'
<1> DEFINE m == NoteMR[n]
<1>1. m \in MR
  BY SizeAssumption
<1>2. CommandEvent(n) \in Event
  BY DEF CommandEvent, Event, Trigger, Target
<1>3. Serving
  BY DEF HandleReview, IInv, Rest, Asleep
<1>4. alive /\ toLoad = {}
  BY <1>3, ServingFacts
<1>5. RequestsOK' <=> dropped' \subseteq Target
  BY DEF HandleReview, IInv, TypeOK, RequestsOK
<1>6. WorkerOK' /\ CleanerOK' /\ LifeOK' /\ RemoteOK'
  BY DEF HandleReview, IInv, TypeOK, WorkerOK, WorkerShape, CleanerOK, LifeOK, RemoteOK, life, remote
<1>7. CASE Enqueue(m, CommandEvent(n))
  <2>1. Accepted(m, CommandEvent(n))
    BY <1>1, <1>2, <1>7, EnqueueStep
  <2>2. Rest'
    BY <1>1, <1>3, <2>1, AcceptedKeepsRest DEF HandleReview
  <2> QED
    BY <1>5, <1>6, <2>1, <2>2 DEF IInv, TypeOK, Accepted, JobStep
<1>8. CASE QueueReleases(m, {n}, CommandEvent(n)) /\ UNCHANGED <<store, pool, waiting, delayed>>
  <2>1. cleanupQueue' \subseteq Work /\ dropped' \subseteq Target
    BY <1>1, <1>2, <1>8, QueueReleasesType DEF IInv, TypeOK, Target
  <2>2. Rest'
    BY <1>3, <1>4, <1>8, OtherStepKeepsRest DEF HandleReview, Busy, store
  <2>3. StoreOK' /\ PoolOK' /\ SweepOK'
    BY <1>8, <2>1 DEF IInv, TypeOK, StoreOK, PoolOK, SweepOK, store, pool
  <2> QED
    BY <1>5, <1>6, <2>1, <2>2, <2>3 DEF IInv, TypeOK
<1> QED
  BY <1>7, <1>8 DEF HandleReview

-----------------------------------------------------------------------------
(* Abort.                                                                  *)

\* The event an abort hands to cleanup: the latest with the pending one merged on.
LEMMA AbortedEventType ==
    ASSUME NEW j \in Job, j.latest # None,
           NEW e \in IF j.pending = None THEN {j.latest} ELSE Merges(j.latest, j.pending)
    PROVE  e \in Event
BY MergesType DEF Job, MaybeEvent

LEMMA AbortingType ==
    ASSUME NEW j \in Job, NEW e \in Event
    PROVE  /\ Aborting(j, e) \in Job /\ Aborting(j, e).status = j.status
           /\ Aborting(j, e).latest = e /\ Aborting(j, e).pending = None
           /\ Aborting(j, e).cleanup # None
<1>1. CleanupOf(e, "aborted") \in Cleanup /\ CleanupOf(e, "aborted") # None
  BY NilFacts DEF CleanupOf, Cleanup, Outcome, MaybeEvent
<1> DEFINE a == [j EXCEPT !.latest = e, !.pending = None]
           next == j.version + 1
           b == [a EXCEPT !.cleanup = CleanupOf(e, "aborted"), !.version = next]
<1>2. a \in Job /\ a.status = j.status /\ a.latest = e /\ a.pending = None
  BY DEF Job, MaybeEvent
<1>3. next \in Nat
  BY DEF Job
<1>4. Aborting(j, e) = b
  BY DEF Aborting
<1> HIDE DEF a, next
<1>5. /\ b \in Job /\ b.status = a.status /\ b.latest = a.latest /\ b.pending = a.pending
      /\ b.cleanup = CleanupOf(e, "aborted")
  BY <1>1, <1>2, <1>3 DEF Job
<1> QED
  BY <1>1, <1>2, <1>4, <1>5

LEMMA AbortRunningStep ==
    ASSUME IInv, NEW m \in MR, AbortRunning(m)
    PROVE  /\ JobStep(m) /\ job'[m].status = "running" /\ job'[m].cleanup # None
           /\ job'[m].pending = None /\ UNCHANGED <<sweep, dropped>>
<1>1. job[m] \in Job /\ job[m].status = "running" /\ job[m].latest # None
  BY DEF AbortRunning, IInv, TypeOK, StoreOK, JobShape
<1>2. PICK e \in IF job[m].pending = None THEN {job[m].latest}
                 ELSE Merges(job[m].latest, job[m].pending) :
        Save(m, [Aborting(job[m], e) EXCEPT !.cancelled = TRUE])
  BY DEF AbortRunning
<1>3. e \in Event
  BY <1>1, AbortedEventType
<1> DEFINE a == Aborting(job[m], e)
           j == [a EXCEPT !.cancelled = TRUE]
<1>4. /\ a \in Job /\ a.status = "running" /\ a.latest = e /\ a.cleanup # None
      /\ a.pending = None
  BY <1>1, <1>3, AbortingType
<1>5. Save(m, j)
  BY <1>2
<1> HIDE DEF a
<1>6. /\ j \in Job /\ j.status = "running" /\ j.latest = e /\ j.cleanup # None
      /\ j.pending = None
  BY <1>4 DEF Job
<1> HIDE DEF j
<1>7. JobShape(j)
  BY <1>3, <1>6, NilFacts DEF JobShape
<1> QED
  BY <1>5, <1>6, <1>7, SaveStep DEF AbortRunning, IInv, TypeOK

LEMMA AbortQueuedStep ==
    ASSUME IInv, NEW m \in MR, AbortQueued(m)
    PROVE  /\ JobStep(m) /\ SweepOK' /\ job[m].status = "queued" /\ UNCHANGED dropped
           /\ job'[m].status = "cleanup" /\ job'[m].pending = None
<1>1. job[m] \in Job /\ job[m].status = "queued" /\ job[m].latest # None
  BY DEF AbortQueued, IInv, TypeOK, StoreOK, JobShape
<1>2. PICK e \in IF job[m].pending = None THEN {job[m].latest}
                 ELSE Merges(job[m].latest, job[m].pending) :
        /\ Save(m, Reserved([Aborting(job[m], e) EXCEPT !.status = "cleanup"]))
        /\ QueueDurable(m, [Aborting(job[m], e) EXCEPT !.status = "cleanup"])
  BY DEF AbortQueued
<1>3. e \in Event
  BY <1>1, AbortedEventType
<1> DEFINE a == Aborting(job[m], e)
           j == [a EXCEPT !.status = "cleanup"]
<1>4. a \in Job /\ a.latest = e /\ a.cleanup # None /\ a.pending = None
  BY <1>1, <1>3, AbortingType
<1>5. Save(m, Reserved(j)) /\ QueueDurable(m, j)
  BY <1>2
<1> HIDE DEF a
<1>6. /\ j \in Job /\ j.status = "cleanup" /\ j.latest = e /\ j.cleanup # None
      /\ j.pending = None
  BY <1>4 DEF Job, Status
<1> HIDE DEF j
<1>7. JobShape(j)
  BY <1>3, <1>6, NilFacts DEF JobShape
<1>8. /\ Reserved(j) \in Job /\ JobShape(Reserved(j)) /\ Reserved(j).status = "cleanup"
      /\ Reserved(j).pending = None
  BY <1>6, <1>7, ReservedType
<1>9. JobStep(m) /\ job'[m].status = "cleanup" /\ job'[m].pending = None
  BY <1>5, <1>8, SaveStep DEF IInv, TypeOK
<1>10. SweepOK'
  BY <1>5, <1>6, QueueDurableType DEF IInv, TypeOK
<1> QED
  BY <1>1, <1>9, <1>10 DEF AbortQueued

LEMMA AbortPendingStep ==
    ASSUME IInv, NEW m \in MR, AbortPending(m)
    PROVE  /\ JobStep(m) /\ SweepOK' /\ job[m].status = "cleanup"
           /\ job'[m].status = "cleanup" /\ job'[m].pending = None /\ dropped' \subseteq Target
<1>1. /\ job[m] \in Job /\ JobShape(job[m]) /\ job[m].status = "cleanup"
      /\ job[m].pending # None
  BY DEF AbortPending, IInv, TypeOK, StoreOK
<1>2. /\ job[m].pending \in Event /\ job[m].latest \in Event /\ job[m].version \in Nat
      /\ job[m].cleanup \in Cleanup /\ job[m].cleanup.aborted \in MaybeEvent
  BY <1>1 DEF Job, JobShape, MaybeEvent, Cleanup
<1>3. PICK p \in Parked(job[m].cleanup.aborted, job[m].pending) :
        /\ Save(m, [job[m] EXCEPT !.cleanup.aborted = Reduced(p, Notes(p)), !.pending = None,
                                  !.version = @ + 1])
        /\ QueueReleases(m, (MaybeTargets(job[m].cleanup.aborted) \cup Notes(job[m].pending))
                               \ p.targets, job[m].pending)
  BY DEF AbortPending
<1>4. p \in Event
  BY <1>2, ParkedType
<1>5. Reduced(p, Notes(p)) \in Event
  BY <1>4, ReducedType DEF Notes, Event
<1> DEFINE c == [job[m].cleanup EXCEPT !.aborted = Reduced(p, Notes(p))]
           i == [job[m] EXCEPT !.cleanup.aborted = Reduced(p, Notes(p))]
           next == job[m].version + 1
           j == [i EXCEPT !.pending = None, !.version = next]
<1>6. c \in Cleanup
  BY <1>2, <1>5 DEF Cleanup, MaybeEvent
<1>7. /\ i \in Job /\ i.status = "cleanup" /\ i.latest = job[m].latest /\ i.cleanup = c
      /\ i.version = job[m].version
  <2>1. i = [job[m] EXCEPT !.cleanup = c]
    BY <1>1 DEF Job
  <2> HIDE DEF c, i
  <2> QED
    BY <1>1, <1>6, <2>1 DEF Job
<1>8. Save(m, j) /\ next \in Nat
  BY <1>2, <1>3
<1> HIDE DEF c, i, next
<1>9. j \in Job /\ JobShape(j) /\ j.status = "cleanup" /\ j.pending = None
  <2>1. /\ j \in Job /\ j.status = "cleanup" /\ j.latest = i.latest /\ j.cleanup = i.cleanup
        /\ j.pending = None
    BY <1>7, <1>8 DEF Job, MaybeEvent
  <2> QED
    BY <1>2, <1>6, <1>7, <2>1, NilFacts DEF JobShape
<1>10. JobStep(m) /\ job'[m].status = "cleanup" /\ job'[m].pending = None
  BY <1>8, <1>9, SaveStep DEF IInv, TypeOK
<1>11. (MaybeTargets(job[m].cleanup.aborted) \cup Notes(job[m].pending)) \ p.targets
          \in SUBSET Target
  BY <1>2 DEF MaybeTargets, MaybeEvent, Event, Notes
<1>12. cleanupQueue' \subseteq Work /\ dropped' \subseteq Target
  BY <1>2, <1>3, <1>11, QueueReleasesType DEF IInv, TypeOK
<1> QED
  BY <1>1, <1>10, <1>12 DEF AbortPending, IInv, TypeOK, SweepOK

LEMMA AbortStep ==
    ASSUME IInv, NEW m \in MR, Abort(m)
    PROVE  IInv'
<1>1. alive /\ toLoad = {}
  BY ServingFacts DEF Abort
<1>2. JobStep(m) /\ SweepOK' /\ dropped' \subseteq Target
  BY AbortRunningStep, AbortQueuedStep, AbortPendingStep
  DEF Abort, IInv, TypeOK, SweepOK, RequestsOK, sweep
<1>3. ASSUME NEW w \in Worker, Busy(w)', worker'[w].mr = m
      PROVE  job'[m].status = "running" /\ job'[m].cleanup # None
  <2>1. job[m].status = "running"
    BY <1>3, BusyFacts DEF Abort, Busy
  <2>2. AbortRunning(m)
    BY <2>1, AbortQueuedStep, AbortPendingStep DEF Abort
  <2> QED
    BY <2>2, AbortRunningStep
<1>4. \A w \in Worker : Busy(w)' => Busy(w) /\ worker'[w] = worker[w]
  BY DEF Abort, Busy
<1>5. Rest'
  BY <1>1, <1>2, <1>3, <1>4, JobStepKeepsRest DEF Abort
<1>6. RequestsOK'
  <2>1. used' \in [EnvEvent -> Nat]
    BY UseType DEF Abort, EnvEvent, IInv, TypeOK
  <2> QED
    BY <1>2, <2>1 DEF Abort, IInv, TypeOK, RequestsOK
<1>7. PoolOK' /\ WorkerOK' /\ CleanerOK' /\ LifeOK' /\ RemoteOK'
  BY DEF Abort, IInv, TypeOK, PoolOK, WorkerOK, WorkerShape, CleanerOK, LifeOK, RemoteOK,
     pool, life, remote
<1> QED
  BY <1>2, <1>5, <1>6, <1>7 DEF IInv, TypeOK, JobStep

-----------------------------------------------------------------------------
(* Review workers.                                                         *)

\* A worker that stays busy on its job, whatever it does to the job.
LEMMA WorkerStepKeepsRest ==
    ASSUME IInv, NEW w \in Worker, NEW m \in MR, Busy(w), worker[w].mr = m,
           NEW v \in WorkerState, v.step # "idle", v.mr = m, WorkerShape(v),
           worker' = [worker EXCEPT ![w] = v],
           JobStep(m), job'[m].status = "running",
           job'[m].cleanup = None => v.event.kind = job'[m].latest.kind,
           UNCHANGED life
    PROVE  Rest' /\ WorkerOK'
<1>1. Serving /\ alive /\ toLoad = {}
  BY BusyFacts, ServingFacts
<1>2. worker'[w] = v /\ \A u \in Worker \ {w} : worker'[u] = worker[u]
  BY DEF IInv, TypeOK, WorkerOK
<1>3. \A u \in Worker : Busy(u)' => Busy(u) /\ worker'[u].mr = worker[u].mr
  BY <1>2 DEF Busy
<1>4. \A u \in Worker : Busy(u)' /\ worker'[u].mr # m =>
          worker'[u].event.kind = worker[u].event.kind
  BY <1>2
<1>5. \A u \in Worker : Busy(u)' /\ worker'[u].mr = m => u = w
  BY <1>3 DEF IInv, Rest, Exclusive
<1>6. Rest'
  BY <1>1, <1>2, <1>3, <1>4, <1>5, JobStepKeepsRest
<1>7. WorkerOK'
  BY <1>2 DEF IInv, TypeOK, WorkerOK, WorkerShape
<1> QED
  BY <1>6, <1>7

\* The same when the job stays as it is and the worker keeps its event's trigger.
LEMMA QuietWorkerStep ==
    ASSUME IInv, NEW w \in Worker, Busy(w),
           NEW v \in WorkerState, v.step # "idle", v.mr = worker[w].mr, WorkerShape(v),
           v.event.kind = worker[w].event.kind,
           worker' = [worker EXCEPT ![w] = v],
           UNCHANGED <<job, disk, life>>
    PROVE  Rest' /\ WorkerOK'
<1>1. Serving /\ alive /\ toLoad = {}
  BY BusyFacts, ServingFacts
<1>2. worker'[w] = v /\ \A u \in Worker \ {w} : worker'[u] = worker[u]
  BY DEF IInv, TypeOK, WorkerOK
<1>3. Rest'
  BY <1>1, <1>2, OtherStepKeepsRest DEF Busy
<1>4. WorkerOK'
  BY <1>2 DEF IInv, TypeOK, WorkerOK, WorkerShape
<1> QED
  BY <1>3, <1>4

LEMMA DrainedType ==
    ASSUME PoolOK, NEW keys \in Seq(MR), Len(keys) <= QueueCap
    PROVE  /\ Drained(keys)[1] \in Seq(MR) /\ Len(Drained(keys)[1]) <= QueueCap
           /\ Drained(keys)[2] \in Seq(MR)
<1> DEFINE moved == IF Len(overflow) <= QueueCap - Len(keys) THEN Len(overflow)
                    ELSE QueueCap - Len(keys)
           first == SubSeq(overflow, 1, moved)
           last == SubSeq(overflow, moved + 1, Len(overflow))
<1>1. overflow \in Seq(MR) /\ Len(overflow) \in Nat /\ Len(keys) \in Nat /\ QueueCap \in Nat
  BY SizeAssumption DEF PoolOK
<1>2. moved \in 0..Len(overflow) /\ moved + Len(keys) <= QueueCap
  BY <1>1
<1> HIDE DEF moved
<1>3. first \in Seq(MR) /\ Len(first) = moved /\ last \in Seq(MR)
  BY <1>1, <1>2
<1>4. Drained(keys) = <<keys \o first, last>>
  BY DEF Drained, moved
<1> HIDE DEF first, last
<1>5. keys \o first \in Seq(MR) /\ Len(keys \o first) = Len(keys) + moved
  BY <1>3
<1> QED
  BY <1>1, <1>2, <1>3, <1>4, <1>5

LEMMA TakeStep ==
    ASSUME IInv, NEW w \in Worker, Take(w)
    PROVE  IInv'
<1>1. Serving /\ ~Busy(w) /\ phase = "up"
  BY DEF Take, Serving, Busy
<1>2. alive /\ toLoad = {} /\ UNCHANGED life
  BY <1>1, ServingFacts DEF Take
<1>3. Head(queue) \in MR /\ Tail(queue) \in Seq(MR) /\ Len(Tail(queue)) <= QueueCap
  BY SizeAssumption DEF Take, IInv, TypeOK, PoolOK
<1>4. PoolOK'
  <2>1. queue' = Drained(Tail(queue))[1] /\ overflow' = Drained(Tail(queue))[2]
    BY DEF Take
  <2>2. queue' \in Seq(MR) /\ Len(queue') <= QueueCap /\ overflow' \in Seq(MR)
    BY <1>3, <2>1, DrainedType DEF IInv, TypeOK
  <2>3. running' \in Int
    BY DEF Take, IInv, TypeOK, PoolOK
  <2> QED
    BY <2>2, <2>3 DEF PoolOK
<1>5. CleanerOK' /\ LifeOK' /\ SweepOK' /\ RemoteOK' /\ RequestsOK'
  BY DEF Take, IInv, TypeOK, CleanerOK, LifeOK, SweepOK, RemoteOK, RequestsOK, sweep, life, remote
<1> DEFINE m == Head(queue)
<1>6. CASE Takeable(m)
  <2> DEFINE j == [job[m] EXCEPT !.status = "running", !.cancelled = FALSE]
             v == [step |-> "check", mr |-> m, event |-> job[m].latest,
                   outcome |-> "none", version |-> 0]
  <2>1. /\ job[m] \in Job /\ JobShape(job[m]) /\ job[m].status = "queued"
        /\ job[m].latest # None /\ job[m].cleanup = None
    BY <1>3, <1>6 DEF Takeable, IInv, TypeOK, StoreOK, JobShape
  <2>2. /\ j \in Job /\ JobShape(j) /\ j.status = "running" /\ j.latest = job[m].latest
        /\ j.persisted = job[m].persisted /\ EntryOf(j) = EntryOf(job[m])
    BY <2>1 DEF Job, JobShape, Status, EntryOf, Resume
  <2>3. job' = [job EXCEPT ![m] = j] /\ worker' = [worker EXCEPT ![w] = v]
    BY <1>6 DEF Take, IInv, TypeOK, StoreOK
  <2>4. UNCHANGED <<disk, faults>>
    BY DEF Take
  <2> HIDE DEF j
  <2>5. JobStep(m) /\ job'[m] = j
    BY <1>3, <2>1, <2>2, <2>3, <2>4, UnsavedStep DEF IInv, TypeOK
  <2>6. v \in WorkerState /\ WorkerShape(v)
    BY <1>3, <2>1 DEF WorkerState, WorkerShape, Step, MaybeEvent, Job
  <2>7. worker'[w] = v /\ \A u \in Worker \ {w} : worker'[u] = worker[u]
    BY <2>3 DEF IInv, TypeOK, WorkerOK
  <2>8. WorkerOK'
    BY <2>3, <2>6, <2>7 DEF IInv, TypeOK, WorkerOK, WorkerShape
  <2>9. \A u \in Worker : Busy(u) => worker[u].mr # m
    BY <2>1, BusyFacts
  <2>10. \A n \in MR \ {m} : job'[n] = job[n] /\ disk'[n] = disk[n]
    BY <2>5 DEF JobStep
  <2>11. \A u \in Worker \ {w} : Busy(u)' => Busy(u) /\ worker[u].mr \in MR \ {m}
    BY <2>7, <2>9, BusyFacts DEF Busy
  <2>12. Assigned'
    BY <2>2, <2>5, <2>7, <2>10, <2>11 DEF Assigned, IInv, Rest
  <2>13. Exclusive'
    BY <2>7, <2>11 DEF Exclusive, IInv, Rest
  <2>14. SameKind'
    BY <2>2, <2>5, <2>7, <2>10, <2>11 DEF SameKind, IInv, Rest
  <2>15. Loading' /\ Asleep'
    BY <1>1, <1>2 DEF Loading, Asleep, Serving, alive, life
  <2>16. JournalCoherent'
    BY <1>2, <1>3, <2>5, JobStepKeepsJournal
  <2> QED
    BY <1>4, <1>5, <2>5, <2>8, <2>12, <2>13, <2>14, <2>15, <2>16 DEF IInv, Rest, TypeOK, JobStep
<1>7. CASE ~Takeable(m)
  <2>1. UNCHANGED <<job, worker, disk, faults>>
    BY <1>7 DEF Take
  <2>2. Rest'
    BY <1>2, <2>1, OtherStepKeepsRest DEF Busy, Take
  <2>3. StoreOK' /\ WorkerOK'
    BY <2>1 DEF IInv, TypeOK, StoreOK, WorkerOK, WorkerShape
  <2> QED
    BY <1>4, <1>5, <2>2, <2>3 DEF IInv, TypeOK
<1> QED
  BY <1>6, <1>7

\* Noting a reaction in the job changes which targets it names and nothing else that
\* a restart or another step depends on.
LEMMA RecordedType ==
    ASSUME NEW j \in Job, JobShape(j), j.status = "running",
           NEW targets \in SUBSET Target, NEW unsure \in SUBSET Target
    PROVE  LET r == Recorded(j, targets, unsure)
           IN  /\ r \in Job /\ JobShape(r) /\ r.status = "running"
               /\ r.pending = j.pending
               /\ r.cleanup = None <=> j.cleanup = None
               /\ j.cleanup = None => r.latest.kind = j.latest.kind
<1> DEFINE Noted(e) == [e EXCEPT !.targets = @ \cup targets, !.unsure = @ \cup unsure]
           r == Recorded(j, targets, unsure)
<1>1. ASSUME NEW e \in Event
      PROVE  Noted(e) \in Event /\ Noted(e).kind = e.kind
  BY DEF Event
<1>2. j.latest \in Event /\ j.version \in Nat
  BY DEF Job, JobShape, MaybeEvent
<1>3. CASE j.cleanup = None
  <2>1. r = [j EXCEPT !.latest = Noted(j.latest)]
    BY <1>3 DEF Recorded, Job
  <2>2. Noted(j.latest) \in Event /\ Noted(j.latest).kind = j.latest.kind
    BY <1>1, <1>2
  <2> HIDE DEF Noted, r
  <2>3. /\ r \in Job /\ r.status = "running" /\ r.latest = Noted(j.latest)
        /\ r.cleanup = None /\ r.pending = j.pending
    BY <1>3, <2>1, <2>2 DEF Job, MaybeEvent
  <2> QED
    BY <1>3, <2>2, <2>3, NilFacts DEF JobShape, r
<1>4. CASE j.cleanup # None
  <2> DEFINE c == [j.cleanup EXCEPT !.event = Noted(j.cleanup.event)]
             i == [j EXCEPT !.cleanup = c, !.latest = Noted(j.cleanup.event)]
             next == j.version + 1
  <2>1. j.cleanup \in Cleanup /\ j.cleanup.event \in Event
    BY <1>4 DEF Job, Cleanup
  <2>2. Noted(j.cleanup.event) \in Event
    BY <1>1, <2>1
  <2>3. r = [i EXCEPT !.version = next]
    BY <1>4 DEF Recorded, Job
  <2> HIDE DEF Noted, r
  <2>4. c \in Cleanup
    BY <2>1, <2>2 DEF Cleanup
  <2> HIDE DEF c
  <2>5. /\ i \in Job /\ i.status = "running" /\ i.cleanup = c
        /\ i.latest = Noted(j.cleanup.event) /\ i.pending = j.pending
    BY <2>2, <2>4 DEF Job, MaybeEvent
  <2>6. next \in Nat
    BY <1>2
  <2> HIDE DEF i, next
  <2>7. /\ r \in Job /\ r.status = "running" /\ r.cleanup = c
        /\ r.latest = Noted(j.cleanup.event) /\ r.pending = j.pending
    BY <2>3, <2>5, <2>6 DEF Job
  <2> QED
    BY <1>4, <2>2, <2>4, <2>7, NilFacts DEF JobShape, r
<1> QED
  BY <1>3, <1>4

\* A worker that notes a reaction in its job and goes on.
LEMMA RecordedStep ==
    ASSUME IInv, NEW w \in Worker, Busy(w), NEW m \in MR, worker[w].mr = m,
           NEW targets \in SUBSET Target, NEW unsure \in SUBSET Target,
           Save(m, Recorded(job[m], targets, unsure)),
           NEW v \in WorkerState, v.step # "idle", v.mr = m, WorkerShape(v),
           v.event.kind = worker[w].event.kind,
           worker' = [worker EXCEPT ![w] = v], UNCHANGED life
    PROVE  Rest' /\ WorkerOK' /\ StoreOK'
<1> DEFINE r == Recorded(job[m], targets, unsure)
<1>1. job[m] \in Job /\ JobShape(job[m]) /\ job[m].status = "running"
  BY BusyFacts
<1>2. /\ r \in Job /\ JobShape(r) /\ r.status = "running"
      /\ r.cleanup = None <=> job[m].cleanup = None
      /\ job[m].cleanup = None => r.latest.kind = job[m].latest.kind
  BY <1>1, RecordedType
<1> HIDE DEF r
<1>3. Save(m, r)
  BY DEF r
<1>4. /\ JobStep(m) /\ job'[m].status = "running" /\ job'[m].latest = r.latest
      /\ job'[m].cleanup = r.cleanup
  BY <1>2, <1>3, SaveStep DEF IInv, TypeOK
<1>5. job[m].cleanup = None => worker[w].event.kind = job[m].latest.kind
  BY DEF IInv, Rest, SameKind
<1> QED
  BY <1>2, <1>4, <1>5, WorkerStepKeepsRest DEF JobStep

LEMMA CheckRequestStep ==
    ASSUME IInv, NEW w \in Worker, CheckRequest(w)
    PROVE  IInv'
<1> DEFINE m == worker[w].mr
<1>1. Busy(w) /\ m \in MR /\ worker[w].event \in Event /\ worker[w] \in WorkerState
  BY BusyFacts DEF CheckRequest, Busy, IInv, TypeOK, WorkerOK
<1>2. PoolOK' /\ SweepOK' /\ CleanerOK' /\ LifeOK' /\ RemoteOK' /\ RequestsOK'
  BY DEF CheckRequest, IInv, TypeOK, PoolOK, SweepOK, CleanerOK, LifeOK, RemoteOK, RequestsOK,
     pool, sweep, life, remote
<1>3. ASSUME NEW o \in PreRunOutcomes(w), Goto(w, Ends("begin", o), o), UNCHANGED store
      PROVE  IInv'
  <2> DEFINE v == [worker[w] EXCEPT !.step = Ends("begin", o), !.outcome = o]
  <2>1. o \in Outcome \cup {"interrupted"} /\ Ends("begin", o) \in {"begin", "finish"}
        /\ (Ends("begin", o) = "begin" => o \in Outcome)
    BY <1>3 DEF PreRunOutcomes, Ends, Outcome
  <2>2. worker' = [worker EXCEPT ![w] = v]
    BY <1>3 DEF Goto, IInv, TypeOK, WorkerOK
  <2>3. /\ v \in WorkerState /\ v.step = Ends("begin", o) /\ v.mr = m
        /\ v.event = worker[w].event /\ v.outcome = o
    BY <1>1, <2>1 DEF WorkerState, Step
  <2> HIDE DEF v
  <2>4. WorkerShape(v)
    BY <1>1, <2>1, <2>3, NilFacts DEF WorkerShape, Outcome
  <2>5. Rest' /\ WorkerOK'
    BY <1>1, <1>3, <2>1, <2>2, <2>3, <2>4, QuietWorkerStep DEF CheckRequest, store
  <2>6. StoreOK'
    BY <1>3 DEF IInv, TypeOK, StoreOK, store
  <2> QED
    BY <1>2, <2>5, <2>6 DEF IInv, TypeOK
<1>4. ASSUME Save(m, Recorded(job[m], {m}, {})),
             worker' = [worker EXCEPT ![w].step = "start", ![w].event.targets = @ \cup {m}]
      PROVE  IInv'
  <2> DEFINE e == [worker[w].event EXCEPT !.targets = @ \cup {m}]
             v == [worker[w] EXCEPT !.step = "start", !.event = e]
  <2>1. e \in Event /\ e.kind = worker[w].event.kind
    BY <1>1 DEF Event, Target
  <2>2. worker' = [worker EXCEPT ![w] = v]
    BY <1>1, <1>4 DEF IInv, TypeOK, WorkerOK, WorkerState
  <2> HIDE DEF e
  <2>3. v \in WorkerState /\ v.step = "start" /\ v.mr = m /\ v.event = e
    BY <1>1, <2>1 DEF WorkerState, Step, MaybeEvent
  <2> HIDE DEF v
  <2>4. WorkerShape(v)
    BY <1>1, <2>1, <2>3, NilFacts DEF WorkerShape
  <2>5. {m} \in SUBSET Target /\ {} \in SUBSET Target
    BY <1>1 DEF Target
  <2>6. Rest' /\ WorkerOK' /\ StoreOK'
    BY <1>1, <1>4, <2>1, <2>2, <2>3, <2>4, <2>5, RecordedStep DEF CheckRequest
  <2> QED
    BY <1>2, <2>6 DEF IInv, TypeOK
<1> QED
  BY <1>3, <1>4 DEF CheckRequest

LEMMA TimesOutType ==
    ASSUME RemoteOK, RequestsOK, NEW t \in Target, TimesOut(t)
    PROVE  RemoteOK' /\ used' \in [EnvEvent -> Nat]
BY UseType DEF TimesOut, RemoteOK, EnvEvent

LEMMA StartReactionStep ==
    ASSUME IInv, NEW w \in Worker, StartReaction(w)
    PROVE  IInv'
<1> DEFINE m == worker[w].mr
<1>1. /\ Busy(w) /\ m \in MR /\ m \in Target /\ worker[w].event \in Event
      /\ worker[w] \in WorkerState
  BY BusyFacts DEF StartReaction, Busy, IInv, TypeOK, WorkerOK, Target
<1>2. PoolOK' /\ SweepOK' /\ CleanerOK' /\ LifeOK'
  BY DEF StartReaction, IInv, TypeOK, PoolOK, SweepOK, CleanerOK, LifeOK, pool, sweep, life
<1>3. ASSUME worker' = [worker EXCEPT ![w].step = "run"], UNCHANGED <<job, disk, used>>,
             faults' \in Nat, RemoteOK'
      PROVE  IInv'
  <2> DEFINE v == [worker[w] EXCEPT !.step = "run"]
  <2>1. worker' = [worker EXCEPT ![w] = v]
    BY <1>3 DEF IInv, TypeOK, WorkerOK
  <2>2. v \in WorkerState /\ v.step = "run" /\ v.mr = m /\ v.event = worker[w].event
    BY <1>1 DEF WorkerState, Step
  <2> HIDE DEF v
  <2>3. WorkerShape(v)
    BY <1>1, <2>2, NilFacts DEF WorkerShape
  <2>4. Rest' /\ WorkerOK'
    BY <1>1, <1>3, <2>1, <2>2, <2>3, QuietWorkerStep DEF StartReaction
  <2>5. StoreOK' /\ RequestsOK'
    BY <1>3 DEF StartReaction, IInv, TypeOK, StoreOK, RequestsOK
  <2> QED
    BY <1>2, <1>3, <2>4, <2>5 DEF IInv, TypeOK
<1>4. ASSUME TimesOut(m), Save(m, Recorded(job[m], {}, {m})),
             worker' = [worker EXCEPT ![w].step = "run", ![w].event.unsure = @ \cup {m}]
      PROVE  IInv'
  <2> DEFINE e == [worker[w].event EXCEPT !.unsure = @ \cup {m}]
             v == [worker[w] EXCEPT !.step = "run", !.event = e]
  <2>1. e \in Event /\ e.kind = worker[w].event.kind
    BY <1>1 DEF Event, Target
  <2>2. worker' = [worker EXCEPT ![w] = v]
    BY <1>1, <1>4 DEF IInv, TypeOK, WorkerOK, WorkerState
  <2> HIDE DEF e
  <2>3. v \in WorkerState /\ v.step = "run" /\ v.mr = m /\ v.event = e
    BY <1>1, <2>1 DEF WorkerState, Step, MaybeEvent
  <2> HIDE DEF v
  <2>4. WorkerShape(v)
    BY <1>1, <2>1, <2>3, NilFacts DEF WorkerShape
  <2>5. {m} \in SUBSET Target /\ {} \in SUBSET Target
    BY <1>1
  <2>6. Rest' /\ WorkerOK' /\ StoreOK'
    BY <1>1, <1>4, <2>1, <2>2, <2>3, <2>4, <2>5, RecordedStep DEF StartReaction
  <2>7. RemoteOK' /\ used' \in [EnvEvent -> Nat]
    BY <1>1, <1>4, TimesOutType DEF IInv, TypeOK
  <2>8. RequestsOK'
    BY <2>7 DEF StartReaction, IInv, TypeOK, RequestsOK
  <2> QED
    BY <1>2, <2>6, <2>7, <2>8 DEF IInv, TypeOK
<1>5. CASE /\ mark' = [mark EXCEPT ![m] = "busy"]
           /\ worker' = [worker EXCEPT ![w].step = "run"]
           /\ UNCHANGED <<store, open, inflight, used>>
  <2>1. RemoteOK' /\ faults' \in Nat /\ UNCHANGED <<job, disk, used>>
    BY <1>1, <1>5 DEF IInv, TypeOK, RemoteOK, StoreOK, Mark, store
  <2> QED
    BY <1>3, <1>5, <2>1
<1>6. CASE /\ faults < FaultLimit /\ faults' = faults + 1
           /\ worker' = [worker EXCEPT ![w].step = "run"]
           /\ UNCHANGED <<job, disk, remote, used>>
  <2>1. RemoteOK' /\ faults' \in Nat
    BY <1>6 DEF IInv, TypeOK, RemoteOK, StoreOK, remote
  <2> QED
    BY <1>3, <1>6, <2>1
<1> QED
  BY <1>4, <1>5, <1>6 DEF StartReaction

LEMMA RunReviewStep ==
    ASSUME IInv, NEW w \in Worker, RunReview(w)
    PROVE  IInv'
<1>1. /\ Busy(w) /\ worker[w].mr \in MR /\ worker[w].event \in Event
      /\ worker[w] \in WorkerState
  BY BusyFacts DEF RunReview, Busy, IInv, TypeOK, WorkerOK
<1>2. PICK o \in RunOutcomes(w) : Goto(w, Ends("begin", o), o)
  BY DEF RunReview
<1> DEFINE v == [worker[w] EXCEPT !.step = Ends("begin", o), !.outcome = o]
<1>3. o \in Outcome \cup {"interrupted"} /\ Ends("begin", o) \in {"begin", "finish"}
      /\ (Ends("begin", o) = "begin" => o \in Outcome)
  BY DEF RunOutcomes, Ends, Outcome
<1>4. worker' = [worker EXCEPT ![w] = v]
  BY <1>2 DEF Goto, IInv, TypeOK, WorkerOK
<1>5. /\ v \in WorkerState /\ v.step = Ends("begin", o) /\ v.mr = worker[w].mr
      /\ v.event = worker[w].event /\ v.outcome = o
  BY <1>1, <1>3 DEF WorkerState, Step
<1> HIDE DEF v
<1>6. WorkerShape(v)
  BY <1>1, <1>3, <1>5, NilFacts DEF WorkerShape, Outcome
<1>7. Rest' /\ WorkerOK'
  BY <1>1, <1>3, <1>4, <1>5, <1>6, QuietWorkerStep DEF RunReview, store
<1> QED
  BY <1>7 DEF RunReview, IInv, TypeOK, StoreOK, PoolOK, SweepOK, CleanerOK, LifeOK, RemoteOK,
     RequestsOK, store, pool, sweep, life, remote

LEMMA BeginSettlementStep ==
    ASSUME IInv, NEW w \in Worker, BeginSettlement(w)
    PROVE  IInv'
<1> DEFINE m == worker[w].mr
           e == worker[w].event
           o == worker[w].outcome
<1>1. /\ Busy(w) /\ m \in MR /\ e \in Event /\ worker[w] \in WorkerState /\ o \in Outcome
      /\ job[m] \in Job /\ job[m].status = "running"
  BY BusyFacts DEF BeginSettlement, Busy, IInv, TypeOK, WorkerOK, WorkerShape
<1>2. PoolOK' /\ SweepOK' /\ CleanerOK' /\ LifeOK' /\ RemoteOK' /\ RequestsOK'
  BY DEF BeginSettlement, IInv, TypeOK, PoolOK, SweepOK, CleanerOK, LifeOK, RemoteOK, RequestsOK,
     pool, sweep, life, remote
<1>3. CASE job[m].cleanup = None
  <2> DEFINE next == job[m].version + 1
             c == CleanupOf(e, o)
             i == [job[m] EXCEPT !.latest = e, !.cleanup = c]
             j == [i EXCEPT !.version = next]
             v == [worker[w] EXCEPT !.step = "settle", !.version = next]
  <2>1. next \in Nat
    BY <1>1 DEF Job
  <2>2. Save(m, j)
    BY <1>3 DEF BeginSettlement
  <2>3. worker' = [worker EXCEPT ![w] = v]
    BY <1>3 DEF BeginSettlement, IInv, TypeOK, WorkerOK
  <2>4. c \in Cleanup
    BY <1>1 DEF CleanupOf, Cleanup, MaybeEvent
  <2> HIDE DEF next, c
  <2>5. i \in Job /\ i.status = "running" /\ i.latest = e /\ i.cleanup = c
    BY <1>1, <2>4 DEF Job, MaybeEvent
  <2> HIDE DEF i
  <2>6. j \in Job /\ j.status = "running" /\ j.latest = e /\ j.cleanup = c
    BY <2>1, <2>5 DEF Job
  <2>7. /\ v \in WorkerState /\ v.step = "settle" /\ v.mr = m /\ v.event = e /\ v.outcome = o
    BY <1>1, <2>1 DEF WorkerState, Step
  <2> HIDE DEF j, v
  <2>8. JobShape(j) /\ WorkerShape(v)
    BY <1>1, <2>4, <2>6, <2>7, NilFacts DEF JobShape, WorkerShape
  <2>9. JobStep(m) /\ job'[m].status = "running" /\ job'[m].cleanup # None
    BY <1>1, <2>2, <2>4, <2>6, <2>8, SaveStep, NilFacts DEF IInv, TypeOK
  <2>10. Rest' /\ WorkerOK'
    BY <1>1, <2>3, <2>7, <2>8, <2>9, WorkerStepKeepsRest DEF BeginSettlement
  <2> QED
    BY <1>2, <2>9, <2>10 DEF IInv, TypeOK, JobStep
<1>4. CASE job[m].cleanup # None
  <2> DEFINE v == [worker[w] EXCEPT !.step = "settle", !.version = 0]
  <2>1. worker' = [worker EXCEPT ![w] = v] /\ UNCHANGED store
    BY <1>4 DEF BeginSettlement, IInv, TypeOK, WorkerOK
  <2>2. /\ v \in WorkerState /\ v.step = "settle" /\ v.mr = m /\ v.event = e /\ v.outcome = o
    BY <1>1 DEF WorkerState, Step
  <2> HIDE DEF v
  <2>3. WorkerShape(v)
    BY <1>1, <2>2, NilFacts DEF WorkerShape
  <2>4. Rest' /\ WorkerOK'
    BY <1>1, <2>1, <2>2, <2>3, QuietWorkerStep DEF BeginSettlement, store
  <2> QED
    BY <1>2, <2>1, <2>4 DEF IInv, TypeOK, StoreOK, store
<1> QED
  BY <1>3, <1>4

\* One round of replacements leaves marks and counts well typed.
LEMMA ReplaceType ==
    ASSUME RemoteOK, StoreOK, NEW shown, NEW failed, NEW applied, NEW gone,
           DOMAIN shown \subseteq Target, applied \subseteq DOMAIN shown,
           \A t \in DOMAIN shown : shown[t] \in Mark,
           Replace(shown, failed, applied, gone)
    PROVE  RemoteOK' /\ faults' \in Nat
<1>1. mark' \in [Target -> Mark]
  BY DEF Replace, RemoteOK, Mark
<1>2. open' \subseteq Target /\ inflight' \subseteq Target
  BY DEF Replace, RemoteOK
<1>3. faults' \in Nat
  BY DEF Replace, StoreOK
<1> QED
  BY <1>1, <1>2, <1>3 DEF RemoteOK

LEMMA ShownType == ASSUME NEW o PROVE Shown(o) \in Mark
BY DEF Shown, Mark

LEMMA UnsettledType ==
    ASSUME NEW e \in Event, NEW failed, NEW gone
    PROVE  Unsettled(e, failed, gone) \in SUBSET Target
BY DEF Unsettled, Event

LEMMA SettleReviewStep ==
    ASSUME IInv, NEW w \in Worker, SettleReview(w)
    PROVE  IInv'
<1> DEFINE e == worker[w].event
<1>1. /\ Busy(w) /\ worker[w].mr \in MR /\ e \in Event /\ worker[w] \in WorkerState
      /\ worker[w].outcome \in Outcome
  BY BusyFacts DEF SettleReview, Busy, IInv, TypeOK, WorkerOK, WorkerShape
<1>2. PICK failed \in SUBSET e.targets :
        \E applied \in SUBSET failed, gone \in SUBSET (e.targets \ failed) :
          /\ Replace([t \in e.targets |-> Shown(worker[w].outcome)], failed, applied, gone)
          /\ worker' = [worker EXCEPT ![w].step = "finish",
                            ![w].event = Reduced(e, Unsettled(e, failed, gone))]
  BY DEF SettleReview
<1>3. PICK applied \in SUBSET failed, gone \in SUBSET (e.targets \ failed) :
          /\ Replace([t \in e.targets |-> Shown(worker[w].outcome)], failed, applied, gone)
          /\ worker' = [worker EXCEPT ![w].step = "finish",
                            ![w].event = Reduced(e, Unsettled(e, failed, gone))]
  BY <1>2
<1> DEFINE shown == [t \in e.targets |-> Shown(worker[w].outcome)]
           left == Reduced(e, Unsettled(e, failed, gone))
           v == [worker[w] EXCEPT !.step = "finish", !.event = left]
<1>4. e.targets \subseteq Target
  BY <1>1 DEF Event
<1>5. RemoteOK' /\ faults' \in Nat
  <2>1. DOMAIN shown \subseteq Target /\ applied \subseteq DOMAIN shown
    BY <1>4
  <2>2. \A t \in DOMAIN shown : shown[t] \in Mark
    BY ShownType
  <2> HIDE DEF shown
  <2>3. Replace(shown, failed, applied, gone)
    BY <1>3 DEF shown
  <2> QED
    BY <2>1, <2>2, <2>3, ReplaceType DEF IInv, TypeOK
<1>6. left \in Event /\ left.kind = e.kind
  BY <1>1, UnsettledType, ReducedType
<1>7. worker' = [worker EXCEPT ![w] = v]
  BY <1>3 DEF IInv, TypeOK, WorkerOK
<1> HIDE DEF left
<1>8. /\ v \in WorkerState /\ v.step = "finish" /\ v.mr = worker[w].mr /\ v.event = left
      /\ v.outcome = worker[w].outcome
  BY <1>1, <1>6 DEF WorkerState, Step, MaybeEvent
<1> HIDE DEF v
<1>9. WorkerShape(v)
  BY <1>1, <1>6, <1>8, NilFacts DEF WorkerShape, Outcome
<1>10. Rest' /\ WorkerOK'
  BY <1>1, <1>6, <1>7, <1>8, <1>9, QuietWorkerStep DEF SettleReview
<1>11. StoreOK'
  BY <1>5 DEF SettleReview, IInv, TypeOK, StoreOK
<1> QED
  BY <1>5, <1>10, <1>11 DEF SettleReview, IInv, TypeOK, PoolOK, SweepOK, CleanerOK, LifeOK,
     RequestsOK, pool, sweep, life

\* A job that ends leaves nothing behind, one that is promoted waits for a worker.
GivesWay(m) ==
    IF job[m].pending = None THEN job'[m] = NoJob
    ELSE /\ job'[m].status = "queued" /\ job'[m].latest = job[m].pending
         /\ job'[m].pending = None /\ job'[m].cleanup = None

LEMMA EndOrPromoteStep ==
    ASSUME IInv, NEW m \in MR, EndOrPromote(m)
    PROVE  /\ JobStep(m) /\ GivesWay(m)
           /\ queue' \in Seq(MR) /\ Len(queue') <= QueueCap /\ overflow' \in Seq(MR)
<1>1. CASE job[m].pending = None
  <2>1. Forget(m) /\ UNCHANGED <<queue, overflow>>
    BY <1>1 DEF EndOrPromote
  <2>2. JobStep(m) /\ GivesWay(m)
    BY <1>1, <2>1, ForgetStep DEF GivesWay, IInv, TypeOK
  <2> QED
    BY <2>1, <2>2 DEF IInv, TypeOK, PoolOK
<1>2. CASE job[m].pending # None
  <2> DEFINE i == [job[m] EXCEPT !.status = "queued", !.latest = job[m].pending, !.pending = None]
             j == [i EXCEPT !.cleanup = None, !.cleanupQueued = FALSE, !.cancelled = FALSE]
  <2>1. job[m] \in Job /\ job[m].pending \in Event
    BY <1>2 DEF IInv, TypeOK, StoreOK, Job, MaybeEvent
  <2>2. Save(m, Promoted(job[m]))
    BY <1>2 DEF EndOrPromote
  <2>3. Promoted(job[m]) = j
    BY DEF Promoted
  <2>4. i \in Job /\ i.status = "queued" /\ i.latest = job[m].pending /\ i.pending = None
    BY <2>1 DEF Job, Status, MaybeEvent
  <2> HIDE DEF i
  <2>5. /\ j \in Job /\ j.status = "queued" /\ j.latest = job[m].pending /\ j.cleanup = None
        /\ j.pending = None
    BY <2>4 DEF Job
  <2> HIDE DEF j
  <2>6. JobShape(j)
    BY <2>1, <2>5, NilFacts DEF JobShape
  <2>7. JobStep(m) /\ GivesWay(m)
    BY <1>2, <2>2, <2>3, <2>5, <2>6, SaveStep DEF IInv, TypeOK, GivesWay
  <2>8. CASE closed
    BY <1>2, <2>7, <2>8 DEF EndOrPromote, IInv, TypeOK, PoolOK
  <2>9. CASE ~closed
    BY <1>2, <2>7, <2>9, PushKeyType DEF EndOrPromote, IInv, TypeOK
  <2> QED
    BY <2>8, <2>9
<1> QED
  BY <1>1, <1>2

LEMMA FinishInterruptedStep ==
    ASSUME IInv, NEW m \in MR, job[m].status = "running", NEW e \in Event, FinishInterrupted(m, e)
    PROVE  /\ JobStep(m) /\ job'[m].pending = job[m].pending
           /\ job'[m].status = IF job[m].cleanup = None THEN "queued" ELSE "cleanup"
           /\ job'[m].cleanup = job[m].cleanup
           /\ job[m].cleanup = None => job'[m].latest = e
           /\ UNCHANGED <<queue, overflow, sweep>>
<1>1. job[m] \in Job /\ JobShape(job[m]) /\ job[m].latest # None
  BY DEF IInv, TypeOK, StoreOK, JobShape
<1>2. CASE job[m].cleanup = None
  <2> DEFINE j == [job[m] EXCEPT !.status = "queued", !.latest = e, !.cancelled = FALSE]
  <2>1. Save(m, j)
    BY <1>2 DEF FinishInterrupted
  <2>2. /\ j \in Job /\ j.status = "queued" /\ j.latest = e /\ j.cleanup = None
        /\ j.pending = job[m].pending
    BY <1>1, <1>2 DEF Job, Status, MaybeEvent
  <2> HIDE DEF j
  <2>3. JobShape(j)
    BY <2>2, NilFacts DEF JobShape
  <2> QED
    BY <1>2, <2>1, <2>2, <2>3, SaveStep DEF FinishInterrupted, IInv, TypeOK
<1>3. CASE job[m].cleanup # None
  <2> DEFINE j == [job[m] EXCEPT !.status = "cleanup", !.cancelled = FALSE]
  <2>1. Save(m, j)
    BY <1>3 DEF FinishInterrupted
  <2>2. /\ j \in Job /\ j.status = "cleanup" /\ j.latest = job[m].latest
        /\ j.cleanup = job[m].cleanup /\ j.pending = job[m].pending
    BY <1>1 DEF Job, Status
  <2> HIDE DEF j
  <2>3. JobShape(j)
    BY <1>1, <1>3, <2>2 DEF JobShape
  <2> QED
    BY <1>3, <2>1, <2>2, <2>3, SaveStep DEF FinishInterrupted, IInv, TypeOK
<1> QED
  BY <1>2, <1>3

LEMMA FinishAbortedStep ==
    ASSUME IInv, NEW m \in MR, job[m].status = "running", job[m].cleanup # None, FinishAborted(m)
    PROVE  /\ JobStep(m) /\ SweepOK' /\ job'[m].status = "cleanup"
           /\ job'[m].pending = job[m].pending /\ UNCHANGED <<queue, overflow>>
<1> DEFINE j == [job[m] EXCEPT !.status = "cleanup", !.cancelled = FALSE]
<1>1. job[m] \in Job /\ JobShape(job[m])
  BY DEF IInv, TypeOK, StoreOK
<1>2. /\ j \in Job /\ j.status = "cleanup" /\ j.latest = job[m].latest
      /\ j.pending = job[m].pending /\ j.cleanup = job[m].cleanup
      /\ j.persisted = job[m].persisted
  BY <1>1 DEF Job, Status
<1>3. QueueDurable(m, j) /\ UNCHANGED <<queue, overflow>>
  BY DEF FinishAborted
<1>4. \/ Save(m, Reserved(j))
      \/ job' = [job EXCEPT ![m] = Reserved(j)] /\ UNCHANGED <<disk, faults>>
  BY DEF FinishAborted
<1> HIDE DEF j
<1>5. JobShape(j) /\ EntryOf(j) = EntryOf(job[m])
  BY <1>1, <1>2 DEF JobShape, EntryOf, Resume
<1>6. /\ Reserved(j) \in Job /\ JobShape(Reserved(j)) /\ Reserved(j).status = "cleanup"
      /\ EntryOf(Reserved(j)) = EntryOf(job[m]) /\ Reserved(j).persisted = job[m].persisted
      /\ Reserved(j).pending = job[m].pending
  BY <1>2, <1>5, ReservedType
<1>7. JobStep(m) /\ job'[m].status = "cleanup" /\ job'[m].pending = job[m].pending
  BY <1>4, <1>6, SaveStep, UnsavedStep DEF IInv, TypeOK
<1>8. SweepOK'
  BY <1>2, <1>3, QueueDurableType DEF IInv, TypeOK
<1> QED
  BY <1>3, <1>7, <1>8

LEMMA FinishUnsettledStep ==
    ASSUME IInv, NEW m \in MR, job[m].status = "running", NEW e \in Event, NEW o \in Outcome,
           FinishUnsettled(m, e, o)
    PROVE  /\ JobStep(m) /\ SweepOK' /\ job'[m].status = "cleanup"
           /\ job'[m].pending = job[m].pending /\ UNCHANGED <<queue, overflow>>
<1> DEFINE c == CleanupOf(e, o)
           next == job[m].version + 1
           i == [job[m] EXCEPT !.status = "cleanup", !.latest = e, !.cancelled = FALSE]
           j == [i EXCEPT !.cleanup = c, !.version = next]
<1>1. job[m] \in Job /\ JobShape(job[m])
  BY DEF IInv, TypeOK, StoreOK
<1>2. next \in Nat
  BY <1>1 DEF Job
<1>3. c \in Cleanup /\ c # None
  BY NilFacts DEF CleanupOf, Cleanup, MaybeEvent
<1>4. Save(m, Reserved(j)) /\ QueueDurable(m, j) /\ UNCHANGED <<queue, overflow>>
  BY DEF FinishUnsettled
<1> HIDE DEF c, next
<1>5. i \in Job /\ i.status = "cleanup" /\ i.latest = e /\ i.pending = job[m].pending
  BY <1>1 DEF Job, Status, MaybeEvent
<1> HIDE DEF i
<1>6. /\ j \in Job /\ j.status = "cleanup" /\ j.latest = e /\ j.cleanup = c
      /\ j.pending = job[m].pending
  BY <1>2, <1>3, <1>5 DEF Job
<1> HIDE DEF j
<1>7. JobShape(j)
  BY <1>3, <1>6, NilFacts DEF JobShape
<1>8. /\ Reserved(j) \in Job /\ JobShape(Reserved(j)) /\ Reserved(j).status = "cleanup"
      /\ Reserved(j).pending = job[m].pending
  BY <1>6, <1>7, ReservedType
<1>9. JobStep(m) /\ job'[m].status = "cleanup" /\ job'[m].pending = job[m].pending
  BY <1>4, <1>8, SaveStep DEF IInv, TypeOK
<1>10. SweepOK'
  BY <1>3, <1>4, <1>6, QueueDurableType DEF IInv, TypeOK
<1> QED
  BY <1>4, <1>9, <1>10

LEMMA FinishStep ==
    ASSUME IInv, NEW w \in Worker, Finish(w)
    PROVE  IInv'
<1> DEFINE m == worker[w].mr
           e == worker[w].event
           o == worker[w].outcome
<1>1. /\ Busy(w) /\ m \in MR /\ e \in Event /\ job[m].status = "running"
      /\ o \in Outcome \cup {"interrupted"}
  BY BusyFacts DEF Finish, Busy, IInv, TypeOK, WorkerOK, WorkerShape, WorkerState
<1>2. Serving /\ alive /\ toLoad = {}
  BY <1>1, BusyFacts, ServingFacts
<1>3. /\ JobStep(m) /\ SweepOK'
      /\ queue' \in Seq(MR) /\ Len(queue') <= QueueCap /\ overflow' \in Seq(MR)
  <2>1. PoolOK /\ SweepOK
    BY DEF IInv, TypeOK
  <2>2. CASE o = "interrupted" /\ FinishInterrupted(m, e)
    BY <1>1, <2>1, <2>2, FinishInterruptedStep DEF PoolOK, SweepOK, sweep
  <2>3. CASE o # "interrupted" /\ Preempted(w) /\ FinishAborted(m)
    BY <1>1, <2>1, <2>3, FinishAbortedStep DEF PoolOK, Preempted
  <2>4. CASE o # "interrupted" /\ FinishUnsettled(m, e, o)
    BY <1>1, <2>1, <2>4, FinishUnsettledStep DEF PoolOK
  <2>5. CASE EndOrPromote(m) /\ UNCHANGED sweep
    BY <1>1, <2>1, <2>5, EndOrPromoteStep DEF SweepOK, sweep
  <2> QED
    BY <2>2, <2>3, <2>4, <2>5 DEF Finish
<1>4. worker' = [worker EXCEPT ![w] = IdleWorker] /\ running' = running - 1
  BY DEF Finish
<1>5. ~Busy(w)' /\ \A u \in Worker \ {w} : worker'[u] = worker[u]
  BY <1>4 DEF IdleWorker, Busy, IInv, TypeOK, WorkerOK
<1>6. \A u \in Worker : Busy(u)' => /\ Busy(u) /\ worker'[u].mr = worker[u].mr
                                    /\ worker'[u].event.kind = worker[u].event.kind
                                    /\ worker'[u].mr # m
  BY <1>1, <1>5 DEF Busy, IInv, Rest, Exclusive
<1>7. Rest'
  BY <1>1, <1>2, <1>3, <1>6, JobStepKeepsRest DEF Finish
<1>8. WorkerOK'
  <2>1. IdleWorker \in WorkerState /\ WorkerShape(IdleWorker)
    BY DEF IdleWorker, WorkerState, WorkerShape, Step, MaybeEvent
  <2> QED
    BY <1>4, <1>5, <2>1 DEF IInv, TypeOK, WorkerOK
<1>9. PoolOK'
  BY <1>3, <1>4 DEF IInv, TypeOK, PoolOK
<1> QED
  BY <1>3, <1>7, <1>8, <1>9 DEF Finish, IInv, TypeOK, JobStep, CleanerOK, LifeOK, RemoteOK,
     RequestsOK, life, remote

-----------------------------------------------------------------------------
(* Cleanup workers.                                                        *)

\* A cleaner that holds work is awake, and its work is well formed.
LEMMA HeldFacts ==
    ASSUME IInv, NEW c \in Cleaner, cleaner[c].step # "idle"
    PROVE  /\ alive /\ cleaner[c] \in CleanerState /\ cleaner[c].work \in Work
           /\ cleaner[c].work.event \in Event /\ cleaner[c].work.aborted \in MaybeEvent
           /\ cleaner[c].work.mr \in MR /\ cleaner[c].work.outcome \in Outcome
<1>1. alive
  BY DEF IInv, Rest, Asleep
<1>2. cleaner[c] \in CleanerState /\ cleaner[c].work # None
  BY DEF IInv, TypeOK, CleanerOK
<1>3. cleaner[c].work \in Work
  BY <1>2 DEF CleanerState
<1> QED
  BY <1>1, <1>2, <1>3 DEF Work

LEMMA IdleCleanerType ==
    ASSUME CleanerOK, NEW c \in Cleaner, cleaner' = [cleaner EXCEPT ![c] = IdleCleaner]
    PROVE  CleanerOK'
<1>1. IdleCleaner \in CleanerState /\ IdleCleaner.step = "idle"
  BY DEF IdleCleaner, CleanerState
<1> QED
  BY <1>1 DEF CleanerOK

LEMMA CleanerTakeStep ==
    ASSUME IInv, NEW c \in Cleaner, CleanerTake(c)
    PROVE  IInv'
<1>1. PICK k \in cleanupQueue :
        /\ cleaner' = [cleaner EXCEPT ![c] = [step |-> "held", work |-> k]]
        /\ DrainWaiting(cleanupQueue \ {k})
  BY DEF CleanerTake
<1>2. k \in Work /\ cleanupQueue \subseteq Work /\ waiting \subseteq MR
  BY DEF IInv, TypeOK, SweepOK
<1>3. CleanerOK'
  BY <1>1, <1>2, NilFacts DEF IInv, TypeOK, CleanerOK, CleanerState
<1>4. Promotable \subseteq MR
  BY <1>2 DEF Promotable
<1>5. \A m \in Promotable : DurableWork(m, job[m]) \in Work
  BY <1>4, DurableWorkType DEF Promotable, IInv, TypeOK, StoreOK
<1>6. cleanupQueue' \subseteq Work /\ waiting' \subseteq MR
  <2>1. CASE closed
    BY <1>1, <1>2, <2>1 DEF DrainWaiting
  <2>2. CASE ~closed
    <3>1. PICK moved \in SUBSET Promotable :
            /\ cleanupQueue' = (cleanupQueue \ {k}) \cup {DurableWork(m, job[m]) : m \in moved}
            /\ waiting' = Promotable \ moved
      BY <1>1, <2>2 DEF DrainWaiting
    <3> QED
      BY <1>2, <1>4, <1>5, <3>1
  <2> QED
    BY <2>1, <2>2
<1>7. Rest'
  BY OtherStepKeepsRest DEF CleanerTake, Busy, store
<1> QED
  BY <1>3, <1>6, <1>7 DEF CleanerTake, IInv, TypeOK, StoreOK, PoolOK, WorkerOK, WorkerShape,
     SweepOK, LifeOK, RemoteOK, RequestsOK, store, pool, life, remote

LEMMA CleanerSettleStep ==
    ASSUME IInv, NEW c \in Cleaner, CleanerSettle(c)
    PROVE  IInv'
<1> DEFINE k == cleaner[c].work
           shown == Attempt(k)
           Left(e, failed, gone) == Reduced(e, Unsettled(e, failed, gone))
<1>1. /\ alive /\ k \in Work /\ k.event \in Event /\ k.aborted \in MaybeEvent
      /\ cleaner[c] \in CleanerState
  BY HeldFacts DEF CleanerSettle
<1>2. PICK failed \in SUBSET (DOMAIN shown) :
        \E applied \in SUBSET failed, gone \in SUBSET (DOMAIN shown \ failed) :
          /\ Replace(shown, failed, applied, gone)
          /\ cleaner' = [cleaner EXCEPT ![c] = [step |-> "settled", work |->
                [k EXCEPT !.event = Left(@, failed, gone),
                          !.aborted = IF @ = None THEN None ELSE Left(@, failed, gone)]]]
  BY DEF CleanerSettle
<1>3. PICK applied \in SUBSET failed, gone \in SUBSET (DOMAIN shown \ failed) :
          /\ Replace(shown, failed, applied, gone)
          /\ cleaner' = [cleaner EXCEPT ![c] = [step |-> "settled", work |->
                [k EXCEPT !.event = Left(@, failed, gone),
                          !.aborted = IF @ = None THEN None ELSE Left(@, failed, gone)]]]
  BY <1>2
<1>4. RemoteOK' /\ faults' \in Nat
  <2>1. DOMAIN shown \subseteq Target /\ \A t \in DOMAIN shown : shown[t] \in Mark
    BY <1>1, ShownType DEF Attempt, MaybeTargets, MaybeEvent, Event, Mark
  <2>2. applied \subseteq DOMAIN shown
    OBVIOUS
  <2> HIDE DEF shown
  <2> QED
    BY <1>3, <2>1, <2>2, ReplaceType DEF IInv, TypeOK
<1>5. ASSUME NEW e \in Event PROVE Left(e, failed, gone) \in Event
  BY UnsettledType, ReducedType
<1> HIDE DEF Left, shown
<1> DEFINE event == Left(k.event, failed, gone)
           aborted == IF k.aborted = None THEN None ELSE Left(k.aborted, failed, gone)
           v == [step |-> "settled", work |-> [k EXCEPT !.event = event, !.aborted = aborted]]
<1>6. event \in Event /\ aborted \in MaybeEvent
  BY <1>1, <1>5 DEF MaybeEvent
<1>7. cleaner' = [cleaner EXCEPT ![c] = v]
  BY <1>1, <1>3 DEF Work
<1> HIDE DEF event, aborted
<1>8. v \in CleanerState /\ v.work # None
  BY <1>1, <1>6, NilFacts DEF CleanerState, Work
<1> HIDE DEF v
<1>9. CleanerOK'
  BY <1>7, <1>8 DEF IInv, TypeOK, CleanerOK
<1>10. Rest'
  BY <1>1, OtherStepKeepsRest DEF CleanerSettle, Busy
<1>11. StoreOK'
  BY <1>4 DEF CleanerSettle, IInv, TypeOK, StoreOK
<1> QED
  BY <1>4, <1>9, <1>10, <1>11 DEF CleanerSettle, IInv, TypeOK, PoolOK, WorkerOK, WorkerShape,
     SweepOK, LifeOK, RequestsOK, pool, sweep, life

LEMMA WorkTargetsType ==
    ASSUME NEW k \in Work
    PROVE  WorkTargets(k) \subseteq Target
BY DEF WorkTargets, Work, MaybeTargets, MaybeEvent, Event

LEMMA CleanerCancelledStep ==
    ASSUME IInv, NEW c \in Cleaner, CleanerCancelled(c)
    PROVE  IInv'
<1>1. alive /\ cleaner[c] \in CleanerState /\ cleaner[c].work \in Work
  BY HeldFacts DEF CleanerCancelled
<1>2. CleanerOK' /\ fallback' \subseteq Target
  <2>1. CASE cleaner[c].work.durable
    <3> DEFINE v == [cleaner[c] EXCEPT !.step = "settled"]
    <3>1. cleaner' = [cleaner EXCEPT ![c] = v] /\ UNCHANGED fallback
      BY <2>1 DEF CleanerCancelled, IInv, TypeOK, CleanerOK
    <3>2. v \in CleanerState /\ v.work # None
      BY <1>1, NilFacts DEF CleanerState
    <3> HIDE DEF v
    <3> QED
      BY <3>1, <3>2 DEF IInv, TypeOK, CleanerOK, RequestsOK
  <2>2. CASE ~cleaner[c].work.durable
    BY <1>1, <2>2, IdleCleanerType, WorkTargetsType DEF CleanerCancelled, IInv, TypeOK, RequestsOK
  <2> QED
    BY <2>1, <2>2
<1>3. Rest'
  BY <1>1, OtherStepKeepsRest DEF CleanerCancelled, Busy, store
<1> QED
  BY <1>2, <1>3 DEF CleanerCancelled, IInv, TypeOK, StoreOK, PoolOK, WorkerOK, WorkerShape,
     SweepOK, LifeOK, RemoteOK, RequestsOK, store, pool, sweep, life, remote

\* A job in cleanup is restored and nobody reviews it.
LEMMA CleanupStepKeepsRest ==
    ASSUME IInv, NEW m \in MR, job[m].status = "cleanup", JobStep(m), alive,
           UNCHANGED <<worker, life, handler>>
    PROVE  Rest'
<1>1. m \notin toLoad
  BY DEF IInv, Rest, Loading, NoJob
<1>2. \A w \in Worker : Busy(w) => worker[w].mr # m
  BY BusyFacts
<1>3. \A w \in Worker : Busy(w)' => Busy(w) /\ worker'[w] = worker[w]
  BY DEF Busy
<1> QED
  BY <1>1, <1>2, <1>3, JobStepKeepsRest

\* Giving a reservation back, and taking a new one.
LEMMA ReservationType ==
    ASSUME NEW j \in Job, JobShape(j), j.status # "none"
    PROVE  LET r == Reserved([j EXCEPT !.cleanupQueued = FALSE])
           IN  /\ r \in Job /\ JobShape(r) /\ r.status = j.status /\ r.latest = j.latest
               /\ r.pending = j.pending /\ r.cleanup = j.cleanup
               /\ r.persisted = j.persisted /\ EntryOf(r) = EntryOf(j)
<1> DEFINE i == [j EXCEPT !.cleanupQueued = FALSE]
<1>1. /\ i \in Job /\ i.status = j.status /\ i.latest = j.latest /\ i.pending = j.pending
      /\ i.cleanup = j.cleanup /\ i.persisted = j.persisted
  BY DEF Job
<1> HIDE DEF i
<1>2. JobShape(i) /\ EntryOf(i) = EntryOf(j)
  BY <1>1 DEF JobShape, EntryOf, Resume
<1>3. /\ Reserved(i) \in Job /\ JobShape(Reserved(i)) /\ Reserved(i).status = j.status
      /\ Reserved(i).latest = j.latest /\ Reserved(i).pending = j.pending
      /\ Reserved(i).cleanup = j.cleanup /\ Reserved(i).persisted = j.persisted
      /\ EntryOf(Reserved(i)) = EntryOf(j)
  BY <1>1, <1>2, ReservedType
<1> QED
  BY <1>3 DEF i

\* The job stays in cleanup with what is pending behind it.
KeepsCleanup(m) == job'[m].status = "cleanup" /\ job'[m].pending = job[m].pending

LEMMA RequeueStep ==
    ASSUME IInv, NEW m \in MR, job[m].status = "cleanup", UNCHANGED <<disk, faults>>,
           Requeue(m, [job[m] EXCEPT !.cleanupQueued = FALSE])
    PROVE  JobStep(m) /\ SweepOK' /\ KeepsCleanup(m)
<1> DEFINE i == [job[m] EXCEPT !.cleanupQueued = FALSE]
           r == Reserved(i)
<1>1. job[m] \in Job /\ JobShape(job[m]) /\ job[m].cleanup # None
  BY DEF IInv, TypeOK, StoreOK, JobShape
<1>2. job' = [job EXCEPT ![m] = r] /\ QueueDurable(m, i)
  BY DEF Requeue
<1>3. i \in Job /\ i.cleanup # None
  BY <1>1 DEF Job
<1>4. /\ r \in Job /\ JobShape(r) /\ r.status = "cleanup" /\ EntryOf(r) = EntryOf(job[m])
      /\ r.persisted = job[m].persisted /\ r.pending = job[m].pending
  BY <1>1, ReservationType
<1> HIDE DEF r
<1>5. JobStep(m) /\ KeepsCleanup(m)
  BY <1>2, <1>4, UnsavedStep DEF IInv, TypeOK, KeepsCleanup
<1> HIDE DEF i
<1>6. SweepOK'
  BY <1>2, <1>3, QueueDurableType DEF IInv, TypeOK
<1> QED
  BY <1>5, <1>6

\* What completing a cleanup attempt may do to the job and the queue.
Completed(m) ==
    \/ UNCHANGED <<job, disk, queue, overflow>>
    \/ /\ JobStep(m) /\ job[m].status = "cleanup"
       /\ \/ KeepsCleanup(m) /\ UNCHANGED <<queue, overflow>>
          \/ GivesWay(m) /\ EndOrPromote(m)

LEMMA CompleteDurableStep ==
    ASSUME IInv, NEW k \in Work, CompleteDurable(k), alive, UNCHANGED <<worker, life, handler>>
    PROVE  /\ Rest' /\ StoreOK' /\ SweepOK' /\ Completed(k.mr)
           /\ queue' \in Seq(MR) /\ Len(queue') <= QueueCap /\ overflow' \in Seq(MR)
<1> DEFINE m == k.mr
           j == [job[m] EXCEPT !.cleanupQueued = FALSE]
           rest == [event |-> k.event, outcome |-> k.outcome, aborted |-> k.aborted]
           left == [j EXCEPT !.cleanup = rest, !.latest = k.event]
<1>1. m \in MR /\ job[m] \in Job /\ JobShape(job[m]) /\ k.event \in Event
  BY DEF Work, IInv, TypeOK, StoreOK
<1>2. /\ j \in Job /\ j.status = job[m].status /\ j.cleanup = job[m].cleanup
      /\ j.pending = job[m].pending
  BY <1>1 DEF Job
<1>3. rest \in Cleanup
  BY DEF Work, Cleanup
<1>4. CASE UNCHANGED <<store, sweep, queue, overflow>>
  <2>1. Rest'
    BY <1>4, OtherStepKeepsRest DEF Busy, store
  <2> QED
    BY <1>4, <2>1 DEF IInv, TypeOK, StoreOK, SweepOK, PoolOK, store, sweep, Completed
<1>5. CASE /\ j.status = "cleanup" /\ Requeue(m, j)
           /\ UNCHANGED <<disk, faults, queue, overflow>>
  <2>1. JobStep(m) /\ SweepOK' /\ KeepsCleanup(m)
    BY <1>1, <1>2, <1>5, RequeueStep
  <2> QED
    BY <1>1, <1>2, <1>5, <2>1, CleanupStepKeepsRest
    DEF JobStep, IInv, TypeOK, PoolOK, Completed
<1>6. CASE /\ j.status = "cleanup" /\ Save(m, Reserved(left)) /\ QueueDurable(m, left)
           /\ UNCHANGED <<queue, overflow>>
  <2> HIDE DEF j, rest
  <2>1. /\ left \in Job /\ left.status = j.status /\ left.cleanup = rest
        /\ left.latest = k.event /\ left.pending = j.pending
    BY <1>1, <1>2, <1>3 DEF Job, MaybeEvent
  <2>2. Save(m, Reserved(left)) /\ QueueDurable(m, left)
    BY <1>6
  <2> HIDE DEF left
  <2>3. JobShape(left)
    BY <1>1, <1>3, <1>6, <2>1, NilFacts DEF JobShape
  <2>4. /\ Reserved(left) \in Job /\ JobShape(Reserved(left))
        /\ Reserved(left).status = "cleanup" /\ Reserved(left).pending = job[m].pending
    BY <1>2, <1>6, <2>1, <2>3, ReservedType
  <2>5. JobStep(m) /\ KeepsCleanup(m)
    BY <1>1, <2>2, <2>4, SaveStep DEF IInv, TypeOK, KeepsCleanup
  <2>6. SweepOK'
    BY <1>1, <1>3, <2>1, <2>2, NilFacts, QueueDurableType DEF IInv, TypeOK
  <2> QED
    BY <1>1, <1>2, <1>6, <2>5, <2>6, CleanupStepKeepsRest
    DEF JobStep, IInv, TypeOK, PoolOK, Completed
<1>7. CASE j.status = "cleanup" /\ EndOrPromote(m) /\ UNCHANGED sweep
  <2>1. /\ JobStep(m) /\ GivesWay(m)
        /\ queue' \in Seq(MR) /\ Len(queue') <= QueueCap /\ overflow' \in Seq(MR)
    BY <1>1, <1>7, EndOrPromoteStep
  <2> QED
    BY <1>1, <1>2, <1>7, <2>1, CleanupStepKeepsRest
    DEF JobStep, IInv, TypeOK, SweepOK, sweep, Completed
<1> QED
  BY <1>4, <1>5, <1>6, <1>7 DEF CompleteDurable

LEMMA CleanerCompleteStep ==
    ASSUME IInv, NEW c \in Cleaner, CleanerComplete(c)
    PROVE  IInv'
<1> DEFINE k == cleaner[c].work
<1>1. alive /\ k \in Work
  BY HeldFacts DEF CleanerComplete
<1>2. /\ Rest' /\ StoreOK' /\ SweepOK'
      /\ queue' \in Seq(MR) /\ Len(queue') <= QueueCap /\ overflow' \in Seq(MR)
      /\ fallback' \subseteq Target /\ dropped' \subseteq Target
  <2>1. CASE k.durable
    BY <1>1, <2>1, CompleteDurableStep DEF CleanerComplete, IInv, TypeOK, RequestsOK
  <2>2. CASE ~k.durable
    <3>1. UNCHANGED <<store, sweep, queue, overflow>>
      BY <2>2 DEF CleanerComplete
    <3>2. Rest'
      BY <1>1, <3>1, OtherStepKeepsRest DEF CleanerComplete, Busy, store
    <3>3. fallback' \subseteq Target /\ dropped' \subseteq Target
      BY <1>1, <2>2, WorkTargetsType DEF CleanerComplete, IInv, TypeOK, RequestsOK
    <3> QED
      BY <3>1, <3>2, <3>3 DEF IInv, TypeOK, StoreOK, SweepOK, PoolOK, store, sweep
  <2> QED
    BY <2>1, <2>2
<1>3. CleanerOK'
  BY IdleCleanerType DEF CleanerComplete, IInv, TypeOK
<1> QED
  BY <1>2, <1>3 DEF CleanerComplete, IInv, TypeOK, PoolOK, WorkerOK, WorkerShape, LifeOK,
     RemoteOK, RequestsOK, life, remote

LEMMA TimerFiresStep ==
    ASSUME IInv, NEW m \in MR, TimerFires(m)
    PROVE  IInv'
<1> DEFINE j == [job[m] EXCEPT !.cleanupQueued = FALSE]
           r == Reserved(j)
<1>1. job[m] \in Job /\ JobShape(job[m]) /\ alive
  BY DEF TimerFires, IInv, TypeOK, StoreOK
<1>2. j \in Job /\ j.status = job[m].status /\ j.cleanup = job[m].cleanup
  BY <1>1 DEF Job
<1>3. PoolOK' /\ WorkerOK' /\ CleanerOK' /\ LifeOK' /\ RemoteOK' /\ RequestsOK'
  BY DEF TimerFires, IInv, TypeOK, PoolOK, WorkerOK, WorkerShape, CleanerOK, LifeOK, RemoteOK,
     RequestsOK, pool, life, remote
<1>4. CASE UNCHANGED <<job, cleanupQueue, waiting>>
  <2>1. Rest'
    BY <1>1, <1>4, OtherStepKeepsRest DEF TimerFires, Busy
  <2> QED
    BY <1>3, <1>4, <2>1 DEF TimerFires, IInv, TypeOK, StoreOK, SweepOK
<1>5. CASE /\ j.status = "cleanup" /\ j.cleanup # None
           /\ job' = [job EXCEPT ![m] = r]
           /\ IF closed THEN UNCHANGED <<cleanupQueue, waiting>> ELSE Enlist(m, j)
  <2>1. /\ r \in Job /\ JobShape(r) /\ r.status # "none" /\ EntryOf(r) = EntryOf(job[m])
        /\ r.persisted = job[m].persisted
    BY <1>1, <1>2, <1>5, ReservationType
  <2>2. cleanupQueue' \subseteq Work /\ waiting' \subseteq MR
    BY <1>2, <1>5, EnlistType DEF IInv, TypeOK, SweepOK
  <2>3. UNCHANGED <<disk, faults>> /\ delayed' \subseteq MR
    BY DEF TimerFires, IInv, TypeOK, SweepOK
  <2> HIDE DEF r
  <2>4. JobStep(m)
    BY <1>1, <1>2, <1>5, <2>1, <2>3, UnsavedStep DEF IInv, TypeOK
  <2>5. Rest'
    BY <1>1, <1>2, <1>5, <2>4, CleanupStepKeepsRest DEF TimerFires
  <2> QED
    BY <1>3, <2>2, <2>3, <2>4, <2>5 DEF IInv, TypeOK, SweepOK, JobStep
<1> QED
  BY <1>4, <1>5 DEF TimerFires

-----------------------------------------------------------------------------
(* GitLab and the life of the daemon.                                      *)

LEMMA LateCommitStep ==
    ASSUME IInv, NEW t \in Target, LateCommit(t) \/ WindowEnds(t)
    PROVE  IInv'
<1>1. RemoteOK'
  BY DEF LateCommit, WindowEnds, IInv, TypeOK, RemoteOK, Mark
<1>2. UNCHANGED <<store, pool, worker, sweep, cleaner, fallback, life, handler, used, dropped>>
  BY DEF LateCommit, WindowEnds
<1>3. Rest'
  BY <1>2 DEF IInv, Rest, Assigned, Exclusive, SameKind, Loading, Asleep, JournalCoherent, Busy,
     Serving, alive, Known, Coherent, store, life
<1> QED
  BY <1>1, <1>2, <1>3 DEF IInv, TypeOK, StoreOK, PoolOK, WorkerOK, WorkerShape, SweepOK, CleanerOK,
     LifeOK, RequestsOK, store, pool, sweep, life

\* Restoring an entry gives back the job whose entry it is.
LEMMA RestoreJobStep ==
    ASSUME IInv, NEW m \in MR, RestoreJob(m)
    PROVE  IInv'
<1> DEFINE e == disk[m]
           queued == [NoJob EXCEPT !.status = "queued", !.latest = e.event, !.persisted = TRUE]
           c == [event |-> e.event, outcome |-> e.outcome, aborted |-> e.aborted]
           settling == [NoJob EXCEPT !.status = "cleanup", !.latest = e.event,
                         !.pending = e.pending, !.version = 1, !.persisted = TRUE,
                         !.cleanup = c]
<1>1. /\ phase = "restoring" /\ e \in Entry /\ EntryShape(e) /\ job[m] = NoJob
      /\ toLoad' = toLoad \ {m}
  BY DEF RestoreJob, IInv, Rest, Loading, TypeOK, StoreOK
<1>2. /\ e.event \in Event /\ e.pending \in MaybeEvent /\ e.aborted \in MaybeEvent
      /\ e = [event |-> e.event, outcome |-> e.outcome, aborted |-> e.aborted,
              pending |-> e.pending]
  BY <1>1 DEF Entry
<1>3. ASSUME NEW j \in Job, JobShape(j), j.status # "none", j.persisted, EntryOf(j) = e,
             job' = [job EXCEPT ![m] = j]
      PROVE  StoreOK' /\ Rest'
  <2>1. /\ job'[m] = j /\ UNCHANGED <<disk, faults, worker, phase, handler, cleaner>>
        /\ \A n \in MR \ {m} : job'[n] = job[n]
    BY <1>3 DEF RestoreJob, IInv, TypeOK, StoreOK
  <2>2. StoreOK'
    BY <1>3, <2>1 DEF IInv, TypeOK, StoreOK
  <2>3. \A w \in Worker : ~Busy(w) /\ ~Busy(w)'
    BY <1>1, <2>1 DEF IInv, Rest, Asleep, Serving, Busy
  <2>4. Assigned' /\ Exclusive' /\ SameKind'
    BY <2>3 DEF Assigned, Exclusive, SameKind
  <2>5. Loading'
    BY <1>1, <2>1 DEF IInv, Rest, Loading, TypeOK, LifeOK
  <2>6. Asleep'
    BY <1>1, <2>1, <2>3 DEF IInv, Rest, Asleep, Serving, alive
  <2>7. JournalCoherent'
    BY <1>1, <1>3, <2>1 DEF IInv, Rest, JournalCoherent, Known, alive, Coherent
  <2> QED
    BY <2>2, <2>4, <2>5, <2>6, <2>7 DEF Rest
<1>4. WorkerOK' /\ CleanerOK' /\ LifeOK' /\ RemoteOK' /\ RequestsOK'
  BY DEF RestoreJob, IInv, TypeOK, WorkerOK, WorkerShape, CleanerOK, LifeOK, RemoteOK, RequestsOK,
     remote
<1>5. CASE e.outcome = "none"
  <2>1. job' = [job EXCEPT ![m] = queued] /\ PushKey(m) /\ UNCHANGED sweep
    BY <1>5 DEF RestoreJob
  <2>2. /\ queued \in Job /\ queued.status = "queued" /\ queued.latest = e.event
        /\ queued.pending = None /\ queued.cleanup = None /\ queued.persisted
    BY <1>2, NoJobType DEF Job, Status, MaybeEvent
  <2> HIDE DEF queued
  <2>3. JobShape(queued) /\ queued.status # "none"
    BY <1>2, <2>2, NilFacts DEF JobShape
  <2>4. e.aborted = None /\ e.pending = None
    BY <1>1, <1>5 DEF EntryShape
  <2>5. EntryOf(queued) = e
    BY <1>2, <1>5, <2>2, <2>4 DEF EntryOf, Resume
  <2>6. StoreOK' /\ Rest'
    BY <1>3, <2>1, <2>2, <2>3, <2>5
  <2>7. PoolOK' /\ SweepOK'
    BY <2>1, PushKeyType DEF RestoreJob, IInv, TypeOK, PoolOK, SweepOK, sweep
  <2> QED
    BY <1>4, <2>6, <2>7 DEF IInv, TypeOK
<1>6. CASE e.outcome # "none"
  <2>1. /\ job' = [job EXCEPT ![m] = Reserved(settling)] /\ QueueDurable(m, settling)
        /\ UNCHANGED <<queue, overflow>>
    BY <1>6 DEF RestoreJob
  <2>2. c \in Cleanup /\ c # None
    BY <1>1, <1>2, <1>6, NilFacts DEF Entry, Cleanup
  <2> DEFINE i == [NoJob EXCEPT !.status = "cleanup", !.latest = e.event,
                                !.pending = e.pending]
  <2>3. c.event = e.event /\ c.outcome = e.outcome /\ c.aborted = e.aborted
        /\ settling = [i EXCEPT !.version = 1, !.persisted = TRUE, !.cleanup = c]
    OBVIOUS
  <2>4. /\ i \in Job /\ i.status = "cleanup" /\ i.latest = e.event /\ i.pending = e.pending
    BY <1>2, NoJobType DEF Job, Status, MaybeEvent
  <2> HIDE DEF settling, c, i
  <2>5. /\ settling \in Job /\ settling.status = "cleanup" /\ settling.persisted
        /\ settling.latest = e.event /\ settling.pending = e.pending
        /\ settling.cleanup = c /\ JobShape(settling)
    <3>1. /\ settling \in Job /\ settling.status = "cleanup" /\ settling.persisted
          /\ settling.latest = e.event /\ settling.pending = e.pending
          /\ settling.cleanup = c
      BY <2>2, <2>3, <2>4 DEF Job
    <3> QED
      BY <1>2, <2>2, <3>1, NilFacts DEF JobShape
  <2>6. EntryOf(settling) = e
    BY <1>2, <2>2, <2>3, <2>5 DEF EntryOf
  <2>7. /\ Reserved(settling) \in Job /\ JobShape(Reserved(settling))
        /\ Reserved(settling).status # "none" /\ Reserved(settling).persisted
        /\ EntryOf(Reserved(settling)) = e
    BY <2>5, <2>6, ReservedType
  <2>8. StoreOK' /\ Rest'
    BY <1>3, <2>1, <2>7
  <2>9. PoolOK' /\ SweepOK'
    BY <2>1, <2>2, <2>5, QueueDurableType DEF RestoreJob, IInv, TypeOK, PoolOK
  <2> QED
    BY <1>4, <2>8, <2>9 DEF IInv, TypeOK
<1> QED
  BY <1>5, <1>6

LEMMA EntryTargetsType ==
    ASSUME NEW e \in Entry
    PROVE  EntryTargets(e) \subseteq Target
BY DEF Entry, EntryTargets, MaybeTargets, MaybeEvent, Event

\* An entry that is dropped leaves neither a job nor a file.
LEMMA DropEntryStep ==
    ASSUME IInv, NEW m \in MR, DropEntry(m)
    PROVE  IInv'
<1>1. /\ phase = "restoring" /\ disk[m] \in Entry /\ job[m] = NoJob
      /\ toLoad' = toLoad \ {m} /\ dropped' = dropped \cup EntryTargets(disk[m])
      /\ UNCHANGED <<pool, sweep, worker, cleaner, fallback, phase, jobCancelled,
                     cleanupCancelled, remote, handler>>
  BY DEF DropEntry, IInv, Rest, Loading, TypeOK, StoreOK
<1>2. JobStep(m) /\ Coherent(m)' /\ job'[m] = NoJob
  BY ForgetStep DEF DropEntry, IInv, TypeOK
<1>3. /\ \A n \in MR \ {m} : job'[n] = job[n] /\ disk'[n] = disk[n]
      /\ \A n \in MR : job'[n] = job[n]
  BY <1>1, <1>2 DEF JobStep
<1>4. used' \in [EnvEvent -> Nat] /\ dropped' \subseteq Target
  BY <1>1, UseType, EntryTargetsType DEF DropEntry, EnvEvent, IInv, TypeOK, RequestsOK
<1>5. TypeOK'
  BY <1>1, <1>2, <1>4 DEF JobStep, IInv, TypeOK, PoolOK, WorkerOK, WorkerShape, SweepOK, CleanerOK,
     LifeOK, RemoteOK, RequestsOK, pool, sweep, remote
<1>6. \A w \in Worker : ~Busy(w) /\ ~Busy(w)'
  BY <1>1 DEF IInv, Rest, Asleep, Serving, Busy
<1>7. Assigned' /\ Exclusive' /\ SameKind'
  BY <1>6 DEF Assigned, Exclusive, SameKind
<1>8. Loading'
  BY <1>1, <1>3 DEF IInv, Rest, Loading, TypeOK, LifeOK
<1>9. Asleep'
  BY <1>1, <1>3, <1>6 DEF IInv, Rest, Asleep, Serving, alive
<1>10. JournalCoherent'
  BY <1>1, <1>2, <1>3 DEF IInv, Rest, JournalCoherent, Known, alive, Coherent
<1> QED
  BY <1>5, <1>7, <1>8, <1>9, <1>10 DEF IInv, Rest

\* A step that only moves the daemon along its life keeps jobs, files and workers.
LEMMA PhaseStep ==
    ASSUME IInv, UNCHANGED <<store, pool, worker, cleaner, remote, handler, dropped>>,
           SweepOK', LifeOK', used' \in [EnvEvent -> Nat], fallback' \subseteq Target,
           alive, alive', toLoad = {}, toLoad' = {},
           ~Serving' => \A n \in Note : handler[n] \notin {"acked", "unsure"},
           ~Serving' \/ phase' = "settling" => \A w \in Worker : ~Busy(w)
    PROVE  IInv'
<1>1. TypeOK'
  BY DEF IInv, TypeOK, StoreOK, PoolOK, WorkerOK, WorkerShape, CleanerOK, RemoteOK, RequestsOK,
     store, pool, remote
<1>2. Assigned' /\ Exclusive' /\ SameKind' /\ Loading'
  BY DEF IInv, Rest, Assigned, Exclusive, SameKind, Loading, Busy, store
<1>3. Asleep'
  BY DEF Asleep, Busy
<1>4. JournalCoherent'
  BY DEF IInv, Rest, JournalCoherent, Known, Coherent, store
<1> QED
  BY <1>1, <1>2, <1>3, <1>4 DEF IInv, Rest

LEMMA PhaseSteps ==
    ASSUME IInv, \/ Serve \/ Stop \/ CloseIntake \/ GraceExpires \/ StopCleanup
                 \/ CleanupGraceExpires
    PROVE  IInv'
<1>1. alive /\ alive' /\ toLoad = {} /\ toLoad' = {}
  BY DEF Serve, Stop, CloseIntake, GraceExpires, StopCleanup, CleanupGraceExpires, alive, Quiet,
     IInv, Rest, Loading
<1>2. UNCHANGED <<store, pool, worker, cleaner, remote, handler, dropped>>
  BY DEF Serve, Stop, CloseIntake, GraceExpires, StopCleanup, CleanupGraceExpires, Quiet
<1>3. LifeOK'
  BY DEF Serve, Stop, CloseIntake, GraceExpires, StopCleanup, CleanupGraceExpires, Quiet,
     IInv, TypeOK, LifeOK, Phase
<1>4. used' \in [EnvEvent -> Nat]
  BY UseType DEF Serve, Stop, CloseIntake, GraceExpires, StopCleanup, CleanupGraceExpires, Quiet,
     EnvEvent, IInv, TypeOK, RequestsOK
<1>5. SweepOK' /\ fallback' \subseteq Target
  <2>1. CASE CleanupGraceExpires
    <3>1. \A k \in cleanupQueue : WorkTargets(k) \subseteq Target
      BY WorkTargetsType DEF IInv, TypeOK, SweepOK
    <3> QED
      BY <2>1, <3>1 DEF CleanupGraceExpires, IInv, TypeOK, SweepOK, RequestsOK
  <2>2. CASE ~CleanupGraceExpires
    BY <2>2 DEF Serve, Stop, CloseIntake, GraceExpires, StopCleanup, Quiet, IInv, TypeOK, SweepOK,
       RequestsOK, sweep
  <2> QED
    BY <2>1, <2>2
<1>6. /\ ~Serving' => \A n \in Note : handler[n] \notin {"acked", "unsure"}
      /\ ~Serving' \/ phase' = "settling" => \A w \in Worker : ~Busy(w)
  BY DEF Serve, Stop, CloseIntake, GraceExpires, StopCleanup, CleanupGraceExpires, Serving, Busy,
     IInv, Rest, Asleep
<1> QED
  BY <1>1, <1>2, <1>3, <1>4, <1>5, <1>6, PhaseStep

\* What remains when the process is gone: the state directory and GitLab.
LEMMA HaltStep ==
    ASSUME IInv, Halt, RemoteOK', faults' \in Nat, used' \in [EnvEvent -> Nat],
           disk' \in [MR -> Entry \cup {None}],
           \A m \in MR : disk'[m] # None => EntryShape(disk'[m]),
           dropped' \subseteq Target
    PROVE  IInv'
<1>1. StoreOK'
  BY NoJobType DEF Halt, StoreOK
<1>2. PoolOK' /\ SweepOK'
  BY SizeAssumption DEF Halt, PoolOK, SweepOK
<1>3. IdleWorker \in WorkerState /\ WorkerShape(IdleWorker) /\ IdleWorker.step = "idle"
  BY DEF IdleWorker, WorkerState, WorkerShape, Step, MaybeEvent
<1>4. WorkerOK'
  BY <1>3 DEF Halt, WorkerOK
<1>5. IdleCleaner \in CleanerState /\ IdleCleaner.step = "idle"
  BY DEF IdleCleaner, CleanerState
<1>6. CleanerOK'
  BY <1>5 DEF Halt, CleanerOK
<1>7. LifeOK'
  BY DEF Halt, LifeOK, Phase
<1>8. RequestsOK' /\ \A n \in Note : handler'[n] \notin {"acked", "unsure"}
  BY DEF Halt, Cut, IInv, TypeOK, RequestsOK
<1>9. \A w \in Worker : ~Busy(w)'
  BY <1>3 DEF Halt, Busy
<1>10. Assigned' /\ Exclusive' /\ SameKind'
  BY <1>9 DEF Assigned, Exclusive, SameKind
<1>11. Loading' /\ JournalCoherent'
  BY DEF Halt, Loading, JournalCoherent, Known, alive
<1>12. Asleep'
  BY <1>5, <1>8, <1>9 DEF Halt, Asleep
<1> QED
  BY <1>1, <1>2, <1>4, <1>6, <1>7, <1>8, <1>10, <1>11, <1>12 DEF IInv, TypeOK, Rest

LEMMA JobTargetsType ==
    ASSUME NEW j \in Job
    PROVE  JobTargets(j) \subseteq Target
<1>1. MaybeTargets(j.latest) \subseteq Target /\ MaybeTargets(j.pending) \subseteq Target
  BY DEF Job, MaybeTargets, MaybeEvent, Event
<1>2. CASE j.cleanup = None
  BY <1>1, <1>2 DEF JobTargets
<1>3. CASE j.cleanup # None
  <2>1. j.cleanup \in Cleanup
    BY <1>3 DEF Job
  <2>2. j.cleanup.event.targets \subseteq Target /\ MaybeTargets(j.cleanup.aborted) \subseteq Target
    BY <2>1 DEF Cleanup, MaybeTargets, MaybeEvent, Event
  <2> QED
    BY <1>1, <1>3, <2>2 DEF JobTargets
<1> QED
  BY <1>2, <1>3

LEMMA ExitStep ==
    ASSUME IInv, Exit
    PROVE  IInv'
<1> DEFINE unsaved == {m \in MR : job[m].status # "none" /\ ~job[m].persisted}
           Lost(saved) == fallback \cup UNION {JobTargets(job[m]) : m \in unsaved \ saved}
           Cl(t) == job[IF t \in Note THEN NoteMR[t] ELSE t].cleanup
           Out(saved) == [t \in Lost(saved) |->
                IF Cl(t) # None /\ t \in Cl(t).event.targets THEN Shown(Cl(t).outcome)
                ELSE "none"]
<1>1. PICK saved \in SUBSET unsaved :
        /\ \E failed \in SUBSET Lost(saved) :
           \E applied \in SUBSET failed, gone \in SUBSET (Lost(saved) \ failed) :
              /\ Replace(Out(saved), failed, applied, gone)
              /\ dropped' = dropped \cup failed \cup Cut
        /\ disk' = [m \in MR |-> IF m \in saved THEN EntryOf(job[m]) ELSE disk[m]]
  BY DEF Exit
<1>2. Lost(saved) \subseteq Target
  BY JobTargetsType DEF IInv, TypeOK, StoreOK, RequestsOK
<1>3. DOMAIN Out(saved) = Lost(saved) /\ \A t \in Lost(saved) : Out(saved)[t] \in Mark
  <2>1. \A o : Shown(o) \in Mark
    BY ShownType
  <2> QED
    BY <2>1 DEF Mark
<1>4. \A m \in saved : EntryOf(job[m]) \in Entry /\ EntryShape(EntryOf(job[m]))
  BY EntryOfType DEF IInv, TypeOK, StoreOK
<1>5. disk' \in [MR -> Entry \cup {None}]
      /\ \A m \in MR : disk'[m] # None => EntryShape(disk'[m])
  BY <1>1, <1>4 DEF IInv, TypeOK, StoreOK
<1> HIDE DEF Lost, Out, Cl
<1>6. PICK failed \in SUBSET Lost(saved) :
        \E applied \in SUBSET failed, gone \in SUBSET (Lost(saved) \ failed) :
              /\ Replace(Out(saved), failed, applied, gone)
              /\ dropped' = dropped \cup failed \cup Cut
  BY <1>1
<1>7. RemoteOK' /\ faults' \in Nat
  BY <1>2, <1>3, <1>6, ReplaceType DEF IInv, TypeOK
<1>8. dropped' \subseteq Target
  BY <1>2, <1>6 DEF Cut, Target, IInv, TypeOK, RequestsOK
<1>9. Halt /\ UNCHANGED used
  BY DEF Exit
<1>10. used' \in [EnvEvent -> Nat]
  BY <1>9 DEF IInv, TypeOK, RequestsOK
<1> QED
  BY <1>5, <1>7, <1>8, <1>9, <1>10, HaltStep

LEMMA CrashStep ==
    ASSUME IInv, Crash
    PROVE  IInv'
<1>1. Halt /\ UNCHANGED <<disk, faults, remote>> /\ Use("crash")
  BY DEF Crash
<1>2. dropped' \subseteq Target
  <2>1. \A m \in MR : JobTargets(job[m]) \subseteq Target
    BY JobTargetsType DEF IInv, TypeOK, StoreOK
  <2> DEFINE releases == {k \in cleanupQueue : ~k.durable}
                       \cup {cleaner[c].work : c \in {c \in Cleaner : cleaner[c].step # "idle"
                                                          /\ ~cleaner[c].work.durable}}
  <2>2. \A k \in releases : k \in Work
    BY HeldFacts DEF IInv, TypeOK, SweepOK
  <2>3. \A k \in releases : WorkTargets(k) \subseteq Target
    BY <2>2, WorkTargetsType
  <2>4. dropped \subseteq Target /\ fallback \subseteq Target
    BY DEF IInv, TypeOK, RequestsOK
  <2>5. dropped' = dropped \cup fallback \cup Cut
              \cup (UNION {JobTargets(job[m]) : m \in {m \in MR : ~job[m].persisted}})
              \cup (UNION {WorkTargets(k) : k \in releases})
    BY DEF Crash
  <2> HIDE DEF releases
  <2> QED
    BY <2>1, <2>3, <2>4, <2>5 DEF Cut, Target
<1>3. used' \in [EnvEvent -> Nat]
  BY <1>1, UseType DEF EnvEvent, IInv, TypeOK
<1>4. RemoteOK' /\ faults' \in Nat
  BY <1>1 DEF IInv, TypeOK, RemoteOK, StoreOK, remote
<1>5. disk' \in [MR -> Entry \cup {None}]
      /\ \A m \in MR : disk'[m] # None => EntryShape(disk'[m])
  BY <1>1 DEF IInv, TypeOK, StoreOK
<1> QED
  BY <1>1, <1>2, <1>3, <1>4, <1>5, HaltStep

LEMMA StartStep ==
    ASSUME IInv, Start
    PROVE  IInv'
<1>1. /\ phase = "down" /\ phase' = "restoring" /\ toLoad' = {m \in MR : disk[m] # None}
      /\ UNCHANGED <<jobCancelled, cleanupCancelled, store, pool, worker, sweep, cleaner,
                     fallback, remote, handler, used, dropped>>
  BY DEF Start, Quiet
<1>2. /\ \A m \in MR : job[m] = NoJob
      /\ \A w \in Worker : ~Busy(w)
      /\ \A n \in Note : handler[n] \notin {"acked", "unsure"}
  BY <1>1 DEF IInv, Rest, Asleep, Serving, alive
<1>3. LifeOK'
  BY <1>1 DEF IInv, TypeOK, LifeOK, Phase
<1>4. TypeOK'
  BY <1>1, <1>3 DEF IInv, TypeOK, StoreOK, PoolOK, WorkerOK, WorkerShape, SweepOK, CleanerOK,
     RemoteOK, RequestsOK, store, pool, sweep, remote
<1>5. Assigned' /\ Exclusive' /\ SameKind'
  BY <1>1, <1>2 DEF Assigned, Exclusive, SameKind, Busy
<1>6. Loading'
  BY <1>1, <1>2 DEF Loading, store
<1>7. Asleep'
  BY <1>1, <1>2 DEF Asleep, Busy, alive
<1>8. JournalCoherent'
  BY <1>1, <1>2, NoJobType DEF JournalCoherent, Known, Coherent, store
<1> QED
  BY <1>4, <1>5, <1>6, <1>7, <1>8 DEF IInv, Rest

-----------------------------------------------------------------------------
(* The theorems.                                                           *)

LEMMA InitInvariant == Init => IInv
<1> SUFFICES ASSUME Init PROVE IInv
  OBVIOUS
<1> USE DEF Init
<1>1. StoreOK
  BY NoJobType DEF StoreOK
<1>2. IdleWorker \in WorkerState /\ WorkerShape(IdleWorker) /\ IdleWorker.step = "idle"
  BY DEF IdleWorker, WorkerState, WorkerShape, Step, MaybeEvent
<1>3. IdleCleaner \in CleanerState /\ IdleCleaner.step = "idle"
  BY DEF IdleCleaner, CleanerState
<1>4. PoolOK /\ WorkerOK /\ SweepOK /\ CleanerOK /\ LifeOK
  <2>1. PoolOK
    BY SizeAssumption DEF PoolOK
  <2>2. WorkerOK /\ SweepOK
    BY <1>2 DEF WorkerOK, SweepOK
  <2>3. CleanerOK /\ LifeOK
    BY <1>3 DEF CleanerOK, LifeOK, Phase
  <2> QED
    BY <2>1, <2>2, <2>3
<1>5. RemoteOK /\ RequestsOK
  BY DEF RemoteOK, RequestsOK, Mark, EnvEvent
<1>6. Assigned /\ Exclusive /\ SameKind /\ Loading
  BY <1>2 DEF Assigned, Exclusive, SameKind, Loading, Busy
<1>7. Asleep /\ JournalCoherent
  BY <1>2, NoJobType DEF Asleep, JournalCoherent, Busy, alive, Known, Coherent
<1> QED
  BY <1>1, <1>4, <1>5, <1>6, <1>7 DEF IInv, TypeOK, Rest

LEMMA StutterInvariant ==
    ASSUME IInv, UNCHANGED vars
    PROVE  IInv'
BY DEF vars, store, pool, sweep, life, remote, IInv, TypeOK, Rest, StoreOK, PoolOK, WorkerOK,
   WorkerShape, SweepOK, CleanerOK, LifeOK, RemoteOK, RequestsOK, Assigned, Exclusive, SameKind,
   Loading, Asleep, JournalCoherent, Busy, Serving, alive, Known, Coherent

LEMMA NextInvariant == IInv /\ [Next]_vars => IInv'
<1> SUFFICES ASSUME IInv, [Next]_vars PROVE IInv'
  OBVIOUS
<1>1. ASSUME NEW m \in MR, \/ EnqueueEvent(m) \/ Abort(m) \/ TimerFires(m)
                            \/ RestoreJob(m) \/ DropEntry(m)
      PROVE  IInv'
  BY <1>1, EnqueueEventStep, AbortStep, TimerFiresStep, RestoreJobStep, DropEntryStep
<1>2. ASSUME NEW n \in Note, AwardAck(n) \/ HandleReview(n)
      PROVE  IInv'
  BY <1>2, AwardAckStep, HandleReviewStep
<1>3. ASSUME NEW w \in Worker, WorkerStep(w)
      PROVE  IInv'
  BY <1>3, TakeStep, CheckRequestStep, StartReactionStep, RunReviewStep, BeginSettlementStep,
     SettleReviewStep, FinishStep DEF WorkerStep
<1>4. ASSUME NEW c \in Cleaner, CleanerStep(c)
      PROVE  IInv'
  BY <1>4, CleanerTakeStep, CleanerSettleStep, CleanerCancelledStep, CleanerCompleteStep
  DEF CleanerStep
<1>5. ASSUME NEW t \in Target, LateCommit(t) \/ WindowEnds(t)
      PROVE  IInv'
  BY <1>5, LateCommitStep
<1>6. ASSUME Lifecycle
      PROVE  IInv'
  BY <1>6, PhaseSteps, ExitStep, CrashStep, StartStep DEF Lifecycle
<1>7. CASE UNCHANGED vars
  BY <1>7, StutterInvariant
<1> QED
  BY <1>1, <1>2, <1>3, <1>4, <1>5, <1>6, <1>7 DEF Next

\* The strengthened invariant is one: it holds at the start and every step of the
\* dispatcher keeps it.
THEOREM InductiveInvariant == Spec => []IInv
BY InitInvariant, NextInvariant, PTL DEF Spec

\* Every variable keeps its type, and no nil event, job or cleanup is dereferenced,
\* whatever the number of merge requests, notes and workers.
THEOREM TypeCorrect == Spec => []TypeOK
<1>1. IInv => TypeOK
  BY DEF IInv
<1> QED
  BY <1>1, InductiveInvariant, PTL

\* The state directory always holds exactly what a restart has to do, or nothing:
\* enqueueing, aborting, finishing, settling, restoring and crashing all keep a job
\* and its journal entry in step.
THEOREM JournalIsCoherent == Spec => []JournalCoherent
<1>1. IInv => JournalCoherent
  BY DEF IInv, Rest
<1> QED
  BY <1>1, InductiveInvariant, PTL
=============================================================================
