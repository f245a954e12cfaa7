----------------------------- MODULE Dispatcher -----------------------------
(***************************************************************************)
(* The coalescing review queue of the webhook daemon: internal/serve       *)
(* dispatcher.go and worker.go, with the part of journal.go and server.go  *)
(* that decides what a restart finds.                                      *)
(*                                                                         *)
(* One action is one critical section of Dispatcher.mu / cleanupMu, or one *)
(* round of remote requests made outside the locks.  GitLab (reaction      *)
(* marks, requests that time out and commit later) and the state directory *)
(* are modelled from how the code uses them.                               *)
(***************************************************************************)
EXTENDS Integers, Sequences, FiniteSets

CONSTANTS
    MR,           \* merge requests: the jobKey of a job
    Note,         \* command notes that ask for a review
    NoteMR,       \* the merge request a note was written on
    Worker,       \* review workers
    Cleaner,      \* acknowledgement cleanup workers (maxAckCleanupWorkers)
    None,         \* a nil pointer / an absent file
    MaxAckNotes,  \* maxAckNotes
    QueueCap,     \* queueCapacity
    CleanupCap,   \* ackCleanupQueueCapacity
    Journaled,    \* a state directory is configured
    Rejected,     \* outcomes whose configured emoji GitLab refuses
    Limit,        \* bound of each kind of environment event
    FaultLimit    \* bound of failed writes and failed remote rounds

Target == MR \cup Note
Trigger == {"auto", "manual"}
Outcome == {"done", "failed", "aborted"}
Mark == {"none", "busy", "done", "failed"}
EnvEvent == {"auto", "emoji", "abort", "timeout", "stop", "crash", "vanish"}

\* An event's AckNoteIDs and its SettleMR flag are one set of targets; `unsure`
\* are the targets whose award timed out (UncertainAckNoteIDs, StartCleanupUntil).
Event == [kind : Trigger, targets : SUBSET Target, unsure : SUBSET Target]
MaybeEvent == Event \cup {None}
Cleanup == [event : Event, outcome : Outcome, aborted : MaybeEvent]
Entry == [event : Event, outcome : Outcome \cup {"none"},
          aborted : MaybeEvent, pending : MaybeEvent]
Status == {"none", "queued", "running", "cleanup"}
Job == [status : Status, latest : MaybeEvent, pending : MaybeEvent,
        cleanup : Cleanup \cup {None}, cleanupQueued : BOOLEAN,
        version : Nat, persisted : BOOLEAN, cancelled : BOOLEAN]
\* A review is `begin` once its outcome is known, `settle` while the reactions
\* are replaced and `finish` when the worker is about to take the lock again.
Step == {"idle", "check", "start", "run", "begin", "settle", "finish"}
WorkerState == [step : Step, mr : MR \cup {None}, event : MaybeEvent,
                outcome : Outcome \cup {"none", "interrupted"}, version : Nat]
Work == [mr : MR, durable : BOOLEAN, version : Nat, event : Event,
         outcome : Outcome, aborted : MaybeEvent]
CleanerState == [step : {"idle", "held", "settled"}, work : Work \cup {None}]
Phase == {"down", "restoring", "up", "stopping", "closed", "settling"}

ASSUME SizeAssumption ==
    /\ MaxAckNotes \in Nat \ {0} /\ QueueCap \in Nat \ {0} /\ CleanupCap \in Nat \ {0}
    /\ Journaled \in BOOLEAN
    /\ Rejected \subseteq {"done", "failed"}
    /\ NoteMR \in [Note -> MR]
    /\ Limit \in [EnvEvent -> Nat] /\ FaultLimit \in Nat
ASSUME WorkerAssumption == IsFiniteSet(Worker)
ASSUME NoneAssumption ==
    /\ None \notin MR \cup Note
    /\ None \notin Event /\ None \notin Cleanup /\ None \notin Entry /\ None \notin Work
    /\ MR \cap Note = {}

VARIABLES
    job,            \* Dispatcher.states
    queue,          \* the queue channel of keys
    overflow,       \* keys parked while the channel is full
    running,        \* Dispatcher.running
    worker,         \* the review workers
    cleanupQueue,   \* cleanup work a cleaner may pick up
    waiting,        \* cleanupWaiting: reservations of a full cleanupQueue
    delayed,        \* jobs whose cleanup waits for a timer
    cleaner,        \* the cleanup workers
    fallback,       \* cleanupFallback: targets left to the shutdown sweep
    phase,          \* where the daemon is in its life
    jobCancelled,   \* jobCtx was cancelled: the grace period is over
    cleanupCancelled, \* cleanupCtx was cancelled
    toLoad,         \* journal entries Restore has not reached
    disk,           \* the state directory: one entry per merge request
    faults,         \* failed writes and remote rounds so far
    mark,           \* the bot's reaction on each target
    open,           \* targets inside the uncertainty window of a timed-out award
    inflight,       \* timed-out awards that may still commit
    handler,        \* the webhook request of each command note
    used,           \* environment events so far
    dropped         \* targets nobody will settle any more: given up by a path that logs it,
                    \* or known only to the memory of a process that ended

store == <<job, disk, faults>>
pool == <<queue, overflow, running>>
sweep == <<cleanupQueue, waiting, delayed>>
life == <<phase, jobCancelled, cleanupCancelled, toLoad>>
remote == <<mark, open, inflight>>
vars == <<store, pool, worker, sweep, cleaner, fallback, life, remote, handler, used, dropped>>

closed == phase \in {"closed", "settling", "down"}
alive == phase # "down"
NoJob == [status |-> "none", latest |-> None, pending |-> None, cleanup |-> None,
          cleanupQueued |-> FALSE, version |-> 0, persisted |-> FALSE, cancelled |-> FALSE]
IdleWorker == [step |-> "idle", mr |-> None, event |-> None, outcome |-> "none", version |-> 0]
IdleCleaner == [step |-> "idle", work |-> None]

-----------------------------------------------------------------------------
(* Events.                                                                 *)

Notes(e) == e.targets \cap Note
\* Mutant of Stronger: the newest trigger wins.
NewestTrigger(k, l) == l
Stronger(k, l) == IF "manual" \in {k, l} THEN "manual" ELSE "auto"

\* mergeAckNotes: what is there stays, what arrives is added up to the cap.  The
\* order of arrival, which decides what is left out, is not modelled.
KeptNotes(have, new) ==
    IF Cardinality(have \cup new) <= MaxAckNotes THEN {have \cup new}
    ELSE {k \in SUBSET (have \cup new) : have \subseteq k /\ Cardinality(k) = MaxAckNotes}

MergeKeeping(have, new, notes) ==
    LET targets == notes \cup ((have.targets \cup new.targets) \cap MR)
    IN  [kind |-> Stronger(have.kind, new.kind), targets |-> targets,
         unsure |-> (have.unsure \cup new.unsure) \cap targets]

\* mergeEvents: the newer event wins, a manual trigger is never downgraded.
Merges(have, new) ==
    {MergeKeeping(have, new, notes) : notes \in KeptNotes(Notes(have), Notes(new))}

\* A pending event is merged onto, or simply parked when there is none.
Parked(pending, e) == IF pending = None THEN {e} ELSE Merges(pending, e)

\* eventWithReactions
Reduced(e, remaining) ==
    [e EXCEPT !.targets = remaining, !.unsure = @ \cap remaining]

\* What a restart must run: the latest event with the pending one merged on.
Resume(j) == IF j.pending = None THEN j.latest
             ELSE MergeKeeping(j.latest, j.pending, Notes(j.latest) \cup Notes(j.pending))

MaybeTargets(e) == IF e = None THEN {} ELSE e.targets
MaybeUnsure(e) == IF e = None THEN {} ELSE e.unsure

\* Everything the job will still settle.
JobTargets(j) == MaybeTargets(j.latest) \cup MaybeTargets(j.pending)
    \cup (IF j.cleanup = None THEN {}
          ELSE j.cleanup.event.targets \cup MaybeTargets(j.cleanup.aborted))
EntryTargets(e) == e.event.targets \cup MaybeTargets(e.pending) \cup MaybeTargets(e.aborted)
WorkTargets(w) == w.event.targets \cup MaybeTargets(w.aborted)

-----------------------------------------------------------------------------
(* The journal, as the dispatcher sees it.                                 *)

\* Mutant of EntryOf: the runnable snapshot stays while reactions are settled.
AlwaysRunnable(j) ==
    [event |-> Resume(j), outcome |-> "none", aborted |-> None, pending |-> None]

\* The entry persist and persistCleanup write for a job.
EntryOf(j) ==
    IF j.cleanup = None
    THEN [event |-> Resume(j), outcome |-> "none", aborted |-> None, pending |-> None]
    ELSE [event |-> j.cleanup.event, outcome |-> j.cleanup.outcome,
          aborted |-> j.cleanup.aborted, pending |-> j.pending]

\* A write either lands or leaves no file at all: journal.invalidate removes the
\* older entry, which may name work that was aborted since.
CanWrite(ok) == IF ok THEN Journaled ELSE Journaled => faults < FaultLimit

Save(m, j) ==
    \E ok \in BOOLEAN :
        /\ CanWrite(ok)
        /\ job' = [job EXCEPT ![m] = [j EXCEPT !.persisted = ok]]
        /\ disk' = [disk EXCEPT ![m] = IF ok THEN EntryOf(j) ELSE None]
        /\ faults' = IF Journaled /\ ~ok THEN faults + 1 ELSE faults

\* Mutant of Forget: the journal entry outlives the job.
ForgetInMemory(m) ==
    /\ job' = [job EXCEPT ![m] = NoJob]
    /\ UNCHANGED <<disk, faults>>

\* The job is over: it leaves the map and journal.remove retires its file.
Forget(m) ==
    /\ job' = [job EXCEPT ![m] = NoJob]
    /\ disk' = [disk EXCEPT ![m] = None]
    /\ UNCHANGED faults

\* The job waits for a worker again, with what was pending as its event.
Promoted(j) == [j EXCEPT !.status = "queued", !.latest = j.pending, !.pending = None,
                         !.cleanup = None, !.cleanupQueued = FALSE, !.cancelled = FALSE]

\* Mutant of PushKey: a full channel drops the key.
PushKeyIfRoom(m) ==
    /\ queue' = IF Len(queue) < QueueCap THEN Append(queue, m) ELSE queue
    /\ UNCHANGED overflow

PushKey(m) ==
    IF Len(queue) < QueueCap
    THEN queue' = Append(queue, m) /\ UNCHANGED overflow
    ELSE overflow' = Append(overflow, m) /\ UNCHANGED queue

-----------------------------------------------------------------------------
(* Scheduling reaction cleanup.                                            *)

\* reactionCleanupUncertaintyDeadline is still ahead.
Uncertain(c) == (c.event.unsure \cup MaybeUnsure(c.aborted)) \cap open # {}

DurableWork(m, j) ==
    [mr |-> m, durable |-> TRUE, version |-> j.version, event |-> j.cleanup.event,
     outcome |-> j.cleanup.outcome, aborted |-> j.cleanup.aborted]
ReleaseWork(m, n, e) ==
    [mr |-> m, durable |-> FALSE, version |-> 0, event |-> Reduced(e, {n}),
     outcome |-> "aborted", aborted |-> None]

Enlist(m, j) ==
    IF Cardinality(cleanupQueue) < CleanupCap
    THEN cleanupQueue' = cleanupQueue \cup {DurableWork(m, j)} /\ UNCHANGED waiting
    ELSE waiting' = waiting \cup {m} /\ UNCHANGED cleanupQueue

\* queueDurableCleanup does nothing once the dispatcher is closed.
Reserved(j) == [j EXCEPT !.cleanupQueued = ~closed]
QueueDurable(m, j) ==
    \/ closed /\ UNCHANGED sweep
    \/ /\ ~closed /\ Uncertain(j.cleanup)
       /\ delayed' = delayed \cup {m} /\ UNCHANGED <<cleanupQueue, waiting>>
    \/ ~closed /\ ~Uncertain(j.cleanup) /\ Enlist(m, j) /\ UNCHANGED delayed

\* Mutant of QueueReleases: notes over the cap are forgotten.
ForgetReleases(m, notes, e) == UNCHANGED <<cleanupQueue, dropped>>

\* queueAckCleanup: best effort, what does not fit is logged and given up.
QueueReleases(m, notes, e) ==
    IF phase = "settling"
    THEN dropped' = dropped \cup notes /\ UNCHANGED cleanupQueue
    ELSE \E fit \in SUBSET notes :
            /\ Cardinality(cleanupQueue) + Cardinality(fit) <= CleanupCap
            /\ fit # notes => Cardinality(cleanupQueue) + Cardinality(fit) = CleanupCap
            /\ cleanupQueue' = cleanupQueue \cup {ReleaseWork(m, n, e) : n \in fit}
            /\ dropped' = dropped \cup (notes \ fit)

-----------------------------------------------------------------------------
(* Webhook intake.                                                         *)

\* Mutant of Backlog: jobs in cleanup are not counted.
QueuedOnly == Cardinality({m \in MR : job[m].status = "queued"})

\* States a worker does not hold count against the admission limit.
Backlog == Cardinality({m \in MR : job[m].status # "none"}) - running
Refuses(m) == closed \/ (job[m].status = "none" /\ (Backlog >= QueueCap \/ Len(queue) >= QueueCap))

Admit(m, e) ==
    /\ job[m].status = "none" /\ ~Refuses(m)
    /\ queue' = Append(queue, m)
    /\ Save(m, [NoJob EXCEPT !.status = "queued", !.latest = e])
    /\ UNCHANGED <<overflow, running, cleanupQueue, dropped>>

\* A job whose reactions are being settled keeps new work behind that cleanup.
ParkBehindCleanup(m, e) ==
    /\ job[m].cleanup # None
    /\ \E p \in Parked(job[m].pending, e) :
          /\ Save(m, [job[m] EXCEPT !.pending = p])
          /\ QueueReleases(m, (MaybeTargets(job[m].pending) \cup e.targets) \ p.targets, e)
    /\ UNCHANGED pool

\* Mutant of Fitting: notes that do not fit the merge stay in the parked event.
KeepAll(p, kept) == p

\* removeInts: the parked event without the notes that were left out.
Fitting(p, kept) == Reduced(p, (kept \cup MR) \cap p.targets)

\* A running review parks the event.  Notes that would not fit into the merge of
\* the running and the pending event are released now: a crash would lose them.
\* What was pending before is older than the event: it stays.
ParkBehindReview(m, e) ==
    /\ job[m].status = "running" /\ job[m].cleanup = None
    /\ \E p \in Parked(job[m].pending, e) :
       \E kept \in KeptNotes(JobTargets(job[m]) \cap Note, Notes(p)) :
          LET fitting == Fitting(p, kept)
              refused == (MaybeTargets(job[m].pending) \cup e.targets) \ fitting.targets
          IN  /\ Save(m, [job[m] EXCEPT !.pending = fitting])
              /\ QueueReleases(m, refused, e)
    /\ UNCHANGED pool

Coalesce(m, e) ==
    /\ job[m].status = "queued" /\ job[m].cleanup = None
    /\ \E l \in Merges(job[m].latest, e) :
          /\ Save(m, [job[m] EXCEPT !.latest = l])
          /\ QueueReleases(m, (job[m].latest.targets \cup e.targets) \ l.targets, e)
    /\ UNCHANGED pool

Enqueue(m, e) ==
    /\ ~closed
    /\ Admit(m, e) \/ ParkBehindCleanup(m, e) \/ ParkBehindReview(m, e) \/ Coalesce(m, e)
    /\ UNCHANGED <<waiting, delayed>>

\* Webhook requests are handled up to the end of the process: Server.Run gives them five
\* seconds to drain and then shuts the dispatcher down whatever they do.
Serving == phase \in {"up", "stopping", "closed", "settling"}
Use(kind) == used[kind] < Limit[kind] /\ used' = [used EXCEPT ![kind] = @ + 1]

\* A push, a label or the trigger emoji: an event without a command note.
EnqueueEvent(m) ==
    /\ Serving
    /\ \/ Use("auto") /\ Enqueue(m, [kind |-> "auto", targets |-> {}, unsure |-> {}])
       \/ Use("emoji") /\ Enqueue(m, [kind |-> "manual", targets |-> {}, unsure |-> {}])
    /\ UNCHANGED <<worker, cleaner, fallback, life, remote, handler>>

\* The client gave up on an award: until the uncertainty window ends, GitLab may
\* still commit it.
TimesOut(t) ==
    /\ Use("timeout")
    /\ open' = open \cup {t} /\ inflight' = inflight \cup {t}
    /\ UNCHANGED mark

\* handleCommand awards the ack emoji before the job exists.  A request that
\* times out may or may not have reached GitLab yet.
AwardAck(n) ==
    /\ Serving /\ handler[n] = "new"
    /\ \/ /\ handler' = [handler EXCEPT ![n] = "acked"]
          /\ mark' = [mark EXCEPT ![n] = "busy"]
          /\ UNCHANGED <<open, inflight, used>>
       \/ /\ TimesOut(n)
          /\ handler' = [handler EXCEPT ![n] = "unsure"]
    /\ UNCHANGED <<store, pool, worker, sweep, cleaner, fallback, life, dropped>>

CommandEvent(n) == [kind |-> "manual", targets |-> {n},
                    unsure |-> IF handler[n] = "unsure" THEN {n} ELSE {}]

HandleReview(n) ==
    /\ handler[n] \in {"acked", "unsure"}
    /\ handler' = [handler EXCEPT ![n] = "done"]
    /\ \/ Enqueue(NoteMR[n], CommandEvent(n))
       \/ /\ Refuses(NoteMR[n])
          /\ QueueReleases(NoteMR[n], {n}, CommandEvent(n))
          /\ UNCHANGED <<store, pool, waiting, delayed>>
    /\ UNCHANGED <<worker, cleaner, fallback, life, remote, used>>

-----------------------------------------------------------------------------
(* Abort.                                                                  *)

CleanupOf(e, outcome) == [event |-> e, outcome |-> outcome, aborted |-> None]

\* Behind a cleanup only a pending review can be aborted: its notes join the
\* cleanup's aborted event and are revoked, without its outcome.
AbortPending(m) ==
    /\ job[m].status = "cleanup" /\ job[m].pending # None
    /\ \E a \in Parked(job[m].cleanup.aborted, job[m].pending) :
          LET revoked == Reduced(a, Notes(a)) IN
          /\ Save(m, [job[m] EXCEPT !.cleanup.aborted = revoked, !.pending = None,
                                    !.version = @ + 1])
          /\ QueueReleases(m, (MaybeTargets(job[m].cleanup.aborted)
                               \cup Notes(job[m].pending)) \ a.targets, job[m].pending)
    /\ UNCHANGED <<waiting, delayed>>

Aborting(j, e) ==
    [j EXCEPT !.latest = e, !.pending = None, !.cleanup = CleanupOf(e, "aborted"),
              !.version = @ + 1]

\* A worker holds the job: it sees its context cancelled and hands the job to
\* cleanup when it finishes.
AbortRunning(m) ==
    /\ job[m].status = "running"
    /\ \E e \in IF job[m].pending = None THEN {job[m].latest}
                ELSE Merges(job[m].latest, job[m].pending) :
          Save(m, [Aborting(job[m], e) EXCEPT !.cancelled = TRUE])
    /\ UNCHANGED <<sweep, dropped>>

\* A queued job goes straight to cleanup; its key stays in the queue.
AbortQueued(m) ==
    /\ job[m].status = "queued"
    /\ \E e \in IF job[m].pending = None THEN {job[m].latest}
                ELSE Merges(job[m].latest, job[m].pending) :
          LET j == [Aborting(job[m], e) EXCEPT !.status = "cleanup"] IN
          /\ Save(m, Reserved(j))
          /\ QueueDurable(m, j)
    /\ UNCHANGED dropped

Abort(m) ==
    /\ Serving /\ Use("abort")
    /\ AbortPending(m) \/ AbortRunning(m) \/ AbortQueued(m)
    /\ UNCHANGED <<pool, worker, cleaner, fallback, life, remote, handler>>

-----------------------------------------------------------------------------
(* Review workers.                                                         *)

Contexted(w) == job[worker[w].mr]
CtxDone(w) == Contexted(w).cancelled \/ jobCancelled

\* drainOverflowLocked: parked keys move into the slots a receive freed.
Drained(keys) ==
    LET moved == IF Len(overflow) <= QueueCap - Len(keys) THEN Len(overflow)
                 ELSE QueueCap - Len(keys)
    IN  <<keys \o SubSeq(overflow, 1, moved), SubSeq(overflow, moved + 1, Len(overflow))>>

\* Mutant of Takeable: any job whose key is received is run.
AnyJob(m) == job[m].status # "none"

\* A received key whose job is not queued (any more) is skipped.
Takeable(m) == job[m].status = "queued"

Take(w) ==
    /\ phase = "up" /\ worker[w].step = "idle" /\ queue # <<>>
    /\ queue' = Drained(Tail(queue))[1]
    /\ overflow' = Drained(Tail(queue))[2]
    /\ LET m == Head(queue) IN
       IF Takeable(m)
       THEN /\ job' = [job EXCEPT ![m].status = "running", ![m].cancelled = FALSE]
            /\ running' = running + 1
            /\ worker' = [worker EXCEPT ![w] =
                   [step |-> "check", mr |-> m, event |-> job[m].latest,
                    outcome |-> "none", version |-> 0]]
       ELSE UNCHANGED <<job, running, worker>>
    /\ UNCHANGED <<disk, faults, sweep, cleaner, fallback, life, remote, handler, used, dropped>>

Goto(w, step, outcome) ==
    worker' = [worker EXCEPT ![w].step = step, ![w].outcome = outcome]

\* The ways a review ends before its child process runs: policy, a failed API
\* request, or a request that failed because its context was cancelled.
PreRunOutcomes(w) ==
    {"failed"} \cup (IF jobCancelled THEN {"interrupted"}
                    ELSE IF Contexted(w).cancelled THEN {"aborted"} ELSE {})

\* recordStartReaction...: what the worker is about to do, or has done, to the
\* merge request's reaction goes into the job and its journal entry.
Recorded(j, targets, unsure) ==
    LET Noted(e) == [e EXCEPT !.targets = @ \cup targets, !.unsure = @ \cup unsure]
    IN  IF j.cleanup = None THEN [j EXCEPT !.latest = Noted(@)]
        ELSE [j EXCEPT !.cleanup.event = Noted(@), !.latest = Noted(j.cleanup.event),
                       !.version = @ + 1]

Ends(step, outcome) == IF outcome = "interrupted" THEN "finish" ELSE step

CheckRequest(w) ==
    LET m == worker[w].mr IN
    /\ worker[w].step = "check"
    /\ \/ /\ \E o \in PreRunOutcomes(w) : Goto(w, Ends("begin", o), o)
          /\ UNCHANGED store
       \/ /\ Save(m, Recorded(job[m], {m}, {}))
          /\ worker' = [worker EXCEPT ![w].step = "start", ![w].event.targets = @ \cup {m}]
    /\ UNCHANGED <<pool, sweep, cleaner, fallback, life, remote, handler, used, dropped>>

StartReaction(w) ==
    LET m == worker[w].mr IN
    /\ worker[w].step = "start"
    /\ \/ /\ mark' = [mark EXCEPT ![m] = "busy"]
          /\ worker' = [worker EXCEPT ![w].step = "run"]
          /\ UNCHANGED <<store, open, inflight, used>>
       \/ /\ faults < FaultLimit /\ faults' = faults + 1
          /\ worker' = [worker EXCEPT ![w].step = "run"]
          /\ UNCHANGED <<job, disk, remote, used>>
       \/ /\ TimesOut(m)
          /\ Save(m, Recorded(job[m], {}, {m}))
          /\ worker' = [worker EXCEPT ![w].step = "run", ![w].event.unsure = @ \cup {m}]
    /\ UNCHANGED <<pool, sweep, cleaner, fallback, life, handler, dropped>>

\* A live cancellation is an abort whatever the child reports; a child that
\* delivered is done even when the daemon is going down.
RunOutcomes(w) ==
    IF Contexted(w).cancelled /\ ~jobCancelled THEN {"aborted"}
    ELSE IF CtxDone(w) THEN {"done", "interrupted"} ELSE {"done", "failed"}

RunReview(w) ==
    /\ worker[w].step = "run"
    /\ \E o \in RunOutcomes(w) : Goto(w, Ends("begin", o), o)
    /\ UNCHANGED <<store, pool, sweep, cleaner, fallback, life, remote, handler, used, dropped>>

\* Before any reaction is replaced the runnable snapshot becomes cleanup work.
BeginSettlement(w) ==
    LET m == worker[w].mr
        j == job[m]
        e == worker[w].event IN
    /\ worker[w].step = "begin"
    /\ IF j.cleanup = None
       THEN /\ Save(m, [j EXCEPT !.latest = e, !.version = @ + 1,
                                 !.cleanup = CleanupOf(e, worker[w].outcome)])
            /\ worker' = [worker EXCEPT ![w].step = "settle", ![w].version = j.version + 1]
       ELSE /\ worker' = [worker EXCEPT ![w].step = "settle", ![w].version = 0]
            /\ UNCHANGED store
    /\ UNCHANGED <<pool, sweep, cleaner, fallback, life, remote, handler, used, dropped>>

\* The reaction an outcome leaves: a refused emoji degrades to a revoke.
Shown(outcome) == IF outcome \in {"done", "failed"} \ Rejected THEN outcome ELSE "none"

\* One round of replacements, `shown` by target.  A failed request may have taken
\* effect (`applied`); a target that is gone needs nothing any more.
Replace(shown, failed, applied, gone) ==
    /\ mark' = [t \in Target |->
          IF t \in gone THEN "none"
          ELSE IF t \in (DOMAIN shown \ failed) \cup applied THEN shown[t] ELSE mark[t]]
    /\ open' = open \ gone /\ inflight' = inflight \ gone
    /\ failed \cup gone # {} => faults < FaultLimit
    /\ faults' = IF failed \cup gone = {} THEN faults ELSE faults + 1

\* Mutant of Unsettled: a replacement that succeeded ends the uncertainty.
OnlyFailures(e, failed, gone) == failed \cap e.targets

\* What a round leaves to do: failures, and targets whose award may still land.
Unsettled(e, failed, gone) ==
    (failed \cap e.targets) \cup ((e.targets \ gone) \cap e.unsure \cap open)

SettleReview(w) ==
    LET e == worker[w].event IN
    /\ worker[w].step = "settle"
    /\ \E failed \in SUBSET e.targets :
       \E applied \in SUBSET failed, gone \in SUBSET (e.targets \ failed) :
          /\ Replace([t \in e.targets |-> Shown(worker[w].outcome)], failed, applied, gone)
          /\ worker' = [worker EXCEPT ![w].step = "finish",
                            ![w].event = Reduced(e, Unsettled(e, failed, gone))]
    /\ UNCHANGED <<job, disk, pool, sweep, cleaner, fallback, life, handler, used, dropped>>

\* finish of a review the shutdown interrupted: runnable work stays runnable.
FinishInterrupted(m, e) ==
    /\ Save(m, IF job[m].cleanup = None
               THEN [job[m] EXCEPT !.status = "queued", !.latest = e, !.cancelled = FALSE]
               ELSE [job[m] EXCEPT !.status = "cleanup", !.cancelled = FALSE])
    /\ UNCHANGED <<queue, overflow, sweep>>

\* An abort replaced the worker's snapshot: its cleanup stays as it is.
FinishAborted(m) ==
    LET j == [job[m] EXCEPT !.status = "cleanup", !.cancelled = FALSE] IN
    /\ IF Journaled /\ ~j.persisted THEN Save(m, Reserved(j))
       ELSE job' = [job EXCEPT ![m] = Reserved(j)] /\ UNCHANGED <<disk, faults>>
    /\ QueueDurable(m, j)
    /\ UNCHANGED <<queue, overflow>>

FinishUnsettled(m, e, outcome) ==
    LET j == [job[m] EXCEPT !.status = "cleanup", !.latest = e, !.cancelled = FALSE,
                            !.cleanup = CleanupOf(e, outcome), !.version = @ + 1] IN
    /\ Save(m, Reserved(j))
    /\ QueueDurable(m, j)
    /\ UNCHANGED <<queue, overflow>>

\* Mutant of EndOrPromote: a pending event is taken for granted.
AlwaysPromote(m) ==
    /\ Save(m, Promoted(job[m]))
    /\ IF closed THEN UNCHANGED <<queue, overflow>> ELSE PushKey(m)

\* Mutant of EndOrPromote: what was pending is forgotten with the job.
AlwaysEnd(m) == Forget(m) /\ UNCHANGED <<queue, overflow>>

\* Nothing is left to settle: the job ends, or what was pending gets its turn.
EndOrPromote(m) ==
    IF job[m].pending = None
    THEN Forget(m) /\ UNCHANGED <<queue, overflow>>
    ELSE /\ Save(m, Promoted(job[m]))
         /\ IF closed THEN UNCHANGED <<queue, overflow>> ELSE PushKey(m)

\* The cleanup found is not the snapshot BeginSettlement left: an abort came between.
Preempted(w) == LET j == job[worker[w].mr] IN
    j.cleanup # None /\ (worker[w].version = 0 \/ worker[w].version # j.version)

Finish(w) ==
    LET m == worker[w].mr
        e == worker[w].event IN
    /\ worker[w].step = "finish"
    /\ running' = running - 1
    /\ worker' = [worker EXCEPT ![w] = IdleWorker]
    /\ \/ worker[w].outcome = "interrupted" /\ FinishInterrupted(m, e)
       \/ /\ worker[w].outcome # "interrupted"
          /\ \/ Preempted(w) /\ FinishAborted(m)
             \/ ~Preempted(w) /\ e.targets # {} /\ FinishUnsettled(m, e, worker[w].outcome)
             \/ ~Preempted(w) /\ e.targets = {} /\ EndOrPromote(m) /\ UNCHANGED sweep
    /\ UNCHANGED <<cleaner, fallback, life, remote, handler, used, dropped>>

-----------------------------------------------------------------------------
(* Cleanup workers.                                                        *)

\* drainWaitingDurableCleanup: reservations move into the queue that `items` left.
Promotable == {m \in waiting : job[m].status = "cleanup" /\ job[m].cleanup # None
                                /\ job[m].cleanupQueued}
DrainWaiting(items) ==
    IF closed THEN cleanupQueue' = items /\ UNCHANGED waiting
    ELSE \E moved \in SUBSET Promotable :
            /\ Cardinality(items) + Cardinality(moved) <= CleanupCap
            /\ moved # Promotable => Cardinality(items) + Cardinality(moved) = CleanupCap
            /\ cleanupQueue' = items \cup {DurableWork(m, job[m]) : m \in moved}
            /\ waiting' = Promotable \ moved

CleanerTake(c) ==
    /\ alive /\ cleaner[c].step = "idle"
    /\ \E k \in cleanupQueue :
          /\ cleaner' = [cleaner EXCEPT ![c] = [step |-> "held", work |-> k]]
          /\ DrainWaiting(cleanupQueue \ {k})
    /\ UNCHANGED <<store, pool, worker, delayed, fallback, life, remote, handler, used, dropped>>

\* A best-effort release waits for the end of the note's uncertainty window.
Ready(k) == k.durable \/ k.event.unsure \cap open = {}

\* Mutant of Attempt: aborted notes are settled like the others.
OneOutcome(k) ==
    [t \in k.event.targets \cup (MaybeTargets(k.aborted) \cap Note) |-> Shown(k.outcome)]

\* One attempt: the event with its outcome, the aborted event with revokes only.
Attempt(k) ==
    [t \in k.event.targets \cup (MaybeTargets(k.aborted) \cap Note) |->
        IF t \in k.event.targets THEN Shown(k.outcome) ELSE "none"]

CleanerSettle(c) ==
    LET k == cleaner[c].work
        shown == Attempt(k) IN
    /\ cleaner[c].step = "held" /\ ~cleanupCancelled /\ Ready(k)
    /\ \E failed \in SUBSET (DOMAIN shown) :
       \E applied \in SUBSET failed, gone \in SUBSET (DOMAIN shown \ failed) :
          /\ Replace(shown, failed, applied, gone)
          /\ cleaner' = [cleaner EXCEPT ![c] = [step |-> "settled", work |->
                [k EXCEPT !.event = Reduced(@, Unsettled(@, failed, gone)),
                          !.aborted = IF @ = None THEN None
                                      ELSE Reduced(@, Unsettled(@, failed, gone))]]]
    /\ UNCHANGED <<job, disk, pool, worker, sweep, fallback, life, handler, used, dropped>>

\* Mutant of CleanerCancelled: a best-effort release waits on without a context.
DurableCancelled(c) ==
    /\ cleaner[c].step = "held" /\ cleanupCancelled /\ cleaner[c].work.durable
    /\ cleaner' = [cleaner EXCEPT ![c].step = "settled"]
    /\ UNCHANGED <<store, pool, worker, sweep, fallback, life, remote, handler, used, dropped>>

\* The shutdown cancelled the attempt before it was admitted.
CleanerCancelled(c) ==
    LET k == cleaner[c].work IN
    /\ cleaner[c].step = "held" /\ cleanupCancelled
    /\ IF k.durable
       THEN cleaner' = [cleaner EXCEPT ![c].step = "settled"] /\ UNCHANGED fallback
       ELSE /\ cleaner' = [cleaner EXCEPT ![c] = IdleCleaner]
            /\ fallback' = fallback \cup WorkTargets(k)
    /\ UNCHANGED <<store, pool, worker, sweep, life, remote, handler, used, dropped>>

\* Mutant of Requeue: a changed cleanup is not scheduled again.
NoRequeue(m, j) ==
    /\ job' = [job EXCEPT ![m] = j]
    /\ UNCHANGED sweep

\* An abort changed the cleanup while this attempt ran: schedule what it is now.
Requeue(m, j) ==
    /\ job' = [job EXCEPT ![m] = Reserved(j)]
    /\ QueueDurable(m, j)

\* completeDurableCleanup
CompleteDurable(k) ==
    LET m == k.mr
        j == [job[m] EXCEPT !.cleanupQueued = FALSE]
        rest == [event |-> k.event, outcome |-> k.outcome, aborted |-> k.aborted]
        left == [j EXCEPT !.cleanup = rest, !.latest = k.event] IN
    \/ /\ j.status # "cleanup" \/ j.cleanup = None
       /\ UNCHANGED <<store, sweep, queue, overflow>>
    \/ /\ j.status = "cleanup" /\ j.cleanup # None /\ k.version # j.version
       /\ Requeue(m, j)
       /\ UNCHANGED <<disk, faults, queue, overflow>>
    \/ /\ j.status = "cleanup" /\ j.cleanup # None /\ k.version = j.version
       /\ \/ /\ WorkTargets(k) # {}
             /\ Save(m, Reserved(left))
             /\ QueueDurable(m, left)
             /\ UNCHANGED <<queue, overflow>>
          \/ /\ WorkTargets(k) = {}
             /\ EndOrPromote(m)
             /\ UNCHANGED sweep

\* A best-effort release is not retried: what it could not release is given up,
\* or left to the shutdown sweep when the shutdown is what cancelled it.
CleanerComplete(c) ==
    LET k == cleaner[c].work IN
    /\ cleaner[c].step = "settled"
    /\ cleaner' = [cleaner EXCEPT ![c] = IdleCleaner]
    /\ IF k.durable
       THEN CompleteDurable(k) /\ UNCHANGED <<fallback, dropped>>
       ELSE /\ fallback' = IF cleanupCancelled THEN fallback \cup WorkTargets(k) ELSE fallback
            /\ dropped' = IF cleanupCancelled THEN dropped ELSE dropped \cup WorkTargets(k)
            /\ UNCHANGED <<store, sweep, queue, overflow>>
    /\ UNCHANGED <<running, worker, life, remote, handler, used>>

\* startDelayedCleanup; a timer that fires too early only starts another one.
TimerFires(m) ==
    LET j == [job[m] EXCEPT !.cleanupQueued = FALSE] IN
    /\ alive /\ m \in delayed
    /\ j.cleanup # None => ~Uncertain(j.cleanup)
    /\ delayed' = delayed \ {m}
    /\ IF j.status # "cleanup" \/ j.cleanup = None \/ ~job[m].cleanupQueued
       THEN UNCHANGED <<job, cleanupQueue, waiting>>
       ELSE /\ job' = [job EXCEPT ![m] = Reserved(j)]
            /\ IF closed THEN UNCHANGED <<cleanupQueue, waiting>> ELSE Enlist(m, j)
    /\ UNCHANGED <<disk, faults, pool, worker, cleaner, fallback, life, remote, handler, used,
                   dropped>>

-----------------------------------------------------------------------------
(* GitLab: an award that timed out commits late, or never.                 *)

LateCommit(t) ==
    /\ t \in inflight
    /\ mark' = [mark EXCEPT ![t] = "busy"]
    /\ inflight' = inflight \ {t}
    /\ UNCHANGED <<store, pool, worker, sweep, cleaner, fallback, life, open, handler, used, dropped>>

WindowEnds(t) ==
    /\ t \in open
    /\ open' = open \ {t} /\ inflight' = inflight \ {t}
    /\ UNCHANGED <<store, pool, worker, sweep, cleaner, fallback, life, mark, handler, used, dropped>>

-----------------------------------------------------------------------------
(* The life of the daemon.                                                 *)

\* Restore, one journal entry at a time.
RestoreJob(m) ==
    LET e == disk[m]
        queued == [NoJob EXCEPT !.status = "queued", !.latest = e.event, !.persisted = TRUE]
        settling == [NoJob EXCEPT !.status = "cleanup", !.latest = e.event,
                       !.pending = e.pending, !.version = 1, !.persisted = TRUE,
                       !.cleanup = [event |-> e.event, outcome |-> e.outcome,
                                    aborted |-> e.aborted]] IN
    /\ m \in toLoad
    /\ toLoad' = toLoad \ {m}
    /\ IF e.outcome = "none"
       THEN job' = [job EXCEPT ![m] = queued] /\ PushKey(m) /\ UNCHANGED sweep
       ELSE /\ job' = [job EXCEPT ![m] = Reserved(settling)]
            /\ QueueDurable(m, settling)
            /\ UNCHANGED <<queue, overflow>>
    /\ UNCHANGED <<disk, faults, running, worker, cleaner, fallback, phase, jobCancelled,
                   cleanupCancelled, remote, handler, used, dropped>>

\* An entry whose group is not configured any more, or with an outcome this version does
\* not know, is dropped with a warning instead.
DropEntry(m) ==
    /\ m \in toLoad /\ Use("vanish")
    /\ toLoad' = toLoad \ {m}
    /\ Forget(m)
    /\ dropped' = dropped \cup EntryTargets(disk[m])
    /\ UNCHANGED <<pool, sweep, worker, cleaner, fallback, phase, jobCancelled, cleanupCancelled,
                   remote, handler>>

Quiet == UNCHANGED <<store, pool, worker, sweep, cleaner, fallback, remote, handler, used, dropped>>

\* Restore has read the whole directory: workers and intake start.
Serve ==
    /\ phase = "restoring" /\ toLoad = {}
    /\ phase' = "up"
    /\ UNCHANGED <<jobCancelled, cleanupCancelled, toLoad>> /\ Quiet

\* Server.Run: the workers' context is cancelled first, ...
Stop ==
    /\ phase = "up" /\ Use("stop")
    /\ phase' = "stopping"
    /\ UNCHANGED <<jobCancelled, cleanupCancelled, toLoad, store, pool, worker, sweep, cleaner,
                   fallback, remote, handler, dropped>>

\* ... then intake is closed, ...
CloseIntake ==
    /\ phase = "stopping"
    /\ phase' = "closed"
    /\ UNCHANGED <<jobCancelled, cleanupCancelled, toLoad>> /\ Quiet

GraceExpires ==
    /\ phase = "closed" /\ ~jobCancelled
    /\ jobCancelled' = TRUE
    /\ UNCHANGED <<phase, cleanupCancelled, toLoad>> /\ Quiet

\* ... and once the workers are done the cleanup pool has to finish.
StopCleanup ==
    /\ phase = "closed"
    /\ \A w \in Worker : worker[w].step = "idle"
    /\ phase' = "settling" /\ jobCancelled' = TRUE
    /\ UNCHANGED <<cleanupCancelled, toLoad>> /\ Quiet

CleanupGraceExpires ==
    /\ phase = "settling" /\ ~cleanupCancelled
    /\ cleanupCancelled' = TRUE
    /\ cleanupQueue' = {}
    /\ fallback' = fallback \cup UNION {WorkTargets(k) : k \in {k \in cleanupQueue : ~k.durable}}
    /\ UNCHANGED <<store, pool, worker, waiting, delayed, cleaner, phase, jobCancelled, toLoad,
                   remote, handler, used, dropped>>

\* The webhook requests in the middle of a command, between its award and its job.
Cut == {n \in Note : handler[n] \in {"acked", "unsure"}}

\* The process is gone, and its memory and the requests it was handling with it.
Halt ==
    /\ phase' = "down" /\ jobCancelled' = FALSE /\ cleanupCancelled' = FALSE
    /\ toLoad' = {}
    /\ job' = [m \in MR |-> NoJob]
    /\ queue' = <<>> /\ overflow' = <<>> /\ running' = 0
    /\ worker' = [w \in Worker |-> IdleWorker]
    /\ cleanupQueue' = {} /\ waiting' = {} /\ delayed' = {}
    /\ cleaner' = [c \in Cleaner |-> IdleCleaner]
    /\ fallback' = {}
    /\ handler' = [n \in Note |-> IF n \in Cut THEN "lost" ELSE handler[n]]

\* releaseUnfinished: jobs on disk resume after the restart, one more write is
\* tried for the others, and what is still not on disk is settled or revoked.
Exit ==
    LET unsaved == {m \in MR : job[m].status # "none" /\ ~job[m].persisted} IN
    /\ phase = "settling" /\ cleanupQueue = {}
    /\ \A c \in Cleaner : cleaner[c].step = "idle"
    /\ \E saved \in SUBSET unsaved :
          LET lost == fallback \cup UNION {JobTargets(job[m]) : m \in unsaved \ saved}
              cleanupOf(t) == job[IF t \in Note THEN NoteMR[t] ELSE t].cleanup
              shown == [t \in lost |-> LET c == cleanupOf(t) IN
                          IF c # None /\ t \in c.event.targets THEN Shown(c.outcome)
                          ELSE "none"] IN
          /\ saved # {} => Journaled
          /\ lost \cap open = {}
          /\ \E failed \in SUBSET lost :
             \E applied \in SUBSET failed, gone \in SUBSET (lost \ failed) :
                /\ Replace(shown, failed, applied, gone)
                /\ dropped' = dropped \cup failed \cup Cut
          /\ disk' = [m \in MR |-> IF m \in saved THEN EntryOf(job[m]) ELSE disk[m]]
    /\ Halt
    /\ UNCHANGED used

\* A crash takes what only memory knew: jobs without a journal entry, best-effort
\* releases and the webhook requests being handled.
Crash ==
    /\ alive /\ Use("crash")
    /\ Halt
    /\ LET lostJobs == {m \in MR : ~job[m].persisted}
           releases == {k \in cleanupQueue : ~k.durable}
                       \cup {cleaner[c].work : c \in {c \in Cleaner : cleaner[c].step # "idle"
                                                          /\ ~cleaner[c].work.durable}}
       IN  dropped' = dropped \cup fallback \cup Cut
              \cup (UNION {JobTargets(job[m]) : m \in lostJobs})
              \cup (UNION {WorkTargets(k) : k \in releases})
    /\ UNCHANGED <<disk, faults, remote>>

Start ==
    /\ phase = "down"
    /\ phase' = "restoring"
    /\ toLoad' = {m \in MR : disk[m] # None}
    /\ UNCHANGED <<jobCancelled, cleanupCancelled>> /\ Quiet

-----------------------------------------------------------------------------

Init ==
    /\ job = [m \in MR |-> NoJob] /\ disk = [m \in MR |-> None] /\ faults = 0
    /\ queue = <<>> /\ overflow = <<>> /\ running = 0
    /\ worker = [w \in Worker |-> IdleWorker]
    /\ cleanupQueue = {} /\ waiting = {} /\ delayed = {}
    /\ cleaner = [c \in Cleaner |-> IdleCleaner]
    /\ fallback = {}
    /\ phase = "restoring" /\ jobCancelled = FALSE /\ cleanupCancelled = FALSE /\ toLoad = {}
    /\ mark = [t \in Target |-> "none"] /\ open = {} /\ inflight = {}
    /\ handler = [n \in Note |-> "new"]
    /\ used = [k \in EnvEvent |-> 0]
    /\ dropped = {}

WorkerStep(w) ==
    \/ Take(w) \/ CheckRequest(w) \/ StartReaction(w) \/ RunReview(w)
    \/ BeginSettlement(w) \/ SettleReview(w) \/ Finish(w)
CleanerStep(c) ==
    CleanerTake(c) \/ CleanerSettle(c) \/ CleanerCancelled(c) \/ CleanerComplete(c)
Lifecycle ==
    \/ Serve \/ Stop \/ CloseIntake \/ GraceExpires \/ StopCleanup \/ CleanupGraceExpires
    \/ Exit \/ Crash \/ Start

Next ==
    \/ \E m \in MR : \/ EnqueueEvent(m) \/ Abort(m) \/ TimerFires(m)
                   \/ RestoreJob(m) \/ DropEntry(m)
    \/ \E n \in Note : AwardAck(n) \/ HandleReview(n)
    \/ \E w \in Worker : WorkerStep(w)
    \/ \E c \in Cleaner : CleanerStep(c)
    \/ \E t \in Target : LateCommit(t) \/ WindowEnds(t)
    \/ Lifecycle

Spec == Init /\ [][Next]_vars

\* What the code's scheduling gives: goroutines that can run do, a review process
\* ends, an uncertainty window passes, and a stopped daemon is started again.
Fairness ==
    /\ \A w \in Worker : WF_vars(WorkerStep(w))
    /\ \A c \in Cleaner : WF_vars(CleanerStep(c))
    /\ \A m \in MR : WF_vars(TimerFires(m)) /\ WF_vars(RestoreJob(m))
    /\ \A n \in Note : WF_vars(HandleReview(n))
    /\ \A t \in Target : WF_vars(WindowEnds(t))
    /\ WF_vars(Serve) /\ WF_vars(CloseIntake) /\ WF_vars(StopCleanup)
    /\ WF_vars(CleanupGraceExpires) /\ WF_vars(Exit) /\ WF_vars(Start)
FairSpec == Spec /\ Fairness

-----------------------------------------------------------------------------
(* Properties.                                                             *)

\* The process knows of this merge request: what there is to restore is restored.
Known(m) == alive /\ m \notin toLoad

\* A job has an event, a job in cleanup has cleanup work, a queued one has none, and
\* no job is an empty record.
JobShape(j) ==
    /\ j.status = "none" => j = NoJob
    /\ j.status # "none" => j.latest # None
    /\ j.status = "queued" => j.cleanup = None
    /\ j.status = "cleanup" => j.cleanup # None
EntryShape(e) == e.outcome = "none" => e.aborted = None /\ e.pending = None
WorkerShape(v) ==
    /\ v.step # "idle" => v.mr \in MR /\ v.event # None
    /\ v.step \in {"begin", "settle"} => v.outcome \in Outcome
    /\ v.step = "finish" => v.outcome # "none"

StoreOK ==
    /\ job \in [MR -> Job] /\ disk \in [MR -> Entry \cup {None}] /\ faults \in Nat
    /\ \A m \in MR : JobShape(job[m]) /\ (disk[m] # None => EntryShape(disk[m]))
PoolOK ==
    queue \in Seq(MR) /\ Len(queue) <= QueueCap /\ overflow \in Seq(MR) /\ running \in Int
WorkerOK == worker \in [Worker -> WorkerState] /\ \A w \in Worker : WorkerShape(worker[w])
SweepOK == cleanupQueue \subseteq Work /\ waiting \subseteq MR /\ delayed \subseteq MR
CleanerOK ==
    /\ cleaner \in [Cleaner -> CleanerState]
    /\ \A c \in Cleaner : cleaner[c].step # "idle" => cleaner[c].work # None
LifeOK ==
    /\ phase \in Phase /\ jobCancelled \in BOOLEAN /\ cleanupCancelled \in BOOLEAN
    /\ toLoad \subseteq MR
RemoteOK == mark \in [Target -> Mark] /\ open \subseteq Target /\ inflight \subseteq Target
RequestsOK ==
    /\ handler \in [Note -> {"new", "acked", "unsure", "done", "lost"}]
    /\ used \in [EnvEvent -> Nat] /\ fallback \subseteq Target /\ dropped \subseteq Target

\* Every variable has its type; no nil event, job or cleanup is ever dereferenced.
TypeOK ==
    StoreOK /\ PoolOK /\ WorkerOK /\ SweepOK /\ CleanerOK /\ LifeOK /\ RemoteOK /\ RequestsOK

\* What the state directory holds for a job is exactly what a restart has to do,
\* or nothing: persist, persistCleanup and remove are called on every path that
\* changes the unfinished work, in the critical section that changes it.
Coherent(m) ==
    disk[m] = IF job[m].status # "none" /\ job[m].persisted THEN EntryOf(job[m]) ELSE None
JournalCoherent == \A m \in MR : Known(m) => Coherent(m)

\* Every reaction the bot left "in progress", or whose award may still land, has
\* someone who will replace it, was given up by a path that logs it, or was known only
\* to a process that is gone: a job without a journal entry, a webhook request cut off.
Held(t) ==
    \/ t \in Note /\ handler[t] \in {"acked", "unsure"}
    \/ \E m \in MR : Known(m) /\ t \in JobTargets(job[m])
    \/ \E m \in MR : ~Known(m) /\ disk[m] # None /\ t \in EntryTargets(disk[m])
    \/ \E k \in cleanupQueue : t \in WorkTargets(k)
    \/ \E c \in Cleaner : cleaner[c].step # "idle" /\ t \in WorkTargets(cleaner[c].work)
    \/ t \in fallback
NoStrandedReaction == \A t \in Target :
    mark[t] = "busy" \/ t \in inflight => Held(t) \/ t \in dropped

\* No merge request is reviewed by two workers at once, a worker's job is marked
\* running, and Dispatcher.running counts exactly those jobs.
OneReviewPerRequest ==
    /\ \A v, w \in Worker : worker[v].mr = worker[w].mr => v = w \/ worker[v].mr = None
    /\ {m \in MR : job[m].status = "running"}
          = {worker[w].mr : w \in {w \in Worker : worker[w].step # "idle"}}
    /\ running = Cardinality({m \in MR : job[m].status = "running"})

\* While workers run, a queued job's key is in the channel or parked beside it,
\* and keys are parked only while the channel is full: stale keys of aborted jobs
\* and re-runs never leave a job that nobody will pick up.
QueuedHasKey ==
    /\ phase \in {"restoring", "up"} => \A m \in MR : job[m].status = "queued" =>
          m \in {queue[i] : i \in DOMAIN queue} \cup {overflow[i] : i \in DOMAIN overflow}
    /\ overflow # <<>> => Len(queue) = QueueCap

\* Durable cleanup is always on its way: one reservation, one carrier.
CarriersOf(m) ==
    Cardinality({k \in cleanupQueue : k.durable /\ k.mr = m})
    + Cardinality({c \in Cleaner : cleaner[c].step # "idle" /\ cleaner[c].work.durable
                                    /\ cleaner[c].work.mr = m})
    + (IF m \in waiting THEN 1 ELSE 0) + (IF m \in delayed THEN 1 ELSE 0)
CleanupHasCarrier == ~closed => \A m \in MR :
    /\ CarriersOf(m) = IF job[m].cleanupQueued THEN 1 ELSE 0
    /\ job[m].cleanupQueued <=> job[m].status = "cleanup"

\* The merge of a running review and the event parked behind it fits the cap, so
\* writing it to the journal loses no note.
ResumeFits == \A m \in MR : job[m].status = "running" /\ job[m].cleanup = None =>
    Cardinality(Notes(Resume(job[m]))) <= MaxAckNotes

\* The notes of a review aborted behind a cleanup never show that cleanup's outcome.
RevokedNotDecorated == \A m \in MR : job[m].cleanup # None =>
    \A n \in MaybeTargets(job[m].cleanup.aborted) : mark[n] \in {"none", "busy"}

\* A prolonged outage of GitLab cannot make the set of jobs grow: those that wait
\* for a worker or for cleanup are admitted only up to the queue's capacity.
BacklogBounded ==
    Cardinality({m \in MR : job[m].status # "none"}) <= QueueCap + Cardinality(Worker)

\* A reaction "in progress" does not stay: it is replaced, or nobody is left to replace it
\* (`dropped`): a path that logs it gave it up, or the process ended that alone knew of it.
ReactionsSettle == \A t \in Target :
    mark[t] = "busy" ~> mark[t] # "busy" \/ t \in dropped

\* The webhook requests have drained when the dispatcher stops (stopAckCleanup's comment):
\* none is cut off between its award and its job, with the reaction left on its note.
HandlersDrained == phase = "down" => \A n \in Note : handler[n] = "lost" => mark[n] # "busy"

\* An orderly shutdown comes to its end.
ShutdownCompletes == phase = "stopping" ~> phase = "down"
=============================================================================
