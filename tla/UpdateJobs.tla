----------------------------- MODULE UpdateJobs -----------------------------
(***************************************************************************)
(* A chat that agrees to a correction leaves a durable job; the daemon's   *)
(* update worker runs the jobs of a merge request one after the other, in  *)
(* child processes that checkpoint what they have done, until the review   *)
(* is corrected and the thread says so.  The review itself is abstract: of *)
(* an update only its activation and its commit are seen (ReviewUpdate     *)
(* shows how GitLab's notes provide them).                                 *)
(***************************************************************************)
EXTENDS Integers, Sequences, FiniteSets

CONSTANTS
    Job, MR, MrOf,       \* the jobs, and the merge request of each
    Child, None, Chat,   \* child processes; Chat holds the lock of the job it schedules
    Limit,               \* update_max_concurrent
    MaxAttempts, MaxConflicts, \* 3 and 5 in the code
    FaultLimit, CrashLimit, MoveLimit, MuteLimit, AskLimit, \* bounds: calls that fail, processes
        \* that die, evidence that moves, threads muted or deleted, corrections asked for
    EventLimit           \* bound: all of these together

ASSUME UpdateJobsAssumption ==
    /\ MrOf \in [Job -> MR]
    /\ None \notin Child \cup Job \cup {Chat} /\ Chat \notin Child
    /\ {Limit, MaxAttempts, MaxConflicts} \subseteq Nat \ {0}

VARIABLES
    store,    \* [Job -> its checkpoint on disk, or None]
    created,  \* the jobs in the order of their creation
    backoff,  \* the jobs whose NextAttempt is in the future
    jobLock,  \* [Job -> holder of the "update-job" lock]
    exec,     \* [MR -> holder of the "update-execution" lock]
    child,    \* [Child -> the child process, or None]
    active,   \* worker: [MR -> the child it runs, or None]
    deferred, \* worker: the jobs that wait for the next tick
    context,  \* [MR -> Nat] the review, the diff and the evidence, counted by their changes
    pending,  \* [MR -> the job whose transaction is activated, or None]
    commits,  \* [MR -> the jobs whose update was committed, in order]
    thread,   \* [Job -> its discussion: "open", "muted" or "deleted"]
    eyes,     \* the jobs whose scheduling reply shows the bot's eyes
    posted,   \* [Job -> the follow-ups in its discussion]
    used      \* [event kind -> how often], for the bounds

review == <<context, pending, commits>>
worker == <<active, deferred>>
discussion == <<thread, eyes, posted>>
vars == <<store, created, backoff, jobLock, exec, child, worker, review, discussion, used>>

Followup == {"updated", "checked", "failed", "conflicted"}
Plan == [base : Nat, staged : BOOLEAN]
Checkpoint == [attempts : 0..MaxAttempts, conflicts : 0..MaxConflicts, plan : Plan \cup {None},
               followup : Followup \cup {None}, done : BOOLEAN]
Process == [job : Job, mem : Checkpoint \cup {None}, base : Nat,
            pc : {"start", "recover", "plan", "thread", "decide", "evaluate", "publish", "staged",
                  "apply", "published", "post", "finish"}]
Fresh == [attempts |-> 0, conflicts |-> 0, plan |-> None, followup |-> None, done |-> FALSE]

\* None is a nil pointer or an empty string.
ASSUME NoneAssumption == None \notin Followup \cup Plan \cup Checkpoint \cup Process

Bound == [fault |-> FaultLimit, crash |-> CrashLimit, move |-> MoveLimit, mute |-> MuteLimit,
          ask |-> AskLimit]
Use(k) ==
    /\ used[k] < Bound[k]
    /\ used.fault + used.crash + used.move + used.mute + used.ask < EventLimit
    /\ used' = [used EXCEPT ![k] = @ + 1]

Committed(j) == \E i \in 1..Len(commits[MrOf[j]]) : commits[MrOf[j]][i] = j

\* Mutant: jobs that back off are left out.
PendingJobs(m) ==
    {i \in 1..Len(created) : MrOf[created[i]] = m /\ ~store[created[i]].done /\ created[i] \notin backoff}

\* Unfinished: the places of the jobs of m that wait; one that backs off is among them.
Unfinished(m) == {i \in 1..Len(created) : MrOf[created[i]] = m /\ ~store[created[i]].done}
Oldest(j) ==
    \E i \in Unfinished(MrOf[j]) : created[i] = j /\ \A k \in Unfinished(MrOf[j]) : i <= k

-----------------------------------------------------------------------------
(* The chat that schedules the job: enqueue.                               *)

\* One job for a question, however often it is delivered; the chat keeps its lock.
Enqueue(j) ==
    /\ jobLock[j] = None /\ thread[j] = "open" /\ Use("ask")
    /\ IF store[j] = None
       THEN store' = [store EXCEPT ![j] = Fresh] /\ created' = Append(created, j)
       ELSE UNCHANGED <<store, created>>
    /\ IF store[j] # None /\ store[j].done
       THEN UNCHANGED jobLock
       ELSE jobLock' = [jobLock EXCEPT ![j] = Chat]
    /\ UNCHANGED <<backoff, exec, child, worker, review, discussion>>

\* Its reply is posted, with the eyes of a job under way, or it died or failed before.
Scheduled(j) ==
    /\ jobLock[j] = Chat
    /\ jobLock' = [jobLock EXCEPT ![j] = None]
    /\ \/ eyes' = eyes \cup {j} /\ UNCHANGED used
       \/ eyes' = eyes /\ Use("fault")
    /\ UNCHANGED <<store, created, backoff, exec, child, worker, review, thread, posted>>

-----------------------------------------------------------------------------
(* StartUpdateWorker.                                                      *)

\* The oldest job of a merge request runs; what keeps it from running also keeps the ones
\* behind it.
Launch(m) ==
    /\ active[m] = None /\ Cardinality({n \in MR : active[n] # None}) < Limit
    /\ \E j \in Job :
       /\ MrOf[j] = m /\ Oldest(j)
       /\ j \notin deferred /\ j \notin backoff /\ thread[j] # "muted"
       /\ \E p \in Child : child[p] = None
       /\ LET p == CHOOSE q \in Child : child[q] = None IN
             /\ child' = [child EXCEPT ![p] = [job |-> j, pc |-> "start", mem |-> None, base |-> 0]]
             /\ active' = [active EXCEPT ![m] = p]
       /\ deferred' = deferred \cup {j}
    /\ UNCHANGED <<store, created, backoff, jobLock, exec, review, discussion, used>>

Tick ==
    /\ deferred # {} /\ deferred' = {}
    /\ UNCHANGED <<store, created, backoff, jobLock, exec, child, active, review, discussion, used>>

BackoffEnds(j) ==
    /\ j \in backoff /\ backoff' = backoff \ {j}
    /\ UNCHANGED <<store, created, jobLock, exec, child, worker, review, discussion, used>>

-----------------------------------------------------------------------------
(* A child: runUpdateJob.                                                  *)

At(p, pc) == child[p] # None /\ child[p].pc = pc
MrOfChild(p) == MrOf[child[p].job]

\* Mutant: a slot is given back, the locks of a process that died are not.
ExitHolding(p) ==
    /\ child' = [child EXCEPT ![p] = None]
    /\ active' = [m \in MR |-> IF active[m] = p THEN None ELSE active[m]]
    /\ UNCHANGED <<jobLock, exec, deferred>>

\* It ends: its locks are free, the worker that waits for it goes on.
Exit(p) ==
    /\ child' = [child EXCEPT ![p] = None]
    /\ jobLock' = [j \in Job |-> IF jobLock[j] = p THEN None ELSE jobLock[j]]
    /\ exec' = [m \in MR |-> IF exec[m] = p THEN None ELSE exec[m]]
    /\ active' = [m \in MR |-> IF active[m] = p THEN None ELSE active[m]]
    /\ UNCHANGED deferred

Stay == UNCHANGED <<jobLock, exec, worker>>
Go(p, pc, mem) == child' = [child EXCEPT ![p].pc = pc, ![p].mem = mem] /\ Stay

\* A checkpoint that is not written leaves the earlier one.
Save(p, mem) == store' = [store EXCEPT ![child[p].job] = mem]

\* Both locks without waiting, then the checks: not done, not early, no earlier job.
Start(p) ==
    /\ At(p, "start")
    /\ LET j == child[p].job IN
       IF /\ exec[MrOf[j]] = None /\ jobLock[j] = None
          /\ ~store[j].done /\ j \notin backoff /\ Oldest(j)
       THEN /\ exec' = [exec EXCEPT ![MrOf[j]] = p]
            /\ jobLock' = [jobLock EXCEPT ![j] = p]
            /\ child' = [child EXCEPT ![p].pc = "recover", ![p].mem = store[j]]
            /\ UNCHANGED worker
       ELSE Exit(p)
    /\ UNCHANGED <<store, created, backoff, review, discussion, used>>

Commit(m, j) ==
    /\ commits' = [commits EXCEPT ![m] = Append(@, j)]
    /\ context' = [context EXCEPT ![m] = @ + 1]
    /\ pending' = [pending EXCEPT ![m] = None]

\* RecoverReviewUpdates: what is activated gets committed.
RecoverPending(m) ==
    IF pending[m] = None THEN UNCHANGED review ELSE Commit(m, pending[m])

Recover(p) ==
    /\ At(p, "recover")
    /\ \/ RecoverPending(MrOfChild(p)) /\ Go(p, "plan", child[p].mem) /\ UNCHANGED used
       \/ (RecoverPending(MrOfChild(p)) \/ UNCHANGED review) /\ Exit(p) /\ Use("fault")
    /\ UNCHANGED <<store, created, backoff, discussion>>

\* Mutant: the follow-up is forgotten with the plan.
RecoveredSilently(j, mem) ==
    IF mem.plan = None THEN mem
    ELSE IF Committed(j) \/ mem.plan.staged THEN [mem EXCEPT !.plan = None]
    ELSE mem

\* recoverUpdateJobPlan: the plan that is committed became the follow-up; one that was staged
\* and is not committed is void.  "updated" is the report that such a plan carries (it may say that
\* only the check is complete), "checked" the one of a decision to publish nothing.
Recovered(j, mem) ==
    IF mem.plan = None THEN mem
    ELSE IF Committed(j) THEN [mem EXCEPT !.followup = "updated", !.plan = None]
    ELSE IF mem.plan.staged THEN [mem EXCEPT !.plan = None]
    ELSE mem

RecoverPlan(p) ==
    /\ At(p, "plan")
    /\ LET mem == Recovered(child[p].job, child[p].mem) IN
       \/ Save(p, mem) /\ Go(p, "thread", mem) /\ UNCHANGED used
       \/ child[p].mem.plan # None /\ Exit(p) /\ Use("fault") /\ UNCHANGED store
    /\ UNCHANGED <<created, backoff, review, discussion>>

\* Mutant: one attempt too many.
SpentLate(mem) == mem.attempts > MaxAttempts \/ mem.conflicts > MaxConflicts

Spent(mem) == mem.attempts >= MaxAttempts \/ mem.conflicts >= MaxConflicts

\* The discussion is gone: nobody to tell.  Else the job goes on where it was.  The discussion is
\* read, the eyes are changed and the job is saved, in this order, and each of it may fail.
Thread(p) ==
    /\ At(p, "thread")
    /\ LET j == child[p].job
           mem == child[p].mem
           lost == [mem EXCEPT !.plan = None,
                               !.followup = IF mem.conflicts >= MaxConflicts THEN "conflicted"
                                            ELSE "failed"]
           shown == CASE thread[j] = "deleted" -> eyes \ {j}
                      [] thread[j] # "deleted" /\ mem.followup = None -> eyes \cup {j}
                      [] OTHER -> eyes
       IN  \/ /\ eyes' = shown /\ UNCHANGED used
              /\ CASE thread[j] = "deleted" ->
                         Save(p, [mem EXCEPT !.plan = None, !.done = TRUE]) /\ Exit(p)
                   [] thread[j] # "deleted" /\ mem.followup # None ->
                         Go(p, "post", mem) /\ UNCHANGED store
                   [] thread[j] # "deleted" /\ mem.followup = None /\ Spent(mem) ->
                         Save(p, lost) /\ Go(p, "post", lost)
                   [] OTHER ->
                         LET next == [mem EXCEPT !.attempts = @ + 1] IN
                         Save(p, next) /\ Go(p, "decide", next)
           \/ Use("fault") /\ eyes' \in {eyes, shown} /\ Exit(p) /\ UNCHANGED store
    /\ UNCHANGED <<created, backoff, review, thread, posted>>

\* Mutant: a job that used its attempts up is given up before the recovery.
GiveUp(p, mem, conflict) ==
    LET next == IF conflict
                THEN [mem EXCEPT !.attempts = @ - 1, !.conflicts = @ + 1, !.plan = None]
                ELSE mem
    IN  /\ Save(p, IF next.attempts >= MaxAttempts
                    THEN [next EXCEPT !.plan = None, !.followup = "failed"] ELSE next)
        /\ backoff' = backoff \cup {child[p].job}
        /\ Exit(p)

\* The attempt failed (recordUpdateRetry); nobody is told before the next one has looked.
Retry(p, mem, conflict) ==
    /\ Save(p, IF conflict THEN [mem EXCEPT !.attempts = @ - 1, !.conflicts = @ + 1, !.plan = None]
               ELSE mem)
    /\ backoff' = backoff \cup {child[p].job}
    /\ Exit(p)

\* The thread may not be answered any more: the job is over.
Suppress(p, mem) ==
    /\ eyes' = eyes \ {child[p].job}
    /\ Save(p, [mem EXCEPT !.done = TRUE])
    /\ Exit(p) /\ UNCHANGED backoff

\* executeJob: a plan is used again while what it is about did not move.
Decide(p) ==
    /\ At(p, "decide")
    /\ LET now == context[MrOfChild(p)]
           mem == child[p].mem
           fits == mem.plan # None /\ mem.plan.base = now
           kept == IF fits THEN mem ELSE [mem EXCEPT !.plan = None]
       IN  \/ thread[child[p].job] = "open"
              /\ Save(p, kept)
              /\ child' = [child EXCEPT ![p].pc = IF fits THEN "publish" ELSE "evaluate",
                                        ![p].mem = kept, ![p].base = now]
              /\ Stay /\ UNCHANGED <<backoff, eyes, used>>
           \/ thread[child[p].job] = "muted" /\ Suppress(p, mem) /\ UNCHANGED used
           \/ thread[child[p].job] = "deleted" /\ Retry(p, mem, FALSE) /\ UNCHANGED <<eyes, used>>
           \/ Use("fault") /\ Retry(p, mem, FALSE) /\ UNCHANGED eyes
    /\ UNCHANGED <<created, review, thread, posted>>

\* run: the models decide; a decision to publish is saved first.
Evaluate(p) ==
    /\ At(p, "evaluate")
    /\ LET mem == child[p].mem
           planned == [mem EXCEPT !.plan = [base |-> child[p].base, staged |-> FALSE]]
           checked == [mem EXCEPT !.followup = "checked"]
           moved == context[MrOfChild(p)] # child[p].base
       IN  \/ Save(p, planned) /\ Go(p, "publish", planned) /\ UNCHANGED <<backoff, used>>
           \/ ~moved /\ Save(p, checked) /\ Go(p, "post", checked) /\ UNCHANGED <<backoff, used>>
           \/ moved /\ Retry(p, mem, TRUE) /\ UNCHANGED used
           \/ Use("fault") /\ Retry(p, mem, FALSE)
    /\ UNCHANGED <<created, review, discussion>>

\* UpdateReview, under the lock of the merge request, up to the activation.
Publish(p) ==
    /\ At(p, "publish")
    /\ LET j == child[p].job
           mem == child[p].mem
           moved == context[MrOf[j]] # child[p].base
           activate == pending' = [pending EXCEPT ![MrOf[j]] = j] /\ UNCHANGED <<context, commits>>
       IN  \/ moved /\ Retry(p, mem, TRUE) /\ UNCHANGED <<review, eyes, used>>
           \/ thread[j] = "muted" /\ Suppress(p, mem) /\ UNCHANGED <<review, used>>
           \/ thread[j] = "deleted" /\ Retry(p, mem, FALSE) /\ UNCHANGED <<review, eyes, used>>
           \/ Use("fault") /\ Retry(p, mem, FALSE) /\ UNCHANGED <<review, eyes>>
           \/ ~moved /\ thread[j] = "open" /\ activate
              /\ \/ Go(p, "staged", mem) /\ UNCHANGED <<store, backoff, eyes, used>>
                 \/ Use("fault") /\ Retry(p, mem, FALSE) /\ UNCHANGED eyes
    /\ UNCHANGED <<created, thread, posted>>

\* markPlanStaged, before a visible note changes.
MarkStaged(p) ==
    /\ At(p, "staged")
    /\ LET mem == [child[p].mem EXCEPT !.plan.staged = TRUE] IN
       \/ Save(p, mem) /\ Go(p, "apply", mem) /\ UNCHANGED <<backoff, used>>
       \/ Use("fault") /\ Retry(p, mem, FALSE)
    /\ UNCHANGED <<created, review, discussion>>

Apply(p) ==
    /\ At(p, "apply")
    /\ \/ /\ Commit(MrOfChild(p), child[p].job) /\ Go(p, "published", child[p].mem)
          /\ UNCHANGED <<store, backoff, used>>
       \/ /\ Commit(MrOfChild(p), child[p].job) \/ UNCHANGED review
          /\ Use("fault") /\ Retry(p, child[p].mem, FALSE)
    /\ UNCHANGED <<created, discussion>>

Published(p) ==
    /\ At(p, "published")
    /\ LET mem == [child[p].mem EXCEPT !.followup = "updated", !.plan = None] IN
       \/ Save(p, mem) /\ Go(p, "post", mem) /\ UNCHANGED <<backoff, used>>
       \/ Use("fault") /\ Retry(p, mem, FALSE)
    /\ UNCHANGED <<created, review, discussion>>

\* postUpdateJobMessage: unless an earlier try did, or the thread may not be answered.
Post(p) ==
    /\ At(p, "post")
    /\ LET j == child[p].job
           post == IF posted[j] = <<>> /\ thread[j] = "open"
                   THEN posted' = [posted EXCEPT ![j] = Append(@, child[p].mem.followup)]
                   ELSE UNCHANGED posted
       IN  \/ thread[j] # "deleted" /\ post /\ Go(p, "finish", child[p].mem) /\ UNCHANGED used
           \/ thread[j] = "deleted" /\ Exit(p) /\ UNCHANGED <<posted, used>>
           \/ (post \/ UNCHANGED posted) /\ Exit(p) /\ Use("fault")
    /\ UNCHANGED <<store, created, backoff, review, thread, eyes>>

\* Mutant: the job is done before the eyes are gone.
FinishFirst(p) ==
    /\ At(p, "finish")
    /\ Save(p, [child[p].mem EXCEPT !.done = TRUE])
    /\ \/ eyes' = eyes \ {child[p].job} /\ UNCHANGED used
       \/ UNCHANGED eyes /\ Use("fault")
    /\ Exit(p)
    /\ UNCHANGED <<created, backoff, review, thread, posted>>

\* finishUpdateJob: the eyes go before the job does.
Finish(p) ==
    /\ At(p, "finish")
    /\ \/ /\ eyes' = eyes \ {child[p].job}
          /\ Save(p, [child[p].mem EXCEPT !.done = TRUE]) /\ UNCHANGED used
       \/ /\ eyes' \in {eyes, eyes \ {child[p].job}}
          /\ Use("fault") /\ UNCHANGED store
    /\ Exit(p)
    /\ UNCHANGED <<created, backoff, review, thread, posted>>

ChildStep(p) ==
    \/ Start(p) \/ Recover(p) \/ RecoverPlan(p) \/ Thread(p) \/ Decide(p) \/ Evaluate(p)
    \/ Publish(p) \/ MarkStaged(p) \/ Apply(p) \/ Published(p) \/ Post(p) \/ Finish(p)

-----------------------------------------------------------------------------
(* What happens to them.                                                   *)

\* A child dies, is killed or times out: what it did not save is lost.
ChildDies(p) ==
    /\ child[p] # None /\ Use("crash")
    /\ Exit(p)
    /\ UNCHANGED <<store, created, backoff, review, discussion>>

\* The daemon dies and is started again; its children go on without it.
DaemonDies ==
    /\ Use("crash")
    /\ active' = [m \in MR |-> None] /\ deferred' = {}
    /\ UNCHANGED <<store, created, backoff, jobLock, exec, child, review, discussion>>

\* Replies, pushes and other corrections.
Moves(m) ==
    /\ Use("move")
    /\ context' = [context EXCEPT ![m] = @ + 1]
    /\ UNCHANGED <<store, created, backoff, jobLock, exec, child, worker, pending, commits, discussion>>

\* Others finish what is staged, too; while it is applied they wait for the lock.
OthersRecover(m) ==
    /\ pending[m] # None /\ ~\E p \in Child : At(p, "staged") \/ At(p, "apply")
    /\ Commit(m, pending[m])
    /\ UNCHANGED <<store, created, backoff, jobLock, exec, child, worker, discussion, used>>

ThreadCloses(j) ==
    /\ thread[j] = "open" /\ Use("mute")
    /\ \E t \in {"muted", "deleted"} : thread' = [thread EXCEPT ![j] = t]
    /\ UNCHANGED <<store, created, backoff, jobLock, exec, child, worker, review, eyes, posted>>

Init ==
    /\ store = [j \in Job |-> None] /\ created = <<>> /\ backoff = {}
    /\ jobLock = [j \in Job |-> None] /\ exec = [m \in MR |-> None]
    /\ child = [p \in Child |-> None]
    /\ active = [m \in MR |-> None] /\ deferred = {}
    /\ context = [m \in MR |-> 0] /\ pending = [m \in MR |-> None]
    /\ commits = [m \in MR |-> <<>>]
    /\ thread = [j \in Job |-> "open"] /\ eyes = {} /\ posted = [j \in Job |-> <<>>]
    /\ used = [k \in DOMAIN Bound |-> 0]

Next ==
    \/ \E j \in Job : Enqueue(j) \/ Scheduled(j) \/ BackoffEnds(j) \/ ThreadCloses(j)
    \/ \E m \in MR : Launch(m) \/ Moves(m) \/ OthersRecover(m)
    \/ \E p \in Child : ChildStep(p) \/ ChildDies(p)
    \/ Tick \/ DaemonDies

Spec == Init /\ [][Next]_vars

\* Processes go on, timers fire, the worker polls.
Fairness ==
    /\ \A j \in Job : WF_vars(Scheduled(j)) /\ WF_vars(BackoffEnds(j))
    /\ \A m \in MR : WF_vars(Launch(m))
    /\ \A p \in Child : WF_vars(ChildStep(p))
    /\ WF_vars(Tick)

FairSpec == Spec /\ Fairness

-----------------------------------------------------------------------------
(* Properties.                                                             *)

\* Every variable has its type.
TypeOK ==
    /\ store \in [Job -> Checkpoint \cup {None}] /\ created \in Seq(Job)
    /\ child \in [Child -> Process \cup {None}]
    /\ context \in [MR -> Nat] /\ commits \in [MR -> Seq(Job)]
    /\ thread \in [Job -> {"open", "muted", "deleted"}]
    /\ jobLock \in [Job -> Child \cup {None, Chat}] /\ exec \in [MR -> Child \cup {None}]
    /\ active \in [MR -> Child \cup {None}] /\ deferred \cup backoff \cup eyes \subseteq Job
    /\ pending \in [MR -> Job \cup {None}] /\ posted \in [Job -> Seq(Followup)]

Working(p) == child[p] # None /\ child[p].pc # "start"

\* The corrections of a merge request are made one at a time and in the order they were asked
\* for: none overtakes one that waits for a retry, and no child of a daemon that died runs
\* beside the one of its successor (the execution lock, Unfinished, runUpdateJob).
InOrder ==
    \A p, q \in Child :
        Working(p) =>
            /\ q # p /\ Working(q) => MrOfChild(q) # MrOfChild(p)
            /\ \A i, k \in 1..Len(created) :
                  i < k /\ created[k] = child[p].job /\ MrOf[created[i]] = MrOfChild(p)
                      => store[created[i]].done

\* What is staged or committed can be traced on disk to its decision until the follow-up has
\* it: no crash makes the models decide again about a correction that was made
\* (recoverUpdateJobPlan, the order of the checkpoints).
PlanOnDisk ==
    \A j \in Job :
        pending[MrOf[j]] = j \/ (Committed(j) /\ store[j].followup = None) =>
            store[j].plan # None

\* A correction is published once, the thread hears of it once, and it hears the truth: of an
\* update that was made, and of a failure only when none was and none will be.
TruthfulFollowup ==
    \A j \in Job :
        /\ Cardinality({i \in 1..Len(commits[MrOf[j]]) : commits[MrOf[j]][i] = j}) <= 1
        /\ Len(posted[j]) <= 1
        /\ posted[j] # <<>> =>
              IF posted[j][1] = "updated" THEN Committed(j)
              ELSE ~Committed(j) /\ pending[MrOf[j]] # j

\* A job that is done leaves nothing behind: no eyes on its reply, no staged update, and the
\* thread that could be told was told.
DoneIsFinished ==
    \A j \in Job :
        store[j] # None /\ store[j].done =>
            /\ j \notin eyes /\ pending[MrOf[j]] # j
            /\ thread[j] = "open" => posted[j] # <<>>

\* A job gets done, unless it or one before it waits for a thread that was muted.
JobsFinish ==
    \A j \in Job : store[j] # None ~>
        \/ store[j] # None /\ store[j].done
        \/ \E i \in Job : MrOf[i] = MrOf[j] /\ thread[i] = "muted"
=============================================================================
