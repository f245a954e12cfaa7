# NickPit: a TLA+ development of the review daemon

NickPit reviews merge requests with language-model agents. `nickpit gitlab serve`
runs it as a webhook daemon: GitLab delivers pushes, labels, emojis and note
commands; the daemon coalesces them into one job per merge request, runs each review
as a child process, shows its progress as emoji reactions and survives restarts
through a state directory. Questions in its review threads are answered by
other children, and a correction agreed on there becomes a durable job that edits the
published review. Inside a child, agents call models and tools under a limiter and time
budgets. This directory specifies that program in TLA+, checks it with TLC on small
instances and proves its central invariants with TLAPS.

## Inventory

| Component | State | Operations | What is hard | What makes it correct |
|---|---|---|---|---|
| Review dispatcher (`internal/serve/dispatcher.go`) | job per merge request, key channel and overflow, cleanup queue, reservations, timers | Enqueue, Abort, take, finish, durable cleanup, Restore, shutdown | two locks, remote requests outside them, versions, bounded queues | nothing accepted is lost, nothing aborted comes back, one review per request, every reaction is settled |
| Review worker (`worker.go`) | the event it took, the outcome | checks, start reaction, child, settlement | aborts and shutdown during each step; awards that time out and commit later | outcome and reactions agree |
| Journal (`journal.go`) | one file per request, tombstones, retirements | persist, persistCleanup, remove, load | failed writes and unlinks, crash between them, background retries | a restart finds exactly the unfinished work |
| Handler (`handler.go`) | chat slots, note ids seen, keyed locks | ServeHTTP, ackNote, handleCommand, chat | acknowledgement before the job exists, duplicates | each delivery handled once, chat bounded |
| Server (`server.go`) | phase | Run | shutdown order | ends, and loses nothing that is journaled |
| Topic cache (`topics.go`) | entries with TTL, lookup in flight | Get | shared lookups and cancellation | no stale answer, one request |
| Correction jobs (`update_jobs.go`, `update_worker.go`, `cmd/nickpit/chat_update_job.go`) | checkpoint per job | enqueue, claim, evaluate, publish, follow up | crash between checkpoints, order per request, retries | finished once, in order |
| Review update (`internal/scm/gitlab/update.go`, `reconcile.go`, `lock.go`) | pending update in hidden markers | stage, publish, recover | several note writes, other processes | a review is all old or all new in the end |
| Limiter, time budget, pipeline (`internal/review`) | slots, deadlines, lanes | acquire, release, run | nested loops, cancellation | no deadlock, never over the limit |
| Agent loop (`agent_loop.go`, `agent_budget.go`), LLM client (`internal/llm`) | messages, tool counters, retries, usage | run, finalize, call | a call cut by a deadline, loops in loops, retries at three levels | bounded; what was paid for and what was found out is kept |
| Deduplication, sessions, retrieval, git, output | none or one file | pure functions, I/O | - | tests of the repository |

Components interact by calls under `Dispatcher.mu` and `cleanupMu`, by the channels
`queue` and `cleanupQueue`, by contexts (a job's, the workers', the cleanup pool's),
and through GitLab and the state directory.

## Modules

| Module | What it is |
|---|---|
| `Dispatcher` | The daemon's queue: intake, abort, review workers, cleanup workers, timers, the life of the process, GitLab's reactions and the state directory as the code uses them. One action is one critical section or one round of remote requests. |
| `ReviewLedger` | The abstract promise of the queue: `todo` (accepted, not begun), `active`, `safe` (survives the process). What is owed disappears only with an entry in the log of what was called off (`withdrawn`: an abort, a journal entry a restart refuses), or with a process that could not write it (`failures`). A restart owes exactly what was safe. |
| `DispatcherLedger` | The refinement mapping and `LedgerSpec`: every step of the dispatcher is a step of the ledger. |
| `Journal` | The state directory: rename, directory sync, tombstone, unlink, the bounded background retries, load; the ends of the process and of the machine. One action is one file system call. |
| `JournalRegister` | The abstract promise of the journal, one register per merge request, which is what `Dispatcher` takes it for. `Journal` shows that it keeps it (`ImplementsRegister`). |
| `ReviewUpdate` | A published review that several processes correct: staging, activation, application note by note, commit, recovery, the two locks, the rebase of a re-review, the reader. One action is one request. |
| `UpdateJobs` | Correction jobs: the store, the daemon's worker, the child's checkpoints and follow-up. The review is abstract here: an update is activated and committed, which `ReviewUpdate` shows to be what readers see. |
| `ChatHandler` | The chat half of the webhook handler, with the child process that answers. |
| `ReviewCall` | One call of the model: the ladder of reasoning efforts in `internal/llm/client.go`. |
| `AgentLoop` | Extends it: loops under the limiter, their tools, retries, nested and last loops, the time budget. |
| `MC*` | Model values and functions for TLC. |
| `DispatcherProofs`, `DispatcherPoolProofs`, `DispatcherLedgerProofs`, `JournalProofs`, `ReviewUpdateProofs`, `UpdateJobsProofs`, `ChatProofs`, `AgentProofs` | Theorems about the module of the name. |

The modules meet where the code does: `Dispatcher` uses the register that `Journal`
implements; `UpdateJobs` uses the activation and the commit that `ReviewUpdate` makes of
notes, and the terminal's runner of a correction is in `ReviewUpdate` itself;
`ChatHandler` shares nothing with the dispatcher but the process, in the code, too.

### How state corresponds to code

`Dispatcher`:

| Variable | Code |
|---|---|
| `job` | `Dispatcher.states`; `status`, `latest`, `pending`, `cleanup`, `cleanupQueued`, `cleanupVersion`, `persisted` of `jobState`; `cancelled` is its context |
| `queue`, `overflow`, `running` | the fields of the same name |
| `worker` | a worker goroutine between `take` and `finish`, with `settlementResult` |
| `cleanupQueue`, `waiting`, `delayed`, `cleaner`, `fallback` | `cleanupQueue`, `cleanupWaiting`, the timers of `startDelayedCleanup`, `runAckCleanup`, `cleanupFallback` |
| `phase`, `jobCancelled`, `cleanupCancelled`, `toLoad` | where `Server.Run` and `Restore` are; `jobCtx`, `cleanupCtx` |
| `disk` | the files of the state directory |
| `mark`, `open`, `inflight` | the bot's reactions on GitLab; uncertainty windows; awards that may still commit |
| `handler` | the goroutine of each command note |
| `dropped` | targets nobody is left to settle: given up by a path that logs it, or known only to the memory of a process that ended (a job without an entry, a webhook request it cut off) |

`Journal`:

| Variable | Code |
|---|---|
| `file`, `unsynced` | `job-<project>-<iid>.json`; what it may be after a power loss, as its directory was not synced |
| `kept` | what the last persist or remove reported to its caller; `Unsure` or `Clearing` where it reported nothing or an error (history) |
| `op` | the call that holds `j.mu`, and where it is |
| `retirements`, `nextRetirement`, `retirementQueue` | the fields of the same name |
| `retrier` | what `runRetirements` took from the channel and waits with |
| `abandoned` | files given up with a log line (history) |
| `phase`, `toLoad` | load, running, after `stopRetirements`, ended; the files load has still to read |

`ReviewUpdate`:

| Variable | Code |
|---|---|
| `notes` | the bot's visible notes: revision and state they show, redirect, operation marker, archived markers |
| `records` | the hidden records in internal notes: parts of a staged update, its activation |
| `versions` | the committed reviews with the operation that made each (history) |
| `lock`, `exec` | the file lock of the merge request; the "update-execution" lock |
| `pub` | the locals of `UpdateReview` and of the recovery under way |
| `chat`, `rereview` | the locals of `cliUpdateRunner` and `publishReconciled` |

`UpdateJobs`:

| Variable | Code |
|---|---|
| `store`, `created`, `backoff` | a job's checkpoint file, its creation time, `NextAttempt` |
| `jobLock`, `exec` | the file locks "update-job" and "update-execution" |
| `child` | a process of `chat_update_job.go` |
| `active`, `deferred` | the fields of the update worker |
| `context`, `pending`, `commits` | the review with its diff and evidence; the activated transaction; the committed ones |
| `thread`, `eyes`, `posted` | the discussion: muted or deleted; the reaction of the scheduling reply; the follow-ups |

`ChatHandler`:

| Variable | Code |
|---|---|
| `phase` | open, `CloseChats`, the lifecycle context cancelled |
| `event` | the goroutine of one event in `handleChat`, with its child |
| `seen` | `chatSeen` |
| `thread`, `award`, `muted`, `hushed` | GitLab's thread; questions that show the reaction; threads and questions that allow no reply |
| `adrift`, `late` | awards that failed at the client and GitLab may still commit; those it committed when their event was over (history) |
| `leaked` | releases that failed (history) |

`ReviewCall`, `AgentLoop`:

| Variable | Code |
|---|---|
| `call` | the locals of `reviewLadder` and what it returned |
| `agent` | `runAgentLoopCore`'s result and `agentLoopState`, those of the nested or last loop, and the admission |
| `clock` | the soft and hard deadline of `activeTimeBudget` |
| `cancelled` | the run's context |

### What is abstracted

Dispatcher:

* An event's `AckNoteIDs` and `SettleMR` are one set of targets, `UncertainAckNoteIDs`
  and `StartCleanupUntil` its subset `unsure`. Head SHA, emoji names and labels are
  left out; the policy checks of a worker (topic, state, draft, labels, already
  reviewed) are one nondeterministic early end, as are failed API requests.
* Time is not a number: a window is open or over, and an award that timed out commits
  within it or never, which is what the code relies on.
* The order of notes under the cap and the order of cleanup work are not kept, so the
  model allows every order.
* The journal is the register of `JournalRegister` with at most one failure in a write: a
  failed write leaves no entry. (Two failures can leave the older one, see the journal.)
* Restore drops entries of merge requests or groups that are gone and entries with an
  invalid outcome; both are `DropEntry`, with the bound `vanish`.
* Every policy check and every remote round may fail; webhook requests may be under way to the
  very end of the process. `Server.Run` gives them five seconds and then stops the
  dispatcher and exits whatever they do, so a handler can still be between its award and its job.
  The last sweep and the exit (`releaseUnfinished` included) are one step each.
* The attempt gate with its backoff is a cleaner that may try again; cleaners exist
  from the start.
* Each command note is delivered once. Requests under way at a crash have been
  committed or not, nothing in between.
* The daemon has a bot user and an acknowledgement emoji.
* `MarkReviewed`, `JobInfo`, `Stats` and response footers are not modelled: no
  transition of the queue depends on them.

Where the code gives something up on purpose (a release when the backlog is full or
after one failed attempt, the memory of a daemon without a state directory, an
acknowledgement awarded just before a crash) the model records it in `dropped`, and the
properties say "settled or given up". A webhook request that is cut off at the end of the
process, after its award and before its job, counts as given up as well: nobody is left who knows
of it. The code's comments promise more (`HandlersDrained`, see the findings).

Journal: any call of the file system may fail, any number of times within an operation
(`OpFaults`, any number in the proofs). A write that fails is undone; only if the undoing fails, too,
does an older entry stay runnable, which the code knows and logs and the register says.
`invalidate` removes a file without syncing its directory, so what a failed write leaves is
`Unsure` until the next call. Load fails as a whole if the directory cannot be read. A single
file that cannot be read or parsed, which load logs and skips or removes, is left out: entries
arrive by an atomic rename, so no step of the program produces one.

Review update: a request cut by a crash landed or did not, decided in the step of the
crash; a request that timed out landed before its error or not at all, so a write that GitLab
commits after the client gave it up is outside the model. The summary's history keeps as many
entries as `HistoryLimit` says (`None`: all of them). A chat may fail before it has decided
(`FailChat`: session, workflow, validation). What the models decide is a choice of a change per finding. Resolving GitLab's
threads and the reply after a re-review are left out: nothing reads or retries them. A
staged update has a fixed number of parts.

Update jobs: the review is its activation and its commit, whose markers `UpdateJobs`
takes to be reliable (where they are not, see `update_context`). A job whose thread is
muted waits, and the ones behind it with it, as in the code. A followup is "updated" when it
reports a committed plan: the text of `RecoverPlan` may then still be "Review check complete.", where the
committed update changed context only. Plans of the format before `v2:`, which the code discards, are
left out.

Chat handler: every thread is nickpit's own. The child reads the thread several times
before it posts; the model keeps the last reading and the post. A post whose response is
lost landed or did not, and does not land later; an award that timed out or was cancelled may be
committed at any time after that (`LateAward`), within its event or after it. Commands in a
thread, help replies and the synchronisation of a thread's instructions are left out.

Agents: an attempt stands for its HTTP and stream retries; an attempt may end in any way at
any time, under a dead context, too. Output that the code then drops (a response that was complete but
invalid or partial, a torn stream whose retry was being waited for) is marked `unheard`, and
`NothingLost` names it as its exception. The output of attempts that a ladder gave up for looping
is not counted as made. Responses are classes (what the loop tells apart), tool
results and prompts are not there. What a loop made is one mark for each stage and one for
partial output. The limits are positive (0 is "unlimited" in the code); all ladders have one
length; loops without ownership of a budget run under none. Of the finalization only the
retries that share the loop's state are kept.

## Runs

| Run | Instance | Checks |
|---|---|---|
| `dispatcher_review` | one request, two notes, a push, an abort, a timeout, one fault | `TypeOK`, `NoStrandedReaction`, `RevokedNotDecorated`, `CleanupHasCarrier`, `LedgerSpec` |
| `dispatcher_restart` | the same request, notes and push with a crash, a stop, a fault, a refused entry and a cap of one note | `JournalCoherent`, `NoStrandedReaction`, `ResumeFits`, `LedgerSpec` |
| `dispatcher_pool` | four requests, two workers, a queue of one, an abort | `OneReviewPerRequest`, `QueuedHasKey`, `BacklogBounded` |
| `dispatcher_live` | one request, one note, an emoji, an abort, a timeout, a stop; fair | `RequestsServed`, `ReactionsSettle`, `ShutdownCompletes` |
| `dispatcher_abort_cap` | one request, two notes, a cap of one, an abort | violates `NoStrandedReaction` |
| `journal` | two requests, two entries, three calls, a map of one retirement, two faults within one operation and three in all, a stop, a crash, a power loss; fair | `TypeOK`, `RetirementHasCarrier`, `ImplementsRegister`, `TombstonesGo` |
| `review_update` | two findings, one published; a chat and a re-review; two parts; a fault, a crash, a diff that moves; fair | `TypeOK`, `ReaderSeesVersions`, `ThreadsMatch`, `CommittedOnce`, `EvaluatedOnCurrent`, `AttemptsEnd` |
| `update_redirect` | one finding that moves, a crash | violates `RecoveryResumes` |
| `update_context` | one finding, a lost response, a re-review that changes context options | violates `CommittedOnce` |
| `update_jobs` | two jobs of one request, two children, up to five of: a fault, a crash, a move, a mute, questions; fair | `TypeOK`, `InOrder`, `PlanOnDisk`, `TruthfulFollowup`, `DoneIsFinished`, `JobsFinish` |
| `chat` | three deliveries of two questions in one thread, one slot, two attempts, two faults, a mute, an edit, a shutdown and a deadline, two of these in all; fair | `TypeOK`, `AnsweredOnce`, `NoStrandedAck`, `MarkMeansCoveredUnmuted`, `AckNotStolen`, `ChatsEnd` |
| `agents` | a loop with a budget and one without, one slot, two efforts, two tool calls, two duplicates, one output retry; fair | `TypeOK`, `NothingLost`, `AgentsEnd` |

What the properties say is stated above each definition.

Bounds. `Limit` caps each kind of environment event of the dispatcher (`auto`, `emoji`,
`abort`, `timeout`, `stop`, `crash`, `vanish`), `FaultLimit` the failed writes and failed remote
rounds. Capacities are one, so that every queue is full in most states: the overflow of
keys, the reservations of cleanup and the refusal of admission all happen. One merge request
is enough where jobs do not interact (they share only capacities); the pool run has four
for what they share. Two notes and a cap of one or two reach both sides of the cap.

In the journal two merge requests compete for one place in the map and the channel; three
calls are enough for an entry, its retirement and the entry of the next job, which is where a
late retry would do harm; two faults in one operation are a write that fails and an undoing that
fails, and a third meets the retry. In `review_update` one chat and one re-review meet at each of their
steps, and recovery is done by the other or by the next attempt of the same; two parts make
a staged update that is incomplete. `update_jobs` needs two jobs for order, two children for
one that outlives its daemon, and the limits of attempts are small enough to be used up. In
`chat` the same question comes twice and a newer one supersedes it; admission holds two of
the three deliveries, `chatSeen` both questions, so that none is evicted (`AckNotStolen` takes
that). Two agents at one slot wait for each other; every counter of a loop reaches its limit
and passes into what follows it (next effort, nested loop, finalization).

Deadlock is off in every run: the environment's events are bounded, and chats, jobs and loops
end.

Fairness. Go schedules a goroutine that can run, a process that runs goes on, and every
request has a timeout; so:

* `dispatcher_live`: worker and cleaner steps, timers and `Restore` are weakly fair; a child
  process ends or is killed; a window passes with time; a handler finishes; a stopped daemon
  is started again (systemd, Kubernetes).
* `journal`: the file system calls of an operation, the retirement worker, load and the start
  of an ended daemon.
* `review_update`: the steps of each process. A lock is polled with a pause, which is weak
  fairness of the step that takes it; as runs are few the lock is free for good in the end, so
  weak is enough. This does not show that a process gets the lock against an endless stream of
  others, which the code does not promise.
* `update_jobs`: the children, the end of a backoff, the worker's tick and its launches, the
  chat that schedules.
* `chat`: the steps of each delivery and the end of the shutdown's grace. Deadlines need not
  fire for chats to end.
* `agents`: the steps of each loop. Neither the budget's deadlines nor cancellation are fair, so
  the loops end without their help.

No fairness is assumed of users, GitLab, faults, crashes or late commits.

## Findings

`dispatcher_abort_cap`: `Abort` merges the pending event into the cleanup event and
ignores the notes that do not fit the cap (`dispatcher.go:1629`). An event parked behind
a cleanup is not limited by the notes of the latest event, so the union can exceed
`maxAckNotes`; the notes left out keep their "in progress" reaction, contrary to the
comment of `mergeEvents`, which returns them "so the caller can release their ack
reaction".

`update_redirect`: a finding that moves gets a new discussion, and its old note a redirect
that holds the marker of the same item. Recovery finds the discussion an earlier try opened
by that marker (`update.go:519`) and meets the redirect first, whose body is not the one it
wants: if the process ends between the redirect and the summary, every later recovery fails
with "changed outside this operation", although `update.go` says that recovery resumes these
writes.

`update_context`: a correction's commit lands and its response is lost. A re-review that
changes only the context options rewrites the summary without the markers of the
operations before it (`update.go:247`); the retry of the correction no longer sees that it
was committed and publishes it again.

Met while modelling, with no run of their own. The first four are properties that the modules
define and TLC refutes, in the instance that is named:

* Shutdown (`HandlersDrained`, `dispatcher_live`): `stopAckCleanup` says that it is called "after
  HTTP handlers have drained" (`dispatcher.go:1183`); `Server.Run` waits five seconds for them (`server.go:76`)
  and goes on. A handler that has awarded the reaction and has no job yet when the process ends
  leaves it on the note, with no entry and no log line.
* Chats (`AckComesOff`, `chat`): the reaction "comes off when the event is over, whatever the outcome"
  (`handler.go:678`). An event takes it off once, when it ends (`handler.go:1010`); an award whose
  request timed out and which GitLab commits after that stays. The dispatcher waits for such awards.
* Agents (`CutOutputKept`, `agents`): `InterruptedResponseError` "preserves work received before caller
  cancellation" (`client.go:287`). It does so for a stream that broke off, but not for a response that was
  received completely and is invalid or partial (`client.go:995`), nor for a broken stream whose retry
  the deadline cuts (`client.go:2061`).
* Corrections (`CommittedOnce`, `update_context` without verdicts on context options, with two runs
  each and `HistoryLimit = 1`): the summary keeps its history in the note, up to GitLab's size of one (`history.go:133`). An entry that is
  dropped takes its operation's marker along, so a correction whose response was lost, tried again after
  enough further updates, is published a second time. It takes a full note and a late retry.
* Chats: a question's first attempt fails, its thread is muted, the second attempt is denied by
  the gate, and `handler.go:837` returns with the mark in place: when the thread is unmuted a
  redelivery is a duplicate, and nobody answers. The comment at `handler.go:854` says "Do not
  consume a denied opt-in/muted event". `MarkMeansCovered` (defined in `ChatHandler`) is refuted by TLC in this way;
  the run checks it up to the first mute.
* Opt-in chats: a question that was asked for, under a newer note that was not, is
  "superseded" (`chat.go:1310`) in favour of a note nobody answers.
* Usage: `reviewCallTokens` says that every attempt is accounted "even when the call failed
  outright" (`agent_loop.go:607`). Errors without a response (a reasoning budget exhausted at
  every effort) carry no usage; `NothingLost` speaks of what was reported.
* Reviewers under a budget (not modelled): their completion without tools is
  `agentLoopReviewWithoutTools` (`agent_loop.go:168`), which puts neither the reasoning trace nor the
  partial output of a call the soft deadline cut into the loop's result, so the finalization in
  `reviewer_budget.go:133` does not see them. For the other budgeted agents the nested loop keeps both
  (`NotesSurvive`).

## Proofs

Proved for every value of the constants:

| Module | Theorem | Statement |
|---|---|---|
| `DispatcherProofs` | `InductiveInvariant` | `Spec => []IInv` |
| | `TypeCorrect` | `Spec => []TypeOK` |
| | `JournalIsCoherent` | `Spec => []JournalCoherent` |
| `DispatcherPoolProofs` | `OneReviewAtATime` | `Spec => []OneReviewPerRequest` |
| | `NobodyWaitsForgotten` | `Spec => []QueuedHasKey` |
| | `BacklogStaysBounded` | `Spec => []BacklogBounded` |
| | `CleanupIsOnItsWay` | `Spec => []CleanupHasCarrier` |
| | `ResumedWorkFits` | `Spec => []ResumeFits` |
| | `RevokedStayUndecorated` | `Spec => []RevokedNotDecorated` |
| | `NoReactionLeftBehind` | `Spec /\ []Room => []NoStrandedReaction` |
| | `NoReactionLeftBehindInRoom` | `Spec => []NoStrandedReaction`, where `Roomy` |
| `DispatcherLedgerProofs` | `LedgerImplemented` | `Spec => LedgerSpec` |
| `JournalProofs` | `JournalTypes` | `Spec => []TypeOK` |
| | `RetirementsAreCarried` | `Spec => []RetirementHasCarrier` |
| | `JournalIsRegister` | `Spec => ImplementsRegister` |
| `ReviewUpdateProofs` | `Inductive` | `Spec => []IInv` |
| | `Types` | `Spec => []TypeOK` |
| | `WholeVersions` | `Spec => []ReaderSeesVersions` |
| | `OneThreadEach` | `Spec => []ThreadsMatch` |
| | `DecidedOnCurrent` | `Spec => EvaluatedOnCurrent` |
| | `PublishedOnce` | `Spec => []CommittedOnce`, without decisions on context options, with the full history |
| `UpdateJobsProofs` | `Types` | `Spec => []TypeOK` |
| | `JobsInOrder` | `Spec => []InOrder` |
| | `TracesStay` | `Spec => []PlanOnDisk` |
| | `ThreadHearsTheTruth` | `Spec => []TruthfulFollowup` |
| | `DoneLeavesNothing` | `Spec => []DoneIsFinished` |
| `ChatProofs` | `LimitsHold` | `Spec => []TypeOK` |
| | `AnsweredAtMostOnce` | `Spec => []AnsweredOnce` |
| | `NoReactionStranded` | `Spec => []NoStrandedAck` |
| | `NoQuestionSilenced` | `Spec => []MarkMeansCoveredUnmuted` |
| | `NoReactionStolen` | `Spec /\ [][KeepsMarks]_vars => AckNotStolen` |
| | `NoReactionStolenInRoom` | `Spec /\ Roomy => AckNotStolen` |
| `AgentProofs` | `LimitsHold` | `Spec => []TypeOK` |
| | `NothingIsLost` | `Spec => []NothingLost` |

Assumptions: of the dispatcher `SizeAssumption` (capacities are positive, each note has its
merge request), `NoneAssumption` (a nil pointer is no value) and `WorkerAssumption` (the number
of workers is configured, so finite); of the journal
`JournalAssumption` (the markers are no entries, the map has a place) and its `NoneAssumption`; of the review update `UpdateAssumption` (the summary is
no finding, a review has finitely many, chats are no re-reviews, an update has a part and limits
are positive) and its `NoneAssumption`; of the correction jobs `UpdateJobsAssumption` (each
job has its merge request, limits are positive) and its `NoneAssumption`; of the chats
`ChatHandlerAssumption` (each delivery has its question, each question its thread, capacities are
positive); of the agents `ReviewCallAssumption` and `AgentLoopAssumption` (a ladder has a rung,
limits are positive).

Some theorems have a hypothesis of their own, which excludes a case the code
allows. `PublishedOnce` takes `"context" \notin Verdicts` and `HistoryLimit = None`:
with decisions that concern the context options only, or with a history that drops entries, `CommittedOnce`
is false (`update_context`; the findings tell of the history).
`chatSeen` evicts its oldest mark when it is full,
an event's own mark too if `chatSeenCap` newer questions came while it was worked on; a second
delivery of that question would then be worked on beside the first. The code does not rule this
out, so `NoReactionStolen` takes `KeepsMarks` (no step evicts the mark of an event under way) and
`NoReactionStolenInRoom` the simpler `Roomy` (no more questions than marks), which implies it.
`NoReactionLeftBehind` takes `Room`: the notes parked behind a review that is settling fit the cap
together with those being settled. Without it an abort at that moment drops notes whose reactions nobody
revokes (`dispatcher_abort_cap`). `NoReactionLeftBehindInRoom` takes `Roomy` of the dispatcher instead (no request has more
notes than the cap, 32 in the code), which implies `Room`; `dispatcher_review` is such an instance.

**The dispatcher and its state directory.** `JournalCoherent` is not inductive by itself: that a finishing worker
writes the entry of *its* job needs that a job with a worker is running (`Assigned`),
that no two workers hold one job (`Exclusive`), that the kinds of the worker's event and
the job's agree (`SameKind`), and that a process that is restoring or down has no job
yet for what it has not read (`Loading`, `Asleep`). `IInv` is their conjunction with
`TypeOK`. The proof has a lemma per operator (what a merge keeps, what `Save`,
`PushKey`, `QueueDurable` return), one per action, and puts them together over the
disjuncts of `Next`. The action lemmas say more than `IInv'`: what an accepted request
does to its job (`Created`, `Joined`, `ParkedBehind`), what a finish leaves
(`GivesWay`, `Completed`, `KeepsCleanup`); the other two modules use them.

**One review.** `Exclusive` gives one worker per request but not that a job marked
running has one, nor that the counter is right. `PoolInv` adds: a running job has its
worker (`RunningHeld`), an idle worker has no job (`IdleFree`), `running` is the
cardinality of the running jobs (`Counted`). Most steps start no review and change no
worker's job (`SamePool`); take and finish move one job in or out of the set and the
counter with it; crash, exit and start empty both.

**Nobody waits forgotten.** A request that waits has a key in the channel or in the overflow
list. `finish` requeues a job and `take` drops keys that are stale, so the proof needs why a key
may be dropped: keys are parked only while the channel is full (`ParkedWhenFull`), so a worker
that waits finds none, and a review goes back to the queue only if it was interrupted, which
happens after the intake was closed (`Patience`). `BacklogBounded` speaks of jobs in memory;
inductive is its form over `Taken`, the requests with a job or an entry: a crash moves them from
one to the other, and a restart must not find more of them than there are places. The running
ones are no more than the workers, by the injection of `Exclusive`.

**Cleanup is on its way.** A job in cleanup has exactly one carrier (`CarryInv`: a place in the
cleanup queue, the waiting list, a timer or a cleaner's hand; two would run the same cleanup
twice, none would leave it for ever). A cleaner gives its work up without passing it on only when
the process is settling, and a process that is dead carries nothing.

**The cap on notes.** `ResumeFits` says it of what is on disk, where it comes from the jobs. Inductive
is `CapInv`: what a job without cleanup holds, `latest` and `pending` together, fits the cap, as do
pending alone and each entry; a job in the queue has nothing pending while the intake is open; and
what a worker copied at `take` has no note that its job has not. A review that is already settling is the
one job the cap does not hold for: its newcomer is parked behind the cleanup, limited by itself
alone. That is where `dispatcher_abort_cap` finds its overflow.

**Revoked notes.** An outcome reaches a reaction through the cleanup of a job, and events are
merged, copied by workers, parked, promoted and restored from entries on the way there. `SortInv`
sorts the targets of a request by who names them: `Claimed` (the job's event, a worker's copy,
cleanup on its way, an entry not read yet), `Awaiting` (pending behind a review) and `Revoked`
(aborted before it ran). The three are disjoint (`Apart`); each holds only the request itself or
its own notes whose webhook is over, and what waits or is revoked shows no outcome (`Homed`); nor
does a note that has not been asked for (`Undecided`); releases without a cleanup leave none
(`Releases`). Every step moves targets in one of five ways (`Stays`, `Joins`, `Parks`, `TakesTurn`,
`Aborts`), and `SortStep` shows that each keeps `SortInv` if outcomes are shown on what is claimed
(`ShownOnClaimed`). What a note gains in one sort it must lose in the other in the same step: a job
that is promoted leaves no copy in `pending`, and an abort takes the pending event out of the entry too.

**Every reaction has somebody.** `ReactInv` says who keeps a reaction that is still live (`Covered`): a
webhook request that is being handled, what a job or an unread entry names, a release on its way, or the
list of the last sweep. That is not inductive: what a settlement leaves out must be settled. Hence,
of the awards in doubt, each event that names such a target names it as unsure (`Wary`), so a
round that succeeded still keeps it until its window ends; of a worker that finishes, what its copy no
longer names is settled in the job's event too, as long as the versions agree (`Tied`); and the same of
cleanup work and its job (`Current`): an abort raises the version, so stale work completes nothing.
A cleanup is on its way once (`Solo`), also after the intake closed. A job in cleanup settles the
event it has, and a review that runs has aborted nothing behind itself (`Agreed`), so its entry names
everything (`EntryTakesAll`). A crash gives up exactly what only memory knew, an exit what
its sweep failed to replace, and both the webhook requests they cut off: a handler that is between its
award and its job when the last sweep runs is nobody's work after it (`HandlersDrained` is false), so the property
names it in `dropped` and is about all the others. `ReactStep` puts a step together from the jobs it touches, the
workers it moves and the work it adds.

**The ledger.** Every step is shown to be one of the ledger's. In it no step may make a request
disappear silently: `Cancel` needs an entry in the log of what calls work off, `Begin` moves it to `active`,
and the end of a process loses it only if it is not `safe`, which a job that is owed stops being only in a
step with a failed write (`Unsafe`). Two facts are needed that
neither invariant has (`Retiring`): while the intake is open a queued job has nothing
pending (`Fresh`), so that a take begins all that is owed; a review is interrupted only
after the grace period, which ends after the intake was closed (`Interrupted`,
`Cancelled`), so that an interrupted job goes back to the journal and not to another
worker. Crash and exit hand over from memory to the state directory: `EntryOwes` says
that an entry owes what its job owes or what it had in progress, `SafeEntry` that a
persisted job has one. Both rest on `JournalCoherent`.

**The journal.** `IInv` joins the types with what an operation under way has done so far
(`Progress`: an operation that syncs has what it wrote in the file, one that unlinks has made the
removal of the entry durable, one that looks whether the file is gone has removed it or has failed
twice), with `Generations` (zero is no retirement), with `Retirable` (what a retry may remove is a
tombstone, or an entry whose removal was asked for and has failed), `Durable` and `Cold` (what was
promised is what a power loss leaves; a process that is not running has no retry), and with
`RetirementHasCarrier` itself. The refinement maps a tombstone to an empty register and a retry
or a load to nothing, or to the register's `Retry` where it finishes a removal; a lemma per action shows
the register's step, `ReturnStep` and `SyncStep` that a call returns only once the register holds what
it wrote. A call that fails is counted in the register (`Fault`), and the register lets it return with
something to resume only after a second failure.

**The staged review.** Whoever is past `LockMR` holds the lock (`Locks`), so one process at a time
writes. `Staged` says what it or its successor can rely on: an activation that has not committed
is the newest record, its chunks are complete, and the newest first chunk, which is the one that
recovery reads, holds the transaction (older runs leave chunks of the same revision behind).
That transaction leads from the current version to the next (`Leads`), and each of its threads is
`Halfway`: untouched, doubled, done, or stuck in the redirect that `update_redirect` finds. The
summary is edited once all threads are done, so a commit leaves each finding with one thread that
shows the new version, and nothing pending means that the threads show the current one (`Review`),
which is what readers see (`ViewFacts`). `DecidedOnCurrent` follows from what the transaction
carries along, since `Leads` is kept through staging and recovery.

`CommittedOnce` needs a second invariant, `OnceInv`: the markers in the summary and its history are
those of all operations committed so far, and a staged transaction keeps them (`History`, which is where the
full history is needed); a request
whose process still looks for its own marker is not published (`Once`); the operations of a
re-review come in the order of its runs and attempts (`InTurn`), so that each attempt's is new.
A context-only transaction drops a marker, and `Archives` is where the proof would fail.

**The correction jobs.** A child past its start holds the lock of its job and the lock of its
merge request's execution, and no other child works on either (`Holds`). So what it read of the
checkpoint is the checkpoint until it saves (`store[j] = child[p].mem`), and each place of its
program knows something of the review: that the staged update is this job's, that nothing is
staged, that the job is not committed yet (`Knows`). A child that dies takes only its memory along,
which `Holds` shows to be on disk; what it did on GitLab and has not saved is what `JobFine` leaves
its successor to find out: a staged or committed update has a plan on disk (`Traced`), a post
agrees with the followup that was saved before it (`Told`), a followup speaks the truth about the
commit (`True`), and a job that is done left no reaction, no staged update and no silent thread
(`Left`). `InOrder` needs `Ahead`: the jobs before that of a child are done, which the child
checked under the lock, and a job that is done stays so.

**The chats.** `AnsweredOnce` rests on the lock of the discussion: `OneHolder` (one event at a
time is past the lock), and `Posting` (whoever is about to post holds it and has seen that the
question is unanswered, and nobody else can have answered since). `Once` is the property in a
form that is inductive, by positions instead of a cardinality; `OnceCounts` turns it back.
`NoStrandedAck` needs `Settled`: an event that is past its release, or not begun, has no
reaction to take off, so each reaction on a question has an event that will, a release that failed, or
an award that was committed when no event was left to (`late`). The limits (`TypeOK`) are in `Bounds`: marks are distinct and as many as `SeenCap`,
active events as many as were admitted, those in a slot as many as slots. `NoQuestionSilenced`
is about a mark whose event is over: `Marks` says that a mark is either carried by an event that
will answer or take it back, or its question is covered, and it holds up to the first mute (after
that the code itself breaks it, see the findings). `AckNotStolen` needs `Owned`: while its mark is
there, a question has one event that works on it, and only that one wears or releases its reaction.

**The agents.** The accounts of a loop are right between its calls and during them, in two
forms (`Kept`): between calls what is due is the nested loop's own account, during one it is
that and the call's cost; and the notes of the loop and of the nested one together are all that
was made, but for the output the client drops (`unheard`, see the findings).
Each operator by which a loop is left or goes on (`Merge`, `Leave`, `Conclude`,
`Retried`, `ToFinal`) keeps the first form, hence so does each action that handles a response. The limits need what the
counters are compared with before they grow (`Within`: an agent that is over a limit has left the
loop) and where the ladder stands (`Laddered`).

TLC only: liveness and fairness (`RequestsServed`: a request that is owed is begun, unless the log of what
calls work off grows or a write fails; `ReactionsSettle`, `ShutdownCompletes`, `TombstonesGo`, `AttemptsEnd`, `JobsFinish`, `ChatsEnd`,
`AgentsEnd`), which the prover does not reach. Every other property of a passing run is a theorem, `NoStrandedReaction`, `AckNotStolen` and
`CommittedOnce` under the hypotheses above.

## Not modelled

* Topic cache: a TTL and a shared lookup under one mutex; no other component keeps what it
  returns, and the dispatcher's check is a nondeterministic choice.
* The pipeline's lanes and steps, the allotment of budgets to them, and the ordered spawn of
  verifiers; the reviewers' rounds and nudges. They come next (see the plan).
* HTTP and stream retries of the client: inside an attempt of `ReviewCall`, as their outcome
  is one of an attempt's.
* The interactive chat: its queue of corrections and the merge of its local session with the
  review on GitLab.
* Policy, deduplication, sessions, retrieval, parsing, rendering, configuration, workflow
  files, capability probes, pickers: functions on data or plain input and output, with no state
  that steps of two actors share. They are most of the repository's lines, and their tests say
  more about them than a model could.
* Child processes and their logs: pipes and signals; a child's end is an action of the module
  that starts it.

## Plan

1. The reviewers' sessions above `AgentLoop` (rounds, nudges, the stop of a budget) and the
   pipeline's lanes under the limiter, with the verifiers' spawn.
2. `UpdateJobs` on `ReviewUpdate`: the activation and commit it assumes as a refinement,
   checked and then proved.
3. The interactive chat's queue and session.
