---------------------------- MODULE ReviewUpdate ----------------------------
(***************************************************************************)
(* A published review on a merge request is corrected by several processes *)
(* at once: a re-review folds itself into it, chats correct it.  GitLab    *)
(* edits one note at a time, so an update is staged as records in internal *)
(* notes, activated, applied note by note and committed by the edit of the *)
(* summary; whoever comes next finishes what a crash or failure left.      *)
(***************************************************************************)
EXTENDS Integers, Sequences, FiniteSets

CONSTANTS
    Finding, Root,      \* the threads of the review; Root is its summary
    Chat, Rereview,     \* processes: corrections and re-reviews
    None,
    Published,          \* the findings of the first publication
    Changes, Verdicts,  \* what an evaluation may decide: subsets of Change, Verdict
    Parts,              \* chunks of a staged transaction
    MaxFailures, MaxConflicts, \* attempts of cliUpdateRunner.run
    MaxReconcileAttempts,
    HistoryLimit,       \* summaries that the archive of one has room for; None: all of them
    FaultLimit, CrashLimit, DiffLimit, RunLimit \* bounds: requests that fail, processes
                                               \* that die, diffs that move, runs of one

Proc == Chat \cup Rereview
Change == {"none", "edit", "resolve", "move", "add"}
Verdict == {"none", "visible", "context"}

ASSUME UpdateAssumption ==
    /\ Root \notin Finding /\ Published \subseteq Finding /\ IsFiniteSet(Finding)
    /\ Chat \cap Rereview = {} /\ None \notin Proc
    /\ Changes \subseteq Change /\ Verdicts \subseteq Verdict
    /\ {Parts, MaxFailures, MaxConflicts, MaxReconcileAttempts} \subseteq Nat \ {0}
    /\ RunLimit \in Nat /\ HistoryLimit \in Nat \cup {None}

VARIABLES
    notes,     \* the bot's visible notes, oldest first
    records,   \* the update records in internal notes
    versions,  \* history: the committed reviews, by revision, with their operation
    lock,      \* holder of the MR lock (a file lock, free when the process ends)
    exec,      \* holder of the "update-execution" lock
    pub,       \* [Proc -> UpdateReview or RecoverReviewUpdates under way]
    chat,      \* [Chat -> cliUpdateRunner]
    rereview,  \* [Rereview -> publishReconciled]
    used       \* [event kind -> how often], for the bounds

gitlab == <<notes, records, versions>>
locks == <<lock, exec>>
vars == <<gitlab, locks, pub, chat, rereview, used>>

Bound == [fault |-> FaultLimit, crash |-> CrashLimit, diff |-> DiffLimit]
Use(k) == used[k] < Bound[k] /\ used' = [used EXCEPT ![k] = @ + 1]

-----------------------------------------------------------------------------
(* The review as its notes carry it.                                       *)

\* An operation: the chat's one, or the re-review's of each attempt.
Op == Proc \X (1..RunLimit) \X (0..MaxReconcileAttempts)

\* next: the thread moved, the body only refers to the new one; marks: the operations
\* whose marker the body holds; archived: those in its history block; total: the
\* findings the summary announces.
Note == [of : Finding \cup {Root}, rev : Nat, state : {"open", "resolved"},
         next : BOOLEAN, mark : Op \cup {None}, archived : SUBSET Op, total : Nat]

Absent == [rev |-> 0, state |-> "absent"]
FindingState == [rev : Nat, state : {"absent", "open", "resolved"}]
Version == [rev : Nat, find : [Finding -> FindingState]]

\* A missing review, note or operation is none of them.
ASSUME NoneAssumption == None \notin Version \cup Note \cup Op

Highest(S) == CHOOSE i \in S : \A j \in S :
                 notes[j].rev < notes[i].rev \/ (notes[j].rev = notes[i].rev /\ i <= j)
\* indexUpdateTargets: the live thread with the highest revision, 0 if there is none.
Target(of) ==
    LET live == {i \in 1..Len(notes) : notes[i].of = of /\ ~notes[i].next}
    IN  IF live = {} THEN 0 ELSE Highest(live)
RootRev == notes[Target(Root)].rev

Ids == {r.id : r \in records}
OfOp(op) == {r \in records : r.op = op}
Latest(S) == CHOOSE r \in S : \A q \in S : q.id <= r.id
Activations(op) == {r \in OfOp(op) : r.part = Parts}
Uncommitted(op) == Activations(op) # {} /\ Latest(Activations(op)).rev > RootRev

\* ReviewResultsByID: hidden while an activated update has not committed, and while
\* the summary announces more findings than there are.
View ==
    LET found == {f \in Finding : Target(f) # 0}
    IN  IF (\E r \in records : r.part = Parts /\ r.rev > RootRev)
           \/ Cardinality(found) < notes[Target(Root)].total
        THEN None
        ELSE [rev |-> RootRev,
              find |-> [f \in Finding |-> IF f \in found
                  THEN [rev |-> notes[Target(f)].rev, state |-> notes[Target(f)].state]
                  ELSE Absent]]

\* Mutant: a retry starts over.
NeverCommitted(op) == op \notin Op

\* ReviewUpdateCommitted: the operation's marker is in the summary or its history.
Committed(op) == op \in {notes[Target(Root)].mark} \cup notes[Target(Root)].archived

-----------------------------------------------------------------------------
(* Transactions.                                                           *)

Request == [op : Op, before : Version, seen : Version, change : [Finding -> Change],
            verdict : Verdict]
NoChange == [f \in Finding |-> "none"]
Changed(req) == {f \in Finding : req.change[f] # "none"}

After(req) ==
    [rev |-> req.before.rev + 1,
     find |-> [f \in Finding |-> CASE req.change[f] = "none" -> req.before.find[f]
                                   [] req.change[f] = "resolve" ->
                                        [rev |-> req.before.rev + 1, state |-> "resolved"]
                                   [] OTHER -> [rev |-> req.before.rev + 1, state |-> "open"]]]

\* WithHistory: the newest entries of an archive, as many as fit into the note with it.
Since(op, ops) == {i \in 1..Len(versions) : /\ versions[i].op \in ops \ {op}
                                            /\ \A j \in i..Len(versions) : versions[j].op # op}
WithHistory(ops) == IF HistoryLimit = None THEN ops
                    ELSE {op \in ops : Cardinality(Since(op, ops)) < HistoryLimit}

\* What UpdateReview writes: for each changed finding the note it edits (0: a new
\* discussion) and, when the finding moved, the note that becomes a reference to it.
\* Each item keeps the body it expects.
Transaction(req) ==
    LET after == After(req)
        root == Target(Root)
        body(f) == [of |-> f, rev |-> after.rev, state |-> after.find[f].state, next |-> FALSE,
                    mark |-> req.op, archived |-> {}, total |-> 0]
        item(f) == LET old == Target(f)
                       moves == req.change[f] = "move" /\ old # 0
                   IN  [target |-> IF moves THEN 0 ELSE old, body |-> body(f),
                        base |-> IF old = 0 THEN None ELSE notes[old],
                        redirect |-> IF moves THEN old ELSE 0]
        \* A change that only concerns the context options is not archived.
        archived == WithHistory(IF req.verdict = "visible" \/ Changed(req) # {}
                                THEN notes[root].archived \cup ({notes[root].mark} \ {None})
                                ELSE notes[root].archived)
    IN  [op |-> req.op, rev |-> after.rev, before |-> req.before, seen |-> req.seen,
         after |-> after, items |-> [f \in Changed(req) |-> item(f)],
         root |-> [target |-> root, base |-> notes[root], redirect |-> 0,
                   body |-> [of |-> Root, rev |-> after.rev, state |-> "open", next |-> FALSE,
                             mark |-> req.op, archived |-> archived,
                             total |-> Cardinality({f \in Finding :
                                         after.find[f].state # "absent"})]]]

Redirected(item) == [item.base EXCEPT !.rev = 0, !.next = TRUE, !.mark = item.body.mark]

-----------------------------------------------------------------------------
(* UpdateReview and RecoverReviewUpdates.  pub[p].pc says where p is:      *)
(* "lock", "recover", "check", "stage", "activate", "staged", "apply",     *)
(* "redirect", "clean" and then "ok", "conflict", "error" or "blocked".    *)

Idle == [pc |-> "idle", req |-> None, ops |-> {}, tx |-> None, part |-> 0, left |-> {},
         moved |-> None, owner |-> FALSE]
Answer == {"ok", "conflict", "error", "blocked"}

Goto(p, pc) == pub' = [pub EXCEPT ![p].pc = pc]

\* Mutant: a failure keeps the lock.
ReturnLocked(p, answer) ==
    /\ pub' = [pub EXCEPT ![p] = [Idle EXCEPT !.pc = answer]]
    /\ lock' = IF pub[p].owner /\ answer = "ok" THEN None ELSE lock

\* The lock is reentrant: a re-review holds it around its attempts.
Return(p, answer) ==
    /\ pub' = [pub EXCEPT ![p] = [Idle EXCEPT !.pc = answer]]
    /\ lock' = IF pub[p].owner THEN None ELSE lock

\* A request to GitLab takes effect, does not, or does and its response is lost; it does not take
\* effect after its error is known.
Send(p, effect, unchanged, next) ==
    \/ effect /\ next /\ UNCHANGED <<lock, used>>
    \/ effect /\ Use("fault") /\ Return(p, "error")
    \/ unchanged /\ Use("fault") /\ Return(p, "error")

LockMR(p) ==
    /\ pub[p].pc = "lock" /\ lock \in {None, p}
    /\ lock' = p
    /\ pub' = [pub EXCEPT ![p].pc = "recover", ![p].owner = (lock = None),
                          ![p].ops = {r.op : r \in records}]
    /\ UNCHANGED <<gitlab, exec, used>>

\* The chunks of the activation; of each part the newest counts.
Chunk(op, rev, part) == {r \in OfOp(op) : r.rev = rev /\ r.part = part}
Complete(op, rev) == \A i \in 0..(Parts - 1) : Chunk(op, rev, i) # {}
Reassembled(op, rev) == Latest(Chunk(op, rev, 0)).tx

\* Recovery applies the transaction that is activated and not committed; the records of
\* the others go.  A set of chunks that is not complete stops it.
RecoverOne(p, op) ==
    /\ pub[p].pc = "recover" /\ op \in pub[p].ops
    /\ IF ~Uncommitted(op)
       THEN pub' = [pub EXCEPT ![p].pc = "clean", ![p].tx = [op |-> op]] /\ UNCHANGED lock
       ELSE LET rev == Latest(Activations(op)).rev IN
            IF Complete(op, rev)
            THEN /\ pub' = [pub EXCEPT ![p].pc = "apply", ![p].tx = Reassembled(op, rev),
                                       ![p].left = DOMAIN Reassembled(op, rev).items]
                 /\ UNCHANGED lock
            ELSE Return(p, "error")
    /\ UNCHANGED <<gitlab, exec, used>>

Recovered(p) ==
    /\ pub[p].pc = "recover" /\ pub[p].ops = {}
    /\ IF pub[p].req = None THEN Return(p, "ok") ELSE Goto(p, "check") /\ UNCHANGED lock
    /\ UNCHANGED <<gitlab, exec, used>>

\* Under the lock the review is still the one that was evaluated, and neither the diff
\* nor the evidence moved.  An update that changes nothing is done.
Check(p) ==
    /\ pub[p].pc = "check"
    /\ LET req == pub[p].req IN
       \/ /\ View # req.before
          /\ Return(p, "conflict") /\ UNCHANGED used
       \/ /\ View = req.before /\ p \in Chat /\ Use("diff")
          /\ Return(p, "conflict")
       \/ /\ View = req.before /\ Changed(req) = {} /\ req.verdict = "none"
          /\ Return(p, "ok") /\ UNCHANGED used
       \/ /\ View = req.before /\ (Changed(req) # {} \/ req.verdict # "none")
          /\ pub' = [pub EXCEPT ![p].pc = "stage", ![p].tx = Transaction(req), ![p].part = 0]
          /\ UNCHANGED <<lock, used>>
    /\ UNCHANGED <<gitlab, exec>>

\* Mutant: parts are counted from one.
RecordFromOne(tx, part) ==
    /\ records' = records \cup
           {[id |-> 1 + Cardinality(UNION {1..i : i \in Ids}), op |-> tx.op, rev |-> tx.rev,
             part |-> part + 1, tx |-> IF part = Parts THEN None ELSE tx]}
    /\ UNCHANGED <<notes, versions>>

Record(tx, part) ==
    /\ records' = records \cup
           {[id |-> 1 + Cardinality(UNION {1..i : i \in Ids}), op |-> tx.op, rev |-> tx.rev, part |-> part,
             tx |-> IF part = Parts THEN None ELSE tx]}
    /\ UNCHANGED <<notes, versions>>

\* Mutant: no activation.
StageUnactivated(p) ==
    /\ pub[p].pc = "stage"
    /\ LET last == pub[p].part = Parts - 1 IN
       Send(p, Record(pub[p].tx, pub[p].part), UNCHANGED gitlab,
            pub' = IF last THEN [pub EXCEPT ![p].pc = "staged"]
                   ELSE [pub EXCEPT ![p].part = @ + 1])
    /\ UNCHANGED exec

\* stageReviewUpdate: every chunk, then the activation.
Stage(p) ==
    /\ pub[p].pc = "stage"
    /\ LET last == pub[p].part = Parts IN
       Send(p, Record(pub[p].tx, pub[p].part), UNCHANGED gitlab,
            pub' = IF last THEN [pub EXCEPT ![p].pc = "staged"]
                   ELSE [pub EXCEPT ![p].part = @ + 1])
    /\ UNCHANGED exec

\* Nobody asks to be told (OnStaged) in this module.
BeginApply(p) ==
    /\ pub[p].pc = "staged"
    /\ pub' = [pub EXCEPT ![p].pc = "apply", ![p].left = DOMAIN pub[p].tx.items]
    /\ UNCHANGED <<gitlab, locks, used>>

\* Mutant: an earlier try is not looked for.
MatchTarget(item) == item.target

\* applyUpdateItem finds the note it edits, or the one that an earlier try created: the
\* first whose body holds the marker.  0: there is none yet.
Match(item) ==
    LET marked == {i \in 1..Len(notes) : notes[i].mark = item.body.mark
                                         /\ notes[i].of = item.body.of}
    IN  CASE item.target # 0                  -> item.target
          [] item.target = 0 /\ marked # {} -> CHOOSE i \in marked : \A j \in marked : i <= j
          [] OTHER                            -> 0

\* A note that is as it should be is left alone; one that neither is nor was, "changed
\* outside this operation", stops the update.
ApplyItem(p, item, next) ==
    LET i == Match(item) IN
    CASE i = 0 -> Send(p, notes' = Append(notes, item.body), UNCHANGED notes, next)
      [] i # 0 /\ notes[i] = item.body -> next /\ UNCHANGED <<notes, lock, used>>
      [] i # 0 /\ notes[i] # item.body /\ notes[i] = item.base ->
            Send(p, notes' = [notes EXCEPT ![i] = item.body], UNCHANGED notes, next)
      [] OTHER -> Return(p, "blocked") /\ UNCHANGED <<notes, used>>

\* The items go in a fixed order, the summary last.
Apply(p) ==
    /\ pub[p].pc = "apply" /\ pub[p].left # {}
    /\ LET f == CHOOSE g \in pub[p].left : TRUE
           item == pub[p].tx.items[f]
       IN  ApplyItem(p, item,
               pub' = [pub EXCEPT ![p].left = @ \ {f},
                                  ![p].pc = IF item.redirect = 0 THEN "apply" ELSE "redirect",
                                  ![p].moved = f])
    /\ UNCHANGED <<records, versions, exec>>

ApplyRedirect(p) ==
    /\ pub[p].pc = "redirect"
    /\ LET item == pub[p].tx.items[pub[p].moved]
       IN  ApplyItem(p, [target |-> item.redirect, base |-> item.base, body |-> Redirected(item)],
                     pub' = [pub EXCEPT ![p].pc = "apply", ![p].moved = None])
    /\ UNCHANGED <<records, versions, exec>>

\* The edit of the summary commits.
ApplyRoot(p) ==
    /\ pub[p].pc = "apply" /\ pub[p].left = {}
    /\ ApplyItem(p, pub[p].tx.root, Goto(p, "clean"))
    /\ versions' = IF notes' = notes THEN versions
                   ELSE Append(versions, [op |-> pub[p].tx.op, seen |-> pub[p].tx.seen,
                                          review |-> pub[p].tx.after])
    /\ UNCHANGED <<records, exec>>

\* cleanupUpdateRecords: best effort.
Clean(p) ==
    /\ pub[p].pc = "clean"
    /\ \E kept \in SUBSET OfOp(pub[p].tx.op) :
           /\ records' = records \ (OfOp(pub[p].tx.op) \ kept)
           /\ IF kept = {} THEN UNCHANGED used ELSE Use("fault")
    /\ IF pub[p].ops = {} THEN Return(p, "ok")
       ELSE /\ pub' = [pub EXCEPT ![p].pc = "recover", ![p].tx = None,
                                  ![p].ops = @ \ {pub[p].tx.op}]
            /\ UNCHANGED lock
    /\ UNCHANGED <<notes, versions, exec>>

ReadFails(p) ==
    /\ pub[p].pc \in {"recover", "check"}
    /\ Use("fault") /\ Return(p, "error")
    /\ UNCHANGED <<gitlab, exec>>

PublisherStep(p) ==
    \/ LockMR(p) \/ Recovered(p) \/ Check(p) \/ Stage(p) \/ BeginApply(p)
    \/ Apply(p) \/ ApplyRedirect(p) \/ ApplyRoot(p) \/ Clean(p) \/ ReadFails(p)
    \/ \E op \in pub[p].ops : RecoverOne(p, op)

Call(p, req) == pub' = [pub EXCEPT ![p] = [Idle EXCEPT !.pc = "lock", !.req = req]]

-----------------------------------------------------------------------------
(* publishReconciled: a re-review folds itself into the published review.  *)

Decisions(review) ==
    {change \in [Finding -> Changes] : \A f \in Finding :
        CASE review.find[f].state = "absent"   -> change[f] \in {"none", "add"}
          [] review.find[f].state = "resolved" -> change[f] = "none"
          [] OTHER                             -> change[f] # "add"}

Resting == [pc |-> "idle", attempt |-> 0, run |-> 0, seen |-> None, before |-> None,
            change |-> NoChange, verdict |-> "none"]

\* The review published when the run starts; with none that is complete a fresh one is
\* posted instead, to which this module does not apply.
StartRereview(p) ==
    /\ rereview[p].pc = "idle" /\ View # None /\ rereview[p].run < RunLimit
    /\ \E change \in Decisions(View), verdict \in Verdicts :
          rereview' = [rereview EXCEPT ![p] =
              [rereview[p] EXCEPT !.pc = "reviewing", !.run = @ + 1, !.seen = View,
                                  !.before = View, !.change = change, !.verdict = verdict]]
    /\ UNCHANGED <<gitlab, locks, pub, chat, used>>

CallUpdateReview(p, r) ==
    /\ Call(p, [op |-> <<p, r.run, r.attempt + 1>>, before |-> r.before, seen |-> r.seen,
                change |-> r.change, verdict |-> r.verdict])
    /\ rereview' = [rereview EXCEPT ![p] = [r EXCEPT !.pc = "publishing", !.attempt = @ + 1]]

\* It publishes under the lock of the MR, which it keeps for all of its attempts.
PublishRereview(p) ==
    /\ rereview[p].pc = "reviewing" /\ lock = None
    /\ lock' = p
    /\ CallUpdateReview(p, rereview[p])
    /\ UNCHANGED <<gitlab, exec, chat, used>>

\* Mutant: every change stands.
Replayed(r, current) == r.change

\* rebaseReconciled: a change stands where the published copy is the one it started from.
Rebased(r, current) ==
    [f \in Finding |-> IF r.before.find[f] = current.find[f] THEN r.change[f] ELSE "none"]

RebaseRereview(p) ==
    /\ rereview[p].pc = "publishing" /\ pub[p].pc = "conflict"
    /\ rereview[p].attempt < MaxReconcileAttempts /\ View # None
    /\ LET r == rereview[p] IN
       CallUpdateReview(p, [r EXCEPT !.change = Rebased(r, View), !.before = View])
    /\ UNCHANGED <<gitlab, locks, chat, used>>

\* A review that cannot be read again ends it, too.  The threads it resolves and the reply it
\* posts are not part of the review.
EndRereview(p) ==
    /\ rereview[p].pc = "publishing" /\ pub[p].pc \in Answer
    /\ IF pub[p].pc = "conflict" /\ rereview[p].attempt < MaxReconcileAttempts /\ View # None
       THEN Use("fault") ELSE UNCHANGED used
    /\ rereview' = [rereview EXCEPT ![p] = [Resting EXCEPT !.run = rereview[p].run]]
    /\ pub' = [pub EXCEPT ![p] = Idle]
    /\ lock' = None
    /\ UNCHANGED <<gitlab, exec, chat>>

-----------------------------------------------------------------------------
(* cliUpdateRunner: a correction that a chat asked for.                    *)

Asked == [pc |-> "idle", run |-> 0, plan |-> None, failures |-> 0, conflicts |-> 0]

ChatOp(c) == <<c, chat[c].run, 0>>
Exhausted(c) == chat[c].failures >= MaxFailures \/ chat[c].conflicts >= MaxConflicts

StartChat(c) ==
    /\ chat[c].pc = "idle" /\ chat[c].run < RunLimit
    /\ chat' = [chat EXCEPT ![c].pc = "waiting", ![c].run = @ + 1]
    /\ UNCHANGED <<gitlab, locks, pub, rereview, used>>

\* run: an attempt takes the execution lock and first recovers what is staged.
Attempt(c) ==
    /\ chat[c].pc = "waiting" /\ exec = None
    /\ exec' = c
    /\ Call(c, None)
    /\ chat' = [chat EXCEPT ![c].pc = "recovering"]
    /\ UNCHANGED <<gitlab, lock, rereview, used>>

EndAttempt(c, after) ==
    /\ exec' = None
    /\ pub' = [pub EXCEPT ![c] = Idle]
    /\ chat' = [chat EXCEPT ![c] = after]

EndChat(c) == EndAttempt(c, [Asked EXCEPT !.run = chat[c].run])

\* A conflict drops the plan, another failure keeps it.
RetryLater(c, conflict) ==
    IF Exhausted(c) THEN EndChat(c)
    ELSE EndAttempt(c, IF conflict
            THEN [chat[c] EXCEPT !.pc = "waiting", !.conflicts = @ + 1, !.plan = None]
            ELSE [chat[c] EXCEPT !.pc = "waiting", !.failures = @ + 1])

\* execute, once the staged updates are recovered: a correction that is committed needs no
\* evaluation, and one that ran out of attempts gets none.
ExecuteChat(c) ==
    /\ chat[c].pc = "recovering" /\ pub[c].pc \in Answer
    /\ IF pub[c].pc # "ok" \/ (Exhausted(c) /\ ~Committed(ChatOp(c))) \/ View = None
       THEN RetryLater(c, FALSE)
       ELSE IF Committed(ChatOp(c)) THEN EndChat(c)
       ELSE /\ \E change \in Decisions(View), verdict \in Verdicts \cap {"none", "visible"} :
                  /\ \A f \in Finding : change[f] # "add"
                  /\ LET planned == [before |-> View, change |-> change, verdict |-> verdict]
                         plan == chat[c].plan
                     IN  chat' = [chat EXCEPT ![c].pc = "evaluated",
                             ![c].plan = IF plan # None /\ plan.before = View THEN plan
                                         ELSE planned]
            /\ pub' = [pub EXCEPT ![c] = Idle]
            /\ UNCHANGED exec
    /\ UNCHANGED <<gitlab, lock, rereview, used>>

\* The evaluation takes its time; then the review must still be the one it is about.
PublishChat(c) ==
    /\ chat[c].pc = "evaluated"
    /\ LET plan == chat[c].plan IN
       IF View # plan.before
       THEN RetryLater(c, TRUE)
       ELSE /\ Call(c, [op |-> ChatOp(c), before |-> plan.before, seen |-> plan.before,
                        change |-> plan.change, verdict |-> plan.verdict])
            /\ chat' = [chat EXCEPT ![c].pc = "publishing"]
            /\ UNCHANGED exec
    /\ UNCHANGED <<gitlab, lock, rereview, used>>

\* Reading the review, evaluating it or the check after that fails; a plan of an earlier attempt
\* is gone when the evaluation that was to replace it failed.
FailChat(c) ==
    /\ chat[c].pc = "evaluated" \/ (chat[c].pc = "recovering" /\ pub[c].pc = "ok")
    /\ Use("fault")
    /\ \/ RetryLater(c, FALSE)
       \/ /\ chat[c].pc = "recovering" /\ ~Exhausted(c)
          /\ chat[c].plan # None /\ chat[c].plan.before # View
          /\ EndAttempt(c, [chat[c] EXCEPT !.pc = "waiting", !.failures = @ + 1, !.plan = None])
    /\ UNCHANGED <<gitlab, lock, rereview>>

\* Its report to the chat is not modelled.
PublishedChat(c) ==
    /\ chat[c].pc = "publishing" /\ pub[c].pc \in Answer
    /\ IF pub[c].pc = "ok" THEN EndChat(c) ELSE RetryLater(c, pub[c].pc = "conflict")
    /\ UNCHANGED <<gitlab, lock, rereview, used>>

-----------------------------------------------------------------------------
\* A process dies and its locks are free; its next run is another operation.
Crash(p) ==
    /\ Use("crash")
    /\ IF p \in Chat
       THEN /\ chat[p].pc # "idle"
            /\ chat' = [chat EXCEPT ![p] = [Asked EXCEPT !.run = chat[p].run]]
            /\ UNCHANGED rereview
       ELSE /\ rereview[p].pc # "idle"
            /\ rereview' = [rereview EXCEPT ![p] = [Resting EXCEPT !.run = rereview[p].run]]
            /\ UNCHANGED chat
    /\ pub' = [pub EXCEPT ![p] = Idle]
    /\ lock' = IF lock = p THEN None ELSE lock
    /\ exec' = IF exec = p THEN None ELSE exec
    /\ UNCHANGED gitlab

First == [rev |-> 1, find |-> [f \in Finding |->
             IF f \in Published THEN [rev |-> 1, state |-> "open"] ELSE Absent]]
FirstNote(of) == [of |-> of, rev |-> 1, state |-> "open", next |-> FALSE, mark |-> None,
                  archived |-> {}, total |-> IF of = Root THEN Cardinality(Published) ELSE 0]

Init ==
    /\ \E threads \in [1..Cardinality(Published) -> Published] :
          /\ \A f \in Published : \E i \in DOMAIN threads : threads[i] = f
          /\ notes = [i \in 1..(Len(threads) + 1) |->
                        FirstNote(IF i = 1 THEN Root ELSE threads[i - 1])]
    /\ records = {} /\ versions = <<[op |-> None, seen |-> First, review |-> First]>>
    /\ lock = None /\ exec = None
    /\ pub = [p \in Proc |-> Idle]
    /\ chat = [c \in Chat |-> Asked]
    /\ rereview = [p \in Rereview |-> Resting]
    /\ used = [k \in DOMAIN Bound |-> 0]

RereviewStep(p) == PublishRereview(p) \/ RebaseRereview(p) \/ EndRereview(p)
ChatStep(c) == Attempt(c) \/ ExecuteChat(c) \/ PublishChat(c) \/ PublishedChat(c)

Next ==
    \/ \E p \in Proc : PublisherStep(p) /\ UNCHANGED <<chat, rereview>>
    \/ \E p \in Rereview : StartRereview(p) \/ RereviewStep(p)
    \/ \E c \in Chat : StartChat(c) \/ ChatStep(c) \/ FailChat(c)
    \/ \E p \in Proc : Crash(p)

Spec == Init /\ [][Next]_vars

\* A process that runs goes on.  As its runs are few, a lock that it polls for is free for
\* good in the end.
Fairness ==
    /\ \A p \in Proc : WF_vars(PublisherStep(p) /\ UNCHANGED <<chat, rereview>>)
    /\ \A p \in Rereview : WF_vars(RereviewStep(p))
    /\ \A c \in Chat : WF_vars(ChatStep(c))

FairSpec == Spec /\ Fairness

-----------------------------------------------------------------------------
(* Properties.                                                             *)

Current == versions[Len(versions)].review

\* Every variable has its type.
TypeOK ==
    /\ notes \in Seq(Note) /\ lock \in Proc \cup {None} /\ exec \in Chat \cup {None}
    /\ \A r \in records : r.op \in Op /\ r.part \in 0..Parts
    /\ \A i \in 1..Len(versions) : versions[i].review \in Version
    /\ \A p \in Proc : pub[p].left \subseteq Finding /\ pub[p].ops \subseteq Op

\* Whoever reads the review between two writes reads a version that was committed as a whole,
\* or is told that there is none to read: never findings of one version and a summary of
\* another (ReviewResultsByID, the records, the order of the writes).
ReaderSeesVersions == View # None => View = Current

\* While no update is under way every finding has one live thread, which shows the current
\* version: no discussion is opened twice, none is left behind (applyUpdateItem, recovery).
ThreadsMatch ==
    (\A op \in {r.op : r \in records} : ~Uncommitted(op)) =>
        \A f \in Finding :
            LET live == {i \in 1..Len(notes) : notes[i].of = f /\ ~notes[i].next}
            IN  IF Current.find[f] = Absent THEN live = {}
                ELSE \E i \in live : /\ live = {i}
                                     /\ [rev |-> notes[i].rev, state |-> notes[i].state]
                                            = Current.find[f]

\* However often a correction is tried again, it is published once (ReviewUpdateCommitted,
\* the recovery that precedes each attempt).
CommittedOnce ==
    \A i, j \in 1..Len(versions) : versions[i].op = versions[j].op => i = j

\* A published change of a finding was decided on the version of it that it replaces: nothing
\* that landed during an evaluation, from whatever process, is overwritten (UpdateReview's
\* comparison under the lock, rebaseReconciled).
EvaluatedOnCurrent ==
    [][versions' # versions =>
         LET new == versions'[Len(versions')] IN
         \A f \in Finding : new.review.find[f] # Current.find[f] =>
                                new.seen.find[f] = Current.find[f]]_vars

\* No attempt waits for ever: neither for a lock whose holder waits in turn, nor for one that
\* a failed or dead process did not release.
AttemptsEnd ==
    /\ \A c \in Chat : chat[c].pc # "idle" ~> chat[c].pc = "idle"
    /\ \A p \in Rereview : rereview[p].pc # "idle" ~> rereview[p].pc = "idle"

\* Update.go says of UpdateReview that recovery "resumes exactly these writes if the process or
\* API fails": with nobody else editing the notes, no recovery finds that they "changed outside
\* this operation".
RecoveryResumes == \A p \in Proc : pub[p].pc # "blocked"
=============================================================================
