------------------------------ MODULE AgentLoop ------------------------------
(***************************************************************************)
(* Agent loops under the run's limiter.  A loop calls the model, executes  *)
(* the tools it asks for, retries what it cannot use and, out of tool      *)
(* calls, asks once more without tools.  A budgeted loop is cut at its     *)
(* soft deadline and then finalized from what it had, until its hard one.  *)
(***************************************************************************)
EXTENDS ReviewCall

CONSTANTS
    Budgeted,           \* the loops that run under a time budget
    Limit,              \* slots of the limiter
    MaxToolCalls,       \* limits of one loop, positive: 0 is unlimited in the code
    MaxDuplicates,
    MaxOutputRetries,
    MaxBatch            \* bound: tool calls in one response

ASSUME AgentLoopAssumption ==
    /\ Budgeted \subseteq Agent
    /\ {Limit, MaxToolCalls, MaxDuplicates, MaxOutputRetries, MaxBatch} \subseteq Nat \ {0}

VARIABLES
    agent,      \* [Agent -> its chain of loops, with their shared agentLoopState]
    clock,      \* [Agent -> where its budget is: early, urgent (past the soft deadline), over]
    cancelled   \* the run's context

vars == <<call, agent, clock, cancelled>>

\* stage: of the chain: the loop, its nested completion without tools (budgeted loops), the
\* fallback without tools (others), the finalization.  due: attempts paid for and not in the
\* chain's tokensUsed yet; inner: those in the nested loop's or the finalization's.  notes: what
\* the loop's result kept of traces and output, of all that was made of them ("unheard": output
\* of a call that was cut, and not in the error it returned).
NewAgent == [pc |-> "new", stage |-> "core", slot |-> FALSE, bare |-> FALSE, stubborn |-> FALSE,
             retries |-> 0, located |-> FALSE, used |-> 0, dups |-> 0, tries |-> 0,
             due |-> 0, inner |-> 0, notes |-> {}, innerNotes |-> {}, made |-> {}, outcome |-> "none"]

Init ==
    /\ call = [a \in Agent |-> NoCall]
    /\ agent = [a \in Agent |-> NewAgent]
    /\ clock = [a \in Agent |-> "early"]
    /\ cancelled = FALSE

Hard(a) == cancelled \/ clock[a] = "over"
Dead(a) == Hard(a) \/ (clock[a] # "early" /\ agent[a].stage # "final")

\* A chain holds one slot: a context that carries the admission passes.
Slots == {a \in Agent : agent[a].slot}
EveryLoopWaits(a) == Cardinality(Slots) < Limit     \* mutant: the nested loop waits, too
Admissible(a) == agent[a].slot \/ Cardinality(Slots) < Limit

Set(a, g) == agent' = [agent EXCEPT ![a] = g] /\ UNCHANGED <<call, clock, cancelled>>

-----------------------------------------------------------------------------
(* The end of a loop.                                                      *)

\* The nested loop's result, or the finalization's, goes into the loop's (MergeForgets, a mutant:
\* without its usage).
MergeForgets(g) == [g EXCEPT !.inner = 0, !.notes = @ \cup g.innerNotes, !.innerNotes = {}]
Merge(g) == [g EXCEPT !.due = @ - g.inner, !.inner = 0, !.notes = @ \cup g.innerNotes, !.innerNotes = {}]

\* Of the shared state, the finalization reads the retries only.
ToFinal(g) == [NewAgent EXCEPT !.pc = "admit", !.stage = "final", !.retries = g.retries, !.due = g.due,
                               !.notes = g.notes, !.made = g.made]
Done(g, out) == [NewAgent EXCEPT !.pc = "done", !.outcome = out, !.due = g.due]

\* The loop and the chain it completes return.  An error of a budgeted loop past its soft
\* deadline, whatever it is, leads to the finalization; the slot is given back in between.
Leave(a, g, out) ==
    IF a \in Budgeted /\ g.stage # "final" /\ out = "error" /\ ~Hard(a) /\ clock[a] = "urgent"
    THEN ToFinal(Merge(g)) ELSE Done(Merge(g), out)

-----------------------------------------------------------------------------
(* Its way to a call.                                                      *)

Begin(a) ==
    /\ agent[a].pc = "new"
    /\ Set(a, IF a \in Budgeted /\ Hard(a) THEN Done(agent[a], "error")
              ELSE IF clock[a] = "urgent" THEN ToFinal(agent[a])
              ELSE [agent[a] EXCEPT !.pc = "admit"])

\* The select of Acquire takes either when the context died while a slot came free.
Acquire(a) ==
    /\ agent[a].pc = "admit"
    /\ \/ Dead(a) /\ Set(a, Leave(a, agent[a], "error"))
       \/ Admissible(a) /\ Set(a, [agent[a] EXCEPT !.slot = TRUE, !.pc = "head"])

\* The head of the loop; the fallback's does not look at its context.
Turn(a) ==
    LET g == agent[a]
        stop == Dead(a) /\ g.stage # "fallback"
    IN  /\ g.pc = "head"
        /\ agent' = [agent EXCEPT ![a] = IF stop THEN Leave(a, g, "error") ELSE [g EXCEPT !.pc = "call"]]
        /\ call' = IF stop THEN call
                   ELSE [call EXCEPT ![a] = NewCall(g.stage = "core" /\ ~g.bare, g.stage = "final")]
        /\ UNCHANGED <<clock, cancelled>>

Ask(a) ==
    /\ agent[a].pc = "call"
    /\ Attempt(a, Dead(a))
    /\ agent' = [agent EXCEPT ![a].due = @ + 1]
    /\ UNCHANGED <<clock, cancelled>>

-----------------------------------------------------------------------------
(* What a loop does with a result.                                         *)

\* Of the output of a call that was cut, the error has what a stream left; not a response that
\* was complete and invalid, nor a stream that was to be retried.
Caught(c) == c.cut /\ c.result = "torn"
Unheard(c) == c.cut /\ c.result \in Invalid \cup {"dropped"}

\* The loop with the call's usage and notes in its own result.  An error that is neither
\* interrupted nor an invalid response carries no usage: its attempts are written off.
Heard(a) ==
    LET g == agent[a]
        c == call[a]
        lost == c.result \in {"failed", "torn"} /\ ~c.cut
        own == g.stage \in {"nested", "final"} /\ ~lost
        notes == IF a \notin Budgeted THEN {} ELSE {g.stage} \cup (IF Caught(c) THEN {"output"} ELSE {})
        made == notes \cup (IF a \in Budgeted /\ Unheard(c) THEN {"unheard"} ELSE {})
    IN  [g EXCEPT !.pc = "head",
             !.due = IF own THEN @ ELSE @ - c.cost, !.inner = IF own THEN @ + c.cost ELSE @,
             !.made = IF g.stage = "final" THEN @ ELSE @ \cup made,
             !.notes = IF g.stage = "core" THEN @ \cup notes ELSE @,
             !.innerNotes = IF g.stage = "nested" THEN @ \cup notes ELSE @]

Returned(a, results) == agent[a].pc = "call" /\ call[a].pc = "over" /\ call[a].result \in results
InLoop(a) == agent[a].stage \in {"core", "nested"} /\ ~call[a].cut
In(a, stage) == agent[a].stage = stage
Proceed(a, g) ==
    /\ agent' = [agent EXCEPT ![a] = g]
    /\ call' = [call EXCEPT ![a] = NoCall]
    /\ UNCHANGED <<clock, cancelled>>

MoreRetries(used) == used < MaxOutputRetries
Retried(g) == [g EXCEPT !.retries = @ + 1]
CanLocate(g) == ~g.located /\ MoreRetries(g.retries)
Located(g) == [Retried(g) EXCEPT !.located = TRUE]

\* An error: cut off by a deadline or the run's end, or of the call itself.
Fail(a) ==
    /\ Returned(a, Result)
    /\ \/ agent[a].stage \in {"core", "nested"} /\ call[a].cut
       \/ call[a].result \in {"failed", "torn", "dropped"}
    /\ Proceed(a, Leave(a, Heard(a), "error"))

\* A response that could be used: it is, unless the validator asks for another.
Use(a) ==
    /\ Returned(a, {"answer", "misplaced", "refused", "located", "partial"})
    /\ InLoop(a)
    /\ \/ call[a].result = "partial" /\ ~MoreRetries(agent[a].retries)
       \/ call[a].result = "misplaced" /\ ~CanLocate(agent[a])
       \/ call[a].result = "refused" /\ ~MoreRetries(agent[a].retries)
       \/ call[a].result \in {"answer", "located"}
    /\ Proceed(a, Leave(a, Heard(a), "ok"))

Refuse(a) ==
    /\ Returned(a, {"refused", "badtools", "located", "misplaced"} \cup
                   IF In(a, "nested") THEN {"tools"} ELSE {})
    /\ InLoop(a)
    /\ call[a].result = "misplaced" => ~CanLocate(agent[a])
    /\ MoreRetries(agent[a].retries)
    /\ Proceed(a, Retried(Heard(a)))

\* Only calls of tools it does not have, and no retry left.
Reject(a) ==
    /\ Returned(a, {"badtools"} \cup IF In(a, "nested") THEN {"tools"} ELSE {})
    /\ InLoop(a) /\ ~MoreRetries(agent[a].retries)
    /\ Proceed(a, Leave(a, Heard(a), "error"))

\* Once per state, findings without a place ask for a repair of the response.
Locate(a) ==
    /\ Returned(a, {"misplaced", "located"})
    /\ CanLocate(agent[a])
    /\ \/ InLoop(a) /\ Proceed(a, Located(Heard(a)))
       \/ /\ In(a, "fallback") /\ MoreRetries(agent[a].tries)
          /\ Proceed(a, [Located(Heard(a)) EXCEPT !.tries = @ + 1])

\* Invalid JSON; after an attempt without tools, the rest of the loop stays without.
Repair(a) ==
    LET without == call[a].omitted \/ agent[a].stubborn
    IN  /\ Returned(a, {"invalid", "partial"})
        /\ InLoop(a)
        /\ Proceed(a, IF MoreRetries(agent[a].retries)
                    THEN [Retried(Heard(a)) EXCEPT !.stubborn = without, !.bare = @ \/ without]
                    ELSE Leave(a, Heard(a), "error"))
        /\ call[a].result = "partial" => MoreRetries(agent[a].retries)

\* The response without tools: nested under the same budget, or a loop of its own.
Conclude(a, g) ==
    IF a \in Budgeted THEN [g EXCEPT !.stage = "nested", !.pc = "admit"] ELSE [g EXCEPT !.stage = "fallback"]

OffByOne(a, k) == agent[a].used + k > MaxToolCalls + 1      \* mutant
TooMany(a, k) == agent[a].used + k > MaxToolCalls

\* Tools, up to the limits on calls and on repeated ones; a handler of the agent's own may fail.
UseTools(a) ==
    LET g == Heard(a)
    IN  /\ Returned(a, {"tools"}) /\ In(a, "core")
        /\ \E k \in 1..MaxBatch, d \in 0..MaxBatch :
               LET after == [g EXCEPT !.used = @ + k, !.dups = @ + d]
               IN  /\ d <= k
                   /\ IF Dead(a) THEN Proceed(a, Leave(a, g, "error"))
                      ELSE IF TooMany(a, k) THEN Proceed(a, Conclude(a, g))
                      ELSE \/ Proceed(a, IF after.dups >= MaxDuplicates THEN Conclude(a, after) ELSE after)
                           \/ Proceed(a, Leave(a, g, "error"))

\* reviewWithoutTools: retries of its own, and no validation.
FallBack(a) ==
    LET g == agent[a]
        r == call[a].result
    IN  /\ Returned(a, Answers \cup Invalid) /\ In(a, "fallback")
        /\ IF r \in {"invalid", "partial"} /\ MoreRetries(g.tries)
           THEN Proceed(a, [Heard(a) EXCEPT !.tries = @ + 1])
           ELSE /\ r = "misplaced" => ~(CanLocate(g) /\ MoreRetries(g.tries))
                /\ Proceed(a, Leave(a, Heard(a), IF r = "invalid" THEN "error" ELSE "ok"))

\* finalizeBudgetAgent: a complete response, with one retry.
Finalize(a) ==
    LET g == agent[a]
    IN  /\ Returned(a, Answers \cup Invalid) /\ In(a, "final")
        /\ IF call[a].result \in {"answer", "misplaced"} THEN Proceed(a, Leave(a, Heard(a), "ok"))
           ELSE IF g.tries > 0 \/ Dead(a) \/ ~MoreRetries(g.retries) THEN Proceed(a, Leave(a, Heard(a), "error"))
           ELSE Proceed(a, [Retried(Heard(a)) EXCEPT !.tries = 1])

Handle(a) == \/ Fail(a) \/ Use(a) \/ Refuse(a) \/ Reject(a) \/ Locate(a) \/ Repair(a)
             \/ UseTools(a) \/ FallBack(a) \/ Finalize(a)

Tick(a) ==
    /\ ~cancelled /\ a \in Budgeted /\ agent[a].pc # "done" /\ clock[a] # "over"
    /\ clock' = [clock EXCEPT ![a] = IF @ = "early" THEN "urgent" ELSE "over"]
    /\ UNCHANGED <<call, agent, cancelled>>

Cancel == ~cancelled /\ cancelled' = TRUE /\ UNCHANGED <<call, agent, clock>>

Step(a) == Begin(a) \/ Acquire(a) \/ Turn(a) \/ Ask(a) \/ Handle(a)
Next == Cancel \/ \E a \in Agent : Step(a) \/ Tick(a)

Spec == Init /\ [][Next]_vars

\* Every request has a timeout, and a slot is given back.
FairSpec == Spec /\ \A a \in Agent : WF_vars(Step(a))

-----------------------------------------------------------------------------
(* Properties.                                                             *)

Stages == {"core", "nested", "fallback", "final"}

\* Every variable keeps its type, and no interleaving of loops that share a state passes a limit:
\* slots of the limiter, tool calls, and retries of the loop, its nested completion and its
\* finalization together.
TypeOK ==
    /\ call \in [Agent -> Call]
    /\ \A a \in Agent :
           LET g == agent[a]
           IN  /\ g.pc \in {"new", "admit", "head", "call", "done"} /\ g.stage \in Stages
               /\ g.used <= MaxToolCalls /\ g.retries <= MaxOutputRetries /\ g.tries <= MaxOutputRetries
               /\ g.due \in Nat /\ g.inner \in Nat /\ g.outcome \in {"none", "ok", "error"}
               /\ g.notes \cup g.innerNotes \subseteq g.made /\ g.made \subseteq Stages \cup {"output", "unheard"}
               /\ g.slot = (g.pc \in {"head", "call"} \/ (g.pc = "admit" /\ g.stage = "nested"))
    /\ Cardinality(Slots) <= Limit
    /\ clock \in [Agent -> {"early", "urgent", "over"}] /\ cancelled \in BOOLEAN

UsageAccounted(a) == agent[a].pc = "done" => agent[a].due = 0
NotesSurvive(a) == agent[a].stage = "final" => agent[a].notes = agent[a].made \ {"unheard"}

\* Whatever cuts a loop short, what it paid for and what it made is kept: a loop that returned has
\* every attempt whose usage a call reported in its tokensUsed, once - those of effort steps, of
\* retries, of partial responses it used, of the nested completion, of the call the deadline cut
\* and of the finalization - and a loop that is finalized has the notes of all its calls in the
\* prompt, with what a broken stream left of the one that was cut and those of the nested
\* completion - all but the output CutOutputKept is about.
NothingLost == \A a \in Agent : UsageAccounted(a) /\ NotesSurvive(a)

\* "InterruptedResponseError preserves work received before caller cancellation": a loop that is
\* finalized has all output of the call its deadline cut.  A response that was complete but not
\* valid is there when the error is made, and the error takes only what a broken stream left; a
\* stream that broke off is forgotten once its retry is waited for.
CutOutputKept == \A a \in Agent : agent[a].stage = "final" => agent[a].notes = agent[a].made

\* Every loop returns, without help of a deadline: chains that nest never wait for the slot they
\* hold, and retries, tool rounds and effort steps run out, whatever the model answers.
AgentsEnd == \A a \in Agent : <>(agent[a].pc = "done")
=============================================================================
