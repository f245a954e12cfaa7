----------------------------- MODULE ReviewCall -----------------------------
(***************************************************************************)
(* One call of the language model as an agent makes it: attempts down a    *)
(* ladder of reasoning efforts, one more at the same effort when the       *)
(* output repeated itself, and a last one without tools.  An attempt       *)
(* stands for its HTTP and stream retries, too.                            *)
(***************************************************************************)
EXTENDS Integers, FiniteSets

CONSTANTS
    Agent,      \* the agent loops, each with one call at a time
    Rungs       \* reasoning efforts of a ladder

ASSUME ReviewCallAssumption == Rungs \in Nat \ {0}

VARIABLE call   \* [Agent -> its call]

\* What an attempt may end in.  A response parses ("misplaced": with findings that point
\* nowhere, "refused": not what the agent's validator wants, "tools", "badtools": it calls
\* tools the agent has, or only others), is not valid JSON ("partial", "located": some of it
\* is, the latter but for code locations), or there is none ("torn": the stream broke off
\* within the answer; "dropped": it did, and the deadline cut the wait before the retry, whose
\* error has nothing of it).  A trouble is what the ladder recovers from.
Answers == {"answer", "misplaced", "refused", "tools", "badtools"}
Invalid == {"invalid", "partial", "located"}
Trouble == {"budget", "empty", "loop", "output", "rejected"}
Result == Answers \cup Invalid \cup {"failed", "torn", "dropped"}

\* again: the same effort was repeated.  blamed: reasoning took the budget, gave nothing or went
\* in circles.  single: a finalization.  cost: totalUsage, in attempts.  cut: an error under a
\* dead context.
Call == [pc: {"idle", "attempt", "bare", "over"}, rung: 1..Rungs, again: BOOLEAN, blamed: BOOLEAN,
         tools: BOOLEAN, single: BOOLEAN, cost: 0..Rungs + 2, result: Result \cup {"none"},
         cut: BOOLEAN, omitted: BOOLEAN]

NewCall(tools, single) ==
    [pc |-> "attempt", rung |-> 1, again |-> FALSE, blamed |-> FALSE, tools |-> tools, single |-> single,
     cost |-> 0, result |-> "none", cut |-> FALSE, omitted |-> FALSE]
NoCall == [NewCall(FALSE, FALSE) EXCEPT !.pc = "idle"]

\* Review returns; whatever error a dead context leaves is an InterruptedResponseError.
Back(c, out, dead) ==
    [c EXCEPT !.pc = "over", !.result = IF out \in Trouble THEN "failed" ELSE out,
              !.cut = dead /\ out \notin Answers,
              !.omitted = c.pc = "bare" /\ out \in Answers \cup Invalid]

\* The next effort, or the last attempt, at the effort and without the tools that were to blame.
Lower(c, dead) ==
    IF c.rung < Rungs THEN [c EXCEPT !.rung = @ + 1]
    ELSE IF c.tools /\ c.blamed THEN [c EXCEPT !.pc = "bare"]
    ELSE Back(c, "failed", dead)

\* The call c after an attempt that ended in out.
After(c, out, dead) ==
    LET s == [c EXCEPT !.blamed = @ \/ out \in {"budget", "empty", "loop"}]
    IN  IF c.pc = "bare" \/ c.single \/ out \notin Trouble THEN Back(c, out, dead)
        ELSE IF out = "output" /\ ~c.again THEN [s EXCEPT !.again = TRUE]
        ELSE IF out = "rejected" /\ Rungs = 1 THEN Back(c, out, dead)
        ELSE Lower(s, dead)

\* reviewOnce.
Attempt(a, dead) ==
    /\ call[a].pc \in {"attempt", "bare"}
    /\ \E out \in Result \cup Trouble :
        /\ out = "dropped" => dead
        /\ call' = [call EXCEPT ![a] = After([call[a] EXCEPT !.cost = @ + 1], out, dead)]
=============================================================================
