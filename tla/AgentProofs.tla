----------------------------- MODULE AgentProofs -----------------------------
(***************************************************************************)
(* Whatever cuts a loop short, its usage and its notes are kept: proved    *)
(* for any loops, limits and efforts.  Between calls everything paid for   *)
(* is in the result of the loop or of the inner one, and all that was made *)
(* is in the notes of either, but for output no error carried; a call adds *)
(* its attempts, and every way on accounts for them.                       *)
(***************************************************************************)
EXTENDS AgentLoop, TLAPS, FiniteSetTheorems

Fields == {"pc", "stage", "slot", "bare", "stubborn", "retries", "located", "used", "dups", "tries",
           "due", "inner", "notes", "innerNotes", "made", "outcome"}
CallFields == {"pc", "rung", "again", "blamed", "tools", "single", "cost", "result", "cut", "omitted"}

\* The inner result is empty unless a nested loop or the finalization fills it.
Kept(a, g) ==
    /\ DOMAIN g = Fields /\ g.due \in Int /\ g.inner \in Int
    /\ g.stage \in Stages
    /\ g.stage \in {"core", "fallback"} => g.inner = 0
    /\ "unheard" \notin g.notes \cup g.innerNotes
    /\ g.stage = "nested" => g.notes \cup g.innerNotes = g.made \ {"unheard"}
    /\ g.stage # "nested" => g.notes = g.made \ {"unheard"} /\ g.innerNotes = {}
    /\ g.pc \in {"new", "done"} => g.stage = "core"
    /\ g.stage = "fallback" => a \notin Budgeted

ACall(c) == DOMAIN c = CallFields /\ c.cost \in Int

\* Between calls, and during one.
Settled(a, g) == Kept(a, g) /\ g.due = g.inner
Calling(a, g, c) == Kept(a, g) /\ ACall(c) /\ g.due = g.inner + c.cost
Fine(a, g, c) == IF g.pc = "call" THEN Calling(a, g, c) ELSE Settled(a, g)

IInv ==
    /\ DOMAIN agent = Agent
    /\ DOMAIN call = Agent
    /\ \A a \in Agent : Fine(a, agent[a], call[a])

-----------------------------------------------------------------------------
(* What a step makes of a loop.                                            *)

\* A merge leaves nothing in the inner result, and nothing out of the outer one.
LEMMA MergeEmpties ==
    ASSUME NEW a, NEW g, Settled(a, g)
    PROVE  /\ DOMAIN Merge(g) = Fields
           /\ Merge(g).due = 0
           /\ Merge(g).notes = Merge(g).made \ {"unheard"}
<1>1. /\ DOMAIN Merge(g) = Fields
      /\ Merge(g).due = g.due - g.inner
      /\ Merge(g).notes = g.notes \cup g.innerNotes
      /\ Merge(g).made = g.made
  BY DEF Settled, Kept, Merge, Fields
<1> QED
  BY <1>1 DEF Settled, Kept

LEMMA ToFinalSettled ==
    ASSUME NEW a, NEW g, g.due = 0, g.notes = g.made \ {"unheard"}
    PROVE  Settled(a, ToFinal(g)) /\ ToFinal(g).pc = "admit"
BY DEF Settled, Kept, ToFinal, NewAgent, Fields, Stages

LEMMA DoneSettled ==
    ASSUME NEW a, NEW g, g.due = 0, NEW out
    PROVE  Settled(a, Done(g, out)) /\ Done(g, out).pc = "done"
BY DEF Settled, Kept, Done, NewAgent, Fields, Stages

LEMMA LeaveSettled ==
    ASSUME NEW a, NEW g, Settled(a, g), NEW out
    PROVE  Settled(a, Leave(a, g, out)) /\ Leave(a, g, out).pc # "call"
<1>1. Merge(g).due = 0 /\ Merge(g).notes = Merge(g).made \ {"unheard"}
  BY MergeEmpties
<1>2. Settled(a, ToFinal(Merge(g))) /\ ToFinal(Merge(g)).pc = "admit"
  BY <1>1, ToFinalSettled
<1>3. Settled(a, Done(Merge(g), out)) /\ Done(Merge(g), out).pc = "done"
  BY <1>1, DoneSettled
<1> QED
  BY <1>2, <1>3 DEF Leave

\* However a call ended, its attempts are in the result of the loop that made it, or written off.
LEMMA HeardSettled ==
    ASSUME NEW a \in Agent, Calling(a, agent[a], call[a])
    PROVE  Settled(a, Heard(a)) /\ Heard(a).pc = "head" /\ Heard(a).stage = agent[a].stage
<1> DEFINE g == agent[a]
           c == call[a]
           lost == c.result \in {"failed", "torn"} /\ ~c.cut
           own == g.stage \in {"nested", "final"} /\ ~lost
           notes == IF a \notin Budgeted THEN {}
                    ELSE {g.stage} \cup (IF Caught(c) THEN {"output"} ELSE {})
           made == notes \cup (IF a \in Budgeted /\ Unheard(c) THEN {"unheard"} ELSE {})
           h == Heard(a)
<1>1. DOMAIN g = Fields /\ g.due \in Int /\ g.inner \in Int /\ c.cost \in Int
  BY DEF Calling, Kept, ACall
<1>2. h = [g EXCEPT !.pc = "head",
               !.due = IF own THEN @ ELSE @ - c.cost,
               !.inner = IF own THEN @ + c.cost ELSE @,
               !.made = IF g.stage = "final" THEN @ ELSE @ \cup made,
               !.notes = IF g.stage = "core" THEN @ \cup notes ELSE @,
               !.innerNotes = IF g.stage = "nested" THEN @ \cup notes ELSE @]
  BY DEF Heard
<1>3. /\ a \notin Budgeted => made = {}
      /\ notes = made \ {"unheard"} /\ "unheard" \notin notes
  BY DEF Calling, Kept, Stages
<1> HIDE DEF h, made, notes, own
<1>4. /\ DOMAIN h = Fields /\ h.pc = "head" /\ h.stage = g.stage
      /\ h.due = IF own THEN g.due ELSE g.due - c.cost
      /\ h.inner = IF own THEN g.inner + c.cost ELSE g.inner
      /\ h.made = IF g.stage = "final" THEN g.made ELSE g.made \cup made
      /\ h.notes = IF g.stage = "core" THEN g.notes \cup notes ELSE g.notes
      /\ h.innerNotes = IF g.stage = "nested" THEN g.innerNotes \cup notes ELSE g.innerNotes
  BY <1>1, <1>2 DEF Fields
<1>5. h.due = h.inner /\ h.due \in Int /\ h.inner \in Int
  BY <1>1, <1>4 DEF Calling
<1>6. h.stage \in {"core", "fallback"} => h.inner = 0
  BY <1>4 DEF Calling, Kept, own
<1>7. /\ "unheard" \notin h.notes \cup h.innerNotes
      /\ h.stage = "nested" => h.notes \cup h.innerNotes = h.made \ {"unheard"}
  BY <1>3, <1>4 DEF Calling, Kept
<1>8. h.stage # "nested" => h.notes = h.made \ {"unheard"} /\ h.innerNotes = {}
  <2>1. CASE g.stage = "core"
    BY <2>1, <1>3, <1>4 DEF Calling, Kept
  <2>2. CASE g.stage = "fallback"
    BY <2>2, <1>3, <1>4 DEF Calling, Kept
  <2>3. CASE g.stage = "final"
    BY <2>3, <1>4 DEF Calling, Kept
  <2> QED
    BY <2>1, <2>2, <2>3, <1>4 DEF Calling, Kept, Stages
<1>9. Settled(a, h)
  BY <1>4, <1>5, <1>6, <1>7, <1>8 DEF Settled, Kept, Calling
<1> QED
  BY <1>4, <1>9 DEF h

\* Retries, tries, tools and the code location change nothing the accounts are made of.
LEMMA ControlOnly ==
    ASSUME NEW a, NEW g, Settled(a, g), NEW h,
           DOMAIN h = Fields, h.stage = g.stage, h.due = g.due, h.inner = g.inner, h.notes = g.notes,
           h.innerNotes = g.innerNotes, h.made = g.made, h.pc \in {"admit", "head"}
    PROVE  Settled(a, h)
BY DEF Settled, Kept

LEMMA RetriedSettled ==
    ASSUME NEW a, NEW g, Settled(a, g), g.pc = "head"
    PROVE  /\ Settled(a, Retried(g)) /\ Retried(g).pc = "head"
           /\ Settled(a, Located(g)) /\ Located(g).pc = "head"
<1>1. DOMAIN g = Fields
  BY DEF Settled, Kept
<1>2. Settled(a, Retried(g)) /\ Retried(g).pc = "head"
  BY <1>1, ControlOnly DEF Retried, Fields
<1>3. Settled(a, Located(g)) /\ Located(g).pc = "head"
  <2>1. DOMAIN Retried(g) = Fields
    BY <1>2 DEF Settled, Kept
  <2> DEFINE r == Retried(g)
  <2> HIDE DEF r
  <2>2. Located(g) = [r EXCEPT !.located = TRUE]
    BY DEF Located, r
  <2>3. DOMAIN r = Fields /\ Settled(a, r) /\ r.pc = "head"
    BY <2>1, <1>2 DEF r
  <2> QED
    BY <2>2, <2>3, ControlOnly DEF Fields
<1> QED
  BY <1>2, <1>3

LEMMA ConcludeSettled ==
    ASSUME NEW a, NEW g, Settled(a, g), g.stage = "core", g.pc = "head"
    PROVE  Settled(a, Conclude(a, g)) /\ Conclude(a, g).pc # "call"
BY DEF Settled, Kept, Conclude, Fields, Stages

-----------------------------------------------------------------------------
(* The steps.                                                              *)

LEMMA OneMoves ==
    ASSUME IInv, NEW a \in Agent, NEW g, NEW c, Fine(a, g, c),
           agent' = [agent EXCEPT ![a] = g], call' = [call EXCEPT ![a] = c] \/ (call' = call /\ c = call[a])
    PROVE  IInv'
<1>1. DOMAIN agent' = Agent /\ DOMAIN call' = Agent
  BY DEF IInv
<1>2. agent'[a] = g /\ call'[a] = c
  BY DEF IInv
<1>3. \A b \in Agent : b # a => agent'[b] = agent[b] /\ call'[b] = call[b]
  BY DEF IInv
<1>4. ASSUME NEW b \in Agent
      PROVE  Fine(b, agent'[b], call'[b])
  <2>1. CASE b = a
    BY <2>1, <1>2
  <2>2. CASE b # a
    BY <2>2, <1>3 DEF IInv
  <2> QED
    BY <2>1, <2>2
<1> QED
  BY <1>1, <1>4 DEF IInv

LEMMA SetInv ==
    ASSUME IInv, NEW a \in Agent, NEW g, Set(a, g), Settled(a, g), g.pc # "call"
    PROVE  IInv'
BY OneMoves DEF Set, Fine

LEMMA ProceedInv ==
    ASSUME IInv, NEW a \in Agent, NEW g, Proceed(a, g), Settled(a, g), g.pc # "call"
    PROVE  IInv'
BY OneMoves DEF Proceed, Fine

LEMMA BeginInv ==
    ASSUME IInv, NEW a \in Agent, Begin(a)
    PROVE  IInv'
<1> DEFINE g == agent[a]
<1>1. Settled(a, g) /\ g.pc = "new" /\ g.due = 0 /\ g.notes = g.made \ {"unheard"} /\ DOMAIN g = Fields
  BY DEF IInv, Fine, Begin, Settled, Kept
<1>2. Settled(a, Done(g, "error")) /\ Done(g, "error").pc # "call"
  BY <1>1, DoneSettled
<1>3. Settled(a, ToFinal(g)) /\ ToFinal(g).pc # "call"
  BY <1>1, ToFinalSettled
<1> DEFINE h == [g EXCEPT !.pc = "admit"]
<1>4. Settled(a, h) /\ h.pc # "call"
  BY <1>1 DEF Settled, Kept, Fields
<1> HIDE DEF g, h
<1>5. Set(a, Done(g, "error")) \/ Set(a, ToFinal(g)) \/ Set(a, h)
  BY DEF Begin, g, h
<1> QED
  BY <1>2, <1>3, <1>4, <1>5, SetInv

LEMMA AcquireInv ==
    ASSUME IInv, NEW a \in Agent, Acquire(a)
    PROVE  IInv'
<1> DEFINE g == agent[a]
           h == [g EXCEPT !.slot = TRUE, !.pc = "head"]
<1>1. Settled(a, g)
  BY DEF IInv, Fine, Acquire
<1>2. Settled(a, Leave(a, g, "error")) /\ Leave(a, g, "error").pc # "call"
  BY <1>1, LeaveSettled
<1>3. Settled(a, h) /\ h.pc # "call"
  BY <1>1 DEF Settled, Kept, Fields
<1> HIDE DEF g, h
<1>4. Set(a, Leave(a, g, "error")) \/ Set(a, h)
  BY DEF Acquire, g, h
<1> QED
  BY <1>2, <1>3, <1>4, SetInv

LEMMA TurnInv ==
    ASSUME IInv, NEW a \in Agent, Turn(a)
    PROVE  IInv'
<1> DEFINE g == agent[a]
           h == [g EXCEPT !.pc = "call"]
           c == NewCall(g.stage = "core" /\ ~g.bare, g.stage = "final")
<1>1. Settled(a, g)
  BY DEF IInv, Fine, Turn
<1>2. Settled(a, Leave(a, g, "error")) /\ Leave(a, g, "error").pc # "call"
  BY <1>1, LeaveSettled
<1>3. Calling(a, h, c) /\ h.pc = "call"
  <2>1. ACall(c) /\ c.cost = 0
    BY DEF ACall, NewCall, CallFields
  <2>2. Kept(a, h) /\ h.pc = "call" /\ h.due = h.inner /\ h.inner \in Int
    BY <1>1 DEF Settled, Kept, Fields
  <2> HIDE DEF h, c
  <2> QED
    BY <2>1, <2>2 DEF Calling, ACall
<1>4. CASE agent' = [agent EXCEPT ![a] = Leave(a, g, "error")] /\ call' = call
  BY <1>2, <1>4, OneMoves DEF Fine
<1>5. CASE agent' = [agent EXCEPT ![a] = h] /\ call' = [call EXCEPT ![a] = c]
  <2>1. Fine(a, h, c)
    BY <1>3 DEF Fine
  <2> HIDE DEF g, h, c
  <2> QED
    BY <2>1, <1>5, OneMoves
<1> QED
  BY <1>4, <1>5 DEF Turn

\* An attempt is paid for in the call and in the loop at once.
LEMMA AskInv ==
    ASSUME IInv, NEW a \in Agent, Ask(a)
    PROVE  IInv'
<1> DEFINE g == agent[a]
           c == call[a]
           h == [g EXCEPT !.due = @ + 1]
           d == [c EXCEPT !.cost = @ + 1]
<1>1. Calling(a, g, c) /\ g.pc = "call"
  BY DEF IInv, Fine, Ask
<1>2. ACall(d) /\ d.cost = c.cost + 1
  BY <1>1 DEF Calling, ACall, CallFields
<1>3. PICK out : call' = [call EXCEPT ![a] = After(d, out, Dead(a))]
  BY DEF Ask, Attempt
<1> DEFINE e == After(d, out, Dead(a))
<1> HIDE DEF d
<1>4. ACall(e) /\ e.cost = d.cost
  BY <1>2 DEF After, Lower, Back, ACall, CallFields
<1>5. Kept(a, h) /\ h.pc = "call" /\ h.due = g.due + 1 /\ h.inner = g.inner
  BY <1>1 DEF Calling, Kept, Fields
<1> HIDE DEF e, h
<1>6. Fine(a, h, e)
  BY <1>1, <1>2, <1>4, <1>5 DEF Fine, Calling, Kept, ACall
<1>7. agent' = [agent EXCEPT ![a] = h]
  BY DEF Ask, h
<1> QED
  BY <1>3, <1>6, <1>7, OneMoves DEF e

\* What a loop does with a result starts from a settled record.
LEMMA ReturnedSettled ==
    ASSUME IInv, NEW a \in Agent, NEW R, Returned(a, R)
    PROVE  /\ Settled(a, Heard(a)) /\ Heard(a).pc = "head" /\ Heard(a).stage = agent[a].stage
           /\ \A out : Settled(a, Leave(a, Heard(a), out)) /\ Leave(a, Heard(a), out).pc # "call"
           /\ Settled(a, Retried(Heard(a))) /\ Retried(Heard(a)).pc = "head"
           /\ Settled(a, Located(Heard(a))) /\ Located(Heard(a)).pc = "head"
<1>1. Calling(a, agent[a], call[a])
  BY DEF IInv, Fine, Returned
<1>2. Settled(a, Heard(a)) /\ Heard(a).pc = "head" /\ Heard(a).stage = agent[a].stage
  BY <1>1, HeardSettled
<1>3. ASSUME NEW out
      PROVE  Settled(a, Leave(a, Heard(a), out)) /\ Leave(a, Heard(a), out).pc # "call"
  BY <1>2, LeaveSettled
<1> QED
  BY <1>2, <1>3, RetriedSettled

LEMMA TriedSettled ==
    ASSUME NEW a, NEW g, Settled(a, g), g.pc = "head", NEW h, NEW n,
           h = [g EXCEPT !.tries = n]
    PROVE  Settled(a, h) /\ h.pc # "call"
BY DEF Settled, Kept, Fields

LEMMA UsedSettled ==
    ASSUME NEW a, NEW g, Settled(a, g), g.pc = "head", NEW h, NEW m, NEW n,
           h = [g EXCEPT !.used = m, !.dups = n]
    PROVE  Settled(a, h) /\ h.pc = "head" /\ h.stage = g.stage
BY DEF Settled, Kept, Fields

LEMMA EndingsInv ==
    ASSUME IInv, NEW a \in Agent, Fail(a) \/ Use(a) \/ Refuse(a) \/ Reject(a)
    PROVE  IInv'
<1> DEFINE h == Heard(a)
<1>1. PICK R : Returned(a, R)
  BY DEF Fail, Use, Refuse, Reject
<1>2. /\ \A out : Settled(a, Leave(a, h, out)) /\ Leave(a, h, out).pc # "call"
      /\ Settled(a, Retried(h)) /\ Retried(h).pc = "head"
  BY <1>1, ReturnedSettled
<1> HIDE DEF h
<1>3. Proceed(a, Leave(a, h, "error")) \/ Proceed(a, Leave(a, h, "ok")) \/ Proceed(a, Retried(h))
  BY DEF Fail, Use, Refuse, Reject, h
<1> QED
  BY <1>2, <1>3, ProceedInv

LEMMA LocateInv ==
    ASSUME IInv, NEW a \in Agent, Locate(a)
    PROVE  IInv'
<1> DEFINE h == Located(Heard(a))
           k == [h EXCEPT !.tries = @ + 1]
<1>1. Settled(a, h) /\ h.pc = "head"
  BY ReturnedSettled DEF Locate
<1>2. Settled(a, k) /\ k.pc # "call"
  <2> HIDE DEF h
  <2> QED
    BY <1>1, TriedSettled
<1> HIDE DEF h, k
<1>3. Proceed(a, h) \/ Proceed(a, k)
  BY DEF Locate, h, k
<1> QED
  BY <1>1, <1>2, <1>3, ProceedInv

LEMMA RepairInv ==
    ASSUME IInv, NEW a \in Agent, Repair(a)
    PROVE  IInv'
<1> DEFINE h == Heard(a)
           r == Retried(h)
           w == call[a].omitted \/ agent[a].stubborn
           k == [r EXCEPT !.stubborn = w, !.bare = @ \/ w]
<1>1. /\ Settled(a, Leave(a, h, "error")) /\ Leave(a, h, "error").pc # "call"
      /\ Settled(a, r) /\ r.pc = "head"
  BY ReturnedSettled DEF Repair
<1>2. Settled(a, k) /\ k.pc # "call"
  <2> HIDE DEF r
  <2> QED
    BY <1>1 DEF Settled, Kept, Fields
<1> HIDE DEF h, k
<1>3. Proceed(a, k) \/ Proceed(a, Leave(a, h, "error"))
  BY DEF Repair, h, k
<1> QED
  BY <1>1, <1>2, <1>3, ProceedInv

LEMMA UseToolsInv ==
    ASSUME IInv, NEW a \in Agent, UseTools(a)
    PROVE  IInv'
<1> DEFINE g == Heard(a)
           after(k, d) == [g EXCEPT !.used = @ + k, !.dups = @ + d]
<1>1. /\ Settled(a, g) /\ g.pc = "head" /\ g.stage = "core"
      /\ Settled(a, Leave(a, g, "error")) /\ Leave(a, g, "error").pc # "call"
  BY ReturnedSettled DEF UseTools, In
<1>2. PICK k \in 1..MaxBatch, d \in 0..MaxBatch :
          \/ Proceed(a, Leave(a, g, "error"))
          \/ Proceed(a, Conclude(a, g))
          \/ Proceed(a, Conclude(a, after(k, d)))
          \/ Proceed(a, after(k, d))
  <2> HIDE DEF g
  <2> QED
    BY DEF UseTools, g
<1> DEFINE h == after(k, d)
<1> HIDE DEF g
<1>3. h = [g EXCEPT !.used = g.used + k, !.dups = g.dups + d]
  OBVIOUS
<1> HIDE DEF h
<1>4. Settled(a, h) /\ h.pc = "head" /\ h.stage = "core"
  BY <1>1, <1>3, UsedSettled
<1>5. /\ Settled(a, Conclude(a, g)) /\ Conclude(a, g).pc # "call"
      /\ Settled(a, Conclude(a, h)) /\ Conclude(a, h).pc # "call"
  BY <1>1, <1>4, ConcludeSettled
<1> QED
  BY <1>1, <1>2, <1>4, <1>5, ProceedInv DEF h

LEMMA FallBackInv ==
    ASSUME IInv, NEW a \in Agent, FallBack(a)
    PROVE  IInv'
<1> DEFINE h == Heard(a)
           k == [h EXCEPT !.tries = @ + 1]
<1>1. /\ Settled(a, h) /\ h.pc = "head"
      /\ \A out : Settled(a, Leave(a, h, out)) /\ Leave(a, h, out).pc # "call"
  BY ReturnedSettled DEF FallBack
<1>2. Settled(a, k) /\ k.pc # "call"
  <2> HIDE DEF h
  <2> QED
    BY <1>1, TriedSettled
<1> HIDE DEF h, k
<1>3. Proceed(a, k) \/ \E out : Proceed(a, Leave(a, h, out))
  BY DEF FallBack, h, k
<1> QED
  BY <1>1, <1>2, <1>3, ProceedInv

LEMMA FinalizeInv ==
    ASSUME IInv, NEW a \in Agent, Finalize(a)
    PROVE  IInv'
<1> DEFINE h == Heard(a)
           r == Retried(h)
           k == [r EXCEPT !.tries = 1]
<1>1. /\ Settled(a, r) /\ r.pc = "head"
      /\ \A out : Settled(a, Leave(a, h, out)) /\ Leave(a, h, out).pc # "call"
  BY ReturnedSettled DEF Finalize
<1>2. Settled(a, k) /\ k.pc # "call"
  <2> HIDE DEF r
  <2> QED
    BY <1>1, TriedSettled
<1> HIDE DEF h, k
<1>3. Proceed(a, k) \/ \E out : Proceed(a, Leave(a, h, out))
  BY DEF Finalize, h, k
<1> QED
  BY <1>1, <1>2, <1>3, ProceedInv

-----------------------------------------------------------------------------
(* The theorem.                                                            *)

LEMMA InitInv == Init => IInv
BY DEF Init, IInv, Fine, Settled, Kept, NewAgent, Fields, Stages

LEMMA NextInv == IInv /\ [Next]_vars => IInv'
<1> SUFFICES ASSUME IInv, [Next]_vars
             PROVE  IInv'
  OBVIOUS
<1>1. ASSUME NEW a \in Agent, Step(a)
      PROVE  IInv'
  BY <1>1, BeginInv, AcquireInv, TurnInv, AskInv, EndingsInv, LocateInv, RepairInv, UseToolsInv,
     FallBackInv, FinalizeInv DEF Step, Handle
<1>2. ASSUME NEW a \in Agent, Tick(a)
      PROVE  IInv'
  BY <1>2 DEF Tick, IInv
<1>3. CASE Cancel
  BY <1>3 DEF Cancel, IInv
<1>4. CASE UNCHANGED vars
  BY <1>4 DEF vars, IInv
<1> QED
  BY <1>1, <1>2, <1>3, <1>4 DEF Next

\* Every loop that returned accounts for each attempt once, and every loop that is finalized has
\* what was made in its calls, but for the output of a call cut after a whole response that was
\* not valid, or while the retry of a broken stream was waited for: for any loops, slots, limits
\* and efforts, whatever the model answers and whenever a deadline or the run's end cuts it.
THEOREM NothingIsLost == Spec => []NothingLost
<1>1. IInv => NothingLost
  BY DEF IInv, Fine, Settled, Calling, Kept, NothingLost, UsageAccounted, NotesSurvive
<1>2. Spec => []IInv
  BY InitInv, NextInv, PTL DEF Spec
<1> QED
  BY <1>1, <1>2, PTL

-----------------------------------------------------------------------------
(* Limits: what is counted for one loop and for all of them.               *)

Some == Stages \cup {"output", "unheard"}
Loop == [pc : {"new", "admit", "head", "call", "done"}, stage : Stages, slot : BOOLEAN,
         bare : BOOLEAN, stubborn : BOOLEAN, retries : 0..MaxOutputRetries, located : BOOLEAN,
         used : 0..MaxToolCalls, dups : Nat, tries : 0..MaxOutputRetries, due : Nat, inner : Nat,
         notes : SUBSET Some, innerNotes : SUBSET Some, made : SUBSET Some,
         outcome : {"none", "ok", "error"}]

\* A loop holds its slot from its admission to its end.
Within(g) ==
    /\ g \in Loop
    /\ g.slot = (g.pc \in {"head", "call"} \/ (g.pc = "admit" /\ g.stage = "nested"))

\* Each effort costs an attempt, one is repeated, and one goes without tools.
Laddered(c) ==
    /\ c \in Call
    /\ c.pc = "attempt" => c.cost = c.rung - 1 + (IF c.again THEN 1 ELSE 0)
    /\ c.pc = "bare" => c.cost <= Rungs + 1

Limits ==
    /\ call \in [Agent -> Call]
    /\ \A a \in Agent : Within(agent[a]) /\ Laddered(call[a])
    /\ IsFiniteSet(Slots) /\ Cardinality(Slots) <= Limit
    /\ clock \in [Agent -> {"early", "urgent", "over"}] /\ cancelled \in BOOLEAN

LEMMA AttemptLaddered ==
    ASSUME NEW c, Laddered(c), c.pc \in {"attempt", "bare"}, NEW out \in Result \cup Trouble,
           NEW dead \in BOOLEAN
    PROVE  Laddered(After([c EXCEPT !.cost = @ + 1], out, dead))
<1> DEFINE d == [c EXCEPT !.cost = @ + 1]
           s == [d EXCEPT !.blamed = @ \/ out \in {"budget", "empty", "loop"}]
<1>0. Rungs \in Nat /\ Rungs >= 1 /\ c.rung \in 1..Rungs /\ c.cost \in Int
  BY ReviewCallAssumption DEF Laddered, Call
<1>1. c.cost + 1 \in 0..Rungs + 2
  BY <1>0 DEF Laddered, Call
<1>2. /\ d \in Call /\ d.pc = c.pc /\ d.rung = c.rung /\ d.again = c.again
      /\ d.cost = c.cost + 1
  BY <1>1 DEF Laddered, Call
<1>3. /\ s \in Call /\ s.pc = d.pc /\ s.rung = d.rung /\ s.again = d.again /\ s.cost = d.cost
      /\ s.tools = d.tools
  BY <1>2 DEF Call
<1> HIDE DEF d, s
<1>4. ASSUME NEW r \in Call, NEW o \in Result \cup Trouble
      PROVE  Laddered(Back(r, o, dead))
  <2> DEFINE b == Back(r, o, dead)
             result == IF o \in Trouble THEN "failed" ELSE o
             cut == dead /\ o \notin Answers
             omitted == r.pc = "bare" /\ o \in Answers \cup Invalid
  <2>1. result \in Result
    BY <1>4 DEF Result
  <2>2. cut \in BOOLEAN /\ omitted \in BOOLEAN
    OBVIOUS
  <2>3. b = [r EXCEPT !.pc = "over", !.result = result, !.cut = cut, !.omitted = omitted]
    BY DEF Back
  <2> HIDE DEF b, result, cut, omitted
  <2>4. b \in Call /\ b.pc = "over"
    BY <1>4, <2>1, <2>2, <2>3 DEF Call
  <2> QED
    BY <2>4 DEF Laddered, b
<1>5. ASSUME c.pc = "attempt"
      PROVE  Laddered(Lower(s, dead))
  <2>1. s.cost = s.rung + (IF s.again THEN 1 ELSE 0) /\ s.rung \in 1..Rungs /\ s.again \in BOOLEAN
    BY <1>0, <1>2, <1>3, <1>5 DEF Laddered, Call
  <2>2. CASE s.rung < Rungs
    <3>1. s.rung + 1 \in 1..Rungs
      BY <1>0, <2>1, <2>2
    <3> DEFINE u == [s EXCEPT !.rung = @ + 1]
    <3>2. u \in Call /\ u.pc = s.pc /\ u.rung = s.rung + 1 /\ u.again = s.again /\ u.cost = s.cost
      BY <1>3, <3>1 DEF Call
    <3>3. Lower(s, dead) = u
      BY <2>2 DEF Lower
    <3> HIDE DEF u
    <3> QED
      BY <1>0, <1>2, <1>3, <1>5, <2>1, <3>2, <3>3 DEF Laddered
  <2>3. CASE ~(s.rung < Rungs) /\ s.tools /\ s.blamed
    <3> DEFINE u == [s EXCEPT !.pc = "bare"]
    <3>1. u \in Call /\ u.pc = "bare" /\ u.cost = s.cost
      BY <1>3 DEF Call
    <3>2. Lower(s, dead) = u
      BY <2>3 DEF Lower
    <3> HIDE DEF u
    <3>3. s.cost <= Rungs + 1
      BY <1>0, <2>1
    <3> QED
      BY <3>1, <3>2, <3>3 DEF Laddered
  <2>4. CASE ~(s.rung < Rungs) /\ ~(s.tools /\ s.blamed)
    <3>1. Lower(s, dead) = Back(s, "failed", dead)
      BY <2>4 DEF Lower
    <3> QED
      BY <1>3, <1>4, <3>1 DEF Result
  <2> QED
    BY <2>2, <2>3, <2>4
<1>6. ASSUME c.pc = "attempt", ~d.again
      PROVE  Laddered([s EXCEPT !.again = TRUE])
  <2> DEFINE u == [s EXCEPT !.again = TRUE]
  <2>1. u \in Call /\ u.pc = s.pc /\ u.rung = s.rung /\ u.again /\ u.cost = s.cost
    BY <1>3 DEF Call
  <2> HIDE DEF u
  <2>2. u.cost = c.cost + 1 /\ c.cost = c.rung - 1
    BY <1>0, <1>2, <1>3, <1>6, <2>1 DEF Laddered
  <2>3. Laddered(u)
    BY <1>0, <1>2, <1>3, <1>6, <2>1, <2>2 DEF Laddered
  <2> QED
    BY <2>3 DEF u
<1>7. CASE c.pc = "bare" \/ d.single \/ out \notin Trouble
  <2>1. After(d, out, dead) = Back(d, out, dead)
    BY <1>2, <1>7 DEF After
  <2> QED
    BY <1>2, <1>4, <2>1 DEF d
<1>8. CASE c.pc = "attempt" /\ ~d.single /\ out \in Trouble
  <2>1. \/ After(d, out, dead) = [s EXCEPT !.again = TRUE] /\ ~d.again
        \/ After(d, out, dead) = Back(d, out, dead)
        \/ After(d, out, dead) = Lower(s, dead)
    BY <1>2, <1>8 DEF After, s
  <2> QED
    BY <1>2, <1>4, <1>5, <1>6, <1>8, <2>1 DEF d
<1> QED
  BY <1>7, <1>8

\* One loop moves, and holds a slot it had or was given.
LEMMA OneWithin ==
    ASSUME IInv, Limits, NEW a \in Agent, NEW g, NEW c, Within(g), Laddered(c),
           g.slot => Admissible(a),
           agent' = [agent EXCEPT ![a] = g], call' = [call EXCEPT ![a] = c] \/ (call' = call /\ c = call[a]),
           UNCHANGED <<clock, cancelled>>
    PROVE  Limits'
<1>1. /\ agent'[a] = g /\ call'[a] = c
      /\ \A b \in Agent : b # a => agent'[b] = agent[b] /\ call'[b] = call[b]
  BY DEF IInv
<1>2. \A b \in Agent : Within(agent'[b]) /\ Laddered(call'[b])
  BY <1>1 DEF Limits
<1>3. IsFiniteSet(Slots') /\ Cardinality(Slots') <= Limit
  <2>1. IsFiniteSet(Slots) /\ Cardinality(Slots) <= Limit /\ Limit \in Nat
    BY AgentLoopAssumption DEF Limits
  <2>2. Slots' \subseteq Slots \cup {a}
    BY <1>1 DEF Slots
  <2>3. CASE Slots' \subseteq Slots
    <3>1. IsFiniteSet(Slots') /\ Cardinality(Slots') <= Cardinality(Slots)
      BY <2>1, <2>3, FS_Subset
    <3>2. Cardinality(Slots) \in Nat /\ Cardinality(Slots') \in Nat
      BY <2>1, <3>1, FS_CardinalityType
    <3> QED
      BY <2>1, <3>1, <3>2
  <2>4. CASE ~(Slots' \subseteq Slots)
    <3>1. Slots' = Slots \cup {a} /\ a \notin Slots /\ Cardinality(Slots) < Limit
      BY <1>1, <2>2, <2>4 DEF Slots, Admissible
    <3>2. IsFiniteSet(Slots \cup {a}) /\ Cardinality(Slots \cup {a}) = Cardinality(Slots) + 1
      BY <2>1, <3>1, FS_AddElement
    <3>3. Cardinality(Slots) \in Nat
      BY <2>1, FS_CardinalityType
    <3> QED
      BY <2>1, <3>1, <3>2, <3>3
  <2> QED
    BY <2>3, <2>4
<1>4. call' \in [Agent -> Call]
  BY DEF Limits, Laddered
<1> QED
  BY <1>2, <1>3, <1>4 DEF Limits, Slots

LEMMA Numbers ==
    Limit \in Nat /\ MaxToolCalls \in Nat /\ MaxOutputRetries \in Nat /\ MaxOutputRetries >= 1
BY AgentLoopAssumption

LEMMA NewAgentWithin == NewAgent \in Loop /\ Within(NewAgent)
<1>1. 0 \in 0..MaxOutputRetries /\ 0 \in 0..MaxToolCalls /\ {} \in SUBSET Some
  BY Numbers
<1>2. NewAgent \in Loop
  BY <1>1 DEF NewAgent, Loop, Stages
<1> QED
  BY <1>2 DEF NewAgent, Within

\* A loop that is finalized or that returned has given its slot back.
LEMMA EndWithin ==
    ASSUME NEW g, g \in Loop, NEW out \in {"ok", "error"}
    PROVE  /\ Within(ToFinal(g)) /\ ToFinal(g).slot = FALSE
           /\ Within(Done(g, out)) /\ Done(g, out).slot = FALSE
<1> DEFINE t == ToFinal(g)
           d == Done(g, out)
<1>1. t \in Loop /\ t.pc = "admit" /\ t.stage = "final" /\ t.slot = NewAgent.slot
  BY NewAgentWithin DEF ToFinal, Loop, Stages
<1>2. d \in Loop /\ d.pc = "done" /\ d.slot = NewAgent.slot
  BY NewAgentWithin DEF Done, Loop
<1>3. NewAgent.slot = FALSE
  BY DEF NewAgent
<1> HIDE DEF t, d
<1> QED
  BY <1>1, <1>2, <1>3 DEF Within, t, d

LEMMA LeaveWithin ==
    ASSUME NEW a, NEW g, Settled(a, g), Within(g), NEW out \in {"ok", "error"}
    PROVE  Within(Leave(a, g, out)) /\ Leave(a, g, out).slot = FALSE
<1> DEFINE m == Merge(g)
<1>1. m.due = 0
  BY MergeEmpties
<1>2. /\ m = [g EXCEPT !.due = g.due - g.inner, !.inner = 0, !.notes = g.notes \cup g.innerNotes,
                       !.innerNotes = {}]
  BY DEF Merge
<1>3. g.due - g.inner = 0
  BY DEF Settled, Kept
<1> HIDE DEF m
<1>4. m \in Loop
  <2>1. g \in Loop
    BY DEF Within
  <2>2. g.notes \cup g.innerNotes \in SUBSET Some /\ {} \in SUBSET Some /\ g.due - g.inner \in Nat
    BY <2>1, <1>3 DEF Loop
  <2> QED
    BY <2>1, <2>2, <1>2 DEF Loop
<1> QED
  BY <1>4, EndWithin DEF Leave, m

LEMMA HeardWithin ==
    ASSUME NEW a \in Agent, Calling(a, agent[a], call[a]), Within(agent[a]), Laddered(call[a]),
           agent[a].pc = "call"
    PROVE  /\ Within(Heard(a)) /\ Heard(a).pc = "head" /\ Heard(a).slot
           /\ Heard(a).retries = agent[a].retries /\ Heard(a).located = agent[a].located
           /\ Heard(a).tries = agent[a].tries /\ Heard(a).used = agent[a].used
<1> DEFINE g == agent[a]
           c == call[a]
           lost == c.result \in {"failed", "torn"} /\ ~c.cut
           own == g.stage \in {"nested", "final"} /\ ~lost
           notes == IF a \notin Budgeted THEN {}
                    ELSE {g.stage} \cup (IF Caught(c) THEN {"output"} ELSE {})
           made == notes \cup (IF a \in Budgeted /\ Unheard(c) THEN {"unheard"} ELSE {})
           due == IF own THEN g.due ELSE g.due - c.cost
           inner == IF own THEN g.inner + c.cost ELSE g.inner
           all == IF g.stage = "final" THEN g.made ELSE g.made \cup made
           outer == IF g.stage = "core" THEN g.notes \cup notes ELSE g.notes
           nested == IF g.stage = "nested" THEN g.innerNotes \cup notes ELSE g.innerNotes
           h == Heard(a)
<1>1. g \in Loop /\ g.slot /\ g.stage \in Stages
  BY DEF Within, Loop
<1>2. c.cost \in Nat /\ g.inner \in Nat /\ g.due = g.inner + c.cost
  BY ReviewCallAssumption, <1>1 DEF Laddered, Call, Calling, Loop
<1>3. due \in Nat /\ inner \in Nat
  <2> HIDE DEF own
  <2> QED
    BY <1>2
<1>4. notes \subseteq Some /\ made \subseteq Some
  BY <1>1 DEF Some
<1>5. all \subseteq Some /\ outer \subseteq Some /\ nested \subseteq Some
  <2> HIDE DEF notes, made
  <2> QED
    BY <1>1, <1>4 DEF Loop
<1>6. h = [g EXCEPT !.pc = "head", !.due = due, !.inner = inner, !.made = all, !.notes = outer,
                    !.innerNotes = nested]
  BY DEF Heard
<1> HIDE DEF g, h, due, inner, all, outer, nested
<1>7. /\ h \in Loop /\ h.pc = "head" /\ h.slot = g.slot /\ h.retries = g.retries
      /\ h.located = g.located /\ h.tries = g.tries /\ h.used = g.used
  BY <1>1, <1>3, <1>5, <1>6 DEF Loop
<1>8. Within(h)
  BY <1>1, <1>7 DEF Within
<1> QED
  BY <1>1, <1>7, <1>8 DEF g, h

\* What keeps a loop in its slot and within its limits while it goes round.
Round(g) == Within(g) /\ g.pc = "head" /\ g.slot

LEMMA RoundControl ==
    ASSUME NEW g, Round(g), NEW stubborn \in BOOLEAN, NEW bare \in BOOLEAN, NEW located \in BOOLEAN,
           NEW retries \in 0..MaxOutputRetries, NEW tries \in 0..MaxOutputRetries,
           NEW h, h = [g EXCEPT !.stubborn = stubborn, !.bare = bare, !.located = located,
                                !.retries = retries, !.tries = tries]
    PROVE  Round(h) /\ h.retries = retries /\ h.tries = tries /\ h.located = located
BY DEF Round, Within, Loop

LEMMA RetriedRound ==
    ASSUME NEW g, Round(g), MoreRetries(g.retries)
    PROVE  /\ Round(Retried(g)) /\ Retried(g).tries = g.tries /\ Retried(g).bare = g.bare
           /\ Round(Located(g)) /\ Located(g).tries = g.tries
<1>1. /\ g \in Loop /\ g.retries + 1 \in 0..MaxOutputRetries /\ g.tries \in 0..MaxOutputRetries
      /\ g.located \in BOOLEAN /\ g.bare \in BOOLEAN /\ g.stubborn \in BOOLEAN
  BY Numbers DEF Round, Within, Loop, MoreRetries
<1> DEFINE r == Retried(g)
           l == Located(g)
<1>2. r = [g EXCEPT !.retries = g.retries + 1]
  BY DEF Retried
<1>3. l = [g EXCEPT !.retries = g.retries + 1, !.located = TRUE]
  BY DEF Located, Retried
<1> HIDE DEF r, l
<1>4. Round(r) /\ r.tries = g.tries /\ r.bare = g.bare
  BY <1>1, <1>2 DEF Round, Within, Loop
<1>5. Round(l) /\ l.tries = g.tries
  BY <1>1, <1>3 DEF Round, Within, Loop
<1> QED
  BY <1>4, <1>5 DEF r, l

LEMMA TriedRound ==
    ASSUME NEW g, Round(g), NEW n \in 0..MaxOutputRetries
    PROVE  Round([g EXCEPT !.tries = n])
<1> DEFINE h == [g EXCEPT !.tries = n]
<1>1. h \in Loop /\ h.pc = g.pc /\ h.slot = g.slot /\ h.stage = g.stage
  BY DEF Round, Within, Loop
<1> QED
  BY <1>1 DEF Round, Within

\* Once more than MaxTools has been used there is no more: the count stays within.
LEMMA ConcludeWithin ==
    ASSUME NEW a, NEW g, Round(g)
    PROVE  Within(Conclude(a, g)) /\ Conclude(a, g).slot
BY DEF Round, Within, Loop, Conclude, Stages

LEMMA CallsLaddered ==
    /\ Laddered(NoCall)
    /\ \A tools \in BOOLEAN, single \in BOOLEAN : Laddered(NewCall(tools, single))
<1>1. Rungs \in Nat /\ 1 \in 1..Rungs /\ 0 \in 0..Rungs + 2
  BY ReviewCallAssumption
<1> QED
  <2>1. ASSUME NEW tools \in BOOLEAN, NEW single \in BOOLEAN
        PROVE  NewCall(tools, single) \in Call /\ Laddered(NewCall(tools, single))
    BY <1>1 DEF Laddered, Call, NewCall
  <2>2. Laddered(NoCall)
    <3>1. NewCall(FALSE, FALSE) \in Call
      BY <2>1
    <3>2. NoCall \in Call /\ NoCall.pc = "idle"
      BY <3>1 DEF NoCall, Call
    <3> QED
      BY <3>2 DEF Laddered
  <2> QED
    BY <2>1, <2>2

LEMMA SetLimits ==
    ASSUME IInv, Limits, NEW a \in Agent, NEW g, Set(a, g), Within(g), g.slot => Admissible(a)
    PROVE  Limits'
<1>1. Laddered(call[a])
  BY DEF Limits
<1>2. agent' = [agent EXCEPT ![a] = g] /\ call' = call /\ UNCHANGED <<clock, cancelled>>
  BY DEF Set
<1> QED
  BY <1>1, <1>2, OneWithin

\* A result is only handled in a loop that holds its slot.
LEMMA ProceedLimits ==
    ASSUME IInv, Limits, NEW a \in Agent, agent[a].pc = "call", NEW g, Proceed(a, g), Within(g)
    PROVE  Limits'
<1>1. agent[a].slot /\ Admissible(a)
  BY DEF Limits, Within, Admissible
<1>2. agent' = [agent EXCEPT ![a] = g] /\ call' = [call EXCEPT ![a] = NoCall]
      /\ UNCHANGED <<clock, cancelled>>
  BY DEF Proceed
<1> QED
  BY <1>1, <1>2, CallsLaddered, OneWithin

LEMMA ReturnedWithin ==
    ASSUME IInv, Limits, NEW a \in Agent, NEW R, Returned(a, R)
    PROVE  /\ agent[a].pc = "call" /\ Round(Heard(a)) /\ Settled(a, Heard(a))
           /\ Heard(a).retries = agent[a].retries /\ Heard(a).located = agent[a].located
           /\ Heard(a).tries = agent[a].tries /\ Heard(a).used = agent[a].used
           /\ \A out \in {"ok", "error"} : Within(Leave(a, Heard(a), out))
<1>1. agent[a].pc = "call" /\ Calling(a, agent[a], call[a]) /\ Within(agent[a]) /\ Laddered(call[a])
  BY DEF IInv, Fine, Returned, Limits
<1>2. Settled(a, Heard(a))
  BY ReturnedSettled
<1>3. Within(Heard(a)) /\ Heard(a).pc = "head" /\ Heard(a).slot
  BY <1>1, HeardWithin
<1>4. \A out \in {"ok", "error"} : Within(Leave(a, Heard(a), out))
  BY <1>2, <1>3, LeaveWithin
<1>5. /\ Heard(a).retries = agent[a].retries /\ Heard(a).located = agent[a].located
      /\ Heard(a).tries = agent[a].tries /\ Heard(a).used = agent[a].used
  BY <1>1, HeardWithin
<1> QED
  BY <1>1, <1>2, <1>3, <1>4, <1>5 DEF Round

-----------------------------------------------------------------------------
(* The steps, once more.                                                   *)

LEMMA BeginLimits ==
    ASSUME IInv, Limits, NEW a \in Agent, Begin(a)
    PROVE  Limits'
<1> DEFINE g == agent[a]
           h == [g EXCEPT !.pc = "admit"]
<1>1. g.pc = "new" /\ Within(g) /\ g.stage = "core" /\ g.slot = FALSE
  BY DEF IInv, Fine, Begin, Settled, Kept, Limits, Within
<1>2. Within(Done(g, "error")) /\ ~Done(g, "error").slot
  BY <1>1, EndWithin DEF Within
<1>3. Within(ToFinal(g)) /\ ~ToFinal(g).slot
  BY <1>1, EndWithin DEF Within
<1>4. Within(h) /\ ~h.slot
  BY <1>1 DEF Within, Loop
<1> HIDE DEF g, h
<1>5. Set(a, Done(g, "error")) \/ Set(a, ToFinal(g)) \/ Set(a, h)
  BY DEF Begin, g, h
<1> QED
  BY <1>2, <1>3, <1>4, <1>5, SetLimits

\* The one step that takes a slot, when one is free.
LEMMA AcquireLimits ==
    ASSUME IInv, Limits, NEW a \in Agent, Acquire(a)
    PROVE  Limits'
<1> DEFINE g == agent[a]
           h == [g EXCEPT !.slot = TRUE, !.pc = "head"]
<1>1. Within(g) /\ Settled(a, g)
  BY DEF IInv, Fine, Acquire, Limits
<1>2. Within(Leave(a, g, "error")) /\ Leave(a, g, "error").slot = FALSE
  BY <1>1, LeaveWithin
<1>3. Within(h)
  BY <1>1 DEF Within, Loop
<1> HIDE DEF g, h
<1>4. Set(a, Leave(a, g, "error")) \/ (Admissible(a) /\ Set(a, h))
  BY DEF Acquire, g, h
<1> QED
  BY <1>2, <1>3, <1>4, SetLimits

LEMMA TurnLimits ==
    ASSUME IInv, Limits, NEW a \in Agent, Turn(a)
    PROVE  Limits'
<1> DEFINE g == agent[a]
           h == [g EXCEPT !.pc = "call"]
           tools == g.stage = "core" /\ ~g.bare
           single == g.stage = "final"
<1>1. Within(g) /\ Settled(a, g) /\ g.slot /\ g.pc = "head"
  BY DEF IInv, Fine, Turn, Limits, Within
<1>2. Within(Leave(a, g, "error")) /\ Leave(a, g, "error").slot = FALSE
  BY <1>1, LeaveWithin
<1>3. Within(h)
  BY <1>1 DEF Within, Loop
<1>4. Laddered(NewCall(tools, single)) /\ Laddered(call[a])
  BY CallsLaddered DEF Limits
<1>5. Admissible(a)
  BY <1>1 DEF Admissible
<1>6. UNCHANGED <<clock, cancelled>>
  BY DEF Turn
<1>7. CASE agent' = [agent EXCEPT ![a] = Leave(a, g, "error")] /\ call' = call
  <2> HIDE DEF g
  <2> QED
    BY <1>2, <1>4, <1>5, <1>6, <1>7, OneWithin
<1>8. CASE agent' = [agent EXCEPT ![a] = h] /\ call' = [call EXCEPT ![a] = NewCall(tools, single)]
  <2> HIDE DEF g, h, tools, single
  <2> QED
    BY <1>3, <1>4, <1>5, <1>6, <1>8, OneWithin
<1> QED
  BY <1>7, <1>8 DEF Turn

LEMMA AskLimits ==
    ASSUME IInv, Limits, NEW a \in Agent, Ask(a)
    PROVE  Limits'
<1> DEFINE g == agent[a]
           h == [g EXCEPT !.due = @ + 1]
<1>1. Within(g) /\ g.slot /\ Laddered(call[a]) /\ call[a].pc \in {"attempt", "bare"}
  BY DEF Ask, Attempt, Limits, Within
<1>2. Within(h)
  BY <1>1 DEF Within, Loop
<1>3. Dead(a) \in BOOLEAN
  BY DEF Dead, Hard
<1>4. PICK out \in Result \cup Trouble :
          call' = [call EXCEPT ![a] = After([call[a] EXCEPT !.cost = @ + 1], out, Dead(a))]
  BY DEF Ask, Attempt
<1> DEFINE e == After([call[a] EXCEPT !.cost = @ + 1], out, Dead(a))
<1>5. Laddered(e)
  BY <1>1, <1>3, AttemptLaddered
<1>6. Admissible(a)
  BY <1>1 DEF Admissible
<1>7. agent' = [agent EXCEPT ![a] = h] /\ UNCHANGED <<clock, cancelled>>
  BY DEF Ask
<1> HIDE DEF e, g, h
<1> QED
  BY <1>2, <1>4, <1>5, <1>6, <1>7, OneWithin DEF e

LEMMA EndingsLimits ==
    ASSUME IInv, Limits, NEW a \in Agent, Fail(a) \/ Use(a) \/ Refuse(a) \/ Reject(a)
    PROVE  Limits'
<1> DEFINE h == Heard(a)
<1>1. PICK R : Returned(a, R)
  BY DEF Fail, Use, Refuse, Reject
<1>2. /\ agent[a].pc = "call" /\ Round(h) /\ h.retries = agent[a].retries
      /\ \A out \in {"ok", "error"} : Within(Leave(a, h, out))
  BY <1>1, ReturnedWithin
<1> HIDE DEF h
<1>3. \/ Proceed(a, Leave(a, h, "error")) \/ Proceed(a, Leave(a, h, "ok"))
      \/ (Proceed(a, Retried(h)) /\ MoreRetries(agent[a].retries))
  BY DEF Fail, Use, Refuse, Reject, h
<1>4. MoreRetries(agent[a].retries) => Within(Retried(h))
  BY <1>2, RetriedRound DEF Round
<1> QED
  BY <1>2, <1>3, <1>4, ProceedLimits

LEMMA LocateLimits ==
    ASSUME IInv, Limits, NEW a \in Agent, Locate(a)
    PROVE  Limits'
<1> DEFINE h == Heard(a)
           l == Located(h)
           k == [l EXCEPT !.tries = @ + 1]
<1>1. /\ agent[a].pc = "call" /\ Round(h) /\ h.retries = agent[a].retries
      /\ h.tries = agent[a].tries
  BY ReturnedWithin DEF Locate
<1>2. Round(l) /\ l.tries = h.tries
  BY <1>1, RetriedRound DEF Locate, CanLocate
<1>3. ASSUME MoreRetries(agent[a].tries)
      PROVE  Within(k)
  <2>1. l.tries + 1 \in 0..MaxOutputRetries
    BY <1>1, <1>2, <1>3, Numbers DEF Round, Within, Loop, MoreRetries
  <2> HIDE DEF l
  <2> QED
    BY <1>2, <2>1, TriedRound DEF Round
<1> HIDE DEF h, l, k
<1>4. Proceed(a, l) \/ (Proceed(a, k) /\ MoreRetries(agent[a].tries))
  BY DEF Locate, h, l, k
<1> QED
  BY <1>1, <1>2, <1>3, <1>4, ProceedLimits DEF Round

LEMMA RepairLimits ==
    ASSUME IInv, Limits, NEW a \in Agent, Repair(a)
    PROVE  Limits'
<1> DEFINE h == Heard(a)
           r == Retried(h)
           w == call[a].omitted \/ agent[a].stubborn
           k == [r EXCEPT !.stubborn = w, !.bare = @ \/ w]
<1>1. /\ agent[a].pc = "call" /\ Round(h) /\ h.retries = agent[a].retries
      /\ Within(Leave(a, h, "error"))
  BY ReturnedWithin DEF Repair
<1>2. ASSUME MoreRetries(agent[a].retries)
      PROVE  Within(k)
  <2>1. Round(r)
    BY <1>1, <1>2, RetriedRound
  <2>2. w \in BOOLEAN
    OBVIOUS
  <2> HIDE DEF r, w
  <2> QED
    BY <2>1, <2>2 DEF Round, Within, Loop
<1> HIDE DEF h, k
<1>3. (Proceed(a, k) /\ MoreRetries(agent[a].retries)) \/ Proceed(a, Leave(a, h, "error"))
  BY DEF Repair, h, k
<1> QED
  BY <1>1, <1>2, <1>3, ProceedLimits

LEMMA UseToolsLimits ==
    ASSUME IInv, Limits, NEW a \in Agent, UseTools(a)
    PROVE  Limits'
<1> DEFINE g == Heard(a)
           after(k, d) == [g EXCEPT !.used = @ + k, !.dups = @ + d]
<1>1. /\ agent[a].pc = "call" /\ Round(g) /\ g.used = agent[a].used
      /\ Within(Leave(a, g, "error"))
  BY ReturnedWithin DEF UseTools
<1>2. PICK k \in 1..MaxBatch, d \in 0..MaxBatch :
          \/ Proceed(a, Leave(a, g, "error"))
          \/ Proceed(a, Conclude(a, g))
          \/ (Proceed(a, Conclude(a, after(k, d))) /\ ~TooMany(a, k))
          \/ (Proceed(a, after(k, d)) /\ ~TooMany(a, k))
  <2> HIDE DEF g
  <2> QED
    BY DEF UseTools, g
<1> DEFINE h == after(k, d)
<1> HIDE DEF g
<1>3. ASSUME ~TooMany(a, k)
      PROVE  Round(h)
  <2>1. g.used + k \in 0..MaxToolCalls /\ g.dups + d \in Nat
    BY <1>1, <1>3, Numbers, AgentLoopAssumption DEF Round, Within, Loop, TooMany
  <2>2. h = [g EXCEPT !.used = g.used + k, !.dups = g.dups + d]
    OBVIOUS
  <2> HIDE DEF h
  <2> QED
    BY <1>1, <2>1, <2>2 DEF Round, Within, Loop
<1>4. Within(Conclude(a, g))
  BY <1>1, ConcludeWithin
<1>5. ~TooMany(a, k) => Within(h) /\ Within(Conclude(a, h))
  <2> HIDE DEF h
  <2> QED
    BY <1>3, ConcludeWithin DEF Round
<1> QED
  BY <1>1, <1>2, <1>4, <1>5, ProceedLimits

LEMMA FallBackLimits ==
    ASSUME IInv, Limits, NEW a \in Agent, FallBack(a)
    PROVE  Limits'
<1> DEFINE h == Heard(a)
           k == [h EXCEPT !.tries = @ + 1]
<1>1. /\ agent[a].pc = "call" /\ Round(h) /\ h.tries = agent[a].tries
      /\ \A out \in {"ok", "error"} : Within(Leave(a, h, out))
  BY ReturnedWithin DEF FallBack
<1>2. ASSUME MoreRetries(agent[a].tries)
      PROVE  Within(k)
  <2>1. h.tries + 1 \in 0..MaxOutputRetries
    BY <1>1, <1>2, Numbers DEF Round, Within, Loop, MoreRetries
  <2> HIDE DEF h
  <2> QED
    BY <1>1, <2>1, TriedRound DEF Round
<1> HIDE DEF h, k
<1>3. \/ (Proceed(a, k) /\ MoreRetries(agent[a].tries))
      \/ \E out \in {"ok", "error"} : Proceed(a, Leave(a, h, out))
  BY DEF FallBack, h, k
<1> QED
  BY <1>1, <1>2, <1>3, ProceedLimits

LEMMA FinalizeLimits ==
    ASSUME IInv, Limits, NEW a \in Agent, Finalize(a)
    PROVE  Limits'
<1> DEFINE h == Heard(a)
           r == Retried(h)
           k == [r EXCEPT !.tries = 1]
<1>1. /\ agent[a].pc = "call" /\ Round(h) /\ h.retries = agent[a].retries
      /\ \A out \in {"ok", "error"} : Within(Leave(a, h, out))
  BY ReturnedWithin DEF Finalize
<1>2. ASSUME MoreRetries(agent[a].retries)
      PROVE  Within(k)
  <2>1. Round(r)
    BY <1>1, <1>2, RetriedRound
  <2>2. 1 \in 0..MaxOutputRetries
    BY Numbers
  <2> HIDE DEF r
  <2> QED
    BY <2>1, <2>2, TriedRound DEF Round
<1> HIDE DEF h, k
<1>3. \/ (Proceed(a, k) /\ MoreRetries(agent[a].retries))
      \/ \E out \in {"ok", "error"} : Proceed(a, Leave(a, h, out))
  BY DEF Finalize, h, k
<1> QED
  BY <1>1, <1>2, <1>3, ProceedLimits

LEMMA InitLimits == Init => Limits
<1> SUFFICES ASSUME Init PROVE Limits
  OBVIOUS
<1>1. \A a \in Agent : Within(agent[a])
  BY NewAgentWithin DEF Init
<1>2. call \in [Agent -> Call] /\ \A a \in Agent : Laddered(call[a])
  BY CallsLaddered DEF Init, Laddered
<1>3. Slots = {}
  BY DEF Init, Slots, NewAgent
<1>4. IsFiniteSet(Slots) /\ Cardinality(Slots) <= Limit
  BY <1>3, FS_EmptySet, Numbers
<1> QED
  BY <1>1, <1>2, <1>4 DEF Limits, Init

LEMMA NextLimits == IInv /\ Limits /\ [Next]_vars => Limits'
<1> SUFFICES ASSUME IInv, Limits, [Next]_vars
             PROVE  Limits'
  OBVIOUS
<1>1. ASSUME NEW a \in Agent, Step(a)
      PROVE  Limits'
  BY <1>1, BeginLimits, AcquireLimits, TurnLimits, AskLimits, EndingsLimits, LocateLimits,
     RepairLimits, UseToolsLimits, FallBackLimits, FinalizeLimits DEF Step, Handle
<1>2. ASSUME NEW a \in Agent, Tick(a)
      PROVE  Limits'
  <2>1. clock' \in [Agent -> {"early", "urgent", "over"}]
    BY <1>2 DEF Tick, Limits
  <2> QED
    BY <1>2, <2>1 DEF Tick, Limits, Slots
<1>3. CASE Cancel
  BY <1>3 DEF Cancel, Limits, Slots
<1>4. CASE UNCHANGED vars
  BY <1>4 DEF vars, Limits, Slots
<1> QED
  BY <1>1, <1>2, <1>3, <1>4 DEF Next

\* No interleaving of loops passes a limit: slots of the limiter, tool calls and retries, which a
\* loop shares with its nested completion and its finalization; an attempt costs no more than the
\* ladder allows; and exactly the loops that are under way hold a slot.
THEOREM LimitsHold == Spec => []TypeOK
<1>1. ASSUME IInv, Limits PROVE TypeOK
  BY <1>1 DEF TypeOK, Limits, Within, Loop, IInv, Fine, Settled, Calling, Kept, Some
<1>2. Spec => []IInv
  BY InitInv, NextInv, PTL DEF Spec
<1>3. Spec => []Limits
  BY <1>2, InitLimits, NextLimits, PTL DEF Spec
<1> QED
  BY <1>1, <1>2, <1>3, PTL
=============================================================================
