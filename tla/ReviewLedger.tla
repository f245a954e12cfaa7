---------------------------- MODULE ReviewLedger ----------------------------
(***************************************************************************)
(* What the dispatcher promises about reviews: the requests it accepted    *)
(* and has not started (`todo`), the reviews in progress (`active`) and    *)
(* the merge requests whose work survives a restart (`safe`).  A request   *)
(* is owed until its review begins, it is called off, or the process ends  *)
(* after a write of it failed.                                             *)
(***************************************************************************)
CONSTANTS MR, Journaled

Nothing == "none"
Trigger == {"auto", "manual"}
Owed == Trigger \cup {Nothing}

VARIABLES
    todo,    \* accepted and not begun
    active,  \* in progress
    safe,    \* survives the end of the process
    asked,     \* the log of review requests GitLab delivered
    withdrawn, \* the log of what calls work off: aborts, entries a restart refuses
    failures   \* the log of failed writes, and of failed requests to GitLab
vars == <<todo, active, safe, asked, withdrawn, failures>>

\* The trigger of two merged requests: manual is never downgraded to auto.
Join(a, b) ==
    IF "manual" \in {a, b} THEN "manual" ELSE IF "auto" \in {a, b} THEN "auto" ELSE Nothing

LedgerInit == todo = [m \in MR |-> Nothing] /\ active = [m \in MR |-> Nothing] /\ safe = {}

\* A step that touches a job writes it, or finds the journal failing.  Only then is work
\* that is owed or in progress no longer safe.
Unsafe(m) ==
    /\ safe' = safe \ {m}
    /\ \/ todo'[m] = Nothing /\ active'[m] = Nothing
       \/ failures' # failures
       \/ ~Journaled
Journal(m) == safe' \in {safe, safe \cup {m}} \/ Unsafe(m)

\* Only a new request makes a review owed.
Accept(m, k) ==
    /\ asked' # asked
    /\ todo' = [todo EXCEPT ![m] = Join(@, k)]
    /\ UNCHANGED <<active, withdrawn>> /\ Journal(m)
Refuse == asked' # asked /\ UNCHANGED <<todo, active, safe, withdrawn, failures>>

Begin(m) ==
    /\ todo[m] # Nothing /\ active[m] = Nothing
    /\ active' = [active EXCEPT ![m] = todo[m]]
    /\ todo' = [todo EXCEPT ![m] = Nothing]
    /\ UNCHANGED <<safe, asked, withdrawn, failures>>

\* The review is over: from here on only its reactions are settled.
End(m) ==
    /\ active[m] # Nothing
    /\ active' = [active EXCEPT ![m] = Nothing]
    /\ UNCHANGED <<todo, asked, withdrawn>> /\ Journal(m)

\* What calls work off takes everything that was owed or in progress.
Cancel(m) ==
    /\ withdrawn' # withdrawn
    /\ todo' = [todo EXCEPT ![m] = Nothing]
    /\ active' = [active EXCEPT ![m] = Nothing]
    /\ UNCHANGED asked /\ Journal(m)

\* The shutdown interrupts a review: it is owed again.
Interrupt(m) ==
    /\ active[m] # Nothing
    /\ todo' = [todo EXCEPT ![m] = Join(@, active[m])]
    /\ active' = [active EXCEPT ![m] = Nothing]
    /\ UNCHANGED <<asked, withdrawn>> /\ Journal(m)

\* Bookkeeping that changes no promise but may find the journal working or not.
Rewrite(m) == UNCHANGED <<todo, active, asked, withdrawn>> /\ Journal(m)

\* GitLab fails, which no promise is about.
Fail == failures' # failures /\ UNCHANGED <<todo, active, safe, asked, withdrawn>>

\* The process stops: what is kept is owed again, nothing else is, and nothing
\* that was finished or aborted comes back.
Restart(kept) ==
    /\ todo' = [m \in MR |-> IF m \in kept THEN Join(todo[m], active[m]) ELSE Nothing]
    /\ active' = [m \in MR |-> Nothing]
    /\ safe' = kept
    /\ UNCHANGED <<asked, withdrawn>>
Crash == Restart(safe)
\* An orderly exit writes once more what was not safe.
Exit ==
    /\ \A m \in MR : active[m] = Nothing
    /\ \E kept \in SUBSET MR : safe \subseteq kept /\ Restart(kept)

LedgerNext ==
    \/ \E m \in MR :
          \/ \E k \in Trigger : Accept(m, k)
          \/ Begin(m) \/ End(m) \/ Cancel(m) \/ Interrupt(m) \/ Rewrite(m)
    \/ Refuse \/ Fail \/ Crash \/ Exit

LedgerSpec == LedgerInit /\ [][LedgerNext]_vars
=============================================================================
