-------------------------- MODULE JournalRegister --------------------------
(***************************************************************************)
(* What the dispatcher relies on: one register per merge request, that a   *)
(* restart reads.  A call replaces or clears it at once, and one that      *)
(* fails clears it, unless a second failure keeps it from that.  The end   *)
(* of the process leaves it alone, and the end of the machine can touch    *)
(* only a register whose last call did not return.                         *)
(***************************************************************************)
EXTENDS Naturals

CONSTANTS MR, Entry, None, Unsure, Clearing

VARIABLES
    entry,   \* [MR -> Entry \cup {None}]: what a restart resumes
    kept,    \* [MR -> Entry \cup {None, Unsure, Clearing}]: what survives the machine, or
             \* that the last call, to store or to clear, promised nothing
    call,    \* the call under way, [m, v, failed] with v = None to clear, or None
    up       \* the process runs

vars == <<entry, kept, call, up>>

Init ==
    /\ entry = [m \in MR |-> None]
    /\ kept = [m \in MR |-> None]
    /\ call = None
    /\ up = TRUE

Begin(m, v) ==
    /\ up /\ call = None
    /\ call' = [m |-> m, v |-> v, failed |-> 0]
    /\ kept' = [kept EXCEPT ![m] = IF v = None THEN Clearing ELSE Unsure]
    /\ UNCHANGED <<entry, up>>

Effect ==
    /\ call # None
    /\ entry' = [entry EXCEPT ![call.m] = call.v]
    /\ UNCHANGED <<kept, call, up>>

Return ==
    /\ call # None /\ entry[call.m] = call.v
    /\ call' = None
    /\ kept' = [kept EXCEPT ![call.m] = call.v]
    /\ UNCHANGED <<entry, up>>

\* A file system call fails within the call.
Fault ==
    /\ call # None
    /\ call' = [call EXCEPT !.failed = @ + 1]
    /\ UNCHANGED <<entry, kept, up>>

\* The older entry must not be resumed, nor the new one.
Undo ==
    /\ call # None /\ call.failed > 0
    /\ entry' = [entry EXCEPT ![call.m] = None]
    /\ UNCHANGED <<kept, call, up>>

\* Only a second failure lets a call that failed leave something to resume.
Fail ==
    /\ call # None /\ call.failed > 0
    /\ entry[call.m] = None \/ call.failed > 1
    /\ call' = None
    /\ UNCHANGED <<entry, kept, up>>

\* A register that its last call was to clear is cleared later.
Retry(m) ==
    /\ up /\ call = None /\ kept[m] = Clearing
    /\ entry' = [entry EXCEPT ![m] = None]
    /\ UNCHANGED <<kept, call, up>>

\* The process ends, within a call or between two.
ProcessEnds ==
    /\ up' = FALSE /\ call' = None
    /\ UNCHANGED <<entry, kept>>

\* The machine ends: what was not synced is there or not.
MachineEnds ==
    /\ up' = FALSE /\ call' = None
    /\ entry' \in [MR -> Entry \cup {None}]
    /\ \A m \in MR : kept[m] \notin {Unsure, Clearing} => entry'[m] = kept[m]
    /\ UNCHANGED kept

Start ==
    /\ ~up /\ up' = TRUE
    /\ UNCHANGED <<entry, kept, call>>

Next ==
    \/ \E m \in MR, v \in Entry \cup {None} : Begin(m, v)
    \/ Effect
    \/ Return
    \/ Fault
    \/ Undo
    \/ Fail
    \/ \E m \in MR : Retry(m)
    \/ ProcessEnds
    \/ MachineEnds
    \/ Start

RegisterSpec == Init /\ [][Next]_vars
=============================================================================
