------------------------------ MODULE Journal ------------------------------
(***************************************************************************)
(* The review journal: one file per merge request, written by an atomic    *)
(* rename, retired through a tombstone that is unlinked, now or by the     *)
(* worker that retries.  The directory, its unsynced changes, the steps of *)
(* one operation under j.mu, and the ends of the process and the machine.  *)
(***************************************************************************)
EXTENDS Integers, Sequences, FiniteSets

CONSTANTS
    MR,               \* merge requests
    Entry,            \* what persist may be asked to store
    Tomb, None, Unsure, Clearing,
    MaxRetirements,   \* maxJournalRetirementQueue
    OpFaults,         \* bound: failed file system calls within one operation
    FaultLimit, CallLimit, StopLimit, CrashLimit, PowerLimit  \* bounds

ASSUME JournalAssumption ==
    /\ Tomb \notin Entry \cup {None, Unsure}
    /\ None \notin Entry
    /\ {Unsure, Clearing} \cap (Entry \cup {None}) = {} /\ Unsure # Clearing
    /\ MaxRetirements \in Nat \ {0}
    /\ OpFaults \in Nat

VARIABLES
    file,            \* [MR -> Entry \cup {Tomb, None}]: job-<project>-<iid>.json
    unsynced,        \* [MR -> SUBSET ..]: what the file may be after a power loss
    kept,            \* [MR -> ..]: what the last call promised its caller; Unsure, or Clearing
                     \* after a removal, where it promised nothing
    op,              \* the operation that holds j.mu, or None
    retirements,     \* Journal.retirements, 0 where there is none
    nextRetirement,
    retirementQueue, \* the channel: a sequence of [m, gen]
    retrier,         \* what runRetirements took and waits with, or None
    abandoned,       \* merge requests whose file was given up with a log line
    phase,           \* "loading", "open", "stopped" (stopRetirements), "down"
    toLoad,          \* the files load has not visited
    used             \* [event kind -> how often], for the bounds

store == <<file, unsynced>>
retry == <<retirements, nextRetirement, retirementQueue, retrier, abandoned>>
life == <<phase, toLoad>>
vars == <<store, retry, life, kept, op, used>>

Content == Entry \cup {Tomb, None}
Retirement == [m : MR, gen : Nat]
Kind == {"persist", "remove", "retry", "load"}
At == {"write", "sync", "invalidate", "stat", "unlink", "confirm"}
Operation == [kind : Kind, m : MR, v : Entry \cup {Tomb}, gen : Nat, at : At, faults : Nat]
Bound == [fault |-> FaultLimit, call |-> CallLimit, stop |-> StopLimit,
          crash |-> CrashLimit, power |-> PowerLimit]

ASSUME NoneAssumption ==
    None \notin Operation \cup Retirement \cup [m : MR, v : Entry \cup {None}, failed : Nat]

TypeOK ==
    /\ file \in [MR -> Content]
    /\ unsynced \in [MR -> SUBSET Content] /\ \A m \in MR : file[m] \in unsynced[m]
    /\ kept \in [MR -> Entry \cup {None, Unsure, Clearing}]
    /\ op \in Operation \cup {None}
    /\ op # None /\ op.kind # "persist" => op.v = Tomb
    /\ retirements \in [MR -> Nat] /\ nextRetirement \in Nat
    /\ retirementQueue \in Seq(Retirement) /\ Len(retirementQueue) <= MaxRetirements
    /\ retrier \in Retirement \cup {None}
    /\ abandoned \subseteq MR
    /\ phase \in {"loading", "open", "stopped", "down"} /\ toLoad \subseteq MR
    /\ used \in [DOMAIN Bound -> Nat]

Init ==
    /\ file = [m \in MR |-> None] /\ unsynced = [m \in MR |-> {None}]
    /\ kept = [m \in MR |-> None]
    /\ op = None
    /\ retirements = [m \in MR |-> 0] /\ nextRetirement = 0
    /\ retirementQueue = <<>> /\ retrier = None /\ abandoned = {}
    /\ phase = "open" /\ toLoad = {}
    /\ used = [k \in DOMAIN Bound |-> 0]

Use(k) == used[k] < Bound[k] /\ used' = [used EXCEPT ![k] = @ + 1]

\* The bounded file system failures: this many within one operation.
Fails == op.faults < OpFaults /\ Use("fault")

-----------------------------------------------------------------------------
(* Operations.  They hold j.mu from the first step to the last.            *)

\* persistEntry drops a retry: the file is about to be a runnable job again.
Persist(m, e) ==
    /\ phase \in {"open", "stopped"} /\ op = None /\ Use("call")
    /\ op' = [kind |-> "persist", m |-> m, v |-> e, gen |-> 0, at |-> "write", faults |-> 0]
    /\ retirements' = [retirements EXCEPT ![m] = 0]
    /\ abandoned' = abandoned \ {m}
    /\ kept' = [kept EXCEPT ![m] = Unsure]
    /\ UNCHANGED <<store, nextRetirement, retirementQueue, retrier, life>>

Retire(kind, m, gen) ==
    op' = [kind |-> kind, m |-> m, v |-> Tomb, gen |-> gen, at |-> "write", faults |-> 0]

Remove(m) ==
    /\ phase \in {"open", "stopped"} /\ op = None /\ Use("call")
    /\ nextRetirement' = nextRetirement + 1
    /\ Retire("remove", m, nextRetirement')
    /\ kept' = [kept EXCEPT ![m] = Clearing]
    /\ UNCHANGED <<store, retirements, retirementQueue, retrier, abandoned, life>>

\* Mutant of QueueRetirement: a full channel leaves the place in the map taken.
KeepsPlace(m, gen) ==
    /\ retirements' = [retirements EXCEPT ![m] = gen]
    /\ IF Len(retirementQueue) < MaxRetirements
       THEN /\ retirementQueue' = Append(retirementQueue, [m |-> m, gen |-> gen])
            /\ UNCHANGED abandoned
       ELSE abandoned' = abandoned \cup {m} /\ UNCHANGED retirementQueue

\* Mutant of QueueRetirement: only the map is bounded.
QueueUnbounded(m, gen) ==
    /\ retirements' = [retirements EXCEPT ![m] = gen]
    /\ retirementQueue' = Append(retirementQueue, [m |-> m, gen |-> gen])
    /\ UNCHANGED abandoned

\* queueRetirementLocked: a bounded map beside a bounded channel, which may hold
\* retirements that are out of date.
QueueRetirement(m, gen) ==
    IF retirements[m] = 0 /\ Cardinality({n \in MR : retirements[n] # 0}) >= MaxRetirements
    THEN /\ abandoned' = abandoned \cup {m}
         /\ UNCHANGED <<retirements, retirementQueue>>
    ELSE IF Len(retirementQueue) < MaxRetirements
    THEN /\ retirements' = [retirements EXCEPT ![m] = gen]
         /\ retirementQueue' = Append(retirementQueue, [m |-> m, gen |-> gen])
         /\ UNCHANGED abandoned
    ELSE /\ retirements' = [retirements EXCEPT ![m] = 0]
         /\ abandoned' = abandoned \cup {m}
         /\ UNCHANGED retirementQueue

Retired(m) ==
    /\ retirements' = [retirements EXCEPT ![m] = 0]
    /\ UNCHANGED <<retirementQueue, abandoned>>

\* Mutant of Done: a retry that fails is the last one.
DoneOnce(retired) ==
    /\ op' = None
    /\ IF op.kind = "persist" THEN UNCHANGED <<retirements, retirementQueue, abandoned>>
       ELSE IF retired \/ op.kind = "retry" THEN Retired(op.m)
       ELSE QueueRetirement(op.m, op.gen)
    /\ UNCHANGED <<nextRetirement, retrier, life>>

\* The operation is over.  A retirement that is not confirmed is tried again; what a failed
\* write could not remove is given up with a log line.
Done(retired) ==
    /\ op' = None
    /\ IF op.kind = "persist"
       THEN /\ abandoned' = IF retired THEN abandoned ELSE abandoned \cup {op.m}
            /\ UNCHANGED <<retirements, retirementQueue>>
       ELSE IF retired THEN Retired(op.m)
       ELSE QueueRetirement(op.m, op.gen)
    /\ UNCHANGED <<nextRetirement, retrier, life>>

\* What the caller may rely on: nobody called a retry or a load.
Promise(v) ==
    kept' = IF op.kind \in {"persist", "remove"} THEN [kept EXCEPT ![op.m] = v] ELSE kept

MoveTo(at) == op' = [op EXCEPT !.at = at] /\ UNCHANGED <<kept, retry, life>>
FailTo(at) ==
    /\ Fails
    /\ op' = [op EXCEPT !.at = at, !.faults = @ + 1]
    /\ UNCHANGED <<store, kept, retry, life>>

\* The file's new content is visible, and may or may not survive the machine.
Put(m, c) ==
    /\ file' = [file EXCEPT ![m] = c]
    /\ unsynced' = [unsynced EXCEPT ![m] = @ \cup {c}]
\* The directory sync makes every change of it durable.
SyncDirectory == unsynced' = [m \in MR |-> {file[m]}] /\ UNCHANGED file

\* The temporary file is created, written, synced and renamed over the entry.
Write ==
    /\ op # None /\ op.at = "write"
    /\ \/ Put(op.m, op.v) /\ MoveTo("sync") /\ UNCHANGED used
       \/ FailTo("invalidate")

Sync ==
    /\ op # None /\ op.at = "sync"
    /\ \/ /\ SyncDirectory /\ UNCHANGED used
          /\ IF op.kind = "persist" THEN Done(TRUE) /\ Promise(op.v) ELSE MoveTo("unlink")
       \/ FailTo("invalidate")

\* Mutant: the entry that could not be replaced stays.
KeepsOldEntry ==
    /\ op # None /\ op.at = "invalidate"
    /\ MoveTo("stat") /\ UNCHANGED <<store, used>>
\* An entry that was not written must not be resumed, nor the one before it.  This
\* removal is not synced, and may fail as well.
Invalidate ==
    /\ op # None /\ op.at = "invalidate"
    /\ \/ Put(op.m, None) /\ MoveTo("stat") /\ UNCHANGED used
       \/ FailTo("stat")

\* The write has failed.  retireLocked looks whether the file is gone all the same.
Stat ==
    /\ op # None /\ op.at = "stat"
    /\ \/ Done(file[op.m] = None) /\ UNCHANGED used
       \/ Done(FALSE) /\ op.kind # "persist" /\ Fails
    /\ UNCHANGED <<store, kept>>

\* The tombstone is durable: whatever happens from here, nothing is resumed.
Unlink ==
    /\ op # None /\ op.at = "unlink"
    /\ \/ Put(op.m, None) /\ MoveTo("confirm") /\ UNCHANGED used
       \/ Fails /\ Done(FALSE) /\ Promise(None) /\ UNCHANGED store

Confirm ==
    /\ op # None /\ op.at = "confirm"
    /\ \/ SyncDirectory /\ Done(TRUE) /\ UNCHANGED used
       \/ Fails /\ Done(FALSE) /\ UNCHANGED store
    /\ Promise(None)

-----------------------------------------------------------------------------
(* runRetirements: takes a retirement, waits, and tries again under j.mu.  *)

RetrierTake ==
    /\ phase \in {"loading", "open"} /\ retrier = None /\ retirementQueue # <<>>
    /\ retrier' = Head(retirementQueue) /\ retirementQueue' = Tail(retirementQueue)
    /\ UNCHANGED <<store, kept, op, retirements, nextRetirement, abandoned, life, used>>

RetrierWakes ==
    /\ phase = "open" /\ retrier # None /\ op = None \* load holds j.mu throughout
    /\ IF retirements[retrier.m] = retrier.gen
       THEN Retire("retry", retrier.m, retrier.gen)
       ELSE UNCHANGED op
    /\ retrier' = None
    /\ UNCHANGED <<store, kept, retirements, nextRetirement, retirementQueue, abandoned,
                   life, used>>

-----------------------------------------------------------------------------
(* Restart: load reads every file under j.mu and retires the tombstones.   *)

LoadEntry(m) ==
    /\ phase = "loading" /\ op = None /\ m \in toLoad /\ file[m] # Tomb
    /\ toLoad' = toLoad \ {m}
    /\ UNCHANGED <<store, kept, op, retry, phase, used>>

LoadTombstone(m) ==
    /\ phase = "loading" /\ op = None /\ m \in toLoad /\ file[m] = Tomb
    /\ toLoad' = toLoad \ {m}
    /\ \/ /\ nextRetirement' = nextRetirement + 1
          /\ Retire("load", m, nextRetirement')
          /\ UNCHANGED <<abandoned, used>>
       \/ /\ Use("fault") \* a file that cannot be read is left for the next start
          /\ abandoned' = abandoned \cup {m}
          /\ UNCHANGED <<op, nextRetirement>>
    /\ UNCHANGED <<store, kept, retirements, retirementQueue, retrier, phase>>

\* The directory cannot be opened or listed: nothing is resumed, and nothing retired.
LoadFails ==
    /\ phase = "loading" /\ op = None /\ toLoad = {m \in MR : file[m] # None}
    /\ Use("fault")
    /\ phase' = "open" /\ toLoad' = {}
    /\ abandoned' = abandoned \cup {m \in toLoad : file[m] = Tomb}
    /\ UNCHANGED <<store, kept, op, retirements, nextRetirement, retirementQueue, retrier>>

Loaded ==
    /\ phase = "loading" /\ op = None /\ toLoad = {}
    /\ phase' = "open"
    /\ UNCHANGED <<store, kept, op, retry, toLoad, used>>

\* The dispatcher stops the retries and then persists what is left.
StopRetirements ==
    /\ phase = "open" /\ Use("stop")
    /\ ~(op # None /\ op.kind = "retry") \* it waits for the worker
    /\ phase' = "stopped" /\ retrier' = None
    /\ UNCHANGED <<store, kept, op, retirements, nextRetirement, retirementQueue, abandoned,
                   toLoad>>

End ==
    /\ op' = None /\ phase' = "down" /\ toLoad' = {}
    /\ retirements' = [m \in MR |-> 0] /\ nextRetirement' = 0
    /\ retirementQueue' = <<>> /\ retrier' = None /\ abandoned' = {}
    /\ UNCHANGED kept

Close == phase = "stopped" /\ op = None /\ End /\ UNCHANGED <<store, used>>

Crash == phase # "down" /\ Use("crash") /\ End /\ UNCHANGED store

\* Each file is what some prefix of its unsynced changes left.
PowerLoss ==
    /\ Use("power") /\ End
    /\ file' \in {f \in [MR -> Content] : \A m \in MR : f[m] \in unsynced[m]}
    /\ unsynced' = [m \in MR |-> {file'[m]}]

Start ==
    /\ phase = "down"
    /\ phase' = "loading" /\ toLoad' = {m \in MR : file[m] # None}
    /\ UNCHANGED <<store, kept, op, retry, used>>

-----------------------------------------------------------------------------
Step == Write \/ Sync \/ Invalidate \/ Stat \/ Unlink \/ Confirm
Retrier == RetrierTake \/ RetrierWakes
Load == Loaded \/ LoadFails \/ \E m \in MR : LoadEntry(m) \/ LoadTombstone(m)

Next ==
    \/ \E m \in MR, e \in Entry : Persist(m, e)
    \/ \E m \in MR : Remove(m)
    \/ Step
    \/ Retrier
    \/ Load
    \/ StopRetirements \/ Close \/ Crash \/ PowerLoss \/ Start

\* Goroutines run, and a daemon that ended is started again.
Fairness == WF_vars(Step) /\ WF_vars(Retrier) /\ WF_vars(Load) /\ WF_vars(Start)

Spec == Init /\ [][Next]_vars
FairSpec == Spec /\ Fairness

-----------------------------------------------------------------------------
(* Properties.                                                             *)

Register == INSTANCE JournalRegister
    WITH entry <- [m \in MR |-> IF file[m] = Tomb THEN None ELSE file[m]],
         call <- IF op # None /\ op.kind \in {"persist", "remove"}
                 THEN [m |-> op.m, v |-> IF op.kind = "persist" THEN op.v ELSE None,
                       failed |-> op.faults]
                 ELSE None,
         up <- phase # "down"
\* The journal is the register the dispatcher takes it for: a retry that wakes late or
\* a load never touches the entry of a newer job, a crash at any step leaves the old
\* or the new entry, what a call reported durable survives a power loss, and a call that
\* fails leaves nothing to resume unless its removal of the entry fails too.
ImplementsRegister == Register!RegisterSpec

\* While the worker runs, every pending retirement is in the channel or in its hands:
\* none stays in the map, taking one of its places, with nobody to try it.
RetirementHasCarrier ==
    phase \in {"loading", "open"} => \A m \in MR : retirements[m] # 0 =>
        \/ [m |-> m, gen |-> retirements[m]] \in
               {retirementQueue[i] : i \in 1..Len(retirementQueue)} \cup {retrier}
        \/ op # None /\ op.m = m /\ op.kind = "retry" /\ op.gen = retirements[m]

\* A tombstone is eventually removed, overwritten by a new job, given up with a log
\* line, or left for the next start.
TombstonesGo ==
    \A m \in MR : file[m] = Tomb /\ phase = "open" ~>
        file[m] # Tomb \/ m \in abandoned \/ phase # "open"
=============================================================================
