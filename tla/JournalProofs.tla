--------------------------- MODULE JournalProofs ---------------------------
(***************************************************************************)
(* The journal implements its register, for every number of merge requests *)
(* and entries: calls, failures, retries, restarts and power losses.       *)
(***************************************************************************)
EXTENDS Journal, TLAPS

Called == {"persist", "remove"}
Gone == {Tomb, None}
Open == {Unsure, Clearing}
Reads(c) == IF c = Tomb THEN None ELSE c

\* Zero is no retirement.
Generations ==
    /\ \A i \in 1..Len(retirementQueue) : retirementQueue[i].gen # 0
    /\ retrier # None => retrier.gen # 0
    /\ op # None /\ op.kind # "persist" => op.gen # 0
\* The file is no runnable entry, or its removal was asked for and is not over.
Clears(m) == file[m] \in Gone \/ kept[m] = Clearing
\* What the operation that holds j.mu has done so far, and whose file it writes.
Progress ==
    op # None =>
        /\ op.kind = "persist" => /\ op.v \in Entry /\ op.at \in {"write", "sync", "invalidate", "stat"}
                                  /\ retirements[op.m] = 0 /\ kept[op.m] = Unsure
        /\ op.kind = "remove" => kept[op.m] = Clearing
        /\ op.kind # "persist" => Clears(op.m)
        /\ op.at = "sync" => file[op.m] = op.v
        /\ op.at \in {"invalidate", "stat"} => op.faults # 0
        /\ op.at = "stat" => file[op.m] = None \/ op.faults > 1
        /\ op.at \in {"unlink", "confirm"} => unsynced[op.m] \subseteq Gone
\* A file whose retirement is pending is no runnable entry that anybody promised.
Retirable == \A m \in MR : retirements[m] # 0 => Clears(m)
\* What a call promised is what every outcome of a power loss reads.
Durable == \A m \in MR : kept[m] \notin Open => \A c \in unsynced[m] : Reads(c) = kept[m]
\* A process that ended keeps nothing in memory.
Cold == phase = "down" => op = None /\ \A m \in MR : retirements[m] = 0

IInv ==
    /\ TypeOK /\ Generations /\ Progress /\ Retirable /\ Durable /\ Cold
    /\ RetirementHasCarrier

-----------------------------------------------------------------------------
(* The invariant is inductive.                                             *)

LEMMA InitInv == Init => IInv
<1> SUFFICES ASSUME Init PROVE IInv
  OBVIOUS
<1>1. TypeOK
  BY JournalAssumption DEF Init, TypeOK, Content
<1>2. Generations /\ Progress /\ Cold
  BY DEF Init, Generations, Progress, Cold
<1>3. Retirable /\ RetirementHasCarrier
  BY DEF Init, Retirable, Clears, Gone, RetirementHasCarrier
<1>4. Durable
  BY JournalAssumption DEF Init, Durable, Reads, Open
<1> QED
  BY <1>1, <1>2, <1>3, <1>4 DEF IInv

LEMMA UseKeepsType ==
    ASSUME NEW k, TypeOK, Use(k)
    PROVE  used' \in [DOMAIN Bound -> Nat]
<1> DEFINE D == DOMAIN Bound
<1>1. used \in [D -> Nat] /\ used' = [used EXCEPT ![k] = @ + 1]
  BY DEF TypeOK, Use
<1> HIDE DEF D
<1>2. used' = [d \in D |-> IF d = k THEN used[k] + 1 ELSE used[d]]
  BY <1>1
<1>3. ASSUME NEW d \in D
      PROVE  (IF d = k THEN used[k] + 1 ELSE used[d]) \in Nat
  <2>1. used[d] \in Nat
    BY <1>1
  <2> QED
    BY <2>1
<1>4. used' \in [D -> Nat]
  BY <1>2, <1>3
<1> QED
  BY <1>4 DEF D

LEMMA PersistInv ==
    ASSUME IInv, NEW m \in MR, NEW e \in Entry, Persist(m, e)
    PROVE  IInv'
<1> USE DEF IInv
<1>0. used' \in [DOMAIN Bound -> Nat]
  BY UseKeepsType DEF Persist
<1>1. TypeOK'
  BY <1>0, JournalAssumption DEF Persist, TypeOK, store, life, Content, Operation, Kind, At
<1>2. Generations' /\ Cold'
  BY DEF Persist, Generations, Cold, life
<1>3. Progress'
  BY DEF Persist, Progress, TypeOK, store
<1>4. Retirable' /\ Durable'
  BY DEF Persist, Retirable, Clears, Durable, TypeOK, store, Open
<1>5. RetirementHasCarrier'
  BY DEF Persist, RetirementHasCarrier, TypeOK, life
<1> QED
  BY <1>1, <1>2, <1>3, <1>4, <1>5

LEMMA RemoveInv ==
    ASSUME IInv, NEW m \in MR, Remove(m)
    PROVE  IInv'
<1> USE DEF IInv
<1>0. used' \in [DOMAIN Bound -> Nat]
  BY UseKeepsType DEF Remove
<1>1. TypeOK'
  BY <1>0, JournalAssumption DEF Remove, Retire, TypeOK, store, life, Content, Operation, Kind, At
<1>2. Generations' /\ Cold'
  BY DEF Remove, Retire, Generations, Cold, life, TypeOK
<1>3. Progress'
  BY DEF Remove, Retire, Progress, Clears, TypeOK, store
<1>4. Retirable' /\ Durable'
  BY DEF Remove, Retirable, Clears, Durable, TypeOK, store, Open
<1>5. RetirementHasCarrier'
  BY DEF Remove, RetirementHasCarrier, TypeOK, life
<1> QED
  BY <1>1, <1>2, <1>3, <1>4, <1>5

-----------------------------------------------------------------------------
(* The steps of an operation.                                              *)

\* What a step that writes or syncs the directory may do to the files.
LEMMA PutStore ==
    ASSUME IInv, op # None, NEW c \in Content, Put(op.m, c)
    PROVE  /\ file' \in [MR -> Content] /\ unsynced' \in [MR -> SUBSET Content]
           /\ \A n \in MR : file'[n] \in unsynced'[n]
           /\ file'[op.m] = c /\ unsynced'[op.m] = unsynced[op.m] \cup {c}
           /\ \A n \in MR \ {op.m} : file'[n] = file[n] /\ unsynced'[n] = unsynced[n]
           /\ op.m \in MR
BY DEF IInv, TypeOK, Operation, Put

LEMMA SyncStore ==
    ASSUME IInv, SyncDirectory
    PROVE  /\ file' = file /\ unsynced' \in [MR -> SUBSET Content]
           /\ \A n \in MR : unsynced'[n] = {file[n]} /\ unsynced'[n] \subseteq unsynced[n]
BY DEF IInv, TypeOK, SyncDirectory

\* Putting a tombstone, or nothing, breaks no promise: the call's own file is not
\* promised, and a retired one reads as cleared.
LEMMA GoneKeepsDurable ==
    ASSUME IInv, op # None, NEW c \in Gone, Put(op.m, c), UNCHANGED kept
    PROVE  Durable'
<1>1. c \in Content
  BY DEF Gone, Content
<1>2. SUFFICES ASSUME NEW n \in MR, kept[n] \notin Open, NEW d \in unsynced'[n]
               PROVE  Reads(d) = kept[n]
  BY DEF Durable
<1>3. CASE n # op.m
  BY <1>1, <1>2, <1>3, PutStore DEF IInv, Durable
<1>4. CASE n = op.m
  <2>1. op.kind # "persist"
    BY <1>2, <1>4 DEF IInv, Progress, Open
  <2>2. file[n] \in Gone /\ file[n] \in unsynced[n]
    BY <1>2, <1>4, <2>1 DEF IInv, Progress, Clears, Open, TypeOK
  <2>3. kept[n] = None
    BY <1>2, <2>2 DEF IInv, Durable, Gone, Reads
  <2>4. d \in unsynced[n] \/ d = c
    BY <1>1, <1>4, PutStore
  <2> QED
    BY <1>2, <2>3, <2>4 DEF IInv, Durable, Gone, Reads
<1> QED
  BY <1>3, <1>4

LEMMA CalledFileKeepsDurable ==
    ASSUME IInv, op # None, op.kind \in Called, NEW c \in Content, Put(op.m, c), UNCHANGED kept
    PROVE  Durable'
<1>1. kept[op.m] \in Open
  BY DEF IInv, Progress, Called, Open
<1> QED
  BY <1>1, PutStore DEF IInv, Durable

LEMMA SyncKeepsDurable ==
    ASSUME IInv, SyncDirectory, UNCHANGED kept
    PROVE  Durable'
BY SyncStore DEF IInv, Durable

\* A failed step leaves the files alone and the operation something to undo.
LEMMA FailToInv ==
    ASSUME IInv, op # None, NEW at \in {"invalidate", "stat"}, FailTo(at),
           IF at = "stat" THEN op.at = "invalidate" ELSE op.at \in {"write", "sync"}
    PROVE  IInv'
<1>0. op \in Operation /\ used' \in [DOMAIN Bound -> Nat]
  BY UseKeepsType DEF FailTo, Fails, IInv, TypeOK
<1>1. op' \in Operation /\ op'.kind = op.kind /\ op'.m = op.m /\ op'.v = op.v /\ op'.gen = op.gen
      /\ op'.at = at /\ op'.faults # 0 /\ op' # None
      /\ (at = "stat" => op'.faults > 1)
  <2>0. op' = [kind |-> op.kind, m |-> op.m, v |-> op.v, gen |-> op.gen, at |-> at,
               faults |-> op.faults + 1]
    BY <1>0 DEF FailTo, Operation
  <2>1. op'.at = at /\ op' \in Operation
    BY <1>0, <2>0 DEF Operation, At
  <2>3. at = "stat" => op.faults # 0
    BY DEF IInv, Progress
  <2>2. op' # None
    BY <2>1, NoneAssumption
  <2> QED
    <3>1. op.faults \in Nat /\ op'.faults = op.faults + 1
      BY <1>0, <2>0 DEF Operation
    <3>2. op'.faults # 0 /\ (at = "stat" => op'.faults > 1)
      BY <2>3, <3>1
    <3> QED
      BY <2>0, <2>1, <2>2, <3>2
<1>a. /\ UNCHANGED <<file, unsynced, kept, retirements, nextRetirement, retirementQueue, retrier>>
      /\ UNCHANGED <<abandoned, phase, toLoad>>
  BY DEF FailTo, store, retry, life
<1>2. TypeOK'
  BY <1>0, <1>1, <1>a DEF IInv, TypeOK
<1>3. Generations' /\ Cold'
  BY <1>1, <1>a DEF IInv, Generations, Cold
<1>b. (\A n : Clears(n)' = Clears(n)) /\ Retirable' /\ Durable'
  BY <1>a DEF IInv, Retirable, Clears, Durable
<1>4. Progress'
  <2>1. op.at \in {"write", "sync", "invalidate"}
    OBVIOUS
  <2>2. /\ op'.kind = "persist" => /\ op'.v \in Entry
                                   /\ retirements'[op'.m] = 0 /\ kept'[op'.m] = Unsure
        /\ op'.kind = "remove" => kept'[op'.m] = Clearing
    BY <1>1, <1>a DEF IInv, Progress
  <2>3. op'.kind # "persist" => file'[op'.m] \in Gone \/ kept'[op'.m] = Clearing
    BY <1>1, <1>a DEF IInv, Progress, Clears
  <2>4. op'.at \in {"invalidate", "stat"} /\ op'.faults # 0 /\ (op'.at = "stat" => op'.faults > 1)
    BY <1>1
  <2> QED
    BY <2>2, <2>3, <2>4 DEF Progress, Clears
<1>5. RetirementHasCarrier'
  BY <1>1, <1>a DEF IInv, RetirementHasCarrier
<1> QED
  BY <1>2, <1>3, <1>b, <1>4, <1>5 DEF IInv

LEMMA WriteInv ==
    ASSUME IInv, Write
    PROVE  IInv'
<1>0. op # None /\ op.at = "write" /\ op \in Operation
  BY DEF Write, IInv, TypeOK
<1>1. CASE Put(op.m, op.v) /\ MoveTo("sync") /\ UNCHANGED used
  <2>1. op.v \in Content
    BY <1>0 DEF Operation, Content
  <2>2. TypeOK'
    BY <1>0, <1>1, <2>1, PutStore DEF IInv, TypeOK, MoveTo, retry, life, Operation, At
  <2>3. Generations' /\ Cold'
    BY <1>0, <1>1 DEF IInv, Generations, Cold, MoveTo, retry, life, Operation
  <2>4. Progress'
    BY <1>0, <1>1, <2>1, PutStore DEF IInv, TypeOK, Progress, Clears, MoveTo, retry, life, Operation, Kind, Gone
  <2>5. Retirable'
    BY <1>0, <1>1, <2>1, PutStore DEF IInv, TypeOK, Progress, Retirable, Clears, MoveTo, retry, Gone
  <2>6. Durable'
    <3>1. CASE op.kind = "persist"
      BY <1>0, <1>1, <2>1, <3>1, CalledFileKeepsDurable DEF Called, MoveTo
    <3>2. CASE op.kind # "persist"
      BY <1>0, <1>1, <3>2, GoneKeepsDurable DEF IInv, TypeOK, MoveTo, Gone
    <3> QED
      BY <3>1, <3>2
  <2>7. RetirementHasCarrier'
    <3>1. op' # None /\ op'.m = op.m /\ op'.kind = op.kind /\ op'.gen = op.gen
      BY <1>0, <1>1, <2>2, NoneAssumption DEF MoveTo, Operation, At
    <3> QED
      BY <1>0, <1>1, <3>1 DEF IInv, RetirementHasCarrier, MoveTo, retry, life
  <2> QED
    BY <2>2, <2>3, <2>4, <2>5, <2>6, <2>7 DEF IInv
<1>2. CASE FailTo("invalidate")
  BY <1>0, <1>2, FailToInv
<1> QED
  BY <1>1, <1>2 DEF Write

-----------------------------------------------------------------------------
(* The end of an operation.                                                *)

Queued == {retirementQueue[i] : i \in 1..Len(retirementQueue)}

\* A retirement is queued in both places or in neither, and no other is lost.
LEMMA QueueFacts ==
    ASSUME IInv, NEW m \in MR, NEW gen \in Nat \ {0}, QueueRetirement(m, gen)
    PROVE  /\ retirements' \in [MR -> Nat] /\ abandoned' \subseteq MR
           /\ retirementQueue' \in Seq(Retirement) /\ Len(retirementQueue') <= MaxRetirements
           /\ \A i \in 1..Len(retirementQueue') : retirementQueue'[i].gen # 0
           /\ \A n \in MR \ {m} : retirements'[n] = retirements[n]
           /\ retirements'[m] # 0 => [m |-> m, gen |-> retirements'[m]] \in Queued'
           /\ Queued \subseteq Queued'
<1> DEFINE r == [m |-> m, gen |-> gen]
<1>1. r \in Retirement /\ r.gen # 0
  BY DEF Retirement
<1>2. CASE UNCHANGED retirementQueue /\ retirements' = [retirements EXCEPT ![m] = 0]
           /\ abandoned' = abandoned \cup {m}
  BY <1>2 DEF IInv, TypeOK, Generations, Queued
<1>3. CASE UNCHANGED <<retirementQueue, retirements>> /\ abandoned' = abandoned \cup {m}
           /\ retirements[m] = 0
  BY <1>3 DEF IInv, TypeOK, Generations, Queued
<1>4. CASE /\ Len(retirementQueue) < MaxRetirements
           /\ retirements' = [retirements EXCEPT ![m] = gen]
           /\ retirementQueue' = Append(retirementQueue, r) /\ UNCHANGED abandoned
  <2>1. retirementQueue \in Seq(Retirement) /\ MaxRetirements \in Nat
    BY JournalAssumption DEF IInv, TypeOK
  <2>2. /\ retirementQueue' \in Seq(Retirement)
        /\ Len(retirementQueue') = Len(retirementQueue) + 1
        /\ \A i \in 1..Len(retirementQueue) : retirementQueue'[i] = retirementQueue[i]
        /\ retirementQueue'[Len(retirementQueue) + 1] = r
    BY <1>1, <1>4, <2>1
  <2>3. Queued \subseteq Queued' /\ r \in Queued'
    BY <2>1, <2>2 DEF Queued
  <2>4. \A i \in 1..Len(retirementQueue') : retirementQueue'[i].gen # 0
    BY <1>1, <2>1, <2>2 DEF IInv, Generations
  <2>5. /\ retirements' \in [MR -> Nat] /\ retirements'[m] = gen
        /\ \A n \in MR \ {m} : retirements'[n] = retirements[n]
    BY <1>4 DEF IInv, TypeOK
  <2> QED
    BY <1>4, <2>1, <2>2, <2>3, <2>4, <2>5 DEF IInv, TypeOK
<1> QED
  BY <1>2, <1>3, <1>4 DEF QueueRetirement

\* What is left of an operation that is over, whatever it did to the files.
LEMMA DoneInv ==
    ASSUME IInv, op # None, NEW retired \in BOOLEAN, Done(retired),
           file' \in [MR -> Content], unsynced' \in [MR -> SUBSET Content],
           \A n \in MR : file'[n] \in unsynced'[n],
           kept' \in [MR -> Entry \cup {None, Unsure, Clearing}], used' \in [DOMAIN Bound -> Nat],
           \A n \in MR \ {op.m} : file'[n] = file[n] /\ kept'[n] = kept[n],
           op.kind # "persist" /\ ~retired => file'[op.m] \in Gone \/ kept'[op.m] = Clearing,
           Durable'
    PROVE  IInv'
<1>1. op \in Operation /\ op.m \in MR /\ op.gen \in Nat
  BY DEF IInv, TypeOK, Operation
<1>2. op' = None /\ UNCHANGED <<nextRetirement, retrier, phase, toLoad>> /\ phase # "down"
  BY DEF Done, life, IInv, Cold
<1>3. CASE op.kind = "persist"
  <2>1. UNCHANGED <<retirements, retirementQueue>> /\ abandoned' \subseteq MR /\ retirements[op.m] = 0
    BY <1>1, <1>3 DEF Done, IInv, Progress, TypeOK
  <2>2. TypeOK' /\ Generations' /\ Progress' /\ Cold'
    BY <1>2, <2>1 DEF IInv, TypeOK, Generations, Progress, Cold
  <2>3. Retirable' /\ RetirementHasCarrier'
    BY <1>1, <1>2, <1>3, <2>1 DEF IInv, Retirable, Clears, RetirementHasCarrier
  <2> QED
    BY <2>2, <2>3 DEF IInv
<1>4. CASE op.kind # "persist" /\ retired
  <2>1. retirements' = [retirements EXCEPT ![op.m] = 0] /\ UNCHANGED <<retirementQueue, abandoned>>
    BY <1>4 DEF Done, Retired
  <2>2. TypeOK' /\ Generations' /\ Progress' /\ Cold'
    BY <1>2, <2>1 DEF IInv, TypeOK, Generations, Progress, Cold
  <2>3. Retirable' /\ RetirementHasCarrier'
    BY <1>1, <1>2, <2>1 DEF IInv, TypeOK, Retirable, Clears, RetirementHasCarrier
  <2> QED
    BY <2>2, <2>3 DEF IInv
<1>5. CASE op.kind # "persist" /\ ~retired
  <2>1. QueueRetirement(op.m, op.gen) /\ op.gen \in Nat \ {0}
    BY <1>1, <1>5 DEF Done, IInv, Generations
  <2>2. /\ retirements' \in [MR -> Nat] /\ abandoned' \subseteq MR
        /\ retirementQueue' \in Seq(Retirement) /\ Len(retirementQueue') <= MaxRetirements
        /\ \A i \in 1..Len(retirementQueue') : retirementQueue'[i].gen # 0
        /\ \A n \in MR \ {op.m} : retirements'[n] = retirements[n]
        /\ retirements'[op.m] # 0 => [m |-> op.m, gen |-> retirements'[op.m]] \in Queued'
        /\ Queued \subseteq Queued'
    BY <1>1, <2>1, QueueFacts
  <2>3. TypeOK' /\ Generations' /\ Progress' /\ Cold'
    BY <1>2, <2>2 DEF IInv, TypeOK, Generations, Progress, Cold
  <2>4. Retirable'
    BY <1>1, <1>5, <2>2 DEF IInv, Retirable, Clears
  <2>5. RetirementHasCarrier'
    BY <1>1, <1>2, <2>2 DEF IInv, RetirementHasCarrier, Queued
  <2> QED
    BY <2>3, <2>4, <2>5 DEF IInv
<1> QED
  BY <1>3, <1>4, <1>5

\* An operation that moves on keeps everything but where it is.
LEMMA MoveInv ==
    ASSUME IInv, op # None, NEW at \in At, MoveTo(at), UNCHANGED used,
           file' \in [MR -> Content], unsynced' \in [MR -> SUBSET Content],
           \A n \in MR : file'[n] \in unsynced'[n],
           \A n \in MR : retirements[n] # 0 => Clears(n)',
           op.kind # "persist" => file'[op.m] \in Gone \/ kept'[op.m] = Clearing,
           op.kind = "persist" => at = "stat",
           at \in {"stat", "unlink", "confirm"},
           at = "stat" => op.at = "invalidate" /\ file'[op.m] = None,
           at \in {"unlink", "confirm"} => unsynced'[op.m] \subseteq Gone,
           Durable'
    PROVE  IInv'
<1>1. op \in Operation
  BY DEF IInv, TypeOK
<1>2. op' = [kind |-> op.kind, m |-> op.m, v |-> op.v, gen |-> op.gen, at |-> at,
             faults |-> op.faults]
  BY <1>1 DEF MoveTo, Operation
<1>3. op' \in Operation /\ op' # None
  BY <1>1, <1>2, NoneAssumption DEF Operation
<1>4. UNCHANGED <<kept, retirements, nextRetirement, retirementQueue, retrier, abandoned, phase, toLoad>>
  BY DEF MoveTo, retry, life
<1>5. TypeOK' /\ Generations' /\ Cold'
  BY <1>2, <1>3, <1>4 DEF IInv, TypeOK, Generations, Cold
<1>6. Progress'
  <2>1. UNCHANGED <<kept, retirements>> /\ op'.m = op.m /\ op'.kind = op.kind /\ op'.v = op.v
        /\ op'.at = at /\ op'.faults = op.faults
    BY <1>2, <1>4
  <2>2. /\ op'.kind = "persist" => /\ op'.v \in Entry /\ op'.at = "stat"
                                   /\ retirements'[op'.m] = 0 /\ kept'[op'.m] = Unsure
        /\ op'.kind = "remove" => kept'[op'.m] = Clearing
    BY <2>1 DEF IInv, Progress
  <2>3. op'.kind # "persist" => file'[op'.m] \in Gone \/ kept'[op'.m] = Clearing
    BY <1>4, <2>1
  <2>4. /\ op'.at \in {"invalidate", "stat"} => op'.faults # 0
        /\ op'.at = "stat" => file'[op'.m] = None \/ op'.faults > 1
    BY <2>1 DEF IInv, Progress
  <2>5. op'.at \in {"unlink", "confirm"} => unsynced'[op'.m] \subseteq Gone
    BY <2>1
  <2> QED
    BY <2>1, <2>2, <2>3, <2>4, <2>5 DEF Progress, Clears
<1>7. Retirable' /\ RetirementHasCarrier'
  BY <1>2, <1>3, <1>4 DEF IInv, Retirable, RetirementHasCarrier
<1> QED
  BY <1>5, <1>6, <1>7 DEF IInv

LEMMA SyncInv ==
    ASSUME IInv, Sync
    PROVE  IInv'
<1>0. op # None /\ op.at = "sync" /\ op \in Operation /\ op.m \in MR
      /\ file[op.m] = op.v /\ file \in [MR -> Content]
  BY DEF Sync, IInv, TypeOK, Operation, Progress
<1>1. CASE SyncDirectory /\ UNCHANGED used /\ op.kind = "persist" /\ Done(TRUE) /\ Promise(op.v)
  <2>1. kept' = [kept EXCEPT ![op.m] = op.v] /\ op.v \in Entry
    BY <1>0, <1>1 DEF Promise, IInv, Progress
  <2>2. Durable'
    BY <1>0, <1>1, <2>1, SyncStore, JournalAssumption DEF IInv, TypeOK, Durable, Reads, Open
  <2>3. kept' \in [MR -> Entry \cup {None, Unsure, Clearing}]
    BY <2>1 DEF IInv, TypeOK
  <2>4. used' \in [DOMAIN Bound -> Nat]
    BY <1>1 DEF IInv, TypeOK
  <2>5. file' = file /\ unsynced' \in [MR -> SUBSET Content] /\ \A n \in MR : file'[n] \in unsynced'[n]
    BY <1>1, SyncStore
  <2> QED
    BY <1>0, <1>1, <2>1, <2>2, <2>3, <2>4, <2>5, DoneInv DEF IInv, TypeOK
<1>2. CASE SyncDirectory /\ UNCHANGED used /\ op.kind # "persist" /\ MoveTo("unlink")
  <2>1. op.v = Tomb
    BY <1>0, <1>2 DEF IInv, TypeOK
  <2>2. file' = file /\ unsynced' \in [MR -> SUBSET Content] /\ \A n \in MR : unsynced'[n] = {file[n]}
    BY <1>2, SyncStore
  <2>3. unsynced'[op.m] \subseteq Gone /\ file'[op.m] \in Gone
    BY <1>0, <2>1, <2>2 DEF Gone
  <2>4. Durable'
    BY <1>2, SyncKeepsDurable DEF MoveTo
  <2>5. (\A n \in MR : retirements[n] # 0 => Clears(n)') /\ (file'[op.m] \in Gone \/ kept'[op.m] = Clearing)
    BY <1>2, <2>2, <2>3 DEF IInv, Retirable, Clears, MoveTo
  <2> QED
    BY <1>0, <1>2, <2>2, <2>3, <2>4, <2>5, MoveInv DEF At
<1>3. CASE FailTo("invalidate")
  BY <1>0, <1>3, FailToInv
<1> QED
  BY <1>1, <1>2, <1>3 DEF Sync

LEMMA InvalidateInv ==
    ASSUME IInv, Invalidate
    PROVE  IInv'
<1>0. op # None /\ op.at = "invalidate" /\ op \in Operation /\ op.m \in MR
  BY DEF Invalidate, IInv, TypeOK, Operation
<1>1. CASE Put(op.m, None) /\ MoveTo("stat") /\ UNCHANGED used
  <2>1. /\ file' \in [MR -> Content] /\ unsynced' \in [MR -> SUBSET Content]
        /\ \A n \in MR : file'[n] \in unsynced'[n]
        /\ \A n \in MR \ {op.m} : file'[n] = file[n]
        /\ file'[op.m] = None
    BY <1>0, <1>1, PutStore DEF Content
  <2>2. Durable'
    BY <1>0, <1>1, GoneKeepsDurable DEF Gone, MoveTo
  <2>3. UNCHANGED kept
    BY <1>1 DEF MoveTo
  <2>4. (\A n \in MR : retirements[n] # 0 => Clears(n)') /\ (file'[op.m] \in Gone \/ kept'[op.m] = Clearing)
    BY <2>1, <2>3 DEF IInv, Retirable, Clears, Gone
  <2> QED
    <3>1. "stat" \in At /\ "stat" \notin {"unlink", "confirm"}
      BY DEF At
    <3> QED
      BY <1>0, <1>1, <2>1, <2>2, <2>4, <3>1, MoveInv
<1>2. CASE FailTo("stat")
  BY <1>0, <1>2, FailToInv
<1> QED
  BY <1>1, <1>2 DEF Invalidate

LEMMA StatInv ==
    ASSUME IInv, Stat
    PROVE  IInv'
<1>0. op # None /\ op \in Operation /\ op.m \in MR /\ UNCHANGED <<file, unsynced, kept>>
  BY DEF Stat, IInv, TypeOK, Operation, store
<1>1. PICK retired \in BOOLEAN : Done(retired)
  BY DEF Stat
<1>2. used' \in [DOMAIN Bound -> Nat]
  BY UseKeepsType DEF Stat, Fails, IInv, TypeOK
<1>3. Durable' /\ (op.kind # "persist" => file'[op.m] \in Gone \/ kept'[op.m] = Clearing)
  BY <1>0 DEF IInv, Durable, Progress, Clears
<1>4. /\ file' \in [MR -> Content] /\ unsynced' \in [MR -> SUBSET Content]
      /\ \A n \in MR : file'[n] \in unsynced'[n]
      /\ kept' \in [MR -> Entry \cup {None, Unsure, Clearing}]
  BY <1>0 DEF IInv, TypeOK
<1> QED
  BY <1>0, <1>1, <1>2, <1>3, <1>4, DoneInv

\* The caller is told that the file reads as cleared, when every outcome does.
LEMMA PromiseNone ==
    ASSUME IInv, op # None, Promise(None), file' \in [MR -> Content],
           \A n \in MR \ {op.m} : unsynced'[n] \subseteq unsynced[n],
           unsynced'[op.m] \subseteq Gone, op.kind \notin Called => unsynced'[op.m] \subseteq unsynced[op.m]
    PROVE  /\ Durable' /\ kept' \in [MR -> Entry \cup {None, Unsure, Clearing}]
           /\ \A n \in MR \ {op.m} : kept'[n] = kept[n]
<1>1. op.m \in MR
  BY DEF IInv, TypeOK, Operation
<1>2. CASE op.kind \in Called
  <2>1. kept' = [kept EXCEPT ![op.m] = None]
    BY <1>2 DEF Promise, Called
  <2> QED
    BY <1>1, <2>1 DEF IInv, TypeOK, Durable, Gone, Reads
<1>3. CASE op.kind \notin Called
  <2>1. kept' = kept
    BY <1>3 DEF Promise, Called
  <2> QED
    BY <1>1, <1>3, <2>1 DEF IInv, TypeOK, Durable
<1> QED
  BY <1>2, <1>3

LEMMA UnlinkInv ==
    ASSUME IInv, Unlink
    PROVE  IInv'
<1>0. /\ op # None /\ op.at = "unlink" /\ op \in Operation /\ op.m \in MR
      /\ unsynced[op.m] \subseteq Gone /\ op.kind # "persist" /\ file[op.m] \in Gone
  BY DEF Unlink, IInv, TypeOK, Operation, Progress
<1>1. CASE Put(op.m, None) /\ MoveTo("confirm") /\ UNCHANGED used
  <2>1. /\ file' \in [MR -> Content] /\ unsynced' \in [MR -> SUBSET Content]
        /\ \A n \in MR : file'[n] \in unsynced'[n]
        /\ file'[op.m] = None /\ unsynced'[op.m] = unsynced[op.m] \cup {None}
        /\ \A n \in MR \ {op.m} : file'[n] = file[n]
    BY <1>0, <1>1, PutStore DEF Content
  <2>2. Durable'
    BY <1>0, <1>1, GoneKeepsDurable DEF Gone, MoveTo
  <2>3. file'[op.m] \in Gone /\ unsynced'[op.m] \subseteq Gone
    BY <1>0, <2>1 DEF Gone
  <2>4. (\A n \in MR : retirements[n] # 0 => Clears(n)') /\ (file'[op.m] \in Gone \/ kept'[op.m] = Clearing)
    BY <1>1, <2>1, <2>3 DEF IInv, Retirable, Clears, MoveTo
  <2> QED
    BY <1>0, <1>1, <2>1, <2>2, <2>3, <2>4, MoveInv DEF At
<1>2. CASE Fails /\ Done(FALSE) /\ Promise(None) /\ UNCHANGED store
  <2>1. used' \in [DOMAIN Bound -> Nat] /\ UNCHANGED <<file, unsynced>>
    BY <1>2, UseKeepsType DEF Fails, IInv, store
  <2>2. file \in [MR -> Content] /\ unsynced \in [MR -> SUBSET Content] /\ \A n \in MR : file[n] \in unsynced[n]
    BY DEF IInv, TypeOK
  <2>3. /\ Durable' /\ kept' \in [MR -> Entry \cup {None, Unsure, Clearing}]
        /\ \A n \in MR \ {op.m} : kept'[n] = kept[n]
    BY <1>0, <1>2, <2>1, <2>2, PromiseNone
  <2> QED
    BY <1>0, <1>2, <2>1, <2>2, <2>3, DoneInv
<1> QED
  BY <1>1, <1>2 DEF Unlink

LEMMA ConfirmInv ==
    ASSUME IInv, Confirm
    PROVE  IInv'
<1>0. /\ op # None /\ op.at = "confirm" /\ op \in Operation /\ op.m \in MR
      /\ unsynced[op.m] \subseteq Gone /\ file[op.m] \in Gone
  BY DEF Confirm, IInv, TypeOK, Operation, Progress
<1>1. CASE SyncDirectory /\ Done(TRUE) /\ UNCHANGED used
  <2>1. /\ file' = file /\ unsynced' \in [MR -> SUBSET Content]
        /\ \A n \in MR : unsynced'[n] = {file[n]} /\ unsynced'[n] \subseteq unsynced[n]
    BY <1>1, SyncStore
  <2>2. file \in [MR -> Content] /\ used \in [DOMAIN Bound -> Nat]
    BY DEF IInv, TypeOK
  <2>3. /\ Durable' /\ kept' \in [MR -> Entry \cup {None, Unsure, Clearing}]
        /\ \A n \in MR \ {op.m} : kept'[n] = kept[n]
    BY <1>0, <2>1, <2>2, PromiseNone DEF Confirm
  <2> QED
    BY <1>0, <1>1, <2>1, <2>2, <2>3, DoneInv
<1>2. CASE Fails /\ Done(FALSE) /\ UNCHANGED store
  <2>1. used' \in [DOMAIN Bound -> Nat] /\ UNCHANGED <<file, unsynced>>
    BY <1>2, UseKeepsType DEF Fails, IInv, store
  <2>2. file \in [MR -> Content] /\ unsynced \in [MR -> SUBSET Content] /\ \A n \in MR : file[n] \in unsynced[n]
    BY DEF IInv, TypeOK
  <2>3. /\ Durable' /\ kept' \in [MR -> Entry \cup {None, Unsure, Clearing}]
        /\ \A n \in MR \ {op.m} : kept'[n] = kept[n]
    BY <1>0, <2>1, <2>2, PromiseNone DEF Confirm
  <2> QED
    BY <1>0, <1>2, <2>1, <2>2, <2>3, DoneInv
<1> QED
  BY <1>1, <1>2 DEF Confirm

-----------------------------------------------------------------------------
(* The worker that retries, restarts, and the ends of the process.         *)

LEMMA RetrierTakeInv ==
    ASSUME IInv, RetrierTake
    PROVE  IInv'
<1> DEFINE q == retirementQueue
<1>1. q \in Seq(Retirement) /\ q # <<>> /\ Len(q) \in Nat /\ Len(q) <= MaxRetirements
      /\ retrier' = Head(q) /\ q' = Tail(q) /\ retrier = None
  BY DEF IInv, TypeOK, RetrierTake
<1>2. /\ retrier' = q[1] /\ retrier' \in Retirement /\ q' \in Seq(Retirement) /\ Len(q) >= 1
      /\ Len(q') = Len(q) - 1 /\ \A i \in 1..Len(q') : q'[i] = q[i + 1]
  BY <1>1
<1>3. Queued \subseteq Queued' \cup {retrier'}
  <2>1. ASSUME NEW i \in 1..Len(q), i # 1
        PROVE  q[i] \in Queued'
    <3>1. i - 1 \in 1..Len(q') /\ q'[i - 1] = q[i]
      BY <1>1, <1>2, <2>1
    <3> QED
      BY <3>1 DEF Queued
  <2> QED
    BY <1>2, <2>1 DEF Queued
<1>4. Len(q') <= MaxRetirements
  BY <1>1, <1>2, JournalAssumption
<1>5. TypeOK'
  BY <1>2, <1>4 DEF IInv, TypeOK, RetrierTake, store, life
<1>6. Generations'
  BY <1>1, <1>2 DEF IInv, Generations, RetrierTake
<1>7. Progress' /\ Retirable' /\ Durable' /\ Cold'
  BY DEF IInv, Progress, Retirable, Clears, Durable, Cold, RetrierTake, store, life
<1>8. RetirementHasCarrier'
  <2>1. UNCHANGED <<retirements, phase, op>>
    BY DEF RetrierTake, life
  <2>2. ASSUME NEW m \in MR, retirements[m] # 0, phase \in {"loading", "open"},
               ~(op # None /\ op.m = m /\ op.kind = "retry" /\ op.gen = retirements[m])
        PROVE  [m |-> m, gen |-> retirements[m]] \in Queued' \cup {retrier'}
    <3>1. [m |-> m, gen |-> retirements[m]] \in Retirement
      BY DEF IInv, TypeOK, Retirement
    <3>2. [m |-> m, gen |-> retirements[m]] \in Queued
      BY <1>1, <2>2, <3>1, NoneAssumption DEF IInv, RetirementHasCarrier, Queued
    <3> QED
      BY <1>3, <3>2
  <2> QED
    BY <2>1, <2>2 DEF RetirementHasCarrier, Queued
<1> QED
  BY <1>5, <1>6, <1>7, <1>8 DEF IInv

LEMMA RetrierWakesInv ==
    ASSUME IInv, RetrierWakes
    PROVE  IInv'
<1>1. retrier \in Retirement /\ retrier.m \in MR /\ retrier.gen \in Nat \ {0} /\ op = None
      /\ retrier' = None /\ phase = "open"
  BY DEF IInv, TypeOK, Generations, RetrierWakes, Retirement
<1>2. UNCHANGED <<file, unsynced, kept, retirements, nextRetirement, retirementQueue, abandoned,
                  phase, toLoad, used>>
  BY DEF RetrierWakes, store, life
<1>3. CASE retirements[retrier.m] = retrier.gen
  <2>1. op' = [kind |-> "retry", m |-> retrier.m, v |-> Tomb, gen |-> retrier.gen, at |-> "write",
               faults |-> 0]
    BY <1>3 DEF RetrierWakes, Retire
  <2>2. op' \in Operation /\ op' # None
    BY <1>1, <2>1, NoneAssumption DEF Operation, Kind, At
  <2>3. Clears(retrier.m)
    BY <1>1, <1>3 DEF IInv, Retirable
  <2>4. TypeOK' /\ Generations' /\ Cold'
    BY <1>1, <1>2, <2>1, <2>2 DEF IInv, TypeOK, Generations, Cold
  <2>5. Progress' /\ Retirable' /\ Durable'
    BY <1>1, <1>2, <2>1, <2>3 DEF IInv, Progress, Retirable, Clears, Durable
  <2>6. RetirementHasCarrier'
    BY <1>1, <1>2, <1>3, <2>1, <2>2 DEF IInv, RetirementHasCarrier, Retirement
  <2> QED
    BY <2>4, <2>5, <2>6 DEF IInv
<1>4. CASE retirements[retrier.m] # retrier.gen
  <2>1. op' = None
    BY <1>1, <1>4 DEF RetrierWakes
  <2>2. TypeOK' /\ Generations' /\ Cold' /\ Progress' /\ Retirable' /\ Durable'
    BY <1>1, <1>2, <2>1 DEF IInv, TypeOK, Generations, Cold, Progress, Retirable, Clears, Durable
  <2>3. RetirementHasCarrier'
    BY <1>1, <1>2, <1>4, <2>1 DEF IInv, RetirementHasCarrier
  <2> QED
    BY <2>2, <2>3 DEF IInv
<1> QED
  BY <1>3, <1>4

LEMMA LoadInv ==
    ASSUME IInv, Load
    PROVE  IInv'
<1>1. CASE Loaded
  BY <1>1 DEF Loaded, IInv, TypeOK, Generations, Progress, Retirable, Clears, Durable, Cold, RetirementHasCarrier,
              store, retry
<1>4. CASE LoadFails
  <2>1. used' \in [DOMAIN Bound -> Nat]
    BY <1>4, UseKeepsType DEF LoadFails, IInv
  <2> QED
    BY <1>4, <2>1 DEF LoadFails, IInv, TypeOK, Generations, Progress, Retirable, Clears, Durable, Cold,
              RetirementHasCarrier, store
<1>2. ASSUME NEW m \in MR, LoadEntry(m)
      PROVE  IInv'
  BY <1>2 DEF LoadEntry, IInv, TypeOK, Generations, Progress, Retirable, Clears, Durable, Cold,
              RetirementHasCarrier, store, retry
<1>3. ASSUME NEW m \in MR, LoadTombstone(m)
      PROVE  IInv'
  <2>1. /\ phase = "loading" /\ op = None /\ file[m] = Tomb /\ phase' = phase
        /\ toLoad' = toLoad \ {m} /\ abandoned' \subseteq MR
        /\ UNCHANGED <<file, unsynced, kept, retirements, retirementQueue, retrier>>
    BY <1>3 DEF LoadTombstone, store, IInv, TypeOK
  <2>2. CASE /\ nextRetirement' = nextRetirement + 1 /\ Retire("load", m, nextRetirement')
             /\ UNCHANGED used
    <3>1. op' = [kind |-> "load", m |-> m, v |-> Tomb, gen |-> nextRetirement + 1, at |-> "write",
                 faults |-> 0]
      BY <2>2 DEF Retire
    <3>2. op' \in Operation /\ op'.gen # 0 /\ nextRetirement' \in Nat
      BY <2>2, <3>1 DEF Operation, Kind, At, IInv, TypeOK
    <3>3. TypeOK' /\ Generations' /\ Cold'
      BY <2>1, <2>2, <3>1, <3>2 DEF IInv, TypeOK, Generations, Cold
    <3>4. Progress' /\ Retirable' /\ Durable'
      BY <2>1, <3>1 DEF IInv, Progress, Retirable, Clears, Durable, Gone
    <3>5. RetirementHasCarrier'
      BY <2>1 DEF IInv, RetirementHasCarrier
    <3> QED
      BY <3>3, <3>4, <3>5 DEF IInv
  <2>3. CASE Use("fault") /\ UNCHANGED <<op, nextRetirement>>
    <3>1. used' \in [DOMAIN Bound -> Nat]
      BY <2>3, UseKeepsType DEF IInv
    <3> QED
      BY <2>1, <2>3, <3>1 DEF IInv, TypeOK, Generations, Progress, Retirable, Clears, Durable, Cold,
                              RetirementHasCarrier
  <2> QED
    BY <1>3, <2>2, <2>3 DEF LoadTombstone
<1> QED
  BY <1>1, <1>2, <1>3, <1>4 DEF Load

LEMMA StopInv ==
    ASSUME IInv, StopRetirements
    PROVE  IInv'
<1>1. used' \in [DOMAIN Bound -> Nat]
  BY UseKeepsType DEF StopRetirements, IInv
<1> QED
  BY <1>1 DEF StopRetirements, IInv, TypeOK, Generations, Progress, Retirable, Clears, Durable, Cold,
              RetirementHasCarrier, store

\* The process ends: what it had in memory is gone.
LEMMA EndInv ==
    ASSUME IInv, End, file' \in [MR -> Content], unsynced' \in [MR -> SUBSET Content],
           \A n \in MR : file'[n] \in unsynced'[n] /\ unsynced'[n] \subseteq unsynced[n],
           used' \in [DOMAIN Bound -> Nat]
    PROVE  IInv'
<1>1. TypeOK'
  BY JournalAssumption DEF End, IInv, TypeOK
<1>2. Generations' /\ Progress' /\ Cold'
  BY DEF End, Generations, Progress, Cold
<1>3. Retirable' /\ Durable' /\ RetirementHasCarrier'
  BY DEF End, IInv, Retirable, Clears, Durable, RetirementHasCarrier
<1> QED
  BY <1>1, <1>2, <1>3 DEF IInv

LEMMA LifeInv ==
    ASSUME IInv, Close \/ Crash \/ PowerLoss \/ Start
    PROVE  IInv'
<1>0. /\ file \in [MR -> Content] /\ unsynced \in [MR -> SUBSET Content] /\ used \in [DOMAIN Bound -> Nat]
      /\ \A n \in MR : file[n] \in unsynced[n]
  BY DEF IInv, TypeOK
<1>1. CASE Close
  BY <1>0, <1>1, EndInv DEF Close, store
<1>2. CASE Crash
  <2>1. used' \in [DOMAIN Bound -> Nat]
    BY <1>2, UseKeepsType DEF Crash, IInv
  <2> QED
    BY <1>0, <1>2, <2>1, EndInv DEF Crash, store
<1>3. CASE PowerLoss
  <2>1. used' \in [DOMAIN Bound -> Nat]
    BY <1>3, UseKeepsType DEF PowerLoss, IInv
  <2>2. /\ file' \in [MR -> Content] /\ unsynced' \in [MR -> SUBSET Content]
        /\ \A n \in MR : file'[n] \in unsynced'[n] /\ unsynced'[n] \subseteq unsynced[n]
    BY <1>0, <1>3 DEF PowerLoss
  <2> QED
    BY <1>3, <2>1, <2>2, EndInv DEF PowerLoss
<1>4. CASE Start
  BY <1>4 DEF Start, IInv, TypeOK, Generations, Progress, Retirable, Clears, Durable, Cold,
              RetirementHasCarrier, store, retry
<1> QED
  BY <1>1, <1>2, <1>3, <1>4

LEMMA NextInv == IInv /\ [Next]_vars => IInv'
<1> SUFFICES ASSUME IInv, [Next]_vars PROVE IInv'
  OBVIOUS
<1>1. ASSUME NEW m \in MR, NEW e \in Entry, Persist(m, e) PROVE IInv'
  BY <1>1, PersistInv
<1>2. ASSUME NEW m \in MR, Remove(m) PROVE IInv'
  BY <1>2, RemoveInv
<1>3. CASE Step
  BY <1>3, WriteInv, SyncInv, InvalidateInv, StatInv, UnlinkInv, ConfirmInv DEF Step
<1>4. CASE Retrier
  BY <1>4, RetrierTakeInv, RetrierWakesInv DEF Retrier
<1>5. CASE Load
  BY <1>5, LoadInv
<1>6. CASE StopRetirements \/ Close \/ Crash \/ PowerLoss \/ Start
  BY <1>6, StopInv, LifeInv
<1>7. CASE UNCHANGED vars
  BY <1>7 DEF vars, store, retry, life, IInv, TypeOK, Generations, Progress, Retirable, Clears, Durable, Cold,
              RetirementHasCarrier
<1> QED
  BY <1>1, <1>2, <1>3, <1>4, <1>5, <1>6, <1>7 DEF Next

-----------------------------------------------------------------------------
(* The theorems.                                                           *)

LEMMA InductiveInv == Spec => []IInv
<1> QED
  BY InitInv, NextInv, PTL DEF Spec

\* The journal's directory, map, channel and operations keep their types and bounds.
THEOREM JournalTypes == Spec => []TypeOK
<1>1. IInv => TypeOK
  BY DEF IInv
<1> QED
  BY <1>1, InductiveInv, PTL

\* While the worker runs no pending retirement is without a carrier, whatever else is
\* persisted, removed, retried or restarted: queueRetirementLocked bounds both places.
THEOREM RetirementsAreCarried == Spec => []RetirementHasCarrier
<1>1. IInv => RetirementHasCarrier
  BY DEF IInv
<1> QED
  BY <1>1, InductiveInv, PTL

-----------------------------------------------------------------------------
(* The refinement.                                                         *)

Call == IF op # None /\ op.kind \in {"persist", "remove"}
        THEN [m |-> op.m, v |-> IF op.kind = "persist" THEN op.v ELSE None, failed |-> op.faults]
        ELSE None
Entries == [m \in MR |-> IF file[m] = Tomb THEN None ELSE file[m]]
Up == phase # "down"

\* The register's next-state relation, written on the journal's state.
RegisterNext ==
    \/ /\ \E m \in MR, v \in Entry \cup {None} :
              /\ Call = None /\ Call' = [m |-> m, v |-> v, failed |-> 0]
              /\ kept' = [kept EXCEPT ![m] = IF v = None THEN Clearing ELSE Unsure]
       /\ Up /\ UNCHANGED <<Entries, Up>>
    \/ /\ Call # None /\ Entries' = [Entries EXCEPT ![Call.m] = Call.v]
       /\ UNCHANGED <<kept, Call, Up>>
    \/ /\ Call # None /\ Entries[Call.m] = Call.v /\ Call' = None
       /\ kept' = [kept EXCEPT ![Call.m] = Call.v] /\ UNCHANGED <<Entries, Up>>
    \/ /\ Call # None /\ Call' = [Call EXCEPT !.failed = @ + 1]
       /\ UNCHANGED <<Entries, kept, Up>>
    \/ /\ Call # None /\ Call.failed > 0 /\ Entries' = [Entries EXCEPT ![Call.m] = None]
       /\ UNCHANGED <<kept, Call, Up>>
    \/ /\ Call # None /\ Call.failed > 0 /\ (Entries[Call.m] = None \/ Call.failed > 1)
       /\ Call' = None /\ UNCHANGED <<Entries, kept, Up>>
    \/ /\ \E m \in MR : kept[m] = Clearing /\ Entries' = [Entries EXCEPT ![m] = None]
       /\ Up /\ Call = None /\ UNCHANGED <<kept, Call, Up>>
    \/ Up' = FALSE /\ Call' = None /\ UNCHANGED <<Entries, kept>>
    \/ /\ Up' = FALSE /\ Call' = None /\ Entries' \in [MR -> Entry \cup {None}] /\ UNCHANGED kept
       /\ \A m \in MR : kept[m] \notin Open => Entries'[m] = kept[m]
    \/ ~Up /\ Up' = TRUE /\ UNCHANGED <<Entries, kept, Call>>

LEMMA RegisterNextIs ==
    ASSUME RegisterNext
    PROVE  Register!Next
BY DEF RegisterNext, Register!Next, Register!Begin, Register!Effect, Register!Return, Register!Fault,
       Register!Undo, Register!Fail, Register!Retry, Register!ProcessEnds, Register!MachineEnds,
       Register!Start, Call, Entries, Up, Open

Same == UNCHANGED <<Entries, kept, Call, Up>>

LEMMA PutEntries ==
    ASSUME IInv, op # None, NEW c \in Content, Put(op.m, c)
    PROVE  Entries' = [Entries EXCEPT ![op.m] = Reads(c)]
BY PutStore DEF Entries, Reads

\* Files that read as cleared go on reading so.
LEMMA PutSame ==
    ASSUME IInv, op # None, NEW c \in Gone, Put(op.m, c), file[op.m] \in Gone
    PROVE  UNCHANGED Entries
BY PutStore, JournalAssumption DEF Entries, Gone, Content

LEMMA CallFacts ==
    ASSUME IInv, op # None
    PROVE  /\ op.kind \in Called => /\ Call # None /\ Call.m = op.m
                                    /\ Call.v = IF op.kind = "persist" THEN op.v ELSE None
                                    /\ Call.failed = op.faults
           /\ op.kind \notin Called => Call = None
<1>1. /\ op \in Operation /\ op.m \in MR /\ op.faults \in Nat
      /\ op.kind = "persist" => op.v \in Entry
  BY DEF IInv, TypeOK, Operation, Progress
<1> DEFINE c == [m |-> op.m, v |-> IF op.kind = "persist" THEN op.v ELSE None, failed |-> op.faults]
<1>2. c \in [m : MR, v : Entry \cup {None}, failed : Nat]
  BY <1>1
<1>3. c # None
  BY <1>2, NoneAssumption
<1> QED
  BY <1>3 DEF Call, Called

\* An operation that moves on, or fails, remains the same call.
LEMMA MoveCall ==
    ASSUME IInv, op # None, op' # None, op'.kind = op.kind, op'.m = op.m, op'.v = op.v,
           op'.faults = op.faults
    PROVE  Call' = Call
BY DEF Call

LEMMA OverCall ==
    ASSUME op' = None
    PROVE  Call' = None
BY DEF Call

LEMMA BeginStep ==
    ASSUME IInv, NEW m \in MR, Remove(m) \/ \E e \in Entry : Persist(m, e)
    PROVE  RegisterNext
<1>1. CASE Remove(m)
  <2>1. op = None /\ op' = [kind |-> "remove", m |-> m, v |-> Tomb, gen |-> nextRetirement',
                            at |-> "write", faults |-> 0]
    BY <1>1 DEF Remove, Retire
  <2>2. op' # None
    BY <1>1, RemoveInv, <2>1, NoneAssumption DEF IInv, TypeOK, Operation, Kind, At, Remove
  <2>3. Call = None /\ Call' = [m |-> m, v |-> None, failed |-> 0]
    BY <2>1, <2>2 DEF Call
  <2> QED
    BY <1>1, <2>3 DEF RegisterNext, Remove, Entries, Up, store, life
<1>2. ASSUME NEW e \in Entry, Persist(m, e)
      PROVE  RegisterNext
  <2>1. op = None /\ op' = [kind |-> "persist", m |-> m, v |-> e, gen |-> 0,
                            at |-> "write", faults |-> 0]
    BY <1>2 DEF Persist
  <2>2. op' # None
    BY <2>1, NoneAssumption DEF Operation, Kind, At
  <2>3. Call = None /\ Call' = [m |-> m, v |-> e, failed |-> 0] /\ e # None
    BY <2>1, <2>2, JournalAssumption DEF Call
  <2> QED
    BY <1>2, <2>3 DEF RegisterNext, Persist, Entries, Up, store, life
<1> QED
  BY <1>1, <1>2

\* A file system call that fails.
LEMMA FailToStep ==
    ASSUME IInv, op # None, NEW at \in At, FailTo(at)
    PROVE  RegisterNext \/ Same
<1>1. op' = [op EXCEPT !.at = at, !.faults = @ + 1] /\ op \in Operation
  BY DEF FailTo, IInv, TypeOK
<1>2. op' = [kind |-> op.kind, m |-> op.m, v |-> op.v, gen |-> op.gen, at |-> at,
             faults |-> op.faults + 1]
  BY <1>1 DEF Operation
<1>3. op' \in Operation /\ op' # None
  <2>1. op' \in Operation
    BY <1>1, <1>2 DEF Operation, At
  <2> QED
    BY <2>1, NoneAssumption
<1>4. UNCHANGED <<Entries, kept, Up>>
  BY DEF FailTo, Entries, Up, store, life
<1>5. CASE op.kind \in Called
  <2>1. Call = [m |-> op.m, v |-> IF op.kind = "persist" THEN op.v ELSE None, failed |-> op.faults]
    BY <1>5 DEF Call, Called
  <2>2. Call' = [m |-> op.m, v |-> IF op.kind = "persist" THEN op.v ELSE None,
                 failed |-> op.faults + 1]
    BY <1>2, <1>3, <1>5 DEF Call, Called
  <2>3. Call' = [Call EXCEPT !.failed = @ + 1]
    BY <2>1, <2>2
  <2>4. Call # None
    BY <1>5, CallFacts
  <2> QED
    BY <1>4, <2>3, <2>4 DEF RegisterNext
<1>6. CASE op.kind \notin Called
  <2>1. Call = None /\ Call' = None
    BY <1>2, <1>3, <1>6 DEF Call, Called
  <2> QED
    BY <1>4, <2>1 DEF Same
<1> QED
  BY <1>5, <1>6

\* A retry clears a file that is no entry, or one that its last call was to clear.
LEMMA PutRetried ==
    ASSUME IInv, op # None, op.kind \notin Called, NEW c \in Gone, Put(op.m, c),
           Call' = None, UNCHANGED <<kept, phase>>
    PROVE  RegisterNext \/ Same
<1>1. Call = None /\ op.m \in MR /\ op.kind # "persist" /\ Up
  BY CallFacts DEF IInv, TypeOK, Operation, Called, Cold, Up
<1>2. CASE file[op.m] \in Gone
  BY <1>1, <1>2, PutSame DEF Same, Up
<1>3. CASE kept[op.m] = Clearing
  <2>1. c \in Content /\ Reads(c) = None
    BY JournalAssumption DEF Gone, Content, Reads
  <2>2. Entries' = [Entries EXCEPT ![op.m] = None]
    BY <2>1, PutEntries
  <2> QED
    BY <1>1, <1>3, <2>2 DEF RegisterNext, Up
<1> QED
  BY <1>1, <1>2, <1>3 DEF IInv, Progress, Clears

LEMMA MoveToCall ==
    ASSUME IInv, op # None, NEW at \in At, MoveTo(at)
    PROVE  Call' = Call /\ UNCHANGED <<kept, phase, Up>>
<1>1. op' = [op EXCEPT !.at = at] /\ op \in Operation
  BY DEF MoveTo, IInv, TypeOK
<1>2. op' = [kind |-> op.kind, m |-> op.m, v |-> op.v, gen |-> op.gen, at |-> at,
             faults |-> op.faults]
  BY <1>1 DEF Operation
<1>3. op' \in Operation
  BY <1>1, <1>2 DEF Operation
<1> QED
  BY <1>2, <1>3, NoneAssumption, MoveCall DEF MoveTo, Up, life

LEMMA WriteStep ==
    ASSUME IInv, Write
    PROVE  RegisterNext \/ Same
<1>0. op # None /\ op \in Operation /\ op.v \in Content
  BY DEF Write, IInv, TypeOK, Operation, Content
<1>1. CASE Put(op.m, op.v) /\ MoveTo("sync")
  <2>1. Call' = Call /\ UNCHANGED <<kept, phase, Up>>
    BY <1>0, <1>1, MoveToCall DEF At
  <2>2. CASE op.kind \in Called
    <3>1. Call.v = Reads(op.v)
      BY <1>0, <2>2, CallFacts, JournalAssumption DEF IInv, TypeOK, Progress, Reads
    <3> QED
      BY <1>0, <1>1, <2>1, <2>2, <3>1, CallFacts, PutEntries DEF RegisterNext
  <2>3. CASE op.kind \notin Called
    <3>1. op.v \in Gone /\ Call' = None
      BY <1>0, <2>1, <2>3, CallFacts DEF IInv, TypeOK, Called, Gone
    <3> QED
      BY <1>0, <1>1, <2>1, <2>3, <3>1, PutRetried
  <2> QED
    BY <2>2, <2>3
<1>2. CASE FailTo("invalidate")
  BY <1>0, <1>2, FailToStep DEF At
<1> QED
  BY <1>1, <1>2 DEF Write

\* A call that returns has done what it promises.
LEMMA ReturnStep ==
    ASSUME IInv, op # None, op' = None, NEW v, Promise(v), UNCHANGED <<Entries, Up>>,
           op.kind \in Called => Call.v = v /\ Entries[op.m] = v
    PROVE  RegisterNext \/ Same
<1>1. CASE op.kind \in Called
  BY <1>1, CallFacts, OverCall DEF RegisterNext, Promise, Called
<1>2. CASE op.kind \notin Called
  BY <1>2, CallFacts, OverCall DEF Same, Promise, Called
<1> QED
  BY <1>1, <1>2

LEMMA SyncStep ==
    ASSUME IInv, Sync
    PROVE  RegisterNext \/ Same
<1>0. op # None /\ op \in Operation /\ op.m \in MR /\ file[op.m] = op.v
  BY DEF Sync, IInv, TypeOK, Operation, Progress
<1>1. CASE SyncDirectory /\ op.kind = "persist" /\ Done(TRUE) /\ Promise(op.v)
  <2>1. op.v \in Entry /\ op' = None /\ UNCHANGED <<Entries, Up>>
    BY <1>0, <1>1 DEF IInv, Progress, Done, SyncDirectory, Entries, Up, life
  <2>2. Call.v = op.v /\ Entries[op.m] = op.v
    BY <1>0, <1>1, <2>1, CallFacts, JournalAssumption DEF Called, Entries
  <2> QED
    BY <1>0, <1>1, <2>1, <2>2, ReturnStep
<1>2. CASE SyncDirectory /\ MoveTo("unlink")
  BY <1>0, <1>2, MoveToCall DEF At, Same, SyncDirectory, Entries
<1>3. CASE FailTo("invalidate")
  BY <1>0, <1>3, FailToStep DEF At
<1> QED
  BY <1>1, <1>2, <1>3 DEF Sync

LEMMA InvalidateStep ==
    ASSUME IInv, Invalidate
    PROVE  RegisterNext \/ Same
<1>0. op # None /\ op.at = "invalidate" /\ op.faults \in Nat /\ op.faults # 0
  BY DEF Invalidate, IInv, TypeOK, Progress, Operation
<1>1. CASE Put(op.m, None) /\ MoveTo("stat")
  <2>1. Call' = Call /\ UNCHANGED <<kept, phase, Up>>
    BY <1>0, <1>1, MoveToCall DEF At
  <2>2. CASE op.kind \in Called
    <3>1. Entries' = [Entries EXCEPT ![op.m] = None]
      BY <1>0, <1>1, PutEntries, JournalAssumption DEF Content, Reads
    <3>2. Call # None /\ Call.m = op.m /\ Call.failed > 0
      BY <1>0, <2>2, CallFacts
    <3> QED
      BY <2>1, <3>1, <3>2 DEF RegisterNext
  <2>3. CASE op.kind \notin Called
    <3>1. Call' = None
      BY <1>0, <2>1, <2>3, CallFacts
    <3>2. None \in Gone
      BY DEF Gone
    <3> QED
      BY <1>0, <1>1, <2>1, <2>3, <3>1, <3>2, PutRetried
  <2> QED
    BY <2>2, <2>3
<1>2. CASE FailTo("stat")
  BY <1>0, <1>2, FailToStep DEF At
<1> QED
  BY <1>1, <1>2 DEF Invalidate

\* A call that failed left nothing to resume, or failed twice.
LEMMA StatStep ==
    ASSUME IInv, Stat
    PROVE  RegisterNext \/ Same
<1>0. /\ op # None /\ op.m \in MR /\ op.faults \in Nat /\ op.faults # 0
      /\ file[op.m] = None \/ op.faults > 1
  BY DEF Stat, IInv, TypeOK, Progress, Operation
<1>1. op' = None /\ UNCHANGED <<Entries, kept, Up>>
  BY DEF Stat, Done, store, life, Entries, Up
<1>2. Call' = None
  BY <1>1, OverCall
<1>3. CASE op.kind \in Called
  <2>1. Call # None /\ Call.m = op.m /\ Call.failed = op.faults
    BY <1>0, <1>3, CallFacts
  <2>2. file[op.m] = None => Entries[op.m] = None
    BY <1>0 DEF Entries
  <2>3. Call.failed > 0 /\ (Entries[Call.m] = None \/ Call.failed > 1)
    BY <1>0, <2>1, <2>2
  <2> QED
    BY <1>1, <1>2, <2>1, <2>3 DEF RegisterNext
<1>4. CASE op.kind \notin Called
  BY <1>0, <1>1, <1>2, <1>4, CallFacts DEF Same
<1> QED
  BY <1>3, <1>4

LEMMA RetireStep ==
    ASSUME IInv, Unlink \/ Confirm
    PROVE  RegisterNext \/ Same
<1>0. /\ op # None /\ op \in Operation /\ op.m \in MR /\ op.at \in {"unlink", "confirm"}
      /\ op.kind # "persist" /\ file[op.m] \in Gone /\ op.at \in At
  BY DEF Unlink, Confirm, IInv, TypeOK, Operation, Progress
<1>1. CASE Put(op.m, None) /\ MoveTo("confirm")
  BY <1>0, <1>1, MoveToCall, PutSame DEF At, Same, Gone
<1>2. CASE op' = None /\ Promise(None) /\ UNCHANGED <<file, phase>>
  <2>1. UNCHANGED <<Entries, Up>> /\ Entries[op.m] = None
    BY <1>0, <1>2 DEF Entries, Up, Gone
  <2>2. op.kind \in Called => Call.v = None
    BY <1>0, CallFacts
  <2> QED
    BY <1>0, <1>2, <2>1, <2>2, ReturnStep
<1> QED
  BY <1>1, <1>2 DEF Unlink, Confirm, Done, store, life, SyncDirectory

\* The retries and the load are nobody's calls.
LEMMA SilentStep ==
    ASSUME IInv, Retrier \/ Load \/ StopRetirements \/ Start
    PROVE  RegisterNext \/ Same
<1>1. UNCHANGED <<file, kept>>
  BY DEF Retrier, RetrierTake, RetrierWakes, Load, Loaded, LoadFails, LoadEntry, LoadTombstone,
         StopRetirements, Start, store
<1>2. op' = op \/ (op = None /\ op'.kind \in {"retry", "load"})
  BY DEF Retrier, RetrierTake, RetrierWakes, Load, Loaded, LoadFails, LoadEntry, LoadTombstone,
         StopRetirements, Start, Retire
<1>3. Call' = Call /\ UNCHANGED <<Entries, kept>>
  BY <1>1, <1>2 DEF Call, Entries
<1>4. CASE Start
  BY <1>3, <1>4 DEF RegisterNext, Start, Up
<1>5. CASE Retrier \/ Load \/ StopRetirements
  <2>1. UNCHANGED Up
    BY <1>5 DEF Retrier, RetrierTake, RetrierWakes, Load, Loaded, LoadFails, LoadEntry, LoadTombstone,
           StopRetirements, life, Up
  <2> QED
    BY <1>3, <2>1 DEF Same
<1> QED
  BY <1>4, <1>5

LEMMA EndStep ==
    ASSUME IInv, Close \/ Crash \/ PowerLoss
    PROVE  RegisterNext
<1>1. Call' = None /\ UNCHANGED kept /\ Up' = FALSE
  BY OverCall DEF Close, Crash, PowerLoss, End, Up
<1>2. CASE Close \/ Crash
  BY <1>1, <1>2 DEF RegisterNext, Close, Crash, store, Entries
<1>3. CASE PowerLoss
  <2>1. file' \in [MR -> Content] /\ \A m \in MR : file'[m] \in unsynced[m]
    BY <1>3 DEF PowerLoss
  <2>2. Entries' \in [MR -> Entry \cup {None}]
    BY <2>1 DEF Entries, Content
  <2>3. \A m \in MR : kept[m] \notin Open => Entries'[m] = kept[m]
    BY <2>1 DEF IInv, Durable, Reads, Entries
  <2> QED
    BY <1>1, <2>2, <2>3 DEF RegisterNext
<1> QED
  BY <1>2, <1>3

LEMMA EveryStep ==
    ASSUME IInv, [Next]_vars
    PROVE  RegisterNext \/ Same
<1>1. CASE Step
  BY <1>1, WriteStep, SyncStep, InvalidateStep, StatStep, RetireStep DEF Step
<1>2. CASE UNCHANGED vars
  BY <1>2 DEF vars, store, life, Same, Entries, Call, Up
<1> QED
  BY <1>1, <1>2, BeginStep, SilentStep, EndStep DEF Next

\* The journal on disk, with its renames, directory syncs, tombstones and retries, is the
\* register the dispatcher relies on, for every number of merge requests, entries and
\* pending retirements, and any number of failed file system calls: a write that fails leaves
\* nothing to resume unless the removal of what was there fails too.
THEOREM JournalIsRegister == Spec => ImplementsRegister
<1>1. Init => Register!Init
  BY JournalAssumption DEF Init, Register!Init
<1>2. IInv /\ [Next]_vars => [Register!Next]_(Register!vars)
  <2> SUFFICES ASSUME IInv, [Next]_vars PROVE [Register!Next]_(Register!vars)
    OBVIOUS
  <2>1. CASE RegisterNext
    BY <2>1, RegisterNextIs
  <2>2. CASE Same
    BY <2>2 DEF Same, Register!vars, Entries, Call, Up
  <2> QED
    BY <2>1, <2>2, EveryStep
<1> QED
  BY <1>1, <1>2, InductiveInv, PTL DEF Spec, ImplementsRegister, Register!RegisterSpec
=============================================================================
