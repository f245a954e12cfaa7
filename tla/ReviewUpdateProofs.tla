--------------------------- MODULE ReviewUpdateProofs ---------------------------
(***************************************************************************)
(* A corrected review is read as one version or not at all, and each       *)
(* correction is published once: proved for any findings, processes, parts *)
(* and limits.  Whoever writes holds the lock of the merge request; while  *)
(* an activation has not committed, each thread is somewhere between what  *)
(* the current version and what the staged one says of it, and the next    *)
(* process that comes finds the transaction in the newest chunks.          *)
(***************************************************************************)
EXTENDS ReviewUpdate, TLAPS, FiniteSetTheorems, SequenceTheorems, WellFoundedInduction

-----------------------------------------------------------------------------
(* The notes of a thread and how far a transaction has come with them.     *)

Live(of) == {i \in 1..Len(notes) : notes[i].of = of /\ ~notes[i].next}

\* What the thread of a finding shows.
Shows(f, st) ==
    IF st = Absent THEN Live(f) = {}
    ELSE \E i \in Live(f) : Live(f) = {i} /\ st = [rev |-> notes[i].rev, state |-> notes[i].state]

\* An item of a transaction: not begun; a discussion more, the old one not yet redirected; done; or
\* (for an operation that was published before) a redirect that can never be written.
Untouched(f, item) ==
    \/ item.base = None /\ item.target = 0 /\ item.redirect = 0 /\ Live(f) = {}
    \/ \E i \in Live(f) : /\ Live(f) = {i} /\ notes[i] = item.base
                          /\ \/ item.target = i /\ item.redirect = 0
                             \/ item.target = 0 /\ item.redirect = i
Doubled(f, item) ==
    \E i, k \in Live(f) : /\ i # k /\ Live(f) = {i, k} /\ notes[i] = item.base /\ notes[k] = item.body
                          /\ item.target = 0 /\ item.redirect = i
Done(f, item) == \E i \in Live(f) : Live(f) = {i} /\ notes[i] = item.body
Stuck(f, item) ==
    /\ item.target = 0 /\ item.redirect \in Live(f)
    /\ \A i \in Live(f) : notes[i] = item.body
Halfway(f, item) == Untouched(f, item) \/ Doubled(f, item) \/ Done(f, item) \/ Stuck(f, item)

-----------------------------------------------------------------------------
(* Transactions.                                                           *)

\* What an item may be, whatever has become of the notes.
ItemFine(T, f, item) ==
    /\ item.body \in Note /\ item.body.of = f /\ ~item.body.next
    /\ item.body.rev = T.rev /\ item.body.mark = T.op
    /\ T.after.find[f] = [rev |-> T.rev, state |-> item.body.state]
    /\ item.base # item.body
    /\ item.base # None => item.base \in Note /\ item.base.of = f /\ ~item.base.next
    /\ item.base = None <=> (item.target = 0 /\ item.redirect = 0)
    /\ item.target \in Nat /\ item.redirect \in Nat /\ (item.target = 0 \/ item.redirect = 0)

RootFine(T) ==
    /\ Live(Root) = {T.root.target} /\ notes[T.root.target] = T.root.base
    /\ T.root.body \in Note /\ T.root.body.of = Root /\ ~T.root.body.next
    /\ T.root.body.rev = T.rev /\ T.root.body.mark = T.op

\* A transaction that leads from the current review to the next: what it says, and how far it is.
Leads(T) ==
    /\ T.op \in Op /\ T.after \in Version /\ T.seen \in Version
    /\ T.rev = Current.rev + 1 /\ T.after.rev = T.rev
    /\ DOMAIN T.items \subseteq Finding
    /\ \A f \in DOMAIN T.items : ItemFine(T, f, T.items[f])
    /\ \A f \in Finding \ DOMAIN T.items : T.after.find[f] = Current.find[f]
    /\ \A f \in Finding : T.after.find[f] # Current.find[f] => T.seen.find[f] = Current.find[f]
Fits(T) ==
    /\ Leads(T)
    /\ \A f \in DOMAIN T.items : Halfway(f, T.items[f])
    /\ \A f \in Finding \ DOMAIN T.items : Shows(f, Current.find[f])
    /\ RootFine(T)

\* The activation that has not committed, and the chunk that holds its transaction.
Pending == {r \in records : r.part = Parts /\ r.rev > RootRev}
Newest(r) == {c \in Chunk(r.op, r.rev, 0) : \A d \in Chunk(r.op, r.rev, 0) : d.id <= c.id}

Records ==
    /\ IsFiniteSet(records)
    /\ \A r \in records : r.id \in Nat /\ r.op \in Op /\ r.rev \in Nat /\ r.part \in 0..Parts
    /\ \A r, q \in records : r.id = q.id => r = q
Staged ==
    \A r \in Pending :
        /\ \A q \in records : q.id <= r.id
        /\ Complete(r.op, r.rev)
        /\ \E c \in Newest(r) : c.tx.op = r.op /\ c.tx.rev = r.rev /\ Fits(c.tx)
Review ==
    /\ notes \in Seq(Note) /\ versions \in Seq([op : Op \cup {None}, seen : Version, review : Version])
    /\ versions # <<>>
    /\ \A f \in Finding : Current.find[f].rev <= Current.rev
    /\ \E i \in Live(Root) : Live(Root) = {i} /\ notes[i].rev = Current.rev
    /\ Pending = {} => \A f \in Finding : Shows(f, Current.find[f])

-----------------------------------------------------------------------------
(* The processes.                                                          *)

Inside == {"recover", "check", "stage", "staged", "apply", "redirect", "clean"}
Decided(seen, before, change) ==
    /\ seen \in Version /\ before \in Version /\ change \in [Finding -> Change]
    /\ \A f \in Finding : change[f] # "none" => before.find[f] = seen.find[f]
ReqFine(p, req) ==
    req # None =>
        /\ req.op \in Op /\ req.op[1] = p /\ req.verdict \in Verdicts
        /\ Decided(req.seen, req.before, req.change)

\* A process at work has the lock; a re-review has it before and after, too.
Locks ==
    /\ \A c \in Chat : /\ (pub[c].pc \in Inside) <=> (lock = c)
                       /\ pub[c].pc \in Inside => pub[c].owner
    /\ \A p \in Rereview : /\ (lock = p) <=> (rereview[p].pc = "publishing")
                           /\ (pub[p].pc # "idle") <=> (rereview[p].pc = "publishing")
                           /\ ~pub[p].owner

\* What a process knows of the records and notes.
Chunked(tx, part) ==
    /\ \A i \in 0..(part - 1) : Chunk(tx.op, tx.rev, i) # {}
    /\ part > 0 => \E c \in Chunk(tx.op, tx.rev, 0) :
                       c.tx = tx /\ \A d \in Chunk(tx.op, tx.rev, 0) : d.id <= c.id
HasTx(tx) == \E r \in Pending : \E c \in Newest(r) : c.tx = tx
Knows(g) ==
    /\ g.pc = "stage" => Pending = {} /\ Fits(g.tx) /\ g.part \in 0..Parts /\ Chunked(g.tx, g.part)
    /\ g.pc \in {"staged", "apply", "redirect"} => HasTx(g.tx)
    /\ g.pc = "apply" =>
          /\ g.left \subseteq DOMAIN g.tx.items
          /\ \A f \in DOMAIN g.tx.items \ g.left : Done(f, g.tx.items[f])
    /\ g.pc = "redirect" =>
          /\ g.left \subseteq DOMAIN g.tx.items
          /\ g.moved \in DOMAIN g.tx.items \ g.left /\ g.tx.items[g.moved].redirect # 0
          /\ ~Untouched(g.moved, g.tx.items[g.moved])
          /\ \A f \in (DOMAIN g.tx.items \ g.left) \ {g.moved} : Done(f, g.tx.items[f])
    /\ g.pc = "clean" => g.tx.op \in Op /\ \A r \in Pending : r.op # g.tx.op

PubFine(p, g) ==
    /\ DOMAIN g = DOMAIN Idle
    /\ g.pc \in {"idle", "lock"} \cup Inside \cup Answer
    /\ g.left \subseteq Finding /\ g.ops \subseteq Op /\ g.owner \in BOOLEAN
    /\ ReqFine(p, g.req) /\ (g.pc = "check" => g.req # None)
Publishers ==
    /\ DOMAIN pub = Proc
    /\ \A p \in Proc : PubFine(p, pub[p]) /\ Knows(pub[p])
PlanFine(plan) ==
    /\ plan.verdict \in Verdicts \cap {"none", "visible"}
    /\ Decided(plan.before, plan.before, plan.change)
ChatFine(x) ==
    /\ DOMAIN x = DOMAIN Asked
    /\ x.pc \in {"idle", "waiting", "recovering", "evaluated", "publishing"}
    /\ x.run \in 0..RunLimit /\ (x.pc # "idle" => x.run > 0)
    /\ x.plan # None \/ x.pc = "evaluated" => PlanFine(x.plan)
Chats ==
    /\ DOMAIN chat = Chat
    /\ \A c \in Chat : /\ ChatFine(chat[c])
                       /\ chat[c].pc \in {"idle", "waiting", "evaluated"} => pub[c].pc = "idle"
RereviewFine(r) ==
    /\ DOMAIN r = DOMAIN Resting
    /\ r.pc \in {"idle", "reviewing", "publishing"}
    /\ r.run \in 0..RunLimit /\ r.attempt \in 0..MaxReconcileAttempts
    /\ r.pc # "publishing" => r.attempt = 0
    /\ r.pc # "idle" => r.run > 0 /\ r.verdict \in Verdicts /\ Decided(r.seen, r.before, r.change)
Rereviews ==
    /\ DOMAIN rereview = Rereview
    /\ \A p \in Rereview : RereviewFine(rereview[p])

IInv == Records /\ Staged /\ Review /\ Locks /\ Publishers /\ Chats /\ Rereviews
-----------------------------------------------------------------------------
(* Threads and records.                                                    *)

LEMMA Least ==
    ASSUME NEW S \in SUBSET Nat, S # {}
    PROVE  \E x \in S : \A y \in S : x <= y
<1> DEFINE R == OpToRel(<, Nat)
<1>1. IsWellFoundedOn(R, Nat)
  BY NatLessThanWellFounded
<1>2. \A x, y \in Nat : y < x => <<y, x>> \in R
  BY DEF OpToRel
<1> HIDE DEF R
<1>3. PICK x \in S : \A y \in S : ~ (<<y, x>> \in R)
  BY <1>1, WFMin
<1>4. ASSUME NEW y \in S PROVE x <= y
  <2>1. x \in Nat /\ y \in Nat
    OBVIOUS
  <2>2. ~ (y < x)
    BY <1>2, <1>3, <2>1
  <2> QED
    BY <2>1, <2>2
<1> QED
  BY <1>4

LEMMA TargetFacts ==
    ASSUME NEW f
    PROVE  /\ Live(f) = {} => Target(f) = 0
           /\ \A i \in Live(f) : Live(f) = {i} => Target(f) = i
<1>1. Target(f) = IF Live(f) = {} THEN 0 ELSE Highest(Live(f))
  BY DEF Target, Live
<1>2. ASSUME NEW i \in Live(f), Live(f) = {i} PROVE Highest({i}) = i
  <2>1. i \in Nat
    BY DEF Live
  <2> QED
    BY <2>1 DEF Highest
<1> QED
  BY <1>1, <1>2

LEMMA RootFacts ==
    ASSUME Review
    PROVE  /\ Live(Root) = {Target(Root)} /\ Target(Root) \in 1..Len(notes)
           /\ RootRev = Current.rev /\ Current.rev \in Nat /\ Current \in Version
<1>1. PICK i \in Live(Root) : Live(Root) = {i} /\ notes[i].rev = Current.rev
  BY DEF Review
<1>2. Target(Root) = i
  BY <1>1, TargetFacts
<1>3. i \in 1..Len(notes) /\ notes[i] \in Note
  BY DEF Live, Review
<1>4. Len(versions) \in 1..Len(versions)
  <2>1. Len(versions) \in Nat /\ Len(versions) # 0
    BY EmptySeq, LenProperties DEF Review
  <2> QED
    BY <2>1
<1>5. versions[Len(versions)] \in [op : Op \cup {None}, seen : Version, review : Version]
  BY <1>4, ElementOfSeq DEF Review
<1>6. Current \in Version
  BY <1>5 DEF Current
<1>7. Current.rev \in Nat
  BY <1>6 DEF Version
<1> QED
  BY <1>1, <1>2, <1>3, <1>6, <1>7 DEF RootRev

LEMMA ViewFacts ==
    ASSUME Review, View # None
    PROVE  Pending = {} /\ View = Current
<1>1. ~\E r \in records : r.part = Parts /\ r.rev > RootRev
  BY DEF View
<1>2. Pending = {}
  BY <1>1 DEF Pending
<1>3. \A f \in Finding : Shows(f, Current.find[f])
  BY <1>2 DEF Review
<1>4. ASSUME NEW f \in Finding
      PROVE  Current.find[f] = IF Target(f) # 0 THEN [rev |-> notes[Target(f)].rev, state |-> notes[Target(f)].state]
                               ELSE Absent
  <2>1. CASE Current.find[f] = Absent
    BY <1>3, <2>1, TargetFacts DEF Shows
  <2>2. CASE Current.find[f] # Absent
    <3>1. PICK i \in Live(f) : Live(f) = {i} /\ Current.find[f] = [rev |-> notes[i].rev, state |-> notes[i].state]
      BY <1>3, <2>2 DEF Shows
    <3>2. Target(f) = i /\ i # 0
      BY <3>1, TargetFacts DEF Live
    <3> QED
      BY <3>1, <3>2
  <2> QED
    BY <2>1, <2>2
<1> DEFINE found == {f \in Finding : Target(f) # 0}
           find == [f \in Finding |-> IF f \in found
                  THEN [rev |-> notes[Target(f)].rev, state |-> notes[Target(f)].state]
                  ELSE Absent]
<1>5. View = [rev |-> RootRev, find |-> find]
  BY <1>1 DEF View
<1>6. Current.find = find
  <2>1. Current.find \in [Finding -> FindingState]
    BY RootFacts DEF Version
  <2>2. \A f \in Finding : Current.find[f] = find[f]
    BY <1>4
  <2> QED
    BY <2>1, <2>2
<1>7. Current = [rev |-> RootRev, find |-> Current.find]
  BY RootFacts DEF Version
<1> QED
  BY <1>2, <1>5, <1>6, <1>7

\* A thread whose notes stay shows what it did.
SameThread(f) == Live(f)' = Live(f) /\ \A i \in Live(f) : notes'[i] = notes[i]

LEMMA ThreadStays ==
    ASSUME NEW f, SameThread(f)
    PROVE  /\ \A st : Shows(f, st)' = Shows(f, st)
           /\ \A item : /\ Untouched(f, item)' = Untouched(f, item)
                        /\ Done(f, item)' = Done(f, item)
                        /\ Halfway(f, item)' = Halfway(f, item)
<1>1. PICK L : L = Live(f)
  OBVIOUS
<1>2. Live(f)' = L /\ \A i \in L : notes'[i] = notes[i]
  BY <1>1 DEF SameThread
<1>3. \A st : Shows(f, st)' = Shows(f, st)
  BY <1>1, <1>2 DEF Shows
<1>4. ASSUME NEW item PROVE Untouched(f, item)' = Untouched(f, item)
  BY <1>1, <1>2 DEF Untouched
<1>5. ASSUME NEW item PROVE Done(f, item)' = Done(f, item)
  BY <1>1, <1>2 DEF Done
<1>6. ASSUME NEW item PROVE Doubled(f, item)' = Doubled(f, item)
  BY <1>1, <1>2 DEF Doubled
<1>7. ASSUME NEW item PROVE Stuck(f, item)' = Stuck(f, item)
  BY <1>1, <1>2 DEF Stuck
<1> QED
  BY <1>3, <1>4, <1>5, <1>6, <1>7 DEF Halfway

LEMMA ImageFinite ==
    ASSUME NEW f, IsFiniteSet(DOMAIN f)
    PROVE  IsFiniteSet({f[x] : x \in DOMAIN f})
<1> DEFINE S == {f[x] : x \in DOMAIN f}
           g == [x \in DOMAIN f |-> f[x]]
<1>1. g \in Surjection(DOMAIN f, S)
  BY DEF Surjection
<1> HIDE DEF S, g
<1>2. IsFiniteSet(S)
  BY <1>1, FS_Surjection
<1> QED
  BY <1>2 DEF S

LEMMA NewId ==
    ASSUME Records, NEW n, n = 1 + Cardinality(UNION {1..i : i \in Ids})
    PROVE  n \in Nat /\ \A r \in records : r.id < n
<1> DEFINE Up == UNION {1..i : i \in Ids}
<1>1. IsFiniteSet(Ids)
  <2> DEFINE id == [r \in records |-> r.id]
  <2>1. {id[r] : r \in DOMAIN id} = Ids /\ IsFiniteSet(DOMAIN id)
    BY DEF Ids, Records
  <2> HIDE DEF id
  <2> QED
    BY <2>1, ImageFinite
<1>2. IsFiniteSet({1..i : i \in Ids})
  <2> DEFINE up == [i \in Ids |-> 1..i]
  <2>1. {up[i] : i \in DOMAIN up} = {1..i : i \in Ids} /\ DOMAIN up = Ids
    OBVIOUS
  <2> HIDE DEF up
  <2> QED
    BY <1>1, <2>1, ImageFinite
<1>3. \A s \in {1..i : i \in Ids} : IsFiniteSet(s)
  BY FS_Interval DEF Ids, Records
<1>4. IsFiniteSet(Up)
  BY <1>2, <1>3, FS_UNION
<1>5. Cardinality(Up) \in Nat
  BY <1>4, FS_CardinalityType
<1>6. ASSUME NEW r \in records PROVE r.id <= Cardinality(Up)
  <2>1. r.id \in Nat /\ r.id \in Ids
    BY DEF Ids, Records
  <2>2. 1..r.id \subseteq Up
    BY <2>1
  <2>3. Cardinality(1..r.id) <= Cardinality(Up)
    BY <1>4, <2>2, FS_Subset
  <2>4. Cardinality(1..r.id) = r.id
    BY <2>1, FS_Interval
  <2> QED
    BY <2>3, <2>4
<1> QED
  <2>1. n = 1 + Cardinality(Up)
    OBVIOUS
  <2> HIDE DEF Up
  <2>2. \A r \in records : r.id \in Nat
    BY DEF Records
  <2> QED
    BY <1>5, <1>6, <2>1, <2>2

LEMMA LatestIs ==
    ASSUME Records, NEW S \in SUBSET records, NEW r \in S, \A q \in S : q.id <= r.id
    PROVE  Latest(S) = r
<1>1. \A q \in S : q.id \in Nat /\ (q.id = r.id => q = r)
  BY DEF Records
<1>2. \A s \in S : (\A q \in S : q.id <= s.id) => s = r
  BY <1>1
<1> QED
  BY <1>2 DEF Latest

LEMMA LatestThere ==
    ASSUME Records, NEW S \in SUBSET records, S # {}
    PROVE  Latest(S) \in S
<1>1. PICK n : n = 1 + Cardinality(UNION {1..i : i \in Ids})
  OBVIOUS
<1>2. n \in Nat /\ \A r \in S : r.id < n /\ r.id \in Nat
  BY <1>1, NewId DEF Records
<1> DEFINE Gaps == {n - r.id : r \in S}
<1>3. Gaps \in SUBSET Nat /\ Gaps # {}
  BY <1>2
<1>4. PICK x \in Gaps : \A y \in Gaps : x <= y
  BY <1>3, Least
<1>5. PICK r \in S : x = n - r.id
  BY <1>4
<1>6. ASSUME NEW q \in S PROVE q.id <= r.id
  <2>1. n - q.id \in Gaps
    OBVIOUS
  <2>2. n - r.id <= n - q.id
    BY <1>4, <1>5, <2>1
  <2> QED
    BY <1>2, <2>2
<1> QED
  BY <1>6, LatestIs

LEMMA PendingOne ==
    ASSUME Records, Staged, NEW r \in Pending
    PROVE  /\ r \in records /\ Pending = {r} /\ r.part = Parts
           /\ \E c \in records : /\ Newest(r) = {c} /\ Latest(Chunk(r.op, r.rev, 0)) = c
                                 /\ c.tx.op = r.op /\ c.tx.rev = r.rev /\ Fits(c.tx)
<1>1. r \in records /\ r.part = Parts
  BY DEF Pending
<1>2. ASSUME NEW q \in Pending PROVE q = r
  <2>1. q \in records /\ q.id <= r.id /\ r.id <= q.id
    BY <1>1 DEF Staged, Pending
  <2> QED
    BY <1>1, <2>1 DEF Records
<1>3. PICK c \in Newest(r) : c.tx.op = r.op /\ c.tx.rev = r.rev /\ Fits(c.tx)
  BY DEF Staged
<1>4. Chunk(r.op, r.rev, 0) \in SUBSET records
  BY DEF Chunk, OfOp
<1>5. Latest(Chunk(r.op, r.rev, 0)) = c
  BY <1>4, LatestIs DEF Newest
<1>6. ASSUME NEW d \in Newest(r) PROVE d = c
  <2>1. d.id <= c.id /\ c.id <= d.id /\ d \in records /\ c \in records
    BY <1>4 DEF Newest
  <2> QED
    BY <2>1 DEF Records
<1> QED
  BY <1>1, <1>2, <1>3, <1>4, <1>5, <1>6 DEF Newest

LEMMA UncommittedFacts ==
    ASSUME Records, Staged, NEW op
    PROVE  /\ Uncommitted(op) => Latest(Activations(op)) \in Pending
           /\ Uncommitted(op) => Latest(Activations(op)).op = op
           /\ \A r \in Pending : r.op = op => Uncommitted(op)
<1>1. Activations(op) \in SUBSET records /\ \A r \in Activations(op) : r.op = op /\ r.part = Parts
  BY DEF Activations, OfOp
<1>2. ASSUME Uncommitted(op) PROVE Latest(Activations(op)) \in Pending /\ Latest(Activations(op)).op = op
  <2>1. Latest(Activations(op)) \in Activations(op)
    BY <1>1, <1>2, LatestThere DEF Uncommitted
  <2> QED
    BY <1>1, <1>2, <2>1 DEF Uncommitted, Pending
<1>3. ASSUME NEW r \in Pending, r.op = op PROVE Uncommitted(op)
  <2>1. r \in Activations(op) /\ r.rev > RootRev
    BY <1>3 DEF Activations, OfOp, Pending
  <2>2. \A q \in Activations(op) : q.id <= r.id
    BY <1>1 DEF Staged
  <2>3. Latest(Activations(op)) = r
    BY <1>1, <2>1, <2>2, LatestIs
  <2> QED
    BY <2>1, <2>3 DEF Uncommitted
<1> QED
  BY <1>2, <1>3
-----------------------------------------------------------------------------
(* What a write does to the review.                                        *)

LEMMA RootStays ==
    ASSUME SameThread(Root), Review, versions' = versions
    PROVE  /\ \E i \in Live(Root)' : Live(Root)' = {i} /\ notes'[i].rev = Current'.rev
           /\ Target(Root)' = Target(Root) /\ RootRev' = RootRev /\ notes'[Target(Root)] = notes[Target(Root)]
<1>1. PICK t : t = Target(Root)
  OBVIOUS
<1>2. Live(Root) = {t} /\ RootRev = notes[t].rev /\ RootRev = Current.rev
  BY <1>1, RootFacts DEF RootRev
<1>3. Live(Root)' = {t} /\ notes'[t] = notes[t]
  BY <1>2 DEF SameThread
<1>4. Target(Root)' = t
  <2>1. t \in Nat /\ t # 0
    BY <1>2 DEF Live
  <2>2. Target(Root)' = Highest(Live(Root))'
    BY <1>3 DEF Target, Live
  <2>3. Highest(Live(Root))' = t
    BY <1>3, <2>1 DEF Highest
  <2> QED
    BY <2>2, <2>3
<1>5. Current' = Current
  BY DEF Current
<1> QED
  BY <1>1, <1>2, <1>3, <1>4, <1>5 DEF RootRev

LEMMA SameNotes ==
    ASSUME notes' = notes, versions' = versions
    PROVE  /\ \A f : SameThread(f)
           /\ Current' = Current /\ RootRev' = RootRev /\ \A f : Target(f)' = Target(f)
           /\ \A tx : Fits(tx)' = Fits(tx)
<1>1. \A f : SameThread(f)
  BY DEF SameThread, Live
<1>2. /\ \A f, st : Shows(f, st)' = Shows(f, st)
      /\ \A f, item : Halfway(f, item)' = Halfway(f, item)
  BY <1>1, ThreadStays
<1>3. Current' = Current /\ \A f : Target(f)' = Target(f)
  BY DEF Current, Target, Highest
<1>4. RootRev' = RootRev
  BY <1>3 DEF RootRev
<1>5. \A tx : RootFine(tx)' = RootFine(tx) /\ Leads(tx)' = Leads(tx)
  <2>1. Live(Root)' = Live(Root)
    BY <1>1 DEF SameThread
  <2> QED
    BY <1>3, <2>1 DEF RootFine, Leads, ItemFine
<1>6. \A tx : Fits(tx)' = Fits(tx)
  BY <1>2, <1>3, <1>5 DEF Fits
<1> QED
  BY <1>1, <1>3, <1>4, <1>6

LEMMA SameReview ==
    ASSUME UNCHANGED gitlab
    PROVE  /\ Records' = Records /\ Staged' = Staged /\ Review' = Review /\ View' = View
           /\ Pending' = Pending /\ \A g : Knows(g)' = Knows(g)
<1>0. notes' = notes /\ records' = records /\ versions' = versions
  BY DEF gitlab
<1>1. /\ \A f : SameThread(f)
      /\ Current' = Current /\ RootRev' = RootRev /\ \A f : Target(f)' = Target(f)
      /\ \A tx : Fits(tx)' = Fits(tx)
  BY <1>0, SameNotes
<1>2. /\ \A f, st : Shows(f, st)' = Shows(f, st)
      /\ \A f, item : Untouched(f, item)' = Untouched(f, item) /\ Done(f, item)' = Done(f, item)
  BY <1>1, ThreadStays
<1>3. /\ \A op, rev, i : Chunk(op, rev, i)' = Chunk(op, rev, i)
      /\ \A op, rev : Complete(op, rev)' = Complete(op, rev)
  BY <1>0 DEF Chunk, OfOp, Complete
<1>4. Pending' = Pending /\ \A r : Newest(r)' = Newest(r)
  BY <1>0, <1>1, <1>3 DEF Pending, Newest
<1>5. \A tx : HasTx(tx)' = HasTx(tx) /\ \A i : Chunked(tx, i)' = Chunked(tx, i)
  BY <1>3, <1>4 DEF HasTx, Chunked
<1>6. ASSUME NEW g PROVE Knows(g)' = Knows(g)
  BY <1>1, <1>2, <1>4, <1>5 DEF Knows
<1>7. Staged' = Staged
  BY <1>0, <1>1, <1>3, <1>4 DEF Staged
<1>8. Review' = Review
  <2>1. Live(Root)' = Live(Root)
    BY <1>1 DEF SameThread
  <2> QED
    BY <1>0, <1>1, <1>2, <1>4, <2>1 DEF Review
<1>9. View' = View
  BY <1>0, <1>1 DEF View
<1> QED
  BY <1>0, <1>4, <1>6, <1>7, <1>8, <1>9 DEF Records

\* The transaction of the pending activation.
LEMMA TheTx ==
    ASSUME Records, Staged, NEW tx, HasTx(tx)
    PROVE  /\ Fits(tx)
           /\ \A r \in Pending : /\ Pending = {r} /\ r.op = tx.op /\ r.rev = tx.rev
                                 /\ \A c \in Newest(r) : c.tx = tx
<1>1. PICK r \in Pending : \E c \in Newest(r) : c.tx = tx
  BY DEF HasTx
<1>2. PICK c \in records : /\ Newest(r) = {c} /\ c.tx.op = r.op /\ c.tx.rev = r.rev /\ Fits(c.tx)
  BY PendingOne
<1> QED
  BY <1>1, <1>2, PendingOne

\* A write of a pending transaction to the thread of one of its items.
LEMMA ThreadWritten ==
    ASSUME Records, Staged, Review, NEW tx, HasTx(tx), records' = records, versions' = versions,
           notes' \in Seq(Note), NEW f \in DOMAIN tx.items,
           \A g \in (Finding \cup {Root}) \ {f} : SameThread(g), Halfway(f, tx.items[f])'
    PROVE  Records' /\ Staged' /\ Review' /\ HasTx(tx)' /\ Pending' = Pending
<1>0. f \in Finding /\ f # Root
  BY TheTx, UpdateAssumption DEF Fits, Leads
<1>1. SameThread(Root)
  BY <1>0
<1>2. /\ Current' = Current /\ RootRev' = RootRev
      /\ \E i \in Live(Root)' : Live(Root)' = {i} /\ notes'[i].rev = Current'.rev
  BY <1>1, RootStays DEF Current
<1>3. /\ \A op, rev, i : Chunk(op, rev, i)' = Chunk(op, rev, i)
      /\ \A op, rev : Complete(op, rev)' = Complete(op, rev)
  BY DEF Chunk, OfOp, Complete
<1>4. Pending' = Pending /\ \A r : Newest(r)' = Newest(r)
  BY <1>2, <1>3 DEF Pending, Newest
<1>5. Fits(tx)'
  <2>0. Fits(tx)
    BY TheTx
  <2>1. Leads(tx)'
    BY <1>2, <2>0 DEF Fits, Leads, ItemFine
  <2>2. \A g \in DOMAIN tx.items : Halfway(g, tx.items[g])'
    <3>1. \A g \in DOMAIN tx.items \ {f} : SameThread(g)
      BY <2>0, <1>0 DEF Fits, Leads
    <3>2. \A g \in DOMAIN tx.items \ {f} : Halfway(g, tx.items[g])' = Halfway(g, tx.items[g])
      BY <3>1, ThreadStays
    <3> QED
      BY <2>0, <3>2 DEF Fits
  <2>3. \A g \in Finding \ DOMAIN tx.items : Shows(g, Current.find[g])'
    <3>1. \A g \in Finding \ DOMAIN tx.items : SameThread(g)
      BY <1>0
    <3>2. \A g \in Finding \ DOMAIN tx.items : \A st : Shows(g, st)' = Shows(g, st)
      BY <3>1, ThreadStays
    <3> QED
      BY <2>0, <3>2, <1>2 DEF Fits
  <2>4. RootFine(tx)'
    BY <1>1, <2>0 DEF Fits, RootFine, SameThread
  <2> QED
    BY <1>2, <2>1, <2>2, <2>3, <2>4 DEF Fits
<1>6. HasTx(tx)'
  BY <1>4 DEF HasTx
<1>7. Staged'
  <2> SUFFICES ASSUME NEW r \in Pending
               PROVE  /\ \A q \in records : q.id <= r.id
                      /\ Complete(r.op, r.rev)
                      /\ \E c \in Newest(r) : c.tx.op = r.op /\ c.tx.rev = r.rev /\ Fits(c.tx)'
    BY <1>3, <1>4 DEF Staged
  <2>1. PICK c \in Newest(r) : c.tx.op = r.op /\ c.tx.rev = r.rev
    BY DEF Staged
  <2>2. c.tx = tx
    BY TheTx
  <2> QED
    BY <1>5, <2>1, <2>2 DEF Staged
<1>8. Review'
  <2>1. Pending' # {}
    BY <1>4 DEF HasTx
  <2> QED
    BY <1>2, <2>1 DEF Review
<1> QED
  BY <1>4, <1>6, <1>7, <1>8 DEF Records
-----------------------------------------------------------------------------
(* Writing an item.                                                        *)

LEMMA Appended ==
    ASSUME notes \in Seq(Note), NEW n \in Note, ~n.next, notes' = Append(notes, n)
    PROVE  /\ notes' \in Seq(Note) /\ \A g : g # n.of => SameThread(g)
           /\ Live(n.of)' = Live(n.of) \cup {Len(notes) + 1} /\ notes'[Len(notes) + 1] = n
           /\ \A i \in 1..Len(notes) : notes'[i] = notes[i]
<1>1. /\ notes' \in Seq(Note) /\ Len(notes') = Len(notes) + 1 /\ notes'[Len(notes) + 1] = n
      /\ \A i \in 1..Len(notes) : notes'[i] = notes[i]
  BY AppendProperties
<1>2. Len(notes) \in Nat
  BY LenProperties
<1>3. 1..Len(notes') = (1..Len(notes)) \cup {Len(notes) + 1}
  BY <1>1, <1>2
<1>4. ASSUME NEW g, g # n.of PROVE SameThread(g)
  BY <1>1, <1>3, <1>4 DEF SameThread, Live
<1>5. Live(n.of)' = Live(n.of) \cup {Len(notes) + 1}
  BY <1>1, <1>3 DEF Live
<1> QED
  BY <1>1, <1>4, <1>5

Rewritten(i, n) == notes' = [notes EXCEPT ![i] = n]

LEMMA Edited ==
    ASSUME notes \in Seq(Note), NEW i \in 1..Len(notes), NEW n \in Note, NEW f,
           n.of = f, notes[i].of = f, Rewritten(i, n)
    PROVE  /\ notes' \in Seq(Note) /\ \A g : g # f => SameThread(g)
           /\ Live(f)' = IF n.next THEN Live(f) \ {i} ELSE Live(f) \cup {i}
           /\ notes'[i] = n /\ \A k \in 1..Len(notes) : k # i => notes'[k] = notes[k]
<1>1. notes' \in Seq(Note) /\ Len(notes') = Len(notes)
  BY ExceptSeq DEF Rewritten
<1>2. notes'[i] = n /\ \A k \in 1..Len(notes) : k # i => notes'[k] = notes[k]
  BY LenProperties DEF Rewritten
<1>3. ASSUME NEW g, g # f PROVE SameThread(g)
  BY <1>1, <1>2, <1>3 DEF SameThread, Live
<1>4. Live(f)' = IF n.next THEN Live(f) \ {i} ELSE Live(f) \cup {i}
  BY <1>1, <1>2 DEF Live
<1> QED
  BY <1>1, <1>2, <1>3, <1>4

LEMMA NoEdit ==
    ASSUME notes \in Seq(Note), NEW i, i \notin 1..Len(notes), NEW n, notes' = [notes EXCEPT ![i] = n]
    PROVE  notes' = notes
BY LenProperties

\* Whoever has begun with an item has not left it untouched.
LEMMA Begun ==
    ASSUME NEW T, NEW f, NEW item, ItemFine(T, f, item), Done(f, item) \/ Doubled(f, item) \/ Stuck(f, item)
    PROVE  ~Untouched(f, item)
<1>1. CASE Done(f, item)
  BY <1>1 DEF Done, Untouched, ItemFine
<1>2. CASE Doubled(f, item)
  BY <1>2 DEF Doubled, Untouched, ItemFine
<1>3. CASE Stuck(f, item)
  BY <1>3 DEF Stuck, Untouched, ItemFine
<1> QED
  BY <1>1, <1>2, <1>3

LEMMA MatchFacts ==
    ASSUME NEW item, NEW i, i = Match(item), item.target \in Nat
    PROVE  /\ item.target # 0 => i = item.target
           /\ item.target = 0 /\ i # 0 =>
                  i \in 1..Len(notes) /\ notes[i].mark = item.body.mark /\ notes[i].of = item.body.of
           /\ i = 0 => item.target = 0 /\ \A k \in 1..Len(notes) :
                  ~(notes[k].mark = item.body.mark /\ notes[k].of = item.body.of)
<1> DEFINE marked == {k \in 1..Len(notes) : notes[k].mark = item.body.mark /\ notes[k].of = item.body.of}
<1>1. CASE item.target # 0
  BY <1>1 DEF Match
<1>2. CASE item.target = 0 /\ marked = {}
  BY <1>2 DEF Match
<1>3. CASE item.target = 0 /\ marked # {}
  <2>1. marked \in SUBSET Nat
    OBVIOUS
  <2>2. \E x \in marked : \A y \in marked : x <= y
    BY <1>3, <2>1, Least
  <2>3. i = CHOOSE x \in marked : \A y \in marked : x <= y
    BY <1>3 DEF Match
  <2>4. i \in marked
    BY <2>2, <2>3
  <2>5. i # 0
    BY <2>4
  <2> QED
    BY <1>3, <2>4, <2>5
<1> QED
  BY <1>1, <1>2, <1>3

\* The write of an item: nothing is there yet, it is there, it is as it was.
LEMMA ItemAppended ==
    ASSUME NEW T, NEW f, NEW item, ItemFine(T, f, item), Halfway(f, item), notes \in Seq(Note),
           Match(item) = 0, notes' = Append(notes, item.body)
    PROVE  /\ notes' \in Seq(Note) /\ \A g : g # f => SameThread(g)
           /\ Halfway(f, item)' /\ ~Untouched(f, item)' /\ (item.redirect = 0 => Done(f, item)')
<1>1. /\ item.target = 0
      /\ \A k \in 1..Len(notes) : ~(notes[k].mark = item.body.mark /\ notes[k].of = item.body.of)
  BY MatchFacts DEF ItemFine
<1>2. \A k \in Live(f) : notes[k] # item.body
  BY <1>1 DEF Live
<1>3. Untouched(f, item)
  BY <1>2 DEF Halfway, Doubled, Done, Stuck
<1>4. /\ notes' \in Seq(Note) /\ \A g : g # f => SameThread(g)
      /\ Live(f)' = Live(f) \cup {Len(notes) + 1} /\ notes'[Len(notes) + 1] = item.body
      /\ \A i \in 1..Len(notes) : notes'[i] = notes[i]
  BY Appended DEF ItemFine
<1>5. CASE Live(f) = {}
  <2>1. Done(f, item)'
    BY <1>4, <1>5 DEF Done
  <2> QED
    BY <1>4, <2>1, Begun DEF Halfway, Untouched, Done, ItemFine
<1>6. CASE Live(f) # {}
  <2>1. PICK i \in Live(f) : Live(f) = {i} /\ notes[i] = item.base /\ item.redirect = i
    BY <1>1, <1>3, <1>6 DEF Untouched, Live
  <2>2. i \in 1..Len(notes) /\ Len(notes) \in Nat
    BY LenProperties DEF Live
  <2>3. PICK k : k = Len(notes) + 1
    OBVIOUS
  <2>4. i # k /\ Live(f)' = {i, k} /\ notes'[i] = item.base /\ notes'[k] = item.body /\ i # 0
    BY <1>4, <2>1, <2>2, <2>3
  <2>5. Doubled(f, item)'
    BY <1>1, <2>1, <2>4 DEF Doubled
  <2>6. ~Untouched(f, item)'
    BY <2>4 DEF Untouched
  <2> QED
    BY <1>4, <2>1, <2>4, <2>5, <2>6 DEF Halfway
<1> QED
  BY <1>5, <1>6

LEMMA ItemThere ==
    ASSUME NEW T, NEW f, NEW item, ItemFine(T, f, item), Halfway(f, item), notes \in Seq(Note),
           NEW i, i = Match(item), i # 0, notes[i] = item.body
    PROVE  ~Untouched(f, item) /\ (item.redirect = 0 => Done(f, item))
<1>1. /\ item.target # 0 => i = item.target
      /\ item.target = 0 => i \in 1..Len(notes)
  BY MatchFacts DEF ItemFine
<1>2. i \in 1..Len(notes) => i \in Live(f)
  BY DEF Live, ItemFine
<1>3. ~Untouched(f, item)
  <2>1. CASE i \in 1..Len(notes)
    BY <1>2, <2>1 DEF Untouched, ItemFine
  <2>2. CASE i \notin 1..Len(notes)
    BY <1>1, <2>2 DEF Untouched, Live, ItemFine
  <2> QED
    BY <2>1, <2>2
<1>4. ASSUME item.redirect = 0 PROVE Done(f, item)
  <2>1. 0 \notin Live(f)
    BY DEF Live
  <2> QED
    BY <1>3, <1>4, <2>1 DEF Halfway, Doubled, Stuck
<1> QED
  BY <1>3, <1>4

LEMMA ItemEdited ==
    ASSUME NEW T, NEW f, NEW item, ItemFine(T, f, item), Halfway(f, item), notes \in Seq(Note),
           NEW i, i = Match(item), i # 0, notes[i] = item.base, notes' = [notes EXCEPT ![i] = item.body]
    PROVE  /\ notes' \in Seq(Note) /\ \A g : g # f => SameThread(g)
           /\ Halfway(f, item)' /\ ~Untouched(f, item)' /\ (item.redirect = 0 => Done(f, item)')
<1>1. /\ item.target # 0 => i = item.target
      /\ item.target = 0 => i \in 1..Len(notes)
  BY MatchFacts DEF ItemFine
<1>2. CASE i \notin 1..Len(notes)
  <2>1. item.target # 0 /\ item.target = i /\ item.redirect = 0
    BY <1>1, <1>2 DEF ItemFine
  <2>2. i \notin Live(f)
    BY <1>2 DEF Live
  <2>3. Done(f, item)
    BY <2>1, <2>2 DEF Halfway, Untouched, Doubled, Stuck
  <2>4. notes' = notes
    BY <1>2, NoEdit
  <2>5. \A g : SameThread(g)
    BY <2>4 DEF SameThread, Live
  <2>6. Done(f, item)' /\ Halfway(f, item)' /\ Untouched(f, item)' = Untouched(f, item)
    BY <2>3, <2>5, ThreadStays DEF Halfway
  <2> QED
    BY <2>3, <2>4, <2>5, <2>6, Begun
<1>3. CASE i \in 1..Len(notes)
  <2>1. notes[i] \in Note
    BY <1>3, ElementOfSeq
  <2>2. item.base # None
    BY <2>1, NoneAssumption
  <2>3. item.base.of = f /\ ~item.base.next /\ i \in Live(f)
    BY <1>3, <2>2 DEF ItemFine, Live
  <2>4. /\ notes' \in Seq(Note) /\ \A g : g # f => SameThread(g)
        /\ Live(f)' = Live(f) /\ notes'[i] = item.body
        /\ \A k \in 1..Len(notes) : k # i => notes'[k] = notes[k]
    <3>1. item.body.of = f /\ ~item.body.next /\ item.body \in Note /\ notes[i].of = f
      BY <2>3 DEF ItemFine
    <3>2. PICK n \in Note : n = item.body
      BY <3>1
    <3>3. n.of = f /\ ~n.next /\ Rewritten(i, n)
      BY <3>1, <3>2 DEF Rewritten
    <3>4. /\ notes' \in Seq(Note) /\ \A g : g # f => SameThread(g)
          /\ Live(f)' = IF n.next THEN Live(f) \ {i} ELSE Live(f) \cup {i}
          /\ notes'[i] = n /\ \A k \in 1..Len(notes) : k # i => notes'[k] = notes[k]
      BY <1>3, <3>1, <3>3, Edited
    <3> QED
      BY <2>3, <3>2, <3>3, <3>4
  <2>5. ASSUME Live(f) = {i}
        PROVE  Done(f, item)' /\ ~Untouched(f, item)'
    <3>1. Live(f)' = {i} /\ notes'[i] = item.body
      BY <2>4, <2>5
    <3> QED
      BY <3>1 DEF Done, Untouched, ItemFine
  <2>6. CASE Untouched(f, item) \/ Done(f, item)
    BY <2>3, <2>4, <2>5, <2>6 DEF Untouched, Done, Halfway
  <2>7. CASE Doubled(f, item)
    <3>1. PICK a, k \in Live(f) : /\ a # k /\ Live(f) = {a, k} /\ notes[a] = item.base /\ notes[k] = item.body
                                  /\ item.target = 0 /\ item.redirect = a
      BY <2>7 DEF Doubled
    <3>2. i = a /\ k \in 1..Len(notes) /\ k # i
      BY <2>3, <3>1 DEF Live, ItemFine
    <3>3. notes'[k] = item.body /\ notes'[a] = item.body /\ Live(f)' = {a, k}
      BY <2>4, <3>1, <3>2
    <3>4. Stuck(f, item)'
      BY <3>1, <3>3 DEF Stuck
    <3>5. ~Untouched(f, item)'
      BY <3>1, <3>3 DEF Untouched
    <3>6. item.redirect # 0
      BY <1>3, <3>1, <3>2
    <3> QED
      BY <2>4, <3>4, <3>5, <3>6 DEF Halfway
  <2>8. CASE Stuck(f, item)
    BY <2>3, <2>8 DEF Stuck, ItemFine
  <2> QED
    BY <2>6, <2>7, <2>8 DEF Halfway
<1> QED
  BY <1>2, <1>3

\* The redirect of a thread that moved.
LEMMA RedirectFacts ==
    ASSUME NEW T, NEW f, NEW item, ItemFine(T, f, item), T.op \in Op, item.redirect # 0
    PROVE  /\ item.target = 0 /\ item.base \in Note /\ item.base.of = f /\ ~item.base.next
           /\ Redirected(item) \in Note /\ Redirected(item).of = f /\ Redirected(item).next
<1>1. item.target = 0 /\ item.base \in Note /\ item.base.of = f /\ ~item.base.next
  BY DEF ItemFine
<1>2. item.body.mark \in Op
  BY DEF ItemFine
<1> QED
  BY <1>1, <1>2 DEF Redirected, Note

LEMMA RedirectThere ==
    ASSUME NEW T, NEW f, NEW item, ItemFine(T, f, item), T.op \in Op, item.redirect # 0,
           Halfway(f, item), ~Untouched(f, item), notes[item.redirect] = Redirected(item)
    PROVE  Done(f, item)
BY RedirectFacts DEF Halfway, Doubled, Stuck, ItemFine

LEMMA RedirectEdited ==
    ASSUME NEW T, NEW f, NEW item, ItemFine(T, f, item), T.op \in Op, item.redirect # 0,
           Halfway(f, item), ~Untouched(f, item), notes \in Seq(Note), notes[item.redirect] = item.base,
           notes' = [notes EXCEPT ![item.redirect] = Redirected(item)]
    PROVE  notes' \in Seq(Note) /\ (\A g : g # f => SameThread(g)) /\ Done(f, item)'
<1>1. CASE item.redirect \notin 1..Len(notes)
  <2>1. notes' = notes /\ item.redirect \notin Live(f)
    BY <1>1, NoEdit DEF Live
  <2>2. Done(f, item)
    BY <2>1 DEF Halfway, Doubled, Stuck
  <2>3. \A g : SameThread(g)
    BY <2>1 DEF SameThread, Live
  <2> QED
    BY <2>1, <2>2, <2>3, ThreadStays
<1>2. CASE item.redirect \in 1..Len(notes)
  <2>1. item.redirect \in Live(f)
    BY <1>2, RedirectFacts DEF Live
  <2>2. /\ notes' \in Seq(Note) /\ \A g : g # f => SameThread(g)
        /\ Live(f)' = Live(f) \ {item.redirect}
        /\ \A k \in 1..Len(notes) : k # item.redirect => notes'[k] = notes[k]
    <3>1. /\ Redirected(item) \in Note /\ Redirected(item).of = f /\ Redirected(item).next
          /\ notes[item.redirect].of = f
      BY RedirectFacts
    <3>2. PICK n, i : n = Redirected(item) /\ i = item.redirect
      OBVIOUS
    <3>3. /\ n \in Note /\ n.of = f /\ n.next /\ Rewritten(i, n)
          /\ i \in 1..Len(notes) /\ notes[i].of = f
      BY <1>2, <3>1, <3>2 DEF Rewritten
    <3>4. /\ notes' \in Seq(Note) /\ \A g : g # f => SameThread(g)
          /\ Live(f)' = IF n.next THEN Live(f) \ {i} ELSE Live(f) \cup {i}
          /\ notes'[i] = n /\ \A k \in 1..Len(notes) : k # i => notes'[k] = notes[k]
      BY <3>3, Edited
    <3> QED
      BY <3>2, <3>3, <3>4
  <2>3. ~Done(f, item) /\ ~Stuck(f, item)
    BY <2>1 DEF Done, Stuck, ItemFine
  <2>4. PICK i, k \in Live(f) : /\ i # k /\ Live(f) = {i, k} /\ notes[k] = item.body /\ item.redirect = i
    BY <2>3 DEF Halfway, Doubled
  <2>5. Live(f)' = {k} /\ notes'[k] = item.body
    BY <2>2, <2>4 DEF Live
  <2> QED
    BY <2>2, <2>5 DEF Done
<1> QED
  BY <1>1, <1>2
-----------------------------------------------------------------------------
(* Staging, the commit, the cleanup.                                       *)

LEMMA Recorded ==
    ASSUME Records, Staged, Review, Pending = {}, NEW tx, Fits(tx), NEW part \in 0..Parts,
           Chunked(tx, part), Record(tx, part)
    PROVE  /\ Records' /\ Staged' /\ Review'
           /\ part # Parts => Pending' = {} /\ Fits(tx)' /\ Chunked(tx, part + 1)'
           /\ part = Parts => HasTx(tx)' /\ \A r \in Pending' : r.op = tx.op /\ \A c \in Newest(r)' : c.tx = tx
<1>1. PICK n : /\ records' = records \cup {n}
               /\ n.id = 1 + Cardinality(UNION {1..i : i \in Ids}) /\ n.op = tx.op /\ n.rev = tx.rev
               /\ n.part = part /\ (part # Parts => n.tx = tx)
  <2> DEFINE new == [id |-> 1 + Cardinality(UNION {1..i : i \in Ids}), op |-> tx.op, rev |-> tx.rev,
                     part |-> part, tx |-> IF part = Parts THEN None ELSE tx]
  <2>1. records' = records \cup {new}
    BY DEF Record
  <2>2. /\ new.id = 1 + Cardinality(UNION {1..i : i \in Ids}) /\ new.op = tx.op /\ new.rev = tx.rev
        /\ new.part = part /\ (part # Parts => new.tx = tx)
    OBVIOUS
  <2> HIDE DEF new
  <2> QED
    BY <2>1, <2>2
<1>2. n.id \in Nat /\ \A r \in records : r.id < n.id
  BY <1>1, NewId
<1>3. tx.op \in Op /\ tx.rev = RootRev + 1 /\ RootRev \in Nat
  BY RootFacts DEF Fits, Leads
<1>4. Records'
  <2>1. IsFiniteSet(records')
    BY <1>1, FS_AddElement DEF Records
  <2>2. ASSUME NEW r \in records'
        PROVE  r.id \in Nat /\ r.op \in Op /\ r.rev \in Nat /\ r.part \in 0..Parts
    BY <1>1, <1>2, <1>3 DEF Records
  <2>3. ASSUME NEW r \in records', NEW q \in records', r.id = q.id PROVE r = q
    BY <1>1, <1>2, <2>3 DEF Records
  <2> QED
    BY <2>1, <2>2, <2>3 DEF Records
<1>5. /\ notes' = notes /\ versions' = versions /\ RootRev' = RootRev /\ Current' = Current
      /\ \A f : SameThread(f) /\ \A T : Fits(T)' = Fits(T)
  BY SameNotes DEF Record
<1>6. /\ \A i : i # part => Chunk(tx.op, tx.rev, i)' = Chunk(tx.op, tx.rev, i)
      /\ Chunk(tx.op, tx.rev, part)' = Chunk(tx.op, tx.rev, part) \cup {n}
  BY <1>1 DEF Chunk, OfOp
<1>7. Pending' = IF part = Parts THEN {n} ELSE {}
  <2>1. Pending' = Pending \cup (IF part = Parts THEN {n} ELSE {})
    BY <1>1, <1>3, <1>5 DEF Pending
  <2> QED
    BY <2>1
<1>8. Parts \in Nat /\ Parts # 0 /\ part \in Nat
  BY UpdateAssumption
<1>9. Chunked(tx, part)' /\ (part # Parts => Chunked(tx, part + 1)')
  <2>1. \A i \in 0..part : Chunk(tx.op, tx.rev, i)' # {}
    BY <1>6, <1>8 DEF Chunked
  <2>2. CASE part = 0
    <3>1. n \in Chunk(tx.op, tx.rev, 0)' /\ n.tx = tx
      BY <1>1, <1>6, <1>8, <2>2
    <3>2. \A d \in Chunk(tx.op, tx.rev, 0)' : d.id <= n.id
      BY <1>2, <1>6, <2>2 DEF Chunk, OfOp, Records
    <3> QED
      BY <2>1, <2>2, <3>1, <3>2 DEF Chunked
  <2>3. CASE part # 0
    <3>1. Chunk(tx.op, tx.rev, 0)' = Chunk(tx.op, tx.rev, 0)
      BY <1>6, <2>3
    <3>2. part > 0 /\ part + 1 - 1 = part
      BY <1>8, <2>3
    <3>3. \A i \in 0..(part - 1) : Chunk(tx.op, tx.rev, i)' # {}
      BY <2>1, <1>8
    <3> QED
      BY <2>1, <3>1, <3>2, <3>3 DEF Chunked
  <2> QED
    BY <2>2, <2>3
<1>10. CASE part # Parts
  <2>1. Pending' = {}
    BY <1>7, <1>10
  <2>2. Staged'
    BY <2>1 DEF Staged
  <2>3. \A f, st : Shows(f, st)' = Shows(f, st)
    BY <1>5, ThreadStays
  <2>4. Live(Root)' = Live(Root)
    BY <1>5 DEF SameThread
  <2>5. Review'
    BY <1>5, <2>3, <2>4 DEF Review
  <2> QED
    BY <1>4, <1>5, <1>9, <1>10, <2>1, <2>2, <2>5
<1>11. CASE part = Parts
  <2>1. Pending' = {n}
    BY <1>7, <1>11
  <2>2. PICK c \in Chunk(tx.op, tx.rev, 0)' : c.tx = tx /\ \A d \in Chunk(tx.op, tx.rev, 0)' : d.id <= c.id
    BY <1>8, <1>9, <1>11 DEF Chunked
  <2>3. c \in Newest(n)'
    BY <1>1, <2>2 DEF Newest
  <2>4. Complete(n.op, n.rev)'
    BY <1>1, <1>9, <1>11 DEF Complete, Chunked
  <2>5. \A q \in records' : q.id <= n.id
    BY <1>1, <1>2 DEF Records
  <2>6. Staged'
    BY <1>1, <1>5, <2>1, <2>2, <2>3, <2>4, <2>5 DEF Staged
  <2>7. HasTx(tx)'
    BY <2>1, <2>2, <2>3 DEF HasTx
  <2>8. Live(Root)' = Live(Root)
    BY <1>5 DEF SameThread
  <2>9. Review'
    BY <1>5, <2>1, <2>8 DEF Review
  <2>10. ASSUME NEW r \in Pending', NEW d \in Newest(r)' PROVE r.op = tx.op /\ d.tx = tx
    <3>1. r = n /\ d \in records' /\ c \in records' /\ d.id <= c.id /\ c.id <= d.id
      BY <2>1, <2>3 DEF Newest, Chunk, OfOp
    <3>2. d.id \in Nat /\ c.id \in Nat
      BY <1>4, <3>1 DEF Records
    <3>3. d = c
      BY <1>4, <3>1, <3>2 DEF Records
    <3> QED
      BY <1>1, <2>2, <3>1, <3>3
  <2>11. \A r \in Pending' : r.op = tx.op
    BY <1>1, <2>1
  <2> QED
    BY <1>4, <1>11, <2>6, <2>7, <2>9, <2>10, <2>11
<1> QED
  BY <1>10, <1>11

Commits(tx) ==
    /\ notes' = [notes EXCEPT ![tx.root.target] = tx.root.body]
    /\ versions' = Append(versions, [op |-> tx.op, seen |-> tx.seen, review |-> tx.after])
    /\ records' = records

LEMMA RootWritten ==
    ASSUME Records, Staged, Review, NEW tx, HasTx(tx), \A f \in DOMAIN tx.items : Done(f, tx.items[f]),
           Commits(tx)
    PROVE  /\ Records' /\ Staged' /\ Review' /\ Pending' = {}
           /\ Target(Root)' = Target(Root) /\ Target(Root) = tx.root.target
           /\ notes'[Target(Root)] = tx.root.body /\ Len(versions') = Len(versions) + 1
           /\ versions'[Len(versions) + 1] = [op |-> tx.op, seen |-> tx.seen, review |-> tx.after]
           /\ \A i \in 1..Len(versions) : versions'[i] = versions[i]
<1>1. Fits(tx)
  BY TheTx
<1>2. PICK t : t = tx.root.target
  OBVIOUS
<1>3. Live(Root) = {t} /\ t \in 1..Len(notes) /\ notes[t].of = Root
  BY <1>1, <1>2 DEF Fits, RootFine, Live
<1>4. PICK n \in Note : n = tx.root.body
  BY <1>1 DEF Fits, RootFine
<1>5. n.of = Root /\ ~n.next /\ n.rev = tx.rev /\ tx.rev = Current.rev + 1 /\ tx.after.rev = tx.rev
  BY <1>1, <1>4 DEF Fits, RootFine, Leads
<1>6. Rewritten(t, n)
  BY <1>2, <1>4 DEF Rewritten, Commits
<1>7. /\ notes' \in Seq(Note) /\ \A g : g # Root => SameThread(g)
      /\ Live(Root)' = Live(Root) \cup {t} /\ notes'[t] = n
  BY <1>3, <1>5, <1>6, Edited DEF Review
<1>8. PICK v : v = [op |-> tx.op, seen |-> tx.seen, review |-> tx.after]
  OBVIOUS
<1>9. v \in [op : Op \cup {None}, seen : Version, review : Version]
  BY <1>1, <1>8 DEF Fits, Leads
<1>10. PICK l \in Nat : l = Len(versions)
  BY LenProperties DEF Review
<1>11. /\ versions' \in Seq([op : Op \cup {None}, seen : Version, review : Version])
       /\ versions' # <<>> /\ Len(versions') = l + 1 /\ versions'[l + 1] = v
       /\ \A i \in 1..l : versions'[i] = versions[i]
  <2>1. versions' = Append(versions, v)
    BY <1>8 DEF Commits
  <2> QED
    BY <1>9, <1>10, <2>1, AppendProperties DEF Review
<1>12. Current' = tx.after
  BY <1>8, <1>11 DEF Current
<1>13. Target(Root)' = t /\ Target(Root) = t
  <2>1. Live(Root)' = {t} /\ t \in Nat
    BY <1>3, <1>7
  <2>2. Target(Root)' = Highest(Live(Root))'
    BY <2>1 DEF Target, Live
  <2>3. Highest(Live(Root))' = t
    BY <2>1 DEF Highest
  <2> QED
    BY <1>3, <2>2, <2>3, TargetFacts
<1>14. RootRev' = tx.rev
  BY <1>5, <1>7, <1>13 DEF RootRev
<1>15. Pending' = {}
  <2> SUFFICES ASSUME NEW r \in records, r.part = Parts, r.rev > tx.rev PROVE FALSE
    BY <1>14 DEF Pending, Commits
  <2>1. RootRev = Current.rev /\ Current.rev \in Nat /\ r.rev \in Nat
    BY RootFacts DEF Records
  <2>2. r \in Pending
    BY <1>5, <2>1 DEF Pending
  <2>3. r.rev = tx.rev
    BY <2>2, TheTx
  <2> QED
    BY <2>1, <2>3
<1>16. Records' /\ Staged'
  BY <1>15 DEF Records, Staged, Commits
<1>17. ASSUME NEW f \in Finding PROVE tx.after.find[f].rev <= tx.after.rev /\ Shows(f, tx.after.find[f])'
  <2>0. f # Root
    BY UpdateAssumption
  <2>1. SameThread(f) /\ Current.rev \in Nat
    BY <1>7, <2>0, RootFacts
  <2>2. CASE f \in DOMAIN tx.items
    <3>1. PICK item : item = tx.items[f]
      OBVIOUS
    <3>2. Done(f, item)' /\ ItemFine(tx, f, item)
      BY <1>1, <2>1, <2>2, <3>1, ThreadStays DEF Fits, Leads
    <3>3. PICK i \in Live(f)' : Live(f)' = {i} /\ notes'[i] = item.body
      BY <3>2 DEF Done
    <3>4. tx.after.find[f] = [rev |-> notes'[i].rev, state |-> notes'[i].state]
      BY <3>2, <3>3 DEF ItemFine
    <3>5. tx.after.find[f].rev = tx.rev /\ tx.rev # 0
      BY <1>5, <2>1, <3>2 DEF ItemFine
    <3>6. tx.after.find[f] # Absent
      BY <3>5 DEF Absent
    <3>7. Shows(f, tx.after.find[f])'
      BY <3>3, <3>4, <3>6 DEF Shows
    <3> QED
      BY <1>5, <2>1, <3>5, <3>7
  <2>3. CASE f \notin DOMAIN tx.items
    <3>1. tx.after.find[f] = Current.find[f] /\ Shows(f, Current.find[f])
      BY <1>1, <2>3 DEF Fits, Leads
    <3>2. Shows(f, Current.find[f])'
      <4>1. PICK st : st = Current.find[f]
        OBVIOUS
      <4>2. Shows(f, st)'
        BY <2>1, <3>1, <4>1, ThreadStays
      <4> QED
        BY <1>12, <3>1, <4>1, <4>2 DEF Shows
    <3>3. Current.find[f].rev <= Current.rev /\ Current.find[f].rev \in Nat
      BY RootFacts DEF Review, Version, FindingState
    <3>4. Shows(f, tx.after.find[f])'
      BY <2>1, <3>1, ThreadStays
    <3> QED
      BY <1>5, <2>1, <3>1, <3>3, <3>4
  <2> QED
    BY <2>2, <2>3
<1>18. Review'
  <2>1. \E i \in Live(Root)' : Live(Root)' = {i} /\ notes'[i].rev = Current'.rev
    BY <1>3, <1>5, <1>7, <1>12
  <2>2. \A f \in Finding : Shows(f, Current.find[f])'
    BY <1>12, <1>17 DEF Shows
  <2> QED
    BY <1>7, <1>11, <1>12, <1>17, <2>1, <2>2 DEF Review
<1> QED
  BY <1>2, <1>4, <1>7, <1>8, <1>10, <1>11, <1>13, <1>15, <1>16, <1>18

LEMMA Cleaned ==
    ASSUME Records, Staged, Review, NEW op, \A r \in Pending : r.op # op,
           records' \subseteq records, \A r \in records : r.op # op => r \in records',
           notes' = notes, versions' = versions
    PROVE  /\ Records' /\ Staged' /\ Review' /\ Pending' = Pending
           /\ \A r \in Pending : Newest(r)' = Newest(r)
<1>1. /\ RootRev' = RootRev /\ Current' = Current
      /\ \A f : SameThread(f) /\ \A T : Fits(T)' = Fits(T)
  BY SameNotes
<1>2. Records'
  <2>1. IsFiniteSet(records')
    BY FS_Subset DEF Records
  <2> QED
    BY <2>1 DEF Records
<1>3. Pending' = Pending
  BY <1>1 DEF Pending
<1>4. \A o, rev, i : o # op => Chunk(o, rev, i)' = Chunk(o, rev, i)
  BY DEF Chunk, OfOp
<1>5. ASSUME NEW r \in Pending
      PROVE  Newest(r)' = Newest(r) /\ Complete(r.op, r.rev)' = Complete(r.op, r.rev)
  <2>1. \A rev, i : Chunk(r.op, rev, i)' = Chunk(r.op, rev, i)
    BY <1>4
  <2> QED
    BY <2>1 DEF Newest, Complete
<1>6. Staged'
  <2> SUFFICES ASSUME NEW r \in Pending
               PROVE  /\ \A q \in records' : q.id <= r.id
                      /\ Complete(r.op, r.rev)'
                      /\ \E c \in Newest(r)' : c.tx.op = r.op /\ c.tx.rev = r.rev /\ Fits(c.tx)'
    BY <1>3 DEF Staged
  <2> QED
    BY <1>1, <1>5 DEF Staged
<1>7. Review'
  <2>1. \A f, st : Shows(f, st)' = Shows(f, st)
    BY <1>1, ThreadStays
  <2>2. Live(Root)' = Live(Root)
    BY <1>1 DEF SameThread
  <2> QED
    BY <1>1, <1>3, <2>1, <2>2 DEF Review
<1> QED
  BY <1>2, <1>3, <1>5, <1>6, <1>7
-----------------------------------------------------------------------------
(* The steps of the process that has the lock.                             *)

PubStep(p, g) == DOMAIN pub' = Proc /\ pub'[p] = g /\ \A q \in Proc \ {p} : pub'[q] = pub[q]

LEMMA Alone ==
    ASSUME Locks, NEW p \in Proc, pub[p].pc \in Inside
    PROVE  lock = p /\ \A q \in Proc \ {p} : pub[q].pc \notin Inside
<1>1. \A q \in Proc : pub[q].pc \in Inside => lock = q
  <2> SUFFICES ASSUME NEW q \in Proc, pub[q].pc \in Inside PROVE lock = q
    OBVIOUS
  <2>1. CASE q \in Chat
    BY <2>1 DEF Locks
  <2>2. CASE q \in Rereview
    BY <2>2 DEF Locks, Inside
  <2> QED
    BY <2>1, <2>2 DEF Proc
<1> QED
  BY <1>1

LEMMA OutsideKnows ==
    ASSUME NEW g, g.pc \notin Inside
    PROVE  Knows(g) /\ Knows(g)'
BY DEF Knows, Inside

LEMMA OthersKnow ==
    ASSUME IInv, NEW p \in Proc, NEW g, PubStep(p, g), PubFine(p, g), Knows(g)',
           pub[p].pc \in Inside \/ UNCHANGED gitlab
    PROVE  Publishers'
<1> SUFFICES ASSUME NEW q \in Proc PROVE PubFine(q, pub'[q]) /\ Knows(pub[q])'
  BY DEF Publishers, PubStep, PubFine, ReqFine
<1>1. CASE q = p
  BY <1>1 DEF PubStep, Knows
<1>2. CASE q # p
  <2>1. PICK k : k = pub[q]
    OBVIOUS
  <2>2. pub'[q] = k
    BY <1>2, <2>1 DEF PubStep
  <2>3. PubFine(q, k) /\ Knows(k)
    BY <2>1 DEF IInv, Publishers
  <2>4. Knows(k)'
    <3>1. CASE UNCHANGED gitlab
      BY <2>3, <3>1, SameReview
    <3>2. CASE pub[p].pc \in Inside
      BY <1>2, <2>1, <3>2, Alone, OutsideKnows DEF IInv
    <3> QED
      BY <3>1, <3>2
  <2> QED
    BY <2>2, <2>3, <2>4 DEF Knows
<1> QED
  BY <1>1, <1>2

\* It goes on.
LEMMA Onward ==
    ASSUME IInv, Records', Staged', Review', NEW p \in Proc, NEW g, PubStep(p, g), PubFine(p, g),
           Knows(g)', pub[p].pc \in Inside, g.pc \in Inside, g.owner = pub[p].owner,
           UNCHANGED <<lock, chat, rereview>>
    PROVE  IInv'
<1>1. Publishers'
  BY OthersKnow
<1>2. p \in Chat => p \notin Rereview
  BY UpdateAssumption
<1>3. Locks'
  <2>1. ASSUME NEW c \in Chat
        PROVE  (pub'[c].pc \in Inside <=> lock' = c) /\ (pub'[c].pc \in Inside => pub'[c].owner)
    BY DEF IInv, Locks, PubStep, Proc
  <2>2. ASSUME NEW q \in Rereview
        PROVE  /\ (lock' = q) <=> (rereview'[q].pc = "publishing")
               /\ (pub'[q].pc # "idle") <=> (rereview'[q].pc = "publishing")
               /\ ~pub'[q].owner
    BY DEF IInv, Locks, PubStep, Proc, Inside
  <2> QED
    BY <2>1, <2>2 DEF Locks
<1>4. Chats'
  <2>1. ASSUME NEW c \in Chat, chat[c].pc \in {"idle", "waiting", "evaluated"} PROVE pub'[c].pc = "idle"
    BY <2>1 DEF IInv, Chats, PubStep, Proc, Inside
  <2> QED
    BY <2>1 DEF IInv, Chats, Decided
<1>5. Rereviews'
  BY DEF IInv, Rereviews, Decided
<1> QED
  BY <1>1, <1>3, <1>4, <1>5 DEF IInv

\* It is done, or fails.
LEMMA ReturnFacts ==
    ASSUME Publishers, NEW p \in Proc, NEW a \in Answer, Return(p, a)
    PROVE  /\ PubStep(p, [Idle EXCEPT !.pc = a]) /\ lock' = IF pub[p].owner THEN None ELSE lock
           /\ PubFine(p, [Idle EXCEPT !.pc = a])
<1>1. PubStep(p, [Idle EXCEPT !.pc = a])
  BY DEF PubStep, Return, Publishers
<1>2. PubFine(p, [Idle EXCEPT !.pc = a])
  BY DEF PubFine, Idle, ReqFine, Answer
<1> QED
  BY <1>1, <1>2 DEF Return

LEMMA Returns ==
    ASSUME IInv, Records', Staged', Review', NEW p \in Proc, NEW a \in Answer, Return(p, a),
           pub[p].pc \in Inside, UNCHANGED <<chat, rereview>>
    PROVE  IInv'
<1>1. PICK g : g = [Idle EXCEPT !.pc = a]
  OBVIOUS
<1>2. PubStep(p, g) /\ PubFine(p, g) /\ lock' = (IF pub[p].owner THEN None ELSE lock)
  BY <1>1, ReturnFacts DEF IInv
<1>3. g.pc = a /\ ~g.owner /\ a \notin Inside /\ a # "idle"
  BY <1>1 DEF Idle, Answer, Inside
<1>4. Publishers'
  BY <1>2, <1>3, OutsideKnows, OthersKnow
<1>5. lock = p /\ \A q \in Proc \ {p} : pub[q].pc \notin Inside
  BY Alone DEF IInv
<1>6. Locks'
  <2>1. CASE p \in Chat
    <3>1. lock' = None /\ p \notin Rereview
      BY <1>2, <2>1, UpdateAssumption DEF IInv, Locks
    <3>2. \A c \in Chat : lock' # c /\ pub'[c].pc \notin Inside
      BY <1>2, <1>3, <1>5, <3>1, UpdateAssumption DEF PubStep, Proc
    <3>3. \A q \in Rereview : /\ pub'[q] = pub[q] /\ lock # q /\ lock' # q
      BY <1>2, <1>5, <3>1, UpdateAssumption DEF PubStep, Proc
    <3> QED
      BY <3>2, <3>3 DEF IInv, Locks
  <2>2. CASE p \in Rereview
    <3>1. lock' = lock /\ p \notin Chat
      BY <1>2, <2>2, UpdateAssumption DEF IInv, Locks
    <3>2. \A c \in Chat : lock' # c /\ pub'[c].pc \notin Inside
      BY <1>2, <1>5, <3>1 DEF PubStep, Proc
    <3>3. ASSUME NEW q \in Rereview
          PROVE  ((pub'[q].pc # "idle") <=> (pub[q].pc # "idle")) /\ ~pub'[q].owner
      <4>1. CASE q = p
        <5>1. pub[p].pc # "idle" /\ pub'[p] = g
          BY <1>2 DEF PubStep, Inside
        <5> QED
          BY <1>3, <4>1, <5>1
      <4>2. CASE q # p
        BY <1>2, <4>2 DEF PubStep, Proc, IInv, Locks
      <4> QED
        BY <4>1, <4>2
    <3> QED
      BY <3>1, <3>2, <3>3 DEF IInv, Locks
  <2> QED
    BY <2>1, <2>2 DEF Proc
<1>7. Chats'
  <2>1. ASSUME NEW c \in Chat, chat[c].pc \in {"idle", "waiting", "evaluated"} PROVE pub'[c].pc = "idle"
    BY <1>2, <2>1 DEF IInv, Chats, PubStep, Proc, Inside
  <2> QED
    BY <2>1 DEF IInv, Chats, Decided
<1>8. Rereviews'
  BY DEF IInv, Rereviews, Decided
<1> QED
  BY <1>4, <1>6, <1>7, <1>8 DEF IInv
-----------------------------------------------------------------------------
(* The lock and the recovery.                                              *)

LEMMA PubFacts ==
    ASSUME IInv, NEW p \in Proc
    PROVE  /\ PubFine(p, pub[p]) /\ Knows(pub[p])
           /\ DOMAIN pub[p] = {"pc", "req", "ops", "tx", "part", "left", "moved", "owner"}
BY DEF IInv, Publishers, PubFine, Idle

LEMMA LockMRInv ==
    ASSUME IInv, NEW p \in Proc, LockMR(p), UNCHANGED <<chat, rereview>>
    PROVE  IInv'
<1>1. PICK g : g = pub'[p]
  OBVIOUS
<1>2. PubStep(p, g)
  BY <1>1 DEF LockMR, PubStep, IInv, Publishers
<1>3. /\ g.pc = "recover" /\ g.owner = (lock = None) /\ g.ops = {r.op : r \in records}
      /\ g.req = pub[p].req /\ g.left = pub[p].left /\ DOMAIN g = DOMAIN pub[p]
      /\ lock' = p /\ lock \in {None, p} /\ pub[p].pc = "lock"
  BY <1>1, PubFacts DEF LockMR, IInv, Publishers
<1>4. UNCHANGED gitlab
  BY DEF LockMR
<1>5. PubFine(p, g)
  BY <1>3, PubFacts DEF PubFine, IInv, Records, Inside
<1>6. Knows(g)'
  BY <1>3 DEF Knows
<1>7. Publishers'
  BY <1>2, <1>4, <1>5, <1>6, OthersKnow
<1>8. Locks'
  <2>1. ASSUME NEW c \in Chat
        PROVE  (pub'[c].pc \in Inside <=> lock' = c) /\ (pub'[c].pc \in Inside => pub'[c].owner)
    <3>1. CASE c = p
      <4>1. lock = None
        BY <1>3, <3>1 DEF IInv, Locks, Inside
      <4> QED
        BY <1>2, <1>3, <3>1, <4>1 DEF PubStep, Inside
    <3>2. CASE c # p
      <4>1. pub'[c] = pub[c] /\ lock # c
        BY <1>2, <1>3, <3>2, UpdateAssumption DEF PubStep, Proc
      <4> QED
        BY <1>3, <3>2, <4>1 DEF IInv, Locks
    <3> QED
      BY <3>1, <3>2
  <2>2. ASSUME NEW q \in Rereview
        PROVE  /\ (lock' = q) <=> (rereview'[q].pc = "publishing")
               /\ (pub'[q].pc # "idle") <=> (rereview'[q].pc = "publishing")
               /\ ~pub'[q].owner
    <3>1. CASE q = p
      <4>1. rereview[q].pc = "publishing" /\ lock = q
        BY <1>3, <3>1 DEF IInv, Locks
      <4>2. pub'[q].pc = "recover" /\ pub'[q].owner = (lock = None) /\ lock # None
        BY <1>2, <1>3, <3>1, <4>1, UpdateAssumption DEF PubStep, Proc
      <4> QED
        BY <1>3, <3>1, <4>1, <4>2
    <3>2. CASE q # p
      <4>1. pub'[q] = pub[q] /\ lock # q
        BY <1>2, <1>3, <3>2, UpdateAssumption DEF PubStep, Proc
      <4> QED
        BY <1>3, <3>2, <4>1 DEF IInv, Locks
    <3> QED
      BY <3>1, <3>2
  <2> QED
    BY <2>1, <2>2 DEF Locks
<1>9. Chats'
  <2>1. ASSUME NEW c \in Chat, chat[c].pc \in {"idle", "waiting", "evaluated"} PROVE pub'[c].pc = "idle"
    BY <1>2, <1>3, <2>1 DEF IInv, Chats, PubStep, Proc
  <2> QED
    BY <2>1 DEF IInv, Chats, Decided
<1>10. Rereviews'
  BY DEF IInv, Rereviews, Decided
<1> QED
  BY <1>4, <1>7, <1>8, <1>9, <1>10, SameReview DEF IInv

\* A step inside that leaves GitLab as it is.
LEMMA QuietOnward ==
    ASSUME IInv, NEW p \in Proc, NEW g, PubStep(p, g), PubFine(p, g), Knows(g),
           pub[p].pc \in Inside, g.pc \in Inside, g.owner = pub[p].owner,
           UNCHANGED <<gitlab, lock, chat, rereview>>
    PROVE  IInv'
<1>1. Records' /\ Staged' /\ Review' /\ Knows(g)'
  BY SameReview DEF IInv
<1> QED
  BY <1>1, Onward

LEMMA QuietReturn ==
    ASSUME IInv, NEW p \in Proc, NEW a \in Answer, Return(p, a), pub[p].pc \in Inside,
           UNCHANGED <<gitlab, chat, rereview>>
    PROVE  IInv'
<1>1. Records' /\ Staged' /\ Review'
  BY SameReview DEF IInv
<1> QED
  BY <1>1, Returns

LEMMA RecoverOneInv ==
    ASSUME IInv, NEW p \in Proc, NEW op \in pub[p].ops, RecoverOne(p, op), UNCHANGED <<chat, rereview>>
    PROVE  IInv'
<1>0. pub[p].pc = "recover" /\ pub[p].pc \in Inside /\ op \in Op /\ UNCHANGED gitlab
  BY PubFacts DEF RecoverOne, PubFine, Inside
<1>1. PICK g : g = pub'[p]
  OBVIOUS
<1>2. CASE ~Uncommitted(op)
  <2>1. /\ PubStep(p, g) /\ UNCHANGED lock /\ g.pc = "clean" /\ g.tx = [op |-> op]
        /\ g.req = pub[p].req /\ g.ops = pub[p].ops /\ g.left = pub[p].left /\ g.owner = pub[p].owner
        /\ DOMAIN g = DOMAIN pub[p]
    BY <1>1, <1>2, PubFacts DEF RecoverOne, PubStep, IInv, Publishers
  <2>2. PubFine(p, g)
    BY <2>1, PubFacts DEF PubFine, Inside
  <2>3. \A r \in Pending : r.op # op
    BY <1>2, UncommittedFacts DEF IInv
  <2>4. Knows(g)
    BY <1>0, <2>1, <2>3 DEF Knows
  <2> QED
    BY <1>0, <2>1, <2>2, <2>4, QuietOnward DEF Inside
<1>3. CASE Uncommitted(op)
  <2>1. PICK a \in Pending : a = Latest(Activations(op)) /\ a.op = op
    BY <1>3, UncommittedFacts DEF IInv
  <2>2. PICK c \in records : /\ Newest(a) = {c} /\ Latest(Chunk(a.op, a.rev, 0)) = c /\ Fits(c.tx)
    BY PendingOne DEF IInv
  <2>3. PICK tx : tx = c.tx
    OBVIOUS
  <2>4. Reassembled(op, a.rev) = tx /\ HasTx(tx) /\ DOMAIN tx.items \subseteq Finding
    BY <2>1, <2>2, <2>3 DEF Reassembled, HasTx, Fits, Leads
  <2>5. CASE Complete(op, a.rev)
    <3>1. /\ PubStep(p, g) /\ UNCHANGED lock /\ g.pc = "apply" /\ g.tx = tx /\ g.left = DOMAIN tx.items
          /\ g.req = pub[p].req /\ g.ops = pub[p].ops /\ g.owner = pub[p].owner
          /\ DOMAIN g = DOMAIN pub[p]
      BY <1>1, <1>3, <2>1, <2>4, <2>5, PubFacts DEF RecoverOne, PubStep, IInv, Publishers
    <3>2. PubFine(p, g)
      BY <2>4, <3>1, PubFacts DEF PubFine, Inside
    <3>3. Knows(g)
      BY <2>4, <3>1 DEF Knows
    <3> QED
      BY <1>0, <3>1, <3>2, <3>3, QuietOnward DEF Inside
  <2>6. CASE ~Complete(op, a.rev)
    <3>1. Return(p, "error")
      BY <1>3, <2>1, <2>6 DEF RecoverOne
    <3> QED
      BY <1>0, <3>1, QuietReturn DEF Answer
  <2> QED
    BY <2>5, <2>6
<1> QED
  BY <1>2, <1>3

LEMMA GotoFacts ==
    ASSUME IInv, NEW p \in Proc, NEW pc, Goto(p, pc), pc \in Inside, pc = "check" => pub[p].req # None
    PROVE  \E g : /\ PubStep(p, g) /\ PubFine(p, g) /\ g.pc = pc /\ g.owner = pub[p].owner
                  /\ g.tx = pub[p].tx /\ g.left = pub[p].left /\ g.ops = pub[p].ops /\ g.req = pub[p].req
<1>1. PICK g : g = pub'[p]
  OBVIOUS
<1>2. /\ PubStep(p, g) /\ g.pc = pc /\ g.owner = pub[p].owner /\ DOMAIN g = DOMAIN pub[p]
      /\ g.tx = pub[p].tx /\ g.left = pub[p].left /\ g.ops = pub[p].ops /\ g.req = pub[p].req
  BY <1>1, PubFacts DEF Goto, PubStep, IInv, Publishers
<1>3. PubFine(p, g)
  BY <1>2, PubFacts DEF PubFine
<1> QED
  BY <1>2, <1>3

LEMMA RecoveredInv ==
    ASSUME IInv, NEW p \in Proc, Recovered(p), UNCHANGED <<chat, rereview>>
    PROVE  IInv'
<1>0. pub[p].pc = "recover" /\ pub[p].pc \in Inside /\ UNCHANGED gitlab
  BY DEF Recovered, Inside
<1>1. CASE pub[p].req = None
  <2>1. Return(p, "ok")
    BY <1>1 DEF Recovered
  <2> QED
    BY <1>0, <2>1, QuietReturn DEF Answer
<1>2. CASE pub[p].req # None
  <2>1. Goto(p, "check") /\ UNCHANGED lock /\ "check" \in Inside
    BY <1>2 DEF Recovered, Inside
  <2>2. PICK g : /\ PubStep(p, g) /\ PubFine(p, g) /\ g.pc = "check" /\ g.owner = pub[p].owner
    BY <1>2, <2>1, GotoFacts
  <2>3. Knows(g)
    BY <2>2 DEF Knows
  <2> QED
    BY <1>0, <2>1, <2>2, <2>3, QuietOnward
<1> QED
  BY <1>1, <1>2

LEMMA ReadFailsInv ==
    ASSUME IInv, NEW p \in Proc, ReadFails(p), UNCHANGED <<chat, rereview>>
    PROVE  IInv'
BY QuietReturn DEF ReadFails, Inside, Answer
-----------------------------------------------------------------------------
(* The check and the staging.                                              *)

LEMMA AfterFacts ==
    ASSUME NEW req, req.before \in Version, req.change \in [Finding -> Change]
    PROVE  /\ After(req) \in Version /\ After(req).rev = req.before.rev + 1
           /\ \A f \in Changed(req) : After(req).find[f].rev = req.before.rev + 1
           /\ \A f \in Changed(req) : After(req).find[f].state \in {"open", "resolved"}
           /\ \A f \in Finding \ Changed(req) : After(req).find[f] = req.before.find[f]
<1>1. req.before.rev + 1 \in Nat /\ req.before.find \in [Finding -> FindingState]
  BY DEF Version
<1>2. PICK n \in Nat : n = req.before.rev + 1
  BY <1>1
<1>3. After(req) = [rev |-> n, find |-> After(req).find]
  BY <1>2 DEF After
<1>4. DOMAIN After(req).find = Finding /\ After(req).rev = n
  BY <1>2 DEF After
<1>5. ASSUME NEW f \in Finding
      PROVE  After(req).find[f] = CASE req.change[f] = "none" -> req.before.find[f]
                                   [] req.change[f] = "resolve" -> [rev |-> n, state |-> "resolved"]
                                   [] OTHER -> [rev |-> n, state |-> "open"]
  BY <1>2 DEF After
<1>6. ASSUME NEW f \in Changed(req)
      PROVE  \E st \in {"open", "resolved"} : After(req).find[f] = [rev |-> n, state |-> st]
  <2>1. f \in Finding /\ req.change[f] # "none"
    BY DEF Changed
  <2> QED
    BY <1>5, <2>1
<1>7. ASSUME NEW f \in Finding \ Changed(req) PROVE After(req).find[f] = req.before.find[f]
  BY <1>5 DEF Changed
<1>8. ASSUME NEW f \in Finding PROVE After(req).find[f] \in FindingState
  <2>1. CASE f \in Changed(req)
    BY <1>2, <1>6, <2>1 DEF FindingState
  <2>2. CASE f \notin Changed(req)
    BY <1>1, <1>7, <2>2
  <2> QED
    BY <2>1, <2>2
<1>9. After(req).find \in [Finding -> FindingState]
  <2>1. After(req).find = [f \in Finding |-> After(req).find[f]]
    BY DEF After
  <2> QED
    BY <1>8, <2>1
<1>10. After(req) \in Version
  BY <1>3, <1>9 DEF Version
<1> QED
  BY <1>2, <1>4, <1>6, <1>7, <1>10

\* What the transaction of a request says, and what its item for one finding.
LEMMA TransactionFacts ==
    ASSUME NEW req, NEW T, T = Transaction(req)
    PROVE  /\ T.op = req.op /\ T.rev = After(req).rev /\ T.seen = req.seen /\ T.after = After(req)
           /\ DOMAIN T.items = Changed(req)
           /\ T.root.target = Target(Root) /\ T.root.base = notes[Target(Root)]
           /\ T.root.body = [of |-> Root, rev |-> After(req).rev, state |-> "open", next |-> FALSE,
                             mark |-> req.op, archived |-> T.root.body.archived,
                             total |-> Cardinality({f \in Finding : After(req).find[f].state # "absent"})]
           /\ T.root.body.archived = WithHistory(IF req.verdict = "visible" \/ Changed(req) # {}
                    THEN notes[Target(Root)].archived \cup ({notes[Target(Root)].mark} \ {None})
                    ELSE notes[Target(Root)].archived)
BY DEF Transaction

LEMMA HistoryFacts ==
    ASSUME NEW ops
    PROVE  WithHistory(ops) \subseteq ops /\ (HistoryLimit = None => WithHistory(ops) = ops)
BY DEF WithHistory

LEMMA ItemFacts ==
    ASSUME NEW req, NEW T, T = Transaction(req), NEW f \in Changed(req), NEW item, item = T.items[f],
           NEW old, old = Target(f)
    PROVE  /\ item.body = [of |-> f, rev |-> After(req).rev, state |-> After(req).find[f].state, next |-> FALSE,
                           mark |-> req.op, archived |-> {}, total |-> 0]
           /\ item.base = IF old = 0 THEN None ELSE notes[old]
           /\ item.target = IF req.change[f] = "move" /\ old # 0 THEN 0 ELSE old
           /\ item.redirect = IF req.change[f] = "move" /\ old # 0 THEN old ELSE 0
<1>1. T.items = [g \in Changed(req) |-> T.items[g]]
  BY DEF Transaction
<1>2. item = [target |-> item.target, body |-> item.body, base |-> item.base, redirect |-> item.redirect]
  BY DEF Transaction
<1>3. item.body = [of |-> f, rev |-> After(req).rev, state |-> After(req).find[f].state, next |-> FALSE,
                           mark |-> req.op, archived |-> {}, total |-> 0]
  BY DEF Transaction
<1>4. item.base = IF old = 0 THEN None ELSE notes[old]
  BY DEF Transaction
<1>5. /\ item.target = IF req.change[f] = "move" /\ old # 0 THEN 0 ELSE old
      /\ item.redirect = IF req.change[f] = "move" /\ old # 0 THEN old ELSE 0
  BY DEF Transaction
<1> QED
  BY <1>3, <1>4, <1>5

LEMMA ItemMade ==
    ASSUME Review, Pending = {}, NEW p, NEW req, req # None, ReqFine(p, req), req.before = Current,
           NEW T, T = Transaction(req), NEW f \in Changed(req), NEW item, item = T.items[f]
    PROVE  ItemFine(T, f, item) /\ Untouched(f, item)
<1>1. PICK old : old = Target(f)
  OBVIOUS
<1>2. /\ item.body = [of |-> f, rev |-> After(req).rev, state |-> After(req).find[f].state, next |-> FALSE,
                      mark |-> req.op, archived |-> {}, total |-> 0]
      /\ item.base = IF old = 0 THEN None ELSE notes[old]
      /\ item.target = IF req.change[f] = "move" /\ old # 0 THEN 0 ELSE old
      /\ item.redirect = IF req.change[f] = "move" /\ old # 0 THEN old ELSE 0
  BY <1>1, ItemFacts
<1>3. /\ After(req) \in Version /\ After(req).rev = Current.rev + 1 /\ After(req).find[f].rev = Current.rev + 1
      /\ After(req).find[f].state \in {"open", "resolved"} /\ f \in Finding /\ req.op \in Op
  BY AfterFacts DEF ReqFine, Decided, Changed
<1>4. T.op = req.op /\ T.rev = After(req).rev /\ T.after = After(req)
  BY TransactionFacts
<1>5. item.body \in Note /\ item.body.of = f /\ ~item.body.next /\ item.body.rev = T.rev /\ item.body.mark = T.op
  <2>1. After(req).rev \in Nat
    BY <1>3 DEF Version
  <2> QED
    BY <1>2, <1>3, <1>4, <2>1 DEF Note
<1>6. T.after.find[f] = [rev |-> T.rev, state |-> item.body.state]
  <2>1. After(req).find[f] \in FindingState
    BY <1>3 DEF Version
  <2> QED
    BY <1>2, <1>3, <1>4, <2>1 DEF FindingState
<1>7. Shows(f, Current.find[f])
  BY <1>3 DEF Review
<1>8. Current.rev \in Nat /\ Current.find[f].rev <= Current.rev /\ Current.find[f].rev \in Nat
  BY <1>3, RootFacts DEF Review, Version, FindingState
<1>9. CASE Live(f) = {}
  <2>1. old = 0
    BY <1>1, <1>9, TargetFacts
  <2>2. item.base = None /\ item.target = 0 /\ item.redirect = 0
    BY <1>2, <2>1
  <2>3. item.base # item.body
    BY <1>5, <2>2, NoneAssumption
  <2> QED
    BY <1>5, <1>6, <1>9, <2>2, <2>3 DEF ItemFine, Untouched
<1>10. CASE Live(f) # {}
  <2>1. PICK i \in Live(f) : Live(f) = {i} /\ Current.find[f] = [rev |-> notes[i].rev, state |-> notes[i].state]
    BY <1>7, <1>10 DEF Shows
  <2>2. old = i
    BY <1>1, <2>1, TargetFacts
  <2>3. i \in Nat /\ i # 0 /\ notes[i] \in Note /\ notes[i].of = f /\ ~notes[i].next
    BY <2>1, ElementOfSeq DEF Live, Review
  <2>4. item.base = notes[i] /\ item.base # None
    BY <1>2, <2>2, <2>3, NoneAssumption
  <2>5. item.base # item.body
    <3>1. notes[i].rev <= Current.rev
      BY <1>8, <2>1
    <3>2. item.body.rev = Current.rev + 1
      BY <1>3, <1>4, <1>5
    <3> QED
      BY <1>8, <2>3, <2>4, <3>1, <3>2
  <2>6. (item.target = i /\ item.redirect = 0) \/ (item.target = 0 /\ item.redirect = i)
    BY <1>2, <2>2, <2>3
  <2>7. Untouched(f, item)
    BY <2>1, <2>4, <2>6 DEF Untouched
  <2> QED
    BY <1>5, <1>6, <2>3, <2>4, <2>5, <2>6, <2>7 DEF ItemFine
<1> QED
  BY <1>9, <1>10

LEMMA RootMade ==
    ASSUME Review, NEW p, NEW req, req # None, ReqFine(p, req), req.before = Current,
           NEW T, T = Transaction(req)
    PROVE  RootFine(T)
<1>1. PICK t : t = Target(Root)
  OBVIOUS
<1>2. Live(Root) = {t} /\ t \in 1..Len(notes)
  BY <1>1, RootFacts
<1>3. notes[t] \in Note
  BY <1>2, ElementOfSeq DEF Review
<1>4. After(req) \in Version /\ req.op \in Op
  BY AfterFacts DEF ReqFine, Decided
<1>5. T.op = req.op /\ T.rev = After(req).rev /\ T.root.target = t /\ T.root.base = notes[t]
  BY <1>1, TransactionFacts
<1>6. PICK k \in Nat : k = Cardinality({f \in Finding : After(req).find[f].state # "absent"})
  <2>1. IsFiniteSet({f \in Finding : After(req).find[f].state # "absent"})
    BY FS_Subset, UpdateAssumption
  <2> QED
    BY <2>1, FS_CardinalityType
<1>7. PICK ar : ar = T.root.body.archived
  OBVIOUS
<1>8. ar \subseteq Op
  <2>1. PICK all : all = IF req.verdict = "visible" \/ Changed(req) # {}
             THEN notes[t].archived \cup ({notes[t].mark} \ {None}) ELSE notes[t].archived
    OBVIOUS
  <2>2. ar = WithHistory(all)
    BY <1>1, <1>7, <2>1, TransactionFacts
  <2>3. notes[t].archived \subseteq Op /\ notes[t].mark \in Op \cup {None}
    BY <1>3 DEF Note
  <2>4. all \subseteq Op
    BY <2>1, <2>3
  <2> QED
    BY <2>2, <2>4, HistoryFacts
<1>9. T.root.body = [of |-> Root, rev |-> After(req).rev, state |-> "open", next |-> FALSE,
                     mark |-> req.op, archived |-> ar, total |-> k]
  BY <1>6, <1>7, TransactionFacts
<1>10. T.root.body \in Note
  BY <1>4, <1>8, <1>9 DEF Note, Version
<1> QED
  BY <1>2, <1>5, <1>9, <1>10 DEF RootFine

LEMMA TransactionMade ==
    ASSUME Review, Pending = {}, NEW p, NEW req, req # None, ReqFine(p, req), req.before = Current,
           NEW T, T = Transaction(req)
    PROVE  Fits(T) /\ Chunked(T, 0)
<1>1. /\ T.op = req.op /\ T.rev = After(req).rev /\ T.seen = req.seen /\ T.after = After(req)
      /\ DOMAIN T.items = Changed(req)
  BY TransactionFacts
<1>2. req.op \in Op /\ Decided(req.seen, req.before, req.change)
  BY DEF ReqFine
<1>3. /\ After(req) \in Version /\ After(req).rev = Current.rev + 1
      /\ \A f \in Finding \ Changed(req) : After(req).find[f] = Current.find[f]
  BY <1>2, AfterFacts DEF Decided
<1>4. \A f \in Changed(req) : f \in Finding /\ req.seen.find[f] = Current.find[f]
  BY <1>2 DEF Changed, Decided
<1>5. \A f \in DOMAIN T.items : ItemFine(T, f, T.items[f]) /\ Untouched(f, T.items[f])
  BY <1>1, ItemMade
<1>6. Leads(T)
  BY <1>1, <1>2, <1>3, <1>4, <1>5 DEF Leads, Decided
<1>7. \A f \in Finding : Shows(f, Current.find[f])
  BY DEF Review
<1>8. RootFine(T)
  BY RootMade
<1>9. Fits(T)
  BY <1>5, <1>6, <1>7, <1>8 DEF Fits, Halfway
<1>10. Chunked(T, 0)
  BY DEF Chunked
<1> QED
  BY <1>9, <1>10

LEMMA CheckInv ==
    ASSUME IInv, NEW p \in Proc, Check(p), UNCHANGED <<chat, rereview>>
    PROVE  IInv'
<1>0. pub[p].pc = "check" /\ pub[p].pc \in Inside /\ UNCHANGED gitlab
  BY DEF Check, Inside
<1>1. PICK req : req = pub[p].req
  OBVIOUS
<1>2. CASE \E a \in {"conflict", "ok"} : Return(p, a)
  BY <1>0, <1>2, QuietReturn DEF Answer
<1>3. CASE /\ View = req.before /\ (Changed(req) # {} \/ req.verdict # "none")
           /\ pub' = [pub EXCEPT ![p].pc = "stage", ![p].tx = Transaction(req), ![p].part = 0]
           /\ UNCHANGED <<lock, used>>
  <2>1. PICK g, T : g = pub'[p] /\ T = Transaction(req)
    OBVIOUS
  <2>2. /\ PubStep(p, g) /\ g.pc = "stage" /\ g.tx = T /\ g.part = 0
        /\ g.req = req /\ g.ops = pub[p].ops /\ g.left = pub[p].left /\ g.owner = pub[p].owner
        /\ DOMAIN g = DOMAIN pub[p]
    BY <1>1, <1>3, <2>1, PubFacts DEF PubStep, IInv, Publishers
  <2>3. PubFine(p, g)
    BY <1>1, <2>2, PubFacts DEF PubFine, Inside
  <2>4. req # None /\ ReqFine(p, req) /\ req.before \in Version
    BY <1>0, <1>1, PubFacts DEF PubFine, ReqFine, Decided
  <2>5. View # None
    BY <1>3, <2>4, NoneAssumption
  <2>6. Pending = {} /\ req.before = Current /\ Review
    BY <1>3, <2>5, ViewFacts DEF IInv
  <2>7. Fits(T) /\ Chunked(T, 0)
    BY <2>1, <2>4, <2>6, TransactionMade
  <2>8. Knows(g)
    BY <2>2, <2>6, <2>7, UpdateAssumption DEF Knows
  <2> QED
    BY <1>0, <1>3, <2>2, <2>3, <2>8, QuietOnward DEF Inside
<1> QED
  BY <1>0, <1>1, <1>2, <1>3 DEF Check

LEMMA StageInv ==
    ASSUME IInv, NEW p \in Proc, Stage(p), UNCHANGED <<chat, rereview>>
    PROVE  IInv'
<1>1. PICK g, tx, part : g = pub'[p] /\ tx = pub[p].tx /\ part = pub[p].part
  OBVIOUS
<1>2. /\ pub[p].pc = "stage" /\ pub[p].pc \in Inside /\ Fits(tx) /\ part \in 0..Parts /\ Chunked(tx, part)
      /\ Pending = {}
  BY <1>1, PubFacts DEF Stage, Knows, Inside
<1>3. CASE Record(tx, part) /\ Return(p, "error")
  <2>1. Records' /\ Staged' /\ Review'
    BY <1>2, <1>3, Recorded DEF IInv
  <2> QED
    BY <1>2, <1>3, <2>1, Returns DEF Answer
<1>4. CASE UNCHANGED gitlab /\ Return(p, "error")
  BY <1>2, <1>4, QuietReturn DEF Answer
<1>5. CASE /\ Record(tx, part) /\ UNCHANGED lock
           /\ pub' = IF part = Parts THEN [pub EXCEPT ![p].pc = "staged"] ELSE [pub EXCEPT ![p].part = @ + 1]
  <2>1. /\ Records' /\ Staged' /\ Review'
        /\ part # Parts => Pending' = {} /\ Fits(tx)' /\ Chunked(tx, part + 1)'
        /\ part = Parts => HasTx(tx)'
    BY <1>2, <1>5, Recorded DEF IInv
  <2>2. CASE part = Parts
    <3>1. /\ PubStep(p, g) /\ g.pc = "staged" /\ g.tx = tx /\ g.req = pub[p].req /\ g.ops = pub[p].ops
          /\ g.left = pub[p].left /\ g.owner = pub[p].owner /\ DOMAIN g = DOMAIN pub[p]
      BY <1>1, <1>5, <2>2, PubFacts DEF PubStep, IInv, Publishers
    <3>2. PubFine(p, g)
      BY <3>1, PubFacts DEF PubFine, Inside
    <3>3. Knows(g)'
      BY <2>1, <2>2, <3>1 DEF Knows
    <3> QED
      BY <1>2, <1>5, <2>1, <3>1, <3>2, <3>3, Onward DEF Inside
  <2>3. CASE part # Parts
    <3>1. /\ PubStep(p, g) /\ g.pc = "stage" /\ g.tx = tx /\ g.req = pub[p].req /\ g.ops = pub[p].ops
          /\ g.left = pub[p].left /\ g.owner = pub[p].owner /\ DOMAIN g = DOMAIN pub[p] /\ g.part = part + 1
      BY <1>1, <1>2, <1>5, <2>3, PubFacts DEF PubStep, IInv, Publishers
    <3>2. PubFine(p, g)
      BY <3>1, PubFacts DEF PubFine, Inside
    <3>3. g.part \in 0..Parts
      BY <1>2, <2>3, <3>1, UpdateAssumption
    <3>4. Knows(g)'
      BY <2>1, <2>3, <3>1, <3>3 DEF Knows
    <3> QED
      BY <1>2, <1>5, <2>1, <3>1, <3>2, <3>4, Onward DEF Inside
  <2> QED
    BY <2>2, <2>3
<1> QED
  BY <1>1, <1>3, <1>4, <1>5 DEF Stage, Send

LEMMA BeginApplyInv ==
    ASSUME IInv, NEW p \in Proc, BeginApply(p), UNCHANGED <<chat, rereview>>
    PROVE  IInv'
<1>1. PICK g, tx : g = pub'[p] /\ tx = pub[p].tx
  OBVIOUS
<1>2. /\ pub[p].pc = "staged" /\ pub[p].pc \in Inside /\ HasTx(tx) /\ UNCHANGED gitlab /\ UNCHANGED lock
  BY <1>1, PubFacts DEF BeginApply, Knows, Inside, locks
<1>3. /\ PubStep(p, g) /\ g.pc = "apply" /\ g.tx = tx /\ g.left = DOMAIN tx.items
      /\ g.req = pub[p].req /\ g.ops = pub[p].ops /\ g.owner = pub[p].owner /\ DOMAIN g = DOMAIN pub[p]
  BY <1>1, PubFacts DEF BeginApply, PubStep, IInv, Publishers
<1>4. DOMAIN tx.items \subseteq Finding
  BY <1>2, TheTx DEF IInv, Fits, Leads
<1>5. PubFine(p, g)
  BY <1>3, <1>4, PubFacts DEF PubFine, Inside
<1>6. Knows(g)
  BY <1>2, <1>3 DEF Knows
<1> QED
  BY <1>2, <1>3, <1>5, <1>6, QuietOnward DEF Inside
-----------------------------------------------------------------------------
(* The application.                                                        *)

\* The thread of an item after the write of it.
Written(f, item) ==
    /\ notes' \in Seq(Note) /\ \A g : g # f => SameThread(g)
    /\ Halfway(f, item)' /\ ~Untouched(f, item)' /\ (item.redirect = 0 => Done(f, item)')

\* Apart from a failure that left the notes as they were.
LEMMA ItemWritten ==
    ASSUME NEW T, NEW f, NEW item, ItemFine(T, f, item), Halfway(f, item), notes \in Seq(Note),
           NEW i, i = Match(item),
           \/ i = 0 /\ notes' = Append(notes, item.body)
           \/ i # 0 /\ notes[i] = item.body /\ notes' = notes
           \/ i # 0 /\ notes[i] = item.base /\ notes' = [notes EXCEPT ![i] = item.body]
    PROVE  Written(f, item)
<1>1. CASE i = 0 /\ notes' = Append(notes, item.body)
  BY <1>1, ItemAppended DEF Written
<1>2. CASE i # 0 /\ notes[i] = item.body /\ notes' = notes
  <2>1. ~Untouched(f, item) /\ (item.redirect = 0 => Done(f, item))
    BY <1>2, ItemThere
  <2>2. \A g : SameThread(g)
    BY <1>2 DEF SameThread, Live
  <2>3. Halfway(f, item)' = Halfway(f, item) /\ Untouched(f, item)' = Untouched(f, item) /\ Done(f, item)' = Done(f, item)
    BY <2>2, ThreadStays
  <2> QED
    BY <1>2, <2>1, <2>2, <2>3 DEF Written
<1>3. CASE i # 0 /\ notes[i] = item.base /\ notes' = [notes EXCEPT ![i] = item.body]
  BY <1>3, ItemEdited DEF Written
<1> QED
  BY <1>1, <1>2, <1>3

ApplyNext(p, f, item) ==
    pub' = [pub EXCEPT ![p].left = @ \ {f},
                       ![p].pc = IF item.redirect = 0 THEN "apply" ELSE "redirect",
                       ![p].moved = f]

LEMMA ApplyWrites ==
    ASSUME IInv, NEW p \in Proc, Apply(p)
    PROVE  \E tx, f, item :
           /\ tx = pub[p].tx /\ item = tx.items[f]
           /\ pub[p].pc = "apply" /\ HasTx(tx) /\ f \in pub[p].left /\ pub[p].left \subseteq DOMAIN tx.items
           /\ \A h \in DOMAIN tx.items \ pub[p].left : Done(h, tx.items[h])
           /\ f \in DOMAIN tx.items /\ f \in Finding /\ records' = records /\ versions' = versions
           /\ \/ UNCHANGED gitlab /\ \E a \in {"error", "blocked"} : Return(p, a)
              \/ Written(f, item) /\ \E a \in {"error", "blocked"} : Return(p, a)
              \/ Written(f, item) /\ ApplyNext(p, f, item) /\ UNCHANGED lock
<1>0. PICK tx, f : tx = pub[p].tx /\ f = CHOOSE h \in pub[p].left : TRUE
  OBVIOUS
<1>1. PICK item, i : item = tx.items[f] /\ i = Match(item)
  OBVIOUS
<1>2. /\ pub[p].pc = "apply" /\ HasTx(tx) /\ f \in pub[p].left
      /\ pub[p].left \subseteq DOMAIN tx.items /\ \A h \in DOMAIN tx.items \ pub[p].left : Done(h, tx.items[h])
      /\ records' = records /\ versions' = versions
  BY <1>0, PubFacts DEF Apply, Knows
<1>3. Fits(tx) /\ f \in DOMAIN tx.items /\ f \in Finding
  BY <1>2, TheTx DEF IInv, Fits, Leads
<1>4. ItemFine(tx, f, item) /\ Halfway(f, item)
  BY <1>1, <1>3 DEF Fits, Leads
<1>5. /\ \/ i = 0 /\ notes' = Append(notes, item.body)
         \/ i # 0 /\ notes[i] = item.body /\ notes' = notes
         \/ i # 0 /\ notes[i] = item.base /\ notes' = [notes EXCEPT ![i] = item.body]
         \/ notes' = notes /\ \E a \in {"error", "blocked"} : Return(p, a)
      /\ (ApplyNext(p, f, item) /\ UNCHANGED lock) \/ \E a \in {"error", "blocked"} : Return(p, a)
  <2>1. ApplyItem(p, item, ApplyNext(p, f, item))
    BY <1>0, <1>1 DEF Apply, ApplyNext
  <2> QED
    BY <1>1, <2>1 DEF ApplyItem, Send
<1>6. CASE notes' = notes /\ \E a \in {"error", "blocked"} : Return(p, a)
  BY <1>0, <1>1, <1>2, <1>3, <1>6 DEF gitlab
<1>7. CASE \/ i = 0 /\ notes' = Append(notes, item.body)
           \/ i # 0 /\ notes[i] = item.body /\ notes' = notes
           \/ i # 0 /\ notes[i] = item.base /\ notes' = [notes EXCEPT ![i] = item.body]
  <2>1. notes \in Seq(Note)
    BY DEF IInv, Review
  <2>2. Written(f, item)
    BY <1>1, <1>4, <1>7, <2>1, ItemWritten
  <2> QED
    BY <1>0, <1>1, <1>2, <1>3, <1>5, <2>2
<1> QED
  BY <1>5, <1>6, <1>7

LEMMA ApplyInv ==
    ASSUME IInv, NEW p \in Proc, Apply(p), UNCHANGED <<chat, rereview>>
    PROVE  IInv'
<1>1. PICK g : g = pub'[p]
  OBVIOUS
<1>2. PICK tx, f, item :
      /\ tx = pub[p].tx /\ item = tx.items[f]
      /\ pub[p].pc = "apply" /\ HasTx(tx) /\ f \in pub[p].left /\ pub[p].left \subseteq DOMAIN tx.items
      /\ \A h \in DOMAIN tx.items \ pub[p].left : Done(h, tx.items[h])
      /\ f \in DOMAIN tx.items /\ f \in Finding /\ records' = records /\ versions' = versions
      /\ \/ UNCHANGED gitlab /\ \E a \in {"error", "blocked"} : Return(p, a)
         \/ Written(f, item) /\ \E a \in {"error", "blocked"} : Return(p, a)
         \/ Written(f, item) /\ ApplyNext(p, f, item) /\ UNCHANGED lock
  BY ApplyWrites
<1>3. pub[p].pc \in Inside
  BY <1>2 DEF Inside
<1>4. CASE UNCHANGED gitlab /\ \E a \in {"error", "blocked"} : Return(p, a)
  BY <1>3, <1>4, QuietReturn DEF Answer
<1>5. CASE Written(f, item)
  <2>1. Records' /\ Staged' /\ Review' /\ HasTx(tx)'
    <3>1. notes' \in Seq(Note) /\ (\A h \in (Finding \cup {Root}) \ {f} : SameThread(h)) /\ Halfway(f, tx.items[f])'
      BY <1>2, <1>5 DEF Written
    <3> QED
      BY <1>2, <3>1, ThreadWritten DEF IInv
  <2>2. CASE \E a \in {"error", "blocked"} : Return(p, a)
    BY <1>3, <2>1, <2>2, Returns DEF Answer
  <2>3. CASE ApplyNext(p, f, item) /\ UNCHANGED lock
    <3>1. /\ PubStep(p, g) /\ g.pc = (IF item.redirect = 0 THEN "apply" ELSE "redirect") /\ g.tx = tx
          /\ g.left = pub[p].left \ {f} /\ g.moved = f
          /\ g.req = pub[p].req /\ g.ops = pub[p].ops /\ g.owner = pub[p].owner /\ DOMAIN g = DOMAIN pub[p]
      BY <1>1, <1>2, <2>3, PubFacts DEF ApplyNext, PubStep, IInv, Publishers
    <3>2. PubFine(p, g)
      BY <3>1, PubFacts DEF PubFine, Inside
    <3>3. \A h \in (DOMAIN tx.items \ g.left) \ {f} : Done(h, tx.items[h])'
      <4> SUFFICES ASSUME NEW h \in (DOMAIN tx.items \ g.left) \ {f} PROVE Done(h, tx.items[h])'
        OBVIOUS
      <4>1. Done(h, tx.items[h])
        BY <1>2, <3>1
      <4>2. SameThread(h)
        BY <1>5 DEF Written
      <4>3. PICK it : it = tx.items[h]
        OBVIOUS
      <4>4. Done(h, it)' = Done(h, it)
        BY <4>2, ThreadStays
      <4> QED
        BY <4>1, <4>3, <4>4 DEF Done
    <3>4. Knows(g)'
      <4>1. ~Untouched(f, item)' /\ (item.redirect = 0 => Done(f, item)')
        BY <1>5 DEF Written
      <4>2. ~Untouched(f, tx.items[f])' /\ (item.redirect = 0 => Done(f, tx.items[f])')
        BY <1>2, <4>1 DEF Untouched, Done
      <4>3. HasTx(g.tx)' /\ g.left \subseteq DOMAIN tx.items
        BY <1>2, <2>1, <3>1
      <4>4. CASE item.redirect = 0
        <5>1. \A h \in DOMAIN tx.items \ g.left : Done(h, tx.items[h])'
          BY <3>3, <4>2, <4>4
        <5> QED
          BY <3>1, <4>3, <4>4, <5>1 DEF Knows
      <4>5. CASE item.redirect # 0
        BY <1>2, <3>1, <3>3, <4>2, <4>3, <4>5 DEF Knows
      <4> QED
        BY <4>4, <4>5
    <3>5. g.pc \in Inside
      BY <3>1 DEF Inside
    <3> QED
      BY <1>3, <2>1, <2>3, <3>1, <3>2, <3>4, <3>5, Onward
  <2> QED
    BY <1>2, <1>4, <2>2, <2>3
<1> QED
  BY <1>2, <1>4, <1>5

RedirectNext(p) == pub' = [pub EXCEPT ![p].pc = "apply", ![p].moved = None]
\* The thread of an item that is done.
Finished(f, item) == notes' \in Seq(Note) /\ (\A g : g # f => SameThread(g)) /\ Done(f, item)'

LEMMA RedirectWrites ==
    ASSUME IInv, NEW p \in Proc, ApplyRedirect(p), NEW tx, NEW f, NEW item,
           tx = pub[p].tx, f = pub[p].moved, item = tx.items[f]
    PROVE  /\ pub[p].pc = "redirect" /\ HasTx(tx) /\ f \in DOMAIN tx.items /\ f \in Finding
           /\ pub[p].left \subseteq DOMAIN tx.items
           /\ \A h \in (DOMAIN tx.items \ pub[p].left) \ {f} : Done(h, tx.items[h])
           /\ records' = records /\ versions' = versions
           /\ \/ UNCHANGED gitlab /\ \E a \in {"error", "blocked"} : Return(p, a)
              \/ Finished(f, item) /\ \E a \in {"error", "blocked"} : Return(p, a)
              \/ Finished(f, item) /\ RedirectNext(p) /\ UNCHANGED lock
<1>1. PICK edit : edit = [target |-> item.redirect, base |-> item.base, body |-> Redirected(item)]
  OBVIOUS
<1>2. PICK i : i = Match(edit)
  OBVIOUS
<1>3. /\ pub[p].pc = "redirect" /\ HasTx(tx) /\ f \in DOMAIN tx.items
      /\ item.redirect # 0 /\ ~Untouched(f, item) /\ pub[p].left \subseteq DOMAIN tx.items
      /\ \A h \in (DOMAIN tx.items \ pub[p].left) \ {f} : Done(h, tx.items[h])
      /\ records' = records /\ versions' = versions
  BY PubFacts DEF ApplyRedirect, Knows
<1>4. Fits(tx) /\ f \in Finding /\ tx.op \in Op
  BY <1>3, TheTx DEF IInv, Fits, Leads
<1>5. ItemFine(tx, f, item) /\ Halfway(f, item)
  BY <1>3, <1>4 DEF Fits, Leads
<1>6. i = item.redirect /\ i # 0
  <2>1. edit.target \in Nat /\ edit.target = item.redirect
    BY <1>1, <1>5 DEF ItemFine
  <2> QED
    BY <1>2, <1>3, <2>1, MatchFacts
<1>7. /\ \/ notes[i] = Redirected(item) /\ notes' = notes
         \/ notes[i] = item.base /\ notes' = [notes EXCEPT ![i] = Redirected(item)]
         \/ notes' = notes /\ \E a \in {"error", "blocked"} : Return(p, a)
      /\ (RedirectNext(p) /\ UNCHANGED lock) \/ \E a \in {"error", "blocked"} : Return(p, a)
  <2>1. ApplyItem(p, edit, RedirectNext(p))
    BY <1>1 DEF ApplyRedirect, RedirectNext
  <2>2. edit.body = Redirected(item) /\ edit.base = item.base
    BY <1>1
  <2> QED
    BY <1>2, <1>6, <2>1, <2>2 DEF ApplyItem, Send
<1>8. CASE notes' = notes /\ \E a \in {"error", "blocked"} : Return(p, a)
  BY <1>3, <1>4, <1>8 DEF gitlab
<1>9. CASE notes[i] = Redirected(item) /\ notes' = notes
  <2>1. Done(f, item)
    BY <1>3, <1>4, <1>5, <1>6, <1>9, RedirectThere
  <2>2. \A h : SameThread(h)
    BY <1>9 DEF SameThread, Live
  <2>3. Finished(f, item)
    BY <1>9, <2>1, <2>2, ThreadStays DEF IInv, Review, Finished
  <2> QED
    BY <1>3, <1>4, <1>7, <2>3
<1>10. CASE notes[i] = item.base /\ notes' = [notes EXCEPT ![i] = Redirected(item)]
  <2>1. Finished(f, item)
    BY <1>3, <1>4, <1>5, <1>6, <1>10, RedirectEdited DEF IInv, Review, Finished
  <2> QED
    BY <1>3, <1>4, <1>7, <2>1
<1> QED
  BY <1>7, <1>8, <1>9, <1>10

LEMMA ApplyRedirectInv ==
    ASSUME IInv, NEW p \in Proc, ApplyRedirect(p), UNCHANGED <<chat, rereview>>
    PROVE  IInv'
<1>1. PICK tx, f : tx = pub[p].tx /\ f = pub[p].moved
  OBVIOUS
<1>2. PICK g, item : g = pub'[p] /\ item = tx.items[f]
  OBVIOUS
<1>3. /\ pub[p].pc = "redirect" /\ HasTx(tx) /\ f \in DOMAIN tx.items /\ f \in Finding
      /\ pub[p].left \subseteq DOMAIN tx.items
      /\ \A h \in (DOMAIN tx.items \ pub[p].left) \ {f} : Done(h, tx.items[h])
      /\ records' = records /\ versions' = versions
      /\ \/ UNCHANGED gitlab /\ \E a \in {"error", "blocked"} : Return(p, a)
         \/ Finished(f, item) /\ \E a \in {"error", "blocked"} : Return(p, a)
         \/ Finished(f, item) /\ RedirectNext(p) /\ UNCHANGED lock
  BY <1>1, <1>2, RedirectWrites
<1>4. pub[p].pc \in Inside
  BY <1>3 DEF Inside
<1>5. CASE UNCHANGED gitlab /\ \E a \in {"error", "blocked"} : Return(p, a)
  BY <1>4, <1>5, QuietReturn DEF Answer
<1>6. CASE Finished(f, item)
  <2>1. Records' /\ Staged' /\ Review' /\ HasTx(tx)'
    <3>1. Halfway(f, tx.items[f])'
      BY <1>2, <1>6 DEF Finished, Halfway, Done
    <3>2. notes' \in Seq(Note) /\ (\A h \in (Finding \cup {Root}) \ {f} : SameThread(h))
      BY <1>6 DEF Finished
    <3> QED
      BY <1>3, <3>1, <3>2, ThreadWritten DEF IInv
  <2>2. CASE \E a \in {"error", "blocked"} : Return(p, a)
    BY <1>4, <2>1, <2>2, Returns DEF Answer
  <2>3. CASE RedirectNext(p) /\ UNCHANGED lock
    <3>1. /\ PubStep(p, g) /\ g.pc = "apply" /\ g.tx = tx /\ g.left = pub[p].left
          /\ g.req = pub[p].req /\ g.ops = pub[p].ops /\ g.owner = pub[p].owner /\ DOMAIN g = DOMAIN pub[p]
      BY <1>1, <1>2, <2>3, PubFacts DEF RedirectNext, PubStep, IInv, Publishers
    <3>2. PubFine(p, g)
      BY <3>1, PubFacts DEF PubFine, Inside
    <3>3. ASSUME NEW h \in DOMAIN tx.items \ g.left PROVE Done(h, tx.items[h])'
      <4>1. CASE h = f
        BY <1>2, <1>6, <4>1 DEF Finished, Done
      <4>2. CASE h # f
        <5>1. Done(h, tx.items[h]) /\ SameThread(h)
          BY <1>3, <1>6, <3>1, <4>2 DEF Finished
        <5>2. PICK it : it = tx.items[h]
          OBVIOUS
        <5>3. Done(h, it)' = Done(h, it)
          BY <5>1, ThreadStays
        <5> QED
          BY <5>1, <5>2, <5>3 DEF Done
      <4> QED
        BY <4>1, <4>2
    <3>4. Knows(g)'
      BY <1>3, <2>1, <3>1, <3>3 DEF Knows
    <3> QED
      BY <1>4, <2>1, <2>3, <3>1, <3>2, <3>4, Onward DEF Inside
  <2> QED
    BY <1>3, <1>5, <2>2, <2>3
<1> QED
  BY <1>3, <1>5, <1>6

\* The summary is edited where it was found, and becomes something else.
LEMMA RootEdit ==
    ASSUME IInv, NEW p \in Proc, ApplyRoot(p), NEW tx, tx = pub[p].tx
    PROVE  /\ pub[p].pc = "apply" /\ HasTx(tx) /\ \A f \in DOMAIN tx.items : Done(f, tx.items[f])
           /\ \/ Commits(tx) /\ Goto(p, "clean") /\ UNCHANGED lock
              \/ Commits(tx) /\ Return(p, "error")
              \/ UNCHANGED gitlab /\ \E a \in {"error", "blocked"} : Return(p, a)
<1>1. /\ pub[p].pc = "apply" /\ HasTx(tx) /\ \A f \in DOMAIN tx.items : Done(f, tx.items[f])
  BY PubFacts DEF ApplyRoot, Knows
<1>2. Fits(tx)
  BY <1>1, TheTx DEF IInv
<1>3. PICK i, root : root = tx.root /\ i = Match(root)
  OBVIOUS
<1>4. root.target \in 1..Len(notes) /\ notes[root.target] = root.base /\ Live(Root) = {root.target}
  BY <1>2, <1>3 DEF Fits, RootFine, Live
<1>5. i = root.target /\ i # 0 /\ i \in 1..Len(notes)
  BY <1>3, <1>4, MatchFacts
<1>6. root.body # notes[i]
  <2>1. root.body.rev = Current.rev + 1
    BY <1>2, <1>3 DEF Fits, RootFine, Leads
  <2>2. notes[i].rev = Current.rev /\ Current.rev \in Nat
    BY <1>4, <1>5, RootFacts DEF IInv, RootRev
  <2> QED
    BY <2>1, <2>2
<1>7. \/ notes' = [notes EXCEPT ![i] = root.body] /\ Goto(p, "clean") /\ UNCHANGED lock
      \/ notes' = [notes EXCEPT ![i] = root.body] /\ Return(p, "error")
      \/ notes' = notes /\ \E a \in {"error", "blocked"} : Return(p, a)
  <2>1. ApplyItem(p, root, Goto(p, "clean"))
    BY <1>3 DEF ApplyRoot
  <2> QED
    BY <1>3, <1>4, <1>5, <1>6, <2>1 DEF ApplyItem, Send
<1>8. notes' = [notes EXCEPT ![i] = root.body] => notes' # notes
  <2>1. i \in DOMAIN notes
    BY <1>5, LenProperties DEF IInv, Review
  <2> QED
    BY <1>6, <2>1
<1>9. /\ notes' = notes => versions' = versions
      /\ notes' # notes => versions' = Append(versions, [op |-> tx.op, seen |-> tx.seen, review |-> tx.after])
      /\ records' = records
  BY DEF ApplyRoot
<1>10. CASE notes' = notes /\ \E a \in {"error", "blocked"} : Return(p, a)
  BY <1>1, <1>9, <1>10 DEF gitlab
<1>11. CASE notes' = [notes EXCEPT ![i] = root.body]
  <2>1. Commits(tx)
    BY <1>3, <1>5, <1>8, <1>9, <1>11 DEF Commits
  <2> QED
    BY <1>1, <1>7, <1>9, <1>11, <2>1, <1>10
<1> QED
  BY <1>7, <1>10, <1>11

LEMMA ApplyRootInv ==
    ASSUME IInv, NEW p \in Proc, ApplyRoot(p), UNCHANGED <<chat, rereview>>
    PROVE  IInv'
<1>1. PICK tx : tx = pub[p].tx
  OBVIOUS
<1>2. pub[p].pc = "apply" /\ HasTx(tx) /\ (\A f \in DOMAIN tx.items : Done(f, tx.items[f])) /\ pub[p].pc \in Inside
  BY <1>1, RootEdit DEF Inside
<1>3. CASE UNCHANGED gitlab /\ \E a \in {"error", "blocked"} : Return(p, a)
  BY <1>2, <1>3, QuietReturn DEF Answer
<1>4. CASE Commits(tx)
  <2>1. Records' /\ Staged' /\ Review' /\ Pending' = {}
    BY <1>2, <1>4, RootWritten DEF IInv
  <2>2. CASE Return(p, "error")
    BY <1>2, <2>1, <2>2, Returns DEF Answer
  <2>3. CASE Goto(p, "clean") /\ UNCHANGED lock
    <3>1. PICK g : /\ PubStep(p, g) /\ PubFine(p, g) /\ g.pc = "clean" /\ g.owner = pub[p].owner /\ g.tx = tx
      BY <1>1, <2>3, GotoFacts DEF Inside
    <3>2. tx.op \in Op
      BY <1>2, TheTx DEF IInv, Fits, Leads
    <3>3. Knows(g)'
      BY <2>1, <3>1, <3>2 DEF Knows
    <3> QED
      BY <1>2, <2>1, <2>3, <3>1, <3>3, Onward DEF Inside
  <2>4. CASE UNCHANGED gitlab /\ \E a \in {"error", "blocked"} : Return(p, a)
    BY <1>3, <2>4
  <2> QED
    BY <1>1, <2>2, <2>3, <2>4, RootEdit
<1> QED
  BY <1>1, <1>3, <1>4, RootEdit

LEMMA CleanInv ==
    ASSUME IInv, NEW p \in Proc, Clean(p), UNCHANGED <<chat, rereview>>
    PROVE  IInv'
<1>1. PICK g, op : g = pub'[p] /\ op = pub[p].tx.op
  OBVIOUS
<1>2. pub[p].pc = "clean" /\ pub[p].pc \in Inside /\ \A r \in Pending : r.op # op
  BY <1>1, PubFacts DEF Clean, Knows, Inside
<1>3. Records' /\ Staged' /\ Review'
  <2>1. PICK kept \in SUBSET OfOp(op) : records' = records \ (OfOp(op) \ kept)
    BY <1>1 DEF Clean
  <2>2. records' \subseteq records /\ \A r \in records : r.op # op => r \in records'
    BY <2>1 DEF OfOp
  <2> QED
    BY <1>2, <2>2, Cleaned DEF IInv, Clean
<1>4. CASE pub[p].ops = {}
  BY <1>2, <1>3, <1>4, Returns DEF Clean, Answer
<1>5. CASE pub[p].ops # {}
  <2>1. /\ PubStep(p, g) /\ g.pc = "recover" /\ g.ops = pub[p].ops \ {op} /\ g.left = pub[p].left
        /\ g.req = pub[p].req /\ g.owner = pub[p].owner /\ DOMAIN g = DOMAIN pub[p] /\ UNCHANGED lock
    BY <1>1, <1>5, PubFacts DEF Clean, PubStep, IInv, Publishers
  <2>2. PubFine(p, g)
    BY <2>1, PubFacts DEF PubFine, Inside
  <2>3. Knows(g)'
    BY <2>1 DEF Knows
  <2> QED
    BY <1>2, <1>3, <2>1, <2>2, <2>3, Onward DEF Inside
<1> QED
  BY <1>4, <1>5
-----------------------------------------------------------------------------
(* The processes around it.                                                *)

LEMMA CallFacts ==
    ASSUME Publishers, NEW p \in Proc, NEW req, Call(p, req), ReqFine(p, req)
    PROVE  \E g : PubStep(p, g) /\ PubFine(p, g) /\ g.pc = "lock" /\ g.pc \notin Inside /\ ~g.owner /\ g.req = req
<1>1. PICK g : g = [Idle EXCEPT !.pc = "lock", !.req = req]
  OBVIOUS
<1>2. PubStep(p, g)
  BY <1>1 DEF Call, PubStep, Publishers
<1>3. g.pc = "lock" /\ g.owner = FALSE /\ g.req = req /\ g.left = {} /\ g.ops = {} /\ DOMAIN g = DOMAIN Idle
  BY <1>1 DEF Idle
<1>4. PubFine(p, g)
  BY <1>3 DEF PubFine
<1> QED
  BY <1>2, <1>3, <1>4 DEF Inside

LEMMA IdleFacts ==
    ASSUME Publishers, NEW p \in Proc, pub' = [pub EXCEPT ![p] = Idle]
    PROVE  PubStep(p, Idle) /\ PubFine(p, Idle) /\ Idle.pc = "idle" /\ Idle.pc \notin Inside /\ ~Idle.owner
<1>1. PubStep(p, Idle)
  BY DEF PubStep, Publishers
<1>2. PubFine(p, Idle)
  BY DEF PubFine, ReqFine, Idle
<1> QED
  BY <1>1, <1>2 DEF Idle, Inside

\* A step of a chat outside the update.
ChatStays(c, x) == DOMAIN chat' = Chat /\ chat'[c] = x /\ \A d \in Chat \ {c} : chat'[d] = chat[d]

LEMMA ChatMoves ==
    ASSUME IInv, NEW c \in Chat, NEW g, PubStep(c, g), PubFine(c, g), g.pc \notin Inside,
           NEW x, ChatStays(c, x), ChatFine(x), x.pc \in {"idle", "waiting", "evaluated"} => g.pc = "idle",
           lock' = IF lock = c THEN None ELSE lock, UNCHANGED <<gitlab, rereview>>
    PROVE  IInv'
<1>0. c \in Proc /\ c \notin Rereview
  BY UpdateAssumption DEF Proc
<1>1. Publishers' /\ Records' /\ Staged' /\ Review'
  BY <1>0, OutsideKnows, OthersKnow, SameReview DEF IInv
<1>2. Locks'
  <2>1. ASSUME NEW d \in Chat
        PROVE  (pub'[d].pc \in Inside <=> lock' = d) /\ (pub'[d].pc \in Inside => pub'[d].owner)
    <3>0. d # None
      BY UpdateAssumption DEF Proc
    <3>1. CASE d = c
      BY <3>0, <3>1 DEF PubStep
    <3>2. CASE d # c
      BY <3>0, <3>2 DEF IInv, Locks, PubStep, Proc
    <3> QED
      BY <3>1, <3>2
  <2>2. ASSUME NEW q \in Rereview
        PROVE  /\ (lock' = q) <=> (rereview'[q].pc = "publishing")
               /\ (pub'[q].pc # "idle") <=> (rereview'[q].pc = "publishing")
               /\ ~pub'[q].owner
    <3>1. q # c /\ q # None
      BY <1>0, UpdateAssumption DEF Proc
    <3> QED
      BY <3>1 DEF IInv, Locks, PubStep, Proc
  <2> QED
    BY <2>1, <2>2 DEF Locks
<1>3. Chats'
  <2> SUFFICES ASSUME NEW d \in Chat
               PROVE  ChatFine(chat'[d]) /\ (chat'[d].pc \in {"idle", "waiting", "evaluated"} => pub'[d].pc = "idle")
    BY DEF Chats, ChatStays, ChatFine, Decided
  <2>1. CASE d = c
    BY <2>1 DEF ChatStays, PubStep
  <2>2. CASE d # c
    BY <2>2 DEF IInv, Chats, ChatStays, PubStep, Proc
  <2> QED
    BY <2>1, <2>2
<1>4. Rereviews'
  BY DEF IInv, Rereviews, RereviewFine, Decided
<1> QED
  BY <1>1, <1>2, <1>3, <1>4 DEF IInv

\* A step of a re-review outside the update.
RereviewStays(p, r) ==
    DOMAIN rereview' = Rereview /\ rereview'[p] = r /\ \A q \in Rereview \ {p} : rereview'[q] = rereview[q]

LEMMA RereviewMoves ==
    ASSUME IInv, NEW p \in Rereview, NEW g, PubStep(p, g), PubFine(p, g), g.pc \notin Inside, ~g.owner,
           NEW r, RereviewStays(p, r), RereviewFine(r),
           (g.pc # "idle") <=> (r.pc = "publishing"), (lock' = p) <=> (r.pc = "publishing"),
           lock' = lock \/ (lock \in {None, p} /\ lock' \in {None, p}), UNCHANGED <<gitlab, chat>>
    PROVE  IInv'
<1>0. p \in Proc /\ p \notin Chat
  BY UpdateAssumption DEF Proc
<1>1. Publishers' /\ Records' /\ Staged' /\ Review'
  BY <1>0, OutsideKnows, OthersKnow, SameReview DEF IInv
<1>2. \A q \in Proc \ {p} : pub'[q] = pub[q] /\ ((lock' = q) <=> (lock = q))
  BY UpdateAssumption DEF PubStep
<1>3. Locks'
  <2>1. ASSUME NEW d \in Chat
        PROVE  (pub'[d].pc \in Inside <=> lock' = d) /\ (pub'[d].pc \in Inside => pub'[d].owner)
    BY <1>0, <1>2 DEF IInv, Locks, Proc
  <2>2. ASSUME NEW q \in Rereview
        PROVE  /\ (lock' = q) <=> (rereview'[q].pc = "publishing")
               /\ (pub'[q].pc # "idle") <=> (rereview'[q].pc = "publishing")
               /\ ~pub'[q].owner
    <3>1. CASE q = p
      BY <3>1 DEF PubStep, RereviewStays
    <3>2. CASE q # p
      BY <1>2, <3>2 DEF IInv, Locks, RereviewStays, Proc
    <3> QED
      BY <3>1, <3>2
  <2> QED
    BY <2>1, <2>2 DEF Locks
<1>4. Chats'
  <2>1. \A d \in Chat : pub'[d] = pub[d]
    BY <1>0, <1>2 DEF Proc
  <2> QED
    BY <2>1 DEF IInv, Chats, ChatFine, Decided
<1>5. Rereviews'
  <2> SUFFICES ASSUME NEW q \in Rereview PROVE RereviewFine(rereview'[q])
    BY DEF Rereviews, RereviewStays, RereviewFine, Decided
  <2> QED
    BY DEF IInv, Rereviews, RereviewStays
<1> QED
  BY <1>1, <1>3, <1>4, <1>5 DEF IInv

LEMMA DecisionFacts ==
    ASSUME Review, View # None, NEW change \in Decisions(View)
    PROVE  Decided(View, View, change)
<1>1. View \in Version
  BY ViewFacts, RootFacts
<1>2. change \in [Finding -> Change]
  BY UpdateAssumption DEF Decisions
<1> QED
  BY <1>1, <1>2 DEF Decided

LEMMA StartRereviewInv ==
    ASSUME IInv, NEW p \in Rereview, StartRereview(p)
    PROVE  IInv'
<1>1. PICK r, old : r = rereview'[p] /\ old = rereview[p]
  OBVIOUS
<1>2. /\ p \in Proc /\ RereviewFine(old) /\ old.pc = "idle" /\ old.run < RunLimit /\ View # None
      /\ pub[p].pc = "idle" /\ ~pub[p].owner /\ lock # p
  BY <1>1 DEF IInv, Rereviews, StartRereview, Locks, Proc
<1>3. PICK change \in Decisions(View), verdict \in Verdicts :
          rereview' = [rereview EXCEPT ![p] =
              [rereview[p] EXCEPT !.pc = "reviewing", !.run = @ + 1, !.seen = View,
                                  !.before = View, !.change = change, !.verdict = verdict]]
  BY DEF StartRereview
<1>4. /\ RereviewStays(p, r) /\ r.pc = "reviewing" /\ r.run = old.run + 1 /\ r.attempt = old.attempt
      /\ r.seen = View /\ r.before = View /\ r.change = change /\ r.verdict = verdict /\ DOMAIN r = DOMAIN old
  <2>1. RereviewStays(p, r)
    BY <1>1, <1>3 DEF RereviewStays, IInv, Rereviews
  <2>2. r = [old EXCEPT !.pc = "reviewing", !.run = @ + 1, !.seen = View,
                        !.before = View, !.change = change, !.verdict = verdict]
    BY <1>1, <1>3 DEF IInv, Rereviews
  <2>3. DOMAIN old = {"pc", "attempt", "run", "seen", "before", "change", "verdict"}
    BY <1>2 DEF RereviewFine, Resting
  <2> QED
    BY <2>1, <2>2, <2>3
<1>5. Decided(View, View, change)
  BY <1>2, DecisionFacts DEF IInv
<1>6. r.run \in 0..RunLimit /\ r.run > 0
  BY <1>2, <1>4, UpdateAssumption DEF RereviewFine
<1>7. RereviewFine(r)
  BY <1>2, <1>4, <1>5, <1>6 DEF RereviewFine
<1>8. PubStep(p, pub[p]) /\ PubFine(p, pub[p]) /\ pub[p].pc \notin Inside
  BY <1>2, PubFacts DEF StartRereview, PubStep, IInv, Publishers, Inside
<1>9. lock' = lock /\ UNCHANGED <<gitlab, chat>>
  BY DEF StartRereview, locks
<1>10. PICK g : g = pub[p]
  OBVIOUS
<1> QED
  BY <1>2, <1>4, <1>7, <1>8, <1>9, <1>10, RereviewMoves

LEMMA CallUpdateFacts ==
    ASSUME IInv, NEW p \in Rereview, NEW r, CallUpdateReview(p, r), RereviewFine(r), r.pc # "idle",
           r.attempt < MaxReconcileAttempts
    PROVE  /\ \E g : PubStep(p, g) /\ PubFine(p, g) /\ g.pc = "lock" /\ g.pc \notin Inside /\ ~g.owner
           /\ RereviewStays(p, [r EXCEPT !.pc = "publishing", !.attempt = @ + 1])
           /\ RereviewFine([r EXCEPT !.pc = "publishing", !.attempt = @ + 1])
<1>1. PICK n \in Nat : n = r.attempt
  BY DEF RereviewFine
<1>2. p \in Proc /\ r.run \in 1..RunLimit /\ n + 1 \in 0..MaxReconcileAttempts /\ MaxReconcileAttempts \in Nat
  BY <1>1, UpdateAssumption DEF Proc, RereviewFine
<1>3. PICK req : req = [op |-> <<p, r.run, n + 1>>, before |-> r.before, seen |-> r.seen,
                        change |-> r.change, verdict |-> r.verdict]
  OBVIOUS
<1>4. Call(p, req)
  BY <1>1, <1>3 DEF CallUpdateReview
<1>5. req.op = <<p, r.run, n + 1>> /\ req.before = r.before /\ req.seen = r.seen /\ req.change = r.change
      /\ req.verdict = r.verdict
  BY <1>3
<1>6. req.op \in Op /\ req.op[1] = p
  BY <1>2, <1>5 DEF Op
<1>7. ReqFine(p, req)
  BY <1>5, <1>6 DEF ReqFine, RereviewFine
<1>8. PICK k : k = [r EXCEPT !.pc = "publishing", !.attempt = @ + 1]
  OBVIOUS
<1>9. RereviewStays(p, k)
  BY <1>8 DEF RereviewStays, CallUpdateReview, IInv, Rereviews
<1>10. /\ k.pc = "publishing" /\ k.attempt = n + 1 /\ k.run = r.run /\ DOMAIN k = DOMAIN r
       /\ k.seen = r.seen /\ k.before = r.before /\ k.change = r.change /\ k.verdict = r.verdict
  BY <1>1, <1>8 DEF RereviewFine, Resting
<1>11. RereviewFine(k)
  BY <1>2, <1>10 DEF RereviewFine
<1> QED
  BY <1>2, <1>4, <1>7, <1>8, <1>9, <1>11, CallFacts DEF IInv

LEMMA PublishRereviewInv ==
    ASSUME IInv, NEW p \in Rereview, PublishRereview(p)
    PROVE  IInv'
<1>1. PICK r : r = rereview[p]
  OBVIOUS
<1>2. /\ RereviewFine(r) /\ r.pc = "reviewing" /\ CallUpdateReview(p, r) /\ lock = None /\ lock' = p
      /\ UNCHANGED <<gitlab, chat>>
  BY <1>1 DEF IInv, Rereviews, PublishRereview
<1>3. r.attempt < MaxReconcileAttempts
  BY <1>2, UpdateAssumption DEF RereviewFine
<1>4. PICK k : k = [r EXCEPT !.pc = "publishing", !.attempt = @ + 1]
  OBVIOUS
<1>5. k.pc = "publishing"
  BY <1>2, <1>4 DEF RereviewFine, Resting
<1>6. PICK g : PubStep(p, g) /\ PubFine(p, g) /\ g.pc = "lock" /\ g.pc \notin Inside /\ ~g.owner
  BY <1>2, <1>3, CallUpdateFacts
<1>7. RereviewStays(p, k) /\ RereviewFine(k)
  BY <1>2, <1>3, <1>4, CallUpdateFacts
<1> QED
  BY <1>2, <1>5, <1>6, <1>7, RereviewMoves

Rebasing(old) == [old EXCEPT !.change = Rebased(old, View), !.before = View]

LEMMA RebasedFine ==
    ASSUME IInv, NEW old, RereviewFine(old), old.pc = "publishing", View # None, NEW r, r = Rebasing(old)
    PROVE  RereviewFine(r) /\ r.pc = "publishing" /\ r.attempt = old.attempt /\ r.run = old.run
<1>1. DOMAIN old = {"pc", "attempt", "run", "seen", "before", "change", "verdict"}
  BY DEF RereviewFine, Resting
<1>2. /\ r.pc = "publishing" /\ r.attempt = old.attempt /\ r.run = old.run /\ DOMAIN r = DOMAIN old
      /\ r.seen = old.seen /\ r.before = View /\ r.change = Rebased(old, View) /\ r.verdict = old.verdict
  BY <1>1 DEF Rebasing
<1>3. View \in Version
  BY ViewFacts, RootFacts DEF IInv
<1>4. Decided(old.seen, View, Rebased(old, View))
  BY <1>3 DEF RereviewFine, Decided, Rebased, Change
<1> QED
  BY <1>2, <1>4 DEF RereviewFine

LEMMA RebaseRereviewInv ==
    ASSUME IInv, NEW p \in Rereview, RebaseRereview(p)
    PROVE  IInv'
<1>1. PICK old : old = rereview[p]
  OBVIOUS
<1>2. PICK r : r = Rebasing(old)
  OBVIOUS
<1>3. /\ RereviewFine(old) /\ old.pc = "publishing" /\ CallUpdateReview(p, r) /\ lock' = lock /\ lock = p
      /\ old.attempt < MaxReconcileAttempts /\ View # None /\ UNCHANGED <<gitlab, chat>>
  BY <1>1, <1>2 DEF IInv, Rereviews, Locks, RebaseRereview, Rebasing, locks
<1>4. RereviewFine(r) /\ r.pc = "publishing" /\ r.attempt = old.attempt
  BY <1>2, <1>3, RebasedFine
<1>5. PICK k : k = [r EXCEPT !.pc = "publishing", !.attempt = @ + 1]
  OBVIOUS
<1>6. k.pc = "publishing"
  BY <1>4, <1>5 DEF RereviewFine, Resting
<1>7. PICK g : PubStep(p, g) /\ PubFine(p, g) /\ g.pc = "lock" /\ g.pc \notin Inside /\ ~g.owner
  BY <1>3, <1>4, CallUpdateFacts
<1>8. RereviewStays(p, k) /\ RereviewFine(k)
  BY <1>3, <1>4, <1>5, CallUpdateFacts
<1> QED
  BY <1>3, <1>6, <1>7, <1>8, RereviewMoves

LEMMA RestingFacts ==
    ASSUME IInv, NEW p \in Rereview, rereview' = [rereview EXCEPT ![p] = [Resting EXCEPT !.run = rereview[p].run]]
    PROVE  \E r : RereviewStays(p, r) /\ RereviewFine(r) /\ r.pc = "idle"
<1>1. PICK r : r = [Resting EXCEPT !.run = rereview[p].run]
  OBVIOUS
<1>2. RereviewStays(p, r)
  BY <1>1 DEF RereviewStays, IInv, Rereviews
<1>3. r.pc = "idle" /\ r.attempt = 0 /\ r.run = rereview[p].run /\ DOMAIN r = DOMAIN Resting
  BY <1>1 DEF Resting
<1>4. RereviewFine(r)
  BY <1>3, UpdateAssumption DEF IInv, Rereviews, RereviewFine
<1> QED
  BY <1>2, <1>3, <1>4

LEMMA EndRereviewInv ==
    ASSUME IInv, NEW p \in Rereview, EndRereview(p)
    PROVE  IInv'
<1>1. p \in Proc /\ p # None /\ lock = p /\ lock' = None /\ UNCHANGED <<gitlab, chat>>
  BY UpdateAssumption DEF EndRereview, IInv, Locks, Proc
<1>2. PubStep(p, Idle) /\ PubFine(p, Idle) /\ Idle.pc = "idle" /\ Idle.pc \notin Inside /\ ~Idle.owner
  BY <1>1, IdleFacts DEF EndRereview, IInv
<1>3. PICK r : RereviewStays(p, r) /\ RereviewFine(r) /\ r.pc = "idle"
  BY RestingFacts DEF EndRereview
<1>4. PICK g : g = Idle
  OBVIOUS
<1> QED
  BY <1>1, <1>2, <1>3, <1>4, RereviewMoves

LEMMA ChatFacts ==
    ASSUME IInv, NEW c \in Chat
    PROVE  /\ c \in Proc /\ ChatFine(chat[c]) /\ DOMAIN chat = Chat
           /\ DOMAIN chat[c] = {"pc", "run", "plan", "failures", "conflicts"}
           /\ pub[c].pc \notin Inside => lock # c
BY DEF IInv, Chats, ChatFine, Asked, Proc, Locks

LEMMA StartChatInv ==
    ASSUME IInv, NEW c \in Chat, StartChat(c)
    PROVE  IInv'
<1>1. PICK x, g : x = chat'[c] /\ g = pub[c]
  OBVIOUS
<1>2. /\ chat[c].pc = "idle" /\ chat[c].run < RunLimit /\ g.pc = "idle" /\ lock # c
      /\ UNCHANGED <<gitlab, rereview>> /\ lock' = lock
  BY <1>1, ChatFacts DEF StartChat, IInv, Chats, Inside, locks
<1>3. /\ ChatStays(c, x) /\ x.pc = "waiting" /\ x.run = chat[c].run + 1 /\ x.plan = chat[c].plan
      /\ DOMAIN x = DOMAIN chat[c]
  BY <1>1, ChatFacts DEF StartChat, ChatStays
<1>4. x.run \in 0..RunLimit /\ x.run > 0
  BY <1>2, <1>3, ChatFacts, UpdateAssumption DEF ChatFine
<1>5. ChatFine(x)
  BY <1>3, <1>4, ChatFacts DEF ChatFine
<1>6. PubStep(c, g) /\ PubFine(c, g) /\ g.pc \notin Inside
  BY <1>1, <1>2, ChatFacts, PubFacts DEF StartChat, PubStep, IInv, Publishers, Inside
<1> QED
  BY <1>2, <1>3, <1>5, <1>6, ChatMoves

LEMMA AttemptInv ==
    ASSUME IInv, NEW c \in Chat, Attempt(c)
    PROVE  IInv'
<1>1. PICK x : x = chat'[c]
  OBVIOUS
<1>2. /\ chat[c].pc = "waiting" /\ pub[c].pc = "idle" /\ lock # c /\ UNCHANGED <<gitlab, rereview>> /\ lock' = lock
  BY ChatFacts DEF Attempt, IInv, Chats, Inside
<1>3. ChatStays(c, x) /\ x.pc = "recovering" /\ x.run = chat[c].run /\ x.plan = chat[c].plan /\ DOMAIN x = DOMAIN chat[c]
  BY <1>1, ChatFacts DEF Attempt, ChatStays
<1>4. ChatFine(x)
  BY <1>2, <1>3, ChatFacts DEF ChatFine
<1>5. Call(c, None) /\ ReqFine(c, None)
  BY DEF Attempt, ReqFine
<1>6. PICK g : PubStep(c, g) /\ PubFine(c, g) /\ g.pc \notin Inside
  BY <1>5, ChatFacts, CallFacts DEF IInv
<1> QED
  BY <1>2, <1>3, <1>4, <1>6, ChatMoves

LEMMA EndAttemptInv ==
    ASSUME IInv, NEW c \in Chat, NEW x, ChatFine(x), EndAttempt(c, x), pub[c].pc \notin Inside,
           UNCHANGED <<gitlab, lock, rereview>>
    PROVE  IInv'
<1>1. PICK g : g = Idle
  OBVIOUS
<1>2. PubStep(c, g) /\ PubFine(c, g) /\ g.pc = "idle" /\ g.pc \notin Inside
  BY <1>1, ChatFacts, IdleFacts DEF EndAttempt, IInv
<1>3. ChatStays(c, x)
  BY ChatFacts DEF EndAttempt, ChatStays
<1> QED
  BY <1>2, <1>3, ChatFacts, ChatMoves

LEMMA EndChatInv ==
    ASSUME IInv, NEW c \in Chat, EndChat(c), pub[c].pc \notin Inside, UNCHANGED <<gitlab, lock, rereview>>
    PROVE  IInv'
<1>1. PICK x : x = [Asked EXCEPT !.run = chat[c].run]
  OBVIOUS
<1>2. x.pc = "idle" /\ x.run = chat[c].run /\ x.plan = None /\ DOMAIN x = DOMAIN Asked
  BY <1>1 DEF Asked
<1>3. ChatFine(x) /\ EndAttempt(c, x)
  BY <1>1, <1>2, ChatFacts DEF ChatFine, EndChat
<1> QED
  BY <1>3, EndAttemptInv

LEMMA RetryLaterInv ==
    ASSUME IInv, NEW c \in Chat, NEW conflict \in BOOLEAN, RetryLater(c, conflict), chat[c].pc # "idle",
           pub[c].pc \notin Inside, UNCHANGED <<gitlab, lock, rereview>>
    PROVE  IInv'
<1>1. CASE Exhausted(c)
  BY <1>1, EndChatInv DEF RetryLater
<1>2. CASE ~Exhausted(c)
  <2>1. PICK x : x = IF conflict THEN [chat[c] EXCEPT !.pc = "waiting", !.conflicts = @ + 1, !.plan = None]
                     ELSE [chat[c] EXCEPT !.pc = "waiting", !.failures = @ + 1]
    OBVIOUS
  <2>2. x.pc = "waiting" /\ x.run = chat[c].run /\ x.plan \in {chat[c].plan, None} /\ DOMAIN x = DOMAIN chat[c]
    BY <2>1, ChatFacts
  <2>3. ChatFine(x)
    BY <2>2, ChatFacts DEF ChatFine
  <2>4. EndAttempt(c, x)
    BY <1>2, <2>1 DEF RetryLater
  <2> QED
    BY <2>3, <2>4, EndAttemptInv
<1> QED
  BY <1>1, <1>2

LEMMA AnswerOutside == \A a \in Answer : a \notin Inside /\ a # "idle"
BY DEF Answer, Inside

LEMMA ExecuteChatInv ==
    ASSUME IInv, NEW c \in Chat, ExecuteChat(c)
    PROVE  IInv'
<1>1. /\ chat[c].pc = "recovering" /\ pub[c].pc \notin Inside /\ UNCHANGED <<gitlab, lock, rereview>>
  BY AnswerOutside DEF ExecuteChat
<1>2. CASE RetryLater(c, FALSE)
  BY <1>1, <1>2, RetryLaterInv
<1>3. CASE EndChat(c)
  BY <1>1, <1>3, EndChatInv
<1>4. ASSUME NEW change \in Decisions(View), NEW verdict \in Verdicts \cap {"none", "visible"},
             NEW plan, View # None,
             (plan = chat[c].plan /\ plan # None) \/ plan = [before |-> View, change |-> change, verdict |-> verdict],
             chat' = [chat EXCEPT ![c].pc = "evaluated", ![c].plan = plan], pub' = [pub EXCEPT ![c] = Idle]
      PROVE  IInv'
  <2>1. PICK x, g : x = chat'[c] /\ g = Idle
    OBVIOUS
  <2>2. ChatStays(c, x) /\ x.pc = "evaluated" /\ x.plan = plan /\ x.run = chat[c].run /\ DOMAIN x = DOMAIN chat[c]
    BY <1>4, <2>1, ChatFacts DEF ChatStays
  <2>3. PlanFine(plan)
    <3>1. CASE plan = chat[c].plan /\ plan # None
      BY <1>4, <3>1, ChatFacts DEF ChatFine
    <3>2. CASE plan = [before |-> View, change |-> change, verdict |-> verdict]
      <4>1. plan.before = View /\ plan.change = change /\ plan.verdict = verdict
        BY <3>2
      <4>2. Decided(View, View, change)
        BY <1>4, DecisionFacts DEF IInv
      <4> QED
        BY <4>1, <4>2 DEF PlanFine
    <3> QED
      BY <1>4, <3>1, <3>2
  <2>4. ChatFine(x)
    BY <1>1, <1>4, <2>2, <2>3, ChatFacts DEF ChatFine
  <2>5. PubStep(c, g) /\ PubFine(c, g) /\ g.pc = "idle" /\ g.pc \notin Inside
    BY <1>4, <2>1, ChatFacts, IdleFacts DEF IInv
  <2> QED
    BY <1>1, <2>2, <2>4, <2>5, ChatFacts, ChatMoves
<1>5. CASE /\ View # None
           /\ \E change \in Decisions(View), verdict \in Verdicts \cap {"none", "visible"} :
                  /\ \A f \in Finding : change[f] # "add"
                  /\ LET planned == [before |-> View, change |-> change, verdict |-> verdict]
                         plan == chat[c].plan
                     IN  chat' = [chat EXCEPT ![c].pc = "evaluated",
                             ![c].plan = IF plan # None /\ plan.before = View THEN plan
                                         ELSE planned]
           /\ pub' = [pub EXCEPT ![c] = Idle]
  <2>1. PICK change \in Decisions(View) : \E verdict \in Verdicts \cap {"none", "visible"} :
            chat' = [chat EXCEPT ![c].pc = "evaluated",
                      ![c].plan = IF chat[c].plan # None /\ chat[c].plan.before = View THEN chat[c].plan
                                  ELSE [before |-> View, change |-> change, verdict |-> verdict]]
    BY <1>5
  <2>2. PICK verdict \in Verdicts \cap {"none", "visible"} :
            chat' = [chat EXCEPT ![c].pc = "evaluated",
                      ![c].plan = IF chat[c].plan # None /\ chat[c].plan.before = View THEN chat[c].plan
                                  ELSE [before |-> View, change |-> change, verdict |-> verdict]]
    BY <2>1
  <2>3. CASE chat[c].plan # None /\ chat[c].plan.before = View
    <3>1. PICK plan : plan = chat[c].plan
      OBVIOUS
    <3>2. plan # None /\ chat' = [chat EXCEPT ![c].pc = "evaluated", ![c].plan = plan]
      BY <2>2, <2>3, <3>1
    <3> QED
      BY <1>4, <1>5, <3>1, <3>2
  <2>4. CASE ~(chat[c].plan # None /\ chat[c].plan.before = View)
    <3>1. PICK plan : plan = [before |-> View, change |-> change, verdict |-> verdict]
      OBVIOUS
    <3>2. chat' = [chat EXCEPT ![c].pc = "evaluated", ![c].plan = plan]
      BY <2>2, <2>4, <3>1
    <3> QED
      BY <1>4, <1>5, <3>1, <3>2
  <2> QED
    BY <2>3, <2>4
<1> QED
  BY <1>2, <1>3, <1>5 DEF ExecuteChat

LEMMA PublishChatInv ==
    ASSUME IInv, NEW c \in Chat, PublishChat(c)
    PROVE  IInv'
<1>1. PICK plan : plan = chat[c].plan
  OBVIOUS
<1>2. /\ chat[c].pc = "evaluated" /\ pub[c].pc = "idle" /\ pub[c].pc \notin Inside /\ PlanFine(plan)
      /\ UNCHANGED <<gitlab, lock, rereview>>
  BY <1>1, ChatFacts DEF PublishChat, IInv, Chats, ChatFine, Inside
<1>3. CASE RetryLater(c, TRUE)
  BY <1>2, <1>3, RetryLaterInv
<1>4. CASE /\ Call(c, [op |-> ChatOp(c), before |-> plan.before, seen |-> plan.before,
                        change |-> plan.change, verdict |-> plan.verdict])
           /\ chat' = [chat EXCEPT ![c].pc = "publishing"]
  <2>1. PICK req : req = [op |-> ChatOp(c), before |-> plan.before, seen |-> plan.before,
                          change |-> plan.change, verdict |-> plan.verdict]
    OBVIOUS
  <2>2. req.op = ChatOp(c) /\ req.before = plan.before /\ req.seen = plan.before /\ req.change = plan.change
        /\ req.verdict = plan.verdict
    BY <2>1
  <2>3. ChatOp(c) \in Op /\ ChatOp(c)[1] = c
    <3>1. chat[c].run \in 1..RunLimit /\ 0 \in 0..MaxReconcileAttempts
      BY <1>2, ChatFacts, UpdateAssumption DEF ChatFine
    <3> QED
      BY <3>1, ChatFacts DEF ChatOp, Op
  <2>4. ReqFine(c, req)
    BY <1>2, <2>2, <2>3 DEF ReqFine, PlanFine
  <2>5. PICK g : PubStep(c, g) /\ PubFine(c, g) /\ g.pc \notin Inside
    BY <1>4, <2>1, <2>4, ChatFacts, CallFacts DEF IInv
  <2>6. PICK x : x = chat'[c]
    OBVIOUS
  <2>7. ChatStays(c, x) /\ x.pc = "publishing" /\ x.run = chat[c].run /\ x.plan = chat[c].plan /\ DOMAIN x = DOMAIN chat[c]
    BY <1>4, <2>6, ChatFacts DEF ChatStays
  <2>8. ChatFine(x)
    BY <1>2, <2>7, ChatFacts DEF ChatFine
  <2> QED
    BY <1>2, <2>5, <2>7, <2>8, ChatFacts, ChatMoves
<1> QED
  BY <1>1, <1>3, <1>4 DEF PublishChat

LEMMA PublishedChatInv ==
    ASSUME IInv, NEW c \in Chat, PublishedChat(c)
    PROVE  IInv'
<1>1. chat[c].pc = "publishing" /\ pub[c].pc \notin Inside /\ UNCHANGED <<gitlab, lock, rereview>>
  BY AnswerOutside DEF PublishedChat
<1>2. CASE EndChat(c)
  BY <1>1, <1>2, EndChatInv
<1>3. CASE RetryLater(c, pub[c].pc = "conflict")
  <2>1. PICK conflict \in BOOLEAN : conflict = (pub[c].pc = "conflict")
    OBVIOUS
  <2>2. RetryLater(c, conflict)
    BY <1>3, <2>1
  <2> QED
    BY <1>1, <2>2, RetryLaterInv
<1> QED
  BY <1>2, <1>3 DEF PublishedChat

LEMMA FailChatInv ==
    ASSUME IInv, NEW c \in Chat, FailChat(c)
    PROVE  IInv'
<1>1. /\ chat[c].pc # "idle" /\ pub[c].pc \notin Inside /\ UNCHANGED <<gitlab, lock, rereview>>
  BY ChatFacts DEF FailChat, IInv, Chats, Inside
<1>2. CASE RetryLater(c, FALSE)
  BY <1>1, <1>2, RetryLaterInv
<1>3. CASE EndAttempt(c, [chat[c] EXCEPT !.pc = "waiting", !.failures = @ + 1, !.plan = None])
  <2>1. PICK x : x = [chat[c] EXCEPT !.pc = "waiting", !.failures = @ + 1, !.plan = None]
    OBVIOUS
  <2>2. x.pc = "waiting" /\ x.run = chat[c].run /\ x.plan = None /\ DOMAIN x = DOMAIN chat[c]
    BY <2>1, ChatFacts
  <2>3. ChatFine(x)
    BY <1>1, <2>2, ChatFacts DEF ChatFine
  <2> QED
    BY <1>1, <1>3, <2>1, <2>3, EndAttemptInv
<1> QED
  BY <1>2, <1>3 DEF FailChat

LEMMA CrashInv ==
    ASSUME IInv, NEW p \in Proc, Crash(p)
    PROVE  IInv'
<1>1. PICK g : g = Idle
  OBVIOUS
<1>2. PubStep(p, g) /\ PubFine(p, g) /\ g.pc = "idle" /\ g.pc \notin Inside /\ ~g.owner
  BY <1>1, IdleFacts DEF Crash, IInv
<1>3. lock' = (IF lock = p THEN None ELSE lock) /\ UNCHANGED gitlab
  BY DEF Crash
<1>4. CASE p \in Chat
  <2>1. PICK x : x = [Asked EXCEPT !.run = chat[p].run]
    OBVIOUS
  <2>2. x.pc = "idle" /\ x.run = chat[p].run /\ x.plan = None /\ DOMAIN x = DOMAIN Asked
    BY <2>1 DEF Asked
  <2>3. ChatFine(x)
    BY <1>4, <2>2, ChatFacts DEF ChatFine
  <2>4. ChatStays(p, x) /\ UNCHANGED rereview
    BY <1>4, <2>1, ChatFacts DEF ChatStays, Crash
  <2> QED
    BY <1>2, <1>3, <1>4, <2>3, <2>4, ChatMoves
<1>5. CASE p \notin Chat
  <2>1. p \in Rereview /\ p # None
    BY <1>5, UpdateAssumption DEF Proc
  <2>2. rereview' = [rereview EXCEPT ![p] = [Resting EXCEPT !.run = rereview[p].run]] /\ UNCHANGED chat
    BY <1>5 DEF Crash
  <2>3. PICK r : RereviewStays(p, r) /\ RereviewFine(r) /\ r.pc = "idle"
    BY <2>1, <2>2, RestingFacts
  <2> QED
    BY <1>2, <1>3, <2>1, <2>2, <2>3, RereviewMoves
<1> QED
  BY <1>4, <1>5
-----------------------------------------------------------------------------
(* The first publication.                                                  *)

LEMMA FirstThreads ==
    ASSUME NEW n \in Nat, n = Cardinality(Published), NEW threads \in [1..n -> Published],
           \A f \in Published : \E i \in DOMAIN threads : threads[i] = f
    PROVE  \A i, j \in 1..n : threads[i] = threads[j] => i = j
<1>1. IsFiniteSet(Published)
  BY FS_Subset, UpdateAssumption
<1>2. IsFiniteSet(1..n) /\ Cardinality(1..n) = n
  BY FS_Interval
<1>3. threads \in Surjection(1..n, Published)
  BY DEF Surjection
<1>4. threads \in Injection(1..n, Published)
  BY <1>1, <1>2, <1>3, FS_SurjSameCardinalityImpliesInj
<1> QED
  BY <1>4 DEF Injection, IsInjective

LEMMA InitReview ==
    ASSUME Init
    PROVE  Review /\ Pending = {}
<1>1. PICK threads \in [1..Cardinality(Published) -> Published] :
          /\ \A f \in Published : \E i \in DOMAIN threads : threads[i] = f
          /\ notes = [i \in 1..(Len(threads) + 1) |-> FirstNote(IF i = 1 THEN Root ELSE threads[i - 1])]
  BY DEF Init
<1>2. PICK n : n = Cardinality(Published)
  OBVIOUS
<1>3. n \in Nat
  BY <1>2, FS_Subset, FS_CardinalityType, UpdateAssumption
<1>4. Len(threads) = n /\ threads \in [1..n -> Published]
  BY <1>1, <1>2, <1>3
<1>5. \A i, j \in 1..n : threads[i] = threads[j] => i = j
  BY <1>1, <1>2, <1>3, <1>4, FirstThreads
<1>6. notes = [i \in 1..(n + 1) |-> FirstNote(IF i = 1 THEN Root ELSE threads[i - 1])]
  BY <1>1, <1>4
<1>7. ASSUME NEW i \in 1..(n + 1)
      PROVE  /\ notes[i] \in Note /\ ~notes[i].next /\ notes[i].rev = 1 /\ notes[i].state = "open"
             /\ notes[i].of = IF i = 1 THEN Root ELSE threads[i - 1]
  <2>1. PICK of : of = IF i = 1 THEN Root ELSE threads[i - 1]
    OBVIOUS
  <2>2. notes[i] = FirstNote(of)
    BY <1>6, <2>1
  <2>3. of \in Finding \cup {Root}
    <3>1. CASE i = 1
      BY <2>1, <3>1
    <3>2. CASE i # 1
      <4>1. i - 1 \in 1..n
        BY <1>3, <3>2
      <4> QED
        BY <1>4, <2>1, <3>2, <4>1, UpdateAssumption
    <3> QED
      BY <3>1, <3>2
  <2>4. PICK k : k = IF of = Root THEN Cardinality(Published) ELSE 0
    OBVIOUS
  <2>5. k \in Nat
    BY <1>2, <1>3, <2>4
  <2>6. notes[i] = [of |-> of, rev |-> 1, state |-> "open", next |-> FALSE, mark |-> None, archived |-> {}, total |-> k]
    BY <2>2, <2>4 DEF FirstNote
  <2> QED
    BY <2>1, <2>3, <2>5, <2>6 DEF Note
<1>8. notes \in Seq(Note) /\ Len(notes) = n + 1
  <2>1. n + 1 \in Nat
    BY <1>3
  <2>2. notes \in [1..(n + 1) -> Note]
    BY <1>6, <1>7
  <2> QED
    BY <2>1, <2>2
<1>9. Live(Root) = {1}
  <2>1. \A i \in 1..n : threads[i] # Root
    BY <1>4, UpdateAssumption
  <2>2. ASSUME NEW i \in 1..(n + 1), notes[i].of = Root PROVE i = 1
    BY <1>3, <1>7, <2>1, <2>2
  <2>3. 1 \in 1..(n + 1) /\ notes[1].of = Root /\ ~notes[1].next
    BY <1>3, <1>7
  <2> QED
    BY <1>8, <2>2, <2>3 DEF Live
<1>10. /\ versions = <<[op |-> None, seen |-> First, review |-> First]>> /\ Current = First
  BY DEF Init, Current
<1>11. First \in Version /\ First.rev = 1 /\ \A f \in Finding : First.find[f].rev <= 1
  BY DEF First, Version, FindingState, Absent
<1>12. ASSUME NEW f \in Finding PROVE Shows(f, First.find[f])
  <2>0. f # Root
    BY UpdateAssumption
  <2>1. CASE f \in Published
    <3>1. PICK i \in 1..n : threads[i] = f
      BY <1>1, <1>4, <2>1
    <3>2. i + 1 \in 1..(n + 1) /\ i + 1 # 1 /\ (i + 1) - 1 = i
      BY <1>3
    <3>3. PICK k : k = i + 1
      OBVIOUS
    <3>4. k \in Live(f)
      BY <1>7, <1>8, <3>1, <3>2, <3>3 DEF Live
    <3>5. ASSUME NEW j \in Live(f) PROVE j = k
      <4>1. j \in 1..(n + 1) /\ notes[j].of = f
        BY <1>8 DEF Live
      <4>2. j # 1 /\ j - 1 \in 1..n /\ threads[j - 1] = f
        BY <1>3, <1>7, <2>0, <4>1
      <4>3. j - 1 = i
        BY <1>5, <3>1, <4>2
      <4> QED
        BY <3>3, <4>1, <4>3
    <3>6. First.find[f] = [rev |-> notes[k].rev, state |-> notes[k].state]
      BY <1>7, <2>1, <3>2, <3>3 DEF First
    <3>7. First.find[f] # Absent
      BY <2>1 DEF First, Absent
    <3> QED
      BY <3>4, <3>5, <3>6, <3>7 DEF Shows
  <2>2. CASE f \notin Published
    <3>1. First.find[f] = Absent
      BY <2>2 DEF First
    <3>2. ASSUME NEW j \in Live(f) PROVE FALSE
      <4>1. j \in 1..(n + 1) /\ notes[j].of = f
        BY <1>8 DEF Live
      <4>2. j # 1 /\ j - 1 \in 1..n /\ threads[j - 1] = f
        BY <1>3, <1>7, <2>0, <4>1
      <4> QED
        BY <1>4, <2>2, <4>2
    <3> QED
      BY <3>1, <3>2 DEF Shows
  <2> QED
    BY <2>1, <2>2
<1>13. Pending = {}
  BY DEF Init, Pending
<1>14. notes[1].rev = 1
  BY <1>3, <1>7
<1>15. versions \in Seq([op : Op \cup {None}, seen : Version, review : Version]) /\ versions # <<>>
  BY <1>10, <1>11
<1> QED
  BY <1>8, <1>9, <1>10, <1>11, <1>12, <1>13, <1>14, <1>15 DEF Review

LEMMA InitInv ==
    ASSUME Init
    PROVE  IInv
<1>1. Records
  BY FS_EmptySet DEF Init, Records
<1>2. Review /\ Staged
  BY InitReview DEF Staged
<1>3. \A p \in Proc : pub[p] = Idle
  BY DEF Init
<1>4. Idle.pc = "idle" /\ Idle.pc \notin Inside /\ ~Idle.owner /\ \A p : PubFine(p, Idle)
  BY DEF Idle, Inside, PubFine, ReqFine
<1>5. Publishers
  <2>1. PICK g : g = Idle
    OBVIOUS
  <2>2. Knows(g)
    BY <1>4, <2>1, OutsideKnows
  <2> QED
    BY <1>3, <1>4, <2>1, <2>2 DEF Publishers, Init
<1>6. ChatFine(Asked) /\ Asked.pc = "idle"
  BY UpdateAssumption DEF ChatFine, Asked
<1>7. RereviewFine(Resting) /\ Resting.pc = "idle"
  BY UpdateAssumption DEF RereviewFine, Resting
<1>8. Locks
  BY <1>3, <1>4, <1>7, UpdateAssumption DEF Locks, Init, Proc
<1>9. Chats
  BY <1>3, <1>4, <1>6 DEF Chats, Init, Proc
<1>10. Rereviews
  BY <1>7 DEF Rereviews, Init
<1> QED
  BY <1>1, <1>2, <1>5, <1>8, <1>9, <1>10 DEF IInv

LEMMA PublisherInv ==
    ASSUME IInv, NEW p \in Proc, PublisherStep(p), UNCHANGED <<chat, rereview>>
    PROVE  IInv'
BY LockMRInv, RecoveredInv, CheckInv, StageInv, BeginApplyInv, ApplyInv, ApplyRedirectInv, ApplyRootInv,
   CleanInv, ReadFailsInv, RecoverOneInv DEF PublisherStep

LEMMA StutterInv ==
    ASSUME IInv, UNCHANGED vars
    PROVE  IInv'
<1>1. UNCHANGED gitlab /\ UNCHANGED <<lock, pub, chat, rereview>>
  BY DEF vars, locks
<1>2. Records' /\ Staged' /\ Review' /\ \A g : Knows(g)' = Knows(g)
  BY <1>1, SameReview DEF IInv
<1>3. Publishers'
  <2> SUFFICES ASSUME NEW p \in Proc PROVE PubFine(p, pub[p]) /\ Knows(pub[p])'
    BY <1>1 DEF Publishers, PubFine, ReqFine, Decided, IInv
  <2>1. PICK g : g = pub[p]
    OBVIOUS
  <2>2. Knows(g)'
    BY <1>2, <2>1 DEF IInv, Publishers
  <2> QED
    BY <1>1, <2>1, <2>2 DEF IInv, Publishers, Knows
<1>4. Locks' /\ Chats' /\ Rereviews'
  BY <1>1 DEF IInv, Locks, Chats, Rereviews, ChatFine, PlanFine, RereviewFine, Decided
<1> QED
  BY <1>2, <1>3, <1>4 DEF IInv

LEMMA NextInv ==
    ASSUME IInv, [Next]_vars
    PROVE  IInv'
<1>1. ASSUME NEW p \in Proc, PublisherStep(p) /\ UNCHANGED <<chat, rereview>> PROVE IInv'
  BY <1>1, PublisherInv
<1>2. ASSUME NEW p \in Rereview, StartRereview(p) \/ RereviewStep(p) PROVE IInv'
  BY <1>2, StartRereviewInv, PublishRereviewInv, RebaseRereviewInv, EndRereviewInv DEF RereviewStep
<1>3. ASSUME NEW c \in Chat, StartChat(c) \/ ChatStep(c) \/ FailChat(c) PROVE IInv'
  BY <1>3, FailChatInv, StartChatInv, AttemptInv, ExecuteChatInv, PublishChatInv, PublishedChatInv DEF ChatStep
<1>4. ASSUME NEW p \in Proc, Crash(p) PROVE IInv'
  BY <1>4, CrashInv
<1>5. CASE UNCHANGED vars
  BY <1>5, StutterInv
<1> QED
  BY <1>1, <1>2, <1>3, <1>4, <1>5 DEF Next

\* Whatever happened, an activation that has not committed is the newest record, its chunks are
\* complete and hold the transaction, each thread is somewhere between the two versions, and whoever
\* writes holds the lock.
THEOREM Inductive == Spec => []IInv
<1>1. Init => IInv
  BY InitInv
<1>2. IInv /\ [Next]_vars => IInv'
  BY NextInv
<1> QED
  BY <1>1, <1>2, PTL DEF Spec
-----------------------------------------------------------------------------
(* What follows from it.                                                   *)

Held == lock \in Proc \cup {None} /\ exec \in Chat \cup {None}

LEMMA PublisherHolds ==
    ASSUME Held, NEW p \in Proc, PublisherStep(p)
    PROVE  Held'
<1>1. exec' = exec
  BY DEF PublisherStep, LockMR, Recovered, Check, Stage, BeginApply, Apply, ApplyRedirect, ApplyRoot,
         Clean, ReadFails, RecoverOne, locks
<1>2. \A a : Return(p, a) => lock' \in {lock, None}
  BY DEF Return
<1>3. ASSUME NEW item, NEW next, ApplyItem(p, item, next) PROVE lock' \in {lock, None}
  BY <1>2, <1>3 DEF ApplyItem, Send
<1>4. lock' \in {lock, None, p}
  <2>1. CASE LockMR(p)
    BY <2>1 DEF LockMR
  <2>2. CASE Recovered(p) \/ Check(p) \/ Clean(p) \/ ReadFails(p) \/ \E op \in pub[p].ops : RecoverOne(p, op)
    BY <1>2, <2>2 DEF Recovered, Check, Clean, ReadFails, RecoverOne
  <2>3. CASE Stage(p) \/ BeginApply(p)
    BY <1>2, <2>3 DEF Stage, Send, BeginApply, locks
  <2>4. CASE Apply(p) \/ ApplyRedirect(p) \/ ApplyRoot(p)
    BY <1>2, <2>4 DEF Apply, ApplyRedirect, ApplyRoot, ApplyItem, Send
  <2> QED
    BY <2>1, <2>2, <2>3, <2>4 DEF PublisherStep
<1> QED
  BY <1>1, <1>4 DEF Held

LEMMA HeldInv == Spec => []Held
<1>1. Init => Held
  BY DEF Init, Held
<1>2. Held /\ [Next]_vars => Held'
  <2> SUFFICES ASSUME Held, [Next]_vars PROVE Held'
    OBVIOUS
  <2>1. ASSUME NEW p \in Proc, PublisherStep(p) PROVE Held'
    BY <2>1, PublisherHolds
  <2>2. ASSUME NEW p \in Rereview, StartRereview(p) \/ RereviewStep(p) PROVE Held'
    BY <2>2 DEF StartRereview, RereviewStep, PublishRereview, RebaseRereview, EndRereview, locks, Held, Proc
  <2>3. ASSUME NEW c \in Chat, StartChat(c) \/ ChatStep(c) \/ FailChat(c) PROVE Held'
    BY <2>3 DEF FailChat, StartChat, ChatStep, Attempt, ExecuteChat, PublishChat, PublishedChat, RetryLater, EndChat,
                EndAttempt, locks, Held
  <2>4. ASSUME NEW p \in Proc, Crash(p) PROVE Held'
    BY <2>4 DEF Crash, Held
  <2>5. CASE UNCHANGED vars
    BY <2>5 DEF vars, locks, Held
  <2> QED
    BY <2>1, <2>2, <2>3, <2>4, <2>5 DEF Next
<1> QED
  BY <1>1, <1>2, PTL DEF Spec

\* Every variable has its type: what was staged, written and committed are notes and versions, and
\* what a process still has to do concerns findings and operations there are.
THEOREM Types == Spec => []TypeOK
<1>1. IInv /\ Held => TypeOK
  <2> SUFFICES ASSUME IInv, Held PROVE TypeOK
    OBVIOUS
  <2>1. \A i \in 1..Len(versions) : versions[i].review \in Version
    <3>1. versions \in Seq([op : Op \cup {None}, seen : Version, review : Version])
      BY DEF IInv, Review
    <3>2. \A i \in 1..Len(versions) : versions[i] \in [op : Op \cup {None}, seen : Version, review : Version]
      BY <3>1, ElementOfSeq
    <3> QED
      BY <3>2
  <2>2. \A p \in Proc : pub[p].left \subseteq Finding /\ pub[p].ops \subseteq Op
    BY DEF IInv, Publishers, PubFine
  <2> QED
    BY <2>1, <2>2 DEF TypeOK, Held, IInv, Records, Review
<1> QED
  BY <1>1, Inductive, HeldInv, PTL

\* ReviewResultsByID returns nothing, or the version that was committed last: while some notes are
\* written and others are not, a reader is told that there is no review to read.
THEOREM WholeVersions == Spec => []ReaderSeesVersions
<1>1. IInv => ReaderSeesVersions
  BY ViewFacts DEF ReaderSeesVersions, IInv
<1> QED
  BY <1>1, Inductive, PTL

\* With no update under way each finding has the one live thread that shows the current version,
\* whatever was retried, resumed or interrupted before: no discussion is opened twice or left behind.
THEOREM OneThreadEach == Spec => []ThreadsMatch
<1>1. IInv => ThreadsMatch
  <2> SUFFICES ASSUME IInv, \A op \in {r.op : r \in records} : ~Uncommitted(op), NEW f \in Finding
               PROVE  LET live == {i \in 1..Len(notes) : notes[i].of = f /\ ~notes[i].next}
                      IN  IF Current.find[f] = Absent THEN live = {}
                          ELSE \E i \in live : /\ live = {i}
                                               /\ [rev |-> notes[i].rev, state |-> notes[i].state]
                                                      = Current.find[f]
    BY DEF ThreadsMatch
  <2>1. ASSUME NEW r \in Pending PROVE FALSE
    <3>1. r \in records
      BY DEF Pending
    <3>2. Uncommitted(r.op)
      BY UncommittedFacts DEF IInv
    <3> QED
      BY <3>1, <3>2
  <2>2. Shows(f, Current.find[f])
    BY <2>1 DEF IInv, Review
  <2> QED
    BY <2>2 DEF Shows, Live
<1> QED
  BY <1>1, Inductive, PTL

LEMMA VersionsGrow ==
    ASSUME IInv, [Next]_vars, versions' # versions
    PROVE  \E p \in Proc : ApplyRoot(p) /\ UNCHANGED <<chat, rereview>>
<1>1. ASSUME NEW p \in Proc, PublisherStep(p), UNCHANGED <<chat, rereview>>
      PROVE  ApplyRoot(p) /\ UNCHANGED <<chat, rereview>>
  <2>1. Stage(p) => versions' = versions
    BY DEF Stage, Send, Record, gitlab
  <2> QED
    BY <1>1, <2>1 DEF PublisherStep, LockMR, Recovered, Check, BeginApply, Apply, ApplyRedirect,
                      Clean, ReadFails, RecoverOne, gitlab
<1>2. ASSUME NEW p \in Rereview, StartRereview(p) \/ RereviewStep(p) PROVE FALSE
  BY <1>2 DEF StartRereview, RereviewStep, PublishRereview, RebaseRereview, EndRereview, gitlab
<1>3. ASSUME NEW c \in Chat, StartChat(c) \/ ChatStep(c) \/ FailChat(c) PROVE FALSE
  BY <1>3 DEF FailChat, StartChat, ChatStep, Attempt, ExecuteChat, PublishChat, PublishedChat, gitlab
<1>4. ASSUME NEW p \in Proc, Crash(p) PROVE FALSE
  BY <1>4 DEF Crash, gitlab
<1>5. CASE UNCHANGED vars
  BY <1>5 DEF vars, gitlab
<1> QED
  BY <1>1, <1>2, <1>3, <1>4, <1>5 DEF Next

\* What a commit does to the history.
LEMMA CommitFacts ==
    ASSUME IInv, NEW p \in Proc, ApplyRoot(p), versions' # versions
    PROVE  /\ HasTx(pub[p].tx) /\ Commits(pub[p].tx)
           /\ \A f \in DOMAIN pub[p].tx.items : Done(f, pub[p].tx.items[f])
<1>1. PICK tx : tx = pub[p].tx
  OBVIOUS
<1>2. /\ HasTx(tx) /\ \A f \in DOMAIN tx.items : Done(f, tx.items[f])
      /\ Commits(tx) \/ UNCHANGED gitlab
  BY <1>1, RootEdit
<1> QED
  BY <1>1, <1>2 DEF gitlab

\* A change of a finding that is committed, by whoever it was decided and however often it was
\* rebased, retried or resumed, was decided on the copy of the finding that it replaces.
THEOREM DecidedOnCurrent == Spec => EvaluatedOnCurrent
<1> DEFINE Step == versions' # versions =>
                     LET new == versions'[Len(versions')] IN
                     \A f \in Finding : new.review.find[f] # Current.find[f] =>
                                            new.seen.find[f] = Current.find[f]
<1>1. IInv /\ [Next]_vars => Step
  <2> SUFFICES ASSUME IInv, [Next]_vars, versions' # versions
               PROVE  \A f \in Finding : versions'[Len(versions')].review.find[f] # Current.find[f] =>
                                             versions'[Len(versions')].seen.find[f] = Current.find[f]
    OBVIOUS
  <2>1. PICK p \in Proc : ApplyRoot(p)
    BY VersionsGrow
  <2>2. PICK tx : tx = pub[p].tx
    OBVIOUS
  <2>3. HasTx(tx) /\ Commits(tx) /\ \A f \in DOMAIN tx.items : Done(f, tx.items[f])
    BY <2>1, <2>2, CommitFacts
  <2>4. versions'[Len(versions')] = [op |-> tx.op, seen |-> tx.seen, review |-> tx.after]
    BY <2>3, RootWritten DEF IInv
  <2>5. \A f \in Finding : tx.after.find[f] # Current.find[f] => tx.seen.find[f] = Current.find[f]
    BY <2>3, TheTx DEF IInv, Fits, Leads
  <2> QED
    BY <2>4, <2>5
<1>2. Spec => [][Step]_vars
  <2>1. [Next]_vars /\ IInv => [Step]_vars
    BY <1>1
  <2> QED
    BY <2>1, Inductive, PTL DEF Spec
<1> QED
  BY <1>2 DEF EvaluatedOnCurrent
-----------------------------------------------------------------------------
(* Published once.                                                         *)

Marks == {notes[Target(Root)].mark} \cup notes[Target(Root)].archived
Fresh(op) == \A i \in 1..Len(versions) : versions[i].op # op
Unpublished(op) == Fresh(op) /\ \A r \in Pending : r.op # op
Archives(T) == Marks \ {None} \subseteq T.root.body.archived

\* The operations that are committed, once each, and the one that is about to be: the markers keep
\* all of them.
History ==
    /\ \A i, j \in 1..Len(versions) : versions[i].op = versions[j].op => i = j
    /\ \A i \in 1..Len(versions) : versions[i].op \in {None} \cup Marks
    /\ \A r \in Pending : \A c \in Newest(r) : Fresh(c.tx.op) /\ Archives(c.tx)

\* A process that applies what it staged itself; one whose request is still to be staged.
Own(g) == g.pc \in {"apply", "redirect", "clean"} /\ g.ops = {}
Asking(g) == g.req # None /\ g.pc \in {"lock", "recover", "check", "apply", "redirect", "clean"} /\ ~Own(g)
Once(p, g) ==
    /\ g.pc \in {"check", "stage", "staged"} => g.ops = {}
    /\ g.pc = "stage" => g.tx.op[1] = p /\ Unpublished(g.tx.op) /\ Archives(g.tx)
    /\ Asking(g) => Unpublished(g.req.op)

\* The operations of a re-review come in the order of its runs and attempts.
Earlier(op, r) ==
    IF r.pc = "idle" THEN op[2] <= r.run
    ELSE op[2] < r.run \/ (op[2] = r.run /\ op[3] <= r.attempt)
InTurn(p, r, g) ==
    /\ \A q \in records : q.op[1] = p => Earlier(q.op, r)
    /\ \A i \in 1..Len(versions) : versions[i].op # None /\ versions[i].op[1] = p => Earlier(versions[i].op, r)
    /\ g.req # None => Earlier(g.req.op, r)
    /\ g.pc = "stage" => Earlier(g.tx.op, r)

OnceInv ==
    /\ History
    /\ \A p \in Proc : Once(p, pub[p])
    /\ \A c \in Chat : chat[c].pc = "evaluated" => Unpublished(ChatOp(c))
    /\ \A p \in Rereview : InTurn(p, rereview[p], pub[p])

-----------------------------------------------------------------------------
(* What a step of a publisher does to the history.                         *)

Quiet ==
    /\ Pending' = Pending /\ versions' = versions /\ Marks' = Marks
    /\ \A r \in Pending : Newest(r)' = Newest(r)

\* The operation that p puts on record, if it does, is that of its request.
Effects(p) ==
    /\ History'
    /\ \A op : Unpublished(op) /\ (pub[p].pc = "stage" /\ pub[p].part = Parts => op # pub[p].tx.op)
                   => Unpublished(op)'
    /\ \A r \in records' : r \in records \/ (pub[p].pc = "stage" /\ r.op = pub[p].tx.op)
    /\ \A i \in 1..Len(versions') :
           \/ i \in 1..Len(versions) /\ versions'[i] = versions[i]
           \/ \E r \in records : versions'[i].op = r.op
    /\ pub[p].pc \in {"check", "stage"} => Marks' = Marks

LEMMA MarksStay ==
    ASSUME Review, SameThread(Root), versions' = versions
    PROVE  Marks' = Marks
<1>1. PICK t : t = Target(Root)
  OBVIOUS
<1>2. Target(Root)' = t /\ notes'[t] = notes[t]
  BY <1>1, RootStays
<1> QED
  BY <1>1, <1>2 DEF Marks

LEMMA QuietHistory ==
    ASSUME OnceInv, Quiet
    PROVE  /\ History' /\ \A op : Unpublished(op)' = Unpublished(op)
           /\ \A T : Archives(T)' = Archives(T)
<1>1. \A op : Fresh(op)' = Fresh(op) /\ Unpublished(op)' = Unpublished(op)
  BY DEF Quiet, Fresh, Unpublished
<1>2. \A T : Archives(T)' = Archives(T)
  BY DEF Quiet, Archives
<1>3. History'
  BY <1>1, <1>2 DEF Quiet, OnceInv, History
<1> QED
  BY <1>1, <1>2, <1>3

LEMMA QuietEffects ==
    ASSUME OnceInv, NEW p, Quiet,
           \A r \in records' : r \in records \/ (pub[p].pc = "stage" /\ r.op = pub[p].tx.op)
    PROVE  Effects(p)
BY QuietHistory DEF Effects, Quiet

LEMMA SameIsQuiet ==
    ASSUME Review, UNCHANGED gitlab
    PROVE  Quiet /\ records' = records
<1>1. notes' = notes /\ records' = records /\ versions' = versions
  BY DEF gitlab
<1>2. SameThread(Root) /\ Pending' = Pending
  BY <1>1, SameNotes, SameReview
<1>3. \A r : Newest(r)' = Newest(r)
  BY <1>1 DEF Newest, Chunk, OfOp
<1> QED
  BY <1>1, <1>2, <1>3, MarksStay DEF Quiet

LEMMA ThreadEffects ==
    ASSUME IInv, OnceInv, NEW p \in Proc, Apply(p) \/ ApplyRedirect(p)
    PROVE  Effects(p)
<1>1. CASE UNCHANGED gitlab
  BY <1>1, SameIsQuiet, QuietEffects DEF IInv
<1>2. CASE SameThread(Root) /\ records' = records /\ versions' = versions
  <2>1. Marks' = Marks /\ RootRev' = RootRev
    BY <1>2, MarksStay, RootStays DEF IInv
  <2>2. Pending' = Pending /\ \A r : Newest(r)' = Newest(r)
    BY <1>2, <2>1 DEF Pending, Newest, Chunk, OfOp
  <2> QED
    BY <1>2, <2>1, <2>2, QuietEffects DEF Quiet
<1>3. ASSUME NEW f \in Finding, NEW item, Written(f, item) PROVE SameThread(Root)
  BY <1>3, UpdateAssumption DEF Written
<1>4. ASSUME NEW f \in Finding, NEW item, Finished(f, item) PROVE SameThread(Root)
  BY <1>4, UpdateAssumption DEF Finished
<1>5. CASE Apply(p)
  <2>1. PICK tx, f, item : /\ f \in Finding /\ records' = records /\ versions' = versions
                           /\ UNCHANGED gitlab \/ Written(f, item)
    BY <1>5, ApplyWrites
  <2> QED
    BY <1>1, <1>2, <1>3, <2>1
<1>6. CASE ApplyRedirect(p)
  <2>1. PICK tx, f : tx = pub[p].tx /\ f = pub[p].moved
    OBVIOUS
  <2>2. PICK item : item = tx.items[f]
    OBVIOUS
  <2>3. f \in Finding /\ records' = records /\ versions' = versions /\ (UNCHANGED gitlab \/ Finished(f, item))
    BY <1>6, <2>1, <2>2, RedirectWrites
  <2> QED
    BY <1>1, <1>2, <1>4, <2>3
<1> QED
  BY <1>5, <1>6

LEMMA StageEffects ==
    ASSUME IInv, OnceInv, NEW p \in Proc, Stage(p)
    PROVE  Effects(p)
<1>1. PICK tx, part : tx = pub[p].tx /\ part = pub[p].part
  OBVIOUS
<1>2. /\ pub[p].pc = "stage" /\ Fits(tx) /\ part \in 0..Parts /\ Chunked(tx, part) /\ Pending = {}
      /\ Unpublished(tx.op) /\ Archives(tx)
  BY <1>1, PubFacts DEF Stage, Knows, OnceInv, Once
<1>3. CASE UNCHANGED gitlab
  BY <1>3, SameIsQuiet, QuietEffects DEF IInv
<1>4. CASE Record(tx, part)
  <2>1. /\ part # Parts => Pending' = {}
        /\ part = Parts => HasTx(tx)'
    BY <1>2, <1>4, Recorded DEF IInv
  <2>2. SameThread(Root) /\ notes' = notes /\ versions' = versions
    BY <1>4, SameNotes DEF Record
  <2>3. Marks' = Marks
    BY <2>2, MarksStay DEF IInv
  <2>4. \A r \in records' : r \in records \/ r.op = tx.op
    BY <1>4 DEF Record
  <2>5. CASE part # Parts
    <3>1. Quiet
      BY <1>2, <2>1, <2>2, <2>3, <2>5 DEF Quiet
    <3> QED
      BY <1>1, <1>2, <2>4, <3>1, QuietEffects
  <2>6. CASE part = Parts
    <3>1. /\ \A op : Fresh(op)' = Fresh(op)
          /\ \A T : Archives(T)' = Archives(T)
      BY <2>2, <2>3 DEF Fresh, Archives
    <3>2. \A r \in Pending' : r.op = tx.op /\ \A c \in Newest(r)' : c.tx = tx
      BY <1>2, <1>4, <2>6, Recorded DEF IInv
    <3>3. History'
      <4>1. ASSUME NEW r \in Pending', NEW c \in Newest(r)' PROVE Fresh(c.tx.op)' /\ Archives(c.tx)'
        <5>1. PICK op, T : op = c.tx.op /\ T = c.tx
          OBVIOUS
        <5>2. op = tx.op /\ T = tx
          BY <3>2, <5>1
        <5>3. Fresh(op)' /\ Archives(T)'
          BY <1>2, <3>1, <5>2 DEF Unpublished
        <5> QED
          BY <5>1, <5>3
      <4> QED
        BY <2>2, <2>3, <4>1 DEF OnceInv, History
    <3>4. ASSUME NEW op, Unpublished(op), op # tx.op PROVE Unpublished(op)'
      BY <3>1, <3>2, <3>4 DEF Unpublished
    <3> QED
      BY <1>1, <1>2, <2>2, <2>3, <2>4, <2>6, <3>3, <3>4 DEF Effects
  <2> QED
    BY <2>5, <2>6
<1> QED
  BY <1>1, <1>3, <1>4 DEF Stage, Send

LEMMA RootEffects ==
    ASSUME IInv, OnceInv, NEW p \in Proc, ApplyRoot(p)
    PROVE  Effects(p)
<1>1. PICK tx : tx = pub[p].tx
  OBVIOUS
<1>2. /\ pub[p].pc = "apply" /\ HasTx(tx) /\ \A f \in DOMAIN tx.items : Done(f, tx.items[f])
      /\ Commits(tx) \/ UNCHANGED gitlab
  BY <1>1, RootEdit
<1>3. CASE UNCHANGED gitlab
  BY <1>3, SameIsQuiet, QuietEffects DEF IInv
<1>4. CASE Commits(tx)
  <2>1. PICK t, l : t = Target(Root) /\ l = Len(versions)
    OBVIOUS
  <2>2. /\ Pending' = {} /\ Target(Root)' = t /\ notes'[t] = tx.root.body /\ Len(versions') = l + 1
        /\ versions'[l + 1] = [op |-> tx.op, seen |-> tx.seen, review |-> tx.after]
        /\ \A i \in 1..l : versions'[i] = versions[i]
    BY <1>2, <1>4, <2>1, RootWritten DEF IInv
  <2>3. l \in Nat
    BY <2>1, LenProperties DEF IInv, Review
  <2>4. Fits(tx) /\ tx.root.body.mark = tx.op
    BY <1>2, TheTx DEF IInv, Fits, RootFine
  <2>5. Marks' = {tx.op} \cup tx.root.body.archived
    BY <2>2, <2>4 DEF Marks
  <2>6. PICK r \in Pending : r.op = tx.op /\ \E c \in Newest(r) : c.tx = tx
    BY <1>2, TheTx DEF IInv, HasTx
  <2>7. Fresh(tx.op) /\ Archives(tx) /\ r \in records
    BY <2>6 DEF OnceInv, History, Pending
  <2>8. versions'[l + 1].op = tx.op
    BY <2>2
  <2>9. \A i \in 1..(l + 1) : i \in 1..l \/ i = l + 1
    BY <2>3
  <2>10. ASSUME NEW i \in 1..(l + 1), NEW j \in 1..(l + 1), versions'[i].op = versions'[j].op PROVE i = j
    BY <2>1, <2>2, <2>7, <2>8, <2>9, <2>10 DEF OnceInv, History, Fresh
  <2>11. ASSUME NEW i \in 1..(l + 1) PROVE versions'[i].op \in {None} \cup Marks'
    <3>1. CASE i \in 1..l
      <4>1. versions'[i].op \in {None} \cup Marks
        BY <2>1, <2>2, <3>1 DEF OnceInv, History
      <4> QED
        BY <2>5, <2>7, <4>1 DEF Archives
    <3>2. CASE i = l + 1
      BY <2>5, <2>8, <3>2
    <3> QED
      BY <2>9, <3>1, <3>2
  <2>12. History'
    BY <2>2, <2>10, <2>11 DEF History
  <2>13. ASSUME NEW op, Unpublished(op) PROVE Unpublished(op)'
    <3>1. op # tx.op /\ Fresh(op)
      BY <2>6, <2>13 DEF Unpublished
    <3>2. Fresh(op)'
      BY <2>1, <2>2, <2>8, <2>9, <3>1 DEF Fresh
    <3> QED
      BY <2>2, <3>2 DEF Unpublished
  <2>14. records' = records
    BY <1>4 DEF Commits
  <2> QED
    BY <1>2, <2>1, <2>2, <2>6, <2>7, <2>8, <2>9, <2>12, <2>13, <2>14 DEF Effects
<1> QED
  BY <1>2, <1>3, <1>4

LEMMA PublisherEffects ==
    ASSUME IInv, OnceInv, NEW p \in Proc, PublisherStep(p)
    PROVE  Effects(p)
<1>1. CASE UNCHANGED gitlab
  BY <1>1, SameIsQuiet, QuietEffects DEF IInv
<1>2. CASE Clean(p)
  <2>1. PICK op : op = pub[p].tx.op
    OBVIOUS
  <2>2. pub[p].pc = "clean" /\ \A r \in Pending : r.op # op
    BY <1>2, <2>1, PubFacts DEF Clean, Knows
  <2>3. PICK kept \in SUBSET OfOp(op) : records' = records \ (OfOp(op) \ kept)
    BY <1>2, <2>1 DEF Clean
  <2>4. /\ records' \subseteq records /\ \A r \in records : r.op # op => r \in records'
        /\ notes' = notes /\ versions' = versions
    BY <1>2, <2>3 DEF OfOp, Clean
  <2>5. Pending' = Pending /\ \A r \in Pending : Newest(r)' = Newest(r)
    BY <2>2, <2>4, Cleaned DEF IInv
  <2>6. Marks' = Marks
    BY <2>4, SameNotes, MarksStay DEF IInv
  <2> QED
    BY <2>4, <2>5, <2>6, QuietEffects DEF Quiet
<1>3. CASE Stage(p) \/ Apply(p) \/ ApplyRedirect(p) \/ ApplyRoot(p)
  BY <1>3, StageEffects, ThreadEffects, RootEffects
<1> QED
  BY <1>1, <1>2, <1>3 DEF PublisherStep, LockMR, Recovered, Check, BeginApply, ReadFails, RecoverOne

-----------------------------------------------------------------------------
(* What it does to the publisher itself.                                   *)

Local(p, g) ==
    /\ PubStep(p, g) /\ Once(p, g)' /\ g.req \in {pub[p].req, None}
    /\ g.pc = "stage" => \/ pub[p].pc = "stage" /\ g.tx = pub[p].tx
                         \/ pub[p].pc = "check" /\ pub[p].req # None /\ g.tx.op = pub[p].req.op

LEMMA ReturnLocal ==
    ASSUME Publishers, NEW p \in Proc, \E a \in Answer : Return(p, a)
    PROVE  \E g : Local(p, g)
<1>1. PICK a \in Answer : Return(p, a)
  OBVIOUS
<1>2. PICK g : g = [Idle EXCEPT !.pc = a]
  OBVIOUS
<1>3. PubStep(p, g)
  BY <1>1, <1>2, ReturnFacts
<1>4. g.pc = a /\ g.req = None
  BY <1>2 DEF Idle
<1>5. Once(p, g)'
  BY <1>1, <1>4 DEF Once, Asking, Answer
<1> QED
  BY <1>1, <1>3, <1>4, <1>5 DEF Local, Answer

LEMMA OnwardLocal ==
    ASSUME IInv, OnceInv, NEW p \in Proc, Effects(p), NEW g, PubStep(p, g), g.req = pub[p].req,
           g.pc \notin {"check", "stage", "staged"}, Asking(g) => Asking(pub[p]), pub[p].pc # "stage"
    PROVE  Local(p, g)
<1>1. ASSUME Asking(g) PROVE Unpublished(g.req.op)'
  <2>1. PICK op : op = g.req.op
    OBVIOUS
  <2>2. Unpublished(op)
    BY <1>1, <2>1 DEF OnceInv, Once
  <2>3. Unpublished(op)'
    BY <2>2 DEF Effects
  <2> QED
    BY <2>1, <2>3 DEF Unpublished, Fresh
<1>2. Once(p, g)'
  BY <1>1 DEF Once, Asking, Own
<1> QED
  BY <1>2 DEF Local

LEMMA EarlyLocal ==
    ASSUME IInv, OnceInv, NEW p \in Proc, Effects(p),
           LockMR(p) \/ Recovered(p) \/ \E op \in pub[p].ops : RecoverOne(p, op)
    PROVE  \E g : Local(p, g)
<1>1. PICK g : g = pub'[p]
  OBVIOUS
<1>2. CASE LockMR(p)
  <2>1. PubStep(p, g) /\ g.pc = "recover" /\ g.req = pub[p].req /\ pub[p].pc = "lock"
    BY <1>1, <1>2, PubFacts DEF LockMR, PubStep, IInv, Publishers
  <2>2. Asking(g) => Asking(pub[p])
    BY <2>1 DEF Asking, Own
  <2> QED
    BY <2>1, <2>2, OnwardLocal
<1>3. CASE Recovered(p)
  <2>1. CASE Return(p, "ok")
    BY <2>1, ReturnLocal DEF IInv, Answer
  <2>2. CASE Goto(p, "check")
    <3>1. /\ PubStep(p, g) /\ g.pc = "check" /\ g.req = pub[p].req /\ g.ops = pub[p].ops
          /\ pub[p].pc = "recover" /\ pub[p].ops = {}
      BY <1>1, <1>3, <2>2, PubFacts DEF Recovered, Goto, PubStep, IInv, Publishers
    <3>2. ASSUME g.req # None PROVE Unpublished(g.req.op)'
      <4>1. PICK op : op = g.req.op
        OBVIOUS
      <4>2. Asking(pub[p])
        BY <3>1, <3>2 DEF Asking, Own
      <4>3. Unpublished(op)
        BY <3>1, <4>1, <4>2 DEF OnceInv, Once
      <4>4. Unpublished(op)'
        BY <3>1, <4>3 DEF Effects
      <4> QED
        BY <4>1, <4>4 DEF Unpublished, Fresh
    <3>3. Once(p, g)'
      BY <3>1, <3>2 DEF Once, Asking
    <3> QED
      BY <3>1, <3>3 DEF Local
  <2> QED
    BY <1>3, <2>1, <2>2 DEF Recovered
<1>4. ASSUME NEW op \in pub[p].ops, RecoverOne(p, op) PROVE \E h : Local(p, h)
  <2>1. CASE Return(p, "error")
    BY <2>1, ReturnLocal DEF IInv, Answer
  <2>2. CASE ~Return(p, "error")
    <3>1. /\ PubStep(p, g) /\ g.pc \in {"clean", "apply"} /\ g.req = pub[p].req /\ g.ops = pub[p].ops
          /\ pub[p].pc = "recover" /\ g.ops # {}
      <4>1. pub[p].pc = "recover" /\ pub[p].ops # {}
        BY <1>4 DEF RecoverOne
      <4>2. CASE pub' = [pub EXCEPT ![p].pc = "clean", ![p].tx = [op |-> op]]
        BY <1>1, <4>1, <4>2, PubFacts DEF PubStep, IInv, Publishers
      <4>3. ASSUME NEW tx, NEW left, pub' = [pub EXCEPT ![p].pc = "apply", ![p].tx = tx, ![p].left = left]
            PROVE  PubStep(p, g) /\ g.pc = "apply" /\ g.req = pub[p].req /\ g.ops = pub[p].ops
        BY <1>1, <4>3, PubFacts DEF PubStep, IInv, Publishers
      <4> QED
        BY <1>4, <2>2, <4>1, <4>2, <4>3 DEF RecoverOne
    <3>2. Asking(g) => Asking(pub[p])
      BY <3>1 DEF Asking, Own
    <3> QED
      BY <3>1, <3>2, OnwardLocal
  <2> QED
    BY <2>1, <2>2
<1> QED
  BY <1>2, <1>3, <1>4

\* Unless the change is one of the context only, the summary keeps every marker it had.
LEMMA TransactionArchives ==
    ASSUME HistoryLimit = None,
           NEW req, Changed(req) # {} \/ req.verdict = "visible", NEW T, T = Transaction(req)
    PROVE  T.op = req.op /\ Archives(T)
<1>1. /\ T.op = req.op
      /\ T.root.body.archived = WithHistory(notes[Target(Root)].archived
                                            \cup ({notes[Target(Root)].mark} \ {None}))
  BY TransactionFacts
<1>2. PICK all : all = notes[Target(Root)].archived \cup ({notes[Target(Root)].mark} \ {None})
  OBVIOUS
<1>3. T.root.body.archived = all
  BY <1>1, <1>2, HistoryFacts
<1> QED
  BY <1>1, <1>2, <1>3, TransactionFacts DEF Archives, Marks

LEMMA CheckLocal ==
    ASSUME "context" \notin Verdicts, HistoryLimit = None, IInv, OnceInv, NEW p \in Proc, Effects(p), Check(p)
    PROVE  \E g : Local(p, g)
<1>1. PICK g, req : g = pub'[p] /\ req = pub[p].req
  OBVIOUS
<1>2. pub[p].pc = "check" /\ UNCHANGED gitlab
  BY DEF Check
<1>3. CASE \E a \in {"conflict", "ok"} : Return(p, a)
  BY <1>3, ReturnLocal DEF IInv, Answer
<1>4. CASE /\ Changed(req) # {} \/ req.verdict # "none"
           /\ pub' = [pub EXCEPT ![p].pc = "stage", ![p].tx = Transaction(req), ![p].part = 0]
  <2>1. PICK T : T = Transaction(req)
    OBVIOUS
  <2>2. PubStep(p, g) /\ g.pc = "stage" /\ g.tx = T /\ g.req = req /\ g.ops = pub[p].ops
    BY <1>1, <1>4, <2>1, PubFacts DEF PubStep, IInv, Publishers
  <2>3. req # None /\ ReqFine(p, req)
    BY <1>1, <1>2, PubFacts DEF PubFine
  <2>4. req.verdict \in {"none", "visible"} /\ req.op[1] = p
    BY <2>3, UpdateAssumption DEF ReqFine, Verdict
  <2>5. T.op = req.op /\ Archives(T)
    BY <1>4, <2>1, <2>4, TransactionArchives
  <2>6. Asking(pub[p])
    BY <1>1, <1>2, <2>3 DEF Asking, Own
  <2>7. Unpublished(T.op)
    BY <1>1, <2>5, <2>6 DEF OnceInv, Once
  <2>8. Unpublished(T.op)' /\ Archives(T)'
    <3>1. Quiet
      BY <1>2, SameIsQuiet DEF IInv
    <3>2. PICK op : op = T.op
      OBVIOUS
    <3>3. Unpublished(op)'
      BY <2>7, <3>1, <3>2, QuietHistory
    <3>4. Archives(T)'
      BY <2>5, <3>1, QuietHistory
    <3> QED
      BY <3>2, <3>3, <3>4 DEF Unpublished, Fresh
  <2>9. g.ops = {}
    BY <1>2, <2>2 DEF OnceInv, Once
  <2>10. Once(p, g)'
    BY <2>2, <2>4, <2>5, <2>8, <2>9 DEF Once, Asking
  <2> QED
    BY <1>1, <1>2, <2>2, <2>3, <2>5, <2>10 DEF Local
<1> QED
  BY <1>1, <1>3, <1>4 DEF Check

LEMMA StageLocal ==
    ASSUME IInv, OnceInv, NEW p \in Proc, Effects(p), Stage(p) \/ BeginApply(p)
    PROVE  \E g : Local(p, g)
<1>1. PICK g : g = pub'[p]
  OBVIOUS
<1>2. CASE Return(p, "error")
  BY <1>2, ReturnLocal DEF IInv, Answer
<1>3. CASE Stage(p) /\ ~Return(p, "error")
  <2>1. PICK tx : tx = pub[p].tx
    OBVIOUS
  <2>2. /\ pub[p].pc = "stage" /\ PubStep(p, g) /\ g.req = pub[p].req /\ g.ops = pub[p].ops /\ g.tx = tx
        /\ \/ pub[p].part = Parts /\ g.pc = "staged"
           \/ pub[p].part # Parts /\ g.pc = "stage"
    <3>1. pub[p].pc = "stage" /\ pub' = IF pub[p].part = Parts THEN [pub EXCEPT ![p].pc = "staged"]
                                        ELSE [pub EXCEPT ![p].part = @ + 1]
      BY <1>3 DEF Stage, Send
    <3> QED
      BY <1>1, <2>1, <3>1, PubFacts DEF PubStep, IInv, Publishers
  <2>3. g.ops = {} /\ tx.op[1] = p /\ Unpublished(tx.op) /\ Archives(tx)
    BY <2>1, <2>2 DEF OnceInv, Once
  <2>4. CASE g.pc = "staged"
    BY <2>2, <2>3, <2>4 DEF Local, Once, Asking
  <2>5. CASE g.pc = "stage"
    <3>1. PICK op : op = tx.op
      OBVIOUS
    <3>2. pub[p].part # Parts
      BY <2>2, <2>5
    <3>3. Unpublished(op)'
      BY <2>3, <3>1, <3>2 DEF Effects
    <3>4. Archives(tx)'
      BY <2>2, <2>3 DEF Effects, Archives
    <3>5. Once(p, g)'
      BY <2>2, <2>3, <2>5, <3>1, <3>3, <3>4 DEF Once, Asking, Unpublished, Fresh
    <3> QED
      BY <2>1, <2>2, <3>5 DEF Local
  <2> QED
    BY <2>2, <2>4, <2>5
<1>4. CASE BeginApply(p)
  <2>1. PubStep(p, g) /\ g.pc = "apply" /\ g.req = pub[p].req /\ g.ops = pub[p].ops /\ pub[p].pc = "staged"
    BY <1>1, <1>4, PubFacts DEF BeginApply, PubStep, IInv, Publishers
  <2>2. g.ops = {}
    BY <2>1 DEF OnceInv, Once
  <2> QED
    BY <2>1, <2>2, OnwardLocal DEF Asking, Own
<1> QED
  BY <1>2, <1>3, <1>4

LEMMA LateLocal ==
    ASSUME IInv, OnceInv, NEW p \in Proc, Effects(p),
           Apply(p) \/ ApplyRedirect(p) \/ ApplyRoot(p) \/ Clean(p) \/ ReadFails(p)
    PROVE  \E g : Local(p, g)
<1>1. PICK g : g = pub'[p]
  OBVIOUS
<1>2. CASE \E a \in Answer : Return(p, a)
  BY <1>2, ReturnLocal DEF IInv
<1>3. ASSUME PubStep(p, g), g.pc \in {"apply", "redirect", "clean"}, g.req = pub[p].req, g.ops = pub[p].ops,
             pub[p].pc \in {"apply", "redirect"}
      PROVE  \E h : Local(p, h)
  <2>1. Asking(g) => Asking(pub[p])
    BY <1>3 DEF Asking, Own
  <2> QED
    BY <1>3, <2>1, OnwardLocal
<1>4. CASE Apply(p)
  <2>1. PICK tx, f, item : /\ pub[p].pc = "apply"
                           /\ (\E a \in {"error", "blocked"} : Return(p, a)) \/ ApplyNext(p, f, item)
    BY <1>4, ApplyWrites
  <2>2. CASE ApplyNext(p, f, item)
    <3>1. PubStep(p, g) /\ g.pc \in {"apply", "redirect"} /\ g.req = pub[p].req /\ g.ops = pub[p].ops
      BY <1>1, <2>2, PubFacts DEF ApplyNext, PubStep, IInv, Publishers
    <3> QED
      BY <1>3, <2>1, <3>1
  <2> QED
    BY <1>2, <2>1, <2>2 DEF Answer
<1>5. CASE ApplyRedirect(p)
  <2>1. PICK tx, f : tx = pub[p].tx /\ f = pub[p].moved
    OBVIOUS
  <2>2. PICK item : item = tx.items[f]
    OBVIOUS
  <2>3. pub[p].pc = "redirect" /\ ((\E a \in {"error", "blocked"} : Return(p, a)) \/ RedirectNext(p))
    BY <1>5, <2>1, <2>2, RedirectWrites
  <2>4. CASE RedirectNext(p)
    <3>1. PubStep(p, g) /\ g.pc = "apply" /\ g.req = pub[p].req /\ g.ops = pub[p].ops
      BY <1>1, <2>4, PubFacts DEF RedirectNext, PubStep, IInv, Publishers
    <3> QED
      BY <1>3, <2>3, <3>1
  <2> QED
    BY <1>2, <2>3, <2>4 DEF Answer
<1>6. CASE ApplyRoot(p)
  <2>1. PICK tx : tx = pub[p].tx
    OBVIOUS
  <2>2. pub[p].pc = "apply" /\ ((\E a \in {"error", "blocked"} : Return(p, a)) \/ Goto(p, "clean"))
    BY <1>6, <2>1, RootEdit
  <2>3. CASE Goto(p, "clean")
    <3>1. PubStep(p, g) /\ g.pc = "clean" /\ g.req = pub[p].req /\ g.ops = pub[p].ops
      BY <1>1, <2>3, PubFacts DEF Goto, PubStep, IInv, Publishers
    <3> QED
      BY <1>3, <2>2, <3>1
  <2> QED
    BY <1>2, <2>2, <2>3 DEF Answer
<1>7. CASE Clean(p)
  <2>1. CASE pub[p].ops = {}
    BY <1>2, <1>7, <2>1 DEF Clean, Answer
  <2>2. CASE pub[p].ops # {}
    <3>1. PubStep(p, g) /\ g.pc = "recover" /\ g.req = pub[p].req /\ pub[p].pc = "clean"
      BY <1>1, <1>7, <2>2, PubFacts DEF Clean, PubStep, IInv, Publishers
    <3>2. Asking(g) => Asking(pub[p])
      BY <2>2, <3>1 DEF Asking, Own
    <3> QED
      BY <3>1, <3>2, OnwardLocal
  <2> QED
    BY <2>1, <2>2
<1>8. CASE ReadFails(p)
  BY <1>2, <1>8 DEF ReadFails, Answer
<1> QED
  BY <1>4, <1>5, <1>6, <1>7, <1>8

LEMMA PublisherLocal ==
    ASSUME "context" \notin Verdicts, HistoryLimit = None, IInv, OnceInv, NEW p \in Proc, PublisherStep(p)
    PROVE  Effects(p) /\ \E g : Local(p, g)
<1>1. Effects(p)
  BY PublisherEffects
<1>2. CASE LockMR(p) \/ Recovered(p) \/ \E op \in pub[p].ops : RecoverOne(p, op)
  BY <1>1, <1>2, EarlyLocal
<1>3. CASE Check(p)
  BY <1>1, <1>3, CheckLocal
<1>4. CASE Stage(p) \/ BeginApply(p)
  BY <1>1, <1>4, StageLocal
<1>5. CASE Apply(p) \/ ApplyRedirect(p) \/ ApplyRoot(p) \/ Clean(p) \/ ReadFails(p)
  BY <1>1, <1>5, LateLocal
<1> QED
  BY <1>1, <1>2, <1>3, <1>4, <1>5 DEF PublisherStep

LEMMA OnceOthers ==
    ASSUME "context" \notin Verdicts, HistoryLimit = None, IInv, OnceInv, NEW p \in Proc, PublisherStep(p), Effects(p),
           NEW q \in Proc \ {p}, NEW k, k = pub[q]
    PROVE  Once(q, k)'
<1>1. Once(q, k)
  BY DEF OnceInv
<1>2. CASE UNCHANGED gitlab
  <2>1. Quiet
    BY <1>2, SameIsQuiet DEF IInv
  <2>2. (\A op : Unpublished(op)' = Unpublished(op)) /\ \A T : Archives(T)' = Archives(T)
    BY <2>1, QuietHistory
  <2> QED
    BY <1>1, <2>2 DEF Once
<1>3. CASE pub[p].pc \in Inside
  <2>1. k.pc \notin Inside
    BY <1>3, Alone DEF IInv
  <2>2. ASSUME Asking(k) PROVE Unpublished(k.req.op)'
    <3>1. PICK op : op = k.req.op
      OBVIOUS
    <3>2. Unpublished(op) /\ k.req # None
      BY <1>1, <2>2, <3>1 DEF Once, Asking
    <3>3. op[1] = q
      BY <3>1, <3>2, PubFacts DEF PubFine, ReqFine
    <3>4. pub[p].pc = "stage" => pub[p].tx.op[1] = p
      BY DEF OnceInv, Once
    <3>5. Unpublished(op)'
      BY <3>2, <3>3, <3>4 DEF Effects
    <3> QED
      BY <3>1, <3>5 DEF Unpublished, Fresh
  <2> QED
    BY <2>1, <2>2 DEF Once, Inside
<1>4. pub[p].pc \in Inside \/ LockMR(p)
  BY DEF PublisherStep, Recovered, Check, Stage, BeginApply, Apply, ApplyRedirect, ApplyRoot, Clean,
         ReadFails, RecoverOne, Inside
<1> QED
  BY <1>2, <1>3, <1>4 DEF LockMR

LEMMA PublisherOnce ==
    ASSUME "context" \notin Verdicts, HistoryLimit = None, IInv, OnceInv, NEW p \in Proc, PublisherStep(p), UNCHANGED <<chat, rereview>>
    PROVE  OnceInv'
<1>1. Effects(p)
  BY PublisherLocal
<1>2. PICK g : Local(p, g)
  BY PublisherLocal
<1>3. \A q \in Proc \ {p} : pub'[q] = pub[q]
  BY <1>2 DEF Local, PubStep
<1>4. ASSUME NEW q \in Proc PROVE Once(q, pub[q])'
  <2>1. PICK k : k = pub'[q]
    OBVIOUS
  <2>2. Once(q, k)'
    <3>1. CASE q = p
      BY <1>2, <2>1, <3>1 DEF Local, PubStep
    <3>2. CASE q # p
      BY <1>1, <1>3, <2>1, <3>2, OnceOthers
    <3> QED
      BY <3>1, <3>2
  <2> QED
    BY <2>1, <2>2 DEF Once
<1>5. pub[p].pc = "stage" => pub[p].tx.op[1] = p
  BY DEF OnceInv, Once
<1>6. ASSUME NEW c \in Chat, chat[c].pc = "evaluated" PROVE Unpublished(ChatOp(c))'
  <2>1. PICK op : op = ChatOp(c)
    OBVIOUS
  <2>2. Unpublished(op) /\ op[1] = c
    BY <1>6, <2>1 DEF OnceInv, ChatOp
  <2>3. pub[p].pc = "stage" => p # c
    BY <1>6 DEF IInv, Chats
  <2>4. Unpublished(op)'
    BY <1>1, <1>5, <2>2, <2>3 DEF Effects
  <2>5. ChatOp(c)' = op
    BY <2>1 DEF ChatOp
  <2> QED
    BY <2>4, <2>5 DEF Unpublished, Fresh
<1>7. ASSUME NEW q \in Rereview PROVE InTurn(q, rereview[q], pub[q])'
  <2>1. PICK r, h, k : r = rereview[q] /\ h = pub[q] /\ k = pub'[q]
    OBVIOUS
  <2>2. InTurn(q, r, h) /\ q \in Proc
    BY <2>1 DEF OnceInv, Proc
  <2>3. ASSUME NEW a \in records', a.op[1] = q PROVE Earlier(a.op, r)
    <3>1. CASE a \in records
      BY <2>2, <2>3, <3>1 DEF InTurn
    <3>2. CASE pub[p].pc = "stage" /\ a.op = pub[p].tx.op
      BY <1>5, <2>1, <2>2, <2>3, <3>2 DEF InTurn
    <3> QED
      BY <1>1, <3>1, <3>2 DEF Effects
  <2>4. ASSUME NEW i \in 1..Len(versions'), versions'[i].op # None, versions'[i].op[1] = q
        PROVE  Earlier(versions'[i].op, r)
    BY <1>1, <2>2, <2>4 DEF Effects, InTurn
  <2>5. k = h \/ (q = p /\ k = g)
    BY <1>2, <1>3, <2>1, <2>2 DEF Local, PubStep
  <2>6. k.req # None => Earlier(k.req.op, r)
    BY <1>2, <2>1, <2>2, <2>5 DEF InTurn, Local
  <2>7. k.pc = "stage" => Earlier(k.tx.op, r)
    BY <1>2, <2>1, <2>2, <2>5 DEF InTurn, Local
  <2>8. InTurn(q, r, k)'
    BY <2>3, <2>4, <2>6, <2>7 DEF InTurn, Earlier
  <2> QED
    BY <2>1, <2>8 DEF InTurn, Earlier
<1> QED
  BY <1>1, <1>4, <1>6, <1>7 DEF OnceInv, Effects

-----------------------------------------------------------------------------
(* The other steps leave the review as it is.                              *)

\* Later in the turns of a re-review.
LEMMA LaterTurn ==
    ASSUME IInv, NEW p \in Rereview, NEW h, InTurn(p, rereview[p], h), h = pub[p], UNCHANGED gitlab, NEW r, NEW g,
           \A op \in Op : Earlier(op, rereview[p]) => Earlier(op, r),
           g.req # None => g.req.op \in Op /\ (Earlier(g.req.op, rereview[p]) \/ Earlier(g.req.op, r)),
           g.pc # "stage"
    PROVE  InTurn(p, r, g)'
<1>1. records' = records /\ versions' = versions
  BY DEF gitlab
<1>2. \A q \in records : q.op \in Op
  BY DEF IInv, Records
<1>3. \A i \in 1..Len(versions) : versions[i].op \in Op \cup {None}
  <2>1. versions \in Seq([op : Op \cup {None}, seen : Version, review : Version])
    BY DEF IInv, Review
  <2>2. \A i \in 1..Len(versions) : versions[i] \in [op : Op \cup {None}, seen : Version, review : Version]
    BY <2>1, ElementOfSeq
  <2> QED
    BY <2>2
<1>4. \A q \in records : q.op[1] = p => Earlier(q.op, r)
  BY <1>2 DEF InTurn
<1>5. \A i \in 1..Len(versions) : versions[i].op # None /\ versions[i].op[1] = p => Earlier(versions[i].op, r)
  BY <1>3 DEF InTurn
<1> QED
  BY <1>1, <1>4, <1>5 DEF InTurn, Earlier

\* A chat that has decided has its operation still to publish.
Undone(c) == chat'[c].pc = "evaluated" => chat'[c].run = chat[c].run /\ Unpublished(ChatOp(c))
Turned(p, g) == \E r : rereview'[p] = r /\ InTurn(p, r, g)'

\* A step of a process around its update: it asks for nothing, or for what is not published.
LEMMA OutsideOnce ==
    ASSUME IInv, OnceInv, UNCHANGED gitlab, NEW p \in Proc, NEW g, PubStep(p, g),
           g.pc \notin {"check", "stage", "staged"}, Asking(g) => Unpublished(g.req.op),
           \A c \in Chat : Undone(c), \A q \in Rereview \ {p} : rereview'[q] = rereview[q],
           p \in Rereview => Turned(p, g)
    PROVE  OnceInv'
<1>1. Quiet /\ records' = records /\ versions' = versions
  BY SameIsQuiet DEF IInv, gitlab
<1>2. /\ History' /\ \A op : Unpublished(op)' = Unpublished(op)
      /\ \A T : Archives(T)' = Archives(T)
  BY <1>1, QuietHistory
<1>3. ASSUME NEW q \in Proc PROVE Once(q, pub[q])'
  <2>1. PICK k : k = pub'[q]
    OBVIOUS
  <2>2. Once(q, k)'
    <3>1. CASE q = p
      <4>1. k = g
        BY <2>1, <3>1 DEF PubStep
      <4>2. ASSUME Asking(k) PROVE Unpublished(k.req.op)'
        <5>1. PICK op : op = k.req.op
          OBVIOUS
        <5>2. Unpublished(op)'
          BY <1>2, <4>1, <4>2, <5>1
        <5> QED
          BY <5>1, <5>2 DEF Unpublished, Fresh
      <4> QED
        BY <4>1, <4>2 DEF Once
    <3>2. CASE q # p
      <4>1. Once(q, k)
        BY <2>1, <3>2 DEF OnceInv, PubStep
      <4>2. ASSUME Asking(k) PROVE Unpublished(k.req.op)'
        <5>1. PICK op : op = k.req.op
          OBVIOUS
        <5>2. Unpublished(op)'
          BY <1>2, <4>1, <4>2, <5>1 DEF Once
        <5> QED
          BY <5>1, <5>2 DEF Unpublished, Fresh
      <4>3. k.pc = "stage" => k.tx.op[1] = q /\ Unpublished(k.tx.op)' /\ Archives(k.tx)'
        <5>1. PICK tx, op : tx = k.tx /\ op = k.tx.op
          OBVIOUS
        <5>2. k.pc = "stage" => op[1] = q /\ Unpublished(op)' /\ Archives(tx)'
          BY <1>2, <4>1, <5>1 DEF Once
        <5> QED
          BY <5>1, <5>2 DEF Unpublished, Fresh, Archives
      <4> QED
        BY <4>1, <4>2, <4>3 DEF Once
    <3> QED
      BY <3>1, <3>2
  <2> QED
    BY <2>1, <2>2 DEF Once
<1>4. ASSUME NEW c \in Chat, chat'[c].pc = "evaluated" PROVE Unpublished(ChatOp(c))'
  <2>1. PICK op : op = ChatOp(c)
    OBVIOUS
  <2>2. Undone(c)
    OBVIOUS
  <2>3. ChatOp(c)' = op /\ Unpublished(op)
    BY <1>4, <2>1, <2>2 DEF Undone, ChatOp
  <2>4. Unpublished(op)'
    BY <1>2, <2>3
  <2> QED
    BY <2>3, <2>4 DEF Unpublished, Fresh
<1>5. ASSUME NEW q \in Rereview PROVE InTurn(q, rereview[q], pub[q])'
  <2>1. PICK r, k : r = rereview'[q] /\ k = pub'[q]
    OBVIOUS
  <2>2. InTurn(q, r, k)'
    <3>1. CASE q = p
      BY <2>1, <3>1 DEF Turned, PubStep
    <3>2. CASE q # p
      <4>1. q \in Proc /\ r = rereview[q] /\ k = pub[q]
        BY <2>1, <3>2 DEF PubStep, Proc
      <4>2. InTurn(q, r, k)
        BY <4>1 DEF OnceInv
      <4> QED
        BY <1>1, <4>2 DEF InTurn, Earlier
    <3> QED
      BY <3>1, <3>2
  <2> QED
    BY <2>1, <2>2 DEF InTurn, Earlier
<1> QED
  BY <1>2, <1>3, <1>4, <1>5 DEF OnceInv

LEMMA RereviewOnce ==
    ASSUME IInv, OnceInv, NEW p \in Rereview, NEW g, PubStep(p, g), g.pc \notin {"check", "stage", "staged"},
           Asking(g) => Unpublished(g.req.op), NEW r, RereviewStays(p, r), UNCHANGED <<gitlab, chat>>,
           \A op \in Op : Earlier(op, rereview[p]) => Earlier(op, r),
           g.req # None => g.req.op \in Op /\ (Earlier(g.req.op, rereview[p]) \/ Earlier(g.req.op, r))
    PROVE  OnceInv'
<1>1. p \in Proc /\ UNCHANGED gitlab /\ chat' = chat
  BY DEF Proc
<1>2. PICK h : h = pub[p]
  OBVIOUS
<1>3. InTurn(p, rereview[p], h)
  BY <1>2 DEF OnceInv
<1>4. InTurn(p, r, g)'
  BY <1>1, <1>2, <1>3, LaterTurn
<1>5. Turned(p, g) /\ \A q \in Rereview \ {p} : rereview'[q] = rereview[q]
  BY <1>4 DEF Turned, RereviewStays
<1>6. \A c \in Chat : Undone(c)
  BY <1>1 DEF Undone, OnceInv
<1> QED
  BY <1>1, <1>5, <1>6, OutsideOnce

LEMMA StartRereviewOnce ==
    ASSUME IInv, OnceInv, NEW p \in Rereview, StartRereview(p)
    PROVE  OnceInv'
<1>1. PICK g, r, old : g = pub[p] /\ r = rereview'[p] /\ old = rereview[p]
  OBVIOUS
<1>2. /\ p \in Proc /\ RereviewFine(old) /\ old.pc = "idle" /\ g.pc = "idle"
      /\ UNCHANGED <<gitlab, chat>> /\ pub' = pub
  BY <1>1 DEF IInv, Rereviews, StartRereview, Locks, Proc
<1>3. PubStep(p, g)
  BY <1>1, <1>2 DEF PubStep, IInv, Publishers
<1>4. RereviewStays(p, r) /\ r.pc = "reviewing" /\ r.run = old.run + 1
  BY <1>1, <1>2 DEF StartRereview, RereviewStays, IInv, Rereviews, RereviewFine, Resting
<1>5. ASSUME NEW op \in Op, Earlier(op, old) PROVE Earlier(op, r)
  BY <1>2, <1>4, <1>5 DEF Earlier, Op, RereviewFine
<1>6. g.req # None => g.req.op \in Op /\ Earlier(g.req.op, old)
  BY <1>1, <1>2, PubFacts DEF PubFine, ReqFine, OnceInv, InTurn
<1> QED
  BY <1>1, <1>2, <1>3, <1>4, <1>5, <1>6, RereviewOnce DEF Asking

\* The operation of the next attempt comes after all that there were.
LEMMA NextAttempt ==
    ASSUME IInv, OnceInv, NEW p \in Rereview, NEW r, CallUpdateReview(p, r), RereviewFine(r),
           r.run = rereview[p].run, r.attempt = rereview[p].attempt, rereview[p].pc # "idle",
           r.pc # "idle", r.attempt < MaxReconcileAttempts, UNCHANGED <<gitlab, chat>>
    PROVE  OnceInv'
<1>1. PICK g, k, old, op : /\ g = pub'[p] /\ k = rereview'[p] /\ old = rereview[p]
                           /\ op = <<p, r.run, r.attempt + 1>>
  OBVIOUS
<1>2. p \in Proc /\ r.run \in 1..RunLimit /\ r.attempt \in Nat /\ r.attempt + 1 \in 0..MaxReconcileAttempts
  BY UpdateAssumption DEF Proc, RereviewFine
<1>3. op \in Op /\ op[1] = p /\ op[2] = r.run /\ op[3] = r.attempt + 1
  BY <1>1, <1>2 DEF Op
<1>4. PubStep(p, g) /\ g.pc = "lock" /\ g.req.op = op
  BY <1>1, <1>2 DEF CallUpdateReview, Call, PubStep, Idle, IInv, Publishers
<1>5. RereviewStays(p, k) /\ k.pc = "publishing" /\ k.run = r.run /\ k.attempt = r.attempt + 1
  BY <1>1 DEF CallUpdateReview, RereviewStays, IInv, Rereviews, RereviewFine, Resting
<1>6. ASSUME NEW x \in Op, Earlier(x, old) PROVE Earlier(x, k)
  BY <1>1, <1>2, <1>5, <1>6 DEF Earlier, Op
<1>7. Earlier(op, k) /\ ~Earlier(op, old)
  BY <1>1, <1>2, <1>3, <1>5 DEF Earlier
<1>8. InTurn(p, old, pub[p])
  BY <1>1 DEF OnceInv
<1>9. op # None
  BY <1>3, NoneAssumption
<1>10. Unpublished(op)
  <2>1. Fresh(op)
    BY <1>3, <1>7, <1>8, <1>9 DEF InTurn, Fresh
  <2>2. ASSUME NEW q \in Pending PROVE q.op # op
    BY <1>3, <1>7, <1>8 DEF InTurn, Pending
  <2> QED
    BY <2>1, <2>2 DEF Unpublished
<1> QED
  BY <1>1, <1>3, <1>4, <1>5, <1>6, <1>7, <1>10, RereviewOnce

\* A re-review that ended: all its operations are of its runs.
LEMMA RestsOnce ==
    ASSUME IInv, OnceInv, NEW p \in Rereview, pub' = [pub EXCEPT ![p] = Idle],
           rereview' = [rereview EXCEPT ![p] = [Resting EXCEPT !.run = rereview[p].run]],
           UNCHANGED <<gitlab, chat>>
    PROVE  OnceInv'
<1>1. PICK g, r, old : g = Idle /\ r = [Resting EXCEPT !.run = rereview[p].run] /\ old = rereview[p]
  OBVIOUS
<1>2. RereviewStays(p, r) /\ r.pc = "idle" /\ r.run = old.run
  BY <1>1 DEF RereviewStays, Resting, IInv, Rereviews
<1>3. PubStep(p, g) /\ g.pc = "idle" /\ g.req = None
  BY <1>1 DEF PubStep, Idle, Proc, IInv, Publishers
<1>4. RereviewFine(old)
  BY <1>1 DEF IInv, Rereviews
<1>5. ASSUME NEW op \in Op, Earlier(op, old) PROVE Earlier(op, r)
  BY <1>2, <1>4, <1>5 DEF Earlier, Op, RereviewFine
<1> QED
  BY <1>1, <1>2, <1>3, <1>5, RereviewOnce DEF Asking

LEMMA RereviewStepOnce ==
    ASSUME IInv, OnceInv, NEW p \in Rereview, RereviewStep(p)
    PROVE  OnceInv'
<1>1. PICK old : old = rereview[p]
  OBVIOUS
<1>2. RereviewFine(old)
  BY <1>1 DEF IInv, Rereviews
<1>3. CASE PublishRereview(p)
  <2>1. old.pc = "reviewing" /\ CallUpdateReview(p, old) /\ UNCHANGED <<gitlab, chat>>
    BY <1>1, <1>3 DEF PublishRereview
  <2>2. old.attempt < MaxReconcileAttempts
    BY <1>2, <2>1, UpdateAssumption DEF RereviewFine
  <2> QED
    BY <1>1, <1>2, <2>1, <2>2, NextAttempt
<1>4. CASE RebaseRereview(p)
  <2>1. PICK r : r = Rebasing(old)
    OBVIOUS
  <2>2. /\ old.pc = "publishing" /\ CallUpdateReview(p, r) /\ old.attempt < MaxReconcileAttempts
        /\ View # None /\ UNCHANGED <<gitlab, chat>>
    BY <1>1, <1>4, <2>1 DEF RebaseRereview, Rebasing
  <2>3. RereviewFine(r) /\ r.pc = "publishing" /\ r.attempt = old.attempt /\ r.run = old.run
    BY <1>2, <2>1, <2>2, RebasedFine
  <2> QED
    BY <1>1, <2>2, <2>3, NextAttempt
<1>5. CASE EndRereview(p)
  BY <1>5, RestsOnce DEF EndRereview
<1> QED
  BY <1>3, <1>4, <1>5 DEF RereviewStep

LEMMA ChatOnce ==
    ASSUME IInv, OnceInv, NEW c \in Chat, NEW g, PubStep(c, g), g.pc \notin {"check", "stage", "staged"},
           Asking(g) => Unpublished(g.req.op), NEW x, ChatStays(c, x),
           x.pc = "evaluated" => x.run = chat[c].run /\ Unpublished(ChatOp(c)), UNCHANGED <<gitlab, rereview>>
    PROVE  OnceInv'
<1>1. c \in Proc /\ c \notin Rereview /\ UNCHANGED gitlab /\ \A q \in Rereview \ {c} : rereview'[q] = rereview[q]
  BY UpdateAssumption DEF Proc
<1>2. ASSUME NEW d \in Chat PROVE Undone(d)
  <2>1. CASE d = c
    BY <2>1 DEF Undone, ChatStays
  <2>2. CASE d # c
    BY <2>2 DEF Undone, ChatStays, OnceInv
  <2> QED
    BY <2>1, <2>2
<1> QED
  BY <1>1, <1>2, OutsideOnce

\* A chat whose update ended, or died.
LEMMA EndAttemptOnce ==
    ASSUME IInv, OnceInv, NEW c \in Chat, NEW x, chat' = [chat EXCEPT ![c] = x], pub' = [pub EXCEPT ![c] = Idle],
           x.pc = "evaluated" => x.run = chat[c].run /\ Unpublished(ChatOp(c)), UNCHANGED <<gitlab, rereview>>
    PROVE  OnceInv'
<1>1. PICK g : g = Idle
  OBVIOUS
<1>2. PubStep(c, g) /\ g.pc = "idle"
  BY <1>1, ChatFacts, IdleFacts DEF IInv
<1>3. ChatStays(c, x)
  BY ChatFacts DEF ChatStays
<1> QED
  BY <1>2, <1>3, ChatOnce DEF Asking

LEMMA RetryLaterOnce ==
    ASSUME IInv, OnceInv, NEW c \in Chat, EndChat(c) \/ RetryLater(c, TRUE) \/ RetryLater(c, FALSE),
           UNCHANGED <<gitlab, rereview>>
    PROVE  OnceInv'
<1>1. ASSUME NEW x, x.pc # "evaluated", EndAttempt(c, x) PROVE OnceInv'
  BY <1>1, EndAttemptOnce DEF EndAttempt
<1>2. CASE EndChat(c)
  <2>1. PICK x : x = [Asked EXCEPT !.run = chat[c].run]
    OBVIOUS
  <2>2. x.pc = "idle" /\ EndAttempt(c, x)
    BY <1>2, <2>1 DEF EndChat, Asked
  <2> QED
    BY <1>1, <2>2
<1>3. CASE (RetryLater(c, TRUE) \/ RetryLater(c, FALSE)) /\ ~Exhausted(c)
  <2>1. PICK x : /\ x \in {[chat[c] EXCEPT !.pc = "waiting", !.conflicts = @ + 1, !.plan = None],
                           [chat[c] EXCEPT !.pc = "waiting", !.failures = @ + 1]}
                 /\ EndAttempt(c, x)
    BY <1>3 DEF RetryLater
  <2>2. x.pc = "waiting"
    BY <2>1, ChatFacts
  <2> QED
    BY <1>1, <2>1, <2>2
<1> QED
  BY <1>2, <1>3 DEF RetryLater

\* What is not among the markers while nothing is under way was never published.
LEMMA NeverPublished ==
    ASSUME IInv, OnceInv, View # None, NEW op \in Op, ~Committed(op)
    PROVE  Unpublished(op)
<1>1. Pending = {}
  BY ViewFacts DEF IInv
<1>2. op \notin Marks /\ op # None
  BY NoneAssumption DEF Committed, Marks
<1>3. Fresh(op)
  BY <1>2 DEF Fresh, OnceInv, History
<1> QED
  BY <1>1, <1>3 DEF Unpublished

LEMMA ExecuteChatOnce ==
    ASSUME IInv, OnceInv, NEW c \in Chat, ExecuteChat(c)
    PROVE  OnceInv'
<1>1. chat[c].pc = "recovering" /\ UNCHANGED <<gitlab, rereview>>
  BY DEF ExecuteChat
<1>2. CASE RetryLater(c, FALSE) \/ EndChat(c)
  BY <1>1, <1>2, RetryLaterOnce
<1>3. CASE /\ View # None /\ ~Committed(ChatOp(c)) /\ pub' = [pub EXCEPT ![c] = Idle]
           /\ \E plan : chat' = [chat EXCEPT ![c].pc = "evaluated", ![c].plan = plan]
  <2>1. PICK plan : chat' = [chat EXCEPT ![c].pc = "evaluated", ![c].plan = plan]
    BY <1>3
  <2>2. PICK x : x = [chat[c] EXCEPT !.pc = "evaluated", !.plan = plan]
    OBVIOUS
  <2>3. x.run = chat[c].run /\ chat' = [chat EXCEPT ![c] = x]
    BY <2>1, <2>2, ChatFacts
  <2>4. PICK op : op = ChatOp(c)
    OBVIOUS
  <2>5. op \in Op
    <3>1. chat[c].run \in 1..RunLimit /\ 0 \in 0..MaxReconcileAttempts
      BY <1>1, ChatFacts, UpdateAssumption DEF ChatFine
    <3> QED
      BY <2>4, <3>1, ChatFacts DEF ChatOp, Op
  <2>6. Unpublished(op)
    BY <1>3, <2>4, <2>5, NeverPublished
  <2> QED
    BY <1>1, <1>3, <2>3, <2>4, <2>6, EndAttemptOnce
<1>4. ASSUME ~RetryLater(c, FALSE), ~EndChat(c)
      PROVE  \E plan : chat' = [chat EXCEPT ![c].pc = "evaluated", ![c].plan = plan]
  <2>1. PICK change \in Decisions(View) : \E verdict \in Verdicts \cap {"none", "visible"} :
            chat' = [chat EXCEPT ![c].pc = "evaluated",
                      ![c].plan = IF chat[c].plan # None /\ chat[c].plan.before = View THEN chat[c].plan
                                  ELSE [before |-> View, change |-> change, verdict |-> verdict]]
    BY <1>4 DEF ExecuteChat
  <2>2. PICK verdict \in Verdicts \cap {"none", "visible"} :
            chat' = [chat EXCEPT ![c].pc = "evaluated",
                      ![c].plan = IF chat[c].plan # None /\ chat[c].plan.before = View THEN chat[c].plan
                                  ELSE [before |-> View, change |-> change, verdict |-> verdict]]
    BY <2>1
  <2>3. PICK plan : plan = IF chat[c].plan # None /\ chat[c].plan.before = View THEN chat[c].plan
                           ELSE [before |-> View, change |-> change, verdict |-> verdict]
    OBVIOUS
  <2> QED
    BY <2>2, <2>3
<1>5. RetryLater(c, FALSE) \/ EndChat(c)
      \/ (View # None /\ ~Committed(ChatOp(c)) /\ pub' = [pub EXCEPT ![c] = Idle])
  BY DEF ExecuteChat
<1> QED
  BY <1>2, <1>3, <1>4, <1>5

LEMMA ChatStepOnce ==
    ASSUME IInv, OnceInv, NEW c \in Chat, StartChat(c) \/ ChatStep(c)
    PROVE  OnceInv'
<1>1. PICK g, x : g = pub'[c] /\ x = chat'[c]
  OBVIOUS
<1>2. CASE StartChat(c)
  <2>1. pub[c].pc = "idle" /\ pub' = pub /\ UNCHANGED <<gitlab, rereview>>
    BY <1>2, ChatFacts DEF StartChat, IInv, Chats
  <2>2. PubStep(c, g) /\ g.pc = "idle"
    BY <1>1, <2>1 DEF PubStep, IInv, Publishers
  <2>3. ChatStays(c, x) /\ x.pc = "waiting"
    BY <1>1, <1>2, ChatFacts DEF StartChat, ChatStays
  <2> QED
    BY <2>1, <2>2, <2>3, ChatOnce DEF Asking
<1>3. CASE Attempt(c)
  <2>1. UNCHANGED <<gitlab, rereview>>
    BY <1>3 DEF Attempt
  <2>2. PubStep(c, g) /\ g.pc = "lock" /\ g.req = None
    BY <1>1, <1>3, ChatFacts DEF Attempt, Call, PubStep, Idle, IInv, Publishers
  <2>3. ChatStays(c, x) /\ x.pc = "recovering"
    BY <1>1, <1>3, ChatFacts DEF Attempt, ChatStays
  <2> QED
    BY <2>1, <2>2, <2>3, ChatOnce DEF Asking
<1>4. CASE ExecuteChat(c)
  BY <1>4, ExecuteChatOnce
<1>5. CASE PublishChat(c)
  <2>1. UNCHANGED <<gitlab, rereview>> /\ chat[c].pc = "evaluated"
    BY <1>5 DEF PublishChat
  <2>2. CASE RetryLater(c, TRUE)
    BY <2>1, <2>2, RetryLaterOnce
  <2>3. CASE ~RetryLater(c, TRUE)
    <3>1. PICK op : op = ChatOp(c)
      OBVIOUS
    <3>2. Unpublished(op)
      BY <2>1, <3>1 DEF OnceInv
    <3>3. PubStep(c, g) /\ g.pc = "lock" /\ g.req.op = op
      <4>1. PICK req : req.op = op /\ Call(c, req)
        BY <1>5, <2>3, <3>1 DEF PublishChat
      <4> QED
        BY <1>1, <4>1, ChatFacts DEF Call, PubStep, Idle, IInv, Publishers
    <3>4. ChatStays(c, x) /\ x.pc = "publishing"
      BY <1>1, <1>5, <2>3, ChatFacts DEF PublishChat, ChatStays
    <3> QED
      BY <2>1, <3>2, <3>3, <3>4, ChatOnce
  <2> QED
    BY <2>2, <2>3
<1>6. CASE PublishedChat(c)
  <2>1. UNCHANGED <<gitlab, rereview>> /\ (EndChat(c) \/ RetryLater(c, pub[c].pc = "conflict"))
    BY <1>6 DEF PublishedChat
  <2>2. RetryLater(c, pub[c].pc = "conflict") => RetryLater(c, TRUE) \/ RetryLater(c, FALSE)
    BY DEF RetryLater
  <2> QED
    BY <2>1, <2>2, RetryLaterOnce
<1> QED
  BY <1>2, <1>3, <1>4, <1>5, <1>6 DEF ChatStep

LEMMA FailChatOnce ==
    ASSUME IInv, OnceInv, NEW c \in Chat, FailChat(c)
    PROVE  OnceInv'
<1>1. UNCHANGED <<gitlab, rereview>>
  BY DEF FailChat
<1>2. CASE RetryLater(c, FALSE)
  BY <1>1, <1>2, RetryLaterOnce
<1>3. CASE EndAttempt(c, [chat[c] EXCEPT !.pc = "waiting", !.failures = @ + 1, !.plan = None])
  <2>1. PICK x : x = [chat[c] EXCEPT !.pc = "waiting", !.failures = @ + 1, !.plan = None]
    OBVIOUS
  <2>2. x.pc = "waiting"
    BY <2>1, ChatFacts
  <2>3. chat' = [chat EXCEPT ![c] = x] /\ pub' = [pub EXCEPT ![c] = Idle]
    BY <1>3, <2>1 DEF EndAttempt
  <2> QED
    BY <1>1, <2>2, <2>3, EndAttemptOnce
<1> QED
  BY <1>2, <1>3 DEF FailChat

LEMMA CrashOnce ==
    ASSUME IInv, OnceInv, NEW p \in Proc, Crash(p)
    PROVE  OnceInv'
<1>1. pub' = [pub EXCEPT ![p] = Idle] /\ UNCHANGED gitlab
  BY DEF Crash
<1>2. CASE p \in Chat
  <2>1. PICK x : x = [Asked EXCEPT !.run = chat[p].run]
    OBVIOUS
  <2>2. x.pc = "idle" /\ chat' = [chat EXCEPT ![p] = x] /\ UNCHANGED <<gitlab, rereview>>
    BY <1>1, <1>2, <2>1 DEF Crash, Asked
  <2> QED
    BY <1>1, <1>2, <2>2, EndAttemptOnce
<1>3. CASE p \notin Chat
  <2>1. p \in Rereview
    BY <1>3 DEF Proc
  <2>2. rereview' = [rereview EXCEPT ![p] = [Resting EXCEPT !.run = rereview[p].run]] /\ UNCHANGED <<gitlab, chat>>
    BY <1>1, <1>3 DEF Crash
  <2> QED
    BY <1>1, <2>1, <2>2, RestsOnce
<1> QED
  BY <1>2, <1>3

LEMMA InitOnce ==
    ASSUME Init
    PROVE  OnceInv
<1>1. IInv /\ Pending = {}
  BY InitInv, InitReview
<1>2. versions = <<[op |-> None, seen |-> First, review |-> First]>> /\ records = {}
  BY DEF Init
<1>3. Len(versions) = 1 /\ versions[1].op = None
  BY <1>2
<1>4. History
  BY <1>1, <1>3 DEF History
<1>5. \A p \in Proc : pub[p].pc = "idle" /\ pub[p].req = None
  BY DEF Init, Idle
<1>6. \A p \in Proc : Once(p, pub[p])
  BY <1>5 DEF Once, Asking
<1>7. \A c \in Chat : chat[c].pc = "idle"
  BY DEF Init, Asked
<1>8. \A p \in Rereview : InTurn(p, rereview[p], pub[p])
  BY <1>2, <1>3, <1>5 DEF InTurn, Proc
<1> QED
  BY <1>4, <1>6, <1>7, <1>8 DEF OnceInv

LEMMA StutterOnce ==
    ASSUME IInv, OnceInv, UNCHANGED vars
    PROVE  OnceInv'
<1>1. UNCHANGED gitlab /\ records' = records /\ versions' = versions /\ UNCHANGED <<pub, chat, rereview>>
  BY DEF vars, gitlab
<1>2. /\ History' /\ \A op : Unpublished(op)' = Unpublished(op)
      /\ \A T : Archives(T)' = Archives(T)
  BY <1>1, SameIsQuiet, QuietHistory DEF IInv
<1>3. ASSUME NEW p \in Proc PROVE Once(p, pub[p])'
  <2>1. PICK g : g = pub[p]
    OBVIOUS
  <2>2. Once(p, g)
    BY <2>1 DEF OnceInv
  <2>3. Once(p, g)'
    BY <1>2, <2>2 DEF Once
  <2> QED
    BY <1>1, <2>1, <2>3 DEF Once
<1>4. ASSUME NEW c \in Chat, chat[c].pc = "evaluated" PROVE Unpublished(ChatOp(c))'
  <2>1. PICK op : op = ChatOp(c)
    OBVIOUS
  <2>2. Unpublished(op)'
    BY <1>2, <1>4, <2>1 DEF OnceInv
  <2> QED
    BY <1>1, <2>1, <2>2 DEF ChatOp, Unpublished, Fresh
<1>5. \A p \in Rereview : InTurn(p, rereview[p], pub[p])'
  BY <1>1 DEF OnceInv, InTurn, Earlier
<1> QED
  BY <1>1, <1>2, <1>3, <1>4, <1>5 DEF OnceInv

LEMMA NextOnce ==
    ASSUME "context" \notin Verdicts, HistoryLimit = None, IInv, OnceInv, [Next]_vars
    PROVE  OnceInv'
<1>1. ASSUME NEW p \in Proc, PublisherStep(p) /\ UNCHANGED <<chat, rereview>> PROVE OnceInv'
  BY <1>1, PublisherOnce
<1>2. ASSUME NEW p \in Rereview, StartRereview(p) \/ RereviewStep(p) PROVE OnceInv'
  BY <1>2, StartRereviewOnce, RereviewStepOnce
<1>3. ASSUME NEW c \in Chat, StartChat(c) \/ ChatStep(c) \/ FailChat(c) PROVE OnceInv'
  BY <1>3, ChatStepOnce, FailChatOnce
<1>4. ASSUME NEW p \in Proc, Crash(p) PROVE OnceInv'
  BY <1>4, CrashOnce
<1>5. CASE UNCHANGED vars
  BY <1>5, StutterOnce
<1> QED
  BY <1>1, <1>2, <1>3, <1>4, <1>5 DEF Next

\* However often a correction is tried again, after whatever failure or crash, and whoever finishes it:
\* it is committed once (ReviewUpdateCommitted, and the operation of each attempt of a re-review).  That takes
\* two hypotheses, as the marker that tells it is in the history of the summary: decisions that concern the
\* context options only are left out ("context"), as the history has no entry for them, and so are histories
\* that drop their oldest entries (HistoryLimit).
THEOREM PublishedOnce ==
    ASSUME "context" \notin Verdicts, HistoryLimit = None
    PROVE  Spec => []CommittedOnce
<1>1. Init => OnceInv
  BY InitOnce
<1>2. IInv /\ OnceInv /\ [Next]_vars => OnceInv'
  BY NextOnce
<1>3. OnceInv => CommittedOnce
  BY DEF OnceInv, History, CommittedOnce
<1> QED
  BY <1>1, <1>2, <1>3, Inductive, PTL DEF Spec
=============================================================================
