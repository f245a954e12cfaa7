---------------------------- MODULE ChatProofs ----------------------------
(***************************************************************************)
(* One answer per question, and no reaction left behind, for every number  *)
(* of questions, deliveries, attempts, slots and failures.                 *)
(***************************************************************************)
EXTENDS ChatHandler, SequenceTheorems, FiniteSetTheorems, TLAPS

Pc == {"idle", "lock", "slot", "gate", "award", "child", "post", "sleep", "giveup", "abandon",
       "unmark", "unmark_abandoned", "apologise", "finish", "done"}
Event == [pc : Pc, attempts : Nat, marked : BOOLEAN, acked : BOOLEAN, confirmed : BOOLEAN,
          expired : BOOLEAN]
Entry == [kind : {"question", "answer", "failure"}, note : Note]
Q(n) == [kind |-> "question", note |-> n]
A(n) == [kind |-> "answer", note |-> n]
T(n) == thread[DiscOf[n]]
Holds(d) == event[d].pc \in {"slot", "gate", "award", "child", "post"}

Types ==
    /\ event \in [Delivery -> Event]
    /\ thread \in [Disc -> Seq(Entry)]
    /\ award \subseteq Note
\* The lock of a discussion has one holder.
OneHolder == \A d, e \in Delivery : Holds(d) /\ Holds(e) /\ D(d) = D(e) => d = e
\* A question is asked once, and answered after it was asked, once.
Once(n) ==
    /\ \A i, j \in 1..Len(T(n)) : T(n)[i] = Q(n) /\ T(n)[j] = Q(n) => i = j
    /\ \A i, j \in 1..Len(T(n)) : T(n)[i] = A(n) /\ T(n)[j] = A(n) => i = j
    /\ \A j \in 1..Len(T(n)) : T(n)[j] = A(n) => \E i \in 1..Len(T(n)) : i < j /\ T(n)[i] = Q(n)
\* A child about to post read that its question is unanswered, and it still is: the
\* discussion is locked.
Posting ==
    \A d \in Delivery : event[d].pc = "post" =>
        /\ \E i \in 1..Len(T(N(d))) : T(N(d))[i] = Q(N(d))
        /\ \A i \in 1..Len(T(N(d))) : T(N(d))[i] # A(N(d))
\* An event whose reaction was settled has none to settle.
Settled ==
    \A d \in Delivery :
        event[d].pc \in {"idle", "unmark", "unmark_abandoned", "apologise", "done"} => ~event[d].acked

IInv == Types /\ OneHolder /\ (\A n \in Note : Once(n)) /\ Posting /\ Settled /\ NoStrandedAck

-----------------------------------------------------------------------------
(* What a step does to its own event and to the others.                    *)

LEMMA ConstantTypes ==
    ASSUME NEW d \in Delivery
    PROVE  N(d) \in Note /\ D(d) \in Disc /\ D(d) = DiscOf[N(d)]
BY ChatHandlerAssumption DEF N, D

\* Only d's event changes, it takes no lock that is held, and does not come to post.
EventStep(d) ==
    /\ event' \in [Delivery -> Event]
    /\ \A e \in Delivery \ {d} : event'[e] = event[e]
    /\ Holds(d)' => Holds(d) \/ Holding(D(d)) = {}
    /\ event'[d].pc = "post" => event[d].pc = "post"
    /\ event'[d].pc \in {"idle", "unmark", "unmark_abandoned", "apologise", "done"} => ~event'[d].acked

LEMMA HolderKept ==
    ASSUME IInv, NEW d \in Delivery, event' \in [Delivery -> Event],
           \A e \in Delivery \ {d} : event'[e] = event[e],
           Holds(d)' => Holds(d) \/ Holding(D(d)) = {}
    PROVE  OneHolder'
<1>1. ASSUME NEW e \in Delivery, NEW f \in Delivery, Holds(e)', Holds(f)', D(e) = D(f), e # f
      PROVE  FALSE
  <2>1. CASE e # d /\ f # d
    BY <1>1, <2>1 DEF Holds, IInv, OneHolder
  <2>2. CASE e = d
    <3>1. Holds(f) /\ f \in Holding(D(d))
      BY <1>1, <2>2 DEF Holds, Holding, Running
    <3> QED
      BY <1>1, <2>2, <3>1 DEF IInv, OneHolder
  <2>3. CASE f = d
    <3>1. Holds(e) /\ e \in Holding(D(d))
      BY <1>1, <2>3 DEF Holds, Holding, Running
    <3> QED
      BY <1>1, <2>3, <3>1 DEF IInv, OneHolder
  <2> QED
    BY <2>1, <2>2, <2>3
<1> QED
  BY <1>1 DEF OneHolder, D, N, Holds

\* A step within an event that leaves thread and reactions alone.
LEMMA QuietStep ==
    ASSUME IInv, NEW d \in Delivery, EventStep(d), UNCHANGED <<thread, award, leaked, late>>,
           event[d].acked => event'[d].acked
    PROVE  IInv'
<1>1. Types' /\ OneHolder' /\ Settled'
  BY HolderKept DEF IInv, Types, EventStep, Settled
<1>2. (\A n \in Note : Once(n))'
  BY DEF IInv, Once, T, Q, A
<1>3. Posting'
  BY DEF IInv, Posting, EventStep, T, Q, A, N
<1>4. NoStrandedAck'
  BY DEF IInv, Types, NoStrandedAck, Releases, EventStep, Active, Settled, N, Event, Pc
<1> QED
  BY <1>1, <1>2, <1>3, <1>4 DEF IInv

LEMMA MoveFacts ==
    ASSUME IInv, NEW d \in Delivery, NEW pc \in Pc, Move(d, pc)
    PROVE  /\ event' \in [Delivery -> Event]
           /\ \A e \in Delivery \ {d} : event'[e] = event[e]
           /\ event'[d].pc = pc /\ event'[d].acked = event[d].acked
BY DEF IInv, Types, Event, Move

LEMMA EndFacts ==
    ASSUME IInv, NEW d \in Delivery, EndEvent(d)
    PROVE  /\ event' \in [Delivery -> Event]
           /\ \A e \in Delivery \ {d} : event'[e] = event[e]
           /\ event'[d].pc = "done" /\ ~event'[d].acked
BY DEF IInv, Types, Event, Pc, EndEvent, Ended, Idle

\* An event that moves on without its reaction being settled.
LEMMA MoveStep ==
    ASSUME IInv, NEW d \in Delivery, NEW pc \in Pc, Move(d, pc), UNCHANGED <<thread, award, leaked, late>>,
           pc \notin {"post", "idle", "unmark", "unmark_abandoned", "done"}, pc = "apologise" => ~event[d].acked,
           pc \in {"slot", "gate", "award", "child"} => Holds(d) \/ Holding(D(d)) = {}
    PROVE  IInv'
<1>1. EventStep(d)
  BY MoveFacts DEF EventStep, Holds
<1> QED
  BY <1>1, MoveFacts, QuietStep

LEMMA AfterFailurePc ==
    ASSUME NEW d \in Delivery
    PROVE  AfterFailure(d) \in {"abandon", "giveup", "sleep"}
BY DEF AfterFailure

LEMMA AdmitInv ==
    ASSUME IInv, NEW d \in Delivery, Admit(d)
    PROVE  IInv'
<1>1. /\ event' \in [Delivery -> Event] /\ event'[d].pc = "lock" /\ ~event[d].acked
      /\ \A e \in Delivery \ {d} : event'[e] = event[e]
  BY DEF Admit, IInv, Types, Settled, Event, Pc, Idle
<1> QED
  BY <1>1, QuietStep DEF EventStep, Holds, Admit, remote

LEMMA ExpireInv ==
    ASSUME IInv, NEW d \in Delivery, Expire(d)
    PROVE  IInv'
<1>1. /\ event' \in [Delivery -> Event] /\ event'[d].pc = event[d].pc
      /\ event'[d].acked = event[d].acked /\ \A e \in Delivery \ {d} : event'[e] = event[e]
  BY DEF Expire, IInv, Types, Event
<1>2. EventStep(d)
  BY <1>1 DEF EventStep, Holds, IInv, Settled
<1> QED
  BY <1>1, <1>2, QuietStep DEF Expire, remote

LEMMA GateAdmitsInv ==
    ASSUME IInv, NEW d \in Delivery, GateAdmits(d)
    PROVE  IInv'
<1> DEFINE r == [pc |-> IF event[d].acked THEN "child" ELSE "award", attempts |-> event[d].attempts,
                 marked |-> TRUE, acked |-> event[d].acked, confirmed |-> TRUE,
                 expired |-> event[d].expired]
<1>0. event \in [Delivery -> Event] /\ event[d] \in Event /\ Holds(d)
  BY DEF GateAdmits, IInv, Types, Holds
<1>a. event'[d] = r /\ \A e \in Delivery \ {d} : event'[e] = event[e]
  BY <1>0 DEF GateAdmits, Event
<1>b. event' = [event EXCEPT ![d] = r]
  BY <1>0, <1>a DEF GateAdmits
<1>c. r \in Event
  BY <1>0 DEF Event, Pc
<1>1. /\ event' \in [Delivery -> Event] /\ event'[d].pc \in {"child", "award"} /\ Holds(d)
      /\ event'[d].acked = event[d].acked /\ \A e \in Delivery \ {d} : event'[e] = event[e]
  BY <1>0, <1>a, <1>b, <1>c
<1>2. EventStep(d)
  BY <1>1 DEF EventStep, Holds
<1> QED
  BY <1>1, <1>2, QuietStep DEF GateAdmits, remote

LEMMA RetryDelayInv ==
    ASSUME IInv, NEW d \in Delivery, RetryDelay(d)
    PROVE  IInv'
<1>1. /\ event' \in [Delivery -> Event] /\ event'[d].pc \in {"abandon", "lock"}
      /\ event'[d].acked = event[d].acked /\ \A e \in Delivery \ {d} : event'[e] = event[e]
  <2>0. event \in [Delivery -> Event] /\ event[d] \in Event
    BY DEF IInv, Types
  <2>1. CASE Move(d, "abandon")
    BY <2>1, MoveFacts DEF Pc
  <2>2. CASE event' = [event EXCEPT ![d].pc = "lock", ![d].attempts = @ + 1]
    <3> DEFINE r == [pc |-> "lock", attempts |-> event[d].attempts + 1, marked |-> event[d].marked,
                     acked |-> event[d].acked, confirmed |-> event[d].confirmed,
                     expired |-> event[d].expired]
    <3>1. event'[d] = r /\ \A e \in Delivery \ {d} : event'[e] = event[e]
      BY <2>0, <2>2 DEF Event
    <3>2. event' = [event EXCEPT ![d] = r]
      BY <2>0, <2>2, <3>1
    <3>3. r \in Event
      BY <2>0 DEF Event, Pc
    <3> QED
      BY <2>0, <3>1, <3>2, <3>3
  <2> QED
    BY <2>1, <2>2 DEF RetryDelay
<1>2. EventStep(d)
  BY <1>1 DEF EventStep, Holds
<1> QED
  BY <1>1, <1>2, QuietStep DEF RetryDelay, remote

LEMMA UnmarkInv ==
    ASSUME IInv, NEW d \in Delivery, Unmark(d)
    PROVE  IInv'
<1>1. ~event[d].acked /\ UNCHANGED <<thread, award, leaked, late>>
  BY DEF Unmark, IInv, Settled, remote
<1>2. CASE Move(d, "apologise")
  BY <1>1, <1>2, MoveStep DEF Pc
<1>3. CASE EndEvent(d)
  <2>1. EventStep(d)
    BY <1>3, EndFacts DEF EventStep, Holds
  <2> QED
    BY <1>1, <2>1, QuietStep
<1> QED
  BY <1>2, <1>3 DEF Unmark

\* The steps that only move an event on.
LEMMA MovingInv ==
    ASSUME IInv, NEW d \in Delivery,
           \/ LockDiscussion(d) \/ TakeSlot(d) \/ GateFails(d) \/ GateDenies(d) \/ GateDuplicate(d)
           \/ ChildYields(d) \/ ChildFails(d)
    PROVE  IInv'
<1>0. UNCHANGED <<thread, award, leaked, late>>
  BY DEF LockDiscussion, TakeSlot, GateFails, GateDenies, GateDuplicate, ChildYields, ChildFails, remote
<1>1. CASE LockDiscussion(d)
  BY <1>0, <1>1, MoveStep DEF LockDiscussion, Pc
<1>2. CASE TakeSlot(d)
  BY <1>0, <1>2, MoveStep DEF TakeSlot, Pc, Holds
<1>3. CASE GateFails(d) \/ ChildFails(d)
  <2>1. Move(d, AfterFailure(d)) /\ AfterFailure(d) \in {"abandon", "giveup", "sleep"}
    BY <1>3, AfterFailurePc DEF GateFails, ChildFails
  <2>2. AfterFailure(d) \in Pc
    BY <2>1 DEF Pc
  <2> QED
    BY <1>0, <2>1, <2>2, MoveStep
<1>4. CASE GateDenies(d) \/ GateDuplicate(d) \/ ChildYields(d)
  BY <1>0, <1>4, MoveStep DEF GateDenies, GateDuplicate, ChildYields, Pc
<1> QED
  BY <1>1, <1>2, <1>3, <1>4

-----------------------------------------------------------------------------
(* Reactions.                                                              *)

LEMMA AwardAckInv ==
    ASSUME IInv, NEW d \in Delivery, AwardAck(d)
    PROVE  IInv'
<1> DEFINE r == [pc |-> "child", attempts |-> event[d].attempts, marked |-> event[d].marked,
                 acked |-> TRUE, confirmed |-> event[d].confirmed, expired |-> event[d].expired]
<1>0. event \in [Delivery -> Event] /\ event[d] \in Event /\ Holds(d) /\ UNCHANGED <<thread, leaked, late>>
  BY DEF AwardAck, IInv, Types, Holds
<1>1. event'[d] = r /\ \A e \in Delivery \ {d} : event'[e] = event[e]
  BY <1>0 DEF AwardAck, Event
<1>2. event' = [event EXCEPT ![d] = r]
  BY <1>0, <1>1 DEF AwardAck
<1>3. r \in Event
  BY <1>0 DEF Event, Pc
<1>4. /\ event' \in [Delivery -> Event] /\ event'[d].pc = "child" /\ event'[d].acked
      /\ \A e \in Delivery \ {d} : event'[e] = event[e]
  BY <1>0, <1>1, <1>2, <1>3
<1>5. award \subseteq award' /\ award' \subseteq award \cup {N(d)}
  BY DEF AwardAck
<1>6. Types' /\ OneHolder' /\ Settled'
  BY <1>0, <1>4, <1>5, HolderKept, ConstantTypes DEF IInv, Types, Settled
<1> HIDE DEF r
<1>7. (\A n \in Note : Once(n))'
  BY <1>0 DEF IInv, Once, T, Q, A
<1>p. Posting'
  BY <1>0, <1>4 DEF IInv, Posting, T, Q, A, N
<1>8. ASSUME NEW n \in award'
      PROVE  n \in leaked' \cup late' \/ \E e \in Active' : N(e) = n /\ event'[e].acked
  <2>1. CASE n = N(d)
    BY <1>4, <2>1 DEF Active
  <2>2. CASE n # N(d)
    <3>1. n \in leaked \cup late \/ \E e \in Active : N(e) = n /\ event[e].acked
      BY <1>5, <2>2 DEF IInv, NoStrandedAck, Releases
    <3> QED
      BY <1>0, <1>4, <2>2, <3>1 DEF Active, N
  <2> QED
    BY <2>1, <2>2
<1>9. NoStrandedAck'
  BY <1>8 DEF NoStrandedAck, Releases, N
<1> QED
  BY <1>6, <1>7, <1>p, <1>9 DEF IInv

\* The reaction is taken off, or its release fails and it is known to be left.
LEMMA ReleaseStep ==
    ASSUME IInv, NEW d \in Delivery, EventStep(d), UNCHANGED thread, ReleaseAck(d)
    PROVE  IInv'
<1>1. /\ award' \subseteq award
      /\ event[d].acked /\ N(d) \in award' => N(d) \in leaked'
      /\ (leaked \cup late) \ {N(d)} \subseteq leaked' \cup late'
      /\ ~event[d].acked => leaked' = leaked /\ late' = late
  BY DEF ReleaseAck
<1>2. Types' /\ OneHolder' /\ Settled'
  BY <1>1, HolderKept DEF IInv, Types, EventStep, Settled
<1>3. (\A n \in Note : Once(n))' /\ Posting'
  BY DEF IInv, Once, Posting, EventStep, T, Q, A, N
<1>4. ASSUME NEW n \in award'
      PROVE  n \in leaked' \cup late' \/ \E e \in Active' : N(e) = n /\ event'[e].acked
  <2>1. n \in leaked \cup late \/ \E e \in Active : N(e) = n /\ event[e].acked
    BY <1>1 DEF IInv, NoStrandedAck, Releases
  <2>2. CASE n = N(d) /\ event[d].acked
    BY <1>1, <2>2
  <2>3. CASE n \in leaked \cup late /\ ~(n = N(d) /\ event[d].acked)
    BY <1>1, <2>3
  <2>4. CASE n \notin leaked \cup late /\ ~(n = N(d) /\ event[d].acked)
    <3>1. PICK e \in Active : N(e) = n /\ event[e].acked
      BY <2>1, <2>4
    <3>2. e \in Delivery \ {d}
      BY <2>4, <3>1 DEF Active
    <3>3. event'[e] = event[e]
      BY <3>2 DEF EventStep
    <3> QED
      BY <3>1, <3>3 DEF Active
  <2> QED
    BY <2>2, <2>3, <2>4
<1>5. NoStrandedAck'
  BY <1>4 DEF NoStrandedAck, Releases, N
<1> QED
  BY <1>2, <1>3, <1>5 DEF IInv

\* An award that GitLab commits late is taken off by an event under way, or known to be late.
LEMMA LateAwardInv ==
    ASSUME IInv, NEW m \in Note, LateAward(m)
    PROVE  IInv'
<1>0. UNCHANGED <<event, thread, leaked>> /\ award' = award \cup {m} /\ Releases(m)' = Releases(m)
  BY DEF LateAward, Releases, Active, N
<1>1. Types' /\ OneHolder' /\ Posting' /\ Settled'
  BY <1>0 DEF IInv, Types, OneHolder, Holds, Posting, Settled, D, N, T, Q, A
<1>2. (\A n \in Note : Once(n))'
  BY <1>0 DEF IInv, Once, T, Q, A
<1>3. late \subseteq late' /\ (m \in late' \/ Releases(m)')
  BY <1>0 DEF LateAward
<1>4. \A n : Releases(n)' = Releases(n)
  BY <1>0 DEF Releases, Active, N
<1>5. NoStrandedAck'
  BY <1>0, <1>3, <1>4 DEF IInv, NoStrandedAck
<1> QED
  BY <1>1, <1>2, <1>5 DEF IInv

LEMMA ReleaseInv ==
    ASSUME IInv, NEW d \in Delivery, Release(d) \/ ChildSuppressed(d) \/ Finish(d)
    PROVE  IInv'
<1>0. UNCHANGED thread /\ ReleaseAck(d)
  BY DEF Release, ChildSuppressed, Finish
<1>1. CASE Release(d)
  <2> DEFINE r == [pc |-> IF event[d].pc = "giveup" THEN "unmark" ELSE "unmark_abandoned",
                   attempts |-> event[d].attempts, marked |-> event[d].marked, acked |-> FALSE,
                   confirmed |-> event[d].confirmed, expired |-> event[d].expired]
  <2>0. event \in [Delivery -> Event] /\ event[d] \in Event
    BY DEF IInv, Types
  <2>1. event'[d] = r /\ \A e \in Delivery \ {d} : event'[e] = event[e]
    BY <1>1, <2>0 DEF Release, Event
  <2>2. event' = [event EXCEPT ![d] = r]
    BY <1>1, <2>0, <2>1 DEF Release
  <2>3. r \in Event
    BY <2>0 DEF Event, Pc
  <2>4. /\ event' \in [Delivery -> Event] /\ event'[d].pc \in {"unmark", "unmark_abandoned"}
        /\ ~event'[d].acked
    BY <2>0, <2>1, <2>2, <2>3
  <2>5. EventStep(d)
    BY <2>1, <2>4 DEF EventStep, Holds
  <2> QED
    BY <1>0, <2>5, ReleaseStep
<1>2. CASE ChildSuppressed(d) \/ Finish(d)
  <2>1. EventStep(d)
    BY <1>2, EndFacts DEF ChildSuppressed, Finish, EventStep, Holds
  <2> QED
    BY <1>0, <2>1, ReleaseStep
<1> QED
  BY <1>1, <1>2

-----------------------------------------------------------------------------
(* The thread.                                                             *)

\* The question is the last note, and an answer would stand after it.
LEMMA PendingUnanswered ==
    ASSUME IInv, NEW n \in Note, Pending(n)
    PROVE  /\ \E i \in 1..Len(T(n)) : T(n)[i] = Q(n)
           /\ \A i \in 1..Len(T(n)) : T(n)[i] # A(n)
<1>1. T(n) \in Seq(Entry) /\ Once(n)
  BY ChatHandlerAssumption DEF IInv, Types, T
<1>2. PICK i \in 1..Len(T(n)) : T(n)[i] = Q(n)
  BY <1>1 DEF Pending, Stands, T, Q
<1>3. T(n)[Len(T(n))] = Q(n)
  BY DEF Pending, Covered, Last, T, Q
<1>4. ASSUME NEW j \in 1..Len(T(n)), T(n)[j] = A(n)
      PROVE  FALSE
  <2>1. PICK k \in 1..Len(T(n)) : k < j /\ T(n)[k] = Q(n)
    BY <1>1, <1>4 DEF Once
  <2>2. Len(T(n)) \in Nat /\ Len(T(n)) \in 1..Len(T(n))
    BY <1>1, <1>2
  <2>3. k = Len(T(n))
    BY <1>1, <1>3, <2>1, <2>2 DEF Once
  <2> QED
    BY <2>1, <2>2, <2>3
<1> QED
  BY <1>2, <1>4

LEMMA ChildReadyInv ==
    ASSUME IInv, NEW d \in Delivery, ChildReady(d)
    PROVE  IInv'
<1>0. /\ Move(d, "post") /\ Pending(N(d)) /\ Holds(d) /\ N(d) \in Note
      /\ UNCHANGED <<thread, award, leaked, late>>
  BY ConstantTypes DEF ChildReady, Holds, remote
<1>1. /\ event' \in [Delivery -> Event] /\ event'[d].pc = "post" /\ event'[d].acked = event[d].acked
      /\ \A e \in Delivery \ {d} : event'[e] = event[e]
  BY <1>0, MoveFacts DEF Pc
<1>2. Types' /\ OneHolder' /\ Settled'
  BY <1>0, <1>1, HolderKept DEF IInv, Types, Settled
<1>3. (\A n \in Note : Once(n))'
  BY <1>0 DEF IInv, Once, T, Q, A
<1>4. Posting'
  <2>1. ASSUME NEW e \in Delivery, event'[e].pc = "post"
        PROVE  /\ \E i \in 1..Len(T(N(e))) : T(N(e))[i] = Q(N(e))
               /\ \A i \in 1..Len(T(N(e))) : T(N(e))[i] # A(N(e))
    <3>1. CASE e = d
      BY <1>0, <3>1, PendingUnanswered
    <3>2. CASE e # d
      BY <1>1, <2>1, <3>2 DEF IInv, Posting
    <3> QED
      BY <3>1, <3>2
  <2> QED
    BY <1>0, <2>1 DEF Posting, T, Q, A, N
<1>5. NoStrandedAck'
  BY <1>0, <1>1 DEF IInv, NoStrandedAck, Releases, Active, N
<1> QED
  BY <1>2, <1>3, <1>4, <1>5 DEF IInv

\* What appending a note leaves of the threads.
LEMMA SayFacts ==
    ASSUME IInv, NEW m \in Note, NEW kind \in {"question", "answer", "failure"}, Say(kind, m)
    PROVE  /\ thread' \in [Disc -> Seq(Entry)]
           /\ \A n \in Note : DiscOf[n] # DiscOf[m] => T(n)' = T(n)
           /\ \A n \in Note : DiscOf[n] = DiscOf[m] =>
                  /\ Len(T(n)) \in Nat /\ Len(T(n)') = Len(T(n)) + 1
                  /\ \A i \in 1..Len(T(n)) : T(n)'[i] = T(n)[i]
                  /\ T(n)'[Len(T(n)) + 1] = [kind |-> kind, note |-> m]
<1> DEFINE x == [kind |-> kind, note |-> m]
<1>1. x \in Entry
  BY DEF Entry
<1>2. thread \in [Disc -> Seq(Entry)] /\ DiscOf \in [Note -> Disc] /\ DiscOf[m] \in Disc
  BY ChatHandlerAssumption DEF IInv, Types
<1> HIDE DEF x
<1>3. thread' = [thread EXCEPT ![DiscOf[m]] = Append(@, x)]
  BY DEF Say, x
<1>4. T(m) \in Seq(Entry) /\ Append(T(m), x) \in Seq(Entry)
  BY <1>1, <1>2 DEF T
<1>5. thread' \in [Disc -> Seq(Entry)]
  BY <1>2, <1>3, <1>4 DEF T
<1>6. \A n \in Note : DiscOf[n] # DiscOf[m] => T(n)' = T(n)
  BY <1>2, <1>3 DEF T
<1>7. ASSUME NEW n \in Note, DiscOf[n] = DiscOf[m]
      PROVE  /\ Len(T(n)) \in Nat /\ Len(T(n)') = Len(T(n)) + 1
             /\ \A i \in 1..Len(T(n)) : T(n)'[i] = T(n)[i]
             /\ T(n)'[Len(T(n)) + 1] = x
  <2>1. T(n)' = Append(T(n), x) /\ T(n) \in Seq(Entry)
    BY <1>2, <1>3, <1>4, <1>7 DEF T
  <2> QED
    BY <1>1, <2>1
<1> QED
  BY <1>5, <1>6, <1>7 DEF x

\* A question that is new, or an answer to a question that stands unanswered, or a failure.
LEMMA SayOnce ==
    ASSUME IInv, NEW m \in Note, NEW kind \in {"question", "answer", "failure"}, Say(kind, m),
           kind = "question" => \A i \in 1..Len(T(m)) : T(m)[i] # Q(m),
           kind = "answer" => /\ \E i \in 1..Len(T(m)) : T(m)[i] = Q(m)
                              /\ \A i \in 1..Len(T(m)) : T(m)[i] # A(m)
    PROVE  (\A n \in Note : Once(n))'
<1>a. /\ \A n \in Note : DiscOf[n] # DiscOf[m] => T(n)' = T(n)
      /\ \A n \in Note : DiscOf[n] = DiscOf[m] =>
             /\ Len(T(n)) \in Nat /\ Len(T(n)') = Len(T(n)) + 1
             /\ \A i \in 1..Len(T(n)) : T(n)'[i] = T(n)[i]
             /\ T(n)'[Len(T(n)) + 1] = [kind |-> kind, note |-> m]
  BY SayFacts
<1>1. ASSUME NEW n \in Note
      PROVE  Once(n)'
  <2>1. Once(n)
    BY DEF IInv
  <2>2. CASE DiscOf[n] # DiscOf[m]
    BY <2>1, <2>2, <1>a DEF Once, T, Q, A
  <2>3. CASE DiscOf[n] = DiscOf[m]
    <3> DEFINE k == Len(T(n))
    <3>1. /\ k \in Nat /\ Len(T(n)') = k + 1
          /\ \A i \in 1..k : T(n)'[i] = T(n)[i]
          /\ T(n)'[k + 1] = [kind |-> kind, note |-> m]
      BY <2>3, <1>a
    <3>2. T(n) = T(m)
      BY <2>3 DEF T
    <3>3. /\ \A i, j \in 1..k : T(n)[i] = Q(n) /\ T(n)[j] = Q(n) => i = j
          /\ \A i, j \in 1..k : T(n)[i] = A(n) /\ T(n)[j] = A(n) => i = j
          /\ \A j \in 1..k : T(n)[j] = A(n) => \E i \in 1..k : i < j /\ T(n)[i] = Q(n)
      BY <2>1 DEF Once
    <3>4. /\ T(n)'[k + 1] = Q(n) => \A i \in 1..k : T(n)[i] # Q(n)
          /\ T(n)'[k + 1] = A(n) => /\ \E i \in 1..k : T(n)[i] = Q(n)
                                    /\ \A i \in 1..k : T(n)[i] # A(n)
      BY <3>1, <3>2 DEF Q, A
    <3> HIDE DEF k
    <3>5. \A i \in 1..(k + 1) : i \in 1..k \/ i = k + 1
      BY <3>1
    <3>6. \A i, j \in 1..(k + 1) : T(n)'[i] = Q(n) /\ T(n)'[j] = Q(n) => i = j
      BY <3>1, <3>3, <3>4, <3>5
    <3>7. \A i, j \in 1..(k + 1) : T(n)'[i] = A(n) /\ T(n)'[j] = A(n) => i = j
      BY <3>1, <3>3, <3>4, <3>5
    <3>8. ASSUME NEW j \in 1..(k + 1), T(n)'[j] = A(n)
          PROVE  \E i \in 1..(k + 1) : i < j /\ T(n)'[i] = Q(n)
      <4>1. PICK i \in 1..k : i < j /\ T(n)[i] = Q(n)
        BY <3>1, <3>3, <3>4, <3>5, <3>8
      <4> QED
        BY <3>1, <4>1
    <3> QED
      BY <3>1, <3>6, <3>7, <3>8 DEF Once, Q, A
  <2> QED
    BY <2>2, <2>3
<1> QED
  BY <1>1 DEF T

\* A question that stands unanswered is disturbed by nothing but its answer.
LEMMA SayUnanswered ==
    ASSUME IInv, NEW m \in Note, NEW kind \in {"question", "answer", "failure"}, Say(kind, m),
           NEW n \in Note, kind # "answer" \/ DiscOf[n] # DiscOf[m],
           \E i \in 1..Len(T(n)) : T(n)[i] = Q(n),
           \A i \in 1..Len(T(n)) : T(n)[i] # A(n)
    PROVE  /\ \E i \in 1..Len(T(n)') : T(n)'[i] = Q(n)
           /\ \A i \in 1..Len(T(n)') : T(n)'[i] # A(n)
<1>a. /\ \A o \in Note : DiscOf[o] # DiscOf[m] => T(o)' = T(o)
      /\ \A o \in Note : DiscOf[o] = DiscOf[m] =>
             /\ Len(T(o)) \in Nat /\ Len(T(o)') = Len(T(o)) + 1
             /\ \A i \in 1..Len(T(o)) : T(o)'[i] = T(o)[i]
             /\ T(o)'[Len(T(o)) + 1] = [kind |-> kind, note |-> m]
  BY SayFacts
<1>1. CASE DiscOf[n] # DiscOf[m]
  BY <1>a, <1>1
<1>2. CASE DiscOf[n] = DiscOf[m]
  <2>1. /\ Len(T(n)) \in Nat /\ Len(T(n)') = Len(T(n)) + 1
        /\ \A i \in 1..Len(T(n)) : T(n)'[i] = T(n)[i]
        /\ T(n)'[Len(T(n)) + 1] = [kind |-> kind, note |-> m]
    BY <1>a, <1>2
  <2>2. T(n)'[Len(T(n)) + 1] # A(n)
    BY <1>2, <2>1 DEF A
  <2>3. \A i \in 1..(Len(T(n)) + 1) : i \in 1..Len(T(n)) \/ i = Len(T(n)) + 1
    BY <2>1
  <2> QED
    BY <2>1, <2>2, <2>3
<1> QED
  BY <1>1, <1>2

\* A note in the thread, reactions as they were, and the event on its way.
LEMMA SayStep ==
    ASSUME IInv, NEW d \in Delivery, NEW kind \in {"answer", "failure"}, Say(kind, N(d)),
           EventStep(d), UNCHANGED <<award, leaked, late>>, event'[d].pc # "post",
           event[d].acked => event'[d].acked, kind = "answer" => event[d].pc = "post"
    PROVE  IInv'
<1>0. N(d) \in Note /\ kind \in {"question", "answer", "failure"}
  BY ConstantTypes
<1>1. Types' /\ OneHolder' /\ Settled'
  BY <1>0, HolderKept, SayFacts DEF IInv, Types, EventStep, Settled
<1>2. (\A n \in Note : Once(n))'
  <2>1. kind = "answer" => /\ \E i \in 1..Len(T(N(d))) : T(N(d))[i] = Q(N(d))
                           /\ \A i \in 1..Len(T(N(d))) : T(N(d))[i] # A(N(d))
    BY DEF IInv, Posting
  <2>2. kind # "question"
    OBVIOUS
  <2> QED
    BY <1>0, <2>1, <2>2, SayOnce
<1>3. ASSUME NEW e \in Delivery, event'[e].pc = "post"
      PROVE  /\ \E i \in 1..Len(T(N(e))') : T(N(e))'[i] = Q(N(e))
             /\ \A i \in 1..Len(T(N(e))') : T(N(e))'[i] # A(N(e))
  <2>1. e # d /\ event[e].pc = "post"
    BY <1>3 DEF EventStep
  <2>2. /\ \E i \in 1..Len(T(N(e))) : T(N(e))[i] = Q(N(e))
        /\ \A i \in 1..Len(T(N(e))) : T(N(e))[i] # A(N(e))
    BY <2>1 DEF IInv, Posting
  <2>3. N(e) \in Note /\ (kind # "answer" \/ DiscOf[N(e)] # DiscOf[N(d)])
    BY <2>1, ConstantTypes DEF IInv, OneHolder, Holds
  <2> QED
    BY <1>0, <2>2, <2>3, SayUnanswered
<1>4. Posting'
  BY <1>3 DEF Posting, T, Q, A, N
<1>5. NoStrandedAck'
  BY DEF IInv, Types, NoStrandedAck, Releases, EventStep, Active, Settled, N, Event, Pc
<1> QED
  BY <1>1, <1>2, <1>4, <1>5 DEF IInv

LEMMA AskInv ==
    ASSUME IInv, NEW m \in Note, Ask(m)
    PROVE  IInv'
<1>0. Say("question", m) /\ "question" \in {"question", "answer", "failure"}
      /\ UNCHANGED <<event, award, leaked, late>> /\ \A i \in 1..Len(T(m)) : T(m)[i] # Q(m)
  <2>1. T(m) \in Seq(Entry)
    BY ChatHandlerAssumption DEF IInv, Types, T
  <2> QED
    BY <2>1 DEF Ask, Stands, T, Q
<1>1. Types' /\ OneHolder' /\ Settled'
  BY <1>0, SayFacts DEF IInv, Types, OneHolder, Holds, Settled, D, N
<1>2. (\A n \in Note : Once(n))'
  BY <1>0, SayOnce
<1>3. ASSUME NEW e \in Delivery, event'[e].pc = "post"
      PROVE  /\ \E i \in 1..Len(T(N(e))') : T(N(e))'[i] = Q(N(e))
             /\ \A i \in 1..Len(T(N(e))') : T(N(e))'[i] # A(N(e))
  <2>1. /\ \E i \in 1..Len(T(N(e))) : T(N(e))[i] = Q(N(e))
        /\ \A i \in 1..Len(T(N(e))) : T(N(e))[i] # A(N(e))
    BY <1>0, <1>3 DEF IInv, Posting
  <2> QED
    BY <1>0, <2>1, ConstantTypes, SayUnanswered
<1>4. Posting'
  BY <1>3 DEF Posting, T, Q, A, N
<1>5. NoStrandedAck'
  BY <1>0 DEF IInv, NoStrandedAck, Releases, Active, N
<1> QED
  BY <1>1, <1>2, <1>4, <1>5 DEF IInv

LEMMA ChildPostInv ==
    ASSUME IInv, NEW d \in Delivery, ChildPost(d)
    PROVE  IInv'
<1>0. event[d].pc = "post" /\ UNCHANGED <<award, leaked, late>>
  BY DEF ChildPost
<1>1. PICK pc \in {"finish", "abandon", "giveup", "sleep"} :
          Move(d, pc) /\ (Say("answer", N(d)) \/ UNCHANGED thread)
  BY AfterFailurePc DEF ChildPost, Silent
<1>2. pc \in Pc
  BY DEF Pc
<1>3. EventStep(d) /\ event'[d].pc # "post" /\ event'[d].acked = event[d].acked
  BY <1>1, <1>2, MoveFacts DEF EventStep, Holds
<1>4. CASE Say("answer", N(d))
  BY <1>0, <1>3, <1>4, SayStep
<1>5. CASE UNCHANGED thread
  BY <1>0, <1>3, <1>5, QuietStep
<1> QED
  BY <1>1, <1>4, <1>5

LEMMA PostFailureInv ==
    ASSUME IInv, NEW d \in Delivery, PostFailure(d)
    PROVE  IInv'
<1>0. ~event[d].acked /\ event[d].pc # "post" /\ UNCHANGED <<award, leaked, late>> /\ EndEvent(d)
  BY DEF PostFailure, IInv, Settled
<1>1. EventStep(d) /\ event'[d].pc # "post"
  BY <1>0, EndFacts DEF EventStep, Holds
<1>2. CASE Say("failure", N(d))
  BY <1>0, <1>1, <1>2, SayStep
<1>3. CASE UNCHANGED thread
  BY <1>0, <1>1, <1>3, QuietStep
<1> QED
  BY <1>2, <1>3 DEF PostFailure, Silent

-----------------------------------------------------------------------------
(* The whole specification.                                                *)

LEMMA InitInv == Init => IInv
<1> SUFFICES ASSUME Init PROVE IInv
  OBVIOUS
<1>1. Types
  BY DEF Init, Types, Idle, Event, Pc
<1>2. \A n \in Note : T(n) = <<>>
  BY ChatHandlerAssumption DEF Init, T
<1>3. \A n \in Note : Once(n)
  BY <1>2 DEF Once
<1>4. OneHolder /\ Posting /\ Settled /\ NoStrandedAck
  BY DEF Init, OneHolder, Holds, Posting, Settled, NoStrandedAck, Idle
<1> QED
  BY <1>1, <1>3, <1>4 DEF IInv

LEMMA UnchangedInv ==
    ASSUME IInv, UNCHANGED <<event, thread, award, leaked, late>>
    PROVE  IInv'
<1>1. Types' /\ OneHolder' /\ Posting' /\ Settled'
  BY DEF IInv, Types, OneHolder, Holds, Posting, Settled, D, N, T, Q, A
<1>2. (\A n \in Note : Once(n))'
  BY DEF IInv, Once, T, Q, A
<1>3. NoStrandedAck'
  BY DEF IInv, NoStrandedAck, Releases, Active, N
<1> QED
  BY <1>1, <1>2, <1>3 DEF IInv

LEMMA StepInv ==
    ASSUME IInv, NEW d \in Delivery, Step(d)
    PROVE  IInv'
BY MovingInv, GateAdmitsInv, AwardAckInv, ReleaseInv, ChildReadyInv, ChildPostInv, RetryDelayInv,
   UnmarkInv, PostFailureInv DEF Step

LEMMA NextInv ==
    ASSUME IInv, [Next]_vars
    PROVE  IInv'
<1>1. ASSUME NEW n \in Note, Ask(n) \/ EditNote(n) \/ LateAward(n)
      PROVE  IInv'
  BY <1>1, AskInv, LateAwardInv, UnchangedInv DEF EditNote
<1>2. ASSUME NEW c \in Disc, ToggleMute(c)
      PROVE  IInv'
  BY <1>2, UnchangedInv DEF ToggleMute
<1>3. ASSUME NEW d \in Delivery, Admit(d) \/ Expire(d) \/ Step(d)
      PROVE  IInv'
  BY <1>3, AdmitInv, ExpireInv, StepInv
<1>4. CASE CloseChats \/ CancelChats \/ Restart \/ UNCHANGED vars
  BY <1>4, UnchangedInv DEF CloseChats, CancelChats, Restart, vars, remote
<1> QED
  BY <1>1, <1>2, <1>3, <1>4 DEF Next

\* The strengthened invariant: the lock of a discussion has one holder, so what a child that is
\* about to post read of the thread is still true when it posts.
THEOREM Inductive == Spec => []IInv
BY InitInv, NextInv, PTL DEF Spec

LEMMA OnceCounts ==
    ASSUME IInv
    PROVE  AnsweredOnce
<1>1. ASSUME NEW n \in Note
      PROVE  Cardinality({i \in DOMAIN thread[DiscOf[n]] :
                              thread[DiscOf[n]][i] = [kind |-> "answer", note |-> n]}) <= 1
  <2> DEFINE S == {i \in DOMAIN thread[DiscOf[n]] :
                       thread[DiscOf[n]][i] = [kind |-> "answer", note |-> n]}
  <2>1. thread[DiscOf[n]] \in Seq(Entry)
    BY ChatHandlerAssumption DEF IInv, Types
  <2>2. \A i, j \in S : i = j
    <3>1. Once(n) /\ DOMAIN thread[DiscOf[n]] = 1..Len(T(n))
      BY <2>1 DEF IInv, T
    <3> QED
      BY <3>1 DEF Once, T, A
  <2> SUFFICES Cardinality(S) <= 1
    OBVIOUS
  <2> HIDE DEF S
  <2>3. CASE S = {}
    BY <2>3, FS_EmptySet
  <2>4. CASE S # {}
    <3>1. PICK i : i \in S
      BY <2>4
    <3>2. S = {i}
      BY <2>2, <3>1
    <3> QED
      BY <3>2, FS_Singleton
  <2> QED
    BY <2>3, <2>4
<1> QED
  BY <1>1 DEF AnsweredOnce

\* A thread gets at most one answer to a question, for any number of questions, threads,
\* redeliveries and retries, and any loss of responses.
THEOREM AnsweredAtMostOnce == Spec => []AnsweredOnce
BY Inductive, OnceCounts, PTL

\* A reaction is left on a question only when its release failed, or when GitLab committed an
\* award that had failed here after its event was over.
THEOREM NoReactionStranded == Spec => []NoStrandedAck
<1>1. IInv => NoStrandedAck
  BY DEF IInv
<1> QED
  BY <1>1, Inductive, PTL

-----------------------------------------------------------------------------
(* Limits: attempts, admissions, slots and the order of the marks.         *)

Marked(m) == \E i \in 1..Len(seen) : seen[i] = m
Order ==
    /\ seen \in Seq(Note) /\ Len(seen) <= SeenCap
    /\ \A i, j \in 1..Len(seen) : seen[i] = seen[j] => i = j
\* An event that waits for its next attempt has one left.
Attempts ==
    \A d \in Delivery : /\ event[d].attempts <= MaxAttempts
                        /\ event[d].pc = "sleep" => event[d].attempts < MaxAttempts
Admission == IsFiniteSet(Active) /\ Cardinality(Active) <= AdmitCap /\ Cardinality(Running) <= Slots
Places ==
    /\ phase \in {"open", "closed", "cancelled"}
    /\ leaked \cup late \subseteq award /\ hushed \subseteq Note /\ muted \subseteq Disc
    /\ adrift \subseteq Note

Bounds == Order /\ Attempts /\ Admission /\ Places

LEMMA Capacities ==
    /\ AdmitCap \in Nat /\ Slots \in Nat /\ SeenCap \in Nat /\ MaxAttempts \in Nat
    /\ AdmitCap >= 1 /\ Slots >= 1 /\ SeenCap >= 1 /\ MaxAttempts >= 1
BY ChatHandlerAssumption

\* Removing an entry moves those behind it up.
LEMMA RemoveAtFacts ==
    ASSUME NEW S, NEW s \in Seq(S), NEW i \in 1..Len(s)
    PROVE  /\ RemoveAt(s, i) \in Seq(S) /\ Len(RemoveAt(s, i)) = Len(s) - 1
           /\ \A j \in 1..(Len(s) - 1) : RemoveAt(s, i)[j] = IF j < i THEN s[j] ELSE s[j + 1]
<1> DEFINE l == SubSeq(s, 1, i - 1)
           r == SubSeq(s, i + 1, Len(s))
<1>0. Len(s) \in Nat /\ i \in Int /\ 1 <= i /\ i <= Len(s) /\ \A j \in 1..Len(s) : s[j] \in S
  OBVIOUS
<1>1. l \in Seq(S) /\ Len(l) = i - 1 /\ \A j \in 1..(i - 1) : l[j] = s[j]
  <2>1. \A j \in 1..(i - 1) : s[j] \in S
    BY <1>0
  <2>2. /\ l \in Seq(S) /\ Len(l) = IF 1 <= i - 1 THEN i - 1 - 1 + 1 ELSE 0
        /\ \A j \in 1..(i - 1 - 1 + 1) : l[j] = s[1 + j - 1]
    BY <1>0, <2>1, SubSeqProperties
  <2> HIDE DEF l
  <2> QED
    BY <1>0, <2>2
<1>2. r \in Seq(S) /\ Len(r) = Len(s) - i /\ \A j \in 1..(Len(s) - i) : r[j] = s[i + j]
  <2>1. \A j \in (i + 1)..Len(s) : s[j] \in S
    BY <1>0
  <2>2. /\ r \in Seq(S) /\ Len(r) = IF i + 1 <= Len(s) THEN Len(s) - (i + 1) + 1 ELSE 0
        /\ \A j \in 1..(Len(s) - (i + 1) + 1) : r[j] = s[i + 1 + j - 1]
    BY <1>0, <2>1, SubSeqProperties
  <2> HIDE DEF r
  <2> QED
    BY <1>0, <2>2
<1>3. RemoveAt(s, i) = l \o r
  BY DEF RemoveAt
<1> HIDE DEF l, r
<1>4. /\ l \o r \in Seq(S) /\ Len(l \o r) = Len(l) + Len(r)
      /\ \A j \in 1..Len(l) + Len(r) : (l \o r)[j] = IF j <= Len(l) THEN l[j] ELSE r[j - Len(l)]
  BY <1>1, <1>2, ConcatProperties
<1>5. ASSUME NEW j \in 1..(Len(s) - 1)
      PROVE  (l \o r)[j] = IF j < i THEN s[j] ELSE s[j + 1]
  <2>1. CASE j < i
    BY <1>0, <1>1, <1>2, <1>4, <2>1
  <2>2. CASE ~(j < i)
    <3>1. j - (i - 1) \in 1..(Len(s) - i) /\ ~(j <= i - 1) /\ i + (j - (i - 1)) = j + 1
      BY <1>0, <2>2
    <3>2. (l \o r)[j] = r[j - (i - 1)]
      BY <1>0, <1>1, <1>2, <1>4, <3>1
    <3> QED
      BY <1>2, <2>2, <3>1, <3>2
  <2> QED
    BY <2>1, <2>2
<1> QED
  BY <1>0, <1>1, <1>2, <1>3, <1>4, <1>5

LEMMA SeenRange == ASSUME Order PROVE \A m : m \in Range(seen) <=> Marked(m)
<1>1. DOMAIN seen = 1..Len(seen)
  BY DEF Order
<1> QED
  BY <1>1 DEF Range, Marked

\* A note that is forgotten is marked no more, and the others are as they were.
LEMMA ForgetFacts ==
    ASSUME Order, NEW n \in Note, Forget(n)
    PROVE  Order' /\ \A m : Marked(m)' <=> Marked(m) /\ m # n
<1>0. Len(seen) \in Nat /\ SeenCap \in Nat /\ DOMAIN seen = 1..Len(seen)
  BY Capacities DEF Order
<1>1. CASE ~Marked(n)
  <2>1. seen' = seen
    BY <1>1, SeenRange DEF Forget
  <2> QED
    BY <1>1, <2>1 DEF Order, Marked
<1>2. CASE Marked(n)
  <2>1. PICK i \in 1..Len(seen) : seen[i] = n /\ seen' = RemoveAt(seen, i)
    BY <1>0, <1>2, SeenRange DEF Forget
  <2> DEFINE k == Len(seen)
             t == seen'
  <2>2. /\ t \in Seq(Note) /\ Len(t) = k - 1
        /\ \A j \in 1..(k - 1) : t[j] = IF j < i THEN seen[j] ELSE seen[j + 1]
    BY <2>1, RemoveAtFacts DEF Order
  <2>3. k \in Nat /\ i \in 1..k /\ k <= SeenCap /\ \A j, l \in 1..k : seen[j] = seen[l] => j = l
    BY <1>0 DEF Order
  <2>4. Order'
    <3> HIDE DEF t, k
    <3>1. ASSUME NEW j \in 1..(k - 1), NEW l \in 1..(k - 1), t[j] = t[l]
          PROVE  j = l
      <4> DEFINE p == IF j < i THEN j ELSE j + 1
                 q == IF l < i THEN l ELSE l + 1
      <4>1. p \in 1..k /\ q \in 1..k /\ t[j] = seen[p] /\ t[l] = seen[q]
        BY <2>2, <2>3
      <4>2. p = q
        BY <2>3, <3>1, <4>1
      <4> QED
        BY <2>3, <4>2
    <3>2. Len(t) <= SeenCap
      BY <1>0, <2>2, <2>3
    <3> QED
      BY <2>2, <3>1, <3>2 DEF Order, t
  <2>5. ASSUME NEW m
        PROVE  Marked(m)' <=> Marked(m) /\ m # n
    <3> HIDE DEF t, k
    <3>1. ASSUME NEW j \in 1..(k - 1), t[j] = m
          PROVE  m # n /\ \E l \in 1..k : seen[l] = m
      <4> DEFINE p == IF j < i THEN j ELSE j + 1
      <4>1. p \in 1..k /\ p # i /\ seen[p] = m
        BY <2>2, <2>3, <3>1
      <4> QED
        BY <2>1, <2>3, <4>1
    <3>2. ASSUME NEW l \in 1..k, seen[l] = m, m # n
          PROVE  \E j \in 1..(k - 1) : t[j] = m
      <4>1. l # i /\ i \in Int /\ l \in Int /\ k \in Int /\ 1 <= i /\ i <= k /\ 1 <= l /\ l <= k
        BY <2>1, <2>3, <3>2
      <4>2. CASE l < i
        <5>1. l \in 1..(k - 1) /\ t[l] = seen[l]
          BY <2>2, <4>1, <4>2
        <5> QED
          BY <3>2, <5>1
      <4>3. CASE i < l
        <5>1. l - 1 \in 1..(k - 1) /\ ~(l - 1 < i) /\ l - 1 + 1 = l
          BY <4>1, <4>3
        <5>2. t[l - 1] = seen[l]
          BY <2>2, <5>1
        <5> QED
          BY <3>2, <5>1, <5>2
      <4> QED
        BY <4>1, <4>2, <4>3
    <3> QED
      BY <2>2, <3>1, <3>2 DEF Marked, t, k
  <2> QED
    BY <2>4, <2>5
<1> QED
  BY <1>1, <1>2

\* A new mark goes last; the oldest may go for it.
LEMMA MarkFacts ==
    ASSUME Order, NEW n \in Note, ~Marked(n), MarkNew(n)
    PROVE  /\ Order' /\ \A m : Marked(m)' => Marked(m) \/ m = n
           /\ Marked(n)'
           /\ Len(seen) < SeenCap => \A m : Marked(m) => Marked(m)'
<1> DEFINE k == Len(seen)
           t == seen'
<1>0. k \in Nat /\ SeenCap \in Nat /\ SeenCap >= 1 /\ seen \in Seq(Note) /\ k <= SeenCap
  BY Capacities DEF Order
<1>1. CASE k < SeenCap
  <2>1. /\ t \in Seq(Note) /\ Len(t) = k + 1 /\ t[k + 1] = n
        /\ \A j \in 1..k : t[j] = seen[j]
    BY <1>0, <1>1, AppendProperties DEF MarkNew
  <2>2. \A j \in 1..k : seen[j] # n
    BY DEF Marked
  <2>3. \A i, j \in 1..k : seen[i] = seen[j] => i = j
    BY DEF Order
  <2> HIDE DEF t, k
  <2>4. \A j \in 1..(k + 1) : j \in 1..k \/ j = k + 1
    BY <1>0
  <2>5. \A i, j \in 1..(k + 1) : t[i] = t[j] => i = j
    BY <1>0, <2>1, <2>2, <2>3, <2>4
  <2>6. t \in Seq(Note) /\ Len(t) <= SeenCap
    BY <1>0, <1>1, <2>1
  <2>7. Order'
    BY <2>1, <2>5, <2>6 DEF Order, t
  <2>8. \A m : Marked(m)' <=> Marked(m) \/ m = n
    <3>1. \A m : (\E j \in 1..(k + 1) : t[j] = m) <=> (\E j \in 1..k : seen[j] = m) \/ m = n
      BY <1>0, <2>1, <2>4
    <3> QED
      BY <2>1, <3>1 DEF Marked, t, k
  <2> QED
    BY <2>7, <2>8
<1>2. CASE ~(k < SeenCap)
  <2> DEFINE r == Tail(seen)
  <2>0. k >= 1 /\ k = SeenCap /\ seen # <<>>
    BY <1>0, <1>2
  <2>1. r \in Seq(Note) /\ Len(r) = k - 1 /\ \A j \in 1..(k - 1) : r[j] = seen[j + 1]
    BY <1>0, <2>0, HeadTailProperties
  <2>2. t = Append(r, n)
    BY <1>2 DEF MarkNew
  <2>3. \A j \in 1..k : seen[j] # n
    BY DEF Marked
  <2>4. \A i, j \in 1..k : seen[i] = seen[j] => i = j
    BY DEF Order
  <2> HIDE DEF t, k, r
  <2>5. t \in Seq(Note) /\ Len(t) = k /\ t[k] = n /\ \A j \in 1..(k - 1) : t[j] = seen[j + 1]
    <3>1. /\ Append(r, n) \in Seq(Note) /\ Len(Append(r, n)) = Len(r) + 1
          /\ \A j \in 1..Len(r) : Append(r, n)[j] = r[j]
          /\ Append(r, n)[Len(r) + 1] = n
      BY <2>1, AppendProperties
    <3>2. Len(r) + 1 = k
      BY <1>0, <2>1
    <3> QED
      BY <2>1, <2>2, <3>1, <3>2
  <2>6. \A j \in 1..k : (j \in 1..(k - 1) /\ j + 1 \in 1..k) \/ j = k
    BY <1>0
  <2>7. \A i, j \in 1..k : t[i] = t[j] => i = j
    BY <1>0, <2>3, <2>4, <2>5, <2>6
  <2>8. Order'
    BY <1>0, <2>0, <2>5, <2>7 DEF Order, t
  <2>9. \A m : (\E j \in 1..k : t[j] = m) => (\E j \in 1..k : seen[j] = m) \/ m = n
    BY <1>0, <2>5, <2>6
  <2>10. \E j \in 1..k : t[j] = n
    BY <1>0, <2>0, <2>5
  <2>11. \A m : Marked(m)' => Marked(m) \/ m = n
    BY <2>5, <2>9 DEF Marked, t, k
  <2>12. Marked(n)'
    BY <2>5, <2>10 DEF Marked, t
  <2> QED
    BY <1>2, <2>8, <2>11, <2>12 DEF k
<1> QED
  BY <1>1, <1>2

InSlot == {"gate", "award", "child", "post"}

LEMMA MoveAll ==
    ASSUME IInv, NEW d \in Delivery, NEW pc \in Pc, Move(d, pc)
    PROVE  /\ \A e \in Delivery \ {d} : event'[e] = event[e]
           /\ event'[d].pc = pc /\ event'[d].attempts = event[d].attempts
           /\ event'[d].marked = event[d].marked /\ event'[d].acked = event[d].acked
BY DEF IInv, Types, Event, Move

LEMMA EndAll ==
    ASSUME IInv, NEW d \in Delivery, EndEvent(d)
    PROVE  /\ \A e \in Delivery \ {d} : event'[e] = event[e]
           /\ event'[d].pc = "done" /\ event'[d].attempts = 0
           /\ event'[d].marked = FALSE /\ event'[d].acked = FALSE
BY DEF IInv, Types, Event, Pc, EndEvent, Ended, Idle

\* What a step counts: it goes on to another attempt only when one is left, and takes a slot only
\* when one is free.
Counts(d) ==
    /\ \A e \in Delivery \ {d} : event'[e] = event[e]
    /\ event'[d].attempts <= MaxAttempts
    /\ event'[d].pc = "sleep" => event'[d].attempts < MaxAttempts
    /\ event'[d].pc \in InSlot => event[d].pc \in InSlot \/ Cardinality(Running) < Slots

LEMMA MoveCounts ==
    ASSUME IInv, Attempts, NEW d \in Delivery, NEW pc \in Pc, Move(d, pc),
           pc = "sleep" => event[d].attempts < MaxAttempts,
           pc \in InSlot => event[d].pc \in InSlot \/ Cardinality(Running) < Slots
    PROVE  Counts(d)
BY MoveAll DEF Counts, Attempts

LEMMA EndCounts ==
    ASSUME IInv, NEW d \in Delivery, EndEvent(d)
    PROVE  Counts(d)
<1>1. /\ \A e \in Delivery \ {d} : event'[e] = event[e]
      /\ event'[d].pc = "done" /\ event'[d].attempts = 0
  BY EndAll
<1>2. 0 <= MaxAttempts
  BY Capacities
<1> QED
  BY <1>1, <1>2 DEF Counts, InSlot

LEMMA FailureCounts ==
    ASSUME IInv, Attempts, NEW d \in Delivery, Move(d, AfterFailure(d))
    PROVE  Counts(d)
<1>1. event[d].attempts \in Nat /\ MaxAttempts \in Nat
  BY Capacities DEF IInv, Types, Event
<1>2. /\ AfterFailure(d) \in {"abandon", "giveup", "sleep"}
      /\ AfterFailure(d) = "sleep" => event[d].attempts < MaxAttempts
  BY <1>1 DEF AfterFailure
<1>3. AfterFailure(d) \in Pc /\ AfterFailure(d) \notin InSlot
  BY <1>2 DEF Pc, InSlot
<1> QED
  BY <1>2, <1>3, MoveCounts

LEMMA StepCounts ==
    ASSUME IInv, Attempts, NEW d \in Delivery, Step(d)
    PROVE  Counts(d) /\ d \in Active
<1>0. d \in Active
  BY DEF Step, Active, LockDiscussion, TakeSlot, GateFails, GateDenies, GateDuplicate, GateAdmits,
     AwardAck, ChildYields, ChildSuppressed, ChildFails, ChildReady, ChildPost, RetryDelay, Release,
     Unmark, PostFailure, Finish
<1>t. /\ event \in [Delivery -> Event] /\ event[d] \in Event /\ event[d].attempts \in Nat
      /\ MaxAttempts \in Nat /\ event[d].attempts <= MaxAttempts
  BY Capacities DEF IInv, Types, Event, Attempts
<1>1. CASE LockDiscussion(d) \/ GateDenies(d) \/ GateDuplicate(d) \/ ChildYields(d)
  BY <1>1, <1>0, MoveCounts
  DEF LockDiscussion, GateDenies, GateDuplicate, ChildYields, Pc, InSlot
<1>2. CASE TakeSlot(d)
  BY <1>2, <1>0, MoveCounts DEF TakeSlot, Pc, InSlot
<1>3. CASE GateFails(d) \/ ChildFails(d)
  BY <1>3, <1>0, FailureCounts DEF GateFails, ChildFails
<1>4. CASE GateAdmits(d) \/ AwardAck(d)
  <2>1. /\ \A e \in Delivery \ {d} : event'[e] = event[e]
        /\ event'[d].pc \in {"award", "child"} /\ event'[d].attempts = event[d].attempts
        /\ event[d].pc \in InSlot
    <3>1. CASE GateAdmits(d)
      BY <3>1, <1>t DEF GateAdmits, Event, InSlot
    <3>2. CASE AwardAck(d)
      BY <3>2, <1>t DEF AwardAck, Event, InSlot
    <3> QED
      BY <1>4, <3>1, <3>2
  <2> QED
    BY <2>1, <1>0, <1>t DEF Counts
<1>5. CASE ChildReady(d)
  BY <1>5, <1>0, MoveCounts DEF ChildReady, Pc, InSlot
<1>6. CASE ChildPost(d)
  <2>1. CASE Move(d, "finish")
    BY <2>1, <1>0, MoveCounts DEF Pc, InSlot
  <2> QED
    BY <1>6, <2>1, <1>0, FailureCounts DEF ChildPost
<1>7. CASE RetryDelay(d)
  <2>1. CASE Move(d, "abandon")
    BY <2>1, <1>0, MoveCounts DEF Pc, InSlot
  <2>2. CASE event' = [event EXCEPT ![d].pc = "lock", ![d].attempts = @ + 1] /\ event[d].pc = "sleep"
    <3>1. /\ \A e \in Delivery \ {d} : event'[e] = event[e]
          /\ event'[d].pc = "lock" /\ event'[d].attempts = event[d].attempts + 1
      BY <2>2, <1>t DEF Event
    <3>2. event[d].attempts < MaxAttempts
      BY <2>2 DEF Attempts
    <3> QED
      BY <1>0, <1>t, <3>1, <3>2 DEF Counts, InSlot
  <2> QED
    BY <1>7, <2>1, <2>2 DEF RetryDelay
<1>8. CASE Release(d)
  <2>1. /\ \A e \in Delivery \ {d} : event'[e] = event[e]
        /\ event'[d].pc \in {"unmark", "unmark_abandoned"} /\ event'[d].attempts = event[d].attempts
    BY <1>8, <1>t DEF Release, Event
  <2> QED
    BY <2>1, <1>0, <1>t DEF Counts, InSlot
<1>9. CASE Unmark(d)
  <2>1. CASE Move(d, "apologise")
    BY <2>1, <1>0, MoveCounts DEF Pc, InSlot
  <2>2. CASE EndEvent(d)
    BY <2>2, <1>0, EndCounts
  <2> QED
    BY <1>9, <2>1, <2>2 DEF Unmark
<1>10. CASE ChildSuppressed(d) \/ PostFailure(d) \/ Finish(d)
  BY <1>10, <1>0, EndCounts DEF ChildSuppressed, PostFailure, Finish
<1> QED
  BY <1>1, <1>2, <1>3, <1>4, <1>5, <1>6, <1>7, <1>8, <1>9, <1>10 DEF Step

\* One event more in a set that has room.
LEMMA OneMore ==
    ASSUME NEW S, IsFiniteSet(S), NEW X, NEW x, X \subseteq S \cup {x}, NEW n \in Nat,
           Cardinality(S) <= n, x \in X => x \in S \/ Cardinality(S) < n
    PROVE  IsFiniteSet(X) /\ Cardinality(X) <= n
<1>0. Cardinality(S) \in Nat
  BY FS_CardinalityType
<1>1. CASE x \in X /\ x \notin S
  <2>1. IsFiniteSet(S \cup {x}) /\ Cardinality(S \cup {x}) = Cardinality(S) + 1
    BY <1>1, FS_AddElement
  <2>2. IsFiniteSet(X) /\ Cardinality(X) <= Cardinality(S \cup {x})
    BY <2>1, FS_Subset
  <2>3. Cardinality(X) \in Nat
    BY <2>2, FS_CardinalityType
  <2> QED
    BY <1>0, <1>1, <2>1, <2>2, <2>3
<1>2. CASE x \notin X \/ x \in S
  <2>1. X \subseteq S
    BY <1>2
  <2>2. IsFiniteSet(X) /\ Cardinality(X) <= Cardinality(S)
    BY <2>1, FS_Subset
  <2>3. Cardinality(X) \in Nat
    BY <2>2, FS_CardinalityType
  <2> QED
    BY <1>0, <2>2, <2>3
<1> QED
  BY <1>1, <1>2

LEMMA CountsKept ==
    ASSUME IInv, Attempts, Admission, NEW d \in Delivery, Counts(d),
           d \in Active \/ Cardinality(Active) < AdmitCap
    PROVE  Attempts' /\ Admission'
<1>1. Attempts'
  BY DEF Counts, Attempts
<1>2. IsFiniteSet(Active') /\ Cardinality(Active') <= AdmitCap
  <2>1. Active' \subseteq Active \cup {d}
    BY DEF Active, Counts
  <2> QED
    BY <2>1, OneMore, Capacities DEF Admission
<1>3. Cardinality(Running') <= Slots
  <2>1. IsFiniteSet(Running) /\ Cardinality(Running) <= Slots
    <3>1. Running \subseteq Active
      BY DEF Running, Active
    <3> QED
      BY <3>1, FS_Subset DEF Admission
  <2>2. Running' \subseteq Running \cup {d} /\ (d \in Running' => d \in Running \/ Cardinality(Running) < Slots)
    BY DEF Running, Counts, InSlot
  <2> QED
    BY <2>1, <2>2, OneMore, Capacities
<1> QED
  BY <1>1, <1>2, <1>3 DEF Admission

\* What a step does to the marks: nothing, one is set, or that of its own event's note is dropped.
LEMMA StepOrder ==
    ASSUME Order, NEW d \in Delivery, Step(d)
    PROVE  Order'
<1>0. N(d) \in Note
  BY ConstantTypes
<1>1. \/ seen' = seen \/ Forget(N(d)) \/ (MarkNew(N(d)) /\ N(d) \notin Range(seen))
  BY DEF Step, LockDiscussion, TakeSlot, GateFails, GateDenies, GateDuplicate, GateAdmits,
     AwardAck, ChildYields, ChildSuppressed, ChildFails, ChildReady, ChildPost, RetryDelay, Release,
     Unmark, PostFailure, Finish
<1>2. CASE seen' = seen
  BY <1>2 DEF Order
<1> QED
  BY <1>0, <1>1, <1>2, ForgetFacts, MarkFacts, SeenRange

LEMMA StepPlaces ==
    ASSUME Places, NEW d \in Delivery, Step(d)
    PROVE  Places'
<1>1. UNCHANGED <<phase, muted, hushed>>
  BY DEF Step, LockDiscussion, TakeSlot, GateFails, GateDenies, GateDuplicate, GateAdmits,
     AwardAck, ChildYields, ChildSuppressed, ChildFails, ChildReady, ChildPost, RetryDelay, Release,
     Unmark, PostFailure, Finish, remote
<1>2. \/ UNCHANGED <<award, leaked, late>> \/ ReleaseAck(d)
      \/ (UNCHANGED <<leaked, late>> /\ award \subseteq award')
  BY DEF Step, LockDiscussion, TakeSlot, GateFails, GateDenies, GateDuplicate, GateAdmits,
     AwardAck, ChildYields, ChildSuppressed, ChildFails, ChildReady, ChildPost, RetryDelay, Release,
     Unmark, PostFailure, Finish, remote
<1>3. leaked' \cup late' \subseteq award'
  BY <1>2 DEF Places, ReleaseAck
<1>4. adrift' = adrift \/ adrift' = adrift \cup {N(d)}
  BY DEF Step, LockDiscussion, TakeSlot, GateFails, GateDenies, GateDuplicate, GateAdmits,
     AwardAck, ChildYields, ChildSuppressed, ChildFails, ChildReady, ChildPost, RetryDelay, Release,
     Unmark, PostFailure, Finish, remote
<1> QED
  BY <1>1, <1>3, <1>4, ConstantTypes DEF Places

LEMMA SameBounds ==
    ASSUME Bounds, UNCHANGED <<event, seen>>, Places'
    PROVE  Bounds'
<1>1. Active' = Active /\ Running' = Running
  BY DEF Active, Running
<1> QED
  BY <1>1 DEF Bounds, Order, Attempts, Admission

LEMMA InitBounds == Init => Bounds
<1> SUFFICES ASSUME Init PROVE Bounds
  OBVIOUS
<1>1. Order
  BY Capacities DEF Init, Order
<1>2. Attempts
  BY Capacities DEF Init, Attempts, Idle
<1>3. Active = {} /\ Running = {}
  BY DEF Init, Active, Running, Idle
<1>4. Admission
  BY <1>3, FS_EmptySet, Capacities DEF Admission
<1> QED
  BY <1>1, <1>2, <1>4 DEF Bounds, Init, Places

LEMMA NextBounds ==
    ASSUME IInv, Bounds, [Next]_vars
    PROVE  Bounds'
<1>1. CASE \E n \in Note : Ask(n) \/ EditNote(n) \/ LateAward(n)
  BY <1>1, SameBounds DEF Ask, EditNote, LateAward, Bounds, Places
<1>2. CASE \E c \in Disc : ToggleMute(c)
  BY <1>2, SameBounds DEF ToggleMute, Bounds, Places
<1>3. ASSUME NEW d \in Delivery, Admit(d)
      PROVE  Bounds'
  <2>1. /\ \A e \in Delivery \ {d} : event'[e] = event[e]
        /\ event'[d].pc = "lock" /\ event'[d].attempts = 1
    BY <1>3 DEF Admit, IInv, Types, Idle
  <2>2. Counts(d) /\ Cardinality(Active) < AdmitCap
    BY <1>3, <2>1, Capacities DEF Counts, InSlot, Admit
  <2>3. Attempts' /\ Admission'
    BY <2>2, CountsKept DEF Bounds
  <2> QED
    BY <1>3, <2>3 DEF Admit, remote, Bounds, Order, Places
<1>4. ASSUME NEW d \in Delivery, Expire(d)
      PROVE  Bounds'
  <2>1. /\ \A e \in Delivery \ {d} : event'[e] = event[e]
        /\ event'[d].pc = event[d].pc /\ event'[d].attempts = event[d].attempts /\ d \in Active
    BY <1>4 DEF Expire, IInv, Types, Event
  <2>2. Counts(d)
    BY <2>1 DEF Counts, Bounds, Attempts
  <2>3. Attempts' /\ Admission'
    BY <2>1, <2>2, CountsKept DEF Bounds
  <2> QED
    BY <1>4, <2>3 DEF Expire, remote, Bounds, Order, Places
<1>5. ASSUME NEW d \in Delivery, Step(d)
      PROVE  Bounds'
  <2>1. Attempts' /\ Admission'
    BY <1>5, StepCounts, CountsKept DEF Bounds
  <2> QED
    BY <1>5, <2>1, StepOrder, StepPlaces DEF Bounds
<1>6. CASE CloseChats \/ CancelChats \/ UNCHANGED vars
  BY <1>6, SameBounds DEF CloseChats, CancelChats, vars, remote, Bounds, Places
<1>7. CASE Restart
  <2>1. seen' = <<>> /\ UNCHANGED <<event, award, leaked, late, adrift, hushed, muted>> /\ phase' = "open"
    BY <1>7 DEF Restart, remote
  <2>2. Order'
    BY <2>1, Capacities DEF Order
  <2>3. Active' = Active /\ Running' = Running
    BY <2>1 DEF Active, Running
  <2> QED
    BY <2>1, <2>2, <2>3 DEF Bounds, Attempts, Admission, Places
<1> QED
  BY <1>1, <1>2, <1>3, <1>4, <1>5, <1>6, <1>7 DEF Next

LEMMA AtMostOne ==
    ASSUME NEW S, \A x, y \in S : x = y
    PROVE  Cardinality(S) <= 1
<1>1. CASE S = {}
  BY <1>1, FS_EmptySet
<1>2. CASE S # {}
  <2>1. PICK x : x \in S
    BY <1>2
  <2>2. S = {x}
    BY <2>1
  <2> QED
    BY <2>2, FS_Singleton
<1> QED
  BY <1>1, <1>2

\* Whatever is delivered, retried, forgotten or cancelled: no more events are admitted, no more
\* children run and no more notes are marked than configured, no event has more attempts, the
\* marks are in the eviction order once each, and one event at a time is past the lock of a
\* discussion.
THEOREM LimitsHold == Spec => []TypeOK
<1>1. ASSUME IInv, Bounds PROVE TypeOK
  <2>1. \A d \in Delivery : event[d].attempts \in 0..MaxAttempts /\ event[d].marked \in BOOLEAN
    BY <1>1, Capacities DEF IInv, Types, Event, Bounds, Attempts
  <2>2. Range(seen) \subseteq Note /\ Len(seen) <= SeenCap /\ IsInjective(seen)
    <3>1. DOMAIN seen = 1..Len(seen) /\ \A i \in 1..Len(seen) : seen[i] \in Note
      BY <1>1 DEF Bounds, Order
    <3> QED
      BY <1>1, <3>1 DEF Bounds, Order, Range, IsInjective
  <2>3. ASSUME NEW c \in Disc
        PROVE  Cardinality(Holding(c)) <= 1
    <3>1. \A d, e \in Holding(c) : d = e
      BY <1>1 DEF Holding, Running, IInv, OneHolder, Holds
    <3> QED
      BY <3>1, AtMostOne
  <2> QED
    BY <1>1, <2>1, <2>2, <2>3 DEF TypeOK, Bounds, Admission, Places, IInv, Types
<1>2. Spec => []Bounds
  BY Inductive, InitBounds, NextBounds, PTL DEF Spec
<1> QED
  BY <1>1, <1>2, Inductive, PTL

-----------------------------------------------------------------------------
(* Marks.                                                                  *)

\* An event that will drop its mark, or see its question covered.
Carries(d) == event[d].marked /\ event[d].pc \notin {"idle", "done", "apologise"}

UsedTypes == used \in [{"fault", "expire", "mute", "edit", "shutdown"} -> Nat]
Asked == \A d \in Delivery : event[d].pc \notin {"idle", "done"} => Stands(N(d))
MarksCarried ==
    /\ muted = {}
    /\ \A m \in Note : Marked(m) => Covered(m) \/ \E d \in Delivery : N(d) = m /\ Carries(d)
    /\ \A d \in Delivery : event[d].pc = "finish" /\ event[d].marked => Covered(N(d))
    /\ \A d \in Delivery : event[d].marked /\ OptIn => d \in Requested

Marks == UsedTypes /\ Asked /\ (used.mute = 0 => MarksCarried)

LEMMA UseFacts ==
    ASSUME UsedTypes
    PROVE  /\ \A k \in {"fault", "expire", "edit", "shutdown"} : Use(k) => UsedTypes' /\ used'.mute = used.mute
           /\ Use("mute") => UsedTypes' /\ used'.mute = used.mute + 1
           /\ Quiet => UsedTypes' /\ used'.mute = used.mute
BY DEF UsedTypes, Use, Quiet

\* A thread that went on from a question goes on, unless the question is asked again.
LEMMA SayCovers ==
    ASSUME IInv, NEW m \in Note, NEW kind \in {"question", "answer", "failure"}, Say(kind, m),
           NEW n \in Note
    PROVE  /\ Stands(n) => Stands(n)'
           /\ Stands(n) /\ kind = "answer" /\ n = m => Covered(n)'
           /\ Covered(n) /\ ~(kind = "question" /\ n = m) => Covered(n)'
<1>f. /\ thread' \in [Disc -> Seq(Entry)]
      /\ \A o \in Note : DiscOf[o] # DiscOf[m] => T(o)' = T(o)
      /\ \A o \in Note : DiscOf[o] = DiscOf[m] =>
             /\ Len(T(o)) \in Nat /\ Len(T(o)') = Len(T(o)) + 1
             /\ \A i \in 1..Len(T(o)) : T(o)'[i] = T(o)[i]
             /\ T(o)'[Len(T(o)) + 1] = [kind |-> kind, note |-> m]
  BY SayFacts
<1>a. /\ thread' \in [Disc -> Seq(Entry)]
      /\ DiscOf[n] # DiscOf[m] => T(n)' = T(n)
      /\ DiscOf[n] = DiscOf[m] =>
             /\ Len(T(n)) \in Nat /\ Len(T(n)') = Len(T(n)) + 1
             /\ \A i \in 1..Len(T(n)) : T(n)'[i] = T(n)[i]
             /\ T(n)'[Len(T(n)) + 1] = [kind |-> kind, note |-> m]
  BY <1>f
<1>b. /\ T(n) \in Seq(Entry) /\ T(n)' \in Seq(Entry)
      /\ DOMAIN T(n) = 1..Len(T(n)) /\ DOMAIN T(n)' = 1..Len(T(n)')
  BY <1>a, ChatHandlerAssumption DEF IInv, Types, T
<1>c. /\ Stands(n) <=> \E i \in 1..Len(T(n)) : T(n)[i] = Q(n)
      /\ Covered(n) <=> Stands(n) /\ T(n)[Len(T(n))] # Q(n)
      /\ Stands(n)' <=> \E i \in 1..Len(T(n)') : T(n)'[i] = Q(n)
      /\ Covered(n)' <=> Stands(n)' /\ T(n)'[Len(T(n)')] # Q(n)
  BY <1>b DEF Stands, Covered, T, Q, Last
<1>1. CASE DiscOf[n] # DiscOf[m]
  BY <1>a, <1>c, <1>1
<1>2. CASE DiscOf[n] = DiscOf[m]
  <2>1. /\ Len(T(n)) \in Nat /\ Len(T(n)') = Len(T(n)) + 1
        /\ \A i \in 1..Len(T(n)) : T(n)'[i] = T(n)[i]
        /\ T(n)'[Len(T(n)')] = [kind |-> kind, note |-> m]
    BY <1>a, <1>2
  <2>2. Stands(n) => Stands(n)'
    BY <1>c, <2>1
  <2>3. ~(kind = "question" /\ n = m) => T(n)'[Len(T(n)')] # Q(n)
    BY <2>1 DEF Q
  <2> QED
    BY <1>c, <2>2, <2>3
<1> QED
  BY <1>1, <1>2

LEMMA SameCovered == ASSUME UNCHANGED thread PROVE \A n : Stands(n)' = Stands(n) /\ Covered(n)' = Covered(n)
BY DEF Stands, Covered

\* How a step keeps the marks: a mark that is set is carried, an event that ceases to carry one
\* leaves it to a thread that went on, or drops it.
Accounts(d) ==
    /\ \A m \in Note : Marked(m)' => Marked(m) \/ (m = N(d) /\ Carries(d)')
    /\ Carries(d) => Carries(d)' \/ Covered(N(d))' \/ ~Marked(N(d))'
    /\ event'[d].pc = "finish" /\ event'[d].marked => Covered(N(d))'
    /\ event'[d].marked /\ OptIn => d \in Requested

LEMMA MarksKept ==
    ASSUME MarksCarried, NEW d \in Delivery, \A e \in Delivery \ {d} : event'[e] = event[e],
           \A n \in Note : Covered(n) => Covered(n)', UNCHANGED muted, Accounts(d)
    PROVE  MarksCarried'
<1>1. ASSUME NEW m \in Note, Marked(m)'
      PROVE  Covered(m)' \/ \E e \in Delivery : N(e) = m /\ Carries(e)'
  <2>1. CASE m = N(d) /\ Carries(d)'
    BY <2>1
  <2>2. CASE Marked(m) /\ Covered(m)
    BY <2>2
  <2>3. CASE Marked(m) /\ ~Covered(m)
    <3>1. PICK e \in Delivery : N(e) = m /\ Carries(e)
      BY <2>3 DEF MarksCarried
    <3>2. CASE e = d
      BY <1>1, <3>1, <3>2 DEF Accounts
    <3>3. CASE e # d
      BY <3>1, <3>3 DEF Carries
    <3> QED
      BY <3>2, <3>3
  <2> QED
    BY <1>1, <2>1, <2>2, <2>3 DEF Accounts
<1>2. ASSUME NEW e \in Delivery, event'[e].pc = "finish", event'[e].marked
      PROVE  Covered(N(e))'
  <2>1. CASE e = d
    BY <1>2, <2>1 DEF Accounts
  <2>2. CASE e # d
    BY <1>2, <2>2, ConstantTypes DEF MarksCarried
  <2> QED
    BY <2>1, <2>2
<1>3. \A e \in Delivery : event'[e].marked /\ OptIn => e \in Requested
  BY DEF MarksCarried, Accounts
<1>4. muted' = {}
  BY DEF MarksCarried
<1> QED
  BY <1>1, <1>2, <1>3, <1>4 DEF MarksCarried, N

\* A step that leaves mark and marks alone, and goes on.
LEMMA GoesOn ==
    ASSUME MarksCarried, NEW d \in Delivery, UNCHANGED <<seen, thread>>,
           event'[d].marked = event[d].marked,
           event'[d].pc \notin {"idle", "done", "apologise"},
           event'[d].pc = "finish" /\ event[d].marked => Covered(N(d))
    PROVE  Accounts(d)
<1>1. \A m : Marked(m)' = Marked(m)
  BY DEF Marked
<1>2. Covered(N(d))' = Covered(N(d))
  BY SameCovered DEF N
<1> QED
  BY <1>1, <1>2 DEF Accounts, Carries, MarksCarried

LEMMA StepAccounts ==
    ASSUME IInv, Order, Attempts, Asked, MarksCarried, NEW d \in Delivery, Step(d)
    PROVE  Accounts(d)
<1>t. event \in [Delivery -> Event] /\ event[d] \in Event /\ N(d) \in Note
  BY ConstantTypes DEF IInv, Types
<1>1. CASE LockDiscussion(d) \/ TakeSlot(d)
  <2>1. PICK pc \in {"slot", "gate", "abandon"} : Move(d, pc)
    BY <1>1 DEF LockDiscussion, TakeSlot
  <2>2. pc \in Pc
    BY DEF Pc
  <2> QED
    BY <1>1, <2>1, <2>2, MoveAll, GoesOn DEF LockDiscussion, TakeSlot, remote
<1>2. CASE GateFails(d) \/ ChildFails(d)
  <2>1. Move(d, AfterFailure(d)) /\ AfterFailure(d) \in {"abandon", "giveup", "sleep"}
    BY <1>2, AfterFailurePc DEF GateFails, ChildFails
  <2>2. AfterFailure(d) \in Pc
    BY <2>1 DEF Pc
  <2> QED
    BY <1>2, <2>1, <2>2, MoveAll, GoesOn DEF GateFails, ChildFails, remote
<1>3. CASE GateDenies(d) \/ GateDuplicate(d) \/ ChildYields(d)
  <2>1. Move(d, "finish") /\ "finish" \in Pc /\ UNCHANGED <<seen, thread>>
    BY <1>3 DEF GateDenies, GateDuplicate, ChildYields, remote, Pc
  <2>2. CASE GateDenies(d)
    <3>1. ~event[d].marked
      BY <2>2 DEF GateDenies, Allows, MarksCarried
    <3> QED
      BY <2>1, <3>1, MoveAll, GoesOn
  <2>3. CASE GateDuplicate(d)
    <3>1. ~event[d].marked
      BY <2>3 DEF GateDuplicate
    <3> QED
      BY <2>1, <3>1, MoveAll, GoesOn
  <2>4. CASE ChildYields(d)
    <3>1. Covered(N(d))
      BY <2>4 DEF ChildYields, Pending, Asked
    <3> QED
      BY <2>1, <3>1, MoveAll, GoesOn
  <2> QED
    BY <1>3, <2>2, <2>3, <2>4
<1>4. CASE GateAdmits(d)
  <2>1. event'[d].marked /\ event'[d].pc \in {"child", "award"} /\ (OptIn => d \in Requested)
    BY <1>4, <1>t DEF GateAdmits, Event, Allows
  <2>2. Carries(d)'
    BY <2>1 DEF Carries
  <2>3. \A m \in Note : Marked(m)' => Marked(m) \/ m = N(d)
    <3>1. CASE seen' = seen
      BY <3>1 DEF Marked
    <3>2. CASE N(d) \notin Range(seen) /\ MarkNew(N(d))
      BY <3>2, <1>t, SeenRange, MarkFacts
    <3> QED
      BY <1>4, <3>1, <3>2 DEF GateAdmits
  <2> QED
    BY <2>1, <2>2, <2>3 DEF Accounts
<1>5. CASE AwardAck(d)
  <2>1. event'[d].marked = event[d].marked /\ event'[d].pc = "child" /\ UNCHANGED <<seen, thread>>
    BY <1>5, <1>t DEF AwardAck, Event
  <2> QED
    BY <2>1, GoesOn
<1>6. CASE ChildReady(d)
  <2>1. Move(d, "post") /\ "post" \in Pc /\ UNCHANGED <<seen, thread>>
    BY <1>6 DEF ChildReady, remote, Pc
  <2> QED
    BY <2>1, MoveAll, GoesOn
<1>7. CASE ChildPost(d)
  <2>0. seen' = seen /\ \A m : Marked(m)' = Marked(m)
    BY <1>7 DEF ChildPost, Marked
  <2>1. CASE Say("answer", N(d)) /\ Move(d, "finish")
    <3>1. Covered(N(d))'
      <4>1. Stands(N(d))
        BY <1>7 DEF ChildPost, Asked
      <4> QED
        BY <2>1, <4>1, <1>t, SayCovers
    <3>2. "finish" \in Pc
      BY DEF Pc
    <3>3. event'[d].marked = event[d].marked
      BY <2>1, <3>2, MoveAll
    <3> QED
      BY <2>0, <3>1, <3>3 DEF Accounts, MarksCarried
  <2>2. CASE Move(d, AfterFailure(d))
    <3>1. AfterFailure(d) \in {"abandon", "giveup", "sleep"} /\ AfterFailure(d) \in Pc
      BY AfterFailurePc DEF Pc
    <3>2. event'[d].marked = event[d].marked /\ event'[d].pc \in {"abandon", "giveup", "sleep"}
      BY <2>2, <3>1, MoveAll
    <3> QED
      BY <2>0, <3>2 DEF Accounts, Carries, MarksCarried
  <2> QED
    BY <1>7, <2>1, <2>2 DEF ChildPost
<1>8. CASE RetryDelay(d) \/ Release(d)
  <2>1. /\ event'[d].marked = event[d].marked
        /\ event'[d].pc \in {"abandon", "lock", "unmark", "unmark_abandoned"}
    BY <1>8, <1>t DEF RetryDelay, Release, Move, Event
  <2>2. UNCHANGED <<seen, thread>>
    BY <1>8 DEF RetryDelay, Release, remote
  <2> QED
    BY <2>1, <2>2, GoesOn
<1>9. CASE Unmark(d)
  <2>1. event'[d].pc \in {"apologise", "done"} /\ (event'[d].marked => event[d].marked)
    <3>1. CASE Move(d, "apologise")
      BY <3>1, MoveAll DEF Pc
    <3>2. CASE EndEvent(d)
      BY <3>2, EndAll
    <3> QED
      BY <1>9, <3>1, <3>2 DEF Unmark
  <2>2. CASE event[d].marked
    <3>1. Forget(N(d))
      BY <1>9, <2>2 DEF Unmark
    <3> QED
      BY <1>t, <2>1, <3>1, ForgetFacts DEF Accounts, MarksCarried
  <2>3. CASE ~event[d].marked
    <3>1. \A m : Marked(m)' = Marked(m)
      BY <1>9, <2>3 DEF Unmark, Marked
    <3> QED
      BY <2>1, <2>3, <3>1 DEF Accounts, Carries
  <2> QED
    BY <2>2, <2>3
<1>10. CASE ChildSuppressed(d)
  <2>1. event'[d].pc = "done" /\ ~event'[d].marked
    BY <1>10, EndAll DEF ChildSuppressed
  <2>2. Forget(N(d))
    BY <1>10 DEF ChildSuppressed
  <2> QED
    BY <1>t, <2>1, <2>2, ForgetFacts DEF Accounts
<1>11. CASE PostFailure(d) \/ Finish(d)
  <2>1. event'[d].pc = "done" /\ ~event'[d].marked
    BY <1>11, EndAll DEF PostFailure, Finish
  <2>2. \A m : Marked(m)' = Marked(m)
    BY <1>11 DEF PostFailure, Finish, Marked
  <2>3. CASE PostFailure(d)
    BY <2>1, <2>2, <2>3 DEF Accounts, Carries, PostFailure
  <2>4. CASE Finish(d)
    <3>1. Covered(N(d))' = Covered(N(d))
      BY <2>4, SameCovered DEF Finish, N
    <3> QED
      BY <2>1, <2>2, <2>4, <3>1 DEF Accounts, Carries, MarksCarried, Finish
  <2> QED
    BY <1>11, <2>3, <2>4
<1> QED
  BY <1>1, <1>2, <1>3, <1>4, <1>5, <1>6, <1>7, <1>8, <1>9, <1>10, <1>11 DEF Step

LEMMA StepUses ==
    ASSUME UsedTypes, NEW d \in Delivery, Step(d)
    PROVE  UsedTypes' /\ used'.mute = used.mute
<1>1. Quiet \/ Use("fault")
  BY DEF Step, LockDiscussion, TakeSlot, GateFails, GateDenies, GateDuplicate, GateAdmits,
     AwardAck, ChildYields, ChildSuppressed, ChildFails, ChildReady, ChildPost, RetryDelay, Release,
     Unmark, PostFailure, Finish, ReleaseAck, Quiet
<1> QED
  BY <1>1, UseFacts

LEMMA StepThread ==
    ASSUME IInv, NEW d \in Delivery, Step(d)
    PROVE  \A n \in Note : (Stands(n) => Stands(n)') /\ (Covered(n) => Covered(n)')
<1>0. N(d) \in Note
  BY ConstantTypes
<1>1. UNCHANGED thread \/ Say("answer", N(d)) \/ Say("failure", N(d))
  BY DEF Step, LockDiscussion, TakeSlot, GateFails, GateDenies, GateDuplicate, GateAdmits,
     AwardAck, ChildYields, ChildSuppressed, ChildFails, ChildReady, ChildPost, RetryDelay, Release,
     Unmark, PostFailure, Finish, Silent, remote
<1> QED
  BY <1>0, <1>1, SayCovers, SameCovered

LEMMA InitMarks == Init => Marks
<1> SUFFICES ASSUME Init PROVE Marks
  OBVIOUS
<1>1. UsedTypes
  BY DEF Init, UsedTypes, Bound
<1>2. Asked
  BY DEF Init, Asked, Idle
<1>3. MarksCarried
  BY DEF Init, MarksCarried, Marked, Idle
<1> QED
  BY <1>1, <1>2, <1>3 DEF Marks

\* A step of nobody's event: the threads only grow, and no mark is set.
LEMMA ElseMarks ==
    ASSUME Marks, UsedTypes', used.mute = 0 => (used'.mute = 0 => muted' = muted),
           used'.mute = 0 => used.mute = 0,
           event' = event \/ (\A d \in Delivery : event'[d].pc = event[d].pc /\ event'[d].marked = event[d].marked),
           seen' = seen \/ seen' = <<>>,
           \A n \in Note : (Stands(n) => Stands(n)') /\ (Covered(n) => Covered(n)')
    PROVE  Marks'
<1>0. \A d \in Delivery : /\ event'[d].pc = event[d].pc /\ event'[d].marked = event[d].marked
                          /\ N(d) \in Note
  BY ConstantTypes
<1>1. Asked'
  BY <1>0 DEF Marks, Asked, N
<1>2. \A m : Marked(m)' => Marked(m)
  BY DEF Marked
<1>3. ASSUME used'.mute = 0 PROVE MarksCarried'
  <2>1. MarksCarried /\ muted' = {}
    BY <1>3 DEF Marks, MarksCarried
  <2>2. \A m \in Note : Marked(m)' => Covered(m)' \/ \E d \in Delivery : N(d) = m /\ Carries(d)'
    BY <1>0, <1>2, <2>1 DEF MarksCarried, Carries
  <2>3. \A d \in Delivery : event'[d].pc = "finish" /\ event'[d].marked => Covered(N(d))'
    BY <1>0, <2>1 DEF MarksCarried
  <2> QED
    BY <1>0, <2>1, <2>2, <2>3 DEF MarksCarried, N
<1> QED
  BY <1>1, <1>3 DEF Marks

LEMMA NextMarks ==
    ASSUME IInv, Bounds, Marks, [Next]_vars
    PROVE  Marks'
<1>u. UsedTypes /\ used.mute \in Nat
  BY DEF Marks, UsedTypes
<1>1. ASSUME NEW m \in Note, Ask(m)
      PROVE  Marks'
  <2>1. UsedTypes' /\ used' = used /\ UNCHANGED <<event, seen, muted>>
    BY <1>1, <1>u DEF Ask, UsedTypes
  <2>2. ASSUME NEW n \in Note
        PROVE  (Stands(n) => Stands(n)') /\ (Covered(n) => Covered(n)')
    <3>1. ~Stands(m) /\ Say("question", m)
      BY <1>1 DEF Ask
    <3>2. Covered(n) => n # m
      BY <3>1 DEF Covered
    <3> QED
      BY <3>1, <3>2, SayCovers
  <2> QED
    BY <2>1, <2>2, ElseMarks
<1>2. ASSUME NEW m \in Note, EditNote(m)
      PROVE  Marks'
  <2>1. UsedTypes' /\ used'.mute = used.mute /\ UNCHANGED <<event, seen, muted, thread>>
    BY <1>2, <1>u, UseFacts DEF EditNote
  <2> QED
    BY <2>1, SameCovered, ElseMarks
<1>8. ASSUME NEW m \in Note, LateAward(m)
      PROVE  Marks'
  <2>1. UsedTypes' /\ used'.mute = used.mute /\ UNCHANGED <<event, seen, muted, thread>>
    BY <1>8, <1>u DEF LateAward, UsedTypes
  <2> QED
    BY <2>1, SameCovered, ElseMarks
<1>3. ASSUME NEW c \in Disc, ToggleMute(c)
      PROVE  Marks'
  <2>1. UsedTypes' /\ used'.mute # 0 /\ UNCHANGED <<event, seen, thread>>
    BY <1>3, <1>u, UseFacts DEF ToggleMute
  <2> QED
    BY <2>1, SameCovered, ElseMarks
<1>4. ASSUME NEW d \in Delivery, Admit(d)
      PROVE  Marks'
  <2>1. /\ \A e \in Delivery \ {d} : event'[e] = event[e]
        /\ event'[d].pc = "lock" /\ event'[d].marked = FALSE /\ event[d].pc = "idle"
        /\ Stands(N(d)) /\ UNCHANGED <<seen, muted, thread, used>>
    BY <1>4 DEF Admit, IInv, Types, Idle, remote
  <2>2. UsedTypes'
    BY <1>u, <2>1 DEF UsedTypes
  <2>3. Asked'
    BY <2>1, SameCovered DEF Marks, Asked, N
  <2>4. Accounts(d)
    BY <2>1 DEF Accounts, Carries, Marked
  <2>5. MarksCarried => MarksCarried'
    BY <2>1, <2>4, SameCovered, MarksKept
  <2> QED
    BY <2>1, <2>2, <2>3, <2>5 DEF Marks
<1>5. ASSUME NEW d \in Delivery, Expire(d)
      PROVE  Marks'
  <2>1. /\ \A e \in Delivery : event'[e].pc = event[e].pc /\ event'[e].marked = event[e].marked
        /\ UNCHANGED <<seen, muted, thread>>
    BY <1>5 DEF Expire, IInv, Types, Event, remote
  <2>2. UsedTypes' /\ used'.mute = used.mute
    BY <1>5, <1>u, UseFacts DEF Expire
  <2> QED
    BY <2>1, <2>2, SameCovered, ElseMarks
<1>6. ASSUME NEW d \in Delivery, Step(d)
      PROVE  Marks'
  <2>1. UsedTypes' /\ used'.mute = used.mute
    BY <1>6, <1>u, StepUses
  <2>2. \A n \in Note : (Stands(n) => Stands(n)') /\ (Covered(n) => Covered(n)')
    BY <1>6, StepThread
  <2>3. /\ \A e \in Delivery \ {d} : event'[e] = event[e]
        /\ d \in Active /\ \A e \in Delivery : N(e) \in Note
    BY <1>6, StepCounts, ConstantTypes DEF Bounds, Counts
  <2>4. Asked'
    BY <2>2, <2>3 DEF Marks, Asked, Active, N
  <2>5. UNCHANGED muted
    BY <1>6 DEF Step, LockDiscussion, TakeSlot, GateFails, GateDenies, GateDuplicate, GateAdmits,
     AwardAck, ChildYields, ChildSuppressed, ChildFails, ChildReady, ChildPost, RetryDelay, Release,
     Unmark, PostFailure, Finish, remote
  <2>6. ASSUME MarksCarried PROVE MarksCarried'
    <3>1. Accounts(d)
      BY <1>6, <2>6, StepAccounts DEF Bounds, Marks
    <3> QED
      BY <2>2, <2>3, <2>5, <2>6, <3>1, MarksKept
  <2> QED
    BY <2>1, <2>4, <2>6 DEF Marks
<1>7. CASE CloseChats \/ CancelChats \/ Restart \/ UNCHANGED vars
  <2>1. (seen' = seen \/ seen' = <<>>) /\ UNCHANGED <<event, muted, thread>>
    BY <1>7 DEF CloseChats, CancelChats, Restart, vars, remote
  <2>2. UsedTypes' /\ used'.mute = used.mute
    <3>1. Use("shutdown") \/ Quiet
      BY <1>7 DEF CloseChats, CancelChats, Restart, vars, Quiet
    <3> QED
      BY <3>1, <1>u, UseFacts
  <2> QED
    BY <2>1, <2>2, SameCovered, ElseMarks
<1> QED
  BY <1>1, <1>2, <1>3, <1>4, <1>5, <1>6, <1>7, <1>8 DEF Next

LEMMA InvariantBounds == Spec => [](IInv /\ Bounds /\ Marks)
<1>1. Init => IInv /\ Bounds /\ Marks
  BY InitInv, InitBounds, InitMarks
<1>2. IInv /\ Bounds /\ Marks /\ [Next]_vars => (IInv /\ Bounds /\ Marks)'
  BY NextInv, NextBounds, NextMarks
<1> QED
  BY <1>1, <1>2, PTL DEF Spec

\* As long as nobody mutes a discussion, a note whose redelivery is dropped as a duplicate is one
\* the thread went on from, or an event under way answers it or drops its mark: however many
\* events fail, expire, are abandoned or have their mark evicted.
THEOREM NoQuestionSilenced == Spec => []MarkMeansCoveredUnmuted
<1>1. ASSUME IInv, Bounds, Marks PROVE MarkMeansCoveredUnmuted
  <2>1. ASSUME used.mute = 0, NEW n \in Range(seen)
        PROVE  Covered(n) \/ \E d \in Active : N(d) = n /\ event[d].marked
    <3>1. Marked(n)
      BY <1>1, <2>1, SeenRange DEF Bounds
    <3>2. n \in Note
      BY <1>1, <3>1 DEF Bounds, Order, Marked
    <3>3. Covered(n) \/ \E d \in Delivery : N(d) = n /\ Carries(d)
      BY <1>1, <2>1, <3>1, <3>2 DEF Marks, MarksCarried
    <3> QED
      BY <3>3 DEF Carries, Active
  <2> QED
    BY <2>1 DEF MarkMeansCoveredUnmuted, MarkMeansCovered
<1> QED
  BY <1>1, InvariantBounds, PTL

-----------------------------------------------------------------------------
(* Whose reaction is taken off.  Unless a mark is evicted under the event  *)
(* that works on it, it belongs to that one event.                         *)

\* A step that evicts no mark under an event that works on, and what suffices: room for all notes.
KeepsMarks == \A d \in Delivery : Carries(d) /\ Carries(d)' /\ Marked(N(d)) => Marked(N(d))'
Roomy == IsFiniteSet(Note) /\ Cardinality(Note) <= SeenCap

Owned ==
    /\ \A d \in Delivery : Carries(d) => Marked(N(d))
    /\ \A d, e \in Delivery : Carries(d) /\ Carries(e) /\ N(d) = N(e) => d = e
    /\ \A d \in Delivery : event[d].acked => Carries(d)
    /\ \A d \in Delivery : event[d].pc \in {"award", "child", "post"} => event[d].marked

\* What a step does to marks and reactions.
Claims(d) ==
    /\ \A e \in Delivery \ {d} : event'[e] = event[e]
    /\ Carries(d)' => Marked(N(d))' /\ (Carries(d) \/ ~Marked(N(d)))
    /\ event'[d].acked => Carries(d)'
    /\ event'[d].pc \in {"award", "child", "post"} => event'[d].marked

LEMMA ClaimsKept ==
    ASSUME Owned, KeepsMarks, NEW d \in Delivery, Claims(d)
    PROVE  Owned'
<1>0. \A e \in Delivery : e # d => event'[e] = event[e] /\ (Carries(e)' <=> Carries(e))
  BY DEF Claims, Carries
<1>1. ASSUME NEW e \in Delivery, Carries(e)'
      PROVE  Marked(N(e))'
  <2>1. CASE e = d
    BY <1>1, <2>1 DEF Claims
  <2>2. CASE e # d
    BY <1>0, <1>1, <2>2 DEF Owned, KeepsMarks
  <2> QED
    BY <2>1, <2>2
<1>2. ASSUME NEW e \in Delivery, Carries(d)', Carries(e)', N(d) = N(e), e # d
      PROVE  FALSE
  <2>1. Carries(e) /\ Marked(N(d))
    BY <1>0, <1>2 DEF Owned
  <2> QED
    BY <1>2, <2>1 DEF Claims, Owned
<1>3. \A e, g \in Delivery : Carries(e)' /\ Carries(g)' /\ N(e) = N(g) => e = g
  BY <1>0, <1>2 DEF Owned
<1>4. \A e \in Delivery : event'[e].acked => Carries(e)'
  BY <1>0 DEF Claims, Owned
<1>5. \A e \in Delivery : event'[e].pc \in {"award", "child", "post"} => event'[e].marked
  BY <1>0 DEF Claims, Owned
<1> QED
  BY <1>1, <1>3, <1>4, <1>5 DEF Owned, N

\* An event moves on with its mark and its reaction.
LEMMA MoveClaims ==
    ASSUME IInv, Owned, NEW d \in Delivery, NEW pc \in Pc, Move(d, pc), UNCHANGED seen,
           pc \notin {"idle", "done", "apologise", "award"}, event[d].pc \notin {"idle", "done", "apologise"},
           pc \in {"child", "post"} => event[d].pc \in {"award", "child", "post"}
    PROVE  Claims(d)
<1>1. /\ \A e \in Delivery \ {d} : event'[e] = event[e]
      /\ event'[d].pc = pc /\ event'[d].marked = event[d].marked /\ event'[d].acked = event[d].acked
  BY MoveAll
<1>2. \A m : Marked(m)' <=> Marked(m)
  BY DEF Marked
<1>3. (Carries(d)' <=> Carries(d)) /\ Marked(N(d))' = Marked(N(d))
  BY <1>1, <1>2 DEF Carries
<1> QED
  BY <1>1, <1>2, <1>3 DEF Claims, Owned

\* An event that ends has neither.
LEMMA EndClaims ==
    ASSUME IInv, Order, Owned, NEW d \in Delivery, EndEvent(d), UNCHANGED seen \/ (Forget(N(d)) /\ Carries(d))
    PROVE  Claims(d)
<1>1. /\ \A e \in Delivery \ {d} : event'[e] = event[e]
      /\ event'[d].pc = "done" /\ event'[d].marked = FALSE /\ event'[d].acked = FALSE
  BY EndAll
<1>2. ~Carries(d)' /\ N(d) \in Note
  BY <1>1, ConstantTypes DEF Carries
<1>3. CASE UNCHANGED seen
  <2>1. \A m : Marked(m)' <=> Marked(m)
    BY <1>3 DEF Marked
  <2> QED
    BY <1>1, <1>2, <2>1 DEF Claims
<1>4. CASE Forget(N(d)) /\ Carries(d)
  <2>1. \A m : Marked(m)' <=> Marked(m) /\ m # N(d)
    BY <1>2, <1>4, ForgetFacts
  <2> QED
    BY <1>1, <1>2, <1>4, <2>1 DEF Claims
<1> QED
  BY <1>3, <1>4

LEMMA StepClaims ==
    ASSUME IInv, Order, Owned, NEW d \in Delivery, Step(d)
    PROVE  Claims(d)
<1>t. event \in [Delivery -> Event] /\ event[d] \in Event /\ N(d) \in Note
  BY ConstantTypes DEF IInv, Types
<1>1. CASE LockDiscussion(d) \/ TakeSlot(d)
  <2>1. PICK pc \in {"slot", "gate", "abandon"} : Move(d, pc)
    BY <1>1 DEF LockDiscussion, TakeSlot
  <2>2. pc \in Pc
    BY DEF Pc
  <2> QED
    BY <1>1, <2>1, <2>2, MoveClaims DEF LockDiscussion, TakeSlot
<1>2. CASE GateFails(d) \/ ChildFails(d)
  <2>1. Move(d, AfterFailure(d)) /\ AfterFailure(d) \in {"abandon", "giveup", "sleep"}
    BY <1>2, AfterFailurePc DEF GateFails, ChildFails
  <2>2. AfterFailure(d) \in Pc
    BY <2>1 DEF Pc
  <2> QED
    BY <1>2, <2>1, <2>2, MoveClaims DEF GateFails, ChildFails
<1>3. CASE GateDenies(d) \/ GateDuplicate(d) \/ ChildYields(d)
  <2>1. "finish" \in Pc
    BY DEF Pc
  <2> QED
    BY <1>3, <2>1, MoveClaims DEF GateDenies, GateDuplicate, ChildYields
<1>4. CASE GateAdmits(d)
  <2>1. /\ \A e \in Delivery \ {d} : event'[e] = event[e]
        /\ event'[d].marked /\ event'[d].pc \in {"child", "award"} /\ event[d].pc = "gate"
    BY <1>4, <1>t DEF GateAdmits, Event
  <2>2. Carries(d)'
    BY <2>1 DEF Carries
  <2>3. CASE event[d].marked /\ seen' = seen
    <3>1. Carries(d) /\ \A m : Marked(m)' <=> Marked(m)
      BY <2>1, <2>3 DEF Carries, Marked
    <3>2. Marked(N(d)) /\ Marked(N(d))'
      BY <3>1 DEF Owned
    <3> QED
      BY <2>1, <2>2, <3>1, <3>2 DEF Claims
  <2>4. CASE ~event[d].marked /\ N(d) \notin Range(seen) /\ MarkNew(N(d))
    <3>1. ~Marked(N(d))
      BY <2>4, SeenRange
    <3>2. Marked(N(d))'
      BY <1>t, <2>4, <3>1, MarkFacts
    <3> QED
      BY <2>1, <2>2, <3>1, <3>2 DEF Claims
  <2> QED
    BY <1>4, <2>3, <2>4 DEF GateAdmits
<1>5. CASE AwardAck(d)
  <2>1. /\ \A e \in Delivery \ {d} : event'[e] = event[e]
        /\ event'[d].marked = event[d].marked /\ event'[d].pc = "child" /\ event[d].pc = "award"
    BY <1>5, <1>t DEF AwardAck, Event
  <2>2. event[d].marked /\ Carries(d) /\ Carries(d)'
    BY <2>1 DEF Owned, Carries
  <2>3. \A m : Marked(m)' <=> Marked(m)
    BY <1>5 DEF AwardAck, Marked
  <2>4. Marked(N(d)) /\ Marked(N(d))'
    BY <2>2, <2>3 DEF Owned
  <2> QED
    BY <2>1, <2>2, <2>3, <2>4 DEF Claims
<1>6. CASE ChildReady(d)
  <2>1. "post" \in Pc
    BY DEF Pc
  <2> QED
    BY <1>6, <2>1, MoveClaims DEF ChildReady
<1>7. CASE ChildPost(d)
  <2>1. PICK pc \in {"finish", "abandon", "giveup", "sleep"} : Move(d, pc)
    BY <1>7, AfterFailurePc DEF ChildPost
  <2>2. pc \in Pc
    BY DEF Pc
  <2> QED
    BY <1>7, <2>1, <2>2, MoveClaims DEF ChildPost
<1>8. CASE RetryDelay(d) \/ Release(d)
  <2>1. /\ \A e \in Delivery \ {d} : event'[e] = event[e]
        /\ event'[d].marked = event[d].marked /\ (event'[d].acked => event[d].acked)
        /\ event'[d].pc \in {"abandon", "lock", "unmark", "unmark_abandoned"}
        /\ event[d].pc \in {"sleep", "giveup", "abandon"}
    BY <1>8, <1>t DEF RetryDelay, Release, Move, Event
  <2>2. \A m : Marked(m)' <=> Marked(m)
    BY <1>8 DEF RetryDelay, Release, Marked
  <2>3. Carries(d)' <=> Carries(d)
    BY <2>1 DEF Carries
  <2>4. Carries(d) => Marked(N(d)) /\ Marked(N(d))'
    BY <2>2 DEF Owned
  <2> QED
    BY <2>1, <2>2, <2>3, <2>4 DEF Claims, Owned
<1>9. CASE Unmark(d)
  <2>1. /\ \A e \in Delivery \ {d} : event'[e] = event[e]
        /\ event'[d].pc \in {"apologise", "done"} /\ (event'[d].acked => event[d].acked)
    <3>1. CASE Move(d, "apologise")
      BY <3>1, MoveAll DEF Pc
    <3>2. CASE EndEvent(d)
      BY <3>2, EndAll
    <3> QED
      BY <1>9, <3>1, <3>2 DEF Unmark
  <2>2. ~event[d].acked /\ ~Carries(d)'
    BY <1>9, <2>1 DEF Unmark, IInv, Settled, Carries
  <2>3. CASE event[d].marked
    <3>1. Forget(N(d)) /\ Carries(d)
      BY <1>9, <2>3 DEF Unmark, Carries
    <3>2. \A m : Marked(m)' <=> Marked(m) /\ m # N(d)
      BY <1>t, <3>1, ForgetFacts
    <3> QED
      BY <2>1, <2>2, <3>1, <3>2 DEF Claims
  <2>4. CASE ~event[d].marked
    <3>1. \A m : Marked(m)' <=> Marked(m)
      BY <1>9, <2>4 DEF Unmark, Marked
    <3> QED
      BY <2>1, <2>2, <3>1 DEF Claims
  <2> QED
    BY <2>3, <2>4
<1>10. CASE ChildSuppressed(d)
  <2>1. Carries(d)
    BY <1>10 DEF ChildSuppressed, Owned, Carries
  <2> QED
    BY <1>10, <2>1, EndClaims DEF ChildSuppressed
<1>11. CASE PostFailure(d) \/ Finish(d)
  BY <1>11, EndClaims DEF PostFailure, Finish
<1> QED
  BY <1>1, <1>2, <1>3, <1>4, <1>5, <1>6, <1>7, <1>8, <1>9, <1>10, <1>11 DEF Step

LEMMA SameOwned ==
    ASSUME Owned, UNCHANGED seen,
           \A d \in Delivery : /\ event'[d].pc = event[d].pc /\ event'[d].marked = event[d].marked
                               /\ event'[d].acked = event[d].acked
    PROVE  Owned'
<1>1. \A m : Marked(m)' <=> Marked(m)
  BY DEF Marked
<1>2. \A d \in Delivery : Carries(d)' <=> Carries(d)
  BY DEF Carries
<1> QED
  BY <1>1, <1>2 DEF Owned, N

LEMMA InitOwned == Init => Owned
BY DEF Init, Owned, Carries, Idle

LEMMA NextOwned ==
    ASSUME IInv, Bounds, Owned, KeepsMarks, [Next]_vars
    PROVE  Owned'
<1>1. CASE \/ \E n \in Note : Ask(n) \/ EditNote(n) \/ LateAward(n)
           \/ \E c \in Disc : ToggleMute(c)
           \/ CloseChats \/ CancelChats \/ UNCHANGED vars
  <2>1. UNCHANGED <<event, seen>>
    BY <1>1 DEF Ask, EditNote, LateAward, ToggleMute, CloseChats, CancelChats, vars
  <2> QED
    BY <2>1, SameOwned
<1>2. ASSUME NEW d \in Delivery, Admit(d)
      PROVE  Owned'
  <2>1. /\ \A e \in Delivery \ {d} : event'[e] = event[e]
        /\ event'[d].pc = "lock" /\ event'[d].marked = FALSE /\ event'[d].acked = FALSE
        /\ UNCHANGED seen
    BY <1>2 DEF Admit, IInv, Types, Idle
  <2>2. \A m : Marked(m)' <=> Marked(m)
    BY <2>1 DEF Marked
  <2>3. Claims(d)
    BY <2>1, <2>2 DEF Claims, Carries
  <2> QED
    BY <2>3, ClaimsKept
<1>3. ASSUME NEW d \in Delivery, Expire(d)
      PROVE  Owned'
  <2>1. \A e \in Delivery : /\ event'[e].pc = event[e].pc /\ event'[e].marked = event[e].marked
                            /\ event'[e].acked = event[e].acked
    BY <1>3 DEF Expire, IInv, Types, Event
  <2> QED
    BY <1>3, <2>1, SameOwned DEF Expire
<1>4. ASSUME NEW d \in Delivery, Step(d)
      PROVE  Owned'
  BY <1>4, StepClaims, ClaimsKept DEF Bounds
<1>5. CASE Restart
  <2>1. UNCHANGED event /\ \A d \in Delivery : ~Carries(d) /\ event[d].pc \in {"idle", "done"}
    BY <1>5 DEF Restart, Active, Carries
  <2>2. \A d \in Delivery : ~Carries(d)'
    BY <2>1 DEF Carries
  <2> QED
    BY <2>1, <2>2 DEF Owned
<1> QED
  BY <1>1, <1>2, <1>3, <1>4, <1>5 DEF Next

LEMMA NothingEvicted ==
    ASSUME Roomy, Order, NEW n \in Note, ~Marked(n)
    PROVE  Len(seen) < SeenCap
<1> DEFINE k == Len(seen)
           f == [i \in 1..(k + 1) |-> IF i <= k THEN seen[i] ELSE n]
<1>0. k \in Nat /\ k <= SeenCap /\ SeenCap \in Nat /\ \A i \in 1..k : seen[i] \in Note /\ seen[i] # n
  BY Capacities DEF Order, Marked
<1>1. \A i, j \in 1..k : seen[i] = seen[j] => i = j
  BY DEF Order
<1>2. SUFFICES ASSUME k = SeenCap PROVE FALSE
  BY <1>0
<1> HIDE DEF k
<1>3. IsFiniteSet(1..(k + 1)) /\ Cardinality(1..(k + 1)) = k + 1
  <2>1. /\ IsFiniteSet(1..(k + 1))
        /\ Cardinality(1..(k + 1)) = IF 1 > k + 1 THEN 0 ELSE k + 1 - 1 + 1
    BY <1>0, FS_Interval
  <2> QED
    BY <1>0, <2>1
<1>4. Cardinality(Note) \in Nat /\ Cardinality(Note) < k + 1
  BY <1>0, <1>2, FS_CardinalityType DEF Roomy
<1>5. f \in [1..(k + 1) -> Note]
  BY <1>0
<1>6. \A i \in 1..(k + 1) : (i \in 1..k /\ f[i] = seen[i]) \/ (i = k + 1 /\ f[i] = n)
  BY <1>0
<1> HIDE DEF f
<1>7. PICK x, y \in 1..(k + 1) : x # y /\ f[x] = f[y]
  <2> DEFINE S == 1..(k + 1)
  <2>1. IsFiniteSet(S) /\ f \in [S -> Note] /\ Cardinality(Note) < Cardinality(S)
    BY <1>3, <1>4, <1>5
  <2> HIDE DEF S
  <2>2. \E x, y \in S : x # y /\ f[x] = f[y]
    BY <2>1, FS_PigeonHole DEF Roomy
  <2> QED
    BY <2>2 DEF S
<1> QED
  BY <1>0, <1>1, <1>6, <1>7

\* Only the event that works under a mark drops it, and with room for all notes nothing else does.
LEMMA RoomKeepsMarks ==
    ASSUME Roomy, IInv, Bounds, Owned, [Next]_vars
    PROVE  KeepsMarks
<1>1. ASSUME NEW e \in Delivery, Carries(e), Carries(e)', Marked(N(e)), ~Marked(N(e))'
      PROVE  FALSE
  <2>1. PICK d \in Delivery : Step(d)
    <3>1. seen' # seen
      BY <1>1 DEF Marked
    <3>2. ~Restart
      BY <1>1 DEF Restart, Active, Carries
    <3> QED
      BY <3>1, <3>2 DEF Next, Ask, EditNote, LateAward, ToggleMute, CloseChats, CancelChats, vars, Admit, Expire
  <2>2. N(d) \in Note
    BY ConstantTypes
  <2>3. \/ seen' = seen \/ (MarkNew(N(d)) /\ N(d) \notin Range(seen))
        \/ (Forget(N(d)) /\ event[d].marked /\ Unmark(d)) \/ (Forget(N(d)) /\ ChildSuppressed(d))
    BY <2>1 DEF Step, LockDiscussion, TakeSlot, GateFails, GateDenies, GateDuplicate, GateAdmits,
       AwardAck, ChildYields, ChildSuppressed, ChildFails, ChildReady, ChildPost, RetryDelay, Release,
       Unmark, PostFailure, Finish
  <2>4. CASE seen' = seen
    BY <1>1, <2>4 DEF Marked
  <2>5. CASE MarkNew(N(d)) /\ N(d) \notin Range(seen)
    <3>1. ~Marked(N(d))
      BY <2>5, SeenRange DEF Bounds
    <3> QED
      BY <1>1, <2>2, <2>5, <3>1, NothingEvicted, MarkFacts DEF Bounds
  <2>6. CASE Forget(N(d)) /\ ((event[d].marked /\ Unmark(d)) \/ ChildSuppressed(d))
    <3>1. Carries(d)
      BY <2>6 DEF Unmark, ChildSuppressed, Carries, Owned
    <3>2. N(e) = N(d)
      BY <1>1, <2>2, <2>6, ForgetFacts DEF Bounds
    <3>3. e = d
      BY <1>1, <3>1, <3>2 DEF Owned
    <3>4. event'[d].pc \in {"apologise", "done"}
      BY <2>6, MoveAll, EndAll DEF Unmark, ChildSuppressed, Pc
    <3> QED
      BY <1>1, <3>3, <3>4 DEF Carries
  <2> QED
    BY <2>3, <2>4, <2>5, <2>6
<1> QED
  BY <1>1 DEF KeepsMarks

LEMMA TakesItsOwn ==
    ASSUME IInv, Owned, [Next]_vars
    PROVE  [\A n \in Note : n \in award /\ n \notin award' =>
               \A d \in Delivery : N(d) = n => ~event'[d].acked]_vars
<1>1. ASSUME NEW n \in Note, n \in award, n \notin award',
             NEW e \in Delivery, N(e) = n
      PROVE  ~event'[e].acked
  <2>1. PICK d \in Delivery : (Release(d) \/ ChildSuppressed(d) \/ Finish(d)) /\ ReleaseAck(d)
    BY <1>1 DEF Next, Ask, EditNote, LateAward, ToggleMute, CloseChats, CancelChats, Restart, vars, Admit, Expire, Step,
       LockDiscussion, TakeSlot, GateFails, GateDenies, GateDuplicate, GateAdmits, AwardAck, ChildYields,
       ChildSuppressed, ChildFails, ChildReady, ChildPost, RetryDelay, Release, Unmark, PostFailure, Finish, remote
  <2>2. N(d) = n /\ event[d].acked
    BY <1>1, <2>1 DEF ReleaseAck
  <2>3. (\A g \in Delivery \ {d} : event'[g] = event[g]) /\ ~event'[d].acked
    <3>1. CASE Release(d)
      BY <1>1, <3>1 DEF Release, IInv, Types, Event
    <3>2. CASE ChildSuppressed(d) \/ Finish(d)
      BY <1>1, <3>2, EndAll DEF ChildSuppressed, Finish
    <3> QED
      BY <2>1, <3>1, <3>2
  <2>4. CASE e = d
    BY <2>3, <2>4
  <2>5. CASE e # d
    BY <1>1, <2>2, <2>3, <2>5 DEF Owned
  <2> QED
    BY <2>4, <2>5
<1> QED
  BY <1>1

\* A reaction that is taken off a question is not worn by another event, as long as no mark is
\* evicted under the event that works on it: handleChat releases it before the dedup key is free
\* again.
THEOREM NoReactionStolen == Spec /\ [][KeepsMarks]_vars => AckNotStolen
<1>1. IInv /\ Owned /\ [Next]_vars =>
          [\A n \in Note : n \in award /\ n \notin award' =>
               \A d \in Delivery : N(d) = n => ~event'[d].acked]_vars
  BY TakesItsOwn
<1>2. IInv /\ Bounds /\ Owned /\ [Next]_vars /\ [KeepsMarks]_vars => Owned'
  <2>1. ASSUME Owned, UNCHANGED vars PROVE Owned'
    BY <2>1, SameOwned DEF vars
  <2> QED
    BY <2>1, NextOwned
<1>3. Spec /\ [][KeepsMarks]_vars => []Owned
  BY <1>2, InvariantBounds, InitOwned, PTL DEF Spec
<1> QED
  BY <1>1, <1>3, InvariantBounds, PTL DEF Spec, AckNotStolen

\* That is so where the marks have room for every note.
COROLLARY NoReactionStolenInRoom ==
    ASSUME Roomy
    PROVE  Spec => AckNotStolen
<1>1. IInv /\ Bounds /\ Owned /\ [Next]_vars => Owned'
  BY RoomKeepsMarks, NextOwned
<1>2. IInv /\ Owned /\ [Next]_vars =>
          [\A n \in Note : n \in award /\ n \notin award' =>
               \A d \in Delivery : N(d) = n => ~event'[d].acked]_vars
  BY TakesItsOwn
<1>3. Spec => []Owned
  BY <1>1, InvariantBounds, InitOwned, PTL DEF Spec
<1> QED
  BY <1>2, <1>3, InvariantBounds, PTL DEF Spec, AckNotStolen
=============================================================================
