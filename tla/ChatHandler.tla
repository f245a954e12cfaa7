---------------------------- MODULE ChatHandler ----------------------------
(***************************************************************************)
(* The chat half of the webhook handler: a question in a review thread is  *)
(* admitted, marked so that a redelivery is dropped, acknowledged with a   *)
(* reaction and answered by a child process that reads and posts to the    *)
(* thread.  Failures are retried here, since the webhook was acknowledged  *)
(* before the work began.  Every thread of the model is nickpit's own.     *)
(***************************************************************************)
EXTENDS Integers, Sequences, FiniteSets, SequencesExt

CONSTANTS
    Delivery,       \* webhook deliveries that ask for an answer
    Note, NoteOf,   \* user questions, and the one each delivery is about
    Disc, DiscOf,   \* discussions, and the one each question belongs to
    OptIn,          \* configured: only explicit requests are answered
    Requested,      \* deliveries of a request reaction (the others: the note itself)
    AdmitCap, Slots, SeenCap, MaxAttempts, \* chatQueueCap, max_concurrent, chatSeenCap, chatMaxAttempts
    FaultLimit, ExpireLimit, MuteLimit, EditLimit, ShutdownLimit, \* bounds on what goes wrong
    EventLimit      \* bound: all of it together

ASSUME ChatHandlerAssumption ==
    /\ NoteOf \in [Delivery -> Note] /\ DiscOf \in [Note -> Disc] /\ Requested \subseteq Delivery
    /\ OptIn \in BOOLEAN
    /\ {AdmitCap, Slots, SeenCap, MaxAttempts} \subseteq Nat \ {0}

VARIABLES
    phase,    \* "open", "closed" (no admissions) or "cancelled" (lifecycle context)
    event,    \* [Delivery -> its event]
    seen,     \* chatSeen: the marked notes, oldest first
    thread,   \* GitLab: [Disc -> questions and the bot's notes]
    award,    \* GitLab: the questions that show the bot's reaction
    muted,    \* GitLab: the muted discussions
    hushed,   \* GitLab: the questions edited so that no reply is allowed
    adrift,   \* GitLab: the awards that failed here and may still be committed
    leaked,   \* the questions whose last release failed (history)
    late,     \* the questions awarded when their event was over (history)
    used      \* [event kind -> how often], for the bounds

remote == <<thread, award, muted, hushed, adrift, late>>
vars == <<phase, event, seen, remote, leaked, used>>

Bound == [fault |-> FaultLimit, expire |-> ExpireLimit, mute |-> MuteLimit, edit |-> EditLimit,
          shutdown |-> ShutdownLimit]
Use(k) ==
    /\ used[k] < Bound[k]
    /\ used.fault + used.expire + used.mute + used.edit + used.shutdown < EventLimit
    /\ used' = [used EXCEPT ![k] = @ + 1]
Quiet == UNCHANGED used

Idle == [pc |-> "idle", attempts |-> 0, marked |-> FALSE, acked |-> FALSE, confirmed |-> FALSE,
         expired |-> FALSE]
Ended == [Idle EXCEPT !.pc = "done"]

N(d) == NoteOf[d]
D(d) == DiscOf[NoteOf[d]]
Active == {d \in Delivery : event[d].pc \notin {"idle", "done"}}
Running == {d \in Delivery : event[d].pc \in {"gate", "award", "child", "post"}}
Holding(c) == {d \in Delivery : D(d) = c /\ (d \in Running \/ event[d].pc = "slot")}
Dead(d) == event[d].expired \/ phase = "cancelled"
Allows(d) == D(d) \notin muted /\ (OptIn => d \in Requested)

Stands(n) == \E i \in DOMAIN thread[DiscOf[n]] : thread[DiscOf[n]][i] = [kind |-> "question", note |-> n]
\* The thread goes on after question n: a note of the bot, or a newer question.
Covered(n) == Stands(n) /\ Last(thread[DiscOf[n]]) # [kind |-> "question", note |-> n]

\* Mutant: the bot's own notes are skipped in the search for the pending question.
LatestQuestion(n) ==
    \E i \in DOMAIN thread[DiscOf[n]] :
        /\ thread[DiscOf[n]][i] = [kind |-> "question", note |-> n]
        /\ \A j \in DOMAIN thread[DiscOf[n]] : j > i => thread[DiscOf[n]][j].kind # "question"
\* latestPendingNote: the question is the thread's last note.
Pending(n) == Stands(n) /\ ~Covered(n)

Say(kind, n) == thread' = [thread EXCEPT ![DiscOf[n]] = Append(@, [kind |-> kind, note |-> n])]
Silent == UNCHANGED thread

Init ==
    /\ phase = "open"
    /\ event = [d \in Delivery |-> Idle]
    /\ seen = <<>>
    /\ thread = [c \in Disc |-> <<>>]
    /\ award = {} /\ muted = {} /\ hushed = {} /\ adrift = {} /\ leaked = {} /\ late = {}
    /\ used = [k \in DOMAIN Bound |-> 0]

-----------------------------------------------------------------------------
(* Users and GitLab.                                                       *)

Ask(n) ==
    /\ ~Stands(n)
    /\ Say("question", n)
    /\ UNCHANGED <<phase, event, seen, award, adrift, late, muted, hushed, leaked, used>>

\* A mute emoji or command, or its removal.
ToggleMute(c) ==
    /\ Use("mute")
    /\ muted' = IF c \in muted THEN muted \ {c} ELSE muted \cup {c}
    /\ UNCHANGED <<phase, event, seen, thread, award, adrift, late, hushed, leaked>>

\* The question is edited down to its controls.
EditNote(n) ==
    /\ Stands(n) /\ n \notin hushed
    /\ Use("edit")
    /\ hushed' = hushed \cup {n}
    /\ UNCHANGED <<phase, event, seen, thread, award, adrift, late, muted, leaked>>

-----------------------------------------------------------------------------
(* An admitted event.                                                      *)

Move(d, pc) == event' = [event EXCEPT ![d].pc = pc]
EndEvent(d) == event' = [event EXCEPT ![d] = Ended]

\* A refused delivery changes nothing and may come again.
Admit(d) ==
    /\ event[d].pc = "idle" /\ Stands(N(d))
    /\ phase = "open" /\ Cardinality(Active) < AdmitCap
    /\ event' = [event EXCEPT ![d] = [Idle EXCEPT !.pc = "lock", !.attempts = 1]]
    /\ UNCHANGED <<phase, seen, remote, leaked, used>>

Expire(d) ==
    /\ d \in Active /\ ~event[d].expired
    /\ Use("expire")
    /\ event' = [event EXCEPT ![d].expired = TRUE]
    /\ UNCHANGED <<phase, seen, remote, leaked>>

\* Mutant: a retried event keeps its discussion locked, and waits for itself.
LockKeptAcrossRetries(d) ==
    /\ event[d].pc = "lock" /\ Holding(D(d)) = {}
    /\ \A e \in Active : D(e) = D(d) => event[e].attempts = 1
    /\ Move(d, "slot")
    /\ UNCHANGED <<phase, seen, remote, leaked, used>>
\* Mutant: replies within one discussion race.
NoDiscussionLock(d) ==
    /\ event[d].pc = "lock"
    /\ Move(d, "slot")
    /\ UNCHANGED <<phase, seen, remote, leaked, used>>
LockDiscussion(d) ==
    /\ event[d].pc = "lock" /\ Holding(D(d)) = {}
    /\ Move(d, "slot")
    /\ UNCHANGED <<phase, seen, remote, leaked, used>>

\* A retryable attempt is over: the context is looked at before the count.
AfterFailure(d) ==
    IF Dead(d) THEN "abandon" ELSE IF event[d].attempts >= MaxAttempts THEN "giveup" ELSE "sleep"

TakeSlot(d) ==
    /\ event[d].pc = "slot"
    /\ \/ Cardinality(Running) < Slots /\ Move(d, "gate")
       \/ Dead(d) /\ Move(d, "abandon")
    /\ UNCHANGED <<phase, seen, remote, leaked, used>>

\* markNew: the oldest mark goes when there is no room.
MarkNew(n) == seen' = IF Len(seen) < SeenCap THEN Append(seen, n) ELSE Append(Tail(seen), n)
\* forget: a note is queued once at most (TypeOK), so that DeleteFunc removes one entry or none.
Forget(n) ==
    IF n \in Range(seen) THEN \E i \in DOMAIN seen : seen[i] = n /\ seen' = RemoveAt(seen, i)
    ELSE UNCHANGED seen

GateFails(d) ==
    /\ event[d].pc = "gate"
    /\ IF Dead(d) THEN Quiet ELSE Use("fault")
    /\ Move(d, AfterFailure(d))
    /\ UNCHANGED <<phase, seen, remote, leaked>>

\* Denied by the thread's policy: final, whatever an earlier attempt left.
GateDenies(d) ==
    /\ event[d].pc = "gate" /\ ~Allows(d)
    /\ Move(d, "finish")
    /\ UNCHANGED <<phase, seen, remote, leaked, used>>

GateDuplicate(d) ==
    /\ event[d].pc = "gate" /\ Allows(d)
    /\ ~event[d].marked /\ N(d) \in Range(seen)
    /\ Move(d, "finish")
    /\ UNCHANGED <<phase, seen, remote, leaked, used>>

GateAdmits(d) ==
    /\ event[d].pc = "gate" /\ Allows(d)
    /\ \/ event[d].marked /\ UNCHANGED seen
       \/ ~event[d].marked /\ N(d) \notin Range(seen) /\ MarkNew(N(d))
    /\ event' = [event EXCEPT ![d].pc = IF event[d].acked THEN "child" ELSE "award",
                              ![d].marked = TRUE, ![d].confirmed = TRUE]
    /\ UNCHANGED <<phase, remote, leaked, used>>

\* A failed award may have landed, or land yet, so it is released all the same.
AwardAck(d) ==
    /\ event[d].pc = "award"
    /\ event' = [event EXCEPT ![d].pc = "child", ![d].acked = TRUE]
    /\ \/ award' = award \cup {N(d)} /\ UNCHANGED adrift /\ Quiet
       \/ /\ adrift' = adrift \cup {N(d)} /\ UNCHANGED award
          /\ IF Dead(d) THEN Quiet ELSE Use("fault")
    /\ UNCHANGED <<phase, seen, thread, muted, hushed, leaked, late>>

\* An event under way will take the reaction off this question.
Releases(n) == \E d \in Active : N(d) = n /\ event[d].acked

\* GitLab commits an award the client gave up on, or never does.
LateAward(n) ==
    /\ n \in adrift
    /\ award' = award \cup {n} /\ adrift' = adrift \ {n}
    /\ late' = IF Releases(n) THEN late ELSE late \cup {n}
    /\ UNCHANGED <<phase, event, seen, thread, muted, hushed, leaked, used>>

-----------------------------------------------------------------------------
(* The child: its last reading of the thread, then its POST.               *)

ChildYields(d) ==
    /\ event[d].pc = "child" /\ ~Pending(N(d))
    /\ Move(d, "finish")
    /\ UNCHANGED <<phase, seen, remote, leaked, used>>

\* releaseAck, once per event: a failed release leaves the reaction, and no release waits
\* for an award that may still land.
ReleaseAck(d) ==
    IF ~event[d].acked THEN UNCHANGED <<award, leaked, late>> /\ Quiet
    ELSE \/ /\ award' = award \ {N(d)} /\ leaked' = leaked \ {N(d)} /\ late' = late \ {N(d)}
            /\ Quiet
         \/ /\ leaked' = leaked \cup ({N(d)} \cap award) /\ UNCHANGED <<award, late>>
            /\ Use("fault")

\* ChatNoPostExitCode: released and forgotten while the discussion is still locked.
ChildSuppressed(d) ==
    /\ event[d].pc = "child"
    /\ D(d) \in muted \/ (Pending(N(d)) /\ N(d) \in hushed)
    /\ Forget(N(d))
    /\ EndEvent(d)
    /\ ReleaseAck(d)
    /\ UNCHANGED <<phase, thread, adrift, muted, hushed>>

ChildFails(d) ==
    /\ event[d].pc = "child"
    /\ IF Dead(d) THEN Quiet ELSE Use("fault")
    /\ Move(d, AfterFailure(d))
    /\ UNCHANGED <<phase, seen, remote, leaked>>

ChildReady(d) ==
    /\ event[d].pc = "child" /\ Pending(N(d)) /\ D(d) \notin muted /\ N(d) \notin hushed
    /\ Move(d, "post")
    /\ UNCHANGED <<phase, seen, remote, leaked, used>>

\* An answer whose response is lost, or whose child is killed, may have landed.
ChildPost(d) ==
    /\ event[d].pc = "post"
    /\ \/ Say("answer", N(d)) /\ Move(d, "finish") /\ Quiet
       \/ /\ Say("answer", N(d)) \/ Silent
          /\ IF Dead(d) THEN Quiet ELSE Use("fault")
          /\ Move(d, AfterFailure(d))
    /\ UNCHANGED <<phase, seen, award, adrift, late, muted, hushed, leaked>>

-----------------------------------------------------------------------------
(* Retrying and giving up.                                                 *)

RetryDelay(d) ==
    /\ event[d].pc = "sleep"
    /\ IF Dead(d) THEN Move(d, "abandon")
       ELSE event' = [event EXCEPT ![d].pc = "lock", ![d].attempts = @ + 1]
    /\ UNCHANGED <<phase, seen, remote, leaked, used>>

\* Mutant: a chat that gives up forgets the mark before it settles the reaction.
UnmarkFirst(d) ==
    \/ /\ event[d].pc = "giveup"
       /\ Forget(N(d)) /\ Move(d, "abandon")
       /\ UNCHANGED <<phase, remote, leaked, used>>
    \/ /\ event[d].pc = "abandon"
       /\ event' = [event EXCEPT ![d].pc = "unmark_abandoned", ![d].acked = FALSE]
       /\ ReleaseAck(d)
       /\ UNCHANGED <<phase, seen, thread, adrift, muted, hushed>>
\* The reaction is settled before the mark is given up.
Release(d) ==
    /\ event[d].pc \in {"giveup", "abandon"}
    /\ event' = [event EXCEPT ![d].pc = IF @ = "giveup" THEN "unmark" ELSE "unmark_abandoned",
                              ![d].acked = FALSE]
    /\ ReleaseAck(d)
    /\ UNCHANGED <<phase, seen, thread, adrift, muted, hushed>>

\* Mutant: the mark of a failed chat is kept.
KeepMark(d) ==
    /\ event[d].pc \in {"unmark", "unmark_abandoned"}
    /\ IF event[d].confirmed /\ ~(event[d].pc = "unmark_abandoned" /\ phase = "cancelled")
       THEN Move(d, "apologise") ELSE EndEvent(d)
    /\ UNCHANGED <<phase, seen, remote, leaked, used>>
\* An event abandoned at shutdown, or never confirmed by the gate, says nothing.
Unmark(d) ==
    /\ event[d].pc \in {"unmark", "unmark_abandoned"}
    /\ IF event[d].marked THEN Forget(N(d)) ELSE UNCHANGED seen
    /\ IF event[d].confirmed /\ ~(event[d].pc = "unmark_abandoned" /\ phase = "cancelled")
       THEN Move(d, "apologise") ELSE EndEvent(d)
    /\ UNCHANGED <<phase, remote, leaked, used>>

\* replyChatFailureIfAllowed: policy and note are read again, the thread's order is not.
PostFailure(d) ==
    /\ event[d].pc = "apologise"
    /\ \/ Allows(d) /\ N(d) \notin hushed /\ Say("failure", N(d)) /\ Quiet
       \/ ~(Allows(d) /\ N(d) \notin hushed) /\ Silent /\ Quiet
       \/ Silent /\ Use("fault")
    /\ EndEvent(d)
    /\ UNCHANGED <<phase, seen, award, adrift, late, muted, hushed, leaked>>

\* Mutant: only a chat that fails releases its reaction.
NoDeferredRelease(d) ==
    /\ event[d].pc = "finish"
    /\ EndEvent(d)
    /\ UNCHANGED <<phase, seen, remote, leaked, used>>
\* The deferred release of an event that is over, after the discussion is unlocked.
Finish(d) ==
    /\ event[d].pc = "finish"
    /\ EndEvent(d)
    /\ ReleaseAck(d)
    /\ UNCHANGED <<phase, seen, thread, adrift, muted, hushed>>

-----------------------------------------------------------------------------
(* Shutdown and the next daemon.                                           *)

CloseChats ==
    /\ phase = "open" /\ phase' = "closed"
    /\ Use("shutdown")
    /\ UNCHANGED <<event, seen, remote, leaked>>

\* The grace is over, or every chat is.
CancelChats ==
    /\ phase = "closed" /\ phase' = "cancelled"
    /\ UNCHANGED <<event, seen, remote, leaked, used>>

Restart ==
    /\ phase = "cancelled" /\ Active = {}
    /\ phase' = "open" /\ seen' = <<>>
    /\ UNCHANGED <<event, remote, leaked, used>>

Step(d) ==
    \/ LockDiscussion(d) \/ TakeSlot(d)
    \/ GateFails(d) \/ GateDenies(d) \/ GateDuplicate(d) \/ GateAdmits(d) \/ AwardAck(d)
    \/ ChildYields(d) \/ ChildSuppressed(d) \/ ChildFails(d) \/ ChildReady(d) \/ ChildPost(d)
    \/ RetryDelay(d) \/ Release(d) \/ Unmark(d) \/ PostFailure(d) \/ Finish(d)

Next ==
    \/ \E n \in Note : Ask(n) \/ EditNote(n) \/ LateAward(n)
    \/ \E c \in Disc : ToggleMute(c)
    \/ \E d \in Delivery : Admit(d) \/ Expire(d) \/ Step(d)
    \/ CloseChats \/ CancelChats \/ Restart

Spec == Init /\ [][Next]_vars

\* Goroutines, timers and the shutdown's grace go on; users and GitLab need not.
FairSpec == Spec /\ (\A d \in Delivery : WF_vars(Step(d))) /\ WF_vars(CancelChats)

-----------------------------------------------------------------------------
(* Properties.                                                             *)

\* Admission, the slots and the discussion locks keep their bounds: chatAdmit, chatSem, chatLocks.
TypeOK ==
    /\ phase \in {"open", "closed", "cancelled"}
    /\ \A d \in Delivery : event[d].attempts \in 0..MaxAttempts /\ event[d].marked \in BOOLEAN
    /\ Range(seen) \subseteq Note /\ Len(seen) <= SeenCap /\ IsInjective(seen)
    /\ award \cup adrift \cup hushed \subseteq Note /\ leaked \cup late \subseteq award /\ muted \subseteq Disc
    /\ Cardinality(Active) <= AdmitCap /\ Cardinality(Running) <= Slots
    /\ \A c \in Disc : Cardinality(Holding(c)) <= 1

\* However often a question is delivered, retried or posted with a lost response, and even once
\* its mark was forgotten, the thread gets at most one answer to it (runChatGitLabReply).
AnsweredOnce ==
    \A n \in Note :
        Cardinality({i \in DOMAIN thread[DiscOf[n]] :
                         thread[DiscOf[n]][i] = [kind |-> "answer", note |-> n]}) <= 1

\* Taking the reaction off a question never takes it from another event that wears it:
\* handleChat releases before its dedup key is available.  It takes that no mark is evicted
\* under an event that works on it.
AckNotStolen ==
    [][\A n \in Note : n \in award /\ n \notin award' =>
           \A d \in Delivery : N(d) = n => ~event'[d].acked]_vars

\* A reaction no event under way will take off is one whose release failed, or one that GitLab
\* committed when its event was over: whichever way the event ends (handleChat's deferred
\* releaseAck).
NoStrandedAck == \A n \in award : n \in leaked \cup late \/ Releases(n)

\* The reaction comes off regardless (releaseChatAck): only a failed release leaves it.
AckComesOff == \A n \in award : n \in leaked \/ Releases(n)

\* A mark nobody works under belongs to a question the thread went on from, so that dropping a
\* redelivery as a duplicate never silences a question (noteDedup.forget).
MarkMeansCovered ==
    \A n \in Range(seen) : Covered(n) \/ \E d \in Active : N(d) = n /\ event[d].marked

\* The same as long as nobody mutes a discussion.
MarkMeansCoveredUnmuted == used.mute = 0 => MarkMeansCovered

\* Every admitted chat ends, its attempts spent, its deadline passed or the daemon shut down.
ChatsEnd == \A d \in Delivery : (d \in Active) ~> (d \notin Active)
=============================================================================
