--------------------------- MODULE UpdateJobsProofs ---------------------------
(***************************************************************************)
(* Correction jobs are done in order, once and truthfully: proved for any  *)
(* jobs, merge requests, children and limits.  A child past its start      *)
(* holds the two locks of its job, so what it read of the checkpoint and   *)
(* of the review stays true until it changes it; what it has not saved is  *)
(* no more than what the checkpoint and GitLab let its successor find out. *)
(***************************************************************************)
EXTENDS UpdateJobs, TLAPS, FiniteSetTheorems, SequenceTheorems

\* Every job that was created is there, once.
Queue ==
    /\ \A i, k \in 1..Len(created) : created[i] = created[k] => i = k
    /\ \A j \in Job : store[j] # None <=> \E i \in 1..Len(created) : created[i] = j

\* No job is committed twice, and a staged update belongs to its merge request.
Once(s) == \A i, k \in 1..Len(s) : s[i] = s[k] => i = k
OnReview(m) == Once(commits[m]) /\ (pending[m] # None => MrOf[pending[m]] = m)

\* What the checkpoint, the review and the thread say of a job agree.
NotYet(j) == pending[MrOf[j]] # j /\ ~Committed(j) /\ posted[j] = <<>> /\ jobLock[j] # Chat
Told(j) == posted[j] # <<>> => posted[j] = <<store[j].followup>> /\ store[j].followup # None
Traced(j) ==
    /\ pending[MrOf[j]] = j => store[j].plan # None /\ ~Committed(j)
    /\ Committed(j) /\ store[j].followup = None => store[j].plan # None
True(j) ==
    /\ store[j].followup # None => store[j].plan = None
    /\ store[j].followup = "updated" => Committed(j)
    /\ store[j].followup \notin {None, "updated"} => ~Committed(j)
Left(j) ==
    store[j].done => /\ j \notin eyes /\ jobLock[j] # Chat /\ pending[MrOf[j]] # j
                     /\ thread[j] = "open" => posted[j] # <<>>
JobFine(j) ==
    /\ store[j] = None => NotYet(j)
    /\ store[j] # None => Told(j) /\ Traced(j) /\ True(j) /\ Left(j)

\* What a child past its start knows of its job.
Ahead(j) ==
    \A i, k \in 1..Len(created) :
        i < k /\ created[k] = j /\ MrOf[created[i]] = MrOf[j] => store[created[i]].done
Deciding == {"decide", "evaluate", "publish", "staged", "apply"}
Knows(j, pc, mem) ==
    /\ pc \in {"staged", "apply"} => pending[MrOf[j]] = j
    /\ pc \notin {"recover", "staged", "apply"} => pending[MrOf[j]] = None
    /\ pc \in Deciding \cup {"published"} => mem.followup = None
    /\ pc \in Deciding => mem.attempts >= 1 /\ mem.conflicts < MaxConflicts
    /\ pc \in Deciding \cup {"thread"} /\ mem.followup = None => ~Committed(j)
    /\ pc = "evaluate" => mem.plan = None
    /\ pc \in {"publish", "staged", "apply", "published"} => mem.plan # None
    /\ pc = "published" => Committed(j)
    /\ pc \in {"post", "finish"} => mem.followup # None
    /\ pc = "finish" /\ thread[j] = "open" => posted[j] # <<>>
Holds(p) ==
    LET j == child[p].job
    IN  /\ exec[MrOf[j]] = p /\ jobLock[j] = p
        /\ store[j] # None /\ store[j] = child[p].mem /\ ~store[j].done
        /\ Ahead(j) /\ Knows(j, child[p].pc, store[j])
ChildFine(p) ==
    child[p] # None => /\ store[child[p].job] # None
                       /\ child[p].pc # "start" => Holds(p)

IInv ==
    /\ TypeOK /\ Queue
    /\ \A m \in MR : OnReview(m)
    /\ \A j \in Job : JobFine(j)
    /\ \A p \in Child : ChildFine(p)

-----------------------------------------------------------------------------
(* Locks, checkpoints and what a step of one child may change.             *)

\* No other child works on the merge request of j.
Alone(p, j) == \A q \in Child : q # p /\ Working(q) => MrOfChild(q) # MrOf[j]

LEMMA WorkingAlone ==
    ASSUME IInv, NEW p \in Child, Working(p)
    PROVE  Alone(p, child[p].job)
BY DEF IInv, ChildFine, Holds, Alone, Working, MrOfChild

\* A step of p that changes nothing but its own job and its merge request.
Only(p, j) ==
    /\ created' = created /\ thread' = thread
    /\ \A q \in Child : q # p => child'[q] = child[q]
    /\ \A i \in Job : i # j => /\ store'[i] = store[i] /\ posted'[i] = posted[i]
                               /\ i \in eyes' <=> i \in eyes
    /\ \A i \in Job : \A q \in Child \cup {Chat} : q # p => (jobLock'[i] = q <=> jobLock[i] = q)
    /\ \A m \in MR : \A q \in Child : q # p => (exec'[m] = q <=> exec[m] = q)
    /\ \A m \in MR : m # MrOf[j] => pending'[m] = pending[m] /\ commits'[m] = commits[m]
    /\ store[j] # None /\ store'[j] # None
    /\ store[j].done => store'[j].done

LEMMA AheadStays ==
    ASSUME TypeOK, Queue, created' = created, NEW j \in Job, Ahead(j),
           \A i \in Job : store[i] # None /\ store[i].done => store'[i] # None /\ store'[i].done
    PROVE  Ahead(j)'
<1>1. \A i \in 1..Len(created) : created[i] \in Job /\ store[created[i]] # None
  BY DEF TypeOK, Queue
<1> QED
  BY <1>1 DEF Ahead

LEMMA OtherChildren ==
    ASSUME IInv, NEW p \in Child, NEW j \in Job, Only(p, j), Alone(p, j),
           NEW q \in Child, q # p
    PROVE  ChildFine(q)'
<1> DEFINE i == child[q].job
<1> SUFFICES ASSUME child[q] # None
             PROVE  ChildFine(q)'
  BY DEF ChildFine, Only
<1>1. i \in Job /\ MrOf[i] \in MR /\ child'[q] = child[q]
  BY UpdateJobsAssumption DEF IInv, TypeOK, Process, Only
<1>2. store'[i] # None
  BY <1>1 DEF Only, IInv, ChildFine
<1>3. CASE child[q].pc = "start"
  BY <1>1, <1>2, <1>3 DEF ChildFine
<1>4. CASE child[q].pc # "start"
  <2>1. Holds(q) /\ MrOf[i] # MrOf[j] /\ i # j
    BY <1>4, <1>1 DEF IInv, ChildFine, Alone, Working, MrOfChild
  <2>2. /\ store'[i] = store[i] /\ posted'[i] = posted[i] /\ thread' = thread
        /\ pending'[MrOf[i]] = pending[MrOf[i]] /\ commits'[MrOf[i]] = commits[MrOf[i]]
        /\ jobLock'[i] = q /\ exec'[MrOf[i]] = q
    BY <1>1, <2>1 DEF Only, Holds
  <2>3. Ahead(i)'
    <3>1. \A k \in Job : store[k] # None /\ store[k].done => store'[k] # None /\ store'[k].done
      BY DEF Only
    <3> QED
      BY <1>1, <2>1, <3>1, AheadStays DEF Only, IInv, Holds
  <2>4. Knows(i, child[q].pc, store[i])'
    BY <2>1, <2>2, <1>1 DEF Holds, Knows, Committed
  <2> QED
    BY <1>1, <1>2, <2>1, <2>2, <2>3, <2>4 DEF ChildFine, Holds
<1> QED
  BY <1>3, <1>4

LEMMA OtherJobs ==
    ASSUME IInv, NEW p \in Child, NEW j \in Job, Only(p, j), NEW i \in Job, i # j,
           Committed(i)' <=> Committed(i), pending'[MrOf[i]] = i => pending[MrOf[i]] = i
    PROVE  JobFine(i)'
<1>1. /\ store'[i] = store[i] /\ posted'[i] = posted[i] /\ thread' = thread
      /\ i \in eyes' <=> i \in eyes
  BY DEF Only
<1>2. jobLock'[i] = Chat <=> jobLock[i] = Chat
  BY UpdateJobsAssumption DEF Only
<1>3. JobFine(i)
  BY DEF IInv
<1> QED
  BY <1>1, <1>2, <1>3 DEF JobFine, NotYet, Told, Traced, True, Left

LEMMA QueueStays ==
    ASSUME IInv, NEW p \in Child, NEW j \in Job, Only(p, j)
    PROVE  Queue'
BY DEF IInv, Queue, Only

LEMMA StepOfOne ==
    ASSUME IInv, NEW p \in Child, NEW j \in Job, Only(p, j), Alone(p, j), TypeOK',
           \A i \in Job : i # j => /\ Committed(i)' <=> Committed(i)
                                   /\ pending'[MrOf[i]] = i => pending[MrOf[i]] = i,
           OnReview(MrOf[j])', JobFine(j)', ChildFine(p)'
    PROVE  IInv'
<1>1. ASSUME NEW m \in MR
      PROVE  OnReview(m)'
  BY DEF IInv, OnReview, Only, Once
<1>2. ASSUME NEW i \in Job
      PROVE  JobFine(i)'
  BY OtherJobs
<1>3. ASSUME NEW q \in Child
      PROVE  ChildFine(q)'
  BY OtherChildren
<1> QED
  BY <1>1, <1>2, <1>3, QueueStays DEF IInv

\* The ways a child goes on or ends.
LEMMA ExitFacts ==
    ASSUME IInv, NEW p \in Child, Exit(p)
    PROVE  /\ child' \in [Child -> Process \cup {None}]
           /\ child'[p] = None /\ \A q \in Child : q # p => child'[q] = child[q]
           /\ jobLock' \in [Job -> Child \cup {None, Chat}]
           /\ exec' \in [MR -> Child \cup {None}] /\ active' \in [MR -> Child \cup {None}]
           /\ \A i \in Job : \A q \in Child \cup {Chat} : q # p => (jobLock'[i] = q <=> jobLock[i] = q)
           /\ \A m \in MR : \A q \in Child : q # p => (exec'[m] = q <=> exec[m] = q)
           /\ deferred' = deferred
           /\ ChildFine(p)'
<1>1. TypeOK
  BY DEF IInv
<1>2. child' \in [Child -> Process \cup {None}]
  BY <1>1 DEF TypeOK, Exit
<1>3. child'[p] = None /\ \A q \in Child : q # p => child'[q] = child[q]
  BY <1>1 DEF TypeOK, Exit
<1>4. /\ jobLock' \in [Job -> Child \cup {None, Chat}]
      /\ exec' \in [MR -> Child \cup {None}] /\ active' \in [MR -> Child \cup {None}]
      /\ deferred' = deferred
  BY <1>1 DEF TypeOK, Exit
<1>5. \A i \in Job : \A q \in Child \cup {Chat} : q # p => (jobLock'[i] = q <=> jobLock[i] = q)
  BY <1>1, UpdateJobsAssumption DEF TypeOK, Exit
<1>6. \A m \in MR : \A q \in Child : q # p => (exec'[m] = q <=> exec[m] = q)
  BY <1>1, UpdateJobsAssumption DEF TypeOK, Exit
<1>7. ChildFine(p)'
  BY <1>3 DEF ChildFine
<1> QED
  BY <1>2, <1>3, <1>4, <1>5, <1>6, <1>7

Pcs == {"start", "recover", "plan", "thread", "decide", "evaluate", "publish", "staged",
        "apply", "published", "post", "finish"}

LEMMA GoFacts ==
    ASSUME IInv, NEW p \in Child, child[p] # None, NEW pc \in Pcs, NEW mem \in Checkpoint,
           Go(p, pc, mem)
    PROVE  /\ child' \in [Child -> Process \cup {None}]
           /\ child'[p] # None /\ child'[p].job = child[p].job
           /\ child'[p].pc = pc /\ child'[p].mem = mem
           /\ \A q \in Child : q # p => child'[q] = child[q]
           /\ jobLock' = jobLock /\ exec' = exec /\ active' = active /\ deferred' = deferred
<1>1. child \in [Child -> Process \cup {None}] /\ child[p] \in Process
  BY DEF IInv, TypeOK
<1> DEFINE c == [child[p] EXCEPT !.pc = pc, !.mem = mem]
<1>2. c \in Process /\ c.job = child[p].job /\ c.pc = pc /\ c.mem = mem
  BY <1>1 DEF Process, Pcs
<1>3. child' = [child EXCEPT ![p] = c]
  BY <1>1 DEF Go
<1>4. c # None
  BY <1>2, NoneAssumption
<1> HIDE DEF c
<1>5. /\ child' \in [Child -> Process \cup {None}] /\ child'[p] = c
      /\ \A q \in Child : q # p => child'[q] = child[q]
  BY <1>1, <1>2, <1>3
<1> QED
  BY <1>2, <1>4, <1>5 DEF Go, Stay, worker

LEMMA SaveFacts ==
    ASSUME IInv, NEW p \in Child, child[p] # None, NEW mem \in Checkpoint, Save(p, mem)
    PROVE  /\ store' \in [Job -> Checkpoint \cup {None}]
           /\ store'[child[p].job] = mem /\ mem # None
           /\ \A i \in Job : i # child[p].job => store'[i] = store[i]
BY NoneAssumption DEF IInv, TypeOK, Save, Process

\* What a step at pc starts from.
LEMMA AtFacts ==
    ASSUME IInv, NEW p \in Child, NEW pc, pc # "start", At(p, pc)
    PROVE  /\ child[p] # None /\ child[p] \in Process /\ child[p].pc = pc
           /\ child[p].job \in Job /\ child[p].job # None /\ MrOf[child[p].job] \in MR
           /\ child[p].mem \in Checkpoint /\ child[p].mem = store[child[p].job]
           /\ store[child[p].job] # None /\ ~child[p].mem.done
           /\ exec[MrOf[child[p].job]] = p /\ jobLock[child[p].job] = p
           /\ Alone(p, child[p].job)
           /\ Ahead(child[p].job) /\ Knows(child[p].job, pc, child[p].mem)
           /\ JobFine(child[p].job) /\ OnReview(MrOf[child[p].job])
<1>1. child[p] # None /\ child[p] \in Process /\ child[p].pc = pc
  BY DEF At, IInv, TypeOK
<1>2. child[p].job \in Job /\ child[p].job # None /\ MrOf[child[p].job] \in MR
  BY <1>1, UpdateJobsAssumption DEF Process
<1>3. Holds(p)
  BY <1>1 DEF IInv, ChildFine
<1>4. child[p].mem \in Checkpoint
  BY <1>2, <1>3 DEF Holds, IInv, TypeOK
<1>5. Alone(p, child[p].job)
  BY <1>1, WorkingAlone DEF Working
<1>6. JobFine(child[p].job) /\ OnReview(MrOf[child[p].job])
  BY <1>2 DEF IInv
<1>7. Knows(child[p].job, pc, child[p].mem)
  BY <1>1, <1>3 DEF Holds
<1> QED
  BY <1>1, <1>2, <1>3, <1>4, <1>5, <1>6, <1>7 DEF Holds

\* A retry keeps the plan, but for a conflict.
LEMMA RetryFacts ==
    ASSUME IInv, NEW p \in Child, child[p] # None, NEW mem \in Checkpoint,
           NEW conflict \in BOOLEAN, conflict => mem.attempts >= 1 /\ mem.conflicts < MaxConflicts,
           Retry(p, mem, conflict)
    PROVE  /\ Exit(p) /\ backoff' = backoff \cup {child[p].job}
           /\ \E next \in Checkpoint :
                /\ Save(p, next)
                /\ next.followup = mem.followup /\ next.done = mem.done
                /\ next.plan = IF conflict THEN None ELSE mem.plan
<1> DEFINE next == IF conflict
                   THEN [mem EXCEPT !.attempts = @ - 1, !.conflicts = @ + 1, !.plan = None]
                   ELSE mem
<1>1. /\ next \in Checkpoint /\ next.followup = mem.followup /\ next.done = mem.done
      /\ next.plan = IF conflict THEN None ELSE mem.plan
  <2>1. /\ mem.attempts \in 0..MaxAttempts /\ mem.conflicts \in 0..MaxConflicts
        /\ MaxAttempts \in Nat /\ MaxConflicts \in Nat
    BY UpdateJobsAssumption DEF Checkpoint
  <2>2. CASE conflict
    <3>1. mem.attempts - 1 \in 0..MaxAttempts /\ mem.conflicts + 1 \in 0..MaxConflicts
      BY <2>1, <2>2
    <3> QED
      BY <3>1, <2>2 DEF Checkpoint
  <2>3. CASE ~conflict
    BY <2>3
  <2> QED
    BY <2>2, <2>3
<1>2. Save(p, next) /\ Exit(p) /\ backoff' = backoff \cup {child[p].job}
  BY DEF Retry
<1> QED
  BY <1>1, <1>2

-----------------------------------------------------------------------------
(* The steps of a child.                                                   *)

LEMMA ExitOnly ==
    ASSUME IInv, NEW p \in Child, Exit(p),
           UNCHANGED <<store, created, backoff, review, discussion>>
    PROVE  IInv'
<1>1. /\ child' \in [Child -> Process \cup {None}]
      /\ child'[p] = None /\ \A q \in Child : q # p => child'[q] = child[q]
      /\ jobLock' \in [Job -> Child \cup {None, Chat}]
      /\ exec' \in [MR -> Child \cup {None}] /\ active' \in [MR -> Child \cup {None}]
      /\ \A i \in Job : \A q \in Child \cup {Chat} : q # p => (jobLock'[i] = q <=> jobLock[i] = q)
      /\ \A m \in MR : \A q \in Child : q # p => (exec'[m] = q <=> exec[m] = q)
      /\ deferred' = deferred
  BY ExitFacts
<1>2. /\ store' = store /\ created' = created /\ backoff' = backoff /\ context' = context
      /\ pending' = pending /\ commits' = commits /\ thread' = thread /\ eyes' = eyes
      /\ posted' = posted
  BY DEF review, discussion
<1>3. TypeOK'
  BY <1>1, <1>2 DEF IInv, TypeOK
<1>4. Queue' /\ \A m \in MR : OnReview(m)'
  BY <1>2 DEF IInv, Queue, OnReview, Once
<1>5. ASSUME NEW i \in Job
      PROVE  JobFine(i)'
  <2>1. jobLock'[i] = Chat <=> jobLock[i] = Chat
    BY <1>1, UpdateJobsAssumption
  <2>2. Committed(i)' <=> Committed(i)
    BY <1>2 DEF Committed
  <2> QED
    BY <1>2, <2>1, <2>2 DEF IInv, JobFine, NotYet, Told, Traced, True, Left
<1>6. ASSUME NEW q \in Child
      PROVE  ChildFine(q)'
  <2>1. CASE child'[q] = None
    BY <2>1 DEF ChildFine
  <2>2. CASE child'[q] # None
    <3>1. q # p /\ child'[q] = child[q]
      BY <1>1, <2>2
    <3>2. child[q].job \in Job /\ MrOf[child[q].job] \in MR
      BY <3>1, <2>2, UpdateJobsAssumption DEF IInv, TypeOK, Process
    <3>3. child[q].pc # "start" => Holds(q)
      BY <3>1, <2>2 DEF IInv, ChildFine
    <3>4. Holds(q) => Holds(q)'
      BY <1>1, <1>2, <3>1, <3>2 DEF Holds, Ahead, Knows, Committed
    <3> QED
      BY <3>1, <3>3, <3>4, <2>2, <1>2 DEF IInv, ChildFine
  <2> QED
    BY <2>1, <2>2
<1> QED
  BY <1>3, <1>4, <1>5, <1>6 DEF IInv

LEMMA NoneIsNil == \A f \in Followup : f # None
BY NoneAssumption

LEMMA RecoveredFacts ==
    ASSUME NEW j, NEW mem \in Checkpoint
    PROVE  LET next == Recovered(j, mem)
           IN  /\ next \in Checkpoint /\ next.done = mem.done
               /\ \/ next = mem /\ (mem.plan # None => ~Committed(j))
                  \/ mem.plan # None /\ Committed(j) /\ next.followup = "updated" /\ next.plan = None
                  \/ mem.plan # None /\ ~Committed(j) /\ next.followup = mem.followup /\ next.plan = None
<1>1. "updated" \in Followup
  BY DEF Followup
<1> QED
  BY <1>1 DEF Recovered, Checkpoint

\* A step of p in the affairs of j: what it may do to the review and to the thread.
Keeps(j) ==
    /\ created' = created /\ thread' = thread /\ backoff' \subseteq Job /\ eyes' \subseteq Job
    /\ posted' \in [Job -> Seq(Followup)] /\ context' \in [MR -> Nat]
    /\ pending' \in [MR -> Job \cup {None}] /\ commits' \in [MR -> Seq(Job)]
    /\ \A i \in Job : i # j => posted'[i] = posted[i] /\ (i \in eyes' <=> i \in eyes)
    /\ \A m \in MR : m # MrOf[j] => pending'[m] = pending[m] /\ commits'[m] = commits[m]
    /\ \A i \in Job : i # j => /\ Committed(i)' <=> Committed(i)
                               /\ pending'[MrOf[i]] = i => pending[MrOf[i]] = i
    /\ OnReview(MrOf[j])'

Saved(j, mem) ==
    /\ store' \in [Job -> Checkpoint \cup {None}]
    /\ store'[j] = mem /\ \A i \in Job : i # j => store'[i] = store[i]

Onward(p, j, pc, mem) ==
    /\ child' \in [Child -> Process \cup {None}]
    /\ child'[p] # None /\ child'[p].job = j /\ child'[p].pc = pc /\ child'[p].mem = mem
    /\ \A q \in Child : q # p => child'[q] = child[q]
    /\ jobLock' = jobLock /\ exec' = exec /\ active' = active /\ deferred' = deferred

\* p works on j, at pc, with mem as its checkpoint.
Works(p, j, pc, mem) ==
    /\ child[p] # None /\ child[p].job = j /\ child[p].mem = mem
    /\ j \in Job /\ j # None /\ MrOf[j] \in MR
    /\ mem \in Checkpoint /\ mem = store[j] /\ store[j] # None /\ ~mem.done
    /\ exec[MrOf[j]] = p /\ jobLock[j] = p /\ Alone(p, j)
    /\ Ahead(j) /\ Knows(j, pc, mem)
    /\ Told(j) /\ Traced(j) /\ True(j) /\ OnReview(MrOf[j])

LEMMA AtWorks ==
    ASSUME IInv, NEW p \in Child, NEW pc, pc # "start", At(p, pc),
           NEW j, NEW mem, j = child[p].job, mem = child[p].mem
    PROVE  Works(p, j, pc, mem)
BY AtFacts DEF Works, JobFine

LEMMA KeepsAll ==
    ASSUME IInv, NEW j \in Job, MrOf[j] \in MR, created' = created, backoff' \subseteq Job,
           UNCHANGED <<review, discussion>>
    PROVE  Keeps(j)
<1>1. /\ context' = context /\ pending' = pending /\ commits' = commits
      /\ thread' = thread /\ eyes' = eyes /\ posted' = posted
  BY DEF review, discussion
<1> QED
  BY <1>1 DEF Keeps, IInv, TypeOK, Committed, OnReview, Once

LEMMA Goes ==
    ASSUME IInv, NEW p \in Child, NEW j, NEW pc, NEW mem, Works(p, j, pc, mem),
           NEW to, to # "start", NEW next, ~next.done, next # None,
           Keeps(j), Saved(j, next), Onward(p, j, to, next),
           Told(j)', Traced(j)', True(j)', Knows(j, to, next)'
    PROVE  IInv'
<1>1. j \in Job /\ Alone(p, j) /\ store[j] # None /\ ~store[j].done /\ exec[MrOf[j]] = p /\ jobLock[j] = p
  BY DEF Works
<1>2. Only(p, j)
  BY <1>1 DEF Keeps, Saved, Onward, Only
<1>3. TypeOK'
  BY DEF Keeps, Saved, Onward, IInv, TypeOK
<1>4. JobFine(j)'
  BY DEF JobFine, Left, Saved
<1>5. Ahead(j)'
  BY <1>1, AheadStays DEF IInv, Works, Keeps, Saved
<1>6. ChildFine(p)'
  BY <1>1, <1>5 DEF ChildFine, Holds, Onward, Saved
<1> QED
  BY <1>1, <1>2, <1>3, <1>4, <1>6, StepOfOne DEF Keeps

LEMMA Ends ==
    ASSUME IInv, NEW p \in Child, NEW j, NEW pc, NEW mem, Works(p, j, pc, mem),
           NEW next, next # None, Keeps(j), Saved(j, next), Exit(p),
           Told(j)', Traced(j)', True(j)',
           next.done => /\ j \notin eyes' /\ pending'[MrOf[j]] # j
                        /\ thread'[j] = "open" => posted'[j] # <<>>
    PROVE  IInv'
<1>1. j \in Job /\ Alone(p, j) /\ store[j] # None /\ ~store[j].done /\ jobLock[j] = p
  BY DEF Works
<1>2. /\ child' \in [Child -> Process \cup {None}]
      /\ child'[p] = None /\ \A q \in Child : q # p => child'[q] = child[q]
      /\ jobLock' \in [Job -> Child \cup {None, Chat}]
      /\ exec' \in [MR -> Child \cup {None}] /\ active' \in [MR -> Child \cup {None}]
      /\ \A i \in Job : \A q \in Child \cup {Chat} : q # p => (jobLock'[i] = q <=> jobLock[i] = q)
      /\ \A m \in MR : \A q \in Child : q # p => (exec'[m] = q <=> exec[m] = q)
      /\ deferred' = deferred
      /\ ChildFine(p)'
  BY ExitFacts
<1>3. Only(p, j)
  BY <1>1, <1>2 DEF Keeps, Saved, Only
<1>4. TypeOK'
  BY <1>2 DEF Keeps, Saved, IInv, TypeOK
<1>5. jobLock'[j] # Chat
  BY <1>1, <1>2, UpdateJobsAssumption
<1>6. JobFine(j)'
  BY <1>5 DEF JobFine, Left, Saved
<1> QED
  BY <1>1, <1>2, <1>3, <1>4, <1>6, StepOfOne DEF Keeps

LEMMA GoOnward ==
    ASSUME IInv, NEW p \in Child, NEW j, NEW pc, NEW mem, Works(p, j, pc, mem),
           NEW to \in Pcs, NEW next \in Checkpoint, Go(p, to, next)
    PROVE  Onward(p, j, to, next)
BY GoFacts DEF Works, Onward

LEMMA SaveSaved ==
    ASSUME IInv, NEW p \in Child, NEW j, NEW pc, NEW mem, Works(p, j, pc, mem),
           NEW next \in Checkpoint, Save(p, next)
    PROVE  Saved(j, next) /\ next # None
BY SaveFacts DEF Works, Saved

LEMMA UnsavedSaved ==
    ASSUME IInv, NEW p \in Child, NEW j, NEW pc, NEW mem, Works(p, j, pc, mem), store' = store
    PROVE  Saved(j, mem)
BY DEF Works, Saved, IInv, TypeOK

\* While the review stays as it is.
LEMMA SameReview ==
    ASSUME NEW j \in Job, UNCHANGED review
    PROVE  /\ Committed(j)' <=> Committed(j)
           /\ pending'[MrOf[j]] = pending[MrOf[j]]
BY DEF review, Committed

LEMMA RecoverPlanInv ==
    ASSUME IInv, NEW p \in Child, RecoverPlan(p)
    PROVE  IInv'
<1>0. PICK j, mem, next : j = child[p].job /\ mem = child[p].mem /\ next = Recovered(j, mem)
  OBVIOUS
<1>1. At(p, "plan") /\ UNCHANGED <<created, backoff, review, discussion>>
  BY DEF RecoverPlan
<1>2. Works(p, j, "plan", mem) /\ j \in Job /\ mem \in Checkpoint
  BY <1>0, <1>1, AtWorks DEF Works
<1>3. /\ next \in Checkpoint /\ next.done = mem.done
      /\ \/ next = mem /\ (mem.plan # None => ~Committed(j))
         \/ mem.plan # None /\ Committed(j) /\ next.followup = "updated" /\ next.plan = None
         \/ mem.plan # None /\ ~Committed(j) /\ next.followup = mem.followup /\ next.plan = None
  BY <1>0, <1>2, RecoveredFacts
<1>4. "updated" # None
  BY NoneIsNil DEF Followup
<1>5. CASE Exit(p) /\ UNCHANGED store
  BY <1>1, <1>5, ExitOnly
<1>6. CASE Save(p, next) /\ Go(p, "thread", next)
  <2>1. Saved(j, next) /\ next # None /\ Onward(p, j, "thread", next)
    BY <1>2, <1>3, <1>6, SaveSaved, GoOnward DEF Pcs
  <2>2. Keeps(j)
    BY <1>1, <1>2, KeepsAll DEF Works, IInv, TypeOK
  <2>3. /\ Committed(j)' <=> Committed(j)
        /\ pending'[MrOf[j]] = pending[MrOf[j]] /\ posted' = posted /\ thread' = thread
    BY <1>1, <1>2, SameReview DEF discussion
  <2>4. Told(j)' /\ Traced(j)' /\ True(j)'
    BY <1>2, <1>3, <1>4, <2>1, <2>3 DEF Works, Saved, Told, Traced, True, Knows
  <2>5. Knows(j, "thread", next)'
    BY <1>2, <1>3, <1>4, <2>3 DEF Works, Traced, True, Knows, Deciding
  <2> QED
    BY <1>2, <1>3, <2>1, <2>2, <2>4, <2>5, Goes DEF Works
<1> QED
  BY <1>0, <1>5, <1>6 DEF RecoverPlan

\* A retry leaves what the next try needs to find out what this one did.
LEMMA RetryInv ==
    ASSUME IInv, NEW p \in Child, NEW j, NEW pc, NEW cur, Works(p, j, pc, cur),
           NEW mem \in Checkpoint, ~mem.done, mem.followup = None, cur.followup = None,
           NEW conflict \in BOOLEAN, conflict => mem.attempts >= 1 /\ mem.conflicts < MaxConflicts,
           Retry(p, mem, conflict), Keeps(j), posted' = posted,
           pending'[MrOf[j]] = j => ~Committed(j)' /\ ~conflict /\ mem.plan # None,
           Committed(j)' => ~conflict /\ mem.plan # None
    PROVE  IInv'
<1>1. child[p] # None /\ child[p].job = j
  BY DEF Works
<1>2. Exit(p) /\ backoff' = backoff \cup {j}
  BY <1>1, RetryFacts
<1>3. PICK next \in Checkpoint :
        /\ Save(p, next)
        /\ next.followup = mem.followup /\ next.done = mem.done
        /\ next.plan = IF conflict THEN None ELSE mem.plan
  BY <1>1, RetryFacts
<1>4. Saved(j, next) /\ next # None
  BY <1>3, SaveSaved
<1>5. posted'[j] = <<>>
  BY DEF Works, Told
<1>6. Told(j)' /\ Traced(j)' /\ True(j)'
  <2>1. "updated" # None
    BY NoneIsNil DEF Followup
  <2> QED
    BY <1>3, <1>4, <1>5, <2>1 DEF Told, Traced, True, Saved
<1> QED
  BY <1>2, <1>3, <1>4, <1>6, Ends

LEMMA CommitFacts ==
    ASSUME TypeOK, NEW m \in MR, NEW i \in Job, MrOf[i] = m, Commit(m, i),
           Once(commits[m]), ~Committed(i)
    PROVE  /\ commits' \in [MR -> Seq(Job)] /\ context' \in [MR -> Nat]
           /\ pending' \in [MR -> Job \cup {None}] /\ pending'[m] = None
           /\ \A k \in Job : Committed(k)' <=> (Committed(k) \/ k = i)
           /\ OnReview(m)'
           /\ \A n \in MR : n # m => pending'[n] = pending[n] /\ commits'[n] = commits[n]
<1> DEFINE s == commits[m]
           t == Append(s, i)
<1>1. s \in Seq(Job) /\ commits' = [commits EXCEPT ![m] = t]
  BY DEF TypeOK, Commit
<1>2. /\ t \in Seq(Job) /\ Len(t) = Len(s) + 1 /\ t[Len(s) + 1] = i
      /\ Len(s) \in Nat /\ \A k \in 1..Len(s) : t[k] = s[k]
  BY <1>1, AppendProperties, LenProperties
<1>3. \A k \in 1..Len(t) : k \in 1..Len(s) \/ k = Len(s) + 1
  BY <1>2
<1>4. \A k \in 1..Len(s) : s[k] # i
  BY DEF Committed
<1>5. commits'[m] = t /\ \A n \in MR : n # m => commits'[n] = commits[n]
  BY <1>1, <1>2 DEF TypeOK
<1>6. \A x : (\E k \in 1..Len(t) : t[k] = x) <=> ((\E k \in 1..Len(s) : s[k] = x) \/ x = i)
  <2>1. 1..Len(s) \subseteq 1..Len(t) /\ Len(s) + 1 \in 1..Len(t)
    BY <1>2
  <2> HIDE DEF s, t
  <2> QED
    BY <1>2, <1>3, <2>1
<1>7. Once(t)
  <2> HIDE DEF s, t
  <2>1. Once(s)
    BY DEF s
  <2> QED
    BY <2>1, <1>2, <1>3, <1>4 DEF Once
<1>8. \A k \in Job : Committed(k)' <=> (Committed(k) \/ k = i)
  <2> TAKE k \in Job
  <2>1. CASE MrOf[k] = m
    <3> HIDE DEF t
    <3>1. Committed(k)' <=> \E l \in 1..Len(t) : t[l] = k
      BY <1>5, <2>1 DEF Committed
    <3>2. Committed(k) <=> \E l \in 1..Len(s) : s[l] = k
      BY <2>1 DEF Committed
    <3> HIDE DEF s
    <3> QED
      BY <3>1, <3>2, <1>6
  <2>2. CASE MrOf[k] # m
    BY <2>2, <1>5, UpdateJobsAssumption DEF Committed
  <2> QED
    BY <2>1, <2>2
<1>9. commits' \in [MR -> Seq(Job)]
  BY <1>1, <1>2 DEF TypeOK
<1>10. /\ pending' \in [MR -> Job \cup {None}] /\ pending'[m] = None
       /\ \A n \in MR : n # m => pending'[n] = pending[n]
       /\ context' \in [MR -> Nat]
  BY DEF TypeOK, Commit
<1> HIDE DEF t
<1>11. OnReview(m)'
  BY <1>5, <1>7, <1>10 DEF OnReview, Once
<1> QED
  BY <1>5, <1>8, <1>9, <1>10, <1>11

LEMMA SuppressInv ==
    ASSUME IInv, NEW p \in Child, NEW j, NEW pc, NEW mem, Works(p, j, pc, mem),
           thread[j] = "muted", pending[MrOf[j]] = None, Suppress(p, mem),
           UNCHANGED <<created, review, thread, posted>>
    PROVE  IInv'
<1> DEFINE next == [mem EXCEPT !.done = TRUE]
<1>1. j \in Job /\ child[p].job = j
  BY DEF Works
<1>2. next \in Checkpoint /\ next.followup = mem.followup /\ next.plan = mem.plan
  BY DEF Works, Checkpoint
<1>3. Save(p, next) /\ Exit(p) /\ eyes' = eyes \ {j} /\ backoff' = backoff
  BY <1>1 DEF Suppress
<1> HIDE DEF next
<1>4. Saved(j, next) /\ next # None
  BY <1>2, <1>3, SaveSaved
<1>5. /\ Committed(j)' <=> Committed(j)
      /\ pending'[MrOf[j]] = pending[MrOf[j]] /\ posted' = posted /\ thread' = thread
  BY <1>1, SameReview
<1>6. Keeps(j)
  <2>1. /\ context' = context /\ pending' = pending /\ commits' = commits
    BY DEF review
  <2> QED
    BY <1>3, <2>1 DEF Works, Keeps, IInv, TypeOK, Committed, OnReview, Once
<1>7. Told(j)' /\ Traced(j)' /\ True(j)'
  BY <1>2, <1>4, <1>5 DEF Works, Saved, Told, Traced, True
<1>8. j \notin eyes' /\ thread'[j] # "open" /\ pending'[MrOf[j]] # j
  BY <1>3, <1>5, UpdateJobsAssumption DEF Works
<1> QED
  BY <1>3, <1>4, <1>6, <1>7, <1>8, Ends

LEMMA DecideInv ==
    ASSUME IInv, NEW p \in Child, Decide(p)
    PROVE  IInv'
<1>0. PICK j, mem, now, kept :
        /\ j = child[p].job /\ mem = child[p].mem /\ now = context[MrOf[j]]
        /\ kept = IF mem.plan # None /\ mem.plan.base = now THEN mem ELSE [mem EXCEPT !.plan = None]
  OBVIOUS
<1>1. At(p, "decide") /\ UNCHANGED <<created, review, thread, posted>>
  BY DEF Decide
<1>2. Works(p, j, "decide", mem) /\ j \in Job /\ mem \in Checkpoint /\ mem.followup = None
  BY <1>0, <1>1, AtWorks DEF Works, Knows, Deciding
<1>3. /\ pending[MrOf[j]] = None /\ ~Committed(j) /\ posted[j] = <<>>
      /\ mem.attempts >= 1 /\ mem.conflicts < MaxConflicts /\ ~mem.done
  BY <1>2 DEF Works, Knows, Deciding, Told
<1>4. /\ Committed(j)' <=> Committed(j)
      /\ pending'[MrOf[j]] = pending[MrOf[j]] /\ posted' = posted /\ thread' = thread
  BY <1>1, <1>2, SameReview
<1>5. CASE /\ Save(p, kept)
           /\ child' = [child EXCEPT ![p].pc = IF mem.plan # None /\ mem.plan.base = now
                                               THEN "publish" ELSE "evaluate",
                                     ![p].mem = kept, ![p].base = now]
           /\ Stay /\ UNCHANGED <<backoff, eyes, used>>
  <2> DEFINE to == IF mem.plan # None /\ mem.plan.base = now THEN "publish" ELSE "evaluate"
             c == [child[p] EXCEPT !.pc = to, !.mem = kept, !.base = now]
  <2>1. /\ kept \in Checkpoint /\ kept.followup = None /\ kept.done = mem.done
        /\ kept.attempts = mem.attempts /\ kept.conflicts = mem.conflicts
        /\ kept.plan \in {mem.plan, None}
        /\ to = "publish" => kept.plan # None
        /\ to = "evaluate" => kept.plan = None
    BY <1>0, <1>2 DEF Checkpoint
  <2>2. to \in {"publish", "evaluate"} /\ to \in Pcs
    BY DEF Pcs
  <2>3. Saved(j, kept) /\ kept # None
    BY <1>2, <1>5, <2>1, SaveSaved
  <2>4. Onward(p, j, to, kept)
    <3>1. child[p] \in Process /\ child[p].job = j /\ now \in Nat
      BY <1>0, <1>2 DEF IInv, TypeOK, Works
    <3>2. c \in Process /\ c.job = j /\ c.pc = to /\ c.mem = kept
      BY <3>1, <2>1, <2>2 DEF Process, Pcs
    <3>3. child' = [child EXCEPT ![p] = c]
      BY <1>5 DEF IInv, TypeOK
    <3>4. c # None
      BY <3>2, NoneAssumption
    <3>5. jobLock' = jobLock /\ exec' = exec /\ active' = active /\ deferred' = deferred
      BY <1>5 DEF Stay, worker
    <3> HIDE DEF c, to
    <3>6. /\ child' \in [Child -> Process \cup {None}] /\ child'[p] = c
          /\ \A q \in Child : q # p => child'[q] = child[q]
      BY <3>2, <3>3 DEF IInv, TypeOK
    <3> QED
      BY <3>2, <3>4, <3>5, <3>6 DEF Onward
  <2>5. Keeps(j)
    BY <1>1, <1>2, <1>5, KeepsAll DEF Works, IInv, TypeOK, discussion
  <2>6. Told(j)' /\ Traced(j)' /\ True(j)'
    <3>1. "updated" # None
      BY NoneIsNil DEF Followup
    <3> QED
      BY <1>2, <1>3, <1>4, <2>1, <2>3, <3>1 DEF Works, Saved, Told, Traced, True
  <2>7. Knows(j, to, kept)'
    <3> HIDE DEF to
    <3> QED
      BY <1>3, <1>4, <2>1, <2>2 DEF Knows, Deciding
  <2>8. to # "start" /\ ~kept.done
    BY <1>3, <2>1, <2>2
  <2> QED
    <3> HIDE DEF to
    <3> QED
      BY <1>2, <2>3, <2>4, <2>5, <2>6, <2>7, <2>8, Goes
<1>6. CASE thread[j] = "muted" /\ Suppress(p, mem)
  BY <1>0, <1>1, <1>2, <1>3, <1>6, SuppressInv
<1>7. CASE Retry(p, mem, FALSE) /\ UNCHANGED eyes
  <2>1. Keeps(j)
    <3>1. backoff' \subseteq Job
      BY <1>0, <1>2, <1>7 DEF Retry, IInv, TypeOK
    <3> QED
      BY <1>1, <1>2, <1>7, <3>1, KeepsAll DEF Works, discussion
  <2> QED
    BY <1>2, <1>3, <1>4, <1>7, <2>1, RetryInv DEF Works
<1> QED
  BY <1>0, <1>5, <1>6, <1>7 DEF Decide, MrOfChild

\* While it decides and stages, nobody was told and nothing is committed.
LEMMA Undecided ==
    ASSUME NEW p, NEW j, NEW pc \in Deciding, NEW mem, Works(p, j, pc, mem)
    PROVE  /\ mem.followup = None /\ ~Committed(j) /\ posted[j] = <<>>
           /\ mem.attempts >= 1 /\ mem.conflicts < MaxConflicts /\ ~mem.done
           /\ mem \in Checkpoint /\ j \in Job /\ j # None /\ MrOf[j] \in MR
BY DEF Works, Knows, Told, Deciding

\* A retry that left the review and the thread alone, or a conflict before the activation.
LEMMA RetryUnstaged ==
    ASSUME IInv, NEW p \in Child, NEW j, NEW pc \in Deciding, NEW cur, Works(p, j, pc, cur),
           NEW mem \in Checkpoint, ~mem.done, mem.followup = None,
           mem.plan # None \/ pending[MrOf[j]] # j,
           NEW conflict \in BOOLEAN, conflict => mem.attempts >= 1 /\ mem.conflicts < MaxConflicts,
           conflict => pending[MrOf[j]] # j,
           Retry(p, mem, conflict), UNCHANGED <<created, review, discussion>>
    PROVE  IInv'
<1>1. cur.followup = None /\ ~Committed(j) /\ j \in Job /\ MrOf[j] \in MR
  BY Undecided
<1>a. child[p].job = j
  BY DEF Works
<1>2. backoff' \subseteq Job
  BY <1>1, <1>a DEF Retry, IInv, TypeOK
<1>3. Keeps(j)
  BY <1>1, <1>2, KeepsAll
<1>4. /\ Committed(j)' <=> Committed(j)
      /\ pending'[MrOf[j]] = pending[MrOf[j]] /\ posted' = posted
  BY <1>1, SameReview DEF discussion
<1> QED
  BY <1>1, <1>3, <1>4, RetryInv

LEMMA EvaluateInv ==
    ASSUME IInv, NEW p \in Child, Evaluate(p)
    PROVE  IInv'
<1>0. PICK j, mem, planned, checked :
        /\ j = child[p].job /\ mem = child[p].mem
        /\ planned = [mem EXCEPT !.plan = [base |-> child[p].base, staged |-> FALSE]]
        /\ checked = [mem EXCEPT !.followup = "checked"]
  OBVIOUS
<1>1. At(p, "evaluate") /\ UNCHANGED <<created, review, discussion>>
  BY DEF Evaluate
<1>2. Works(p, j, "evaluate", mem)
  BY <1>0, <1>1, AtWorks
<1>3. /\ mem.followup = None /\ ~Committed(j) /\ posted[j] = <<>>
      /\ mem.attempts >= 1 /\ mem.conflicts < MaxConflicts /\ ~mem.done
      /\ mem \in Checkpoint /\ j \in Job /\ j # None /\ MrOf[j] \in MR
  BY <1>2, Undecided DEF Deciding
<1>4. pending[MrOf[j]] = None /\ mem.plan = None
  BY <1>2 DEF Works, Knows
<1>5. /\ Committed(j)' <=> Committed(j)
      /\ pending'[MrOf[j]] = pending[MrOf[j]] /\ posted' = posted /\ thread' = thread
  BY <1>1, <1>3, SameReview DEF discussion
<1>6. "updated" # None /\ "checked" # None /\ "checked" \in Followup
  BY NoneIsNil DEF Followup
<1>7. CASE Save(p, planned) /\ Go(p, "publish", planned) /\ UNCHANGED <<backoff, used>>
  <2>1. /\ planned \in Checkpoint /\ planned.followup = None /\ planned.plan # None
        /\ planned.done = mem.done /\ planned.attempts = mem.attempts
        /\ planned.conflicts = mem.conflicts
    <3>1. child[p].base \in Nat
      BY <1>2 DEF Works, IInv, TypeOK, Process
    <3> DEFINE plan == [base |-> child[p].base, staged |-> FALSE]
    <3>a. plan \in Plan
      BY <3>1 DEF Plan
    <3>2. plan \in Plan /\ plan # None
      BY <3>a, NoneAssumption
    <3>3. planned = [mem EXCEPT !.plan = plan]
      BY <1>0
    <3> HIDE DEF plan
    <3> QED
      BY <3>2, <3>3, <1>3 DEF Checkpoint
  <2>2. Saved(j, planned) /\ planned # None /\ Onward(p, j, "publish", planned)
    BY <1>2, <1>7, <2>1, SaveSaved, GoOnward DEF Pcs
  <2>3. Keeps(j)
    BY <1>1, <1>3, <1>7, KeepsAll DEF IInv, TypeOK
  <2>4. Told(j)' /\ Traced(j)' /\ True(j)'
    BY <1>3, <1>4, <1>5, <1>6, <2>1, <2>2 DEF Saved, Told, Traced, True
  <2>5. Knows(j, "publish", planned)'
    BY <1>3, <1>4, <1>5, <2>1 DEF Knows, Deciding
  <2> QED
    BY <1>2, <1>3, <2>1, <2>2, <2>3, <2>4, <2>5, Goes
<1>8. CASE Save(p, checked) /\ Go(p, "post", checked) /\ UNCHANGED <<backoff, used>>
  <2>1. /\ checked \in Checkpoint /\ checked.followup = "checked" /\ checked.plan = None
        /\ checked.done = mem.done
    BY <1>0, <1>3, <1>4, <1>6 DEF Checkpoint
  <2>2. Saved(j, checked) /\ checked # None /\ Onward(p, j, "post", checked)
    BY <1>2, <1>8, <2>1, SaveSaved, GoOnward DEF Pcs
  <2>3. Keeps(j)
    BY <1>1, <1>3, <1>8, KeepsAll DEF IInv, TypeOK
  <2>4. Told(j)' /\ Traced(j)' /\ True(j)'
    BY <1>3, <1>4, <1>5, <1>6, <2>1, <2>2 DEF Saved, Told, Traced, True
  <2>5. Knows(j, "post", checked)'
    BY <1>3, <1>4, <1>5, <1>6, <2>1 DEF Knows, Deciding
  <2> QED
    BY <1>2, <1>3, <2>1, <2>2, <2>3, <2>4, <2>5, Goes
<1>9. CASE Retry(p, mem, TRUE) \/ Retry(p, mem, FALSE)
  BY <1>1, <1>2, <1>3, <1>4, <1>9, RetryUnstaged DEF Deciding
<1> QED
  BY <1>0, <1>7, <1>8, <1>9 DEF Evaluate, MrOfChild

LEMMA PublishInv ==
    ASSUME IInv, NEW p \in Child, Publish(p)
    PROVE  IInv'
<1>0. PICK j, mem : j = child[p].job /\ mem = child[p].mem
  OBVIOUS
<1>1. At(p, "publish") /\ UNCHANGED <<created, thread, posted>>
  BY DEF Publish
<1>2. Works(p, j, "publish", mem)
  BY <1>0, <1>1, AtWorks
<1>3. /\ mem.followup = None /\ ~Committed(j) /\ posted[j] = <<>>
      /\ mem.attempts >= 1 /\ mem.conflicts < MaxConflicts /\ ~mem.done
      /\ mem \in Checkpoint /\ j \in Job /\ j # None /\ MrOf[j] \in MR
  BY <1>2, Undecided DEF Deciding
<1>4. pending[MrOf[j]] = None /\ mem.plan # None /\ OnReview(MrOf[j])
  BY <1>2 DEF Works, Knows
<1>5. "updated" # None
  BY NoneIsNil DEF Followup
<1>6. CASE (Retry(p, mem, TRUE) \/ Retry(p, mem, FALSE)) /\ UNCHANGED <<review, eyes>>
  <2>1. UNCHANGED <<created, review, discussion>>
    BY <1>1, <1>6 DEF discussion
  <2> QED
    BY <1>2, <1>3, <1>4, <1>6, <2>1, RetryUnstaged DEF Deciding
<1>7. CASE thread[j] = "muted" /\ Suppress(p, mem) /\ UNCHANGED review
  BY <1>1, <1>2, <1>4, <1>7, SuppressInv
<1>8. CASE /\ pending' = [pending EXCEPT ![MrOf[j]] = j] /\ UNCHANGED <<context, commits>>
           /\ \/ Go(p, "staged", mem) /\ UNCHANGED <<store, backoff, eyes>>
              \/ Retry(p, mem, FALSE) /\ UNCHANGED eyes
  <2>1. /\ pending' \in [MR -> Job \cup {None}] /\ pending'[MrOf[j]] = j
        /\ \A m \in MR : m # MrOf[j] => pending'[m] = pending[m]
    BY <1>3, <1>8 DEF IInv, TypeOK
  <2>2. \A i \in Job : Committed(i)' <=> Committed(i)
    BY <1>8 DEF Committed
  <2>3. backoff' \subseteq Job
    BY <1>0, <1>3, <1>8 DEF Retry, IInv, TypeOK
  <2>4. Keeps(j)
    <3>1. OnReview(MrOf[j])'
      BY <1>4, <1>8, <2>1 DEF OnReview, Once
    <3>2. \A i \in Job : i # j => (pending'[MrOf[i]] = i => pending[MrOf[i]] = i)
      BY <2>1, UpdateJobsAssumption
    <3> QED
      BY <1>1, <1>8, <2>1, <2>2, <2>3, <3>1, <3>2 DEF Keeps, IInv, TypeOK
  <2>5. CASE Go(p, "staged", mem) /\ store' = store
    <3>1. Saved(j, mem) /\ Onward(p, j, "staged", mem) /\ mem # None
      BY <1>2, <1>3, <2>5, UnsavedSaved, GoOnward, NoneAssumption DEF Pcs
    <3>2. Told(j)' /\ Traced(j)' /\ True(j)'
      BY <1>1, <1>3, <1>4, <1>5, <2>2, <3>1 DEF Saved, Told, Traced, True
    <3>3. Knows(j, "staged", mem)'
      BY <1>1, <1>3, <1>4, <2>1, <2>2 DEF Knows, Deciding
    <3> QED
      BY <1>2, <1>3, <2>4, <3>1, <3>2, <3>3, Goes
  <2>6. CASE Retry(p, mem, FALSE)
    BY <1>1, <1>2, <1>3, <1>4, <2>2, <2>4, <2>6, RetryInv
  <2> QED
    BY <1>8, <2>5, <2>6
<1> QED
  BY <1>0, <1>6, <1>7, <1>8 DEF Publish

LEMMA MarkStagedInv ==
    ASSUME IInv, NEW p \in Child, MarkStaged(p)
    PROVE  IInv'
<1>0. PICK j, cur, mem :
        j = child[p].job /\ cur = child[p].mem /\ mem = [cur EXCEPT !.plan.staged = TRUE]
  OBVIOUS
<1>1. At(p, "staged") /\ UNCHANGED <<created, review, discussion>>
  BY DEF MarkStaged
<1>2. Works(p, j, "staged", cur)
  BY <1>0, <1>1, AtWorks
<1>3. /\ cur.followup = None /\ ~Committed(j) /\ posted[j] = <<>>
      /\ cur.attempts >= 1 /\ cur.conflicts < MaxConflicts /\ ~cur.done
      /\ cur \in Checkpoint /\ j \in Job /\ j # None /\ MrOf[j] \in MR
  BY <1>2, Undecided DEF Deciding
<1>4. pending[MrOf[j]] = j /\ cur.plan # None
  BY <1>2 DEF Works, Knows
<1>5. /\ mem \in Checkpoint /\ mem.followup = None /\ mem.plan # None /\ ~mem.done
      /\ mem.attempts = cur.attempts /\ mem.conflicts = cur.conflicts
  <2>1. cur.plan \in Plan
    BY <1>3, <1>4 DEF Checkpoint
  <2> DEFINE plan == [cur.plan EXCEPT !.staged = TRUE]
  <2>2. plan \in Plan
    BY <2>1 DEF Plan
  <2>3. plan # None
    BY <2>2, NoneAssumption
  <2>4. mem = [cur EXCEPT !.plan = plan]
    BY <1>0
  <2> HIDE DEF plan
  <2> QED
    BY <2>2, <2>3, <2>4, <1>3 DEF Checkpoint
<1>6. /\ Committed(j)' <=> Committed(j)
      /\ pending'[MrOf[j]] = pending[MrOf[j]] /\ posted' = posted /\ thread' = thread
  BY <1>1, <1>3, SameReview DEF discussion
<1>7. "updated" # None
  BY NoneIsNil DEF Followup
<1>8. CASE Save(p, mem) /\ Go(p, "apply", mem) /\ UNCHANGED backoff
  <2>1. Saved(j, mem) /\ mem # None /\ Onward(p, j, "apply", mem)
    BY <1>2, <1>5, <1>8, SaveSaved, GoOnward DEF Pcs
  <2>2. Keeps(j)
    BY <1>1, <1>3, <1>8, KeepsAll DEF IInv, TypeOK
  <2>3. Told(j)' /\ Traced(j)' /\ True(j)'
    BY <1>3, <1>4, <1>5, <1>6, <1>7, <2>1 DEF Saved, Told, Traced, True
  <2>4. Knows(j, "apply", mem)'
    BY <1>3, <1>4, <1>5, <1>6 DEF Knows, Deciding
  <2> QED
    BY <1>2, <1>5, <2>1, <2>2, <2>3, <2>4, Goes
<1>9. CASE Retry(p, mem, FALSE)
  BY <1>1, <1>2, <1>5, <1>9, RetryUnstaged DEF Deciding
<1> QED
  BY <1>0, <1>8, <1>9 DEF MarkStaged

LEMMA ApplyInv ==
    ASSUME IInv, NEW p \in Child, Apply(p)
    PROVE  IInv'
<1>0. PICK j, mem : j = child[p].job /\ mem = child[p].mem
  OBVIOUS
<1>1. At(p, "apply") /\ UNCHANGED <<created, discussion>>
  BY DEF Apply
<1>2. Works(p, j, "apply", mem)
  BY <1>0, <1>1, AtWorks
<1>3. /\ mem.followup = None /\ ~Committed(j) /\ posted[j] = <<>>
      /\ mem.attempts >= 1 /\ mem.conflicts < MaxConflicts /\ ~mem.done
      /\ mem \in Checkpoint /\ j \in Job /\ j # None /\ MrOf[j] \in MR
  BY <1>2, Undecided DEF Deciding
<1>4. pending[MrOf[j]] = j /\ mem.plan # None /\ OnReview(MrOf[j])
  BY <1>2 DEF Works, Knows
<1>5. "updated" # None
  BY NoneIsNil DEF Followup
<1>6. posted' = posted /\ thread' = thread /\ eyes' = eyes /\ created' = created
  BY <1>1 DEF discussion
<1>7. CASE Retry(p, mem, FALSE) /\ UNCHANGED review
  BY <1>1, <1>2, <1>3, <1>4, <1>7, RetryUnstaged DEF Deciding
<1>8. ASSUME Commit(MrOf[j], j), backoff' \subseteq Job
      PROVE  /\ Committed(j)' /\ pending'[MrOf[j]] = None
             /\ Keeps(j)
  <2>1. Once(commits[MrOf[j]]) /\ TypeOK
    BY <1>4 DEF OnReview, IInv
  <2>2. /\ commits' \in [MR -> Seq(Job)] /\ context' \in [MR -> Nat]
        /\ pending' \in [MR -> Job \cup {None}] /\ pending'[MrOf[j]] = None
        /\ \A k \in Job : Committed(k)' <=> (Committed(k) \/ k = j)
        /\ OnReview(MrOf[j])'
        /\ \A n \in MR : n # MrOf[j] => pending'[n] = pending[n] /\ commits'[n] = commits[n]
    BY <1>3, <1>8, <2>1, CommitFacts
  <2>3. \A i \in Job : i # j => (pending'[MrOf[i]] = i => pending[MrOf[i]] = i)
    BY <2>2, UpdateJobsAssumption
  <2> QED
    BY <1>3, <1>6, <1>8, <2>2, <2>3 DEF Keeps, IInv, TypeOK
<1>9. CASE Commit(MrOf[j], j) /\ Go(p, "published", mem) /\ UNCHANGED <<store, backoff>>
  <2>1. Saved(j, mem) /\ Onward(p, j, "published", mem) /\ mem # None
    BY <1>2, <1>3, <1>9, UnsavedSaved, GoOnward, NoneAssumption DEF Pcs
  <2>2. Committed(j)' /\ pending'[MrOf[j]] = None /\ Keeps(j)
    BY <1>8, <1>9 DEF IInv, TypeOK
  <2>3. Told(j)' /\ Traced(j)' /\ True(j)'
    BY <1>3, <1>4, <1>5, <1>6, <2>1, <2>2 DEF Saved, Told, Traced, True
  <2>4. Knows(j, "published", mem)'
    BY <1>3, <1>4, <2>2 DEF Knows, Deciding
  <2> QED
    BY <1>2, <1>3, <2>1, <2>2, <2>3, <2>4, Goes
<1>10. CASE Commit(MrOf[j], j) /\ Retry(p, mem, FALSE)
  <2>1. backoff' \subseteq Job
    BY <1>0, <1>3, <1>10 DEF Retry, IInv, TypeOK
  <2>2. Committed(j)' /\ pending'[MrOf[j]] = None /\ Keeps(j)
    BY <1>8, <1>10, <2>1
  <2> QED
    BY <1>2, <1>3, <1>4, <1>6, <1>10, <2>2, RetryInv
<1> QED
  BY <1>0, <1>7, <1>9, <1>10 DEF Apply, MrOfChild

LEMMA PublishedInv ==
    ASSUME IInv, NEW p \in Child, Published(p)
    PROVE  IInv'
<1>0. PICK j, cur, mem :
        /\ j = child[p].job /\ cur = child[p].mem
        /\ mem = [cur EXCEPT !.followup = "updated", !.plan = None]
  OBVIOUS
<1>1. At(p, "published") /\ UNCHANGED <<created, review, discussion>>
  BY DEF Published
<1>2. Works(p, j, "published", cur)
  BY <1>0, <1>1, AtWorks
<1>3. /\ cur.followup = None /\ Committed(j) /\ posted[j] = <<>> /\ ~cur.done
      /\ pending[MrOf[j]] = None
      /\ cur \in Checkpoint /\ j \in Job /\ j # None /\ MrOf[j] \in MR
  BY <1>2 DEF Works, Knows, Told
<1>4. /\ Committed(j)' <=> Committed(j)
      /\ pending'[MrOf[j]] = pending[MrOf[j]] /\ posted' = posted /\ thread' = thread
  BY <1>1, <1>3, SameReview DEF discussion
<1>5. "updated" # None /\ "updated" \in Followup
  BY NoneIsNil DEF Followup
<1>6. mem \in Checkpoint /\ mem.followup = "updated" /\ mem.plan = None /\ ~mem.done
  BY <1>0, <1>3, <1>5 DEF Checkpoint
<1>7. backoff' \subseteq Job
  BY <1>0, <1>3 DEF Published, Retry, IInv, TypeOK
<1>8. Keeps(j)
  BY <1>1, <1>3, <1>7, KeepsAll
<1>9. CASE Save(p, mem) /\ Go(p, "post", mem)
  <2>1. Saved(j, mem) /\ mem # None /\ Onward(p, j, "post", mem)
    BY <1>2, <1>6, <1>9, SaveSaved, GoOnward DEF Pcs
  <2>2. Told(j)' /\ Traced(j)' /\ True(j)'
    BY <1>3, <1>4, <1>5, <1>6, <2>1 DEF Saved, Told, Traced, True
  <2>3. Knows(j, "post", mem)'
    BY <1>3, <1>4, <1>5, <1>6 DEF Knows, Deciding
  <2> QED
    BY <1>2, <1>6, <1>8, <2>1, <2>2, <2>3, Goes
\* It was not saved that the update is made; the follow-up of a retry is read from mem.
<1>10. CASE Retry(p, mem, FALSE)
  <2>1. Exit(p)
    BY <1>10 DEF Retry
  <2>2. Save(p, mem)
    BY <1>10 DEF Retry
  <2>3. Saved(j, mem) /\ mem # None
    BY <1>2, <1>6, <2>2, SaveSaved
  <2>4. Told(j)' /\ Traced(j)' /\ True(j)'
    BY <1>3, <1>4, <1>5, <1>6, <2>3 DEF Saved, Told, Traced, True
  <2> QED
    BY <1>2, <1>6, <1>8, <2>1, <2>3, <2>4, Ends
<1> QED
  BY <1>0, <1>9, <1>10 DEF Published

LEMMA PostInv ==
    ASSUME IInv, NEW p \in Child, Post(p)
    PROVE  IInv'
<1>0. PICK j, mem : j = child[p].job /\ mem = child[p].mem
  OBVIOUS
<1>1. At(p, "post") /\ UNCHANGED <<store, created, backoff, review, thread, eyes>>
  BY DEF Post
<1>2. Works(p, j, "post", mem)
  BY <1>0, <1>1, AtWorks
<1>3. /\ mem.followup # None /\ ~mem.done /\ pending[MrOf[j]] = None
      /\ mem \in Checkpoint /\ j \in Job /\ j # None /\ MrOf[j] \in MR
      /\ Told(j) /\ Traced(j) /\ True(j) /\ store[j] = mem
  BY <1>2 DEF Works, Knows
<1>4. /\ Committed(j)' <=> Committed(j)
      /\ pending'[MrOf[j]] = pending[MrOf[j]]
  BY <1>1, <1>3, SameReview
<1>5. Saved(j, mem) /\ mem # None
  BY <1>1, <1>2, <1>3, UnsavedSaved, NoneAssumption
<1> DEFINE Says == IF posted[j] = <<>> /\ thread[j] = "open"
                   THEN posted' = [posted EXCEPT ![j] = Append(@, mem.followup)]
                   ELSE UNCHANGED posted
<1>6. ASSUME Says \/ UNCHANGED posted
      PROVE  /\ Keeps(j)
             /\ Told(j)' /\ Traced(j)' /\ True(j)'
             /\ Says /\ thread'[j] = "open" => posted'[j] # <<>>
  <2>1. mem.followup \in Followup /\ posted \in [Job -> Seq(Followup)]
    BY <1>3 DEF Checkpoint, IInv, TypeOK
  <2>2. /\ posted' \in [Job -> Seq(Followup)]
        /\ \A i \in Job : i # j => posted'[i] = posted[i]
        /\ posted'[j] = posted[j] \/ posted'[j] = <<mem.followup>>
        /\ Says /\ thread[j] = "open" => posted'[j] # <<>>
    <3>1. CASE posted' = posted /\ ~(Says /\ posted[j] = <<>> /\ thread[j] = "open")
      BY <3>1, <2>1
    <3>2. CASE posted[j] = <<>> /\ posted' = [posted EXCEPT ![j] = Append(@, mem.followup)]
      <4>1. /\ Append(posted[j], mem.followup) = <<mem.followup>>
            /\ <<mem.followup>> \in Seq(Followup) /\ <<mem.followup>> # <<>>
        BY <3>2, <2>1
      <4> DEFINE said == <<mem.followup>>
      <4>2. posted' = [posted EXCEPT ![j] = said]
        BY <3>2, <2>1, <4>1
      <4>3. said \in Seq(Followup) /\ said # <<>>
        BY <4>1
      <4> HIDE DEF said
      <4>4. /\ posted' \in [Job -> Seq(Followup)] /\ posted'[j] = said
            /\ \A i \in Job : i # j => posted'[i] = posted[i]
        BY <4>2, <4>3, <2>1, <1>3
      <4> QED
        BY <4>3, <4>4 DEF said
    <3> QED
      BY <1>6, <3>1, <3>2
  <2>3. Keeps(j)
    <3>1. context' = context /\ pending' = pending /\ commits' = commits
      BY <1>1 DEF review
    <3> QED
      BY <1>1, <1>2, <2>2, <3>1 DEF Works, Keeps, IInv, TypeOK, Committed, OnReview, Once
  <2>4. Told(j)' /\ Traced(j)' /\ True(j)'
    BY <1>1, <1>3, <1>4, <2>2 DEF Told, Traced, True
  <2> QED
    BY <1>1, <2>2, <2>3, <2>4
<1>7. CASE Says /\ Go(p, "finish", mem)
  <2>1. Onward(p, j, "finish", mem)
    BY <1>2, <1>3, <1>7, GoOnward DEF Pcs
  <2>2. Knows(j, "finish", mem)'
    BY <1>3, <1>4, <1>6, <1>7 DEF Knows, Deciding
  <2> QED
    BY <1>2, <1>3, <1>5, <1>6, <1>7, <2>1, <2>2, Goes
<1>8. CASE (Says \/ UNCHANGED posted) /\ Exit(p)
  BY <1>2, <1>3, <1>5, <1>6, <1>8, Ends
<1> QED
  BY <1>0, <1>7, <1>8 DEF Post

LEMMA FinishInv ==
    ASSUME IInv, NEW p \in Child, Finish(p)
    PROVE  IInv'
<1>0. PICK j, mem, next :
        j = child[p].job /\ mem = child[p].mem /\ next = [mem EXCEPT !.done = TRUE]
  OBVIOUS
<1>1. At(p, "finish") /\ Exit(p) /\ UNCHANGED <<created, backoff, review, thread, posted>>
  BY DEF Finish
<1>2. Works(p, j, "finish", mem)
  BY <1>0, <1>1, AtWorks
<1>3. /\ mem.followup # None /\ ~mem.done /\ pending[MrOf[j]] = None
      /\ mem \in Checkpoint /\ j \in Job /\ j # None /\ MrOf[j] \in MR
      /\ Told(j) /\ Traced(j) /\ True(j) /\ store[j] = mem
      /\ thread[j] = "open" => posted[j] # <<>>
  BY <1>2 DEF Works, Knows
<1>4. /\ Committed(j)' <=> Committed(j)
      /\ pending'[MrOf[j]] = pending[MrOf[j]] /\ thread' = thread /\ posted' = posted
  BY <1>1, <1>3, SameReview
<1>5. next \in Checkpoint /\ next.followup = mem.followup /\ next.plan = mem.plan
  BY <1>0, <1>3 DEF Checkpoint
<1>6. ASSUME eyes' \in {eyes, eyes \ {j}}
      PROVE  Keeps(j)
  <2>1. context' = context /\ pending' = pending /\ commits' = commits
    BY <1>1 DEF review
  <2> QED
    BY <1>1, <1>2, <1>6, <2>1 DEF Works, Keeps, IInv, TypeOK, Committed, OnReview, Once
<1>7. CASE eyes' = eyes \ {j} /\ Save(p, next)
  <2>1. Saved(j, next) /\ next # None
    BY <1>2, <1>5, <1>7, SaveSaved
  <2>2. Told(j)' /\ Traced(j)' /\ True(j)'
    BY <1>3, <1>4, <1>5, <2>1 DEF Saved, Told, Traced, True
  <2>3. /\ j \notin eyes' /\ pending'[MrOf[j]] # j
        /\ thread'[j] = "open" => posted'[j] # <<>>
    BY <1>3, <1>4, <1>7
  <2> QED
    BY <1>1, <1>2, <1>6, <1>7, <2>1, <2>2, <2>3, Ends
<1>8. CASE eyes' \in {eyes, eyes \ {j}} /\ UNCHANGED store
  <2>1. Saved(j, mem) /\ mem # None
    BY <1>2, <1>3, <1>8, UnsavedSaved, NoneAssumption
  <2>2. Told(j)' /\ Traced(j)' /\ True(j)'
    BY <1>3, <1>4, <2>1 DEF Saved, Told, Traced, True
  <2> QED
    BY <1>1, <1>2, <1>3, <1>6, <1>8, <2>1, <2>2, Ends
<1> QED
  BY <1>0, <1>7, <1>8 DEF Finish

LEMMA ThreadInv ==
    ASSUME IInv, NEW p \in Child, Thread(p)
    PROVE  IInv'
<1>0. PICK j, mem, over, lost, next :
        /\ j = child[p].job /\ mem = child[p].mem
        /\ over = [mem EXCEPT !.plan = None, !.done = TRUE]
        /\ lost = [mem EXCEPT !.plan = None,
                              !.followup = IF mem.conflicts >= MaxConflicts THEN "conflicted"
                                           ELSE "failed"]
        /\ next = [mem EXCEPT !.attempts = @ + 1]
  OBVIOUS
<1>1. At(p, "thread") /\ UNCHANGED <<created, backoff, review, thread, posted>>
  BY DEF Thread
<1>2. Works(p, j, "thread", mem)
  BY <1>0, <1>1, AtWorks
<1>3. /\ ~mem.done /\ pending[MrOf[j]] = None
      /\ mem \in Checkpoint /\ j \in Job /\ j # None /\ MrOf[j] \in MR
      /\ Told(j) /\ Traced(j) /\ True(j) /\ store[j] = mem
      /\ mem.followup = None => ~Committed(j) /\ posted[j] = <<>>
  BY <1>2 DEF Works, Knows, Told
<1>4. /\ Committed(j)' <=> Committed(j)
      /\ pending'[MrOf[j]] = pending[MrOf[j]] /\ thread' = thread /\ posted' = posted
  BY <1>1, <1>3, SameReview
<1>5. ASSUME eyes' \in {eyes, eyes \ {j}, eyes \cup {j}}
      PROVE  Keeps(j)
  <2>1. context' = context /\ pending' = pending /\ commits' = commits
    BY <1>1 DEF review
  <2> QED
    BY <1>1, <1>2, <1>5, <2>1 DEF Works, Keeps, IInv, TypeOK, Committed, OnReview, Once
<1>6. /\ "updated" # None /\ {"failed", "conflicted"} \subseteq Followup
      /\ "failed" # None /\ "conflicted" # None
  BY NoneIsNil DEF Followup
<1>7. CASE thread[j] = "deleted" /\ eyes' = eyes \ {j} /\ Save(p, over) /\ Exit(p)
  <2>1. over \in Checkpoint /\ over.followup = mem.followup /\ over.plan = None /\ over.done
    BY <1>0, <1>3 DEF Checkpoint
  <2>2. Saved(j, over) /\ over # None
    BY <1>2, <1>7, <2>1, SaveSaved
  <2>3. Told(j)' /\ Traced(j)' /\ True(j)'
    BY <1>3, <1>4, <1>6, <2>1, <2>2 DEF Saved, Told, Traced, True
  <2> QED
    BY <1>2, <1>3, <1>4, <1>5, <1>7, <2>2, <2>3, Ends
<1>8. CASE mem.followup # None /\ Go(p, "post", mem) /\ UNCHANGED <<store, eyes>>
  <2>1. Saved(j, mem) /\ Onward(p, j, "post", mem) /\ mem # None
    BY <1>2, <1>3, <1>8, UnsavedSaved, GoOnward, NoneAssumption DEF Pcs
  <2>2. Told(j)' /\ Traced(j)' /\ True(j)'
    BY <1>3, <1>4, <2>1 DEF Saved, Told, Traced, True
  <2>3. Knows(j, "post", mem)'
    BY <1>3, <1>4, <1>8 DEF Knows, Deciding
  <2> QED
    BY <1>2, <1>3, <1>5, <1>8, <2>1, <2>2, <2>3, Goes
<1>9. CASE mem.followup = None /\ eyes' = eyes \cup {j} /\ Save(p, lost) /\ Go(p, "post", lost)
  <2>1. /\ lost \in Checkpoint /\ lost.followup \in {"failed", "conflicted"} /\ lost.plan = None
        /\ ~lost.done
    BY <1>0, <1>3, <1>6 DEF Checkpoint
  <2>2. Saved(j, lost) /\ lost # None /\ Onward(p, j, "post", lost)
    BY <1>2, <1>9, <2>1, SaveSaved, GoOnward DEF Pcs
  <2>3. Told(j)' /\ Traced(j)' /\ True(j)'
    BY <1>3, <1>4, <1>6, <1>9, <2>1, <2>2 DEF Saved, Told, Traced, True
  <2>4. Knows(j, "post", lost)'
    BY <1>3, <1>4, <1>6, <2>1 DEF Knows, Deciding
  <2> QED
    BY <1>2, <1>5, <1>9, <2>1, <2>2, <2>3, <2>4, Goes
<1>10. CASE /\ mem.followup = None /\ ~Spent(mem)
            /\ eyes' = eyes \cup {j} /\ Save(p, next) /\ Go(p, "decide", next)
  <2>1. /\ next \in Checkpoint /\ next.followup = None /\ next.plan = mem.plan /\ ~next.done
        /\ next.attempts >= 1 /\ next.conflicts < MaxConflicts
    <3>1. /\ mem.attempts \in 0..MaxAttempts /\ mem.conflicts \in 0..MaxConflicts
          /\ MaxAttempts \in Nat /\ MaxConflicts \in Nat
      BY <1>3, UpdateJobsAssumption DEF Checkpoint
    <3>2. mem.attempts < MaxAttempts /\ mem.conflicts < MaxConflicts
      BY <1>10, <3>1 DEF Spent
    <3>3. mem.attempts + 1 \in 0..MaxAttempts /\ mem.attempts + 1 >= 1
      BY <3>1, <3>2
    <3> QED
      BY <1>0, <1>3, <1>10, <3>2, <3>3 DEF Checkpoint
  <2>2. Saved(j, next) /\ next # None /\ Onward(p, j, "decide", next)
    BY <1>2, <1>10, <2>1, SaveSaved, GoOnward DEF Pcs
  <2>3. Told(j)' /\ Traced(j)' /\ True(j)'
    BY <1>3, <1>4, <1>6, <1>10, <2>1, <2>2 DEF Saved, Told, Traced, True
  <2>4. Knows(j, "decide", next)'
    BY <1>3, <1>4, <1>10, <2>1 DEF Knows, Deciding
  <2> QED
    BY <1>2, <1>5, <1>10, <2>1, <2>2, <2>3, <2>4, Goes
<1>11. CASE eyes' \in {eyes, eyes \ {j}, eyes \cup {j}} /\ Exit(p) /\ UNCHANGED store
  <2>1. Saved(j, mem) /\ mem # None
    BY <1>2, <1>3, <1>11, UnsavedSaved, NoneAssumption
  <2>2. Told(j)' /\ Traced(j)' /\ True(j)'
    BY <1>3, <1>4, <2>1 DEF Saved, Told, Traced, True
  <2> QED
    BY <1>1, <1>2, <1>3, <1>4, <1>5, <1>11, <2>1, <2>2, Ends
<1> QED
  <2>1. PICK shown : shown = CASE thread[j] = "deleted" -> eyes \ {j}
                               [] thread[j] # "deleted" /\ mem.followup = None -> eyes \cup {j}
                               [] OTHER -> eyes
    OBVIOUS
  <2>2. /\ thread[j] = "deleted" => shown = eyes \ {j}
        /\ thread[j] # "deleted" /\ mem.followup = None => shown = eyes \cup {j}
        /\ thread[j] # "deleted" /\ mem.followup # None => shown = eyes
    BY <2>1
  <2>3. \/ /\ eyes' = shown
           /\ \/ thread[j] = "deleted" /\ Save(p, over) /\ Exit(p)
              \/ /\ thread[j] # "deleted" /\ mem.followup # None
                 /\ Go(p, "post", mem) /\ UNCHANGED store
              \/ /\ thread[j] # "deleted" /\ mem.followup = None
                 /\ Save(p, lost) /\ Go(p, "post", lost)
              \/ /\ thread[j] # "deleted" /\ mem.followup = None /\ ~Spent(mem)
                 /\ Save(p, next) /\ Go(p, "decide", next)
        \/ eyes' \in {eyes, shown} /\ Exit(p) /\ UNCHANGED store
    BY <1>0, <2>1 DEF Thread
  <2> QED
    BY <2>2, <2>3, <1>7, <1>8, <1>9, <1>10, <1>11

\* What is activated and gets committed has its plan on disk and was told to nobody.
LEMMA CommitPending ==
    ASSUME IInv, NEW m \in MR, pending[m] # None, Commit(m, pending[m]),
           UNCHANGED <<store, discussion>>,
           \A k \in Job : jobLock'[k] = Chat <=> jobLock[k] = Chat
    PROVE  /\ commits' \in [MR -> Seq(Job)] /\ context' \in [MR -> Nat]
           /\ pending' \in [MR -> Job \cup {None}] /\ pending'[m] = None
           /\ \A n \in MR : n # m => pending'[n] = pending[n] /\ commits'[n] = commits[n]
           /\ \A n \in MR : OnReview(n)'
           /\ \A k \in Job : JobFine(k)'
<1>0. PICK i : i = pending[m]
  OBVIOUS
<1>1. i \in Job /\ MrOf[i] = m /\ Once(commits[m]) /\ TypeOK
  BY <1>0 DEF IInv, TypeOK, OnReview
<1>2. JobFine(i) /\ store[i] # None
  BY <1>0, <1>1 DEF IInv, JobFine, NotYet
<1>3. /\ store[i].plan # None /\ ~Committed(i)
      /\ store[i].followup = None /\ posted[i] = <<>>
  BY <1>0, <1>1, <1>2 DEF JobFine, Traced, True, Told
<1>4. /\ commits' \in [MR -> Seq(Job)] /\ context' \in [MR -> Nat]
      /\ pending' \in [MR -> Job \cup {None}] /\ pending'[m] = None
      /\ \A k \in Job : Committed(k)' <=> (Committed(k) \/ k = i)
      /\ OnReview(m)'
      /\ \A n \in MR : n # m => pending'[n] = pending[n] /\ commits'[n] = commits[n]
  BY <1>0, <1>1, <1>3, CommitFacts
<1>5. ASSUME NEW n \in MR
      PROVE  OnReview(n)'
  BY <1>4 DEF IInv, OnReview, Once
<1>6. store' = store /\ thread' = thread /\ eyes' = eyes /\ posted' = posted
  BY DEF discussion
<1>7. ASSUME NEW k \in Job, k # i
      PROVE  JobFine(k)'
  <2>1. Committed(k)' <=> Committed(k)
    BY <1>4, <1>7
  <2>2. pending'[MrOf[k]] = k => pending[MrOf[k]] = k
    BY <1>4, <1>7, UpdateJobsAssumption
  <2>3. JobFine(k)
    BY DEF IInv
  <2> QED
    BY <1>6, <2>1, <2>2, <2>3 DEF JobFine, NotYet, Told, Traced, True, Left
<1>8. JobFine(i)'
  <2>1. Committed(i)' /\ pending'[MrOf[i]] # i
    BY <1>1, <1>4, UpdateJobsAssumption
  <2>2. "updated" # None
    BY NoneIsNil DEF Followup
  <2> QED
    BY <1>1, <1>2, <1>3, <1>6, <2>1, <2>2 DEF JobFine, Told, Traced, True, Left
<1> QED
  BY <1>4, <1>5, <1>7, <1>8

LEMMA RecoverInv ==
    ASSUME IInv, NEW p \in Child, Recover(p)
    PROVE  IInv'
<1>0. PICK j, mem : j = child[p].job /\ mem = child[p].mem
  OBVIOUS
<1>1. At(p, "recover") /\ UNCHANGED <<store, created, backoff, discussion>>
  BY DEF Recover
<1>2. Works(p, j, "recover", mem)
  BY <1>0, <1>1, AtWorks
<1>3. /\ ~mem.done /\ mem \in Checkpoint /\ j \in Job /\ j # None /\ MrOf[j] \in MR
      /\ store[j] # None /\ store[j] = mem /\ Alone(p, j)
      /\ exec[MrOf[j]] = p /\ jobLock[j] = p /\ Ahead(j)
      /\ Told(j) /\ Traced(j) /\ True(j)
  BY <1>2 DEF Works
<1>4. CASE pending[MrOf[j]] = None /\ UNCHANGED review /\ Go(p, "plan", mem)
  <2>1. Saved(j, mem) /\ Onward(p, j, "plan", mem) /\ mem # None
    BY <1>1, <1>2, <1>3, <1>4, UnsavedSaved, GoOnward, NoneAssumption DEF Pcs
  <2>2. Keeps(j)
    BY <1>1, <1>3, <1>4, KeepsAll DEF IInv, TypeOK
  <2>3. /\ Committed(j)' <=> Committed(j)
        /\ pending'[MrOf[j]] = pending[MrOf[j]] /\ posted' = posted
    BY <1>1, <1>3, <1>4, SameReview DEF discussion
  <2>4. Told(j)' /\ Traced(j)' /\ True(j)'
    BY <1>1, <1>3, <2>3 DEF Told, Traced, True
  <2>5. Knows(j, "plan", mem)'
    BY <1>4, <2>3 DEF Knows, Deciding
  <2> QED
    BY <1>2, <1>3, <2>1, <2>2, <2>4, <2>5, Goes
<1>5. CASE UNCHANGED review /\ Exit(p)
  BY <1>1, <1>5, ExitOnly
<1>6. CASE /\ pending[MrOf[j]] # None /\ Commit(MrOf[j], pending[MrOf[j]])
           /\ Go(p, "plan", mem) \/ Exit(p)
  <2>1. Go(p, "plan", mem) => Onward(p, j, "plan", mem)
    BY <1>2, <1>3, GoOnward DEF Pcs
  <2>2. /\ child' \in [Child -> Process \cup {None}]
        /\ \A q \in Child : q # p => child'[q] = child[q]
        /\ jobLock' \in [Job -> Child \cup {None, Chat}]
        /\ exec' \in [MR -> Child \cup {None}] /\ active' \in [MR -> Child \cup {None}]
        /\ \A i \in Job : \A q \in Child \cup {Chat} : q # p => (jobLock'[i] = q <=> jobLock[i] = q)
        /\ \A m \in MR : \A q \in Child : q # p => (exec'[m] = q <=> exec[m] = q)
        /\ deferred' = deferred
    <3>1. CASE Go(p, "plan", mem)
      BY <2>1, <3>1 DEF Onward, IInv, TypeOK
    <3>2. CASE Exit(p)
      BY <3>2, ExitFacts
    <3> QED
      BY <1>6, <3>1, <3>2
  <2>3. \A k \in Job : jobLock'[k] = Chat <=> jobLock[k] = Chat
    BY <2>2, UpdateJobsAssumption
  <2>4. UNCHANGED <<store, discussion>>
    BY <1>1
  <2>5. /\ commits' \in [MR -> Seq(Job)] /\ context' \in [MR -> Nat]
        /\ pending' \in [MR -> Job \cup {None}] /\ pending'[MrOf[j]] = None
        /\ \A n \in MR : n # MrOf[j] => pending'[n] = pending[n] /\ commits'[n] = commits[n]
        /\ \A n \in MR : OnReview(n)'
        /\ \A k \in Job : JobFine(k)'
    BY <1>3, <1>6, <2>3, <2>4, CommitPending
  <2>6. Only(p, j)
    BY <1>1, <1>3, <2>2, <2>5 DEF Only, discussion
  <2>7. TypeOK'
    BY <1>1, <2>2, <2>5 DEF IInv, TypeOK, discussion
  <2>8. ChildFine(p)'
    <3>1. CASE Exit(p)
      BY <3>1, ExitFacts
    <3>2. CASE Go(p, "plan", mem)
      <4>1. Onward(p, j, "plan", mem)
        BY <2>1, <3>2
      <4>2. Knows(j, "plan", mem)'
        BY <2>5 DEF Knows, Deciding
      <4>3. Ahead(j)'
        BY <1>1, <1>3 DEF Ahead
      <4> QED
        BY <1>1, <1>3, <4>1, <4>2, <4>3 DEF ChildFine, Holds, Onward
    <3> QED
      BY <1>6, <3>1, <3>2
  <2>9. ASSUME NEW q \in Child
        PROVE  ChildFine(q)'
    BY <1>3, <2>6, <2>8, OtherChildren
  <2> QED
    BY <1>3, <2>5, <2>6, <2>7, <2>9, QueueStays DEF IInv
<1> QED
  BY <1>0, <1>4, <1>5, <1>6 DEF Recover, RecoverPending, MrOfChild

LEMMA StartInv ==
    ASSUME IInv, NEW p \in Child, Start(p)
    PROVE  IInv'
<1>0. PICK j : j = child[p].job
  OBVIOUS
<1>1. /\ child[p] # None /\ child[p] \in Process /\ child[p].pc = "start"
      /\ UNCHANGED <<store, created, backoff, review, discussion>>
  BY DEF Start, At, IInv, TypeOK
<1>2. j \in Job /\ MrOf[j] \in MR /\ store[j] # None /\ store[j] \in Checkpoint
  BY <1>0, <1>1, UpdateJobsAssumption DEF Process, IInv, ChildFine, TypeOK
<1>3. CASE Exit(p)
  BY <1>1, <1>3, ExitOnly
<1>4. CASE /\ exec[MrOf[j]] = None /\ jobLock[j] = None /\ ~store[j].done /\ Oldest(j)
           /\ exec' = [exec EXCEPT ![MrOf[j]] = p] /\ jobLock' = [jobLock EXCEPT ![j] = p]
           /\ child' = [child EXCEPT ![p].pc = "recover", ![p].mem = store[j]]
           /\ UNCHANGED worker
  <2>1. Alone(p, j)
    BY <1>2, <1>4, UpdateJobsAssumption DEF Alone, Working, MrOfChild, IInv, ChildFine, Holds
  <2>2. Ahead(j)
    <3>1. PICK n \in Unfinished(MrOf[j]) : created[n] = j /\ \A k \in Unfinished(MrOf[j]) : n <= k
      BY <1>4 DEF Oldest
    <3>2. n \in 1..Len(created)
      BY <3>1 DEF Unfinished
    <3> SUFFICES ASSUME NEW i \in 1..Len(created), NEW k \in 1..Len(created), i < k,
                        created[k] = j, MrOf[created[i]] = MrOf[j], ~store[created[i]].done
                 PROVE  FALSE
      BY DEF Ahead
    <3>3. k = n
      BY <3>1, <3>2 DEF IInv, Queue
    <3>4. n <= i
      BY <3>1 DEF Unfinished
    <3> QED
      BY <3>2, <3>3, <3>4
  <2> DEFINE c == [child[p] EXCEPT !.pc = "recover", !.mem = store[j]]
  <2>3. c \in Process /\ c.job = j /\ c.pc = "recover" /\ c.mem = store[j]
    BY <1>0, <1>1, <1>2 DEF Process
  <2>4. c # None
    BY <2>3, NoneAssumption
  <2>5. child' = [child EXCEPT ![p] = c]
    BY <1>4 DEF IInv, TypeOK
  <2> HIDE DEF c
  <2>6. /\ child' \in [Child -> Process \cup {None}] /\ child'[p] = c
        /\ \A q \in Child : q # p => child'[q] = child[q]
    BY <2>3, <2>5 DEF IInv, TypeOK
  <2>7. /\ jobLock' \in [Job -> Child \cup {None, Chat}] /\ jobLock'[j] = p
        /\ exec' \in [MR -> Child \cup {None}] /\ exec'[MrOf[j]] = p
        /\ active' = active /\ deferred' = deferred
    BY <1>2, <1>4 DEF IInv, TypeOK, worker
  <2>8. /\ \A i \in Job : \A q \in Child \cup {Chat} : q # p => (jobLock'[i] = q <=> jobLock[i] = q)
        /\ \A m \in MR : \A q \in Child : q # p => (exec'[m] = q <=> exec[m] = q)
    BY <1>2, <1>4, UpdateJobsAssumption DEF IInv, TypeOK
  <2>9. /\ context' = context /\ pending' = pending /\ commits' = commits
        /\ thread' = thread /\ eyes' = eyes /\ posted' = posted
        /\ store' = store /\ created' = created /\ backoff' = backoff
    BY <1>1 DEF review, discussion
  <2>10. Only(p, j)
    BY <1>2, <2>6, <2>8, <2>9 DEF Only
  <2>11. TypeOK'
    BY <2>6, <2>7, <2>9 DEF IInv, TypeOK
  <2>12. \A i \in Job : /\ Committed(i)' <=> Committed(i)
                        /\ pending'[MrOf[i]] = i => pending[MrOf[i]] = i
    BY <2>9 DEF Committed
  <2>13. OnReview(MrOf[j])'
    BY <1>2, <2>9 DEF IInv, OnReview, Once
  <2>14. JobFine(j)'
    <3>1. JobFine(j)
      BY <1>2 DEF IInv
    <3> QED
      BY <1>2, <1>4, <2>9, <2>12, <3>1 DEF JobFine, Told, Traced, True, Left
  <2>15. ChildFine(p)'
    <3>1. Ahead(j)'
      BY <2>2, <2>9 DEF Ahead
    <3>2. Knows(j, "recover", store[j])'
      BY DEF Knows, Deciding
    <3> QED
      BY <1>2, <1>4, <2>3, <2>6, <2>7, <2>9, <3>1, <3>2 DEF ChildFine, Holds
  <2> QED
    BY <1>2, <2>1, <2>10, <2>11, <2>12, <2>13, <2>14, <2>15, StepOfOne
<1> QED
  BY <1>0, <1>3, <1>4 DEF Start

LEMMA ChildStepInv ==
    ASSUME IInv, NEW p \in Child, ChildStep(p)
    PROVE  IInv'
BY StartInv, RecoverInv, RecoverPlanInv, ThreadInv, DecideInv, EvaluateInv, PublishInv,
   MarkStagedInv, ApplyInv, PublishedInv, PostInv, FinishInv DEF ChildStep

-----------------------------------------------------------------------------
(* The other steps.                                                        *)

\* What leaves the checkpoints, the locks and the review alone.
LEMMA Aside ==
    ASSUME IInv, TypeOK',
           UNCHANGED <<store, created, jobLock, exec, pending, commits, eyes, posted>>,
           \A i \in Job : thread'[i] = "open" => thread[i] = "open",
           NEW P \in SUBSET Child, \A q \in Child \ P : child'[q] = child[q],
           \A q \in P : child'[q] # None /\ child'[q].pc = "start" /\ store[child'[q].job] # None
    PROVE  IInv'
<1>1. \A i \in Job : Committed(i)' <=> Committed(i)
  BY DEF Committed
<1>2. Queue' /\ \A m \in MR : OnReview(m)'
  BY DEF IInv, Queue, OnReview, Once
<1>3. ASSUME NEW i \in Job
      PROVE  JobFine(i)'
  BY <1>1 DEF IInv, JobFine, NotYet, Told, Traced, True, Left
<1>4. ASSUME NEW q \in Child \ P
      PROVE  ChildFine(q)'
  <2> SUFFICES ASSUME child[q] # None, child[q].pc # "start"
               PROVE  Holds(q)'
    BY <1>4 DEF IInv, ChildFine
  <2>1. child[q].job \in Job
    BY DEF IInv, TypeOK, Process
  <2>2. Holds(q) /\ child'[q] = child[q]
    BY DEF IInv, ChildFine
  <2>3. Knows(child[q].job, child[q].pc, store[child[q].job])'
    BY <1>1, <2>1, <2>2 DEF Holds, Knows
  <2> QED
    BY <2>2, <2>3 DEF Holds, Ahead
<1>5. ASSUME NEW q \in P
      PROVE  ChildFine(q)'
  BY <1>5 DEF ChildFine
<1> QED
  BY <1>2, <1>3, <1>4, <1>5 DEF IInv

LEMMA LaunchInv ==
    ASSUME IInv, NEW m \in MR, Launch(m)
    PROVE  IInv'
<1>1. PICK j \in Job :
        /\ Oldest(j)
        /\ \E p \in Child : child[p] = None
        /\ LET p == CHOOSE q \in Child : child[q] = None IN
              /\ child' = [child EXCEPT ![p] = [job |-> j, pc |-> "start", mem |-> None, base |-> 0]]
              /\ active' = [active EXCEPT ![m] = p]
        /\ deferred' = deferred \cup {j}
  BY DEF Launch
<1>2. /\ UNCHANGED <<store, created, backoff, jobLock, exec, context, pending, commits>>
      /\ UNCHANGED <<thread, eyes, posted>>
  BY DEF Launch, review, discussion
<1>3. store[j] # None
  BY <1>1 DEF Oldest, Unfinished, IInv, Queue
<1> DEFINE p == CHOOSE q \in Child : child[q] = None
           c == [job |-> j, pc |-> "start", mem |-> None, base |-> 0]
<1>4. p \in Child
  BY <1>1
<1>5. c \in Process /\ c.job = j /\ c.pc = "start"
  BY DEF Process
<1>6. c # None
  BY <1>5, NoneAssumption
<1>7. child' = [child EXCEPT ![p] = c] /\ active' = [active EXCEPT ![m] = p]
  BY <1>1
<1>8. PICK n : n = p
  OBVIOUS
<1> HIDE DEF p, c
<1>9. /\ child' \in [Child -> Process \cup {None}] /\ child'[n] = c
      /\ \A q \in Child \ {n} : child'[q] = child[q]
      /\ active' \in [MR -> Child \cup {None}]
  BY <1>4, <1>5, <1>7, <1>8 DEF IInv, TypeOK
<1>10. TypeOK'
  BY <1>1, <1>2, <1>9 DEF IInv, TypeOK
<1>11. /\ {n} \in SUBSET Child
       /\ \A q \in {n} : child'[q] # None /\ child'[q].pc = "start" /\ store[child'[q].job] # None
  BY <1>3, <1>4, <1>5, <1>6, <1>8, <1>9
<1>12. /\ UNCHANGED <<store, created, jobLock, exec, pending, commits, eyes, posted>>
       /\ \A i \in Job : thread'[i] = "open" => thread[i] = "open"
       /\ \A q \in Child \ {n} : child'[q] = child[q]
  BY <1>2, <1>9
<1> QED
  BY <1>10, <1>11, <1>12, Aside

\* Tick, DaemonDies, BackoffEnds, Moves, ThreadCloses, and a step that changes nothing.
LEMMA AsideInv ==
    ASSUME IInv,
           \/ Tick \/ DaemonDies \/ UNCHANGED vars
           \/ \E j \in Job : BackoffEnds(j) \/ ThreadCloses(j)
           \/ \E m \in MR : Moves(m)
    PROVE  IInv'
<1> DEFINE Quiet == /\ UNCHANGED <<store, created, jobLock, exec, child>>
                    /\ UNCHANGED <<pending, commits, eyes, posted>>
                    /\ thread' \in [Job -> {"open", "muted", "deleted"}]
                    /\ \A i \in Job : thread'[i] = "open" => thread[i] = "open"
                    /\ context' \in [MR -> Nat] /\ active' \in [MR -> Child \cup {None}]
                    /\ backoff' \subseteq Job /\ deferred' \subseteq Job
<1>1. TypeOK
  BY DEF IInv
<1>2. Quiet
  <2>1. CASE Tick
    BY <1>1, <2>1 DEF Tick, TypeOK, review, discussion
  <2>2. CASE DaemonDies
    BY <1>1, <2>2 DEF DaemonDies, TypeOK, review, discussion
  <2>3. CASE UNCHANGED vars
    BY <1>1, <2>3 DEF vars, TypeOK, review, discussion, worker
  <2>4. ASSUME NEW j \in Job, BackoffEnds(j)
        PROVE  Quiet
    BY <1>1, <2>4 DEF BackoffEnds, TypeOK, review, discussion, worker
  <2>5. ASSUME NEW j \in Job, ThreadCloses(j)
        PROVE  Quiet
    BY <1>1, <2>5 DEF ThreadCloses, TypeOK, review, worker
  <2>6. ASSUME NEW m \in MR, Moves(m)
        PROVE  Quiet
    BY <1>1, <2>6 DEF Moves, TypeOK, discussion, worker
  <2> QED
    BY <2>1, <2>2, <2>3, <2>4, <2>5, <2>6
<1>3. TypeOK'
  BY <1>1, <1>2 DEF TypeOK
<1>4. /\ {} \in SUBSET Child /\ \A q \in Child \ {} : child'[q] = child[q]
      /\ \A q \in {} : child'[q] # None /\ child'[q].pc = "start" /\ store[child'[q].job] # None
  BY <1>2
<1>5. /\ UNCHANGED <<store, created, jobLock, exec, pending, commits, eyes, posted>>
      /\ \A i \in Job : thread'[i] = "open" => thread[i] = "open"
  BY <1>2
<1> QED
  BY <1>3, <1>4, <1>5, Aside

LEMMA ScheduledInv ==
    ASSUME IInv, NEW j \in Job, Scheduled(j)
    PROVE  IInv'
<1>1. /\ jobLock[j] = Chat /\ jobLock' = [jobLock EXCEPT ![j] = None]
      /\ eyes' \in {eyes, eyes \cup {j}}
      /\ UNCHANGED <<store, created, backoff, exec, child, active, deferred>>
      /\ UNCHANGED <<context, pending, commits, thread, posted>>
  BY DEF Scheduled, worker, review
<1>2. /\ jobLock' \in [Job -> Child \cup {None, Chat}]
      /\ \A i \in Job : i # j => jobLock'[i] = jobLock[i]
      /\ jobLock'[j] = None
  BY <1>1 DEF IInv, TypeOK
<1>3. TypeOK'
  BY <1>1, <1>2 DEF IInv, TypeOK
<1>4. \A i \in Job : Committed(i)' <=> Committed(i)
  BY <1>1 DEF Committed
<1>5. Queue' /\ \A m \in MR : OnReview(m)'
  BY <1>1 DEF IInv, Queue, OnReview, Once
<1>6. ASSUME NEW i \in Job
      PROVE  JobFine(i)'
  <2>1. JobFine(i)
    BY DEF IInv
  <2>2. CASE i = j
    BY <1>1, <1>2, <1>4, <2>1, <2>2, UpdateJobsAssumption
       DEF JobFine, NotYet, Told, Traced, True, Left
  <2>3. CASE i # j
    BY <1>1, <1>2, <1>4, <2>1, <2>3 DEF JobFine, NotYet, Told, Traced, True, Left
  <2> QED
    BY <2>2, <2>3
<1>7. ASSUME NEW q \in Child
      PROVE  ChildFine(q)'
  <2> SUFFICES ASSUME child[q] # None, child[q].pc # "start"
               PROVE  Holds(q)'
    BY <1>1 DEF IInv, ChildFine
  <2>1. child[q].job \in Job /\ Holds(q)
    BY DEF IInv, TypeOK, Process, ChildFine
  <2>2. jobLock'[child[q].job] = q
    BY <1>1, <1>2, <2>1, UpdateJobsAssumption DEF Holds
  <2>3. Knows(child[q].job, child[q].pc, store[child[q].job])'
    BY <1>1, <1>4, <2>1 DEF Holds, Knows
  <2> QED
    BY <1>1, <2>1, <2>2, <2>3 DEF Holds, Ahead
<1> QED
  BY <1>3, <1>5, <1>6, <1>7 DEF IInv

LEMMA EnqueueInv ==
    ASSUME IInv, NEW j \in Job, Enqueue(j)
    PROVE  IInv'
<1>1. /\ jobLock[j] = None /\ TypeOK
      /\ UNCHANGED <<backoff, exec, child, active, deferred>>
      /\ UNCHANGED <<context, pending, commits, thread, eyes, posted>>
  BY DEF Enqueue, IInv, worker, review, discussion
<1>2. CASE store[j] # None /\ store[j].done
  <2>1. UNCHANGED <<store, created, jobLock>>
    BY <1>2 DEF Enqueue
  <2>2. TypeOK'
    BY <1>1, <2>1 DEF TypeOK
  <2>3. /\ {} \in SUBSET Child /\ \A q \in Child \ {} : child'[q] = child[q]
        /\ \A q \in {} : child'[q] # None /\ child'[q].pc = "start" /\ store[child'[q].job] # None
    BY <1>1
  <2>4. /\ UNCHANGED <<store, created, jobLock, exec, pending, commits, eyes, posted>>
        /\ \A i \in Job : thread'[i] = "open" => thread[i] = "open"
    BY <1>1, <2>1
  <2> QED
    BY <2>2, <2>3, <2>4, Aside
<1>3. CASE store[j] = None \/ ~store[j].done
  <2>1. jobLock' = [jobLock EXCEPT ![j] = Chat]
    BY <1>3 DEF Enqueue
  <2>2. /\ jobLock' \in [Job -> Child \cup {None, Chat}]
        /\ \A i \in Job : i # j => jobLock'[i] = jobLock[i]
    BY <1>1, <2>1 DEF TypeOK
  <2>3. /\ store' \in [Job -> Checkpoint \cup {None}] /\ created' \in Seq(Job)
        /\ \A i \in Job : i # j => store'[i] = store[i]
        /\ store'[j] # None
        /\ store'[j] = IF store[j] = None THEN Fresh ELSE store[j]
    <3>1. CASE store[j] = None
      <4>1. store' = [store EXCEPT ![j] = Fresh] /\ created' = Append(created, j)
        BY <3>1 DEF Enqueue
      <4>2. Fresh \in Checkpoint
        BY UpdateJobsAssumption DEF Fresh, Checkpoint
      <4>3. Fresh # None
        BY <4>2, NoneAssumption
      <4>4. created' \in Seq(Job)
        BY <1>1, <4>1 DEF TypeOK
      <4> HIDE DEF Fresh
      <4> QED
        BY <1>1, <3>1, <4>1, <4>2, <4>3, <4>4 DEF TypeOK
    <3>2. CASE store[j] # None
      BY <1>1, <3>2 DEF Enqueue, TypeOK
    <3> QED
      BY <3>1, <3>2
  <2>4. TypeOK'
    BY <1>1, <2>2, <2>3 DEF TypeOK
  <2>5. /\ Queue'
        /\ \A i \in Job : store[i] # None /\ Ahead(i) => Ahead(i)'
    <3>1. CASE store[j] # None
      <4>1. UNCHANGED <<store, created>>
        BY <3>1 DEF Enqueue
      <4> QED
        BY <4>1 DEF IInv, Queue, Ahead
    <3>2. CASE store[j] = None
      <4> DEFINE n == Len(created)
                 s == Append(created, j)
      <4>1. created' = s
        BY <3>2 DEF Enqueue
      <4>2. /\ n \in Nat /\ Len(s) = n + 1 /\ s[n + 1] = j
            /\ \A i \in 1..n : s[i] = created[i] /\ s[i] \in Job
        BY <1>1, AppendProperties, LenProperties DEF TypeOK
      <4>3. \A i \in 1..n : created[i] # j
        BY <3>2 DEF IInv, Queue
      <4>4. \A i \in 1..Len(s) : i \in 1..n \/ i = n + 1
        BY <4>2
      <4>5. 1..n \subseteq 1..Len(s) /\ n + 1 \in 1..Len(s) /\ n + 1 \notin 1..n
        BY <4>2
      <4>6. \A i \in Job : store[i] # None <=> \E k \in 1..n : created[k] = i
        BY DEF IInv, Queue
      <4>7. \A i, k \in 1..n : created[i] = created[k] => i = k
        BY DEF IInv, Queue
      <4>8. ASSUME NEW i \in Job, store[i] # None, Ahead(i),
                   NEW a \in 1..Len(s), NEW b \in 1..Len(s), a < b,
                   s[b] = i, MrOf[s[a]] = MrOf[i]
            PROVE  store'[s[a]].done
        <5>1. b \in 1..n
          BY <3>2, <4>2, <4>4, <4>8
        <5>2. a \in 1..n
          BY <4>2, <4>8, <5>1
        <5>3. s[a] = created[a] /\ s[b] = created[b] /\ created[a] \in Job /\ created[a] # j
          BY <4>2, <4>3, <5>1, <5>2
        <5>4. store[created[a]].done
          BY <4>8, <5>1, <5>2, <5>3 DEF Ahead
        <5> QED
          BY <2>3, <5>3, <5>4
      <4> HIDE DEF s, n
      <4>9. Queue'
        BY <2>3, <4>1, <4>2, <4>3, <4>4, <4>5, <4>6, <4>7 DEF Queue
      <4> QED
        BY <4>1, <4>8, <4>9 DEF Ahead
    <3> QED
      BY <3>1, <3>2
  <2>6. \A i \in Job : Committed(i)' <=> Committed(i)
    BY <1>1 DEF Committed
  <2>7. \A m \in MR : OnReview(m)'
    BY <1>1 DEF IInv, OnReview, Once
  <2>8. ASSUME NEW i \in Job
        PROVE  JobFine(i)'
    <3>1. JobFine(i)
      BY DEF IInv
    <3>2. CASE i # j
      BY <1>1, <2>2, <2>3, <2>6, <3>1, <3>2 DEF JobFine, NotYet, Told, Traced, True, Left
    <3>3. CASE i = j /\ store[j] # None
      BY <1>1, <1>3, <2>3, <2>6, <3>1, <3>3 DEF JobFine, Told, Traced, True, Left
    <3>4. CASE i = j /\ store[j] = None
      <4>1. store'[j] = Fresh /\ store'[j] # None /\ "updated" # None
        BY <2>3, <3>4, NoneIsNil DEF Followup
      <4>2. Fresh.followup = None /\ Fresh.plan = None /\ ~Fresh.done
        BY DEF Fresh
      <4>3. pending'[MrOf[j]] # j /\ ~Committed(j)' /\ posted'[j] = <<>>
        BY <1>1, <2>6, <3>1, <3>4 DEF JobFine, NotYet
      <4> QED
        BY <3>4, <4>1, <4>2, <4>3 DEF JobFine, Told, Traced, True, Left
    <3> QED
      BY <3>2, <3>3, <3>4
  <2>9. ASSUME NEW q \in Child
        PROVE  ChildFine(q)'
    <3> SUFFICES ASSUME child[q] # None
                 PROVE  ChildFine(q)'
      BY <1>1 DEF ChildFine
    <3>1. child[q].job \in Job /\ store[child[q].job] # None /\ store'[child[q].job] # None
      BY <2>3 DEF IInv, TypeOK, Process, ChildFine
    <3>2. CASE child[q].pc = "start"
      BY <1>1, <3>1, <3>2 DEF ChildFine
    <3>3. CASE child[q].pc # "start"
      <4>1. Holds(q)
        BY <3>3 DEF IInv, ChildFine
      <4>2. child[q].job # j
        BY <1>1, <4>1, UpdateJobsAssumption DEF Holds
      <4>3. jobLock'[child[q].job] = q /\ store'[child[q].job] = store[child[q].job]
        BY <2>2, <2>3, <3>1, <4>1, <4>2 DEF Holds
      <4>4. Ahead(child[q].job)'
        BY <1>1, <2>5, <3>1, <4>1 DEF Holds
      <4>5. Knows(child[q].job, child[q].pc, store[child[q].job])'
        BY <1>1, <2>6, <3>1, <4>1, <4>3 DEF Holds, Knows
      <4> QED
        BY <1>1, <3>1, <4>1, <4>3, <4>4, <4>5 DEF ChildFine, Holds
    <3> QED
      BY <3>2, <3>3
  <2> QED
    BY <2>4, <2>5, <2>7, <2>8, <2>9 DEF IInv
<1> QED
  BY <1>2, <1>3

LEMMA OthersRecoverInv ==
    ASSUME IInv, NEW m \in MR, OthersRecover(m)
    PROVE  IInv'
<1>1. /\ pending[m] # None /\ Commit(m, pending[m])
      /\ \A p \in Child : ~At(p, "staged") /\ ~At(p, "apply")
      /\ UNCHANGED <<store, created, backoff, jobLock, exec, child, active, deferred>>
      /\ UNCHANGED <<store, discussion>> /\ UNCHANGED <<thread, eyes, posted>>
  BY DEF OthersRecover, worker, discussion
<1>2. /\ commits' \in [MR -> Seq(Job)] /\ context' \in [MR -> Nat]
      /\ pending' \in [MR -> Job \cup {None}] /\ pending'[m] = None
      /\ \A n \in MR : n # m => pending'[n] = pending[n] /\ commits'[n] = commits[n]
      /\ \A n \in MR : OnReview(n)'
      /\ \A k \in Job : JobFine(k)'
  BY <1>1, CommitPending
<1>3. TypeOK' /\ Queue'
  BY <1>1, <1>2 DEF IInv, TypeOK, Queue
<1>4. ASSUME NEW q \in Child
      PROVE  ChildFine(q)'
  <2> SUFFICES ASSUME child[q] # None, child[q].pc # "start"
               PROVE  Holds(q)'
    BY <1>1 DEF IInv, ChildFine
  <2>1. child[q].job \in Job /\ MrOf[child[q].job] \in MR /\ Holds(q)
    BY UpdateJobsAssumption DEF IInv, TypeOK, Process, ChildFine
  <2>2. CASE MrOf[child[q].job] # m
    BY <1>1, <1>2, <2>1, <2>2 DEF Holds, Ahead, Knows, Committed
  <2>3. CASE MrOf[child[q].job] = m
    <3>1. child[q].pc = "recover"
      BY <1>1, <2>1, <2>3 DEF At, Holds, Knows
    <3>2. Knows(child[q].job, child[q].pc, store[child[q].job])'
      BY <1>1, <3>1 DEF Knows, Deciding
    <3> QED
      BY <1>1, <2>1, <3>2 DEF Holds, Ahead
  <2> QED
    BY <2>2, <2>3
<1> QED
  BY <1>2, <1>3, <1>4 DEF IInv

LEMMA InitInv == Init => IInv
<1> SUFFICES ASSUME Init
             PROVE  IInv
  OBVIOUS
<1>1. TypeOK
  BY DEF Init, TypeOK
<1>2. Queue
  BY DEF Init, Queue
<1>3. \A m \in MR : OnReview(m)
  BY DEF Init, OnReview, Once
<1>4. ASSUME NEW j \in Job
      PROVE  JobFine(j)
  <2>1. MrOf[j] \in MR /\ None # j /\ None # Chat
    BY UpdateJobsAssumption
  <2> QED
    BY <2>1 DEF Init, JobFine, NotYet, Committed
<1>5. \A p \in Child : ChildFine(p)
  BY DEF Init, ChildFine
<1> QED
  BY <1>1, <1>2, <1>3, <1>4, <1>5 DEF IInv

LEMMA NextInv == IInv /\ [Next]_vars => IInv'
<1> SUFFICES ASSUME IInv, [Next]_vars
             PROVE  IInv'
  OBVIOUS
<1>1. ASSUME NEW j \in Job, Enqueue(j) \/ Scheduled(j)
      PROVE  IInv'
  BY <1>1, EnqueueInv, ScheduledInv
<1>2. ASSUME \/ Tick \/ DaemonDies \/ UNCHANGED vars
             \/ \E j \in Job : BackoffEnds(j) \/ ThreadCloses(j)
             \/ \E m \in MR : Moves(m)
      PROVE  IInv'
  BY <1>2, AsideInv
<1>3. ASSUME NEW m \in MR, Launch(m) \/ OthersRecover(m)
      PROVE  IInv'
  BY <1>3, LaunchInv, OthersRecoverInv
<1>4. ASSUME NEW p \in Child, ChildStep(p) \/ ChildDies(p)
      PROVE  IInv'
  <2>1. CASE ChildDies(p)
    BY <2>1, ExitOnly DEF ChildDies
  <2> QED
    BY <1>4, <2>1, ChildStepInv
<1> QED
  BY <1>1, <1>2, <1>3, <1>4 DEF Next

LEMMA Inductive == Spec => []IInv
BY InitInv, NextInv, PTL DEF Spec

-----------------------------------------------------------------------------
(* What follows.                                                           *)

\* Every variable has its type.
THEOREM Types == Spec => []TypeOK
<1>1. IInv => TypeOK
  BY DEF IInv
<1> QED
  BY <1>1, Inductive, PTL

\* The corrections of a merge request are made one at a time and in the order they were asked
\* for, whichever children and daemons die.
THEOREM JobsInOrder == Spec => []InOrder
<1>1. IInv => InOrder
  <2> SUFFICES ASSUME IInv, NEW p \in Child, Working(p)
               PROVE  /\ \A q \in Child : q # p /\ Working(q) => MrOfChild(q) # MrOfChild(p)
                      /\ \A i, k \in 1..Len(created) :
                            i < k /\ created[k] = child[p].job /\ MrOf[created[i]] = MrOfChild(p)
                                => store[created[i]].done
    BY DEF InOrder
  <2>1. Holds(p)
    BY DEF IInv, ChildFine, Working
  <2> QED
    BY <2>1, WorkingAlone DEF Holds, Ahead, MrOfChild, Alone
<1> QED
  BY <1>1, Inductive, PTL

\* What is staged or committed has its decision on disk until the follow-up has it.
THEOREM TracesStay == Spec => []PlanOnDisk
<1>1. IInv => PlanOnDisk
  <2> SUFFICES ASSUME IInv, NEW j \in Job,
                      pending[MrOf[j]] = j \/ (Committed(j) /\ store[j].followup = None)
               PROVE  store[j].plan # None
    BY DEF PlanOnDisk
  <2> QED
    BY DEF IInv, JobFine, NotYet, Traced
<1> QED
  BY <1>1, Inductive, PTL

\* A correction is published once, the thread hears of it once, and what it hears is true.
THEOREM ThreadHearsTheTruth == Spec => []TruthfulFollowup
<1>1. ASSUME IInv, NEW j \in Job
      PROVE  /\ Cardinality({i \in 1..Len(commits[MrOf[j]]) : commits[MrOf[j]][i] = j}) <= 1
             /\ Len(posted[j]) <= 1
             /\ posted[j] # <<>> =>
                   IF posted[j][1] = "updated" THEN Committed(j)
                   ELSE ~Committed(j) /\ pending[MrOf[j]] # j
  <2>1. MrOf[j] \in MR /\ JobFine(j)
    BY <1>1, UpdateJobsAssumption DEF IInv
  <2>2. Once(commits[MrOf[j]])
    BY <1>1, <2>1 DEF IInv, OnReview
  <2> DEFINE S == {i \in 1..Len(commits[MrOf[j]]) : commits[MrOf[j]][i] = j}
  <2>3. Cardinality(S) <= 1
    <3>1. CASE S = {}
      BY <3>1, FS_EmptySet
    <3>2. CASE S # {}
      <4>1. PICK i : i \in S
        BY <3>2
      <4>2. S = {i}
        BY <2>2, <4>1 DEF Once
      <4>3. Cardinality(S) = 1
        <5> HIDE DEF S
        <5> QED
          BY <4>2, FS_Singleton
      <4> QED
        BY <4>3
    <3> QED
      BY <3>1, <3>2
  <2>4. posted[j] = <<>> \/ posted[j] = <<store[j].followup>>
    BY <2>1 DEF JobFine, NotYet, Told
  <2>5. Len(posted[j]) <= 1
    <3>1. CASE posted[j] = <<>>
      <4>1. Len(posted[j]) = 0
        BY <3>1
      <4> QED
        BY <4>1
    <3>2. CASE posted[j] = <<store[j].followup>>
      <4>1. Len(posted[j]) = 1
        BY <3>2
      <4> QED
        BY <4>1
    <3> QED
      BY <2>4, <3>1, <3>2
  <2>6. ASSUME posted[j] # <<>>
        PROVE  IF posted[j][1] = "updated" THEN Committed(j)
               ELSE ~Committed(j) /\ pending[MrOf[j]] # j
    <3>1. /\ posted[j] = <<store[j].followup>> /\ store[j].followup # None
          /\ Traced(j) /\ True(j)
      BY <2>1, <2>6 DEF JobFine, NotYet, Told
    <3>2. posted[j][1] = store[j].followup
      BY <3>1
    <3> QED
      BY <3>1, <3>2 DEF Traced, True
  <2> QED
    BY <2>3, <2>5, <2>6
<1>2. IInv => TruthfulFollowup
  BY <1>1 DEF TruthfulFollowup
<1> QED
  BY <1>2, Inductive, PTL

\* A job that is done left no eyes and no staged update, and told the thread it could tell.
THEOREM DoneLeavesNothing == Spec => []DoneIsFinished
<1>1. ASSUME IInv, NEW j \in Job, store[j] # None, store[j].done
      PROVE  /\ j \notin eyes /\ pending[MrOf[j]] # j
             /\ thread[j] = "open" => posted[j] # <<>>
  BY <1>1 DEF IInv, JobFine, Left, Traced
<1>2. IInv => DoneIsFinished
  BY <1>1 DEF DoneIsFinished
<1> QED
  BY <1>2, Inductive, PTL
=============================================================================
