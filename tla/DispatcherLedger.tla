-------------------------- MODULE DispatcherLedger --------------------------
(***************************************************************************)
(* The dispatcher implements the ledger of reviews: no accepted request is *)
(* lost by merging, an aborted or finished review never comes back.        *)
(***************************************************************************)
EXTENDS Dispatcher

\* The refinement mapping: while the process is up its memory says what is owed,
\* while it is down, or has not restored an entry yet, the state directory does.
OwedByJob(j) ==
    IF j.status = "queued" THEN Resume(j).kind
    ELSE IF j.pending # None THEN j.pending.kind ELSE "none"
OwedByEntry(e) ==
    IF e = None THEN "none"
    ELSE IF e.outcome = "none" THEN e.event.kind
    ELSE IF e.pending # None THEN e.pending.kind ELSE "none"
todoBar == [m \in MR |-> IF Known(m) THEN OwedByJob(job[m]) ELSE OwedByEntry(disk[m])]
activeBar == [m \in MR |-> IF job[m].status = "running" /\ job[m].cleanup = None
                           THEN job[m].latest.kind ELSE "none"]
safeBar == {m \in MR : IF Known(m) THEN job[m].status # "none" /\ job[m].persisted
                       ELSE disk[m] # None}

\* The pushes and emojis so far, and the commands handed to the dispatcher.
askedBar == <<used["auto"], used["emoji"], {n \in Note : handler[n] = "done"}>>

\* The aborts so far, and the entries restarts refused.
withdrawnBar == <<used["abort"], used["vanish"]>>

Ledger == INSTANCE ReviewLedger
    WITH todo <- todoBar, active <- activeBar, safe <- safeBar, asked <- askedBar,
         withdrawn <- withdrawnBar, failures <- faults
\* Every step of the dispatcher is a step of the ledger: requests are accepted,
\* begun, ended, called off or interrupted, a request that is owed stays owed but for
\* these and for the end of a process that could not write it, and a restart owes again
\* exactly what was safe in the state directory.
LedgerSpec == Ledger!LedgerSpec

\* With a state directory that works, an accepted review request is eventually begun,
\* unless an abort or a restart calls it off (`w` is the log when it was owed): what waits
\* behind a running review is still owed when that one has ended, and what is owed then
\* begins.  Also when the daemon is stopped and started in between.
RequestsServed == \A m \in MR, w \in (0..Limit["abort"]) \X (0..Limit["vanish"]) :
    LET owed == Journaled /\ todoBar[m] # "none" /\ withdrawnBar = w
        excused == withdrawnBar # w \/ faults > 0
    IN  /\ owed /\ activeBar[m] # "none"
              ~> (todoBar[m] # "none" /\ activeBar[m] = "none") \/ excused
        /\ owed /\ activeBar[m] = "none" ~> activeBar[m] # "none" \/ excused
=============================================================================
