---------------------------- MODULE MCDispatcher ----------------------------
(* The dispatcher for TLC.                                                 *)
EXTENDS DispatcherLedger, TLC

CONSTANTS m1, m2, m3, m4, n1, n2

OneNote == n1 :> m1
OneRequest == (n1 :> m1 @@ n2 :> m1)
NoNotes == <<>>
Alike == Permutations(MR)

\* Environment events of each run.
LimitReview == [auto |-> 1, emoji |-> 0, abort |-> 1, timeout |-> 1, stop |-> 0, crash |-> 0, vanish |-> 0]
LimitRestart == [auto |-> 1, emoji |-> 0, abort |-> 0, timeout |-> 0, stop |-> 1, crash |-> 1, vanish |-> 1]
LimitPool == [auto |-> 4, emoji |-> 0, abort |-> 1, timeout |-> 0, stop |-> 0, crash |-> 0, vanish |-> 0]
LimitLive == [auto |-> 0, emoji |-> 1, abort |-> 1, timeout |-> 1, stop |-> 1, crash |-> 0, vanish |-> 0]
LimitAbort == [auto |-> 0, emoji |-> 0, abort |-> 1, timeout |-> 0, stop |-> 0, crash |-> 0, vanish |-> 0]
=============================================================================
