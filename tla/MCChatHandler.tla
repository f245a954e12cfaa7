--------------------------- MODULE MCChatHandler ---------------------------
(* A small instance of ChatHandler for TLC: a question that is delivered   *)
(* twice and a newer one in its thread.                                    *)
EXTENDS ChatHandler

CONSTANTS d1, d2, d3, q1, q2, a
Deliveries == (d1 :> q1) @@ (d2 :> q1) @@ (d3 :> q2)
Threads == (q1 :> a) @@ (q2 :> a)
=============================================================================
