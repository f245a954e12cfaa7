--------------------------- MODULE MCReviewUpdate ---------------------------
(* A small instance of ReviewUpdate for TLC.                               *)
EXTENDS ReviewUpdate
=============================================================================
