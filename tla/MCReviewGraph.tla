---------------------------- MODULE MCReviewGraph ----------------------------
(***************************************************************************)
(* Instances of ReviewGraph for TLC: liveness and refinement are checked,  *)
(* so no symmetry is declared.                                               *)
(***************************************************************************)
EXTENDS ReviewGraph
=============================================================================
