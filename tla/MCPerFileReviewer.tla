-------------------------- MODULE MCPerFileReviewer --------------------------
(***************************************************************************)
(* Instances of PerFileReviewer for TLC: liveness is checked, so no symmetry *)
(* is declared.                                                              *)
(***************************************************************************)
EXTENDS PerFileReviewer
=============================================================================
