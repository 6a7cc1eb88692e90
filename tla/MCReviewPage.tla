---------------------------- MODULE MCReviewPage ----------------------------
(***************************************************************************)
(* Instances of ReviewPage for TLC: the threads are interchangeable.         *)
(***************************************************************************)
EXTENDS ReviewPage, TLC

ThreadSymmetry == Permutations(Threads)
=============================================================================
