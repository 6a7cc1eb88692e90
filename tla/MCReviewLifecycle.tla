-------------------------- MODULE MCReviewLifecycle --------------------------
(***************************************************************************)
(* Instances of ReviewLifecycle for TLC: resume tasks are interchangeable.   *)
(***************************************************************************)
EXTENDS ReviewLifecycle, TLC

ResumeSymmetry == Permutations(Resumes)
=============================================================================
