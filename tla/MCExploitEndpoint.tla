-------------------------- MODULE MCExploitEndpoint --------------------------
(***************************************************************************)
(* Instances of ExploitEndpoint for TLC: handlers and findings are            *)
(* interchangeable among themselves.                                          *)
(***************************************************************************)
EXTENDS ExploitEndpoint, TLC

RequestSymmetry == Permutations(Requests) \cup Permutations(Findings)
=============================================================================
