---------------------------- MODULE GraphContract ----------------------------
(***************************************************************************)
(* What one invocation chain of the review graph promises: the supersteps of *)
(* ReviewSteps, each atomic, and the human's answer to each question.        *)
(***************************************************************************)
EXTENDS ReviewSteps

VARIABLE g    \* the graph state

ContractInit == g = GraphStart

Superstep == \E readable \in BOOLEAN : g' \in Successors(g, readable)

Answer == /\ Paused(g)
          /\ \E answer \in Answers : g' = Resume(g, answer)

ContractNext == Superstep \/ Answer

ContractSpec == ContractInit /\ [][ContractNext]_g
=============================================================================
