------------------------ MODULE MCDependencyReviewer ------------------------
(***************************************************************************)
(* Instances of DependencyReviewer for TLC: what lockfiles may hold, what     *)
(* OSV may list, and advisories on both sides of the blocking score.           *)
(***************************************************************************)
EXTENDS DependencyReviewer

CONSTANTS p1, p2, p3, v1, v2

MCScore == [v \in {v1, v2} |-> IF v = v1 THEN 69 ELSE 70]
MCContents == {<<>>, <<p1, p2>>, <<p3, p1, p3>>}
MCAnswers == {<<>>, <<v1>>, <<v2, v1, v2>>}
=============================================================================
