--------------------------- MODULE MCReviewStore ---------------------------
(***************************************************************************)
(* Instances of ReviewStore for TLC: the states that may be saved.           *)
(***************************************************************************)
EXTENDS ReviewStore

CONSTANTS f, g

MCStates == {<<>>, <<f>>, <<Blank, g>>}
=============================================================================
