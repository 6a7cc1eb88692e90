---------------------------- MODULE SequenceFilter ----------------------------
(***************************************************************************)
(* The Python comprehension [x for x in s if x in S], which is what SelectSeq  *)
(* is for.  A recursive function can be reasoned about; SelectSeq cannot, its   *)
(* argument being an operator.                                                   *)
(***************************************************************************)
EXTENDS Naturals, Sequences

\* The subsequence of s of its elements in S.
Keep(s, S) ==
  LET kept[n \in 0 .. Len(s)] ==
        IF n = 0 THEN <<>>
        ELSE IF s[n] \in S THEN Append(kept[n - 1], s[n]) ELSE kept[n - 1]
  IN kept[Len(s)]
=============================================================================
