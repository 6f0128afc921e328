------------------------------ MODULE Selection ------------------------------
(***************************************************************************)
(* The members of a sequence that are in a set, for each of its prefixes.  *)
(* This is SelectSeq, written as a recursive function: the provers know    *)
(* nothing of SelectSeq.                                                   *)
(***************************************************************************)
EXTENDS Naturals, Sequences

Selected(s, S) ==
  LET f[i \in 0..Len(s)] ==
        IF i = 0 THEN <<>>
        ELSE IF s[i] \in S THEN Append(f[i - 1], s[i]) ELSE f[i - 1]
  IN  f
=============================================================================
