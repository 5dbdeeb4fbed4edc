---------------------------- MODULE Subsequences ----------------------------
(***************************************************************************)
(* A part of a sequence: what SelectSeq gives for membership in a set, as  *)
(* a function of the prefixes, which proofs by induction can follow.       *)
(***************************************************************************)
EXTENDS Naturals, Sequences

\* The members of s that are in S, in their order.
Only(s, S) ==
  LET upTo[k \in 0 .. Len(s)] ==
        IF k = 0 THEN << >>
        ELSE IF s[k] \in S THEN Append(upTo[k - 1], s[k]) ELSE upTo[k - 1]
  IN  upTo[Len(s)]
=============================================================================
