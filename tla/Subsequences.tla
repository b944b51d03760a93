---------------------------- MODULE Subsequences ----------------------------
(***************************************************************************)
(* What the loops make that append to a slice some elements of another one. *)
(***************************************************************************)
EXTENDS Naturals, FiniteSets

\* The elements of s at the positions in I, in order.
Subsequence(s, I) ==
  [n \in 1 .. Cardinality(I) |->
     s[CHOOSE p \in I : Cardinality({q \in I : q <= p}) = n]]

=============================================================================
