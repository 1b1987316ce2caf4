----------------------------- MODULE Positions -----------------------------
(***************************************************************************)
(* Parts of a sequence, named by their positions: what a loop over a list  *)
(* keeps.  The definitions count instead of sorting or recurring (as       *)
(* SetToSortSeq and SelectSeq do), so that they can be reasoned about.     *)
(***************************************************************************)
EXTENDS Naturals, Sequences, FiniteSets

\* The numbers in S, the k-th being the one with k - 1 below it.
InOrder(S) ==
  [k \in 1 .. Cardinality(S) |->
     CHOOSE x \in S : Cardinality({y \in S : y < x}) = k - 1]

\* What s holds at the positions I, in the order of s.
At(s, I) ==
  LET order == InOrder(I)
  IN  [k \in DOMAIN order |-> s[order[k]]]

\* The first occurrence of each element, in the order of s.
Unique(s) == At(s, {i \in DOMAIN s : \A j \in 1 .. i - 1 : s[j] # s[i]})
=============================================================================
