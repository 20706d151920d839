---------------------------- MODULE Subsequences ----------------------------
(***************************************************************************)
(* What is kept of a sequence, by the positions it is at.  A filter whose  *)
(* result proofs are about is written with Kept, not with SelectSeq, of    *)
(* which the provers know nothing.                                         *)
(***************************************************************************)
EXTENDS Naturals, FiniteSets

\* Finitely many numbers in ascending order.
InOrder(S) ==
  CHOOSE s \in [1..Cardinality(S) -> S] : \A i, j \in 1..Cardinality(S) : i < j => s[i] < s[j]

\* The sequence s without what is not at the positions S.
Kept(s, S) == [n \in 1..Cardinality(S) |-> s[InOrder(S)[n]]]
=============================================================================
