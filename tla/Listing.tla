------------------------------ MODULE Listing ------------------------------
(***************************************************************************)
(* Members of a set of places in an order, and the sum of a list.  SetToSortSeq *)
(* and SelectSeq do the same; they are defined by sorting and by recursion,    *)
(* which nothing can be proved about without induction over an operator.      *)
(***************************************************************************)
EXTENDS Integers, Sequences, SequencesExt, FiniteSets

\* How many of S, a set of numbers, come up to i.
Rank(S, i) == Cardinality({j \in S : j <= i})

\* The members of S, the smallest first.
InOrder(S) == [k \in 1..Cardinality(S) |-> CHOOSE i \in S : Rank(S, i) = k]

\* The members of S in the order of Before, a strict total order of S.
Sorted(S, Before(_, _)) ==
  [k \in 1..Cardinality(S) |-> CHOOSE i \in S : Cardinality({j \in S : Before(j, i)}) = k - 1]

SumOf(s) == FoldLeft(LAMBDA n, x : n + x, 0, s)
=============================================================================
