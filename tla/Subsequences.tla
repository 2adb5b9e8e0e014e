---------------------------- MODULE Subsequences ----------------------------
(* What is left of a list when some of its places are dropped and the others  *)
(* keep their order: Vec::retain and Iterator::filter, and partition's halves.  *)
(* SelectSeq says the same, but is defined by recursion.                       *)
EXTENDS Integers, FiniteSets, Sequences

\* The places in the set, from the first to the last.
InOrder(at) ==
    CHOOSE f \in [1..Cardinality(at) -> at] :
        \A i, j \in 1..Cardinality(at) : i < j => f[i] < f[j]

Subsequence(s, at) == [n \in 1..Cardinality(at) |-> s[InOrder(at)[n]]]

=============================================================================
