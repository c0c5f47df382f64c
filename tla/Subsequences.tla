---------------------------- MODULE Subsequences ----------------------------
(***************************************************************************)
(* The parts of a sequence: what Array.prototype.filter keeps.             *)
(***************************************************************************)
EXTENDS Naturals, FiniteSets, Sequences

\* The k-th smallest of a set of numbers.
Nth(S, k) == CHOOSE i \in S : Cardinality({j \in S : j <= i}) = k

\* The elements of s at the positions in keep, in their order.
Subsequence(s, keep) == [k \in 1 .. Cardinality(keep) |-> s[Nth(keep, k)]]
=============================================================================
