---------------------------- MODULE Subsequence ----------------------------
(***************************************************************************)
(* What Vec::retain leaves of a list, by position.  It is SelectSeq with   *)
(* the positions to keep in place of a test, which makes it a definition   *)
(* the provers can expand.                                                 *)
(***************************************************************************)
EXTENDS Integers, Sequences, FiniteSets

\* The n-th smallest member of K.
Nth(K, n) == CHOOSE k \in K : Cardinality({j \in K : j <= k}) = n

\* The elements of q at the positions in K, in their order.
Select(q, K) == [n \in 1 .. Cardinality(K) |-> q[Nth(K, n)]]
=============================================================================
