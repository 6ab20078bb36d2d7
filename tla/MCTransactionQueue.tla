------------------------ MODULE MCTransactionQueue ------------------------
(* Model-checking instance of TransactionQueue. *)
EXTENDS TransactionQueue, TLC

Symmetry == Permutations(Surface) \cup Permutations(Blocker)
=============================================================================
