--------------------------- MODULE MCTransaction ---------------------------
(* Model-checking instance of Transaction: transactions and keys are model *)
(* values; both are symmetric (no definition orders or names them).        *)
EXTENDS Transaction, TLC

Symmetry == Permutations(Txn) \cup Permutations(Key)

=============================================================================
