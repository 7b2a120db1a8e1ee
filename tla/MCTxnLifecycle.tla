--------------------------- MODULE MCTxnLifecycle ---------------------------
(* Model-checking instance of TxnLifecycle: datastore names are model      *)
(* values and interchangeable.                                             *)
EXTENDS TxnLifecycle, TLC

Symmetry == Permutations(DsName)
=============================================================================
