----------------------------- MODULE MCLedger -----------------------------
(* The ledger for model checking: two or three processes, few events.      *)
EXTENDS Ledger, TLC

Symmetry == Permutations(Procs)
===========================================================================
