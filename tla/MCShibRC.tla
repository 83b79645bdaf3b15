------------------------------ MODULE MCShibRC ------------------------------
(* Values for the model checker.                                           *)
EXTENDS ShibRC, TLC

Symmetry == Permutations(Fd) \cup Permutations(Addr) \cup Permutations(Nick)
=============================================================================
