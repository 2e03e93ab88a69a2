------------------------------- MODULE MCCApi -------------------------------
(* Instances of CApi for TLC.                                              *)
EXTENDS CApi, TLC

Symmetry == Permutations(Threads) \cup Permutations(Strings)
=============================================================================
