----------------------------- MODULE MCTensors -----------------------------
(* Instances of Tensors for TLC.                                           *)
EXTENDS Tensors, TLC

Symmetry == Permutations(Inputs) \cup Permutations(Results)
=============================================================================
