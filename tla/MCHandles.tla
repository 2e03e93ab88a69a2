----------------------------- MODULE MCHandles -----------------------------
(* Instances of Handles for TLC.                                           *)
EXTENDS Handles, TLC

Symmetry == Permutations(Threads) \cup Permutations(Cells)
              \cup Permutations(Clients) \cup Permutations(Slots \ Clients)
=============================================================================
