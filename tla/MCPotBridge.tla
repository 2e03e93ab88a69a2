---------------------------- MODULE MCPotBridge ----------------------------
(* Instances of PotBridge for TLC.                                         *)
EXTENDS PotBridge

\* Two configurations that can be evaluated, one of them without atoms, and
\* one the potential throws on.
Good == [cfg |-> "a", n |-> 2, ok |-> TRUE]
Empty == [cfg |-> "z", n |-> 0, ok |-> TRUE]
Bad == [cfg |-> "x", n |-> 1, ok |-> FALSE]

ThreeInputs == {Good, Empty, Bad}
=============================================================================
