---------------------------- MODULE MCRpcService ----------------------------
(* Instances of RpcService for TLC.                                        *)
EXTENDS RpcService

\* One atom, none, and an input whose box is in GPU memory.
OneAtom == [cfg |-> "a", n |-> 1, pos |-> "cpu", atm |-> "cpu", box |-> "cpu"]
OnGpu == [cfg |-> "g", n |-> 1, pos |-> "cpu", atm |-> "cpu", box |-> "cuda"]
Empty == [cfg |-> "z", n |-> 0, pos |-> "cpu", atm |-> "cpu", box |-> "cpu"]

ThreeInputs == {OneAtom, Empty, OnGpu}
=============================================================================
