---------------------------- MODULE MCRpcChannel ----------------------------
(* The RPC channel, for TLC. *)
EXTENDS RpcChannel, TLC

(* Calls are told apart only by equality. *)
CallSymmetry == Permutations(Calls)
=============================================================================
