----------------------------- MODULE MCRpcClient -----------------------------
(* A write to /proc/krping, for TLC. *)
EXTENDS RpcClient
=============================================================================
