---------------------------- MODULE MCMsgBufPool ----------------------------
(* The message buffer pool, for TLC. *)
EXTENDS MsgBufPool
=============================================================================
