----------------------------- MODULE MCRdmaConn -----------------------------
(* The life of a channel, for TLC. *)
EXTENDS RdmaConn
=============================================================================
