------------------------------ MODULE MCKrping ------------------------------
(* The ping client, for TLC. *)
EXTENDS Krping

(* No .cfg syntax for negative numbers: a bad count, a bad size, pings.     *)
MCNumbers == {-1, 0, 2}
=============================================================================
