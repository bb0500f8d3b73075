------------------------------- MODULE Bitmap -------------------------------
(***************************************************************************)
(* bitmap.c: the array of BIT_ARR_SIZE chars in which a client channel     *)
(* records the message buffers that are taken.  Element b is 1 when        *)
(* buffer b is taken and 0 when it is free.                                *)
(***************************************************************************)
EXTENDS Integers

CONSTANT BIT_ARR_SIZE

ASSUME BitArrSizeAssumption == BIT_ARR_SIZE \in Nat \ {0}

Bits == 0 .. (BIT_ARR_SIZE - 1)

BitArrays == [Bits -> {0, 1}]

(* kzalloc(4): every bit is clear. *)
EmptyBitmap == [b \in Bits |-> 0]

(* Mutant: the scan stops at any clear bit. *)
FindAnyClearBit(bitarr, i) == bitarr[i] = 0

(* The scan from 0 returns 1 and stores i: i is clear, all before it set.  *)
bit_array_find_first_clear_bit(bitarr, i) ==
    /\ bitarr[i] = 0
    /\ \A j \in 0 .. (i - 1) : bitarr[j] # 0

(* Mutant: off by one, the scan never looks at the last bit. *)
NoClearBitButLast(bitarr) == \A b \in 0 .. (BIT_ARR_SIZE - 2) : bitarr[b] # 0

(* The scan falls through and returns 0. *)
NoClearBit(bitarr) == \A b \in Bits : bitarr[b] # 0

(* EXCEPT leaves the array alone when b is not an index, as the code does. *)
bit_array_set_bit(bitarr, b) == [bitarr EXCEPT ![b] = 1]

bit_array_clear_bit(bitarr, b) == [bitarr EXCEPT ![b] = 0]

(* The taken buffers. *)
Taken(bitarr) == {b \in Bits : bitarr[b] = 1}
=============================================================================
