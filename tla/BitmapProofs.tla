---------------------------- MODULE BitmapProofs ----------------------------
(* What the functions of bitmap.c do to the set of taken ids, for any size *)
(* of the bitmap.                                                          *)
EXTENDS Bitmap, TLAPS

(* Setting or clearing any bit of a bitmap gives a bitmap. *)
LEMMA BitArrayUpdate ==
    ASSUME NEW a \in BitArrays, NEW b \in Bits
    PROVE  /\ bit_array_set_bit(a, b) \in BitArrays
           /\ bit_array_clear_bit(a, b) \in BitArrays
BY DEF BitArrays, bit_array_set_bit, bit_array_clear_bit

(* The freshly zeroed bitmap of init_rpc_client is a bitmap. *)
LEMMA EmptyBitmapType == EmptyBitmap \in BitArrays /\ 0 \in Bits
BY BitArrSizeAssumption DEF EmptyBitmap, BitArrays, Bits

(* bitmap.c read as operations on the set of taken ids: setting a bit adds *)
(* it, clearing a bit removes it.                                          *)
LEMMA TakenUpdate ==
    ASSUME NEW a \in BitArrays, NEW b \in Bits
    PROVE  /\ Taken(bit_array_set_bit(a, b)) = Taken(a) \cup {b}
           /\ Taken(bit_array_clear_bit(a, b)) = Taken(a) \ {b}
BY DEF BitArrays, Taken, bit_array_set_bit, bit_array_clear_bit

(* The scan finds the smallest id that is not taken. *)
LEMMA FoundIsSmallestFree ==
    ASSUME NEW a \in BitArrays, NEW b \in Bits, bit_array_find_first_clear_bit(a, b)
    PROVE  /\ b \in Bits \ Taken(a)
           /\ \A j \in Bits \ Taken(a) : b <= j
BY BitArrSizeAssumption DEF BitArrays, Taken, Bits, bit_array_find_first_clear_bit
=============================================================================
