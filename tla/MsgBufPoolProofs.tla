-------------------------- MODULE MsgBufPoolProofs --------------------------
(***************************************************************************)
(* Proofs about the message buffer pool, for any number of threads and any *)
(* number of buffers: PoolInv is an inductive invariant, and the pool      *)
(* implements IdPool.                                                      *)
(***************************************************************************)
EXTENDS MsgBufPool, BitmapProofs

(* PoolInv holds when init_rpc_client has set the pool up. *)
LEMMA PoolInit == Init => PoolInv
BY EmptyBitmapType, PoolAssumption
DEF Init, PoolInv, TypeOK, LockInv, RetInv, ScanStillValid

(* No step of alloc_msgbuf_id or of free_msgbuf_id breaks PoolInv. *)
LEMMA PoolStep == PoolInv /\ [Next]_vars => PoolInv'
<1> SUFFICES ASSUME PoolInv, [Next]_vars
             PROVE  PoolInv'
    OBVIOUS
<1> USE PoolAssumption
<1>0. PoolInv
    OBVIOUS
<1>1. ASSUME NEW t \in Threads, AllocCall(t)
      PROVE  PoolInv'
    BY <1>0, <1>1
    DEF AllocCall, At, Goto, PoolInv, TypeOK, LockInv, RetInv, ScanStillValid, cbVars
<1>2. ASSUME NEW t \in Threads, AllocLock(t)
      PROVE  PoolInv'
    BY <1>0, <1>2
    DEF AllocLock, At, Goto, PoolInv, TypeOK, LockInv, RetInv, ScanStillValid, cbVars
<1>3. ASSUME NEW t \in Threads, AllocFind(t)
      PROVE  PoolInv'
    BY <1>0, <1>3
    DEF AllocFind, At, Goto, PoolInv, TypeOK, LockInv, RetInv, ScanStillValid, cbVars
<1>4. ASSUME NEW t \in Threads, AllocSet(t)
      PROVE  PoolInv'
    <2>1. bitmap' \in BitArrays
        BY <1>0, <1>4, BitArrayUpdate DEF AllocSet, PoolInv, TypeOK
    <2>2. \A s \in Threads : pc'[s] # "set"
        BY <1>0, <1>4 DEF AllocSet, At, Goto, PoolInv, TypeOK, LockInv
    <2> QED
        BY <1>0, <1>4, <2>1, <2>2
        DEF AllocSet, At, Goto, PoolInv, TypeOK, LockInv, RetInv, ScanStillValid, cbVars
<1>5. ASSUME NEW t \in Threads, AllocUnlock(t)
      PROVE  PoolInv'
    BY <1>0, <1>5
    DEF AllocUnlock, At, Goto, PoolInv, TypeOK, LockInv, RetInv, ScanStillValid, cbVars
<1>6. CASE FreeCall
    BY <1>0, <1>6
    DEF FreeCall, PoolInv, TypeOK, LockInv, RetInv, ScanStillValid, threadVars
<1>7. CASE FreeLock
    BY <1>0, <1>7
    DEF FreeLock, PoolInv, TypeOK, LockInv, RetInv, ScanStillValid, threadVars
<1>8. CASE FreeClear
    <2>1. bitmap' \in BitArrays
        BY <1>0, <1>8, BitArrayUpdate DEF FreeClear, PoolInv, TypeOK
    <2>2. \A s \in Threads : pc'[s] # "set"
        BY <1>0, <1>8 DEF FreeClear, PoolInv, TypeOK, LockInv, threadVars
    <2> QED
        BY <1>0, <1>8, <2>1, <2>2
        DEF FreeClear, PoolInv, TypeOK, LockInv, RetInv, ScanStillValid, threadVars
<1>9. CASE FreeUnlock
    BY <1>0, <1>9
    DEF FreeUnlock, PoolInv, TypeOK, LockInv, RetInv, ScanStillValid, threadVars
<1>10. CASE UNCHANGED vars
    BY <1>0, <1>10
    DEF vars, threadVars, cbVars, PoolInv, TypeOK, LockInv, RetInv, ScanStillValid
<1> QED
    BY <1>1, <1>2, <1>3, <1>4, <1>5, <1>6, <1>7, <1>8, <1>9, <1>10
    DEF Next, AllocStep, FreeStep

(* The lock, the scan and the loop keep PoolInv for ever. *)
THEOREM PoolInvariant == Spec => []PoolInv
<1>1. Init => PoolInv
    BY PoolInit
<1>2. PoolInv /\ [Next]_vars => PoolInv'
    BY PoolStep
<1> QED
    BY <1>1, <1>2, PTL DEF Spec

(* Every variable of the pool keeps its type, in particular the id handed  *)
(* out is always the index of a buffer.                                    *)
THEOREM PoolTypeCorrect == Spec => []TypeOK
<1>1. PoolInv => TypeOK
    BY DEF PoolInv
<1> QED
    BY <1>1, PoolInvariant, PTL

(* The bit found by the scan of alloc_msgbuf_id is still the first clear   *)
(* one when it is set: no id is given to two callers.                      *)
THEOREM ScanNeverStale == Spec => []ScanStillValid
<1>1. PoolInv => ScanStillValid
    BY DEF PoolInv
<1> QED
    BY <1>1, PoolInvariant, PTL

-----------------------------------------------------------------------------
(* The refinement                                                          *)

(* The pool as init_rpc_client leaves it is the abstract pool's beginning. *)
LEMMA RefinementInit == Init => Abstract!Init
BY EmptyBitmapType, BitArrSizeAssumption
DEF Init, Abstract!Init, Abstract!NoId, Taken, EmptyBitmap, Bits

(* A step inside the critical sections is a step of the abstract pool or   *)
(* none: the bit set is the grant, the bit cleared is the release.         *)
LEMMA RefinementStep == PoolInv /\ [Next]_vars => [Abstract!Next]_(Abstract!vars)
<1> SUFFICES ASSUME PoolInv, [Next]_vars
             PROVE  [Abstract!Next]_(Abstract!vars)
    OBVIOUS
<1> USE PoolAssumption
<1> DEFINE Wait == {t \in Threads : \/ pc[t] \in {"lock", "find", "set"}
                                    \/ pc[t] = "unlock" /\ ret[t] = 0}
           Result == [t \in Threads |->
                         IF pc[t] \in {"idle", "unlock"} /\ ret[t] = 1
                         THEN bit_id[t] ELSE -1]
<1>0. TypeOK /\ LockInv /\ RetInv /\ ScanStillValid
    BY DEF PoolInv
<1>s. ASSUME Taken(bitmap)' = Taken(bitmap), Wait' = Wait, Result' = Result
      PROVE  UNCHANGED Abstract!vars
    BY <1>s DEF Abstract!vars
<1>1. ASSUME NEW t \in Threads, AllocCall(t)
      PROVE  Abstract!Request(t)
    <2>1. t \notin Wait
        BY <1>1 DEF AllocCall, At
    <2>2. Wait' = Wait \cup {t}
        BY <1>0, <1>1 DEF AllocCall, At, Goto, TypeOK
    <2>3. Result' = [Result EXCEPT ![t] = -1]
        BY <1>0, <1>1 DEF AllocCall, At, Goto, TypeOK
    <2>4. Taken(bitmap)' = Taken(bitmap)
        BY <1>1 DEF AllocCall, Taken
    <2> QED
        BY <2>1, <2>2, <2>3, <2>4 DEF Abstract!Request, Abstract!NoId
<1>2. ASSUME NEW t \in Threads, AllocLock(t)
      PROVE  UNCHANGED Abstract!vars
    <2>1. Wait' = Wait
        BY <1>0, <1>2 DEF AllocLock, At, Goto, TypeOK
    <2>2. Result' = Result
        BY <1>0, <1>2 DEF AllocLock, At, Goto, TypeOK
    <2>3. Taken(bitmap)' = Taken(bitmap)
        BY <1>2 DEF AllocLock, Taken
    <2> QED
        BY <2>1, <2>2, <2>3, <1>s
<1>3. ASSUME NEW t \in Threads, AllocFind(t)
      PROVE  UNCHANGED Abstract!vars
    <2>1. Wait' = Wait
        BY <1>0, <1>3 DEF AllocFind, At, Goto, TypeOK
    <2>2. Result' = Result
        BY <1>0, <1>3 DEF AllocFind, At, Goto, TypeOK
    <2>3. Taken(bitmap)' = Taken(bitmap)
        BY <1>3 DEF AllocFind, Taken
    <2> QED
        BY <2>1, <2>2, <2>3, <1>s
<1>4. ASSUME NEW t \in Threads, AllocSet(t)
      PROVE  Abstract!Grant(t)
    <2> DEFINE i == bit_id[t]
    <2>1. i \in Bits /\ bitmap \in BitArrays
        BY <1>0 DEF TypeOK
    <2>2. bit_array_find_first_clear_bit(bitmap, i) /\ ret[t] = 1
        BY <1>0, <1>4 DEF AllocSet, At, ScanStillValid, RetInv
    <2>3. i \in Bits \ Taken(bitmap) /\ \A j \in Bits \ Taken(bitmap) : i <= j
        BY <2>1, <2>2, FoundIsSmallestFree
    <2>4. Taken(bitmap)' = Taken(bitmap) \cup {i}
        BY <1>4, <2>1, TakenUpdate DEF AllocSet
    <2>5. t \in Wait /\ Wait' = Wait \ {t}
        BY <1>0, <1>4, <2>2 DEF AllocSet, At, Goto, TypeOK
    <2>6. Result' = [Result EXCEPT ![t] = i]
        BY <1>0, <1>4, <2>2 DEF AllocSet, At, Goto, TypeOK
    <2> QED
        BY <2>3, <2>4, <2>5, <2>6 DEF Abstract!Grant
<1>5. ASSUME NEW t \in Threads, AllocUnlock(t)
      PROVE  UNCHANGED Abstract!vars
    <2>1. Wait' = Wait
        BY <1>0, <1>5 DEF AllocUnlock, At, Goto, TypeOK
    <2>2. Result' = Result
        BY <1>0, <1>5 DEF AllocUnlock, At, Goto, TypeOK
    <2>3. Taken(bitmap)' = Taken(bitmap)
        BY <1>5 DEF AllocUnlock, Taken
    <2> QED
        BY <2>1, <2>2, <2>3, <1>s
<1>6. ASSUME UNCHANGED <<bitmap, pc, ret, bit_id>>
      PROVE  UNCHANGED Abstract!vars
    BY <1>6, <1>s DEF Taken
<1>7. CASE FreeClear
    <2>1. cb_bit_id \in Bits /\ bitmap \in BitArrays
        BY <1>0 DEF TypeOK
    <2>2. Taken(bitmap)' = Taken(bitmap) \ {cb_bit_id}
        BY <1>7, <2>1, TakenUpdate DEF FreeClear
    <2>3. Wait' = Wait /\ Result' = Result
        BY <1>7 DEF FreeClear, threadVars
    <2>4. Abstract!Release(cb_bit_id)
        BY <2>2, <2>3 DEF Abstract!Release
    <2> QED
        BY <2>1, <2>4 DEF Abstract!Next
<1>8. CASE FreeCall \/ FreeLock \/ FreeUnlock
    BY <1>6, <1>8 DEF FreeCall, FreeLock, FreeUnlock, threadVars
<1>9. CASE UNCHANGED vars
    BY <1>6, <1>9 DEF vars, threadVars
<1> QED
    BY <1>1, <1>2, <1>3, <1>4, <1>5, <1>7, <1>8, <1>9
    DEF Next, AllocStep, FreeStep, Abstract!Next

(* alloc_msgbuf_id and free_msgbuf_id, with their lock and their retry     *)
(* loop, implement the pool in which an id is granted or released in one   *)
(* step.                                                                   *)
THEOREM PoolRefines == Spec => AbstractSpec
<1>1. Init => Abstract!Init
    BY RefinementInit
<1>2. PoolInv /\ [Next]_vars => [Abstract!Next]_(Abstract!vars)
    BY RefinementStep
<1> QED
    BY <1>1, <1>2, PoolInvariant, PTL DEF Spec, AbstractSpec, Abstract!Spec
=============================================================================
