----------------------------- MODULE MsgBufPool -----------------------------
(***************************************************************************)
(* rpc_common.c: alloc_msgbuf_id, called by the threads that send a        *)
(* request, and free_msgbuf_id, called by the completion callback when a   *)
(* response arrives.  Both work on the channel's bitmap under the spin     *)
(* lock msgbuf_bitmap_lock; every access inside the critical section is a  *)
(* step of its own.                                                        *)
(*                                                                         *)
(* The callback is called straight from the completion handler of the CQ.  *)
(* Some providers run that handler in interrupt context on a CPU that was  *)
(* executing one of the threads: that thread is then preempted and takes   *)
(* no step until the callback returns.  IrqPreempts says whether the       *)
(* provider does.                                                          *)
(***************************************************************************)
EXTENDS Bitmap

CONSTANTS
    Threads,        \* callers of alloc_msgbuf_id
    Callback,       \* the completion callback, as an owner of the lock
    Nobody,         \* the lock is free; no thread is preempted
    IrqPreempts     \* the callback may interrupt a thread

ASSUME PoolAssumption ==
    /\ Callback \notin Threads
    /\ Nobody \notin Threads \cup {Callback}
    /\ IrqPreempts \in BOOLEAN

VARIABLES
    bitmap,     \* rpc_ch->msgbuf_bitmap
    lock,       \* rpc_ch->msgbuf_bitmap_lock: its holder
    pc,         \* where each thread is in alloc_msgbuf_id
    ret,        \* local ret of each thread
    bit_id,     \* local bit_id of each thread; the id returned when idle
    cbpc,       \* where the callback is in free_msgbuf_id
    cb_bit_id,  \* the bit_id passed to free_msgbuf_id
    preempted   \* the thread the callback runs on top of

threadVars == <<pc, ret, bit_id>>
cbVars == <<cbpc, cb_bit_id, preempted>>
vars == <<bitmap, lock, threadVars, cbVars>>

Init ==
    /\ bitmap = EmptyBitmap
    /\ lock = Nobody
    /\ pc = [t \in Threads |-> "idle"]
    /\ ret = [t \in Threads |-> 0]
    /\ bit_id = [t \in Threads |-> 0]
    /\ cbpc = "idle"
    /\ cb_bit_id = 0
    /\ preempted = Nobody

-----------------------------------------------------------------------------
(* alloc_msgbuf_id                                                         *)

At(t, where) == preempted # t /\ pc[t] = where

Goto(t, where) == pc' = [pc EXCEPT ![t] = where]

AllocCall(t) ==
    /\ At(t, "idle")
    /\ ret' = [ret EXCEPT ![t] = 0]
    /\ Goto(t, "lock")
    /\ UNCHANGED <<bitmap, lock, bit_id, cbVars>>

(* Mutant: the scan runs without the lock. *)
AllocLockSkipped(t) ==
    /\ At(t, "lock")
    /\ Goto(t, "find")
    /\ UNCHANGED <<bitmap, lock, ret, bit_id, cbVars>>

AllocLock(t) ==
    /\ At(t, "lock")
    /\ lock = Nobody
    /\ lock' = t
    /\ Goto(t, "find")
    /\ UNCHANGED <<bitmap, ret, bit_id, cbVars>>

AllocFind(t) ==
    /\ At(t, "find")
    /\ \/ \E i \in Bits :
            /\ bit_array_find_first_clear_bit(bitmap, i)
            /\ bit_id' = [bit_id EXCEPT ![t] = i]
            /\ ret' = [ret EXCEPT ![t] = 1]
            /\ Goto(t, "set")
       \/ /\ NoClearBit(bitmap)
          /\ ret' = [ret EXCEPT ![t] = 0]
          /\ Goto(t, "unlock")
          /\ UNCHANGED bit_id
    /\ UNCHANGED <<bitmap, lock, cbVars>>

AllocSet(t) ==
    /\ At(t, "set")
    /\ bitmap' = bit_array_set_bit(bitmap, bit_id[t])
    /\ Goto(t, "unlock")
    /\ UNCHANGED <<lock, ret, bit_id, cbVars>>

(* Mutant: the retry goes round the loop without giving up the lock. *)
AllocUnlockKept(t) ==
    /\ At(t, "unlock")
    /\ lock' = IF ret[t] = 1 THEN Nobody ELSE lock
    /\ Goto(t, IF ret[t] = 1 THEN "idle" ELSE "find")
    /\ UNCHANGED <<bitmap, ret, bit_id, cbVars>>

(* Unlock, then break with the id or go round the loop again. *)
AllocUnlock(t) ==
    /\ At(t, "unlock")
    /\ lock' = Nobody
    /\ Goto(t, IF ret[t] = 1 THEN "idle" ELSE "lock")
    /\ UNCHANGED <<bitmap, ret, bit_id, cbVars>>

-----------------------------------------------------------------------------
(* free_msgbuf_id, called by client_rpc_rdma_msg_handler                   *)

(* Mutant: buffer ids counted from 1. *)
FreeCallFromOne ==
    /\ cbpc = "idle"
    /\ cb_bit_id' \in 1 .. BIT_ARR_SIZE
    /\ preempted' \in IF IrqPreempts THEN Threads \cup {Nobody} ELSE {Nobody}
    /\ cbpc' = "lock"
    /\ UNCHANGED <<bitmap, lock, threadVars>>

(* The callback is entered with the index of the receive buffer in which   *)
(* the response landed; the provider decides on top of whom it runs.       *)
FreeCall ==
    /\ cbpc = "idle"
    /\ cb_bit_id' \in Bits
    /\ preempted' \in IF IrqPreempts THEN Threads \cup {Nobody} ELSE {Nobody}
    /\ cbpc' = "lock"
    /\ UNCHANGED <<bitmap, lock, threadVars>>

FreeLock ==
    /\ cbpc = "lock"
    /\ lock = Nobody
    /\ lock' = Callback
    /\ cbpc' = "clear"
    /\ UNCHANGED <<bitmap, threadVars, cb_bit_id, preempted>>

FreeClear ==
    /\ cbpc = "clear"
    /\ bitmap' = bit_array_clear_bit(bitmap, cb_bit_id)
    /\ cbpc' = "unlock"
    /\ UNCHANGED <<lock, threadVars, cb_bit_id, preempted>>

FreeUnlock ==
    /\ cbpc = "unlock"
    /\ lock' = Nobody
    /\ cbpc' = "idle"
    /\ preempted' = Nobody
    /\ UNCHANGED <<bitmap, threadVars, cb_bit_id>>

-----------------------------------------------------------------------------
AllocStep(t) ==
    AllocLock(t) \/ AllocFind(t) \/ AllocSet(t) \/ AllocUnlock(t)

FreeStep == FreeLock \/ FreeClear \/ FreeUnlock

Next ==
    \/ \E t \in Threads : AllocCall(t) \/ AllocStep(t)
    \/ FreeCall
    \/ FreeStep

Spec == Init /\ [][Next]_vars

(* A thread inside the functions keeps running; the kernel's spin lock is  *)
(* queued, so whoever keeps waiting for it gets it.                        *)
FairSpec ==
    /\ Spec
    /\ \A t \in Threads : WF_vars(AllocStep(t)) /\ SF_vars(AllocLock(t))
    /\ WF_vars(FreeStep) /\ SF_vars(FreeLock)

-----------------------------------------------------------------------------
TypeOK ==
    /\ bitmap \in BitArrays
    /\ lock \in Threads \cup {Callback, Nobody}
    /\ pc \in [Threads -> {"idle", "lock", "find", "set", "unlock"}]
    /\ ret \in [Threads -> {0, 1}]
    /\ bit_id \in [Threads -> Bits]
    /\ cbpc \in {"idle", "lock", "clear", "unlock"}
    /\ cb_bit_id \in Bits
    /\ preempted \in Threads \cup {Nobody}

(* The result of the scan is not stale when it is used: between            *)
(* bit_array_find_first_clear_bit and bit_array_set_bit the bit stays the  *)
(* first clear one, whatever other callers and the callback do, so no      *)
(* caller is given an id somebody else was given first.                    *)
ScanStillValid ==
    \A t \in Threads :
        pc[t] = "set" => bit_array_find_first_clear_bit(bitmap, bit_id[t])

(* Who is inside a critical section is who the lock says.                  *)
LockInv ==
    /\ \A t \in Threads : pc[t] \in {"find", "set", "unlock"} <=> lock = t
    /\ cbpc \in {"clear", "unlock"} <=> lock = Callback

(* A thread that is still looking has ret = 0; one that found has 1.       *)
RetInv ==
    \A t \in Threads : /\ pc[t] \in {"lock", "find"} => ret[t] = 0
                       /\ pc[t] = "set" => ret[t] = 1

(* The inductive invariant. *)
PoolInv == TypeOK /\ LockInv /\ RetInv /\ ScanStillValid

(* The pool as its callers see it: the bitmap is the set of taken ids, a   *)
(* thread has its id from the moment the bit is set under the lock.        *)
Abstract == INSTANCE IdPool WITH
    Ids <- Bits,
    used <- Taken(bitmap),
    waiting <- {t \in Threads : \/ pc[t] \in {"lock", "find", "set"}
                                \/ pc[t] = "unlock" /\ ret[t] = 0},
    result <- [t \in Threads |->
                  IF pc[t] \in {"idle", "unlock"} /\ ret[t] = 1
                  THEN bit_id[t] ELSE -1]

(* The spin lock, the scan and the retry loop of rpc_common.c implement    *)
(* the one-step pool: the callers cannot tell the difference.              *)
AbstractSpec == Abstract!Spec

(* The callback does not spin on a lock whose holder it has interrupted.   *)
(* A callback executed "in a worker thread", as rdma.c says, could not.    *)
NoSelfDeadlock == ~ (cbpc = "lock" /\ lock \in Threads /\ lock = preempted)

(* A callback that wants to free an id does free it, unless it has         *)
(* interrupted the holder of the lock: no caller keeps the lock while it   *)
(* goes round the loop of alloc_msgbuf_id.                                 *)
FreeCompletes == cbpc = "lock" ~> (cbpc = "idle" \/ ~ NoSelfDeadlock)

(* A caller of alloc_msgbuf_id comes back with an id, unless every id is   *)
(* taken or the callback has interrupted the holder of the lock: it never  *)
(* misses a clear bit for ever, however often it is interrupted.           *)
AllocReturnsOrPoolFull ==
    \A t \in Threads :
        pc[t] = "lock" ~>
            (pc[t] = "idle" \/ Taken(bitmap) = Bits \/ ~ NoSelfDeadlock)
=============================================================================
