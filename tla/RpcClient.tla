------------------------------ MODULE RpcClient ------------------------------
(***************************************************************************)
(* The whole life of one write to /proc/krping (rpc_client_test.c): the    *)
(* module's reference count, test_main, the channel of RdmaConn, one       *)
(* request on it, and the completion callback (cq_thread and what it       *)
(* calls) running against the tear-down by destroy_rpc_client.             *)
(*                                                                         *)
(* The callback is kept here as the order in which it uses what the        *)
(* tear-down frees; what it does to the buffers and queues is RpcChannel.  *)
(***************************************************************************)
EXTENDS RdmaConn

VARIABLES
    upc,        \* where the writer is, outside init and destroy_rpc_client
    refs,       \* references to the module
    test,       \* test_main's stack, with the semaphore, and its cmd buffer
    pend,       \* what the device and the server still owe
    cqes,       \* completions in the CQ
    cbpc,       \* where the completion callback is
    header,     \* what receive_msg copied: the message, or what a freed buffer held
    handled,    \* the user's handler has been run with the answer
    waited,     \* it had been when test_main went on
    cbad        \* what the callback used when it was not live

writeVars == <<upc, refs, test>>
cbVars == <<cbpc, header, handled, cbad>>
clientVars == <<writeVars, pend, cqes, cbVars, waited>>
allVars == <<vars, clientVars>>

ClientInit ==
    /\ Init
    /\ upc = "write"
    /\ refs = 0
    /\ test = "none"
    /\ pend = {}
    /\ cqes = {}
    /\ cbpc = "idle"
    /\ header = "message"
    /\ handled = FALSE
    /\ waited = FALSE
    /\ cbad = {}

-----------------------------------------------------------------------------
(* krping_write_proc and test_main                                         *)

(* try_module_get, the copy of the command, and the call of test_main.     *)
(* The error exits after try_module_get keep the reference.                *)
WriteProc ==
    /\ upc = "write"
    /\ \/ upc' = "init" /\ test' = "live" /\ refs' = refs + 1
       \/ Fault("nomem") /\ upc' = "done" /\ refs' = refs + 1 /\ UNCHANGED test
       \/ Fault("unload") /\ upc' = "done" /\ UNCHANGED <<refs, test>>
    /\ UNCHANGED <<vars, pend, cqes, cbVars, waited>>

(* test_main does not look at the 16 bytes it allocates for the address:   *)
(* in4_pton stores through NULL.  (Nor does it free them.)                 *)
AddrCrashes ==
    /\ upc = "init"
    /\ Fault("nomem")
    /\ At("init_rpc_client", "oops")
    /\ failed' = TRUE
    /\ UNCHANGED <<ret, result, cmVars, qpVars, res, bad, clientVars>>

(* init_rpc_client, step by step; run_client posts the receive buffers. *)
InitRpc ==
    /\ upc = "init"
    /\ InitStep
    /\ pend' = IF posted' > posted THEN {"flush"} ELSE pend
    /\ UNCHANGED <<writeVars, cqes, cbVars, waited>>

SignalWaiter == upc = "init" /\ Signal /\ UNCHANGED clientVars

(* test_main sends before it tests the channel for NULL: alloc_msgbuf_id   *)
(* follows rpc_ch and its bitmap, send_rdma_msg the send buffer and the    *)
(* queue pair.                                                             *)
Needed == {"rpc_ch", "bitmap", "bufs", "qp"}

SendCrashes ==
    /\ upc = "init"
    /\ pc = "returned"
    /\ result = "NULL" \/ \E r \in Needed : res[r] = "none"
    /\ pc' = "oops"
    /\ UNCHANGED <<outVars, cmVars, qpVars, res, bad, clientVars>>

SendRequest ==
    /\ upc = "init"
    /\ pc = "returned"
    /\ result = "channel"
    /\ \A r \in Needed : res[r] # "none"
    /\ Use(Needed \cup {"cb", "ctxs"})
    /\ pend' = pend \cup {"send", "recv", "flush"}
    /\ upc' = "sent"
    /\ UNCHANGED <<pc, outVars, cmVars, qpVars, res, refs, test, cqes, cbVars, waited>>

(* Mutant: test_main returns without destroy_rpc_client. *)
LeaveNoDestroy ==
    /\ upc = "sent"
    /\ upc' = "destroy"
    /\ pc' = "destroyed"
    /\ waited' = handled
    /\ UNCHANGED <<outVars, cmVars, qpVars, res, bad, refs, test, pend, cqes, cbVars>>

(* "Waiting server response": the wait is commented out, so test_main goes *)
(* on at once; waited says whether the answer had come all the same, as it *)
(* would have for a requester that waits.                                  *)
Leave ==
    /\ upc = "sent"
    /\ upc' = "destroy"
    /\ waited' = handled
    /\ UNCHANGED <<vars, refs, test, pend, cqes, cbVars>>

(* destroy_rpc_client; rdma_disconnect takes the queue pair to error. *)
DestroyRpc ==
    /\ upc = "destroy"
    /\ DestroyStep
    /\ UNCHANGED clientVars

(* ib_destroy_qp takes the queue pair's completions out of the CQ. *)
FreeQp ==
    \/ (KfreeBuffers \/ NullDeref) /\ UNCHANGED clientVars
    \/ DestroyQp /\ pend' = {} /\ cqes' = {} /\ UNCHANGED <<writeVars, cbVars, waited>>

(* ib_destroy_cq returns when the callback is not running. *)
FreeCq == cbpc = "idle" /\ DestroyCq /\ UNCHANGED clientVars

(* test_main returns; krping_write_proc frees the command and gives the    *)
(* reference back.                                                         *)
ModulePut ==
    /\ upc = "destroy"
    /\ pc = "destroyed"
    /\ upc' = "done"
    /\ test' = "freed"
    /\ refs' = refs - 1
    /\ UNCHANGED <<vars, pend, cqes, cbVars, waited>>

-----------------------------------------------------------------------------
(* The device, the server and the connection manager                       *)

(* The send completes, or the answer arrives, on a connection that is up;  *)
(* on one that is not, everything posted is flushed.                       *)
Deliver ==
    /\ res["qp"] = "live"
    /\ IF cm = "connected"
       THEN \E e \in pend \ {"flush"} : pend' = pend \ {e} /\ cqes' = cqes \cup {e}
       ELSE /\ cm \in {"disconnecting", "disconnected", "failed"}
            /\ pend # {}
            /\ pend' = {}
            /\ cqes' = cqes \cup {"flush"}
    /\ UNCHANGED <<vars, writeVars, cbVars, waited>>

CmEvents ==
    /\ CmAnswer \/ CmDisconnected \/ CmDeviceRemoval
    /\ UNCHANGED clientVars

-----------------------------------------------------------------------------
(* The completion callback                                                 *)

(* What the callback reaches: resources of the channel, test_main's stack, *)
(* and whatever lies at an address that no longer is one.                  *)
Live(r) ==
    CASE r = "test" -> test = "live"
      [] r = "stray" -> FALSE
      [] OTHER -> res[r] = "live"

CbUse(from, to, R) ==
    /\ cbpc = from
    /\ cbpc' = to
    /\ cbad' = cbad \cup {r \in R : ~ Live(r)}
    /\ UNCHANGED <<pc, outVars, cm, qpVars, res, bad, writeVars, pend, waited>>

(* cq_thread: the state is tested, the CQ armed.  The ret tested next is   *)
(* taken for 0: when it is not, the callback uses nothing more (and what   *)
(* becomes of the completions is for RpcChannel to say).                   *)
CqThread ==
    /\ res["cq"] = "live"
    /\ cqes # {}
    /\ state # ERROR
    /\ CbUse("idle", "poll", {"cb", "cq"})
    /\ UNCHANGED <<state, cqes, header, handled>>

(* cq_event_handler polls until the CQ is empty: sends and flushed         *)
(* requests are skipped, a received message goes to receive_msg.           *)
CbPoll ==
    \/ /\ cqes = {}
       /\ CbUse("poll", "idle", {"cb", "cq"})
       /\ UNCHANGED <<state, cqes, header, handled>>
    \/ \E e \in cqes :
          /\ CbUse("poll", IF e = "recv" THEN "receive_msg" ELSE "poll", {"cb", "cq"})
          /\ cqes' = cqes \ {e}
          /\ UNCHANGED <<state, header, handled>>

(* error: of cq_event_handler, for a completion with an error status or a  *)
(* poll that fails, for a receive_msg that fails and for an ib_post_recv   *)
(* that does.                                                              *)
CbError ==
    /\ Fault("completion")
    /\ \/ /\ CbUse("poll", "idle", {"cb", "cq"})
          /\ cqes' = cqes \/ \E e \in cqes : cqes' = cqes \ {e}
       \/ CbUse("receive_msg", "idle", {"cb"}) /\ UNCHANGED cqes
       \/ CbUse("repost", "idle", {"cb", "ctxs", "qp"}) /\ UNCHANGED cqes
    /\ state' = ERROR
    /\ UNCHANGED <<header, handled>>

(* receive_msg copies the message, and with it the addresses of the        *)
(* semaphore and of the channel, out of the receive buffer.  A buffer that *)
(* is freed may still hold them or hold anything.                          *)
ReceiveMsg ==
    /\ CbUse("receive_msg", "handler", {"cb", "ctxs", "bufs"})
    /\ header' \in {"message"} \cup IF Live("bufs") THEN {} ELSE {"garbage"}
    /\ UNCHANGED <<state, cqes, handled>>

(* receive_msg tests the state and stores WORKING, in two steps in         *)
(* RpcChannel: here the writer's waits are over when it does.              *)
SetWorking == state' = IF state <= CONNECTED THEN WORKING ELSE state

(* client_rpc_rdma_msg_handler gives the id back to the channel of the     *)
(* header, client_rdma_msg_handler wakes its semaphore ...                 *)
MsgHandler ==
    /\ header = "message"
    /\ CbUse("handler", "repost", {"rpc_ch", "bitmap", "test", "cb"})
    /\ handled' = TRUE
    /\ SetWorking
    /\ UNCHANGED <<cqes, header>>

(* ... or they follow addresses that are none: they crash, or lock, clear  *)
(* and wake something else.                                                *)
MsgHandlerAstray ==
    /\ header = "garbage"
    /\ \/ CbUse("handler", "repost", {"stray", "cb"}) /\ SetWorking
       \/ CbUse("handler", "oops", {"stray"}) /\ UNCHANGED state
    /\ UNCHANGED <<cqes, header, handled>>

(* Mutant: the receive buffer is cleared before it is posted again. *)
RepostClears ==
    /\ CbUse("repost", "poll", {"cb", "ctxs", "qp", "bufs"})
    /\ UNCHANGED <<state, cqes, header, handled>>

(* cq_event_handler posts the receive buffer again. *)
Repost ==
    /\ CbUse("repost", "poll", {"cb", "ctxs", "qp"})
    /\ UNCHANGED <<state, cqes, header, handled>>

Callback ==
    \/ CqThread \/ CbPoll \/ CbError \/ ReceiveMsg
    \/ MsgHandler \/ MsgHandlerAstray \/ Repost

-----------------------------------------------------------------------------
Writer ==
    \/ WriteProc \/ AddrCrashes \/ InitRpc \/ SendCrashes \/ SendRequest \/ Leave
    \/ DestroyRpc \/ FreeQp \/ FreeCq \/ ModulePut

ClientNext == Writer \/ SignalWaiter \/ Callback \/ Deliver \/ CmEvents

ClientSpec == ClientInit /\ [][ClientNext]_allVars

(* The writer's thread and the callback run, and the connection manager    *)
(* answers what it is asked: rdma_resolve_addr and rdma_resolve_route      *)
(* carry a timeout of 2 s, rdma_connect is retried 7 times.  Neither an    *)
(* answer of the server nor a signal is promised.                          *)
ClientFairSpec ==
    /\ ClientSpec
    /\ WF_allVars(Writer)
    /\ WF_allVars(Callback)
    /\ WF_allVars(CmAnswer /\ UNCHANGED clientVars)

-----------------------------------------------------------------------------
(* Properties                                                              *)

ClientTypeOK ==
    /\ TypeOK
    /\ upc \in {"write", "init", "sent", "destroy", "done"}
    /\ refs \in 0 .. 1
    /\ test \in {"none", "live", "freed"}
    /\ pend \subseteq {"send", "recv", "flush"}
    /\ cqes \subseteq {"send", "recv", "flush"}
    /\ cbpc \in {"idle", "poll", "receive_msg", "handler", "repost", "oops"}
    /\ header \in {"message", "garbage"}
    /\ handled \in BOOLEAN
    /\ waited \in BOOLEAN
    /\ cbad \subseteq Resources \cup {"test", "stray"}

(* How far the callback can fall behind the tear-down: it may post a       *)
(* receive on a queue pair that is gone.  It may read a receive buffer     *)
(* that is gone, and then follow what it finds there for the addresses of  *)
(* channel and semaphore, only if test_main did not have its answer when   *)
(* it went on (or set-up had lost the buffers).  What it reaches by        *)
(* addresses that are good (control block, contexts, CQ, channel, the      *)
(* semaphore on test_main's stack) is there: ib_destroy_cq waits for it    *)
(* first.                                                                  *)
TearDownWindow ==
    cbad \subseteq {"qp"} \cup IF waited /\ ~ failed THEN {} ELSE {"bufs", "stray"}

(* The module's code stays loaded as long as a handler in it may be        *)
(* called: whoever gives the last reference back has destroyed cm_id and   *)
(* the CQ, whatever failed on the way.                                     *)
CallbackCodePinned ==
    refs = 0 => cbpc = "idle" /\ \A r \in {"cm_id", "cq"} : res[r] # "live"

(* test_main's use of a channel before it has tested it, and every other   *)
(* NULL that the writer follows, needs a failure first; the callback       *)
(* crashes only if there was one or the answer was not waited for.  No     *)
(* life without either ends in a crash, whatever the peer does.            *)
CrashNeedsFailure ==
    /\ pc = "oops" => failed \/ result = "NULL"
    /\ cbpc = "oops" => failed \/ ~ waited

(* A write to /proc/krping comes to an end, or it or the callback crashes, *)
(* unless it waits for an event of a cm_id that the connection manager has *)
(* taken away when cma_event_handler has not stored ERROR: no other wait   *)
(* is without end, and ib_destroy_cq does not wait for a callback that     *)
(* waits for the writer.                                                   *)
WriteEnds ==
    <>(\/ upc = "done" \/ pc = "oops" \/ cbpc = "oops"
       \/ /\ pc \in {"wait_route", "wait_conn"}
          /\ res["cm_id"] = "freed"
          /\ state # ERROR)

-----------------------------------------------------------------------------
(* What comments and messages of the code say                              *)

(* The semaphore "is used to wait until server's response (ack) arrives":  *)
(* when the channel is destroyed the callback is done with it and uses     *)
(* nothing that is gone.                                                   *)
CallbackUsesLive == cbad = {}
=============================================================================
