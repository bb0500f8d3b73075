--------------------------- MODULE RpcClientProofs ---------------------------
(***************************************************************************)
(* Proofs about a write to /proc/krping with its completion callback, for  *)
(* every number of buffers, every receive queue depth and every set of     *)
(* faults.  ConnInv of RdmaConnProofs is extended by what the writer and   *)
(* the callback add.                                                       *)
(***************************************************************************)
EXTENDS RpcClient, RdmaConnProofs

(* Where the writer is and where its thread is inside the channel's code,  *)
(* the reference it holds and the stack frame of test_main.                *)
WriterInv ==
    /\ upc = "write" => pc = "init_rpc_client" /\ refs = 0 /\ test = "none"
    /\ upc \in {"init", "sent", "destroy"} => refs = 1 /\ test = "live"
    /\ upc = "init" => \/ pc \in InitPcs \cup {"returned", "oops"}
                       \/ pc \in FreePcs /\ result = "none"
    /\ upc = "sent" => pc = "returned" /\ result = "channel"
    /\ upc = "destroy" => /\ pc \in {"returned", "oops"} \cup FreePcs \cup DestroyPcs
                          /\ result = "channel"
    /\ upc \in {"sent", "destroy"} => res["bitmap"] # "none"
    /\ upc = "done" => \/ pc = "init_rpc_client" /\ test = "none"
                       \/ pc = "destroyed" /\ refs = 0

(* The callback runs on a CQ that exists, whose queue pair was created;    *)
(* completions are those of a queue pair that exists.                      *)
QueueInv ==
    /\ cqes # {} => res["qp"] = "live"
    /\ cbpc # "idle" => res["cq"] = "live" /\ res["qp"] # "none"
    /\ pc \in {"destroy_cq"} \cup DestroyPcs => pend = {}

InAnswer == {"receive_msg", "handler", "repost", "oops"}

(* There is one answer: it is awaited, in the CQ, in the callback's hands, *)
(* or the user's handler has been run with it.                             *)
AnswerInv ==
    /\ "recv" \in pend \cup cqes \/ cbpc \in InAnswer => upc \in {"sent", "destroy"}
    /\ "recv" \in cqes => "recv" \notin pend
    /\ cbpc \in InAnswer \/ handled => "recv" \notin pend \cup cqes
    /\ handled => cbpc \notin {"receive_msg", "handler", "oops"} /\ upc \notin {"write", "init"}
    /\ waited => handled /\ upc \in {"destroy", "done"}

(* What the callback may have missed.  It goes astray only after it has    *)
(* read a receive buffer that was gone.                                    *)
CbadInv ==
    /\ cbad \subseteq {"qp", "bufs", "stray"}
    /\ "bufs" \in cbad => failed \/ (upc \in {"destroy", "done"} /\ ~ waited)
    /\ "stray" \in cbad \/ (header = "garbage" /\ cbpc = "handler") => "bufs" \in cbad
    /\ cbpc = "oops" => "bufs" \in cbad

ClientInv == ClientTypeOK /\ ConnInv /\ WriterInv /\ QueueInv /\ AnswerInv /\ CbadInv

-----------------------------------------------------------------------------
(* The steps that touch the channel's state and are not steps of           *)
(* RdmaConn keep ConnInv.                                                  *)

(* test_main stores the address through NULL. *)
LEMMA AddrCrashesConn ==
    ASSUME ConnInv, AddrCrashes
    PROVE  ConnInv'
<1> USE ConnAssumption DEF InitPcs, AllocPcs, BindPcs, QpPcs, FreePcs, DestroyPcs, Established,
        Resources, QpResources, cmVars, qpVars, outVars, Needed,
        IDLE, ADDR_RESOLVED, ROUTE_RESOLVED, CONNECTED, WORKING, DISCONNECTED, ERROR
<1>0. TypeOK /\ OutcomeInv /\ ContextInv /\ SetUpInv /\ TearDownInv /\ CmInv /\ CleanInv
    BY DEF ConnInv
<1> USE <1>0 DEF AddrCrashes, At
<1>1. TypeOK'
    BY DEF TypeOK
<1>2. OutcomeInv'
    BY DEF TypeOK, OutcomeInv, ContextInv, TearDownInv
<1>3. ContextInv'
    BY DEF TypeOK, ContextInv
<1>4. SetUpInv'
    BY DEF TypeOK, SetUpInv
<1>5. TearDownInv'
    BY DEF TypeOK, TearDownInv
<1>6. CmInv'
    BY DEF TypeOK, CmInv, OutcomeInv
<1>7. CleanInv'
    BY DEF TypeOK, CleanInv, ContextInv, TearDownInv, CmInv
<1> QED
    BY <1>1, <1>2, <1>3, <1>4, <1>5, <1>6, <1>7 DEF ConnInv

(* test_main sends on what is not a channel. *)
LEMMA SendCrashesConn ==
    ASSUME ConnInv, SendCrashes
    PROVE  ConnInv'
<1> USE ConnAssumption DEF InitPcs, AllocPcs, BindPcs, QpPcs, FreePcs, DestroyPcs, Established,
        Resources, QpResources, cmVars, qpVars, outVars, Needed,
        IDLE, ADDR_RESOLVED, ROUTE_RESOLVED, CONNECTED, WORKING, DISCONNECTED, ERROR
<1>0. TypeOK /\ OutcomeInv /\ ContextInv /\ SetUpInv /\ TearDownInv /\ CmInv /\ CleanInv
    BY DEF ConnInv
<1> USE <1>0 DEF SendCrashes
<1>1. TypeOK'
    BY DEF TypeOK
<1>2. OutcomeInv'
    BY DEF TypeOK, OutcomeInv, ContextInv, TearDownInv
<1>3. ContextInv'
    BY DEF TypeOK, ContextInv
<1>4. SetUpInv'
    BY DEF TypeOK, SetUpInv
<1>5. TearDownInv'
    BY DEF TypeOK, TearDownInv
<1>6. CmInv'
    BY DEF TypeOK, CmInv, OutcomeInv
<1>7. CleanInv'
    BY DEF TypeOK, CleanInv, ContextInv, TearDownInv, CmInv
<1> QED
    BY <1>1, <1>2, <1>3, <1>4, <1>5, <1>6, <1>7 DEF ConnInv

(* A request is sent on the channel. *)
LEMMA SendRequestConn ==
    ASSUME ConnInv, SendRequest
    PROVE  ConnInv'
<1> USE ConnAssumption DEF InitPcs, AllocPcs, BindPcs, QpPcs, FreePcs, DestroyPcs, Established,
        Resources, QpResources, cmVars, qpVars, outVars, Needed,
        IDLE, ADDR_RESOLVED, ROUTE_RESOLVED, CONNECTED, WORKING, DISCONNECTED, ERROR
<1>0. TypeOK /\ OutcomeInv /\ ContextInv /\ SetUpInv /\ TearDownInv /\ CmInv /\ CleanInv
    BY DEF ConnInv
<1> USE <1>0, UseFacts DEF SendRequest
<1>1. TypeOK'
    BY DEF TypeOK
<1>2. OutcomeInv'
    BY DEF TypeOK, OutcomeInv, ContextInv, TearDownInv
<1>3. ContextInv'
    BY DEF TypeOK, ContextInv
<1>4. SetUpInv'
    BY DEF TypeOK, SetUpInv
<1>5. TearDownInv'
    BY DEF TypeOK, TearDownInv
<1>6. CmInv'
    BY DEF TypeOK, CmInv, OutcomeInv
<1>7. CleanInv'
    BY DEF TypeOK, CleanInv, ContextInv, TearDownInv, CmInv
<1> QED
    BY <1>1, <1>2, <1>3, <1>4, <1>5, <1>6, <1>7 DEF ConnInv

(* The callback stores WORKING or ERROR, and touches nothing else of the   *)
(* channel's state.                                                        *)
LEMMA CallbackConn ==
    ASSUME ConnInv, MsgHandler \/ MsgHandlerAstray \/ CbError
    PROVE  ConnInv'
<1> USE ConnAssumption DEF InitPcs, AllocPcs, BindPcs, QpPcs, FreePcs, DestroyPcs, Established,
        Resources, QpResources, cmVars, qpVars, outVars, Needed,
        IDLE, ADDR_RESOLVED, ROUTE_RESOLVED, CONNECTED, WORKING, DISCONNECTED, ERROR
<1>0. TypeOK /\ OutcomeInv /\ ContextInv /\ SetUpInv /\ TearDownInv /\ CmInv /\ CleanInv
    BY DEF ConnInv
<1>a. /\ UNCHANGED <<pc, ret, failed, result, cm, rq_depth, posted, res, bad>>
      /\ state' \in {state, WORKING, ERROR}
    BY DEF MsgHandler, MsgHandlerAstray, CbError, CbUse, SetWorking
<1> USE <1>0, <1>a
<1>1. TypeOK'
    BY DEF TypeOK
<1>2. OutcomeInv'
    BY DEF TypeOK, OutcomeInv, ContextInv, TearDownInv
<1>3. ContextInv'
    BY DEF TypeOK, ContextInv
<1>4. SetUpInv'
    BY DEF TypeOK, SetUpInv
<1>5. TearDownInv'
    BY DEF TypeOK, TearDownInv
<1>6. CmInv'
    BY DEF TypeOK, CmInv, OutcomeInv
<1>7. CleanInv'
    BY DEF TypeOK, CleanInv, ContextInv, TearDownInv, CmInv
<1> QED
    BY <1>1, <1>2, <1>3, <1>4, <1>5, <1>6, <1>7 DEF ConnInv

(* Every step of a write keeps ConnInv. *)
LEMMA ClientConnStep ==
    ASSUME ConnInv, [ClientNext]_allVars
    PROVE  ConnInv'
<1>1. CASE UNCHANGED vars
    BY <1>1, ConnStep
<1>2. CASE InitRpc \/ SignalWaiter \/ DestroyRpc \/ FreeQp \/ FreeCq \/ CmEvents
    <2>1. Next
        BY <1>2 DEF InitRpc, SignalWaiter, DestroyRpc, FreeQp, FreeCq, CmEvents, Next, FreeStep
    <2> QED
        BY <2>1, ConnStep
<1>3. CASE SendCrashes
    BY <1>3, SendCrashesConn
<1>4. CASE SendRequest
    BY <1>4, SendRequestConn
<1>5. CASE MsgHandler \/ MsgHandlerAstray \/ CbError
    BY <1>5, CallbackConn
<1>8. CASE AddrCrashes
    BY <1>8, AddrCrashesConn
<1>6. CASE WriteProc \/ Leave \/ ModulePut \/ Deliver
    <2>1. UNCHANGED vars
        BY <1>6 DEF WriteProc, Leave, ModulePut, Deliver
    <2> QED
        BY <2>1, ConnStep
<1>7. CASE CqThread \/ CbPoll \/ ReceiveMsg \/ Repost
    <2>1. UNCHANGED vars
        BY <1>7 DEF CqThread, CbPoll, ReceiveMsg, Repost, CbUse, vars, outVars, qpVars
    <2> QED
        BY <2>1, ConnStep
<1> QED
    BY <1>1, <1>2, <1>3, <1>4, <1>5, <1>6, <1>7, <1>8
       DEF ClientNext, Writer, Callback, allVars

-----------------------------------------------------------------------------
(* What the steps of RdmaConn mean for the writer and the callback.        *)

(* A step of init_rpc_client stays in it, returns or crashes; it leaves a  *)
(* queue pair that exists alone, with its CQ, and forgets no failure.      *)
LEMMA InitStepEffect ==
    ASSUME ConnInv, InitStep \/ Signal
    PROVE  /\ pc \in InitPcs
           /\ pc' \in InitPcs \cup {"returned", "oops", "kfree_buffers"}
           /\ pc' = "kfree_buffers" => result' = "none"
           /\ res["qp"] # "none" => res'["qp"] = res["qp"] /\ res'["cq"] = res["cq"]
           /\ failed => failed'
<1> USE DEF InitPcs, AllocPcs, BindPcs, QpPcs, Resources, outVars, Release
<1>0. TypeOK /\ OutcomeInv /\ ContextInv /\ SetUpInv
    BY DEF ConnInv
<1>1. CASE InitRpcClient
    BY <1>0, <1>1, AcquireFacts, ReleaseFacts, ReturnFacts
       DEF InitRpcClient, TypeOK, OutcomeInv, ContextInv, SetUpInv, QpResources
<1>2. CASE AllocCb
    BY <1>0, <1>2, AcquireFacts, ReleaseFacts, ReturnFacts
       DEF AllocCb, At, ReturnNull, TypeOK, OutcomeInv, ContextInv, SetUpInv, QpResources
<1>3. CASE AllocCtxs
    BY <1>0, <1>3, AcquireFacts, ReleaseFacts, ReturnFacts
       DEF AllocCtxs, At, ReturnNull, TypeOK, OutcomeInv, ContextInv, SetUpInv, QpResources
<1>4. CASE CreateId
    BY <1>0, <1>4, AcquireFacts, ReleaseFacts, ReturnFacts
       DEF CreateId, At, ReturnNull, TypeOK, OutcomeInv, ContextInv, SetUpInv, QpResources
<1>5. CASE ResolveAddr
    <2>1. CASE ReturnFromRunClient(-1) /\ UNCHANGED res
        BY <1>0, <1>5, <2>1, ReturnFacts DEF ResolveAddr, TypeOK
    <2>2. CASE UNCHANGED outVars
        BY <1>0, <1>5, <2>2, AcquireFacts, ReturnFacts
           DEF ResolveAddr, TypeOK, OutcomeInv, SetUpInv, QpResources
    <2> QED
        BY <1>5, <2>1, <2>2 DEF ResolveAddr
<1>6. CASE WaitRoute
    BY <1>0, <1>6, AcquireFacts, ReleaseFacts, ReturnFacts
       DEF WaitRoute, RouteWaited, TypeOK, OutcomeInv, ContextInv, SetUpInv, QpResources
<1>7. CASE Signal
    BY <1>0, <1>7, AcquireFacts, ReleaseFacts, ReturnFacts
       DEF Signal, RouteWaited, ConnWaited, AbandonQp, TypeOK, OutcomeInv, ContextInv, SetUpInv, QpResources
<1>8. CASE AllocPd
    <2>1. CASE ReturnFromRunClient(-1) /\ UNCHANGED res
        BY <1>0, <1>8, <2>1, ReturnFacts DEF AllocPd, TypeOK
    <2>2. CASE UNCHANGED outVars
        BY <1>0, <1>8, <2>2, AcquireFacts, ReturnFacts
           DEF AllocPd, TypeOK, OutcomeInv, SetUpInv, QpResources
    <2> QED
        BY <1>8, <2>1, <2>2 DEF AllocPd
<1>9. CASE CreateCq
    BY <1>0, <1>9, AcquireFacts, ReleaseFacts, ReturnFacts
       DEF CreateCq, TypeOK, OutcomeInv, ContextInv, SetUpInv, QpResources
<1>10. CASE NotifyCq
    BY <1>0, <1>10, AcquireFacts, ReleaseFacts, ReturnFacts
       DEF NotifyCq, At, TypeOK, OutcomeInv, ContextInv, SetUpInv, QpResources
<1>11. CASE CreateQp
    BY <1>0, <1>11, AcquireFacts, ReleaseFacts, ReturnFacts
       DEF CreateQp, TypeOK, OutcomeInv, ContextInv, SetUpInv, QpResources
<1>12. CASE SetupBuffers
    BY <1>0, <1>12, AcquireFacts, ReleaseFacts, ReturnFacts
       DEF SetupBuffers, TypeOK, OutcomeInv, ContextInv, SetUpInv, QpResources
<1>13. CASE PostRecv
    BY <1>0, <1>13, AcquireFacts, ReleaseFacts, ReturnFacts
       DEF PostRecv, AbandonQp, TypeOK, OutcomeInv, ContextInv, SetUpInv, QpResources
<1>14. CASE Connect
    BY <1>0, <1>14, AcquireFacts, ReleaseFacts, ReturnFacts
       DEF Connect, AbandonQp, TypeOK, OutcomeInv, ContextInv, SetUpInv, QpResources
<1>15. CASE WaitConn
    BY <1>0, <1>15, AcquireFacts, ReleaseFacts, ReturnFacts
       DEF WaitConn, ConnWaited, AbandonQp, TypeOK, OutcomeInv, ContextInv, SetUpInv, QpResources
<1> QED
    BY <1>1, <1>2, <1>3, <1>4, <1>5, <1>6, <1>7, <1>8, <1>9, <1>10, <1>11, <1>12, <1>13, <1>14, <1>15 DEF InitStep

(* cma_event_handler changes nothing the writer or the callback can see    *)
(* but the connection's state and cm_id.                                   *)
LEMMA CmEffect ==
    ASSUME TypeOK, CmAnswer \/ CmDisconnected \/ CmDeviceRemoval
    PROVE  /\ UNCHANGED <<pc, ret, failed, result, rq_depth, posted>>
           /\ \A r \in Resources \ {"cm_id"} : res'[r] = res[r]
BY DEF TypeOK, CmAnswer, CmAddrResolved, CmRouteResolved, CmEstablished, CmError, CmDisconnected,
   CmDeviceRemoval, CmEvent, HandlerReturns0, HandlerReturnsError, outVars, qpVars, Resources, QpResources

-----------------------------------------------------------------------------
(* Each step keeps ClientInv.  One lemma per actor.                        *)

(* krping_write_proc and test_main. *)
LEMMA WriterKeeps ==
    ASSUME ClientInv, ClientNext, 
           WriteProc \/ AddrCrashes \/ SendCrashes \/ SendRequest \/ Leave \/ ModulePut
    PROVE  ClientInv'
<1> USE DEF InitPcs, AllocPcs, BindPcs, QpPcs, FreePcs, DestroyPcs, InAnswer, Resources, QpResources,
        Release, writeVars, cbVars, clientVars, vars, outVars, cmVars, qpVars
<1>0. /\ ClientTypeOK /\ WriterInv /\ QueueInv /\ AnswerInv /\ CbadInv
      /\ TypeOK /\ OutcomeInv /\ ContextInv /\ SetUpInv /\ TearDownInv
      /\ ConnInv /\ ConnInv'
    BY ClientConnStep DEF ClientInv, ConnInv
<1>00. TypeOK' /\ OutcomeInv' /\ ContextInv'
    BY <1>0 DEF ConnInv
<1>1. CASE WriteProc
    <2> USE <1>0, <1>00, <1>1 DEF WriteProc
    <2>1. ClientTypeOK'
        BY DEF TypeOK, ClientTypeOK, WriterInv, AnswerInv
    <2>2. WriterInv'
        BY DEF TypeOK, ClientTypeOK, WriterInv, OutcomeInv, ContextInv
    <2>3. QueueInv'
        BY DEF TypeOK, ClientTypeOK, QueueInv, WriterInv, SetUpInv, TearDownInv, ContextInv
    <2>4. AnswerInv'
        BY DEF TypeOK, ClientTypeOK, AnswerInv, WriterInv, QueueInv, TearDownInv
    <2>5. CbadInv'
        BY DEF TypeOK, ClientTypeOK, CbadInv, WriterInv, QueueInv, AnswerInv, OutcomeInv, ContextInv, TearDownInv, Live
    <2> QED
        BY <2>1, <2>2, <2>3, <2>4, <2>5 DEF ClientInv
<1>2. CASE SendCrashes
    <2> USE <1>0, <1>00, <1>2 DEF SendCrashes
    <2>1. ClientTypeOK'
        BY DEF TypeOK, ClientTypeOK, WriterInv, AnswerInv
    <2>2. WriterInv'
        BY DEF TypeOK, ClientTypeOK, WriterInv, OutcomeInv, ContextInv
    <2>3. QueueInv'
        BY DEF TypeOK, ClientTypeOK, QueueInv, WriterInv, SetUpInv, TearDownInv, ContextInv
    <2>4. AnswerInv'
        BY DEF TypeOK, ClientTypeOK, AnswerInv, WriterInv, QueueInv, TearDownInv
    <2>5. CbadInv'
        BY DEF TypeOK, ClientTypeOK, CbadInv, WriterInv, QueueInv, AnswerInv, OutcomeInv, ContextInv, TearDownInv, Live
    <2> QED
        BY <2>1, <2>2, <2>3, <2>4, <2>5 DEF ClientInv
<1>3. CASE SendRequest
    <2> USE <1>0, <1>00, <1>3 DEF SendRequest, Needed
    <2>1. ClientTypeOK'
        BY DEF TypeOK, ClientTypeOK, WriterInv, AnswerInv
    <2>2. WriterInv'
        BY DEF TypeOK, ClientTypeOK, WriterInv, OutcomeInv, ContextInv
    <2>3. QueueInv'
        BY DEF TypeOK, ClientTypeOK, QueueInv, WriterInv, SetUpInv, TearDownInv, ContextInv
    <2>4. AnswerInv'
        BY DEF TypeOK, ClientTypeOK, AnswerInv, WriterInv, QueueInv, TearDownInv
    <2>5. CbadInv'
        BY DEF TypeOK, ClientTypeOK, CbadInv, WriterInv, QueueInv, AnswerInv, OutcomeInv, ContextInv, TearDownInv, Live
    <2> QED
        BY <2>1, <2>2, <2>3, <2>4, <2>5 DEF ClientInv
<1>4. CASE Leave
    <2> USE <1>0, <1>00, <1>4 DEF Leave
    <2>1. ClientTypeOK'
        BY DEF TypeOK, ClientTypeOK, WriterInv, AnswerInv
    <2>2. WriterInv'
        BY DEF TypeOK, ClientTypeOK, WriterInv, OutcomeInv, ContextInv
    <2>3. QueueInv'
        BY DEF TypeOK, ClientTypeOK, QueueInv, WriterInv, SetUpInv, TearDownInv, ContextInv
    <2>4. AnswerInv'
        BY DEF TypeOK, ClientTypeOK, AnswerInv, WriterInv, QueueInv, TearDownInv
    <2>5. CbadInv'
        BY DEF TypeOK, ClientTypeOK, CbadInv, WriterInv, QueueInv, AnswerInv, OutcomeInv, ContextInv, TearDownInv, Live
    <2> QED
        BY <2>1, <2>2, <2>3, <2>4, <2>5 DEF ClientInv
<1>5. CASE ModulePut
    <2> USE <1>0, <1>00, <1>5 DEF ModulePut
    <2>1. ClientTypeOK'
        BY DEF TypeOK, ClientTypeOK, WriterInv, AnswerInv
    <2>2. WriterInv'
        BY DEF TypeOK, ClientTypeOK, WriterInv, OutcomeInv, ContextInv
    <2>3. QueueInv'
        BY DEF TypeOK, ClientTypeOK, QueueInv, WriterInv, SetUpInv, TearDownInv, ContextInv
    <2>4. AnswerInv'
        BY DEF TypeOK, ClientTypeOK, AnswerInv, WriterInv, QueueInv, TearDownInv
    <2>5. CbadInv'
        BY DEF TypeOK, ClientTypeOK, CbadInv, WriterInv, QueueInv, AnswerInv, OutcomeInv, ContextInv, TearDownInv, Live
    <2> QED
        BY <2>1, <2>2, <2>3, <2>4, <2>5 DEF ClientInv
<1>6. CASE AddrCrashes
    <2> USE <1>0, <1>00, <1>6 DEF AddrCrashes, At
    <2>1. ClientTypeOK'
        BY DEF TypeOK, ClientTypeOK, WriterInv, AnswerInv
    <2>2. WriterInv'
        BY DEF TypeOK, ClientTypeOK, WriterInv, OutcomeInv, ContextInv
    <2>3. QueueInv'
        BY DEF TypeOK, ClientTypeOK, QueueInv, WriterInv, SetUpInv, TearDownInv, ContextInv
    <2>4. AnswerInv'
        BY DEF TypeOK, ClientTypeOK, AnswerInv, WriterInv, QueueInv, TearDownInv
    <2>5. CbadInv'
        BY DEF TypeOK, ClientTypeOK, CbadInv, WriterInv, QueueInv, AnswerInv, OutcomeInv, ContextInv, TearDownInv, Live
    <2> QED
        BY <2>1, <2>2, <2>3, <2>4, <2>5 DEF ClientInv
<1> QED
    BY <1>1, <1>2, <1>3, <1>4, <1>5, <1>6

(* init_rpc_client and destroy_rpc_client. *)
LEMMA ChannelKeeps ==
    ASSUME ClientInv, ClientNext, InitRpc \/ SignalWaiter \/ DestroyRpc \/ FreeQp \/ FreeCq
    PROVE  ClientInv'
<1> USE DEF InitPcs, AllocPcs, BindPcs, QpPcs, FreePcs, DestroyPcs, InAnswer, Resources, QpResources,
        Release, writeVars, cbVars, clientVars, vars, outVars, cmVars, qpVars
<1>0. /\ ClientTypeOK /\ WriterInv /\ QueueInv /\ AnswerInv /\ CbadInv
      /\ TypeOK /\ OutcomeInv /\ ContextInv /\ SetUpInv /\ TearDownInv
      /\ ConnInv /\ ConnInv'
    BY ClientConnStep DEF ClientInv, ConnInv
<1>00. TypeOK' /\ OutcomeInv' /\ ContextInv'
    BY <1>0 DEF ConnInv
<1>1. CASE InitRpc
    <2> USE <1>0, <1>00, <1>1, InitStepEffect DEF InitRpc
    <2>1. ClientTypeOK'
        BY DEF TypeOK, ClientTypeOK, WriterInv, AnswerInv
    <2>2. WriterInv'
        BY DEF TypeOK, ClientTypeOK, WriterInv, OutcomeInv, ContextInv
    <2>3. QueueInv'
        BY DEF TypeOK, ClientTypeOK, QueueInv, WriterInv, SetUpInv, TearDownInv, ContextInv
    <2>4. AnswerInv'
        BY DEF TypeOK, ClientTypeOK, AnswerInv, WriterInv, QueueInv, TearDownInv
    <2>5. CbadInv'
        BY DEF TypeOK, ClientTypeOK, CbadInv, WriterInv, QueueInv, AnswerInv, OutcomeInv, ContextInv, TearDownInv, Live
    <2> QED
        BY <2>1, <2>2, <2>3, <2>4, <2>5 DEF ClientInv
<1>2. CASE SignalWaiter
    <2> USE <1>0, <1>00, <1>2, InitStepEffect DEF SignalWaiter
    <2>1. ClientTypeOK'
        BY DEF TypeOK, ClientTypeOK, WriterInv, AnswerInv
    <2>2. WriterInv'
        BY DEF TypeOK, ClientTypeOK, WriterInv, OutcomeInv, ContextInv
    <2>3. QueueInv'
        BY DEF TypeOK, ClientTypeOK, QueueInv, WriterInv, SetUpInv, TearDownInv, ContextInv
    <2>4. AnswerInv'
        BY DEF TypeOK, ClientTypeOK, AnswerInv, WriterInv, QueueInv, TearDownInv
    <2>5. CbadInv'
        BY DEF TypeOK, ClientTypeOK, CbadInv, WriterInv, QueueInv, AnswerInv, OutcomeInv, ContextInv, TearDownInv, Live
    <2> QED
        BY <2>1, <2>2, <2>3, <2>4, <2>5 DEF ClientInv
<1>3. CASE DestroyRpc
    <2> USE <1>0, <1>00, <1>3, UseFacts, ReleaseFacts DEF DestroyRpc, DestroyStep, Disconnect, DestroyId, KfreeCb, Kfree, NotNull, At
    <2>1. ClientTypeOK'
        BY DEF TypeOK, ClientTypeOK, WriterInv, AnswerInv
    <2>2. WriterInv'
        BY DEF TypeOK, ClientTypeOK, WriterInv, OutcomeInv, ContextInv
    <2>3. QueueInv'
        BY DEF TypeOK, ClientTypeOK, QueueInv, WriterInv, SetUpInv, TearDownInv, ContextInv
    <2>4. AnswerInv'
        BY DEF TypeOK, ClientTypeOK, AnswerInv, WriterInv, QueueInv, TearDownInv
    <2>5. CbadInv'
        BY DEF TypeOK, ClientTypeOK, CbadInv, WriterInv, QueueInv, AnswerInv, OutcomeInv, ContextInv, TearDownInv, Live
    <2> QED
        BY <2>1, <2>2, <2>3, <2>4, <2>5 DEF ClientInv
<1>4. CASE KfreeBuffers /\ UNCHANGED clientVars
    <2> USE <1>0, <1>00, <1>4, ReleaseFacts DEF KfreeBuffers, NotNull, At
    <2>1. ClientTypeOK'
        BY DEF TypeOK, ClientTypeOK, WriterInv, AnswerInv
    <2>2. WriterInv'
        BY DEF TypeOK, ClientTypeOK, WriterInv, OutcomeInv, ContextInv
    <2>3. QueueInv'
        BY DEF TypeOK, ClientTypeOK, QueueInv, WriterInv, SetUpInv, TearDownInv, ContextInv
    <2>4. AnswerInv'
        BY DEF TypeOK, ClientTypeOK, AnswerInv, WriterInv, QueueInv, TearDownInv
    <2>5. CbadInv'
        BY DEF TypeOK, ClientTypeOK, CbadInv, WriterInv, QueueInv, AnswerInv, OutcomeInv, ContextInv, TearDownInv, Live
    <2> QED
        BY <2>1, <2>2, <2>3, <2>4, <2>5 DEF ClientInv
<1>5. CASE NullDeref /\ UNCHANGED clientVars
    <2> USE <1>0, <1>00, <1>5 DEF NullDeref
    <2>1. ClientTypeOK'
        BY DEF TypeOK, ClientTypeOK, WriterInv, AnswerInv
    <2>2. WriterInv'
        BY DEF TypeOK, ClientTypeOK, WriterInv, OutcomeInv, ContextInv
    <2>3. QueueInv'
        BY DEF TypeOK, ClientTypeOK, QueueInv, WriterInv, SetUpInv, TearDownInv, ContextInv
    <2>4. AnswerInv'
        BY DEF TypeOK, ClientTypeOK, AnswerInv, WriterInv, QueueInv, TearDownInv
    <2>5. CbadInv'
        BY DEF TypeOK, ClientTypeOK, CbadInv, WriterInv, QueueInv, AnswerInv, OutcomeInv, ContextInv, TearDownInv, Live
    <2> QED
        BY <2>1, <2>2, <2>3, <2>4, <2>5 DEF ClientInv
<1>6. CASE DestroyQp /\ pend' = {} /\ cqes' = {} /\ UNCHANGED <<writeVars, cbVars, waited>>
    <2> USE <1>0, <1>00, <1>6, ReleaseFacts DEF DestroyQp, At
    <2>1. ClientTypeOK'
        BY DEF TypeOK, ClientTypeOK, WriterInv, AnswerInv
    <2>2. WriterInv'
        BY DEF TypeOK, ClientTypeOK, WriterInv, OutcomeInv, ContextInv
    <2>3. QueueInv'
        BY DEF TypeOK, ClientTypeOK, QueueInv, WriterInv, SetUpInv, TearDownInv, ContextInv
    <2>4. AnswerInv'
        BY DEF TypeOK, ClientTypeOK, AnswerInv, WriterInv, QueueInv, TearDownInv
    <2>5. CbadInv'
        BY DEF TypeOK, ClientTypeOK, CbadInv, WriterInv, QueueInv, AnswerInv, OutcomeInv, ContextInv, TearDownInv, Live
    <2> QED
        BY <2>1, <2>2, <2>3, <2>4, <2>5 DEF ClientInv
<1>7. CASE FreeCq
    <2> USE <1>0, <1>00, <1>7, ReleaseFacts DEF FreeCq, DestroyCq
    <2>1. ClientTypeOK'
        BY DEF TypeOK, ClientTypeOK, WriterInv, AnswerInv
    <2>2. WriterInv'
        BY DEF TypeOK, ClientTypeOK, WriterInv, OutcomeInv, ContextInv
    <2>3. QueueInv'
        BY DEF TypeOK, ClientTypeOK, QueueInv, WriterInv, SetUpInv, TearDownInv, ContextInv
    <2>4. AnswerInv'
        BY DEF TypeOK, ClientTypeOK, AnswerInv, WriterInv, QueueInv, TearDownInv
    <2>5. CbadInv'
        BY DEF TypeOK, ClientTypeOK, CbadInv, WriterInv, QueueInv, AnswerInv, OutcomeInv, ContextInv, TearDownInv, Live
    <2> QED
        BY <2>1, <2>2, <2>3, <2>4, <2>5 DEF ClientInv
<1> QED
    BY <1>1, <1>2, <1>3, <1>4, <1>5, <1>6, <1>7 DEF FreeQp

(* The device, the server and the connection manager. *)
LEMMA DeviceKeeps ==
    ASSUME ClientInv, ClientNext, Deliver \/ CmEvents
    PROVE  ClientInv'
<1> USE DEF InitPcs, AllocPcs, BindPcs, QpPcs, FreePcs, DestroyPcs, InAnswer, Resources, QpResources,
        Release, writeVars, cbVars, clientVars, vars, outVars, cmVars, qpVars
<1>0. /\ ClientTypeOK /\ WriterInv /\ QueueInv /\ AnswerInv /\ CbadInv
      /\ TypeOK /\ OutcomeInv /\ ContextInv /\ SetUpInv /\ TearDownInv
      /\ ConnInv /\ ConnInv'
    BY ClientConnStep DEF ClientInv, ConnInv
<1>00. TypeOK' /\ OutcomeInv' /\ ContextInv'
    BY <1>0 DEF ConnInv
<1>1. CASE Deliver
    <2> USE <1>0, <1>00, <1>1 DEF Deliver
    <2>1. ClientTypeOK'
        BY DEF TypeOK, ClientTypeOK, WriterInv, AnswerInv
    <2>2. WriterInv'
        BY DEF TypeOK, ClientTypeOK, WriterInv, OutcomeInv, ContextInv
    <2>3. QueueInv'
        BY DEF TypeOK, ClientTypeOK, QueueInv, WriterInv, SetUpInv, TearDownInv, ContextInv
    <2>4. AnswerInv'
        BY DEF TypeOK, ClientTypeOK, AnswerInv, WriterInv, QueueInv, TearDownInv
    <2>5. CbadInv'
        BY DEF TypeOK, ClientTypeOK, CbadInv, WriterInv, QueueInv, AnswerInv, OutcomeInv, ContextInv, TearDownInv, Live
    <2> QED
        BY <2>1, <2>2, <2>3, <2>4, <2>5 DEF ClientInv
<1>2. CASE CmEvents
    <2> USE <1>0, <1>00, <1>2, CmEffect DEF CmEvents
    <2>1. ClientTypeOK'
        BY DEF TypeOK, ClientTypeOK, WriterInv, AnswerInv
    <2>2. WriterInv'
        BY DEF TypeOK, ClientTypeOK, WriterInv, OutcomeInv, ContextInv
    <2>3. QueueInv'
        BY DEF TypeOK, ClientTypeOK, QueueInv, WriterInv, SetUpInv, TearDownInv, ContextInv
    <2>4. AnswerInv'
        BY DEF TypeOK, ClientTypeOK, AnswerInv, WriterInv, QueueInv, TearDownInv
    <2>5. CbadInv'
        BY DEF TypeOK, ClientTypeOK, CbadInv, WriterInv, QueueInv, AnswerInv, OutcomeInv, ContextInv, TearDownInv, Live
    <2> QED
        BY <2>1, <2>2, <2>3, <2>4, <2>5 DEF ClientInv
<1> QED
    BY <1>1, <1>2

(* cq_thread and what it calls. *)
LEMMA CallbackKeeps ==
    ASSUME ClientInv, ClientNext, Callback
    PROVE  ClientInv'
<1> USE DEF InitPcs, AllocPcs, BindPcs, QpPcs, FreePcs, DestroyPcs, InAnswer, Resources, QpResources,
        Release, writeVars, cbVars, clientVars, vars, outVars, cmVars, qpVars
<1>0. /\ ClientTypeOK /\ WriterInv /\ QueueInv /\ AnswerInv /\ CbadInv
      /\ TypeOK /\ OutcomeInv /\ ContextInv /\ SetUpInv /\ TearDownInv
      /\ ConnInv /\ ConnInv'
    BY ClientConnStep DEF ClientInv, ConnInv
<1>00. TypeOK' /\ OutcomeInv' /\ ContextInv'
    BY <1>0 DEF ConnInv
<1>1. CASE CqThread
    <2> USE <1>0, <1>00, <1>1 DEF CqThread, CbUse
    <2>1. ClientTypeOK'
        BY DEF TypeOK, ClientTypeOK, WriterInv, AnswerInv
    <2>2. WriterInv'
        BY DEF TypeOK, ClientTypeOK, WriterInv, OutcomeInv, ContextInv
    <2>3. QueueInv'
        BY DEF TypeOK, ClientTypeOK, QueueInv, WriterInv, SetUpInv, TearDownInv, ContextInv
    <2>4. AnswerInv'
        BY DEF TypeOK, ClientTypeOK, AnswerInv, WriterInv, QueueInv, TearDownInv
    <2>5. CbadInv'
        BY DEF TypeOK, ClientTypeOK, CbadInv, WriterInv, QueueInv, AnswerInv, OutcomeInv, ContextInv, TearDownInv, Live
    <2> QED
        BY <2>1, <2>2, <2>3, <2>4, <2>5 DEF ClientInv
<1>2. CASE CbPoll
    <2> USE <1>0, <1>00, <1>2 DEF CbPoll, CbUse
    <2>1. ClientTypeOK'
        BY DEF TypeOK, ClientTypeOK, WriterInv, AnswerInv
    <2>2. WriterInv'
        BY DEF TypeOK, ClientTypeOK, WriterInv, OutcomeInv, ContextInv
    <2>3. QueueInv'
        BY DEF TypeOK, ClientTypeOK, QueueInv, WriterInv, SetUpInv, TearDownInv, ContextInv
    <2>4. AnswerInv'
        BY DEF TypeOK, ClientTypeOK, AnswerInv, WriterInv, QueueInv, TearDownInv
    <2>5. CbadInv'
        <3>1. Live("cb") /\ Live("cq")
            BY DEF TypeOK, QueueInv, ContextInv, Live
        <3>2. cbad' = cbad
            BY <3>1
        <3> QED
            BY <3>2 DEF TypeOK, ClientTypeOK, CbadInv
    <2> QED
        BY <2>1, <2>2, <2>3, <2>4, <2>5 DEF ClientInv
<1>3. CASE ReceiveMsg
    <2> USE <1>0, <1>00, <1>3 DEF ReceiveMsg, CbUse
    <2>1. ClientTypeOK'
        BY DEF TypeOK, ClientTypeOK, WriterInv, AnswerInv
    <2>2. WriterInv'
        BY DEF TypeOK, ClientTypeOK, WriterInv, OutcomeInv, ContextInv
    <2>3. QueueInv'
        BY DEF TypeOK, ClientTypeOK, QueueInv, WriterInv, SetUpInv, TearDownInv, ContextInv
    <2>4. AnswerInv'
        BY DEF TypeOK, ClientTypeOK, AnswerInv, WriterInv, QueueInv, TearDownInv
    <2>5. CbadInv'
        BY DEF TypeOK, ClientTypeOK, CbadInv, WriterInv, QueueInv, AnswerInv, OutcomeInv, ContextInv, TearDownInv, Live
    <2> QED
        BY <2>1, <2>2, <2>3, <2>4, <2>5 DEF ClientInv
<1>4. CASE MsgHandler
    <2> USE <1>0, <1>00, <1>4 DEF MsgHandler, CbUse, SetWorking
    <2>1. ClientTypeOK'
        BY DEF TypeOK, ClientTypeOK, WriterInv, AnswerInv
    <2>2. WriterInv'
        BY DEF TypeOK, ClientTypeOK, WriterInv, OutcomeInv, ContextInv
    <2>3. QueueInv'
        BY DEF TypeOK, ClientTypeOK, QueueInv, WriterInv, SetUpInv, TearDownInv, ContextInv
    <2>4. AnswerInv'
        BY DEF TypeOK, ClientTypeOK, AnswerInv, WriterInv, QueueInv, TearDownInv
    <2>5. CbadInv'
        BY DEF TypeOK, ClientTypeOK, CbadInv, WriterInv, QueueInv, AnswerInv, OutcomeInv, ContextInv, TearDownInv, Live
    <2> QED
        BY <2>1, <2>2, <2>3, <2>4, <2>5 DEF ClientInv
<1>5. CASE Repost
    <2> USE <1>0, <1>00, <1>5 DEF Repost, CbUse
    <2>1. ClientTypeOK'
        BY DEF TypeOK, ClientTypeOK, WriterInv, AnswerInv
    <2>2. WriterInv'
        BY DEF TypeOK, ClientTypeOK, WriterInv, OutcomeInv, ContextInv
    <2>3. QueueInv'
        BY DEF TypeOK, ClientTypeOK, QueueInv, WriterInv, SetUpInv, TearDownInv, ContextInv
    <2>4. AnswerInv'
        BY DEF TypeOK, ClientTypeOK, AnswerInv, WriterInv, QueueInv, TearDownInv
    <2>5. CbadInv'
        BY DEF TypeOK, ClientTypeOK, CbadInv, WriterInv, QueueInv, AnswerInv, OutcomeInv, ContextInv, TearDownInv, Live
    <2> QED
        BY <2>1, <2>2, <2>3, <2>4, <2>5 DEF ClientInv
<1>6. CASE MsgHandlerAstray
    <2> USE <1>0, <1>00, <1>6 DEF MsgHandlerAstray, CbUse
    <2>1. ClientTypeOK'
        BY DEF TypeOK, ClientTypeOK, WriterInv, AnswerInv
    <2>2. WriterInv'
        BY DEF TypeOK, ClientTypeOK, WriterInv, OutcomeInv, ContextInv
    <2>3. QueueInv'
        BY DEF TypeOK, ClientTypeOK, QueueInv, WriterInv, SetUpInv, TearDownInv, ContextInv
    <2>4. AnswerInv'
        BY DEF TypeOK, ClientTypeOK, AnswerInv, WriterInv, QueueInv, TearDownInv
    <2>5. CbadInv'
        BY DEF TypeOK, ClientTypeOK, CbadInv, WriterInv, QueueInv, AnswerInv, OutcomeInv, ContextInv, TearDownInv, Live
    <2> QED
        BY <2>1, <2>2, <2>3, <2>4, <2>5 DEF ClientInv
<1>7. CASE CbError
    <2> USE <1>0, <1>00, <1>7 DEF CbError, CbUse
    <2>1. ClientTypeOK'
        BY DEF TypeOK, ClientTypeOK, WriterInv, AnswerInv
    <2>2. WriterInv'
        BY DEF TypeOK, ClientTypeOK, WriterInv, OutcomeInv, ContextInv
    <2>3. QueueInv'
        BY DEF TypeOK, ClientTypeOK, QueueInv, WriterInv, SetUpInv, TearDownInv, ContextInv
    <2>4. AnswerInv'
        BY DEF TypeOK, ClientTypeOK, AnswerInv, WriterInv, QueueInv, TearDownInv
    <2>5. CbadInv'
        BY DEF TypeOK, ClientTypeOK, CbadInv, WriterInv, QueueInv, AnswerInv, OutcomeInv, ContextInv, TearDownInv, Live
    <2> QED
        BY <2>1, <2>2, <2>3, <2>4, <2>5 DEF ClientInv
<1> QED
    BY <1>1, <1>2, <1>3, <1>4, <1>5, <1>6, <1>7 DEF Callback

-----------------------------------------------------------------------------
(* A write that has not begun satisfies the invariant. *)
LEMMA ClientInvInit == ClientInit => ClientInv
<1> SUFFICES ASSUME ClientInit PROVE ClientInv
    OBVIOUS
<1>1. ConnInv /\ TypeOK
    BY ConnInit DEF ClientInit, ConnInv
<1>2. ClientTypeOK
    <2>1. handled \in BOOLEAN /\ waited \in BOOLEAN
        BY DEF ClientInit
    <2> QED
        BY <1>1, <2>1 DEF ClientInit, ClientTypeOK
<1>3. WriterInv /\ QueueInv /\ AnswerInv /\ CbadInv
    BY DEF ClientInit, Init, WriterInv, QueueInv, AnswerInv, CbadInv, InAnswer, FreePcs, DestroyPcs
<1> QED
    BY <1>1, <1>2, <1>3 DEF ClientInv

(* Every step keeps it. *)
LEMMA ClientStep ==
    ASSUME ClientInv, [ClientNext]_allVars
    PROVE  ClientInv'
<1>1. CASE ClientNext
    BY <1>1, WriterKeeps, ChannelKeeps, DeviceKeeps, CallbackKeeps
       DEF ClientNext, Writer, Callback
<1>2. CASE UNCHANGED allVars
    <2>1. ConnInv'
        BY ClientConnStep DEF ClientInv
    <2> QED
        BY <1>2, <2>1 DEF allVars, clientVars, writeVars, cbVars, vars, ClientInv, ClientTypeOK,
           TypeOK, WriterInv, QueueInv, AnswerInv, CbadInv
<1> QED
    BY <1>1, <1>2

(* Every reachable state of a write satisfies the invariant. *)
THEOREM ClientInvariant == ClientSpec => []ClientInv
<1>1. ClientInit => ClientInv
    BY ClientInvInit
<1>2. ClientInv /\ [ClientNext]_allVars => ClientInv'
    BY ClientStep
<1> QED
    BY <1>1, <1>2, PTL DEF ClientSpec

-----------------------------------------------------------------------------
(* The properties *)

(* The variables of a write keep their types. *)
THEOREM ClientTypeCorrect == ClientSpec => []ClientTypeOK
<1>1. ClientInv => ClientTypeOK
    BY DEF ClientInv
<1> QED
    BY <1>1, ClientInvariant, PTL

(* Neither cma_event_handler nor cq_thread can be called when cb, buf_ctxs *)
(* or rpc_ch, which they follow, is gone.                                  *)
THEOREM HandlersHaveContext == ClientSpec => []ContextAlive
<1>1. ClientInv => ContextAlive
    BY ConnImplies DEF ClientInv
<1> QED
    BY <1>1, ClientInvariant, PTL

(* A run_client that returns -1 has released what setup_qp and             *)
(* setup_buffers acquired.                                                 *)
THEOREM FailedRunKeepsNothing == ClientSpec => []FailedRunReleases
<1>1. ClientInv => FailedRunReleases
    BY ConnImplies DEF ClientInv
<1> QED
    BY <1>1, ClientInvariant, PTL

(* An init_rpc_client that returns NULL leaves the bitmap and nothing      *)
(* else.                                                                   *)
THEOREM NullLeaksBitmapAtMost == ClientSpec => []NullLeaksOnlyBitmap
<1>1. ClientInv => NullLeaksOnlyBitmap
    BY ConnImplies DEF ClientInv
<1> QED
    BY <1>1, ClientInvariant, PTL

(* A channel returned without any failure was connected, with every        *)
(* receive buffer posted and every resource there.                         *)
THEOREM ConnectedIsReady == ClientSpec => []ConnectedMeansReady
<1>1. ClientInv => ConnectedMeansReady
    BY ConnImplies DEF ClientInv
<1> QED
    BY <1>1, ClientInvariant, PTL

(* The thread that owns a channel that connected, and cma_event_handler,   *)
(* use nothing that is not there, other than a cm_id the connection        *)
(* manager has destroyed, and destroy_rpc_client leaves nothing behind.    *)
THEOREM LifecycleIsClean == ClientSpec => []CleanLifecycle
<1>1. ClientInv => CleanLifecycle
    BY ConnImplies DEF ClientInv
<1> QED
    BY <1>1, ClientInvariant, PTL

(* The callback that destroy_rpc_client overtakes misses the queue pair at *)
(* most; the receive buffers, and with them the addresses it follows, only *)
(* when the answer was not waited for or the set-up had failed.            *)
THEOREM TearDownWindowBounded == ClientSpec => []TearDownWindow
<1>1. ClientInv => TearDownWindow
    BY DEF ClientInv, CbadInv, TearDownWindow
<1> QED
    BY <1>1, ClientInvariant, PTL

(* The module has no reference only when no handler of its code can run.   *)
THEOREM CodeIsPinned == ClientSpec => []CallbackCodePinned
<1>1. ClientInv => CallbackCodePinned
    BY DEF ClientInv, ConnInv, ClientTypeOK, WriterInv, QueueInv, ContextInv, TearDownInv,
       CallbackCodePinned, Resources, QpResources, AllocPcs, DestroyPcs
<1> QED
    BY <1>1, ClientInvariant, PTL

(* The writer crashes only after a failure, the callback only after one or *)
(* when the answer was not waited for.                                     *)
THEOREM CrashFollowsFailure == ClientSpec => []CrashNeedsFailure
<1>1. ClientInv => CrashNeedsFailure
    BY DEF ClientInv, ConnInv, OutcomeInv, CbadInv, CrashNeedsFailure
<1> QED
    BY <1>1, ClientInvariant, PTL
=============================================================================
