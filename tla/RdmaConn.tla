------------------------------ MODULE RdmaConn ------------------------------
(***************************************************************************)
(* The life of a client channel: init_rpc_client and destroy_rpc_client    *)
(* (rpc_client.c) with init_rdma_ch, run_client, bind_client, setup_qp,    *)
(* setup_buffers, connect_client and destroy_rdma_client (rdma.c), run by  *)
(* one thread, against cma_event_handler, run by the connection manager.   *)
(* The two share cb->state and the wait queue cb->sem.  The model keeps    *)
(* what becomes of every resource the code acquires.                       *)
(***************************************************************************)
EXTENDS Integers

CONSTANTS
    MSGBUF_CNT,     \* RPC_MSG_BUF_NUM
    RqDepths,       \* receive queue depths a provider may grant for max_recv_wr
    Faults          \* which of FaultKinds happen

(* "nomem": a verbs or memory allocation call fails; "notify":             *)
(* ib_req_notify_cq fails; "map": a DMA mapping fails; "call": a call of   *)
(* the connection manager fails; "event": the connection manager reports   *)
(* an error; "removal": the device is unplugged; "signal": a signal ends   *)
(* an interruptible wait; "peer": the peer disconnects; "completion": a    *)
(* completion, or a call of its handler, fails; "unload": the module is    *)
(* being unloaded.  The last two are faults of RpcClient.                  *)
FaultKinds == {"nomem", "notify", "map", "call", "event", "removal", "signal", "peer",
               "completion", "unload"}

ASSUME ConnAssumption ==
    /\ MSGBUF_CNT \in Nat \ {0}
    /\ RqDepths \subseteq Nat \ {0}
    /\ Faults \subseteq FaultKinds

VARIABLES
    pc,         \* where the client's thread is
    ret,        \* result of run_client: 0 or -1
    failed,     \* some step of init_rpc_client or run_client has failed
    result,     \* what init_rpc_client returned: "channel", "NULL" or "none" yet
    state,      \* cb->state
    cm,         \* the connection manager's view of cm_id
    rq_depth,   \* receive work requests the queue pair takes
    posted,     \* receive work requests posted
    res,        \* every resource: "none", "live" or "freed"
    bad         \* resources this thread or the CM's handler used when not live

vars == <<pc, ret, failed, result, state, cm, rq_depth, posted, res, bad>>

(* enum rdma_ch_state *)
IDLE == 1
ADDR_RESOLVED == 3
ROUTE_RESOLVED == 4
CONNECTED == 5
WORKING == 6
DISCONNECTED == 7
ERROR == 8

QpResources == {"pd", "cq", "qp", "bufs"}
Resources == {"rpc_ch", "bitmap", "cb", "ctxs", "cm_id"} \cup QpResources

Init ==
    /\ pc = "init_rpc_client"
    /\ ret = 0
    /\ failed = FALSE
    /\ result = "none"
    /\ state = IDLE
    /\ cm = "idle"
    /\ rq_depth = 0
    /\ posted = 0
    /\ res = [r \in Resources |-> "none"]
    /\ bad = {}

-----------------------------------------------------------------------------
At(from, to) == pc = from /\ pc' = to

Fault(kind) == kind \in Faults

Acquire(R) == res' = [r \in Resources |-> IF r \in R THEN "live" ELSE res[r]]

Use(R) == bad' = bad \cup {r \in R : res[r] # "live"}

ReleaseUsing(R, U) ==
    /\ res' = [r \in Resources |-> IF r \in R THEN "freed" ELSE res[r]]
    /\ Use(R \cup U)

Release(R) == ReleaseUsing(R, {})

(* kfree(NULL) does nothing. *)
NotNull(R) == {r \in R : res[r] # "none"}
Kfree(R) == Release(NotNull(R))

cmVars == <<state, cm>>
qpVars == <<rq_depth, posted>>
outVars == <<ret, failed, result>>

(* init_rpc_client: channel and bitmap.  Neither kzalloc is checked: the   *)
(* channel is written to at once, the bitmap not before the first request. *)
InitRpcClient ==
    /\ pc = "init_rpc_client"
    /\ \/ pc' = "alloc_cb" /\ Acquire({"rpc_ch", "bitmap"}) /\ UNCHANGED <<failed, bad>>
       \/ /\ Fault("nomem")
          /\ failed' = TRUE
          /\ \/ pc' = "alloc_cb" /\ Acquire({"rpc_ch"}) /\ UNCHANGED bad
             \/ pc' = "oops" /\ Use({"rpc_ch"}) /\ UNCHANGED res
    /\ UNCHANGED <<ret, result, cmVars, qpVars>>

(* err: of init_rpc_client frees rpc_ch and not the bitmap. *)
ReturnNull(R) ==
    /\ Release(R \cup {"rpc_ch"})
    /\ pc' = "returned"
    /\ result' = "NULL"
    /\ UNCHANGED <<ret, failed, cmVars, qpVars>>

(* init_rdma_ch: cb, buf_ctxs and cm_id; on failure out5, out4, out2. *)
AllocCb ==
    \/ /\ At("alloc_cb", "alloc_ctxs")
       /\ Acquire({"cb"})
       /\ UNCHANGED <<outVars, cmVars, qpVars, bad>>
    \/ Fault("nomem") /\ pc = "alloc_cb" /\ ReturnNull({})

AllocCtxs ==
    \/ /\ At("alloc_ctxs", "create_id")
       /\ Acquire({"ctxs"})
       /\ state' = IDLE
       /\ UNCHANGED <<outVars, cm, qpVars, bad>>
    \/ Fault("nomem") /\ pc = "alloc_ctxs" /\ ReturnNull({"cb"})

(* Mutant: out2 forgets buf_ctxs. *)
CreateIdLeaks ==
    \/ /\ At("create_id", "resolve_addr")
       /\ Acquire({"cm_id"})
       /\ UNCHANGED <<outVars, cmVars, qpVars, bad>>
    \/ Fault("call") /\ pc = "create_id" /\ ReturnNull({"cb"})

CreateId ==
    \/ /\ At("create_id", "resolve_addr")
       /\ Acquire({"cm_id"})
       /\ UNCHANGED <<outVars, cmVars, qpVars, bad>>
    \/ Fault("call") /\ pc = "create_id" /\ ReturnNull({"ctxs", "cb"})

(* run_client returns; init_rdma_ch ignores ret and returns cb, so         *)
(* init_rpc_client returns the channel.                                    *)
ReturnFromRunClient(r) ==
    /\ pc' = "returned"
    /\ ret' = r
    /\ failed' = (failed \/ r # 0)
    /\ result' = "channel"

(* bind_client: rdma_resolve_addr ... *)
ResolveAddr ==
    /\ pc = "resolve_addr"
    /\ \/ pc' = "wait_route" /\ cm' = "resolving_addr" /\ UNCHANGED outVars
       \/ Fault("call") /\ ReturnFromRunClient(-1) /\ UNCHANGED cm
    /\ Use({"cm_id"})
    /\ UNCHANGED <<state, qpVars, res>>

(* ... and what follows the wait for the route. *)
RouteWaited ==
    /\ pc = "wait_route"
    /\ IF state = ROUTE_RESOLVED
       THEN pc' = "alloc_pd" /\ UNCHANGED outVars
       ELSE ReturnFromRunClient(-1)
    /\ UNCHANGED <<cmVars, qpVars, res, bad>>

WaitRoute == state >= ROUTE_RESOLVED /\ RouteWaited

(* setup_qp; on failure err2 or err3 releases what it has acquired. *)
AllocPd ==
    /\ pc = "alloc_pd"
    /\ \/ pc' = "create_cq" /\ Acquire({"pd"}) /\ UNCHANGED outVars
       \/ Fault("nomem") /\ ReturnFromRunClient(-1) /\ UNCHANGED res
    /\ Use({"cm_id"})
    /\ UNCHANGED <<cmVars, qpVars>>

CreateCq ==
    /\ pc = "create_cq"
    /\ \/ /\ pc' = "notify_cq"
          /\ Acquire({"cq"})
          /\ Use({"cm_id"})
          /\ UNCHANGED outVars
       \/ /\ Fault("nomem")
          /\ ReturnFromRunClient(-1)
          /\ Release({"pd"})
    /\ UNCHANGED <<cmVars, qpVars>>

(* ib_req_notify_cq.  On failure err3 releases the completion queue and    *)
(* the protection domain, but ret is errno, a variable of this file that   *)
(* nothing assigns: setup_qp returns 0.                                    *)
NotifyCq ==
    \/ /\ At("notify_cq", "create_qp")
       /\ UNCHANGED <<outVars, cmVars, qpVars, res, bad>>
    \/ /\ Fault("notify")
       /\ At("notify_cq", "setup_buffers")
       /\ failed' = TRUE
       /\ Release({"cq", "pd"})
       /\ UNCHANGED <<ret, result, cmVars, qpVars>>

(* Mutant: err3 leaves the completion queue. *)
CreateQpLeaks ==
    /\ pc = "create_qp"
    /\ \/ /\ pc' = "setup_buffers"
          /\ Acquire({"qp"})
          /\ Use({"cm_id"})
          /\ rq_depth' \in RqDepths
          /\ UNCHANGED outVars
       \/ /\ Fault("nomem")
          /\ ReturnFromRunClient(-1)
          /\ Release({"pd"})
          /\ UNCHANGED rq_depth
    /\ UNCHANGED <<cmVars, posted>>

(* Mutant: create_qp does not store the queue pair in cb. *)
CreateQpNotStored ==
    /\ pc = "create_qp"
    /\ pc' = "setup_buffers"
    /\ UNCHANGED <<outVars, cmVars, qpVars, res, bad>>

(* create_qp *)
CreateQp ==
    /\ pc = "create_qp"
    /\ \/ /\ pc' = "setup_buffers"
          /\ Acquire({"qp"})
          /\ Use({"cm_id"})
          /\ rq_depth' \in RqDepths
          /\ UNCHANGED outVars
       \/ /\ Fault("nomem")
          /\ ReturnFromRunClient(-1)
          /\ Release({"cq", "pd"})
          /\ UNCHANGED rq_depth
    /\ UNCHANGED <<cmVars, posted>>

(* setup_buffers allocates and maps the buffers.  When the first mapping   *)
(* fails err1 frees them and errno is returned here as well: run_client    *)
(* goes on without them.  When a later one fails err1 first passes the     *)
(* addresses mapped so far to ib_dereg_mr, which follows them.  A kzalloc  *)
(* of alloc_msg_buffers that fails goes unnoticed: NULL is mapped.  The    *)
(* buffers are one resource: when one is NULL they are all taken to be.    *)
SetupBuffers ==
    /\ pc = "setup_buffers"
    /\ \/ pc' = "post_recv" /\ Acquire({"bufs"}) /\ Use({"pd"}) /\ UNCHANGED failed
       \/ /\ Fault("nomem")
          /\ failed' = TRUE
          /\ pc' = "post_recv"
          /\ Use({"pd"})
          /\ UNCHANGED res
       \/ /\ Fault("map")
          /\ failed' = TRUE
          /\ \/ /\ pc' = "post_recv"
                /\ res' = [res EXCEPT !["bufs"] = "freed"]
                /\ Use({"pd"})
             \/ /\ pc' = "oops"
                /\ Acquire({"bufs"})
                /\ bad' = bad \cup {"bufs"}
    /\ UNCHANGED <<ret, result, cmVars, qpVars>>

(* err2 and err3 of run_client call kfree_buffers and kfree_qp, below. *)
AbandonQp ==
    /\ pc' = "kfree_buffers"
    /\ ret' = -1
    /\ failed' = TRUE
    /\ UNCHANGED <<result, res, bad>>

(* Mutant: the loop runs once too often. *)
PostRecvOneMore ==
    /\ pc = "post_recv"
    /\ res["qp"] = "live"
    /\ posted <= MSGBUF_CNT
    /\ \/ /\ posted < rq_depth
          /\ posted' = posted + 1
          /\ UNCHANGED <<pc, outVars, res, bad>>
       \/ posted >= rq_depth /\ AbandonQp /\ UNCHANGED posted
    /\ UNCHANGED <<cmVars, rq_depth>>

(* run_client posts every receive buffer; a full receive queue refuses. *)
PostRecv ==
    /\ pc = "post_recv"
    /\ res["qp"] = "live"
    /\ posted < MSGBUF_CNT
    /\ \/ /\ posted < rq_depth
          /\ posted' = posted + 1
          /\ UNCHANGED <<pc, outVars, res, bad>>
       \/ /\ posted >= rq_depth \/ Fault("nomem")
          /\ AbandonQp
          /\ UNCHANGED posted
    /\ UNCHANGED <<cmVars, rq_depth>>

(* connect_client: rdma_connect ... *)
Connect ==
    /\ pc = "post_recv"
    /\ posted = MSGBUF_CNT
    /\ \/ /\ pc' = "wait_conn"
          /\ cm' = "connecting"
          /\ Use({"cm_id"})
          /\ UNCHANGED <<outVars, res>>
       \/ Fault("call") /\ AbandonQp /\ UNCHANGED cm
    /\ UNCHANGED <<state, qpVars>>

(* Mutant: after the wait only ERROR is taken for a failure. *)
ConnWaitedOnlyError ==
    /\ pc = "wait_conn"
    /\ IF state # ERROR
       THEN ReturnFromRunClient(0) /\ UNCHANGED <<res, bad>>
       ELSE AbandonQp
    /\ UNCHANGED <<cmVars, qpVars>>

(* ... and what follows the wait for the connection. *)
ConnWaited ==
    /\ pc = "wait_conn"
    /\ IF state = CONNECTED
       THEN ReturnFromRunClient(0) /\ UNCHANGED <<res, bad>>
       ELSE AbandonQp
    /\ UNCHANGED <<cmVars, qpVars>>

WaitConn == state >= CONNECTED /\ ConnWaited

(* A signal ends either wait, whatever the state. *)
Signal == Fault("signal") /\ (RouteWaited \/ ConnWaited)

-----------------------------------------------------------------------------
(* kfree_buffers and kfree_qp, for run_client that fails and for           *)
(* destroy_rdma_client                                                     *)

KfreeBuffers ==
    /\ At("kfree_buffers", "destroy_qp")
    /\ res["pd"] # "none"
    /\ ReleaseUsing(NotNull({"bufs"}), {"cb", "ctxs", "pd"})
    /\ UNCHANGED <<outVars, cmVars, qpVars>>

DestroyQp ==
    /\ At("destroy_qp", "destroy_cq")
    /\ res["qp"] # "none"
    /\ ReleaseUsing({"qp"}, {"cb"})
    /\ UNCHANGED <<outVars, cmVars, qpVars>>

(* ib_destroy_cq and ib_dealloc_pd; init_rdma_ch returns cb even when      *)
(* run_client comes from here.                                             *)
DestroyCq ==
    /\ pc = "destroy_cq"
    /\ pc' = IF result = "channel" THEN "destroy_id" ELSE "returned"
    /\ result' = "channel"
    /\ ReleaseUsing({"cq", "pd"}, {"cb"})
    /\ UNCHANGED <<ret, failed, cmVars, qpVars>>

-----------------------------------------------------------------------------
(* destroy_rpc_client, called by an owner that was given a channel         *)

(* destroy_rdma_client: rdma_disconnect *)
Disconnect ==
    /\ At("returned", "kfree_buffers")
    /\ result = "channel"
    /\ Use({"rpc_ch", "cb", "cm_id"})
    /\ cm' = IF cm = "connected" THEN "disconnecting" ELSE cm
    /\ UNCHANGED <<outVars, state, qpVars, res>>

(* Mutant: cb is freed while cm_id can still deliver events to it. *)
DestroyIdLate ==
    /\ At("destroy_id", "kfree_cb")
    /\ Release({"ctxs", "cb"})
    /\ UNCHANGED <<outVars, cmVars, qpVars>>

DestroyId ==
    /\ At("destroy_id", "kfree_cb")
    /\ ReleaseUsing({"cm_id"}, {"cb"})
    /\ UNCHANGED <<outVars, cmVars, qpVars>>

(* Mutant: buf_ctxs is forgotten. *)
KfreeCbOnly ==
    /\ At("kfree_cb", "destroyed")
    /\ Kfree({"cb", "bitmap", "rpc_ch"})
    /\ UNCHANGED <<outVars, cmVars, qpVars>>

(* The rest of destroy_rdma_client and of destroy_rpc_client. *)
KfreeCb ==
    /\ At("kfree_cb", "destroyed")
    /\ Kfree({"ctxs", "cb", "bitmap", "rpc_ch"})
    /\ UNCHANGED <<outVars, cmVars, qpVars>>

(* A pointer to what was never acquired is NULL or an ERR_PTR: the thread  *)
(* that follows it does not come back.  (Freed memory can be followed.)    *)
NullDeref ==
    /\ \E use \in {<<"post_recv", "qp">>, <<"kfree_buffers", "pd">>, <<"destroy_qp", "qp">>} :
          pc = use[1] /\ res[use[2]] = "none" /\ Use({use[2]})
    /\ pc' = "oops"
    /\ UNCHANGED <<outVars, cmVars, qpVars, res>>

-----------------------------------------------------------------------------
(* cma_event_handler, called as long as cm_id exists.  When it returns a   *)
(* value other than 0 the connection manager destroys cm_id.               *)

CmEvent(from, to) ==
    /\ res["cm_id"] = "live"
    /\ cm = from
    /\ cm' = to
    /\ UNCHANGED <<pc, outVars, qpVars>>

HandlerReturns0 == Use({"cb"}) /\ UNCHANGED res

HandlerReturnsError ==
    /\ res' = [res EXCEPT !["cm_id"] = "freed"]
    /\ Use({"cb"})

CmAddrResolved ==
    \/ /\ CmEvent("resolving_addr", "resolving_route")
       /\ state' = ADDR_RESOLVED
       /\ HandlerReturns0
    \/ /\ Fault("call")     \* rdma_resolve_route
       /\ CmEvent("resolving_addr", "failed")
       /\ state' = ERROR
       /\ HandlerReturnsError

CmRouteResolved ==
    /\ CmEvent("resolving_route", "bound")
    /\ state' = ROUTE_RESOLVED
    /\ HandlerReturns0

(* Mutant: the state is set on a server only. *)
CmEstablishedServer ==
    /\ CmEvent("connecting", "connected")
    /\ UNCHANGED state
    /\ HandlerReturns0

CmEstablished ==
    /\ CmEvent("connecting", "connected")
    /\ state' = CONNECTED
    /\ HandlerReturns0

(* Error events: the waiter is woken, but the state it waits for stays.    *)
CmError ==
    /\ Fault("event")
    /\ \E s \in {"resolving_addr", "resolving_route", "connecting"} : CmEvent(s, "failed")
    /\ HandlerReturnsError
    /\ UNCHANGED state

CmDisconnected ==
    /\ \/ Fault("peer") /\ CmEvent("connected", "disconnected")
       \/ CmEvent("disconnecting", "disconnected")
    /\ state' = DISCONNECTED
    /\ HandlerReturns0

CmDeviceRemoval ==
    /\ Fault("removal")
    /\ \E s \in {"resolving_route", "bound", "connecting", "connected", "disconnecting",
                 "disconnected"} : CmEvent(s, "failed")
    /\ HandlerReturnsError
    /\ UNCHANGED state

-----------------------------------------------------------------------------
InitStep ==
    \/ InitRpcClient \/ AllocCb \/ AllocCtxs \/ CreateId
    \/ ResolveAddr \/ WaitRoute
    \/ AllocPd \/ CreateCq \/ NotifyCq \/ CreateQp \/ SetupBuffers
    \/ PostRecv \/ Connect \/ WaitConn

FreeStep == KfreeBuffers \/ DestroyQp \/ DestroyCq

DestroyStep == Disconnect \/ DestroyId \/ KfreeCb

(* The answers the connection manager owes. *)
CmAnswer == CmAddrResolved \/ CmRouteResolved \/ CmEstablished \/ CmError

Next ==
    \/ InitStep \/ Signal \/ FreeStep \/ DestroyStep \/ NullDeref
    \/ CmAnswer \/ CmDisconnected \/ CmDeviceRemoval

Spec == Init /\ [][Next]_vars

(* The client's thread runs, and the connection manager answers what it is *)
(* asked: rdma_resolve_addr and rdma_resolve_route carry a timeout of 2 s, *)
(* rdma_connect is retried 7 times.  No signal is promised.                *)
FairSpec ==
    Spec /\ WF_vars(InitStep) /\ WF_vars(FreeStep) /\ WF_vars(NullDeref) /\ WF_vars(CmAnswer)

-----------------------------------------------------------------------------
TypeOK ==
    /\ pc \in {"init_rpc_client", "alloc_cb", "alloc_ctxs", "create_id", "resolve_addr",
               "wait_route", "alloc_pd", "create_cq", "notify_cq", "create_qp", "setup_buffers",
               "post_recv", "wait_conn", "returned", "kfree_buffers", "destroy_qp",
               "destroy_cq", "destroy_id", "kfree_cb", "destroyed", "oops"}
    /\ ret \in {0, -1}
    /\ failed \in BOOLEAN
    /\ result \in {"none", "channel", "NULL"}
    /\ state \in {IDLE, ADDR_RESOLVED, ROUTE_RESOLVED, CONNECTED, WORKING,
                 DISCONNECTED, ERROR}
    /\ cm \in {"idle", "resolving_addr", "resolving_route", "bound", "connecting",
               "connected", "disconnecting", "disconnected", "failed"}
    /\ rq_depth \in RqDepths \cup {0}
    /\ posted \in 0 .. MSGBUF_CNT
    /\ res \in [Resources -> {"none", "live", "freed"}]
    /\ bad \subseteq Resources

(* The handlers of the connection manager and of the completion queue have *)
(* cb as their context, and the latter gives ids back to rpc_ch: neither   *)
(* can run after cb, buf_ctxs or rpc_ch is gone.                           *)
ContextAlive ==
    \A r \in {"cm_id", "cq"} :
        res[r] = "live" => \A x \in {"cb", "ctxs", "rpc_ch"} : res[x] = "live"

(* A run_client that fails, wherever it fails and whatever the connection  *)
(* manager did meanwhile, has released what it acquired.                   *)
FailedRunReleases ==
    pc = "returned" /\ ret # 0 => \A r \in QpResources : res[r] # "live"

(* When init_rpc_client returns NULL only the bitmap is left behind. *)
NullLeaksOnlyBitmap ==
    pc = "returned" /\ result = "NULL" =>
        \A r \in Resources \ {"bitmap"} : res[r] # "live"

(* A channel none of whose steps failed was connected with every receive   *)
(* buffer posted: no signal, or disconnection during the wait, is taken    *)
(* for a connection.                                                       *)
ConnectedMeansReady ==
    pc = "returned" /\ result = "channel" /\ ~ failed =>
        /\ posted = MSGBUF_CNT
        /\ cm \in {"connected", "disconnected", "failed"}
        /\ \A r \in Resources \ {"cm_id"} : res[r] = "live"

(* Of a channel that did connect, the thread that owns it and              *)
(* cma_event_handler use and release nothing that is not there, but for    *)
(* cm_id once the connection manager has destroyed it because its handler  *)
(* returned an error; and destroy_rpc_client leaves nothing behind.  What  *)
(* the completion callback uses meanwhile is not in bad: TearDownWindow of *)
(* RpcClient is about that.                                                *)
CleanLifecycle ==
    result = "channel" /\ ~ failed =>
        /\ bad \subseteq IF cm = "failed" THEN {"cm_id"} ELSE {}
        /\ pc = "destroyed" => \A r \in Resources : res[r] = "freed"

-----------------------------------------------------------------------------
(* What comments and messages of the code say                              *)

(* The states "are used to signal events" to the thread of the client:     *)
(* init_rpc_client returns.                                                *)
InitReturns == <>(pc = "returned")

(* "Return NULL on failure", of init_rdma_ch. *)
ReturnsNullOnFailure == pc = "returned" /\ ret # 0 => result = "NULL"

(* "setup_buffers failed: %d": run_client learns of a step that failed.    *)
FailureReported == pc = "returned" /\ failed => ret # 0
=============================================================================
