--------------------------- MODULE RdmaConnProofs ---------------------------
(***************************************************************************)
(* Proofs about the life of a channel, for every number of buffers, every  *)
(* receive queue depth and every set of faults.                            *)
(*                                                                         *)
(* The inductive invariant ConnInv says, for each place the thread can be  *)
(* at, which resources it holds there, and how far the connection manager  *)
(* can have gone meanwhile.                                                *)
(***************************************************************************)
EXTENDS RdmaConn, TLAPS

AllocPcs == {"init_rpc_client", "alloc_cb", "alloc_ctxs", "create_id"}
BindPcs == {"resolve_addr", "wait_route", "alloc_pd"}
QpPcs == {"create_cq", "notify_cq", "create_qp", "setup_buffers", "post_recv", "wait_conn"}
InitPcs == AllocPcs \cup BindPcs \cup QpPcs
FreePcs == {"kfree_buffers", "destroy_qp", "destroy_cq"}
DestroyPcs == {"destroy_id", "kfree_cb", "destroyed"}

(* What has been decided where: init_rpc_client has no result before it    *)
(* returns, destroy_rpc_client has a channel, and run_client fails only    *)
(* with a failure recorded.                                                *)
OutcomeInv ==
    /\ pc \in InitPcs => result = "none" /\ ret = 0
    /\ pc \in FreePcs => result = "channel" \/ (result = "none" /\ ret = -1)
    /\ pc = "returned" => result # "none"
    /\ pc \in DestroyPcs => result = "channel"
    /\ ret = -1 => failed
    /\ pc = "oops" => failed \/ result = "NULL"

(* What the thread holds of rpc_ch, bitmap, cb, buf_ctxs and cm_id. *)
ContextInv ==
    /\ (\/ pc \in (InitPcs \ {"init_rpc_client"}) \cup FreePcs \cup {"destroy_id", "kfree_cb"}
        \/ pc = "returned" /\ result = "channel")
       => /\ res["rpc_ch"] = "live"
          /\ res["bitmap"] = "live" \/ (res["bitmap"] = "none" /\ failed)
          /\ pc # "alloc_cb" => res["cb"] = "live"
          /\ pc \notin {"alloc_cb", "alloc_ctxs"} => res["ctxs"] = "live"
          /\ pc \notin AllocPcs => res["cm_id"] # "none"
    /\ pc \in AllocPcs \/ result = "NULL" =>
          \A r \in {"cm_id"} \cup QpResources : res[r] = "none"
    /\ pc = "init_rpc_client" => \A r \in Resources : res[r] = "none"
    /\ result = "NULL" => \A r \in {"rpc_ch", "cb", "ctxs"} : res[r] # "live"
    /\ pc \in {"kfree_cb", "destroyed"} => res["cm_id"] # "live"
    /\ res["bitmap"] = "freed" => pc = "destroyed"
    /\ \A r \in {"cm_id", "cq"} :
          res[r] = "live" => \A x \in {"cb", "ctxs", "rpc_ch"} : res[x] = "live"
    /\ pc \in {"alloc_cb", "alloc_ctxs"} => res["ctxs"] = "none"
    /\ pc = "alloc_cb" => res["cb"] = "none"

(* What it holds of pd, cq, qp and the buffers on its way up ... *)
SetUpInv ==
    /\ pc \in BindPcs => \A r \in QpResources : res[r] = "none"
    /\ pc = "create_cq" => res["pd"] = "live" /\ res["cq"] = "none"
    /\ pc \in {"notify_cq", "create_qp"} => res["pd"] = "live" /\ res["cq"] = "live"
    /\ pc \in {"create_cq", "notify_cq", "create_qp"} => res["qp"] = "none"
    /\ pc \in {"create_cq", "notify_cq", "create_qp", "setup_buffers"} => res["bufs"] = "none"
    /\ pc \in {"setup_buffers", "post_recv", "wait_conn"} /\ ~ failed =>
          \A r \in {"pd", "cq", "qp"} : res[r] = "live"
    /\ pc \in {"post_recv", "wait_conn"} /\ ~ failed => res["bufs"] = "live"
    /\ pc \in InitPcs \ {"post_recv", "wait_conn"} => posted = 0
    /\ pc = "wait_conn" => posted = MSGBUF_CNT

(* ... and on its way down, with a failure behind it or without. *)
TearDownInv ==
    /\ pc = "returned" /\ ret = -1 => \A r \in QpResources : res[r] # "live"
    /\ pc \in {"destroy_qp", "destroy_cq"} \cup DestroyPcs => res["bufs"] # "live"
    /\ pc \in {"destroy_cq"} \cup DestroyPcs => res["qp"] # "live"
    /\ pc \in DestroyPcs => res["cq"] # "live" /\ res["pd"] # "live"
    /\ pc \in {"returned", "kfree_buffers"} /\ result = "channel" /\ ~ failed =>
          (\A r \in QpResources : res[r] = "live") /\ posted = MSGBUF_CNT
    /\ pc \in {"destroy_qp", "destroy_cq"} /\ ~ failed =>
          res["pd"] = "live" /\ res["cq"] = "live" /\ res["bufs"] = "freed"
    /\ pc = "destroy_qp" /\ ~ failed => res["qp"] = "live"
    /\ pc = "destroy_cq" /\ ~ failed => res["qp"] = "freed"
    /\ pc \in DestroyPcs /\ ~ failed => \A r \in QpResources : res[r] = "freed"
    /\ pc = "kfree_cb" => res["cm_id"] = "freed"
    /\ pc = "destroyed" /\ ~ failed => \A r \in Resources : res[r] = "freed"

Established == {"connected", "disconnecting", "disconnected"}

(* How far the connection manager is. *)
CmInv ==
    /\ pc \in InitPcs \ {"wait_conn"} =>
          state # CONNECTED /\ cm \notin Established \cup {"connecting"}
    /\ state = CONNECTED => cm \in {"connected", "disconnecting", "failed"}
    /\ pc \in InitPcs \cup {"returned"} \/ result # "channel" => cm # "disconnecting"
    /\ result = "channel" /\ ~ failed => cm \in Established \cup {"failed"}
    /\ cm \in Established /\ pc \notin {"kfree_cb", "destroyed"} => res["cm_id"] = "live"

(* A use of what is not there needs a failure, or a cm_id the connection   *)
(* manager has destroyed, and then it is this cm_id.                       *)
CleanInv ==
    /\ ~ failed /\ result # "NULL" /\ res["cm_id"] # "freed" => bad = {}
    /\ ~ failed /\ result = "channel" /\ cm # "failed" => bad = {}
    /\ ~ failed /\ result # "NULL" => bad \subseteq {"cm_id"}

ConnInv ==
    TypeOK /\ OutcomeInv /\ ContextInv /\ SetUpInv /\ TearDownInv /\ CmInv /\ CleanInv

-----------------------------------------------------------------------------
(* What becomes of each resource when some are acquired. *)
LEMMA AcquireFacts ==
    ASSUME TypeOK, NEW R \in SUBSET Resources, Acquire(R)
    PROVE  /\ res' \in [Resources -> {"none", "live", "freed"}]
           /\ \A r \in Resources : res'[r] = IF r \in R THEN "live" ELSE res[r]
BY DEF TypeOK, Acquire

(* Using resources that are all there is recorded as no mistake. *)
LEMMA UseFacts ==
    ASSUME TypeOK, NEW R \in SUBSET Resources, Use(R)
    PROVE  /\ bad' \subseteq Resources
           /\ (\A r \in R : res[r] = "live") => bad' = bad
           /\ (\A r \in R \ {"cm_id"} : res[r] = "live") => bad' \subseteq bad \cup {"cm_id"}
BY DEF TypeOK, Use

(* What becomes of each resource when some are released. *)
LEMMA ReleaseFacts ==
    ASSUME TypeOK, NEW R \in SUBSET Resources, NEW U \in SUBSET Resources, ReleaseUsing(R, U)
    PROVE  /\ res' \in [Resources -> {"none", "live", "freed"}]
           /\ \A r \in Resources : res'[r] = IF r \in R THEN "freed" ELSE res[r]
           /\ bad' \subseteq Resources
           /\ (\A r \in R \cup U : res[r] = "live") => bad' = bad
           /\ (\A r \in (R \cup U) \ {"cm_id"} : res[r] = "live") => bad' \subseteq bad \cup {"cm_id"}
<1>1. Use(R \cup U)
    BY DEF ReleaseUsing
<1> QED
    BY <1>1, UseFacts DEF TypeOK, ReleaseUsing

(* What a return from run_client does: with -1 the failure is recorded. *)
LEMMA ReturnFacts ==
    ASSUME TypeOK
    PROVE  /\ ReturnFromRunClient(-1) =>
                 pc' = "returned" /\ ret' = -1 /\ failed' = TRUE /\ result' = "channel"
           /\ ReturnFromRunClient(0) =>
                 pc' = "returned" /\ ret' = 0 /\ failed' = failed /\ result' = "channel"
<1>1. -1 # 0 /\ failed \in BOOLEAN
    BY DEF TypeOK
<1>2. (failed \/ -1 # 0) = TRUE
    BY <1>1
<1>3. (failed \/ 0 # 0) = failed
    BY <1>1, Zenon
<1> QED
    BY <1>2, <1>3 DEF ReturnFromRunClient

-----------------------------------------------------------------------------
(* The exits that several steps share. *)

(* init_rpc_client returns NULL, after releasing all it has but the bitmap. *)
LEMMA ReturnNullKeeps ==
    ASSUME ConnInv,
           pc \in AllocPcs \ {"init_rpc_client"},
           NEW R \in SUBSET {"cb", "ctxs"},
           ReturnNull(R),
           \A r \in {"cb", "ctxs"} : res[r] = "live" => r \in R
    PROVE  ConnInv'
<1> USE ConnAssumption DEF Release,
        InitPcs, AllocPcs, BindPcs, QpPcs, FreePcs, DestroyPcs, Established, Resources, QpResources,
        cmVars, qpVars, outVars,
        IDLE, ADDR_RESOLVED, ROUTE_RESOLVED, CONNECTED, WORKING, DISCONNECTED, ERROR
<1>0. TypeOK /\ OutcomeInv /\ ContextInv /\ SetUpInv /\ TearDownInv /\ CmInv /\ CleanInv
    BY DEF ConnInv
<1>a. ReleaseUsing(R \cup {"rpc_ch"}, {}) /\ R \cup {"rpc_ch"} \in SUBSET Resources
    BY DEF ReturnNull
<1>b. /\ res' \in [Resources -> {"none", "live", "freed"}]
      /\ \A r \in Resources : res'[r] = IF r \in R \cup {"rpc_ch"} THEN "freed" ELSE res[r]
      /\ bad' \subseteq Resources
    BY <1>0, <1>a, ReleaseFacts
<1>c. pc' = "returned" /\ result' = "NULL" /\ UNCHANGED <<ret, failed, state, cm, rq_depth, posted>>
    BY DEF ReturnNull
<1> USE <1>0, <1>b, <1>c
<1>1. TypeOK'
    <2>1. res' \in [Resources -> {"none", "live", "freed"}] /\ bad' \subseteq Resources
        BY DEF TypeOK
    <2>2. failed' \in BOOLEAN
        BY DEF TypeOK
    <2> QED
        BY <2>1, <2>2 DEF TypeOK
<1>2. OutcomeInv'
    BY DEF TypeOK, OutcomeInv, SetUpInv, TearDownInv
<1>3. ContextInv'
    BY DEF TypeOK, ContextInv, OutcomeInv, SetUpInv, TearDownInv
<1>4. SetUpInv'
    BY DEF TypeOK, SetUpInv, OutcomeInv, ContextInv
<1>5. TearDownInv'
    BY DEF TypeOK, TearDownInv, OutcomeInv, ContextInv, SetUpInv
<1>6. CmInv'
    BY DEF TypeOK, CmInv, OutcomeInv, ContextInv
<1>7. CleanInv'
    BY DEF TypeOK, CleanInv, OutcomeInv, ContextInv, SetUpInv, TearDownInv, CmInv
<1> QED
    BY <1>1, <1>2, <1>3, <1>4, <1>5, <1>6, <1>7 DEF ConnInv

(* run_client returns -1, after releasing what setup_qp had acquired. *)
LEMMA RunFailsKeeps ==
    ASSUME ConnInv,
           pc \in (BindPcs \cup QpPcs) \ {"wait_conn"},
           ReturnFromRunClient(-1),
           res' \in [Resources -> {"none", "live", "freed"}],
           \A r \in Resources \ QpResources : res'[r] = res[r],
           \A r \in QpResources : res'[r] # "live",
           bad' \subseteq Resources,
           UNCHANGED <<cmVars, qpVars>>
    PROVE  ConnInv'
<1> USE ConnAssumption DEF Release,
        InitPcs, AllocPcs, BindPcs, QpPcs, FreePcs, DestroyPcs, Established, Resources, QpResources,
        cmVars, qpVars, outVars,
        IDLE, ADDR_RESOLVED, ROUTE_RESOLVED, CONNECTED, WORKING, DISCONNECTED, ERROR
<1>0. TypeOK /\ OutcomeInv /\ ContextInv /\ SetUpInv /\ TearDownInv /\ CmInv /\ CleanInv
    BY DEF ConnInv
<1>a. pc' = "returned" /\ ret' = -1 /\ failed' = TRUE /\ result' = "channel"
    BY <1>0, ReturnFacts
<1> USE <1>0, <1>a
<1>1. TypeOK'
    <2>1. res' \in [Resources -> {"none", "live", "freed"}] /\ bad' \subseteq Resources
        BY DEF TypeOK
    <2>2. failed' \in BOOLEAN
        BY DEF TypeOK
    <2> QED
        BY <2>1, <2>2 DEF TypeOK
<1>2. OutcomeInv'
    BY DEF TypeOK, OutcomeInv, SetUpInv, TearDownInv
<1>3. ContextInv'
    BY DEF TypeOK, ContextInv, OutcomeInv, SetUpInv, TearDownInv
<1>4. SetUpInv'
    BY DEF TypeOK, SetUpInv, OutcomeInv, ContextInv
<1>5. TearDownInv'
    BY DEF TypeOK, TearDownInv, OutcomeInv, ContextInv, SetUpInv
<1>6. CmInv'
    BY DEF TypeOK, CmInv, OutcomeInv, ContextInv
<1>7. CleanInv'
    BY DEF TypeOK, CleanInv, OutcomeInv, ContextInv, SetUpInv, TearDownInv, CmInv
<1> QED
    BY <1>1, <1>2, <1>3, <1>4, <1>5, <1>6, <1>7 DEF ConnInv

(* run_client goes to kfree_buffers and kfree_qp. *)
LEMMA AbandonKeeps ==
    ASSUME ConnInv,
           pc \in {"post_recv", "wait_conn"},
           AbandonQp,
           UNCHANGED <<cmVars, qpVars>>
    PROVE  ConnInv'
<1> USE ConnAssumption DEF Release,
        InitPcs, AllocPcs, BindPcs, QpPcs, FreePcs, DestroyPcs, Established, Resources, QpResources,
        cmVars, qpVars, outVars,
        IDLE, ADDR_RESOLVED, ROUTE_RESOLVED, CONNECTED, WORKING, DISCONNECTED, ERROR
<1>0. TypeOK /\ OutcomeInv /\ ContextInv /\ SetUpInv /\ TearDownInv /\ CmInv /\ CleanInv
    BY DEF ConnInv
<1> USE <1>0 DEF AbandonQp
<1>1. TypeOK'
    <2>1. res' \in [Resources -> {"none", "live", "freed"}] /\ bad' \subseteq Resources
        BY DEF TypeOK
    <2>2. failed' \in BOOLEAN
        BY DEF TypeOK
    <2> QED
        BY <2>1, <2>2 DEF TypeOK
<1>2. OutcomeInv'
    BY DEF TypeOK, OutcomeInv, SetUpInv, TearDownInv
<1>3. ContextInv'
    BY DEF TypeOK, ContextInv, OutcomeInv, SetUpInv, TearDownInv
<1>4. SetUpInv'
    BY DEF TypeOK, SetUpInv, OutcomeInv, ContextInv
<1>5. TearDownInv'
    BY DEF TypeOK, TearDownInv, OutcomeInv, ContextInv, SetUpInv
<1>6. CmInv'
    BY DEF TypeOK, CmInv, OutcomeInv, ContextInv
<1>7. CleanInv'
    BY DEF TypeOK, CleanInv, OutcomeInv, ContextInv, SetUpInv, TearDownInv, CmInv
<1> QED
    BY <1>1, <1>2, <1>3, <1>4, <1>5, <1>6, <1>7 DEF ConnInv

(* run_client returns 0. *)
LEMMA RunSucceedsKeeps ==
    ASSUME ConnInv,
           pc = "wait_conn",
           state = CONNECTED,
           ReturnFromRunClient(0),
           UNCHANGED <<cmVars, qpVars, res, bad>>
    PROVE  ConnInv'
<1> USE ConnAssumption DEF Release,
        InitPcs, AllocPcs, BindPcs, QpPcs, FreePcs, DestroyPcs, Established, Resources, QpResources,
        cmVars, qpVars, outVars,
        IDLE, ADDR_RESOLVED, ROUTE_RESOLVED, CONNECTED, WORKING, DISCONNECTED, ERROR
<1>0. TypeOK /\ OutcomeInv /\ ContextInv /\ SetUpInv /\ TearDownInv /\ CmInv /\ CleanInv
    BY DEF ConnInv
<1>a. pc' = "returned" /\ ret' = 0 /\ failed' = failed /\ result' = "channel"
    BY <1>0, ReturnFacts
<1> USE <1>0, <1>a
<1>1. TypeOK'
    <2>1. res' \in [Resources -> {"none", "live", "freed"}] /\ bad' \subseteq Resources
        BY DEF TypeOK
    <2>2. failed' \in BOOLEAN
        BY DEF TypeOK
    <2> QED
        BY <2>1, <2>2 DEF TypeOK
<1>2. OutcomeInv'
    BY DEF TypeOK, OutcomeInv, SetUpInv, TearDownInv
<1>3. ContextInv'
    BY DEF TypeOK, ContextInv, OutcomeInv, SetUpInv, TearDownInv
<1>4. SetUpInv'
    BY DEF TypeOK, SetUpInv, OutcomeInv, ContextInv
<1>5. TearDownInv'
    BY DEF TypeOK, TearDownInv, OutcomeInv, ContextInv, SetUpInv
<1>6. CmInv'
    BY DEF TypeOK, CmInv, OutcomeInv, ContextInv
<1>7. CleanInv'
    BY DEF TypeOK, CleanInv, OutcomeInv, ContextInv, SetUpInv, TearDownInv, CmInv
<1> QED
    BY <1>1, <1>2, <1>3, <1>4, <1>5, <1>6, <1>7 DEF ConnInv

-----------------------------------------------------------------------------
(* Each step keeps ConnInv.  One lemma per actor and phase.                *)

(* init_rpc_client and init_rdma_ch up to rdma_create_id. *)
LEMMA AllocKeeps ==
    ASSUME ConnInv, InitRpcClient \/ AllocCb \/ AllocCtxs \/ CreateId
    PROVE  ConnInv'
<1> USE ConnAssumption, AcquireFacts, UseFacts, ReleaseFacts DEF Release,
        InitPcs, AllocPcs, BindPcs, QpPcs, FreePcs, DestroyPcs, Established, Resources, QpResources,
        cmVars, qpVars, outVars,
        IDLE, ADDR_RESOLVED, ROUTE_RESOLVED, CONNECTED, WORKING, DISCONNECTED, ERROR
<1>0. TypeOK /\ OutcomeInv /\ ContextInv /\ SetUpInv /\ TearDownInv /\ CmInv /\ CleanInv
    BY DEF ConnInv
<1>1. CASE InitRpcClient
    <2> USE <1>0, <1>1 DEF InitRpcClient
    <2>1. TypeOK'
        <3>1. res' \in [Resources -> {"none", "live", "freed"}] /\ bad' \subseteq Resources
            BY DEF TypeOK
        <3>2. failed' \in BOOLEAN
            BY DEF TypeOK
        <3> QED
            BY <3>1, <3>2 DEF TypeOK
    <2>2. OutcomeInv'
        BY DEF TypeOK, OutcomeInv, SetUpInv, TearDownInv
    <2>3. ContextInv'
        BY DEF TypeOK, ContextInv, OutcomeInv, SetUpInv, TearDownInv
    <2>4. SetUpInv'
        BY DEF TypeOK, SetUpInv, OutcomeInv, ContextInv
    <2>5. TearDownInv'
        BY DEF TypeOK, TearDownInv, OutcomeInv, ContextInv, SetUpInv
    <2>6. CmInv'
        BY DEF TypeOK, CmInv, OutcomeInv, ContextInv
    <2>7. CleanInv'
        BY DEF TypeOK, CleanInv, OutcomeInv, ContextInv, SetUpInv, TearDownInv, CmInv
    <2> QED
        BY <2>1, <2>2, <2>3, <2>4, <2>5, <2>6, <2>7 DEF ConnInv
<1>2. CASE AllocCb
    <2>1. CASE At("alloc_cb", "alloc_ctxs") /\ Acquire({"cb"}) /\ UNCHANGED <<outVars, cmVars, qpVars, bad>>
        <3> USE <1>0, <1>2, <2>1 DEF AllocCb, At
        <3>1. TypeOK'
            <4>1. res' \in [Resources -> {"none", "live", "freed"}] /\ bad' \subseteq Resources
                BY DEF TypeOK
            <4>2. failed' \in BOOLEAN
                BY DEF TypeOK
            <4> QED
                BY <4>1, <4>2 DEF TypeOK
        <3>2. OutcomeInv'
            BY DEF TypeOK, OutcomeInv, SetUpInv, TearDownInv
        <3>3. ContextInv'
            BY DEF TypeOK, ContextInv, OutcomeInv, SetUpInv, TearDownInv
        <3>4. SetUpInv'
            BY DEF TypeOK, SetUpInv, OutcomeInv, ContextInv
        <3>5. TearDownInv'
            BY DEF TypeOK, TearDownInv, OutcomeInv, ContextInv, SetUpInv
        <3>6. CmInv'
            BY DEF TypeOK, CmInv, OutcomeInv, ContextInv
        <3>7. CleanInv'
            BY DEF TypeOK, CleanInv, OutcomeInv, ContextInv, SetUpInv, TearDownInv, CmInv
        <3> QED
            BY <3>1, <3>2, <3>3, <3>4, <3>5, <3>6, <3>7 DEF ConnInv
    <2>2. CASE pc \in AllocPcs /\ ReturnNull({})
        BY <1>0, <1>2, <2>2, ReturnNullKeeps DEF AllocCb, TypeOK, OutcomeInv, ContextInv, SetUpInv, At
    <2> QED
        BY <1>2, <2>1, <2>2 DEF AllocCb, At
<1>3. CASE AllocCtxs
    <2>1. CASE /\ At("alloc_ctxs", "create_id") /\ Acquire({"ctxs"}) /\ state' = IDLE
               /\ UNCHANGED <<outVars, cm, qpVars, bad>>
        <3> USE <1>0, <1>3, <2>1 DEF AllocCtxs, At
        <3>1. TypeOK'
            <4>1. res' \in [Resources -> {"none", "live", "freed"}] /\ bad' \subseteq Resources
                BY DEF TypeOK
            <4>2. failed' \in BOOLEAN
                BY DEF TypeOK
            <4> QED
                BY <4>1, <4>2 DEF TypeOK
        <3>2. OutcomeInv'
            BY DEF TypeOK, OutcomeInv, SetUpInv, TearDownInv
        <3>3. ContextInv'
            BY DEF TypeOK, ContextInv, OutcomeInv, SetUpInv, TearDownInv
        <3>4. SetUpInv'
            BY DEF TypeOK, SetUpInv, OutcomeInv, ContextInv
        <3>5. TearDownInv'
            BY DEF TypeOK, TearDownInv, OutcomeInv, ContextInv, SetUpInv
        <3>6. CmInv'
            BY DEF TypeOK, CmInv, OutcomeInv, ContextInv
        <3>7. CleanInv'
            BY DEF TypeOK, CleanInv, OutcomeInv, ContextInv, SetUpInv, TearDownInv, CmInv
        <3> QED
            BY <3>1, <3>2, <3>3, <3>4, <3>5, <3>6, <3>7 DEF ConnInv
    <2>2. CASE pc \in AllocPcs /\ ReturnNull({"cb"})
        BY <1>0, <1>3, <2>2, ReturnNullKeeps DEF AllocCtxs, TypeOK, OutcomeInv, ContextInv, SetUpInv, At
    <2> QED
        BY <1>3, <2>1, <2>2 DEF AllocCtxs, At
<1>4. CASE CreateId
    <2>1. CASE At("create_id", "resolve_addr") /\ Acquire({"cm_id"}) /\ UNCHANGED <<outVars, cmVars, qpVars, bad>>
        <3> USE <1>0, <1>4, <2>1 DEF CreateId, At
        <3>1. TypeOK'
            <4>1. res' \in [Resources -> {"none", "live", "freed"}] /\ bad' \subseteq Resources
                BY DEF TypeOK
            <4>2. failed' \in BOOLEAN
                BY DEF TypeOK
            <4> QED
                BY <4>1, <4>2 DEF TypeOK
        <3>2. OutcomeInv'
            BY DEF TypeOK, OutcomeInv, SetUpInv, TearDownInv
        <3>3. ContextInv'
            BY DEF TypeOK, ContextInv, OutcomeInv, SetUpInv, TearDownInv
        <3>4. SetUpInv'
            BY DEF TypeOK, SetUpInv, OutcomeInv, ContextInv
        <3>5. TearDownInv'
            BY DEF TypeOK, TearDownInv, OutcomeInv, ContextInv, SetUpInv
        <3>6. CmInv'
            BY DEF TypeOK, CmInv, OutcomeInv, ContextInv
        <3>7. CleanInv'
            BY DEF TypeOK, CleanInv, OutcomeInv, ContextInv, SetUpInv, TearDownInv, CmInv
        <3> QED
            BY <3>1, <3>2, <3>3, <3>4, <3>5, <3>6, <3>7 DEF ConnInv
    <2>2. CASE pc \in AllocPcs /\ ReturnNull({"ctxs", "cb"})
        BY <1>0, <1>4, <2>2, ReturnNullKeeps DEF CreateId, TypeOK, OutcomeInv, ContextInv, SetUpInv, At
    <2> QED
        BY <1>4, <2>1, <2>2 DEF CreateId, At
<1> QED
    BY <1>1, <1>2, <1>3, <1>4

(* What follows the two waits of the client, whatever ended them. *)
LEMMA WaitedKeeps ==
    ASSUME ConnInv, RouteWaited \/ ConnWaited
    PROVE  ConnInv'
<1> USE ConnAssumption DEF Release,
        InitPcs, AllocPcs, BindPcs, QpPcs, FreePcs, DestroyPcs, Established, Resources, QpResources,
        cmVars, qpVars, outVars,
        IDLE, ADDR_RESOLVED, ROUTE_RESOLVED, CONNECTED, WORKING, DISCONNECTED, ERROR
<1>0. TypeOK /\ OutcomeInv /\ ContextInv /\ SetUpInv /\ TearDownInv /\ CmInv /\ CleanInv
    BY DEF ConnInv
<1>1. CASE RouteWaited
    <2>1. CASE pc' = "alloc_pd" /\ UNCHANGED <<outVars, cmVars, qpVars, res, bad>>
        <3> USE <1>0, <1>1, <2>1 DEF RouteWaited
        <3>1. TypeOK'
            <4>1. res' \in [Resources -> {"none", "live", "freed"}] /\ bad' \subseteq Resources
                BY DEF TypeOK
            <4>2. failed' \in BOOLEAN
                BY DEF TypeOK
            <4> QED
                BY <4>1, <4>2 DEF TypeOK
        <3>2. OutcomeInv'
            BY DEF TypeOK, OutcomeInv, SetUpInv, TearDownInv
        <3>3. ContextInv'
            BY DEF TypeOK, ContextInv, OutcomeInv, SetUpInv, TearDownInv
        <3>4. SetUpInv'
            BY DEF TypeOK, SetUpInv, OutcomeInv, ContextInv
        <3>5. TearDownInv'
            BY DEF TypeOK, TearDownInv, OutcomeInv, ContextInv, SetUpInv
        <3>6. CmInv'
            BY DEF TypeOK, CmInv, OutcomeInv, ContextInv
        <3>7. CleanInv'
            BY DEF TypeOK, CleanInv, OutcomeInv, ContextInv, SetUpInv, TearDownInv, CmInv
        <3> QED
            BY <3>1, <3>2, <3>3, <3>4, <3>5, <3>6, <3>7 DEF ConnInv
    <2>2. CASE ReturnFromRunClient(-1) /\ UNCHANGED <<cmVars, qpVars, res, bad>>
        BY <1>0, <1>1, <2>2, RunFailsKeeps DEF RouteWaited, TypeOK, OutcomeInv, ContextInv, SetUpInv
    <2> QED
        BY <1>1, <2>1, <2>2 DEF RouteWaited
<1>2. CASE ConnWaited
    <2>1. CASE state = CONNECTED /\ ReturnFromRunClient(0) /\ UNCHANGED <<cmVars, qpVars, res, bad>>
        BY <1>0, <1>2, <2>1, RunSucceedsKeeps DEF ConnWaited, TypeOK, OutcomeInv, ContextInv, SetUpInv
    <2>2. CASE AbandonQp /\ UNCHANGED <<cmVars, qpVars>>
        BY <1>0, <1>2, <2>2, AbandonKeeps DEF ConnWaited, TypeOK, OutcomeInv, ContextInv, SetUpInv
    <2> QED
        BY <1>2, <2>1, <2>2 DEF ConnWaited
<1> QED
    BY <1>1, <1>2

(* run_client. *)
LEMMA RunClientKeeps ==
    ASSUME ConnInv, ResolveAddr \/ WaitRoute \/ AllocPd \/ CreateCq \/ NotifyCq
                    \/ CreateQp \/ SetupBuffers \/ PostRecv \/ Connect \/ WaitConn
    PROVE  ConnInv'
<1> USE ConnAssumption, AcquireFacts, UseFacts, ReleaseFacts DEF Release,
        InitPcs, AllocPcs, BindPcs, QpPcs, FreePcs, DestroyPcs, Established, Resources, QpResources,
        cmVars, qpVars, outVars,
        IDLE, ADDR_RESOLVED, ROUTE_RESOLVED, CONNECTED, WORKING, DISCONNECTED, ERROR
<1>0. TypeOK /\ OutcomeInv /\ ContextInv /\ SetUpInv /\ TearDownInv /\ CmInv /\ CleanInv
    BY DEF ConnInv
<1>1. CASE ResolveAddr
    <2>1. CASE /\ pc' = "wait_route" /\ cm' = "resolving_addr" /\ Use({"cm_id"})
               /\ UNCHANGED <<outVars, state, qpVars, res>>
        <3> USE <1>0, <1>1, <2>1 DEF ResolveAddr
        <3>1. TypeOK'
            <4>1. res' \in [Resources -> {"none", "live", "freed"}] /\ bad' \subseteq Resources
                BY DEF TypeOK
            <4>2. failed' \in BOOLEAN
                BY DEF TypeOK
            <4> QED
                BY <4>1, <4>2 DEF TypeOK
        <3>2. OutcomeInv'
            BY DEF TypeOK, OutcomeInv, SetUpInv, TearDownInv
        <3>3. ContextInv'
            BY DEF TypeOK, ContextInv, OutcomeInv, SetUpInv, TearDownInv
        <3>4. SetUpInv'
            BY DEF TypeOK, SetUpInv, OutcomeInv, ContextInv
        <3>5. TearDownInv'
            BY DEF TypeOK, TearDownInv, OutcomeInv, ContextInv, SetUpInv
        <3>6. CmInv'
            BY DEF TypeOK, CmInv, OutcomeInv, ContextInv
        <3>7. CleanInv'
            BY DEF TypeOK, CleanInv, OutcomeInv, ContextInv, SetUpInv, TearDownInv, CmInv
        <3> QED
            BY <3>1, <3>2, <3>3, <3>4, <3>5, <3>6, <3>7 DEF ConnInv
    <2>2. CASE ReturnFromRunClient(-1) /\ Use({"cm_id"}) /\ UNCHANGED <<cmVars, qpVars, res>>
        BY <1>0, <1>1, <2>2, RunFailsKeeps DEF ResolveAddr, TypeOK, OutcomeInv, ContextInv, SetUpInv
    <2> QED
        BY <1>1, <2>1, <2>2 DEF ResolveAddr
<1>2. CASE WaitRoute
    BY <1>2, WaitedKeeps DEF WaitRoute
<1>3. CASE AllocPd
    <2>1. CASE /\ pc' = "create_cq" /\ Acquire({"pd"}) /\ Use({"cm_id"})
               /\ UNCHANGED <<outVars, cmVars, qpVars>>
        <3> USE <1>0, <1>3, <2>1 DEF AllocPd
        <3>1. TypeOK'
            <4>1. res' \in [Resources -> {"none", "live", "freed"}] /\ bad' \subseteq Resources
                BY DEF TypeOK
            <4>2. failed' \in BOOLEAN
                BY DEF TypeOK
            <4> QED
                BY <4>1, <4>2 DEF TypeOK
        <3>2. OutcomeInv'
            BY DEF TypeOK, OutcomeInv, SetUpInv, TearDownInv
        <3>3. ContextInv'
            BY DEF TypeOK, ContextInv, OutcomeInv, SetUpInv, TearDownInv
        <3>4. SetUpInv'
            BY DEF TypeOK, SetUpInv, OutcomeInv, ContextInv
        <3>5. TearDownInv'
            BY DEF TypeOK, TearDownInv, OutcomeInv, ContextInv, SetUpInv
        <3>6. CmInv'
            BY DEF TypeOK, CmInv, OutcomeInv, ContextInv
        <3>7. CleanInv'
            BY DEF TypeOK, CleanInv, OutcomeInv, ContextInv, SetUpInv, TearDownInv, CmInv
        <3> QED
            BY <3>1, <3>2, <3>3, <3>4, <3>5, <3>6, <3>7 DEF ConnInv
    <2>2. CASE ReturnFromRunClient(-1) /\ Use({"cm_id"}) /\ UNCHANGED <<cmVars, qpVars, res>>
        BY <1>0, <1>3, <2>2, RunFailsKeeps DEF AllocPd, TypeOK, OutcomeInv, ContextInv, SetUpInv
    <2> QED
        BY <1>3, <2>1, <2>2 DEF AllocPd
<1>4. CASE CreateCq
    <2>1. CASE /\ pc' = "notify_cq" /\ Acquire({"cq"}) /\ Use({"cm_id"})
               /\ UNCHANGED <<outVars, cmVars, qpVars>>
        <3> USE <1>0, <1>4, <2>1 DEF CreateCq
        <3>1. TypeOK'
            <4>1. res' \in [Resources -> {"none", "live", "freed"}] /\ bad' \subseteq Resources
                BY DEF TypeOK
            <4>2. failed' \in BOOLEAN
                BY DEF TypeOK
            <4> QED
                BY <4>1, <4>2 DEF TypeOK
        <3>2. OutcomeInv'
            BY DEF TypeOK, OutcomeInv, SetUpInv, TearDownInv
        <3>3. ContextInv'
            BY DEF TypeOK, ContextInv, OutcomeInv, SetUpInv, TearDownInv
        <3>4. SetUpInv'
            BY DEF TypeOK, SetUpInv, OutcomeInv, ContextInv
        <3>5. TearDownInv'
            BY DEF TypeOK, TearDownInv, OutcomeInv, ContextInv, SetUpInv
        <3>6. CmInv'
            BY DEF TypeOK, CmInv, OutcomeInv, ContextInv
        <3>7. CleanInv'
            BY DEF TypeOK, CleanInv, OutcomeInv, ContextInv, SetUpInv, TearDownInv, CmInv
        <3> QED
            BY <3>1, <3>2, <3>3, <3>4, <3>5, <3>6, <3>7 DEF ConnInv
    <2>2. CASE ReturnFromRunClient(-1) /\ Release({"pd"}) /\ UNCHANGED <<cmVars, qpVars>>
        BY <1>0, <1>4, <2>2, RunFailsKeeps DEF CreateCq, TypeOK, OutcomeInv, ContextInv, SetUpInv
    <2> QED
        BY <1>4, <2>1, <2>2 DEF CreateCq
<1>5. CASE NotifyCq
    <2>1. CASE pc' = "create_qp"
        <3> USE <1>0, <1>5, <2>1 DEF NotifyCq, At
        <3>1. TypeOK'
            <4>1. res' \in [Resources -> {"none", "live", "freed"}] /\ bad' \subseteq Resources
                BY DEF TypeOK
            <4>2. failed' \in BOOLEAN
                BY DEF TypeOK
            <4> QED
                BY <4>1, <4>2 DEF TypeOK
        <3>2. OutcomeInv'
            BY DEF TypeOK, OutcomeInv, SetUpInv, TearDownInv
        <3>3. ContextInv'
            BY DEF TypeOK, ContextInv, OutcomeInv, SetUpInv, TearDownInv
        <3>4. SetUpInv'
            BY DEF TypeOK, SetUpInv, OutcomeInv, ContextInv
        <3>5. TearDownInv'
            BY DEF TypeOK, TearDownInv, OutcomeInv, ContextInv, SetUpInv
        <3>6. CmInv'
            BY DEF TypeOK, CmInv, OutcomeInv, ContextInv
        <3>7. CleanInv'
            BY DEF TypeOK, CleanInv, OutcomeInv, ContextInv, SetUpInv, TearDownInv, CmInv
        <3> QED
            BY <3>1, <3>2, <3>3, <3>4, <3>5, <3>6, <3>7 DEF ConnInv
    <2>2. CASE pc' = "setup_buffers"
        <3> USE <1>0, <1>5, <2>2 DEF NotifyCq, At
        <3>1. TypeOK'
            <4>1. res' \in [Resources -> {"none", "live", "freed"}] /\ bad' \subseteq Resources
                BY DEF TypeOK
            <4>2. failed' \in BOOLEAN
                BY DEF TypeOK
            <4> QED
                BY <4>1, <4>2 DEF TypeOK
        <3>2. OutcomeInv'
            BY DEF TypeOK, OutcomeInv, SetUpInv, TearDownInv
        <3>3. ContextInv'
            BY DEF TypeOK, ContextInv, OutcomeInv, SetUpInv, TearDownInv
        <3>4. SetUpInv'
            BY DEF TypeOK, SetUpInv, OutcomeInv, ContextInv
        <3>5. TearDownInv'
            BY DEF TypeOK, TearDownInv, OutcomeInv, ContextInv, SetUpInv
        <3>6. CmInv'
            BY DEF TypeOK, CmInv, OutcomeInv, ContextInv
        <3>7. CleanInv'
            BY DEF TypeOK, CleanInv, OutcomeInv, ContextInv, SetUpInv, TearDownInv, CmInv
        <3> QED
            BY <3>1, <3>2, <3>3, <3>4, <3>5, <3>6, <3>7 DEF ConnInv
    <2> QED
        BY <1>5, <2>1, <2>2 DEF NotifyCq, At
<1>6. CASE CreateQp
    <2>1. CASE /\ pc' = "setup_buffers" /\ Acquire({"qp"}) /\ Use({"cm_id"}) /\ rq_depth' \in RqDepths
               /\ UNCHANGED <<outVars, cmVars, posted>>
        <3> USE <1>0, <1>6, <2>1 DEF CreateQp
        <3>1. TypeOK'
            <4>1. res' \in [Resources -> {"none", "live", "freed"}] /\ bad' \subseteq Resources
                BY DEF TypeOK
            <4>2. failed' \in BOOLEAN
                BY DEF TypeOK
            <4> QED
                BY <4>1, <4>2 DEF TypeOK
        <3>2. OutcomeInv'
            BY DEF TypeOK, OutcomeInv, SetUpInv, TearDownInv
        <3>3. ContextInv'
            BY DEF TypeOK, ContextInv, OutcomeInv, SetUpInv, TearDownInv
        <3>4. SetUpInv'
            BY DEF TypeOK, SetUpInv, OutcomeInv, ContextInv
        <3>5. TearDownInv'
            BY DEF TypeOK, TearDownInv, OutcomeInv, ContextInv, SetUpInv
        <3>6. CmInv'
            BY DEF TypeOK, CmInv, OutcomeInv, ContextInv
        <3>7. CleanInv'
            BY DEF TypeOK, CleanInv, OutcomeInv, ContextInv, SetUpInv, TearDownInv, CmInv
        <3> QED
            BY <3>1, <3>2, <3>3, <3>4, <3>5, <3>6, <3>7 DEF ConnInv
    <2>2. CASE ReturnFromRunClient(-1) /\ Release({"cq", "pd"}) /\ UNCHANGED <<cmVars, qpVars>>
        BY <1>0, <1>6, <2>2, RunFailsKeeps DEF CreateQp, TypeOK, OutcomeInv, ContextInv, SetUpInv
    <2> QED
        BY <1>6, <2>1, <2>2 DEF CreateQp
<1>7. CASE SetupBuffers
    <2> USE <1>0, <1>7 DEF SetupBuffers
    <2>1. TypeOK'
        <3>1. res' \in [Resources -> {"none", "live", "freed"}] /\ bad' \subseteq Resources
            BY DEF TypeOK
        <3>2. failed' \in BOOLEAN
            BY DEF TypeOK
        <3> QED
            BY <3>1, <3>2 DEF TypeOK
    <2>2. OutcomeInv'
        BY DEF TypeOK, OutcomeInv, SetUpInv, TearDownInv
    <2>3. ContextInv'
        BY DEF TypeOK, ContextInv, OutcomeInv, SetUpInv, TearDownInv
    <2>4. SetUpInv'
        BY DEF TypeOK, SetUpInv, OutcomeInv, ContextInv
    <2>5. TearDownInv'
        BY DEF TypeOK, TearDownInv, OutcomeInv, ContextInv, SetUpInv
    <2>6. CmInv'
        BY DEF TypeOK, CmInv, OutcomeInv, ContextInv
    <2>7. CleanInv'
        BY DEF TypeOK, CleanInv, OutcomeInv, ContextInv, SetUpInv, TearDownInv, CmInv
    <2> QED
        BY <2>1, <2>2, <2>3, <2>4, <2>5, <2>6, <2>7 DEF ConnInv
<1>8. CASE PostRecv
    <2>1. CASE /\ posted < rq_depth /\ posted' = posted + 1
               /\ UNCHANGED <<pc, outVars, cmVars, rq_depth, res, bad>>
        <3> USE <1>0, <1>8, <2>1 DEF PostRecv
        <3>1. TypeOK'
            <4>1. res' \in [Resources -> {"none", "live", "freed"}] /\ bad' \subseteq Resources
                BY DEF TypeOK
            <4>2. failed' \in BOOLEAN
                BY DEF TypeOK
            <4> QED
                BY <4>1, <4>2 DEF TypeOK
        <3>2. OutcomeInv'
            BY DEF TypeOK, OutcomeInv, SetUpInv, TearDownInv
        <3>3. ContextInv'
            BY DEF TypeOK, ContextInv, OutcomeInv, SetUpInv, TearDownInv
        <3>4. SetUpInv'
            BY DEF TypeOK, SetUpInv, OutcomeInv, ContextInv
        <3>5. TearDownInv'
            BY DEF TypeOK, TearDownInv, OutcomeInv, ContextInv, SetUpInv
        <3>6. CmInv'
            BY DEF TypeOK, CmInv, OutcomeInv, ContextInv
        <3>7. CleanInv'
            BY DEF TypeOK, CleanInv, OutcomeInv, ContextInv, SetUpInv, TearDownInv, CmInv
        <3> QED
            BY <3>1, <3>2, <3>3, <3>4, <3>5, <3>6, <3>7 DEF ConnInv
    <2>2. CASE AbandonQp /\ UNCHANGED <<cmVars, qpVars>>
        BY <1>0, <1>8, <2>2, AbandonKeeps DEF PostRecv, TypeOK, OutcomeInv, ContextInv, SetUpInv
    <2> QED
        BY <1>8, <2>1, <2>2 DEF PostRecv
<1>9. CASE Connect
    <2>1. CASE /\ pc' = "wait_conn" /\ cm' = "connecting" /\ Use({"cm_id"})
               /\ UNCHANGED <<outVars, state, qpVars, res>>
        <3> USE <1>0, <1>9, <2>1 DEF Connect
        <3>1. TypeOK'
            <4>1. res' \in [Resources -> {"none", "live", "freed"}] /\ bad' \subseteq Resources
                BY DEF TypeOK
            <4>2. failed' \in BOOLEAN
                BY DEF TypeOK
            <4> QED
                BY <4>1, <4>2 DEF TypeOK
        <3>2. OutcomeInv'
            BY DEF TypeOK, OutcomeInv, SetUpInv, TearDownInv
        <3>3. ContextInv'
            BY DEF TypeOK, ContextInv, OutcomeInv, SetUpInv, TearDownInv
        <3>4. SetUpInv'
            BY DEF TypeOK, SetUpInv, OutcomeInv, ContextInv
        <3>5. TearDownInv'
            BY DEF TypeOK, TearDownInv, OutcomeInv, ContextInv, SetUpInv
        <3>6. CmInv'
            BY DEF TypeOK, CmInv, OutcomeInv, ContextInv
        <3>7. CleanInv'
            BY DEF TypeOK, CleanInv, OutcomeInv, ContextInv, SetUpInv, TearDownInv, CmInv
        <3> QED
            BY <3>1, <3>2, <3>3, <3>4, <3>5, <3>6, <3>7 DEF ConnInv
    <2>2. CASE AbandonQp /\ UNCHANGED <<cmVars, qpVars>>
        BY <1>0, <1>9, <2>2, AbandonKeeps DEF Connect, TypeOK, OutcomeInv, ContextInv, SetUpInv
    <2> QED
        BY <1>9, <2>1, <2>2 DEF Connect
<1>10. CASE WaitConn
    BY <1>10, WaitedKeeps DEF WaitConn
<1> QED
    BY <1>1, <1>2, <1>3, <1>4, <1>5, <1>6, <1>7, <1>8, <1>9, <1>10

(* kfree_buffers, kfree_qp, destroy_rpc_client, and a NULL that is followed. *)
LEMMA FreeKeeps ==
    ASSUME ConnInv, FreeStep \/ DestroyStep \/ NullDeref
    PROVE  ConnInv'
<1> USE ConnAssumption, AcquireFacts, UseFacts, ReleaseFacts DEF Release,
        InitPcs, AllocPcs, BindPcs, QpPcs, FreePcs, DestroyPcs, Established, Resources, QpResources,
        cmVars, qpVars, outVars,
        IDLE, ADDR_RESOLVED, ROUTE_RESOLVED, CONNECTED, WORKING, DISCONNECTED, ERROR
<1>0. TypeOK /\ OutcomeInv /\ ContextInv /\ SetUpInv /\ TearDownInv /\ CmInv /\ CleanInv
    BY DEF ConnInv
<1>1. CASE KfreeBuffers
    <2> USE <1>0, <1>1 DEF KfreeBuffers, At, NotNull
    <2>1. TypeOK'
        <3>1. res' \in [Resources -> {"none", "live", "freed"}] /\ bad' \subseteq Resources
            BY DEF TypeOK
        <3>2. failed' \in BOOLEAN
            BY DEF TypeOK
        <3> QED
            BY <3>1, <3>2 DEF TypeOK
    <2>2. OutcomeInv'
        BY DEF TypeOK, OutcomeInv, SetUpInv, TearDownInv
    <2>3. ContextInv'
        BY DEF TypeOK, ContextInv, OutcomeInv, SetUpInv, TearDownInv
    <2>4. SetUpInv'
        BY DEF TypeOK, SetUpInv, OutcomeInv, ContextInv
    <2>5. TearDownInv'
        BY DEF TypeOK, TearDownInv, OutcomeInv, ContextInv, SetUpInv
    <2>6. CmInv'
        BY DEF TypeOK, CmInv, OutcomeInv, ContextInv
    <2>7. CleanInv'
        BY DEF TypeOK, CleanInv, OutcomeInv, ContextInv, SetUpInv, TearDownInv, CmInv
    <2> QED
        BY <2>1, <2>2, <2>3, <2>4, <2>5, <2>6, <2>7 DEF ConnInv
<1>2. CASE DestroyQp
    <2> USE <1>0, <1>2 DEF DestroyQp, At
    <2>1. TypeOK'
        <3>1. res' \in [Resources -> {"none", "live", "freed"}] /\ bad' \subseteq Resources
            BY DEF TypeOK
        <3>2. failed' \in BOOLEAN
            BY DEF TypeOK
        <3> QED
            BY <3>1, <3>2 DEF TypeOK
    <2>2. OutcomeInv'
        BY DEF TypeOK, OutcomeInv, SetUpInv, TearDownInv
    <2>3. ContextInv'
        BY DEF TypeOK, ContextInv, OutcomeInv, SetUpInv, TearDownInv
    <2>4. SetUpInv'
        BY DEF TypeOK, SetUpInv, OutcomeInv, ContextInv
    <2>5. TearDownInv'
        BY DEF TypeOK, TearDownInv, OutcomeInv, ContextInv, SetUpInv
    <2>6. CmInv'
        BY DEF TypeOK, CmInv, OutcomeInv, ContextInv
    <2>7. CleanInv'
        BY DEF TypeOK, CleanInv, OutcomeInv, ContextInv, SetUpInv, TearDownInv, CmInv
    <2> QED
        BY <2>1, <2>2, <2>3, <2>4, <2>5, <2>6, <2>7 DEF ConnInv
<1>3. CASE DestroyCq
    <2> USE <1>0, <1>3 DEF DestroyCq
    <2>1. TypeOK'
        <3>1. res' \in [Resources -> {"none", "live", "freed"}] /\ bad' \subseteq Resources
            BY DEF TypeOK
        <3>2. failed' \in BOOLEAN
            BY DEF TypeOK
        <3> QED
            BY <3>1, <3>2 DEF TypeOK
    <2>2. OutcomeInv'
        BY DEF TypeOK, OutcomeInv, SetUpInv, TearDownInv
    <2>3. ContextInv'
        BY DEF TypeOK, ContextInv, OutcomeInv, SetUpInv, TearDownInv
    <2>4. SetUpInv'
        BY DEF TypeOK, SetUpInv, OutcomeInv, ContextInv
    <2>5. TearDownInv'
        BY DEF TypeOK, TearDownInv, OutcomeInv, ContextInv, SetUpInv
    <2>6. CmInv'
        BY DEF TypeOK, CmInv, OutcomeInv, ContextInv
    <2>7. CleanInv'
        BY DEF TypeOK, CleanInv, OutcomeInv, ContextInv, SetUpInv, TearDownInv, CmInv
    <2> QED
        BY <2>1, <2>2, <2>3, <2>4, <2>5, <2>6, <2>7 DEF ConnInv
<1>4. CASE Disconnect
    <2> USE <1>0, <1>4 DEF Disconnect, At
    <2>1. TypeOK'
        <3>1. res' \in [Resources -> {"none", "live", "freed"}] /\ bad' \subseteq Resources
            BY DEF TypeOK
        <3>2. failed' \in BOOLEAN
            BY DEF TypeOK
        <3> QED
            BY <3>1, <3>2 DEF TypeOK
    <2>2. OutcomeInv'
        BY DEF TypeOK, OutcomeInv, SetUpInv, TearDownInv
    <2>3. ContextInv'
        BY DEF TypeOK, ContextInv, OutcomeInv, SetUpInv, TearDownInv
    <2>4. SetUpInv'
        BY DEF TypeOK, SetUpInv, OutcomeInv, ContextInv
    <2>5. TearDownInv'
        BY DEF TypeOK, TearDownInv, OutcomeInv, ContextInv, SetUpInv
    <2>6. CmInv'
        BY DEF TypeOK, CmInv, OutcomeInv, ContextInv
    <2>7. CleanInv'
        BY DEF TypeOK, CleanInv, OutcomeInv, ContextInv, SetUpInv, TearDownInv, CmInv
    <2> QED
        BY <2>1, <2>2, <2>3, <2>4, <2>5, <2>6, <2>7 DEF ConnInv
<1>5. CASE DestroyId
    <2> USE <1>0, <1>5 DEF DestroyId, At
    <2>1. TypeOK'
        <3>1. res' \in [Resources -> {"none", "live", "freed"}] /\ bad' \subseteq Resources
            BY DEF TypeOK
        <3>2. failed' \in BOOLEAN
            BY DEF TypeOK
        <3> QED
            BY <3>1, <3>2 DEF TypeOK
    <2>2. OutcomeInv'
        BY DEF TypeOK, OutcomeInv, SetUpInv, TearDownInv
    <2>3. ContextInv'
        BY DEF TypeOK, ContextInv, OutcomeInv, SetUpInv, TearDownInv
    <2>4. SetUpInv'
        BY DEF TypeOK, SetUpInv, OutcomeInv, ContextInv
    <2>5. TearDownInv'
        BY DEF TypeOK, TearDownInv, OutcomeInv, ContextInv, SetUpInv
    <2>6. CmInv'
        BY DEF TypeOK, CmInv, OutcomeInv, ContextInv
    <2>7. CleanInv'
        BY DEF TypeOK, CleanInv, OutcomeInv, ContextInv, SetUpInv, TearDownInv, CmInv
    <2> QED
        BY <2>1, <2>2, <2>3, <2>4, <2>5, <2>6, <2>7 DEF ConnInv
<1>6. CASE KfreeCb
    <2> USE <1>0, <1>6 DEF KfreeCb, At, Kfree, NotNull
    <2>1. TypeOK'
        <3>1. res' \in [Resources -> {"none", "live", "freed"}] /\ bad' \subseteq Resources
            BY DEF TypeOK
        <3>2. failed' \in BOOLEAN
            BY DEF TypeOK
        <3> QED
            BY <3>1, <3>2 DEF TypeOK
    <2>2. OutcomeInv'
        BY DEF TypeOK, OutcomeInv, SetUpInv, TearDownInv
    <2>3. ContextInv'
        BY DEF TypeOK, ContextInv, OutcomeInv, SetUpInv, TearDownInv
    <2>4. SetUpInv'
        BY DEF TypeOK, SetUpInv, OutcomeInv, ContextInv
    <2>5. TearDownInv'
        BY DEF TypeOK, TearDownInv, OutcomeInv, ContextInv, SetUpInv
    <2>6. CmInv'
        BY DEF TypeOK, CmInv, OutcomeInv, ContextInv
    <2>7. CleanInv'
        BY DEF TypeOK, CleanInv, OutcomeInv, ContextInv, SetUpInv, TearDownInv, CmInv
    <2> QED
        BY <2>1, <2>2, <2>3, <2>4, <2>5, <2>6, <2>7 DEF ConnInv
<1>7. CASE NullDeref
    <2> USE <1>0, <1>7 DEF NullDeref
    <2>1. TypeOK'
        <3>1. res' \in [Resources -> {"none", "live", "freed"}] /\ bad' \subseteq Resources
            BY DEF TypeOK
        <3>2. failed' \in BOOLEAN
            BY DEF TypeOK
        <3> QED
            BY <3>1, <3>2 DEF TypeOK
    <2>2. OutcomeInv'
        BY DEF TypeOK, OutcomeInv, SetUpInv, TearDownInv
    <2>3. ContextInv'
        BY DEF TypeOK, ContextInv, OutcomeInv, SetUpInv, TearDownInv
    <2>4. SetUpInv'
        BY DEF TypeOK, SetUpInv, OutcomeInv, ContextInv
    <2>5. TearDownInv'
        BY DEF TypeOK, TearDownInv, OutcomeInv, ContextInv, SetUpInv
    <2>6. CmInv'
        BY DEF TypeOK, CmInv, OutcomeInv, ContextInv
    <2>7. CleanInv'
        BY DEF TypeOK, CleanInv, OutcomeInv, ContextInv, SetUpInv, TearDownInv, CmInv
    <2> QED
        BY <2>1, <2>2, <2>3, <2>4, <2>5, <2>6, <2>7 DEF ConnInv
<1> QED
    BY <1>1, <1>2, <1>3, <1>4, <1>5, <1>6, <1>7 DEF FreeStep, DestroyStep

(* cma_event_handler. *)
LEMMA CmKeeps ==
    ASSUME ConnInv, CmAnswer \/ CmDisconnected \/ CmDeviceRemoval
    PROVE  ConnInv'
<1> USE ConnAssumption, UseFacts DEF Release,
        InitPcs, AllocPcs, BindPcs, QpPcs, FreePcs, DestroyPcs, Established, Resources, QpResources,
        cmVars, qpVars, outVars,
        IDLE, ADDR_RESOLVED, ROUTE_RESOLVED, CONNECTED, WORKING, DISCONNECTED, ERROR
<1>0. TypeOK /\ OutcomeInv /\ ContextInv /\ SetUpInv /\ TearDownInv /\ CmInv /\ CleanInv
    BY DEF ConnInv
<1>1. CASE CmAddrResolved
    <2> USE <1>0, <1>1 DEF CmAddrResolved, CmEvent, HandlerReturns0, HandlerReturnsError
    <2>1. TypeOK'
        <3>1. res' \in [Resources -> {"none", "live", "freed"}] /\ bad' \subseteq Resources
            BY DEF TypeOK
        <3>2. failed' \in BOOLEAN
            BY DEF TypeOK
        <3> QED
            BY <3>1, <3>2 DEF TypeOK
    <2>2. OutcomeInv'
        BY DEF TypeOK, OutcomeInv, SetUpInv, TearDownInv
    <2>3. ContextInv'
        BY DEF TypeOK, ContextInv, OutcomeInv, SetUpInv, TearDownInv
    <2>4. SetUpInv'
        BY DEF TypeOK, SetUpInv, OutcomeInv, ContextInv
    <2>5. TearDownInv'
        BY DEF TypeOK, TearDownInv, OutcomeInv, ContextInv, SetUpInv
    <2>6. CmInv'
        BY DEF TypeOK, CmInv, OutcomeInv, ContextInv
    <2>7. CleanInv'
        BY DEF TypeOK, CleanInv, OutcomeInv, ContextInv, SetUpInv, TearDownInv, CmInv
    <2> QED
        BY <2>1, <2>2, <2>3, <2>4, <2>5, <2>6, <2>7 DEF ConnInv
<1>2. CASE CmRouteResolved
    <2> USE <1>0, <1>2 DEF CmRouteResolved, CmEvent, HandlerReturns0
    <2>1. TypeOK'
        <3>1. res' \in [Resources -> {"none", "live", "freed"}] /\ bad' \subseteq Resources
            BY DEF TypeOK
        <3>2. failed' \in BOOLEAN
            BY DEF TypeOK
        <3> QED
            BY <3>1, <3>2 DEF TypeOK
    <2>2. OutcomeInv'
        BY DEF TypeOK, OutcomeInv, SetUpInv, TearDownInv
    <2>3. ContextInv'
        BY DEF TypeOK, ContextInv, OutcomeInv, SetUpInv, TearDownInv
    <2>4. SetUpInv'
        BY DEF TypeOK, SetUpInv, OutcomeInv, ContextInv
    <2>5. TearDownInv'
        BY DEF TypeOK, TearDownInv, OutcomeInv, ContextInv, SetUpInv
    <2>6. CmInv'
        BY DEF TypeOK, CmInv, OutcomeInv, ContextInv
    <2>7. CleanInv'
        BY DEF TypeOK, CleanInv, OutcomeInv, ContextInv, SetUpInv, TearDownInv, CmInv
    <2> QED
        BY <2>1, <2>2, <2>3, <2>4, <2>5, <2>6, <2>7 DEF ConnInv
<1>3. CASE CmEstablished
    <2> USE <1>0, <1>3 DEF CmEstablished, CmEvent, HandlerReturns0
    <2>1. TypeOK'
        <3>1. res' \in [Resources -> {"none", "live", "freed"}] /\ bad' \subseteq Resources
            BY DEF TypeOK
        <3>2. failed' \in BOOLEAN
            BY DEF TypeOK
        <3> QED
            BY <3>1, <3>2 DEF TypeOK
    <2>2. OutcomeInv'
        BY DEF TypeOK, OutcomeInv, SetUpInv, TearDownInv
    <2>3. ContextInv'
        BY DEF TypeOK, ContextInv, OutcomeInv, SetUpInv, TearDownInv
    <2>4. SetUpInv'
        BY DEF TypeOK, SetUpInv, OutcomeInv, ContextInv
    <2>5. TearDownInv'
        BY DEF TypeOK, TearDownInv, OutcomeInv, ContextInv, SetUpInv
    <2>6. CmInv'
        BY DEF TypeOK, CmInv, OutcomeInv, ContextInv
    <2>7. CleanInv'
        BY DEF TypeOK, CleanInv, OutcomeInv, ContextInv, SetUpInv, TearDownInv, CmInv
    <2> QED
        BY <2>1, <2>2, <2>3, <2>4, <2>5, <2>6, <2>7 DEF ConnInv
<1>4. CASE CmError
    <2> USE <1>0, <1>4 DEF CmError, CmEvent, HandlerReturnsError
    <2>1. TypeOK'
        <3>1. res' \in [Resources -> {"none", "live", "freed"}] /\ bad' \subseteq Resources
            BY DEF TypeOK
        <3>2. failed' \in BOOLEAN
            BY DEF TypeOK
        <3> QED
            BY <3>1, <3>2 DEF TypeOK
    <2>2. OutcomeInv'
        BY DEF TypeOK, OutcomeInv, SetUpInv, TearDownInv
    <2>3. ContextInv'
        BY DEF TypeOK, ContextInv, OutcomeInv, SetUpInv, TearDownInv
    <2>4. SetUpInv'
        BY DEF TypeOK, SetUpInv, OutcomeInv, ContextInv
    <2>5. TearDownInv'
        BY DEF TypeOK, TearDownInv, OutcomeInv, ContextInv, SetUpInv
    <2>6. CmInv'
        BY DEF TypeOK, CmInv, OutcomeInv, ContextInv
    <2>7. CleanInv'
        BY DEF TypeOK, CleanInv, OutcomeInv, ContextInv, SetUpInv, TearDownInv, CmInv
    <2> QED
        BY <2>1, <2>2, <2>3, <2>4, <2>5, <2>6, <2>7 DEF ConnInv
<1>5. CASE CmDisconnected
    <2> USE <1>0, <1>5 DEF CmDisconnected, CmEvent, HandlerReturns0
    <2>1. TypeOK'
        <3>1. res' \in [Resources -> {"none", "live", "freed"}] /\ bad' \subseteq Resources
            BY DEF TypeOK
        <3>2. failed' \in BOOLEAN
            BY DEF TypeOK
        <3> QED
            BY <3>1, <3>2 DEF TypeOK
    <2>2. OutcomeInv'
        BY DEF TypeOK, OutcomeInv, SetUpInv, TearDownInv
    <2>3. ContextInv'
        BY DEF TypeOK, ContextInv, OutcomeInv, SetUpInv, TearDownInv
    <2>4. SetUpInv'
        BY DEF TypeOK, SetUpInv, OutcomeInv, ContextInv
    <2>5. TearDownInv'
        BY DEF TypeOK, TearDownInv, OutcomeInv, ContextInv, SetUpInv
    <2>6. CmInv'
        BY DEF TypeOK, CmInv, OutcomeInv, ContextInv
    <2>7. CleanInv'
        BY DEF TypeOK, CleanInv, OutcomeInv, ContextInv, SetUpInv, TearDownInv, CmInv
    <2> QED
        BY <2>1, <2>2, <2>3, <2>4, <2>5, <2>6, <2>7 DEF ConnInv
<1>6. CASE CmDeviceRemoval
    <2> USE <1>0, <1>6 DEF CmDeviceRemoval, CmEvent, HandlerReturnsError
    <2>1. TypeOK'
        <3>1. res' \in [Resources -> {"none", "live", "freed"}] /\ bad' \subseteq Resources
            BY DEF TypeOK
        <3>2. failed' \in BOOLEAN
            BY DEF TypeOK
        <3> QED
            BY <3>1, <3>2 DEF TypeOK
    <2>2. OutcomeInv'
        BY DEF TypeOK, OutcomeInv, SetUpInv, TearDownInv
    <2>3. ContextInv'
        BY DEF TypeOK, ContextInv, OutcomeInv, SetUpInv, TearDownInv
    <2>4. SetUpInv'
        BY DEF TypeOK, SetUpInv, OutcomeInv, ContextInv
    <2>5. TearDownInv'
        BY DEF TypeOK, TearDownInv, OutcomeInv, ContextInv, SetUpInv
    <2>6. CmInv'
        BY DEF TypeOK, CmInv, OutcomeInv, ContextInv
    <2>7. CleanInv'
        BY DEF TypeOK, CleanInv, OutcomeInv, ContextInv, SetUpInv, TearDownInv, CmInv
    <2> QED
        BY <2>1, <2>2, <2>3, <2>4, <2>5, <2>6, <2>7 DEF ConnInv
<1> QED
    BY <1>1, <1>2, <1>3, <1>4, <1>5, <1>6 DEF CmAnswer

-----------------------------------------------------------------------------
(* A channel that is not there yet satisfies the invariant. *)
LEMMA ConnInit == Init => ConnInv
<1> SUFFICES ASSUME Init PROVE ConnInv
    OBVIOUS
<1> USE ConnAssumption DEF Init, InitPcs, AllocPcs, BindPcs, QpPcs, FreePcs, DestroyPcs,
        Established, Resources, QpResources,
        IDLE, ADDR_RESOLVED, ROUTE_RESOLVED, CONNECTED, WORKING, DISCONNECTED, ERROR
<1>1. TypeOK
    <2>1. 0 \in 0 .. MSGBUF_CNT
        OBVIOUS
    <2>3. failed \in BOOLEAN
        OBVIOUS
    <2>2. res \in [Resources -> {"none", "live", "freed"}] /\ bad \subseteq Resources
        OBVIOUS
    <2> QED
        BY <2>1, <2>2, <2>3 DEF TypeOK
<1>2. OutcomeInv /\ SetUpInv /\ TearDownInv
    BY DEF OutcomeInv, SetUpInv, TearDownInv
<1>3. ContextInv
    BY DEF ContextInv
<1>4. CmInv /\ CleanInv
    BY DEF CmInv, CleanInv
<1> QED
    BY <1>1, <1>2, <1>3, <1>4 DEF ConnInv

(* Every step of the thread or of the connection manager keeps it. *)
LEMMA ConnStep ==
    ASSUME ConnInv, [Next]_vars
    PROVE  ConnInv'
<1>1. CASE InitStep
    BY <1>1, AllocKeeps, RunClientKeeps DEF InitStep
<1>2. CASE Signal
    BY <1>2, WaitedKeeps DEF Signal
<1>3. CASE FreeStep \/ DestroyStep \/ NullDeref
    BY <1>3, FreeKeeps
<1>4. CASE CmAnswer \/ CmDisconnected \/ CmDeviceRemoval
    BY <1>4, CmKeeps
<1>5. CASE UNCHANGED vars
    BY <1>5 DEF vars, ConnInv, OutcomeInv, ContextInv, SetUpInv, TearDownInv, CmInv, CleanInv, TypeOK
<1> QED
    BY <1>1, <1>2, <1>3, <1>4, <1>5 DEF Next

(* What the invariant says of the properties. *)
LEMMA ConnImplies ==
    ASSUME ConnInv
    PROVE  /\ ContextAlive
           /\ FailedRunReleases
           /\ NullLeaksOnlyBitmap
           /\ ConnectedMeansReady
           /\ CleanLifecycle
<1> USE DEF ConnInv, TypeOK, Resources, QpResources
<1>1. ContextAlive
    BY DEF ContextAlive, ContextInv
<1>2. FailedRunReleases
    BY DEF FailedRunReleases, TearDownInv
<1>3. NullLeaksOnlyBitmap
    BY DEF NullLeaksOnlyBitmap, ContextInv
<1>4. ConnectedMeansReady
    BY DEF ConnectedMeansReady, ContextInv, TearDownInv, CmInv, Established
<1>5. CleanLifecycle
    BY DEF CleanLifecycle, CleanInv, TearDownInv
<1> QED
    BY <1>1, <1>2, <1>3, <1>4, <1>5

(* The life of a channel, without the requests: it never reaches a state   *)
(* in which a handler of the connection manager or of the CQ could run     *)
(* without its context, in which a failed run_client keeps what it had     *)
(* acquired, in which a NULL result hides more than the bitmap, in which a *)
(* channel is taken for connected that is not, or in which the tear-down   *)
(* of a connected channel misses a resource or meets one twice (other than *)
(* a cm_id that the connection manager has destroyed).                     *)
THEOREM ConnLife ==
    Spec => [](/\ TypeOK
               /\ ContextAlive
               /\ FailedRunReleases
               /\ NullLeaksOnlyBitmap
               /\ ConnectedMeansReady
               /\ CleanLifecycle)
<1>1. Init => ConnInv
    BY ConnInit
<1>2. ConnInv /\ [Next]_vars => ConnInv'
    BY ConnStep
<1>3. ConnInv => /\ TypeOK /\ ContextAlive /\ FailedRunReleases /\ NullLeaksOnlyBitmap
                 /\ ConnectedMeansReady /\ CleanLifecycle
    BY ConnImplies DEF ConnInv
<1> QED
    BY <1>1, <1>2, <1>3, PTL DEF Spec
=============================================================================
