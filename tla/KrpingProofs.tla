---------------------------- MODULE KrpingProofs ----------------------------
(***************************************************************************)
(* Proofs about the ping client: the life of its resources, the turns that *)
(* the writer, the device, the server and the completion callback take in  *)
(* a ping, and what travels with them.                                     *)
(***************************************************************************)
EXTENDS Krping, TLAPS

-----------------------------------------------------------------------------
(* The inductive invariant                                                 *)

Nothing == {"write", "doit"}
Opening == {"options", "create_id", "resolve_addr", "wait_route", "alloc_pd", "create_qp"}
Running == {"setup_buffers", "post_recv", "connect", "wait_conn", "ping", "format_read",
            "post_read", "wait_read", "format_write", "post_write", "wait_write", "disconnect",
            "free_buffers", "destroy_qp"}
Closing == {"destroy_cq", "destroy_id", "out", "kfree", "done"}

Reg == [op : {"reg"}, buf : Buffers, rkey : Keys]
Send == [op |-> "send"]

(* The types TypeOK leaves out. *)
MoreTypes ==
    /\ pc \in Nothing \cup Opening \cup Running \cup Closing
    /\ sq \in Seq(Reg \cup {Send})
    /\ cq \in Seq({"flush", "error", "recv"})
    /\ net \in Seq([buf : Buffers, rkey : [be32 : Keys]])
    /\ sdata \in Nat \cup {NoData}

(* What is alive where: cb from krping_doit to kfree, the CQ until         *)
(* ib_destroy_cq, which the callback does not outlive.                     *)
LifeInv ==
    /\ listed <=> pc \notin Nothing \cup {"kfree", "done"}
    /\ res["cb"] = "live" <=> pc \notin Nothing \cup {"done"}
    /\ res["cm_id"] = "live" =>
          pc \notin Nothing \cup {"options", "create_id", "out", "kfree", "done"}
    /\ res["pd"] = "live" => pc \in Running \cup {"create_qp", "destroy_cq"}
    /\ res["cq"] = "live" <=> pc \in Running \cup {"destroy_cq"}
    /\ res["qp"] = "live" <=> pc \in Running
    /\ pc \in Nothing \cup Opening => res["qp"] = "none"
    /\ pc \in Nothing \cup Opening \cup {"setup_buffers"} =>
          res["maps"] = "none" /\ res["bufs"] = "none"
    /\ pc \in Closing \cup {"destroy_qp"} =>
          res["bufs"] # "live" /\ (res["maps"] = "live" => res["bufs"] = "none")
    /\ cbpc # "idle" => res["cq"] = "live"
    /\ StaleUses

Unconnected == Nothing \cup Opening \cup {"setup_buffers", "post_recv", "connect"}
Before == Unconnected \cup {"wait_conn"}
Pinging == {"post_read", "wait_read", "format_write", "post_write", "wait_write"}
Leaving == {"disconnect", "free_buffers", "destroy_qp"} \cup Closing

(* The queue pair comes up once, from its first state, with its receive    *)
(* posted and nothing else going on.                                       *)
UpOnceInv ==
    /\ qps = "up" => res["qp"] = "live" /\ cm \in {"replied", "connected"}
    /\ qps = "down" =>
          \/ res["qp"] = "freed"
          \/ res["qp"] = "live" /\ cm \in {"replied", "connected", "disconnected", "failed"}
    /\ pc \in Unconnected =>
          cm \in {"idle", "resolving_addr", "resolving_route", "bound", "noroute", "failed"}
    /\ pc = "connect" \/ cm = "connecting" => rq = 1 \/ qps # "init"
    /\ qps = "init" => /\ net = <<>> /\ spc = "recv" /\ cq = <<>> /\ cbpc = "idle"
                       /\ notify # "raised"
                       /\ pc \notin Pinging
    /\ qps # "up" => sq = <<>>

HasRecv == \E i \in 1 .. Len(cq) : cq[i] = "recv"

OneRecv == \A i, j \in 1 .. Len(cq) : cq[i] = "recv" /\ cq[j] = "recv" => i = j

(* A go-ahead that has not been stored into cb->state yet. *)
GoAhead == HasRecv \/ cbpc = "store"

Busy == spc \notin {"recv", "recv2"}

(* The advertisement in send_buf and the request that registers it. *)
Advertised == [buf |-> send_buf.buf, rkey |-> ntohl(send_buf.rkey)]
RegAdvertised == [op |-> "reg", buf |-> send_buf.buf, rkey |-> ntohl(send_buf.rkey)]

(* One turn at a time: a request is in the send queue, or a message is     *)
(* under way, or the server is at work, or a go-ahead is.                  *)
TurnInv ==
    /\ OneRecv
    /\ ~ (HasRecv /\ cbpc = "store")
    /\ qps = "up" =>
          /\ sq \in {<<>>, <<RegAdvertised>>, <<RegAdvertised, Send>>, <<Send>>}
          /\ net # <<>> => sq = <<>> /\ net = <<send_buf>>
          /\ Busy => sq = <<>> /\ net = <<>>
          /\ GoAhead => sq = <<>> /\ net = <<>> /\ ~ Busy

Quiet(where) == ~ GoAhead /\ (qps = "up" => spc = where /\ net = <<>>)

(* The writer's turns: where it is in the loop says what the others may be *)
(* doing, and where the data of this ping has got to.                      *)
ReadTurn ==
    /\ pc \in Before \cup {"ping", "format_read"} => Quiet("recv") /\ sq = <<>>
    /\ pc = "post_read" =>
          Quiet("recv") /\ sq \in {<<>>, <<RegAdvertised>>} /\ send_buf.buf = "start"
    /\ pc \in {"format_read", "post_read"} => state # RDMA_WRITE_ADV
    /\ pc = "wait_read" =>
          /\ send_buf.buf = "start"
          /\ state = RDMA_WRITE_ADV => ~ GoAhead
          /\ GoAhead \/ state = RDMA_WRITE_ADV => sdata = ping /\ (qps = "up" => spc = "recv2")
          /\ qps = "up" => /\ spc \in {"recv", "read", "ack", "recv2"}
                           /\ sq # <<RegAdvertised>>
                           /\ spc = "read" => adv.buf = "start"
                           /\ spc = "ack" => sdata = ping
                           /\ spc = "recv2" => sq = <<>> /\ net = <<>>

WriteTurn ==
    /\ pc = "format_write" => Quiet("recv2") /\ sq = <<>>
    /\ pc = "post_write" =>
          Quiet("recv2") /\ sq \in {<<>>, <<RegAdvertised>>} /\ send_buf.buf = "rdma"
    /\ pc \in {"format_write", "post_write"} => state # RDMA_WRITE_COMPLETE
    /\ pc \in {"format_write", "post_write", "wait_write"} => sdata = ping
    /\ pc = "wait_write" =>
          /\ send_buf.buf = "rdma"
          /\ state = RDMA_WRITE_COMPLETE => ~ GoAhead
          /\ GoAhead \/ state = RDMA_WRITE_COMPLETE =>
                mem["rdma"] = ping /\ (qps = "up" => spc = "recv")
          /\ qps = "up" => /\ spc \in {"recv2", "write", "ack2", "recv"}
                           /\ sq # <<RegAdvertised>>
                           /\ spc = "write" => adv.buf = "rdma"
                           /\ spc = "ack2" => mem["rdma"] = ping
                           /\ spc = "recv" => sq = <<>> /\ net = <<>>

PingInv ==
    /\ pc \in Before => ping = 0
    /\ pc \in Pinging \cup {"format_read"} => mem["start"] = ping
    /\ PongMatchesPing

(* Once ERROR is stored, or a state is lost, it stays so. *)
Failed == state = ERROR \/ lost

(* What the server is told of is registered, or about to be. *)
KeyInv ==
    qps = "up" /\ ~ Failed =>
        /\ sq = <<Send>> => mr = Advertised
        /\ sq = <<>> /\ pc \in {"post_read", "post_write"} => mr = Advertised
        /\ net # <<>> => mr = Advertised
        /\ spc \in {"read", "write"} => adv = mr

(* The one receive is posted, completed or with the callback. *)
RecvInv ==
    qps = "up" /\ ~ Failed =>
        /\ rq = IF HasRecv \/ cbpc \in {"store", "repost"} THEN 0 ELSE 1
        /\ ~ (HasRecv /\ cbpc \in {"store", "repost"})

-----------------------------------------------------------------------------
(* Types                                                                   *)

KType == TypeOK /\ MoreTypes

(* cb->key wraps around. *)
LEMMA NextKey ==
    ASSUME NEW k \in Keys
    PROVE  (k + 1) % KEYS \in Keys
BY KrpingAssumption DEF Keys

(* Every state a handler stores is one. *)
LEMMA StoreType ==
    ASSUME TypeOK, NEW new \in States, Store(new)
    PROVE  state' \in States /\ lost' \in BOOLEAN
BY DEF Store, TypeOK

(* The completions that are added to the CQ. *)
LEMMA CompleteType ==
    ASSUME KType, NEW s \in Seq({"flush", "error", "recv"}), Complete(s)
    PROVE  cq' \in Seq({"flush", "error", "recv"}) /\ notify' \in {"armed", "raised", "off"}
BY DEF Complete, KType, TypeOK, MoreTypes

(* A queue pair that goes down. *)
LEMMA GoDownType ==
    ASSUME KType, GoDown
    PROVE  /\ qps' = "down" /\ sq' = <<>> /\ rq' = 0
           /\ cq' \in Seq({"flush", "error", "recv"}) /\ notify' \in {"armed", "raised", "off"}
<1>1. <<"flush">> \in Seq({"flush", "error", "recv"})
    OBVIOUS
<1> QED
    BY <1>1, CompleteType DEF GoDown, KType, TypeOK, MoreTypes, cqVars

(* A write that has not begun. *)
LEMMA TypeInit == Init => KType
<1> SUFFICES ASSUME Init PROVE KType
    OBVIOUS
<1>1. 0 \in Keys
    BY KrpingAssumption DEF Keys
<1>2. send_buf \in [buf : Buffers, rkey : [be32 : Keys]] /\ mr \in [buf : Buffers, rkey : Keys]
    BY <1>1 DEF Init, Advertise, htonl, Buffers
<1>3. res \in [Resources -> {"none", "err", "live", "freed"}] /\ mem \in [Buffers -> Nat \cup {NoData}]
    BY DEF Init, Buffers
<1>4. MoreTypes
    BY DEF Init, MoreTypes, Nothing
<1>5. TypeOK
    BY <1>2, <1>3 DEF Init, TypeOK, States
<1> QED
    BY <1>4, <1>5 DEF KType

(* Options, set-up, tear-down: the steps that touch neither the pings nor  *)
(* the messages.                                                           *)
LEMMA OptionsType ==
    ASSUME KType, WriteProc \/ Doit \/ GetOpt \/ EndOfOptions \/ CreateId
    PROVE  KType'
<1> USE DEF quiet, doitVars, stateVars, pingVars, qpVars, cqVars, cbVars, srvVars, At, Set, KType,
            Nothing, Opening, Closing
<1>1. CASE WriteProc
    BY <1>1 DEF WriteProc, TypeOK, MoreTypes
<1>2. CASE Doit
    <2>1. /\ res' \in [Resources -> {"none", "err", "live", "freed"}]
          /\ listed' \in BOOLEAN
        BY <1>2 DEF Doit, TypeOK
    <2>2. pc' \in {"options", "done"}
        BY <1>2 DEF Doit
    <2> QED
        BY <1>2, <2>1, <2>2 DEF Doit, TypeOK, MoreTypes
<1>3. CASE GetOpt
    <2> PICK t \in Tokens :
            LET op == krping_getopt(t)
            IN  /\ server' = IF op = "client" THEN 0 ELSE server
                /\ count' = IF op = "count" THEN t.n ELSE count
                /\ ret' = CASE op \in {"addr", "port", "client", "verbose"} -> ret
                            [] op = "size" -> IF t.n \in 1 .. BUFSIZE THEN ret ELSE EINVAL
                            [] op = "count" -> IF t.n >= 0 THEN ret ELSE EINVAL
                            [] OTHER -> -EINVAL
        BY <1>3 DEF GetOpt
    <2>1. t.n \in Numbers
        BY DEF Tokens
    <2>2. server' \in {-1, 0} /\ count' \in Numbers \cup {0}
        BY <2>1 DEF TypeOK
    <2>3. ret' \in {0, EINVAL, -EINVAL}
        BY DEF TypeOK
    <2> QED
        BY <1>3, <2>2, <2>3 DEF GetOpt, TypeOK, MoreTypes
<1>4. CASE EndOfOptions
    BY <1>4 DEF EndOfOptions, TypeOK, MoreTypes
<1>5. CASE CreateId
    BY <1>5 DEF CreateId, TypeOK, MoreTypes
<1> QED
    BY <1>1, <1>2, <1>3, <1>4, <1>5

(* krping_run_client up to the connection. *)
LEMMA SetupType ==
    ASSUME KType,
           \/ ResolveAddr \/ RouteWaited \/ AllocPd \/ CreateQp \/ SetupBuffers \/ PostRecv
           \/ Connect \/ ConnWaited
    PROVE  KType'
<1> USE DEF quiet, doitVars, stateVars, pingVars, qpVars, cqVars, cbVars, srvVars, At, Set, KType,
            Opening, Running, Closing
<1>1. CASE ResolveAddr \/ RouteWaited
    BY <1>1 DEF ResolveAddr, RouteWaited, TypeOK, MoreTypes
<1>2. CASE AllocPd \/ CreateQp \/ SetupBuffers
    BY <1>2 DEF AllocPd, CreateQp, SetupBuffers, TypeOK, MoreTypes
<1>3. CASE PostRecv \/ Connect \/ ConnWaited
    BY <1>3 DEF PostRecv, Connect, ConnWaited, TypeOK, MoreTypes
<1> QED
    BY <1>1, <1>2, <1>3

(* krping_run_client from the end of the loop, and krping_doit. *)
LEMMA TeardownType ==
    ASSUME KType, Disconnect \/ FreeBuffers \/ DestroyQp \/ DestroyCq \/ DestroyId \/ ListDel \/ KfreeCb
    PROVE  KType'
<1> USE DEF quiet, doitVars, stateVars, pingVars, cbVars, srvVars, At, Set, KType, Running, Closing
<1>1. CASE Disconnect
    <2>1. /\ cq' \in Seq({"flush", "error", "recv"}) /\ notify' \in {"armed", "raised", "off"}
          /\ qps' \in {"init", "up", "down"} /\ sq' \in Seq(Reg \cup {Send}) /\ rq' \in Nat
        <3>1. CASE qps = "up"
            BY <1>1, <3>1, GoDownType DEF Disconnect
        <3>2. CASE qps # "up"
            BY <1>1, <3>2 DEF Disconnect, qpVars, cqVars, TypeOK, MoreTypes
        <3> QED
            BY <3>1, <3>2
    <2> QED
        BY <1>1, <2>1 DEF Disconnect, TypeOK, MoreTypes
<1>2. CASE FreeBuffers \/ DestroyCq \/ DestroyId \/ KfreeCb
    <2>1. res' \in [Resources -> {"none", "err", "live", "freed"}]
        BY <1>2 DEF FreeBuffers, DestroyCq, DestroyId, KfreeCb, TypeOK
    <2>2. pc' \in Running \cup Closing
        BY <1>2 DEF FreeBuffers, DestroyCq, DestroyId, KfreeCb
    <2> QED
        BY <1>2, <2>1, <2>2 DEF FreeBuffers, DestroyCq, DestroyId, KfreeCb, qpVars, cqVars,
                                TypeOK, MoreTypes
<1>4. CASE ListDel
    <2>1. listed' \in BOOLEAN /\ pc' \in Closing
        BY <1>4 DEF ListDel
    <2> QED
        BY <1>4, <2>1 DEF ListDel, qpVars, cqVars, TypeOK, MoreTypes
<1>3. CASE DestroyQp
    BY <1>3 DEF DestroyQp, TypeOK, MoreTypes
<1> QED
    BY <1>1, <1>2, <1>3, <1>4

(* Posting a work request. *)
LEMMA PostedType ==
    ASSUME KType, NEW wr \in Reg \cup {Send}, Posted(wr) \/ NotPosted
    PROVE  /\ sq' \in Seq(Reg \cup {Send}) /\ cq' \in Seq({"flush", "error", "recv"})
           /\ notify' \in {"armed", "raised", "off"}
<1>1. <<"flush">> \in Seq({"flush", "error", "recv"})
    OBVIOUS
<1>2. sq \in Seq(Reg \cup {Send}) /\ cq \in Seq({"flush", "error", "recv"})
    BY DEF KType, MoreTypes
<1>3. notify \in {"armed", "raised", "off"}
    BY DEF KType, TypeOK
<1>4. CASE Posted(wr) /\ qps = "up"
    BY <1>2, <1>3, <1>4 DEF Posted, cqVars
<1>5. CASE Posted(wr) /\ qps = "down"
    BY <1>1, <1>2, <1>5, CompleteType DEF Posted
<1>6. CASE NotPosted
    BY <1>2, <1>3, <1>6 DEF NotPosted, cqVars
<1> QED
    BY <1>4, <1>5, <1>6 DEF Posted

(* The ping loop. *)
LEMMA FormatType ==
    ASSUME KType, NEW buf \in Buffers, FormatSend(buf), pc' \in Running
    PROVE  KType'
<1> USE DEF doitVars, stateVars, cbVars, srvVars, pingUnchanged
<1>1. key' \in Keys
    BY NextKey DEF FormatSend, KType, TypeOK
<1>2. send_buf' \in [buf : Buffers, rkey : [be32 : Keys]]
    BY <1>1 DEF FormatSend, Advertise, htonl
<1> DEFINE wr == [op |-> "reg", buf |-> buf, rkey |-> key']
<1>3. wr \in Reg \cup {Send}
    BY <1>1 DEF Reg
<1>4. Posted(wr) \/ NotPosted
    BY DEF FormatSend
<1> HIDE DEF wr
<1>5. /\ sq' \in Seq(Reg \cup {Send}) /\ cq' \in Seq({"flush", "error", "recv"})
      /\ notify' \in {"armed", "raised", "off"}
    BY <1>3, <1>4, PostedType
<1>6. state' \in States /\ lost' \in BOOLEAN
    BY StoreType DEF FormatSend, States, KType, TypeOK
<1> QED
    BY <1>1, <1>2, <1>5, <1>6 DEF FormatSend, KType, TypeOK, MoreTypes

(* The turns of the loop and its waits. *)
LEMMA PingType ==
    ASSUME KType,
           \/ Ping \/ EndOfLoop \/ FormatRead \/ PostRead \/ ReadWaited
           \/ FormatWrite \/ PostWrite \/ WriteWaited
    PROVE  KType'
<1> USE DEF doitVars, stateVars, cbVars, srvVars, pingUnchanged, At, Running
<1>1. CASE Ping
    <2>1. state' \in States /\ lost' \in BOOLEAN
        BY <1>1, StoreType DEF Ping, States, KType
    <2>2. mem' \in [Buffers -> Nat \cup {NoData}]
        BY <1>1 DEF Ping, KType, TypeOK
    <2> QED
        BY <1>1, <2>1, <2>2 DEF Ping, KType, TypeOK, MoreTypes, qpVars, cqVars, pingVars
<1>2. CASE EndOfLoop \/ ReadWaited
    BY <1>2 DEF EndOfLoop, ReadWaited, KType, TypeOK, MoreTypes, qpVars, cqVars, pingVars
<1>3. CASE WriteWaited
    BY <1>3 DEF WriteWaited, KType, TypeOK, MoreTypes, qpVars, cqVars
<1>4. CASE FormatRead
    BY <1>4, FormatType DEF FormatRead, Buffers
<1>5. CASE FormatWrite
    BY <1>5, FormatType DEF FormatWrite, Buffers
<1>6. CASE PostRead \/ PostWrite
    <2>1. Posted(Send) \/ NotPosted
        BY <1>6 DEF PostRead, PostWrite, PostAdv, Send
    <2>2. /\ sq' \in Seq(Reg \cup {Send}) /\ cq' \in Seq({"flush", "error", "recv"})
          /\ notify' \in {"armed", "raised", "off"}
        BY <2>1, PostedType
    <2> QED
        BY <1>6, <2>2 DEF PostRead, PostWrite, PostAdv, KType, TypeOK, MoreTypes, pingVars
<1> QED
    BY <1>1, <1>2, <1>3, <1>4, <1>5, <1>6

(* The connection manager. *)
LEMMA CmType ==
    ASSUME KType, CmAnswer \/ CmDeviceRemoval
    PROVE  KType'
<1> USE DEF doitVars, pingVars, cbVars, srvVars
<1>0. /\ UNCHANGED <<pc, doitVars, res, pingVars, mem, mr, cbVars, srvVars, rbad>>
    BY DEF CmAnswer, CmDeviceRemoval, CmAddrResolved, CmRouteResolved, CmReply, CmEstablished,
           CmError, CmDisconnected, CmEvent
<1>1. state' \in States /\ lost' \in BOOLEAN
    <2>1. CASE CmReply
        BY <2>1 DEF CmReply, stateVars, KType, TypeOK
    <2>2. CASE ~ CmReply
        <3>1. \E new \in States : Store(new)
            BY <2>2 DEF CmAnswer, CmDeviceRemoval, CmAddrResolved, CmRouteResolved, CmEstablished,
                        CmError, CmDisconnected, States
        <3> QED
            BY <3>1, StoreType DEF KType
    <2> QED
        BY <2>1, <2>2
<1>2. /\ sq' \in Seq(Reg \cup {Send}) /\ cq' \in Seq({"flush", "error", "recv"})
      /\ notify' \in {"armed", "raised", "off"} /\ qps' \in {"init", "up", "down"} /\ rq' \in Nat
    <2>1. CASE CmDeviceRemoval
        <3>1. CASE res["qp"] = "live"
            BY <2>1, <3>1, GoDownType DEF CmDeviceRemoval
        <3>2. CASE res["qp"] # "live"
            BY <2>1, <3>2 DEF CmDeviceRemoval, qpVars, cqVars, KType, TypeOK, MoreTypes
        <3> QED
            BY <3>1, <3>2
    <2>2. CASE CmAnswer
        BY <2>2 DEF CmAnswer, CmAddrResolved, CmRouteResolved, CmReply, CmEstablished,
                    CmError, CmDisconnected, qpVars, cqVars, KType, TypeOK, MoreTypes
    <2> QED
        BY <2>1, <2>2
<1> QED
    BY <1>0, <1>1, <1>2 DEF KType, TypeOK, MoreTypes

(* The completion callback. *)
LEMMA CallbackType ==
    ASSUME KType, Callback
    PROVE  KType'
<1> USE DEF doitVars, pingVars, srvVars
<1>0. /\ UNCHANGED <<pc, doitVars, res, cm, pingVars, mem, mr, srvVars, rbad, qps, sq>>
      /\ cbpc' \in {"idle", "poll", "store", "repost"}
      /\ cbad' \subseteq Resources
    BY DEF Callback, CqEvent, PollEmpty, PollFlush, PollError, PollRecv, ClientRecv, Repost,
           CbStep, qpVars, KType, TypeOK, Resources
<1>1. state' \in States /\ lost' \in BOOLEAN /\ new_state' \in States
    <2>1. CASE PollError \/ ClientRecv \/ Repost
        <3>1. UNCHANGED stateVars \/ \E new \in States : Store(new)
            BY <2>1 DEF PollError, ClientRecv, Repost, States, KType, TypeOK
        <3>2. new_state' \in States
            BY <2>1 DEF PollError, ClientRecv, Repost, KType, TypeOK
        <3> QED
            BY <3>1, <3>2, StoreType DEF stateVars, KType, TypeOK
    <2>2. CASE CqEvent \/ PollEmpty \/ PollFlush \/ PollRecv
        BY <2>2 DEF CqEvent, PollEmpty, PollFlush, PollRecv, stateVars, KType, TypeOK, States
    <2> QED
        BY <2>1, <2>2 DEF Callback
<1>2. cq' \in Seq({"flush", "error", "recv"}) /\ notify' \in {"armed", "raised", "off"} /\ rq' \in Nat
    <2>0. /\ cq \in Seq({"flush", "error", "recv"}) /\ notify \in {"armed", "raised", "off"}
          /\ rq \in Nat /\ <<"flush">> \in Seq({"flush", "error", "recv"})
        BY DEF KType, TypeOK, MoreTypes
    <2>1. CASE CqEvent \/ PollEmpty \/ ClientRecv
        BY <2>0, <2>1 DEF CqEvent, PollEmpty, ClientRecv, qpVars, cqVars
    <2>2. CASE PollFlush \/ PollError \/ PollRecv
        BY <2>0, <2>2 DEF PollFlush, PollError, PollRecv, Polled, qpVars
    <2>3. CASE Repost
        <3>1. \/ Complete(<<"flush">>) /\ rq' = rq
              \/ rq' \in {rq, rq + 1} /\ UNCHANGED <<cq, notify>>
            BY <2>3 DEF Repost, cqVars
        <3>2. CASE Complete(<<"flush">>) /\ rq' = rq
            BY <2>0, <3>2, CompleteType
        <3>3. CASE rq' \in {rq, rq + 1} /\ UNCHANGED <<cq, notify>>
            BY <2>0, <3>3
        <3> QED
            BY <3>1, <3>2, <3>3
    <2> QED
        BY <2>1, <2>2, <2>3 DEF Callback
<1> QED
    BY <1>0, <1>1, <1>2 DEF KType, TypeOK, MoreTypes

(* The device, the server and a reader of /proc/krping. *)
LEMMA NetType ==
    ASSUME KType, Execute \/ PeerGone \/ ServerStep \/ ReadProc
    PROVE  KType'
<1> USE DEF doitVars, stateVars, pingVars, cbVars, netVars
<1>0. /\ sq \in Seq(Reg \cup {Send}) /\ net \in Seq([buf : Buffers, rkey : [be32 : Keys]])
      /\ send_buf \in [buf : Buffers, rkey : [be32 : Keys]] /\ adv \in [buf : Buffers, rkey : Keys]
      /\ mem \in [Buffers -> Nat \cup {NoData}] /\ sdata \in Nat \cup {NoData}
      /\ rq \in Nat /\ cq \in Seq({"flush", "error", "recv"})
      /\ notify \in {"armed", "raised", "off"} /\ qps \in {"init", "up", "down"}
    BY DEF KType, TypeOK, MoreTypes
<1>1. CASE Execute
    <2>1. sq' \in Seq(Reg \cup {Send}) /\ Head(sq) \in Reg \cup {Send}
        BY <1>0, <1>1 DEF Execute
    <2>2. mr' \in [buf : Buffers, rkey : Keys] /\ net' \in Seq([buf : Buffers, rkey : [be32 : Keys]])
        <3>1. CASE Head(sq).op = "reg"
            <4>1. Head(sq).buf \in Buffers /\ Head(sq).rkey \in Keys
                BY <2>1, <3>1 DEF Reg, Send
            <4> QED
                BY <1>0, <1>1, <3>1, <4>1 DEF Execute
        <3>2. CASE Head(sq).op # "reg"
            <4> DEFINE M == [buf : Buffers, rkey : [be32 : Keys]]
            <4>1. net \in Seq(M) /\ send_buf \in M /\ mr \in [buf : Buffers, rkey : Keys]
                BY <1>0 DEF KType, TypeOK
            <4>2. net' = Append(net, send_buf) /\ mr' = mr
                BY <1>1, <3>2 DEF Execute
            <4> HIDE DEF M
            <4>3. net' \in Seq(M)
                BY <4>1, <4>2
            <4> QED
                BY <4>1, <4>2, <4>3 DEF M
        <3> QED
            BY <3>1, <3>2
    <2> QED
        BY <1>1, <2>1, <2>2 DEF Execute, KType, TypeOK, MoreTypes, cqVars
<1>2. CASE PeerGone
    <2>1. <<"error", "flush">> \in Seq({"flush", "error", "recv"})
        OBVIOUS
    <2>2. /\ qps' = "down" /\ sq' = <<>> /\ rq' = 0
          /\ cq' \in Seq({"flush", "error", "recv"}) /\ notify' \in {"armed", "raised", "off"}
        BY <1>2, <2>1, GoDownType, CompleteType DEF PeerGone
    <2> QED
        BY <1>2, <2>2 DEF PeerGone, KType, TypeOK, MoreTypes, srvVars
<1>3. CASE ServerRecv
    <2>1. /\ Head(net) \in [buf : Buffers, rkey : [be32 : Keys]]
          /\ net' \in Seq([buf : Buffers, rkey : [be32 : Keys]])
        <3> DEFINE M == [buf : Buffers, rkey : [be32 : Keys]]
        <3>1. net \in Seq(M) /\ net # <<>> /\ net' = Tail(net)
            BY <1>0, <1>3 DEF ServerRecv
        <3> HIDE DEF M
        <3>2. Head(net) \in M /\ net' \in Seq(M)
            BY <3>1
        <3> QED
            BY <3>2 DEF M
    <2>2. adv' \in [buf : Buffers, rkey : Keys]
        BY <1>3, <2>1 DEF ServerRecv, ntohl
    <2> QED
        BY <1>3, <2>1, <2>2 DEF ServerRecv, Server, KType, TypeOK, MoreTypes, qpVars, cqVars
<1>4. CASE ServerRead \/ ServerWrite \/ ServerGoAhead
    <2>1. /\ sq' \in Seq(Reg \cup {Send}) /\ qps' \in {"init", "up", "down"} /\ rq' \in Nat
          /\ cq' \in Seq({"flush", "error", "recv"}) /\ notify' \in {"armed", "raised", "off"}
        <3>1. \/ GoDown
              \/ UNCHANGED <<qps, sq, rq, cq, notify>>
              \/ rq > 0 /\ rq' = rq - 1 /\ Complete(<<"recv">>) /\ UNCHANGED <<qps, sq>>
            BY <1>4 DEF ServerRead, ServerWrite, ServerGoAhead, qpVars, cqVars
        <3>2. CASE GoDown
            BY <3>2, GoDownType
        <3>3. CASE UNCHANGED <<qps, sq, rq, cq, notify>>
            BY <1>0, <3>3
        <3>4. CASE rq > 0 /\ rq' = rq - 1 /\ Complete(<<"recv">>) /\ UNCHANGED <<qps, sq>>
            <4>1. <<"recv">> \in Seq({"flush", "error", "recv"})
                OBVIOUS
            <4> QED
                <5>1. rq' \in Nat
                    BY <1>0, <3>4
                <5> QED
                    BY <1>0, <3>4, <4>1, <5>1, CompleteType
        <3> QED
            BY <3>1, <3>2, <3>3, <3>4
    <2>2. mem' \in [Buffers -> Nat \cup {NoData}] /\ sdata' \in Nat \cup {NoData}
        BY <1>0, <1>4 DEF ServerRead, ServerWrite, ServerGoAhead
    <2> QED
        BY <1>4, <2>1, <2>2 DEF ServerRead, ServerWrite, ServerGoAhead, Server, KType, TypeOK,
                                MoreTypes
<1>5. CASE ReadProc
    <2>1. rbad' \subseteq Resources
        BY <1>5 DEF ReadProc, KType, TypeOK, Resources
    <2> QED
        BY <1>5, <2>1 DEF ReadProc, KType, TypeOK, MoreTypes, qpVars, cqVars, srvVars
<1> QED
    BY <1>1, <1>2, <1>3, <1>4, <1>5 DEF ServerStep

(* A wait ends by its condition or by a signal: the step is the same. *)
LEMMA WriterSteps ==
    ASSUME Writer \/ GetOpt \/ Signal
    PROVE  \/ WriteProc \/ Doit \/ GetOpt \/ EndOfOptions \/ CreateId
           \/ ResolveAddr \/ RouteWaited \/ AllocPd \/ CreateQp \/ SetupBuffers \/ PostRecv
           \/ Connect \/ ConnWaited
           \/ Ping \/ EndOfLoop \/ FormatRead \/ PostRead \/ ReadWaited
           \/ FormatWrite \/ PostWrite \/ WriteWaited
           \/ Disconnect \/ FreeBuffers \/ DestroyQp \/ DestroyCq \/ DestroyId \/ ListDel \/ KfreeCb
BY DEF Writer, Signal, WaitRoute, WaitConn, WaitRead, WaitWrite

(* Every step keeps the types. *)
LEMMA TypeStep == KType /\ [Next]_vars => KType'
<1> SUFFICES ASSUME KType, [Next]_vars PROVE KType'
    OBVIOUS
<1>1. CASE Writer \/ GetOpt \/ Signal
    BY <1>1, WriterSteps, OptionsType, SetupType, PingType, TeardownType
<1>2. CASE CmAnswer \/ CmDeviceRemoval \/ Callback \/ Execute \/ PeerGone \/ ServerStep \/ ReadProc
    BY <1>2, CmType, CallbackType, NetType
<1>3. CASE UNCHANGED vars
    BY <1>3 DEF vars, doitVars, stateVars, qpVars, pingVars, cqVars, cbVars, srvVars, KType, TypeOK,
                MoreTypes
<1> QED
    BY <1>1, <1>2, <1>3 DEF Next

(* The ping client is well-typed, for every size of the key, every count   *)
(* and every fault: cb->key stays a u8, and every state stored is one.     *)
THEOREM KrpingTypeCorrect == Spec => []TypeOK
<1>1. KType => TypeOK
    BY DEF KType
<1> QED
    BY <1>1, TypeInit, TypeStep, PTL DEF Spec

-----------------------------------------------------------------------------
(* The life of the resources                                               *)

(* Before the write nothing is alive. *)
LEMMA LifeInit == Init => LifeInv
<1> SUFFICES ASSUME Init PROVE LifeInv
    OBVIOUS
<1>1. \A r \in Resources : res[r] = "none"
    BY DEF Init
<1> QED
    BY <1>1 DEF Init, LifeInv, StaleUses, Resources, Nothing, Opening, Running, Closing

(* The steps of the writer that take and release resources. *)
LEMMA WriterKeepsLife ==
    ASSUME KType, LifeInv, Writer \/ GetOpt \/ Signal
    PROVE  LifeInv'
<1> USE DEF LifeInv, StaleUses, quiet, doitVars, stateVars, pingVars, qpVars, cqVars, cbVars, srvVars,
            pingUnchanged, At, Nothing, Opening, Running, Closing
<1>0. /\ "cb" \in Resources /\ "cm_id" \in Resources /\ "pd" \in Resources /\ "cq" \in Resources
      /\ "qp" \in Resources /\ "maps" \in Resources /\ "bufs" \in Resources
    BY DEF Resources
<1>1. CASE WriteProc \/ GetOpt \/ EndOfOptions
    BY <1>1 DEF WriteProc, GetOpt, EndOfOptions
<1>2. CASE Doit
    BY <1>0, <1>2 DEF Doit, Set
<1>3. CASE CreateId
    BY <1>0, <1>3 DEF CreateId, Set
<1>4. CASE ResolveAddr \/ RouteWaited \/ PostRecv \/ Connect \/ ConnWaited
    BY <1>4 DEF ResolveAddr, RouteWaited, PostRecv, Connect, ConnWaited
<1>5. CASE AllocPd
    BY <1>0, <1>5 DEF AllocPd, Set
<1>6. CASE CreateQp
    BY <1>0, <1>6 DEF CreateQp, Set
<1>7. CASE SetupBuffers
    BY <1>0, <1>7 DEF SetupBuffers, Set
<1>8. CASE Ping \/ EndOfLoop \/ ReadWaited \/ WriteWaited \/ PostRead \/ PostWrite
    BY <1>8 DEF Ping, EndOfLoop, ReadWaited, WriteWaited, PostRead, PostWrite, PostAdv
<1>9. CASE FormatRead \/ FormatWrite
    BY <1>9 DEF FormatRead, FormatWrite, FormatSend
<1>10. CASE Disconnect
    BY <1>10 DEF Disconnect
<1>11. CASE FreeBuffers
    BY <1>0, <1>11 DEF FreeBuffers, Set
<1>12. CASE DestroyQp
    BY <1>0, <1>12 DEF DestroyQp, Set
<1>13. CASE DestroyCq
    BY <1>0, <1>13 DEF DestroyCq, Set
<1>14. CASE DestroyId
    BY <1>0, <1>14 DEF DestroyId, Set
<1>15. CASE ListDel
    BY <1>15 DEF ListDel
<1>16. CASE KfreeCb
    BY <1>0, <1>16 DEF KfreeCb, Set
<1> QED
    BY <1>1, <1>2, <1>3, <1>4, <1>5, <1>6, <1>7, <1>8, <1>9, <1>10, <1>11, <1>12, <1>13, <1>14,
       <1>15, <1>16, WriterSteps

(* The handlers and a reader: they follow only what the writer keeps for   *)
(* them, but for the queue pair and the protection domain.                 *)
LEMMA OthersKeepLife ==
    ASSUME KType, LifeInv,
           CmAnswer \/ CmDeviceRemoval \/ Callback \/ Execute \/ PeerGone \/ ServerStep \/ ReadProc
    PROVE  LifeInv'
<1> USE DEF doitVars, cbVars
<1>1. UNCHANGED <<pc, listed, res>>
    BY DEF CmAnswer, CmDeviceRemoval, CmAddrResolved, CmRouteResolved, CmReply, CmEstablished,
           CmError, CmDisconnected, CmEvent,
           Callback, CqEvent, PollEmpty, PollFlush, PollError, PollRecv, ClientRecv, Repost, CbStep,
           Execute, PeerGone, ServerStep, ServerRecv, ServerRead, ServerWrite, ServerGoAhead, Server,
           netVars, ReadProc
<1>2. cbpc' # "idle" => res["cq"] = "live"
    <2>1. CASE Callback
        BY <2>1 DEF Callback, CqEvent, PollEmpty, PollFlush, PollError, PollRecv, ClientRecv, Repost,
                    CbStep, LifeInv
    <2>2. CASE ~ Callback
        BY <2>2 DEF CmAnswer, CmDeviceRemoval, CmAddrResolved, CmRouteResolved, CmReply,
           CmEstablished, CmError, CmDisconnected, CmEvent,
           Execute, PeerGone, ServerStep, ServerRecv, ServerRead, ServerWrite, ServerGoAhead, Server,
           netVars, ReadProc, LifeInv
    <2> QED
        BY <2>1, <2>2
<1>3. res["cq"] = "live" => res["cb"] = "live"
    BY DEF LifeInv, Nothing, Running
<1>4. cbad' \subseteq {"qp"}
    <2>1. CASE Callback
        <3>1. \E R \in SUBSET {"cb", "cq", "qp"} :
                  cbad' = cbad \cup {r \in R : res[r] # "live"} /\ (res["cq"] = "live")
            <4>1. CASE CqEvent
                BY <4>1 DEF CqEvent, CbStep
            <4>2. CASE PollEmpty \/ PollFlush \/ PollError \/ PollRecv \/ ClientRecv
                BY <4>2 DEF PollEmpty, PollFlush, PollError, PollRecv, ClientRecv, CbStep, LifeInv
            <4>3. CASE Repost
                BY <4>3 DEF Repost, CbStep, LifeInv
            <4> QED
                BY <2>1, <4>1, <4>2, <4>3 DEF Callback
        <3> QED
            BY <1>3, <3>1 DEF LifeInv, StaleUses
    <2>2. CASE ~ Callback
        BY <2>2 DEF CmAnswer, CmDeviceRemoval, CmAddrResolved, CmRouteResolved, CmReply,
           CmEstablished, CmError, CmDisconnected, CmEvent,
           Execute, PeerGone, ServerStep, ServerRecv, ServerRead, ServerWrite, ServerGoAhead, Server,
           netVars, ReadProc, LifeInv, StaleUses
    <2> QED
        BY <2>1, <2>2
<1>5. rbad' \subseteq {"pd"}
    <2>1. CASE ReadProc
        BY <2>1 DEF ReadProc, LifeInv, StaleUses, Nothing
    <2>2. CASE ~ ReadProc
        BY <2>2 DEF CmAnswer, CmDeviceRemoval, CmAddrResolved, CmRouteResolved, CmReply,
           CmEstablished, CmError, CmDisconnected, CmEvent,
           Callback, CqEvent, PollEmpty, PollFlush, PollError, PollRecv, ClientRecv, Repost, CbStep,
           Execute, PeerGone, ServerStep, ServerRecv, ServerRead, ServerWrite, ServerGoAhead, Server,
           netVars, LifeInv, StaleUses
    <2> QED
        BY <2>1, <2>2
<1> QED
    BY <1>1, <1>2, <1>4, <1>5 DEF LifeInv, StaleUses

(* Every step keeps the resources as LifeInv has them. *)
LEMMA LifeStep == KType /\ LifeInv /\ [Next]_vars => LifeInv'
<1> SUFFICES ASSUME KType, LifeInv, [Next]_vars PROVE LifeInv'
    OBVIOUS
<1>1. CASE UNCHANGED vars
    BY <1>1 DEF vars, doitVars, cbVars, LifeInv, StaleUses
<1> QED
    BY <1>1, WriterKeepsLife, OthersKeepLife DEF Next

(* The resources live as LifeInv says. *)
LEMMA LifeInvariant == Spec => [](KType /\ LifeInv)
BY TypeInit, TypeStep, LifeInit, LifeStep, PTL DEF Spec

(* Neither the completion callback nor a reader of /proc/krping meets a    *)
(* freed cb, the callback never a destroyed CQ: only the queue pair and    *)
(* the protection domain can be gone when they are followed.               *)
THEOREM StaleUsesBounded == Spec => []StaleUses
<1>1. LifeInv => StaleUses
    BY DEF LifeInv
<1> QED
    BY <1>1, LifeInvariant, PTL

(* Whichever steps of the set-up fail, and whatever happens during the     *)
(* pings, the write leaves nothing allocated but the mappings of a         *)
(* krping_setup_buffers that failed.                                       *)
THEOREM WriteLeavesOnlyMappings == Spec => []LeavesOnlyMappings
<1>1. LifeInv => LeavesOnlyMappings
    BY DEF LifeInv, LeavesOnlyMappings, Resources, Nothing, Opening, Running, Closing
<1> QED
    BY <1>1, LifeInvariant, PTL

-----------------------------------------------------------------------------
(* The turns of a ping                                                     *)

PingLoopInv ==
    UpOnceInv /\ TurnInv /\ ReadTurn /\ WriteTurn /\ PingInv /\ KeyInv /\ RecvInv

(* The requests told apart. *)
LEMMA Requests ==
    /\ RegAdvertised.op = "reg" /\ Send.op = "send" /\ RegAdvertised # Send
    /\ RegAdvertised.buf = Advertised.buf /\ RegAdvertised.rkey = Advertised.rkey
BY DEF RegAdvertised, Send, Advertised

(* Nothing but another store follows ERROR, and that is a state lost. *)
LEMMA FailedStays ==
    ASSUME KType, NEW new \in States, Store(new)
    PROVE  (Failed => Failed') /\ (new = ERROR => Failed') /\ state' = new
<1>1. state' = new
    BY DEF Store
<1>2. lost => lost'
    BY DEF Store
<1>3. state = ERROR /\ new # ERROR => lost'
    <2> SUFFICES ASSUME state = ERROR, new # ERROR PROVE lost'
        OBVIOUS
    <2>1. new < state
        BY DEF States, IDLE, ADDR_RESOLVED, ROUTE_RESOLVED, CONNECTED, RDMA_READ_ADV,
               RDMA_WRITE_ADV, RDMA_WRITE_COMPLETE, ERROR
    <2> QED
        BY <2>1 DEF Store
<1> QED
    BY <1>1, <1>2, <1>3 DEF Failed

(* Completions that are no go-ahead. *)
LEMMA NoGoAhead ==
    ASSUME KType, OneRecv, NEW s \in Seq({"flush", "error", "recv"}),
           \A i \in 1 .. Len(s) : s[i] # "recv", cq' = cq \o s
    PROVE  (HasRecv' <=> HasRecv) /\ OneRecv'
<1>1. cq \in Seq({"flush", "error", "recv"})
    BY DEF KType, MoreTypes
<1>2. /\ \A i \in 1 .. Len(cq') : cq'[i] = "recv" => i \in 1 .. Len(cq) /\ cq[i] = "recv"
      /\ \A i \in 1 .. Len(cq) : i \in 1 .. Len(cq') /\ cq'[i] = cq[i]
    BY <1>1
<1>3. HasRecv' <=> HasRecv
    BY <1>2 DEF HasRecv
<1> QED
    BY <1>2, <1>3 DEF OneRecv

(* The server's go-ahead. *)
LEMMA GoAheadArrives ==
    ASSUME KType, ~ HasRecv, cq' = cq \o <<"recv">>
    PROVE  HasRecv' /\ OneRecv'
<1>1. cq \in Seq({"flush", "error", "recv"})
    BY DEF KType, MoreTypes
<1>2. /\ \A i \in 1 .. Len(cq') : cq'[i] = "recv" => i = Len(cq) + 1
      /\ Len(cq) + 1 \in 1 .. Len(cq') /\ cq'[Len(cq) + 1] = "recv"
    BY <1>1 DEF HasRecv
<1> QED
    BY <1>2 DEF HasRecv, OneRecv

(* A completion is polled. *)
LEMMA GoAheadPolled ==
    ASSUME KType, OneRecv, cq # <<>>, cq' = Tail(cq)
    PROVE  /\ OneRecv'
           /\ Head(cq) = "recv" => HasRecv /\ ~ HasRecv'
           /\ Head(cq) # "recv" => (HasRecv' <=> HasRecv)
<1>1. cq \in Seq({"flush", "error", "recv"})
    BY DEF KType, MoreTypes
<1>2. /\ Len(cq') = Len(cq) - 1
      /\ \A i \in 1 .. Len(cq') : i + 1 \in 2 .. Len(cq) /\ cq'[i] = cq[i + 1]
      /\ \A i \in 2 .. Len(cq) : i - 1 \in 1 .. Len(cq') /\ cq'[i - 1] = cq[i]
      /\ Head(cq) = cq[1] /\ 1 \in 1 .. Len(cq)
    BY <1>1
<1>3. OneRecv'
    <2> SUFFICES ASSUME NEW i \in 1 .. Len(cq'), NEW j \in 1 .. Len(cq'),
                        cq'[i] = "recv", cq'[j] = "recv"
                 PROVE  i = j
        BY DEF OneRecv
    <2>1. i + 1 = j + 1
        BY <1>1, <1>2 DEF OneRecv
    <2> QED
        BY <2>1
<1>4. ASSUME Head(cq) = "recv"
      PROVE  HasRecv /\ ~ HasRecv'
    <2>1. HasRecv
        BY <1>2, <1>4 DEF HasRecv
    <2>2. \A i \in 1 .. Len(cq') : cq'[i] # "recv"
        <3> SUFFICES ASSUME NEW i \in 1 .. Len(cq'), cq'[i] = "recv" PROVE FALSE
            OBVIOUS
        <3>1. i + 1 = 1
            BY <1>1, <1>2, <1>4 DEF OneRecv
        <3> QED
            BY <3>1
    <2> QED
        BY <2>1, <2>2 DEF HasRecv
<1>5. ASSUME Head(cq) # "recv"
      PROVE  HasRecv' <=> HasRecv
    <2>1. \A i \in 1 .. Len(cq) : cq[i] = "recv" => i \in 2 .. Len(cq)
        BY <1>1, <1>2, <1>5
    <2>2. HasRecv => HasRecv'
        BY <1>2, <2>1 DEF HasRecv
    <2>3. HasRecv' => HasRecv
        <3> SUFFICES ASSUME NEW i \in 1 .. Len(cq'), cq'[i] = "recv" PROVE HasRecv
            BY DEF HasRecv
        <3>1. i + 1 \in 1 .. Len(cq) /\ cq[i + 1] = "recv"
            BY <1>2
        <3> QED
            BY <3>1 DEF HasRecv
    <2> QED
        BY <2>2, <2>3
<1> QED
    BY <1>3, <1>4, <1>5

(* A write that has not begun. *)
LEMMA PingLoopInit == Init => PingLoopInv
<1> SUFFICES ASSUME Init PROVE PingLoopInv
    OBVIOUS
<1>1. ~ HasRecv /\ OneRecv /\ ~ GoAhead
    BY DEF Init, HasRecv, OneRecv, GoAhead
<1>2. pc \in Before /\ pc \notin Pinging \cup Leaving \cup {"ping", "format_read"}
    BY DEF Init, Before, Unconnected, Nothing, Opening, Pinging, Leaving, Closing
<1> QED
    BY <1>1, <1>2 DEF Init, PingLoopInv, UpOnceInv, TurnInv, ReadTurn, WriteTurn, PingInv, KeyInv,
                      RecvInv, Quiet, PongMatchesPing, Pinging

(* Steps that only store a state of the connection manager, or ERROR. *)
LEMMA StoreKeeps ==
    ASSUME PingLoopInv, UpOnceInv', Failed => Failed',
           UNCHANGED <<pc, qps, ping, mem, send_buf, sq, mr, rq, cq, cbpc, spc, net, adv, sdata>>,
           state' = state \/ state' \notin {RDMA_WRITE_ADV, RDMA_WRITE_COMPLETE}
    PROVE  PingLoopInv'
<1>1. UNCHANGED <<HasRecv, OneRecv, GoAhead, Busy, Advertised, RegAdvertised>>
    BY DEF HasRecv, OneRecv, GoAhead, Busy, Advertised, RegAdvertised
<1>2. Quiet("recv")' = Quiet("recv") /\ Quiet("recv2")' = Quiet("recv2")
    BY <1>1 DEF Quiet
<1>3. TurnInv'
    BY <1>1 DEF PingLoopInv, TurnInv
<1>4. ReadTurn'
    BY <1>1, <1>2 DEF PingLoopInv, ReadTurn
<1>5. WriteTurn'
    BY <1>1, <1>2 DEF PingLoopInv, WriteTurn
<1>6. PingInv'
    BY DEF PingLoopInv, PingInv, PongMatchesPing
<1>7. KeyInv' /\ RecvInv'
    BY <1>1 DEF PingLoopInv, KeyInv, RecvInv
<1> QED
    BY <1>3, <1>4, <1>5, <1>6, <1>7 DEF PingLoopInv

(* The queue pair goes down: what was under way is over, what the callback *)
(* has still counts.                                                       *)
LEMMA DownKeeps ==
    ASSUME PingLoopInv, UpOnceInv', qps' = "down", OneRecv',
           HasRecv' => HasRecv,
           UNCHANGED <<pc, ping, mem, send_buf, sdata, cbpc>>,
           state' = state \/ state' \notin {RDMA_WRITE_ADV, RDMA_WRITE_COMPLETE}
    PROVE  PingLoopInv'
<1>1. GoAhead' => GoAhead
    BY DEF GoAhead
<1>2. sq' = <<>> /\ qps' # "up"
    BY DEF UpOnceInv
<1>3. TurnInv'
    BY <1>2 DEF PingLoopInv, TurnInv
<1>4. ReadTurn'
    BY <1>1, <1>2 DEF PingLoopInv, ReadTurn, Quiet
<1>5. WriteTurn'
    BY <1>1, <1>2 DEF PingLoopInv, WriteTurn, Quiet
<1>6. PingInv'
    BY DEF PingLoopInv, PingInv, PongMatchesPing
<1>7. KeyInv' /\ RecvInv'
    BY <1>2 DEF KeyInv, RecvInv
<1> QED
    BY <1>3, <1>4, <1>5, <1>6, <1>7 DEF PingLoopInv

(* The queue pair goes down and flushes. *)
LEMMA GoDownEffect ==
    ASSUME KType, OneRecv, GoDown
    PROVE  qps' = "down" /\ sq' = <<>> /\ OneRecv' /\ (HasRecv' => HasRecv)
<1>1. <<"flush">> \in Seq({"flush", "error", "recv"}) /\ \A i \in 1 .. Len(<<"flush">>) : <<"flush">>[i] # "recv"
    OBVIOUS
<1>2. CASE cq' = cq \o <<"flush">>
    BY <1>1, <1>2, NoGoAhead DEF GoDown
<1>3. CASE cq' = cq
    BY <1>3 DEF GoDown, HasRecv, OneRecv
<1> QED
    BY <1>2, <1>3 DEF GoDown, Complete, cqVars

(* The connection manager: it brings the queue pair up, takes it down or   *)
(* stores a state.                                                         *)
LEMMA CmKeeps ==
    ASSUME KType, LifeInv, PingLoopInv, CmAnswer \/ CmDeviceRemoval
    PROVE  PingLoopInv'
<1> USE DEF stateVars, qpVars, cqVars, pingVars, cbVars, srvVars, CmEvent
<1>0. UpOnceInv /\ TurnInv /\ OneRecv
    BY DEF PingLoopInv, TurnInv
<1>1. CASE CmAddrResolved \/ CmRouteResolved \/ CmEstablished \/ CmError \/ CmDisconnected
    <2>1. /\ UNCHANGED <<pc, res, qps, ping, mem, send_buf, sq, mr, rq, cq, cbpc, spc, net, adv, sdata, notify>>
        BY <1>1 DEF CmAddrResolved, CmRouteResolved, CmEstablished, CmError, CmDisconnected
    <2>2. \E new \in States \ {RDMA_WRITE_ADV, RDMA_WRITE_COMPLETE} : Store(new)
        BY <1>1 DEF CmAddrResolved, CmRouteResolved, CmEstablished, CmError, CmDisconnected,
                    States, IDLE, ADDR_RESOLVED, ROUTE_RESOLVED, CONNECTED, RDMA_READ_ADV,
                    RDMA_WRITE_ADV, RDMA_WRITE_COMPLETE, ERROR
    <2>3. (Failed => Failed') /\ state' \notin {RDMA_WRITE_ADV, RDMA_WRITE_COMPLETE}
        BY <2>2, FailedStays
    <2>4. UpOnceInv'
        BY <1>0, <1>1, <2>1
        DEF UpOnceInv, CmAddrResolved, CmRouteResolved, CmEstablished, CmError, CmDisconnected
    <2> QED
        BY <2>1, <2>3, <2>4, StoreKeeps
<1>2. CASE CmReply
    <2>1. /\ UNCHANGED <<pc, res, state, lost, ping, mem, send_buf, sq, mr, rq, cq, cbpc, spc, net, adv, sdata, notify>>
          /\ cm = "connecting" /\ cm' = "replied" /\ qps' = "up" /\ res["qp"] = "live"
        BY <1>2 DEF CmReply
    <2>2. qps = "init"
        BY <1>0, <2>1 DEF UpOnceInv, KType, TypeOK
    <2>3. /\ net = <<>> /\ spc = "recv" /\ cq = <<>> /\ cbpc = "idle" /\ sq = <<>> /\ rq = 1
          /\ pc \notin Pinging /\ pc \notin Unconnected
        BY <1>0, <2>1, <2>2 DEF UpOnceInv
    <2>4. ~ HasRecv' /\ OneRecv' /\ ~ GoAhead' /\ ~ Busy'
        BY <2>1, <2>3 DEF HasRecv, OneRecv, GoAhead, Busy
    <2>5. UpOnceInv'
        BY <1>0, <2>1, <2>3 DEF UpOnceInv
    <2>6. TurnInv'
        BY <2>1, <2>3, <2>4 DEF TurnInv
    <2>7. ReadTurn' /\ WriteTurn'
        BY <2>1, <2>3, <2>4 DEF ReadTurn, WriteTurn, Quiet, Pinging, PingLoopInv
    <2>8. PingInv'
        BY <2>1 DEF PingLoopInv, PingInv, PongMatchesPing
    <2>9. KeyInv' /\ RecvInv'
        BY <2>1, <2>3, <2>4 DEF KeyInv, RecvInv, Pinging, Send
    <2> QED
        BY <2>5, <2>6, <2>7, <2>8, <2>9 DEF PingLoopInv
<1>3. CASE CmDeviceRemoval
    <2>1. /\ UNCHANGED <<pc, res, ping, mem, mr, send_buf, cbpc, spc, net, adv, sdata>> /\ cm' = "failed"
          /\ cm \in {"resolving_route", "bound", "connecting", "replied", "connected"}
          /\ Store(ERROR)
        BY <1>3 DEF CmDeviceRemoval
    <2>2. (Failed => Failed') /\ state' \notin {RDMA_WRITE_ADV, RDMA_WRITE_COMPLETE}
        BY <2>1, FailedStays DEF States, RDMA_WRITE_ADV, RDMA_WRITE_COMPLETE, ERROR
    <2>3. CASE res["qp"] = "live"
        <3>1. GoDown
            BY <1>3, <2>3 DEF CmDeviceRemoval
        <3>2. qps' = "down" /\ sq' = <<>> /\ OneRecv' /\ (HasRecv' => HasRecv)
            BY <1>0, <3>1, GoDownEffect
        <3>3. UpOnceInv'
            BY <1>0, <2>1, <2>3, <3>2 DEF UpOnceInv
        <3> QED
            BY <2>1, <2>2, <3>2, <3>3, DownKeeps
    <2>4. CASE res["qp"] # "live"
        <3>1. UNCHANGED <<qps, sq, rq, cq, notify>>
            BY <1>3, <2>4 DEF CmDeviceRemoval
        <3>2. UpOnceInv'
            BY <1>0, <2>1, <2>4, <3>1 DEF UpOnceInv
        <3> QED
            BY <2>1, <2>2, <3>1, <3>2, StoreKeeps
    <2> QED
        BY <2>3, <2>4
<1> QED
    BY <1>1, <1>2, <1>3 DEF CmAnswer

(* The completion callback: it takes the go-ahead, stores the state that   *)
(* gives the turn to the writer, and posts the receive again.              *)
LEMMA CallbackKeeps ==
    ASSUME KType, LifeInv, PingLoopInv, Callback
    PROVE  PingLoopInv'
<1> USE DEF stateVars, qpVars, cqVars, pingVars, srvVars, CbStep
<1>0. /\ UpOnceInv /\ TurnInv /\ OneRecv /\ ReadTurn /\ WriteTurn /\ PingInv /\ KeyInv /\ RecvInv
      /\ qps \in {"init", "up", "down"} /\ rq \in Nat
    BY DEF PingLoopInv, TurnInv, KType, TypeOK
<1>1. UNCHANGED <<pc, res, cm, qps, ping, mem, send_buf, sq, mr, spc, net, adv, sdata>>
    BY DEF Callback, CqEvent, PollEmpty, PollFlush, PollError, PollRecv, ClientRecv, Repost
<1>2. qps # "init" /\ UpOnceInv'
    <2>1. qps # "init"
        BY <1>0 DEF Callback, CqEvent, PollEmpty, PollFlush, PollError, PollRecv, ClientRecv, Repost,
                    UpOnceInv
    <2> QED
        BY <1>0, <1>1, <2>1 DEF UpOnceInv
<1>3. UNCHANGED <<Busy, Advertised, RegAdvertised>>
    BY <1>1 DEF Busy, Advertised, RegAdvertised
<1>4. ASSUME OneRecv', GoAhead' <=> GoAhead, ~ (HasRecv' /\ cbpc' = "store"),
             Failed => Failed', state' = state \/ state' \notin {RDMA_WRITE_ADV, RDMA_WRITE_COMPLETE},
             RecvInv'
      PROVE  PingLoopInv'
    <2>1. Quiet("recv")' = Quiet("recv") /\ Quiet("recv2")' = Quiet("recv2")
        BY <1>1, <1>4 DEF Quiet
    <2>2. TurnInv'
        BY <1>0, <1>1, <1>3, <1>4 DEF TurnInv
    <2>3. ReadTurn'
        BY <1>0, <1>1, <1>3, <1>4, <2>1 DEF ReadTurn
    <2>4. WriteTurn'
        BY <1>0, <1>1, <1>3, <1>4, <2>1 DEF WriteTurn
    <2>5. PingInv' /\ KeyInv'
        BY <1>0, <1>1, <1>3, <1>4 DEF PingInv, PongMatchesPing, KeyInv
    <2> QED
        BY <1>2, <1>4, <2>2, <2>3, <2>4, <2>5 DEF PingLoopInv
<1>5. CASE CqEvent \/ PollEmpty
    <2>1. /\ UNCHANGED <<cq, rq, state, lost>> /\ cbpc \notin {"store", "repost"}
          /\ cbpc' \notin {"store", "repost"}
        BY <1>5 DEF CqEvent, PollEmpty
    <2>2. UNCHANGED <<HasRecv, OneRecv>> /\ (GoAhead' <=> GoAhead) /\ (Failed' <=> Failed)
        BY <2>1 DEF HasRecv, OneRecv, GoAhead, Failed
    <2>3. RecvInv'
        BY <1>0, <1>1, <2>1, <2>2 DEF RecvInv
    <2> QED
        BY <1>0, <1>4, <2>1, <2>2, <2>3
<1>6. CASE PollFlush
    <2>1. /\ cq # <<>> /\ cq' = Tail(cq) /\ Head(cq) # "recv" /\ UNCHANGED <<rq, state, lost, cbpc>>
          /\ cbpc = "poll"
        BY <1>6 DEF PollFlush, Polled
    <2>2. OneRecv' /\ (HasRecv' <=> HasRecv)
        BY <1>0, <2>1, GoAheadPolled
    <2>3. (GoAhead' <=> GoAhead) /\ (Failed' <=> Failed)
        BY <2>1, <2>2 DEF GoAhead, Failed
    <2>4. RecvInv'
        BY <1>0, <1>1, <2>1, <2>2, <2>3 DEF RecvInv
    <2> QED
        BY <1>4, <2>1, <2>2, <2>3, <2>4
<1>7. CASE PollError
    <2>1. cbpc = "poll" /\ cbpc' = "idle" /\ Store(ERROR)
        BY <1>7 DEF PollError
    <2>2. Failed' /\ state' \notin {RDMA_WRITE_ADV, RDMA_WRITE_COMPLETE}
        BY <2>1, FailedStays DEF States, RDMA_WRITE_ADV, RDMA_WRITE_COMPLETE, ERROR
    <2>3. OneRecv' /\ (HasRecv' => HasRecv)
        <3>1. CASE cq' = cq
            BY <1>0, <3>1 DEF OneRecv, HasRecv
        <3>2. CASE cq # <<>> /\ cq' = Tail(cq)
            BY <1>0, <3>2, GoAheadPolled
        <3> QED
            BY <1>7, <3>1, <3>2 DEF PollError, Polled
    <2>4. GoAhead' => GoAhead
        BY <2>1, <2>3 DEF GoAhead
    <2>5. TurnInv'
        BY <1>0, <1>1, <1>3, <2>1, <2>3, <2>4 DEF TurnInv
    <2>6. ReadTurn'
        BY <1>0, <1>1, <1>3, <2>2, <2>4 DEF ReadTurn, Quiet
    <2>7. WriteTurn'
        BY <1>0, <1>1, <1>3, <2>2, <2>4 DEF WriteTurn, Quiet
    <2>8. PingInv' /\ KeyInv' /\ RecvInv'
        BY <1>0, <1>1, <2>2 DEF PingInv, PongMatchesPing, KeyInv, RecvInv
    <2> QED
        BY <1>2, <2>5, <2>6, <2>7, <2>8 DEF PingLoopInv
<1>8. CASE PollRecv
    <2>1. /\ cq # <<>> /\ cq' = Tail(cq) /\ Head(cq) = "recv" /\ UNCHANGED <<rq, state, lost>>
          /\ cbpc = "poll" /\ cbpc' = "store"
        BY <1>8 DEF PollRecv, Polled
    <2>2. OneRecv' /\ HasRecv /\ ~ HasRecv'
        BY <1>0, <2>1, GoAheadPolled
    <2>3. GoAhead' /\ GoAhead /\ (Failed' <=> Failed)
        BY <2>1, <2>2 DEF GoAhead, Failed
    <2>4. RecvInv'
        BY <1>0, <1>1, <2>1, <2>2, <2>3 DEF RecvInv
    <2> QED
        BY <1>4, <2>1, <2>2, <2>3, <2>4
<1>9. CASE ClientRecv
    <2>1. cbpc = "store" /\ cbpc' = "repost" /\ Store(new_state) /\ UNCHANGED <<cq, rq>>
        BY <1>9 DEF ClientRecv
    <2>2. (Failed => Failed') /\ new_state \in States
        BY <2>1, FailedStays DEF KType, TypeOK
    <2>3. GoAhead /\ ~ HasRecv /\ ~ HasRecv' /\ ~ GoAhead' /\ OneRecv'
        BY <1>0, <2>1 DEF TurnInv, GoAhead, HasRecv, OneRecv
    <2>4. TurnInv'
        BY <1>0, <1>1, <1>3, <2>3 DEF TurnInv
    <2>5. ReadTurn'
        BY <1>0, <1>1, <1>3, <2>3 DEF ReadTurn, Quiet
    <2>6. WriteTurn'
        BY <1>0, <1>1, <1>3, <2>3 DEF WriteTurn, Quiet
    <2>7. PingInv' /\ KeyInv'
        BY <1>0, <1>1, <1>3, <2>2 DEF PingInv, PongMatchesPing, KeyInv
    <2>8. RecvInv'
        BY <1>0, <1>1, <2>1, <2>2, <2>3 DEF RecvInv
    <2> QED
        BY <1>2, <2>4, <2>5, <2>6, <2>7, <2>8 DEF PingLoopInv
<1>10. CASE Repost
    <2>1. cbpc = "repost" /\ cbpc' \in {"poll", "idle"}
        BY <1>10 DEF Repost
    <2>2. OneRecv' /\ (HasRecv' <=> HasRecv)
        <3>1. CASE cq' = cq
            BY <1>0, <3>1 DEF OneRecv, HasRecv
        <3>2. CASE cq' = cq \o <<"flush">>
            <4>1. /\ <<"flush">> \in Seq({"flush", "error", "recv"})
                  /\ \A i \in 1 .. Len(<<"flush">>) : <<"flush">>[i] # "recv"
                OBVIOUS
            <4> QED
                BY <1>0, <3>2, <4>1, NoGoAhead
        <3> QED
            BY <1>10, <3>1, <3>2 DEF Repost, Complete
    <2>3. GoAhead' <=> GoAhead
        BY <2>1, <2>2 DEF GoAhead
    <2>4. CASE UNCHANGED <<state, lost>> /\ (qps = "up" => rq' = rq + 1)
        <3>1. Failed' <=> Failed
            BY <2>4 DEF Failed
        <3>2. RecvInv'
            BY <1>0, <1>1, <2>1, <2>2, <2>4, <3>1 DEF RecvInv
        <3> QED
            BY <1>4, <2>1, <2>2, <2>3, <2>4, <3>1, <3>2
    <2>5. CASE Store(ERROR)
        <3>1. Failed' /\ state' \notin {RDMA_WRITE_ADV, RDMA_WRITE_COMPLETE}
            BY <2>5, FailedStays DEF States, RDMA_WRITE_ADV, RDMA_WRITE_COMPLETE, ERROR
        <3>2. RecvInv'
            BY <3>1 DEF RecvInv
        <3> QED
            BY <1>4, <2>1, <2>2, <2>3, <3>1, <3>2
    <2> QED
        BY <1>10, <2>4, <2>5 DEF Repost
<1> QED
    BY <1>5, <1>6, <1>7, <1>8, <1>9, <1>10 DEF Callback

(* The oldest request of a queue. *)
LEMMA OldestRequest ==
    ASSUME NEW a, NEW b
    PROVE  /\ Head(<<a>>) = a /\ Tail(<<a>>) = <<>>
           /\ Head(<<a, b>>) = a /\ Tail(<<a, b>>) = <<b>>
OBVIOUS

(* The device executes the oldest request: a registration, after which the *)
(* advertisement is valid, or the send of it.                              *)
LEMMA ExecuteKeeps ==
    ASSUME KType, LifeInv, PingLoopInv, Execute
    PROVE  PingLoopInv'
<1> USE DEF doitVars, stateVars, qpVars, cqVars, pingVars, cbVars, netVars
<1>0. UpOnceInv /\ TurnInv /\ ReadTurn /\ WriteTurn /\ PingInv /\ KeyInv /\ RecvInv
    BY DEF PingLoopInv
<1>1. /\ UNCHANGED <<pc, res, state, lost, cm, qps, rq, ping, mem, send_buf, cq, notify, cbpc, spc, adv, sdata>>
      /\ qps = "up" /\ sq # <<>> /\ sq' = Tail(sq)
    BY DEF Execute
<1>2. UNCHANGED <<HasRecv, OneRecv, GoAhead, Busy, Advertised, RegAdvertised, Failed>>
    BY <1>1 DEF HasRecv, OneRecv, GoAhead, Busy, Advertised, RegAdvertised, Failed
<1>3. ~ Busy /\ ~ GoAhead /\ net = <<>>
    BY <1>0, <1>1 DEF TurnInv
<1>4. UpOnceInv' /\ PingInv' /\ RecvInv'
    BY <1>0, <1>1, <1>2 DEF UpOnceInv, PingInv, PongMatchesPing, RecvInv
<1>5. CASE sq \in {<<RegAdvertised>>, <<RegAdvertised, Send>>}
    <2>1. /\ Head(sq) = RegAdvertised
          /\ sq = <<RegAdvertised>> => sq' = <<>>
          /\ sq = <<RegAdvertised, Send>> => sq' = <<Send>>
        BY <1>1, <1>5, OldestRequest
    <2>2. mr' = Advertised /\ net' = net
        BY <2>1, Requests DEF Execute, Advertised
    <2>3. TurnInv'
        BY <1>0, <1>1, <1>2, <1>3, <1>5, <2>1, <2>2 DEF TurnInv
    <2>4. ReadTurn'
        BY <1>0, <1>1, <1>2, <1>3, <1>5, <2>1, <2>2, Requests DEF ReadTurn, Quiet
    <2>5. WriteTurn'
        BY <1>0, <1>1, <1>2, <1>3, <1>5, <2>1, <2>2, Requests DEF WriteTurn, Quiet
    <2>6. KeyInv'
        BY <1>1, <1>2, <1>3, <2>2 DEF KeyInv, Busy
    <2> QED
        BY <1>4, <2>3, <2>4, <2>5, <2>6 DEF PingLoopInv
<1>6. CASE sq = <<Send>>
    <2>1. Head(sq) = Send /\ sq' = <<>>
        BY <1>1, <1>6
    <2>2. mr' = mr /\ net' = <<send_buf>>
        BY <1>3, <2>1, Requests DEF Execute, KType, MoreTypes
    <2>3. pc \notin Before \cup {"ping", "format_read", "post_read", "format_write", "post_write"}
        BY <1>0, <1>6, Requests DEF ReadTurn, WriteTurn
    <2>4. TurnInv'
        BY <1>0, <1>1, <1>2, <1>3, <2>1, <2>2 DEF TurnInv
    <2>5. ReadTurn'
        BY <1>0, <1>1, <1>2, <1>3, <1>6, <2>1, <2>2, <2>3 DEF ReadTurn
    <2>6. WriteTurn'
        BY <1>0, <1>1, <1>2, <1>3, <1>6, <2>1, <2>2, <2>3 DEF WriteTurn
    <2>7. KeyInv'
        BY <1>0, <1>1, <1>2, <1>3, <1>6, <2>1, <2>2, <2>3 DEF KeyInv, Busy
    <2> QED
        BY <1>4, <2>4, <2>5, <2>6, <2>7 DEF PingLoopInv
<1> QED
    BY <1>0, <1>1, <1>5, <1>6 DEF TurnInv

(* The server takes the advertisement, which is the one in send_buf. *)
LEMMA ServerRecvKeeps ==
    ASSUME KType, LifeInv, PingLoopInv, ServerRecv
    PROVE  PingLoopInv'
<1> USE DEF doitVars, stateVars, qpVars, cqVars, pingVars, cbVars, netVars
<1>0. UpOnceInv /\ TurnInv /\ ReadTurn /\ WriteTurn /\ PingInv /\ KeyInv /\ RecvInv
    BY DEF PingLoopInv
<1>1. /\ UNCHANGED <<pc, res, state, lost, cm, qps, sq, rq, ping, mem, send_buf, mr, cq, notify, cbpc, sdata>>
      /\ qps = "up" /\ net # <<>>
      /\ (spc = "recv" /\ spc' = "read") \/ (spc = "recv2" /\ spc' = "write")
    BY DEF ServerRecv, Server
<1>2. UNCHANGED <<HasRecv, OneRecv, GoAhead, Advertised, RegAdvertised, Failed>>
    BY <1>1 DEF HasRecv, OneRecv, GoAhead, Advertised, RegAdvertised, Failed
<1>3. sq = <<>> /\ net = <<send_buf>> /\ ~ GoAhead
    BY <1>0, <1>1 DEF TurnInv
<1>4. net' = <<>> /\ adv' = Advertised
    BY <1>1, <1>3 DEF ServerRecv, Advertised
<1>5. pc \notin Before \cup {"ping", "format_read", "post_read", "format_write", "post_write"}
    BY <1>0, <1>1 DEF ReadTurn, WriteTurn, Quiet
<1>6. UpOnceInv' /\ PingInv' /\ RecvInv'
    BY <1>0, <1>1, <1>2 DEF UpOnceInv, PingInv, PongMatchesPing, RecvInv
<1>7. TurnInv'
    BY <1>0, <1>1, <1>2, <1>3, <1>4 DEF TurnInv
<1>8. ReadTurn'
    BY <1>0, <1>1, <1>2, <1>3, <1>4, <1>5 DEF ReadTurn, Advertised
<1>9. WriteTurn'
    BY <1>0, <1>1, <1>2, <1>3, <1>4, <1>5 DEF WriteTurn, Advertised
<1>10. KeyInv'
    BY <1>0, <1>1, <1>2, <1>3, <1>4, <1>5, Requests DEF KeyInv
<1> QED
    BY <1>6, <1>7, <1>8, <1>9, <1>10 DEF PingLoopInv

(* The server reads or writes through the key it was told, or the          *)
(* connection breaks.                                                      *)
LEMMA ServerRdmaKeeps ==
    ASSUME KType, LifeInv, PingLoopInv, ServerRead \/ ServerWrite
    PROVE  PingLoopInv'
<1> USE DEF doitVars, stateVars, qpVars, cqVars, pingVars, cbVars, netVars
<1>0. UpOnceInv /\ TurnInv /\ OneRecv /\ ReadTurn /\ WriteTurn /\ PingInv /\ KeyInv /\ RecvInv
    BY DEF PingLoopInv, TurnInv
<1>1. /\ UNCHANGED <<pc, res, state, lost, cm, ping, send_buf, mr, cbpc, net, adv>>
      /\ qps = "up" /\ spc \in {"read", "write"}
    BY DEF ServerRead, ServerWrite, Server
<1>2. Busy /\ sq = <<>> /\ net = <<>> /\ ~ GoAhead
    BY <1>0, <1>1 DEF TurnInv, Busy
<1>3. pc \notin Before \cup {"ping", "format_read", "post_read", "format_write", "post_write"}
    BY <1>0, <1>1 DEF ReadTurn, WriteTurn, Quiet
<1>4. CASE adv # mr
    <2>1. GoDown /\ UNCHANGED <<mem, sdata>>
        BY <1>4 DEF ServerRead, ServerWrite
    <2>2. qps' = "down" /\ sq' = <<>> /\ OneRecv' /\ (HasRecv' => HasRecv)
        BY <1>0, <2>1, GoDownEffect
    <2>3. UpOnceInv'
        BY <1>0, <1>1, <2>2 DEF UpOnceInv
    <2> QED
        BY <1>0, <1>1, <2>1, <2>2, <2>3, DownKeeps
<1>5. CASE adv = mr
    <2>1. UNCHANGED <<qps, sq, rq, cq, notify>>
        BY <1>5 DEF ServerRead, ServerWrite
    <2>2. UNCHANGED <<HasRecv, OneRecv, GoAhead, Advertised, RegAdvertised, Failed>>
        BY <1>1, <2>1 DEF HasRecv, OneRecv, GoAhead, Advertised, RegAdvertised, Failed
    <2>3. UpOnceInv' /\ RecvInv'
        BY <1>0, <1>1, <2>1, <2>2 DEF UpOnceInv, RecvInv
    <2>4. CASE ServerRead
        <3>1. spc = "read" /\ spc' = "ack" /\ sdata' = mem[adv.buf] /\ mem' = mem
            BY <1>5, <2>4 DEF ServerRead, Server
        <3>2. pc # "wait_write"
            BY <1>0, <1>1, <3>1 DEF WriteTurn
        <3>3. TurnInv'
            BY <1>0, <1>1, <1>2, <2>1, <2>2 DEF TurnInv
        <3>4. ReadTurn'
            BY <1>0, <1>1, <1>2, <1>3, <2>1, <2>2, <3>1 DEF ReadTurn, PingInv, Pinging
        <3>5. WriteTurn'
            BY <1>1, <1>3, <3>2 DEF WriteTurn
        <3>6. PingInv'
            BY <1>0, <1>1, <3>1 DEF PingInv, PongMatchesPing
        <3>7. KeyInv'
            BY <1>1, <1>2, <1>3, <2>1, <3>1, Requests DEF KeyInv
        <3> QED
            BY <2>3, <3>3, <3>4, <3>5, <3>6, <3>7 DEF PingLoopInv
    <2>5. CASE ServerWrite
        <3>1. /\ spc = "write" /\ spc' = "ack2" /\ sdata' = sdata
              /\ mem' = [mem EXCEPT ![adv.buf] = sdata]
            BY <1>5, <2>5 DEF ServerWrite, Server
        <3>2. pc # "wait_read"
            BY <1>0, <1>1, <3>1 DEF ReadTurn
        <3>3. pc = "wait_write" => mem'["rdma"] = ping /\ mem'["start"] = mem["start"]
            <4>1. mem \in [{"start", "rdma"} -> Nat \cup {NoData}]
                BY DEF KType, TypeOK, Buffers
            <4> QED
                BY <1>0, <1>1, <3>1, <4>1 DEF WriteTurn
        <3>4. TurnInv'
            BY <1>0, <1>1, <1>2, <2>1, <2>2 DEF TurnInv
        <3>5. ReadTurn'
            BY <1>1, <1>3, <3>2 DEF ReadTurn
        <3>6. WriteTurn'
            BY <1>0, <1>1, <1>2, <1>3, <2>1, <2>2, <3>1, <3>3 DEF WriteTurn
        <3>7. PingInv'
            BY <1>0, <1>1, <1>3, <3>2, <3>3 DEF PingInv, PongMatchesPing, Pinging
        <3>8. KeyInv'
            BY <1>1, <1>2, <1>3, <2>1, <3>1, Requests DEF KeyInv
        <3> QED
            BY <2>3, <3>4, <3>5, <3>6, <3>7, <3>8 DEF PingLoopInv
    <2> QED
        BY <2>4, <2>5
<1> QED
    BY <1>4, <1>5

(* The server's go-ahead takes the posted receive, or the connection       *)
(* breaks.                                                                 *)
LEMMA ServerGoAheadKeeps ==
    ASSUME KType, LifeInv, PingLoopInv, ServerGoAhead
    PROVE  PingLoopInv'
<1> USE DEF doitVars, stateVars, pingVars, cbVars, netVars
<1>0. UpOnceInv /\ TurnInv /\ OneRecv /\ ReadTurn /\ WriteTurn /\ PingInv /\ KeyInv /\ RecvInv /\ rq \in Nat
    BY DEF PingLoopInv, TurnInv, KType, TypeOK
<1>1. /\ UNCHANGED <<pc, res, state, lost, cm, ping, send_buf, mr, cbpc, net, adv, mem, sdata>>
      /\ \/ spc = "ack" /\ spc' = "recv2"
         \/ spc = "ack2" /\ spc' = "recv"
    BY DEF ServerGoAhead, Server
<1>2. qps = "up" /\ (spc = "ack" \/ spc = "ack2")
    BY DEF ServerGoAhead, Server
<1>3. Busy /\ sq = <<>> /\ net = <<>> /\ ~ GoAhead /\ ~ HasRecv /\ cbpc # "store"
    BY <1>0, <1>2 DEF TurnInv, Busy, GoAhead
<1>4. pc \notin Before \cup {"ping", "format_read", "post_read", "format_write", "post_write"}
    BY <1>0, <1>2 DEF ReadTurn, WriteTurn, Quiet
<1>5. CASE ~ (rq > 0)
    <2>1. GoDown
        BY <1>5 DEF ServerGoAhead
    <2>2. qps' = "down" /\ sq' = <<>> /\ OneRecv' /\ (HasRecv' => HasRecv)
        BY <1>0, <2>1, GoDownEffect
    <2>3. UpOnceInv'
        BY <1>0, <1>1, <1>2, <2>2 DEF UpOnceInv
    <2> QED
        BY <1>0, <1>1, <2>2, <2>3, DownKeeps
<1>6. CASE rq > 0
    <2>1. UNCHANGED <<qps, sq>> /\ rq' = rq - 1 /\ cq' = cq \o <<"recv">>
        BY <1>6 DEF ServerGoAhead, Complete
    <2>2. HasRecv' /\ OneRecv' /\ GoAhead'
        BY <1>3, <2>1, GoAheadArrives DEF GoAhead
    <2>3. UNCHANGED <<Advertised, RegAdvertised, Failed>> /\ ~ Busy'
        BY <1>1, <1>2 DEF Advertised, RegAdvertised, Failed, Busy
    <2>4. UpOnceInv'
        BY <1>0, <1>1, <1>2, <2>1 DEF UpOnceInv
    <2>5. TurnInv'
        BY <1>0, <1>1, <1>2, <1>3, <2>1, <2>2, <2>3 DEF TurnInv
    <2>6. ReadTurn'
        BY <1>0, <1>1, <1>2, <1>3, <1>4, <2>1, <2>2, <2>3 DEF ReadTurn
    <2>7. WriteTurn'
        BY <1>0, <1>1, <1>2, <1>3, <1>4, <2>1, <2>2, <2>3 DEF WriteTurn
    <2>8. PingInv'
        BY <1>0, <1>1 DEF PingInv, PongMatchesPing
    <2>9. KeyInv'
        BY <1>1, <1>2, <1>3, <1>4, <2>1, Requests DEF KeyInv
    <2>10. RecvInv'
        BY <1>0, <1>1, <1>2, <1>3, <1>6, <2>1, <2>2, <2>3 DEF RecvInv
    <2> QED
        BY <2>4, <2>5, <2>6, <2>7, <2>8, <2>9, <2>10 DEF PingLoopInv
<1> QED
    BY <1>5, <1>6

(* The peer leaves, or a reader reads. *)
LEMMA PeerGoneKeeps ==
    ASSUME KType, LifeInv, PingLoopInv, PeerGone \/ ReadProc
    PROVE  PingLoopInv'
<1> USE DEF doitVars, stateVars, pingVars, cbVars, srvVars
<1>0. UpOnceInv /\ TurnInv /\ OneRecv
    BY DEF PingLoopInv, TurnInv
<1>1. CASE PeerGone
    <2>1. UNCHANGED <<pc, res, state, cm, ping, mem, send_buf, sdata, cbpc>> /\ qps = "up"
        BY <1>1 DEF PeerGone, netVars
    <2>2. qps' = "down" /\ sq' = <<>> /\ OneRecv' /\ (HasRecv' => HasRecv)
        <3>1. CASE GoDown
            BY <1>0, <3>1, GoDownEffect
        <3>2. CASE qps' = "down" /\ sq' = <<>> /\ Complete(<<"error", "flush">>)
            <4>1. /\ <<"error", "flush">> \in Seq({"flush", "error", "recv"})
                  /\ \A i \in 1 .. Len(<<"error", "flush">>) : <<"error", "flush">>[i] # "recv"
                OBVIOUS
            <4> QED
                BY <1>0, <3>2, <4>1, NoGoAhead DEF Complete
        <3> QED
            BY <1>1, <3>1, <3>2 DEF PeerGone
    <2>3. UpOnceInv'
        BY <1>0, <2>1, <2>2 DEF UpOnceInv
    <2> QED
        BY <2>1, <2>2, <2>3, DownKeeps
<1>2. CASE ReadProc
    <2>1. UNCHANGED <<pc, res, state, lost, cm, qps, ping, mem, send_buf, sq, mr, rq, cq, notify, cbpc,
                      spc, net, adv, sdata>>
        BY <1>2 DEF ReadProc, qpVars, cqVars
    <2>2. UpOnceInv' /\ (Failed => Failed')
        BY <1>0, <2>1 DEF UpOnceInv, Failed
    <2> QED
        BY <2>1, <2>2, StoreKeeps
<1> QED
    BY <1>1, <1>2

(* The writer neither brings the queue pair up, nor goes on to the pings   *)
(* before it is.                                                           *)
LEMMA WriterUpOnce ==
    ASSUME KType, LifeInv, PingLoopInv, Writer \/ GetOpt \/ Signal
    PROVE  UpOnceInv'
<1> USE DEF quiet, doitVars, stateVars, pingVars, qpVars, cqVars, cbVars, srvVars, pingUnchanged, At
<1>0. UpOnceInv /\ qps \in {"init", "up", "down"} /\ notify \in {"armed", "raised", "off"}
    BY DEF PingLoopInv, KType, TypeOK
<1>1. CASE WriteProc \/ GetOpt \/ EndOfOptions \/ RouteWaited \/ ConnWaited
    BY <1>0, <1>1 DEF WriteProc, GetOpt, EndOfOptions, RouteWaited, ConnWaited, UpOnceInv,
                      Unconnected, Nothing, Opening, Pinging
<1>2. CASE Doit \/ CreateId \/ AllocPd \/ SetupBuffers \/ FreeBuffers \/ DestroyCq \/ DestroyId \/ KfreeCb
    <2>1. UNCHANGED <<cm, qps, sq, rq, cq, notify, cbpc, net, spc>> /\ res'["qp"] = res["qp"]
        BY <1>2 DEF Doit, CreateId, AllocPd, SetupBuffers, FreeBuffers, DestroyCq, DestroyId,
                    KfreeCb, Set, Resources
    <2>2. /\ pc' \in Unconnected => pc \in Unconnected
          /\ pc' # "connect" /\ pc' \notin Pinging
        BY <1>2 DEF Doit, CreateId, AllocPd, SetupBuffers, FreeBuffers, DestroyCq, DestroyId,
                    KfreeCb, Unconnected, Nothing, Opening, Pinging
    <2> QED
        BY <1>0, <2>1, <2>2 DEF UpOnceInv
<1>3. CASE ResolveAddr \/ PostRecv \/ Connect
    <2>1. /\ UNCHANGED <<res, qps, sq, cq, notify, cbpc, net, spc>>
          /\ pc' \notin Pinging
          /\ pc \in Unconnected
        BY <1>3 DEF ResolveAddr, PostRecv, Connect, Unconnected, Nothing, Opening, Pinging
    <2>2. /\ qps # "up"
          /\ qps = "down" => cm = "failed" \/ res["qp"] = "freed"
        BY <1>0, <2>1 DEF UpOnceInv
    <2>3. CASE ResolveAddr
        <3>1. qps = "init"
            BY <1>0, <2>2, <2>3 DEF ResolveAddr, LifeInv, Opening, UpOnceInv
        <3> QED
            BY <1>0, <2>1, <2>3, <3>1 DEF ResolveAddr, UpOnceInv, Unconnected
    <2>4. CASE PostRecv
        BY <1>0, <2>1, <2>2, <2>4 DEF PostRecv, UpOnceInv, Unconnected
    <2>5. CASE Connect
        BY <1>0, <2>1, <2>2, <2>5 DEF Connect, UpOnceInv, Unconnected, Nothing, Opening
    <2> QED
        BY <1>3, <2>3, <2>4, <2>5
<1>4. CASE CreateQp
    <2>1. pc = "create_qp" /\ res["qp"] = "none" /\ qps = "init"
        BY <1>0, <1>4 DEF CreateQp, LifeInv, Opening, UpOnceInv
    <2>2. UNCHANGED <<cm, qps, sq, rq, cq, cbpc, net, spc>> /\ notify' # "raised"
        BY <1>0, <1>4, <2>1 DEF CreateQp, UpOnceInv
    <2>3. pc' \in {"setup_buffers", "destroy_id"} /\ pc \in Unconnected
        BY <1>4 DEF CreateQp, Unconnected, Opening
    <2> QED
        BY <1>0, <2>1, <2>2, <2>3 DEF UpOnceInv, Pinging
<1>5. CASE Ping \/ EndOfLoop \/ ReadWaited \/ WriteWaited \/ ListDel
    BY <1>0, <1>5 DEF Ping, EndOfLoop, ReadWaited, WriteWaited, ListDel, UpOnceInv,
                      Unconnected, Nothing, Opening, Pinging
<1>6. CASE FormatRead \/ FormatWrite \/ PostRead \/ PostWrite
    <2>1. /\ UNCHANGED <<res, cm, qps, rq, net, spc, cbpc>>
          /\ pc' \notin Unconnected
          /\ qps = "init" => pc' \notin Pinging /\ UNCHANGED <<sq, cq, notify>>
          /\ qps = "down" => UNCHANGED sq
        <3>1. CASE PostRead \/ PostWrite
            BY <3>1 DEF PostRead, PostWrite, PostAdv, Posted, NotPosted, Unconnected, Nothing, Opening,
                        Pinging
        <3>2. CASE FormatRead
            BY <3>2 DEF FormatRead, FormatSend, Posted, NotPosted, Store, Unconnected, Nothing,
                        Opening, Pinging
        <3>3. CASE FormatWrite
            BY <1>0, <3>3 DEF FormatWrite, FormatSend, Posted, NotPosted, Unconnected, Nothing,
                        Opening, Pinging, UpOnceInv
        <3> QED
            BY <1>6, <3>1, <3>2, <3>3
    <2> QED
        BY <1>0, <2>1 DEF UpOnceInv, Unconnected
<1>7. CASE Disconnect
    <2>1. UNCHANGED <<res, cm, net, spc, cbpc>> /\ pc' = "free_buffers"
        BY <1>7 DEF Disconnect
    <2>2. \/ qps = "up" /\ qps' = "down" /\ sq' = <<>>
          \/ UNCHANGED <<qps, sq, rq, cq, notify>>
        BY <1>7 DEF Disconnect, GoDown
    <2> QED
        BY <1>0, <2>1, <2>2 DEF UpOnceInv, Unconnected, Nothing, Opening, Pinging
<1>8. CASE DestroyQp
    <2>1. /\ UNCHANGED cm /\ pc' = "destroy_cq" /\ qps' = "down" /\ sq' = <<>>
          /\ res'["qp"] = "freed"
        BY <1>8 DEF DestroyQp, Set, Resources
    <2> QED
        BY <2>1 DEF UpOnceInv, Unconnected, Nothing, Opening
<1> QED
    BY <1>1, <1>2, <1>3, <1>4, <1>5, <1>6, <1>7, <1>8, WriterSteps

(* Where the writer is does not matter to the turns of the others. *)
LEMMA MoveKeeps ==
    ASSUME PingLoopInv, Failed => Failed', rq' = rq \/ qps # "up",
           UNCHANGED <<qps, send_buf, sq, mr, cq, cbpc, spc, net, adv>>,
           pc' \notin {"post_read", "post_write"}
    PROVE  /\ TurnInv' /\ KeyInv' /\ RecvInv'
           /\ UNCHANGED <<HasRecv, OneRecv, GoAhead, Busy, Advertised, RegAdvertised>>
<1>1. UNCHANGED <<HasRecv, OneRecv, GoAhead, Busy, Advertised, RegAdvertised>>
    BY DEF HasRecv, OneRecv, GoAhead, Busy, Advertised, RegAdvertised
<1>2. TurnInv'
    BY <1>1 DEF PingLoopInv, TurnInv
<1>3. KeyInv' /\ RecvInv'
    BY <1>1 DEF PingLoopInv, KeyInv, RecvInv
<1> QED
    BY <1>1, <1>2, <1>3

(* Before the first ping there is nothing to keep. *)
LEMMA BeforeKeeps ==
    ASSUME PingLoopInv, UpOnceInv', Failed => Failed', rq' = rq \/ qps # "up",
           UNCHANGED <<qps, ping, send_buf, sq, mr, cq, cbpc, spc, net, adv>>,
           pc \in Before, pc' \in Before \cup {"ping"}
    PROVE  PingLoopInv'
<1>1. pc' \notin Pinging \cup {"format_read"}
    BY DEF Before, Unconnected, Nothing, Opening, Pinging
<1>2. /\ TurnInv' /\ KeyInv' /\ RecvInv'
      /\ UNCHANGED <<HasRecv, OneRecv, GoAhead, Busy, Advertised, RegAdvertised>>
    BY <1>1, MoveKeeps DEF Pinging
<1>3. Quiet("recv")' /\ sq' = <<>>
    BY <1>2 DEF PingLoopInv, ReadTurn, Quiet
<1>4. ReadTurn' /\ WriteTurn'
    BY <1>1, <1>3 DEF ReadTurn, WriteTurn, Pinging
<1>5. PingInv'
    BY <1>1 DEF PingLoopInv, PingInv, PongMatchesPing
<1> QED
    BY <1>2, <1>4, <1>5 DEF PingLoopInv

(* Nor when the loop is over. *)
LEMMA LeaveKeeps ==
    ASSUME PingLoopInv, UpOnceInv', Failed => Failed', rq' = rq \/ qps # "up",
           UNCHANGED <<qps, send_buf, sq, mr, cq, cbpc, spc, net, adv>>,
           pc' \in Leaving
    PROVE  PingLoopInv'
<1>1. pc' \notin Before \cup Pinging \cup {"ping", "format_read"}
    BY DEF Leaving, Closing, Before, Unconnected, Nothing, Opening, Pinging
<1>2. TurnInv' /\ KeyInv' /\ RecvInv'
    BY <1>1, MoveKeeps DEF Pinging
<1>3. ReadTurn' /\ WriteTurn' /\ PingInv'
    BY <1>1 DEF ReadTurn, WriteTurn, PingInv, PongMatchesPing, Pinging
<1> QED
    BY <1>2, <1>3 DEF PingLoopInv

(* The head of the loop: a new ping, and the go-ahead of the last one has  *)
(* been stored before.                                                     *)
LEMMA PingKeeps ==
    ASSUME KType, PingLoopInv, UpOnceInv', Ping
    PROVE  PingLoopInv'
<1> USE DEF doitVars, qpVars, cqVars, pingVars, cbVars, srvVars, pingUnchanged, At
<1>0. ReadTurn /\ TurnInv
    BY DEF PingLoopInv
<1>1. /\ UNCHANGED <<qps, ping, send_buf, sq, mr, rq, cq, cbpc, spc, net, adv>>
      /\ pc = "ping" /\ pc' = "format_read"
      /\ Store(RDMA_READ_ADV)
      /\ mem' = [mem EXCEPT !["start"] = ping]
    BY DEF Ping
<1>2. (Failed => Failed') /\ state' = RDMA_READ_ADV
    BY <1>1, FailedStays DEF States
<1>3. /\ TurnInv' /\ KeyInv' /\ RecvInv'
      /\ UNCHANGED <<HasRecv, OneRecv, GoAhead, Busy, Advertised, RegAdvertised>>
    BY <1>1, <1>2, MoveKeeps
<1>4. Quiet("recv")' /\ sq' = <<>>
    BY <1>0, <1>1, <1>3 DEF ReadTurn, Quiet
<1>5. ReadTurn' /\ WriteTurn'
    BY <1>1, <1>2, <1>4 DEF ReadTurn, WriteTurn, RDMA_READ_ADV, RDMA_WRITE_ADV
<1>6. mem'["start"] = ping
    BY <1>1 DEF KType, TypeOK, Buffers
<1>7. PingInv'
    BY <1>1, <1>6 DEF PingInv, PongMatchesPing, Before, Unconnected, Nothing, Opening
<1> QED
    BY <1>3, <1>5, <1>7 DEF PingLoopInv

(* The requests of a post: queued, flushed or refused.  It adds no         *)
(* go-ahead.                                                               *)
LEMMA PostEffect ==
    ASSUME KType, OneRecv, NEW wr, Posted(wr) \/ NotPosted
    PROVE  /\ OneRecv' /\ (HasRecv' <=> HasRecv)
           /\ Posted(wr) /\ qps = "up" => sq' = Append(sq, wr)
           /\ qps # "up" => sq' = sq
           /\ NotPosted => sq' = sq
<1> USE DEF cqVars
<1>1. /\ <<"flush">> \in Seq({"flush", "error", "recv"})
      /\ \A i \in 1 .. Len(<<"flush">>) : <<"flush">>[i] # "recv"
    OBVIOUS
<1>2. ASSUME cq' = cq \o <<"flush">>
      PROVE  OneRecv' /\ (HasRecv' <=> HasRecv)
    BY <1>1, <1>2, NoGoAhead
<1>3. ASSUME cq' = cq
      PROVE  OneRecv' /\ (HasRecv' <=> HasRecv)
    BY <1>3 DEF HasRecv, OneRecv
<1>4. cq' = cq \/ cq' = cq \o <<"flush">>
    BY DEF Posted, NotPosted, Complete
<1>5. /\ qps # "up" => sq' = sq
      /\ NotPosted => sq' = sq
    BY DEF Posted, NotPosted
<1>6. Posted(wr) /\ qps = "up" => sq' = Append(sq, wr)
    BY DEF Posted
<1> QED
    BY <1>2, <1>3, <1>4, <1>5, <1>6

(* A new key and its registration, in the writer's turn. *)
LEMMA FormatKeeps ==
    ASSUME KType, PingLoopInv, UpOnceInv', NEW buf \in Buffers, FormatSend(buf), sq = <<>>,
           ~ GoAhead, qps = "up" => spc \in {"recv", "recv2"} /\ net = <<>>
    PROVE  /\ TurnInv' /\ KeyInv' /\ RecvInv'
           /\ ~ GoAhead' /\ UNCHANGED <<qps, net, spc>>
           /\ sq' \in {<<>>, <<RegAdvertised'>>}
           /\ send_buf'.buf = buf
           /\ state' = state \/ state' = ERROR
<1> USE DEF doitVars, stateVars, cbVars, srvVars, pingUnchanged
<1> DEFINE wr == [op |-> "reg", buf |-> buf, rkey |-> key']
<1>1. UNCHANGED <<qps, net, spc, adv, mr, cbpc, rq>>
    BY DEF FormatSend
<1>2. send_buf'.buf = buf /\ RegAdvertised' = wr
    BY DEF FormatSend, Advertise, htonl, ntohl, RegAdvertised
<1>3. \/ Posted(wr) /\ UNCHANGED <<state, lost>>
      \/ NotPosted /\ Store(ERROR)
    BY DEF FormatSend
<1>4. OneRecv /\ ~ HasRecv /\ cbpc # "store"
    BY DEF PingLoopInv, TurnInv, GoAhead
<1> HIDE DEF wr
<1>5. /\ OneRecv' /\ ~ HasRecv'
      /\ Posted(wr) /\ qps = "up" => sq' = <<wr>>
      /\ qps # "up" => sq' = <<>>
      /\ NotPosted => sq' = <<>>
    <2>1. Append(<<>>, wr) = <<wr>>
        OBVIOUS
    <2> QED
        BY <1>3, <1>4, <2>1, PostEffect
<1>6. ~ GoAhead' /\ (qps = "up" => ~ Busy')
    BY <1>1, <1>4, <1>5 DEF GoAhead, Busy
<1>7. sq' \in {<<>>, <<RegAdvertised'>>}
    BY <1>2, <1>3, <1>5
<1>8. /\ state' = state \/ state' = ERROR
      /\ Failed => Failed'
      /\ NotPosted /\ Store(ERROR) => Failed'
    BY <1>3, FailedStays DEF States, Failed
<1>9. TurnInv'
    BY <1>1, <1>5, <1>6, <1>7 DEF TurnInv
<1>10. KeyInv'
    <2> SUFFICES ASSUME qps' = "up", ~ Failed'
                 PROVE  sq' = <<wr>> /\ sq' # <<>> /\ sq' # <<Send>> /\ net' = <<>> /\ spc' \notin {"read", "write"}
        BY DEF KeyInv
    <2>1. sq' = <<wr>>
        BY <1>1, <1>3, <1>5, <1>8
    <2>2. wr # Send
        BY DEF wr, Send
    <2> QED
        BY <1>1, <2>1, <2>2
<1>11. RecvInv'
    BY <1>1, <1>4, <1>5, <1>8 DEF RecvInv, PingLoopInv
<1> QED
    BY <1>1, <1>2, <1>6, <1>7, <1>8, <1>9, <1>10, <1>11

(* krping_format_send, for the source and for the sink. *)
LEMMA FormatBothKeep ==
    ASSUME KType, PingLoopInv, UpOnceInv', FormatRead \/ FormatWrite
    PROVE  PingLoopInv'
<1> USE DEF At
<1>0. ReadTurn /\ WriteTurn /\ PingInv
    BY DEF PingLoopInv
<1>1. UNCHANGED <<ping, mem, sdata>>
    BY DEF FormatRead, FormatWrite, FormatSend, pingUnchanged, srvVars
<1>2. CASE FormatRead
    <2>1. /\ FormatSend("start") /\ pc = "format_read" /\ "start" \in Buffers
          /\ pc' \in {"post_read", "disconnect"}
        BY <1>2 DEF FormatRead, Buffers
    <2>2. Quiet("recv") /\ sq = <<>> /\ state # RDMA_WRITE_ADV
        BY <1>0, <2>1 DEF ReadTurn
    <2>3. ~ GoAhead /\ (qps = "up" => spc = "recv" /\ net = <<>>)
        BY <2>2 DEF Quiet
    <2>4. /\ TurnInv' /\ KeyInv' /\ RecvInv'
          /\ ~ GoAhead' /\ UNCHANGED <<qps, net, spc>>
          /\ sq' \in {<<>>, <<RegAdvertised'>>}
          /\ send_buf'.buf = "start"
          /\ state' = state \/ state' = ERROR
        BY <2>1, <2>2, <2>3, FormatKeeps
    <2>5. ReadTurn' /\ WriteTurn'
        BY <2>1, <2>2, <2>3, <2>4 DEF ReadTurn, WriteTurn, Quiet, Before, Unconnected, Nothing, Opening,
                                      ERROR, RDMA_WRITE_ADV
    <2>6. PingInv'
        BY <1>0, <1>1, <2>1 DEF PingInv, PongMatchesPing, Before, Unconnected, Nothing, Opening, Pinging
    <2> QED
        BY <2>4, <2>5, <2>6 DEF PingLoopInv
<1>3. CASE FormatWrite
    <2>1. /\ FormatSend("rdma") /\ pc = "format_write" /\ "rdma" \in Buffers
          /\ pc' = "post_write"
        BY <1>3 DEF FormatWrite, Buffers
    <2>2. Quiet("recv2") /\ sq = <<>> /\ state # RDMA_WRITE_COMPLETE /\ sdata = ping
        BY <1>0, <2>1 DEF WriteTurn
    <2>3. ~ GoAhead /\ (qps = "up" => spc = "recv2" /\ net = <<>>)
        BY <2>2 DEF Quiet
    <2>4. /\ TurnInv' /\ KeyInv' /\ RecvInv'
          /\ ~ GoAhead' /\ UNCHANGED <<qps, net, spc>>
          /\ sq' \in {<<>>, <<RegAdvertised'>>}
          /\ send_buf'.buf = "rdma"
          /\ state' = state \/ state' = ERROR
        BY <2>1, <2>2, <2>3, FormatKeeps
    <2>5. ReadTurn' /\ WriteTurn'
        BY <1>1, <2>1, <2>2, <2>3, <2>4 DEF ReadTurn, WriteTurn, Quiet, Before, Unconnected, Nothing,
                                            Opening, ERROR, RDMA_WRITE_COMPLETE
    <2>6. PingInv'
        BY <1>0, <1>1, <2>1 DEF PingInv, PongMatchesPing, Before, Unconnected, Nothing, Opening, Pinging
    <2> QED
        BY <2>4, <2>5, <2>6 DEF PingLoopInv
<1> QED
    BY <1>2, <1>3

(* A request added to a queue. *)
LEMMA RequestAdded ==
    ASSUME NEW a, NEW b
    PROVE  /\ Append(<<>>, b) = <<b>> /\ Append(<<a>>, b) = <<a, b>>
           /\ <<a, b>> # <<a>> /\ <<a, b>> # <<b>> /\ <<a>> # <<>> /\ <<a, b>> # <<>>
           /\ a # b => <<a>> # <<b>>
<1>1. Append(<<>>, b) = <<b>> /\ Append(<<a>>, b) = <<a, b>>
    <2> DEFINE S == {a, b}
    <2>1. a \in S /\ b \in S
        OBVIOUS
    <2> HIDE DEF S
    <2>2. Append(<<>>, b) = <<b>>
        BY <2>1
    <2>3. <<a>> \in Seq(S) /\ <<a, b>> \in Seq(S) /\ Append(<<a>>, b) \in Seq(S)
        BY <2>1
    <2>4. /\ Len(Append(<<a>>, b)) = 2 /\ Len(<<a, b>>) = 2
          /\ Append(<<a>>, b)[1] = a /\ Append(<<a>>, b)[2] = b
          /\ <<a, b>>[1] = a /\ <<a, b>>[2] = b
        BY <2>1, <2>3
    <2> DEFINE s == Append(<<a>>, b)
               t == <<a, b>>
    <2>5. s = t
        <3>1. s \in Seq(S) /\ t \in Seq(S) /\ Len(s) = Len(t) /\ \A i \in 1 .. Len(s) : s[i] = t[i]
            BY <2>3, <2>4
        <3> HIDE DEF s, t
        <3> QED
            BY <3>1
    <2> QED
        BY <2>2, <2>5
<1>2. Len(<<>>) = 0 /\ Len(<<a>>) = 1 /\ Len(<<b>>) = 1 /\ Len(<<a, b>>) = 2
    OBVIOUS
<1>3. <<a>>[1] = a /\ <<b>>[1] = b
    OBVIOUS
<1>4. /\ <<a, b>> # <<a>> /\ <<a, b>> # <<b>> /\ <<a>> # <<>> /\ <<a, b>> # <<>>
    BY <1>2
<1>5. a # b => <<a>> # <<b>>
    BY <1>3
<1> QED
    BY <1>1, <1>4, <1>5

(* The send of the advertisement gives the turn to the device. *)
LEMMA PostKeeps ==
    ASSUME KType, PingLoopInv, UpOnceInv', PostRead \/ PostWrite
    PROVE  PingLoopInv'
<1> USE DEF At, doitVars, stateVars, pingVars, cbVars, srvVars, pingUnchanged
<1>0. /\ TurnInv /\ OneRecv /\ ReadTurn /\ WriteTurn /\ PingInv /\ KeyInv /\ RecvInv
      /\ UpOnceInv
    BY DEF PingLoopInv, TurnInv
<1>1. /\ UNCHANGED <<state, lost, qps, rq, ping, send_buf, mem, mr, cbpc, spc, net, adv, sdata>>
      /\ \/ pc = "post_read" /\ pc' \in {"wait_read", "disconnect"}
         \/ pc = "post_write" /\ pc' \in {"wait_write", "disconnect"}
    BY DEF PostRead, PostWrite, PostAdv
<1>2. /\ ~ GoAhead /\ sq \in {<<>>, <<RegAdvertised>>}
      /\ qps = "up" => net = <<>> /\ spc = IF pc = "post_read" THEN "recv" ELSE "recv2"
    BY <1>0, <1>1 DEF ReadTurn, WriteTurn, Quiet
<1>3. UNCHANGED <<Busy, Advertised, RegAdvertised, Failed>>
    BY <1>1 DEF Busy, Advertised, RegAdvertised, Failed
<1>4. CASE NotPosted /\ pc' = "disconnect"
    BY <1>1, <1>3, <1>4, LeaveKeeps DEF NotPosted, cqVars, Leaving
<1>5. CASE Posted(Send) /\ pc' # "disconnect"
    <2>1. /\ OneRecv' /\ (HasRecv' <=> HasRecv)
          /\ qps = "up" => sq' = Append(sq, Send)
          /\ qps # "up" => sq' = sq
        BY <1>0, <1>5, PostEffect
    <2>2. ~ GoAhead' /\ ~ HasRecv /\ ~ HasRecv' /\ cbpc # "store"
        BY <1>1, <1>2, <2>1 DEF GoAhead
    <2>3. /\ Append(<<>>, Send) = <<Send>>
          /\ Append(<<RegAdvertised>>, Send) = <<RegAdvertised, Send>>
          /\ <<RegAdvertised, Send>> # <<RegAdvertised>>
          /\ <<RegAdvertised, Send>> # <<Send>>
          /\ <<RegAdvertised>> # <<Send>>
          /\ <<RegAdvertised>> # <<>> /\ <<RegAdvertised, Send>> # <<>>
        BY Requests, RequestAdded
    <2>4. qps = "up" => \/ sq = <<>> /\ sq' = <<Send>>
                        \/ sq # <<>> /\ sq' = <<RegAdvertised, Send>>
        BY <1>2, <2>1, <2>3
    <2>5. TurnInv'
        BY <1>1, <1>2, <1>3, <2>1, <2>2, <2>4 DEF TurnInv, Busy
    <2>6. qps = "up" => sq' # <<RegAdvertised>> /\ sq' # <<>>
        BY <2>3, <2>4
    <2>7. ReadTurn'
        BY <1>0, <1>1, <1>2, <1>3, <1>5, <2>2, <2>6 DEF ReadTurn, Before, Unconnected, Nothing, Opening
    <2>8. WriteTurn'
        BY <1>0, <1>1, <1>2, <1>3, <1>5, <2>2, <2>6 DEF WriteTurn
    <2>9. PingInv'
        BY <1>0, <1>1, <1>5 DEF PingInv, PongMatchesPing, Before, Unconnected, Nothing, Opening, Pinging
    <2>10. KeyInv'
        BY <1>0, <1>1, <1>2, <1>3, <1>5, <2>3, <2>4 DEF KeyInv
    <2>11. RecvInv'
        BY <1>0, <1>1, <1>3, <2>2 DEF RecvInv
    <2> QED
        BY <2>5, <2>7, <2>8, <2>9, <2>10, <2>11 DEF PingLoopInv
<1> QED
    BY <1>1, <1>4, <1>5 DEF PostRead, PostWrite, PostAdv, Send

(* The writer goes on when the state says that the data of this ping has   *)
(* been read, or written.                                                  *)
LEMMA WaitKeeps ==
    ASSUME KType, PingLoopInv, UpOnceInv', ReadWaited \/ WriteWaited
    PROVE  PingLoopInv'
<1> USE DEF At, doitVars, stateVars, qpVars, cqVars, pingVars, cbVars, srvVars, pingUnchanged
<1>0. TurnInv /\ ReadTurn /\ WriteTurn /\ PingInv /\ ping \in Nat
    BY DEF PingLoopInv, KType, TypeOK
<1>1. UNCHANGED <<state, lost, qps, rq, send_buf, mem, sq, mr, cq, cbpc, spc, net, adv, sdata>>
    BY DEF ReadWaited, WriteWaited
<1>2. Failed' <=> Failed
    BY <1>1 DEF Failed
<1>3. CASE pc' = "disconnect"
    BY <1>1, <1>2, <1>3, LeaveKeeps DEF Leaving
<1>4. CASE ReadWaited /\ pc' # "disconnect"
    <2>1. /\ pc = "wait_read" /\ pc' = "format_write" /\ state = RDMA_WRITE_ADV /\ ping' = ping
        BY <1>4 DEF ReadWaited
    <2>2. /\ TurnInv' /\ KeyInv' /\ RecvInv'
          /\ UNCHANGED <<HasRecv, OneRecv, GoAhead, Busy, Advertised, RegAdvertised>>
        BY <1>1, <1>2, <2>1, MoveKeeps
    <2>3. ~ GoAhead /\ sdata = ping /\ (qps = "up" => spc = "recv2" /\ sq = <<>> /\ net = <<>>)
        BY <1>0, <2>1 DEF ReadTurn
    <2>4. sq = <<>>
        BY <2>3 DEF PingLoopInv, UpOnceInv
    <2>5. ReadTurn' /\ WriteTurn'
        BY <1>1, <2>1, <2>2, <2>3, <2>4 DEF ReadTurn, WriteTurn, Quiet, Before, Unconnected, Nothing,
                                            Opening, RDMA_WRITE_ADV, RDMA_WRITE_COMPLETE
    <2>6. PingInv'
        BY <1>0, <1>1, <2>1 DEF PingInv, PongMatchesPing, Before, Unconnected, Nothing, Opening, Pinging
    <2> QED
        BY <2>2, <2>5, <2>6 DEF PingLoopInv
<1>5. CASE WriteWaited /\ pc' # "disconnect"
    <2>1. /\ pc = "wait_write" /\ pc' = "ping" /\ state = RDMA_WRITE_COMPLETE /\ ping' = ping + 1
        BY <1>5 DEF WriteWaited
    <2>2. /\ TurnInv' /\ KeyInv' /\ RecvInv'
          /\ UNCHANGED <<HasRecv, OneRecv, GoAhead, Busy, Advertised, RegAdvertised>>
        BY <1>1, <1>2, <2>1, MoveKeeps
    <2>3. /\ ~ GoAhead /\ mem["rdma"] = ping
          /\ qps = "up" => spc = "recv" /\ sq = <<>> /\ net = <<>>
        BY <1>0, <2>1 DEF WriteTurn
    <2>4. sq = <<>>
        BY <2>3 DEF PingLoopInv, UpOnceInv
    <2>5. ReadTurn' /\ WriteTurn'
        BY <1>1, <2>1, <2>2, <2>3, <2>4 DEF ReadTurn, WriteTurn, Quiet
    <2>6. PingInv'
        BY <1>0, <1>1, <2>1, <2>3 DEF PingInv, PongMatchesPing, Before, Unconnected, Nothing, Opening, Pinging
    <2> QED
        BY <2>2, <2>5, <2>6 DEF PingLoopInv
<1> QED
    BY <1>3, <1>4, <1>5

(* Tear-down: the queue pair goes down at the latest with ib_destroy_qp.   *)
LEMMA DestroyKeeps ==
    ASSUME KType, PingLoopInv, UpOnceInv', Disconnect \/ DestroyQp
    PROVE  PingLoopInv'
<1> USE DEF At, stateVars, pingVars, cbVars, srvVars, quiet
<1>0. TurnInv /\ OneRecv
    BY DEF PingLoopInv, TurnInv
<1>1. pc' \in Leaving /\ UNCHANGED <<state, lost, send_buf, mr, cbpc, spc, net, adv>>
    BY DEF Disconnect, DestroyQp, Leaving, Closing
<1>2. CASE UNCHANGED <<qps, sq, rq, cq>>
    BY <1>1, <1>2, LeaveKeeps DEF Failed
<1>3. CASE qps' = "down" /\ OneRecv' /\ (HasRecv' => HasRecv)
    <2>1. pc' \notin Before \cup Pinging \cup {"ping", "format_read"}
        BY <1>1 DEF Leaving, Closing, Before, Unconnected, Nothing, Opening, Pinging
    <2>2. TurnInv' /\ KeyInv' /\ RecvInv'
        BY <1>0, <1>1, <1>3 DEF TurnInv, KeyInv, RecvInv
    <2>3. ReadTurn' /\ WriteTurn' /\ PingInv'
        BY <2>1 DEF ReadTurn, WriteTurn, PingInv, PongMatchesPing, Pinging
    <2> QED
        BY <2>2, <2>3 DEF PingLoopInv
<1>4. CASE DestroyQp
    <2>1. cq' = <<>> /\ qps' = "down"
        BY <1>4 DEF DestroyQp
    <2>2. OneRecv' /\ ~ HasRecv'
        BY <2>1 DEF OneRecv, HasRecv
    <2> QED
        BY <1>3, <2>1, <2>2
<1>5. CASE Disconnect
    BY <1>0, <1>2, <1>3, <1>5, GoDownEffect DEF Disconnect, qpVars, cqVars
<1> QED
    BY <1>4, <1>5

(* The writer. *)
LEMMA WriterKeeps ==
    ASSUME KType, LifeInv, PingLoopInv, Writer \/ GetOpt \/ Signal
    PROVE  PingLoopInv'
<1> USE DEF quiet, doitVars, stateVars, pingVars, qpVars, cqVars, cbVars, srvVars, pingUnchanged, At
<1>0. UpOnceInv' /\ UpOnceInv
    BY WriterUpOnce DEF PingLoopInv
<1>1. CASE \/ WriteProc \/ Doit \/ GetOpt \/ EndOfOptions \/ CreateId
           \/ ResolveAddr \/ RouteWaited \/ AllocPd \/ CreateQp \/ SetupBuffers \/ PostRecv
           \/ Connect \/ ConnWaited
    <2>1. /\ UNCHANGED <<state, lost, qps, ping, send_buf, sq, mr, cq, cbpc, spc, net, adv>>
          /\ rq' = rq \/ pc \in Unconnected
        BY <1>1 DEF WriteProc, Doit, GetOpt, EndOfOptions, CreateId, ResolveAddr, RouteWaited, AllocPd,
                    CreateQp, SetupBuffers, PostRecv, Connect, ConnWaited, Unconnected
    <2>2. (Failed => Failed') /\ (rq' = rq \/ qps # "up")
        BY <1>0, <2>1 DEF Failed, UpOnceInv
    <2>3. pc \in Before /\ (pc' \in Before \cup {"ping"} \/ pc' \in Leaving)
        BY <1>1 DEF WriteProc, Doit, GetOpt, EndOfOptions, CreateId, ResolveAddr, RouteWaited, AllocPd,
                    CreateQp, SetupBuffers, PostRecv, Connect, ConnWaited, Before, Unconnected,
                    Nothing, Opening, Leaving, Closing
    <2>4. CASE pc' \in Leaving
        BY <1>0, <2>1, <2>2, <2>4, LeaveKeeps
    <2>5. CASE pc' \in Before \cup {"ping"}
        BY <1>0, <2>1, <2>2, <2>3, <2>5, BeforeKeeps
    <2> QED
        BY <2>3, <2>4, <2>5
<1>2. CASE Ping
    BY <1>0, <1>2, PingKeeps
<1>3. CASE FormatRead \/ FormatWrite
    BY <1>0, <1>3, FormatBothKeep
<1>4. CASE PostRead \/ PostWrite
    BY <1>0, <1>4, PostKeeps
<1>5. CASE ReadWaited \/ WriteWaited
    BY <1>0, <1>5, WaitKeeps
<1>6. CASE Disconnect \/ DestroyQp
    BY <1>0, <1>6, DestroyKeeps
<1>7. CASE EndOfLoop \/ FreeBuffers \/ DestroyCq \/ DestroyId \/ ListDel \/ KfreeCb
    <2>1. /\ UNCHANGED <<state, lost, qps, rq, send_buf, sq, mr, cq, cbpc, spc, net, adv>>
          /\ pc' \in Leaving
        BY <1>7 DEF EndOfLoop, FreeBuffers, DestroyCq, DestroyId, ListDel, KfreeCb, Leaving, Closing
    <2> QED
        BY <1>0, <2>1, LeaveKeeps DEF Failed
<1> QED
    BY <1>1, <1>2, <1>3, <1>4, <1>5, <1>6, <1>7, WriterSteps

(* Every step keeps the turns. *)
LEMMA PingLoopStep == KType /\ LifeInv /\ PingLoopInv /\ [Next]_vars => PingLoopInv'
<1> SUFFICES ASSUME KType, LifeInv, PingLoopInv, [Next]_vars PROVE PingLoopInv'
    OBVIOUS
<1>1. CASE UNCHANGED vars
    <2>1. UNCHANGED <<pc, res, state, lost, cm, qps, ping, mem, send_buf, sq, mr, rq, cq, notify, cbpc,
                      spc, net, adv, sdata>>
        BY <1>1 DEF vars, stateVars, qpVars, pingVars, cqVars, cbVars, srvVars
    <2>2. UpOnceInv' /\ (Failed => Failed')
        BY <2>1 DEF PingLoopInv, UpOnceInv, Failed
    <2> QED
        BY <2>1, <2>2, StoreKeeps
<1>2. CASE Writer \/ GetOpt \/ Signal
    BY <1>2, WriterKeeps
<1>3. CASE CmAnswer \/ CmDeviceRemoval \/ Callback
    BY <1>3, CmKeeps, CallbackKeeps
<1>4. CASE Execute \/ PeerGone \/ ServerStep \/ ReadProc
    BY <1>4, ExecuteKeeps, PeerGoneKeeps, ServerRecvKeeps, ServerRdmaKeeps, ServerGoAheadKeeps
    DEF ServerStep
<1> QED
    BY <1>1, <1>2, <1>3, <1>4 DEF Next

(* The turns of the writer, the device, the server and the callback. *)
LEMMA PingLoopInvariant == Spec => [](KType /\ PingLoopInv)
BY TypeInit, TypeStep, LifeInit, LifeStep, PingLoopInit, PingLoopStep, PTL DEF Spec

(* Every ping that is over has brought its own data back: the one state    *)
(* variable that the writer, the connection manager and the callback all   *)
(* store into never lets the writer go on before the server has written    *)
(* this ping's data, whatever fails, and whenever a wait is interrupted.   *)
THEOREM PongMatches == Spec => []PongMatchesPing
<1>1. PingLoopInv => PongMatchesPing
    BY DEF PingLoopInv, PingInv
<1> QED
    BY <1>1, PingLoopInvariant, PTL

(* As long as nobody has stored ERROR, and no late CONNECTED has set the   *)
(* state of a ping back, the key and the buffer the server uses are those  *)
(* the device has registered, however often cb->key has wrapped around:    *)
(* krping_format_send never takes the registration, or the one send        *)
(* buffer, away from under an advertisement in use.                        *)
THEOREM KeyIsValid == Spec => []AdvertisedKeyValid
<1>1. PingLoopInv => AdvertisedKeyValid
    BY DEF PingLoopInv, KeyInv, Failed, AdvertisedKeyValid
<1> QED
    BY <1>1, PingLoopInvariant, PTL

(* As long as nobody has stored ERROR, and no late CONNECTED has set the   *)
(* state of a ping back, the server's go-ahead finds the receive posted,   *)
(* except in the window between the store of client_recv and the           *)
(* ib_post_recv after it.                                                  *)
THEOREM ReceiveIsPosted == Spec => []ReceivePosted
<1>1. KType /\ PingLoopInv => ReceivePosted
    <2> SUFFICES ASSUME KType, PingLoopInv, qps = "up", spc \in {"ack", "ack2"},
                        cbpc # "repost", ~ Failed
                 PROVE  rq > 0
        BY DEF ReceivePosted, Failed
    <2>1. ~ HasRecv /\ cbpc # "store"
        BY DEF PingLoopInv, TurnInv, Busy, GoAhead
    <2> QED
        BY <2>1 DEF PingLoopInv, RecvInv
<1> QED
    BY <1>1, PingLoopInvariant, PTL
=============================================================================
