-------------------------------- MODULE Krping --------------------------------
(***************************************************************************)
(* The ping client the RPC client was made from (bak/krping.c and          *)
(* bak/getopt.c, not built): one write to /proc/krping, its options, the   *)
(* life of its connection and the ping/pong loop, against the connection   *)
(* manager, the completion callback, a reader of /proc/krping and the      *)
(* server of the loop that krping.h describes.  All of them store into     *)
(* cb->state.  Counting bytes and messages (cb->stats) is left out, and so *)
(* are send completions, which only count, the reference count of the      *)
(* module, and the text of a ping.                                         *)
(***************************************************************************)
EXTENDS Integers, Sequences

CONSTANTS
    KEYS,           \* values of cb->key, a u8
    BUFSIZE,        \* RPING_BUFSIZE
    Numbers,        \* values of integer options, as int
    MaxPings,       \* bound on the pings of an endless loop
    Faults          \* which of FaultKinds happen

(* "nomem": an allocation fails; "call": a call of the connection manager  *)
(* or a check of the device fails; "event": the connection manager reports *)
(* an error; "removal": the device is unplugged; "signal": a signal ends a *)
(* wait; "peer": the peer disconnects; "post": a work request is refused;  *)
(* "bogus": a message has the wrong size; "poll": ib_poll_cq fails.        *)
FaultKinds == {"nomem", "call", "event", "removal", "signal", "peer", "post", "bogus",
               "poll"}

ASSUME KrpingAssumption ==
    /\ KEYS \in Nat \ {0}
    /\ BUFSIZE \in Nat \ {0}
    /\ Numbers \subseteq Int
    /\ MaxPings \in Nat
    /\ Faults \subseteq FaultKinds

VARIABLES
    pc,         \* where the writer is
    ret,        \* local ret of krping_doit
    server,     \* cb->server
    count,      \* cb->count
    listed,     \* cb is on krping_cbs
    res,        \* "none", "err" (an ERR_PTR), "live" or "freed"
    state,      \* cb->state
    lost,       \* ERROR, or a later state of the ping, was overwritten
    cm,         \* the connection manager's view of cm_id
    qps,        \* the queue pair: "init" (cannot send), "up", "down"
    ping,       \* local ping of krping_test_client
    mem,        \* what start_buf and rdma_buf hold
    key,        \* cb->key
    send_buf,   \* cb->send_buf
    sq,         \* work requests posted and not executed
    mr,         \* the registration the device holds
    rq,         \* posted receives
    cq,         \* completions not polled
    notify,     \* notification of the CQ: "armed", "raised" or "off"
    cbpc,       \* where the completion callback is
    new_state,  \* what client_recv is about to store
    spc,        \* where the server is
    net,        \* messages under way to the server
    adv,        \* the advertisement the server works on
    sdata,      \* the ping data the server has read
    cbad,       \* what the callback used when it was not live
    rbad        \* what a reader of /proc/krping used when it was not live

doitVars == <<ret, server, count, listed>>
stateVars == <<state, lost>>
pingVars == <<ping, key, send_buf>>
qpVars == <<qps, sq, rq>>
cqVars == <<cq, notify>>
cbVars == <<cbpc, new_state, cbad>>
srvVars == <<spc, net, adv, sdata>>
vars == <<pc, doitVars, res, stateVars, cm, qpVars, pingVars, mem, mr, cqVars, cbVars,
          srvVars, rbad>>

(* enum test_state *)
IDLE == 1
ADDR_RESOLVED == 3
ROUTE_RESOLVED == 4
CONNECTED == 5
RDMA_READ_ADV == 6
RDMA_WRITE_ADV == 8
RDMA_WRITE_COMPLETE == 9
ERROR == 10

EINVAL == 22

Resources == {"cb", "cm_id", "pd", "cq", "qp", "maps", "bufs"}
NoData == -1

htonl(x) == [be32 |-> x]
ntohl(x) == x.be32

Advertise(buf, rkey) == [buf |-> buf, rkey |-> htonl(rkey)]

Init ==
    /\ pc = "write"
    /\ ret = 0 /\ server = -1 /\ count = 0 /\ listed = FALSE
    /\ res = [r \in Resources |-> "none"]
    /\ state = IDLE /\ lost = FALSE
    /\ cm = "idle"
    /\ qps = "init" /\ sq = <<>> /\ rq = 0
    /\ ping = 0 /\ key = 0 /\ send_buf = Advertise("start", 0)
    /\ mem = [b \in {"start", "rdma"} |-> NoData]
    /\ mr = [buf |-> "start", rkey |-> 0]
    /\ cq = <<>> /\ notify = "off"
    /\ cbpc = "idle" /\ new_state = IDLE /\ cbad = {}
    /\ spc = "recv" /\ net = <<>> /\ adv = mr /\ sdata = NoData
    /\ rbad = {}

-----------------------------------------------------------------------------
(* krping_doit and krping_getopt                                           *)

At(from, to) == pc = from /\ pc' = to

Fault(kind) == kind \in Faults

Set(R, what) == res' = [r \in Resources |-> IF r \in R THEN what ELSE res[r]]

(* krping_opts: the kind of argument each option takes.  The options that  *)
(* krping_doit knows nothing of are as good as "server".                   *)
krping_opts ==
    [count |-> "number", size |-> "number", addr |-> "text", addr6 |-> "text",
     port |-> "number", verbose |-> "none", server |-> "none", client |-> "none"]

(* A token: the name before the "=", and nothing, a number or another text *)
(* after it.                                                               *)
Tokens == [name : DOMAIN krping_opts \cup {"other"},
           arg : {"none", "number", "text"}, n : Numbers]

(* krping_getopt returns the option of a token whose argument is there and *)
(* of the right kind (a number is a text too), otherwise an error.         *)
krping_getopt(t) ==
    IF /\ t.name \in DOMAIN krping_opts
       /\ \/ t.arg = krping_opts[t.name]
          \/ t.arg = "number" /\ krping_opts[t.name] = "text"
    THEN t.name
    ELSE "error"

(* krping_write_proc copies the command ... *)
WriteProc ==
    /\ \/ At("write", "doit")
       \/ Fault("nomem") /\ At("write", "done")
    /\ UNCHANGED <<doitVars, res, stateVars, cm, qpVars, pingVars, mem, mr, cqVars, cbVars,
                   srvVars, rbad>>

(* ... and calls krping_doit, which makes cb and lists it. *)
Doit ==
    /\ \/ At("doit", "options") /\ Set({"cb"}, "live") /\ listed' = TRUE
       \/ Fault("nomem") /\ At("doit", "done") /\ UNCHANGED <<res, listed>>
    /\ UNCHANGED <<ret, server, count, stateVars, cm, qpVars, pingVars, mem, mr, cqVars,
                   cbVars, srvVars, rbad>>

(* One turn of the option loop.  A bad size or count leaves a positive ret.*)
GetOpt ==
    /\ pc = "options"
    /\ \E t \in Tokens :
         LET op == krping_getopt(t)
         IN  /\ server' = IF op = "client" THEN 0 ELSE server
             /\ count' = IF op = "count" THEN t.n ELSE count
             /\ ret' = CASE op \in {"addr", "port", "client", "verbose"} -> ret
                         [] op = "size" -> IF t.n \in 1 .. BUFSIZE THEN ret ELSE EINVAL
                         [] op = "count" -> IF t.n >= 0 THEN ret ELSE EINVAL
                         [] OTHER -> -EINVAL
    /\ UNCHANGED <<pc, listed, res, stateVars, cm, qpVars, pingVars, mem, mr, cqVars, cbVars,
                   srvVars, rbad>>

(* The steps of the writer that leave its options and the pings alone *)
quiet == <<server, count, listed, pingVars, mem, mr, cbVars, srvVars, rbad>>

EndOfOptions ==
    /\ pc = "options"
    /\ IF ret # 0 \/ server = -1
       THEN pc' = "out" /\ ret' = IF ret # 0 THEN ret ELSE -EINVAL
       ELSE pc' = "create_id" /\ UNCHANGED ret
    /\ UNCHANGED <<quiet, res, stateVars, cm, qpVars, cqVars>>

CreateId ==
    /\ \/ At("create_id", "resolve_addr") /\ Set({"cm_id"}, "live") /\ UNCHANGED ret
       \/ Fault("call") /\ At("create_id", "out") /\ Set({"cm_id"}, "err") /\ ret' = -EINVAL
    /\ UNCHANGED <<quiet, stateVars, cm, qpVars, cqVars>>

-----------------------------------------------------------------------------
(* krping_run_client: set-up                                               *)

(* krping_bind_client *)
ResolveAddr ==
    /\ \/ At("resolve_addr", "wait_route") /\ cm' = "resolving_addr"
       \/ Fault("call") /\ At("resolve_addr", "destroy_id") /\ UNCHANGED cm
    /\ UNCHANGED <<quiet, ret, res, stateVars, qpVars, cqVars>>

RouteWaited ==
    /\ \/ state = ROUTE_RESOLVED /\ At("wait_route", "alloc_pd")
       \/ state # ROUTE_RESOLVED /\ At("wait_route", "destroy_id")
       \/ Fault("call") /\ At("wait_route", "destroy_id")      \* reg_supported
    /\ UNCHANGED <<quiet, ret, res, stateVars, cm, qpVars, cqVars>>

WaitRoute == state >= ROUTE_RESOLVED /\ RouteWaited

(* krping_setup_qp: a failed ib_alloc_pd leaves its ERR_PTR in cb ... *)
AllocPd ==
    /\ \/ At("alloc_pd", "create_qp") /\ Set({"pd"}, "live")
       \/ Fault("nomem") /\ At("alloc_pd", "destroy_id") /\ Set({"pd"}, "err")
    /\ UNCHANGED <<quiet, ret, stateVars, cm, qpVars, cqVars>>

(* ... the CQ is made and armed and the queue pair made, or err2 and err1  *)
(* release them.                                                           *)
CreateQp ==
    /\ \/ /\ At("create_qp", "setup_buffers")
          /\ Set({"cq", "qp"}, "live")
          /\ notify' = "armed"
       \/ /\ Fault("nomem")
          /\ At("create_qp", "destroy_id")
          /\ Set({"pd"}, "freed")
          /\ UNCHANGED notify
    /\ UNCHANGED <<quiet, ret, stateVars, cm, qpVars, cq>>

(* Mutant: err1 of krping_run_client is passed by. *)
SetupBuffersNoErr1 ==
    /\ \/ At("setup_buffers", "post_recv") /\ Set({"maps", "bufs"}, "live")
       \/ Fault("nomem") /\ At("setup_buffers", "destroy_id") /\ Set({"maps"}, "live")
    /\ UNCHANGED <<quiet, ret, stateVars, cm, qpVars, cqVars>>

(* krping_setup_buffers; bail frees the buffers and leaves the mappings.   *)
SetupBuffers ==
    /\ \/ At("setup_buffers", "post_recv") /\ Set({"maps", "bufs"}, "live")
       \/ Fault("nomem") /\ At("setup_buffers", "destroy_qp") /\ Set({"maps"}, "live")
    /\ UNCHANGED <<quiet, ret, stateVars, cm, qpVars, cqVars>>

PostRecv ==
    /\ \/ At("post_recv", "connect") /\ rq' = 1
       \/ Fault("post") /\ At("post_recv", "free_buffers") /\ UNCHANGED rq
    /\ UNCHANGED <<quiet, ret, res, stateVars, cm, qps, sq, cqVars>>

(* krping_connect_client: everything but ERROR is taken for a connection.  *)
Connect ==
    /\ \/ At("connect", "wait_conn") /\ cm' = IF cm = "bound" THEN "connecting" ELSE cm
       \/ Fault("call") /\ At("connect", "free_buffers") /\ UNCHANGED cm
    /\ UNCHANGED <<quiet, ret, res, stateVars, qpVars, cqVars>>

ConnWaited ==
    /\ At("wait_conn", IF state = ERROR THEN "free_buffers" ELSE "ping")
    /\ UNCHANGED <<quiet, ret, res, stateVars, cm, qpVars, cqVars>>

WaitConn == state >= CONNECTED /\ ConnWaited

-----------------------------------------------------------------------------
(* krping_test_client                                                      *)

Store(new) ==
    /\ state' = new
    /\ lost' = (lost \/ (new < state /\ (new # RDMA_READ_ADV \/ state = ERROR)))

(* The CQ takes a completion; an armed CQ raises its event. *)
Complete(completions) ==
    /\ cq' = cq \o completions
    /\ notify' = IF notify = "armed" THEN "raised" ELSE notify

pingUnchanged == <<doitVars, res, cm, cbVars, srvVars, rbad, mr>>

(* The head of the loop stores RDMA_READ_ADV, whatever has been stored     *)
(* meanwhile, and fills start_buf.                                         *)
Ping ==
    /\ At("ping", "format_read")
    /\ IF count = 0 THEN ping < MaxPings ELSE ping < count
    /\ Store(RDMA_READ_ADV)
    /\ mem' = [mem EXCEPT !["start"] = ping]
    /\ UNCHANGED <<pingUnchanged, qpVars, pingVars, cqVars>>

EndOfLoop ==
    /\ At("ping", "disconnect")
    /\ count > 0 /\ ping >= count
    /\ UNCHANGED <<pingUnchanged, stateVars, qpVars, pingVars, mem, cqVars>>

(* ib_post_send: a queue pair that is down flushes the request. *)
Posted(wr) ==
    \/ qps = "up" /\ sq' = Append(sq, wr) /\ UNCHANGED cqVars
    \/ qps = "down" /\ Complete(<<"flush">>) /\ UNCHANGED sq

NotPosted == (qps = "init" \/ Fault("post")) /\ UNCHANGED <<sq, cqVars>>

(* Mutant: the key advertised is the one before. *)
FormatSendOldKey(buf) ==
    /\ key' = (key + 1) % KEYS
    /\ send_buf' = Advertise(buf, key)
    /\ \/ Posted([op |-> "reg", buf |-> buf, rkey |-> key']) /\ UNCHANGED stateVars
       \/ NotPosted /\ Store(ERROR)
    /\ UNCHANGED <<pingUnchanged, qps, rq, ping, mem>>

(* Mutant: cb->key is not a u8. *)
FormatSendWide(buf) ==
    /\ key' = key + 1
    /\ send_buf' = Advertise(buf, key')
    /\ \/ Posted([op |-> "reg", buf |-> buf, rkey |-> key']) /\ UNCHANGED stateVars
       \/ NotPosted /\ Store(ERROR)
    /\ UNCHANGED <<pingUnchanged, qps, rq, ping, mem>>

(* krping_format_send and krping_rdma_rkey: a new key, the requests that   *)
(* invalidate the old registration and make the new one, and the           *)
(* advertisement in send_buf.                                              *)
FormatSend(buf) ==
    /\ key' = (key + 1) % KEYS
    /\ send_buf' = Advertise(buf, key')
    /\ \/ Posted([op |-> "reg", buf |-> buf, rkey |-> key']) /\ UNCHANGED stateVars
       \/ NotPosted /\ Store(ERROR)
    /\ UNCHANGED <<pingUnchanged, qps, rq, ping, mem>>

FormatRead ==
    /\ FormatSend("start")
    /\ At("format_read", IF state' = ERROR THEN "disconnect" ELSE "post_read")

(* Mutant: the source is advertised again instead of the sink. *)
FormatWriteSource == FormatSend("start") /\ At("format_write", "post_write")

FormatWrite == FormatSend("rdma") /\ At("format_write", "post_write")

(* ib_post_send of the advertisement *)
PostAdv(from, to) ==
    /\ \/ Posted([op |-> "send"]) /\ At(from, to)
       \/ NotPosted /\ At(from, "disconnect")
    /\ UNCHANGED <<pingUnchanged, stateVars, qps, rq, pingVars, mem>>

PostRead == PostAdv("post_read", "wait_read")
PostWrite == PostAdv("post_write", "wait_write")

ReadWaited ==
    /\ At("wait_read", IF state = RDMA_WRITE_ADV THEN "format_write" ELSE "disconnect")
    /\ UNCHANGED <<pingUnchanged, stateVars, qpVars, pingVars, mem, cqVars>>

WaitRead == state >= RDMA_WRITE_ADV /\ ReadWaited

WriteWaited ==
    /\ pc = "wait_write"
    /\ IF state = RDMA_WRITE_COMPLETE
       THEN pc' = "ping" /\ ping' = ping + 1
       ELSE pc' = "disconnect" /\ UNCHANGED ping
    /\ UNCHANGED <<pingUnchanged, stateVars, qpVars, key, send_buf, mem, cqVars>>

WaitWrite == state >= RDMA_WRITE_COMPLETE /\ WriteWaited

(* A signal ends any wait, whatever the state. *)
Signal ==
    Fault("signal") /\ (RouteWaited \/ ConnWaited \/ ReadWaited \/ WriteWaited)

-----------------------------------------------------------------------------
(* Tear-down: the rest of krping_run_client and krping_doit                *)

(* The queue pair goes to error and flushes what is posted. *)
GoDown ==
    /\ qps' = "down"
    /\ sq' = <<>>
    /\ rq' = 0
    /\ IF sq # <<>> \/ rq > 0 THEN Complete(<<"flush">>) ELSE UNCHANGED cqVars

(* rdma_disconnect *)
Disconnect ==
    /\ At("disconnect", "free_buffers")
    /\ IF qps = "up" THEN GoDown ELSE UNCHANGED <<qpVars, cqVars>>
    /\ UNCHANGED <<quiet, ret, res, stateVars, cm>>

FreeBuffers ==
    /\ At("free_buffers", "destroy_qp")
    /\ Set({"maps", "bufs"}, "freed")
    /\ UNCHANGED <<quiet, ret, stateVars, cm, qpVars, cqVars>>

(* krping_free_qp: ib_destroy_qp, with its completions ... *)
DestroyQp ==
    /\ At("destroy_qp", "destroy_cq")
    /\ Set({"qp"}, "freed")
    /\ qps' = "down" /\ sq' = <<>> /\ rq' = 0
    /\ cq' = <<>>
    /\ UNCHANGED <<quiet, ret, stateVars, cm, notify>>

(* ... and ib_destroy_cq, which waits for the callback. *)
DestroyCq ==
    /\ At("destroy_cq", "destroy_id")
    /\ cbpc = "idle"
    /\ Set({"cq", "pd"}, "freed")
    /\ UNCHANGED <<quiet, ret, stateVars, cm, qpVars, cqVars>>

DestroyId ==
    /\ At("destroy_id", "out")
    /\ Set({"cm_id"}, "freed")
    /\ UNCHANGED <<quiet, ret, stateVars, cm, qpVars, cqVars>>

(* Mutant: cb is freed first and taken off the list afterwards. *)
ListDelLate ==
    /\ At("out", "kfree")
    /\ Set({"cb"}, "freed")
    /\ UNCHANGED <<doitVars, stateVars, cm, qpVars, pingVars, mem, mr, cqVars, cbVars,
                   srvVars, rbad>>

ListDel ==
    /\ At("out", "kfree")
    /\ listed' = FALSE
    /\ UNCHANGED <<ret, server, count, res, stateVars, cm, qpVars, pingVars, mem, mr, cqVars,
                   cbVars, srvVars, rbad>>

KfreeCb ==
    /\ At("kfree", "done")
    /\ Set({"cb"}, "freed")
    /\ UNCHANGED <<quiet, ret, stateVars, cm, qpVars, cqVars>>

-----------------------------------------------------------------------------
(* krping_cma_event_handler, called as long as cm_id exists                *)

CmEvent(from, to) ==
    /\ res["cm_id"] = "live"
    /\ cm = from
    /\ cm' = to
    /\ UNCHANGED <<pc, doitVars, res, pingVars, mem, mr, cbVars, srvVars, rbad>>

(* A rdma_resolve_route that fails leaves ADDR_RESOLVED, which ends no wait. *)
CmAddrResolved ==
    /\ \/ CmEvent("resolving_addr", "resolving_route")
       \/ Fault("call") /\ CmEvent("resolving_addr", "noroute")
    /\ Store(ADDR_RESOLVED)
    /\ UNCHANGED <<qpVars, cqVars>>

CmRouteResolved ==
    /\ CmEvent("resolving_route", "bound")
    /\ Store(ROUTE_RESOLVED)
    /\ UNCHANGED <<qpVars, cqVars>>

(* The queue pair can send before the event is reported. *)
CmReply ==
    /\ res["qp"] = "live"
    /\ CmEvent("connecting", "replied")
    /\ qps' = "up"
    /\ UNCHANGED <<stateVars, sq, rq, cqVars>>

CmEstablished ==
    /\ CmEvent("replied", "connected")
    /\ Store(CONNECTED)
    /\ UNCHANGED <<qpVars, cqVars>>

CmError ==
    /\ Fault("event")
    /\ \E s \in {"resolving_addr", "resolving_route", "connecting"} : CmEvent(s, "failed")
    /\ Store(ERROR)
    /\ UNCHANGED <<qpVars, cqVars>>

(* Mutant: the event wakes the writer without a state. *)
CmDisconnectedSilent ==
    /\ qps = "down"
    /\ CmEvent("connected", "disconnected")
    /\ UNCHANGED <<stateVars, qpVars, cqVars>>

CmDisconnected ==
    /\ qps = "down"
    /\ CmEvent("connected", "disconnected")
    /\ Store(ERROR)
    /\ UNCHANGED <<qpVars, cqVars>>

CmDeviceRemoval ==
    /\ Fault("removal")
    /\ \E s \in {"resolving_route", "bound", "connecting", "replied", "connected"} :
          CmEvent(s, "failed")
    /\ Store(ERROR)
    /\ IF res["qp"] = "live" THEN GoDown ELSE UNCHANGED <<qpVars, cqVars>>

-----------------------------------------------------------------------------
(* krping_cq_event_handler                                                 *)

CbStep(from, to, R) ==
    /\ cbpc = from
    /\ cbpc' = to
    /\ cbad' = cbad \cup {r \in R : res[r] # "live"}
    /\ UNCHANGED <<pc, doitVars, res, cm, pingVars, mem, mr, srvVars, rbad>>

(* In ERROR the callback returns and does not arm the CQ again. *)
CqEvent ==
    /\ res["cq"] = "live"
    /\ notify = "raised"
    /\ IF state = ERROR
       THEN CbStep("idle", "idle", {"cb"}) /\ notify' = "off"
       ELSE CbStep("idle", "poll", {"cb", "cq"}) /\ notify' = "armed"
    /\ UNCHANGED <<stateVars, qpVars, cq, new_state>>

PollEmpty ==
    /\ cq = <<>>
    /\ CbStep("poll", "idle", {"cq"})
    /\ UNCHANGED <<stateVars, qpVars, cqVars, new_state>>

Polled(wc) == cbpc = "poll" /\ cq # <<>> /\ Head(cq) = wc /\ cq' = Tail(cq)

PollFlush ==
    /\ Polled("flush")
    /\ CbStep("poll", "poll", {"cq"})
    /\ UNCHANGED <<stateVars, qpVars, notify, new_state>>

(* A failed completion, a message of the wrong size or a failed poll: goto *)
(* error.                                                                  *)
PollError ==
    /\ \/ Polled("error")
       \/ Fault("bogus") /\ Polled("recv")
       \/ Fault("poll") /\ UNCHANGED cq
    /\ CbStep("poll", "idle", {"cb", "cq"})
    /\ Store(ERROR)
    /\ UNCHANGED <<qpVars, notify, new_state>>

(* client_recv reads the state ... *)
PollRecv ==
    /\ Polled("recv")
    /\ CbStep("poll", "store", {"cb", "cq"})
    /\ new_state' = IF state = RDMA_READ_ADV THEN RDMA_WRITE_ADV ELSE RDMA_WRITE_COMPLETE
    /\ UNCHANGED <<stateVars, qpVars, notify>>

(* ... and stores the next one, from which moment the writer may go on.    *)
ClientRecv ==
    /\ CbStep("store", "repost", {"cb"})
    /\ Store(new_state)
    /\ UNCHANGED <<qpVars, cqVars, new_state>>

(* Mutant: the receive is not posted again. *)
RepostSkipped ==
    /\ CbStep("repost", "poll", {"cb"})
    /\ UNCHANGED <<stateVars, qpVars, cqVars, new_state>>

Repost ==
    /\ \/ /\ CbStep("repost", "poll", {"cb", "qp"})
          /\ IF qps = "down"
             THEN Complete(<<"flush">>) /\ UNCHANGED rq
             ELSE rq' = rq + 1 /\ UNCHANGED cqVars
          /\ UNCHANGED stateVars
       \/ /\ Fault("post")
          /\ CbStep("repost", "idle", {"cb", "qp"})
          /\ Store(ERROR)
          /\ UNCHANGED <<rq, cqVars>>
    /\ UNCHANGED <<qps, sq, new_state>>

-----------------------------------------------------------------------------
(* The device and the server                                               *)

netVars == <<pc, doitVars, res, stateVars, cm, pingVars, cbVars, rbad>>

(* The device executes work requests in order; a send takes what send_buf  *)
(* then holds.                                                             *)
Execute ==
    /\ qps = "up"
    /\ sq # <<>>
    /\ sq' = Tail(sq)
    /\ LET wr == Head(sq)
       IN  IF wr.op = "reg"
           THEN mr' = [buf |-> wr.buf, rkey |-> wr.rkey] /\ UNCHANGED net
           ELSE net' = Append(net, send_buf) /\ UNCHANGED mr
    /\ UNCHANGED <<netVars, mem, qps, rq, cqVars, spc, adv, sdata>>

(* A peer that leaves, or that no longer acknowledges a send. *)
PeerGone ==
    /\ Fault("peer")
    /\ qps = "up"
    /\ \/ GoDown
       \/ /\ sq # <<>>
          /\ qps' = "down" /\ sq' = <<>> /\ rq' = 0
          /\ Complete(<<"error", "flush">>)
    /\ UNCHANGED <<netVars, mem, mr, srvVars>>

Server(from, to) == qps = "up" /\ spc = from /\ spc' = to /\ UNCHANGED <<netVars, mr>>

ServerRecv ==
    /\ Server("recv", "read") \/ Server("recv2", "write")
    /\ net # <<>>
    /\ net' = Tail(net)
    /\ adv' = [buf |-> Head(net).buf, rkey |-> ntohl(Head(net).rkey)]
    /\ UNCHANGED <<mem, qpVars, cqVars, sdata>>

(* An RDMA read or write with a key that is not registered breaks the      *)
(* connection.                                                             *)
ServerRead ==
    /\ Server("read", "ack")
    /\ IF adv = mr
       THEN sdata' = mem[adv.buf] /\ UNCHANGED <<qpVars, cqVars>>
       ELSE GoDown /\ UNCHANGED sdata
    /\ UNCHANGED <<mem, net, adv>>

ServerWrite ==
    /\ Server("write", "ack2")
    /\ IF adv = mr
       THEN mem' = [mem EXCEPT ![adv.buf] = sdata] /\ UNCHANGED <<qpVars, cqVars>>
       ELSE GoDown /\ UNCHANGED mem
    /\ UNCHANGED <<net, adv, sdata>>

(* "Go ahead": without a posted receive it breaks the connection, as       *)
(* krping_connect_client asks for no retry.                                *)
ServerGoAhead ==
    /\ Server("ack", "recv2") \/ Server("ack2", "recv")
    /\ IF rq > 0
       THEN rq' = rq - 1 /\ Complete(<<"recv">>) /\ UNCHANGED <<qps, sq>>
       ELSE GoDown
    /\ UNCHANGED <<mem, net, adv, sdata>>

(* krping_read_proc walks the list under the mutex and follows cb->pd. *)
ReadProc ==
    /\ listed
    /\ LET used == {"cb"} \cup IF res["pd"] = "none" THEN {} ELSE {"pd"}
       IN  rbad' = rbad \cup {r \in used : res[r] # "live"}
    /\ UNCHANGED <<pc, doitVars, res, stateVars, cm, qpVars, pingVars, mem, mr, cqVars,
                   cbVars, srvVars>>

-----------------------------------------------------------------------------
Writer ==
    \/ WriteProc \/ Doit \/ EndOfOptions \/ CreateId \/ ResolveAddr \/ WaitRoute
    \/ AllocPd \/ CreateQp \/ SetupBuffers \/ PostRecv \/ Connect \/ WaitConn
    \/ Ping \/ EndOfLoop \/ FormatRead \/ PostRead \/ WaitRead
    \/ FormatWrite \/ PostWrite \/ WaitWrite
    \/ Disconnect \/ FreeBuffers \/ DestroyQp \/ DestroyCq \/ DestroyId
    \/ ListDel \/ KfreeCb

CmAnswer ==
    \/ CmAddrResolved \/ CmRouteResolved \/ CmReply \/ CmEstablished \/ CmError
    \/ CmDisconnected

Callback ==
    \/ CqEvent \/ PollEmpty \/ PollFlush \/ PollError \/ PollRecv \/ ClientRecv \/ Repost

ServerStep == ServerRecv \/ ServerRead \/ ServerWrite \/ ServerGoAhead

Next ==
    \/ Writer \/ GetOpt \/ Signal
    \/ CmAnswer \/ CmDeviceRemoval
    \/ Callback
    \/ Execute \/ PeerGone \/ ServerStep
    \/ ReadProc

Spec == Init /\ [][Next]_vars

(* The writer and the callback run, the device executes what is posted,    *)
(* the server follows the loop of krping.h, and the connection manager     *)
(* answers what it is asked.  No signal, and no option, is promised.       *)
FairSpec ==
    /\ Spec
    /\ WF_vars(Writer) /\ WF_vars(CmAnswer) /\ WF_vars(Callback)
    /\ WF_vars(Execute) /\ WF_vars(ServerStep)

-----------------------------------------------------------------------------
(* Properties                                                              *)

States == {IDLE, ADDR_RESOLVED, ROUTE_RESOLVED, CONNECTED, RDMA_READ_ADV, RDMA_WRITE_ADV,
           RDMA_WRITE_COMPLETE, ERROR}
Keys == 0 .. KEYS - 1
Buffers == {"start", "rdma"}

TypeOK ==
    /\ ret \in {0, EINVAL, -EINVAL}
    /\ server \in {-1, 0}
    /\ count \in Numbers \cup {0}
    /\ listed \in BOOLEAN
    /\ res \in [Resources -> {"none", "err", "live", "freed"}]
    /\ state \in States
    /\ lost \in BOOLEAN
    /\ qps \in {"init", "up", "down"}
    /\ ping \in Nat
    /\ mem \in [Buffers -> Nat \cup {NoData}]
    /\ key \in Keys
    /\ send_buf \in [buf : Buffers, rkey : [be32 : Keys]]
    /\ mr \in [buf : Buffers, rkey : Keys]
    /\ rq \in Nat
    /\ notify \in {"armed", "raised", "off"}
    /\ cbpc \in {"idle", "poll", "store", "repost"}
    /\ new_state \in States
    /\ spc \in {"recv", "read", "ack", "recv2", "write", "ack2"}
    /\ adv \in [buf : Buffers, rkey : Keys]
    /\ cbad \subseteq Resources
    /\ rbad \subseteq Resources

(* As long as nobody has stored ERROR, and no late CONNECTED has set the   *)
(* state of a ping back, what the server works on is what the device has   *)
(* registered: the client does not invalidate a key, or use the one send   *)
(* buffer again, before the server is done with the advertisement.  Once   *)
(* the second registration of a ping was refused the key is advertised all *)
(* the same, as only the first is checked: that case, and a late           *)
(* CONNECTED, are outside this property.                                   *)
AdvertisedKeyValid ==
    qps = "up" /\ spc \in {"read", "write"} => adv = mr \/ state = ERROR \/ lost

(* A ping that is over has brought back its own data. *)
PongMatchesPing == pc = "ping" /\ ping > 0 => mem["rdma"] = ping - 1

(* As long as nobody has stored ERROR, and no late CONNECTED has set the   *)
(* state of a ping back, the go-ahead of the server finds a receive        *)
(* posted, except while the callback is between the state that lets the    *)
(* writer go on and its ib_post_recv.                                      *)
ReceivePosted ==
    qps = "up" /\ spc \in {"ack", "ack2"} =>
        rq > 0 \/ cbpc = "repost" \/ state = ERROR \/ lost

(* Whatever fails, the write leaves nothing behind but the mappings of a   *)
(* krping_setup_buffers that failed.                                       *)
LeavesOnlyMappings ==
    pc = "done" => \A r \in Resources :
        res[r] = "live" => r = "maps" /\ res["bufs"] = "none"

(* How far the completion callback and a reader of /proc/krping can fall   *)
(* behind: the callback may post a receive on a queue pair that is gone, a *)
(* reader may follow a protection domain that is gone; neither meets a     *)
(* freed cb.  (What krping_cma_event_handler uses is not recorded.)        *)
StaleUses == cbad \subseteq {"qp"} /\ rbad \subseteq {"pd"}

(* The write comes to an end, an endless loop goes on, or a state was lost *)
(* (an ERROR overwritten, or a late CONNECTED after a signal) or a         *)
(* rdma_resolve_route failed unnoticed: nothing else leaves the writer     *)
(* waiting for a state.                                                    *)
KrpingEnds ==
    <>(pc = "done" \/ lost \/ cm = "noroute" \/ (count = 0 /\ ping = MaxPings))
=============================================================================
