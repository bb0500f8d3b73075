----------------------------- MODULE RpcChannel -----------------------------
(***************************************************************************)
(* A connected RPC channel at work: requesters in send_rpc_msg_to_server   *)
(* (rpc_client.c) and send_rdma_msg (rdma.c), the queue pair with its      *)
(* send, receive and completion queues, the server, and the completion     *)
(* callback cq_thread -> cq_event_handler -> receive_msg ->                *)
(* client_rpc_rdma_msg_handler -> the user's handler.                      *)
(*                                                                         *)
(* A call is one invocation of send_rpc_msg_to_server.  It is open until   *)
(* the user's handler has been run for it: that is where the model stops.  *)
(* The handler's wake_up_interruptible acts on a wait queue that has no    *)
(* memory and on which nobody sleeps, as the wait of test_main is          *)
(* commented out; it changes nothing that the code reads.  A call is       *)
(* identified with its semaphore and with its data.  The critical sections *)
(* of the message buffer pool are single steps here: MsgBufPool implements *)
(* IdPool, where they are.                                                 *)
(***************************************************************************)
EXTENDS Bitmap, Sequences, FiniteSets

CONSTANTS
    Calls,          \* invocations of send_rpc_msg_to_server
    NoCall,         \* what a zeroed buffer holds
    Requesters,     \* how many calls may be open at a time
    SQ_DEPTH,       \* RDMA_SQ_DEPTH: places in the send queue
    Faults,         \* which of FaultKinds happen
    UninitRet       \* values cq_thread's uninitialised ret may have

FaultKinds == {"peer", "recv", "repost", "poll"}

ASSUME ChannelAssumption ==
    /\ IsFiniteSet(Calls)
    /\ NoCall \notin Calls
    /\ Requesters \in Nat \ {0}
    /\ SQ_DEPTH \in Nat \ {0}
    /\ Faults \subseteq FaultKinds
    /\ UninitRet \subseteq Int

VARIABLES
    bitmap,     \* rpc_ch->msgbuf_bitmap
    at,         \* where a call, or the message it sent, is
    slot,       \* msgbuf_id of each call
    new_seqn,   \* local new_seqn of each call
    seqn,       \* buf_ctxs[i].seqn
    send_buf,   \* buf_ctxs[i].send_buf
    sq,         \* send queue: calls whose send has not completed, in order
    tx,         \* how many of sq are transmitted
    srv,        \* requests the server has and has not answered
    rq,         \* receive queue: indices of posted receive buffers
    cq,         \* completions not polled yet, in order
    armed,      \* ib_req_notify_cq is in force
    event,      \* cq_thread is due
    cqpc,       \* where the completion callback is
    wc,         \* local wc of cq_event_handler, a receive
    state,      \* cb->state
    conn,       \* "up", "gone" (no peer), "dead" (queue pair in error)
    notified,   \* the CM has reported the disconnection
    handled     \* what the user's handler was run with for each call, in order

callVars == <<slot, new_seqn, seqn, send_buf>>
qpVars == <<sq, tx, rq>>
cqVars == <<cq, armed, event>>
cbVars == <<cqpc, wc>>
connVars == <<state, conn, notified>>
vars == <<bitmap, at, callVars, qpVars, srv, cqVars, cbVars, connVars, handled>>

(* enum rdma_ch_state, the part a connected channel goes through *)
CONNECTED == 5
WORKING == 6
DISCONNECTED == 7
ERROR == 8

(* 64-bit header fields travel in big-endian order. *)
htonll(x) == [be64 |-> x]
ntohll(x) == x.be64

ZeroMsg == [seq_num |-> htonll(0), sem_addr |-> htonll(NoCall), data |-> NoCall]

Completion(op, wr_id, call, msg) ==
    [op |-> op, wr_id |-> wr_id, call |-> call, msg |-> msg]

SendDone(c) == Completion("send", slot[c], c, ZeroMsg)

(* A work request on a dead queue pair completes with IB_WC_WR_FLUSH_ERR.  *)
FlushedSend(wr_id) == Completion("flushed_send", wr_id, NoCall, ZeroMsg)
FlushedRecv(wr_id) == Completion("flushed_recv", wr_id, NoCall, ZeroMsg)

(* Mutant: wr_id counts from 1. *)
PostedBuffersFromOne == [i \in 1 .. BIT_ARR_SIZE |-> i]

(* run_client posts every buffer; setup_wr made its index the wr_id. *)
PostedBuffers == [i \in 1 .. BIT_ARR_SIZE |-> i - 1]

Init ==
    /\ bitmap = EmptyBitmap
    /\ at = [c \in Calls |-> "new"]
    /\ slot = [c \in Calls |-> 0]
    /\ new_seqn = [c \in Calls |-> 0]
    /\ seqn = [b \in Bits |-> 1]
    /\ send_buf = [b \in Bits |-> ZeroMsg]
    /\ sq = <<>>
    /\ tx = 0
    /\ srv = {}
    /\ rq = PostedBuffers
    /\ cq = <<>>
    /\ armed = TRUE
    /\ event = FALSE
    /\ cqpc = "idle"
    /\ wc = FlushedRecv(0)
    /\ state = CONNECTED
    /\ conn = "up"
    /\ notified = FALSE
    /\ handled = [c \in Calls |-> <<>>]

-----------------------------------------------------------------------------
(* The requesters                                                          *)

(* Calls for which the user's handler has not been run. *)
Open == {c \in Calls : at[c] # "new" /\ handled[c] = <<>>}

Goto(c, where) == at' = [at EXCEPT ![c] = where]

Call(c) ==
    /\ at[c] = "new"
    /\ Cardinality(Open) < Requesters
    /\ Goto(c, "alloc")
    /\ UNCHANGED <<bitmap, callVars, qpVars, srv, cqVars, cbVars, connVars, handled>>

(* Mutant: the bit found is not set. *)
AllocUnmarked(c) ==
    /\ at[c] = "alloc"
    /\ \E i \in Bits :
          /\ bit_array_find_first_clear_bit(bitmap, i)
          /\ slot' = [slot EXCEPT ![c] = i]
    /\ Goto(c, "seqn")
    /\ UNCHANGED <<bitmap, new_seqn, seqn, send_buf, qpVars, srv, cqVars, cbVars,
                   connVars, handled>>

(* alloc_msgbuf_id, the turn of its loop that succeeds *)
AllocMsgbufId(c) ==
    /\ at[c] = "alloc"
    /\ \E i \in Bits :
          /\ bit_array_find_first_clear_bit(bitmap, i)
          /\ bitmap' = bit_array_set_bit(bitmap, i)
          /\ slot' = [slot EXCEPT ![c] = i]
    /\ Goto(c, "seqn")
    /\ UNCHANGED <<new_seqn, seqn, send_buf, qpVars, srv, cqVars, cbVars, connVars,
                   handled>>

(* alloc_seqn reads the counter ... *)
LoadSeqn(c) ==
    /\ at[c] = "seqn"
    /\ new_seqn' = [new_seqn EXCEPT ![c] = seqn[slot[c]] + 1]
    /\ Goto(c, "header")
    /\ UNCHANGED <<bitmap, slot, seqn, send_buf, qpVars, srv, cqVars, cbVars, connVars,
                   handled>>

(* Mutant: sem_addr is stored in a fresh buffer only. *)
FillHeaderKeepsSem(c) ==
    /\ at[c] = "header"
    /\ seqn' = [seqn EXCEPT ![slot[c]] = new_seqn[c]]
    /\ send_buf' = [send_buf EXCEPT
          ![slot[c]].seq_num = htonll(new_seqn[c]),
          ![slot[c]].sem_addr = IF @ = htonll(NoCall) THEN htonll(c) ELSE @]
    /\ Goto(c, "data")
    /\ UNCHANGED <<bitmap, slot, new_seqn, qpVars, srv, cqVars, cbVars, connVars, handled>>

(* ... and writes it back; send_rdma_msg fills in the header.  Its exit    *)
(* for msgbuf_id >= msgbuf_cnt and its use of a seqn other than 0 cannot   *)
(* be reached from send_rpc_msg_to_server: the pool's ids are below the    *)
(* count, and a client passes 0.                                           *)
FillHeader(c) ==
    /\ at[c] = "header"
    /\ seqn' = [seqn EXCEPT ![slot[c]] = new_seqn[c]]
    /\ send_buf' = [send_buf EXCEPT ![slot[c]].seq_num = htonll(new_seqn[c]),
                                    ![slot[c]].sem_addr = htonll(c)]
    /\ Goto(c, "data")
    /\ UNCHANGED <<bitmap, slot, new_seqn, qpVars, srv, cqVars, cbVars, connVars, handled>>

(* Mutant: the memcpy of the data is missing. *)
FillDataNothing(c) ==
    /\ at[c] = "data"
    /\ Goto(c, "post")
    /\ UNCHANGED <<bitmap, callVars, qpVars, srv, cqVars, cbVars, connVars, handled>>

FillData(c) ==
    /\ at[c] = "data"
    /\ send_buf' = [send_buf EXCEPT ![slot[c]].data = c]
    /\ Goto(c, "post")
    /\ UNCHANGED <<bitmap, slot, new_seqn, seqn, qpVars, srv, cqVars, cbVars, connVars,
                   handled>>

(* The CQ takes completions; an armed CQ schedules cq_thread once. *)
Complete(completions) ==
    /\ cq' = cq \o completions
    /\ event' = (event \/ (armed /\ completions # <<>>))
    /\ armed' = (armed /\ completions = <<>>)

(* A place in the send queue is given back when its completion is polled.  *)
OfSend == {"send", "flushed_send", "error"}
Count(completions, ops) ==
    Cardinality({i \in 1 .. Len(completions) : completions[i].op \in ops})
SqFull == Len(sq) + Count(cq, OfSend) >= SQ_DEPTH

(* ib_post_send succeeds; a dead queue pair flushes the request. *)
PostSend(c) ==
    /\ at[c] = "post"
    /\ ~ SqFull
    /\ IF conn = "dead"
       THEN /\ Complete(<<FlushedSend(slot[c])>>)
            /\ Goto(c, "lost")
            /\ UNCHANGED sq
       ELSE /\ sq' = Append(sq, c)
            /\ Goto(c, "sq")
            /\ UNCHANGED cqVars
    /\ UNCHANGED <<bitmap, callVars, tx, rq, srv, cbVars, connVars, handled>>

(* ib_post_send fails: send_rdma_msg returns 0, which its caller ignores.  *)
PostSendFails(c) ==
    /\ at[c] = "post"
    /\ SqFull
    /\ Goto(c, "dropped")
    /\ UNCHANGED <<bitmap, callVars, qpVars, srv, cqVars, cbVars, connVars, handled>>

-----------------------------------------------------------------------------
(* The queue pair, the network and the server                              *)

(* The device reads the send buffer when it transmits. *)
Transmit ==
    /\ conn = "up"
    /\ tx < Len(sq)
    /\ LET c == sq[tx + 1]
       IN  /\ srv' = srv \cup {[call |-> c, msg |-> send_buf[slot[c]]]}
           /\ Goto(c, "srv")
    /\ tx' = tx + 1
    /\ UNCHANGED <<bitmap, callVars, sq, rq, cqVars, cbVars, connVars, handled>>

(* The peer's acknowledgement completes the oldest transmitted request. *)
SendComplete ==
    /\ conn = "up"
    /\ tx > 0
    /\ Complete(<<SendDone(Head(sq))>>)
    /\ sq' = Tail(sq)
    /\ tx' = tx - 1
    /\ UNCHANGED <<bitmap, at, callVars, rq, srv, cbVars, connVars, handled>>

(* The server answers its requests in any order, with the header it was    *)
(* sent; the answer lands in the oldest posted receive buffer.             *)
Respond(r) ==
    /\ conn = "up"
    /\ r \in srv
    /\ rq # <<>>
    /\ srv' = srv \ {r}
    /\ rq' = Tail(rq)
    /\ Complete(<<Completion("recv", Head(rq), r.call, r.msg)>>)
    /\ Goto(r.call, "cq")
    /\ UNCHANGED <<bitmap, callVars, sq, tx, cbVars, connVars, handled>>

LosePeer ==
    /\ conn' = "gone"
    /\ srv' = {}
    /\ at' = [c \in Calls |-> IF at[c] = "srv" THEN "lost" ELSE at[c]]
    /\ UNCHANGED <<bitmap, callVars, qpVars, cqVars, cbVars, state, notified, handled>>

(* An answer that finds no receive buffer is not retried, as               *)
(* connect_client asks for rnr_retry_count 0: the server's side breaks.    *)
ReceiverNotReady ==
    /\ conn = "up"
    /\ srv # {}
    /\ rq = <<>>
    /\ LosePeer

PeerGone ==
    /\ "peer" \in Faults
    /\ conn = "up"
    /\ LosePeer

(* A send to a lost peer fails and takes the queue pair to error: all that *)
(* is posted is flushed.                                                   *)
SendFails ==
    /\ conn = "gone"
    /\ sq # <<>>
    /\ conn' = "dead"
    /\ Complete(<<Completion("error", slot[Head(sq)], NoCall, ZeroMsg)>>
                \o [i \in 1 .. (Len(sq) - 1) |-> FlushedSend(slot[sq[i + 1]])]
                \o [i \in 1 .. Len(rq) |-> FlushedRecv(rq[i])])
    /\ at' = [c \in Calls |-> IF at[c] = "sq" THEN "lost" ELSE at[c]]
    /\ sq' = <<>>
    /\ tx' = 0
    /\ rq' = <<>>
    /\ UNCHANGED <<bitmap, callVars, srv, cbVars, state, notified, handled>>

(* cma_event_handler, RDMA_CM_EVENT_DISCONNECTED *)
CmDisconnected ==
    /\ conn # "up"
    /\ ~ notified
    /\ notified' = TRUE
    /\ state' = DISCONNECTED
    /\ UNCHANGED <<bitmap, at, callVars, qpVars, srv, cqVars, cbVars, conn, handled>>

-----------------------------------------------------------------------------
(* The completion callback                                                 *)

(* Mutant: the CQ is not armed before it is polled ... *)
CqThreadUnarmed ==
    /\ cqpc = "idle"
    /\ event
    /\ event' = FALSE
    /\ cqpc' = IF state = ERROR THEN "idle" ELSE "poll"
    /\ UNCHANGED <<bitmap, at, callVars, qpVars, srv, cq, armed, wc, connVars, handled>>

(* cq_thread arms the CQ, then tests a ret that nothing has assigned. *)
CqThread ==
    /\ cqpc = "idle"
    /\ event
    /\ event' = FALSE
    /\ \/ state = ERROR /\ UNCHANGED <<armed, cqpc>>
       \/ /\ state # ERROR
          /\ armed' = TRUE
          /\ \E ret \in UninitRet : cqpc' = IF ret # 0 THEN "idle" ELSE "poll"
    /\ UNCHANGED <<bitmap, at, callVars, qpVars, srv, cq, wc, connVars, handled>>

Polled(op) == cqpc = "poll" /\ cq # <<>> /\ Head(cq).op = op

(* The loop of cq_event_handler ends: the CQ is empty. *)
PollEmpty ==
    /\ cqpc = "poll"
    /\ cq = <<>>
    /\ cqpc' = "idle"
    /\ UNCHANGED <<bitmap, at, callVars, qpVars, srv, cqVars, wc, connVars, handled>>

(* Mutant: the case of a send falls through to the ib_post_recv. *)
PollSendFallsThrough ==
    /\ Polled("send")
    /\ cq' = Tail(cq)
    /\ wc' = Head(cq)
    /\ cqpc' = "repost"
    /\ UNCHANGED <<bitmap, at, callVars, qpVars, srv, armed, event, connVars, handled>>

PollSendOrFlush ==
    /\ Polled("send") \/ Polled("flushed_send") \/ Polled("flushed_recv")
    /\ cq' = Tail(cq)
    /\ UNCHANGED <<bitmap, at, callVars, qpVars, srv, armed, event, cbVars, connVars,
                   handled>>

(* goto error *)
HandlerError ==
    /\ state' = ERROR
    /\ cqpc' = "idle"
    /\ UNCHANGED <<conn, notified>>

(* A completion with an error status, or a poll that fails. *)
PollError ==
    /\ \/ Polled("error") /\ cq' = Tail(cq)
       \/ cqpc = "poll" /\ "poll" \in Faults /\ UNCHANGED cq
    /\ HandlerError
    /\ UNCHANGED <<bitmap, at, callVars, qpVars, srv, armed, event, wc, handled>>

(* receive_msg has copied the message and calls rpc_msg_handler_cb. *)
PollRecv ==
    /\ Polled("recv")
    /\ cq' = Tail(cq)
    /\ wc' = Head(cq)
    /\ cqpc' = "free"
    /\ UNCHANGED <<bitmap, at, callVars, qpVars, srv, armed, event, connVars, handled>>

(* receive_msg fails: a message of the wrong size, or no memory. *)
PollRecvFails ==
    /\ "recv" \in Faults
    /\ Polled("recv")
    /\ cq' = Tail(cq)
    /\ Goto(Head(cq).call, "lost")
    /\ HandlerError
    /\ UNCHANGED <<bitmap, callVars, qpVars, srv, armed, event, wc, handled>>

(* Mutant: the ids freed are one too high, so the last id is for ever      *)
(* outside the pool.                                                       *)
FreeMsgbufIdNext ==
    /\ cqpc = "free"
    /\ bitmap' = bit_array_clear_bit(bitmap, wc.wr_id + 1)
    /\ Goto(wc.call, "freed")
    /\ cqpc' = "user"
    /\ UNCHANGED <<callVars, qpVars, srv, cqVars, wc, connVars, handled>>

(* client_rpc_rdma_msg_handler frees the id that is the index of the       *)
(* receive buffer.                                                         *)
FreeMsgbufId ==
    /\ cqpc = "free"
    /\ bitmap' = bit_array_clear_bit(bitmap, wc.wr_id)
    /\ Goto(wc.call, "freed")
    /\ cqpc' = "user"
    /\ UNCHANGED <<callVars, qpVars, srv, cqVars, wc, connVars, handled>>

(* client_rdma_msg_handler is run for the semaphore named in the header.   *)
(* The state that receive_msg then reads is read in the same step: until   *)
(* then the callback does nothing another actor depends on.                *)
UserHandler ==
    /\ cqpc = "user"
    /\ handled' = [handled EXCEPT ![ntohll(wc.msg.sem_addr)] =
          Append(@, [seqn |-> ntohll(wc.msg.seq_num), data |-> wc.msg.data])]
    /\ cqpc' = IF state <= CONNECTED THEN "working" ELSE "repost"
    /\ UNCHANGED <<bitmap, at, callVars, qpVars, srv, cqVars, wc, connVars>>

(* receive_msg stores WORKING on the strength of a state it read before. *)
SetWorking ==
    /\ cqpc = "working"
    /\ state' = WORKING
    /\ cqpc' = "repost"
    /\ UNCHANGED <<bitmap, at, callVars, qpVars, srv, cqVars, wc, conn, notified, handled>>

(* Mutant: the receive buffer is not posted again. *)
PostRecvSkipped ==
    /\ cqpc = "repost"
    /\ cqpc' = "poll"
    /\ UNCHANGED <<bitmap, at, callVars, qpVars, srv, cqVars, wc, connVars, handled>>

(* ib_post_recv of the same buffer; the loop goes on. *)
PostRecv ==
    /\ cqpc = "repost"
    /\ IF conn = "dead"
       THEN Complete(<<FlushedRecv(wc.wr_id)>>) /\ UNCHANGED rq
       ELSE rq' = Append(rq, wc.wr_id) /\ UNCHANGED cqVars
    /\ cqpc' = "poll"
    /\ UNCHANGED <<bitmap, at, callVars, sq, tx, srv, wc, connVars, handled>>

PostRecvFails ==
    /\ "repost" \in Faults
    /\ cqpc = "repost"
    /\ HandlerError
    /\ UNCHANGED <<bitmap, at, callVars, qpVars, srv, cqVars, wc, handled>>

-----------------------------------------------------------------------------
SendStep(c) ==
    LoadSeqn(c) \/ FillHeader(c) \/ FillData(c) \/ PostSend(c) \/ PostSendFails(c)

Requester(c) == Call(c) \/ AllocMsgbufId(c) \/ SendStep(c)

Callback ==
    \/ CqThread \/ PollEmpty \/ PollSendOrFlush \/ PollError
    \/ PollRecv \/ PollRecvFails \/ FreeMsgbufId \/ UserHandler
    \/ SetWorking \/ PostRecv \/ PostRecvFails

Environment ==
    \/ Transmit \/ SendComplete \/ ReceiverNotReady \/ PeerGone
    \/ SendFails \/ CmDisconnected
    \/ \E r \in srv : Respond(r)

Next ==
    \/ \E c \in Calls : Requester(c)
    \/ Callback
    \/ Environment

Spec == Init /\ [][Next]_vars

(* A requester inside send_rpc_msg_to_server, the callback, the device and *)
(* the server keep going; nothing obliges anyone to make another call.     *)
FairSpec ==
    /\ Spec
    /\ \A c \in Calls : WF_vars(AllocMsgbufId(c)) /\ WF_vars(SendStep(c))
    /\ WF_vars(Callback)
    /\ WF_vars(Transmit) /\ WF_vars(SendComplete)
    /\ WF_vars(\E r \in srv : Respond(r))

-----------------------------------------------------------------------------
(* Properties                                                              *)

Places == {"new", "alloc", "seqn", "header", "data", "post", "sq", "srv", "cq",
           "freed", "dropped", "lost"}

Msgs == [seq_num : [be64 : Nat], sem_addr : [be64 : Calls \cup {NoCall}],
         data : Calls \cup {NoCall}]

Completions == [op : {"send", "recv", "flushed_send", "flushed_recv", "error"}, wr_id : Bits,
                call : Calls \cup {NoCall}, msg : Msgs]

HandlerRuns == [Calls -> Seq([seqn : Nat, data : Calls \cup {NoCall}])]

TypeOK ==
    /\ bitmap \in BitArrays
    /\ at \in [Calls -> Places]
    /\ slot \in [Calls -> Bits]
    /\ new_seqn \in [Calls -> Nat]
    /\ seqn \in [Bits -> Nat]
    /\ send_buf \in [Bits -> Msgs]
    /\ sq \in Seq(Calls)
    /\ tx \in 0 .. Len(sq)
    /\ srv \subseteq [call : Calls, msg : Msgs]
    /\ rq \in Seq(Bits)
    /\ cq \in Seq(Completions)
    /\ armed \in BOOLEAN
    /\ event \in BOOLEAN
    /\ cqpc \in {"idle", "poll", "free", "user", "working", "repost"}
    /\ wc \in Completions
    /\ state \in {CONNECTED, WORKING, DISCONNECTED, ERROR}
    /\ conn \in {"up", "gone", "dead"}
    /\ notified \in BOOLEAN
    /\ handled \in HandlerRuns

(* Calls that were given an id and for which no id has been given back. *)
Filling == {"seqn", "header", "data", "post"}
Held == {c \in Calls : at[c] \in Filling \cup {"sq", "srv", "cq", "dropped", "lost"}}

(* The pool is a window: although a response gives back the id of the      *)
(* buffer it landed in and not the id its request was given, there are     *)
(* never more calls under way than ids taken, and so never more than       *)
(* RPC_MSG_BUF_NUM.                                                        *)
WindowBound == Cardinality(Held) <= Cardinality(Taken(bitmap))

(* Why the count works, and the inductive invariant behind WindowBound: a  *)
(* message is in one place only, the place "at" names, so each response    *)
(* gives back one id on behalf of one call that still holds one.           *)
SqInv ==
    /\ \A i \in 1 .. Len(sq) : i > tx => at[sq[i]] = "sq"
    /\ \A i, j \in 1 .. Len(sq) : i > tx /\ j > tx /\ sq[i] = sq[j] => i = j

SrvInv ==
    /\ \A r \in srv : at[r.call] = "srv"
    /\ \A r, q \in srv : r.call = q.call => r = q

CqInv ==
    /\ \A i \in 1 .. Len(cq) :
          cq[i].op = "recv" => cq[i].call \in Calls /\ at[cq[i].call] = "cq"
    /\ \A i, j \in 1 .. Len(cq) :
          cq[i].op = "recv" /\ cq[j].op = "recv" /\ cq[i].call = cq[j].call => i = j

WcInv ==
    cqpc = "free" =>
        /\ wc.call \in Calls
        /\ at[wc.call] = "cq"
        /\ \A i \in 1 .. Len(cq) : cq[i].op = "recv" => cq[i].call # wc.call

OnePlaceInv == SqInv /\ SrvInv /\ CqInv /\ WcInv

(* alloc_msgbuf_id does not spin for nothing: when all ids are taken some  *)
(* call is under way (or failed to be posted, or was lost), whatever ids   *)
(* earlier responses gave back.                                            *)
PoolFullMeansCallUnderWay == NoClearBit(bitmap) => Held # {}

(* The inductive invariant. *)
ChannelInv == TypeOK /\ OnePlaceInv /\ WindowBound /\ PoolFullMeansCallUnderWay

(* A receive buffer is posted for every request on its way to an answer,   *)
(* except that one may be missing while cq_event_handler is between the    *)
(* release of an id and the ib_post_recv: the window in which a fast       *)
(* server finds the receiver not ready.                                    *)
Unanswered == {c \in Calls : at[c] \in Filling \cup {"sq", "srv"}}
ReceiverReady ==
    conn = "up" /\ state # ERROR =>
        Cardinality(Unanswered) <=
            Len(rq) + IF cqpc \in {"user", "working", "repost"} THEN 1 ELSE 0

(* The completion queue never has to hold more than the send queue and the *)
(* receive buffers: what setup_qp would have to ask for instead of cqe 0.  *)
CqBounded == Len(cq) <= SQ_DEPTH + BIT_ARR_SIZE

(* No completion is left in the CQ with nobody coming to poll it: cq_thread *)
(* arms the CQ before it polls, so what arrives late raises a new event.   *)
CompletionNotStranded ==
    cq # <<>> /\ cqpc = "idle" /\ state < DISCONNECTED => event

(* The user's handler is run for a call at most once, and with the answer  *)
(* to its own request, under the sequence number its request drew.         *)
AnswerMatchesCall ==
    \A c \in Calls : handled[c] \in {<<>>, <<[seqn |-> new_seqn[c], data |-> c]>>}

(* The user's handler is run for every call: no id, receive buffer or      *)
(* completion event is lost on a channel without faults.  That a requester *)
(* asleep on its semaphore would be resumed is not claimed: a wake-up that *)
(* comes before it sleeps leaves no trace, and the response may come       *)
(* before send_rpc_msg_to_server returns.                                  *)
EveryCallAnswered == \A c \in Calls : at[c] = "alloc" ~> handled[c] # <<>>

(* The channel as its user sees it. *)
Service == INSTANCE RpcService WITH
    open <- Open,
    answers <- [c \in Calls |-> [i \in 1 .. Len(handled[c]) |-> handled[c][i].data]]

(* For a requester that makes one call at a time, the buffers, the queues  *)
(* and the callback come to the service of RpcService: the handler is run  *)
(* for a call once and with its own answer, although ids are given back by *)
(* position.                                                               *)
ServiceSpec == Service!Spec

-----------------------------------------------------------------------------
(* What comments of the code say                                           *)

(* "A msg buffer is being allocated until the client receives a response": *)
(* the bit of an unanswered call stays set, so that nobody else is given   *)
(* its buffer and sequence number.                                         *)
SlotHeldUntilAnswered == \A c \in Unanswered : bitmap[slot[c]] = 1
=============================================================================
