-------------------------- MODULE RpcChannelProofs --------------------------
(***************************************************************************)
(* Proofs about the channel at work, for any number of calls, requesters   *)
(* and buffers, any faults and any value of the uninitialised ret.         *)
(***************************************************************************)
EXTENDS RpcChannel, BitmapProofs, SequenceTheorems, FiniteSetTheorems

(* The zeroed message and the completions made of it are well-typed. *)
LEMMA CompletionTypes ==
    /\ ZeroMsg \in Msgs
    /\ \A op \in {"send", "recv", "flushed_send", "flushed_recv", "error"}, b \in Bits,
          c \in Calls \cup {NoCall}, m \in Msgs : Completion(op, b, c, m) \in Completions
    /\ \A b \in Bits : FlushedSend(b) \in Completions /\ FlushedRecv(b) \in Completions
BY DEF ZeroMsg, Msgs, htonll, Completion, Completions, FlushedSend, FlushedRecv

(* A one-element sequence of completions is a sequence of completions. *)
LEMMA OneCompletion ==
    ASSUME NEW e \in Completions
    PROVE  <<e>> \in Seq(Completions)
OBVIOUS

(* What Complete does to the completion queue and its notification. *)
LEMMA CompleteType ==
    ASSUME cq \in Seq(Completions), armed \in BOOLEAN, event \in BOOLEAN,
           NEW s \in Seq(Completions), Complete(s)
    PROVE  /\ cq' \in Seq(Completions)
           /\ armed' \in BOOLEAN
           /\ event' \in BOOLEAN
BY DEF Complete

(* A freshly connected channel is well-typed. *)
LEMMA TypeInit == Init => TypeOK
<1> SUFFICES ASSUME Init PROVE TypeOK
    OBVIOUS
<1>1. 0 \in Bits /\ EmptyBitmap \in BitArrays
    BY BitArrSizeAssumption DEF Bits, EmptyBitmap, BitArrays
<1>2. PostedBuffers \in Seq(Bits)
    BY BitArrSizeAssumption DEF PostedBuffers, Bits
<1>3. <<>> \in Seq(Completions) /\ <<>> \in Seq(Calls)
    OBVIOUS
<1>4. bitmap \in BitArrays /\ rq \in Seq(Bits) /\ cq \in Seq(Completions) /\ sq \in Seq(Calls)
    BY <1>1, <1>2, <1>3 DEF Init
<1>5. wc \in Completions
    BY <1>1, CompletionTypes DEF Init
<1>6. send_buf \in [Bits -> Msgs]
    BY CompletionTypes DEF Init
<1>7. tx \in 0 .. Len(sq)
    BY DEF Init
<1>8. handled \in HandlerRuns
    BY DEF Init, HandlerRuns
<1> QED
    BY <1>1, <1>4, <1>5, <1>6, <1>7, <1>8 DEF Init, TypeOK, Places

-----------------------------------------------------------------------------
(* Each step keeps the types.  One lemma per actor.                        *)

(* The steps of send_rpc_msg_to_server and send_rdma_msg. *)
LEMMA RequesterType ==
    ASSUME TypeOK, NEW c \in Calls, Requester(c)
    PROVE  TypeOK'
<1> USE DEF TypeOK, Goto, callVars, qpVars, cqVars, cbVars, connVars, Places
<1>1. CASE Call(c)
    BY <1>1 DEF Call
<1>2. CASE AllocMsgbufId(c)
    BY <1>2 DEF AllocMsgbufId, bit_array_set_bit, BitArrays
<1>3. CASE LoadSeqn(c)
    BY <1>3 DEF LoadSeqn
<1>4. CASE FillHeader(c)
    <2>1. new_seqn[c] \in Nat /\ slot[c] \in Bits
        OBVIOUS
    <2>2. send_buf' \in [Bits -> Msgs]
        <3> DEFINE m == [send_buf[slot[c]] EXCEPT !.seq_num = htonll(new_seqn[c]),
                                                  !.sem_addr = htonll(c)]
        <3>1. m \in Msgs
            <4>1. send_buf[slot[c]] \in Msgs
                BY <2>1
            <4>2. htonll(new_seqn[c]) \in [be64 : Nat] /\ htonll(c) \in [be64 : Calls \cup {NoCall}]
                BY <2>1 DEF htonll
            <4> HIDE DEF TypeOK
            <4> QED
                BY <4>1, <4>2 DEF Msgs
        <3>2. send_buf' = [send_buf EXCEPT ![slot[c]] = m]
            BY <1>4, <2>1 DEF FillHeader, Msgs
        <3> QED
            BY <2>1, <3>1, <3>2
    <2>3. seqn' \in [Bits -> Nat]
        BY <1>4, <2>1 DEF FillHeader
    <2> QED
        BY <1>4, <2>2, <2>3 DEF FillHeader
<1>5. CASE FillData(c)
    <2>1. send_buf' \in [Bits -> Msgs]
        BY <1>5 DEF FillData, Msgs
    <2> QED
        BY <1>5, <2>1 DEF FillData
<1>6. CASE PostSend(c)
    <2>1. CASE conn = "dead"
        <3>1. cq' \in Seq(Completions) /\ armed' \in BOOLEAN /\ event' \in BOOLEAN
            BY <1>6, <2>1, CompletionTypes, OneCompletion, CompleteType DEF PostSend
        <3> QED
            BY <1>6, <2>1, <3>1 DEF PostSend
    <2>2. CASE conn # "dead"
        <3>1. sq' \in Seq(Calls) /\ tx' \in 0 .. Len(sq')
            <4>1. sq' = Append(sq, c) /\ tx' = tx /\ sq \in Seq(Calls) /\ tx \in 0 .. Len(sq)
                BY <1>6, <2>2 DEF PostSend
            <4> HIDE DEF TypeOK
            <4> QED
                BY <4>1
        <3> QED
            BY <1>6, <2>2, <3>1 DEF PostSend
    <2> QED
        BY <2>1, <2>2
<1>7. CASE PostSendFails(c)
    BY <1>7 DEF PostSendFails
<1> QED
    BY <1>1, <1>2, <1>3, <1>4, <1>5, <1>6, <1>7 DEF Requester, SendStep

(* The steps of the queue pair, the network, the server and the CM. *)
LEMMA EnvironmentType ==
    ASSUME TypeOK, Environment
    PROVE  TypeOK'
<1> USE DEF TypeOK, Goto, callVars, qpVars, cqVars, cbVars, connVars, Places
<1>1. CASE Transmit
    BY <1>1 DEF Transmit
<1>2. CASE SendComplete
    <2>1. sq # <<>> /\ Head(sq) \in Calls /\ slot[Head(sq)] \in Bits
        BY <1>2 DEF SendComplete
    <2>2. cq' \in Seq(Completions) /\ armed' \in BOOLEAN /\ event' \in BOOLEAN
        BY <1>2, <2>1, CompletionTypes, OneCompletion, CompleteType DEF SendComplete, SendDone
    <2>3. sq' \in Seq(Calls) /\ tx' \in 0 .. Len(sq')
        BY <1>2, <2>1 DEF SendComplete
    <2> QED
        BY <1>2, <2>2, <2>3 DEF SendComplete
<1>3. ASSUME NEW r \in srv, Respond(r)
      PROVE  TypeOK'
    <2>1. r.call \in Calls /\ r.msg \in Msgs /\ Head(rq) \in Bits /\ rq' \in Seq(Bits)
        BY <1>3 DEF Respond
    <2>2. cq' \in Seq(Completions) /\ armed' \in BOOLEAN /\ event' \in BOOLEAN
        BY <1>3, <2>1, CompletionTypes, OneCompletion, CompleteType DEF Respond
    <2> QED
        BY <1>3, <2>1, <2>2 DEF Respond
<1>4. CASE ReceiverNotReady \/ PeerGone
    BY <1>4 DEF ReceiverNotReady, PeerGone, LosePeer
<1>5. CASE SendFails
    <2> DEFINE e == Completion("error", slot[Head(sq)], NoCall, ZeroMsg)
               s == [i \in 1 .. (Len(sq) - 1) |-> FlushedSend(slot[sq[i + 1]])]
               t == [i \in 1 .. Len(rq) |-> FlushedRecv(rq[i])]
    <2>1. sq # <<>> /\ Len(sq) \in Nat /\ Len(sq) > 0
        BY <1>5 DEF SendFails
    <2>2. <<e>> \in Seq(Completions)
        <3>1. slot[Head(sq)] \in Bits
            BY <2>1
        <3>2. e \in Completions
            BY <3>1, CompletionTypes
        <3> QED
            BY <3>2, OneCompletion
    <2>3. s \in Seq(Completions)
        <3>1. \A i \in 1 .. (Len(sq) - 1) : FlushedSend(slot[sq[i + 1]]) \in Completions
            BY <2>1, CompletionTypes
        <3> QED
            BY <2>1, <3>1
    <2>4. t \in Seq(Completions)
        <3>1. \A i \in 1 .. Len(rq) : FlushedRecv(rq[i]) \in Completions
            BY CompletionTypes
        <3> QED
            BY <3>1
    <2> HIDE DEF e, s, t
    <2>5. <<e>> \o s \o t \in Seq(Completions)
        BY <2>2, <2>3, <2>4
    <2>6. Complete(<<e>> \o s \o t)
        BY <1>5 DEF SendFails, e, s, t
    <2>7. cq' \in Seq(Completions) /\ armed' \in BOOLEAN /\ event' \in BOOLEAN
        BY <2>5, <2>6, CompleteType
    <2> QED
        BY <1>5, <2>7 DEF SendFails
<1>6. CASE CmDisconnected
    BY <1>6 DEF CmDisconnected
<1> QED
    BY <1>1, <1>2, <1>3, <1>4, <1>5, <1>6 DEF Environment

(* The steps of cq_thread and what it calls. *)
LEMMA CallbackType ==
    ASSUME TypeOK, Callback
    PROVE  TypeOK'
<1> USE DEF TypeOK, Goto, callVars, qpVars, cqVars, cbVars, connVars, Places
<1>1. CASE CqThread
    BY <1>1 DEF CqThread
<1>2. CASE PollEmpty
    BY <1>2 DEF PollEmpty
<1>3. CASE PollSendOrFlush
    BY <1>3 DEF PollSendOrFlush, Polled
<1>4. CASE PollError
    <2>1. cq' \in Seq(Completions)
        <3>1. cq \in Seq(Completions)
            OBVIOUS
        <3>2. cq' = cq \/ (cq # <<>> /\ cq' = Tail(cq))
            BY <1>4 DEF PollError, Polled
        <3> HIDE DEF TypeOK
        <3> QED
            BY <3>1, <3>2
    <2> QED
        BY <1>4, <2>1 DEF PollError, HandlerError
<1>5. CASE PollRecv
    BY <1>5 DEF PollRecv, Polled
<1>6. CASE PollRecvFails
    <2>1. cq' \in Seq(Completions)
        BY <1>6 DEF PollRecvFails, Polled
    <2>2. at' \in [Calls -> Places]
        BY <1>6 DEF PollRecvFails
    <2> QED
        BY <1>6, <2>1, <2>2 DEF PollRecvFails, HandlerError
<1>7. CASE FreeMsgbufId
    BY <1>7 DEF FreeMsgbufId, bit_array_clear_bit, BitArrays
<1>8. CASE UserHandler
    <2>1. ntohll(wc.msg.seq_num) \in Nat /\ wc.msg.data \in Calls \cup {NoCall}
        BY DEF Completions, Msgs, ntohll
    <2>2. handled' \in HandlerRuns
        <3> DEFINE a == [seqn |-> ntohll(wc.msg.seq_num), data |-> wc.msg.data]
                   w == ntohll(wc.msg.sem_addr)
        <3>1. a \in [seqn : Nat, data : Calls \cup {NoCall}]
            BY <2>1
        <3>2. handled' = [handled EXCEPT ![w] = Append(@, a)] /\ handled \in HandlerRuns
            BY <1>8 DEF UserHandler
        <3> HIDE DEF TypeOK, a, w
        <3>3. ASSUME NEW d \in Calls
              PROVE  Append(handled[d], a) \in Seq([seqn : Nat, data : Calls \cup {NoCall}])
            <4>1. handled[d] \in Seq([seqn : Nat, data : Calls \cup {NoCall}])
                BY <3>2 DEF HandlerRuns
            <4> QED
                BY <3>1, <4>1, AppendProperties
        <3> QED
            BY <3>2, <3>3 DEF HandlerRuns
    <2> QED
        BY <1>8, <2>2 DEF UserHandler
<1>9. CASE SetWorking
    BY <1>9 DEF SetWorking
<1>10. CASE PostRecv
    <2>1. wc.wr_id \in Bits
        BY DEF Completions
    <2>2. CASE conn = "dead"
        <3>1. cq' \in Seq(Completions) /\ armed' \in BOOLEAN /\ event' \in BOOLEAN
            BY <1>10, <2>1, <2>2, CompletionTypes, OneCompletion, CompleteType DEF PostRecv
        <3> QED
            BY <1>10, <2>2, <3>1 DEF PostRecv
    <2>3. CASE conn # "dead"
        <3>1. rq' \in Seq(Bits)
            <4>1. rq' = Append(rq, wc.wr_id) /\ rq \in Seq(Bits)
                BY <1>10, <2>3 DEF PostRecv
            <4> HIDE DEF TypeOK
            <4> QED
                BY <2>1, <4>1
        <3> QED
            BY <1>10, <2>3, <3>1 DEF PostRecv
    <2> QED
        BY <2>2, <2>3
<1>11. CASE PostRecvFails
    BY <1>11 DEF PostRecvFails, HandlerError
<1> QED
    BY <1>1, <1>2, <1>3, <1>4, <1>5, <1>6, <1>7, <1>8, <1>9, <1>10, <1>11 DEF Callback

(* No step, and no stuttering step, breaks the types. *)
LEMMA TypeStep == TypeOK /\ [Next]_vars => TypeOK'
<1> SUFFICES ASSUME TypeOK, [Next]_vars PROVE TypeOK'
    OBVIOUS
<1>1. CASE UNCHANGED vars
    BY <1>1 DEF vars, callVars, qpVars, cqVars, cbVars, connVars, TypeOK
<1> QED
    BY <1>1, RequesterType, CallbackType, EnvironmentType DEF Next

(* The channel's variables keep their types: every wr_id and slot is the   *)
(* index of a buffer, and the send queue never has more transmitted        *)
(* requests than requests.                                                 *)
THEOREM ChannelTypeCorrect == Spec => []TypeOK
<1>1. Init => TypeOK
    BY TypeInit
<1>2. TypeOK /\ [Next]_vars => TypeOK'
    BY TypeStep
<1> QED
    BY <1>1, <1>2, PTL DEF Spec

-----------------------------------------------------------------------------
(* Every message is in one place.  First what is enough for each part of   *)
(* OnePlaceInv to survive a step; Kept(p) says that no call leaves p.      *)

Kept(p) == \A c \in Calls : at[c] = p => at'[c] = p

(* The send queue and the places of its calls are left alone. *)
LEMMA SqKept ==
    ASSUME TypeOK, SqInv, UNCHANGED <<sq, tx>>, Kept("sq")
    PROVE  SqInv'
BY DEF TypeOK, SqInv, Kept

(* The server's requests and the places of their calls are left alone. *)
LEMMA SrvKept ==
    ASSUME TypeOK, SrvInv, srv' = srv, Kept("srv")
    PROVE  SrvInv'
<1>1. \A r \in srv : r.call \in Calls
    BY DEF TypeOK
<1> QED
    BY <1>1 DEF SrvInv, Kept

(* Completions other than receives join the completion queue. *)
LEMMA CqGrows ==
    ASSUME TypeOK, CqInv, WcInv, Kept("cq"), UNCHANGED cbVars,
           NEW s \in Seq(Completions), \A i \in 1 .. Len(s) : s[i].op # "recv",
           cq' = cq \o s
    PROVE  CqInv' /\ WcInv'
<1>1. cq \in Seq(Completions)
    BY DEF TypeOK
<1>2. \A i \in 1 .. Len(cq') : cq'[i].op = "recv" => i \in 1 .. Len(cq) /\ cq'[i] = cq[i]
    BY <1>1
<1>3. ASSUME NEW i \in 1 .. Len(cq'), cq'[i].op = "recv"
      PROVE  cq'[i].call \in Calls /\ at'[cq'[i].call] = "cq"
    BY <1>2, <1>3 DEF CqInv, Kept
<1>4. ASSUME NEW i \in 1 .. Len(cq'), NEW j \in 1 .. Len(cq'),
             cq'[i].op = "recv", cq'[j].op = "recv", cq'[i].call = cq'[j].call
      PROVE  i = j
    BY <1>2, <1>4 DEF CqInv
<1>5. CqInv'
    BY <1>3, <1>4 DEF CqInv
<1>6. WcInv'
    BY <1>2 DEF WcInv, Kept, cbVars
<1> QED
    BY <1>5, <1>6

(* The completion queue is left alone. *)
LEMMA CqKept ==
    ASSUME TypeOK, CqInv, WcInv, Kept("cq"), cq' = cq,
           cqpc' = "free" => cqpc = "free" /\ wc' = wc
    PROVE  CqInv' /\ WcInv'
BY DEF TypeOK, CqInv, WcInv, Kept

(* A completion is polled; if it is a receive its call may go. *)
LEMMA CqPolled ==
    ASSUME TypeOK, CqInv, cq # <<>>, cq' = Tail(cq),
           \A c \in Calls : at[c] = "cq" /\ at'[c] # "cq" =>
                                Head(cq).op = "recv" /\ c = Head(cq).call
    PROVE  CqInv'
<1>1. cq \in Seq(Completions)
    BY DEF TypeOK
<1>2. /\ Len(cq') = Len(cq) - 1
      /\ \A i \in 1 .. Len(cq') : i + 1 \in 2 .. Len(cq) /\ cq'[i] = cq[i + 1]
      /\ Head(cq) = cq[1] /\ 1 \in 1 .. Len(cq)
    BY <1>1
<1>3. ASSUME NEW i \in 1 .. Len(cq'), cq'[i].op = "recv"
      PROVE  cq'[i].call \in Calls /\ at'[cq'[i].call] = "cq"
    <2>1. i + 1 \in 1 .. Len(cq) /\ cq[i + 1] = cq'[i]
        BY <1>2
    <2>2. cq'[i].call \in Calls /\ at[cq'[i].call] = "cq"
        BY <1>3, <2>1 DEF CqInv
    <2>3. Head(cq).op = "recv" => Head(cq).call # cq'[i].call
        BY <1>2, <1>3, <2>1 DEF CqInv
    <2> QED
        BY <2>2, <2>3
<1>4. ASSUME NEW i \in 1 .. Len(cq'), NEW j \in 1 .. Len(cq'),
             cq'[i].op = "recv", cq'[j].op = "recv", cq'[i].call = cq'[j].call
      PROVE  i = j
    <2>1. i + 1 \in 1 .. Len(cq) /\ j + 1 \in 1 .. Len(cq)
        BY <1>2
    <2>2. i + 1 = j + 1
        BY <1>2, <1>4, <2>1 DEF CqInv
    <2> QED
        BY <2>2
<1> QED
    BY <1>3, <1>4 DEF CqInv

(* A channel that has just connected has no messages. *)
LEMMA OnePlaceInit == Init => OnePlaceInv
BY DEF Init, OnePlaceInv, SqInv, SrvInv, CqInv, WcInv

(* The requesters create a message when they post it, nowhere else. *)
LEMMA RequesterOnePlace ==
    ASSUME TypeOK, OnePlaceInv, NEW c \in Calls, Requester(c)
    PROVE  OnePlaceInv'
<1> USE DEF OnePlaceInv
<1>1. ASSUME at[c] \notin {"sq", "srv", "cq"}, NEW w, Goto(c, w)
      PROVE  Kept("sq") /\ Kept("srv") /\ Kept("cq")
    BY <1>1 DEF Kept, Goto, TypeOK
<1>2. CASE \/ Call(c) \/ AllocMsgbufId(c) \/ LoadSeqn(c) \/ FillHeader(c) \/ FillData(c)
           \/ PostSendFails(c)
    <2>1. Kept("sq") /\ Kept("srv") /\ Kept("cq")
        BY <1>1, <1>2
        DEF Call, AllocMsgbufId, LoadSeqn, FillHeader, FillData, PostSendFails
    <2>2. UNCHANGED <<sq, tx, srv, cq, cqpc, wc>>
        BY <1>2
        DEF Call, AllocMsgbufId, LoadSeqn, FillHeader, FillData, PostSendFails,
            qpVars, cqVars, cbVars
    <2> QED
        BY <2>1, <2>2, SqKept, SrvKept, CqKept
<1>3. CASE PostSend(c) /\ conn = "dead"
    <2>1. Kept("sq") /\ Kept("srv") /\ Kept("cq")
        BY <1>1, <1>3 DEF PostSend
    <2>2. UNCHANGED <<sq, tx, srv, cbVars>>
        BY <1>3 DEF PostSend
    <2> DEFINE s == <<FlushedSend(slot[c])>>
    <2>3. s \in Seq(Completions) /\ \A i \in 1 .. Len(s) : s[i].op # "recv"
        <3>1. slot[c] \in Bits
            BY DEF TypeOK
        <3> QED
            BY <3>1, CompletionTypes, OneCompletion DEF FlushedSend, Completion
    <2>4. cq' = cq \o s
        BY <1>3 DEF PostSend, Complete
    <2> HIDE DEF s
    <2>5. CqInv' /\ WcInv'
        BY <2>1, <2>2, <2>3, <2>4, CqGrows
    <2> QED
        BY <2>1, <2>2, <2>5, SqKept, SrvKept
<1>4. CASE PostSend(c) /\ conn # "dead"
    <2>1. Kept("sq") /\ Kept("srv") /\ Kept("cq")
        BY <1>1, <1>4 DEF PostSend
    <2>2. UNCHANGED <<tx, srv, cq, cqpc, wc>>
        BY <1>4 DEF PostSend, cqVars, cbVars
    <2>3. sq' = Append(sq, c) /\ at[c] = "post" /\ at'[c] = "sq"
        BY <1>4 DEF PostSend, Goto, TypeOK
    <2>4. sq \in Seq(Calls) /\ tx \in 0 .. Len(sq)
        BY DEF TypeOK
    <2>5. /\ Len(sq') = Len(sq) + 1
          /\ \A i \in 1 .. Len(sq) : sq'[i] = sq[i] /\ sq[i] \in Calls
          /\ sq'[Len(sq) + 1] = c
        BY <2>3, <2>4
    <2>6. \A i \in 1 .. Len(sq) : i > tx => sq[i] # c
        BY <2>3 DEF SqInv
    <2>7. SqInv'
        BY <2>1, <2>2, <2>3, <2>4, <2>5, <2>6 DEF SqInv, Kept
    <2> QED
        BY <2>1, <2>2, <2>7, SrvKept, CqKept
<1> QED
    BY <1>2, <1>3, <1>4 DEF Requester, SendStep

(* The queue pair, the network and the server move a message to its next   *)
(* place, or lose it.                                                      *)
LEMMA EnvironmentOnePlace ==
    ASSUME TypeOK, OnePlaceInv, Environment
    PROVE  OnePlaceInv'
<1> USE DEF OnePlaceInv
<1>1. CASE Transmit
    <2> DEFINE c == sq[tx + 1]
    <2>1. tx + 1 \in 1 .. Len(sq) /\ c \in Calls /\ at[c] = "sq" /\ at'[c] = "srv"
        BY <1>1 DEF Transmit, Goto, TypeOK, SqInv
    <2>2. \A d \in Calls \ {c} : at'[d] = at[d]
        BY <1>1, <2>1 DEF Transmit, Goto, TypeOK
    <2>3. sq' = sq /\ tx' = tx + 1 /\ srv' = srv \cup {[call |-> c, msg |-> send_buf[slot[c]]]}
        BY <1>1 DEF Transmit
    <2>4. sq \in Seq(Calls) /\ tx \in 0 .. Len(sq) /\ \A r \in srv : r.call \in Calls
        BY DEF TypeOK
    <2> HIDE DEF c
    <2>5. SqInv'
        <3>1. \A i \in 1 .. Len(sq) : i > tx + 1 => sq[i] # c
            BY <2>1, <2>4 DEF SqInv, c
        <3> QED
            BY <2>2, <2>3, <2>4, <3>1 DEF SqInv
    <2>6. SrvInv'
        <3>1. \A r \in srv : r.call # c
            BY <2>1 DEF SrvInv
        <3> QED
            BY <2>1, <2>2, <2>3, <2>4, <3>1 DEF SrvInv
    <2>7. Kept("cq") /\ UNCHANGED <<cq, cqpc, wc>>
        BY <1>1, <2>1, <2>2 DEF Transmit, Kept, cqVars, cbVars
    <2> QED
        BY <2>5, <2>6, <2>7, CqKept
<1>2. CASE SendComplete
    <2>1. sq # <<>> /\ sq \in Seq(Calls) /\ tx \in 1 .. Len(sq)
        BY <1>2 DEF SendComplete, TypeOK
    <2>2. /\ Len(sq') = Len(sq) - 1 /\ tx' = tx - 1
          /\ \A i \in 1 .. Len(sq') : sq'[i] = sq[i + 1] /\ i + 1 \in 1 .. Len(sq)
        BY <1>2, <2>1 DEF SendComplete
    <2>3. at' = at /\ srv' = srv /\ UNCHANGED cbVars
        BY <1>2 DEF SendComplete
    <2>4. SqInv'
        <3>1. \A i \in 1 .. Len(sq') : i > tx' => i + 1 > tx
            BY <2>1, <2>2
        <3>2. \A i \in 1 .. Len(sq') : i > tx' => at'[sq'[i]] = "sq"
            BY <2>2, <2>3, <3>1 DEF SqInv
        <3>3. ASSUME NEW i \in 1 .. Len(sq'), NEW j \in 1 .. Len(sq'),
                     i > tx', j > tx', sq'[i] = sq'[j]
              PROVE  i = j
            <4>1. i + 1 = j + 1
                BY <2>2, <3>1, <3>3 DEF SqInv
            <4> QED
                BY <4>1
        <3> QED
            BY <3>2, <3>3 DEF SqInv
    <2> DEFINE s == <<SendDone(Head(sq))>>
    <2>5. s \in Seq(Completions) /\ \A i \in 1 .. Len(s) : s[i].op # "recv"
        <3>1. Head(sq) \in Calls /\ slot[Head(sq)] \in Bits
            BY <2>1 DEF TypeOK
        <3> QED
            BY <3>1, CompletionTypes, OneCompletion DEF SendDone, Completion
    <2>6. cq' = cq \o s
        BY <1>2 DEF SendComplete, Complete
    <2> HIDE DEF s
    <2>7. Kept("cq") /\ Kept("srv")
        BY <2>3 DEF Kept
    <2> QED
        BY <2>3, <2>4, <2>5, <2>6, <2>7, SrvKept, CqGrows
<1>3. ASSUME NEW r \in srv, Respond(r)
      PROVE  OnePlaceInv'
    <2> DEFINE c == r.call
               e == Completion("recv", Head(rq), r.call, r.msg)
    <2>1. c \in Calls /\ at[c] = "srv" /\ at'[c] = "cq" /\ \A d \in Calls \ {c} : at'[d] = at[d]
        BY <1>3 DEF Respond, Goto, TypeOK, SrvInv
    <2>2. srv' = srv \ {r} /\ UNCHANGED <<sq, tx, cqpc, wc>>
        BY <1>3 DEF Respond, cbVars
    <2>3. e.op = "recv" /\ e.call = c
        BY DEF Completion
    <2>4. e \in Completions
        <3>1. Head(rq) \in Bits /\ r.msg \in Msgs
            BY <1>3 DEF Respond, TypeOK
        <3> QED
            BY <2>1, <3>1, CompletionTypes
    <2>5. cq' = cq \o <<e>> /\ cq \in Seq(Completions)
        BY <1>3 DEF Respond, Complete, TypeOK
    <2> HIDE DEF c, e
    <2>6. SrvInv'
        <3>1. \A q \in srv' : q \in srv /\ q.call \in Calls /\ q.call # c
            BY <2>2 DEF SrvInv, TypeOK, c
        <3> QED
            BY <2>1, <2>2, <3>1 DEF SrvInv
    <2>7. Kept("sq") /\ Kept("cq")
        BY <2>1 DEF Kept
    <2>8. /\ Len(cq') = Len(cq) + 1
          /\ \A i \in 1 .. Len(cq) : cq'[i] = cq[i]
          /\ cq'[Len(cq) + 1] = e
        BY <2>4, <2>5
    <2>9. \A i \in 1 .. Len(cq) : cq[i].op = "recv" => cq[i].call # c
        BY <2>1 DEF CqInv
    <2>10. CqInv'
        <3>1. \A i \in 1 .. Len(cq') :
                  cq'[i].op = "recv" => cq'[i].call \in Calls /\ at'[cq'[i].call] = "cq"
            BY <2>1, <2>3, <2>5, <2>7, <2>8 DEF CqInv, Kept
        <3>2. \A i, j \in 1 .. Len(cq') :
                  cq'[i].op = "recv" /\ cq'[j].op = "recv" /\ cq'[i].call = cq'[j].call => i = j
            BY <2>3, <2>5, <2>8, <2>9 DEF CqInv
        <3> QED
            BY <3>1, <3>2 DEF CqInv
    <2>11. WcInv'
        <3>1. cqpc = "free" => wc.call # c
            BY <2>1 DEF WcInv
        <3> QED
            BY <2>2, <2>3, <2>5, <2>7, <2>8, <3>1 DEF WcInv, Kept
    <2> QED
        BY <2>2, <2>6, <2>7, <2>10, <2>11, SqKept
<1>4. CASE ReceiverNotReady \/ PeerGone
    <2>1. LosePeer
        BY <1>4 DEF ReceiverNotReady, PeerGone
    <2>2. Kept("sq") /\ Kept("cq") /\ srv' = {}
        BY <2>1 DEF LosePeer, Kept, TypeOK
    <2>3. UNCHANGED <<sq, tx, cq, cqpc, wc>>
        BY <2>1 DEF LosePeer, qpVars, cqVars, cbVars
    <2> QED
        BY <2>2, <2>3, SqKept, CqKept DEF SrvInv
<1>5. CASE SendFails
    <2> DEFINE e == Completion("error", slot[Head(sq)], NoCall, ZeroMsg)
               s == [i \in 1 .. (Len(sq) - 1) |-> FlushedSend(slot[sq[i + 1]])]
               t == [i \in 1 .. Len(rq) |-> FlushedRecv(rq[i])]
               Quiet(u) == u \in Seq(Completions) /\ \A i \in 1 .. Len(u) : u[i].op # "recv"
    <2>1. sq \in Seq(Calls) /\ sq # <<>> /\ rq \in Seq(Bits) /\ slot \in [Calls -> Bits]
        BY <1>5 DEF SendFails, TypeOK
    <2>2. Quiet(<<e>>)
        <3>1. slot[Head(sq)] \in Bits
            BY <2>1
        <3> QED
            BY <3>1, CompletionTypes, OneCompletion DEF Completion
    <2>3. Quiet(s)
        <3>1. \A i \in 1 .. (Len(sq) - 1) : /\ FlushedSend(slot[sq[i + 1]]) \in Completions
                                            /\ FlushedSend(slot[sq[i + 1]]).op # "recv"
            BY <2>1, CompletionTypes DEF FlushedSend, Completion
        <3> QED
            BY <2>1, <3>1
    <2>4. Quiet(t)
        <3>1. \A i \in 1 .. Len(rq) : /\ FlushedRecv(rq[i]) \in Completions
                                      /\ FlushedRecv(rq[i]).op # "recv"
            BY <2>1, CompletionTypes DEF FlushedRecv, Completion
        <3> QED
            BY <2>1, <3>1
    <2>5. cq' = cq \o (<<e>> \o s \o t)
        BY <1>5 DEF SendFails, Complete
    <2> HIDE DEF e, s, t
    <2>6. Quiet(<<e>> \o s)
        BY <2>2, <2>3
    <2>7. Quiet((<<e>> \o s) \o t)
        <3> DEFINE es == <<e>> \o s
        <3>1. Quiet(es)
            BY <2>6
        <3> HIDE DEF es
        <3>2. Quiet(es \o t)
            BY <2>4, <3>1
        <3> QED
            BY <3>2 DEF es
    <2>8. Kept("srv") /\ Kept("cq")
        BY <1>5 DEF SendFails, Kept, TypeOK
    <2>9. sq' = <<>> /\ tx' = 0 /\ srv' = srv /\ UNCHANGED cbVars
        BY <1>5 DEF SendFails
    <2>10. SqInv'
        BY <2>9 DEF SqInv
    <2> QED
        BY <2>5, <2>7, <2>8, <2>9, <2>10, SrvKept, CqGrows
<1>6. CASE CmDisconnected
    <2>1. UNCHANGED <<at, sq, tx, srv, cq, cqpc, wc>>
        BY <1>6 DEF CmDisconnected, qpVars, cqVars, cbVars
    <2> QED
        BY <2>1, SqKept, SrvKept, CqKept DEF Kept
<1> QED
    BY <1>1, <1>2, <1>3, <1>4, <1>5, <1>6 DEF Environment

(* The callback takes a message out of the completion queue and, with      *)
(* free_msgbuf_id, out of the books.                                       *)
LEMMA CallbackOnePlace ==
    ASSUME TypeOK, OnePlaceInv, Callback
    PROVE  OnePlaceInv'
<1> USE DEF OnePlaceInv
<1>1. ASSUME at' = at
      PROVE  Kept("sq") /\ Kept("srv") /\ Kept("cq")
    BY <1>1 DEF Kept
<1>2. CASE \/ CqThread \/ PollEmpty \/ UserHandler \/ SetWorking \/ PostRecvFails
           \/ PollError /\ cq' = cq
           \/ PostRecv /\ conn # "dead"
    <2>1. at' = at /\ UNCHANGED <<sq, tx, srv, cq>> /\ (cqpc' = "free" => cqpc = "free" /\ wc' = wc)
        BY <1>2
        DEF CqThread, PollEmpty, UserHandler, SetWorking, PostRecvFails, PollError, PostRecv,
            HandlerError, qpVars, cqVars
    <2> QED
        BY <1>1, <2>1, SqKept, SrvKept, CqKept
<1>3. CASE PollSendOrFlush \/ (PollError /\ cq' # cq)
    <2>1. at' = at /\ UNCHANGED <<sq, tx, srv>> /\ cq # <<>> /\ cq' = Tail(cq) /\ cqpc' # "free"
        BY <1>3 DEF PollSendOrFlush, PollError, Polled, HandlerError, qpVars, cbVars
    <2>2. CqInv' /\ WcInv'
        BY <2>1, CqPolled DEF WcInv
    <2> QED
        BY <1>1, <2>1, <2>2, SqKept, SrvKept
<1>4. CASE PollRecv
    <2>1. /\ at' = at /\ UNCHANGED <<sq, tx, srv>>
          /\ cq # <<>> /\ cq' = Tail(cq) /\ Head(cq).op = "recv" /\ wc' = Head(cq)
        BY <1>4 DEF PollRecv, Polled, qpVars
    <2>2. CqInv'
        BY <2>1, CqPolled
    <2>3. cq \in Seq(Completions)
        BY DEF TypeOK
    <2>4. /\ Head(cq) = cq[1] /\ 1 \in 1 .. Len(cq)
          /\ \A i \in 1 .. Len(cq') : i + 1 \in 2 .. Len(cq) /\ cq'[i] = cq[i + 1]
        BY <2>1, <2>3
    <2>5. wc'.call \in Calls /\ at'[wc'.call] = "cq"
        BY <2>1, <2>4 DEF CqInv
    <2>6. ASSUME NEW i \in 1 .. Len(cq'), cq'[i].op = "recv"
          PROVE  cq'[i].call # wc'.call
        <3>1. i + 1 \in 1 .. Len(cq) /\ i + 1 # 1 /\ cq[i + 1].op = "recv"
            BY <2>3, <2>4, <2>6
        <3> QED
            BY <2>1, <2>4, <3>1 DEF CqInv
    <2>7. WcInv'
        BY <2>5, <2>6 DEF WcInv
    <2> QED
        BY <1>1, <2>1, <2>2, <2>7, SqKept, SrvKept
<1>5. CASE PollRecvFails
    <2> DEFINE c == Head(cq).call
    <2>1. /\ UNCHANGED <<sq, tx, srv>> /\ cqpc' # "free"
          /\ cq # <<>> /\ cq' = Tail(cq) /\ Head(cq).op = "recv"
        BY <1>5 DEF PollRecvFails, Polled, HandlerError, qpVars
    <2>2. Head(cq) = cq[1] /\ 1 \in 1 .. Len(cq)
        BY <2>1 DEF TypeOK
    <2>3. c \in Calls /\ at[c] = "cq"
        BY <2>1, <2>2 DEF CqInv
    <2>4. \A d \in Calls \ {c} : at'[d] = at[d]
        BY <1>5 DEF PollRecvFails, Goto, TypeOK
    <2>5. CqInv'
        BY <2>1, <2>4, CqPolled
    <2>6. Kept("sq") /\ Kept("srv")
        BY <2>3, <2>4 DEF Kept
    <2> QED
        BY <2>1, <2>5, <2>6, SqKept, SrvKept DEF WcInv
<1>6. CASE FreeMsgbufId
    <2>1. wc.call \in Calls /\ at[wc.call] = "cq"
          /\ \A i \in 1 .. Len(cq) : cq[i].op = "recv" => cq[i].call # wc.call
        BY <1>6 DEF FreeMsgbufId, WcInv
    <2>2. \A d \in Calls \ {wc.call} : at'[d] = at[d]
        BY <1>6 DEF FreeMsgbufId, Goto, TypeOK
    <2>3. UNCHANGED <<sq, tx, srv, cq>> /\ cqpc' = "user"
        BY <1>6 DEF FreeMsgbufId, qpVars, cqVars
    <2>4. Kept("sq") /\ Kept("srv")
        BY <2>1, <2>2 DEF Kept
    <2>5. CqInv'
        BY <2>1, <2>2, <2>3 DEF CqInv
    <2> QED
        BY <2>3, <2>4, <2>5, SqKept, SrvKept DEF WcInv
<1>7. CASE PostRecv /\ conn = "dead"
    <2> DEFINE s == <<FlushedRecv(wc.wr_id)>>
    <2>1. at' = at /\ UNCHANGED <<sq, tx, srv, wc>> /\ cqpc = "repost" /\ cqpc' = "poll"
        BY <1>7 DEF PostRecv
    <2>2. s \in Seq(Completions) /\ \A i \in 1 .. Len(s) : s[i].op # "recv"
        <3>1. wc.wr_id \in Bits
            BY DEF TypeOK, Completions
        <3> QED
            BY <3>1, CompletionTypes, OneCompletion DEF FlushedRecv, Completion
    <2>3. cq' = cq \o s /\ cq \in Seq(Completions)
        BY <1>7 DEF PostRecv, Complete, TypeOK
    <2> HIDE DEF s
    <2>4. \A i \in 1 .. Len(cq') : cq'[i].op = "recv" => i \in 1 .. Len(cq) /\ cq'[i] = cq[i]
        BY <2>2, <2>3
    <2>5. CqInv'
        <3>1. \A i \in 1 .. Len(cq') :
                  cq'[i].op = "recv" => cq'[i].call \in Calls /\ at'[cq'[i].call] = "cq"
            BY <2>1, <2>4 DEF CqInv
        <3>2. \A i, j \in 1 .. Len(cq') :
                  cq'[i].op = "recv" /\ cq'[j].op = "recv" /\ cq'[i].call = cq'[j].call => i = j
            BY <2>4 DEF CqInv
        <3> QED
            BY <3>1, <3>2 DEF CqInv
    <2> QED
        BY <1>1, <2>1, <2>5, SqKept, SrvKept DEF WcInv
<1> HIDE DEF OnePlaceInv
<1>8. CASE PollError
    BY <1>2, <1>3, <1>8
<1>9. CASE PostRecv
    BY <1>2, <1>7, <1>9
<1>10. CASE CqThread \/ PollEmpty \/ UserHandler \/ SetWorking \/ PostRecvFails
    BY <1>2, <1>10
<1>11. CASE PollSendOrFlush
    BY <1>3, <1>11
<1> QED
    BY <1>4, <1>5, <1>6, <1>8, <1>9, <1>10, <1>11 DEF Callback

(* No step, and no stuttering step, puts a message in two places. *)
LEMMA OnePlaceStep == TypeOK /\ OnePlaceInv /\ [Next]_vars => OnePlaceInv'
<1> SUFFICES ASSUME TypeOK, OnePlaceInv, [Next]_vars PROVE OnePlaceInv'
    OBVIOUS
<1>1. CASE UNCHANGED vars
    BY <1>1
    DEF vars, qpVars, cqVars, cbVars, OnePlaceInv, SqInv, SrvInv, CqInv, WcInv
<1> QED
    BY <1>1, RequesterOnePlace, CallbackOnePlace, EnvironmentOnePlace DEF Next

-----------------------------------------------------------------------------
(* The window                                                              *)

(* There are finitely many ids and calls. *)
LEMMA FiniteWindow == IsFiniteSet(Taken(bitmap)) /\ IsFiniteSet(Held)
<1>1. IsFiniteSet(Bits)
    BY BitArrSizeAssumption, FS_Interval DEF Bits
<1>2. Taken(bitmap) \subseteq Bits /\ Held \subseteq Calls
    BY DEF Taken, Held
<1> QED
    BY <1>1, <1>2, ChannelAssumption, FS_Subset

(* Only the two functions of the pool change who holds an id; every other  *)
(* step moves a call between places in which it holds one, or in which it  *)
(* does not.                                                               *)
LEMMA HeldUnchanged ==
    ASSUME TypeOK, OnePlaceInv, [Next]_vars
    PROVE  \/ UNCHANGED <<bitmap, Held>>
           \/ \E c \in Calls : AllocMsgbufId(c)
           \/ FreeMsgbufId
<1> USE DEF Held, Filling
<1>1. ASSUME NEW c \in Calls, Requester(c), ~ AllocMsgbufId(c)
      PROVE  UNCHANGED <<bitmap, Held>>
    BY <1>1
    DEF Requester, SendStep, Call, LoadSeqn, FillHeader, FillData, PostSend, PostSendFails,
        Goto, TypeOK
<1>2. CASE Transmit
    <2>1. sq[tx + 1] \in Calls /\ at[sq[tx + 1]] = "sq"
        BY <1>2 DEF Transmit, TypeOK, OnePlaceInv, SqInv
    <2> QED
        BY <1>2, <2>1 DEF Transmit, Goto, TypeOK
<1>3. ASSUME NEW r \in srv, Respond(r)
      PROVE  UNCHANGED <<bitmap, Held>>
    <2>1. r.call \in Calls /\ at[r.call] = "srv"
        BY <1>3 DEF TypeOK, OnePlaceInv, SrvInv
    <2> QED
        BY <1>3, <2>1 DEF Respond, Goto, TypeOK
<1>4. CASE ReceiverNotReady \/ PeerGone \/ SendFails
    BY <1>4 DEF ReceiverNotReady, PeerGone, LosePeer, SendFails, TypeOK
<1>5. CASE PollRecvFails
    <2>1. Head(cq) = cq[1] /\ 1 \in 1 .. Len(cq) /\ Head(cq).op = "recv"
        BY <1>5 DEF PollRecvFails, Polled, TypeOK
    <2>2. Head(cq).call \in Calls /\ at[Head(cq).call] = "cq"
        BY <2>1 DEF OnePlaceInv, CqInv
    <2> QED
        BY <1>5, <2>2 DEF PollRecvFails, Goto, TypeOK
<1>6. CASE SendComplete \/ CmDisconnected
    BY <1>6 DEF SendComplete, CmDisconnected
<1>7. CASE \/ CqThread \/ PollEmpty \/ PollSendOrFlush \/ PollError \/ PollRecv
           \/ UserHandler \/ SetWorking \/ PostRecv \/ PostRecvFails
    BY <1>7
    DEF CqThread, PollEmpty, PollSendOrFlush, PollError, PollRecv, UserHandler, SetWorking,
        PostRecv, PostRecvFails
<1>8. CASE UNCHANGED vars
    BY <1>8 DEF vars
<1> HIDE DEF Held, Filling
<1> QED
    BY <1>1, <1>2, <1>3, <1>4, <1>5, <1>6, <1>7, <1>8 DEF Next, Callback, Environment

(* An allocation takes one id for one call. *)
LEMMA AllocCounts ==
    ASSUME TypeOK, WindowBound, NEW c \in Calls, AllocMsgbufId(c)
    PROVE  WindowBound' /\ PoolFullMeansCallUnderWay'
<1>1. PICK i \in Bits : /\ bit_array_find_first_clear_bit(bitmap, i)
                        /\ bitmap' = bit_array_set_bit(bitmap, i)
    BY DEF AllocMsgbufId
<1>2. bitmap \in BitArrays
    BY DEF TypeOK
<1>3. i \notin Taken(bitmap) /\ Taken(bitmap') = Taken(bitmap) \cup {i}
    BY <1>1, <1>2, FoundIsSmallestFree, TakenUpdate
<1>4. c \notin Held /\ Held' = Held \cup {c}
    BY DEF AllocMsgbufId, Goto, Held, Filling, TypeOK
<1>5. /\ Cardinality(Taken(bitmap')) = Cardinality(Taken(bitmap)) + 1
      /\ Cardinality(Held') = Cardinality(Held) + 1
    BY <1>3, <1>4, FiniteWindow, FS_AddElement
<1>6. Cardinality(Taken(bitmap)) \in Nat /\ Cardinality(Held) \in Nat
    BY FiniteWindow, FS_CardinalityType
<1> QED
    BY <1>4, <1>5, <1>6 DEF WindowBound, PoolFullMeansCallUnderWay

(* A release gives back one id, or none, on behalf of one call. *)
LEMMA FreeCounts ==
    ASSUME TypeOK, OnePlaceInv, WindowBound, FreeMsgbufId
    PROVE  WindowBound' /\ PoolFullMeansCallUnderWay'
<1> DEFINE b == wc.wr_id
           c == wc.call
<1>1. b \in Bits /\ bitmap \in BitArrays
    BY DEF TypeOK, Completions
<1>2. Taken(bitmap') = Taken(bitmap) \ {b}
    BY <1>1, TakenUpdate DEF FreeMsgbufId
<1>3. c \in Calls /\ at[c] = "cq"
    BY DEF FreeMsgbufId, OnePlaceInv, WcInv
<1>4. c \in Held /\ Held' = Held \ {c}
    BY <1>3 DEF FreeMsgbufId, Goto, Held, Filling, TypeOK
<1>5. bitmap'[b] = 0
    BY <1>1 DEF FreeMsgbufId, bit_array_clear_bit, BitArrays
<1> HIDE DEF b, c
<1>6. Cardinality(Taken(bitmap')) >= Cardinality(Taken(bitmap)) - 1
      /\ Cardinality(Taken(bitmap')) \in Nat
    <2>1. IsFiniteSet(Taken(bitmap)) /\ Cardinality(Taken(bitmap)) \in Nat
        BY FiniteWindow, FS_CardinalityType
    <2>2. /\ IsFiniteSet(Taken(bitmap) \ {b})
          /\ Cardinality(Taken(bitmap) \ {b}) =
                IF b \in Taken(bitmap) THEN Cardinality(Taken(bitmap)) - 1
                                       ELSE Cardinality(Taken(bitmap))
        BY <2>1, FS_RemoveElement
    <2>3. Cardinality(Taken(bitmap) \ {b}) \in Nat
        BY <2>2, FS_CardinalityType
    <2> QED
        BY <1>2, <2>1, <2>2, <2>3
<1>7. Cardinality(Held') = Cardinality(Held) - 1
    BY <1>4, FiniteWindow, FS_RemoveElement
<1>8. Cardinality(Taken(bitmap)) \in Nat /\ Cardinality(Held) \in Nat
    BY FiniteWindow, FS_CardinalityType
<1>9. WindowBound'
    BY <1>6, <1>7, <1>8 DEF WindowBound
<1>10. PoolFullMeansCallUnderWay'
    BY <1>1, <1>5 DEF PoolFullMeansCallUnderWay, NoClearBit
<1> QED
    BY <1>9, <1>10

(* ChannelInv holds on a channel that has just connected ... *)
LEMMA ChannelInit == Init => ChannelInv
<1> SUFFICES ASSUME Init PROVE ChannelInv
    OBVIOUS
<1>1. Held = {} /\ Taken(bitmap) = {}
    BY DEF Init, Held, Filling, Taken, EmptyBitmap
<1>2. WindowBound
    BY <1>1, FS_EmptySet DEF WindowBound
<1>3. PoolFullMeansCallUnderWay
    BY BitArrSizeAssumption DEF Init, PoolFullMeansCallUnderWay, NoClearBit, EmptyBitmap, Bits
<1> QED
    BY <1>2, <1>3, TypeInit, OnePlaceInit DEF ChannelInv

(* ... and no step breaks it. *)
LEMMA ChannelStep == ChannelInv /\ [Next]_vars => ChannelInv'
<1> SUFFICES ASSUME ChannelInv, [Next]_vars PROVE ChannelInv'
    OBVIOUS
<1>1. TypeOK /\ OnePlaceInv /\ WindowBound /\ PoolFullMeansCallUnderWay
    BY DEF ChannelInv
<1>2. TypeOK' /\ OnePlaceInv'
    BY <1>1, TypeStep, OnePlaceStep
<1>3. CASE UNCHANGED <<bitmap, Held>>
    BY <1>1, <1>2, <1>3 DEF ChannelInv, WindowBound, PoolFullMeansCallUnderWay
<1>4. CASE \E c \in Calls : AllocMsgbufId(c)
    BY <1>1, <1>2, <1>4, AllocCounts DEF ChannelInv
<1>5. CASE FreeMsgbufId
    BY <1>1, <1>2, <1>5, FreeCounts DEF ChannelInv
<1> QED
    BY <1>1, <1>3, <1>4, <1>5, HeldUnchanged

(* The inductive invariant of the channel at work. *)
THEOREM ChannelInvariant == Spec => []ChannelInv
<1>1. Init => ChannelInv
    BY ChannelInit
<1>2. ChannelInv /\ [Next]_vars => ChannelInv'
    BY ChannelStep
<1> QED
    BY <1>1, <1>2, PTL DEF Spec

(* However the responses are matched to ids, and whatever fails, the calls *)
(* under way never outnumber the ids taken.                                *)
THEOREM WindowBounded == Spec => []WindowBound
<1>1. ChannelInv => WindowBound
    BY DEF ChannelInv
<1> QED
    BY <1>1, ChannelInvariant, PTL

(* alloc_msgbuf_id finds every id taken only while some call holds one:    *)
(* the ids that responses leave taken never fill the pool by themselves.   *)
THEOREM PoolNeverLeaksFull == Spec => []PoolFullMeansCallUnderWay
<1>1. ChannelInv => PoolFullMeansCallUnderWay
    BY DEF ChannelInv
<1> QED
    BY <1>1, ChannelInvariant, PTL
=============================================================================
