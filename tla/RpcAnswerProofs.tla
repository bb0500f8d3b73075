-------------------------- MODULE RpcAnswerProofs ---------------------------
(***************************************************************************)
(* Proofs that for a requester who makes one call at a time the user's     *)
(* handler is run once, and with the answer to its own call.               *)
(***************************************************************************)
EXTENDS RpcQueueProofs

(* The message of a call under a sequence number, as send_rdma_msg fills   *)
(* it in.                                                                  *)
Msg(seqns, c) == [seq_num |-> htonll(seqns[c]), sem_addr |-> htonll(c), data |-> c]

(* With one requester at most one call is open; an answered call has gone  *)
(* all the way, and the handler was run for it once, with its answer.      *)
OneOpen == \A c, d \in Open : c = d
HandledInv ==
    \A c \in Calls : handled[c] # <<>> =>
        at[c] = "freed" /\ handled[c] = <<[seqn |-> new_seqn[c], data |-> c]>>

(* The buffer of a call is filled from the header on, and stays its own    *)
(* until the device has read it.                                           *)
SendBufInv ==
    \A c \in Calls :
        /\ at[c] = "data" => /\ send_buf[slot[c]].seq_num = htonll(new_seqn[c])
                             /\ send_buf[slot[c]].sem_addr = htonll(c)
        /\ at[c] \in {"post", "sq"} => send_buf[slot[c]] = Msg(new_seqn, c)

(* What travels is the message of the call it belongs to. *)
SrvMsgs == \A r \in srv : r.msg = Msg(new_seqn, r.call)
CqMsgs == \A i \in 1 .. Len(cq) : cq[i].op = "recv" => cq[i].msg = Msg(new_seqn, cq[i].call)
WcMsg == cqpc = "free" => wc.msg = Msg(new_seqn, wc.call)
FlightInv == SrvMsgs /\ CqMsgs /\ WcMsg

(* The user's handler is called for a call that still waits. *)
HandlerInv ==
    cqpc = "user" =>
        /\ wc.call \in Calls
        /\ at[wc.call] = "freed" /\ handled[wc.call] = <<>>
        /\ wc.msg = Msg(new_seqn, wc.call)

OwnInv == OneOpen /\ HandledInv /\ SendBufInv /\ FlightInv /\ HandlerInv

-----------------------------------------------------------------------------
(* No call is open on a channel that has just connected. *)
LEMMA OwnInit == Init => OwnInv
BY DEF Init, OwnInv, OneOpen, Open, HandledInv, SendBufInv, FlightInv, SrvMsgs, CqMsgs, WcMsg,
       HandlerInv

(* A message that has the three fields of a call's message is it. *)
LEMMA MsgFields ==
    ASSUME NEW m \in Msgs, NEW c \in Calls, NEW seqns \in [Calls -> Nat],
           m.seq_num = htonll(seqns[c]), m.sem_addr = htonll(c), m.data = c
    PROVE  m = Msg(seqns, c)
BY DEF Msgs, Msg, htonll

(* Completions join the CQ: those of answers carry their call's message. *)
LEMMA CqMsgsGrow ==
    ASSUME TypeOK, CqInv, CqMsgs, new_seqn' = new_seqn,
           NEW s \in Seq(Completions), cq' = cq \o s,
           \A i \in 1 .. Len(s) : s[i].op = "recv" => s[i].msg = Msg(new_seqn, s[i].call)
    PROVE  CqMsgs'
<1>1. cq \in Seq(Completions)
    BY DEF TypeOK
<1>2. ASSUME NEW i \in 1 .. Len(cq'), cq'[i].op = "recv"
      PROVE  cq'[i].msg = Msg(new_seqn, cq'[i].call)
    <2>1. CASE i \in 1 .. Len(cq)
        <3>1. cq'[i] = cq[i]
            BY <1>1, <2>1
        <3> QED
            BY <1>2, <2>1, <3>1 DEF CqMsgs
    <2>2. CASE i \notin 1 .. Len(cq)
        <3>1. i - Len(cq) \in 1 .. Len(s) /\ cq'[i] = s[i - Len(cq)]
            BY <1>1, <2>2
        <3> QED
            BY <1>2, <3>1
    <2> QED
        BY <2>1, <2>2
<1> QED
    BY <1>2 DEF CqMsgs

(* A poll takes one of them. *)
LEMMA CqMsgsPolled ==
    ASSUME TypeOK, CqMsgs, new_seqn' = new_seqn, cq # <<>>, cq' = Tail(cq)
    PROVE  CqMsgs' /\ (Head(cq).op = "recv" => Head(cq).msg = Msg(new_seqn, Head(cq).call))
<1>1. cq \in Seq(Completions)
    BY DEF TypeOK
<1>2. /\ \A i \in 1 .. Len(cq') : i + 1 \in 1 .. Len(cq) /\ cq'[i] = cq[i + 1]
      /\ Head(cq) = cq[1] /\ 1 \in 1 .. Len(cq)
    BY <1>1
<1> QED
    BY <1>2 DEF CqMsgs

(* A requester works on a call that is open, and so on the only one. *)
LEMMA RequesterAlone ==
    ASSUME TypeOK, OwnInv, NEW c \in Calls, at[c] \in {"alloc"} \cup Filling
    PROVE  /\ handled[c] = <<>> /\ c \in Open
           /\ \A d \in Calls : at[d] \in {"data", "post", "sq"} => d = c
<1>1. \A d \in Calls : at[d] \notin {"new", "freed"} => handled[d] = <<>> /\ d \in Open
    BY DEF OwnInv, HandledInv, Open
<1>2. at[c] \notin {"new", "freed"}
    BY DEF Filling
<1> QED
    BY <1>1, <1>2 DEF OwnInv, OneOpen

(* What a requester's step has to show: that the buffer is right. *)
LEMMA RequesterKeeps ==
    ASSUME TypeOK, OnePlaceInv, OwnInv,
           NEW c \in Calls, at[c] \in {"alloc"} \cup Filling,
           NEW p \in Places \ {"new", "freed"}, Goto(c, p),
           UNCHANGED <<srv, cqpc, wc, handled>>,
           \A d \in Calls : d # c => new_seqn'[d] = new_seqn[d],
           SendBufInv', CqMsgs'
    PROVE  OwnInv'
<1>1. handled[c] = <<>> /\ at[c] \notin {"new", "freed", "srv", "cq"}
    BY RequesterAlone DEF Filling
<1>2. \A d \in Calls : at'[d] = IF d = c THEN p ELSE at[d]
    BY DEF Goto, TypeOK
<1>3. \A d \in Calls : d # c => Msg(new_seqn', d) = Msg(new_seqn, d)
    BY DEF Msg
<1>4. OneOpen'
    <2>1. Open' = Open
        BY <1>1, <1>2 DEF Open
    <2> QED
        BY <2>1 DEF OwnInv, OneOpen
<1>5. HandledInv'
    BY <1>1, <1>2 DEF OwnInv, HandledInv
<1>6. SrvMsgs'
    <2>1. \A r \in srv : r.call \in Calls /\ r.call # c
        BY <1>1 DEF TypeOK, OnePlaceInv, SrvInv
    <2> QED
        BY <1>3, <2>1 DEF OwnInv, FlightInv, SrvMsgs
<1>7. WcMsg'
    BY <1>1, <1>3 DEF OwnInv, FlightInv, WcMsg, OnePlaceInv, WcInv
<1>8. HandlerInv'
    BY <1>1, <1>2, <1>3 DEF OwnInv, HandlerInv
<1> QED
    BY <1>4, <1>5, <1>6, <1>7, <1>8 DEF OwnInv, FlightInv

(* A call is made when none is open; send_rdma_msg then fills the buffer   *)
(* in, and nobody else writes to it.                                       *)
LEMMA RequesterKeepsOwn ==
    ASSUME Requesters = 1, TypeOK, OnePlaceInv, OwnInv, NEW c \in Calls, Requester(c)
    PROVE  OwnInv'
<1> USE DEF callVars, cqVars, cbVars, qpVars
<1>1. CASE Call(c)
    <2>1. Open = {}
        <3>1. IsFiniteSet(Open)
            BY ChannelAssumption, FS_Subset DEF Open
        <3>2. Cardinality(Open) \in Nat
            BY <3>1, FS_CardinalityType
        <3>3. Cardinality(Open) = 0
            BY <1>1, <3>2 DEF Call
        <3> QED
            BY <3>1, <3>3, FS_EmptySet
    <2>2. handled[c] = <<>>
        BY <1>1 DEF Call, OwnInv, HandledInv
    <2>3. \A d \in Calls : at'[d] = IF d = c THEN "alloc" ELSE at[d]
        BY <1>1 DEF Call, Goto, TypeOK
    <2>4. Open' = {c}
        BY <1>1, <2>1, <2>2, <2>3 DEF Call, Open
    <2>5. UNCHANGED <<slot, new_seqn, send_buf, srv, cq, cqpc, wc, handled>>
        BY <1>1 DEF Call
    <2>6. HandledInv' /\ HandlerInv'
        BY <1>1, <2>2, <2>3, <2>5 DEF Call, OwnInv, HandledInv, HandlerInv
    <2>7. SendBufInv' /\ FlightInv'
        BY <2>3, <2>5 DEF OwnInv, SendBufInv, FlightInv, SrvMsgs, CqMsgs, WcMsg
    <2> QED
        BY <2>4, <2>6, <2>7 DEF OwnInv, OneOpen
<1>2. ASSUME NEW p \in Places \ {"new", "freed"}, Goto(c, p), at[c] \in {"alloc"} \cup Filling,
             p \in {"seqn", "header", "dropped", "lost"}
      PROVE  SendBufInv'
    <2>1. \A d \in Calls : at'[d] \notin {"data", "post", "sq"}
        BY <1>2, RequesterAlone DEF Goto, TypeOK
    <2> QED
        BY <2>1 DEF SendBufInv
<1>3. CASE AllocMsgbufId(c)
    <2>1. /\ Goto(c, "seqn") /\ at[c] = "alloc" /\ "seqn" \in Places \ {"new", "freed"}
          /\ UNCHANGED <<new_seqn, srv, cq, cqpc, wc, handled>>
        BY <1>3 DEF AllocMsgbufId, Places
    <2>2. SendBufInv' /\ CqMsgs'
        BY <1>2, <2>1 DEF OwnInv, FlightInv, CqMsgs
    <2> QED
        BY <2>1, <2>2, RequesterKeeps
<1>4. CASE LoadSeqn(c)
    <2>1. /\ Goto(c, "header") /\ at[c] \in Filling /\ "header" \in Places \ {"new", "freed"}
          /\ UNCHANGED <<srv, cq, cqpc, wc, handled>>
          /\ \A d \in Calls : d # c => new_seqn'[d] = new_seqn[d]
        BY <1>4 DEF LoadSeqn, Places, Filling, TypeOK
    <2>2. SendBufInv'
        BY <1>2, <2>1
    <2>3. CqMsgs'
        <3>1. \A i \in 1 .. Len(cq) : cq[i].op = "recv" => cq[i].call \in Calls \ {c}
            BY <1>4 DEF LoadSeqn, OnePlaceInv, CqInv
        <3>2. \A i \in 1 .. Len(cq) : cq[i].op = "recv" =>
                  Msg(new_seqn', cq[i].call) = Msg(new_seqn, cq[i].call)
            BY <2>1, <3>1 DEF Msg
        <3> QED
            BY <2>1, <3>2 DEF OwnInv, FlightInv, CqMsgs
    <2> QED
        BY <2>1, <2>2, <2>3, RequesterKeeps
<1>5. CASE FillHeader(c)
    <2>1. /\ Goto(c, "data") /\ at[c] \in Filling /\ "data" \in Places \ {"new", "freed"}
          /\ UNCHANGED <<slot, new_seqn, srv, cq, cqpc, wc, handled>>
        BY <1>5 DEF FillHeader, Places, Filling
    <2>2. \A d \in Calls : at'[d] \in {"data", "post", "sq"} => d = c /\ at'[d] = "data"
        BY <2>1, RequesterAlone DEF Goto, TypeOK
    <2>3. slot[c] \in Bits /\ send_buf[slot[c]] \in Msgs /\ send_buf \in [Bits -> Msgs]
        BY DEF TypeOK
    <2>4. /\ send_buf'[slot[c]].seq_num = htonll(new_seqn[c])
          /\ send_buf'[slot[c]].sem_addr = htonll(c)
        BY <1>5, <2>3 DEF FillHeader, Msgs
    <2>5. SendBufInv' /\ CqMsgs'
        BY <2>1, <2>2, <2>4 DEF SendBufInv, OwnInv, FlightInv, CqMsgs
    <2> QED
        BY <2>1, <2>5, RequesterKeeps
<1>6. CASE FillData(c)
    <2>1. /\ Goto(c, "post") /\ at[c] \in Filling /\ "post" \in Places \ {"new", "freed"}
          /\ UNCHANGED <<slot, new_seqn, srv, cq, cqpc, wc, handled>>
        BY <1>6 DEF FillData, Places, Filling
    <2>2. \A d \in Calls : at'[d] \in {"data", "post", "sq"} => d = c /\ at'[d] = "post"
        BY <2>1, RequesterAlone DEF Goto, TypeOK
    <2>3. slot[c] \in Bits /\ send_buf[slot[c]] \in Msgs /\ new_seqn \in [Calls -> Nat]
        BY DEF TypeOK
    <2>4. /\ send_buf[slot[c]].seq_num = htonll(new_seqn[c])
          /\ send_buf[slot[c]].sem_addr = htonll(c)
        BY <1>6 DEF FillData, OwnInv, SendBufInv
    <2>5. send_buf'[slot[c]] = [send_buf[slot[c]] EXCEPT !.data = c]
        BY <1>6, <2>3 DEF FillData, TypeOK
    <2>6. send_buf'[slot[c]] = Msg(new_seqn, c)
        <3> DEFINE m == [send_buf[slot[c]] EXCEPT !.data = c]
        <3>1. m \in Msgs /\ m.data = c /\ m.seq_num = htonll(new_seqn[c]) /\ m.sem_addr = htonll(c)
            BY <2>3, <2>4 DEF Msgs
        <3> HIDE DEF m
        <3>2. m = Msg(new_seqn, c)
            BY <2>3, <3>1, MsgFields
        <3> QED
            BY <2>5, <3>2 DEF m
    <2>7. SendBufInv' /\ CqMsgs'
        BY <2>1, <2>2, <2>6 DEF SendBufInv, OwnInv, FlightInv, CqMsgs
    <2> QED
        BY <2>1, <2>7, RequesterKeeps
<1>7. CASE PostSend(c) /\ conn # "dead"
    <2>1. /\ Goto(c, "sq") /\ at[c] = "post" /\ at[c] \in Filling
          /\ "sq" \in Places \ {"new", "freed"}
          /\ UNCHANGED <<slot, new_seqn, send_buf, srv, cq, cqpc, wc, handled>>
        BY <1>7 DEF PostSend, Places, Filling
    <2>2. \A d \in Calls : at'[d] \in {"data", "post", "sq"} => d = c /\ at'[d] = "sq"
        BY <2>1, RequesterAlone DEF Goto, TypeOK
    <2>3. SendBufInv' /\ CqMsgs'
        BY <2>1, <2>2 DEF SendBufInv, OwnInv, FlightInv, CqMsgs
    <2> QED
        BY <2>1, <2>3, RequesterKeeps
<1>8. CASE PostSend(c) /\ conn = "dead"
    <2> DEFINE s == <<FlushedSend(slot[c])>>
    <2>1. /\ Goto(c, "lost") /\ at[c] \in Filling /\ "lost" \in Places \ {"new", "freed"}
          /\ UNCHANGED <<new_seqn, srv, cqpc, wc, handled>> /\ cq' = cq \o s
        BY <1>8 DEF PostSend, Complete, Places, Filling
    <2>2. s \in Seq(Completions) /\ \A i \in 1 .. Len(s) : s[i].op # "recv"
        BY CompletedType DEF FlushedSend, Completion
    <2> HIDE DEF s
    <2>3. CqMsgs'
        BY <2>1, <2>2, CqMsgsGrow DEF OwnInv, FlightInv, OnePlaceInv
    <2>4. SendBufInv'
        BY <1>2, <2>1
    <2> QED
        BY <2>1, <2>3, <2>4, RequesterKeeps
<1>9. CASE PostSendFails(c)
    <2>1. /\ Goto(c, "dropped") /\ at[c] \in Filling /\ "dropped" \in Places \ {"new", "freed"}
          /\ UNCHANGED <<new_seqn, srv, cq, cqpc, wc, handled>>
        BY <1>9 DEF PostSendFails, Places, Filling
    <2>2. SendBufInv' /\ CqMsgs'
        BY <1>2, <2>1 DEF OwnInv, FlightInv, CqMsgs
    <2> QED
        BY <2>1, <2>2, RequesterKeeps
<1> QED
    BY <1>1, <1>3, <1>4, <1>5, <1>6, <1>7, <1>8, <1>9 DEF Requester, SendStep

(* What a step that neither writes a buffer nor wakes anyone has to show:  *)
(* that the messages under way are right.                                  *)
LEMMA DeliveryKeeps ==
    ASSUME TypeOK, OwnInv, UNCHANGED <<slot, new_seqn, send_buf, handled>>,
           \A c \in Calls : \/ at'[c] = at[c]
                            \/ at[c] \in {"sq", "srv", "cq"} /\ at'[c] \in {"srv", "cq", "lost"},
           cqpc' = "user" => cqpc = "user" /\ wc' = wc,
           FlightInv'
    PROVE  OwnInv'
<1>1. Open' = Open
    BY DEF Open
<1>2. OneOpen' /\ HandledInv'
    BY <1>1 DEF OwnInv, OneOpen, HandledInv
<1>3. SendBufInv'
    <2>1. \A c \in Calls : at'[c] \in {"data", "post", "sq"} => at[c] = at'[c]
        OBVIOUS
    <2> QED
        BY <2>1 DEF OwnInv, SendBufInv
<1>4. HandlerInv'
    BY DEF OwnInv, HandlerInv
<1> QED
    BY <1>2, <1>3, <1>4 DEF OwnInv

(* The device sends what the buffer holds, and the server answers with the *)
(* header and data it was sent.                                            *)
LEMMA EnvironmentKeepsOwn ==
    ASSUME TypeOK, OnePlaceInv, OwnInv, Environment
    PROVE  OwnInv'
<1> USE DEF callVars, cqVars, cbVars, qpVars, connVars
<1>0. FlightInv /\ CqInv
    BY DEF OwnInv, OnePlaceInv
<1>1. CASE Transmit
    <2> DEFINE c == sq[tx + 1]
    <2>1. c \in Calls /\ at[c] = "sq"
        BY <1>1 DEF Transmit, TypeOK, OnePlaceInv, SqInv
    <2>2. \A d \in Calls : at'[d] = IF d = c THEN "srv" ELSE at[d]
        BY <1>1, <2>1 DEF Transmit, Goto, TypeOK
    <2>3. send_buf[slot[c]] = Msg(new_seqn, c)
        BY <2>1 DEF OwnInv, SendBufInv
    <2>4. /\ srv' = srv \cup {[call |-> c, msg |-> send_buf[slot[c]]]}
          /\ UNCHANGED <<slot, new_seqn, send_buf, handled, cq, cqpc, wc>>
        BY <1>1 DEF Transmit
    <2> HIDE DEF c
    <2>5. FlightInv'
        BY <1>0, <2>3, <2>4 DEF FlightInv, SrvMsgs, CqMsgs, WcMsg
    <2> QED
        BY <2>1, <2>2, <2>4, <2>5, DeliveryKeeps
<1>2. CASE SendComplete
    <2> DEFINE s == <<SendDone(Head(sq))>>
    <2>1. Head(sq) \in Calls
        BY <1>2 DEF SendComplete, TypeOK
    <2>2. /\ cq' = cq \o s /\ UNCHANGED <<at, srv, slot, new_seqn, send_buf, handled, cqpc, wc>>
        BY <1>2 DEF SendComplete, Complete
    <2>3. s \in Seq(Completions) /\ \A i \in 1 .. Len(s) : s[i].op # "recv"
        BY <2>1, CompletedType DEF SendDone, Completion
    <2> HIDE DEF s
    <2>4. CqMsgs'
        BY <1>0, <2>2, <2>3, CqMsgsGrow DEF FlightInv
    <2>5. FlightInv'
        BY <1>0, <2>2, <2>4 DEF FlightInv, SrvMsgs, WcMsg
    <2> QED
        BY <2>2, <2>5, DeliveryKeeps
<1>3. ASSUME NEW r \in srv, Respond(r)
      PROVE  OwnInv'
    <2> DEFINE s == <<Completion("recv", Head(rq), r.call, r.msg)>>
    <2>1. r.call \in Calls /\ at[r.call] = "srv" /\ r.msg = Msg(new_seqn, r.call)
        BY <1>0 DEF TypeOK, OnePlaceInv, SrvInv, FlightInv, SrvMsgs
    <2>2. \A d \in Calls : at'[d] = IF d = r.call THEN "cq" ELSE at[d]
        BY <1>3, <2>1 DEF Respond, Goto, TypeOK
    <2>3. /\ cq' = cq \o s /\ srv' \subseteq srv
          /\ UNCHANGED <<slot, new_seqn, send_buf, handled, cqpc, wc>>
        BY <1>3 DEF Respond, Complete
    <2>4. s \in Seq(Completions) /\ \A i \in 1 .. Len(s) : s[i].msg = Msg(new_seqn, s[i].call)
        BY <1>3, <2>1, CompletedType DEF Completion, Respond
    <2> HIDE DEF s
    <2>5. CqMsgs'
        BY <1>0, <2>3, <2>4, CqMsgsGrow DEF FlightInv
    <2>6. FlightInv'
        BY <1>0, <2>3, <2>5 DEF FlightInv, SrvMsgs, WcMsg
    <2> QED
        BY <2>1, <2>2, <2>3, <2>6, DeliveryKeeps
<1>4. CASE ReceiverNotReady \/ PeerGone
    <2>1. /\ srv' = {} /\ UNCHANGED <<slot, new_seqn, send_buf, handled, cq, cqpc, wc>>
          /\ \A c \in Calls : at'[c] = IF at[c] = "srv" THEN "lost" ELSE at[c]
        BY <1>4 DEF ReceiverNotReady, PeerGone, LosePeer
    <2>2. FlightInv'
        BY <1>0, <2>1 DEF FlightInv, SrvMsgs, CqMsgs, WcMsg
    <2> QED
        BY <2>1, <2>2, DeliveryKeeps
<1>5. CASE SendFails
    <2> DEFINE s == FailedSends \o FailedRecvs
    <2>1. /\ cq' = cq \o s /\ sq # <<>>
          /\ UNCHANGED <<srv, slot, new_seqn, send_buf, handled, cqpc, wc>>
          /\ \A c \in Calls : at'[c] = IF at[c] = "sq" THEN "lost" ELSE at[c]
        BY <1>5 DEF SendFails, Complete, FailedSends, FailedRecvs
    <2>2. /\ FailedSends \in Seq(Completions) /\ FailedRecvs \in Seq(Completions)
          /\ s \in Seq(Completions)
          /\ \A i \in 1 .. Len(FailedSends) : FailedSends[i].op # "recv"
        BY <2>1, FailedTypes DEF OfSend
    <2>3. \A i \in 1 .. Len(FailedRecvs) : FailedRecvs[i].op # "recv"
        BY DEF TypeOK, FailedRecvs, FlushedRecv, Completion
    <2>4. \A i \in 1 .. Len(s) : s[i].op # "recv"
        BY <2>2, <2>3
    <2> HIDE DEF s
    <2>5. CqMsgs'
        BY <1>0, <2>1, <2>2, <2>4, CqMsgsGrow DEF FlightInv
    <2>6. FlightInv'
        BY <1>0, <2>1, <2>5 DEF FlightInv, SrvMsgs, WcMsg
    <2> QED
        BY <2>1, <2>6, DeliveryKeeps
<1>6. CASE CmDisconnected
    <2>1. UNCHANGED <<at, srv, slot, new_seqn, send_buf, handled, cq, cqpc, wc>>
        BY <1>6 DEF CmDisconnected
    <2>2. FlightInv'
        BY <1>0, <2>1 DEF FlightInv, SrvMsgs, CqMsgs, WcMsg
    <2> QED
        BY <2>1, <2>2, DeliveryKeeps
<1> QED
    BY <1>1, <1>2, <1>3, <1>4, <1>5, <1>6 DEF Environment

(* The handler is run for the call that the header names, which is the     *)
(* call the answer belongs to, with its own sequence number and data.      *)
LEMMA HandlesOwner ==
    ASSUME TypeOK, OwnInv, UserHandler
    PROVE  /\ wc.call \in Open
           /\ handled' = [handled EXCEPT ![wc.call] =
                          <<[seqn |-> new_seqn[wc.call], data |-> wc.call]>>]
<1>1. /\ wc.call \in Calls /\ at[wc.call] = "freed" /\ handled[wc.call] = <<>>
      /\ wc.msg = Msg(new_seqn, wc.call)
    BY DEF UserHandler, OwnInv, HandlerInv
<1>2. /\ ntohll(wc.msg.sem_addr) = wc.call /\ ntohll(wc.msg.seq_num) = new_seqn[wc.call]
      /\ wc.msg.data = wc.call
    BY <1>1 DEF Msg, htonll, ntohll
<1>3. handled' = [handled EXCEPT ![wc.call] =
                   Append(@, [seqn |-> new_seqn[wc.call], data |-> wc.call])]
    BY <1>2 DEF UserHandler
<1> QED
    BY <1>1, <1>3 DEF Open, TypeOK

(* The callback takes an answer to the end before it takes the next. *)
LEMMA CallbackKeepsOwn ==
    ASSUME TypeOK, OnePlaceInv, OwnInv, Callback
    PROVE  OwnInv'
<1> USE DEF callVars, cqVars, cbVars, qpVars, connVars, HandlerError
<1>0. FlightInv /\ CqInv /\ CqMsgs /\ SrvMsgs
    BY DEF OwnInv, OnePlaceInv, FlightInv
<1>1. CASE CqThread \/ PollEmpty \/ (PollError /\ cq' = cq) \/ SetWorking \/ PostRecvFails
    <2>1. /\ UNCHANGED <<at, srv, slot, new_seqn, send_buf, handled, cq, wc>>
          /\ cqpc' \notin {"free", "user"}
        BY <1>1 DEF CqThread, PollEmpty, PollError, SetWorking, PostRecvFails
    <2>2. FlightInv'
        BY <1>0, <2>1 DEF FlightInv, SrvMsgs, CqMsgs, WcMsg
    <2> QED
        BY <2>1, <2>2, DeliveryKeeps
<1>2. CASE PollSendOrFlush \/ (PollError /\ cq' # cq) \/ PollRecvFails
    <2>1. /\ UNCHANGED <<srv, slot, new_seqn, send_buf, handled, wc>>
          /\ cqpc' \notin {"free", "user"} /\ cq # <<>> /\ cq' = Tail(cq)
        BY <1>2 DEF PollSendOrFlush, PollError, PollRecvFails, Polled
    <2>2. \A c \in Calls : at'[c] = at[c] \/ (at[c] = "cq" /\ at'[c] = "lost")
        <3>1. CASE PollSendOrFlush \/ PollError
            BY <3>1 DEF PollSendOrFlush, PollError
        <3>2. CASE PollRecvFails
            <4>1. Head(cq).call \in Calls /\ at[Head(cq).call] = "cq"
                <5>1. Head(cq) = cq[1] /\ 1 \in 1 .. Len(cq)
                    BY <2>1 DEF TypeOK
                <5> QED
                    BY <1>0, <3>2, <5>1 DEF PollRecvFails, Polled, CqInv
            <4> QED
                BY <3>2, <4>1 DEF PollRecvFails, Goto, TypeOK
        <3> QED
            BY <1>2, <3>1, <3>2
    <2>3. CqMsgs'
        BY <1>0, <2>1, CqMsgsPolled
    <2>4. FlightInv'
        BY <1>0, <2>1, <2>3 DEF FlightInv, SrvMsgs, WcMsg
    <2> QED
        BY <2>1, <2>2, <2>4, DeliveryKeeps
<1>3. CASE PollRecv
    <2>1. /\ UNCHANGED <<at, srv, slot, new_seqn, send_buf, handled>> /\ cqpc' = "free"
          /\ cq # <<>> /\ cq' = Tail(cq) /\ wc' = Head(cq) /\ Head(cq).op = "recv"
        BY <1>3 DEF PollRecv, Polled
    <2>2. CqMsgs' /\ Head(cq).msg = Msg(new_seqn, Head(cq).call)
        BY <1>0, <2>1, CqMsgsPolled
    <2>3. FlightInv'
        BY <1>0, <2>1, <2>2 DEF FlightInv, SrvMsgs, WcMsg
    <2> QED
        BY <2>1, <2>3, DeliveryKeeps
<1>4. CASE FreeMsgbufId
    <2>1. /\ wc.call \in Calls /\ at[wc.call] = "cq" /\ wc.msg = Msg(new_seqn, wc.call)
        BY <1>4 DEF FreeMsgbufId, OnePlaceInv, WcInv, OwnInv, FlightInv, WcMsg
    <2>2. handled[wc.call] = <<>>
        BY <2>1 DEF OwnInv, HandledInv
    <2>3. /\ UNCHANGED <<srv, slot, new_seqn, send_buf, handled, cq, wc>> /\ cqpc' = "user"
          /\ \A c \in Calls : at'[c] = IF c = wc.call THEN "freed" ELSE at[c]
        BY <1>4, <2>1 DEF FreeMsgbufId, Goto, TypeOK
    <2>4. Open' = Open
        BY <2>1, <2>3 DEF Open
    <2>5. OneOpen' /\ HandledInv'
        BY <2>2, <2>3, <2>4 DEF OwnInv, OneOpen, HandledInv
    <2>6. SendBufInv'
        BY <2>3 DEF OwnInv, SendBufInv
    <2>7. FlightInv' /\ HandlerInv'
        BY <1>0, <2>1, <2>2, <2>3 DEF FlightInv, SrvMsgs, CqMsgs, WcMsg, HandlerInv
    <2> QED
        BY <2>5, <2>6, <2>7 DEF OwnInv
<1>5. CASE UserHandler
    <2>1. /\ wc.call \in Open
          /\ handled' = [handled EXCEPT ![wc.call] =
                          <<[seqn |-> new_seqn[wc.call], data |-> wc.call]>>]
        BY <1>5, HandlesOwner
    <2>2. /\ UNCHANGED <<at, srv, slot, new_seqn, send_buf, cq, wc>> /\ cqpc' \notin {"free", "user"}
        BY <1>5 DEF UserHandler
    <2>3. \A c \in Calls : handled'[c] = IF c = wc.call
                                       THEN <<[seqn |-> new_seqn[wc.call], data |-> wc.call]>>
                                       ELSE handled[c]
        BY <2>1 DEF TypeOK, HandlerRuns
    <2>4. OneOpen'
        <3>1. Open' \subseteq Open
            BY <2>1, <2>2, <2>3 DEF Open
        <3> QED
            BY <3>1 DEF OwnInv, OneOpen
    <2>5. HandledInv'
        <3>1. at[wc.call] = "freed"
            BY <1>5 DEF UserHandler, OwnInv, HandlerInv
        <3> QED
            BY <2>2, <2>3, <3>1 DEF OwnInv, HandledInv
    <2>6. SendBufInv' /\ FlightInv' /\ HandlerInv'
        BY <1>0, <2>2 DEF OwnInv, SendBufInv, FlightInv, SrvMsgs, CqMsgs, WcMsg, HandlerInv
    <2> QED
        BY <2>4, <2>5, <2>6 DEF OwnInv
<1>6. CASE PostRecv
    <2>1. /\ UNCHANGED <<at, srv, slot, new_seqn, send_buf, handled, wc>>
          /\ cqpc' \notin {"free", "user"}
        BY <1>6 DEF PostRecv
    <2>2. CqMsgs'
        <3>1. CASE conn = "dead"
            <4> DEFINE s == <<FlushedRecv(wc.wr_id)>>
            <4>1. cq' = cq \o s
                BY <1>6, <3>1 DEF PostRecv, Complete
            <4>2. s \in Seq(Completions) /\ \A i \in 1 .. Len(s) : s[i].op # "recv"
                BY CompletedType DEF FlushedRecv, Completion
            <4> HIDE DEF s
            <4> QED
                BY <1>0, <2>1, <4>1, <4>2, CqMsgsGrow
        <3>2. CASE conn # "dead"
            BY <1>0, <1>6, <2>1, <3>2 DEF PostRecv, CqMsgs
        <3> QED
            BY <3>1, <3>2
    <2>3. FlightInv'
        BY <1>0, <2>1, <2>2 DEF FlightInv, SrvMsgs, WcMsg
    <2> QED
        BY <2>1, <2>3, DeliveryKeeps
<1> QED
    BY <1>1, <1>2, <1>3, <1>4, <1>5, <1>6 DEF Callback

(* Every step of a channel with one requester keeps OwnInv, whatever fails *)
(* and whatever cq_thread's uninitialised ret holds.                       *)
LEMMA OwnStep ==
    ASSUME Requesters = 1
    PROVE  ChannelInv /\ OwnInv /\ [Next]_vars => OwnInv'
<1> SUFFICES ASSUME ChannelInv, OwnInv, [Next]_vars PROVE OwnInv'
    OBVIOUS
<1>1. TypeOK /\ OnePlaceInv
    BY DEF ChannelInv
<1>2. CASE UNCHANGED vars
    <2>1. UNCHANGED <<at, srv, slot, new_seqn, send_buf, handled, cq, cqpc, wc>>
        BY <1>2 DEF vars, callVars, cqVars, cbVars
    <2>2. FlightInv'
        BY <2>1 DEF OwnInv, FlightInv, SrvMsgs, CqMsgs, WcMsg
    <2> QED
        BY <1>1, <2>1, <2>2, DeliveryKeeps
<1> QED
    BY <1>1, <1>2, RequesterKeepsOwn, EnvironmentKeepsOwn, CallbackKeepsOwn DEF Next

(* For a requester that makes one call at a time the user's handler is run *)
(* for a call at most once, with the answer to its own request, under the  *)
(* sequence number its request drew, even when the peer, a receive, a poll *)
(* or a post fails.                                                        *)
THEOREM AnswersMatch ==
    ASSUME Requesters = 1
    PROVE  Spec => []AnswerMatchesCall
<1>1. OwnInv => AnswerMatchesCall
    BY DEF OwnInv, HandledInv, AnswerMatchesCall
<1> QED
    BY <1>1, OwnInit, OwnStep, ChannelInvariant, PTL DEF Spec

-----------------------------------------------------------------------------
(* The refinement: Call is the request, the user's handler is the answer,  *)
(* and every other step is invisible to the requester.                     *)

(* The channel starts with no call open and none answered. *)
LEMMA ServiceInit == Init => Service!Init
BY DEF Init, Service!Init, Open

(* Each step is a request, an answer or none. *)
LEMMA ServiceStep ==
    ASSUME Requesters = 1, ChannelInv, OwnInv, [Next]_vars
    PROVE  [Service!Next]_(Service!vars)
<1> USE DEF callVars, cqVars, cbVars, qpVars, connVars
<1> DEFINE answers == [c \in Calls |-> [i \in 1 .. Len(handled[c]) |-> handled[c][i].data]]
<1>0. TypeOK /\ OnePlaceInv
    BY DEF ChannelInv
<1>1. ASSUME handled' = handled, \A c \in Calls : at'[c] = "new" <=> at[c] = "new"
      PROVE  UNCHANGED Service!vars
    BY <1>1 DEF Service!vars, Open
<1>2. ASSUME NEW c \in Calls, Call(c)
      PROVE  Service!Request(c)
    <2>1. Open = {}
        <3>1. IsFiniteSet(Open)
            BY ChannelAssumption, FS_Subset DEF Open
        <3>2. Cardinality(Open) \in Nat
            BY <3>1, FS_CardinalityType
        <3>3. Cardinality(Open) = 0
            BY <1>2, <3>2 DEF Call
        <3> QED
            BY <3>1, <3>3, FS_EmptySet
    <2>2. handled[c] = <<>> /\ handled' = handled
        BY <1>2 DEF Call, OwnInv, HandledInv
    <2>3. Open' = {c}
        <3>1. \A d \in Calls : at'[d] = IF d = c THEN "alloc" ELSE at[d]
            BY <1>0, <1>2 DEF Call, Goto, TypeOK
        <3> QED
            BY <2>1, <2>2, <3>1 DEF Open
    <2>4. answers[c] = <<>> /\ answers' = answers
        BY <2>2
    <2> QED
        BY <2>1, <2>3, <2>4 DEF Service!Request
<1>3. ASSUME NEW c \in Calls, Requester(c), ~ Call(c)
      PROVE  UNCHANGED Service!vars
    <2>1. handled' = handled /\ at[c] # "new"
        BY <1>3 DEF Requester, SendStep, AllocMsgbufId, LoadSeqn, FillHeader, FillData, PostSend,
                    PostSendFails
    <2>2. \A d \in Calls : at'[d] = "new" <=> at[d] = "new"
        BY <1>0, <1>3 DEF Requester, SendStep, AllocMsgbufId, LoadSeqn, FillHeader, FillData,
                          PostSend, PostSendFails, Goto, TypeOK
    <2> QED
        BY <1>1, <2>1, <2>2
<1>4. CASE UserHandler
    <2>0. wc.call \in Open /\ wc.call \in Calls
        BY <1>0, <1>4, HandlesOwner DEF Open
    <2> PICK c \in Calls : c = wc.call
        BY <2>0
    <2>1. /\ c \in Open /\ c \in Calls
          /\ handled' = [handled EXCEPT ![c] = <<[seqn |-> new_seqn[c], data |-> c]>>]
        BY <1>0, <1>4, HandlesOwner DEF Open
    <2>2. at' = at
        BY <1>4 DEF UserHandler
    <2>3. \A d \in Calls : handled'[d] = IF d = c THEN <<[seqn |-> new_seqn[c], data |-> c]>>
                                                ELSE handled[d]
        BY <1>0, <2>1 DEF TypeOK, HandlerRuns
    <2>4. Open' = Open \ {c}
        <3>1. \A d \in Calls : handled'[d] = <<>> <=> d # c /\ handled[d] = <<>>
            <4>1. <<[seqn |-> new_seqn[c], data |-> c]>> # <<>>
                OBVIOUS
            <4> QED
                BY <2>3, <4>1
        <3> QED
            BY <2>2, <3>1 DEF Open
    <2>5. answers[c] = <<>> /\ Append(answers[c], c) = <<c>>
        <3>1. handled[c] = <<>>
            BY <2>1 DEF Open
        <3>2. answers[c] = <<>>
            BY <3>1
        <3> HIDE DEF answers
        <3> QED
            BY <3>2
    <2>6. answers' = [answers EXCEPT ![c] = Append(@, c)]
        <3>1. answers'[c] = <<c>>
            <4>1. handled'[c] = <<[seqn |-> new_seqn[c], data |-> c]>>
                BY <2>3
            <4>2. Len(handled'[c]) = 1 /\ handled'[c][1].data = c
                BY <4>1
            <4>3. answers'[c] = [i \in 1 .. 1 |-> handled'[c][i].data]
                BY <4>2
            <4>4. answers'[c] = [i \in 1 .. 1 |-> c]
                BY <4>2, <4>3
            <4>5. [i \in 1 .. 1 |-> c] = <<c>>
                OBVIOUS
            <4> QED
                BY <4>4, <4>5, Zenon
        <3>2. \A d \in Calls : d # c => answers'[d] = answers[d]
            BY <2>3
        <3>3. answers' = [d \in Calls |-> answers'[d]] /\ answers = [d \in Calls |-> answers[d]]
            OBVIOUS
        <3> HIDE DEF answers
        <3> QED
            BY <2>5, <3>1, <3>2, <3>3
    <2>7. Service!Answer(c)
        BY <2>1, <2>4, <2>6 DEF Service!Answer
    <2> QED
        BY <2>1, <2>7 DEF Service!Next
<1>5. CASE Callback /\ ~ UserHandler
    <2>1. handled' = handled
        BY <1>5 DEF Callback, CqThread, PollEmpty, PollSendOrFlush, PollError, PollRecv,
                    PollRecvFails, FreeMsgbufId, SetWorking, PostRecv, PostRecvFails
    <2>2. \A d \in Calls : at'[d] = "new" <=> at[d] = "new"
        <3>1. CASE PollRecvFails
            <4>1. Head(cq) = cq[1] /\ 1 \in 1 .. Len(cq)
                BY <1>0, <3>1 DEF PollRecvFails, Polled, TypeOK
            <4>2. Head(cq).call \in Calls /\ at[Head(cq).call] = "cq"
                BY <1>0, <3>1, <4>1 DEF PollRecvFails, Polled, OnePlaceInv, CqInv
            <4> QED
                BY <1>0, <3>1, <4>2 DEF PollRecvFails, Goto, TypeOK
        <3>2. CASE FreeMsgbufId
            <4>1. wc.call \in Calls /\ at[wc.call] = "cq"
                BY <1>0, <3>2 DEF FreeMsgbufId, OnePlaceInv, WcInv
            <4> QED
                BY <1>0, <3>2, <4>1 DEF FreeMsgbufId, Goto, TypeOK
        <3>3. CASE \/ CqThread \/ PollEmpty \/ PollSendOrFlush \/ PollError \/ PollRecv
                   \/ SetWorking \/ PostRecv \/ PostRecvFails
            BY <3>3 DEF CqThread, PollEmpty, PollSendOrFlush, PollError, PollRecv, SetWorking,
                        PostRecv, PostRecvFails
        <3> QED
            BY <1>5, <3>1, <3>2, <3>3 DEF Callback
    <2> QED
        BY <1>1, <2>1, <2>2
<1>6. CASE Environment
    <2>1. handled' = handled
        BY <1>6 DEF Environment, Transmit, SendComplete, ReceiverNotReady, PeerGone, LosePeer,
                    SendFails, CmDisconnected, Respond
    <2>2. \A d \in Calls : at'[d] = "new" <=> at[d] = "new"
        <3>1. CASE Transmit
            <4>1. sq[tx + 1] \in Calls /\ at[sq[tx + 1]] = "sq"
                BY <1>0, <3>1 DEF Transmit, TypeOK, OnePlaceInv, SqInv
            <4> QED
                BY <1>0, <3>1, <4>1 DEF Transmit, Goto, TypeOK
        <3>2. ASSUME NEW r \in srv, Respond(r)
              PROVE  \A d \in Calls : at'[d] = "new" <=> at[d] = "new"
            <4>1. r.call \in Calls /\ at[r.call] = "srv"
                BY <1>0 DEF TypeOK, OnePlaceInv, SrvInv
            <4> QED
                BY <1>0, <3>2, <4>1 DEF Respond, Goto, TypeOK
        <3>3. CASE SendComplete \/ ReceiverNotReady \/ PeerGone \/ SendFails \/ CmDisconnected
            BY <3>3 DEF SendComplete, ReceiverNotReady, PeerGone, LosePeer, SendFails,
                        CmDisconnected
        <3> QED
            BY <1>6, <3>1, <3>2, <3>3 DEF Environment
    <2> QED
        BY <1>1, <2>1, <2>2
<1>7. CASE UNCHANGED vars
    BY <1>1, <1>7 DEF vars
<1> QED
    BY <1>2, <1>3, <1>4, <1>5, <1>6, <1>7 DEF Next, Service!Next

(* For one requester the channel, with all its faults, implements the      *)
(* service: a call is open until the user's handler is run with its own    *)
(* answer, once.                                                           *)
THEOREM ChannelRefinesService ==
    ASSUME Requesters = 1
    PROVE  Spec => ServiceSpec
<1>1. ChannelInv /\ OwnInv /\ [Next]_vars => [Service!Next]_(Service!vars)
    BY ServiceStep
<1> QED
    BY <1>1, ServiceInit, OwnInit, OwnStep, ChannelInvariant, PTL
    DEF Spec, ServiceSpec, Service!Spec

-----------------------------------------------------------------------------
(* What the comment on send_rdma_msg says is true of one requester         *)

(* The id of a call that holds one is taken. *)
HeldTaken == \A c \in Held : bitmap[slot[c]] = 1

(* Every step keeps the ids of the calls under way: only a call's own      *)
(* answer frees an id, and then no other call is there.                    *)
LEMMA HeldTakenStep == ChannelInv /\ OwnInv /\ HeldTaken /\ [Next]_vars => HeldTaken'
<1> SUFFICES ASSUME ChannelInv, OwnInv, HeldTaken, [Next]_vars PROVE HeldTaken'
    OBVIOUS
<1>0. TypeOK /\ OnePlaceInv /\ bitmap \in BitArrays
    BY DEF ChannelInv, TypeOK
<1>1. ASSUME NEW c \in Calls, AllocMsgbufId(c)
      PROVE  HeldTaken'
    <2>1. PICK i \in Bits : /\ bitmap' = bit_array_set_bit(bitmap, i)
                            /\ slot' = [slot EXCEPT ![c] = i]
        BY <1>1 DEF AllocMsgbufId
    <2>2. Held' = Held \cup {c}
        BY <1>0, <1>1 DEF AllocMsgbufId, Goto, Held, Filling, TypeOK
    <2>3. bitmap'[i] = 1 /\ \A b \in Bits : bitmap[b] = 1 => bitmap'[b] = 1
        BY <1>0, <2>1 DEF bit_array_set_bit, BitArrays
    <2>4. slot'[c] = i /\ \A d \in Calls \ {c} : slot'[d] = slot[d] /\ slot[d] \in Bits
        BY <1>0, <2>1 DEF TypeOK
    <2> QED
        BY <2>2, <2>3, <2>4 DEF HeldTaken, Held
<1>2. CASE FreeMsgbufId
    <2>1. wc.call \in Calls /\ at[wc.call] = "cq"
        BY <1>0, <1>2 DEF FreeMsgbufId, OnePlaceInv, WcInv
    <2>2. \A d \in Held : d \in Open
        BY DEF OwnInv, HandledInv, Open, Held, Filling
    <2>3. wc.call \in Open
        BY <2>1, <2>2 DEF Held
    <2>4. Held \subseteq {wc.call}
        BY <2>2, <2>3 DEF OwnInv, OneOpen
    <2>5. Held' = {}
        BY <1>0, <1>2, <2>1, <2>4 DEF FreeMsgbufId, Goto, Held, Filling, TypeOK
    <2> QED
        BY <2>5 DEF HeldTaken
<1>3. CASE ~ FreeMsgbufId /\ \A c \in Calls : ~ AllocMsgbufId(c)
    <2>1. UNCHANGED <<bitmap, Held>>
        BY <1>0, <1>3, HeldUnchanged
    <2>2. UNCHANGED slot
        BY <1>3 DEF Next, Requester, SendStep, Call, LoadSeqn, FillHeader, FillData, PostSend,
            PostSendFails, Environment, Transmit, SendComplete, Respond, ReceiverNotReady, PeerGone,
            LosePeer, SendFails, CmDisconnected, Callback, CqThread, PollEmpty, PollSendOrFlush,
            PollError, PollRecv, PollRecvFails, UserHandler, SetWorking, PostRecv, PostRecvFails,
            vars, callVars
    <2> QED
        BY <2>1, <2>2 DEF HeldTaken
<1> QED
    BY <1>1, <1>2, <1>3

(* "A msg buffer is being allocated until the client receives a response": *)
(* so it is for a requester with one call at a time, although the id       *)
(* that is given back is the receive buffer's.  ChannelSlotEarly.cfg shows *)
(* that two requesters are too many.                                       *)
THEOREM SlotIsHeld ==
    ASSUME Requesters = 1
    PROVE  Spec => []SlotHeldUntilAnswered
<1>1. Init => HeldTaken
    BY DEF Init, HeldTaken, Held, Filling
<1>2. HeldTaken => SlotHeldUntilAnswered
    BY DEF HeldTaken, Held, SlotHeldUntilAnswered, Unanswered
<1> QED
    BY <1>1, <1>2, HeldTakenStep, OwnInit, OwnStep, ChannelInvariant, PTL DEF Spec
=============================================================================
