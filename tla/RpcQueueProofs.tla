--------------------------- MODULE RpcQueueProofs ---------------------------
(***************************************************************************)
(* Proofs about the queues of a channel at work and about the notification *)
(* of its completion queue.                                                *)
(***************************************************************************)
EXTENDS RpcChannelProofs

(* A CQ whose callback may still be needed is armed or has its event       *)
(* raised; nothing but the callback itself stores ERROR, and never between *)
(* the message handler and the store of WORKING.                           *)
NotifyInv ==
    /\ state < DISCONNECTED => armed \/ event
    /\ cqpc = "working" => state # ERROR /\ (armed \/ event)
    /\ CompletionNotStranded

InHandler == {"user", "working", "repost"}
AtCq == {c \in Calls : at[c] = "cq"}
Flag(b) == IF b THEN 1 ELSE 0

(* Every receive buffer of a connection that is up is posted, holds an     *)
(* answer that has not given an id back, or is in the callback's hands.    *)
BuffersInv ==
    /\ cqpc = "working" => state # ERROR
    /\ conn = "up" /\ state # ERROR =>
          Len(rq) + Cardinality(AtCq) + Flag(cqpc \in InHandler) = BIT_ARR_SIZE

OfRecv == {"recv", "flushed_recv"}

(* A send has one place, in the send queue or in the CQ; a receive buffer  *)
(* has one, posted, in the CQ or in the callback's hands.                  *)
CapacityInv ==
    /\ Len(sq) + Count(cq, OfSend) <= SQ_DEPTH
    /\ Len(rq) + Count(cq, OfRecv) + Flag(cqpc \in {"free"} \cup InHandler) <= BIT_ARR_SIZE

-----------------------------------------------------------------------------
(* The notification                                                        *)

(* The comparisons of states that NotifyInv makes. *)
LEMMA StateOrder ==
    /\ CONNECTED < DISCONNECTED /\ WORKING < DISCONNECTED
    /\ ~ (DISCONNECTED < DISCONNECTED) /\ ~ (ERROR < DISCONNECTED)
    /\ ERROR \notin {CONNECTED, WORKING, DISCONNECTED}
    /\ ~ (ERROR <= CONNECTED)
BY DEF CONNECTED, WORKING, DISCONNECTED, ERROR

(* A completion raises the event of an armed CQ. *)
LEMMA CompleteNotifies ==
    ASSUME TypeOK, NEW s \in Seq(Completions), Complete(s)
    PROVE  /\ armed \/ event => armed' \/ event'
           /\ (armed \/ event) /\ s # <<>> => event'
           /\ s = <<>> => cq' = cq /\ event' = event
           /\ event => event'
BY DEF TypeOK, Complete

(* Completions that arrive leave nothing stranded. *)
LEMMA CompletesKeepsNotify ==
    ASSUME TypeOK, NotifyInv, NEW s \in Seq(Completions), Complete(s), UNCHANGED <<cqpc, state>>
    PROVE  NotifyInv'
BY CompleteNotifies DEF NotifyInv, CompletionNotStranded

(* Neither do steps that touch neither the CQ nor its callback. *)
LEMMA QuietKeepsNotify ==
    ASSUME NotifyInv, UNCHANGED <<cq, armed, event, cqpc>>,
           state' = state \/ state' = DISCONNECTED
    PROVE  NotifyInv'
BY StateOrder DEF NotifyInv, CompletionNotStranded

(* What the channel completes is well-typed. *)
LEMMA CompletedType ==
    ASSUME TypeOK
    PROVE  /\ \A c \in Calls : <<FlushedSend(slot[c])>> \in Seq(Completions)
           /\ \A c \in Calls : <<SendDone(c)>> \in Seq(Completions)
           /\ <<FlushedRecv(wc.wr_id)>> \in Seq(Completions)
           /\ \A r \in srv : rq # <<>> =>
                 <<Completion("recv", Head(rq), r.call, r.msg)>> \in Seq(Completions)
<1>1. \A c \in Calls : slot[c] \in Bits /\ c \in Calls \cup {NoCall}
    BY DEF TypeOK
<1>2. wc.wr_id \in Bits
    BY DEF TypeOK, Completions
<1>3. rq # <<>> => Head(rq) \in Bits
    BY DEF TypeOK
<1>4. \A r \in srv : r.call \in Calls \cup {NoCall} /\ r.msg \in Msgs
    BY DEF TypeOK
<1>5. \A c \in Calls : <<FlushedSend(slot[c])>> \in Seq(Completions)
    BY <1>1, CompletionTypes, OneCompletion
<1>6. \A c \in Calls : <<SendDone(c)>> \in Seq(Completions)
    BY <1>1, CompletionTypes, OneCompletion DEF SendDone
<1>7. <<FlushedRecv(wc.wr_id)>> \in Seq(Completions)
    BY <1>2, CompletionTypes, OneCompletion
<1>8. \A r \in srv : rq # <<>> =>
          <<Completion("recv", Head(rq), r.call, r.msg)>> \in Seq(Completions)
    BY <1>3, <1>4, CompletionTypes, OneCompletion
<1> QED
    BY <1>5, <1>6, <1>7, <1>8

(* What a dying queue pair completes: the failed send and the flushed ones *)
(* first, then the flushed receives.                                       *)
FailedSends ==
    <<Completion("error", slot[Head(sq)], NoCall, ZeroMsg)>>
        \o [i \in 1 .. (Len(sq) - 1) |-> FlushedSend(slot[sq[i + 1]])]
FailedRecvs == [i \in 1 .. Len(rq) |-> FlushedRecv(rq[i])]

(* It completes every send once and every receive once. *)
LEMMA FailedTypes ==
    ASSUME TypeOK, sq # <<>>
    PROVE  /\ FailedSends \in Seq(Completions)
           /\ Len(FailedSends) = Len(sq)
           /\ \A i \in 1 .. Len(FailedSends) : FailedSends[i].op \in OfSend
           /\ FailedRecvs \in Seq(Completions)
           /\ Len(FailedRecvs) = Len(rq)
           /\ \A i \in 1 .. Len(FailedRecvs) : FailedRecvs[i].op \in OfRecv
           /\ FailedSends \o FailedRecvs \in Seq(Completions)
<1> DEFINE e == Completion("error", slot[Head(sq)], NoCall, ZeroMsg)
           s == [i \in 1 .. (Len(sq) - 1) |-> FlushedSend(slot[sq[i + 1]])]
<1>1. sq \in Seq(Calls) /\ rq \in Seq(Bits) /\ slot \in [Calls -> Bits]
    BY DEF TypeOK
<1>2. e \in Completions /\ e.op \in OfSend
    <2>1. slot[Head(sq)] \in Bits
        BY <1>1
    <2> QED
        BY <2>1, CompletionTypes DEF Completion, OfSend
<1>3. s \in Seq(Completions) /\ Len(s) = Len(sq) - 1 /\ \A i \in 1 .. Len(s) : s[i].op \in OfSend
    <2>1. \A i \in 1 .. (Len(sq) - 1) : /\ FlushedSend(slot[sq[i + 1]]) \in Completions
                                        /\ FlushedSend(slot[sq[i + 1]]).op \in OfSend
        BY <1>1, CompletionTypes DEF FlushedSend, Completion, OfSend
    <2> QED
        BY <1>1, <2>1
<1>4. /\ FailedRecvs \in Seq(Completions) /\ Len(FailedRecvs) = Len(rq)
      /\ \A i \in 1 .. Len(FailedRecvs) : FailedRecvs[i].op \in OfRecv
    <2>1. \A i \in 1 .. Len(rq) : /\ FlushedRecv(rq[i]) \in Completions
                                  /\ FlushedRecv(rq[i]).op \in OfRecv
        BY <1>1, CompletionTypes DEF FlushedRecv, Completion, OfRecv
    <2> QED
        BY <1>1, <2>1 DEF FailedRecvs
<1> HIDE DEF e, s
<1>5. FailedSends = <<e>> \o s
    BY DEF FailedSends, e, s
<1>6. /\ FailedSends \in Seq(Completions) /\ Len(FailedSends) = Len(sq)
      /\ \A i \in 1 .. Len(FailedSends) : FailedSends[i].op \in OfSend
    BY <1>1, <1>2, <1>3, <1>5
<1> QED
    BY <1>4, <1>6

(* A channel that has just connected has an armed and empty CQ. *)
LEMMA NotifyInit == Init => NotifyInv
BY DEF Init, NotifyInv, CompletionNotStranded, CONNECTED, ERROR

(* The requesters and the environment only add completions. *)
LEMMA OthersKeepNotify ==
    ASSUME TypeOK, NotifyInv, Environment \/ \E c \in Calls : Requester(c)
    PROVE  NotifyInv'
<1> USE DEF cqVars, cbVars, connVars
<1>1. ASSUME NEW c \in Calls, Requester(c)
      PROVE  NotifyInv'
    <2>1. CASE PostSend(c) /\ conn = "dead"
        BY <2>1, CompletedType, CompletesKeepsNotify DEF PostSend
    <2>2. CASE \/ Call(c) \/ AllocMsgbufId(c) \/ LoadSeqn(c) \/ FillHeader(c) \/ FillData(c)
               \/ PostSendFails(c) \/ (PostSend(c) /\ conn # "dead")
        <3>1. UNCHANGED <<cq, armed, event, cqpc, state>>
            BY <2>2 DEF Call, AllocMsgbufId, LoadSeqn, FillHeader, FillData, PostSendFails, PostSend
        <3> QED
            BY <3>1, QuietKeepsNotify
    <2> QED
        BY <1>1, <2>1, <2>2 DEF Requester, SendStep
<1>2. CASE Transmit \/ ReceiverNotReady \/ PeerGone \/ CmDisconnected
    <2>1. UNCHANGED <<cq, armed, event, cqpc>> /\ (state' = state \/ state' = DISCONNECTED)
        BY <1>2 DEF Transmit, ReceiverNotReady, PeerGone, LosePeer, CmDisconnected
    <2> QED
        BY <2>1, QuietKeepsNotify
<1>3. CASE SendComplete
    <2>1. Head(sq) \in Calls
        BY <1>3 DEF SendComplete, TypeOK
    <2> QED
        BY <1>3, <2>1, CompletedType, CompletesKeepsNotify DEF SendComplete
<1>4. ASSUME NEW r \in srv, Respond(r)
      PROVE  NotifyInv'
    BY <1>4, CompletedType, CompletesKeepsNotify DEF Respond
<1>5. CASE SendFails
    <2>1. Complete(FailedSends \o FailedRecvs) /\ sq # <<>>
        BY <1>5 DEF SendFails, FailedSends, FailedRecvs
    <2> QED
        BY <1>5, <2>1, FailedTypes, CompletesKeepsNotify DEF SendFails
<1> QED
    BY <1>1, <1>2, <1>3, <1>4, <1>5 DEF Environment

(* The callback arms the CQ before it polls, and leaves it armed or with a *)
(* new event unless it gives up with ERROR.                                *)
LEMMA CallbackKeepsNotify ==
    ASSUME UninitRet \subseteq {0}, TypeOK, NotifyInv, Callback
    PROVE  NotifyInv'
<1> USE StateOrder DEF cqVars, cbVars, connVars, HandlerError
<1>1. CASE CqThread
    <2>1. CASE state = ERROR
        BY <1>1, <2>1 DEF CqThread, NotifyInv, CompletionNotStranded
    <2>2. CASE state # ERROR
        BY <1>1, <2>2 DEF CqThread, NotifyInv, CompletionNotStranded
    <2> QED
        BY <2>1, <2>2
<1>2. CASE PollEmpty
    BY <1>2 DEF PollEmpty, NotifyInv, CompletionNotStranded
<1>3. CASE PollSendOrFlush \/ PollRecv
    BY <1>3 DEF PollSendOrFlush, PollRecv, Polled, NotifyInv, CompletionNotStranded
<1>4. CASE PollError \/ PollRecvFails \/ PostRecvFails
    BY <1>4 DEF PollError, PollRecvFails, PostRecvFails, NotifyInv, CompletionNotStranded
<1>5. CASE FreeMsgbufId
    BY <1>5 DEF FreeMsgbufId, NotifyInv, CompletionNotStranded
<1>6. CASE UserHandler
    <2>1. state <= CONNECTED => state < DISCONNECTED /\ state # ERROR
        BY DEF TypeOK, CONNECTED, WORKING, DISCONNECTED, ERROR
    <2> QED
        BY <1>6, <2>1 DEF UserHandler, NotifyInv, CompletionNotStranded
<1>7. CASE SetWorking
    BY <1>7 DEF SetWorking, NotifyInv, CompletionNotStranded
<1>8. CASE PostRecv
    <2>1. CASE conn = "dead"
        <3>1. armed \/ event => armed' \/ event'
            BY <1>8, <2>1, CompletedType, CompleteNotifies DEF PostRecv
        <3> QED
            BY <1>8, <3>1 DEF PostRecv, NotifyInv, CompletionNotStranded
    <2>2. CASE conn # "dead"
        BY <1>8, <2>2 DEF PostRecv, NotifyInv, CompletionNotStranded
    <2> QED
        BY <2>1, <2>2
<1> QED
    BY <1>1, <1>2, <1>3, <1>4, <1>5, <1>6, <1>7, <1>8 DEF Callback

(* No completion is left behind with nobody coming to poll it, provided    *)
(* that the ret which cq_thread tests without having assigned it is 0:     *)
(* ChannelUninitRet.cfg shows what happens when it is not.                 *)
THEOREM NoCompletionStranded ==
    ASSUME UninitRet \subseteq {0}
    PROVE  Spec => []CompletionNotStranded
<1>1. Init => NotifyInv
    BY NotifyInit
<1>2. TypeOK /\ NotifyInv /\ [Next]_vars => NotifyInv'
    <2> SUFFICES ASSUME TypeOK, NotifyInv, [Next]_vars PROVE NotifyInv'
        OBVIOUS
    <2>1. CASE UNCHANGED vars
        <3>1. UNCHANGED <<cq, armed, event, cqpc, state>>
            BY <2>1 DEF vars, cqVars, cbVars, connVars
        <3> QED
            BY <3>1, QuietKeepsNotify
    <2> QED
        BY <2>1, OthersKeepNotify, CallbackKeepsNotify DEF Next
<1>3. NotifyInv => CompletionNotStranded
    BY DEF NotifyInv
<1> QED
    BY <1>1, <1>2, <1>3, ChannelTypeCorrect, PTL DEF Spec

-----------------------------------------------------------------------------
(* The receive buffers                                                     *)

(* How the number of calls whose answer is in the CQ changes. *)
LEMMA AtCqCount ==
    ASSUME TypeOK
    PROVE  /\ IsFiniteSet(AtCq) /\ Cardinality(AtCq) \in Nat
           /\ \A c \in Calls : at[c] # "cq" /\ AtCq' = AtCq \cup {c} =>
                 Cardinality(AtCq') = Cardinality(AtCq) + 1
           /\ \A c \in Calls : at[c] = "cq" /\ AtCq' = AtCq \ {c} =>
                 Cardinality(AtCq') = Cardinality(AtCq) - 1
<1>1. AtCq \subseteq Calls /\ IsFiniteSet(AtCq)
    BY ChannelAssumption, FS_Subset DEF AtCq
<1>2. Cardinality(AtCq) \in Nat
    BY <1>1, FS_CardinalityType
<1>3. ASSUME NEW c \in Calls, at[c] # "cq", AtCq' = AtCq \cup {c}
      PROVE  Cardinality(AtCq') = Cardinality(AtCq) + 1
    <2>1. c \notin AtCq
        BY <1>3 DEF AtCq
    <2> QED
        BY <1>1, <1>3, <2>1, FS_AddElement
<1>4. ASSUME NEW c \in Calls, at[c] = "cq", AtCq' = AtCq \ {c}
      PROVE  Cardinality(AtCq') = Cardinality(AtCq) - 1
    <2>1. c \in AtCq
        BY <1>4 DEF AtCq
    <2> QED
        BY <1>1, <1>4, <2>1, FS_RemoveElement
<1> QED
    BY <1>1, <1>2, <1>3, <1>4

(* All buffers are posted when the channel has connected. *)
LEMMA BuffersInit == Init => BuffersInv
<1> SUFFICES ASSUME Init PROVE BuffersInv
    OBVIOUS
<1>1. Len(rq) = BIT_ARR_SIZE
    BY BitArrSizeAssumption DEF Init, PostedBuffers
<1>2. Cardinality(AtCq) = 0
    <2>1. AtCq = {}
        BY DEF Init, AtCq
    <2> QED
        BY <2>1, FS_EmptySet
<1> QED
    BY <1>1, <1>2, BitArrSizeAssumption DEF Init, BuffersInv, Flag, InHandler

(* Steps that move no receive buffer. *)
LEMMA QuietKeepsBuffers ==
    ASSUME BuffersInv, AtCq' = AtCq, rq' = rq, UNCHANGED <<conn, state>>,
           cqpc' \in InHandler <=> cqpc \in InHandler, cqpc' = "working" => state # ERROR
    PROVE  BuffersInv'
BY DEF BuffersInv, Flag

(* The requesters move none, the server's answer moves one from the        *)
(* receive queue to the CQ.                                                *)
LEMMA OthersKeepBuffers ==
    ASSUME TypeOK, OnePlaceInv, BuffersInv, Environment \/ \E c \in Calls : Requester(c)
    PROVE  BuffersInv'
<1> USE DEF qpVars, cbVars, connVars
<1>0. cqpc = "working" => state # ERROR
    BY DEF BuffersInv
<1>1. ASSUME NEW c \in Calls, Requester(c)
      PROVE  BuffersInv'
    <2>1. UNCHANGED <<rq, conn, state, cqpc>>
        BY <1>1 DEF Requester, SendStep, Call, AllocMsgbufId, LoadSeqn, FillHeader, FillData,
                    PostSendFails, PostSend
    <2>2. AtCq' = AtCq
        BY <1>1 DEF Requester, SendStep, Call, AllocMsgbufId, LoadSeqn, FillHeader, FillData,
                    PostSendFails, PostSend, Goto, TypeOK, AtCq
    <2> QED
        BY <1>0, <2>1, <2>2, QuietKeepsBuffers
<1>2. CASE Transmit
    <2>1. sq[tx + 1] \in Calls /\ at[sq[tx + 1]] = "sq"
        BY <1>2 DEF Transmit, TypeOK, OnePlaceInv, SqInv
    <2>2. AtCq' = AtCq
        BY <1>2, <2>1 DEF Transmit, Goto, TypeOK, AtCq
    <2> QED
        BY <1>0, <1>2, <2>2, QuietKeepsBuffers DEF Transmit
<1>3. CASE SendComplete
    BY <1>0, <1>3, QuietKeepsBuffers DEF SendComplete, AtCq
<1>4. ASSUME NEW r \in srv, Respond(r)
      PROVE  BuffersInv'
    <2>1. r.call \in Calls /\ at[r.call] = "srv"
        BY DEF TypeOK, OnePlaceInv, SrvInv
    <2>2. AtCq' = AtCq \cup {r.call}
        BY <1>4, <2>1 DEF Respond, Goto, TypeOK, AtCq
    <2>3. Len(rq') = Len(rq) - 1 /\ Len(rq) \in Nat
        BY <1>4 DEF Respond, TypeOK
    <2>4. Cardinality(AtCq') = Cardinality(AtCq) + 1 /\ Cardinality(AtCq) \in Nat
        BY <2>1, <2>2, AtCqCount
    <2> QED
        BY <1>4, <2>3, <2>4 DEF Respond, BuffersInv, Flag
<1>5. CASE ReceiverNotReady \/ PeerGone \/ SendFails \/ CmDisconnected
    <2>1. conn' # "up" /\ cqpc' = cqpc /\ (state' = state \/ state' = DISCONNECTED)
        BY <1>5 DEF ReceiverNotReady, PeerGone, LosePeer, SendFails, CmDisconnected
    <2> QED
        BY <2>1, StateOrder DEF BuffersInv
<1> QED
    BY <1>1, <1>2, <1>3, <1>4, <1>5 DEF Environment

(* The callback takes an answer out of the CQ, holds its buffer, and posts *)
(* it again.                                                               *)
LEMMA CallbackKeepsBuffers ==
    ASSUME TypeOK, OnePlaceInv, BuffersInv, Callback
    PROVE  BuffersInv'
<1> USE DEF qpVars, cbVars, connVars, InHandler
<1>1. CASE CqThread \/ PollEmpty \/ PollSendOrFlush \/ PollRecv
    <2>1. at' = at /\ UNCHANGED <<rq, conn, state>> /\ cqpc \notin InHandler /\ cqpc' \notin InHandler
        BY <1>1 DEF CqThread, PollEmpty, PollSendOrFlush, PollRecv, Polled
    <2> QED
        BY <2>1, QuietKeepsBuffers DEF AtCq
<1>2. CASE PollError \/ PollRecvFails \/ PostRecvFails
    BY <1>2 DEF PollError, PollRecvFails, PostRecvFails, HandlerError, BuffersInv
<1>3. CASE FreeMsgbufId
    <2>1. wc.call \in Calls /\ at[wc.call] = "cq"
        BY <1>3 DEF FreeMsgbufId, OnePlaceInv, WcInv
    <2>2. AtCq' = AtCq \ {wc.call}
        BY <1>3, <2>1 DEF FreeMsgbufId, Goto, TypeOK, AtCq
    <2>3. Cardinality(AtCq') = Cardinality(AtCq) - 1 /\ Cardinality(AtCq) \in Nat
        BY <2>1, <2>2, AtCqCount
    <2>4. Len(rq) \in Nat
        BY DEF TypeOK
    <2> QED
        BY <1>3, <2>3, <2>4 DEF FreeMsgbufId, BuffersInv, Flag
<1>4. CASE UserHandler
    <2>1. state <= CONNECTED => state # ERROR
        BY DEF TypeOK, CONNECTED, WORKING, DISCONNECTED, ERROR
    <2> QED
        BY <1>4, <2>1, QuietKeepsBuffers DEF UserHandler, AtCq
<1>5. CASE SetWorking
    BY <1>5, StateOrder DEF SetWorking, AtCq, BuffersInv, Flag
<1>6. CASE PostRecv
    <2>1. CASE conn = "up"
        <3>1. wc.wr_id \in Bits
            BY DEF TypeOK, Completions
        <3>2. Len(rq') = Len(rq) + 1 /\ Len(rq) \in Nat
            BY <1>6, <2>1, <3>1 DEF PostRecv, TypeOK
        <3>3. AtCq' = AtCq /\ Cardinality(AtCq) \in Nat
            BY <1>6, AtCqCount DEF PostRecv, AtCq
        <3> QED
            BY <1>6, <3>2, <3>3 DEF PostRecv, BuffersInv, Flag
    <2>2. CASE conn # "up"
        BY <1>6, <2>2 DEF PostRecv, BuffersInv
    <2> QED
        BY <2>1, <2>2
<1> QED
    BY <1>1, <1>2, <1>3, <1>4, <1>5, <1>6 DEF Callback

(* The window and the buffers together: as many calls wait for an answer   *)
(* at most as there are receive buffers left for them.                     *)
LEMMA BuffersImplyReady ==
    ASSUME ChannelInv, BuffersInv
    PROVE  ReceiverReady
<1> SUFFICES ASSUME conn = "up", state # ERROR
             PROVE  Cardinality(Unanswered) <= Len(rq) + Flag(cqpc \in InHandler)
    BY DEF ReceiverReady, Flag, InHandler
<1>1. IsFiniteSet(Unanswered) /\ IsFiniteSet(AtCq) /\ Unanswered \cap AtCq = {}
    <2>1. Unanswered \subseteq Calls /\ AtCq \subseteq Calls
        BY DEF Unanswered, AtCq
    <2> QED
        BY <2>1, ChannelAssumption, FS_Subset DEF Unanswered, AtCq, Filling
<1>2. /\ Cardinality(Unanswered \cup AtCq) = Cardinality(Unanswered) + Cardinality(AtCq)
      /\ Cardinality(Unanswered) \in Nat /\ Cardinality(AtCq) \in Nat
    <2>1. Cardinality(Unanswered \cap AtCq) = 0
        BY <1>1, FS_EmptySet
    <2>2. Cardinality(Unanswered) \in Nat /\ Cardinality(AtCq) \in Nat
        BY <1>1, FS_CardinalityType
    <2>3. Cardinality(Unanswered \cup AtCq)
             = Cardinality(Unanswered) + Cardinality(AtCq) - Cardinality(Unanswered \cap AtCq)
        BY <1>1, FS_Union
    <2> QED
        BY <2>1, <2>2, <2>3
<1>3. Cardinality(Unanswered \cup AtCq) <= Cardinality(Held) /\ Cardinality(Held) \in Nat
    <2>1. Unanswered \cup AtCq \in SUBSET Held
        BY DEF Unanswered, AtCq, Held
    <2> QED
        BY <2>1, FiniteWindow, FS_Subset, FS_CardinalityType
<1>4. Cardinality(Taken(bitmap)) <= BIT_ARR_SIZE /\ Cardinality(Taken(bitmap)) \in Nat
    <2>1. IsFiniteSet(Bits) /\ Cardinality(Bits) = BIT_ARR_SIZE
        BY BitArrSizeAssumption, FS_Interval DEF Bits
    <2>2. Taken(bitmap) \in SUBSET Bits
        BY DEF Taken
    <2> QED
        BY <2>1, <2>2, FS_Subset, FS_CardinalityType
<1>5. Cardinality(Held) <= Cardinality(Taken(bitmap))
    BY DEF ChannelInv, WindowBound
<1>6. Len(rq) + Cardinality(AtCq) + Flag(cqpc \in InHandler) = BIT_ARR_SIZE
    BY DEF BuffersInv
<1>7. Len(rq) \in Nat /\ Flag(cqpc \in InHandler) \in Nat /\ BIT_ARR_SIZE \in Nat
    BY BitArrSizeAssumption DEF ChannelInv, TypeOK, Flag
<1> QED
    BY <1>2, <1>3, <1>4, <1>5, <1>6, <1>7

(* As long as the peer is there and the callback has not given up, the     *)
(* answer to a request finds a receive buffer, except while the callback   *)
(* holds one between free_msgbuf_id and ib_post_recv: for any number of    *)
(* requesters, although the ids given back are not those of the requests.  *)
THEOREM ReceiverIsReady == Spec => []ReceiverReady
<1>1. Init => BuffersInv
    BY BuffersInit
<1>2. ChannelInv /\ BuffersInv /\ [Next]_vars => BuffersInv'
    <2> SUFFICES ASSUME ChannelInv, BuffersInv, [Next]_vars PROVE BuffersInv'
        OBVIOUS
    <2>1. CASE UNCHANGED vars
        BY <2>1 DEF vars, qpVars, cbVars, connVars, BuffersInv, AtCq
    <2> QED
        BY <2>1, OthersKeepBuffers, CallbackKeepsBuffers DEF Next, ChannelInv
<1>3. ChannelInv /\ BuffersInv => ReceiverReady
    BY BuffersImplyReady
<1> QED
    BY <1>1, <1>2, <1>3, ChannelInvariant, PTL DEF Spec

-----------------------------------------------------------------------------
(* The completion queue                                                    *)

(* The places of a queue whose completions are of some kinds. *)
Positions(s, ops) == {i \in 1 .. Len(s) : s[i].op \in ops}

(* They can be counted. *)
LEMMA CountType ==
    ASSUME NEW s \in Seq(Completions), NEW ops
    PROVE  /\ IsFiniteSet(Positions(s, ops))
           /\ Count(s, ops) = Cardinality(Positions(s, ops))
           /\ Count(s, ops) \in Nat
<1>1. IsFiniteSet(1 .. Len(s)) /\ Positions(s, ops) \in SUBSET (1 .. Len(s))
    BY FS_Interval DEF Positions
<1>2. IsFiniteSet(Positions(s, ops))
    BY <1>1, FS_Subset
<1>3. Count(s, ops) = Cardinality(Positions(s, ops))
    BY DEF Count, Positions
<1> QED
    BY <1>2, <1>3, FS_CardinalityType

(* Appending a queue to another adds the counts: its positions move up by  *)
(* the length of the first.                                                *)
LEMMA CountConcat ==
    ASSUME NEW s \in Seq(Completions), NEW t \in Seq(Completions), NEW ops
    PROVE  Count(s \o t, ops) = Count(s, ops) + Count(t, ops)
<1> DEFINE P == Positions(s, ops)
           Q == Positions(t, ops)
           R == {i \in Len(s) + 1 .. Len(s) + Len(t) : t[i - Len(s)].op \in ops}
           f == [j \in Q |-> Len(s) + j]
<1>1. IsFiniteSet(P) /\ IsFiniteSet(Q)
    BY CountType
<1>2. Cardinality(P) \in Nat /\ Cardinality(Q) \in Nat
    BY <1>1, FS_CardinalityType
<1>3. IsFiniteSet(R) /\ Cardinality(R) = Cardinality(Q)
    <2>1. Len(s) \in Nat /\ Len(t) \in Nat /\ Q \subseteq 1 .. Len(t)
        BY DEF Positions
    <2>2. \A j \in Q : Len(s) + j \in R
        <3> SUFFICES ASSUME NEW j \in 1 .. Len(t), t[j].op \in ops PROVE Len(s) + j \in R
            BY DEF Positions
        <3>1. (Len(s) + j) - Len(s) = j
            BY <2>1
        <3> QED
            BY <2>1, <3>1
    <2>3. f \in [Q -> R]
        BY <2>2
    <2>4. \A j, k \in Q : f[j] = f[k] => j = k
        BY <2>1
    <2>5. \A i \in R : \E j \in Q : f[j] = i
        <3> SUFFICES ASSUME NEW i \in R PROVE i - Len(s) \in Q /\ f[i - Len(s)] = i
            OBVIOUS
        <3>1. i - Len(s) \in Q
            BY <2>1 DEF Positions
        <3> QED
            BY <2>1, <3>1
    <2>6. f \in Injection(Q, R) /\ f \in Surjection(Q, R)
        BY <2>3, <2>4, <2>5 DEF Injection, IsInjective, Surjection
    <2>7. ExistsBijection(Q, R)
        BY <2>6 DEF ExistsBijection, Bijection
    <2> QED
        BY <1>1, <2>7, FS_Bijection
<1>4. Positions(s \o t, ops) = P \cup R /\ P \cap R = {}
    BY DEF Positions
<1> HIDE DEF P, Q, R
<1>5. Cardinality(P \cup R) = Cardinality(P) + Cardinality(R) - Cardinality(P \cap R)
    BY <1>1, <1>3, FS_Union
<1>6. Cardinality(P \cap R) = 0
    BY <1>4, FS_EmptySet
<1>7. Cardinality(P \cup R) = Cardinality(P) + Cardinality(Q)
    BY <1>2, <1>3, <1>5, <1>6
<1>8. s \o t \in Seq(Completions)
    OBVIOUS
<1> QED
    BY <1>4, <1>7, <1>8, CountType DEF P, Q

(* A queue all of one kind. *)
LEMMA CountUniform ==
    ASSUME NEW s \in Seq(Completions), NEW ops
    PROVE  /\ (\A i \in 1 .. Len(s) : s[i].op \in ops) => Count(s, ops) = Len(s)
           /\ (\A i \in 1 .. Len(s) : s[i].op \notin ops) => Count(s, ops) = 0
<1>1. Len(s) \in Nat /\ Cardinality(1 .. Len(s)) = Len(s)
    <2>1. Len(s) \in Nat /\ 1 \in Int /\ Len(s) \in Int
        OBVIOUS
    <2>2. Cardinality(1 .. Len(s)) = IF 1 > Len(s) THEN 0 ELSE Len(s) - 1 + 1
        BY <2>1, FS_Interval
    <2> QED
        BY <2>1, <2>2
<1>2. ASSUME \A i \in 1 .. Len(s) : s[i].op \in ops
      PROVE  Count(s, ops) = Len(s)
    <2>1. Positions(s, ops) = 1 .. Len(s)
        BY <1>2 DEF Positions
    <2> QED
        BY <1>1, <2>1, CountType
<1>3. ASSUME \A i \in 1 .. Len(s) : s[i].op \notin ops
      PROVE  Count(s, ops) = 0
    <2>1. Positions(s, ops) = {}
        BY <1>3 DEF Positions
    <2> QED
        BY <2>1, CountType, FS_EmptySet
<1> QED
    BY <1>2, <1>3

(* A single completion. *)
LEMMA CountOne ==
    ASSUME NEW e \in Completions, NEW ops
    PROVE  Count(<<e>>, ops) = Flag(e.op \in ops)
<1>1. <<e>> \in Seq(Completions) /\ Len(<<e>>) = 1 /\ \A i \in 1 .. Len(<<e>>) : <<e>>[i] = e
    OBVIOUS
<1>2. CASE e.op \in ops
    BY <1>1, <1>2, CountUniform DEF Flag
<1>3. CASE e.op \notin ops
    BY <1>1, <1>3, CountUniform DEF Flag
<1> QED
    BY <1>2, <1>3

(* The poll takes the first completion off the count. *)
LEMMA CountTail ==
    ASSUME NEW s \in Seq(Completions), s # <<>>, NEW ops
    PROVE  Count(s, ops) = Flag(Head(s).op \in ops) + Count(Tail(s), ops)
<1>1. Head(s) \in Completions /\ Tail(s) \in Seq(Completions) /\ s = <<Head(s)>> \o Tail(s)
    BY HeadTailProperties
<1>2. <<Head(s)>> \in Seq(Completions)
    BY <1>1
<1>3. Count(<<Head(s)>> \o Tail(s), ops) = Count(<<Head(s)>>, ops) + Count(Tail(s), ops)
    BY <1>1, <1>2, CountConcat
<1> QED
    BY <1>1, <1>3, CountOne

(* Every completion is of a send or of a receive. *)
LEMMA CountAll ==
    ASSUME NEW s \in Seq(Completions)
    PROVE  Len(s) = Count(s, OfSend) + Count(s, OfRecv)
<1> DEFINE P == Positions(s, OfSend)
           Q == Positions(s, OfRecv)
<1>1. P \cup Q = 1 .. Len(s) /\ P \cap Q = {}
    <2>1. \A i \in 1 .. Len(s) : /\ s[i].op \in OfSend \/ s[i].op \in OfRecv
                                 /\ ~ (s[i].op \in OfSend /\ s[i].op \in OfRecv)
        <3> SUFFICES ASSUME NEW i \in 1 .. Len(s)
                     PROVE  s[i].op \in {"send", "recv", "flushed_send", "flushed_recv", "error"}
            BY DEF OfSend, OfRecv
        <3>1. s[i] \in Completions
            OBVIOUS
        <3> QED
            BY <3>1 DEF Completions
    <2> QED
        BY <2>1 DEF Positions
<1>2. IsFiniteSet(P) /\ IsFiniteSet(Q)
    BY CountType
<1>3. Count(s, OfSend) = Cardinality(P) /\ Count(s, OfRecv) = Cardinality(Q)
    BY CountType
<1>4. Len(s) \in Nat /\ Cardinality(1 .. Len(s)) = Len(s)
    <2>1. Len(s) \in Nat /\ 1 \in Int /\ Len(s) \in Int
        OBVIOUS
    <2>2. Cardinality(1 .. Len(s)) = IF 1 > Len(s) THEN 0 ELSE Len(s) - 1 + 1
        BY <2>1, FS_Interval
    <2> QED
        BY <2>1, <2>2
<1> HIDE DEF P, Q
<1>5. Cardinality(P \cup Q) = Cardinality(P) + Cardinality(Q) - Cardinality(P \cap Q)
    BY <1>2, FS_Union
<1>6. Cardinality(P \cap Q) = 0
    BY <1>1, FS_EmptySet
<1>7. Cardinality(P) \in Nat /\ Cardinality(Q) \in Nat
    BY <1>2, FS_CardinalityType
<1>8. Cardinality(P \cup Q) = Len(s)
    BY <1>1, <1>4
<1> QED
    BY <1>3, <1>5, <1>6, <1>7, <1>8

(* The queues of a channel that has just connected. *)
LEMMA CapacityInit == Init => CapacityInv
<1> SUFFICES ASSUME Init PROVE CapacityInv
    OBVIOUS
<1>1. Len(rq) = BIT_ARR_SIZE /\ Len(sq) = 0 /\ cq = <<>> /\ cqpc = "idle"
    BY BitArrSizeAssumption DEF Init, PostedBuffers
<1>2. <<>> \in Seq(Completions) /\ Len(<<>>) = 0
    OBVIOUS
<1>3. Count(<<>>, OfSend) = 0 /\ Count(<<>>, OfRecv) = 0
    <2>1. \A i \in 1 .. Len(<<>>) : <<>>[i].op \notin OfSend /\ <<>>[i].op \notin OfRecv
        BY <1>2
    <2> QED
        BY <1>2, <2>1, CountUniform
<1> QED
    BY <1>1, <1>3, BitArrSizeAssumption, ChannelAssumption DEF CapacityInv, Flag, InHandler

(* What the callback holds of the receive buffers. *)
Holding == {"free"} \cup InHandler

(* A completion that arrives fits when its work request gives up its place. *)
LEMMA CompleteKeepsCapacity ==
    ASSUME TypeOK, CapacityInv, NEW s \in Seq(Completions), Complete(s),
           Len(sq') \in Nat, Len(rq') \in Nat,
           Len(sq') + Count(s, OfSend) <= Len(sq)
              \/ Len(sq') + Count(s, OfSend) + Count(cq, OfSend) <= SQ_DEPTH,
           Len(rq') + Count(s, OfRecv) + Flag(cqpc' \in Holding)
              <= Len(rq) + Flag(cqpc \in Holding)
    PROVE  CapacityInv'
<1>1. cq \in Seq(Completions) /\ Len(sq) \in Nat /\ Len(rq) \in Nat
    BY DEF TypeOK
<1>2. /\ Count(cq, OfSend) \in Nat /\ Count(cq, OfRecv) \in Nat
      /\ Count(s, OfSend) \in Nat /\ Count(s, OfRecv) \in Nat
    BY <1>1, CountType
<1>3. cq' = cq \o s
    BY DEF Complete
<1>4. /\ Count(cq', OfSend) = Count(cq, OfSend) + Count(s, OfSend)
      /\ Count(cq', OfRecv) = Count(cq, OfRecv) + Count(s, OfRecv)
    BY <1>1, <1>3, CountConcat
<1>5. /\ Len(sq) + Count(cq, OfSend) <= SQ_DEPTH /\ SQ_DEPTH \in Nat
      /\ Len(rq) + Count(cq, OfRecv) + Flag(cqpc \in Holding) <= BIT_ARR_SIZE
    BY ChannelAssumption DEF CapacityInv, Holding
<1>6. /\ Flag(cqpc \in Holding) \in Nat /\ Flag(cqpc' \in Holding) \in Nat
      /\ BIT_ARR_SIZE \in Nat
    BY BitArrSizeAssumption DEF Flag
<1>7. Len(sq') + Count(cq', OfSend) <= SQ_DEPTH
    BY <1>1, <1>2, <1>4, <1>5
<1>8. Len(rq') + Count(cq', OfRecv) + Flag(cqpc' \in Holding) <= BIT_ARR_SIZE
    <2> DEFINE held == Flag(cqpc \in Holding)
               holds == Flag(cqpc' \in Holding)
               came == Count(s, OfRecv)
               were == Count(cq, OfRecv)
    <2>1. /\ held \in Nat /\ holds \in Nat /\ came \in Nat /\ were \in Nat
          /\ Len(rq') \in Nat /\ Len(rq) \in Nat /\ BIT_ARR_SIZE \in Nat
        BY <1>1, <1>2, <1>6
    <2>2. Len(rq') + came + holds <= Len(rq) + held /\ Len(rq) + were + held <= BIT_ARR_SIZE
        BY <1>5
    <2>3. Count(cq', OfRecv) = were + came
        BY <1>4
    <2> HIDE DEF held, holds, came, were
    <2>4. Len(rq') + (were + came) + holds <= BIT_ARR_SIZE
        BY <2>1, <2>2
    <2> QED
        BY <2>3, <2>4 DEF holds
<1> QED
    BY <1>7, <1>8 DEF CapacityInv, Holding

(* So does a step that leaves the CQ alone and holds on to no more. *)
LEMMA QuietKeepsCapacity ==
    ASSUME TypeOK, CapacityInv, cq' = cq,
           sq' = sq \/ (Len(sq') = Len(sq) + 1 /\ ~ SqFull),
           Len(rq') \in Nat,
           Len(rq') + Flag(cqpc' \in Holding) <= Len(rq) + Flag(cqpc \in Holding)
    PROVE  CapacityInv'
<1>1. cq \in Seq(Completions) /\ Len(sq) \in Nat /\ Len(rq) \in Nat
    BY DEF TypeOK
<1>2. Count(cq, OfSend) \in Nat /\ Count(cq, OfRecv) \in Nat
    BY <1>1, CountType
<1>3. /\ Len(sq) + Count(cq, OfSend) <= SQ_DEPTH /\ SQ_DEPTH \in Nat
      /\ Len(rq) + Count(cq, OfRecv) + Flag(cqpc \in Holding) <= BIT_ARR_SIZE
    BY ChannelAssumption DEF CapacityInv, Holding
<1>4. /\ Flag(cqpc \in Holding) \in Nat /\ Flag(cqpc' \in Holding) \in Nat
      /\ BIT_ARR_SIZE \in Nat
    BY BitArrSizeAssumption DEF Flag
<1>5. Len(sq') + Count(cq, OfSend) <= SQ_DEPTH
    BY <1>1, <1>2, <1>3 DEF SqFull
<1>6. Len(rq') + Count(cq, OfRecv) + Flag(cqpc' \in Holding) <= BIT_ARR_SIZE
    BY <1>1, <1>2, <1>3, <1>4
<1> QED
    BY <1>5, <1>6 DEF CapacityInv, Holding

(* A poll takes a completion; the callback may hold on to its buffer. *)
LEMMA PollKeepsCapacity ==
    ASSUME TypeOK, CapacityInv, cq # <<>>, cq' = Tail(cq), UNCHANGED <<sq, rq>>,
           cqpc \notin Holding, cqpc' \in Holding => Head(cq).op \in OfRecv
    PROVE  CapacityInv'
<1>1. cq \in Seq(Completions) /\ Len(sq) \in Nat /\ Len(rq) \in Nat
    BY DEF TypeOK
<1>2. Tail(cq) \in Seq(Completions)
    BY <1>1
<1>3. /\ Count(cq', OfSend) \in Nat /\ Count(cq', OfRecv) \in Nat
    BY <1>2, CountType
<1>4. /\ Count(cq, OfSend) = Flag(Head(cq).op \in OfSend) + Count(cq', OfSend)
      /\ Count(cq, OfRecv) = Flag(Head(cq).op \in OfRecv) + Count(cq', OfRecv)
    BY <1>1, CountTail
<1>5. /\ Len(sq) + Count(cq, OfSend) <= SQ_DEPTH /\ SQ_DEPTH \in Nat
      /\ Len(rq) + Count(cq, OfRecv) + Flag(cqpc \in Holding) <= BIT_ARR_SIZE
      /\ BIT_ARR_SIZE \in Nat
    BY ChannelAssumption, BitArrSizeAssumption DEF CapacityInv, Holding
<1>6. /\ Flag(cqpc' \in Holding) <= Flag(Head(cq).op \in OfRecv)
      /\ Flag(cqpc \in Holding) = 0
      /\ Flag(cqpc' \in Holding) \in Nat
      /\ Flag(Head(cq).op \in OfSend) \in Nat /\ Flag(Head(cq).op \in OfRecv) \in Nat
    BY DEF Flag
<1>7. Len(sq) + Count(cq', OfSend) <= SQ_DEPTH
    BY <1>1, <1>3, <1>4, <1>5, <1>6
<1>8. Len(rq) + Count(cq', OfRecv) + Flag(cqpc' \in Holding) <= BIT_ARR_SIZE
    BY <1>1, <1>3, <1>4, <1>5, <1>6
<1> QED
    BY <1>7, <1>8 DEF CapacityInv, Holding

(* ib_post_send fails rather than overrun the send queue, and completing   *)
(* or flushing moves a work request from its queue to the CQ.              *)
LEMMA OthersKeepCapacity ==
    ASSUME TypeOK, CapacityInv, Environment \/ \E c \in Calls : Requester(c)
    PROVE  CapacityInv'
<1> USE DEF qpVars, cqVars, cbVars, connVars
<1>0. /\ Len(sq) \in Nat /\ Len(rq) \in Nat /\ sq \in Seq(Calls) /\ rq \in Seq(Bits)
      /\ Flag(cqpc \in Holding) \in Nat
    BY DEF TypeOK, Flag
<1>1. ASSUME NEW c \in Calls, Requester(c)
      PROVE  CapacityInv'
    <2>1. CASE PostSend(c) /\ conn = "dead"
        <3> DEFINE e == FlushedSend(slot[c])
        <3>1. <<e>> \in Seq(Completions) /\ Complete(<<e>>) /\ UNCHANGED <<sq, rq, cqpc>> /\ ~ SqFull
            BY <2>1, CompletedType DEF PostSend
        <3>2. e \in Completions /\ e.op \in OfSend /\ e.op \notin OfRecv
            BY CompletionTypes DEF TypeOK, FlushedSend, Completion, OfSend, OfRecv
        <3>3. Count(<<e>>, OfSend) = 1 /\ Count(<<e>>, OfRecv) = 0
            BY <3>2, CountOne DEF Flag
        <3>4. Len(sq) + 1 + Count(cq, OfSend) <= SQ_DEPTH
            <4>1. Count(cq, OfSend) \in Nat
                BY CountType DEF TypeOK
            <4> QED
                BY <1>0, <3>1, <4>1, ChannelAssumption DEF SqFull
        <3>5. /\ Len(sq') \in Nat /\ Len(rq') \in Nat
              /\ Len(sq') + Count(<<e>>, OfSend) + Count(cq, OfSend) <= SQ_DEPTH
              /\ Len(rq') + Count(<<e>>, OfRecv) + Flag(cqpc' \in Holding)
                    <= Len(rq) + Flag(cqpc \in Holding)
            BY <1>0, <3>1, <3>3, <3>4
        <3> HIDE DEF e
        <3> QED
            BY <3>1, <3>5, CompleteKeepsCapacity
    <2>2. CASE PostSend(c) /\ conn # "dead"
        <3>1. /\ Len(sq') = Len(sq) + 1 /\ ~ SqFull /\ cq' = cq /\ UNCHANGED <<rq, cqpc>>
            BY <1>0, <2>2 DEF PostSend
        <3> QED
            BY <1>0, <3>1, QuietKeepsCapacity
    <2>3. CASE \/ Call(c) \/ AllocMsgbufId(c) \/ LoadSeqn(c) \/ FillHeader(c) \/ FillData(c)
               \/ PostSendFails(c)
        <3>1. UNCHANGED <<cq, sq, rq, cqpc>>
            BY <2>3 DEF Call, AllocMsgbufId, LoadSeqn, FillHeader, FillData, PostSendFails
        <3> QED
            BY <1>0, <3>1, QuietKeepsCapacity
    <2> QED
        BY <1>1, <2>1, <2>2, <2>3 DEF Requester, SendStep
<1>2. CASE Transmit \/ ReceiverNotReady \/ PeerGone \/ CmDisconnected
    <2>1. UNCHANGED <<cq, sq, rq, cqpc>>
        BY <1>2 DEF Transmit, ReceiverNotReady, PeerGone, LosePeer, CmDisconnected
    <2>2. Len(rq') \in Nat /\ Len(rq') + Flag(cqpc' \in Holding) <= Len(rq) + Flag(cqpc \in Holding)
        BY <1>0, <2>1 DEF Flag
    <2> QED
        BY <2>1, <2>2, QuietKeepsCapacity
<1>3. CASE SendComplete
    <2>1. Head(sq) \in Calls /\ Len(sq') = Len(sq) - 1 /\ Len(sq') \in Nat
        BY <1>0, <1>3 DEF SendComplete, TypeOK
    <2> DEFINE e == SendDone(Head(sq))
    <2>2. <<e>> \in Seq(Completions) /\ Complete(<<e>>) /\ UNCHANGED <<rq, cqpc>>
        BY <1>3, <2>1, CompletedType DEF SendComplete
    <2>3. e \in Completions /\ e.op \in OfSend /\ e.op \notin OfRecv
        BY <2>1, CompletionTypes DEF TypeOK, SendDone, Completion, OfSend, OfRecv
    <2>4. Count(<<e>>, OfSend) = 1 /\ Count(<<e>>, OfRecv) = 0
        BY <2>3, CountOne DEF Flag
    <2>5. /\ Len(sq') \in Nat /\ Len(rq') \in Nat
          /\ Len(sq') + Count(<<e>>, OfSend) <= Len(sq)
          /\ Len(rq') + Count(<<e>>, OfRecv) + Flag(cqpc' \in Holding)
                <= Len(rq) + Flag(cqpc \in Holding)
        BY <1>0, <2>1, <2>2, <2>4
    <2> HIDE DEF e
    <2> QED
        BY <2>2, <2>5, CompleteKeepsCapacity
<1>4. ASSUME NEW r \in srv, Respond(r)
      PROVE  CapacityInv'
    <2>1. Head(rq) \in Bits /\ Len(rq') = Len(rq) - 1 /\ Len(rq') \in Nat
        BY <1>0, <1>4 DEF Respond
    <2> DEFINE e == Completion("recv", Head(rq), r.call, r.msg)
    <2>2. <<e>> \in Seq(Completions) /\ Complete(<<e>>) /\ UNCHANGED <<sq, cqpc>>
        BY <1>4, CompletedType DEF Respond
    <2>3. e \in Completions /\ e.op \notin OfSend /\ e.op \in OfRecv
        BY <2>1, CompletionTypes DEF TypeOK, Completion, OfSend, OfRecv
    <2>4. Count(<<e>>, OfSend) = 0 /\ Count(<<e>>, OfRecv) = 1
        BY <2>3, CountOne DEF Flag
    <2>5. /\ Len(sq') \in Nat /\ Len(rq') \in Nat
          /\ Len(sq') + Count(<<e>>, OfSend) <= Len(sq)
          /\ Len(rq') + Count(<<e>>, OfRecv) + Flag(cqpc' \in Holding)
                <= Len(rq) + Flag(cqpc \in Holding)
        BY <1>0, <2>1, <2>2, <2>4
    <2> HIDE DEF e
    <2> QED
        BY <2>2, <2>5, CompleteKeepsCapacity
<1>5. CASE SendFails
    <2>1. /\ Complete(FailedSends \o FailedRecvs) /\ sq # <<>> /\ UNCHANGED cqpc
          /\ Len(sq') = 0 /\ Len(rq') = 0
        BY <1>5 DEF SendFails, FailedSends, FailedRecvs
    <2>2. /\ Count(FailedSends, OfSend) = Len(sq) /\ Count(FailedSends, OfRecv) = 0
          /\ Count(FailedRecvs, OfSend) = 0 /\ Count(FailedRecvs, OfRecv) = Len(rq)
        <3>1. /\ \A i \in 1 .. Len(FailedSends) : FailedSends[i].op \notin OfRecv
              /\ \A i \in 1 .. Len(FailedRecvs) : FailedRecvs[i].op \notin OfSend
            BY <2>1, FailedTypes DEF OfSend, OfRecv
        <3> QED
            BY <2>1, <3>1, FailedTypes, CountUniform
    <2>3. /\ Count(FailedSends \o FailedRecvs, OfSend) = Len(sq)
          /\ Count(FailedSends \o FailedRecvs, OfRecv) = Len(rq)
        <3>1. FailedSends \in Seq(Completions) /\ FailedRecvs \in Seq(Completions)
            BY <2>1, FailedTypes
        <3>2. \A ops : Count(FailedSends \o FailedRecvs, ops)
                          = Count(FailedSends, ops) + Count(FailedRecvs, ops)
            BY <3>1, CountConcat
        <3> QED
            BY <1>0, <2>2, <3>2
    <2> DEFINE s == FailedSends \o FailedRecvs
    <2>4. /\ Len(sq') \in Nat /\ Len(rq') \in Nat
          /\ Len(sq') + Count(s, OfSend) <= Len(sq)
          /\ Len(rq') + Count(s, OfRecv) + Flag(cqpc' \in Holding)
                <= Len(rq) + Flag(cqpc \in Holding)
        BY <1>0, <2>1, <2>3
    <2>5. s \in Seq(Completions) /\ Complete(s)
        BY <2>1, FailedTypes
    <2> HIDE DEF s
    <2> QED
        BY <2>4, <2>5, CompleteKeepsCapacity
<1> QED
    BY <1>1, <1>2, <1>3, <1>4, <1>5 DEF Environment

(* The callback moves a receive buffer from the CQ to its hands and from   *)
(* there back to the receive queue.                                        *)
LEMMA CallbackKeepsCapacity ==
    ASSUME TypeOK, CapacityInv, Callback
    PROVE  CapacityInv'
<1> USE DEF qpVars, cqVars, cbVars, connVars, HandlerError
<1>0. Len(sq) \in Nat /\ Len(rq) \in Nat /\ rq \in Seq(Bits)
    BY DEF TypeOK
<1>1. CASE CqThread \/ PollEmpty \/ (PollError /\ cq' = cq)
    <2>1. UNCHANGED <<cq, sq, rq>> /\ cqpc \notin Holding /\ cqpc' \notin Holding
        BY <1>1 DEF CqThread, PollEmpty, PollError, Polled, Holding, InHandler
    <2>2. Len(rq') \in Nat /\ Len(rq') + Flag(cqpc' \in Holding) <= Len(rq) + Flag(cqpc \in Holding)
        BY <1>0, <2>1 DEF Flag
    <2> QED
        BY <2>1, <2>2, QuietKeepsCapacity
<1>2. CASE PollSendOrFlush \/ (PollError /\ cq' # cq) \/ PollRecvFails
    <2>1. /\ cq # <<>> /\ cq' = Tail(cq) /\ UNCHANGED <<sq, rq>>
          /\ cqpc \notin Holding /\ cqpc' \notin Holding
        BY <1>2 DEF PollSendOrFlush, PollError, PollRecvFails, Polled, Holding, InHandler
    <2> QED
        BY <2>1, PollKeepsCapacity
<1>3. CASE PollRecv
    <2>1. /\ cq # <<>> /\ cq' = Tail(cq) /\ UNCHANGED <<sq, rq>>
          /\ cqpc \notin Holding /\ Head(cq).op \in OfRecv
        BY <1>3 DEF PollRecv, Polled, Holding, InHandler, OfRecv
    <2> QED
        BY <2>1, PollKeepsCapacity
<1>4. CASE FreeMsgbufId \/ UserHandler \/ SetWorking
    <2>1. UNCHANGED <<cq, sq, rq>> /\ cqpc \in Holding /\ cqpc' \in Holding
        BY <1>4 DEF FreeMsgbufId, UserHandler, SetWorking, Holding, InHandler
    <2>2. Len(rq') \in Nat /\ Len(rq') + Flag(cqpc' \in Holding) <= Len(rq) + Flag(cqpc \in Holding)
        BY <1>0, <2>1 DEF Flag
    <2> QED
        BY <2>1, <2>2, QuietKeepsCapacity
<1>5. CASE PostRecvFails
    <2>1. UNCHANGED <<cq, sq, rq>> /\ cqpc \in Holding /\ cqpc' \notin Holding
        BY <1>5 DEF PostRecvFails, Holding, InHandler
    <2>2. Len(rq') \in Nat /\ Len(rq') + Flag(cqpc' \in Holding) <= Len(rq) + Flag(cqpc \in Holding)
        BY <1>0, <2>1 DEF Flag
    <2> QED
        BY <2>1, <2>2, QuietKeepsCapacity
<1>6. CASE PostRecv
    <2>1. sq' = sq /\ cqpc \in Holding /\ cqpc' \notin Holding /\ wc.wr_id \in Bits
        BY <1>6 DEF PostRecv, Holding, InHandler, TypeOK, Completions
    <2>2. CASE conn = "dead"
        <3> DEFINE e == FlushedRecv(wc.wr_id)
        <3>1. <<e>> \in Seq(Completions) /\ Complete(<<e>>) /\ rq' = rq
            BY <1>6, <2>2, CompletedType DEF PostRecv
        <3>2. e \in Completions /\ e.op \notin OfSend /\ e.op \in OfRecv
            BY <2>1, CompletionTypes DEF FlushedRecv, Completion, OfSend, OfRecv
        <3>3. Count(<<e>>, OfSend) = 0 /\ Count(<<e>>, OfRecv) = 1
            BY <3>2, CountOne DEF Flag
        <3>4. /\ Len(sq') \in Nat /\ Len(rq') \in Nat
              /\ Len(sq') + Count(<<e>>, OfSend) <= Len(sq)
              /\ Len(rq') + Count(<<e>>, OfRecv) + Flag(cqpc' \in Holding)
                    <= Len(rq) + Flag(cqpc \in Holding)
            BY <1>0, <2>1, <3>1, <3>3 DEF Flag
        <3> HIDE DEF e
        <3> QED
            BY <3>1, <3>4, CompleteKeepsCapacity
    <2>3. CASE conn # "dead"
        <3>1. Len(rq') = Len(rq) + 1 /\ cq' = cq
            BY <1>0, <1>6, <2>1, <2>3 DEF PostRecv
        <3>2. /\ Len(rq') \in Nat
              /\ Len(rq') + Flag(cqpc' \in Holding) <= Len(rq) + Flag(cqpc \in Holding)
            BY <1>0, <2>1, <3>1 DEF Flag
        <3> QED
            BY <2>1, <3>1, <3>2, QuietKeepsCapacity
    <2> QED
        BY <2>2, <2>3
<1> QED
    BY <1>1, <1>2, <1>3, <1>4, <1>5, <1>6 DEF Callback

(* The CQ never holds more than SQ_DEPTH completions of sends and one      *)
(* completion for each receive buffer, whatever fails: the size setup_qp   *)
(* would have to ask for, for every depth and every number of buffers.     *)
THEOREM CqIsBounded == Spec => []CqBounded
<1>1. Init => CapacityInv
    BY CapacityInit
<1>2. TypeOK /\ CapacityInv /\ [Next]_vars => CapacityInv'
    <2> SUFFICES ASSUME TypeOK, CapacityInv, [Next]_vars PROVE CapacityInv'
        OBVIOUS
    <2>1. CASE UNCHANGED vars
        BY <2>1 DEF vars, qpVars, cqVars, cbVars, CapacityInv
    <2> QED
        BY <2>1, OthersKeepCapacity, CallbackKeepsCapacity DEF Next
<1>3. TypeOK /\ CapacityInv => CqBounded
    <2> SUFFICES ASSUME TypeOK, CapacityInv PROVE Len(cq) <= SQ_DEPTH + BIT_ARR_SIZE
        BY DEF CqBounded
    <2>1. cq \in Seq(Completions) /\ Len(sq) \in Nat /\ Len(rq) \in Nat
        BY DEF TypeOK
    <2>2. Count(cq, OfSend) \in Nat /\ Count(cq, OfRecv) \in Nat
        BY <2>1, CountType
    <2>3. Len(cq) = Count(cq, OfSend) + Count(cq, OfRecv)
        BY <2>1, CountAll
    <2>4. Flag(cqpc \in {"free"} \cup InHandler) \in Nat /\ SQ_DEPTH \in Nat /\ BIT_ARR_SIZE \in Nat
        BY ChannelAssumption, BitArrSizeAssumption DEF Flag
    <2>5. Count(cq, OfSend) <= SQ_DEPTH
        BY <2>1, <2>2, <2>4 DEF CapacityInv
    <2>6. Count(cq, OfRecv) <= BIT_ARR_SIZE
        BY <2>1, <2>2, <2>4 DEF CapacityInv
    <2> QED
        BY <2>2, <2>3, <2>4, <2>5, <2>6
<1> QED
    BY <1>1, <1>2, <1>3, ChannelTypeCorrect, PTL DEF Spec
=============================================================================
