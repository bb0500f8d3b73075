----------------------------- MODULE RpcService -----------------------------
(***************************************************************************)
(* What the RPC client promises to a user that makes its next call when    *)
(* its handler has been run for the last one: a call is open from its      *)
(* request on, and it is closed by one run of the handler, with the        *)
(* server's answer to this very call.                                      *)
(* RpcChannel, with its buffers, queues and callback, implements this for  *)
(* one requester.                                                          *)
(***************************************************************************)
EXTENDS Sequences

CONSTANTS Calls

VARIABLES
    open,       \* calls made and not answered
    answers     \* the data the user's handler was run with for each call, in order

vars == <<open, answers>>

Init ==
    /\ open = {}
    /\ answers = [c \in Calls |-> <<>>]

Request(c) ==
    /\ open = {}
    /\ answers[c] = <<>>
    /\ open' = {c}
    /\ UNCHANGED answers

Answer(c) ==
    /\ c \in open
    /\ open' = open \ {c}
    /\ answers' = [answers EXCEPT ![c] = Append(@, c)]

Next == \E c \in Calls : Request(c) \/ Answer(c)

Spec == Init /\ [][Next]_vars
=============================================================================
