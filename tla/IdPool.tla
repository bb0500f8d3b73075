------------------------------- MODULE IdPool -------------------------------
(***************************************************************************)
(* What alloc_msgbuf_id and free_msgbuf_id promise: a caller that asks is  *)
(* given, in one step, the smallest id that nobody holds; a release makes  *)
(* an id available in one step.  MsgBufPool, with its spin lock, its scan  *)
(* and its retry loop, implements this.                                    *)
(***************************************************************************)
EXTENDS Integers

CONSTANTS Threads, Ids

VARIABLES
    used,       \* ids that are taken
    waiting,    \* threads that asked and have not been given an id
    result      \* the id a thread was given last, or NoId

vars == <<used, waiting, result>>

NoId == -1

Init ==
    /\ used = {}
    /\ waiting = {}
    /\ result = [t \in Threads |-> NoId]

Request(t) ==
    /\ t \notin waiting
    /\ waiting' = waiting \cup {t}
    /\ result' = [result EXCEPT ![t] = NoId]
    /\ UNCHANGED used

Grant(t) ==
    /\ t \in waiting
    /\ \E i \in Ids \ used :
          /\ \A j \in Ids \ used : i <= j
          /\ used' = used \cup {i}
          /\ result' = [result EXCEPT ![t] = i]
    /\ waiting' = waiting \ {t}

Release(i) ==
    /\ used' = used \ {i}
    /\ UNCHANGED <<waiting, result>>

Next ==
    \/ \E t \in Threads : Request(t) \/ Grant(t)
    \/ \E i \in Ids : Release(i)

Spec == Init /\ [][Next]_vars
=============================================================================
