--------------------------- MODULE PriorityQueue ----------------------------
(***************************************************************************)
(* What the weave phase expects of a domain's event queue: an event comes  *)
(* back at the cycle it was put in for, and never before an earlier one.   *)
(* WeavePhase works with this queue; PrioQueue shows that prio_queue.h is  *)
(* one.                                                                    *)
(***************************************************************************)
EXTENDS Integers

CONSTANTS Events, Cycles

VARIABLES queue,   \* the pairs <<cycle, event>>
          now      \* the cycle of the last event that was taken

queueVars == <<queue, now>>

Init == queue = {} /\ now = 0

Enqueue(e, cycle) ==
    /\ cycle >= now
    /\ \A item \in queue : item[2] # e
    /\ queue' = queue \cup {<<cycle, e>>}
    /\ UNCHANGED now

Dequeue(item) ==
    /\ item \in queue
    /\ \A other \in queue : item[1] <= other[1]
    /\ queue' = queue \ {item}
    /\ now' = item[1]

Next == \/ \E e \in Events, cycle \in Cycles : Enqueue(e, cycle)
        \/ \E item \in queue : Dequeue(item)

Spec == Init /\ [][Next]_queueVars
=============================================================================
