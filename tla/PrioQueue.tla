----------------------------- MODULE PrioQueue ------------------------------
(***************************************************************************)
(* The event queue of a weave domain (prio_queue.h): a ring of B blocks of *)
(* Slots cycles each for the near future, a map for the events beyond it.  *)
(* Whenever the first block of either half of the ring comes up, the       *)
(* events of the map that the ring now reaches are moved to it.            *)
(*                                                                         *)
(* A slot is a list of events linked through their next pointers; its      *)
(* order is left open.  dequeue is taken in steps, one per block passed,   *)
(* and nothing else happens meanwhile: a queue is dequeued by its domain's *)
(* thread only, and events are put in by that thread between two dequeues, *)
(* or in the bound phase under pqLock.                                     *)
(***************************************************************************)
EXTENDS Integers, FiniteSets, FiniteSetsExt

CONSTANTS Events,
          Half,       \* B/2 (B is PQ_BLOCKS)
          Slots,      \* cycles per block (64)
          MaxCycle    \* bound: no event is put in for a later cycle

ASSUME QueueAssumption ==
    /\ Half \in Nat \ {0}
    /\ Slots \in Nat \ {0}
    /\ MaxCycle \in Nat

VARIABLES array,      \* array[i][pos]: the events of a slot of block i
          occ,        \* the slots of block i that hold events
          feMap,      \* pairs <<cycle, event>>: the far elements
          curBlock,
          elems,
          now,        \* history: the cycle of the last event dequeued
          busy        \* dequeue has begun

vars == <<array, occ, feMap, curBlock, elems, now, busy>>

B == 2 * Half
Ring == 0 .. B - 1
Positions == 0 .. Slots - 1
Cycles == 0 .. MaxCycle

(* Where a cycle is kept. *)
absBlock(cycle) == cycle \div Slots
offset(cycle) == cycle % Slots
ringIdx(block) == block % B

(* The ring stands for the next B blocks. *)
Window == curBlock * Slots .. (curBlock + B) * Slots - 1
Placed(cycle, e) == e \in array[ringIdx(absBlock(cycle))][offset(cycle)]

(* Everything in the queue. *)
Contents == {item \in Window \X Events : Placed(item[1], item[2])} \cup feMap

Init ==
    /\ array = [i \in Ring |-> [pos \in Positions |-> {}]]
    /\ occ = [i \in Ring |-> {}]
    /\ feMap = {} /\ curBlock = 0 /\ elems = 0
    /\ now = 0 /\ busy = FALSE

(* Puts the items into the ring: PQBlock::enqueue of each. *)
Insert(items) ==
    /\ array' = [i \in Ring |-> [pos \in Positions |->
                    array[i][pos] \cup {item[2] : item \in
                        {x \in items : ringIdx(absBlock(x[1])) = i /\ offset(x[1]) = pos}}]]
    /\ occ' = [i \in Ring |->
                    occ[i] \cup {offset(x[1]) : x \in {y \in items : ringIdx(absBlock(y[1])) = i}}]

enqueue(e, cycle) ==
    /\ ~busy /\ cycle >= now
    /\ \A item \in Contents : item[2] # e
    /\ IF absBlock(cycle) < curBlock + B
       THEN Insert({<<cycle, e>>}) /\ UNCHANGED feMap
       ELSE feMap' = feMap \cup {<<cycle, e>>} /\ UNCHANGED <<array, occ>>
    /\ elems' = elems + 1
    /\ UNCHANGED <<curBlock, now, busy>>

dequeue ==
    /\ ~busy /\ elems > 0
    /\ busy' = TRUE
    /\ UNCHANGED <<array, occ, feMap, curBlock, elems, now>>

(* Mutant: the first element beyond the ring is moved too. *)
Reached_Inclusive(b) ==
    IF b % Half = 0 THEN {item \in feMap : item[1] <= (b + B) * Slots} ELSE {}

(* The far elements that the ring reaches once block b has come up. *)
Reached(b) ==
    IF b % Half = 0 THEN {item \in feMap : item[1] < (b + B) * Slots} ELSE {}

(* One turn of dequeue's loop. *)
nextBlock ==
    /\ busy /\ occ[ringIdx(curBlock)] = {}
    /\ (curBlock + 1) * Slots <= MaxCycle
    /\ curBlock' = curBlock + 1
    /\ Insert(Reached(curBlock + 1))
    /\ feMap' = feMap \ Reached(curBlock + 1)
    /\ UNCHANGED <<elems, now, busy>>

(* PQBlock::dequeue of the first populated block. *)
take(e) ==
    /\ busy /\ occ[ringIdx(curBlock)] # {}
    /\ LET i == ringIdx(curBlock)
           pos == Min(occ[i])
       IN  /\ e \in array[i][pos]
           /\ array' = [array EXCEPT ![i][pos] = @ \ {e}]
           /\ occ' = [occ EXCEPT ![i] = IF array[i][pos] = {e} THEN @ \ {pos} ELSE @]
           /\ now' = curBlock * Slots + pos
    /\ elems' = elems - 1 /\ busy' = FALSE
    /\ UNCHANGED <<feMap, curBlock>>

(* The first populated block between two distances from curBlock. *)
Populated(from, to) == {k \in from .. to - 1 : occ[ringIdx(curBlock + k)] # {}}
CycleAt(k) == (curBlock + k) * Slots + Min(occ[ringIdx(curBlock + k)])
FirstFar == Min({item[1] : item \in feMap})

(* Mutant: the ring is searched first, the map only if it is empty. *)
firstCycle_RingFirst ==
    IF Populated(0, B) # {} THEN CycleAt(Min(Populated(0, B))) ELSE FirstFar

(* Beyond half of the ring there may be a far element that comes earlier. *)
firstCycle ==
    IF Populated(0, Half) # {} THEN CycleAt(Min(Populated(0, Half)))
    ELSE IF Populated(Half, B) = {} THEN FirstFar
    ELSE Min({CycleAt(Min(Populated(Half, B)))} \cup {item[1] : item \in feMap})

Next ==
    \/ \E e \in Events, cycle \in Cycles : enqueue(e, cycle)
    \/ dequeue
    \/ nextBlock
    \/ \E e \in Events : take(e)

Spec == Init /\ [][Next]_vars

-----------------------------------------------------------------------------
(* The queue is a priority queue: dequeue returns an event with the cycle   *)
(* it was put in for, and no event that comes earlier is left behind        *)
(* (enqueue's choice between ring and map, dequeue's move between them).    *)
PQ == INSTANCE PriorityQueue WITH queue <- Contents
ImplementsQueue == PQ!Spec

(* firstCycle, which decides whether a domain still has work in the phase   *)
(* and where its clock stands, is the cycle dequeue will return.            *)
FirstCycleExact == elems > 0 => firstCycle = Min({item[1] : item \in Contents})
=============================================================================
