----------------------------- MODULE EventProofs ----------------------------
(***************************************************************************)
(* Proofs about the times of events in the weave phase: the event queue    *)
(* (prio_queue.h) is a priority queue, for rings and blocks of any size,   *)
(* and a DDR memory translates between its clock and that of the system    *)
(* exactly (ddr_mem.h), for all frequencies.                               *)
(***************************************************************************)
EXTENDS PrioQueue, DDRClock, FiniteSetTheorems, WellFoundedInduction, TLAPS

-----------------------------------------------------------------------------
(* The clocks of a DDR memory *)

(* Division by a positive number, as a pair of bounds. *)
LEMMA DivBounds ==
    ASSUME NEW a \in Nat, NEW b \in Nat \ {0}
    PROVE  /\ a \div b \in Nat
           /\ b * (a \div b) <= a
           /\ a < b * (a \div b) + b
OBVIOUS

(* The quotient is the only number with these bounds. *)
LEMMA DivUnique ==
    ASSUME NEW a \in Nat, NEW b \in Nat \ {0}, NEW q \in Nat, b * q <= a, a < b * q + b
    PROVE  a \div b = q
OBVIOUS

(* The system cycle at which the next tick is queued is translated back to  *)
(* the memory cycle the tick is meant for: "you can prove this with         *)
(* inequalities" (ddr_mem.h:258).                                           *)
THEOREM MatchingCycle ==
    ASSUME NEW memCycle \in Nat \ {0}
    PROVE  sysToMemCycle(matchingMemToSysCycle(memCycle)) = memCycle
<1> DEFINE a == (2 * memCycle - 1) * sysFreqKHz
           d == a \div memFreqKHz
           x == d \div 2
<1>1. a \in Nat
  BY FreqAssumption
<1>2. d \in Nat /\ memFreqKHz * d <= a /\ a < memFreqKHz * d + memFreqKHz
  BY <1>1, DivBounds, FreqAssumption
<1>3. x \in Nat /\ 2 * x <= d /\ d < 2 * x + 2
  BY <1>2, DivBounds
<1> HIDE DEF d, x
<1>4. x * memFreqKHz \in Nat /\ sysFreqKHz * memCycle \in Nat
  BY <1>3, FreqAssumption
<1>5. sysFreqKHz * (memCycle - 1) <= x * memFreqKHz
  <2>1. d + 1 <= 2 * x + 2
    BY <1>2, <1>3
  <2>2. memFreqKHz * (d + 1) <= memFreqKHz * (2 * x + 2)
    BY <2>1, <1>2, <1>3, FreqAssumption
  <2>3. a < 2 * (x * memFreqKHz) + 2 * memFreqKHz
    BY <2>2, <1>1, <1>2, <1>3, FreqAssumption
  <2>4. a = 2 * (sysFreqKHz * (memCycle - 1)) + sysFreqKHz
    BY FreqAssumption
  <2> QED BY <2>3, <2>4, <1>4, FreqAssumption
<1>6. x * memFreqKHz < sysFreqKHz * (memCycle - 1) + sysFreqKHz
  <2>1. memFreqKHz * (2 * x) <= memFreqKHz * d
    BY <1>2, <1>3, FreqAssumption
  <2>2. 2 * (x * memFreqKHz) <= a
    BY <2>1, <1>1, <1>2, <1>3, FreqAssumption
  <2>3. a = 2 * (sysFreqKHz * memCycle) - sysFreqKHz
    BY FreqAssumption
  <2> QED BY <2>2, <2>3, <1>4, FreqAssumption
<1>7. (x * memFreqKHz) \div sysFreqKHz = memCycle - 1
  <2> DEFINE y == x * memFreqKHz
             q == memCycle - 1
  <2>1. y \in Nat /\ q \in Nat
    BY <1>3, FreqAssumption
  <2>2. q * sysFreqKHz <= y /\ y < (q + 1) * sysFreqKHz
    BY <1>3, <1>4, <1>5, <1>6, FreqAssumption
  <2> HIDE DEF y, q
  <2>3. y \div sysFreqKHz = q
    BY <2>1, <2>2, DivUnique, FreqAssumption
  <2> QED BY <2>3 DEF y, q
<1>8. matchingMemToSysCycle(memCycle) = x
  BY DEF matchingMemToSysCycle, x, d
<1>9. sysToMemCycle(x) = memCycle
  BY <1>7 DEF sysToMemCycle
<1> QED BY <1>8, <1>9

(* Later system cycles lie in later memory cycles, or in the same one. *)
LEMMA SysToMemMonotone ==
    ASSUME NEW a \in Nat, NEW b \in Nat, a <= b
    PROVE  /\ sysToMemCycle(a) \in Nat \ {0} /\ sysToMemCycle(b) \in Nat \ {0}
           /\ sysToMemCycle(a) <= sysToMemCycle(b)
<1> DEFINE p == a * memFreqKHz
           q == b * memFreqKHz
<1>1. p \in Nat /\ q \in Nat /\ p <= q
  BY FreqAssumption
<1> HIDE DEF p, q
<1>2. p \div sysFreqKHz \in Nat /\ q \div sysFreqKHz \in Nat /\ p \div sysFreqKHz <= q \div sysFreqKHz
  BY <1>1, FreqAssumption
<1> QED BY <1>2 DEF sysToMemCycle, p, q

(* A tick that is planned for the memory cycle of the present or a later    *)
(* one runs in exactly that cycle, although it is queued no earlier than    *)
(* the present: the first assertion of tick (ddr_mem.cpp:463).              *)
THEOREM TickOnTime ==
    ASSUME NEW memCycle \in Nat, NEW sysCycle \in Nat, sysToMemCycle(sysCycle) <= memCycle
    PROVE  sysToMemCycle(tickCycle(memCycle, sysCycle)) = memCycle
<1>1. sysToMemCycle(sysCycle) \in Nat \ {0}
  BY SysToMemMonotone
<1>2. memCycle \in Nat \ {0}
  BY <1>1
<1>3. sysToMemCycle(matchingMemToSysCycle(memCycle)) = memCycle
  BY <1>2, MatchingCycle
<1>4. matchingMemToSysCycle(memCycle) \in Nat
  BY <1>2, FreqAssumption, DivBounds DEF matchingMemToSysCycle
<1>5. CASE matchingMemToSysCycle(memCycle) > sysCycle
  BY <1>3, <1>5 DEF tickCycle
<1>6. CASE ~(matchingMemToSysCycle(memCycle) > sysCycle)
  <2>1. memCycle <= sysToMemCycle(sysCycle)
    BY <1>3, <1>4, <1>6, SysToMemMonotone
  <2>2. sysToMemCycle(sysCycle) = memCycle
    BY <2>1, <1>1
  <2> QED BY <2>2, <1>6 DEF tickCycle
<1> QED BY <1>5, <1>6

-----------------------------------------------------------------------------
(* Arithmetic: cycles, blocks and the ring *)

(* A multiple of d other than 0 is at least d away from it. *)
LEMMA MultipleFar ==
    ASSUME NEW d \in Nat \ {0}, NEW k \in Int, k # 0
    PROVE  d * k >= d \/ d * k <= -d
OBVIOUS

(* Quotient and remainder are unique. *)
LEMMA DivisionUnique ==
    ASSUME NEW d \in Nat \ {0}, NEW k \in Int, NEW l \in Int,
           NEW p \in 0 .. d - 1, NEW q \in 0 .. d - 1, d * k + p = d * l + q
    PROVE  k = l /\ p = q
<1>1. d * (k - l) = q - p
  OBVIOUS
<1>2. k - l # 0 => d * (k - l) >= d \/ d * (k - l) <= -d
  BY MultipleFar
<1>3. QED
  BY <1>1, <1>2

(* A number is its quotient times the divisor plus the remainder. *)
LEMMA Division ==
    ASSUME NEW d \in Nat \ {0}, NEW n \in Nat
    PROVE  n = d * (n \div d) + (n % d) /\ n % d \in 0 .. d - 1 /\ n \div d \in Nat
OBVIOUS

(* Whatever splits n into a multiple of d and a rest is its division by d. *)
LEMMA Quotient ==
    ASSUME NEW d \in Nat \ {0}, NEW n \in Nat, NEW k \in Int, NEW p \in 0 .. d - 1,
           n = d * k + p
    PROVE  n \div d = k /\ n % d = p
<1> DEFINE l == n \div d
           q == n % d
<1>1. d * k + p = d * l + q /\ q \in 0 .. d - 1 /\ l \in Int
  BY Division
<1> HIDE DEF l, q
<1>2. k = l /\ p = q
  BY <1>1, DivisionUnique
<1>3. QED
  BY <1>2 DEF l, q

(* Of d numbers in a row no two have the same remainder. *)
LEMMA SameResidue ==
    ASSUME NEW d \in Nat \ {0}, NEW k \in Nat,
           NEW x \in k .. k + d - 1, NEW y \in k .. k + d - 1, x % d = y % d
    PROVE  x = y
<1>1. x \in Nat /\ y \in Nat
  OBVIOUS
<1>2. x = d * (x \div d) + (x % d) /\ x \div d \in Nat /\ x % d \in 0 .. d - 1
  BY Zenon, <1>1, Division
<1>3. y = d * (y \div d) + (y % d) /\ y \div d \in Nat
  BY Zenon, <1>1, Division
<1>4. d * ((x \div d) - (y \div d)) = x - y
  BY <1>1, <1>2, <1>3
<1>5. (x \div d) - (y \div d) # 0 => x - y >= d \/ x - y <= -d
  BY <1>2, <1>3, <1>4, MultipleFar
<1>6. QED
  BY <1>1, <1>2, <1>3, <1>4, <1>5

(* Adding the divisor keeps the remainder. *)
LEMMA ResidueOfSum ==
    ASSUME NEW d \in Nat \ {0}, NEW n \in Nat
    PROVE  (n + d) % d = n % d
<1>1. n = d * (n \div d) + (n % d) /\ n \div d \in Nat /\ n % d \in 0 .. d - 1
  BY Zenon, Division
<1>2. n + d \in Nat /\ (n \div d) + 1 \in Int
  BY <1>1
<1>3. n + d = d * ((n \div d) + 1) + (n % d)
  BY <1>1
<1>4. QED
  BY Zenon, <1>1, <1>2, <1>3, Quotient

(* A cycle is its block and its offset in the block. *)
LEMMA CycleParts ==
    ASSUME NEW c \in Nat
    PROVE  /\ absBlock(c) \in Nat /\ offset(c) \in Positions
           /\ c = absBlock(c) * Slots + offset(c)
BY Division, QueueAssumption DEF absBlock, offset, Positions

(* Block and offset of the cycle made of them. *)
LEMMA CycleOf ==
    ASSUME NEW b \in Nat, NEW p \in Positions
    PROVE  /\ b * Slots + p \in Nat
           /\ absBlock(b * Slots + p) = b /\ offset(b * Slots + p) = p
<1>1. b * Slots + p \in Nat
  BY QueueAssumption DEF Positions
<1>2. b * Slots + p = Slots * b + p
  BY QueueAssumption DEF Positions
<1>3. QED
  BY <1>1, <1>2, Quotient, QueueAssumption DEF Positions, absBlock, offset

(* Cycles are ordered by block and then by offset. *)
LEMMA CycleOrder ==
    ASSUME NEW c \in Nat, NEW d \in Nat
    PROVE  /\ absBlock(c) < absBlock(d) => c < d
           /\ absBlock(c) = absBlock(d) => (c <= d <=> offset(c) <= offset(d))
<1>1. /\ absBlock(c) \in Nat /\ offset(c) \in 0 .. Slots - 1
      /\ c = absBlock(c) * Slots + offset(c)
  BY CycleParts DEF Positions
<1>2. /\ absBlock(d) \in Nat /\ offset(d) \in 0 .. Slots - 1
      /\ d = absBlock(d) * Slots + offset(d)
  BY CycleParts DEF Positions
<1>3. ASSUME absBlock(c) < absBlock(d) PROVE c < d
  <2>1. Slots * (absBlock(d) - absBlock(c)) >= Slots
    BY <1>1, <1>2, <1>3, QueueAssumption
  <2>2. QED
    BY <1>1, <1>2, <2>1, QueueAssumption
<1>4. ASSUME absBlock(c) = absBlock(d) PROVE c <= d <=> offset(c) <= offset(d)
  <2>1. absBlock(c) * Slots = absBlock(d) * Slots /\ absBlock(c) * Slots \in Int
    BY <1>1, <1>4, QueueAssumption
  <2>2. QED
    BY <1>1, <1>2, <2>1, QueueAssumption
<1>5. QED
  BY <1>3, <1>4

(* A cycle is before a block if its own block is. *)
LEMMA BeforeBlock ==
    ASSUME NEW c \in Nat, NEW b \in Nat
    PROVE  c < b * Slots <=> absBlock(c) < b
<1>1. 0 \in Positions
  BY QueueAssumption DEF Positions
<1>2. b * Slots + 0 \in Nat /\ absBlock(b * Slots + 0) = b /\ offset(b * Slots + 0) = 0
  BY <1>1, CycleOf
<1>3. b * Slots + 0 = b * Slots
  BY QueueAssumption
<1>4. b * Slots \in Nat /\ absBlock(b * Slots) = b /\ offset(b * Slots) = 0
  BY <1>2, <1>3
<1>5. absBlock(c) \in Nat /\ offset(c) >= 0 /\ offset(c) \in Int
  BY CycleParts, QueueAssumption DEF Positions
<1>6. /\ absBlock(c) < absBlock(b * Slots) => c < b * Slots
      /\ absBlock(b * Slots) < absBlock(c) => b * Slots < c
      /\ absBlock(b * Slots) = absBlock(c) =>
            (b * Slots <= c <=> offset(b * Slots) <= offset(c))
  BY <1>4, CycleOrder
<1>7. QED
  BY <1>4, <1>5, <1>6

(* The window of a ring whose current block is b. *)
LEMMA InWindow ==
    ASSUME NEW b \in Nat
    PROVE  \A c : c \in b * Slots .. (b + B) * Slots - 1
                    <=> c \in Nat /\ absBlock(c) \in b .. b + B - 1
<1>1. b + B \in Nat /\ b * Slots \in Nat /\ (b + B) * Slots \in Nat /\ B \in Nat
  BY QueueAssumption DEF B
<1>2. ASSUME NEW c \in Nat
      PROVE  c \in b * Slots .. (b + B) * Slots - 1 <=> absBlock(c) \in b .. b + B - 1
  <2>1. c < b * Slots <=> absBlock(c) < b
    BY BeforeBlock
  <2>2. c < (b + B) * Slots <=> absBlock(c) < b + B
    BY <1>1, BeforeBlock
  <2>3. absBlock(c) \in Nat
    BY CycleParts
  <2>4. QED
    BY <1>1, <2>1, <2>2, <2>3
<1>3. \A c : c \in b * Slots .. (b + B) * Slots - 1 => c \in Nat
  BY <1>1
<1>4. QED
  BY <1>2, <1>3

(* The blocks within a turn of the ring have distinct places in it. *)
LEMMA RingFacts ==
    ASSUME NEW b \in Nat
    PROVE  /\ B \in Nat \ {0} /\ ringIdx(b) \in Ring
           /\ ringIdx(b + B) = ringIdx(b)
           /\ \A x, y \in b .. b + B - 1 : ringIdx(x) = ringIdx(y) => x = y
<1>1. B \in Nat \ {0}
  BY QueueAssumption DEF B
<1>2. ringIdx(b) \in Ring
  BY <1>1, Division DEF ringIdx, Ring
<1>3. ringIdx(b + B) = ringIdx(b)
  BY Zenon, <1>1, ResidueOfSum DEF ringIdx
<1>4. \A x, y \in b .. b + B - 1 : ringIdx(x) = ringIdx(y) => x = y
  BY Zenon, <1>1, SameResidue DEF ringIdx
<1>5. QED
  BY <1>1, <1>2, <1>3, <1>4

(* No two cycles that the ring stands for share a slot. *)
LEMMA SlotsApart ==
    ASSUME NEW b \in Nat, NEW c \in Nat, NEW d \in Nat,
           absBlock(c) \in b .. b + B - 1, absBlock(d) \in b .. b + B - 1,
           ringIdx(absBlock(c)) = ringIdx(absBlock(d)), offset(c) = offset(d)
    PROVE  c = d
<1>1. absBlock(c) = absBlock(d)
  BY RingFacts
<1>2. c = absBlock(c) * Slots + offset(c) /\ d = absBlock(d) * Slots + offset(d)
  BY CycleParts
<1>3. QED
  BY <1>1, <1>2

(* The first block of the half of the ring that block b is in. *)
HalfStart(b) == (b \div Half) * Half

(* The half of the ring a block is in. *)
LEMMA HalfFacts ==
    ASSUME NEW b \in Nat
    PROVE  /\ HalfStart(b) \in Nat /\ HalfStart(b) <= b /\ b < HalfStart(b) + Half
           /\ (b + 1) % Half = 0 => HalfStart(b + 1) = b + 1
           /\ (b + 1) % Half # 0 => HalfStart(b + 1) = HalfStart(b)
<1> DEFINE q == b \div Half
           r == b % Half
<1>1. b = Half * q + r /\ q \in Nat /\ r \in 0 .. Half - 1
  BY Zenon, Division, QueueAssumption
<1>2. b + 1 \in Nat
  OBVIOUS
<1>3. \A m \in Nat : m = Half * (m \div Half) + (m % Half)
                     /\ m \div Half \in Nat /\ m % Half \in 0 .. Half - 1
  BY Zenon, Division, QueueAssumption
<1>4. ASSUME NEW m \in Nat, m = b + 1
      PROVE  /\ m % Half = 0 => (m \div Half) * Half = b + 1
             /\ m % Half # 0 => m \div Half = q
  <2>1. m = Half * (m \div Half) + (m % Half)
        /\ m \div Half \in Nat /\ m % Half \in 0 .. Half - 1
    BY <1>3
  <2>2. m % Half = 0 => (m \div Half) * Half = b + 1
    BY <2>1, <1>4, QueueAssumption
  <2>3. ASSUME m % Half # 0 PROVE m \div Half = q
    <3> DEFINE k == m \div Half
               p == (m % Half) - 1
    <3>1. b = Half * k + p /\ p \in 0 .. Half - 1 /\ k \in Int
      BY <2>1, <1>4, <2>3, QueueAssumption
    <3> HIDE DEF k, p
    <3>2. b \div Half = k
      BY <3>1, Quotient, QueueAssumption
    <3>3. QED
      BY <3>2 DEF k
  <2>4. QED
    BY <2>2, <2>3
<1>5. HalfStart(b) \in Nat /\ HalfStart(b) <= b /\ b < HalfStart(b) + Half
  BY <1>1, QueueAssumption DEF HalfStart
<1>6. QED
  BY <1>2, <1>4, <1>5 DEF HalfStart

-----------------------------------------------------------------------------
(* The inductive invariant *)

TypeOK ==
    /\ array \in [Ring -> [Positions -> SUBSET Events]]
    /\ occ \in [Ring -> SUBSET Positions]
    /\ feMap \subseteq Nat \X Events
    /\ curBlock \in Nat /\ elems \in Int /\ now \in Nat /\ busy \in BOOLEAN

(* A bit of occ is set exactly when its slot holds events. *)
OccExact == \A i \in Ring, pos \in Positions : pos \in occ[i] <=> array[i][pos] # {}

(* A far element is beyond the ring as it was when the half began. *)
FarBeyond == \A item \in feMap : absBlock(item[1]) >= HalfStart(curBlock) + B

(* Between two dequeues the ring starts no later than the last one. *)
NowInRing == ~busy => curBlock <= absBlock(now)

Counted == IsFiniteSet(Contents) /\ elems = Cardinality(Contents)

Shape == TypeOK /\ OccExact /\ FarBeyond /\ NowInRing
QueueInv == Shape /\ Counted

-----------------------------------------------------------------------------
(* What is in the queue *)

(* The events of the queue: those in the ring and those in the map. *)
LEMMA ContentsIs ==
    ASSUME TypeOK
    PROVE  \A item : item \in Contents <=>
               \/ /\ item \in Nat \X Events
                  /\ absBlock(item[1]) \in curBlock .. curBlock + B - 1
                  /\ Placed(item[1], item[2])
               \/ item \in feMap
<1>1. \A c : c \in Window <=> c \in Nat /\ absBlock(c) \in curBlock .. curBlock + B - 1
  BY InWindow DEF Window, TypeOK
<1>2. QED
  BY <1>1 DEF Contents

(* ContentsIs for the next state. *)
LEMMA ContentsAfter ==
    ASSUME TypeOK'
    PROVE  \A item : item \in Contents' <=>
               \/ /\ item \in Nat \X Events
                  /\ absBlock(item[1]) \in curBlock' .. curBlock' + B - 1
                  /\ Placed(item[1], item[2])'
               \/ item \in feMap'
<1>1. \A c : c \in Window' <=> c \in Nat /\ absBlock(c) \in curBlock' .. curBlock' + B - 1
  BY InWindow DEF Window, TypeOK
<1>2. QED
  BY <1>1 DEF Contents

(* Insert adds the items, and nothing else, to what the ring holds. *)
LEMMA InsertEffect ==
    ASSUME TypeOK, OccExact, NEW items \in SUBSET (Nat \X Events), Insert(items),
           NEW b \in Nat, \A x \in items : absBlock(x[1]) \in b .. b + B - 1
    PROVE  /\ array' \in [Ring -> [Positions -> SUBSET Events]]
           /\ occ' \in [Ring -> SUBSET Positions]
           /\ OccExact'
           /\ \A c \in Nat, e \in Events : absBlock(c) \in b .. b + B - 1 =>
                  (Placed(c, e)' <=> Placed(c, e) \/ <<c, e>> \in items)
<1>1. \A x \in items : /\ x[1] \in Nat /\ x[2] \in Events /\ x = <<x[1], x[2]>>
                       /\ offset(x[1]) \in Positions
  BY CycleParts
<1>2. array' \in [Ring -> [Positions -> SUBSET Events]]
  BY <1>1 DEF Insert, TypeOK
<1>3. occ' \in [Ring -> SUBSET Positions]
  BY <1>1 DEF Insert, TypeOK
<1>4. OccExact'
  <2> SUFFICES ASSUME NEW i \in Ring, NEW pos \in Positions
               PROVE  pos \in occ'[i] <=> array'[i][pos] # {}
    BY DEF OccExact
  <2> DEFINE new == {x \in items : ringIdx(absBlock(x[1])) = i /\ offset(x[1]) = pos}
  <2>1. array'[i][pos] = array[i][pos] \cup {item[2] : item \in new}
    BY DEF Insert
  <2>2. pos \in occ'[i] <=> pos \in occ[i] \/ \E x \in items : x \in new
    BY DEF Insert
  <2>3. (array'[i][pos] # {}) <=> array[i][pos] # {} \/ \E x \in items : x \in new
    BY Zenon, <2>1
  <2>4. QED
    BY <2>2, <2>3 DEF OccExact
<1>5. ASSUME NEW c \in Nat, NEW e \in Events, absBlock(c) \in b .. b + B - 1
      PROVE  Placed(c, e)' <=> Placed(c, e) \/ <<c, e>> \in items
  <2>1. absBlock(c) \in Nat /\ offset(c) \in Positions /\ ringIdx(absBlock(c)) \in Ring
    BY CycleParts, RingFacts
  <2>2. Placed(c, e)' <=> \/ Placed(c, e)
                          \/ \E x \in items : /\ ringIdx(absBlock(x[1])) = ringIdx(absBlock(c))
                                              /\ offset(x[1]) = offset(c) /\ e = x[2]
    BY <2>1 DEF Insert, Placed
  <2>3. \A x \in items : ringIdx(absBlock(x[1])) = ringIdx(absBlock(c))
                         /\ offset(x[1]) = offset(c) => x[1] = c
    BY <1>1, <1>5, SlotsApart
  <2>4. QED
    BY <2>2, <2>3, <1>1
<1>6. QED
  BY <1>2, <1>3, <1>4, <1>5

(* enqueue adds the event with its cycle, in ring or map. *)
LEMMA EnqueueStep ==
    ASSUME Shape, NEW e \in Events, NEW cycle \in Cycles, enqueue(e, cycle)
    PROVE  Shape' /\ Contents' = Contents \cup {<<cycle, e>>}
<1>0. cycle \in Nat /\ curBlock \in Nat /\ now \in Nat /\ ~busy /\ busy' = busy
      /\ curBlock' = curBlock /\ now' = now /\ cycle >= now /\ elems' \in Int
  BY QueueAssumption DEF Cycles, enqueue, Shape, TypeOK
<1>1. absBlock(cycle) \in Nat /\ absBlock(now) \in Nat
  BY <1>0, CycleParts
<1>2. curBlock <= absBlock(cycle)
  BY <1>0, <1>1, CycleOrder DEF Shape, NowInRing, TypeOK
<1>3. NowInRing'
  BY <1>0 DEF Shape, NowInRing
<1>4. CASE absBlock(cycle) < curBlock + B
  <2>1. Insert({<<cycle, e>>}) /\ feMap' = feMap
    BY <1>4 DEF enqueue
  <2>2. absBlock(cycle) \in curBlock .. curBlock + B - 1
    BY <1>0, <1>1, <1>2, <1>4, RingFacts
  <2>3. /\ array' \in [Ring -> [Positions -> SUBSET Events]]
        /\ occ' \in [Ring -> SUBSET Positions]
        /\ OccExact'
        /\ \A c \in Nat, f \in Events : absBlock(c) \in curBlock .. curBlock + B - 1 =>
               (Placed(c, f)' <=> Placed(c, f) \/ <<c, f>> \in {<<cycle, e>>})
    <3>1. {<<cycle, e>>} \in SUBSET (Nat \X Events)
      BY <1>0
    <3>2. \A x \in {<<cycle, e>>} : absBlock(x[1]) \in curBlock .. curBlock + B - 1
      BY <2>2
    <3>3. TypeOK /\ OccExact
      BY DEF Shape
    <3>4. QED
      BY Zenon, <1>0, <2>1, <3>1, <3>2, <3>3, InsertEffect
  <2>4. TypeOK' /\ FarBeyond'
    BY <1>0, <2>1, <2>3 DEF Shape, TypeOK, FarBeyond
  <2>5. \A item : item \in Contents' <=> item \in Contents \/ item = <<cycle, e>>
    <3>1. \A item : item \in Contents' <=>
               \/ /\ item \in Nat \X Events
                  /\ absBlock(item[1]) \in curBlock .. curBlock + B - 1
                  /\ Placed(item[1], item[2])'
               \/ item \in feMap
      BY <1>0, <2>1, <2>4, ContentsAfter
    <3>2. QED
      BY <1>0, <2>2, <2>3, <3>1, ContentsIs DEF Shape
  <2>6. QED
    BY <1>3, <2>3, <2>4, <2>5 DEF Shape
<1>5. CASE ~(absBlock(cycle) < curBlock + B)
  <2>1. feMap' = feMap \cup {<<cycle, e>>} /\ array' = array /\ occ' = occ
    BY <1>5 DEF enqueue
  <2>2. TypeOK' /\ OccExact'
    BY <1>0, <2>1 DEF Shape, TypeOK, OccExact
  <2>3. FarBeyond'
    BY <1>0, <1>1, <1>5, <2>1, HalfFacts, RingFacts DEF Shape, FarBeyond
  <2>4. Contents' = Contents \cup {<<cycle, e>>}
    BY <1>0, <2>1 DEF Contents, Window, Placed
  <2>5. QED
    BY <1>3, <2>2, <2>3, <2>4 DEF Shape
<1>6. QED
  BY <1>4, <1>5

(* Turning the ring, and moving far events into it, keeps the contents. *)
LEMMA NextBlockStep ==
    ASSUME Shape, nextBlock
    PROVE  Shape' /\ Contents' = Contents
<1> DEFINE n == curBlock + 1
           R == Reached(n)
<1>0. /\ curBlock \in Nat /\ n \in Nat /\ curBlock' = n /\ busy /\ busy' = busy
      /\ now' = now /\ elems' = elems /\ feMap' = feMap \ R /\ Insert(R)
      /\ occ[ringIdx(curBlock)] = {} /\ feMap \subseteq Nat \X Events
  BY DEF nextBlock, Shape, TypeOK
<1>1. B = 2 * Half /\ Half \in Nat \ {0} /\ B \in Nat \ {0}
  BY QueueAssumption DEF B
<1>2. \A item \in feMap : /\ item[1] \in Nat /\ item[2] \in Events /\ absBlock(item[1]) \in Nat
                          /\ item = <<item[1], item[2]>>
                          /\ absBlock(item[1]) >= HalfStart(curBlock) + B
  BY <1>0, CycleParts DEF Shape, FarBeyond
<1>3. /\ HalfStart(curBlock) \in Nat
      /\ HalfStart(curBlock) <= curBlock /\ curBlock < HalfStart(curBlock) + Half
      /\ n % Half = 0 => HalfStart(n) = n
      /\ n % Half # 0 => HalfStart(n) = HalfStart(curBlock)
  BY <1>0, HalfFacts
<1>4. R \subseteq feMap
  BY DEF Reached
<1>5. \A item \in feMap : item \in R <=> n % Half = 0 /\ absBlock(item[1]) < n + B
  <2>1. \A item \in feMap : item[1] < (n + B) * Slots <=> absBlock(item[1]) < n + B
    BY <1>0, <1>1, <1>2, BeforeBlock
  <2>2. QED
    BY <2>1 DEF Reached
<1> HIDE DEF n, R
<1>6. \A x \in R : absBlock(x[1]) \in n .. n + B - 1
  BY <1>0, <1>1, <1>2, <1>3, <1>4, <1>5 DEF n
<1>7. /\ array' \in [Ring -> [Positions -> SUBSET Events]]
      /\ occ' \in [Ring -> SUBSET Positions]
      /\ OccExact'
      /\ \A c \in Nat, e \in Events : absBlock(c) \in n .. n + B - 1 =>
             (Placed(c, e)' <=> Placed(c, e) \/ <<c, e>> \in R)
  <2>1. R \in SUBSET (Nat \X Events) /\ TypeOK /\ OccExact
    BY <1>0, <1>4 DEF Shape
  <2>2. QED
    BY <1>0, <1>6, <2>1, InsertEffect
<1>8. TypeOK'
  BY <1>0, <1>7 DEF Shape, TypeOK
<1>9. FarBeyond'
  BY <1>0, <1>1, <1>2, <1>3, <1>5 DEF FarBeyond
<1>10. NowInRing'
  BY <1>0 DEF NowInRing
<1>11. \A i \in Ring, pos \in Positions : i = ringIdx(curBlock) => array[i][pos] = {}
  BY <1>0 DEF Shape, OccExact
<1>12. \A c \in Nat, e \in Events :
          absBlock(c) = curBlock \/ absBlock(c) = curBlock + B => ~ Placed(c, e)
  <2>1. ringIdx(curBlock + B) = ringIdx(curBlock) /\ ringIdx(curBlock) \in Ring
    BY <1>0, RingFacts
  <2>2. QED
    BY <1>11, <2>1, CycleParts DEF Placed
<1>13. \A item : item \in Contents' <=> item \in Contents
  <2>1. \A item : item \in Contents' <=>
             \/ /\ item \in Nat \X Events
                /\ absBlock(item[1]) \in n .. n + B - 1
                /\ Placed(item[1], item[2])'
             \/ item \in feMap \ R
    BY <1>0, <1>8, ContentsAfter
  <2>2. \A item : item \in Contents <=>
             \/ /\ item \in Nat \X Events
                /\ absBlock(item[1]) \in curBlock .. curBlock + B - 1
                /\ Placed(item[1], item[2])
             \/ item \in feMap
    BY ContentsIs DEF Shape
  <2>3. ASSUME NEW item \in Nat \X Events
        PROVE  /\ absBlock(item[1]) \in n .. n + B - 1 /\ Placed(item[1], item[2])
               <=> absBlock(item[1]) \in curBlock .. curBlock + B - 1
                   /\ Placed(item[1], item[2])
    <3>1. absBlock(item[1]) \in Nat /\ item[1] \in Nat /\ item[2] \in Events
      BY CycleParts
    <3>2. QED
      BY <1>0, <1>1, <1>12, <3>1 DEF n
  <2>4. \A item \in Nat \X Events : absBlock(item[1]) \in n .. n + B - 1 =>
             (Placed(item[1], item[2])' <=> Placed(item[1], item[2]) \/ item \in R)
    BY <1>7
  <2>5. \A item \in R : item \in Nat \X Events /\ item \in feMap
                        /\ absBlock(item[1]) \in n .. n + B - 1
    BY <1>0, <1>4, <1>6
  <2>6. QED
    BY <2>1, <2>2, <2>3, <2>4, <2>5
<1>14. QED
  BY Zenon, <1>7, <1>8, <1>9, <1>10, <1>13 DEF Shape

(* Min is the least member. *)
LEMMA MinIs ==
    ASSUME NEW S \in SUBSET Nat, S # {}
    PROVE  Min(S) \in S /\ \A y \in S : Min(S) <= y
<1>1. \E x \in S : \A y \in S : ~ (<<y, x>> \in OpToRel(<, Nat))
  BY NatLessThanWellFounded, WFMin
<1>2. PICK x \in S : \A y \in S : ~ (<<y, x>> \in OpToRel(<, Nat))
  BY <1>1
<1>3. ASSUME NEW y \in S PROVE x <= y
  <2>1. <<y, x>> \in Nat \X Nat /\ ~ (<<y, x>> \in OpToRel(<, Nat))
    BY <1>2
  <2>2. ~ (y < x)
    BY <2>1, Zenon DEF OpToRel
  <2>3. QED
    BY <2>2
<1>4. QED
  BY Zenon, <1>3 DEF Min

(* The least member is Min. *)
LEMMA MinUnique ==
    ASSUME NEW S \in SUBSET Nat, NEW x \in S, \A y \in S : x <= y
    PROVE  Min(S) = x
<1>1. Min(S) \in S /\ Min(S) <= x /\ x <= Min(S) /\ x \in Nat /\ Min(S) \in Nat
  BY Zenon, MinIs
<1>2. QED
  BY <1>1

(* The first bit of occ: its slot holds the events of one cycle. *)
LEMMA FirstSlot ==
    ASSUME Shape, NEW b \in Nat, b \in curBlock .. curBlock + B - 1, occ[ringIdx(b)] # {}
    PROVE  LET pos == Min(occ[ringIdx(b)])
               c == b * Slots + pos
           IN  /\ pos \in Positions /\ pos \in occ[ringIdx(b)] /\ ringIdx(b) \in Ring
               /\ c \in Nat /\ absBlock(c) = b /\ offset(c) = pos
               /\ array[ringIdx(b)][pos] # {}
               /\ \A e \in array[ringIdx(b)][pos] : <<c, e>> \in Contents
               /\ \A item \in Nat \X Events :
                    absBlock(item[1]) = b /\ Placed(item[1], item[2]) => c <= item[1]
<1> DEFINE i == ringIdx(b)
           pos == Min(occ[i])
           c == b * Slots + pos
<1>1. i \in Ring
  BY RingFacts
<1>2. occ[i] \in SUBSET Nat /\ occ[i] \subseteq Positions
  BY <1>1, QueueAssumption DEF Shape, TypeOK, Positions
<1>3. pos \in occ[i] /\ \A y \in occ[i] : pos <= y
  BY <1>2, MinIs
<1> HIDE DEF pos
<1>4. pos \in Positions
  BY <1>2, <1>3
<1>5. c \in Nat /\ absBlock(c) = b /\ offset(c) = pos
  BY <1>4, CycleOf
<1> HIDE DEF c
<1>6. array[i][pos] # {} /\ array[i][pos] \subseteq Events
  BY <1>1, <1>3, <1>4 DEF Shape, OccExact, TypeOK
<1>7. \A e \in array[i][pos] : <<c, e>> \in Contents
  BY <1>5, <1>6, ContentsIs DEF Shape, Placed
<1>8. ASSUME NEW item \in Nat \X Events, absBlock(item[1]) = b, Placed(item[1], item[2])
      PROVE  c <= item[1]
  <2>1. item[1] \in Nat /\ offset(item[1]) \in Positions
    BY CycleParts
  <2>2. offset(item[1]) \in occ[i]
    BY <1>1, <1>8, <2>1 DEF Placed, Shape, OccExact
  <2>3. QED
    BY <1>3, <1>5, <1>8, <2>1, <2>2, CycleOrder
<1>9. QED
  BY <1>1, <1>3, <1>4, <1>5, <1>6, <1>7, <1>8 DEF pos, c

(* dequeue takes an event with the least cycle of all, and nothing else. *)
LEMMA TakeStep ==
    ASSUME Shape, NEW e \in Events, take(e)
    PROVE  /\ Shape'
           /\ <<now', e>> \in Contents
           /\ Contents' = Contents \ {<<now', e>>}
           /\ \A other \in Contents : now' <= other[1]
<1> DEFINE i == ringIdx(curBlock)
           pos == Min(occ[i])
           c == curBlock * Slots + pos
<1>0. /\ curBlock \in Nat /\ curBlock' = curBlock /\ feMap' = feMap /\ busy' = FALSE
      /\ elems' \in Int /\ occ[i] # {} /\ e \in array[i][pos] /\ now' = c
      /\ array' = [array EXCEPT ![i][pos] = @ \ {e}]
      /\ occ' = [occ EXCEPT ![i] = IF array[i][pos] = {e} THEN @ \ {pos} ELSE @]
  BY DEF take, Shape, TypeOK
<1>1. /\ curBlock \in curBlock .. curBlock + B - 1 /\ B \in Nat \ {0}
      /\ B = 2 * Half /\ Half \in Nat \ {0}
  BY <1>0, RingFacts, QueueAssumption DEF B
<1>2. /\ pos \in Positions /\ pos \in occ[i] /\ i \in Ring
      /\ c \in Nat /\ absBlock(c) = curBlock /\ offset(c) = pos
      /\ \A f \in array[i][pos] : <<c, f>> \in Contents
      /\ \A item \in Nat \X Events :
            absBlock(item[1]) = curBlock /\ Placed(item[1], item[2]) => c <= item[1]
  BY <1>0, <1>1, FirstSlot
<1> HIDE DEF i, pos, c
<1>3. array \in [Ring -> [Positions -> SUBSET Events]] /\ occ \in [Ring -> SUBSET Positions]
  BY DEF Shape, TypeOK
<1>4. \A j \in Ring, p \in Positions :
          array'[j][p] = IF j = i /\ p = pos THEN array[j][p] \ {e} ELSE array[j][p]
  BY Zenon, <1>0, <1>2, <1>3
<1>5. TypeOK'
  BY Zenon, <1>0, <1>2, <1>3 DEF Shape, TypeOK
<1>6. OccExact'
  BY <1>0, <1>2, <1>3, <1>4 DEF Shape, OccExact
<1>7. FarBeyond' /\ NowInRing'
  BY <1>0, <1>2 DEF Shape, FarBeyond, NowInRing
<1>8. \A item : item \in Contents <=>
           \/ /\ item \in Nat \X Events
              /\ absBlock(item[1]) \in curBlock .. curBlock + B - 1
              /\ Placed(item[1], item[2])
           \/ item \in feMap
  BY ContentsIs DEF Shape
<1>9. \A item \in feMap : item[1] \in Nat /\ absBlock(item[1]) > curBlock
  BY <1>0, <1>1, HalfFacts, CycleParts DEF Shape, FarBeyond, TypeOK
<1>10. \A other \in Contents : c <= other[1]
  <2> SUFFICES ASSUME NEW other \in Contents PROVE c <= other[1]
    OBVIOUS
  <2>1. CASE absBlock(other[1]) > curBlock /\ other[1] \in Nat
    BY <1>0, <1>2, <2>1, CycleOrder
  <2>2. CASE /\ other \in Nat \X Events
             /\ absBlock(other[1]) \in curBlock .. curBlock + B - 1
             /\ Placed(other[1], other[2])
    BY <1>0, <1>1, <1>2, <2>1, <2>2
  <2>3. QED
    BY <1>8, <1>9, <2>1, <2>2
<1>11. \A item \in Nat \X Events : absBlock(item[1]) \in curBlock .. curBlock + B - 1 =>
           (Placed(item[1], item[2])' <=> Placed(item[1], item[2]) /\ item # <<c, e>>)
  <2> SUFFICES ASSUME NEW d \in Nat, NEW f \in Events,
                      absBlock(d) \in curBlock .. curBlock + B - 1
               PROVE  Placed(d, f)' <=> Placed(d, f) /\ <<d, f>> # <<c, e>>
    OBVIOUS
  <2>1. absBlock(d) \in Nat /\ offset(d) \in Positions /\ ringIdx(absBlock(d)) \in Ring
    BY CycleParts, RingFacts
  <2>2. ringIdx(absBlock(d)) = i /\ offset(d) = pos <=> d = c
    BY <1>0, <1>1, <1>2, SlotsApart DEF i
  <2>3. QED
    BY Zenon, <1>4, <2>1, <2>2 DEF Placed
<1>12. <<c, e>> \notin feMap
  BY <1>0, <1>2, <1>9
<1>13. \A item : item \in Contents' <=> item \in Contents /\ item # <<c, e>>
  <2>1. \A item : item \in Contents' <=>
             \/ /\ item \in Nat \X Events
                /\ absBlock(item[1]) \in curBlock .. curBlock + B - 1
                /\ Placed(item[1], item[2])'
             \/ item \in feMap
    BY <1>0, <1>5, ContentsAfter
  <2>2. QED
    BY <1>8, <1>11, <1>12, <2>1
<1>14. Contents' = Contents \ {<<c, e>>}
  BY <1>13
<1>15. QED
  BY <1>0, <1>2, <1>5, <1>6, <1>7, <1>10, <1>14 DEF Shape

(* A step that changes nothing changes nothing. *)
LEMMA StutterStep ==
    ASSUME Shape, UNCHANGED vars
    PROVE  Shape' /\ Contents' = Contents
<1>1. Contents' = Contents
  BY DEF vars, Contents, Window, Placed
<1>2. Shape'
  BY DEF Shape, TypeOK, OccExact, FarBeyond, NowInRing, vars
<1>3. QED
  BY <1>1, <1>2

-----------------------------------------------------------------------------
(* The theorems *)

(* The queue starts empty. *)
LEMMA InitShape == Init => Shape /\ Contents = {}
<1> SUFFICES ASSUME Init PROVE Shape /\ Contents = {}
  OBVIOUS
<1>1. TypeOK /\ OccExact /\ FarBeyond
  <2>0. busy \in BOOLEAN
    BY Zenon DEF Init
  <2>1. array \in [Ring -> [Positions -> SUBSET Events]] /\ occ \in [Ring -> SUBSET Positions]
    BY DEF Init
  <2>2. OccExact
    BY DEF Init, OccExact
  <2>3. feMap = {} /\ curBlock \in Nat /\ elems \in Int /\ now \in Nat
    BY SMT DEF Init
  <2>4. TypeOK
    BY <2>0, <2>1, <2>3 DEF TypeOK
  <2>5. FarBeyond
    BY <2>3 DEF FarBeyond
  <2>6. QED
    BY <2>2, <2>4, <2>5
<1>2. NowInRing
  BY CycleParts DEF Init, NowInRing
<1>3. ASSUME NEW c \in Nat, NEW e \in Events PROVE ~ Placed(c, e)
  BY CycleParts, RingFacts DEF Init, Placed
<1>4. \A item : item \notin Contents
  BY <1>1, <1>3, ContentsIs DEF Init
<1>5. QED
  BY <1>1, <1>2, <1>4 DEF Shape

(* Every step keeps the invariant. *)
LEMMA QueueStep ==
    ASSUME QueueInv, [Next]_vars
    PROVE  QueueInv'
<1> USE DEF QueueInv
<1>1. ASSUME NEW e \in Events, NEW cycle \in Cycles, enqueue(e, cycle) PROVE QueueInv'
  <2>1. Shape' /\ Contents' = Contents \cup {<<cycle, e>>}
    BY <1>1, EnqueueStep
  <2>2. <<cycle, e>> \notin Contents /\ elems' = elems + 1
    BY <1>1 DEF enqueue
  <2>3. QED
    BY Zenon, <2>1, <2>2, FS_AddElement DEF Counted
<1>2. ASSUME dequeue PROVE QueueInv'
  <2>1. Contents' = Contents /\ Shape'
    BY <1>2 DEF dequeue, Contents, Window, Placed, Shape, TypeOK, OccExact, FarBeyond, NowInRing
  <2>2. QED
    BY <1>2, <2>1 DEF dequeue, Counted
<1>3. ASSUME nextBlock PROVE QueueInv'
  BY <1>3, NextBlockStep DEF nextBlock, Counted
<1>4. ASSUME NEW e \in Events, take(e) PROVE QueueInv'
  <2>1. Shape' /\ <<now', e>> \in Contents /\ Contents' = Contents \ {<<now', e>>}
    BY <1>4, TakeStep
  <2>2. elems' = elems - 1
    BY <1>4 DEF take
  <2>3. QED
    BY Zenon, <2>1, <2>2, FS_RemoveElement DEF Counted
<1>5. ASSUME UNCHANGED vars PROVE QueueInv'
  BY <1>5, StutterStep DEF vars, Counted
<1>6. QED
  BY <1>1, <1>2, <1>3, <1>4, <1>5 DEF Next

(* The ring, the bits, the map and the element count agree at all times,    *)
(* however far apart the events are (enqueue, dequeue of prio_queue.h).     *)
THEOREM QueueInvariance == Spec => []QueueInv
<1>1. Init => QueueInv
  BY Zenon, InitShape, FS_EmptySet DEF QueueInv, Counted, Init
<1>2. QED
  BY <1>1, QueueStep, PTL DEF Spec

(* Every step is a step of the abstract queue or leaves it alone. *)
LEMMA QueueRefines ==
    ASSUME Shape, [Next]_vars
    PROVE  [PQ!Next]_PQ!queueVars
<1>1. ASSUME NEW e \in Events, NEW cycle \in Cycles, enqueue(e, cycle) PROVE PQ!Next
  <2>1. Contents' = Contents \cup {<<cycle, e>>}
    BY <1>1, EnqueueStep
  <2>2. PQ!Enqueue(e, cycle)
    BY <1>1, <2>1 DEF enqueue, PQ!Enqueue
  <2>3. QED
    BY <2>2 DEF PQ!Next
<1>2. ASSUME dequeue PROVE UNCHANGED PQ!queueVars
  BY <1>2 DEF dequeue, Contents, Window, Placed, PQ!queueVars
<1>3. ASSUME nextBlock PROVE UNCHANGED PQ!queueVars
  BY <1>3, NextBlockStep DEF nextBlock, PQ!queueVars
<1>4. ASSUME NEW e \in Events, take(e) PROVE PQ!Next
  <2>1. PQ!Dequeue(<<now', e>>) /\ <<now', e>> \in Contents
    BY <1>4, TakeStep DEF PQ!Dequeue
  <2>2. QED
    BY <2>1 DEF PQ!Next
<1>5. ASSUME UNCHANGED vars PROVE UNCHANGED PQ!queueVars
  BY <1>5, StutterStep DEF vars, PQ!queueVars
<1>6. QED
  BY <1>1, <1>2, <1>3, <1>4, <1>5 DEF Next

(* The ring with its far-element map is a priority queue: events come back  *)
(* in the order of their cycles and at their cycle, for rings and blocks of *)
(* any size (PrioQueue::enqueue and dequeue).                               *)
THEOREM PrioQueueImplementsQueue == Spec => ImplementsQueue
<1>1. Init => PQ!Init
  BY InitShape DEF Init, PQ!Init
<1>2. QueueInv => Shape
  BY DEF QueueInv
<1>3. QED
  BY <1>1, <1>2, QueueInvariance, QueueRefines, PTL DEF Spec, ImplementsQueue, PQ!Spec

(* What the ring holds between two distances from the current block. *)
LEMMA RingFirst ==
    ASSUME Shape, NEW from \in Nat, NEW to \in Nat, from <= to, to <= B,
           Populated(0, from) = {}, Populated(from, to) # {}
    PROVE  LET c == CycleAt(Min(Populated(from, to)))
           IN  /\ c \in Nat /\ absBlock(c) < curBlock + to
               /\ \E e : <<c, e>> \in Contents
               /\ \A item \in Nat \X Events :
                    /\ absBlock(item[1]) \in curBlock .. curBlock + B - 1
                    /\ Placed(item[1], item[2])
                    => c <= item[1]
<1> DEFINE P == Populated(from, to)
           k == Min(P)
           b == curBlock + k
           c == CycleAt(k)
<1>1. P \in SUBSET Nat
  BY DEF Populated
<1>2. k \in P /\ \A y \in P : k <= y
  BY <1>1, MinIs
<1> HIDE DEF k
<1>3. k \in from .. to - 1 /\ occ[ringIdx(b)] # {} /\ curBlock \in Nat /\ b \in Nat
      /\ B \in Nat /\ k \in Nat
  BY <1>2, QueueAssumption DEF Populated, Shape, TypeOK, B
<1>4. b \in curBlock .. curBlock + B - 1 /\ c = b * Slots + Min(occ[ringIdx(b)])
  BY <1>3 DEF CycleAt
<1> HIDE DEF c
<1>5. /\ c \in Nat /\ absBlock(c) = b
      /\ \E e : <<c, e>> \in Contents
      /\ \A item \in Nat \X Events :
             absBlock(item[1]) = b /\ Placed(item[1], item[2]) => c <= item[1]
  BY ZenonT(30), <1>3, <1>4, FirstSlot
<1>6. ASSUME NEW item \in Nat \X Events,
             absBlock(item[1]) \in curBlock .. curBlock + B - 1, Placed(item[1], item[2])
      PROVE  c <= item[1]
  <2> DEFINE d == absBlock(item[1]) - curBlock
  <2>1. /\ item[1] \in Nat /\ absBlock(item[1]) \in Nat /\ offset(item[1]) \in Positions
        /\ ringIdx(absBlock(item[1])) \in Ring
    BY CycleParts, RingFacts
  <2>2. d \in Nat /\ curBlock + d = absBlock(item[1])
    BY <1>3, <1>6, <2>1
  <2>3. occ[ringIdx(absBlock(item[1]))] # {}
    BY <1>6, <2>1 DEF Placed, Shape, OccExact
  <2>4. occ[ringIdx(curBlock + d)] # {}
    BY <2>2, <2>3
  <2> HIDE DEF d
  <2>5. ~ (d < from)
    BY <2>2, <2>4 DEF Populated
  <2>6. d \in from .. to - 1 => d \in P
    BY <2>2, <2>4 DEF Populated
  <2>7. k <= d
    BY <1>2, <1>3, <2>2, <2>5, <2>6
  <2>8. CASE k = d
    BY <1>5, <1>6, <2>2, <2>8
  <2>9. CASE k < d
    BY <1>3, <1>5, <2>1, <2>2, <2>9, CycleOrder
  <2>10. QED
    BY <1>3, <2>2, <2>7, <2>8, <2>9
<1>7. absBlock(c) < curBlock + to
  BY <1>3, <1>5
<1>8. QED
  BY Zenon, <1>5, <1>6, <1>7 DEF c, k

(* With the events where Shape has them, firstCycle finds the first. *)
LEMMA FirstCycleIs == Shape => FirstCycleExact
<1> SUFFICES ASSUME Shape PROVE firstCycle = Min({item[1] : item \in Contents})
  BY DEF FirstCycleExact
<1> DEFINE M == {item[1] : item \in Contents}
           F == {item[1] : item \in feMap}
<1>0. /\ curBlock \in Nat /\ B \in Nat /\ B = 2 * Half /\ Half \in Nat \ {0}
      /\ Half <= B /\ 0 <= Half /\ B <= B
  BY QueueAssumption DEF Shape, TypeOK, B
<1>1. \A item : item \in Contents <=>
           \/ /\ item \in Nat \X Events
              /\ absBlock(item[1]) \in curBlock .. curBlock + B - 1
              /\ Placed(item[1], item[2])
           \/ item \in feMap
  BY ContentsIs DEF Shape
<1>2. feMap \subseteq Nat \X Events
  BY DEF Shape, TypeOK
<1>3. M \in SUBSET Nat /\ F \in SUBSET M
  BY <1>1, <1>2
<1>4. \A item \in feMap : item[1] \in Nat /\ absBlock(item[1]) \in Nat
                          /\ absBlock(item[1]) >= curBlock + Half
  BY <1>0, <1>2, HalfFacts, CycleParts DEF Shape, FarBeyond
<1>5. CASE Populated(0, Half) # {}
  <2> DEFINE c == CycleAt(Min(Populated(0, Half)))
  <2>1. Populated(0, 0) = {}
    BY DEF Populated
  <2>2. /\ c \in Nat /\ absBlock(c) < curBlock + Half /\ \E e : <<c, e>> \in Contents
        /\ \A item \in Nat \X Events :
             /\ absBlock(item[1]) \in curBlock .. curBlock + B - 1
             /\ Placed(item[1], item[2])
             => c <= item[1]
    BY Zenon, <1>0, <1>5, <2>1, RingFirst
  <2>3. firstCycle = c
    BY <1>5 DEF firstCycle
  <2> HIDE DEF c
  <2>4. c \in M
    BY <2>2
  <2>5. \A item \in feMap : c <= item[1]
    <3> SUFFICES ASSUME NEW item \in feMap PROVE c <= item[1]
      OBVIOUS
    <3>1. absBlock(c) < absBlock(item[1])
      BY <1>0, <1>4, <2>2, CycleParts
    <3>2. c < item[1]
      BY <1>4, <2>2, <3>1, CycleOrder
    <3>3. QED
      BY <1>4, <2>2, <3>2
  <2>6. \A m \in M : c <= m
    BY <1>1, <2>2, <2>5
  <2>7. QED
    BY Zenon, <1>3, <2>3, <2>4, <2>6, MinUnique
<1>6. CASE Populated(0, Half) = {} /\ Populated(Half, B) = {}
  <2>1. firstCycle = Min(F)
    BY <1>6 DEF firstCycle, FirstFar
  <2>2. ASSUME NEW item \in Nat \X Events,
               absBlock(item[1]) \in curBlock .. curBlock + B - 1,
               Placed(item[1], item[2])
        PROVE  FALSE
    <3> DEFINE d == absBlock(item[1]) - curBlock
    <3>1. /\ absBlock(item[1]) \in Nat /\ offset(item[1]) \in Positions
          /\ ringIdx(absBlock(item[1])) \in Ring
      BY CycleParts, RingFacts
    <3>2. occ[ringIdx(absBlock(item[1]))] # {}
      BY <2>2, <3>1 DEF Placed, Shape, OccExact
    <3>3. d \in 0 .. B - 1 /\ curBlock + d = absBlock(item[1])
      BY <1>0, <2>2, <3>1
    <3>4. occ[ringIdx(curBlock + d)] # {}
      BY <3>2, <3>3
    <3> HIDE DEF d
    <3>5. d \in Populated(0, Half) \/ d \in Populated(Half, B)
      BY <1>0, <3>3, <3>4 DEF Populated
    <3>6. QED
      BY <1>6, <3>5
  <2>3. M = F
    BY <1>1, <2>2
  <2>4. QED
    BY <2>1, <2>3
<1>7. CASE Populated(0, Half) = {} /\ Populated(Half, B) # {}
  <2> DEFINE c == CycleAt(Min(Populated(Half, B)))
             C == {c} \cup F
  <2>1. /\ c \in Nat /\ \E e : <<c, e>> \in Contents
        /\ \A item \in Nat \X Events :
             /\ absBlock(item[1]) \in curBlock .. curBlock + B - 1
             /\ Placed(item[1], item[2])
             => c <= item[1]
    BY Zenon, <1>0, <1>7, RingFirst
  <2>2. firstCycle = Min(C)
    BY <1>7 DEF firstCycle
  <2> HIDE DEF c
  <2>3. c \in M
    BY <2>1
  <2>4. C \in SUBSET Nat /\ C \in SUBSET M /\ C # {}
    BY Zenon, <1>3, <2>1, <2>3
  <2>5. Min(C) \in C /\ \A y \in C : Min(C) <= y
    BY Zenon, <2>4, MinIs
  <2>6. ASSUME NEW m \in M PROVE Min(C) <= m
    <3>1. m \in F \/ c <= m
      BY <1>1, <2>1
    <3>2. Min(C) \in Nat /\ m \in Nat /\ Min(C) <= c
      BY <1>3, <2>4, <2>5
    <3>3. QED
      BY <2>1, <2>5, <3>1, <3>2
  <2>7. QED
    BY Zenon, <1>3, <2>2, <2>4, <2>5, <2>6, MinUnique
<1>8. QED
  BY <1>5, <1>6, <1>7

(* firstCycle, which looks at half of the ring, then at the map and the     *)
(* other half, names the earliest cycle in the queue, for rings and blocks  *)
(* of any size (PrioQueue::firstCycle).                                     *)
THEOREM FirstCycleCorrect == Spec => []FirstCycleExact
<1>1. QueueInv => FirstCycleExact
  BY FirstCycleIs DEF QueueInv
<1>2. QED
  BY <1>1, QueueInvariance, PTL
=============================================================================
