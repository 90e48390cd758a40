--------------------------- MODULE BarrierProofs ----------------------------
(***************************************************************************)
(* Proofs about the phase barrier (barrier.h) for any number of cores, any *)
(* limit on those that run together and any period of the clean-up.        *)
(***************************************************************************)
EXTENDS Barrier, FiniteSetTheorems, WellFoundedInduction, TLAPS

-----------------------------------------------------------------------------
(* The barrier object *)

Lists == UNION {[0 .. n - 1 -> Tids] : n \in Nat}

Barriers ==
    [state : [Tids -> States], futexWord : [Tids -> {0, 1}], lastIdx : [Tids -> Nat],
     runList : Lists, runListSize : Nat, curThreadIdx : Nat, runningThreads : Nat,
     leftThreads : Nat, phaseCount : 0 .. CleanupPeriod - 1]

(* The run list holds every core that is not offline exactly once, the      *)
(* counters are exact, and the cores that run or have left remember where   *)
(* they are on the list.                                                    *)
Good(b) ==
    /\ b \in Barriers
    /\ b.runList \in [Indices(b) -> Tids]
    /\ b.curThreadIdx <= b.runListSize
    /\ \A i, j \in Indices(b) : b.runList[i] = b.runList[j] => i = j
    /\ OnList(b) = Tids \ In(b, "OFFLINE")
    /\ b.runningThreads = Cardinality(In(b, "RUNNING"))
    /\ b.leftThreads = Cardinality(In(b, "LEFT"))
    /\ \A t \in Tids : b.state[t] \in {"RUNNING", "LEFT"} =>
           b.lastIdx[t] \in Indices(b) /\ b.runList[b.lastIdx[t]] = t

(* The cores of S, which have finished the phase, wait before the current   *)
(* position, those that wait for their turn behind it.                      *)
Turns(b, S) ==
    /\ S \subseteq In(b, "WAITING")
    /\ \A i \in Indices(b) : b.state[b.runList[i]] = "WAITING" =>
           (i < b.curThreadIdx <=> b.runList[i] \in S)
    /\ \A t \in In(b, "RUNNING") : b.lastIdx[t] < b.curThreadIdx

Limited(b) == b.runningThreads <= parallelThreads

(* As many cores run as may, or everybody has been considered. *)
Full(b) == Limited(b) /\ (b.curThreadIdx < b.runListSize => b.runningThreads = parallelThreads)

(* Nobody runs only if nobody is left. *)
NotStalled(b) == b.leftThreads # b.runListSize => b.runningThreads > 0

-----------------------------------------------------------------------------
(* Facts about finite sets *)

(* The cores in one state are finitely many. *)
LEMMA FiniteIn ==
    ASSUME NEW b, NEW s
    PROVE  IsFiniteSet(In(b, s)) /\ Cardinality(In(b, s)) \in Nat
BY TidsAssumption, FS_Subset, FS_CardinalityType DEF In

(* A non-empty set of naturals has a least element. *)
LEMMA LeastNat ==
    ASSUME NEW S \in SUBSET Nat, S # {}
    PROVE  \E x \in S : \A y \in S : x <= y
<1>1. PICK x \in S : \A y \in S : ~ (<<y, x>> \in OpToRel(<, Nat))
  BY NatLessThanWellFounded, WFMin
<1>2. ASSUME NEW y \in S PROVE x <= y
  <2>1. <<y, x>> \in Nat \X Nat /\ ~ (<<y, x>> \in OpToRel(<, Nat))
    BY <1>1
  <2>2. ~ (y < x)
    BY <2>1, Zenon DEF OpToRel
  <2>3. QED
    BY <2>2
<1>3. QED
  BY <1>2

(* The cardinality of a disjoint union is the sum. *)
LEMMA DisjointUnion ==
    ASSUME NEW S, NEW T, IsFiniteSet(S), IsFiniteSet(T), S \cap T = {}
    PROVE  Cardinality(S \cup T) = Cardinality(S) + Cardinality(T)
<1>1. Cardinality(S \cup T) =
        Cardinality(S) + Cardinality(T) - Cardinality(S \cap T)
  BY FS_Union
<1>2. Cardinality(S) \in Nat /\ Cardinality(T) \in Nat /\ Cardinality(S \cap T) = 0
  BY FS_CardinalityType, FS_EmptySet
<1>3. QED
  BY <1>1, <1>2

(* A list without repetitions that names every member of a set counts it. *)
LEMMA CountList ==
    ASSUME NEW n \in Nat, NEW T, NEW f \in [0 .. n - 1 -> T],
           \A i, j \in 0 .. n - 1 : f[i] = f[j] => i = j,
           \A t \in T : \E i \in 0 .. n - 1 : f[i] = t
    PROVE  IsFiniteSet(T) /\ Cardinality(T) = n
<1> DEFINE D == 0 .. n - 1
<1>1. IsFiniteSet(D) /\ Cardinality(D) = n
  <2>1. 0 \in Int /\ n - 1 \in Int
    OBVIOUS
  <2>2. IsFiniteSet(0 .. n - 1) /\ Cardinality(0 .. n - 1) = IF 0 > n - 1 THEN 0 ELSE (n - 1) - 0 + 1
    BY <2>1, FS_Interval
  <2>3. QED
    BY <2>2
<1>2. f \in Bijection(D, T)
  BY DEF Bijection, Injection, Surjection, IsInjective
<1> HIDE DEF D
<1>3. ExistsBijection(D, T)
  BY <1>2 DEF ExistsBijection
<1>4. QED
  BY <1>1, <1>3, FS_Bijection

(* The size of the run list is the number of the cores that are on it. *)
LEMMA ListSize ==
    ASSUME NEW b, Good(b)
    PROVE  IsFiniteSet(OnList(b)) /\ Cardinality(OnList(b)) = b.runListSize
<1>1. /\ b.runListSize \in Nat /\ b.runList \in [0 .. b.runListSize - 1 -> OnList(b)]
      /\ \A i, j \in 0 .. b.runListSize - 1 : b.runList[i] = b.runList[j] => i = j
      /\ \A t \in OnList(b) : \E i \in 0 .. b.runListSize - 1 : b.runList[i] = t
  BY DEF Good, Barriers, Indices, OnList
<1>2. QED
  BY Zenon, <1>1, CountList

(* What is neither running nor has left on the run list waits: the *)
(* subtraction in checkEndPhase counts the waiting cores.          *)
LEMMA WaitingCount ==
    ASSUME NEW b, Good(b)
    PROVE  b.runListSize - b.runningThreads - b.leftThreads = Cardinality(In(b, "WAITING"))
<1> DEFINE R == In(b, "RUNNING")
           L == In(b, "LEFT")
           W == In(b, "WAITING")
<1>1. OnList(b) = (R \cup L) \cup W /\ R \cap L = {} /\ (R \cup L) \cap W = {}
  BY DEF Good, In, Barriers, States
<1>2. /\ IsFiniteSet(R) /\ IsFiniteSet(L) /\ IsFiniteSet(W)
      /\ Cardinality(R) \in Nat /\ Cardinality(L) \in Nat /\ Cardinality(W) \in Nat
      /\ b.runningThreads = Cardinality(R) /\ b.leftThreads = Cardinality(L)
  BY FiniteIn DEF Good
<1>3. Cardinality(OnList(b)) = b.runListSize
  BY ListSize
<1> HIDE DEF R, L, W
<1>4. Cardinality(R \cup L) = Cardinality(R) + Cardinality(L) /\ IsFiniteSet(R \cup L)
  BY Zenon, <1>1, <1>2, DisjointUnion, FS_Union
<1>5. Cardinality((R \cup L) \cup W) = Cardinality(R \cup L) + Cardinality(W)
  BY <1>1, <1>2, <1>4, DisjointUnion
<1>6. b.runListSize = Cardinality(R) + Cardinality(L) + Cardinality(W)
  BY <1>1, <1>2, <1>3, <1>4, <1>5
<1>7. QED
  BY <1>2, <1>6 DEF W

-----------------------------------------------------------------------------
(* Waking cores *)

(* The waiting cores in a stretch of the run list grow by at most one per *)
(* position.                                                              *)
LEMMA WaitingInFacts ==
    ASSUME NEW b, NEW lo \in Nat, NEW hi \in Nat
    PROVE  /\ IsFiniteSet(WaitingIn(b, lo, hi)) /\ Cardinality(WaitingIn(b, lo, hi)) \in Nat
           /\ WaitingIn(b, lo, lo) = {} /\ Cardinality(WaitingIn(b, lo, lo)) = 0
           /\ lo < hi => Cardinality(WaitingIn(b, lo, hi))
                           <= Cardinality(WaitingIn(b, lo, hi - 1)) + 1
<1>1. \A h : WaitingIn(b, lo, h) \in SUBSET Tids
  BY DEF WaitingIn
<1>2. \A h : IsFiniteSet(WaitingIn(b, lo, h)) /\ Cardinality(WaitingIn(b, lo, h)) \in Nat
  BY <1>1, TidsAssumption, FS_Subset, FS_CardinalityType
<1>3. WaitingIn(b, lo, lo) = {}
  BY DEF WaitingIn
<1>4. ASSUME lo < hi
      PROVE  Cardinality(WaitingIn(b, lo, hi)) <= Cardinality(WaitingIn(b, lo, hi - 1)) + 1
  <2> DEFINE A == WaitingIn(b, lo, hi)
             Z == WaitingIn(b, lo, hi - 1)
             x == b.runList[hi - 1]
  <2>1. A \in SUBSET (Z \cup {x})
    BY <1>4 DEF WaitingIn
  <2>2. IsFiniteSet(Z) /\ Cardinality(Z) \in Nat /\ Cardinality(A) \in Nat
    BY <1>2
  <2> HIDE DEF A, Z, x
  <2>3. IsFiniteSet(Z \cup {x}) /\ Cardinality(Z \cup {x}) <= Cardinality(Z) + 1
        /\ Cardinality(Z \cup {x}) \in Nat
    <3>1. IsFiniteSet(Z \cup {x})
          /\ Cardinality(Z \cup {x}) = IF x \in Z THEN Cardinality(Z) ELSE Cardinality(Z) + 1
      BY <2>2, FS_AddElement
    <3>2. QED
      BY <2>2, <3>1
  <2>4. Cardinality(A) <= Cardinality(Z \cup {x})
    BY <2>1, <2>3, FS_Subset
  <2>5. QED
    BY <2>2, <2>3, <2>4 DEF A, Z
<1>5. QED
  BY <1>2, <1>3, <1>4, FS_EmptySet

(* The wake-up loop stops where stopIdx says. *)
LEMMA StopFacts ==
    ASSUME NEW b, b \in Barriers, b.curThreadIdx <= b.runListSize
    PROVE  LET n == stopIdx(b)
           IN  /\ n \in b.curThreadIdx .. b.runListSize
               /\ \/ n = b.runListSize
                  \/ b.runningThreads + Cardinality(WaitingIn(b, b.curThreadIdx, n)) >= parallelThreads
               /\ \A k \in b.curThreadIdx .. n - 1 :
                    b.runningThreads + Cardinality(WaitingIn(b, b.curThreadIdx, k)) < parallelThreads
<1> DEFINE Reach(n) == b.runningThreads + Cardinality(WaitingIn(b, b.curThreadIdx, n))
           D == {n \in b.curThreadIdx .. b.runListSize :
                    n = b.runListSize \/ Reach(n) >= parallelThreads}
<1>1. b.curThreadIdx \in Nat /\ b.runListSize \in Nat /\ b.runningThreads \in Nat
  BY DEF Barriers
<1>2. b.runListSize \in D /\ D \in SUBSET Nat
  BY <1>1
<1>3. PICK n \in D : \A y \in D : n <= y
  BY Zenon, <1>2, LeastNat
<1>4. \A k \in b.curThreadIdx .. n - 1 : Reach(k) \in Nat
  <2> SUFFICES ASSUME NEW k \in b.curThreadIdx .. n - 1 PROVE Reach(k) \in Nat
    OBVIOUS
  <2>1. k \in Nat
    BY <1>1, <1>2, <1>3
  <2>2. Cardinality(WaitingIn(b, b.curThreadIdx, k)) \in Nat
    BY Zenon, <1>1, <2>1, WaitingInFacts
  <2>3. QED
    BY <1>1, <2>2
<1>5. \A k \in b.curThreadIdx .. n - 1 : Reach(k) < parallelThreads
  <2> SUFFICES ASSUME NEW k \in b.curThreadIdx .. n - 1 PROVE Reach(k) < parallelThreads
    OBVIOUS
  <2>1. k \in Nat /\ n \in Nat /\ k < n /\ n <= b.runListSize /\ k >= b.curThreadIdx
    BY <1>1, <1>2, <1>3
  <2>2. k \notin D
    BY <1>3, <2>1
  <2>3. ~ (Reach(k) >= parallelThreads)
    BY <1>1, <2>1, <2>2
  <2>4. QED
    BY <1>4, <2>3, ParallelAssumption
<1>6. /\ n \in b.curThreadIdx .. b.runListSize
      /\ n = b.runListSize \/ Reach(n) >= parallelThreads
      /\ \A k \in b.curThreadIdx .. n - 1 : Reach(k) < parallelThreads
  BY <1>3, <1>5
<1> HIDE DEF D
<1>7. QED
  BY <1>6 DEF stopIdx

(* The fields checkRunList changes: the cores it wakes run, remember their *)
(* position and are counted.                                               *)
LEMMA RunListFields ==
    ASSUME NEW b, b \in Barriers
    PROVE  LET c == checkRunList(b)
               woken == WaitingIn(b, b.curThreadIdx, stopIdx(b))
           IN  /\ c.state = [t \in Tids |-> IF t \in woken THEN "RUNNING" ELSE b.state[t]]
               /\ c.lastIdx = [t \in Tids |-> IF t \in woken THEN positionOf(b, t) ELSE b.lastIdx[t]]
               /\ c.curThreadIdx = stopIdx(b)
               /\ c.runningThreads = b.runningThreads + Cardinality(woken)
               /\ c.runList = b.runList /\ c.runListSize = b.runListSize
               /\ c.leftThreads = b.leftThreads /\ c.phaseCount = b.phaseCount
               /\ c.futexWord = b.futexWord
               /\ DOMAIN c = DOMAIN b
BY DEF checkRunList, Barriers

(* What one pass of the wake-up loop leaves. *)
LEMMA WakeStep ==
    ASSUME NEW b, NEW S, Good(b), Turns(b, S), Limited(b)
    PROVE  LET c == checkRunList(b)
           IN  /\ Good(c) /\ Turns(c, S) /\ Full(c)
               /\ c.runListSize = b.runListSize /\ c.leftThreads = b.leftThreads
               /\ c.phaseCount = b.phaseCount /\ c.futexWord = b.futexWord
               /\ \A t \in Tids : c.state[t] = b.state[t]
                                  \/ (b.state[t] = "WAITING" /\ c.state[t] = "RUNNING")
               /\ c.runningThreads >= b.runningThreads
               /\ c.runningThreads = 0 => c.state = b.state
               /\ (\E i \in Indices(b) : i >= b.curThreadIdx /\ b.state[b.runList[i]] = "WAITING")
                    => c.runningThreads > 0
<1> DEFINE c == checkRunList(b)
           cur == b.curThreadIdx
           n == stopIdx(b)
           woken == WaitingIn(b, cur, n)
<1>1. /\ c.state = [t \in Tids |-> IF t \in woken THEN "RUNNING" ELSE b.state[t]]
      /\ c.lastIdx = [t \in Tids |-> IF t \in woken THEN positionOf(b, t) ELSE b.lastIdx[t]]
      /\ c.curThreadIdx = n
      /\ c.runningThreads = b.runningThreads + Cardinality(woken)
      /\ c.runList = b.runList /\ c.runListSize = b.runListSize
      /\ c.leftThreads = b.leftThreads /\ c.phaseCount = b.phaseCount
      /\ c.futexWord = b.futexWord
  BY RunListFields DEF Good
<1>2. b \in Barriers /\ cur \in Nat /\ b.runListSize \in Nat /\ cur <= b.runListSize
      /\ b.runningThreads \in Nat /\ b.runningThreads <= parallelThreads
      /\ parallelThreads \in Nat \ {0}
  BY ParallelAssumption DEF Good, Barriers, Limited
<1>3. /\ n \in cur .. b.runListSize
      /\ n = b.runListSize \/ b.runningThreads + Cardinality(woken) >= parallelThreads
      /\ \A k \in cur .. n - 1 :
            b.runningThreads + Cardinality(WaitingIn(b, cur, k)) < parallelThreads
  BY <1>2, StopFacts
<1> HIDE DEF n
<1>4. n \in Nat /\ IsFiniteSet(woken) /\ Cardinality(woken) \in Nat
  <2>1. n \in Nat
    BY <1>2, <1>3
  <2>2. QED
    BY Zenon, <1>2, <2>1, WaitingInFacts
<1>5. c.runningThreads <= parallelThreads
  <2>1. CASE n = cur
    <3>1. Cardinality(woken) = 0
      BY <1>2, <2>1, WaitingInFacts
    <3>2. QED
      BY <1>1, <1>2, <3>1
  <2>2. CASE n > cur
    <3> DEFINE z == Cardinality(WaitingIn(b, cur, n - 1))
    <3>1. n - 1 \in Nat /\ n - 1 \in cur .. n - 1
      BY <1>2, <1>4, <2>2
    <3>2. z \in Nat
      BY Zenon, <1>2, <3>1, WaitingInFacts
    <3>3. Cardinality(woken) <= z + 1
      BY Zenon, <1>2, <1>4, <2>2, WaitingInFacts
    <3>4. b.runningThreads + z < parallelThreads
      BY <1>3, <3>1
    <3> HIDE DEF z
    <3>5. QED
      BY <1>1, <1>2, <1>4, <3>2, <3>3, <3>4
  <2>3. QED
    BY <1>2, <1>3, <1>4, <2>1, <2>2
<1>6. Full(c)
  BY <1>1, <1>2, <1>3, <1>4, <1>5 DEF Full, Limited
<1>7. \A i \in Indices(b) : b.runList[i] \in woken <=>
          b.state[b.runList[i]] = "WAITING" /\ cur <= i /\ i < n
  <2>1. ASSUME NEW i \in Indices(b)
        PROVE  b.runList[i] \in woken <=>
                 b.state[b.runList[i]] = "WAITING" /\ cur <= i /\ i < n
    <3>1. b.runList[i] \in Tids /\ \A j \in cur .. n - 1 : j \in Indices(b)
      BY <1>2, <1>3, <1>4 DEF Good, Indices
    <3>2. \A j \in cur .. n - 1 : b.runList[j] = b.runList[i] => j = i
      BY <3>1 DEF Good
    <3>3. QED
      BY <1>2, <1>4, <3>1, <3>2 DEF WaitingIn, Indices
  <2>2. QED
    BY <2>1
<1>8. \A t \in woken : /\ t \in Tids /\ b.state[t] = "WAITING"
                       /\ positionOf(b, t) \in Indices(b) /\ b.runList[positionOf(b, t)] = t
                       /\ positionOf(b, t) < n
  <2> SUFFICES ASSUME NEW t \in woken
               PROVE  /\ t \in Tids /\ b.state[t] = "WAITING"
                      /\ positionOf(b, t) \in Indices(b) /\ b.runList[positionOf(b, t)] = t
                      /\ positionOf(b, t) < n
    OBVIOUS
  <2>1. t \in Tids /\ b.state[t] = "WAITING" /\ \E i \in Indices(b) : b.runList[i] = t
    BY <1>2, <1>3, <1>4 DEF WaitingIn, Indices
  <2>2. positionOf(b, t) \in Indices(b) /\ b.runList[positionOf(b, t)] = t
    BY <2>1 DEF positionOf
  <2>3. QED
    BY <1>7, <2>1, <2>2
<1>9. c \in Barriers
  <2>1. c.lastIdx \in [Tids -> Nat] /\ c.state \in [Tids -> States]
    BY <1>1, <1>2, <1>8 DEF Barriers, States, Indices
  <2>2. c.runningThreads \in Nat
    BY <1>1, <1>2, <1>4
  <2>3. c = [b EXCEPT !.state = c.state, !.lastIdx = c.lastIdx,
                      !.curThreadIdx = n, !.runningThreads = c.runningThreads]
    BY <1>2 DEF checkRunList, Barriers, n
  <2> HIDE DEF c
  <2>4. QED
    BY Zenon, <1>2, <1>4, <2>1, <2>2, <2>3 DEF Barriers
<1> HIDE DEF c, woken
<1>10. In(c, "RUNNING") = In(b, "RUNNING") \cup woken /\ In(b, "RUNNING") \cap woken = {}
       /\ In(c, "LEFT") = In(b, "LEFT") /\ In(c, "OFFLINE") = In(b, "OFFLINE")
       /\ In(c, "WAITING") = In(b, "WAITING") \ woken
  BY <1>1, <1>8 DEF In
<1>11. Cardinality(In(c, "RUNNING")) = c.runningThreads
  <2>1. Cardinality(In(b, "RUNNING") \cup woken) = Cardinality(In(b, "RUNNING")) + Cardinality(woken)
    BY <1>4, <1>10, FiniteIn, DisjointUnion
  <2>2. QED
    BY Zenon, <1>1, <1>10, <2>1 DEF Good
<1>12. Good(c)
  <2>1. Indices(c) = Indices(b) /\ OnList(c) = OnList(b)
    BY <1>1 DEF Indices, OnList
  <2>2. \A t \in Tids : c.state[t] \in {"RUNNING", "LEFT"} =>
           c.lastIdx[t] \in Indices(b) /\ b.runList[c.lastIdx[t]] = t
    BY <1>1, <1>8 DEF Good
  <2>3. c.curThreadIdx <= c.runListSize
    BY <1>1, <1>2, <1>3
  <2>4. QED
    BY <1>1, <1>9, <1>10, <1>11, <2>1, <2>2, <2>3 DEF Good
<1>13. Turns(c, S)
  <2>1. Indices(c) = Indices(b)
    BY <1>1 DEF Indices
  <2>2. \A t \in S : t \notin woken
    <3> SUFFICES ASSUME NEW t \in S, t \in woken PROVE FALSE
      OBVIOUS
    <3>1. PICK i \in Indices(b) : b.runList[i] = t
      BY <1>8
    <3>2. cur <= i /\ b.state[b.runList[i]] = "WAITING" /\ i \in Nat
      BY <1>2, <1>7, <3>1 DEF Indices
    <3>3. QED
      BY <1>2, <3>1, <3>2 DEF Turns
  <2>3. S \subseteq In(c, "WAITING")
    BY <1>10, <2>2 DEF Turns
  <2>4. ASSUME NEW i \in Indices(b), c.state[b.runList[i]] = "WAITING"
        PROVE  i < n <=> b.runList[i] \in S
    <3>1. b.runList[i] \in Tids /\ i \in Nat
      BY <1>2 DEF Good, Indices
    <3>2. b.state[b.runList[i]] = "WAITING" /\ b.runList[i] \notin woken
      BY <1>1, <2>4, <3>1
    <3>3. i < cur <=> b.runList[i] \in S
      BY <3>2 DEF Turns
    <3>4. ~ (cur <= i /\ i < n)
      BY <1>7, <3>2
    <3>5. QED
      BY <1>2, <1>3, <1>4, <3>1, <3>3, <3>4
  <2>5. ASSUME NEW t \in In(c, "RUNNING") PROVE c.lastIdx[t] < n
    <3>1. CASE t \in woken
      BY <1>1, <1>8, <3>1
    <3>2. CASE t \notin woken
      <4>1. t \in In(b, "RUNNING") /\ c.lastIdx[t] = b.lastIdx[t] /\ b.lastIdx[t] \in Nat
        BY <1>1, <1>2, <1>10, <3>2 DEF In, Barriers
      <4>2. b.lastIdx[t] < cur
        BY <4>1 DEF Turns
      <4>3. QED
        BY <1>2, <1>3, <1>4, <4>1, <4>2
    <3>3. QED
      BY <3>1, <3>2
  <2>6. QED
    BY <1>1, <2>1, <2>3, <2>4, <2>5 DEF Turns
<1>14. \A t \in Tids : c.state[t] = b.state[t]
                       \/ (b.state[t] = "WAITING" /\ c.state[t] = "RUNNING")
  BY <1>1, <1>8
<1>15. c.runningThreads >= b.runningThreads
  BY <1>1, <1>2, <1>4
<1>16. c.runningThreads = 0 => c.state = b.state
  <2> SUFFICES ASSUME c.runningThreads = 0 PROVE c.state = b.state
    OBVIOUS
  <2>1. Cardinality(woken) = 0
    BY <1>1, <1>2, <1>4
  <2>2. woken = {}
    BY <1>4, <2>1, FS_EmptySet
  <2>3. QED
    BY <1>1, <1>2, <2>2 DEF Barriers
<1>17. ASSUME NEW i \in Indices(b), i >= cur, b.state[b.runList[i]] = "WAITING"
       PROVE  c.runningThreads > 0
  <2>1. CASE n = b.runListSize
    <3>1. b.runList[i] \in woken
      BY <1>2, <1>7, <1>17, <2>1 DEF Indices
    <3>2. Cardinality(woken) # 0
      BY <1>4, <3>1, FS_EmptySet
    <3>3. QED
      BY <1>1, <1>2, <1>4, <3>2
  <2>2. CASE n # b.runListSize
    BY <1>1, <1>2, <1>3, <1>4, <2>2
  <2>3. QED
    BY <2>1, <2>2
<1>18. QED
  BY <1>1, <1>6, <1>12, <1>13, <1>14, <1>15, <1>16, <1>17 DEF c

-----------------------------------------------------------------------------
(* The end of a phase *)

Fresh(b) == Good(b) /\ b.curThreadIdx = 0 /\ b.runningThreads = 0

(* At the start of a phase nobody runs and nobody has had a turn. *)
LEMMA FreshFacts ==
    ASSUME NEW b, Fresh(b)
    PROVE  In(b, "RUNNING") = {} /\ Turns(b, {}) /\ Limited(b)
<1>1. In(b, "RUNNING") = {}
  BY FiniteIn, FS_EmptySet DEF Fresh, Good
<1>2. \A i \in Indices(b) : ~ (i < b.curThreadIdx)
  BY DEF Fresh, Indices, Good, Barriers
<1>3. Turns(b, {})
  BY <1>1, <1>2 DEF Turns
<1>4. Limited(b)
  BY ParallelAssumption DEF Fresh, Limited
<1>5. QED
  BY <1>1, <1>3, <1>4

(* The phase counter stays in its range and moves. *)
LEMMA NextCount ==
    ASSUME NEW p \in 0 .. CleanupPeriod - 1
    PROVE  (p + 1) % CleanupPeriod \in 0 .. CleanupPeriod - 1 /\ (p + 1) % CleanupPeriod # p
<1>1. CleanupPeriod \in Nat /\ CleanupPeriod > 1 /\ p \in Nat /\ p + 1 \in Nat
  BY CleanupAssumption
<1>2. CASE p + 1 < CleanupPeriod
  <2>1. (p + 1) % CleanupPeriod = p + 1
    BY <1>1, <1>2
  <2>2. QED
    BY <1>1, <1>2, <2>1
<1>3. CASE p + 1 = CleanupPeriod
  <2>1. (p + 1) % CleanupPeriod = 0
    BY <1>1, <1>3
  <2>2. QED
    BY <1>1, <1>3, <2>1
<1>4. QED
  BY <1>1, <1>2, <1>3

Rewound(b) == [b EXCEPT !.curThreadIdx = 0, !.phaseCount = (@ + 1) % CleanupPeriod]

(* Rewinding the run list starts a phase. *)
LEMMA RewindStep ==
    ASSUME NEW b, Good(b), b.runningThreads = 0
    PROVE  LET c == Rewound(b)
           IN  /\ Fresh(c) /\ c.state = b.state /\ c.futexWord = b.futexWord
               /\ c.phaseCount # b.phaseCount
<1> DEFINE c == Rewound(b)
<1>1. b \in Barriers /\ b.phaseCount \in 0 .. CleanupPeriod - 1
  BY DEF Good, Barriers
<1>2. /\ c.state = b.state /\ c.futexWord = b.futexWord /\ c.lastIdx = b.lastIdx
      /\ c.runList = b.runList /\ c.runListSize = b.runListSize /\ c.curThreadIdx = 0
      /\ c.runningThreads = b.runningThreads /\ c.leftThreads = b.leftThreads
      /\ c.phaseCount = (b.phaseCount + 1) % CleanupPeriod
  BY <1>1 DEF Rewound, Barriers
<1>3. c \in Barriers /\ c.phaseCount # b.phaseCount
  <2>1. (b.phaseCount + 1) % CleanupPeriod \in 0 .. CleanupPeriod - 1
        /\ (b.phaseCount + 1) % CleanupPeriod # b.phaseCount
    BY <1>1, NextCount
  <2>2. QED
    BY Zenon, <1>1, <1>2, <2>1 DEF Rewound, Barriers
<1> HIDE DEF c
<1>4. Indices(c) = Indices(b) /\ OnList(c) = OnList(b) /\ \A s : In(c, s) = In(b, s)
  BY <1>2 DEF Indices, OnList, In
<1>5. Good(c)
  BY <1>2, <1>3, <1>4 DEF Good, Barriers
<1>6. QED
  BY <1>2, <1>3, <1>5 DEF Fresh, c

(* cleanup takes the cores that left off the list and changes nothing else. *)
LEMMA CleanupStep ==
    ASSUME NEW b, Fresh(b), NEW c \in cleanup(b)
    PROVE  /\ Fresh(c) /\ c.futexWord = b.futexWord /\ c.phaseCount = b.phaseCount
           /\ c.state = [t \in Tids |-> IF b.state[t] = "LEFT" THEN "OFFLINE" ELSE b.state[t]]
<1> DEFINE size == b.runListSize - b.leftThreads
<1>1. size \in Nat
  <2>1. b.runListSize - b.runningThreads - b.leftThreads = Cardinality(In(b, "WAITING"))
    BY WaitingCount DEF Fresh
  <2>2. b.runningThreads = 0 /\ b.runListSize \in Nat /\ b.leftThreads \in Nat
    BY DEF Fresh, Good, Barriers
  <2>3. Cardinality(In(b, "WAITING")) \in Nat
    BY FiniteIn
  <2>4. QED
    BY <2>1, <2>2, <2>3
<1>2. PICK f \in Orders(Remaining(b), size) :
        c = [b EXCEPT !.state = [t \in Tids |-> IF @[t] = "LEFT" THEN "OFFLINE" ELSE @[t]],
                      !.lastIdx = [t \in Tids |-> IF \E i \in 0 .. size - 1 : f[i] = t /\ b.runList[i] # t
                                                   THEN CHOOSE i \in 0 .. size - 1 : f[i] = t ELSE @[t]],
                      !.runList = f, !.runListSize = size, !.leftThreads = 0]
  BY Zenon DEF cleanup
<1> HIDE DEF size
<1>3. b \in Barriers /\ b.curThreadIdx = 0 /\ b.runningThreads = 0
  BY DEF Fresh, Good
<1>4. /\ c.state = [t \in Tids |-> IF b.state[t] = "LEFT" THEN "OFFLINE" ELSE b.state[t]]
      /\ c.lastIdx = [t \in Tids |-> IF \E i \in 0 .. size - 1 : f[i] = t /\ b.runList[i] # t
                                      THEN CHOOSE i \in 0 .. size - 1 : f[i] = t ELSE b.lastIdx[t]]
      /\ c.runList = f /\ c.runListSize = size /\ c.leftThreads = 0
      /\ c.curThreadIdx = 0 /\ c.runningThreads = 0
      /\ c.futexWord = b.futexWord /\ c.phaseCount = b.phaseCount
  BY Zenon, <1>2, <1>3 DEF Barriers
<1>5. /\ f \in [0 .. size - 1 -> Remaining(b)]
      /\ \A i, j \in 0 .. size - 1 : f[i] = f[j] => i = j
      /\ \A t \in Remaining(b) : \E i \in 0 .. size - 1 : f[i] = t
  BY DEF Orders
<1>6. Remaining(b) \subseteq Tids
      /\ \A t \in Tids : t \in Remaining(b) <=> b.state[t] \notin {"LEFT", "OFFLINE"}
  BY DEF Remaining, Fresh, Good, In
<1>7. c.state \in [Tids -> States] /\ c.lastIdx \in [Tids -> Nat] /\ c.runList \in Lists
  <2>1. c.state \in [Tids -> States]
    BY <1>3, <1>4 DEF Barriers, States
  <2>2. \A t \in Tids : (\E i \in 0 .. size - 1 : f[i] = t /\ b.runList[i] # t)
                         => (CHOOSE i \in 0 .. size - 1 : f[i] = t) \in 0 .. size - 1
    OBVIOUS
  <2>3. c.lastIdx \in [Tids -> Nat]
    BY <1>1, <1>3, <1>4, <2>2 DEF Barriers
  <2>4. c.runList \in [0 .. size - 1 -> Tids]
    BY <1>4, <1>5, <1>6
  <2>5. QED
    BY <1>1, <2>1, <2>3, <2>4 DEF Lists
<1>8. c \in Barriers
  <2>1. c = [b EXCEPT !.state = c.state, !.lastIdx = c.lastIdx, !.runList = c.runList,
                      !.runListSize = size, !.leftThreads = 0]
    BY <1>2, <1>3, <1>4 DEF Barriers
  <2>2. QED
    BY Zenon, <1>1, <1>3, <1>7, <2>1 DEF Barriers
<1>9. Indices(c) = 0 .. size - 1 /\ OnList(c) = Remaining(b)
  BY <1>4, <1>5 DEF Indices, OnList
<1>10. In(c, "RUNNING") = In(b, "RUNNING") /\ In(c, "LEFT") = {} /\ In(b, "RUNNING") = {}
       /\ Tids \ In(c, "OFFLINE") = Remaining(b)
  <2>1. In(b, "RUNNING") = {}
    BY FreshFacts
  <2>2. QED
    BY <1>4, <1>6, <2>1 DEF In
<1>11. Good(c)
  <2>1. \A t \in Tids : c.state[t] \notin {"RUNNING", "LEFT"}
    BY <1>10 DEF In
  <2>2. Cardinality(In(c, "RUNNING")) = 0 /\ Cardinality(In(c, "LEFT")) = 0
    BY <1>10, FS_EmptySet
  <2>3. c.curThreadIdx <= c.runListSize
    BY <1>1, <1>4
  <2>4. c.runList \in [Indices(c) -> Tids]
    BY <1>4, <1>5, <1>6, <1>9
  <2>5. \A i, j \in Indices(c) : c.runList[i] = c.runList[j] => i = j
    BY <1>4, <1>5, <1>9
  <2>6. QED
    BY <1>4, <1>8, <1>9, <1>10, <2>1, <2>2, <2>3, <2>4, <2>5 DEF Good
<1>12. QED
  BY <1>4, <1>11 DEF Fresh

(* shuffle reorders the list and changes nothing else. *)
LEMMA ShuffleStep ==
    ASSUME NEW b, Fresh(b), NEW c \in shuffle(b)
    PROVE  Fresh(c) /\ c.state = b.state /\ c.futexWord = b.futexWord
           /\ c.phaseCount = b.phaseCount
<1> DEFINE D == Indices(b)
<1>1. PICK f \in Orders(OnList(b), b.runListSize) :
        c = [b EXCEPT !.runList = f,
                      !.lastIdx = [t \in Tids |-> IF \E i \in D : f[i] = t /\ (i > 0 \/ b.runList[0] # t)
                                                   THEN CHOOSE i \in D : f[i] = t ELSE @[t]]]
  BY Zenon DEF shuffle
<1>2. b \in Barriers /\ b.runListSize \in Nat /\ b.runList \in [D -> Tids]
  BY DEF Fresh, Good, Barriers
<1>3. /\ c.runList = f
      /\ c.lastIdx = [t \in Tids |-> IF \E i \in D : f[i] = t /\ (i > 0 \/ b.runList[0] # t)
                                      THEN CHOOSE i \in D : f[i] = t ELSE b.lastIdx[t]]
      /\ c.state = b.state /\ c.futexWord = b.futexWord /\ c.phaseCount = b.phaseCount
      /\ c.runListSize = b.runListSize /\ c.leftThreads = b.leftThreads
      /\ c.curThreadIdx = b.curThreadIdx /\ c.runningThreads = b.runningThreads
  BY Zenon, <1>1, <1>2 DEF Barriers
<1>4. /\ f \in [D -> OnList(b)]
      /\ \A i, j \in D : f[i] = f[j] => i = j
      /\ \A t \in OnList(b) : \E i \in D : f[i] = t
  BY DEF Orders, Indices
<1>5. OnList(b) \subseteq Tids
  BY <1>2 DEF OnList
<1>6. \A t \in Tids : (\E i \in D : f[i] = t)
         => (CHOOSE i \in D : f[i] = t) \in D /\ f[CHOOSE i \in D : f[i] = t] = t
  OBVIOUS
<1>7. c \in Barriers
  <2>1. D \subseteq Nat
    BY <1>2 DEF Indices
  <2>2. c.lastIdx \in [Tids -> Nat]
    BY <1>2, <1>3, <1>6, <2>1 DEF Barriers
  <2>3. f \in [0 .. b.runListSize - 1 -> Tids]
    BY <1>4, <1>5 DEF Indices
  <2>4. f \in Lists
    BY <1>2, <2>3 DEF Lists
  <2>5. c = [b EXCEPT !.runList = f, !.lastIdx = c.lastIdx]
    BY <1>1, <1>2, <1>3 DEF Barriers
  <2>6. QED
    BY Zenon, <1>2, <2>2, <2>4, <2>5 DEF Barriers
<1>8. Indices(c) = D /\ OnList(c) = OnList(b) /\ \A s : In(c, s) = In(b, s)
  <2>1. Indices(c) = D /\ \A s : In(c, s) = In(b, s)
    BY <1>3 DEF Indices, In
  <2>2. OnList(c) = {f[i] : i \in D}
    BY <1>3, <2>1 DEF OnList
  <2>3. {f[i] : i \in D} = OnList(b)
    BY <1>4
  <2>4. QED
    BY <2>1, <2>2, <2>3
<1>9. \A t \in Tids : b.state[t] \in {"RUNNING", "LEFT"} =>
         c.lastIdx[t] \in D /\ f[c.lastIdx[t]] = t
  <2> SUFFICES ASSUME NEW t \in Tids, b.state[t] \in {"RUNNING", "LEFT"}
               PROVE  c.lastIdx[t] \in D /\ f[c.lastIdx[t]] = t
    OBVIOUS
  <2>1. t \in OnList(b) /\ b.lastIdx[t] \in D /\ b.runList[b.lastIdx[t]] = t
    BY DEF Fresh, Good, In
  <2>2. PICK i \in D : f[i] = t
    BY <1>4, <2>1
  <2>3. CASE i > 0 \/ b.runList[0] # t
    BY <1>3, <1>6, <2>2, <2>3
  <2>4. CASE ~ (i > 0 \/ b.runList[0] # t)
    <3>1. i = 0 /\ 0 \in D
      BY <1>2, <2>2, <2>4 DEF Indices
    <3>2. b.lastIdx[t] = 0
      <4>1. \A x, y \in D : b.runList[x] = b.runList[y] => x = y
        BY DEF Fresh, Good
      <4>2. QED
        BY Zenon, <2>1, <2>4, <3>1, <4>1
    <3>3. \A j \in D : f[j] = t => j = 0
      BY <1>4, <2>2, <3>1
    <3>4. ~ \E j \in D : f[j] = t /\ (j > 0 \/ b.runList[0] # t)
      BY <2>4, <3>3
    <3>5. c.lastIdx[t] = b.lastIdx[t]
      BY <1>3, <3>4
    <3>6. QED
      BY <2>2, <3>1, <3>2, <3>5
  <2>5. QED
    BY <2>3, <2>4
<1>10. Good(c)
  <2>1. c.runList \in [D -> Tids]
    BY <1>3, <1>4, <1>5
  <2>2. QED
    BY <1>3, <1>4, <1>7, <1>8, <1>9, <2>1 DEF Fresh, Good
<1>11. QED
  BY SMTT(30), <1>3, <1>10 DEF Fresh

(* checkEndPhase starts a fresh phase once every waiting core has had its *)
(* turn.                                                                  *)
LEMMA EndPhaseStep ==
    ASSUME NEW b, NEW S, Good(b), Turns(b, S), EndOfPhase(b), NEW c \in checkEndPhase(b)
    PROVE  /\ Fresh(c) /\ c.phaseCount # b.phaseCount /\ c.futexWord = b.futexWord
           /\ \A t \in Tids : c.state[t] = b.state[t]
                              \/ (b.state[t] = "LEFT" /\ c.state[t] = "OFFLINE")
           /\ In(b, "WAITING") \subseteq S
           /\ \E i \in Indices(c) : i >= c.curThreadIdx /\ c.state[c.runList[i]] = "WAITING"
<1> DEFINE r == Rewound(b)
<1>1. /\ b.curThreadIdx = b.runListSize /\ b.runningThreads = 0
      /\ b.leftThreads # b.runListSize /\ b.state \in [Tids -> States]
  BY DEF EndOfPhase, Good, Barriers
<1>2. Fresh(r) /\ r.state = b.state /\ r.futexWord = b.futexWord /\ r.phaseCount # b.phaseCount
  BY <1>1, RewindStep
<1> HIDE DEF r
<1>3. PICK d : /\ d = r \/ d \in cleanup(r)
               /\ c = d \/ c \in shuffle(d)
  BY DEF checkEndPhase, r, Rewound
<1>4. /\ Fresh(d) /\ d.futexWord = b.futexWord /\ d.phaseCount # b.phaseCount
      /\ \A t \in Tids : d.state[t] = b.state[t]
                         \/ (b.state[t] = "LEFT" /\ d.state[t] = "OFFLINE")
  <2>1. CASE d = r
    BY <1>2, <2>1
  <2>2. CASE d \in cleanup(r)
    <3>1. /\ Fresh(d) /\ d.futexWord = r.futexWord /\ d.phaseCount = r.phaseCount
          /\ d.state = [t \in Tids |-> IF r.state[t] = "LEFT" THEN "OFFLINE" ELSE r.state[t]]
      BY <1>2, <2>2, CleanupStep
    <3>2. QED
      BY <1>2, <3>1
  <2>3. QED
    BY <1>3, <2>1, <2>2
<1>5. Fresh(c) /\ c.state = d.state /\ c.futexWord = d.futexWord /\ c.phaseCount = d.phaseCount
  BY <1>3, <1>4, ShuffleStep
<1>6. In(b, "WAITING") \subseteq S
  <2> SUFFICES ASSUME NEW t \in In(b, "WAITING") PROVE t \in S
    OBVIOUS
  <2>1. t \in OnList(b) /\ b.state[t] = "WAITING"
    BY DEF Good, In
  <2>2. PICK i \in Indices(b) : b.runList[i] = t
    BY <2>1 DEF OnList
  <2>3. i < b.curThreadIdx
    BY <1>1, <2>2 DEF Indices, Good, Barriers
  <2>4. QED
    BY <2>1, <2>2, <2>3 DEF Turns
<1>7. PICK t \in Tids : b.state[t] = "WAITING"
  <2> SUFFICES ASSUME In(b, "WAITING") = {} PROVE FALSE
    BY DEF In
  <2>1. Cardinality(In(b, "WAITING")) = 0
    BY FS_EmptySet
  <2>2. QED
    BY <1>1, <2>1, WaitingCount DEF Good, Barriers
<1>8. c.state[t] = "WAITING" /\ Good(c) /\ c.curThreadIdx = 0
  BY <1>4, <1>5, <1>7 DEF Fresh
<1>9. PICK i \in Indices(c) : c.runList[i] = t
  BY <1>8 DEF Good, In, OnList
<1>10. i >= 0
  BY <1>8, <1>9 DEF Good, Barriers, Indices
<1>11. QED
  BY <1>4, <1>5, <1>6, <1>8, <1>9, <1>10

(* What a critical section leaves when it ends. *)
LEMMA TryWakeStep ==
    ASSUME NEW b, NEW S, Good(b), Turns(b, S), Limited(b), NEW c \in tryWakeNext(b)
    PROVE  /\ Good(c) /\ Full(c) /\ NotStalled(c)
           /\ Turns(c, IF c.phaseCount # b.phaseCount THEN {} ELSE S)
           /\ c.futexWord = b.futexWord
           /\ \A t \in Tids : \/ c.state[t] = b.state[t]
                              \/ b.state[t] = "WAITING" /\ c.state[t] = "RUNNING"
                              \/ b.state[t] = "LEFT" /\ c.state[t] = "OFFLINE"
           /\ c.phaseCount # b.phaseCount =>
                /\ b.runningThreads = 0
                /\ In(b, "WAITING") \subseteq S
                /\ \A i \in Indices(b) :
                     i >= b.curThreadIdx => b.state[b.runList[i]] # "WAITING"
<1> DEFINE d == checkRunList(b)
<1>1. PICK e \in checkEndPhase(d) : c = checkRunList(e)
  BY DEF tryWakeNext
<1>2. /\ Good(d) /\ Turns(d, S) /\ Full(d)
      /\ d.phaseCount = b.phaseCount /\ d.futexWord = b.futexWord
      /\ \A t \in Tids : d.state[t] = b.state[t]
                         \/ (b.state[t] = "WAITING" /\ d.state[t] = "RUNNING")
      /\ d.runningThreads >= b.runningThreads
      /\ d.runningThreads = 0 => d.state = b.state
      /\ (\E i \in Indices(b) : i >= b.curThreadIdx /\ b.state[b.runList[i]] = "WAITING")
           => d.runningThreads > 0
  BY WakeStep
<1> HIDE DEF d
<1>3. d.runningThreads \in Nat /\ b.runningThreads \in Nat /\ d.curThreadIdx \in Nat
      /\ d.runListSize \in Nat /\ d.curThreadIdx <= d.runListSize
      /\ parallelThreads \in Nat \ {0}
  BY <1>2, ParallelAssumption DEF Good, Barriers
<1>4. CASE ~ EndOfPhase(d)
  <2>1. e = d /\ Limited(d)
    BY <1>1, <1>2, <1>4 DEF checkEndPhase, Full
  <2>2. /\ Good(c) /\ Turns(c, S) /\ Full(c)
        /\ c.runListSize = d.runListSize /\ c.leftThreads = d.leftThreads
        /\ c.phaseCount = d.phaseCount /\ c.futexWord = d.futexWord
        /\ \A t \in Tids : c.state[t] = d.state[t]
                           \/ (d.state[t] = "WAITING" /\ c.state[t] = "RUNNING")
        /\ c.runningThreads >= d.runningThreads
    BY SMTT(30), <1>1, <1>2, <2>1, WakeStep
  <2>3. NotStalled(c)
    <3>1. c.runningThreads \in Nat
      BY <2>2 DEF Good, Barriers
    <3>2. d.runningThreads = 0 => d.leftThreads = d.runListSize
      BY <1>2, <1>3, <1>4 DEF EndOfPhase, Full
    <3>3. QED
      BY <1>3, <2>2, <3>1, <3>2 DEF NotStalled
  <2>4. QED
    BY <1>2, <2>2, <2>3
<1>5. CASE EndOfPhase(d)
  <2>1. /\ Fresh(e) /\ e.phaseCount # d.phaseCount /\ e.futexWord = d.futexWord
        /\ \A t \in Tids : e.state[t] = d.state[t]
                           \/ (d.state[t] = "LEFT" /\ e.state[t] = "OFFLINE")
        /\ In(d, "WAITING") \subseteq S
        /\ \E i \in Indices(e) : i >= e.curThreadIdx /\ e.state[e.runList[i]] = "WAITING"
    BY <1>1, <1>2, <1>5, EndPhaseStep
  <2>2. Good(e) /\ Turns(e, {}) /\ Limited(e)
    BY <2>1, FreshFacts DEF Fresh
  <2>3. /\ Good(c) /\ Turns(c, {}) /\ Full(c) /\ c.runningThreads > 0
        /\ c.phaseCount = e.phaseCount /\ c.futexWord = e.futexWord
        /\ \A t \in Tids : c.state[t] = e.state[t]
                           \/ (e.state[t] = "WAITING" /\ c.state[t] = "RUNNING")
    BY SMTT(30), <1>1, <2>1, <2>2, WakeStep
  <2>4. d.runningThreads = 0 /\ d.state = b.state
    BY <1>2, <1>5 DEF EndOfPhase
  <2>5. b.runningThreads = 0 /\ In(b, "WAITING") \subseteq S
        /\ \A i \in Indices(b) : i >= b.curThreadIdx => b.state[b.runList[i]] # "WAITING"
    BY <1>2, <1>3, <2>1, <2>4 DEF In
  <2>6. NotStalled(c) /\ c.phaseCount # b.phaseCount
    BY <1>2, <2>1, <2>3 DEF NotStalled
  <2>7. \A t \in Tids : \/ c.state[t] = b.state[t]
                        \/ b.state[t] = "WAITING" /\ c.state[t] = "RUNNING"
                        \/ b.state[t] = "LEFT" /\ c.state[t] = "OFFLINE"
    BY <2>1, <2>3, <2>4
  <2>8. QED
    BY SMTT(30), <1>2, <2>1, <2>3, <2>5, <2>6, <2>7
<1>6. QED
  BY <1>4, <1>5

-----------------------------------------------------------------------------
(* Joining, leaving and finishing a phase *)

(* A core that was never on the run list joins at its end. *)
LEMMA FirstJoin ==
    ASSUME NEW b, NEW S, Good(b), Turns(b, S), NEW tid \in Tids, b.state[tid] = "OFFLINE"
    PROVE  LET c == joining(b, tid)
           IN  /\ Good(c) /\ Turns(c, S) /\ c.runningThreads = b.runningThreads
               /\ c.phaseCount = b.phaseCount
               /\ c.futexWord = [b.futexWord EXCEPT ![tid] = 1]
               /\ c.state = [b.state EXCEPT ![tid] = "WAITING"]
               /\ \E i \in Indices(c) : i >= c.curThreadIdx /\ c.runList[i] = tid
<1> DEFINE c == joining(b, tid)
           n == b.runListSize
<1>1. b \in Barriers /\ n \in Nat /\ b.curThreadIdx \in Nat /\ b.curThreadIdx <= n
      /\ b.runList \in [0 .. n - 1 -> Tids]
  BY DEF Good, Barriers, Indices
<1>2. /\ c.state = [b.state EXCEPT ![tid] = "WAITING"]
      /\ c.futexWord = [b.futexWord EXCEPT ![tid] = 1]
      /\ c.runList = [i \in 0 .. n |-> IF i = n THEN tid ELSE b.runList[i]]
      /\ c.runListSize = n + 1
      /\ c.lastIdx = b.lastIdx /\ c.curThreadIdx = b.curThreadIdx
      /\ c.runningThreads = b.runningThreads /\ c.leftThreads = b.leftThreads
      /\ c.phaseCount = b.phaseCount
  BY <1>1 DEF joining, enlist, Barriers
<1>3. c.runList \in [0 .. (n + 1) - 1 -> Tids] /\ Indices(c) = 0 .. n /\ 0 .. (n + 1) - 1 = 0 .. n
  BY <1>1, <1>2 DEF Indices
<1>4. c \in Barriers
  <2>0. n + 1 \in Nat
    BY <1>1
  <2>1. c.runList \in Lists
    <3> HIDE DEF c
    <3>1. QED
      BY <1>3, <2>0 DEF Lists
  <2>2. c.state \in [Tids -> States] /\ c.futexWord \in [Tids -> {0, 1}]
    BY <1>1, <1>2 DEF Barriers, States
  <2>3. c = [b EXCEPT !.state = c.state, !.futexWord = c.futexWord, !.runList = c.runList,
                      !.runListSize = n + 1]
    BY ZenonT(30), <1>1 DEF joining, enlist, Barriers
  <2> HIDE DEF c
  <2>4. QED
    BY Zenon, <1>1, <2>0, <2>1, <2>2, <2>3 DEF Barriers
<1> HIDE DEF c
<1>5. tid \notin OnList(b)
  BY DEF Good, In
<1>6. \A i \in 0 .. n - 1 : b.runList[i] # tid /\ b.runList[i] \in Tids /\ c.runList[i] = b.runList[i]
  BY <1>1, <1>2, <1>5 DEF OnList, Indices
<1>7. c.runList[n] = tid /\ n \in 0 .. n /\ \A i \in 0 .. n : i # n => i \in 0 .. n - 1
  BY <1>1, <1>2
<1>8. \A i, j \in 0 .. n : c.runList[i] = c.runList[j] => i = j
  BY <1>6, <1>7 DEF Good, Indices
<1>9. OnList(c) = OnList(b) \cup {tid}
  <2>1. \A t : t \in OnList(c) <=> \E i \in 0 .. n : c.runList[i] = t
    BY <1>3 DEF OnList
  <2>2. \A t : t \in OnList(b) <=> \E i \in 0 .. n - 1 : b.runList[i] = t
    BY DEF OnList, Indices
  <2>3. \A i \in 0 .. n - 1 : i \in 0 .. n
    BY <1>1
  <2>4. QED
    BY <1>6, <1>7, <2>1, <2>2, <2>3
<1>10. In(c, "RUNNING") = In(b, "RUNNING") /\ In(c, "LEFT") = In(b, "LEFT")
       /\ Tids \ In(c, "OFFLINE") = (Tids \ In(b, "OFFLINE")) \cup {tid}
       /\ In(b, "WAITING") \subseteq In(c, "WAITING")
  BY <1>1, <1>2 DEF In, Barriers
<1>11. Good(c)
  <2>1. \A t \in Tids : c.state[t] \in {"RUNNING", "LEFT"} =>
           c.lastIdx[t] \in Indices(c) /\ c.runList[c.lastIdx[t]] = t
    <3> SUFFICES ASSUME NEW t \in Tids, c.state[t] \in {"RUNNING", "LEFT"}
                 PROVE  c.lastIdx[t] \in Indices(c) /\ c.runList[c.lastIdx[t]] = t
      OBVIOUS
    <3>1. b.state[t] \in {"RUNNING", "LEFT"}
      BY <1>1, <1>2 DEF Barriers
    <3>2. b.lastIdx[t] \in 0 .. n - 1 /\ b.runList[b.lastIdx[t]] = t
      BY <3>1 DEF Good, Indices
    <3>3. QED
      BY <1>1, <1>2, <1>3, <1>6, <3>2
  <2>2. c.curThreadIdx <= c.runListSize
    BY <1>1, <1>2
  <2>3. QED
    BY Zenon, <1>2, <1>3, <1>4, <1>8, <1>9, <1>10, <2>1, <2>2 DEF Good
<1>12. Turns(c, S)
  <2>1. \A i \in 0 .. n : c.state[c.runList[i]] = "WAITING" =>
           (i < b.curThreadIdx <=> c.runList[i] \in S)
    <3> SUFFICES ASSUME NEW i \in 0 .. n, c.state[c.runList[i]] = "WAITING"
                 PROVE  i < b.curThreadIdx <=> c.runList[i] \in S
      OBVIOUS
    <3>1. CASE i = n
      <4>1. tid \notin S
        BY DEF Turns, In
      <4>2. QED
        BY <1>1, <1>7, <3>1, <4>1
    <3>2. CASE i # n
      <4>0. i \in 0 .. n - 1 /\ c.runList[i] = b.runList[i]
            /\ b.runList[i] \in Tids /\ b.runList[i] # tid
        BY <1>6, <1>7, <3>2
      <4>1. i \in 0 .. n - 1 /\ b.state[b.runList[i]] = "WAITING"
        BY <1>1, <1>2, <4>0 DEF Barriers
      <4>2. QED
        BY <1>6, <4>1 DEF Turns, Indices
    <3>3. QED
      BY <3>1, <3>2
  <2>2. QED
    BY SMTT(30), <1>2, <1>3, <1>10, <2>1 DEF Turns
<1>13. QED
  BY <1>1, <1>2, <1>3, <1>7, <1>11, <1>12 DEF c

(* A core that leaves a state lowers its count by one. *)
LEMMA OneLess ==
    ASSUME NEW b, NEW c, NEW s, NEW tid \in Tids, b.state[tid] = s,
           In(c, s) = In(b, s) \ {tid}
    PROVE  Cardinality(In(c, s)) = Cardinality(In(b, s)) - 1
<1>1. tid \in In(b, s)
  BY DEF In
<1>2. Cardinality(In(b, s) \ {tid}) = IF tid \in In(b, s) THEN Cardinality(In(b, s)) - 1
                                                          ELSE Cardinality(In(b, s))
  BY Zenon, FiniteIn, FS_RemoveElement
<1>3. QED
  BY <1>1, <1>2

(* A core that enters a state raises its count by one. *)
LEMMA OneMore ==
    ASSUME NEW b, NEW c, NEW s, NEW tid \in Tids, b.state[tid] # s,
           In(c, s) = In(b, s) \cup {tid}
    PROVE  Cardinality(In(c, s)) = Cardinality(In(b, s)) + 1
<1>1. tid \notin In(b, s)
  BY DEF In
<1>2. QED
  BY Zenon, <1>1, FiniteIn, FS_AddElement

(* A core that left joins again at the position it remembers, or behind the *)
(* cores that have had their turn.                                          *)
LEMMA Rejoin ==
    ASSUME NEW b, NEW S, Good(b), Turns(b, S), NEW tid \in Tids, b.state[tid] = "LEFT"
    PROVE  LET c == joining(b, tid)
           IN  /\ Good(c) /\ Turns(c, S) /\ c.runningThreads = b.runningThreads
               /\ c.phaseCount = b.phaseCount
               /\ c.futexWord = [b.futexWord EXCEPT ![tid] = 1]
               /\ c.state = [b.state EXCEPT ![tid] = "WAITING"]
               /\ \E i \in Indices(c) : i >= c.curThreadIdx /\ c.runList[i] = tid
<1> DEFINE c == joining(b, tid)
           D == Indices(b)
           idx == b.lastIdx[tid]
           cur == b.curThreadIdx
           other == b.runList[cur - 1]
<1>1. /\ b \in Barriers /\ b.runListSize \in Nat /\ cur \in Nat /\ cur <= b.runListSize
      /\ b.runList \in [D -> Tids] /\ D = 0 .. b.runListSize - 1
      /\ idx \in D /\ b.runList[idx] = tid /\ b.leftThreads \in Nat
      /\ \A i, j \in D : b.runList[i] = b.runList[j] => i = j
  BY DEF Good, Barriers, Indices
<1>2. /\ c.state = [b.state EXCEPT ![tid] = "WAITING"]
      /\ c.futexWord = [b.futexWord EXCEPT ![tid] = 1]
      /\ c.runListSize = b.runListSize /\ c.leftThreads = b.leftThreads - 1
      /\ c.runningThreads = b.runningThreads /\ c.phaseCount = b.phaseCount
      /\ cur <= idx => c.runList = b.runList /\ c.lastIdx = b.lastIdx /\ c.curThreadIdx = cur
      /\ ~ (cur <= idx) =>
           /\ c.curThreadIdx = cur - 1
           /\ c.runList = [[b.runList EXCEPT ![idx] = other] EXCEPT ![cur - 1] = tid]
           /\ c.lastIdx = [[b.lastIdx EXCEPT ![other] = idx] EXCEPT ![tid] = cur - 1]
  BY <1>1 DEF joining, reschedule, Barriers
<1>3. c = [b EXCEPT !.state = c.state, !.futexWord = c.futexWord, !.leftThreads = c.leftThreads,
                    !.curThreadIdx = c.curThreadIdx, !.runList = c.runList, !.lastIdx = c.lastIdx]
  <2> DEFINE l == [b EXCEPT !.leftThreads = @ - 1]
             m == reschedule(l, tid)
  <2>1. c = [m EXCEPT !.state[tid] = "WAITING", !.futexWord[tid] = 1]
    BY DEF joining
  <2>2. l = [b EXCEPT !.leftThreads = l.leftThreads] /\ DOMAIN l = DOMAIN b
    BY <1>1 DEF Barriers
  <2>3. DOMAIN m = DOMAIN b /\ m = [b EXCEPT !.leftThreads = m.leftThreads,
            !.curThreadIdx = m.curThreadIdx, !.runList = m.runList, !.lastIdx = m.lastIdx]
    <3>1. CASE l.curThreadIdx <= l.lastIdx[tid]
      <4>1. m = l
        BY <3>1 DEF reschedule
      <4> HIDE DEF m, l
      <4>2. QED
        BY Zenon, <1>1, <2>2, <4>1 DEF Barriers
    <3>2. CASE ~ (l.curThreadIdx <= l.lastIdx[tid])
      <4>1. PICK x, y, z : m = [l EXCEPT !.curThreadIdx = x, !.runList = y, !.lastIdx = z]
        BY Zenon, <3>2 DEF reschedule
      <4> HIDE DEF m, l
      <4>2. QED
        BY Zenon, <1>1, <2>2, <4>1 DEF Barriers
    <3>3. QED
      BY <3>1, <3>2
  <2> HIDE DEF m, l, c
  <2>4. QED
    BY Zenon, <1>1, <2>1, <2>3 DEF Barriers
<1> HIDE DEF c
<1>4. /\ In(c, "LEFT") = In(b, "LEFT") \ {tid} /\ In(c, "RUNNING") = In(b, "RUNNING")
      /\ In(c, "OFFLINE") = In(b, "OFFLINE") /\ In(b, "WAITING") \subseteq In(c, "WAITING")
      /\ \A t \in Tids : t # tid => c.state[t] = b.state[t]
      /\ Indices(c) = D /\ tid \notin S
  BY SMTT(30), <1>1, <1>2 DEF In, Indices, Barriers, Turns
<1>5. c.leftThreads = Cardinality(In(c, "LEFT")) /\ c.leftThreads \in Nat
  <2>1. Cardinality(In(c, "LEFT")) = Cardinality(In(b, "LEFT")) - 1
    BY <1>4, OneLess
  <2>2. QED
    BY <1>2, <2>1, FiniteIn DEF Good
<1>6. c.state \in [Tids -> States] /\ c.futexWord \in [Tids -> {0, 1}]
  BY SMTT(30), <1>1, <1>2 DEF Barriers, States
<1>7. CASE cur <= idx
  <2>1. c \in Barriers
    BY Zenon, <1>1, <1>2, <1>3, <1>5, <1>6, <1>7 DEF Barriers
  <2>2. OnList(c) = OnList(b)
    BY <1>2, <1>4, <1>7 DEF OnList
  <2>3. Good(c)
    BY Zenon, <1>1, <1>2, <1>4, <1>5, <1>7, <2>1, <2>2 DEF Good
  <2>4. Turns(c, S)
    <3>1. ASSUME NEW i \in D, c.state[b.runList[i]] = "WAITING"
          PROVE  i < cur <=> b.runList[i] \in S
      <4>1. CASE i = idx
        BY <1>1, <1>4, <1>7, <4>1
      <4>2. CASE i # idx
        <5>1. b.runList[i] # tid /\ b.runList[i] \in Tids
          BY SMTT(30), <1>1, <4>2
        <5>2. QED
          BY <1>4, <3>1, <5>1 DEF Turns
      <4>3. QED
        BY <4>1, <4>2
    <3>2. QED
      BY <1>2, <1>4, <1>7, <3>1 DEF Turns
  <2>5. QED
    BY <1>1, <1>2, <1>4, <1>7, <2>3, <2>4 DEF c
<1>8. CASE ~ (cur <= idx)
  <2>1. /\ cur - 1 \in D /\ cur - 1 \in Nat /\ idx \in Nat /\ idx <= cur - 1
        /\ other \in Tids /\ D \subseteq Nat
    BY <1>1, <1>8
  <2>4. other = tid <=> idx = cur - 1
    BY SMTT(30), <1>1, <2>1
  <2>0. b.lastIdx \in [Tids -> Nat]
    BY <1>1 DEF Barriers
  <2> DEFINE last == cur - 1
  <2>12. /\ c.runList = [[b.runList EXCEPT ![idx] = other] EXCEPT ![last] = tid]
        /\ c.lastIdx = [[b.lastIdx EXCEPT ![other] = idx] EXCEPT ![tid] = last]
        /\ last \in D /\ last \in Nat /\ b.runList[last] = other
    BY <1>2, <1>8, <2>1
  <2> HIDE DEF other, idx, cur, D, last
  <2>2. /\ c.runList \in [D -> Tids] /\ c.runList[cur - 1] = tid
        /\ idx # cur - 1 => c.runList[idx] = other
        /\ \A i \in D : i # idx /\ i # cur - 1 => c.runList[i] = b.runList[i]
    <3>1. /\ c.runList \in [D -> Tids] /\ c.runList[last] = tid
          /\ idx # last => c.runList[idx] = other
          /\ \A i \in D : i # idx /\ i # last => c.runList[i] = b.runList[i]
      BY ZenonT(30), <1>1, <2>1, <2>12
    <3>2. QED
      BY <3>1 DEF last
  <2>3. /\ c.lastIdx \in [Tids -> Nat] /\ c.lastIdx[tid] = cur - 1
        /\ other # tid => c.lastIdx[other] = idx
        /\ \A t \in Tids : t # tid /\ t # other => c.lastIdx[t] = b.lastIdx[t]
    <3>1. /\ c.lastIdx \in [Tids -> Nat] /\ c.lastIdx[tid] = last
          /\ other # tid => c.lastIdx[other] = idx
          /\ \A t \in Tids : t # tid /\ t # other => c.lastIdx[t] = b.lastIdx[t]
      BY <2>0, <2>1, <2>12
    <3>2. QED
      BY <3>1 DEF last
  <2>5. c \in Barriers
    <3>1. c.runList \in Lists
      BY SMTT(30), <1>1, <2>2 DEF Lists
    <3>2. QED
      BY Zenon, <1>1, <1>2, <1>3, <1>5, <1>6, <1>8, <2>1, <2>3, <3>1 DEF Barriers
  <2>6. \A i, j \in D : c.runList[i] = c.runList[j] => i = j
    <3> DEFINE P(i) == IF i = idx THEN last ELSE IF i = last THEN idx ELSE i
    <3>1. \A i \in D : P(i) \in D /\ c.runList[i] = b.runList[P(i)]
      BY <1>1, <2>2, <2>4, <2>12 DEF last
    <3>2. \A i, j \in D : P(i) = P(j) => i = j
      OBVIOUS
    <3> HIDE DEF P
    <3>3. QED
      BY SMTT(30), <1>1, <3>1, <3>2
  <2>7. OnList(c) = OnList(b)
    <3>1. \A t : t \in OnList(b) <=> \E i \in D : b.runList[i] = t
      BY DEF OnList, D
    <3>2. \A t : t \in OnList(c) <=> \E i \in D : c.runList[i] = t
      BY <1>4 DEF OnList
    <3>3. \A t : (\E i \in D : b.runList[i] = t) => \E i \in D : c.runList[i] = t
      BY Zenon, <1>1, <2>1, <2>2, <2>4 DEF other
    <3>4. \A t : (\E i \in D : c.runList[i] = t) => \E i \in D : b.runList[i] = t
      BY <1>1, <2>1, <2>2, <2>4 DEF other
    <3>5. QED
      BY SMTT(30), <3>1, <3>2, <3>3, <3>4
  <2>8. \A t \in Tids : c.state[t] \in {"RUNNING", "LEFT"} =>
           c.lastIdx[t] \in D /\ c.runList[c.lastIdx[t]] = t
    <3> SUFFICES ASSUME NEW t \in Tids, c.state[t] \in {"RUNNING", "LEFT"}
                 PROVE  c.lastIdx[t] \in D /\ c.runList[c.lastIdx[t]] = t
      OBVIOUS
    <3>1. t # tid /\ b.state[t] \in {"RUNNING", "LEFT"}
      BY <1>1, <1>2, <1>4 DEF Barriers
    <3>2. b.lastIdx[t] \in D /\ b.runList[b.lastIdx[t]] = t
      BY <3>1 DEF Good, D
    <3>3. CASE t = other
      BY <1>1, <2>2, <2>3, <2>4, <3>1, <3>3
    <3>4. CASE t # other
      <4>1. b.lastIdx[t] # idx /\ b.lastIdx[t] # cur - 1
        BY SMTT(30), <1>1, <3>1, <3>2, <3>4 DEF other
      <4>2. QED
        BY <2>2, <2>3, <3>1, <3>2, <3>4, <4>1
    <3>5. QED
      BY <3>3, <3>4
  <2>9. Good(c)
    <3>1. c.curThreadIdx <= c.runListSize
      BY <1>1, <1>2, <1>8, <2>1
    <3>2. QED
      BY SMTT(30), <1>2, <1>4, <1>5, <2>2, <2>5, <2>6, <2>7, <2>8, <3>1 DEF Good
  <2>10. Turns(c, S)
    <3>1. ASSUME NEW i \in D, c.state[c.runList[i]] = "WAITING"
          PROVE  i < cur - 1 <=> c.runList[i] \in S
      <4>1. CASE i = cur - 1
        BY <1>4, <2>1, <2>2, <4>1
      <4>2. CASE i = idx /\ i # cur - 1
        <5>1. c.runList[i] = other /\ other # tid /\ i < cur - 1 /\ cur - 1 < cur
          BY <1>1, <2>1, <2>2, <2>4, <4>2
        <5>2. b.state[other] = "WAITING"
          BY <1>4, <2>1, <3>1, <5>1
        <5>3. other \in S
          BY <2>1, <5>1, <5>2 DEF Turns, other, D, cur
        <5>4. QED
          BY <5>1, <5>3
      <4>3. CASE i # idx /\ i # cur - 1
        <5>1. c.runList[i] = b.runList[i] /\ b.runList[i] # tid /\ b.runList[i] \in Tids
          BY <1>1, <2>2, <4>3
        <5>2. b.state[b.runList[i]] = "WAITING"
          BY <1>4, <3>1, <5>1
        <5>3. i < cur <=> b.runList[i] \in S
          BY <5>2 DEF Turns, D, cur
        <5>4. i \in Nat
          BY <2>1
        <5>5. QED
          BY <1>1, <2>1, <4>3, <5>1, <5>3, <5>4
      <4>4. QED
        BY <4>1, <4>2, <4>3
    <3>2. ASSUME NEW t \in In(c, "RUNNING") PROVE c.lastIdx[t] < cur - 1
      <4>1. t \in Tids /\ t # tid /\ b.state[t] = "RUNNING" /\ t \in In(b, "RUNNING")
        BY <1>4 DEF In
      <4>2. b.lastIdx[t] < cur /\ b.lastIdx[t] \in D /\ b.runList[b.lastIdx[t]] = t
        BY <4>1 DEF Turns, Good, D, cur
      <4>3. CASE t = other
        BY <2>1, <2>3, <2>4, <4>1, <4>3
      <4>4. CASE t # other
        <5>1. b.lastIdx[t] # cur - 1 /\ b.lastIdx[t] \in Nat
          BY Zenon, <2>1, <4>2, <4>4 DEF other
        <5>2. QED
          BY <1>1, <2>1, <2>3, <4>1, <4>2, <4>4, <5>1
      <4>5. QED
        BY <4>3, <4>4
    <3>3. S \subseteq In(c, "WAITING")
      BY <1>4 DEF Turns
    <3>4. QED
      BY <1>2, <1>4, <1>8, <3>1, <3>2, <3>3 DEF Turns
  <2>11. QED
    BY <1>2, <1>4, <1>8, <2>1, <2>2, <2>9, <2>10 DEF c
<1>9. QED
  BY <1>7, <1>8

(* joining, in both of its cases, keeps the object consistent. *)
LEMMA JoiningStep ==
    ASSUME NEW b, NEW S, Good(b), Turns(b, S), NEW tid \in Tids,
           b.state[tid] \in {"LEFT", "OFFLINE"}
    PROVE  LET c == joining(b, tid)
           IN  /\ Good(c) /\ Turns(c, S) /\ c.runningThreads = b.runningThreads
               /\ c.phaseCount = b.phaseCount
               /\ c.futexWord = [b.futexWord EXCEPT ![tid] = 1]
               /\ c.state = [b.state EXCEPT ![tid] = "WAITING"]
               /\ \E i \in Indices(c) : i >= c.curThreadIdx /\ c.runList[i] = tid
BY FirstJoin, Rejoin

(* syncing keeps the object consistent and uses up the core's turn. *)
LEMMA SyncingStep ==
    ASSUME NEW b, NEW S, Good(b), Turns(b, S), NEW tid \in Tids, b.state[tid] = "RUNNING"
    PROVE  LET c == syncing(b, tid)
           IN  /\ Good(c) /\ Turns(c, S \cup {tid})
               /\ c.runningThreads = b.runningThreads - 1 /\ c.phaseCount = b.phaseCount
               /\ c.futexWord = [b.futexWord EXCEPT ![tid] = 1]
               /\ c.state = [b.state EXCEPT ![tid] = "WAITING"]
<1> DEFINE c == syncing(b, tid)
<1>1. b \in Barriers /\ b.runningThreads \in Nat /\ b.state \in [Tids -> States]
      /\ b.futexWord \in [Tids -> {0, 1}]
  BY DEF Good, Barriers
<1>2. /\ c.state = [b.state EXCEPT ![tid] = "WAITING"]
      /\ c.futexWord = [b.futexWord EXCEPT ![tid] = 1]
      /\ c.runListSize = b.runListSize /\ c.leftThreads = b.leftThreads
      /\ c.runningThreads = b.runningThreads - 1 /\ c.phaseCount = b.phaseCount
      /\ c.runList = b.runList /\ c.lastIdx = b.lastIdx /\ c.curThreadIdx = b.curThreadIdx
  BY <1>1 DEF syncing, Barriers
<1>3. c = [b EXCEPT !.state = c.state, !.futexWord = c.futexWord, !.runningThreads = c.runningThreads]
  BY <1>1 DEF syncing, Barriers
<1> HIDE DEF c
<1>4. /\ In(c, "RUNNING") = In(b, "RUNNING") \ {tid} /\ In(c, "LEFT") = In(b, "LEFT")
      /\ In(c, "OFFLINE") = In(b, "OFFLINE") /\ In(c, "WAITING") = In(b, "WAITING") \cup {tid}
      /\ Indices(c) = Indices(b) /\ OnList(c) = OnList(b)
  BY <1>1, <1>2 DEF In, Indices, OnList
<1>5. c.runningThreads = Cardinality(In(c, "RUNNING")) /\ c.runningThreads \in Nat
  <2>1. Cardinality(In(c, "RUNNING")) = Cardinality(In(b, "RUNNING")) - 1
    <3>1. In(c, "RUNNING") = In(b, "RUNNING") \ {tid}
      BY <1>4
    <3>2. QED
      BY <3>1, OneLess
  <2>2. QED
    BY <1>2, <2>1, FiniteIn DEF Good
<1>6. c \in Barriers
  <2>1. c.state \in [Tids -> States] /\ c.futexWord \in [Tids -> {0, 1}]
    BY <1>1, <1>2 DEF States
  <2>2. QED
    BY Zenon, <1>1, <1>3, <1>5, <2>1 DEF Barriers
<1>7. Good(c)
  <2>1. \A t \in Tids : c.state[t] \in {"RUNNING", "LEFT"} => b.state[t] \in {"RUNNING", "LEFT"}
    BY <1>1, <1>2
  <2>2. QED
    BY <1>2, <1>4, <1>5, <1>6, <2>1 DEF Good
<1>8. Turns(c, S \cup {tid})
  <2>1. b.lastIdx[tid] \in Indices(b) /\ b.runList[b.lastIdx[tid]] = tid
        /\ b.lastIdx[tid] < b.curThreadIdx
    BY DEF Good, Turns, In
  <2>2. ASSUME NEW i \in Indices(b), c.state[b.runList[i]] = "WAITING"
        PROVE  i < b.curThreadIdx <=> b.runList[i] \in S \cup {tid}
    <3>1. CASE b.runList[i] = tid
      <4>1. i = b.lastIdx[tid]
        BY <2>1, <3>1 DEF Good
      <4>2. QED
        BY <2>1, <3>1, <4>1
    <3>2. CASE b.runList[i] # tid
      <4>1. b.state[b.runList[i]] = "WAITING"
        BY <1>1, <1>2, <2>2, <3>2 DEF Good
      <4>2. QED
        BY <3>2, <4>1 DEF Turns
    <3>3. QED
      BY <3>1, <3>2
  <2>3. QED
    BY <1>2, <1>4, <2>2 DEF Turns
<1>9. QED
  BY <1>2, <1>7, <1>8 DEF c

(* leaving keeps the object consistent. *)
LEMMA LeavingStep ==
    ASSUME NEW b, NEW S, Good(b), Turns(b, S), NEW tid \in Tids, b.state[tid] = "RUNNING"
    PROVE  LET c == leaving(b, tid)
           IN  /\ Good(c) /\ Turns(c, S \ {tid})
               /\ c.runningThreads = b.runningThreads - 1 /\ c.phaseCount = b.phaseCount
               /\ c.futexWord = b.futexWord
               /\ c.state = [b.state EXCEPT ![tid] = "LEFT"]
<1> DEFINE c == leaving(b, tid)
<1>1. b \in Barriers /\ b.runningThreads \in Nat /\ b.state \in [Tids -> States]
      /\ b.leftThreads \in Nat
  BY DEF Good, Barriers
<1>2. /\ c.state = [b.state EXCEPT ![tid] = "LEFT"] /\ c.futexWord = b.futexWord
      /\ c.runListSize = b.runListSize /\ c.leftThreads = b.leftThreads + 1
      /\ c.runningThreads = b.runningThreads - 1 /\ c.phaseCount = b.phaseCount
      /\ c.runList = b.runList /\ c.lastIdx = b.lastIdx /\ c.curThreadIdx = b.curThreadIdx
  BY <1>1 DEF leaving, Barriers
<1>3. c = [b EXCEPT !.state = c.state, !.leftThreads = c.leftThreads, !.runningThreads = c.runningThreads]
  BY <1>1 DEF leaving, Barriers
<1> HIDE DEF c
<1>4. /\ In(c, "RUNNING") = In(b, "RUNNING") \ {tid} /\ In(c, "LEFT") = In(b, "LEFT") \cup {tid}
      /\ In(c, "OFFLINE") = In(b, "OFFLINE") /\ In(c, "WAITING") = In(b, "WAITING")
      /\ Indices(c) = Indices(b) /\ OnList(c) = OnList(b) /\ tid \notin S
  BY <1>1, <1>2 DEF In, Indices, OnList, Turns
<1>5. c.runningThreads = Cardinality(In(c, "RUNNING")) /\ c.runningThreads \in Nat
      /\ c.leftThreads = Cardinality(In(c, "LEFT")) /\ c.leftThreads \in Nat
  <2>1. Cardinality(In(c, "RUNNING")) = Cardinality(In(b, "RUNNING")) - 1
    <3>1. In(c, "RUNNING") = In(b, "RUNNING") \ {tid}
      BY <1>4
    <3>2. QED
      BY <3>1, OneLess
  <2>2. Cardinality(In(c, "LEFT")) = Cardinality(In(b, "LEFT")) + 1
    BY Zenon, <1>4, OneMore
  <2>3. QED
    BY <1>2, <2>1, <2>2, FiniteIn DEF Good
<1>6. c \in Barriers
  <2>1. c.state \in [Tids -> States]
    BY <1>1, <1>2 DEF States
  <2>2. QED
    BY Zenon, <1>1, <1>3, <1>5, <2>1 DEF Barriers
<1>7. Good(c)
  <2>1. \A t \in Tids : c.state[t] \in {"RUNNING", "LEFT"} => b.state[t] \in {"RUNNING", "LEFT"}
    BY <1>1, <1>2
  <2>2. QED
    BY SMTT(30), <1>2, <1>4, <1>5, <1>6, <2>1 DEF Good
<1>8. Turns(c, S \ {tid})
  <2>1. ASSUME NEW i \in Indices(b), c.state[b.runList[i]] = "WAITING"
        PROVE  b.state[b.runList[i]] = "WAITING"
    BY <1>1, <1>2, <2>1 DEF Good
  <2>2. QED
    BY <1>2, <1>4, <2>1 DEF Turns
<1>9. QED
  BY <1>2, <1>7, <1>8 DEF c

-----------------------------------------------------------------------------
(* The specification *)

Places == {"out", "locked", "running"} \cup Waiting

(* Where a core is agrees with its state in the barrier. *)
Placed(t) ==
    /\ pc[t] \in {"running", "returned"} => bar.state[t] = "RUNNING"
    /\ pc[t] = "out" => bar.state[t] \in {"LEFT", "OFFLINE"}
    /\ pc[t] \notin {"running", "returned", "out"} => bar.state[t] \in {"WAITING", "RUNNING"}
    /\ bar.state[t] = "WAITING" => bar.futexWord[t] = 1
    /\ wakes[t] # "none" => bar.state[t] = "RUNNING"
    /\ wakes[t] = "store" => bar.futexWord[t] = 1

ObjectInv == Good(bar) /\ Turns(bar, synced) /\ Full(bar) /\ NotStalled(bar)

BarrierInv ==
    /\ ObjectInv
    /\ pc \in [Tids -> Places] /\ wakes \in [Tids -> {"none", "store", "call"}]
    /\ \A t \in Tids : Placed(t)

(* The parts of ObjectInv for the next state. *)
LEMMA ObjectAfter ==
    ASSUME Good(bar'), Turns(bar', synced'), Full(bar'), NotStalled(bar')
    PROVE  ObjectInv'
<1>1. Good(bar)'
  BY DEF Good, Indices, OnList, In
<1>2. Turns(bar, synced)'
  BY DEF Turns, Indices, In
<1>3. (Full(bar) /\ NotStalled(bar))'
  BY DEF Full, Limited, NotStalled
<1>4. QED
  BY <1>1, <1>2, <1>3 DEF ObjectInv

(* A step outside the critical sections keeps ObjectInv. *)
LEMMA ObjectUnchanged ==
    ASSUME ObjectInv, bar' = bar, synced' = synced
    PROVE  ObjectInv'
<1>1. Good(bar') /\ Turns(bar', synced') /\ Full(bar') /\ NotStalled(bar')
  BY DEF ObjectInv
<1>2. QED
  BY <1>1, ObjectAfter

(* The barrier starts in BarrierInv. *)
LEMMA InitInv == Init => BarrierInv
<1> SUFFICES ASSUME Init PROVE BarrierInv
  OBVIOUS
<1>1. /\ bar.state = [t \in Tids |-> "OFFLINE"] /\ bar.futexWord = [t \in Tids |-> 0]
      /\ bar.lastIdx = [t \in Tids |-> 0] /\ bar.runList = [i \in {} |-> i]
      /\ bar.runListSize = 0 /\ bar.curThreadIdx = 0 /\ bar.runningThreads = 0
      /\ bar.leftThreads = 0 /\ bar.phaseCount = 0
  BY DEF Init, emptyBarrier
<1>2. Indices(bar) = {} /\ OnList(bar) = {}
  BY <1>1 DEF Indices, OnList
<1>3. bar.runList \in [Indices(bar) -> Tids] /\ bar.runList \in Lists
  <2>1. bar.runList \in [{} -> Tids] /\ 0 .. 0 - 1 = {} /\ 0 \in Nat
    BY <1>1
  <2>2. QED
    BY <1>2, <2>1 DEF Lists
<1>4. bar \in Barriers
  <2>1. 0 \in 0 .. CleanupPeriod - 1
    BY CleanupAssumption
  <2>2. [i \in {} |-> i] \in Lists
    BY <1>1, <1>3
  <2>3. QED
    BY <2>1, <2>2 DEF Init, emptyBarrier, Barriers, States
<1>5. /\ In(bar, "RUNNING") = {} /\ In(bar, "LEFT") = {} /\ In(bar, "WAITING") = {}
      /\ In(bar, "OFFLINE") = Tids
  BY <1>1 DEF In
<1>6. Good(bar)
  <2>1. Cardinality(In(bar, "RUNNING")) = 0 /\ Cardinality(In(bar, "LEFT")) = 0
    BY <1>5, FS_EmptySet
  <2>2. QED
    BY <1>1, <1>2, <1>3, <1>4, <1>5, <2>1 DEF Good
<1>7. Turns(bar, synced)
  BY <1>2, <1>5 DEF Turns, Init
<1>8. Full(bar) /\ NotStalled(bar)
  BY <1>1, ParallelAssumption DEF Full, Limited, NotStalled
<1>9. pc \in [Tids -> Places] /\ wakes \in [Tids -> {"none", "store", "call"}]
      /\ \A t \in Tids : Placed(t)
  BY SMTT(30), <1>1 DEF Init, Placed, Places
<1>10. QED
  BY <1>6, <1>7, <1>8, <1>9 DEF BarrierInv, ObjectInv

(* The end of a critical section that began in a state of the invariant and *)
(* has changed the barrier to b.                                            *)
LEMMA FinishStep ==
    ASSUME NEW b, NEW S, Good(b), Turns(b, S), Limited(b), Finish(b, S), BarrierInv,
           WakesDone, NEW tid \in Tids, NEW q \in Places, pc' = [pc EXCEPT ![tid] = q],
           b.phaseCount = bar.phaseCount,
           \A t \in Tids : t # tid => b.state[t] = bar.state[t] /\ b.futexWord[t] = bar.futexWord[t],
           \/ q = "locked" /\ b.state[tid] = "WAITING" /\ b.futexWord[tid] = 1
           \/ q = "out" /\ b.state[tid] = "LEFT"
    PROVE  /\ BarrierInv'
           /\ bar'.phaseCount # bar.phaseCount =>
                /\ b.runningThreads = 0
                /\ In(b, "WAITING") \subseteq S
                /\ \A i \in Indices(b) :
                     i >= b.curThreadIdx => b.state[b.runList[i]] # "WAITING"
<1>1. PICK c \in tryWakeNext(b) :
        /\ bar' = c
        /\ wakes' = [t \in Tids |-> IF b.state[t] = "WAITING" /\ c.state[t] = "RUNNING"
                                     THEN "store" ELSE "none"]
        /\ synced' = IF c.phaseCount # b.phaseCount THEN {} ELSE S
  BY SMTT(30) DEF Finish
<1>2. /\ Good(c) /\ Full(c) /\ NotStalled(c)
      /\ Turns(c, IF c.phaseCount # b.phaseCount THEN {} ELSE S)
      /\ c.futexWord = b.futexWord
      /\ \A t \in Tids : \/ c.state[t] = b.state[t]
                         \/ b.state[t] = "WAITING" /\ c.state[t] = "RUNNING"
                         \/ b.state[t] = "LEFT" /\ c.state[t] = "OFFLINE"
      /\ c.phaseCount # b.phaseCount =>
           /\ b.runningThreads = 0
           /\ In(b, "WAITING") \subseteq S
           /\ \A i \in Indices(b) :
                i >= b.curThreadIdx => b.state[b.runList[i]] # "WAITING"
  BY SMTT(30), TryWakeStep
<1>3. pc' \in [Tids -> Places] /\ wakes' \in [Tids -> {"none", "store", "call"}]
      /\ \A t \in Tids : pc'[t] = IF t = tid THEN q ELSE pc[t]
  BY SMTT(30), <1>1 DEF BarrierInv
<1>4. ASSUME NEW t \in Tids PROVE Placed(t)'
  <2>1. Placed(t)
    BY DEF BarrierInv
  <2>2. /\ bar'.state[t] = c.state[t] /\ bar'.futexWord[t] = b.futexWord[t]
        /\ wakes'[t] = IF b.state[t] = "WAITING" /\ c.state[t] = "RUNNING" THEN "store" ELSE "none"
        /\ \/ c.state[t] = b.state[t]
           \/ b.state[t] = "WAITING" /\ c.state[t] = "RUNNING"
           \/ b.state[t] = "LEFT" /\ c.state[t] = "OFFLINE"
    BY <1>1, <1>2
  <2>3. CASE t = tid
    BY SMTT(30), <1>3, <2>2, <2>3 DEF Placed
  <2>4. CASE t # tid
    BY SMTT(30), <1>3, <2>1, <2>2, <2>4 DEF Placed
  <2>5. QED
    BY <2>3, <2>4
<1>5. Turns(bar', synced')
  BY SMTT(30), <1>1, <1>2
<1>6. Good(bar') /\ Full(bar') /\ NotStalled(bar')
  BY SMTT(30), <1>1, <1>2
<1>7. BarrierInv'
  BY <1>3, <1>4, <1>5, <1>6, ObjectAfter DEF BarrierInv
<1>8. QED
  BY <1>1, <1>2, <1>7

(* Nobody else runs when a phase ends, and everybody who waits has          *)
(* finished it.                                                             *)
PhaseEndsComplete ==
    bar'.phaseCount # bar.phaseCount =>
        In(bar, "WAITING") \subseteq synced /\ Cardinality(In(bar, "RUNNING")) = 1

(* join keeps the invariant and never ends a phase. *)
LEMMA JoinStep ==
    ASSUME BarrierInv, NEW tid \in Tids, join(tid)
    PROVE  BarrierInv' /\ bar'.phaseCount = bar.phaseCount
<1> DEFINE b == joining(bar, tid)
<1>1. /\ Good(bar) /\ Turns(bar, synced) /\ Full(bar) /\ NotStalled(bar)
      /\ bar.state[tid] \in {"LEFT", "OFFLINE"} /\ WakesDone
      /\ bar.state \in [Tids -> States] /\ bar.futexWord \in [Tids -> {0, 1}]
  BY SMTT(30) DEF BarrierInv, ObjectInv, join, LockFree, Good, Barriers
<1>2. /\ Good(b) /\ Turns(b, synced) /\ b.runningThreads = bar.runningThreads
      /\ b.phaseCount = bar.phaseCount
      /\ b.futexWord = [bar.futexWord EXCEPT ![tid] = 1]
      /\ b.state = [bar.state EXCEPT ![tid] = "WAITING"]
      /\ \E i \in Indices(b) : i >= b.curThreadIdx /\ b.runList[i] = tid
  BY <1>1, JoiningStep
<1>3. Finish(b, synced) /\ pc' = [pc EXCEPT ![tid] = "locked"]
  BY SMTT(30) DEF join
<1> HIDE DEF b
<1>4. Limited(b)
  BY <1>1, <1>2 DEF Full, Limited
<1>5. /\ \A t \in Tids : t # tid => b.state[t] = bar.state[t] /\ b.futexWord[t] = bar.futexWord[t]
      /\ b.state[tid] = "WAITING" /\ b.futexWord[tid] = 1
  BY SMTT(30), <1>1, <1>2
<1>6. /\ BarrierInv'
      /\ bar'.phaseCount # bar.phaseCount =>
           \A i \in Indices(b) : i >= b.curThreadIdx => b.state[b.runList[i]] # "WAITING"
  <2>1. "locked" \in Places /\ b.phaseCount = bar.phaseCount
    BY <1>2 DEF Places
  <2>2. Good(b) /\ Turns(b, synced) /\ Limited(b) /\ Finish(b, synced) /\ WakesDone
    BY <1>1, <1>2, <1>3, <1>4
  <2>3. QED
    BY ZenonT(30), <1>3, <1>5, <2>1, <2>2, FinishStep
<1>7. QED
  BY SMTT(30), <1>2, <1>5, <1>6

(* sync keeps the invariant and ends a phase only when it is complete. *)
LEMMA SyncStep ==
    ASSUME BarrierInv, NEW tid \in Tids, sync(tid)
    PROVE  BarrierInv' /\ PhaseEndsComplete
<1> DEFINE b == syncing(bar, tid)
           S == synced \cup {tid}
<1>1. /\ Good(bar) /\ Turns(bar, synced) /\ Full(bar) /\ WakesDone /\ bar.state[tid] = "RUNNING"
      /\ bar.state \in [Tids -> States] /\ bar.futexWord \in [Tids -> {0, 1}]
      /\ bar.runningThreads \in Nat
  BY DEF BarrierInv, ObjectInv, sync, LockFree, Placed, Good, Barriers
<1>2. /\ Good(b) /\ Turns(b, S) /\ b.runningThreads = bar.runningThreads - 1
      /\ b.phaseCount = bar.phaseCount
      /\ b.futexWord = [bar.futexWord EXCEPT ![tid] = 1]
      /\ b.state = [bar.state EXCEPT ![tid] = "WAITING"]
  BY <1>1, SyncingStep
<1>3. Finish(b, S) /\ pc' = [pc EXCEPT ![tid] = "locked"]
  BY DEF sync
<1> HIDE DEF b
<1>4. Limited(b)
  BY <1>1, <1>2, ParallelAssumption DEF Full, Limited
<1>5. /\ \A t \in Tids : t # tid => b.state[t] = bar.state[t] /\ b.futexWord[t] = bar.futexWord[t]
      /\ b.state[tid] = "WAITING" /\ b.futexWord[tid] = 1
  BY SMTT(30), <1>1, <1>2
<1>6. /\ BarrierInv'
      /\ bar'.phaseCount # bar.phaseCount => b.runningThreads = 0 /\ In(b, "WAITING") \subseteq S
  <2>1. "locked" \in Places /\ b.phaseCount = bar.phaseCount
    BY <1>2 DEF Places
  <2> HIDE DEF S
  <2>2. Good(b) /\ Turns(b, S) /\ Limited(b) /\ Finish(b, S) /\ WakesDone
    BY <1>1, <1>2, <1>3, <1>4
  <2>3. QED
    BY ZenonT(30), <1>3, <1>5, <2>1, <2>2, FinishStep
<1>7. PhaseEndsComplete
  <2>1. In(bar, "WAITING") \subseteq In(b, "WAITING") /\ tid \notin In(bar, "WAITING")
    BY <1>1, <1>5 DEF In
  <2>2. bar.runningThreads = Cardinality(In(bar, "RUNNING"))
    BY <1>1 DEF Good
  <2>3. QED
    BY <1>1, <1>2, <1>6, <2>1, <2>2 DEF PhaseEndsComplete
<1>8. QED
  BY <1>6, <1>7

(* leave keeps the invariant and ends a phase only when it is complete. *)
LEMMA LeaveStep ==
    ASSUME BarrierInv, NEW tid \in Tids, leave(tid)
    PROVE  BarrierInv' /\ PhaseEndsComplete
<1> DEFINE b == leaving(bar, tid)
           S == synced \ {tid}
<1>1. /\ Good(bar) /\ Turns(bar, synced) /\ Full(bar) /\ WakesDone /\ bar.state[tid] = "RUNNING"
      /\ bar.state \in [Tids -> States] /\ bar.runningThreads \in Nat
  BY SMTT(30) DEF BarrierInv, ObjectInv, leave, LockFree, Placed, Good, Barriers
<1>2. /\ Good(b) /\ Turns(b, S) /\ b.runningThreads = bar.runningThreads - 1
      /\ b.phaseCount = bar.phaseCount /\ b.futexWord = bar.futexWord
      /\ b.state = [bar.state EXCEPT ![tid] = "LEFT"]
  BY <1>1, LeavingStep
<1>3. Finish(b, S) /\ pc' = [pc EXCEPT ![tid] = "out"]
  BY DEF leave
<1> HIDE DEF b
<1>4. Limited(b)
  BY <1>1, <1>2, ParallelAssumption DEF Full, Limited
<1>5. /\ \A t \in Tids : t # tid => b.state[t] = bar.state[t] /\ b.futexWord[t] = bar.futexWord[t]
      /\ b.state[tid] = "LEFT"
  BY SMTT(30), <1>1, <1>2
<1>6. /\ BarrierInv'
      /\ bar'.phaseCount # bar.phaseCount => b.runningThreads = 0 /\ In(b, "WAITING") \subseteq S
  <2>1. "out" \in Places /\ b.phaseCount = bar.phaseCount
    BY <1>2 DEF Places
  <2> HIDE DEF S
  <2>2. Good(b) /\ Turns(b, S) /\ Limited(b) /\ Finish(b, S) /\ WakesDone
    BY <1>1, <1>2, <1>3, <1>4
  <2>3. QED
    BY Zenon, <1>3, <1>5, <2>1, <2>2, FinishStep
<1>7. PhaseEndsComplete
  <2>1. In(bar, "WAITING") \subseteq In(b, "WAITING")
    BY <1>1, <1>5 DEF In
  <2>2. bar.runningThreads = Cardinality(In(bar, "RUNNING"))
    BY <1>1 DEF Good
  <2>3. QED
    BY <1>1, <1>2, <1>6, <2>1, <2>2 DEF PhaseEndsComplete
<1>8. QED
  BY <1>6, <1>7

(* The waker's store to the futex word keeps the invariant. *)
LEMMA WakeStoreStep ==
    ASSUME BarrierInv, NEW tid \in Tids, wakeStore(tid)
    PROVE  BarrierInv' /\ bar'.phaseCount = bar.phaseCount
<1>1. bar \in Barriers
  BY DEF BarrierInv, ObjectInv, Good
<1>2. /\ bar'.state = bar.state /\ bar'.lastIdx = bar.lastIdx /\ bar'.runList = bar.runList
      /\ bar'.runListSize = bar.runListSize /\ bar'.curThreadIdx = bar.curThreadIdx
      /\ bar'.runningThreads = bar.runningThreads /\ bar'.leftThreads = bar.leftThreads
      /\ bar'.phaseCount = bar.phaseCount
      /\ bar'.futexWord = [bar.futexWord EXCEPT ![tid] = 0]
      /\ synced' = synced /\ pc' = pc /\ wakes' = [wakes EXCEPT ![tid] = "call"]
  BY <1>1 DEF wakeStore, Barriers
<1>3. bar' \in Barriers
  BY SMTT(30), <1>1 DEF wakeStore, Barriers
<1>4. Good(bar') /\ Turns(bar', synced') /\ Full(bar') /\ NotStalled(bar')
  <2>1. Indices(bar') = Indices(bar) /\ OnList(bar') = OnList(bar) /\ \A s : In(bar', s) = In(bar, s)
    BY SMTT(30), <1>2 DEF Indices, OnList, In
  <2>2. Good(bar')
    BY SMTT(30), <1>2, <1>3, <2>1 DEF BarrierInv, ObjectInv, Good
  <2>3. Turns(bar', synced')
    BY <1>2, <2>1 DEF BarrierInv, ObjectInv, Turns
  <2>4. QED
    BY SMTT(30), <1>2, <2>2, <2>3 DEF BarrierInv, ObjectInv, Full, Limited, NotStalled
<1>5. \A t \in Tids : Placed(t)'
  <2> SUFFICES ASSUME NEW t \in Tids PROVE Placed(t)'
    OBVIOUS
  <2>1. Placed(t) /\ Placed(tid) /\ wakes \in [Tids -> {"none", "store", "call"}]
        /\ bar.futexWord \in [Tids -> {0, 1}] /\ wakes[tid] = "store"
    BY <1>1 DEF BarrierInv, Barriers, wakeStore
  <2>2. QED
    BY <1>2, <2>1 DEF Placed
<1>6. BarrierInv'
  BY <1>2, <1>4, <1>5, ObjectAfter DEF BarrierInv
<1>7. QED
  BY SMTT(30), <1>2, <1>6

(* The steps that leave the barrier object alone. *)
LEMMA WaitSteps ==
    ASSUME BarrierInv, NEW tid \in Tids, Wait(tid) \/ wakeCall(tid) \/ interrupted(tid)
    PROVE  BarrierInv' /\ bar' = bar
<1>1. /\ bar' = bar /\ synced' = synced
      /\ pc \in [Tids -> Places] /\ wakes \in [Tids -> {"none", "store", "call"}]
      /\ \A t \in Tids : Placed(t)
      /\ bar.futexWord \in [Tids -> {0, 1}] /\ bar.state \in [Tids -> States]
  BY SMTT(30) DEF BarrierInv, ObjectInv, Good, Barriers, Wait, unlock, checkState, futexWait, returned, wakeCall, interrupted
<1>2. pc' \in [Tids -> Places] /\ wakes' \in [Tids -> {"none", "store", "call"}]
  BY <1>1 DEF Wait, unlock, checkState, futexWait, returned, wakeCall, interrupted, Places, Waiting
<1>3. ASSUME NEW t \in Tids PROVE Placed(t)'
  <2>1. Placed(t) /\ Placed(tid)
    BY SMTT(30), <1>1
  <2>2. CASE wakeCall(tid)
    BY SMTT(30), <1>1, <2>1, <2>2 DEF Placed, wakeCall
  <2>3. CASE unlock(tid)
    <3>1. pc[tid] = "locked" /\ pc' = [pc EXCEPT ![tid] = "check"] /\ bar' = bar /\ wakes' = wakes
      BY Zenon, <2>3 DEF unlock
    <3>2. pc'[t] = IF t = tid THEN "check" ELSE pc[t]
      BY Zenon, <3>1, <1>1
    <3> QED
      BY SMTT(30), <2>1, <3>1, <3>2 DEF Placed
  <2>4. CASE checkState(tid)
    BY SMTT(30), <1>1, <2>1, <2>4 DEF Placed, checkState
  <2>5. CASE futexWait(tid)
    BY SMTT(30), <1>1, <2>1, <2>5 DEF Placed, futexWait
  <2>6. CASE returned(tid)
    BY SMTT(30), <1>1, <2>1, <2>6 DEF Placed, returned
  <2>7. CASE interrupted(tid)
    BY <1>1, <2>1, <2>7 DEF Placed, interrupted
  <2>8. QED
    BY SMTT(30), <2>2, <2>3, <2>4, <2>5, <2>6, <2>7 DEF Wait
<1>4. QED
  BY SMTT(30), <1>1, <1>2, <1>3, ObjectUnchanged DEF BarrierInv

(* Every step keeps the invariant. *)
LEMMA BarrierStep ==
    ASSUME BarrierInv, [Next]_vars
    PROVE  BarrierInv' /\ PhaseEndsComplete
<1>1. ASSUME NEW tid \in Tids, join(tid) PROVE BarrierInv' /\ PhaseEndsComplete
  BY <1>1, JoinStep DEF PhaseEndsComplete
<1>2. ASSUME NEW tid \in Tids, sync(tid) PROVE BarrierInv' /\ PhaseEndsComplete
  BY <1>2, SyncStep
<1>3. ASSUME NEW tid \in Tids, leave(tid) PROVE BarrierInv' /\ PhaseEndsComplete
  BY <1>3, LeaveStep
<1>4. ASSUME NEW tid \in Tids, Wake(tid) \/ Wait(tid) \/ interrupted(tid)
      PROVE  BarrierInv' /\ PhaseEndsComplete
  BY <1>4, WakeStoreStep, WaitSteps DEF Wake, PhaseEndsComplete
<1>5. ASSUME UNCHANGED vars PROVE BarrierInv' /\ PhaseEndsComplete
  BY <1>5, ObjectUnchanged DEF vars, BarrierInv, Placed, PhaseEndsComplete
<1>6. QED
  BY <1>1, <1>2, <1>3, <1>4, <1>5 DEF Next

(* List, counters, remembered indices, turns and waits of the barrier stay  *)
(* consistent, whoever joins, leaves and finishes phases in which order     *)
(* (join, leave, sync and tryWakeNext of barrier.h).                        *)
THEOREM BarrierInvariance == Spec => []BarrierInv
BY InitInv, BarrierStep, PTL DEF Spec

(* The run list and the three counters are exact (barrier.h:85-87). *)
THEOREM BarrierCountersExact == Spec => []CountersExact
<1>1. BarrierInv => CountersExact
  BY SMTT(30), WaitingCount DEF BarrierInv, ObjectInv, Good, CountersExact
<1>2. QED
  BY <1>1, BarrierInvariance, PTL

(* The assertion of join, that a core finds itself at the index it          *)
(* remembers (barrier.h:137), holds.                                        *)
THEOREM RejoinAssertionHolds == Spec => []RejoinFindsItself
<1>1. BarrierInv => RejoinFindsItself
  BY DEF BarrierInv, ObjectInv, Good, RejoinFindsItself, In
<1>2. QED
  BY <1>1, BarrierInvariance, PTL

(* checkRunList starts as many cores as it may, and never one more. *)
THEOREM ParallelismAlwaysKept == Spec => []ParallelismKept
<1>1. BarrierInv => ParallelismKept
  BY DEF BarrierInv, ObjectInv, Good, Full, Limited, ParallelismKept
<1>2. QED
  BY <1>1, BarrierInvariance, PTL

(* No core runs in a phase it has finished, also when cores leave, rejoin   *)
(* and take each other's places on the list.                                *)
THEOREM NoSecondTurn == Spec => []OneTurnPerPhase
<1>1. BarrierInv => OneTurnPerPhase
  BY DEF BarrierInv, ObjectInv, Turns, OneTurnPerPhase, In
<1>2. QED
  BY <1>1, BarrierInvariance, PTL

(* The assertions behind the futex waits (barrier.h:161 and 196) hold, and  *)
(* the wake-up race that barrier.h:266 looks for cannot happen.             *)
THEOREM WakeupsAlwaysMatch == Spec => []WakeupsMatch
<1>1. BarrierInv => WakeupsMatch
  BY DEF BarrierInv, ObjectInv, Placed, WakeupsMatch
<1>2. QED
  BY <1>1, BarrierInvariance, PTL

(* A phase ends when everybody has finished it, and only sync and leave end *)
(* one (checkEndPhase; the note at barrier.h:151).                          *)
THEOREM PhasesComplete == Spec => PhaseComplete
<1>1. BarrierInv /\ [Next]_vars =>
        [bar'.phaseCount # bar.phaseCount =>
           In(bar, "WAITING") \subseteq synced /\ Cardinality(In(bar, "RUNNING")) = 1]_vars
  BY BarrierStep DEF PhaseEndsComplete
<1>2. QED
  BY <1>1, BarrierInvariance, PTL DEF Spec, PhaseComplete
=============================================================================
