-------------------------- MODULE FutexMatchProofs --------------------------
(* Proofs about the matching of futex wake-ups (scheduler.cpp) for any      *)
(* number of threads and any sizes of calls: the two counters are exact.    *)
EXTENDS FutexMatch, FiniteSetTheorems, TLAPS

-----------------------------------------------------------------------------
(* Sums over the threads *)

Counts == [Threads -> Nat]

(* Min of two numbers. *)
LEMMA SmallerOf ==
    ASSUME NEW a \in Nat, NEW b \in Nat
    PROVE  Min({a, b}) = IF a <= b THEN a ELSE b
BY DEF Min

(* The units of a count: one pair per thread and number. *)
LEMMA UnitsElements ==
    ASSUME NEW f \in Counts, NEW t, NEW k
    PROVE  <<t, k>> \in Units(f) <=> t \in Threads /\ k \in 1 .. f[t]
BY DEF Units

(* Counts of finitely many threads have a total. *)
LEMMA UnitsFinite ==
    ASSUME NEW f \in Counts
    PROVE  IsFiniteSet(Units(f)) /\ Total(f) \in Nat
<1> DEFINE part == [t \in Threads |-> {t} \X (1 .. f[t])]
           Parts == {{t} \X (1 .. f[t]) : t \in Threads}
<1>1. part \in Surjection(Threads, Parts)
  BY DEF Surjection
<1>2. IsFiniteSet(Parts)
  BY <1>1, FS_Surjection, ThreadsAssumption
<1>3. ASSUME NEW t \in Threads
      PROVE  IsFiniteSet({t} \X (1 .. f[t]))
  <2>1. f[t] \in Int
    BY DEF Counts
  <2>2. IsFiniteSet({t})
    BY FS_Singleton
  <2>3. IsFiniteSet(1 .. f[t])
    BY <2>1, FS_Interval
  <2>4. QED
    BY <2>2, <2>3, FS_Product
<1>4. IsFiniteSet(UNION Parts)
  BY <1>2, <1>3, FS_UNION
<1>5. QED
  BY <1>4, FS_CardinalityType DEF Units, Total

(* The total of zeros is zero. *)
LEMMA TotalZero ==
    ASSUME NEW f \in Counts, \A t \in Threads : f[t] = 0
    PROVE  Total(f) = 0
<1>1. Units(f) = {}
  BY DEF Units
<1>2. QED
  BY <1>1, FS_EmptySet DEF Total

(* Totals grow with the counts. *)
LEMMA TotalMonotone ==
    ASSUME NEW f \in Counts, NEW g \in Counts, \A t \in Threads : f[t] <= g[t]
    PROVE  Total(f) <= Total(g)
<1>1. Units(f) \subseteq Units(g)
  BY DEF Units, Counts
<1>2. QED
  BY <1>1, UnitsFinite, FS_Subset DEF Total

(* The units of one thread. *)
LEMMA TotalSplit ==
    ASSUME NEW f \in Counts, NEW t \in Threads
    PROVE  LET rest == [f EXCEPT ![t] = 0]
           IN  rest \in Counts /\ Total(f) = Total(rest) + f[t]
<1> DEFINE rest == [f EXCEPT ![t] = 0]
           own == {t} \X (1 .. f[t])
<1>1. rest \in Counts /\ f[t] \in Nat
  BY DEF Counts
<1>2. Units(f) = Units(rest) \cup own
  BY DEF Units, Counts
<1>3. Units(rest) \cap own = {}
  BY DEF Units, Counts
<1>4. IsFiniteSet(own) /\ Cardinality(own) = f[t]
  <2>1. IsFiniteSet(1 .. f[t]) /\ Cardinality(1 .. f[t]) = f[t]
    BY SMTT(30), <1>1, FS_Interval
  <2>2. IsFiniteSet({t}) /\ Cardinality({t}) = 1
    BY FS_Singleton
  <2>3. IsFiniteSet(own) /\ Cardinality(own) = 1 * f[t]
    BY ZenonT(30), <2>1, <2>2, FS_Product
  <2>4. QED
    BY <2>3, <1>1
<1>5. IsFiniteSet(Units(rest)) /\ Cardinality(Units(rest)) \in Nat
  BY <1>1, UnitsFinite DEF Total
<1>6. Cardinality(Units(f)) = Cardinality(Units(rest)) + Cardinality(own) - Cardinality({})
  <2> HIDE DEF own, rest
  <2>1. Cardinality(Units(rest) \cup own)
          = Cardinality(Units(rest)) + Cardinality(own) - Cardinality(Units(rest) \cap own)
    BY <1>4, <1>5, FS_Union
  <2>2. QED
    BY <2>1, <1>2, <1>3
<1>7. QED
  BY <1>1, <1>4, <1>5, <1>6, FS_EmptySet DEF Total

(* When only one thread's share changes, the sum changes as much. *)
LEMMA TotalChange ==
    ASSUME NEW f \in Counts, NEW g \in Counts, NEW t \in Threads,
           \A u \in Threads : u # t => g[u] = f[u]
    PROVE  Total(g) = Total(f) - f[t] + g[t]
<1>1. [f EXCEPT ![t] = 0] = [g EXCEPT ![t] = 0]
  BY DEF Counts
<1>2. Total(f) = Total([f EXCEPT ![t] = 0]) + f[t]
  BY TotalSplit
<1>3. Total(g) = Total([g EXCEPT ![t] = 0]) + g[t]
  BY TotalSplit
<1>4. [f EXCEPT ![t] = 0] \in Counts /\ f[t] \in Nat /\ g[t] \in Nat
  BY DEF Counts
<1>5. Total([f EXCEPT ![t] = 0]) \in Nat
  BY <1>4, UnitsFinite
<1>6. QED
  BY <1>1, <1>2, <1>3, <1>4, <1>5

-----------------------------------------------------------------------------
(* The inductive invariant *)

Places == {"run", "asleep", "woken", "waking", "woke", "join", "poll", "match"}
Joins == [action : {"NONE", "WAKE", "WAIT"}, maxWakes : Nat, wokenUp : Nat]

(* Types, and what is known of a thread that has reported: it did, and a    *)
(* waker has woken no more threads than it asked for.                       *)
Shape ==
    /\ faults \in BOOLEAN
    /\ pc \in [Threads -> Places]
    /\ futexJoin \in [Threads -> Joins]
    /\ res \in [Threads -> Nat]
    /\ unmatchedFutexWakeups \in Nat /\ lost \in Nat
    /\ \A t \in Threads : pc[t] = "join" =>
         /\ futexJoin[t].action \in {"WAKE", "WAIT"}
         /\ futexJoin[t].action = "WAKE" => futexJoin[t].wokenUp <= futexJoin[t].maxWakes

Balanced ==
    /\ maxAllowedFutexWakeups = lost + Total(Allowed)
    /\ ~faults => Cardinality(Arriving) + unmatchedFutexWakeups = Total(Woken)

MatchInv == Shape /\ Balanced

(* The counts of the matching are well typed, and nobody has woken more *)
(* than it was allowed to.                                              *)
LEMMA CountsTyped ==
    ASSUME Shape
    PROVE  /\ Allowed \in Counts /\ Woken \in Counts
           /\ \A t \in Threads : Woken[t] <= Allowed[t]
           /\ Total(Allowed) \in Nat /\ Total(Woken) \in Nat /\ Total(Woken) <= Total(Allowed)
           /\ IsFiniteSet(Arriving) /\ Cardinality(Arriving) \in Nat
<1>1. ASSUME NEW t \in Threads
      PROVE  /\ futexJoin[t].maxWakes \in Nat /\ futexJoin[t].wokenUp \in Nat /\ res[t] \in Nat
             /\ Min({res[t], futexJoin[t].maxWakes}) \in Nat
             /\ Min({res[t], futexJoin[t].maxWakes}) <= futexJoin[t].maxWakes
  <2>1. futexJoin[t].maxWakes \in Nat /\ futexJoin[t].wokenUp \in Nat /\ res[t] \in Nat
    BY DEF Shape, Joins
  <2>2. QED
    BY <2>1, SmallerOf
<1>2. Allowed \in Counts
  BY <1>1 DEF Allowed, Counts
<1>3. Woken \in Counts
  BY <1>1 DEF Woken, Counts
<1>4. ASSUME NEW t \in Threads
      PROVE  Woken[t] <= Allowed[t]
  BY <1>1 DEF Woken, Allowed, HasJoin, Shape
<1>5. IsFiniteSet(Arriving) /\ Cardinality(Arriving) \in Nat
  BY ThreadsAssumption, FS_Subset, FS_CardinalityType DEF Arriving
<1>6. QED
  BY <1>2, <1>3, <1>4, <1>5, UnitsFinite, TotalMonotone

(* The same types after a step. *)
LEMMA CountsTypedNext ==
    ASSUME Shape'
    PROVE  Allowed' \in Counts /\ Woken' \in Counts
<1>1. ASSUME NEW t \in Threads
      PROVE  /\ futexJoin'[t].maxWakes \in Nat /\ futexJoin'[t].wokenUp \in Nat
             /\ Min({res'[t], futexJoin'[t].maxWakes}) \in Nat
  <2>1. futexJoin'[t].maxWakes \in Nat /\ futexJoin'[t].wokenUp \in Nat /\ res'[t] \in Nat
    BY DEF Shape, Joins
  <2>2. QED
    BY <2>1, SmallerOf
<1>2. QED
  BY <1>1 DEF Allowed, Woken, Counts

(* The invariant implies that the counters are exact. *)
LEMMA InvariantImpliesMatch == MatchInv => MatchExact
<1> SUFFICES ASSUME MatchInv PROVE MatchExact
  OBVIOUS
<1>1. CASE faults
  BY <1>1 DEF MatchInv, Balanced, MatchExact
<1>2. CASE ~faults
  BY <1>2, CountsTyped DEF MatchInv, Balanced, MatchExact, Shape
<1>3. QED
  BY <1>1, <1>2 DEF MatchInv, Shape

(* The counters start balanced. *)
LEMMA InvariantInit == Init => MatchInv
<1> SUFFICES ASSUME Init PROVE MatchInv
  OBVIOUS
<1>1. Shape
  BY DEF Init, Shape, NoJoin, Places, Joins
<1>2. \A t \in Threads : Allowed[t] = 0 /\ Woken[t] = 0
  BY DEF Init, Allowed, Woken, HasJoin
<1>3. Total(Allowed) = 0 /\ Total(Woken) = 0
  BY <1>1, <1>2, CountsTyped, TotalZero
<1>4. Arriving = {}
  BY DEF Init, Arriving, HasJoin
<1>5. Cardinality(Arriving) = 0
  BY <1>4, FS_EmptySet
<1>6. QED
  BY <1>1, <1>3, <1>5 DEF MatchInv, Balanced, Init

(* A step that changes the shares of one thread only. *)
LEMMA OneThreadChanges ==
    ASSUME MatchInv, Shape', NEW t \in Threads,
           \A u \in Threads \ {t} : Allowed'[u] = Allowed[u] /\ Woken'[u] = Woken[u]
    PROVE  /\ Total(Allowed') = Total(Allowed) - Allowed[t] + Allowed'[t]
           /\ Total(Woken') = Total(Woken) - Woken[t] + Woken'[t]
<1>1. Allowed \in Counts /\ Woken \in Counts /\ Allowed' \in Counts /\ Woken' \in Counts
  BY CountsTyped, CountsTypedNext DEF MatchInv
<1>2. QED
  BY <1>1, TotalChange

(* A step that changes no share and no counter. *)
LEMMA NothingChanges ==
    ASSUME MatchInv, Shape', UNCHANGED <<faults, counters, lost>>,
           \A u \in Threads : Allowed'[u] = Allowed[u],
           ~faults => Arriving' = Arriving /\ \A u \in Threads : Woken'[u] = Woken[u]
    PROVE  MatchInv'
<1>1. Allowed' = Allowed
  BY CountsTyped, CountsTypedNext DEF MatchInv, Counts
<1>2. ~faults => Woken' = Woken
  BY CountsTyped, CountsTypedNext DEF MatchInv, Counts
<1>3. QED
  BY <1>1, <1>2 DEF MatchInv, Balanced, counters

-----------------------------------------------------------------------------
(* One lemma per action *)

(* Going to sleep keeps the invariant. *)
LEMMA FutexWaitStep ==
    ASSUME MatchInv, NEW t \in Threads, futexWait(t)
    PROVE  MatchInv'
<1>1. Shape'
  BY DEF MatchInv, Shape, futexWait, Goto, Places, counters
<1>2. \A u \in Threads : Allowed'[u] = Allowed[u] /\ Woken'[u] = Woken[u]
  BY DEF MatchInv, Shape, futexWait, Goto, Allowed, Woken, HasJoin
<1>3. Arriving' = Arriving
  BY DEF MatchInv, Shape, futexWait, Goto, Arriving, HasJoin
<1>4. QED
  BY <1>1, <1>2, <1>3, NothingChanges DEF futexWait

(* A wait that fails keeps the invariant. *)
LEMMA WaitFailsStep ==
    ASSUME MatchInv, NEW t \in Threads, waitFails(t)
    PROVE  MatchInv'
<1>1. Shape'
  BY DEF MatchInv, Shape, waitFails, Goto, Places, counters
<1>2. \A u \in Threads : Allowed'[u] = Allowed[u] /\ Woken'[u] = Woken[u]
  BY DEF MatchInv, Shape, waitFails, Goto, Allowed, Woken, HasJoin
<1>3. ~faults => Arriving' = Arriving
  BY DEF MatchInv, Shape, waitFails, Goto, Arriving, HasJoin
<1>4. QED
  BY <1>1, <1>2, <1>3, NothingChanges DEF waitFails

(* notifyFutexWakeStart raises the allowance by what it may wake. *)
LEMMA WakeStartStep ==
    ASSUME MatchInv, NEW t \in Threads, NEW val \in WakeSizes, notifyFutexWakeStart(t, val)
    PROVE  MatchInv'
<1>1. val \in Nat
  BY SizesAssumption
<1>2. Shape'
  BY <1>1 DEF MatchInv, Shape, notifyFutexWakeStart, Goto, Places, Joins
<1>3. \A u \in Threads \ {t} : Allowed'[u] = Allowed[u] /\ Woken'[u] = Woken[u]
  BY DEF MatchInv, Shape, notifyFutexWakeStart, Goto, Allowed, Woken, HasJoin
<1>4. Allowed[t] = 0 /\ Allowed'[t] = val /\ Woken[t] = 0 /\ Woken'[t] = 0
  BY <1>1 DEF MatchInv, Shape, Joins, notifyFutexWakeStart, Goto, Allowed, Woken, HasJoin
<1>5. Arriving' = Arriving
  BY DEF MatchInv, Shape, notifyFutexWakeStart, Goto, Arriving, HasJoin
<1>6. Total(Allowed') = Total(Allowed) + val /\ Total(Woken') = Total(Woken)
  BY <1>1, <1>2, <1>3, <1>4, OneThreadChanges, CountsTyped DEF MatchInv
<1>7. QED
  BY <1>1, <1>2, <1>5, <1>6, CountsTyped DEF MatchInv, Balanced, Shape, notifyFutexWakeStart

(* What the kernel wakes moves from asleep to arriving, and is counted. *)
LEMMA KernelWakeStep ==
    ASSUME MatchInv, NEW t \in Threads, NEW W \in SUBSET Asleep, NEW requeued \in 0 .. 1,
           kernelWake(t, W, requeued)
    PROVE  MatchInv'
<1>1. W \subseteq Threads /\ IsFiniteSet(W) /\ Cardinality(W) \in Nat
  BY ThreadsAssumption, FS_Subset, FS_CardinalityType DEF Asleep
<1>2. Shape'
  BY <1>1 DEF MatchInv, Shape, kernelWake, Places, counters
<1>3. \A u \in Threads \ {t} : Allowed'[u] = Allowed[u] /\ Woken'[u] = Woken[u]
  BY DEF MatchInv, Shape, kernelWake, Asleep, Allowed, Woken, HasJoin
<1>4. Allowed'[t] = Allowed[t] /\ Allowed[t] \in Nat
  BY DEF MatchInv, Shape, Joins, kernelWake, Allowed
<1>5. Woken[t] = 0 /\ Woken'[t] = Cardinality(W)
  <2>1. Woken[t] = 0
    BY DEF kernelWake, Woken, HasJoin
  <2>2. Woken'[t] = Min({Cardinality(W) + requeued, futexJoin[t].maxWakes})
    BY DEF MatchInv, Shape, kernelWake, Woken
  <2>3. futexJoin[t].maxWakes \in Nat /\ Cardinality(W) + requeued \in Nat
    BY <1>1 DEF MatchInv, Shape, Joins
  <2>4. Min({Cardinality(W) + requeued, futexJoin[t].maxWakes}) = Cardinality(W)
    BY <1>1, <2>3, SmallerOf DEF kernelWake
  <2>5. QED
    BY <2>1, <2>2, <2>4
<1>6. Arriving' = Arriving \cup W /\ Arriving \cap W = {}
  BY DEF MatchInv, Shape, kernelWake, Asleep, Arriving, HasJoin
<1>7. Cardinality(Arriving') = Cardinality(Arriving) + Cardinality(W)
  <2>1. Cardinality(Arriving \cup W) = Cardinality(Arriving) + Cardinality(W) - Cardinality(Arriving \cap W)
    BY <1>1, CountsTyped, FS_Union DEF MatchInv
  <2>2. Cardinality(Arriving \cap W) = 0 /\ Cardinality(Arriving') = Cardinality(Arriving \cup W)
    BY <1>6, FS_EmptySet
  <2>3. Cardinality(Arriving) \in Nat
    BY CountsTyped DEF MatchInv
  <2>4. QED
    BY <1>1, <2>1, <2>2, <2>3
<1>8. Total(Allowed') = Total(Allowed) /\ Total(Woken') = Total(Woken) + Cardinality(W)
  BY <1>1, <1>2, <1>3, <1>4, <1>5, OneThreadChanges, CountsTyped DEF MatchInv
<1>9. QED
  BY <1>1, <1>2, <1>7, <1>8, CountsTyped DEF MatchInv, Balanced, Shape, kernelWake, counters

(* A call that fails keeps the invariant. *)
LEMMA KernelFailsStep ==
    ASSUME MatchInv, NEW t \in Threads, kernelFails(t)
    PROVE  MatchInv'
<1>1. futexJoin[t].maxWakes \in Nat
  BY DEF MatchInv, Shape, Joins
<1>2. Shape'
  BY <1>1 DEF MatchInv, Shape, kernelFails, Goto, Places, Joins, NoJoin, counters
<1>3. \A u \in Threads \ {t} : Allowed'[u] = Allowed[u] /\ Woken'[u] = Woken[u]
  BY DEF MatchInv, Shape, kernelFails, Goto, Allowed, Woken, HasJoin
<1>4. Allowed[t] = futexJoin[t].maxWakes /\ Allowed'[t] = 0 /\ Woken[t] = 0 /\ Woken'[t] = 0
  BY DEF MatchInv, Shape, kernelFails, Goto, Allowed, Woken, HasJoin
<1>5. Arriving' = Arriving
  BY DEF MatchInv, Shape, kernelFails, Goto, Arriving, HasJoin
<1>6. Total(Allowed') = Total(Allowed) - futexJoin[t].maxWakes /\ Total(Woken') = Total(Woken)
  BY <1>1, <1>2, <1>3, <1>4, OneThreadChanges, CountsTyped DEF MatchInv
<1>7. QED
  BY <1>1, <1>2, <1>5, <1>6, CountsTyped DEF MatchInv, Balanced, Shape, kernelFails, counters

(* notifyFutexWakeEnd lowers the allowance to what was woken. *)
LEMMA WakeEndStep ==
    ASSUME MatchInv, NEW t \in Threads, notifyFutexWakeEnd(t)
    PROVE  MatchInv'
<1> DEFINE n == Min({res[t], futexJoin[t].maxWakes})
<1>1. n \in Nat /\ n <= futexJoin[t].maxWakes
  <2>1. futexJoin[t].maxWakes \in Nat /\ res[t] \in Nat
    BY DEF MatchInv, Shape, Joins
  <2>2. QED
    BY <2>1, SmallerOf
<1>2. futexJoin' = [futexJoin EXCEPT ![t].action = "WAKE", ![t].wokenUp = n]
  BY DEF notifyFutexWakeEnd
<1> HIDE DEF n
<1>3. Shape'
  <2>1. futexJoin'[t] = [futexJoin[t] EXCEPT !.action = "WAKE", !.wokenUp = n]
    BY <1>2 DEF MatchInv, Shape
  <2>2. futexJoin'[t] \in Joins /\ futexJoin'[t].maxWakes = futexJoin[t].maxWakes
        /\ futexJoin'[t].action = "WAKE" /\ futexJoin'[t].wokenUp = n
    BY <1>1, <2>1 DEF MatchInv, Shape, Joins
  <2>3. futexJoin' \in [Threads -> Joins] /\ \A u \in Threads \ {t} : futexJoin'[u] = futexJoin[u]
    BY <1>2, <2>2 DEF MatchInv, Shape
  <2>4. QED
    BY <1>1, <2>2, <2>3 DEF MatchInv, Shape, notifyFutexWakeEnd, Goto, Places, counters
<1>4. \A u \in Threads \ {t} : Allowed'[u] = Allowed[u] /\ Woken'[u] = Woken[u]
  BY <1>2 DEF MatchInv, Shape, notifyFutexWakeEnd, Goto, Allowed, Woken, HasJoin
<1>5. Allowed'[t] = Allowed[t] /\ Woken'[t] = Woken[t]
  BY <1>2 DEF MatchInv, Shape, Joins, notifyFutexWakeEnd, Goto, Allowed, Woken, HasJoin, n
<1>6. Arriving' = Arriving
  BY <1>2 DEF MatchInv, Shape, Joins, notifyFutexWakeEnd, Goto, Arriving, HasJoin
<1>7. QED
  BY <1>3, <1>4, <1>5, <1>6, NothingChanges DEF notifyFutexWakeEnd

(* notifyFutexWaitWoken keeps the invariant. *)
LEMMA WaitWokenStep ==
    ASSUME MatchInv, NEW t \in Threads, notifyFutexWaitWoken(t)
    PROVE  MatchInv'
<1>1. Shape'
  BY DEF MatchInv, Shape, notifyFutexWaitWoken, Goto, Places, Joins, counters
<1>2. \A u \in Threads : Allowed'[u] = Allowed[u] /\ Woken'[u] = Woken[u]
  BY DEF MatchInv, Shape, notifyFutexWaitWoken, Goto, Allowed, Woken, HasJoin
<1>3. Arriving' = Arriving
  BY DEF MatchInv, Shape, notifyFutexWaitWoken, Goto, Arriving, HasJoin
<1>4. QED
  BY <1>1, <1>2, <1>3, NothingChanges DEF notifyFutexWaitWoken

(* A thread of the simulation that joins is always counted: some waker      *)
(* allowed it.                                                              *)
LEMMA WaitJoinStep ==
    ASSUME MatchInv, NEW t \in Threads, futexWaitJoin(t)
    PROVE  MatchInv'
<1>1. maxAllowedFutexWakeups \in Nat
  BY CountsTyped DEF MatchInv, Balanced, Shape
<1>2. Shape'
  BY <1>1 DEF MatchInv, Shape, futexWaitJoin, Joined, NoJoin, Goto, Places, Joins
<1>3. Allowed' = Allowed /\ Woken' = Woken
  <2>1. \A u \in Threads : Allowed'[u] = Allowed[u] /\ Woken'[u] = Woken[u]
    BY DEF MatchInv, Shape, futexWaitJoin, Joined, Goto, Allowed, Woken, HasJoin
  <2>2. QED
    BY <1>2, <2>1, CountsTyped, CountsTypedNext DEF MatchInv, Counts
<1>4. CASE faults
  BY <1>2, <1>3, <1>4 DEF MatchInv, Balanced, futexWaitJoin
<1>5. CASE ~faults
  <2>1. t \in Arriving /\ Arriving' = Arriving \ {t}
    BY DEF MatchInv, Shape, futexWaitJoin, Joined, Goto, Arriving, HasJoin
  <2>2. Cardinality(Arriving') = Cardinality(Arriving) - 1 /\ Cardinality(Arriving) \in Nat
    BY <2>1, CountsTyped, FS_RemoveElement DEF MatchInv
  <2>3. Cardinality(Arriving) # 0
    BY <2>1, CountsTyped, FS_EmptySet DEF MatchInv
  <2>4. unmatchedFutexWakeups < maxAllowedFutexWakeups
    BY <1>1, <1>5, <2>2, <2>3, CountsTyped DEF MatchInv, Balanced, Shape
  <2>5. unmatchedFutexWakeups' = unmatchedFutexWakeups + 1
    BY <1>1, <2>4 DEF futexWaitJoin, MatchInv, Shape
  <2>6. QED
    BY <1>2, <1>3, <2>2, <2>5, CountsTyped DEF MatchInv, Balanced, Shape, futexWaitJoin
<1>6. QED
  BY <1>4, <1>5 DEF MatchInv, Shape

(* futexWakeJoin keeps the invariant. *)
LEMMA WakeJoinStep ==
    ASSUME MatchInv, NEW t \in Threads, futexWakeJoin(t)
    PROVE  MatchInv'
<1>1. futexJoin[t].maxWakes \in Nat /\ futexJoin[t].wokenUp \in Nat
  BY DEF MatchInv, Shape, Joins
<1>2. Shape'
  BY DEF MatchInv, Shape, futexWakeJoin, Goto, Places
<1>3. \A u \in Threads \ {t} : Allowed'[u] = Allowed[u] /\ Woken'[u] = Woken[u]
  BY DEF MatchInv, Shape, futexWakeJoin, Goto, Allowed, Woken, HasJoin
<1>4. /\ Allowed[t] = futexJoin[t].maxWakes /\ Allowed'[t] = futexJoin[t].wokenUp
      /\ Woken[t] = futexJoin[t].wokenUp /\ Woken'[t] = futexJoin[t].wokenUp
  BY DEF MatchInv, Shape, futexWakeJoin, Goto, Allowed, Woken, HasJoin
<1>5. Arriving' = Arriving
  BY DEF MatchInv, Shape, futexWakeJoin, Goto, Arriving, HasJoin
<1>6. /\ Total(Allowed') = Total(Allowed) - (futexJoin[t].maxWakes - futexJoin[t].wokenUp)
      /\ Total(Woken') = Total(Woken)
  BY <1>1, <1>2, <1>3, <1>4, OneThreadChanges, CountsTyped DEF MatchInv
<1>7. QED
  BY <1>1, <1>2, <1>5, <1>6, CountsTyped DEF MatchInv, Balanced, Shape, futexWakeJoin

(* A turn of the waker's wait keeps the invariant. *)
LEMMA PollStep ==
    ASSUME MatchInv, NEW t \in Threads, poll(t)
    PROVE  MatchInv'
<1>1. Shape'
  BY DEF MatchInv, Shape, poll, Goto, Places, counters
<1>2. \A u \in Threads : Allowed'[u] = Allowed[u] /\ Woken'[u] = Woken[u]
  BY DEF MatchInv, Shape, poll, Goto, Allowed, Woken, HasJoin
<1>3. Arriving' = Arriving
  BY DEF MatchInv, Shape, poll, Goto, Arriving, HasJoin
<1>4. QED
  BY <1>1, <1>2, <1>3, NothingChanges DEF poll

(* A waker that gives up keeps the invariant. *)
LEMMA PollTimeoutStep ==
    ASSUME MatchInv, NEW t \in Threads, pollTimeout(t)
    PROVE  MatchInv'
<1>1. futexJoin[t].wokenUp \in Nat
  BY DEF MatchInv, Shape, Joins
<1>2. Shape'
  BY DEF MatchInv, Shape, pollTimeout, Joined, NoJoin, Goto, Places, Joins
<1>3. \A u \in Threads \ {t} : Allowed'[u] = Allowed[u] /\ Woken'[u] = Woken[u]
  BY DEF MatchInv, Shape, pollTimeout, Joined, Goto, Allowed, Woken, HasJoin
<1>4. Allowed[t] = futexJoin[t].wokenUp /\ Allowed'[t] = 0
  BY DEF MatchInv, Shape, pollTimeout, Joined, Goto, Allowed, HasJoin
<1>5. Total(Allowed') = Total(Allowed) - futexJoin[t].wokenUp
  BY <1>1, <1>2, <1>3, <1>4, OneThreadChanges, CountsTyped DEF MatchInv
<1>6. QED
  BY <1>1, <1>2, <1>5, CountsTyped DEF MatchInv, Balanced, Shape, pollTimeout

(* A match takes a woken thread off both counters. *)
LEMMA MatchStep ==
    ASSUME MatchInv, NEW t \in Threads, match(t)
    PROVE  MatchInv'
<1>1. futexJoin[t].wokenUp \in Nat
  BY DEF MatchInv, Shape, Joins
<1>2. CASE futexJoin[t].wokenUp <= unmatchedFutexWakeups
  <2>1. Shape'
    BY <1>1, <1>2 DEF MatchInv, Shape, match, Joined, NoJoin, Goto, Places, Joins
  <2>2. \A u \in Threads \ {t} : Allowed'[u] = Allowed[u] /\ Woken'[u] = Woken[u]
    BY <1>2 DEF MatchInv, Shape, match, Joined, Goto, Allowed, Woken, HasJoin
  <2>3. /\ Allowed[t] = futexJoin[t].wokenUp /\ Allowed'[t] = 0
        /\ Woken[t] = futexJoin[t].wokenUp /\ Woken'[t] = 0
    BY <1>2 DEF MatchInv, Shape, match, Joined, Goto, Allowed, Woken, HasJoin
  <2>4. Arriving' = Arriving
    BY <1>2 DEF MatchInv, Shape, match, Joined, Goto, Arriving, HasJoin
  <2>5. /\ Total(Allowed') = Total(Allowed) - futexJoin[t].wokenUp
        /\ Total(Woken') = Total(Woken) - futexJoin[t].wokenUp
    BY SMTT(30), <1>1, <2>1, <2>2, <2>3, OneThreadChanges, CountsTyped DEF MatchInv
  <2>6. QED
    BY SMTT(30), <1>1, <1>2, <2>1, <2>4, <2>5, CountsTyped DEF MatchInv, Balanced, Shape, match
<1>3. CASE ~(futexJoin[t].wokenUp <= unmatchedFutexWakeups)
  <2>1. Shape'
    BY <1>3 DEF MatchInv, Shape, match, Goto, Places, counters
  <2>2. \A u \in Threads : Allowed'[u] = Allowed[u] /\ Woken'[u] = Woken[u]
    BY <1>3 DEF MatchInv, Shape, match, Goto, Allowed, Woken, HasJoin
  <2>3. Arriving' = Arriving
    BY <1>3 DEF MatchInv, Shape, match, Goto, Arriving, HasJoin
  <2>4. QED
    BY <1>3, <2>1, <2>2, <2>3, NothingChanges DEF match
<1>4. QED
  BY <1>2, <1>3

(* Every step keeps the invariant. *)
LEMMA InvariantStep == MatchInv /\ [Next]_vars => MatchInv'
<1> SUFFICES ASSUME MatchInv, [Next]_vars PROVE MatchInv'
  OBVIOUS
<1>1. CASE UNCHANGED vars
  <2>1. UNCHANGED <<faults, pc, futexJoin, res, counters, lost>>
    BY <1>1 DEF vars, counters
  <2>2. Shape'
    BY <2>1 DEF MatchInv, Shape, counters
  <2>3. Arriving' = Arriving /\ \A u \in Threads : Allowed'[u] = Allowed[u] /\ Woken'[u] = Woken[u]
    BY <2>1 DEF Allowed, Woken, Arriving, HasJoin
  <2>4. QED
    BY <2>1, <2>2, <2>3, NothingChanges
<1>2. ASSUME NEW t \in Threads, Step(t)
      PROVE  MatchInv'
  BY <1>2, KernelWakeStep, KernelFailsStep, WakeEndStep, WaitWokenStep, WaitJoinStep, WakeJoinStep,
     PollStep, PollTimeoutStep, MatchStep DEF Step
<1>3. ASSUME NEW t \in Threads, futexWait(t) \/ waitFails(t)
      PROVE  MatchInv'
  BY <1>3, FutexWaitStep, WaitFailsStep
<1>4. ASSUME NEW t \in Threads, NEW val \in WakeSizes, notifyFutexWakeStart(t, val)
      PROVE  MatchInv'
  BY <1>4, WakeStartStep
<1>5. QED
  BY <1>1, <1>2, <1>3, <1>4 DEF Next

(* The two counters of the futex matching stay balanced. *)
LEMMA InvariantHolds == Spec => []MatchInv
BY InvariantInit, InvariantStep, PTL DEF Spec

-----------------------------------------------------------------------------
(* The counters of the scheduler are exact for any number of threads and    *)
(* any sizes of calls: the allowance never drifts, and without faults every *)
(* woken thread is waited for by exactly one waker.                         *)
THEOREM MatchingIsExact == Spec => []MatchExact
BY InvariantHolds, InvariantImpliesMatch, PTL

(* The three assertions at the beginning of futexWakeJoin                   *)
(* (scheduler.cpp:342-346), the last one for runs without faults.           *)
WakeJoinAsserts ==
    \A t \in Threads : HasJoin(t, "WAKE") =>
        LET maxWakes == futexJoin[t].maxWakes
            wokenUp == futexJoin[t].wokenUp
        IN  /\ maxWakes <= maxAllowedFutexWakeups
            /\ wokenUp <= maxWakes
            /\ ~faults => unmatchedFutexWakeups <= maxAllowedFutexWakeups - (maxWakes - wokenUp)

(* A waker that joins passes the first two assertions, and without faults   *)
(* the third, however many other calls are in flight and whatever they have *)
(* woken so far.                                                            *)
THEOREM WakeJoinAssertionsHold == Spec => []WakeJoinAsserts
<1>1. MatchInv => WakeJoinAsserts
  <2> SUFFICES ASSUME MatchInv, NEW t \in Threads, HasJoin(t, "WAKE")
               PROVE  /\ futexJoin[t].maxWakes <= maxAllowedFutexWakeups
                      /\ futexJoin[t].wokenUp <= futexJoin[t].maxWakes
                      /\ ~faults => unmatchedFutexWakeups
                                    <= maxAllowedFutexWakeups - (futexJoin[t].maxWakes - futexJoin[t].wokenUp)
    BY DEF WakeJoinAsserts
  <2> DEFINE f == [Allowed EXCEPT ![t] = 0]
             g == [Woken EXCEPT ![t] = 0]
  <2>1. /\ Allowed[t] = futexJoin[t].maxWakes /\ Woken[t] = futexJoin[t].wokenUp
        /\ futexJoin[t].maxWakes \in Nat /\ futexJoin[t].wokenUp \in Nat
        /\ futexJoin[t].wokenUp <= futexJoin[t].maxWakes
    BY DEF MatchInv, Shape, Joins, Allowed, Woken, HasJoin
  <2>2. f \in Counts /\ g \in Counts /\ \A u \in Threads : g[u] <= f[u]
    BY CountsTyped DEF MatchInv, Counts
  <2>3. Total(Allowed) = Total(f) + Allowed[t] /\ Total(Woken) = Total(g) + Woken[t]
    BY CountsTyped, TotalSplit DEF MatchInv
  <2>4. Total(f) \in Nat /\ Total(g) \in Nat /\ Total(g) <= Total(f)
    BY <2>2, UnitsFinite, TotalMonotone
  <2>5. QED
    BY <2>1, <2>3, <2>4, CountsTyped DEF MatchInv, Balanced, Shape
<1>2. QED
  BY <1>1, InvariantHolds, PTL
=============================================================================
