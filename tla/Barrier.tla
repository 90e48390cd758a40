------------------------------ MODULE Barrier ------------------------------
(* The phase barrier (src/src/barrier.h).  Cores join, leave and sync under *)
(* the scheduler's lock.  At most parallelThreads of them run at a time,     *)
(* and a phase ends when every core on the run list has had its turn.       *)
(*                                                                          *)
(* The barrier object is the record bar.  Its operations are operators on   *)
(* that record, so that the scheduler's module can use them too.  What a    *)
(* core does outside the lock, the futex wait, is modelled step by step.    *)
EXTENDS Integers, FiniteSets

CONSTANTS Tids,             \* the cores, which are the barrier's threads
          parallelThreads,  \* how many may run at the same time
          CleanupPeriod     \* phases between two cleanups (32 in the code)

ASSUME TidsAssumption == IsFiniteSet(Tids)
ASSUME ParallelAssumption == parallelThreads \in Nat \ {0}
ASSUME CleanupAssumption == CleanupPeriod \in Nat \ {0, 1}

VARIABLES bar,     \* the barrier object
          pc,      \* where each core is in join or sync
          wakes,   \* wake-ups the lock holder still has to perform
          synced   \* ghost: the cores that have finished the current phase

vars == <<bar, pc, wakes, synced>>

States == {"OFFLINE", "WAITING", "RUNNING", "LEFT"}

Waiting == {"check", "futex", "blocked", "returned"}

emptyBarrier ==
    [state |-> [t \in Tids |-> "OFFLINE"], futexWord |-> [t \in Tids |-> 0],
     lastIdx |-> [t \in Tids |-> 0], runList |-> [i \in {} |-> i],
     runListSize |-> 0, curThreadIdx |-> 0, runningThreads |-> 0,
     leftThreads |-> 0, phaseCount |-> 0]

-----------------------------------------------------------------------------
(* Waking the cores whose turn it is *)

Indices(b) == 0 .. b.runListSize - 1

OnList(b) == {b.runList[i] : i \in Indices(b)}

(* The waiting cores at the positions from lo up to but not including hi. *)
WaitingIn(b, lo, hi) ==
    {t \in Tids : b.state[t] = "WAITING" /\ \E i \in lo .. hi - 1 : b.runList[i] = t}

(* Where the wake-up loop stops: at the first position at which enough      *)
(* cores run, or at the end of the list.                                    *)
stopIdx(b) ==
    CHOOSE n \in b.curThreadIdx .. b.runListSize :
        /\ n = b.runListSize \/ b.runningThreads + Cardinality(WaitingIn(b, b.curThreadIdx, n)) >= parallelThreads
        /\ \A k \in b.curThreadIdx .. n - 1 :
              b.runningThreads + Cardinality(WaitingIn(b, b.curThreadIdx, k)) < parallelThreads

positionOf(b, t) == CHOOSE i \in Indices(b) : b.runList[i] = t

checkRunList(b) ==
    LET stop == stopIdx(b)
        woken == WaitingIn(b, b.curThreadIdx, stop)
    IN  [b EXCEPT !.state = [t \in Tids |-> IF t \in woken THEN "RUNNING" ELSE @[t]],
                  !.lastIdx = [t \in Tids |-> IF t \in woken THEN positionOf(b, t) ELSE @[t]],
                  !.curThreadIdx = stop,
                  !.runningThreads = @ + Cardinality(woken)]

-----------------------------------------------------------------------------
(* The end of a phase *)

(* The run lists that hold the cores of S, each once. *)
Orders(S, n) ==
    {f \in [0 .. n - 1 -> S] : /\ \A i, j \in 0 .. n - 1 : f[i] = f[j] => i = j
                               /\ \A t \in S : \E i \in 0 .. n - 1 : f[i] = t}

Remaining(b) == {t \in OnList(b) : b.state[t] # "LEFT"}

(* Cores that left go offline.  Cores from the end of the list take their   *)
(* places; in which order they do is left open.                             *)
cleanup(b) ==
    LET size == b.runListSize - b.leftThreads
    IN  {[b EXCEPT !.state = [t \in Tids |-> IF @[t] = "LEFT" THEN "OFFLINE" ELSE @[t]],
                   !.lastIdx = [t \in Tids |-> IF \E i \in 0 .. size - 1 : f[i] = t /\ b.runList[i] # t
                                                THEN CHOOSE i \in 0 .. size - 1 : f[i] = t ELSE @[t]],
                   !.runList = f, !.runListSize = size, !.leftThreads = 0] :
           f \in {g \in Orders(Remaining(b), size) :
                    \A i \in 0 .. size - 1 : b.runList[i] \in Remaining(b) => g[i] = b.runList[i]}}

(* Mutant: the shuffle does not write the indices. *)
shuffle_StaleIndex(b) == {[b EXCEPT !.runList = f] : f \in Orders(OnList(b), b.runListSize)}

(* The Fisher-Yates shuffle reaches every order.  It writes the index of    *)
(* every core except one that is first before and after it.                 *)
shuffle(b) ==
    {[b EXCEPT !.runList = f,
               !.lastIdx = [t \in Tids |-> IF \E i \in Indices(b) : f[i] = t /\ (i > 0 \/ b.runList[0] # t)
                                            THEN CHOOSE i \in Indices(b) : f[i] = t ELSE @[t]]] :
       f \in Orders(OnList(b), b.runListSize)}

EndOfPhase(b) == b.curThreadIdx = b.runListSize /\ b.runningThreads = 0 /\ b.leftThreads # b.runListSize

checkEndPhase(b) ==
    LET rewound == [b EXCEPT !.curThreadIdx = 0, !.phaseCount = (@ + 1) % CleanupPeriod]
        cleaned == IF b.phaseCount = 0 THEN cleanup(rewound) ELSE {rewound}
    IN  IF ~EndOfPhase(b) THEN {b}
        ELSE UNION {IF parallelThreads < c.runListSize THEN shuffle(c) ELSE {c} : c \in cleaned}

tryWakeNext(b) == {checkRunList(c) : c \in checkEndPhase(checkRunList(b))}

-----------------------------------------------------------------------------
(* The critical sections of join, leave and sync, up to tryWakeNext *)

(* Mutant: the position is given back without swapping the cores. *)
reschedule_NoSwap(b, tid) ==
    IF b.curThreadIdx <= b.lastIdx[tid] THEN b
    ELSE [b EXCEPT !.curThreadIdx = @ - 1]

(* Mutant: a core that has run in this phase is not scheduled again in it. *)
reschedule_NextPhase(b, tid) == b

(* A core that rejoins in a phase in which it has run takes another turn:   *)
(* it swaps places with the last core that was considered.                  *)
reschedule(b, tid) ==
    LET idx == b.lastIdx[tid]
        cur == b.curThreadIdx - 1
        otherTid == b.runList[cur]
    IN  IF b.curThreadIdx <= idx THEN b
        ELSE [b EXCEPT !.curThreadIdx = cur,
                       !.runList = [[@ EXCEPT ![idx] = otherTid] EXCEPT ![cur] = tid],
                       !.lastIdx = [[@ EXCEPT ![otherTid] = idx] EXCEPT ![tid] = cur]]

enlist(b, tid) ==
    [b EXCEPT !.runList = [i \in 0 .. b.runListSize |-> IF i = b.runListSize THEN tid ELSE @[i]],
              !.runListSize = @ + 1]

(* Mutant: the futex word is not armed before the core waits. *)
joining_Unarmed(b, tid) ==
    LET listed == IF b.state[tid] = "OFFLINE" THEN enlist(b, tid)
                  ELSE reschedule([b EXCEPT !.leftThreads = @ - 1], tid)
    IN  [listed EXCEPT !.state[tid] = "WAITING"]

joining(b, tid) ==
    LET listed == IF b.state[tid] = "OFFLINE" THEN enlist(b, tid)
                  ELSE reschedule([b EXCEPT !.leftThreads = @ - 1], tid)
    IN  [listed EXCEPT !.state[tid] = "WAITING", !.futexWord[tid] = 1]

leaving(b, tid) ==
    [b EXCEPT !.state[tid] = "LEFT", !.leftThreads = @ + 1,
              !.runningThreads = IF b.state[tid] = "RUNNING" THEN @ - 1 ELSE @]

syncing(b, tid) ==
    [b EXCEPT !.state[tid] = "WAITING", !.futexWord[tid] = 1, !.runningThreads = @ - 1]

-----------------------------------------------------------------------------
(* The barrier's callers *)

Init == /\ bar = emptyBarrier
        /\ pc = [t \in Tids |-> "out"]
        /\ wakes = [t \in Tids |-> "none"]
        /\ synced = {}

(* The lock is held until the last wake-up of the critical section is done. *)
WakesDone == \A t \in Tids : wakes[t] = "none"

LockFree == WakesDone /\ \A t \in Tids : pc[t] # "locked"

(* The critical section ends with tryWakeNext. *)
Finish(b, done) ==
    \E c \in tryWakeNext(b) :
        /\ bar' = c
        /\ wakes' = [t \in Tids |-> IF b.state[t] = "WAITING" /\ c.state[t] = "RUNNING"
                                     THEN "store" ELSE "none"]
        /\ synced' = IF c.phaseCount # b.phaseCount THEN {} ELSE done

join(tid) ==
    /\ LockFree
    /\ pc[tid] = "out"
    /\ bar.state[tid] \in {"LEFT", "OFFLINE"}
    /\ Finish(joining(bar, tid), synced)
    /\ pc' = [pc EXCEPT ![tid] = "locked"]

sync(tid) ==
    /\ LockFree
    /\ pc[tid] = "running"
    /\ Finish(syncing(bar, tid), synced \cup {tid})
    /\ pc' = [pc EXCEPT ![tid] = "locked"]

(* A core leaves while it runs.  The clean-up after a killed process, which *)
(* may take out a core that waits, is not modelled.                         *)
leave(tid) ==
    /\ LockFree
    /\ pc[tid] = "running"
    /\ Finish(leaving(bar, tid), synced \ {tid})
    /\ pc' = [pc EXCEPT ![tid] = "out"]

(* A wake-up sets the state, then the futex word, then calls the kernel.    *)
(* The states are set with the critical section, the rest is done here.     *)
wakeStore(tid) ==
    /\ wakes[tid] = "store"
    /\ bar' = [bar EXCEPT !.futexWord[tid] = 0]
    /\ wakes' = [wakes EXCEPT ![tid] = "call"]
    /\ UNCHANGED <<pc, synced>>

wakeCall(tid) ==
    /\ wakes[tid] = "call"
    /\ wakes' = [wakes EXCEPT ![tid] = "none"]
    /\ pc' = [pc EXCEPT ![tid] = IF @ = "blocked" THEN "returned" ELSE @]
    /\ UNCHANGED <<bar, synced>>

unlock(tid) ==
    /\ pc[tid] = "locked"
    /\ WakesDone
    /\ pc' = [pc EXCEPT ![tid] = "check"]
    /\ UNCHANGED <<bar, wakes, synced>>

checkState(tid) ==
    /\ pc[tid] = "check"
    /\ pc' = [pc EXCEPT ![tid] = IF bar.state[tid] = "WAITING" THEN "futex" ELSE "running"]
    /\ UNCHANGED <<bar, wakes, synced>>

(* Mutant: the kernel puts the core to sleep without looking at the word. *)
futexWait_NoRecheck(tid) ==
    /\ pc[tid] = "futex"
    /\ pc' = [pc EXCEPT ![tid] = "blocked"]
    /\ UNCHANGED <<bar, wakes, synced>>

futexWait(tid) ==
    /\ pc[tid] = "futex"
    /\ pc' = [pc EXCEPT ![tid] = IF bar.futexWord[tid] = 1 THEN "blocked" ELSE "returned"]
    /\ UNCHANGED <<bar, wakes, synced>>

(* A signal interrupts the wait; the loop looks at the word again. *)
interrupted(tid) ==
    /\ pc[tid] = "blocked"
    /\ pc' = [pc EXCEPT ![tid] = IF bar.futexWord[tid] = 1 THEN "futex" ELSE "returned"]
    /\ UNCHANGED <<bar, wakes, synced>>

returned(tid) ==
    /\ pc[tid] = "returned"
    /\ pc' = [pc EXCEPT ![tid] = "running"]
    /\ UNCHANGED <<bar, wakes, synced>>

Wake(tid) == wakeStore(tid) \/ wakeCall(tid)

Wait(tid) == unlock(tid) \/ checkState(tid) \/ futexWait(tid) \/ returned(tid)

Next == \E tid \in Tids : \/ join(tid) \/ sync(tid) \/ leave(tid)
                          \/ Wake(tid) \/ Wait(tid) \/ interrupted(tid)

Spec == Init /\ [][Next]_vars

(* Every core makes progress on its host thread.  Running cores execute     *)
(* instructions, which take them to the end of the phase however often they *)
(* leave for system calls, so sync gets strong fairness.  Nobody is obliged *)
(* to join or to leave.                                                     *)
FairSpec == Spec /\ \A tid \in Tids : WF_vars(Wake(tid)) /\ WF_vars(Wait(tid)) /\ SF_vars(sync(tid))

-----------------------------------------------------------------------------
In(b, s) == {t \in Tids : b.state[t] = s}

(* The barrier object, the waits and the pending wake-ups have their types; *)
(* the index of the next core never passes the end of the run list.         *)
TypeOK ==
    /\ bar.state \in [Tids -> States]
    /\ bar.futexWord \in [Tids -> {0, 1}]
    /\ bar.lastIdx \in [Tids -> Nat]
    /\ bar.runListSize \in 0 .. Cardinality(Tids)
    /\ bar.runList \in [Indices(bar) -> Tids]
    /\ bar.curThreadIdx \in 0 .. bar.runListSize
    /\ bar.runningThreads \in Nat
    /\ bar.leftThreads \in 0 .. Cardinality(Tids)
    /\ bar.phaseCount \in 0 .. CleanupPeriod - 1
    /\ pc \in [Tids -> {"out", "locked", "running"} \cup Waiting]
    /\ wakes \in [Tids -> {"none", "store", "call"}]
    /\ synced \subseteq Tids

(* The run list holds every core that is not offline exactly once, and the  *)
(* counters are exact, so that runListSize - runningThreads - leftThreads   *)
(* is the number of waiting cores (the comment at barrier.h:87).            *)
CountersExact ==
    /\ OnList(bar) = Tids \ In(bar, "OFFLINE")
    /\ \A i, j \in Indices(bar) : bar.runList[i] = bar.runList[j] => i = j
    /\ bar.runningThreads = Cardinality(In(bar, "RUNNING"))
    /\ bar.leftThreads = Cardinality(In(bar, "LEFT"))
    /\ bar.runListSize - bar.runningThreads - bar.leftThreads = Cardinality(In(bar, "WAITING"))

(* A core that rejoins in the same phase finds itself at the index it       *)
(* remembers, whatever rejoins, cleanups and shuffles there were since it   *)
(* last ran (the assertion at barrier.h:137).                               *)
RejoinFindsItself ==
    \A t \in In(bar, "LEFT") : bar.curThreadIdx > bar.lastIdx[t] => bar.runList[bar.lastIdx[t]] = t

(* Never more than parallelThreads cores run, and a core whose turn has not *)
(* come only waits for that reason.                                         *)
ParallelismKept ==
    /\ Cardinality(In(bar, "RUNNING")) <= parallelThreads
    /\ bar.curThreadIdx < bar.runListSize => Cardinality(In(bar, "RUNNING")) = parallelThreads

(* No core gets a second turn in a phase that it has already finished. *)
OneTurnPerPhase == \A t \in In(bar, "RUNNING") : t \notin synced

(* A core that gets past its futex wait has been woken by the barrier (the  *)
(* assertions at barrier.h:161 and 196), and a wake-up finds the futex word *)
(* armed (no "Wakeup race in barrier?" panic, barrier.h:266).               *)
WakeupsMatch ==
    \A t \in Tids : /\ pc[t] \in {"running", "returned"} => bar.state[t] = "RUNNING"
                    /\ wakes[t] = "store" => bar.futexWord[t] = 1

(* A phase ends only when every core still in the barrier has finished it:  *)
(* those that wait have synced, and only the caller was still running.      *)
PhaseComplete ==
    [][bar'.phaseCount # bar.phaseCount =>
          In(bar, "WAITING") \subseteq synced /\ Cardinality(In(bar, "RUNNING")) = 1]_vars

(* A core that waits in join or sync eventually gets to run: no wake-up is  *)
(* lost and phases keep ending, even when other cores leave for good.       *)
WaitersRun == \A t \in Tids : pc[t] \in Waiting ~> pc[t] = "running"
=============================================================================
