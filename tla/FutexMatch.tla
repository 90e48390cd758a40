----------------------------- MODULE FutexMatch -----------------------------
(***************************************************************************)
(* Matching of futex wake-ups with the threads they wake (scheduler.cpp,   *)
(* virt/timeout.cpp).  The host's kernel wakes threads in no time the      *)
(* simulation knows of; so that simulated time does not depend on it, a    *)
(* thread that woke others joins only after as many woken threads have     *)
(* joined.  Two counters do the matching: what the calls in flight may     *)
(* still wake, and the woken threads nobody has accounted for.             *)
(*                                                                         *)
(* Threads sleep on any number of futexes, so a call may wake any set of   *)
(* sleepers up to its size.  A thread joins between two system calls.      *)
(* If faults is set, threads outside the simulation (in fast-forward) wake *)
(* and are woken without notice, and threads may be late.  The sizes of    *)
(* calls are positive: for a negative one, PostPatchFutex reports as many  *)
(* woken threads as an unsigned integer can hold.                          *)
(***************************************************************************)
EXTENDS Integers, FiniteSets, FiniteSetsExt

CONSTANTS Threads,
          WakeSizes,   \* the number of threads a call asks to wake
          MaxLost      \* bound on the allowance lost to calls that fail

ASSUME ThreadsAssumption == IsFiniteSet(Threads)
ASSUME SizesAssumption == WakeSizes \subseteq Nat \ {0} /\ MaxLost \in Nat

VARIABLES faults,
          pc,          \* where each thread is
          futexJoin,   \* ThreadInfo::futexJoin; NoJoin when it will not be read
          res,         \* the result of a wake call, until it is reported
          maxAllowedFutexWakeups,
          unmatchedFutexWakeups,
          lost         \* history: the allowance of calls that failed

vars == <<faults, pc, futexJoin, res, maxAllowedFutexWakeups, unmatchedFutexWakeups, lost>>
counters == <<maxAllowedFutexWakeups, unmatchedFutexWakeups>>

NoJoin == [action |-> "NONE", maxWakes |-> 0, wokenUp |-> 0]

Init ==
    /\ faults \in BOOLEAN
    /\ pc = [t \in Threads |-> "run"]
    /\ futexJoin = [t \in Threads |-> NoJoin]
    /\ res = [t \in Threads |-> 0]
    /\ maxAllowedFutexWakeups = 0 /\ unmatchedFutexWakeups = 0
    /\ lost = 0

Goto(t, place) == pc' = [pc EXCEPT ![t] = place]
Asleep == {t \in Threads : pc[t] = "asleep"}

(* FUTEX_WAIT. *)
futexWait(t) ==
    /\ pc[t] = "run" /\ Goto(t, "asleep")
    /\ UNCHANGED <<faults, futexJoin, res, counters, lost>>

(* The wait ends without a wake-up, or by one from outside; a woken thread *)
(* that fast-forwards does not report it (SkipTimeoutVirt).                *)
waitFails(t) ==
    /\ \/ pc[t] = "asleep" /\ Goto(t, "run")
       \/ faults /\ pc[t] = "asleep" /\ Goto(t, "woken")
       \/ faults /\ pc[t] = "woken" /\ Goto(t, "run")
    /\ UNCHANGED <<faults, futexJoin, res, counters, lost>>

notifyFutexWakeStart(t, val) ==
    /\ pc[t] = "run" /\ Goto(t, "waking")
    /\ maxAllowedFutexWakeups' = maxAllowedFutexWakeups + val
    /\ futexJoin' = [futexJoin EXCEPT ![t].maxWakes = val]
    /\ UNCHANGED <<faults, res, unmatchedFutexWakeups, lost>>

(* The kernel wakes the threads of W.  Calls that also requeue threads do  *)
(* so once they have woken as many as they may, and count them too.        *)
kernelWake(t, W, requeued) ==
    /\ pc[t] = "waking"
    /\ Cardinality(W) <= futexJoin[t].maxWakes
    /\ requeued > 0 => Cardinality(W) = futexJoin[t].maxWakes
    /\ pc' = [u \in Threads |-> IF u = t THEN "woke" ELSE IF u \in W THEN "woken" ELSE pc[u]]
    /\ res' = [res EXCEPT ![t] = Cardinality(W) + requeued]
    /\ UNCHANGED <<faults, futexJoin, counters, lost>>

(* A call that fails is not reported: what it was allowed stays allowed. *)
kernelFails(t) ==
    /\ pc[t] = "waking" /\ Goto(t, "run")
    /\ lost' = lost + futexJoin[t].maxWakes /\ lost' <= MaxLost
    /\ futexJoin' = [futexJoin EXCEPT ![t] = NoJoin]
    /\ UNCHANGED <<faults, res, counters>>

(* Mutant: requeued threads count as woken. *)
notifyFutexWakeEnd_Requeued(t) ==
    /\ pc[t] = "woke" /\ Goto(t, "join")
    /\ futexJoin' = [futexJoin EXCEPT ![t].action = "WAKE", ![t].wokenUp = res[t]]
    /\ res' = [res EXCEPT ![t] = 0]
    /\ UNCHANGED <<faults, counters, lost>>

(* PostPatchFutex: the smaller of the result and the size of the call. *)
notifyFutexWakeEnd(t) ==
    /\ pc[t] = "woke" /\ Goto(t, "join")
    /\ futexJoin' = [futexJoin EXCEPT ![t].action = "WAKE",
                         ![t].wokenUp = Min({res[t], futexJoin[t].maxWakes})]
    /\ res' = [res EXCEPT ![t] = 0]
    /\ UNCHANGED <<faults, counters, lost>>

notifyFutexWaitWoken(t) ==
    /\ pc[t] = "woken" /\ Goto(t, "join")
    /\ futexJoin' = [futexJoin EXCEPT ![t] = [action |-> "WAIT", maxWakes |-> 0, wokenUp |-> 0]]
    /\ UNCHANGED <<faults, res, counters, lost>>

Joined(t) ==
    /\ Goto(t, "run")
    /\ futexJoin' = [futexJoin EXCEPT ![t] = NoJoin]

(* Mutant: the last wake-up that is allowed is taken for one from outside. *)
futexWaitJoin_Strict(t) ==
    /\ pc[t] = "join" /\ futexJoin[t].action = "WAIT"
    /\ unmatchedFutexWakeups' = IF unmatchedFutexWakeups + 1 >= maxAllowedFutexWakeups
                                THEN unmatchedFutexWakeups
                                ELSE unmatchedFutexWakeups + 1
    /\ Joined(t)
    /\ UNCHANGED <<faults, res, maxAllowedFutexWakeups, lost>>

futexWaitJoin(t) ==
    /\ pc[t] = "join" /\ futexJoin[t].action = "WAIT"
    /\ unmatchedFutexWakeups' = IF unmatchedFutexWakeups >= maxAllowedFutexWakeups
                                THEN unmatchedFutexWakeups
                                ELSE unmatchedFutexWakeups + 1
    /\ Joined(t)
    /\ UNCHANGED <<faults, res, maxAllowedFutexWakeups, lost>>

(* futexWakeJoin up to its loop: the allowance shrinks to what was used. *)
futexWakeJoin(t) ==
    /\ pc[t] = "join" /\ futexJoin[t].action = "WAKE"
    /\ maxAllowedFutexWakeups' =
           maxAllowedFutexWakeups - (futexJoin[t].maxWakes - futexJoin[t].wokenUp)
    /\ Goto(t, "poll")
    /\ UNCHANGED <<faults, futexJoin, res, unmatchedFutexWakeups, lost>>

(* The inner loop ends; it reads the counter without schedLock. *)
poll(t) ==
    /\ pc[t] = "poll" /\ futexJoin[t].wokenUp <= unmatchedFutexWakeups
    /\ Goto(t, "match")
    /\ UNCHANGED <<faults, futexJoin, res, counters, lost>>

(* The inner loop has waited for too long. *)
pollTimeout(t) ==
    /\ faults /\ pc[t] = "poll" /\ futexJoin[t].wokenUp > unmatchedFutexWakeups
    /\ unmatchedFutexWakeups' = 0
    /\ maxAllowedFutexWakeups' = maxAllowedFutexWakeups - futexJoin[t].wokenUp
    /\ Joined(t)
    /\ UNCHANGED <<faults, res, lost>>

(* With schedLock held again, another waker may have been faster. *)
match(t) ==
    /\ pc[t] = "match"
    /\ IF futexJoin[t].wokenUp <= unmatchedFutexWakeups
       THEN /\ unmatchedFutexWakeups' = unmatchedFutexWakeups - futexJoin[t].wokenUp
            /\ maxAllowedFutexWakeups' = maxAllowedFutexWakeups - futexJoin[t].wokenUp
            /\ Joined(t)
       ELSE Goto(t, "poll") /\ UNCHANGED <<futexJoin, counters>>
    /\ UNCHANGED <<faults, res, lost>>

(* What a thread does in or after a system call, by itself. *)
Step(t) ==
    \/ \E W \in SUBSET Asleep, requeued \in 0 .. 1 : kernelWake(t, W, requeued)
    \/ kernelFails(t)
    \/ notifyFutexWakeEnd(t) \/ notifyFutexWaitWoken(t)
    \/ futexWaitJoin(t) \/ futexWakeJoin(t)
    \/ poll(t) \/ pollTimeout(t) \/ match(t)

Next == \E t \in Threads :
    \/ Step(t) \/ futexWait(t) \/ waitFails(t)
    \/ \E val \in WakeSizes : notifyFutexWakeStart(t, val)

Spec == Init /\ [][Next]_vars

(* The host runs every thread; sleepers and new calls are not promised. *)
FairSpec == Spec /\ \A t \in Threads : WF_vars(Step(t))

-----------------------------------------------------------------------------
(* The sum of f over all threads, as the number of its units. *)
Units(f) == UNION {{t} \X (1 .. f[t]) : t \in Threads}
Total(f) == Cardinality(Units(f))

HasJoin(t, action) == pc[t] = "join" /\ futexJoin[t].action = action

(* What each thread's call may still wake, or has woken once that is known. *)
Allowed == [t \in Threads |->
    IF pc[t] \in {"waking", "woke"} \/ HasJoin(t, "WAKE") THEN futexJoin[t].maxWakes
    ELSE IF pc[t] \in {"poll", "match"} THEN futexJoin[t].wokenUp ELSE 0]

(* The threads each thread has woken and not accounted for. *)
Woken == [t \in Threads |->
    IF pc[t] = "woke" THEN Min({res[t], futexJoin[t].maxWakes})
    ELSE IF pc[t] \in {"poll", "match"} \/ HasJoin(t, "WAKE") THEN futexJoin[t].wokenUp ELSE 0]

(* The threads that have been woken and have not joined. *)
Arriving == {t \in Threads : pc[t] = "woken" \/ HasJoin(t, "WAIT")}

(* The allowance is what the calls in flight may still wake, and what they  *)
(* have woken once that is known: joins, timeouts and requeues never let    *)
(* maxAllowedFutexWakeups drift or wrap.  Only failing calls leave some.    *)
(* And among the threads of the simulation every woken thread is waited     *)
(* for: the threads woken and not joined, and those joined and not matched, *)
(* are the ones the wakers in flight have woken.  So no waker gets ahead of *)
(* the last thread woken, and unmatchedFutexWakeups never exceeds the       *)
(* allowance (the assertion of futexWakeJoin).                              *)
MatchExact ==
    /\ maxAllowedFutexWakeups = lost + Total(Allowed)
    /\ ~faults => /\ Cardinality(Arriving) + unmatchedFutexWakeups = Total(Woken)
                  /\ unmatchedFutexWakeups <= maxAllowedFutexWakeups

(* A thread that woke others is not delayed forever: the threads it waits   *)
(* for join, or the wait times out, even if wakers take each other's        *)
(* matches.  That takes an end of new calls: futexWakeJoin starts over when *)
(* another waker was faster, and nothing bounds how often.                  *)
Quiet == \A t \in Threads : pc[t] # "waking"
WakersReturn == <>[]Quiet => \A t \in Threads : (pc[t] = "poll") ~> (pc[t] = "run")
=============================================================================
