----------------------------- MODULE FutexLock ------------------------------
(***************************************************************************)
(* The futex lock that guards the scheduler, the caches and the event      *)
(* queues (locks.h: futex_lock, futex_lock_nospin,                         *)
(* futex_trylock_nospin_timeout and futex_unlock).  The word is 0 when the *)
(* lock is free, 1 when it is taken and nobody is known to wait, 2 when    *)
(* somebody may sleep in the kernel.                                       *)
(*                                                                         *)
(* A step of a thread is one access to the word, or one system call.  An   *)
(* attempt of futex_lock that fails and is repeated changes nothing, so    *)
(* spin is the attempt that succeeds, or the last one.  Any thread may     *)
(* release a taken lock, but only one at a time does: a mutex is released  *)
(* by its owner, and the locks of contention_sim.cpp by the thread waited  *)
(* for.                                                                    *)
(***************************************************************************)
EXTENDS Integers

CONSTANTS Threads,   \* the threads that use the lock
          NoOne      \* the owner of a lock that is free

ASSUME NoOneIsNoThread == NoOne \notin Threads

VARIABLES word,      \* *lock
          owner,     \* history: who has returned from the call that took the lock
          pc,        \* where each thread is
          timed      \* the threads whose call has a timeout

vars == <<word, owner, pc, timed>>

Calling == {"spin", "block", "wait", "asleep", "again"}   \* in a lock call
Unlocking == {"release", "store"}                         \* the lock is not yet free
Places == {"idle", "wake"} \cup Calling \cup Unlocking

Init ==
    /\ word = 0 /\ owner = NoOne
    /\ pc = [t \in Threads |-> "idle"]
    /\ timed = {}

Goto(t, place) == pc' = [pc EXCEPT ![t] = place]
Taken(t) == owner' = t /\ Goto(t, "idle")

lock(t) ==
    /\ pc[t] = "idle" /\ Goto(t, "spin")
    /\ timed' \in {timed \ {t}, timed \cup {t}}
    /\ UNCHANGED <<word, owner>>

(* The compare-and-swap.  A thread blocks after it has failed. *)
spin(t) ==
    /\ pc[t] = "spin"
    /\ IF word = 0 THEN word' = 1 /\ Taken(t) ELSE Goto(t, "block") /\ UNCHANGED <<word, owner>>
    /\ UNCHANGED timed

(* The exchange before the wait. *)
block(t) ==
    /\ pc[t] = "block" /\ word' = 2
    /\ IF word = 0 THEN Taken(t) ELSE Goto(t, "wait") /\ UNCHANGED owner
    /\ UNCHANGED timed

(* FUTEX_WAIT: the kernel compares the word with 2 before the thread sleeps. *)
wait(t) ==
    /\ pc[t] = "wait"
    /\ Goto(t, IF word = 2 THEN "asleep" ELSE "again")
    /\ UNCHANGED <<word, owner, timed>>

(* A signal, or the timeout of the call. *)
interrupted(t) ==
    /\ pc[t] = "asleep" /\ Goto(t, "again")
    /\ UNCHANGED <<word, owner, timed>>

(* Mutant: a thread that was woken takes the lock as if nobody else waited. *)
again_NoOthers(t) ==
    /\ pc[t] = "again"
    /\ word' = IF word = 0 THEN 1 ELSE 2
    /\ IF word = 0 THEN Taken(t)
       ELSE Goto(t, IF t \in timed THEN "idle" ELSE "spin") /\ UNCHANGED owner
    /\ UNCHANGED timed

(* Mutant: a thread that was woken has the lock. *)
again_Handoff(t) ==
    /\ pc[t] = "again" /\ word' = 2
    /\ Taken(t)
    /\ UNCHANGED timed

(* The exchange after the wait: others may still sleep, so the word is 2    *)
(* even for the thread that gets the lock.  A call with a timeout gives up. *)
again(t) ==
    /\ pc[t] = "again" /\ word' = 2
    /\ IF word = 0 THEN Taken(t)
       ELSE Goto(t, IF t \in timed THEN "idle" ELSE "spin") /\ UNCHANGED owner
    /\ UNCHANGED timed

unlock(t) ==
    /\ pc[t] = "idle" /\ owner # NoOne
    /\ \A u \in Threads : pc[u] \notin Unlocking
    /\ Goto(t, "release")
    /\ UNCHANGED <<word, owner, timed>>

(* The fetch-and-add of -1.  From 1 it frees the lock. *)
release(t) ==
    /\ pc[t] = "release" /\ word' = word - 1
    /\ IF word = 1 THEN owner' = NoOne /\ Goto(t, "idle") ELSE Goto(t, "store") /\ UNCHANGED owner
    /\ UNCHANGED timed

(* Mutant: the lock is freed and nobody is woken. *)
store_NoWake(t) ==
    /\ pc[t] = "store" /\ word' = 0
    /\ owner' = NoOne /\ Goto(t, "idle")
    /\ UNCHANGED timed

store(t) ==
    /\ pc[t] = "store" /\ word' = 0
    /\ owner' = NoOne /\ Goto(t, "wake")
    /\ UNCHANGED timed

(* FUTEX_WAKE of one thread, if any sleeps. *)
wake(t) ==
    /\ pc[t] = "wake"
    /\ \/ \E u \in Threads : /\ pc[u] = "asleep"
                             /\ pc' = [pc EXCEPT ![t] = "idle", ![u] = "again"]
       \/ (\A u \in Threads : pc[u] # "asleep") /\ Goto(t, "idle")
    /\ UNCHANGED <<word, owner, timed>>

(* What a thread does once it has called lock or unlock. *)
Step(t) == \/ spin(t) \/ block(t) \/ wait(t) \/ again(t)
           \/ release(t) \/ store(t) \/ wake(t)

Next == \E t \in Threads : lock(t) \/ unlock(t) \/ Step(t) \/ interrupted(t)

Spec == Init /\ [][Next]_vars

(* The host runs every thread that is not asleep.  Nobody has to call lock *)
(* or unlock, and signals need not come.                                   *)
FairSpec == Spec /\ \A t \in Threads : WF_vars(Step(t))

-----------------------------------------------------------------------------
(* The word, the owner and the threads have their types. *)
TypeOK ==
    /\ word \in 0 .. 2
    /\ owner \in Threads \cup {NoOne}
    /\ pc \in [Threads -> Places]
    /\ timed \subseteq Threads

Waiting == {t \in Threads : pc[t] \in Calling}

(* A thread sleeps in the kernel only as long as somebody is bound to wake  *)
(* it: the word says so to whoever has the lock, or a thread is on its way  *)
(* to the wake-up call, or has been woken and will set the word again       *)
(* (futex_lock's exchanges and futex_unlock's test of the old value).       *)
NoLostWakeup ==
    (\E t \in Threads : pc[t] = "asleep") =>
        word = 2 \/ \E u \in Threads : pc[u] \in {"again", "store", "wake"}

AL == INSTANCE AtomicLock WITH waiting <- Waiting

(* The lock is an atomic lock: between two threads that return from taking  *)
(* it there is a release, and a timed call fails only when it is taken.     *)
ImplementsLock == AL!Spec

(* A free lock that somebody asks for is taken: no wake-up is lost, however *)
(* calls, signals and timeouts interleave.                                  *)
LockTaken == (owner = NoOne /\ Waiting # {}) ~> owner # NoOne
=============================================================================
