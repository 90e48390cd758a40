----------------------------- MODULE AtomicLock -----------------------------
(***************************************************************************)
(* What the locks of the simulator promise: taking the lock is one step    *)
(* that only happens while nobody has it, releasing it is another.  The    *)
(* thread that releases need not be the one that took it: contention_sim   *)
(* uses locks to wait for other threads (contention_sim.cpp:165, 273).     *)
(***************************************************************************)
CONSTANTS Threads,   \* the threads that use the lock
          NoOne      \* the owner of a lock that is free

VARIABLES owner,     \* the thread that took the lock, or NoOne
          waiting    \* the threads that have asked for it

lockVars == <<owner, waiting>>

Init == owner = NoOne /\ waiting = {}

Request(t) ==
    /\ t \notin waiting
    /\ waiting' = waiting \cup {t}
    /\ UNCHANGED owner

Acquire(t) ==
    /\ t \in waiting /\ owner = NoOne
    /\ owner' = t /\ waiting' = waiting \ {t}

(* A request with a timeout fails, and only because the lock was taken. *)
GiveUp(t) ==
    /\ t \in waiting /\ owner # NoOne
    /\ waiting' = waiting \ {t}
    /\ UNCHANGED owner

Release ==
    /\ owner # NoOne
    /\ owner' = NoOne
    /\ UNCHANGED waiting

Next == Release \/ \E t \in Threads : Request(t) \/ Acquire(t) \/ GiveUp(t)

Spec == Init /\ [][Next]_lockVars
=============================================================================
