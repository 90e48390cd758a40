----------------------------- MODULE Scheduler -----------------------------
(* The thread scheduler (src/src/scheduler.h, scheduler.cpp) on top of the  *)
(* phase barrier.  Simulated threads join, sync, leave for system calls,    *)
(* sleep in patched system calls and finish; the scheduler maps them to     *)
(* cores, hands cores over when a quantum ends, and a watchdog thread keeps *)
(* time moving when everybody sleeps or a system call blocks.  A process    *)
(* may be killed by a signal, after which the watchdog cleans up, and       *)
(* another one may be fast-forwarded, outside the scheduler (zsim.cpp).     *)
(*                                                                          *)
(* Everything done under schedLock in one go is one action.  The scheduler  *)
(* object is the record sched, and its methods are operators on it.  Phases *)
(* are counted down: due is wakeupPhase - curPhase.                         *)
EXTENDS Integers, FiniteSets, SequencesExt

CONSTANTS Threads,          \* the simulated threads (gids)
          NumCores,
          Workloads,        \* what the threads may be like: records with the fields below
          parallelThreads,
          CleanupPeriod,
          schedQuantum,     \* phases between two time slices
          MaxSleep,         \* bound on the phases a thread sleeps
          WatchdogRaces     \* may a call return while the watchdog is about to take its thread out?

Cores == 0 .. NumCores - 1

NoThread == "none"

ASSUME CoresAssumption == NumCores \in Nat \ {0}
ASSUME QuantumAssumption == schedQuantum \in Nat \ {0} /\ MaxSleep \in Nat
ASSUME ThreadsAssumption == NoThread \notin Threads /\ IsFiniteSet(Threads)
ASSUME WorkloadsAssumption == \A w \in Workloads :
    /\ \A g \in Threads : w.mask[g] # {} /\ w.mask[g] \subseteq Cores
    /\ \A S \in {w.threads, w.nappers, w.timers, w.blocking, w.mortal, w.forwarded} : S \subseteq Threads
    /\ w.nappers \cap w.forwarded = {}  \* a nap cut short by a signal would finish a sleeping thread

VARIABLES sched,     \* the scheduler object, its barrier included
          pc,        \* where each thread is
          watchdog,  \* the thread the watchdog is taking out or cleaning up, if any
          inFastForward,  \* of the process that has the forwarded threads
          workload   \* the threads' masks and system calls, which never change

vars == <<sched, pc, watchdog, inFastForward, workload>>

mask == workload.mask         \* the cores each thread may use
Nappers == workload.nappers   \* threads that call nanosleep
Timers == workload.timers     \* threads that call futex, poll and epoll_wait with a timeout
Mortal == workload.mortal     \* threads, each alone in its process, that a signal may kill
Forwarding(g) == inFastForward /\ g \in workload.forwarded

B == INSTANCE Barrier WITH Tids <- Cores, bar <- sched.bar,
                           wakes <- watchdog, synced <- {}

Init ==
    /\ workload \in Workloads
    /\ sched = [state |-> [g \in Threads |-> "STARTED"],
                cid |-> [g \in Threads |-> 0],
                handoffThread |-> [g \in Threads |-> NoThread],
                futexWord |-> [g \in Threads |-> 0],
                markedForSleep |-> [g \in Threads |-> FALSE],
                due |-> [g \in Threads |-> 0],
                curThread |-> [c \in Cores |-> NoThread],
                freeList |-> [i \in 1 .. NumCores |-> i - 1],
                runQueue |-> <<>>, outQueue |-> <<>>, sleepQueue |-> <<>>, fakeLeaves |-> <<>>,
                blocking |-> workload.blocking,
                curPhase |-> 0,
                scheduledThreads |-> 0,
                bar |-> B!emptyBarrier]
    /\ pc = [g \in Threads |-> "new"]
    /\ watchdog = NoThread
    /\ inFastForward = FALSE

fakeLeave(s, g) == g \in ToSet(s.fakeLeaves)

-----------------------------------------------------------------------------
(* Threads and contexts *)

schedule(s, g, c) ==
    [s EXCEPT !.state[g] = "RUNNING", !.cid[g] = c, !.curThread[c] = g, !.scheduledThreads = @ + 1]

deschedule(s, g, targetState) ==
    [s EXCEPT !.state[g] = targetState, !.curThread[s.cid[g]] = NoThread, !.scheduledThreads = @ - 1]

wakeup(s, g) == [s EXCEPT !.futexWord[g] = 0]

(* Mutant: contexts of threads that are out are left alone. *)
schedThread_NoSteal(s, g) ==
    LET last == s.cid[g]
        free == SelectSeq(s.freeList, LAMBDA c : c \in mask[g])
        take(c) == [ctx |-> c, s |-> [s EXCEPT !.freeList = Remove(@, c)]]
    IN  IF s.curThread[last] = NoThread /\ last \in mask[g] THEN take(last)
        ELSE IF free # <<>> THEN take(Head(free))
        ELSE [ctx |-> -1, s |-> s]

(* The context a thread that became available gets, and the scheduler       *)
(* after taking it from the free list or from a thread that is out.         *)
schedThread(s, g) ==
    LET last == s.cid[g]
        free == SelectSeq(s.freeList, LAMBDA c : c \in mask[g])
        out == SelectSeq(s.outQueue, LAMBDA h : s.cid[h] \in mask[g])
        take(c) == [ctx |-> c, s |-> [s EXCEPT !.freeList = Remove(@, c)]]
        steal(h) == [ctx |-> s.cid[h],
                     s |-> deschedule([s EXCEPT !.outQueue = Remove(@, h)], h, "BLOCKED")]
    IN  IF s.curThread[last] = NoThread /\ last \in mask[g] THEN take(last)
        ELSE IF free # <<>> THEN take(Head(free))
        ELSE IF out # <<>> THEN steal(Head(out))
        ELSE [ctx |-> -1, s |-> s]

(* Mutant: only the head of the run queue is considered. *)
schedContext_HeadOnly(s, c) ==
    IF s.runQueue # <<>> /\ c \in mask[Head(s.runQueue)]
    THEN [th |-> Head(s.runQueue), s |-> [s EXCEPT !.runQueue = Tail(@)]]
    ELSE [th |-> NoThread, s |-> s]

(* The thread a context that became available gets. *)
schedContext(s, c) ==
    LET fit == SelectSeq(s.runQueue, LAMBDA g : c \in mask[g])
    IN  IF fit = <<>> THEN [th |-> NoThread, s |-> s]
        ELSE [th |-> Head(fit), s |-> [s EXCEPT !.runQueue = Remove(@, Head(fit))]]

(* The longest prefix of a queue of sleepers that is due by the given phase. *)
DueBy(s, phases) ==
    Max({i \in 0 .. Len(s.sleepQueue) : \A j \in 1 .. i : s.due[s.sleepQueue[j]] <= phases})

(* Mutant: sleepers are appended, not inserted in order. *)
putToSleep_Append(s, g) == [s EXCEPT !.sleepQueue = Append(@, g)]

putToSleep(s, g) == [s EXCEPT !.sleepQueue = InsertAt(@, DueBy(s, s.due[g]) + 1, g)]

endSleep(s, g) ==
    [s EXCEPT !.sleepQueue = Remove(@, g), !.state[g] = "BLOCKED", !.due[g] = 0]

awakened(s, g) == IF s.state[g] = "SLEEPING" THEN endSleep(s, g) ELSE s

waitForContext(s, g) ==
    [s EXCEPT !.state[g] = "QUEUED", !.runQueue = Append(@, g), !.futexWord[g] = 1]

-----------------------------------------------------------------------------
(* The end of a phase *)

(* Mutant: a core that has been promised stays available. *)
promise_Twice(t, g) ==
    {[avail |-> t.avail,
      s |-> [t.s EXCEPT !.handoffThread[t.s.curThread[c]] = g, !.runQueue = Remove(@, g)]] :
        c \in t.avail \cap mask[g]}
    \cup IF t.avail \cap mask[g] = {} THEN {t} ELSE {}

(* A queued thread is promised the core of some running thread, if one is   *)
(* still available in this tick.  The cores are tried in random order.      *)
promise(t, g) ==
    {[avail |-> t.avail \ {c},
      s |-> [t.s EXCEPT !.handoffThread[t.s.curThread[c]] = g, !.runQueue = Remove(@, g)]] :
        c \in t.avail \cap mask[g]}
    \cup IF t.avail \cap mask[g] = {} THEN {t} ELSE {}

schedTick(s) ==
    {t.s : t \in FoldLeft(LAMBDA T, g : UNION {promise(t, g) : t \in T},
                          {[avail |-> Cores, s |-> s]}, s.runQueue)}

wakeSleepers(s) ==
    LET later == [s EXCEPT !.due = [g \in Threads |-> IF s.state[g] = "SLEEPING" THEN @[g] - 1 ELSE @[g]]]
        ready == DueBy(later, 0)
    IN  FoldLeft(LAMBDA k, g : wakeup(endSleep(k, g), g), later, SubSeq(s.sleepQueue, 1, ready))

callback(s) ==
    LET awake == [wakeSleepers(s) EXCEPT !.curPhase = (@ + 1) % schedQuantum]
    IN  IF awake.runQueue # <<>> /\ awake.curPhase = 0 THEN schedTick(awake) ELSE {awake}

(* The end of the barrier's critical sections: the callback runs when they  *)
(* end the phase.                                                           *)
tryWakeNext(s, b) ==
    UNION {{[k EXCEPT !.bar = c] : k \in IF c.phaseCount # b.phaseCount THEN callback(s) ELSE {s}} :
             c \in B!tryWakeNext(b)}

barJoin(s, c) == UNION {tryWakeNext(s, b) : b \in {B!joining(s.bar, c)}}

barSync(s, c) == UNION {tryWakeNext(s, b) : b \in {B!syncing(s.bar, c)}}

barLeave(s, c) ==
    IF s.bar.state[c] = "RUNNING" THEN UNION {tryWakeNext(s, b) : b \in {B!leaving(s.bar, c)}}
    ELSE {[s EXCEPT !.bar = B!leaving(s.bar, c)]}

-----------------------------------------------------------------------------
(* Leaving the scheduler *)

(* Mutant: a context without a new thread stays in the barrier. *)
leaveAsleep_StaysInBarrier(s, g, c) ==
    LET next == schedContext(putToSleep(deschedule([s EXCEPT !.markedForSleep[g] = FALSE], g, "SLEEPING"), g), c)
    IN  IF next.th # NoThread THEN {wakeup(schedule(next.s, next.th, c), next.th)}
        ELSE {[next.s EXCEPT !.freeList = Append(@, c)]}

(* A thread marked for sleep gives up its context at once. *)
leaveAsleep(s, g, c) ==
    LET next == schedContext(putToSleep(deschedule([s EXCEPT !.markedForSleep[g] = FALSE], g, "SLEEPING"), g), c)
    IN  IF next.th # NoThread THEN {wakeup(schedule(next.s, next.th, c), next.th)}
        ELSE barLeave([next.s EXCEPT !.freeList = Append(@, c)], c)

(* Any other thread keeps its context until somebody else needs it. *)
leaveAwake(s, g, c) ==
    LET next == schedContext(s, c)
    IN  IF next.th # NoThread
        THEN {wakeup(schedule(deschedule(next.s, g, "BLOCKED"), next.th, c), next.th)}
        ELSE barLeave([s EXCEPT !.state[g] = "OUT", !.outQueue = Append(@, g)], c)

leave(s, g) ==
    IF s.markedForSleep[g] THEN leaveAsleep(s, g, s.cid[g]) ELSE leaveAwake(s, g, s.cid[g])

finishFakeLeave(s, g) == [s EXCEPT !.fakeLeaves = Remove(@, g)]

(* What is left of a finished thread is removed from the queues. *)
forget(s, g) ==
    LET t == IF s.state[g] = "OUT"
             THEN [deschedule([s EXCEPT !.outQueue = Remove(@, g)], g, "BLOCKED")
                     EXCEPT !.freeList = Append(@, s.cid[g])]
             ELSE s
    IN  [t EXCEPT !.state[g] = "STARTED", !.runQueue = Remove(@, g), !.cid[g] = 0, !.futexWord[g] = 0]

-----------------------------------------------------------------------------
(* The threads *)

Move(g, S, where) == sched' \in S /\ pc' = [pc EXCEPT ![g] = where] /\ UNCHANGED <<inFastForward, workload>>

Go(g, S, where) == Move(g, S, where) /\ UNCHANGED watchdog

(* A thread is known to the scheduler from its start or from the end of the *)
(* fast-forwarding.                                                         *)
start(g) == pc[g] = "new" /\ g \in workload.threads /\ ~Forwarding(g) /\ Go(g, {sched}, "join")

(* A thread that the watchdog is taking out returns to the scheduler later, *)
(* unless the race between the two is what is being looked at.              *)
Returns(g) == watchdog # g \/ WatchdogRaces

Joins(g) == pc[g] = "join" /\ Returns(g)

(* join: a thread that never left goes on; one that is out gets its context *)
(* back; any other one needs a context and queues up if there is none.      *)
joinFake(g) ==
    /\ Joins(g) /\ fakeLeave(sched, g)
    /\ Go(g, {finishFakeLeave(sched, g)}, "run")

joinOut(g) ==
    /\ Joins(g) /\ ~fakeLeave(sched, g) /\ sched.state[g] = "OUT"
    /\ Go(g, barJoin([sched EXCEPT !.state[g] = "RUNNING", !.outQueue = Remove(@, g)], sched.cid[g]), "bar")

joinBlocked(g) ==
    LET s == awakened(sched, g)
        place == schedThread(s, g)
    IN  /\ Joins(g) /\ ~fakeLeave(sched, g)
        /\ sched.state[g] \in {"SLEEPING", "BLOCKED", "STARTED"}
        /\ IF place.ctx \in Cores THEN Go(g, barJoin(schedule(place.s, g, place.ctx), place.ctx), "bar")
           ELSE Go(g, {waitForContext(s, g)}, "ctx")

(* TakeBarrier: a thread that comes back from sync may find its process in  *)
(* fast-forward and leaves; one that comes from join does not look.         *)
Resumes(g) == IF Forwarding(g) THEN "ff" ELSE "run"

joined(g) ==
    /\ pc[g] \in {"bar", "rebar"} /\ sched.bar.state[sched.cid[g]] = "RUNNING"
    /\ Go(g, {sched}, IF pc[g] = "bar" THEN "run" ELSE Resumes(g))

gotContext(g) ==
    /\ pc[g] \in {"ctx", "rectx"} /\ sched.futexWord[g] = 0
    /\ Go(g, {sched}, IF pc[g] = "ctx" THEN "run" ELSE Resumes(g))

sync(g) == pc[g] = "run" /\ Go(g, barSync(sched, sched.cid[g]), "sync")

(* Woken for the next phase, a thread looks for a pending handoff without   *)
(* taking the lock.                                                         *)
synced(g) ==
    /\ pc[g] = "sync" /\ sched.bar.state[sched.cid[g]] = "RUNNING"
    /\ Go(g, {sched}, IF sched.handoffThread[g] = NoThread THEN Resumes(g) ELSE "handoff")

handoff(g) ==
    LET dst == sched.handoffThread[g]
        c == sched.cid[g]
        given == wakeup(schedule(deschedule([sched EXCEPT !.handoffThread[g] = NoThread], g, "QUEUED"), dst, c), dst)
        place == schedThread(given, g)
    IN  /\ pc[g] = "handoff"
        /\ IF place.ctx \in Cores THEN Go(g, barJoin(schedule(place.s, g, place.ctx), place.ctx), "rebar")
           ELSE Go(g, {waitForContext(given, g)}, "rectx")

forwardLeave(g) == pc[g] = "ff" /\ Go(g, leave(sched, g), "finish")

(* Two system calls can follow each other without an instrumented           *)
(* instruction in between that makes the thread join; after a signal, the   *)
(* instructions of its handler do.                                          *)
NotJoinedYet(g) == pc[g] = "join" /\ sched.state[g] \notin {"STARTED", "SLEEPING"}

markForSleep(s, g, phases) ==
    [s EXCEPT !.markedForSleep[g] = TRUE, !.due[g] = phases, !.futexWord[g] = 1]

(* Virtualised system calls: nanosleep lasts one phase or more, any other   *)
(* timeout two or more.  They are only called by threads that have joined   *)
(* since their last system call.                                            *)
enterTimed(g, shortest) ==
    /\ pc[g] = "run" /\ ~Forwarding(g)
    /\ \E phases \in shortest .. MaxSleep : Go(g, {markForSleep(sched, g, phases)}, "marked")

nanosleep(g) == g \in Nappers /\ enterTimed(g, 1)

timedWait(g) == g \in Timers /\ enterTimed(g, 2)

syscallLeave(g) ==
    \/ /\ pc[g] = "marked"
       /\ Go(g, leave(sched, g), IF g \in Nappers THEN "nap" ELSE "timeout")
    \/ /\ pc[g] = "run"
       /\ Go(g, IF g \in sched.blocking THEN leave(sched, g) ELSE {[sched EXCEPT !.fakeLeaves = Append(@, g)]}, "sys")
    \/ NotJoinedYet(g) /\ Go(g, {sched}, "sys")

(* SyscallExit: a thread that is fast-forwarded from here on does not join. *)
Returned(g) == IF Forwarding(g) THEN "finish" ELSE "join"

syscallExit(g) == pc[g] = "sys" /\ Go(g, {sched}, Returned(g))

(* nanosleep has become a futex wait on the scheduler's word; a signal can  *)
(* interrupt it.                                                            *)
napOver(g) == pc[g] = "nap" /\ sched.futexWord[g] = 0 /\ Go(g, {sched}, Returned(g))

napInterrupted(g) == pc[g] = "nap" /\ sched.futexWord[g] = 1 /\ Go(g, {sched}, Returned(g))

(* Other timeouts are polled: on a host timeout the call is retried while   *)
(* the thread sleeps, on an event the sleep ends early, in a critical       *)
(* section of its own.                                                      *)
timeoutOver(g) == pc[g] = "timeout" /\ sched.state[g] # "SLEEPING" /\ Go(g, {sched}, Returned(g))

timeoutEvent(g) == pc[g] = "timeout" /\ sched.state[g] = "SLEEPING" /\ Go(g, {sched}, "event")

notifySleepEnd(g) ==
    /\ pc[g] = "event"
    /\ Go(g, {awakened(sched, g)}, Returned(g))

(* A thread finishes from its last system call, on its way to fast-forward, *)
(* or by the hand of the watchdog.  A leave that was skipped is made up     *)
(* for, with the lock released in between.                                  *)
Finishing(g) == pc[g] = "doomed" \/ (pc[g] \in {"sys", "finish"} /\ Returns(g))

Finishes(g) == IF pc[g] = "doomed" THEN "doomed" ELSE "finish"

finishFake(g) == Finishing(g) /\ fakeLeave(sched, g) /\ Go(g, {finishFakeLeave(sched, g)}, Finishes(g))

finishLeave(g) ==
    /\ Finishing(g) /\ ~fakeLeave(sched, g) /\ sched.state[g] = "RUNNING"
    /\ Go(g, leave(sched, g), Finishes(g))

finish(g) ==
    /\ Finishing(g) /\ ~fakeLeave(sched, g) /\ sched.state[g] # "RUNNING"
    /\ Move(g, {forget(sched, g)}, "new")
    /\ watchdog' = IF pc[g] = "doomed" THEN NoThread ELSE watchdog

(* A fatal signal reaches a thread in its own code or on its way back from  *)
(* a system call.                                                           *)
die(g) == g \in Mortal /\ pc[g] \in {"run", "join"} /\ Go(g, {sched}, "dead")

(* The program or fftoggle switches fast-forwarding on or off. *)
toggleFastForward ==
    /\ workload.forwarded # {}
    /\ inFastForward' = ~inFastForward
    /\ UNCHANGED <<sched, pc, watchdog, workload>>

-----------------------------------------------------------------------------
(* The watchdog *)

(* Mutant: a single stalled thread is left alone. *)
takeOut_OnlyMany ==
    /\ watchdog = NoThread /\ Len(sched.fakeLeaves) > 1
    /\ sched' = finishFakeLeave(sched, Head(sched.fakeLeaves))
    /\ watchdog' = Head(sched.fakeLeaves)
    /\ UNCHANGED <<pc, inFastForward, workload>>

(* When phases stall, the first thread in a fake leave is taken out; if it  *)
(* is the only one, its system call is blacklisted.  The lock is released   *)
(* between the end of the fake leave and the real one.                      *)
takeOut ==
    LET g == Head(sched.fakeLeaves)
    IN  /\ watchdog = NoThread /\ sched.fakeLeaves # <<>>
        /\ sched' = [finishFakeLeave(sched, g) EXCEPT
                        !.blocking = IF Len(sched.fakeLeaves) = 1 THEN @ \cup {g} ELSE @]
        /\ watchdog' = g
        /\ UNCHANGED <<pc, inFastForward, workload>>

takeOutLeave ==
    /\ watchdog # NoThread /\ pc[watchdog] # "doomed"
    /\ sched' \in leave(sched, watchdog)
    /\ watchdog' = NoThread
    /\ UNCHANGED <<pc, inFastForward, workload>>

(* Mutant: threads that are out count as running. *)
driveTime_NobodyOut ==
    /\ watchdog = NoThread
    /\ sched.scheduledThreads = 0 /\ sched.sleepQueue # <<>>
    /\ sched' \in callback(sched)
    /\ UNCHANGED <<pc, watchdog, inFastForward, workload>>

(* When no thread is scheduled but some sleep, the watchdog ends the phase. *)
driveTime ==
    /\ watchdog = NoThread
    /\ sched.scheduledThreads = Len(sched.outQueue) /\ sched.sleepQueue # <<>>
    /\ sched' \in callback(sched)
    /\ UNCHANGED <<pc, watchdog, inFastForward, workload>>

(* processCleanup: once a killed process is gone, its thread is taken out   *)
(* of its sleep and finished.                                               *)
cleanup(g) ==
    /\ watchdog = NoThread /\ pc[g] = "dead"
    /\ Move(g, {awakened(sched, g)}, "doomed")
    /\ watchdog' = g

Step(g) == \/ joinFake(g) \/ joinOut(g) \/ joinBlocked(g) \/ joined(g) \/ gotContext(g)
           \/ synced(g) \/ handoff(g) \/ napOver(g) \/ timeoutOver(g)
           \/ notifySleepEnd(g) \/ forwardLeave(g) \/ (pc[g] = "marked" /\ syscallLeave(g))
           \/ cleanup(g) \/ (pc[g] # "sys" /\ (finishFake(g) \/ finishLeave(g) \/ finish(g)))

Next == \/ \E g \in Threads : \/ Step(g) \/ sync(g) \/ start(g) \/ nanosleep(g) \/ timedWait(g) \/ syscallLeave(g)
                              \/ syscallExit(g) \/ napInterrupted(g) \/ timeoutEvent(g)
                              \/ (pc[g] = "sys" /\ (finishFake(g) \/ finishLeave(g) \/ finish(g))) \/ die(g)
        \/ toggleFastForward
        \/ takeOut \/ takeOutLeave \/ driveTime

Spec == Init /\ [][Next]_vars

(* Host threads and the watchdog make progress.  A thread that keeps        *)
(* running reaches the end of its phase, however many system calls it does. *)
(* The watchdog looks for stalls and sleepers in every turn of its loop,    *)
(* whatever it has to clean up.  System calls need not return, and events   *)
(* need not happen.                                                         *)
FairSpec == /\ Spec
            /\ \A g \in Threads : WF_vars(Step(g)) /\ SF_vars(sync(g))
            /\ SF_vars(takeOut) /\ WF_vars(takeOutLeave) /\ SF_vars(driveTime)

-----------------------------------------------------------------------------
Queued(s) == ToSet(s.runQueue)
Promised(s) == {s.handoffThread[g] : g \in Threads} \ {NoThread}
In(state) == {g \in Threads : sched.state[g] = state}

(* The scheduler object and the threads have their types; no sleeper is     *)
(* overdue and no more contexts are in use than there are cores.            *)
TypeOK ==
    /\ sched.state \in [Threads -> {"STARTED", "RUNNING", "OUT", "BLOCKED", "SLEEPING", "QUEUED"}]
    /\ sched.cid \in [Threads -> Cores]
    /\ sched.handoffThread \in [Threads -> Threads \cup {NoThread}]
    /\ sched.futexWord \in [Threads -> {0, 1}]
    /\ sched.due \in [Threads -> 0 .. MaxSleep]
    /\ sched.curThread \in [Cores -> Threads \cup {NoThread}]
    /\ sched.freeList \in Seq(Cores)
    /\ \A q \in {sched.runQueue, sched.outQueue, sched.sleepQueue, sched.fakeLeaves} : q \in Seq(Threads)
    /\ sched.scheduledThreads \in 0 .. NumCores
    /\ pc \in [Threads -> {"new", "join", "bar", "sync", "handoff", "ctx", "run", "marked", "sys", "nap",
                            "timeout", "event", "finish", "rebar", "rectx", "ff", "dead", "doomed"}]
    /\ inFastForward \in BOOLEAN

(* Threads, contexts and queues agree.  A context is used by exactly the    *)
(* thread that is running or out on it, every idle context is on the free   *)
(* list once, and scheduledThreads counts the used ones.  Every thread is   *)
(* in the queue its state says, once and in no other one; a queued thread   *)
(* that has left the run queue has been promised a core.  The futex word of *)
(* a thread that is to be woken is armed, so wakeup does not panic          *)
(* (scheduler.h:610).                                                       *)
QueuesMatch ==
    /\ TypeOK
    /\ \A g \in Threads, c \in Cores :
          sched.curThread[c] = g <=> sched.state[g] \in {"RUNNING", "OUT"} /\ sched.cid[g] = c
    /\ IsInjective(sched.freeList)
    /\ ToSet(sched.freeList) = {c \in Cores : sched.curThread[c] = NoThread}
    /\ sched.scheduledThreads = NumCores - Len(sched.freeList)
    /\ \A q \in {sched.runQueue, sched.outQueue, sched.sleepQueue, sched.fakeLeaves} : IsInjective(q)
    /\ ToSet(sched.outQueue) = In("OUT")
    /\ ToSet(sched.sleepQueue) = In("SLEEPING")
    /\ In("QUEUED") = Queued(sched) \cup Promised(sched)
    /\ Queued(sched) \cap Promised(sched) = {}
    /\ ToSet(sched.fakeLeaves) \subseteq In("RUNNING")
    /\ \A g \in In("QUEUED") \cup In("SLEEPING") : sched.futexWord[g] = 1

(* No core is idle or held by a thread that is out while a thread that may  *)
(* use it is queued: "we will never match anything in the freeList"         *)
(* (scheduler.h:717), which the assertion at scheduler.h:731 relies on.     *)
WorkConserving ==
    \A g \in Queued(sched) : \A c \in mask[g] :
        sched.curThread[c] # NoThread /\ sched.state[sched.curThread[c]] = "RUNNING"

(* The sleep queue is ordered and nobody in it is overdue, so a sleeper is  *)
(* woken in exactly its phase (the assertion at scheduler.h:443).           *)
SleepersOnTime ==
    \A i \in DOMAIN sched.sleepQueue :
        LET due(k) == sched.due[sched.sleepQueue[k]]
        IN  due(i) > 0 /\ (i > 1 => due(i - 1) <= due(i))

(* Scheduler and barrier agree on every core: it is in the barrier exactly  *)
(* when its thread is running, although threads take cores over from each   *)
(* other without joining (the discrepancy noted at scheduler.h:52).  A      *)
(* thread that runs simulated code owns its core in both, and is neither in *)
(* a fake leave nor marked for sleep (the assertions at scheduler.h:336,    *)
(* 388 and 418).                                                            *)
BarrierMatches ==
    /\ \A c \in Cores :
         sched.bar.state[c] \in {"WAITING", "RUNNING"} <=>
             sched.curThread[c] # NoThread /\ sched.state[sched.curThread[c]] = "RUNNING"
    /\ \A g \in Threads : pc[g] \in {"run", "marked"} =>
         /\ sched.state[g] = "RUNNING" /\ sched.bar.state[sched.cid[g]] = "RUNNING"
         /\ ~fakeLeave(sched, g)
         /\ sched.markedForSleep[g] => pc[g] = "marked"

(* A core that has been promised is handed over before its thread does      *)
(* anything else, so a promised thread cannot be forgotten.                 *)
HandoffsPrompt ==
    \A g \in Threads : sched.handoffThread[g] # NoThread => pc[g] \in {"sync", "handoff"}

(* A thread that joins is still in a fake leave or outside (the assertion   *)
(* at scheduler.h:313).                                                     *)
JoinsFromOutside ==
    \A g \in Threads : Joins(g) => fakeLeave(sched, g) \/ sched.state[g] \notin {"RUNNING", "QUEUED"}

(* A thread that waits for a core or at the barrier eventually runs, even   *)
(* if the system calls of other threads never return.                       *)
WaitersRun == \A g \in Threads : pc[g] \in {"ctx", "rectx", "bar", "rebar", "sync"} ~> pc[g] \in {"run", "ff"}

(* A sleeping thread eventually wakes up, even if nobody else is running.   *)
SleepersWake == \A g \in Threads : sched.state[g] = "SLEEPING" ~> sched.state[g] # "SLEEPING"
=============================================================================
