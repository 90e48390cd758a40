----------------------------- MODULE WeavePhase -----------------------------
(***************************************************************************)
(* Bound and weave phases of a simulation with timing cores                *)
(* (contention_sim.cpp, and what the events of timing_cache.cpp,           *)
(* weave_md1_mem.h and the recorders do when they are simulated).  In the  *)
(* bound phase the cores run with zero-load latencies and record their     *)
(* misses; in the weave phase the simulation threads run the events of     *)
(* their domains up to the end of the phase, and the cores' clocks are     *)
(* then moved by the delays found.                                         *)
(*                                                                         *)
(* A step of a simulation thread ends where it reads or writes what other  *)
(* threads may use: a crossing's flag, a domain's clock, a core's slack.   *)
(* A failed assertion ends the simulation.                                 *)
(***************************************************************************)
EXTENDS CoreRecorders

CONSTANTS
    ThreadIds,    \* the simulation threads a layout may use
    MaxPhases     \* bound: phases simulated

VARIABLES
    inCSim,       \* the weave phase is on
    threads,      \* where each simulation thread is
    cache         \* the timing cache

vars == <<layout, g, domains, phase, core, inCSim, threads, cache>>

Thread == DOMAIN layout.threads

Idle(t) == [pq |-> {}, stalled |-> <<>>, next |-> <<>>, dom |-> NoDomain, fromStalled |-> FALSE,
            todo |-> <<>>, ev |-> NoEvent, pc |-> "pick", simCycle |-> 0, nextCycle |-> 0]

Init ==
    /\ layout \in Layouts
    /\ g = EmptyGraph
    /\ domains = [d \in Domain |-> [curCycle |-> 0, prio |-> 0, queuePrio |-> 0]]
    /\ phase = 0 /\ inCSim = FALSE
    /\ core = [r \in Recorder |-> NewCore]
    /\ threads = [t \in Thread |-> Idle(t)]
    /\ cache = [activeMisses |-> 0, pending |-> <<>>, lastAcc |-> 0, lastFree |-> 0]

----------------------------------------------------------------------------
(* The bound phase. *)

(* The core's step s may record events as long as the bound allows. *)
Bound(r, s) ==
    /\ ~inCSim /\ phase < MaxPhases /\ (s.g.n[r] <= layout.maxEvents \/ s.g = g)
    /\ g' = s.g /\ core' = [core EXCEPT ![r] = s.c]
    /\ UNCHANGED <<layout, domains, phase, inCSim, threads, cache>>

InPhase(r) == core[r].state = RUNNING /\ core[r].curCycle <= limit

join(r) == core[r].state # RUNNING /\ Bound(r, notifyJoin(g, core[r], r))

(* A basic block: b.instrs cycles in private caches, then the accesses     *)
(* that go beyond these, and possibly a system call that leaves.  Only     *)
(* between blocks does a core look whether the phase is over.  An access   *)
(* follows at least one instruction.                                       *)
Accesses(h, c, r, paths) ==
    FoldLeft(LAMBDA s, p : recordAccess(s.g, s.c, r, p), [g |-> h, c |-> c], paths)
syscall(s, r, leaves) == IF leaves THEN notifyLeave(s.g, s.c, r) ELSE s
bbl(r, b) ==
    /\ InPhase(r) /\ (b.paths # <<>> => core[r].curCycle + b.instrs > 0)
    /\ Bound(r, syscall(Accesses(g, [core[r] EXCEPT !.curCycle = @ + b.instrs], r, b.paths), r, b.leave))

----------------------------------------------------------------------------
(* simulatePhase: from the bound to the weave phase and back. *)

ForAllCores(op(_, _, _)) ==
    FoldSet(LAMBDA r, s : LET k == op(s.g, s.core[r], r)
                          IN  [g |-> k.g, core |-> [s.core EXCEPT ![r] = k.c]],
            [g |-> g, core |-> core], Recorder)

startWeave ==
    /\ ~inCSim /\ phase < MaxPhases
    /\ \A r \in Recorder : core[r].state = RUNNING => core[r].curCycle > limit
    /\ LET s == ForAllCores(cSimStart) IN g' = s.g /\ core' = s.core
    /\ inCSim' = TRUE
    /\ threads' = [t \in Thread |-> [Idle(t) EXCEPT !.pq = layout.threads[t]]]
    /\ UNCHANGED <<layout, domains, phase, cache>>

Finished(t) == threads[t].pc = "pick" /\ threads[t].pq = {} /\ threads[t].stalled = <<>>

endWeave ==
    /\ inCSim /\ \A t \in Thread : Finished(t)
    /\ LET s == ForAllCores(cSimEnd) IN g' = s.g /\ core' = s.core
    /\ inCSim' = FALSE /\ phase' = phase + 1
    /\ UNCHANGED <<layout, domains, threads, cache>>

----------------------------------------------------------------------------
(* simulatePhaseThread. *)

Queue(d) == {e \in DOMAIN g.ev : g.ev[e].dom = d /\ g.ev[e].state = QUEUED}
First(d) == {e \in Queue(d) : \A f \in Queue(d) : g.ev[e].privCycle <= g.ev[f].privCycle}
NextCycle(d) == IF Queue(d) = {} THEN limit ELSE g.ev[CHOOSE e \in First(d) : TRUE].privCycle
Multi(t) == Cardinality(layout.threads[t]) > 1
Over(t, d) == Queue(d) = {} \/ IF Multi(t) THEN NextCycle(d) > limit ELSE NextCycle(d) >= limit

(* The domain a thread turns to: the first by queuePrio, else a stalled one. *)
Turn(t, d) ==
    /\ inCSim /\ threads[t].pc = "pick"
    /\ IF threads[t].pq # {}
       THEN d \in threads[t].pq /\ \A f \in threads[t].pq : domains[d].queuePrio <= domains[f].queuePrio
       ELSE threads[t].stalled # <<>> /\ d = Last(threads[t].stalled)

Swap(th) == IF th.stalled = <<>> THEN [th EXCEPT !.stalled = th.next, !.next = <<>>] ELSE th
Take(th, d) == IF th.pq # {} THEN [th EXCEPT !.pq = @ \ {d}, !.fromStalled = FALSE]
               ELSE [th EXCEPT !.stalled = Front(@), !.fromStalled = TRUE]

finishDomain(t, d) ==
    /\ Turn(t, d) /\ Over(t, d)
    /\ domains' = [domains EXCEPT ![d].curCycle = limit]
    /\ threads' = [threads EXCEPT ![t] =
         IF threads[t].pq # {} THEN Take(@, d) ELSE Swap(Take(@, d))]
    /\ UNCHANGED <<layout, g, phase, core, inCSim, cache>>

dequeue(t, d, e) ==
    LET cycle == g.ev[e].privCycle
    IN  /\ Turn(t, d) /\ ~Over(t, d) /\ e \in First(d)
        /\ g' = Check([g EXCEPT !.ev[e].state = RUNNING], Multi(t) \/ cycle >= domains[d].curCycle)
        /\ domains' = [domains EXCEPT ![d].curCycle = cycle]
        /\ threads' = [threads EXCEPT ![t] =
             [Take(@, d) EXCEPT !.dom = d, !.ev = e, !.simCycle = cycle, !.pc = "simulate"]]
        /\ UNCHANGED <<layout, phase, core, inCSim, cache>>

(* The event is over: the domain's clock goes to its next event. *)
endRun(t) ==
    LET d == threads[t].dom
        th == [threads[t] EXCEPT !.pc = "pick", !.dom = NoDomain, !.ev = NoEvent,
                                 !.simCycle = 0, !.nextCycle = 0]
        run == domains[d].prio = 0
    IN  /\ threads[t].pc = "end"
        /\ g' = Check(g, Multi(t) \/ NextCycle(d) >= domains[d].curCycle)
        /\ domains' = [domains EXCEPT ![d].curCycle = NextCycle(d), 
                                       ![d].queuePrio = IF Multi(t) THEN NextCycle(d) ELSE @]
        /\ threads' = [threads EXCEPT ![t] =
             CASE ~Multi(t) -> [th EXCEPT !.pq = {d}]
               [] Multi(t) /\ ~th.fromStalled ->
                    IF run THEN [th EXCEPT !.pq = @ \cup {d}] ELSE [th EXCEPT !.stalled = Append(@, d)]
               [] Multi(t) /\ th.fromStalled ->
                    Swap(IF run THEN [th EXCEPT !.pq = @ \cup {d}] ELSE [th EXCEPT !.next = Append(@, d)])]
        /\ UNCHANGED <<layout, phase, core, inCSim, cache>>

----------------------------------------------------------------------------
(* What the events do (their simulate methods).  Each returns the graph,   *)
(* the notifications to make, the cache and the cores.                     *)

(* Notifications within a domain concern no other thread and are made at   *)
(* once, up to the first that reaches a crossing.                          *)
RECURSIVE Notify(_)
Notify(s) ==
    IF s.todo = <<>> \/ IsSrcHalf(s.todo[1][1]) THEN s
    ELSE IF s.g.ev[s.todo[1][1]].kind = "cross" THEN s
    ELSE LET r == parentDone(s.g, s.todo[1][1], s.todo[1][2])
         IN  Notify([g |-> r.g, todo |-> r.todo \o Tail(s.todo)])

Outcome(s, c, k) == [g |-> s.g, todo |-> s.todo, cache |-> c, core |-> k]
Again(h, e, cycle) == [g |-> enqueue(h, e, cycle), todo |-> <<>>]
(* Mutant: the event is not marked as held. *)
Hold_Forgotten(h, e) == [g |-> h, todo |-> <<>>]
Hold(h, e) == [g |-> [h EXCEPT !.ev[e].state = HELD], todo |-> <<>>]

simulateCore(h, e, cycle) ==
    LET c == core[e[1]]
        inOrder == c.lastEv = e /\ ~layout.ooo => c.state = DRAINING
    IN  Outcome(done(Check(h, inOrder), e, cycle), cache,
                [core EXCEPT ![e[1]] = reportEventSimulated(c, e, cycle, h.ev[e].arg)])

highPrioAccess(c, cycle) ==
    [c EXCEPT !.lastAcc = MAX(cycle, c.lastAcc + 1),
              !.lastFree = IF c.lastAcc < cycle - 1 THEN cycle - 1 ELSE @]

(* Mutant: one MSHR too many. *)
MSHRFree_Lax == cache.activeMisses <= layout.mshrs
MSHRFree == cache.activeMisses < layout.mshrs

(* simulateHit, and simulateMissStart, which takes an MSHR. *)
simulateLookup(h, e, cycle) ==
    LET c == highPrioAccess(cache, cycle)
        taken == IF h.ev[e].kind = "missStart" THEN 1 ELSE 0
    IN  IF MSHRFree
        THEN Outcome(done(Check(h, cycle >= cache.lastFree), e, c.lastAcc),
                     [c EXCEPT !.activeMisses = @ + taken], core)
        ELSE Outcome(Hold(h, e), [cache EXCEPT !.pending = Append(@, e)], core)

(* tryLowPrioAccess: was the previous cycle free? *)
LowPrioGranted(cycle) == cache.lastAcc < cycle - 1 \/ cache.lastFree = cycle - 1

(* The MSHR is released and the accesses that wait for one try again. *)
simulateMissWriteback(h, e, cycle) ==
    IF LowPrioGranted(cycle)
    THEN Outcome(done(Check(FoldLeft(LAMBDA k, q : enqueue(k, q, cycle + 1), h, cache.pending),
                            cache.activeMisses > 0), e, cycle),
                 [activeMisses |-> cache.activeMisses - 1, pending |-> <<>>,
                  lastAcc |-> MAX(cycle - 1, cache.lastAcc), lastFree |-> 0], core)
    ELSE Outcome(Again(h, e, cycle + 1), cache, core)

simulateEvent(h, e, cycle) ==
    CASE h.ev[e].kind = "core" -> simulateCore(h, e, cycle)
      [] h.ev[e].kind \in {"hit", "missStart"} -> simulateLookup(h, e, cycle)
      [] h.ev[e].kind \in {"missResp", "disp", "resp"} -> Outcome(done(h, e, cycle), cache, core)
      [] h.ev[e].kind = "missWb" -> simulateMissWriteback(h, e, cycle)
      [] h.ev[e].kind = "mem" -> Outcome(done(h, e, cycle + h.ev[e].arg), cache, core)

At(t, todo) == [threads EXCEPT ![t].todo = todo, ![t].pc = IF todo = <<>> THEN "end" ELSE "notify"]

simulate(t) ==
    LET e == threads[t].ev
        s == simulateEvent(g, e, threads[t].simCycle)
        n == Notify([g |-> s.g, todo |-> s.todo])
    IN  /\ threads[t].pc = "simulate" /\ g.ev[e].kind # "cross"
        /\ g' = n.g /\ cache' = s.cache /\ core' = s.core /\ threads' = At(t, n.todo)
        /\ UNCHANGED <<layout, domains, phase, inCSim>>

(* The next notification reaches a crossing: its source half, or the       *)
(* crossing itself where it is chained.                                    *)
notify(t) ==
    LET ref == threads[t].todo[1][1]
        cycle == threads[t].todo[1][2]
        s == IF IsSrcHalf(ref) THEN [g |-> markSrcEventDone(g, Crossing(ref), cycle), todo |-> <<>>]
             ELSE parentDone(g, ref, cycle)
        n == Notify([g |-> s.g, todo |-> s.todo \o Tail(threads[t].todo)])
    IN  /\ threads[t].pc = "notify"
        /\ g' = n.g /\ threads' = At(t, n.todo)
        /\ UNCHANGED <<layout, domains, phase, core, inCSim, cache>>

----------------------------------------------------------------------------
(* CrossingEvent::simulate.  Until the source half is done, the crossing   *)
(* polls: it moves to a cycle before which the source cannot be done.      *)

runCrossing(t) ==
    LET x == threads[t].ev
        s == done(g, x, MAX(threads[t].simCycle, g.xing[x].doneCycle))
        n == Notify([g |-> s.g, todo |-> s.todo])
    IN  /\ g.xing[x].called
        /\ domains' = [domains EXCEPT ![threads[t].dom].prio = 0]
        /\ g' = n.g /\ threads' = At(t, n.todo)
        /\ UNCHANGED <<layout, phase, core, inCSim, cache>>

simulateCrossing(t) ==
    LET x == threads[t].ev
    IN  /\ threads[t].pc = "simulate" /\ g.ev[x].kind = "cross"
        /\ \/ runCrossing(t)
           \/ /\ ~g.xing[x].called
              /\ threads' = [threads EXCEPT ![t].pc = "readCycle"]
              /\ UNCHANGED <<layout, g, domains, phase, core, inCSim, cache>>

(* Mutant: the slack of the crossing is not used. *)
srcCycle_NoSlack(x) == domains[x.srcDomain].curCycle
srcCycle(x) == domains[x.srcDomain].curCycle + x.preSlack + x.postSlack

readSrcCycle(t) ==
    LET x == g.xing[threads[t].ev]
    IN  /\ threads[t].pc = "readCycle"
        /\ threads' = [threads EXCEPT ![t].pc = "readSlack",
              ![t].nextCycle = MAX(srcCycle(x), threads[t].simCycle)]
        /\ UNCHANGED <<layout, g, domains, phase, core, inCSim, cache>>

readSlack(t) ==
    LET x == g.xing[threads[t].ev]
    IN  /\ threads[t].pc = "readSlack"
        /\ threads' = [threads EXCEPT ![t].pc = "recheck",
              ![t].nextCycle = MAX(@, x.origStart + core[threads[t].ev[1]].startSlack + x.postSlack)]
        /\ UNCHANGED <<layout, g, domains, phase, core, inCSim, cache>>

poll(t) ==
    LET x == threads[t].ev
        next == threads[t].nextCycle
    IN  /\ g' = enqueue(g, x, next)
        /\ domains' = [domains EXCEPT ![threads[t].dom].prio = IF next = threads[t].simCycle THEN 1 ELSE 2]
        /\ threads' = At(t, <<>>)
        /\ UNCHANGED <<layout, phase, core, inCSim, cache>>

(* Mutant: the flag is not looked at again. *)
recheck_Blind(t) == threads[t].pc = "recheck" /\ poll(t)
recheck(t) ==
    threads[t].pc = "recheck" /\ (runCrossing(t) \/ (~g.xing[threads[t].ev].called /\ poll(t)))

(* No assertion has failed. *)
Alive == g.ok /\ g.failed = {}

(* The simulation ends between phases, or with a failed assertion. *)
finish == ((~inCSim /\ phase = MaxPhases) \/ ~Alive) /\ UNCHANGED vars

ThreadStep(t) ==
    \/ \E d \in layout.threads[t] : finishDomain(t, d) \/ \E e \in First(d) : dequeue(t, d, e)
    \/ simulate(t) \/ notify(t) \/ endRun(t)
    \/ simulateCrossing(t) \/ readSrcCycle(t) \/ readSlack(t) \/ recheck(t)

Next ==
    \/ /\ Alive
       /\ \/ \E r \in Recorder : join(r) \/ \E b \in layout.blocks : bbl(r, b)
          \/ startWeave \/ endWeave
          \/ \E t \in Thread : ThreadStep(t)
    \/ finish

(* Weak fairness of every simulation thread and of the end of the phase.   *)
(* The thread's steps are those that change threads[t], and one is enabled *)
(* until the thread is Finished or an assertion fails; spelled out because *)
(* TLC is slow to find out whether these actions are enabled.              *)
Fairness ==
    /\ \A t \in ThreadIds :
         \/ []<>(t \in Thread /\ inCSim /\ Alive => Finished(t))
         \/ []<><<t \in Thread /\ threads'[t] # threads[t]>>_vars
    /\ \/ []<>(inCSim /\ Alive => \E t \in Thread : ~Finished(t))
       \/ []<><<inCSim # inCSim'>>_vars

Spec == Init /\ [][Next]_vars /\ Fairness

----------------------------------------------------------------------------
(* Properties. *)

(* References to an event: parents to come and parentDone calls to make. *)
RefCount(ref) ==
    Cardinality({<<e, i>> \in UNION {{e} \X DOMAIN g.ev[e].children : e \in DOMAIN g.ev} :
                    g.ev[e].children[i] = ref})
    + Cardinality({<<t, i>> \in UNION {{t} \X DOMAIN threads[t].todo : t \in Thread} :
                    threads[t].todo[i][1] = ref})

(* Type correctness, and no event is lost: an event waits for exactly the  *)
(* parents that still refer to it, and if it waits for none, it is in a    *)
(* domain's queue, held by the cache, or being simulated by a thread of    *)
(* its domain.  The source half of a crossing is pending until it is       *)
(* called, and recorders only keep events that still exist.                *)
GraphSound ==
    /\ phase \in 0 .. MaxPhases /\ inCSim \in BOOLEAN
    /\ \A e \in DOMAIN g.ev :
         /\ g.ev[e].dom \in Domain /\ g.ev[e].state \in {NONE, QUEUED, RUNNING, HELD}
         /\ g.ev[e].parents = RefCount(e)
         /\ g.ev[e].state = NONE <=> g.ev[e].parents > 0
         /\ g.ev[e].state = HELD <=> e \in Range(cache.pending)
         /\ g.ev[e].state = RUNNING <=> \E t \in Thread : threads[t].ev = e /\ threads[t].pc # "end"
         /\ g.ev[e].kind = "cross" <=> e \in DOMAIN g.xing
    /\ \A x \in DOMAIN g.xing : RefCount(<<x[1], -x[2]>>) = (IF g.xing[x].called THEN 0 ELSE 1)
    /\ \A r \in Recorder : core[r].lastEv \in DOMAIN g.ev \cup {NoEvent}

(* An out-of-order core on a thread that simulates several domains.  Such  *)
(* a thread also runs the events of cycle limit (contention_sim.cpp:372    *)
(* and 391; a thread with one domain stops before, line 301), and that is  *)
(* the cycle of the event that closes the core's sequence                  *)
(* (ooo_core_recorder.cpp:293).                                            *)
TapersAtLimit ==
    layout.ooo /\ \E t \in Thread, r \in Recorder : Multi(t) /\ layout.cores[r] \in layout.threads[t]

(* Misses with dirty victims, the memory in neither the cache's nor the    *)
(* core's domain: the answers of both requests become children three and   *)
(* four of the miss while its children are visited                         *)
(* (contention_sim.cpp:235).                                               *)
DirtyVictimsCross ==
    /\ layout.mem # layout.cache /\ \E r \in Recorder : layout.mem # layout.cores[r]
    /\ \E b \in layout.blocks : \E i \in DOMAIN b.paths : b.paths[i].evict = "dirty"

(* The assertions of the recorders, the events and the contention          *)
(* simulator hold: events are never queued in the past of their domain or  *)
(* before the last limit, crossings are only chained to events still to    *)
(* come, and contention never makes a core faster (behind a memory that is *)
(* never faster than its zero-load latency).  There are two exceptions.    *)
(* That a running core's sequence is never used up within a phase          *)
(* (core_recorder.cpp:209, ooo_core_recorder.cpp:348) may fail where an    *)
(* out-of-order core TapersAtLimit, and that all children of an event are  *)
(* visited (timing_event.h:249) where DirtyVictimsCross; in every other    *)
(* system both hold.                                                       *)
AssertsHold ==
    /\ g.ok
    /\ TAPERED \in g.failed => TapersAtLimit
    /\ VISITED \in g.failed => DirtyVictimsCross

(* No event starts before its minStartCycle, the zero-load time (the       *)
(* assertion that run() has commented out).  This holds for a memory that  *)
(* is never faster than its zero-load latency, as the one of               *)
(* weave_md1_mem.h; the DDR memory may answer a row hit earlier than its   *)
(* estimate (ddr_mem.cpp:270), and events after the answer start too soon. *)
(* And no crossing polls past the time its source was done by more than    *)
(* its slack (the assertion that CrossingEvent::simulate has commented     *)
(* out), except that a chained crossing is not queued before the one it is *)
(* chained to is done, the cycle of its last parentDone.                   *)
OnTime == \A t \in Thread : threads[t].pc \in {"simulate", "recheck"} =>
    LET e == threads[t].ev
        x == g.xing[e]
    IN  /\ threads[t].simCycle >= g.ev[e].minStart
        /\ e \in DOMAIN g.xing /\ x.called =>
             threads[t].simCycle <= MAX(g.ev[e].cycle, x.doneCycle + x.preSlack + x.postSlack + 1)

(* The MissStartEvent of a miss, allocated two events before its           *)
(* MissWritebackEvent.                                                     *)
Mse(mwe) == <<mwe[1], mwe[2] - 2>>

(* The timing cache's count of MSHRs in use is the number of misses        *)
(* started and not yet written back, never exceeds numMSHRs, and accesses  *)
(* are only held while all are in use.                                     *)
MSHRsExact ==
    /\ cache.activeMisses = Cardinality({e \in DOMAIN g.ev :
                                g.ev[e].kind = "missWb" /\ Mse(e) \notin DOMAIN g.ev})
    /\ cache.activeMisses <= layout.mshrs
    /\ cache.pending # <<>> => cache.activeMisses = layout.mshrs

(* Every weave phase ends: domains that wait for each other's clocks, on   *)
(* one thread or on several, all reach the limit, unless one of the two    *)
(* assertions that AssertsHold excepts ends the simulation.                *)
PhaseEnds == inCSim ~> (~inCSim \/ g.failed # {})
=============================================================================
