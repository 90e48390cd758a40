---------------------------- MODULE TimingEvents ----------------------------
(***************************************************************************)
(* The event graphs of the contention simulation (timing_event.h, .cpp,    *)
(* event_recorder.h and the enqueue methods of contention_sim.cpp).  An    *)
(* event runs once all its parents are done; a parent and a child in       *)
(* different domains are joined by a crossing, a pair of events one of     *)
(* which takes the child's place in the parent's domain and the other the  *)
(* parent's place in the child's.                                          *)
(*                                                                         *)
(* The methods are operators on the graph g.  An event is named by its     *)
(* recorder and a number, <<r, n>>; <<r, -n>> is the source half of the    *)
(* crossing <<r, n>> (getSrcDomainEvent).  The assertions of these methods *)
(* are collected in g.ok, apart from two that some systems fail: g.failed  *)
(* has the names of those of the two that have failed.                     *)
(***************************************************************************)
EXTENDS Integers, Sequences, FiniteSets, SequencesExt, Functions

CONSTANTS
    Layouts,       \* which domain and which thread every component belongs to
    PhaseLength    \* zinfo->phaseLength

VARIABLES
    layout,        \* the layout of this run
    g,             \* the graph: live events, crossings, lastCrossing, event numbers
    domains,       \* ContentionSim::domains: clock and priorities of each domain
    phase,         \* phases simulated so far: lastLimit = globPhaseCycles = phase * PhaseLength
    core           \* the recorder and the clock of each core

NONE == "NONE"
QUEUED == "QUEUED"
RUNNING == "RUNNING"
HELD == "HELD"
NoDomain == -1
NoEvent == <<-1, 0>>

Recorder == DOMAIN layout.cores
Domain == UNION {layout.threads[t] : t \in DOMAIN layout.threads}
lastLimit == phase * PhaseLength
limit == lastLimit + PhaseLength

MAX(a, b) == IF a >= b THEN a ELSE b

Event(kind, r, dom, pre, post, min, arg) ==
    [kind |-> kind, rec |-> r, dom |-> dom, preDelay |-> pre, postDelay |-> post,
     minStart |-> min, arg |-> arg, state |-> NONE, parents |-> 0, children |-> <<>>,
     cycle |-> 0, privCycle |-> 0]
DelayEvent(r, delay, min) == Event("delay", r, NoDomain, delay, 0, min, 0)

EmptyGraph ==
    [ev |-> <<>>, xing |-> <<>>, n |-> [r \in Recorder |-> 0], stack |-> <<>>, ok |-> TRUE, failed |-> {},
     last |-> [r \in Recorder |-> [d \in Domain \X Domain |-> [cycle |-> 0, ev |-> NoEvent]]]]

(* new (evRec) for a sequence of events; NewId is the name of the k-th. *)
NewId(h, r, k) == <<r, h.n[r] + k>>
New(h, r, events) ==
    [h EXCEPT !.n[r] = @ + Len(events),
              !.ev = @ @@ [e \in {NewId(h, r, k) : k \in DOMAIN events} |-> events[e[2] - h.n[r]]]]

Check(h, cond) == [h EXCEPT !.ok = @ /\ cond]
CheckNamed(h, name, cond) == [h EXCEPT !.failed = IF cond THEN @ ELSE @ \cup {name}]
VISITED == "visitedChildren == numChildren"
TAPERED == "state == DRAINING"

(* A child without a domain takes its parent's.  Every chain is linked     *)
(* from its head down, which has the effect of propagateDomain.            *)
addChild(h, p, c) ==
    LET k == [h EXCEPT !.ev[p].children = Append(@, c),
                       !.ev[c].parents = @ + 1,
                       !.ev[c].dom = IF @ = NoDomain THEN h.ev[p].dom ELSE @]
    IN  Check(k, h.ev[p].state \in {NONE, QUEUED} /\ h.ev[c].state = NONE)

Link(h, links) == FoldLeft(LAMBDA k, l : addChild(k, l[1], l[2]), h, links)

(* TimingEvent::queue and ContentionSim::enqueueSynced. *)
enqueueSynced(h, e, cycle) ==
    Check([h EXCEPT !.ev[e].state = QUEUED, !.ev[e].privCycle = cycle],
           h.ev[e].state = NONE /\ h.ev[e].parents = 0 /\ cycle >= lastLimit)

(* ContentionSim::enqueue. *)
enqueue(h, e, cycle) ==
    Check([h EXCEPT !.ev[e].state = QUEUED, !.ev[e].privCycle = cycle],
           h.ev[e].parents = 0 /\ cycle >= lastLimit /\ cycle >= domains[h.ev[e].dom].curCycle)

----------------------------------------------------------------------------
(* Crossings. *)

(* A crossing that goes back where the innermost open one came from is its *)
(* response and is chained to the request's parent; another one is chained *)
(* to the previous request between the two domains if that is still to     *)
(* come, or queued.                                                        *)
enqueueCrossing(h, x, cycle) ==
    LET src == h.xing[x].srcDomain
        dst == h.ev[x].dom
        req == Last(h.stack)
        last == h.last[x[1]][<<src, dst>>]
    IN  IF h.stack # <<>> /\ h.xing[req].srcDomain = dst /\ h.ev[req].dom = src
        THEN addChild([h EXCEPT !.stack = Front(@)], h.xing[req].parentEv, x)
        ELSE LET k == [h EXCEPT !.stack = Append(@, x),
                                !.last[x[1]][<<src, dst>>] = [cycle |-> cycle, ev |-> x]]
             IN  IF last.cycle > domains[src].curCycle /\ last.cycle <= cycle
                 THEN IF last.ev \in DOMAIN h.ev THEN addChild(k, last.ev, x) ELSE Check(k, FALSE)
                 ELSE enqueueSynced(Check(k, cycle >= domains[src].curCycle), x, cycle)

(* Delay stealing: a crossing takes at least a cycle. *)
preSlack(p) == MAX(p.postDelay, 1)

(* The i-th child of e is in another domain: handleCrossing and the        *)
(* constructor of CrossingEvent.                                           *)
handleCrossing(h, e, i) ==
    LET p == h.ev[e]
        c == p.children[i]
        x == NewId(h, e[1], 1)
        min == p.minStart + preSlack(p)
        xev == [Event("cross", e[1], h.ev[c].dom, 0, 0, min, 0) EXCEPT !.children = <<c>>]
        info == [srcDomain |-> p.dom, parentEv |-> e, called |-> FALSE, doneCycle |-> 0,
                 preSlack |-> preSlack(p), postSlack |-> h.ev[c].preDelay,
                 origStart |-> min - core[e[1]].gapCycles]
        k == [New(h, e[1], <<xev>>) EXCEPT
                 !.xing = @ @@ [y \in {x} |-> info],
                 !.ev[e].children[i] = <<x[1], -x[2]>>]
    IN  enqueueCrossing(k, x, MAX(lastLimit, min))

IsSrcHalf(ref) == ref[2] < 0
Crossing(ref) == <<ref[1], -ref[2]>>
BLOCK == 3   \* TIMING_BLOCK_EVENTS
Blocks(n) == (n + BLOCK - 1) \div BLOCK

RECURSIVE produceCrossings(_, _), followChild(_, _, _), visitBlocks(_, _, _, _)

followChild(h, e, i) ==
    LET c == h.ev[e].children[i]
    IN  CASE IsSrcHalf(c) -> h
          [] ~IsSrcHalf(c) /\ h.ev[c].dom # h.ev[e].dom -> produceCrossings(handleCrossing(h, e, i), c)
          [] OTHER -> produceCrossings(h, c)

(* visitChildren: blocks of three, the newest first.  A child added        *)
(* meanwhile is visited only if it goes into the block being visited; it   *)
(* is not if it opens a new block, or if the visit has gone on to an older *)
(* one.  s has the graph and visitedChildren.                              *)
visitBlocks(s, e, b, i) ==
    LET n == BLOCK * (b - 1) + i
        more == i < BLOCK /\ n < Len(s.g.ev[e].children)
    IN  CASE more -> visitBlocks([g |-> followChild(s.g, e, n + 1), visited |-> s.visited + 1], e, b, i + 1)
          [] ~more /\ b > 1 -> visitBlocks(s, e, b - 1, 0)
          [] OTHER -> s

produceCrossings(h, e) ==
    LET n == Len(h.ev[e].children)
        s == visitBlocks([g |-> h, visited |-> 0], e, Blocks(n), 0)
    IN  CASE n = 0 -> h
          [] n = 1 -> followChild(h, e, 1)
          [] OTHER -> CheckNamed(s.g, VISITED, s.visited = Len(s.g.ev[e].children))

----------------------------------------------------------------------------
(* Running events.  A pair <<ref, cycle>> is a parentDone(cycle) to come.  *)

(* The order in which done() visits the children. *)
VisitOrder(s) ==
    LET n == Blocks(Len(s))
    IN  FlattenSeq([b \in 1 .. n |->
            SubSeq(s, BLOCK * (n - b) + 1, IF b = 1 THEN Len(s) ELSE BLOCK * (n - b + 1))])

done(h, e, cycle) ==
    LET order == VisitOrder(h.ev[e].children)
    IN  [g |-> [h EXCEPT !.ev = Restrict(@, DOMAIN @ \ {e}),
                         !.xing = Restrict(@, DOMAIN @ \ {e})],
         todo |-> [i \in DOMAIN order |-> <<order[i], cycle + h.ev[e].postDelay>>]]

parentDone(h, e, cycle) ==
    LET x == h.ev[e].kind = "cross"
        start == MAX(h.ev[e].cycle, IF x THEN MAX(cycle, h.ev[e].minStart) ELSE cycle)
        late == x /\ h.xing[e].called /\ h.xing[e].doneCycle < MAX(cycle, h.ev[e].minStart)
        k == [h EXCEPT !.ev[e].cycle = start, !.ev[e].parents = @ - 1,
                       !.xing = IF late THEN [@ EXCEPT ![e].doneCycle = MAX(cycle, h.ev[e].minStart)] ELSE @]
    IN  CASE h.ev[e].parents > 1 -> [g |-> k, todo |-> <<>>]
          [] h.ev[e].parents = 1 /\ h.ev[e].kind = "delay" -> done(k, e, start + h.ev[e].preDelay)
          [] OTHER -> [g |-> Check(enqueue(k, e, start + h.ev[e].preDelay),
                                    h.ev[e].parents = 1 /\ h.ev[e].state = NONE),
                       todo |-> <<>>]

markSrcEventDone(h, x, cycle) ==
    Check([h EXCEPT !.xing[x].called = TRUE, !.xing[x].doneCycle = cycle],
           ~h.xing[x].called /\ cycle >= domains[h.xing[x].srcDomain].curCycle)
=============================================================================
