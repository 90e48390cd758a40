--------------------------- MODULE CoreRecorders ----------------------------
(***************************************************************************)
(* How cores record their accesses as event graphs in the bound phase, and *)
(* how the weave phase moves their clocks: CoreRecorder (core_recorder.cpp *)
(* with timing_core.cpp) for in-order cores, OOOCoreRecorder               *)
(* (ooo_core_recorder.cpp) for out-of-order ones, and the timing records   *)
(* that timing_cache.cpp, weave_md1_mem.h and cache.cpp make of an access. *)
(*                                                                         *)
(* The methods of a recorder take the graph h and the state c of core r    *)
(* and return both, as [g, c].                                             *)
(***************************************************************************)
EXTENDS TimingEvents

CONSTANTS
    AccLat,       \* accLat of the timing cache
    ZeroLoad      \* zeroLoadLatency and boundLatency of the memory

HALTED == "HALTED"
DRAINING == "DRAINING"
preDelay == ZeroLoad \div 2
postDelay == ZeroLoad - preDelay

(* lastEv is prevRespEvent or lastEvProduced; future is futureResponses.   *)
(* lastStart and lastOrigStart belong to the last core event simulated.    *)
NewCore ==
    [state |-> HALTED, curCycle |-> 0, gapCycles |-> 0, lastEv |-> NoEvent, lastCycle |-> 0,
     lastStart |-> 0, lastOrigStart |-> 0, startSlack |-> 0, lastUnhalted |-> 0, future |-> {}]

CoreEvent(r, dom, delay, min, orig) == Event("core", r, dom, 0, delay, min, orig)
IssueEvent(r, pre, min, zll) == Event("core", r, layout.cores[r], pre, 0, min, zll)

----------------------------------------------------------------------------
(* The events of one access. *)

MemAccEvent(r, lat, cycle) == Event("mem", r, layout.mem, preDelay, postDelay, cycle, lat)
HitEvent(r, req) == Event("hit", r, layout.cache, 0, AccLat, req, 0)

(* TimingCache::access at cycle req: the events, links between them (they  *)
(* are numbered from i on), the response's cycle and event.  What is       *)
(* evicted is nothing (an upgrade), a clean or a dirty line.               *)
CacheHit(r, i, req) ==
    [events |-> <<HitEvent(r, req)>>, links |-> <<>>, respCycle |-> req + AccLat, end |-> i]

CacheMiss(r, i, req, lat, evict) ==
    LET up == req + AccLat
        mse == Event("missStart", r, layout.cache, 0, AccLat, req, 0)
        mre == Event("missResp", r, layout.cache, 0, 0, up + ZeroLoad, 0)
        mwe == Event("missWb", r, layout.cache, 0, AccLat, up + ZeroLoad, 0)
        get == <<<<i, i + 3>>, <<i + 3, i + 1>>, <<i + 1, i + 2>>>>
        wb == CASE evict = "none" -> <<>>
                [] evict = "clean" -> <<<<i, i + 2>>>>
                [] evict = "dirty" -> <<<<i, i + 4>>, <<i + 4, i + 2>>>>
    IN  [events |-> <<mse, mre, mwe, MemAccEvent(r, lat, up)>>
                    \o (IF evict = "dirty" THEN <<MemAccEvent(r, lat, up)>> ELSE <<>>),
         links |-> get \o wb, respCycle |-> up + ZeroLoad, end |-> i + 1]

(* Cache::access of a private cache that writes a line back before its     *)
(* miss: the write-back hits in the timing cache, and the two records      *)
(* become one.                                                             *)
Stitch(r, i, req, acc) ==
    [acc EXCEPT
        !.events = <<DelayEvent(r, 0, req), DelayEvent(r, 0, req), DelayEvent(r, 0, req),
                     HitEvent(r, req)>> \o @,
        !.links = <<<<i, i + 1>>, <<i + 1, i + 3>>, <<i, i + 2>>, <<i + 2, i + 4>>>> \o @]

Record(r, i, req, path) ==
    LET acc(k) == IF path.hit THEN CacheHit(r, k, req) ELSE CacheMiss(r, k, req, path.lat, path.evict)
    IN  IF path.put THEN Stitch(r, i, req, acc(i + 4)) ELSE acc(i)

Named(h, r, links) == [k \in DOMAIN links |-> <<NewId(h, r, links[k][1]), NewId(h, r, links[k][2])>>]
Recorded(h, e) == [produceCrossings(h, e) EXCEPT !.stack = <<>>]

(* notifyJoin of a halted core, the same in both recorders; an             *)
(* out-of-order core does not move its clock back.                         *)
joinHalted(h, c, r) ==
    LET e == NewId(h, r, 1)
        k == New(h, r, <<CoreEvent(r, layout.cores[r], 0, lastLimit, lastLimit)>>)
    IN  [g |-> Check(enqueueSynced(k, e, lastLimit), c.lastEv = NoEvent /\ c.lastUnhalted <= lastLimit),
         c |-> [c EXCEPT !.state = RUNNING, !.gapCycles = 0, !.lastEv = e, !.startSlack = 0,
                         !.curCycle = IF layout.ooo THEN MAX(@, lastLimit) ELSE lastLimit,
                         !.lastCycle = lastLimit]]

----------------------------------------------------------------------------
(* CoreRecorder. *)

(* Core events after the last one, each starting where the one before      *)
(* ends.                                                                   *)
Extend(h, c, r, delays) ==
    LET start(k) == c.lastCycle + (IF k = 1 THEN 0 ELSE delays[1])
        events == [k \in DOMAIN delays |->
                     CoreEvent(r, NoDomain, delays[k], start(k), start(k) - c.gapCycles)]
        links == [k \in DOMAIN delays |->
                     <<IF k = 1 THEN c.lastEv ELSE NewId(h, r, k - 1), NewId(h, r, k)>>]
    IN  [g |-> Link(New(h, r, events), links),
         c |-> [c EXCEPT !.lastEv = NewId(h, r, Len(delays)), !.lastCycle = c.curCycle]]

inorderJoin(h, c, r) ==
    [g |-> Check(h, c.curCycle >= lastLimit), c |-> [c EXCEPT !.state = RUNNING]]

inorderLeave(h, c, r) ==
    LET s == Extend(h, c, r, <<c.curCycle - c.lastCycle, 0>>)
    IN  [s EXCEPT !.c.state = DRAINING]

(* recordAccess of a GET; the core waits for the response. *)
inorderAccess(h, c, r, path) ==
    LET rec == Record(r, 2, c.curCycle, path)
        ev == CoreEvent(r, NoDomain, c.curCycle - c.lastCycle, c.lastCycle, c.lastCycle - c.gapCycles)
        links == <<<<c.lastEv, NewId(h, r, 1)>>>> \o Named(h, r, <<<<1, 2>>>> \o rec.links)
    IN  [g |-> Recorded(Link(New(h, r, <<ev>> \o rec.events), links), c.lastEv),
         c |-> [c EXCEPT !.curCycle = rec.respCycle, !.lastCycle = rec.respCycle,
                         !.lastEv = NewId(h, r, rec.end)]]


(* The event that closes the sequence starts in the next phase. *)
inorderSimStart(h, c, r) ==
    LET delay == c.curCycle - c.lastCycle
        s == Extend(h, c, r, IF delay > 0 THEN <<delay, 0>> ELSE <<0>>)
    IN  [s EXCEPT !.g = Check(@, c.curCycle >= limit)]

----------------------------------------------------------------------------
(* OOOCoreRecorder. *)

zllStart(h, c) == h.ev[c.lastEv].arg

addIssueEvent(h, c, r, evCycle) ==
    LET zll == evCycle - c.gapCycles
        prior == {f \in c.future : f.zll < zll}
        linked == {f \in prior : f.ev # NoEvent}
        maxCycle == FoldSet(MAX, 0, {f.zll : f \in linked})
        pre == IF maxCycle > 0 THEN zll - maxCycle ELSE 0
        delay == DelayEvent(r, zll - zllStart(h, c) - pre, h.ev[c.lastEv].minStart)
        ev == NewId(h, r, 2)
        responses == SetToSeq({<<f.ev, ev>> : f \in linked})
        k == Link(New(h, r, <<delay, IssueEvent(r, pre, evCycle, zll)>>),
                  responses \o <<<<c.lastEv, NewId(h, r, 1)>>, <<NewId(h, r, 1), ev>>>>)
    IN  [g |-> Check(k, zll >= zllStart(h, c) /\ \A f \in linked : f.zll >= zllStart(h, c)),
         c |-> [c EXCEPT !.lastEv = ev, !.future = @ \ prior]]

oooJoin(h, c, r) ==
    LET s == addIssueEvent(h, c, r, c.curCycle)
    IN  [g |-> Check(s.g, c.curCycle >= lastLimit), c |-> [s.c EXCEPT !.state = RUNNING]]

oooLeave(h, c, r) ==
    LET s == addIssueEvent(h, c, r, c.curCycle)
    IN  [s EXCEPT !.c.state = DRAINING]

(* recordAccess of a GET that is dispatched path.wait cycles after it is   *)
(* issued; its response takes path.down cycles to reach the core, which    *)
(* runs on.                                                                *)
dispatchAccess(h, c, r, path) ==
    LET dispatch == c.curCycle + path.wait
        zllDispatch == dispatch - c.gapCycles
        earlier == SetToSeq({f \in c.future : f.zll < zllDispatch /\ f.ev # NoEvent})
        n == Len(earlier)
        rec == Record(r, n + 5, dispatch, path)
        respCycle == rec.respCycle + path.down
        delays == [k \in 1 .. n |-> DelayEvent(r, zllDispatch - earlier[k].zll, -1)]
        events == <<DelayEvent(r, path.wait, c.curCycle),
                    Event("disp", r, NoDomain, 0, 0, dispatch, 0),
                    DelayEvent(r, 0, dispatch),
                    Event("resp", r, layout.cores[r], path.down, 0, respCycle, 0)>>
        waits == FlattenSeq([k \in 1 .. n |->
                   <<<<earlier[k].ev, NewId(h, r, k + 4)>>, <<NewId(h, r, k + 4), NewId(h, r, 2)>>>>])
        links == waits \o <<<<c.lastEv, NewId(h, r, 1)>>>>
                 \o Named(h, r, <<<<1, 2>>, <<2, 3>>, <<3, n + 5>>>> \o rec.links \o <<<<rec.end, 4>>>>)
    IN  [g |-> Recorded(Link(New(h, r, events \o delays \o rec.events), links), c.lastEv),
         c |-> [c EXCEPT !.future = @ \cup {[zll |-> respCycle - c.gapCycles, ev |-> NewId(h, r, 4)]}]]

oooAccess(h, c, r, path) ==
    LET s == addIssueEvent(h, c, r, c.curCycle) IN dispatchAccess(s.g, s.c, r, path)

oooSimStart(h, c, r) ==
    LET s == IF zllStart(h, c) < limit - c.gapCycles THEN addIssueEvent(h, c, r, limit)
             ELSE [g |-> h, c |-> c]
    IN  [s EXCEPT !.g = Check(@, c.curCycle > limit /\ zllStart(h, c) <= c.curCycle - c.gapCycles)]

----------------------------------------------------------------------------
(* Both. *)

notifyJoin(h, c, r) ==
    CASE c.state = HALTED -> joinHalted(h, c, r)
      [] c.state # HALTED /\ layout.ooo -> oooJoin(h, c, r)
      [] OTHER -> inorderJoin(h, c, r)

notifyLeave(h, c, r) == IF layout.ooo THEN oooLeave(h, c, r) ELSE inorderLeave(h, c, r)

(* recordAccess gets only records of GETs: its branch for a lone PUT is    *)
(* left out, because a private cache writes a line back for a miss, and    *)
(* the miss has a record of its own from the timing cache, into which the  *)
(* PUT's is stitched (Stitch, cache.cpp:99-121).                           *)
recordAccess(h, c, r, path) == IF layout.ooo THEN oooAccess(h, c, r, path) ELSE inorderAccess(h, c, r, path)

(* A core that is draining gets no event, and forgets its responses. *)
cSimStart(h, c, r) ==
    CASE c.state = HALTED -> [g |-> h, c |-> c]
      [] c.state = DRAINING ->
             [g |-> h, c |-> [c EXCEPT !.curCycle = MAX(@, limit), !.future = {}]]
      [] c.state = RUNNING -> IF layout.ooo THEN oooSimStart(h, c, r) ELSE inorderSimStart(h, c, r)

(* What the last event simulated lost to contention since the last phase:  *)
(* the clock moves by it; curCycle - gapCycles, the zero-load clock, stays. *)
Skew(c) == c.lastStart - (c.lastOrigStart + c.gapCycles)

cSimEnd(h, c, r) ==
    LET skew == Skew(c)
        moved == [c EXCEPT !.curCycle = @ + skew, !.gapCycles = @ + skew, !.lastCycle = @ + skew,
                           !.future = {IF f.ev \in DOMAIN h.ev THEN f ELSE [f EXCEPT !.ev = NoEvent] : f \in @}]
        drained == c.lastEv = NoEvent
        k == CheckNamed(h, TAPERED, drained => c.state = DRAINING)
    IN  IF c.state = HALTED THEN [g |-> h, c |-> c]
        ELSE [g |-> Check(k, /\ c.lastStart - skew <= c.curCycle /\ c.lastStart <= c.curCycle /\ skew >= 0
                             /\ drained /\ c.state = DRAINING => c.future = {}),
              c |-> IF drained THEN [moved EXCEPT !.state = HALTED, !.lastUnhalted = c.lastStart] ELSE moved]

(* reportEventSimulated and reportIssueEventSimulated. *)
reportEventSimulated(c, e, startCycle, orig) ==
    [c EXCEPT !.lastStart = startCycle, !.lastOrigStart = orig, !.startSlack = startCycle - orig,
              !.lastEv = IF c.lastEv = e THEN NoEvent ELSE @]
=============================================================================
