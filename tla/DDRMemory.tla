------------------------------ MODULE DDRMemory ------------------------------
(* The memory controller of one DDR channel (src/src/ddr_mem.h,              *)
(* ddr_mem.cpp) in the weave phase: requests arrive as events, wait in the   *)
(* read or the write queue and in the list of their bank, and are issued,    *)
(* first ready first, by a scheduling event that requeues itself.            *)
(*                                                                           *)
(*   - w, left  the workload, and what of it is still to come;              *)
(*   - req    the waiting requests, by number of arrival;                    *)
(*   - mem    the members of DDRMemory;                                      *)
(*   - event  the scheduling events (SchedEvent) ever allocated;             *)
(*   - clock  the system cycle of the event that ran last;                   *)
(*   - trace  the DRAM commands issued so far.  The code keeps only what it  *)
(*            needs of them; the properties are about all of them.           *)
(*                                                                           *)
(* A request is answered through its event: a write when it is queued, a     *)
(* read when it is issued.  Statistics are left out.                         *)
EXTENDS DDRClock, Sequences, FiniteSets, FiniteSetsExt, SequencesExt

CONSTANTS ranksPerChannel, banksPerRank, linesPerRow, rowHitLimit,
          windowSize,   \* activations per window of tFAW cycles: 4 in the code
          tBL, tCL, tRCD, tRTP, tRP, tRRD, tRAS, tFAW, tWTR, tWR, tRFC,
          Workloads     \* see Init

VARIABLES w, left, req, mem, event, clock, trace

vars == <<w, left, req, mem, event, clock, trace>>

ASSUME TimingAssumption == tRFC >= tRP

(* The value -1ul: later than every cycle of a run. *)
Never == 100000

Larger(a, b) == Max({a, b})

Banks == (0 .. ranksPerChannel - 1) \X (0 .. banksPerRank - 1)

(* The default mapping, rank:col:bank below the row. *)
mapLineAddr(addr) ==
    [bank |-> <<(addr \div (banksPerRank * linesPerRow)) % ranksPerChannel, addr % banksPerRank>>,
     row  |-> addr \div (banksPerRank * linesPerRow * ranksPerChannel)]
-----------------------------------------------------------------------------
(* The activations of a rank: a circular buffer, the oldest one at idx. *)

minActCycle(window) == window.buf[window.idx]

(* The new activation is put behind the newer ones, which move up by one.   *)
(* When all others are newer, the last of them is moved twice.              *)
addActivation(window, actCycle) ==
    LET buf == window.buf
        Back(j) == (window.idx - j) % windowSize
        Places == {j \in 0 .. windowSize - 2 : buf[Back(j + 1)] <= actCycle}
        StepsOf(i) == (window.idx - i) % windowSize
        place == IF Places = {} THEN 0 ELSE Min(Places)
        After(j) == CASE j = place                -> actCycle
                      [] j < place                -> buf[Back(j + 1)]
                      [] j > place /\ Places # {} -> buf[Back(j)]
                      [] j > place /\ Places = {} -> buf[Back((j % (windowSize - 1)) + 1)]
    IN [buf |-> [i \in DOMAIN buf |-> After(StepsOf(i))], idx |-> (window.idx + 1) % windowSize]
-----------------------------------------------------------------------------
(* Queueing a request. *)

useWrQueue(r) == w.deferredWrites /\ r.write

BankList(m, r) == IF useWrQueue(r) THEN m.bank[r.bank].wrReqs ELSE m.bank[r.bank].rdReqs

Full(m) == Len(m.rdQueue) = w.queueDepth \/ Len(m.wrQueue) = w.queueDepth

(* Mutant: a hit on the open row also bypasses the requests of the bank. *)
bypasses_Busy(m, r) ==
    LET bank == m.bank[r.bank] IN bank.open /\ bank.openRow = r.row /\ bank.curRowHits < rowHitLimit

(* The row is open and the list of the bank empty. *)
bypasses(m, r) ==
    LET bank == m.bank[r.bank]
    IN bank.open /\ bank.openRow = r.row /\ bank.curRowHits < rowHitLimit /\ BankList(m, r) = << >>

(* Where a request goes in the list of its bank, and its place in a run of  *)
(* row hits.                                                                *)
placeInBank(rs, m, r) ==
    LET q == BankList(m, r)
        sameRow == {i \in DOMAIN q : rs[q[i]].row = r.row}
        hits == rs[q[Max(sameRow)]].rowHitSeq
    IN CASE sameRow # {} /\ hits < rowHitLimit -> [pos |-> Max(sameRow) + 1, seq |-> hits + 1]
         [] sameRow = {} /\ bypasses(m, r)     -> [pos |-> 1, seq |-> m.bank[r.bank].curRowHits + 1]
         [] OTHER                              -> [pos |-> Len(q) + 1, seq |-> 0]

(* queue(): request n enters its queue and the list of its bank. *)
queue(s, n, memCycle) ==
    LET r == s.req[n]
        p == placeInBank(s.req, s.mem, r)
        list == InsertAt(BankList(s.mem, r), p.pos, n)
    IN [req |-> [s.req EXCEPT ![n].arrivalCycle = memCycle, ![n].rowHitSeq = p.seq],
        mem |-> IF useWrQueue(r)
                THEN [s.mem EXCEPT !.wrQueue = Append(@, n), !.bank[r.bank].wrReqs = list]
                ELSE [s.mem EXCEPT !.rdQueue = Append(@, n), !.bank[r.bank].rdReqs = list]]

(* No request before it in the list of its bank ("!req->prev"). *)
FirstInBank(s, n) == BankList(s.mem, s.req[n])[1] = n
-----------------------------------------------------------------------------
(* Issuing a request. *)

RowHit(m, r) == m.bank[r.bank].open /\ m.bank[r.bank].openRow = r.row

preCycle(m, r) ==
    IF m.bank[r.bank].open THEN Larger(r.arrivalCycle, m.bank[r.bank].minPreCycle)
    ELSE m.bank[r.bank].minPreCycle

actCycle(m, r) ==
    Max({r.arrivalCycle, preCycle(m, r) + tRP, m.bank[r.bank].lastActCycle + tRRD,
         minActCycle(m.window[r.bank[1]]) + tFAW})

findMinCmdCycle(m, r) ==
    IF RowHit(m, r) THEN Larger(r.arrivalCycle, m.bank[r.bank].lastCmdCycle + 1)
    ELSE actCycle(m, r) + tRCD

prioWrites(m) ==
    \/ Len(m.wrQueue) > (3 * w.queueDepth) \div 4
    \/ m.lastCmdWasWrite /\ Len(m.wrQueue) > w.queueDepth \div 4

isWriteQueue(m) == m.rdQueue = << >> \/ prioWrites(m)

Candidates(s) ==
    LET q == IF isWriteQueue(s.mem) THEN s.mem.wrQueue ELSE s.mem.rdQueue
    IN SelectSeq(q, LAMBDA n : FirstInBank(s, n))

(* The column command of request r at a tick in memory cycle curCycle. *)
cmdCycleOf(m, r, curCycle) ==
    Max({curCycle, m.minRespCycle - tCL}
        \cup (IF m.lastCmdWasWrite /\ ~r.write THEN {m.minRespCycle + tWTR} ELSE {})
        \cup (IF RowHit(m, r) THEN {} ELSE {actCycle(m, r) + tRCD}))

(* Mutant: the latest command alone says when the bank may be precharged. *)
nextPreCycle_NotMonotonic(before, opened, r, cmdCycle, respCycle) ==
    Larger(opened + tRAS, IF r.write THEN respCycle + tWR ELSE cmdCycle + tRTP)

(* The earliest precharge after an access. *)
nextPreCycle(before, opened, r, cmdCycle, respCycle) ==
    Max({before, opened + tRAS, IF r.write THEN respCycle + tWR ELSE cmdCycle + tRTP})

(* Precharge, activate and access: the new state of the bank. *)
afterAccess(s, n, cmdCycle, respCycle) ==
    LET r == s.req[n]
        bank == s.mem.bank[r.bank]
        hit == RowHit(s.mem, r)
        list == BankList(s.mem, r)
        opened == IF hit THEN bank.lastActCycle ELSE actCycle(s.mem, r)
        before == IF bank.open /\ ~hit THEN preCycle(s.mem, r) + tRAS ELSE bank.minPreCycle
    IN [bank EXCEPT !.open = ~w.closedPage \/ (Len(list) > 1 /\ s.req[list[2]].rowHitSeq # 0),
                    !.openRow = r.row, !.lastActCycle = opened,
                    !.minPreCycle = nextPreCycle(before, opened, r, cmdCycle, respCycle),
                    !.lastCmdCycle = cmdCycle, !.curRowHits = r.rowHitSeq,
                    !.rdReqs = IF useWrQueue(r) THEN @ ELSE Tail(@),
                    !.wrReqs = IF useWrQueue(r) THEN Tail(@) ELSE @]

Without(q, n) == SelectSeq(q, LAMBDA k : k # n)

(* The request leaves; the trace gets its commands. *)
issue(s, n, curCycle) ==
    LET r == s.req[n]
        cmdCycle == cmdCycleOf(s.mem, r, curCycle)
        respCycle == cmdCycle + tCL + r.size
        act == [kind |-> "ACT", bank |-> r.bank, row |-> r.row, cycle |-> actCycle(s.mem, r)]
        access == [kind |-> IF r.write THEN "WR" ELSE "RD", bank |-> r.bank, row |-> r.row,
                   cycle |-> cmdCycle, end |-> respCycle]
        m == [s.mem EXCEPT !.bank[r.bank] = afterAccess(s, n, cmdCycle, respCycle),
                           !.window[r.bank[1]] = IF RowHit(s.mem, r) THEN @
                                                 ELSE addActivation(@, actCycle(s.mem, r)),
                           !.minRespCycle = respCycle, !.lastCmdWasWrite = r.write,
                           !.rdQueue = Without(@, n), !.wrQueue = Without(@, n)]
    IN [req |-> Restrict(s.req, DOMAIN s.req \ {n}), mem |-> m,
        next |-> IF m.rdQueue = << >> /\ m.wrQueue = << >> THEN Never ELSE respCycle - tCL,
        commands |-> IF RowHit(s.mem, r) THEN <<access>> ELSE <<act, access>>]

(* At most one request is issued; the result has the cycle to try again. *)
trySchedule(s, curCycle) ==
    LET heads == Candidates(s)
        ready == {i \in DOMAIN heads : findMinCmdCycle(s.mem, s.req[heads[i]]) <= curCycle}
        Idle(next) == [req |-> s.req, mem |-> s.mem, next |-> next, commands |-> << >>]
    IN IF s.mem.rdQueue = << >> /\ s.mem.wrQueue = << >> THEN Idle(Never)
       ELSE IF curCycle + tCL < s.mem.minRespCycle THEN Idle(s.mem.minRespCycle - tCL)
       ELSE IF ready # {} THEN issue(s, heads[Min(ready)], curCycle)
       ELSE Idle(Min({findMinCmdCycle(s.mem, s.req[heads[i]]) : i \in DOMAIN heads}))

(* Mutant: the request waits for the tick that is planned. *)
moveOverflow_NotLowered(s, memCycle) ==
    LET moved == queue([s EXCEPT !.mem.overflowQueue = Tail(@)], Head(s.mem.overflowQueue), memCycle)
    IN IF Full(s.mem) \/ s.mem.overflowQueue = << >> THEN s
       ELSE [s EXCEPT !.req = moved.req, !.mem = moved.mem]

(* One request of the overflow queue moves up when there is room. *)
moveOverflow(s, memCycle) ==
    LET n == Head(s.mem.overflowQueue)
        moved == queue([s EXCEPT !.mem.overflowQueue = Tail(@)], n, memCycle)
        soonest == Larger(memCycle, moved.mem.minRespCycle - tCL - tBL)
    IN IF Full(s.mem) \/ s.mem.overflowQueue = << >> THEN s
       ELSE [s EXCEPT !.req = moved.req, !.mem = moved.mem,
                      !.next = IF FirstInBank(moved, n) THEN Min({@, soonest}) ELSE @]
-----------------------------------------------------------------------------
(* Events *)

Pending == {e \in DOMAIN event : event[e].state # "IDLE"}

(* The simulation runs its events in the order of their cycles, those of a  *)
(* cycle in any order.                                                      *)
Due(sysCycle) == clock <= sysCycle /\ \A e \in Pending : sysCycle <= event[e].at

(* SchedEvent::simulate and tick for the event that is still wanted. *)
tick(e) ==
    LET sysCycle == event[e].at
        memCycle == sysToMemCycle(sysCycle)
    IN /\ event[e].state = "QUEUED" /\ Due(sysCycle)
       /\ clock' = sysCycle
       /\ \E tried \in {trySchedule([req |-> req, mem |-> mem], memCycle)} :
          \E s \in {moveOverflow(tried, memCycle)} :
          LET again == s.next # Never
          IN /\ req' = s.req
             /\ trace' = trace \o s.commands
             /\ event' = [event EXCEPT ![e] = IF again
                              THEN [@ EXCEPT !.at = tickCycle(s.next, sysCycle)]
                              ELSE [@ EXCEPT !.state = "IDLE"]]
             /\ mem' = [s.mem EXCEPT !.nextSchedCycle = s.next,
                                     !.nextSchedEvent = IF again THEN @ ELSE 0,
                                     !.eventFreelist = IF again THEN @ ELSE <<e>> \o @]
       /\ UNCHANGED <<w, left>>

(* SchedEvent::simulate for an event that has been annulled. *)
recycleEvent(e) ==
    /\ event[e].state = "ANNULLED" /\ Due(event[e].at)
    /\ clock' = event[e].at
    /\ event' = [event EXCEPT ![e].state = "IDLE"]
    /\ mem' = [mem EXCEPT !.eventFreelist = <<e>> \o @]
    /\ UNCHANGED <<w, left, req, trace>>

(* A tick in memory cycle minSched replaces the one that is queued. *)
scheduleTick(s, minSched, sysCycle) ==
    LET old == s.mem.nextSchedEvent
        annulled == IF old = 0 THEN event ELSE [event EXCEPT ![old].state = "ANNULLED"]
        queued == [state |-> "QUEUED", at |-> tickCycle(minSched, sysCycle)]
        free == s.mem.eventFreelist
        e == IF free # << >> THEN Head(free) ELSE Len(event) + 1
    IN /\ event' = IF free # << >> THEN [annulled EXCEPT ![e] = queued] ELSE Append(annulled, queued)
       /\ mem' = [s.mem EXCEPT !.nextSchedEvent = e, !.nextSchedCycle = minSched,
                               !.eventFreelist = IF free # << >> THEN Tail(@) ELSE @]

(* Mutant: the time a column command takes is not discounted. *)
minSchedCycle_BusTime(s, n, memCycle) ==
    LET soonest == Larger(memCycle, s.mem.minRespCycle)
    IN IF s.mem.nextSchedCycle > soonest THEN Larger(soonest, findMinCmdCycle(s.mem, s.req[n])) ELSE soonest

(* The cycle for which enqueue() wants a tick for request n. *)
minSchedCycle(s, n, memCycle) ==
    LET soonest == Larger(memCycle, s.mem.minRespCycle - tCL - tBL)
    IN IF s.mem.nextSchedCycle > soonest THEN Larger(soonest, findMinCmdCycle(s.mem, s.req[n])) ELSE soonest

(* A request arrives in system cycle sysCycle. *)
enqueue(addr, write, size, sysCycle) ==
    LET n == w.requests - left.requests + 1
        memCycle == sysToMemCycle(sysCycle)
        loc == mapLineAddr(addr)
        r == [bank |-> loc.bank, row |-> loc.row, write |-> write, size |-> size,
              arrivalCycle |-> memCycle, rowHitSeq |-> 0]
        reqs == [k \in DOMAIN req \cup {n} |-> IF k = n THEN r ELSE req[k]]
    IN /\ Due(sysCycle) /\ left.requests > 0
       /\ left' = [left EXCEPT !.requests = @ - 1]
       /\ clock' = sysCycle
       /\ IF Full(mem)
          THEN /\ req' = reqs
               /\ mem' = [mem EXCEPT !.overflowQueue = Append(@, n)]
               /\ UNCHANGED event
          ELSE \E s \in {queue([req |-> reqs, mem |-> mem], n, memCycle)} :
               \E minSched \in {minSchedCycle(s, n, memCycle)} :
                 /\ req' = s.req
                 /\ IF FirstInBank(s, n) /\ s.mem.nextSchedCycle > minSched
                    THEN scheduleTick(s, minSched, sysCycle)
                    ELSE mem' = s.mem /\ UNCHANGED event
       /\ UNCHANGED <<w, trace>>

(* RefreshEvent: all rows are closed once the banks allow it. *)
refresh(sysCycle) ==
    LET minRefreshCycle == Max({sysToMemCycle(sysCycle)}
                               \cup UNION {{mem.bank[b].minPreCycle, mem.bank[b].lastCmdCycle} : b \in Banks})
    IN /\ Due(sysCycle) /\ left.refreshes > 0
       /\ left' = [left EXCEPT !.refreshes = @ - 1]
       /\ clock' = sysCycle
       /\ mem' = [mem EXCEPT !.bank = [b \in Banks |->
                     [mem.bank[b] EXCEPT !.minPreCycle = minRefreshCycle + tRFC - tRP, !.open = FALSE]]]
       /\ trace' = Append(trace, [kind |-> "REF", cycle |-> minRefreshCycle])
       /\ UNCHANGED <<w, req, event>>
-----------------------------------------------------------------------------
(* A workload says how many requests arrive, for which addresses, how large *)
(* and after which pauses, how many refreshes there are, and how the memory *)
(* is configured (queueDepth, deferredWrites, closedPage).                  *)
Init ==
    /\ w \in Workloads
    /\ left = [requests |-> w.requests, refreshes |-> w.refreshes]
    /\ req = << >> /\ event = << >> /\ clock = 0 /\ trace = << >>
    /\ \E uninitialised \in BOOLEAN :
         mem = [rdQueue |-> << >>, wrQueue |-> << >>, overflowQueue |-> << >>,
                bank |-> [b \in Banks |-> [open |-> FALSE, openRow |-> 0, minPreCycle |-> 0,
                                           lastActCycle |-> 0, lastCmdCycle |-> 0, curRowHits |-> 0,
                                           rdReqs |-> << >>, wrReqs |-> << >>]],
                window |-> [k \in 0 .. ranksPerChannel - 1 |->
                              [buf |-> [i \in 0 .. windowSize - 1 |-> 0], idx |-> 0]],
                minRespCycle |-> tCL + tBL + 1, lastCmdWasWrite |-> uninitialised,
                nextSchedCycle |-> Never, nextSchedEvent |-> 0, eventFreelist |-> << >>]

Next ==
    \/ \E e \in DOMAIN event : tick(e) \/ recycleEvent(e)
    \/ \E addr \in w.addrs, write \in w.writes, size \in w.sizes, pause \in w.pauses :
         enqueue(addr, write, size, clock + pause)
    \/ \E pause \in w.pauses : refresh(clock + pause)

Spec == Init /\ [][Next]_vars

(* Events that are queued run: weak fairness of tick and recycleEvent, of   *)
(* which one is enabled as long as an event is pending.                     *)
FairSpec == Spec /\ ([]<>(Pending = {}) \/ []<><<\E e \in DOMAIN event : tick(e) \/ recycleEvent(e)>>_vars)
-----------------------------------------------------------------------------
(* The scheduler never sleeps while a request waits: exactly then one tick  *)
(* is queued, it is the event and for the memory cycle the memory remembers *)
(* (tick's first assertion), it lies ahead, requests overflow only while    *)
(* others are queued, and the free events are the idle ones, each of them   *)
(* free once.                                                               *)
SchedulerAwake ==
    LET next == mem.nextSchedEvent
        waiting == mem.rdQueue # << >> \/ mem.wrQueue # << >>
    IN /\ {e \in DOMAIN event : event[e].state = "QUEUED"} = IF waiting THEN {next} ELSE {}
       /\ waiting => sysToMemCycle(event[next].at) = mem.nextSchedCycle /\ event[next].at >= clock
       /\ ~waiting => next = 0 /\ mem.nextSchedCycle = Never
       /\ mem.overflowQueue # << >> => waiting
       /\ IsInjective(mem.eventFreelist)
       /\ Range(mem.eventFreelist) = DOMAIN event \ Pending

(* Without deferred writes the tick comes no later than the first cycle in  *)
(* which the data bus is free and the timing of a bank allows its first     *)
(* request: a request that lowers the bound also moves the tick forward, in *)
(* enqueue and when it comes from the overflow queue.                       *)
NeverLate ==
    LET s == [req |-> req, mem |-> mem]
    IN ~w.deferredWrites =>
         \A i \in DOMAIN mem.rdQueue :
           FirstInBank(s, mem.rdQueue[i]) =>
             mem.nextSchedCycle <= Max({sysToMemCycle(clock), mem.minRespCycle - tCL,
                                        findMinCmdCycle(mem, req[mem.rdQueue[i]])})

Column(c) == c.kind \in {"RD", "WR"}

(* The earliest precharge after command c. *)
PreAfter(c) == CASE c.kind = "ACT" -> c.cycle + tRAS
                 [] c.kind = "RD"  -> c.cycle + tRTP
                 [] c.kind = "WR"  -> c.end + tWR

(* The commands obey the DRAM's timing, whatever the scheduler forgets of   *)
(* earlier ones: the data bus is free, a read waits for the end of a write, *)
(* a column is accessed only in a row that is open and settled, a bank is   *)
(* precharged and activated in time, a refresh finds the banks ready to be  *)
(* closed and holds back the activations after it, and a window of tFAW     *)
(* cycles has at most windowSize activations of a rank.                     *)
CommandsLegal ==
    /\ \A j \in DOMAIN trace : \A i \in 1 .. j - 1 :
         LET a == trace[i]
             b == trace[j]
         IN /\ Column(a) /\ Column(b) => b.cycle + tCL >= a.end
            /\ a.kind = "WR" /\ b.kind = "RD" => b.cycle >= a.end + tWTR
            /\ a.kind = "REF" /\ b.kind = "ACT" => b.cycle >= a.cycle + tRFC
            /\ a.kind # "REF" /\ b.kind = "REF" => b.cycle >= PreAfter(a)
            /\ a.kind # "REF" /\ b.kind = "ACT" /\ a.bank = b.bank => b.cycle >= PreAfter(a) + tRP
    /\ \A j \in DOMAIN trace : Column(trace[j]) =>
         \E i \in 1 .. j - 1 :
           /\ trace[i].kind = "ACT" /\ trace[i].bank = trace[j].bank /\ trace[i].row = trace[j].row
           /\ trace[i].cycle + tRCD <= trace[j].cycle
           /\ \A k \in i + 1 .. j - 1 : Column(trace[k]) \/ (trace[k].kind = "ACT" /\ trace[k].bank # trace[j].bank)
    /\ \A i \in DOMAIN trace : trace[i].kind = "ACT" =>
         Cardinality({j \in DOMAIN trace : /\ trace[j].kind = "ACT" /\ trace[j].bank[1] = trace[i].bank[1]
                                           /\ trace[j].cycle \in trace[i].cycle .. trace[i].cycle + tFAW - 1})
           <= windowSize

Lists(m) == {m.bank[b].rdReqs : b \in Banks} \cup {m.bank[b].wrReqs : b \in Banks}

(* Row hits go first, but not for ever: a request is overtaken in its bank  *)
(* by at most rowHitLimit requests of each row, and never once it has come  *)
(* to the front, when it "could have issued PRE/ACT commands by now"        *)
(* (ddr_mem.cpp:440).                                                       *)
FRFCFS ==
    [][ /\ \A q \in Lists(mem') : \A i \in DOMAIN q :
             LET overtakers == {j \in 1 .. i - 1 : req'[q[j]].arrivalCycle > req'[q[i]].arrivalCycle}
                 row(j) == req'[q[j]].row
             IN \A j \in overtakers :
                  Cardinality({k \in overtakers : row(k) = row(j)}) <= rowHitLimit
        /\ \A b \in Banks :
             LET stays(q, new) == q = << >> \/ q[1] \notin DOMAIN req' \/ q[1] = new[1]
             IN /\ stays(mem.bank[b].rdReqs, mem'.bank[b].rdReqs)
                /\ stays(mem.bank[b].wrReqs, mem'.bank[b].wrReqs) ]_vars

(* The memory always gets to the end of its queues again, the overflow      *)
(* queue included: a workload is finite, and no request waits for ever.     *)
Drains == []<>(DOMAIN req = {})
=============================================================================
