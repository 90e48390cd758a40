------------------------------ MODULE Coherence ------------------------------
(***************************************************************************)
(* The coherent cache hierarchy: Cache::access and Cache::invalidate with  *)
(* their MESI controllers (cache.cpp, coherence_ctrls.h, .cpp) and the     *)
(* filter in front of every first-level cache (filter_cache.h).            *)
(*                                                                         *)
(* Every simulated core is a thread that walks the hierarchy: an access    *)
(* climbs from a cache to its parent, an invalidation descends from a      *)
(* cache to its children.  A thread holds its calls on a stack of frames;  *)
(* a step runs a call from one of its program points to the next.  On the  *)
(* way up a cache gives its lock away, so other threads can invalidate it  *)
(* meanwhile: those are the races CheckForMESIRace is about.               *)
(*                                                                         *)
(* The replacement policy's choice of a victim, and the order in which the *)
(* children of a cache are invalidated, are left open.  Caches are         *)
(* inclusive and have one set.                                             *)
(***************************************************************************)
EXTENDS Naturals, Sequences

CONSTANTS
    Hierarchies,   \* the cache trees to consider
    Lines,         \* line addresses
    Threads        \* one thread per simulated core

VARIABLES
    hier,          \* the tree: caches, parents, sizes; what cores ask for;
                   \* tlb: sim.enableTLB, first-level caches map pages at random
    array,         \* tags of each cache (SetAssocArray::array)
    bcc,           \* MESIBottomCC::array: state of each line of a cache
    tcc,           \* MESITopCC::array: which children share each line
    bccLock, tccLock, filterLock,   \* who holds each lock
    filter,        \* FilterCache::filterArray, one entry
    stack,         \* the calls each thread is in, innermost first
    stale,         \* lines written since memory last received them (history)
    unmarked       \* of these, the ones last written behind the back of their
                   \* first-level cache (history)

vars == <<hier, array, bcc, tcc, bccLock, tccLock, filterLock, filter, stack, stale, unmarked>>

GETS == "GETS"
GETX == "GETX"
PUTS == "PUTS"
PUTX == "PUTX"
INV == "INV"
INVX == "INVX"
I == "I"
S == "S"
E == "E"
M == "M"
FREE == "free"
CORE == "core"
MEM == "mem"
NoLine == "none"
ASSUME NamesAssumption == FREE \notin Threads /\ NoLine \notin Lines

(* A tree: a cache is below its parents, cores do not share first-level    *)
(* caches, and of the caches asked for a line only one asks the memory.    *)
Asked(h, c, a) == c \in h.l1s \/ \E d \in h.caches : h.parent[d][a] = c
ASSUME HierarchiesAssumption == \A h \in Hierarchies :
    /\ CORE \notin h.caches /\ MEM \notin h.caches /\ h.l1s \subseteq h.caches
    /\ h.ways \in [h.caches -> Nat \ {0}] /\ h.level \in [h.caches -> Nat]
    /\ h.parent \in [h.caches -> [Lines -> (h.caches \ h.l1s) \cup {MEM}]]
    /\ h.core \in [Threads -> SUBSET h.l1s]
    /\ \A t, u \in Threads : t # u => h.core[t] \cap h.core[u] = {}
    /\ \A a \in Lines, c, d \in h.caches :
         /\ h.parent[c][a] = d => h.level[c] < h.level[d]
         /\ h.parent[c][a] = MEM /\ h.parent[d][a] = MEM /\ Asked(h, c, a) /\ Asked(h, d, a) => c = d

MESIState == {I, S, E, M}
Caches == hier.caches
Terminal(c) == c \in hier.l1s
Slot(c) == 1 .. hier.ways[c]
Parent(c, a) == hier.parent[c][a]
Clear == [sharers |-> {}, exclusive |-> FALSE]

Init ==
    /\ hier \in Hierarchies
    /\ array = [c \in Caches |-> [i \in Slot(c) |-> NoLine]]
    /\ bcc = [c \in Caches |-> [i \in Slot(c) |-> I]]
    /\ tcc = [c \in Caches |-> [i \in Slot(c) |-> Clear]]
    /\ bccLock = [c \in Caches |-> FREE] /\ tccLock = bccLock /\ filterLock = bccLock
    /\ filter = [c \in hier.l1s |-> [rd |-> NoLine, wr |-> NoLine]]
    /\ stack = [t \in Threads |-> <<>>]
    /\ stale = {} /\ unmarked = {}

----------------------------------------------------------------------------
(* Helpers. *)

Busy(t, op, pc) == stack[t] # <<>> /\ Head(stack[t]).op = op /\ Head(stack[t]).pc = pc
Top(t) == Head(stack[t])
Stay(t, f) == stack' = [stack EXCEPT ![t] = <<f>> \o Tail(@)]
Push(t, f, g) == stack' = [stack EXCEPT ![t] = <<g, f>> \o Tail(@)]

(* SetAssocArray::lookup; 0 stands for -1. *)
lookup(c, a) == IF \E i \in Slot(c) : array[c][i] = a
                THEN CHOOSE i \in Slot(c) : array[c][i] = a ELSE 0
StateOf(c, a) == IF lookup(c, a) = 0 THEN I ELSE bcc[c][lookup(c, a)]

isExclusive(e) == e.exclusive /\ \E k \in e.sharers : e.sharers = {k}
haveExclusive(c, i) == bcc[c][i] \in {E, M}
ChildState(f) == IF f.child = CORE THEN I ELSE bcc[f.child][f.slot]

Access(c, a, type, child, slot, init, noexcl) ==
    [op |-> "access", pc |-> IF Terminal(c) THEN "bcc" ELSE "tcc", c |-> c, addr |-> a,
     type |-> type, child |-> child, slot |-> slot, init |-> init, noexcl |-> noexcl,
     id |-> 0, wb |-> FALSE]
Invalidate(c, a, type) ==
    [op |-> "inv", pc |-> "bcc", c |-> c, addr |-> a, type |-> type, id |-> 0, wb |-> FALSE]

(* What a memory grants (SimpleMemory, MemoryController::access). *)
memAccess(type, noexcl) ==
    CASE type \in {PUTS, PUTX} -> I
      [] type = GETS -> IF noexcl THEN S ELSE E
      [] type = GETX -> M

(* Mutant: the lock of the cache is held on the way up. *)
callParent_HoldsLock(t, f, a, type, st, noexcl) ==
    LET p == Parent(f.c, a)
    IN  IF p = MEM
        THEN /\ bcc' = [bcc EXCEPT ![f.c][f.id] = memAccess(type, noexcl)]
             /\ stale' = IF type = PUTX THEN stale \ {a} ELSE stale
             /\ Stay(t, f) /\ UNCHANGED bccLock
        ELSE /\ bcc' = [bcc EXCEPT ![f.c][f.id] = st]
             /\ Push(t, f, Access(p, a, type, f.c, f.id, st, noexcl))
             /\ UNCHANGED <<bccLock, stale>>

(* parents[..]->access(req) for line a, which f.c holds in state st.  A    *)
(* parent cache first releases the lock of f.c; a memory never does.  The  *)
(* caller goes on as f once the call is over.                              *)
callParent(t, f, a, type, st, noexcl) ==
    LET p == Parent(f.c, a)
    IN  IF p = MEM
        THEN /\ bcc' = [bcc EXCEPT ![f.c][f.id] = memAccess(type, noexcl)]
             /\ stale' = IF type = PUTX THEN stale \ {a} ELSE stale
             /\ Stay(t, f) /\ UNCHANGED bccLock
        ELSE /\ bcc' = [bcc EXCEPT ![f.c][f.id] = st]
             /\ bccLock' = [bccLock EXCEPT ![f.c] = FREE]
             /\ Push(t, f, Access(p, a, type, f.c, f.id, st, noexcl))
             /\ UNCHANGED stale

----------------------------------------------------------------------------
(* The core's side: FilterCache. *)

(* FilterCache::store that hits in the filter, which it reads without a    *)
(* lock: the first-level cache is not asked, and a line it no longer has   *)
(* modified is marked nowhere.  (A load that hits changes nothing.)        *)
storeHit(t, c, a) ==
    /\ stack[t] = <<>> /\ c \in hier.core[t] \ hier.ifetch /\ filter[c].wr = a
    /\ stale' = stale \cup {a}
    /\ unmarked' = IF StateOf(c, a) = M THEN unmarked \ {a} ELSE unmarked \cup {a}
    /\ UNCHANGED <<hier, array, bcc, tcc, bccLock, tccLock, filterLock, filter, stack>>

(* FilterCache::load and store that miss in the filter, and replace up to  *)
(* startAccess, which unlocks filterLock.  Only with a TLB has replace     *)
(* locked it before.                                                       *)
replace(t, c, a, type) ==
    /\ stack[t] = <<>> /\ c \in hier.core[t] /\ <<type, a>> \in hier.uses[c]
    /\ type = GETS => filter[c].rd # a
    /\ type = GETX => filter[c].wr # a /\ c \notin hier.ifetch
    /\ hier.tlb => filterLock[c] = FREE
    /\ filterLock' = [filterLock EXCEPT ![c] = FREE]
    /\ stack' = [stack EXCEPT ![t] =
                   <<Access(c, a, type, CORE, 0, I, c \in hier.ifetch),
                     [op |-> "replace", pc |-> "fill", c |-> c, addr |-> a, type |-> type]>>]
    /\ UNCHANGED <<hier, array, bcc, tcc, bccLock, tccLock, filter, stale, unmarked>>

(* The end of replace: the line enters the filter. *)
fill(t) ==
    /\ Busy(t, "replace", "fill")
    /\ LET f == Top(t)
       IN  /\ filter' = [filter EXCEPT ![f.c] =
                           [rd |-> f.addr, wr |-> IF f.type = GETS THEN NoLine ELSE f.addr]]
           /\ filterLock' = [filterLock EXCEPT ![f.c] = FREE]
    /\ stack' = [stack EXCEPT ![t] = Tail(@)]
    /\ UNCHANGED <<hier, array, bcc, tcc, bccLock, tccLock, stale, unmarked>>

contextSwitch(t, c) ==
    /\ stack[t] = <<>> /\ c \in hier.core[t] /\ filterLock[c] = FREE
    /\ filter' = [filter EXCEPT ![c] = [rd |-> NoLine, wr |-> NoLine]]
    /\ UNCHANGED <<hier, array, bcc, tcc, bccLock, tccLock, filterLock, stack, stale, unmarked>>

----------------------------------------------------------------------------
(* Accesses: Cache::access. *)

(* startAccess locks tcc first. *)
lockTcc(t) ==
    /\ Busy(t, "access", "tcc") /\ tccLock[Top(t).c] = FREE
    /\ tccLock' = [tccLock EXCEPT ![Top(t).c] = t]
    /\ Stay(t, [Top(t) EXCEPT !.pc = "bcc"])
    /\ UNCHANGED <<hier, array, bcc, tcc, bccLock, filterLock, filter, stale, unmarked>>

(* Mutant: a PUT whose line was invalidated meanwhile goes on. *)
CheckForMESIRace_NoSkip(type, state, initial) ==
    [skip |-> FALSE, type |-> IF state # initial /\ type = PUTX THEN PUTS ELSE type]

CheckForMESIRace(type, state, initial) ==
    [skip |-> state # initial /\ type \in {PUTS, PUTX} /\ state = I,
     type |-> IF state # initial /\ type = PUTX THEN PUTS ELSE type]

(* With both locks: the race check, the lookup and, on a miss, preinsert. *)
(* A PUT must hit (shouldAllocate).                                        *)
startAccess(t) ==
    /\ Busy(t, "access", "bcc") /\ bccLock[Top(t).c] = FREE
    /\ bccLock' = [bccLock EXCEPT ![Top(t).c] = t]
    /\ LET f == Top(t)
           race == CheckForMESIRace(f.type, ChildState(f), f.init)
           hit == lookup(f.c, f.addr)
       IN  \/ race.skip /\ Stay(t, [f EXCEPT !.pc = "end"])
           \/ /\ ~race.skip /\ hit # 0
              /\ Stay(t, [f EXCEPT !.pc = "process", !.type = race.type, !.id = hit])
           \/ /\ ~race.skip /\ hit = 0 /\ f.type \in {GETS, GETX}
              /\ \E victim \in Slot(f.c) : Stay(t, [f EXCEPT !.pc = "evict", !.id = victim])
    /\ UNCHANGED <<hier, array, bcc, tcc, tccLock, filterLock, filter, stale, unmarked>>

(* processEviction: the children first (tcc), then the parent (bcc). *)
evictChild(t) ==
    /\ Busy(t, "access", "evict")
    /\ LET f == Top(t)
       IN  \E k \in tcc[f.c][f.id].sharers : Push(t, f, Invalidate(k, array[f.c][f.id], INV))
    /\ UNCHANGED <<hier, array, bcc, tcc, bccLock, tccLock, filterLock, filter, stale, unmarked>>

processEviction(t) ==
    /\ Busy(t, "access", "evict")
    /\ LET f == Top(t)
           state == IF f.wb THEN M ELSE bcc[f.c][f.id]
           done == [f EXCEPT !.pc = "insert", !.wb = FALSE]
       IN  /\ tcc[f.c][f.id].sharers = {}
           /\ IF state = I THEN Stay(t, done) /\ UNCHANGED <<bcc, bccLock, stale>>
              ELSE callParent(t, done, array[f.c][f.id],
                              IF state = M THEN PUTX ELSE PUTS, state, FALSE)
    /\ UNCHANGED <<hier, array, tcc, tccLock, filterLock, filter, unmarked>>

(* postinsert of a new line, then MESIBottomCC::processAccess: get the     *)
(* line or the permission.                                                 *)
processAccess(t) ==
    /\ Busy(t, "access", "insert") \/ Busy(t, "access", "process")
    /\ LET f == Top(t)
           state == bcc[f.c][f.id]
           done == [f EXCEPT !.pc = IF Terminal(f.c) THEN "end" ELSE "directory"]
           miss == \/ f.type = GETS /\ state = I
                   \/ f.type = GETX /\ state \in {I, S}
       IN  /\ array' = [array EXCEPT ![f.c][f.id] = f.addr]
           /\ IF miss THEN callParent(t, done, f.addr, f.type, state, f.noexcl)
              ELSE /\ bcc' = IF f.type \in {GETX, PUTX} /\ state = E
                             THEN [bcc EXCEPT ![f.c][f.id] = M] ELSE bcc
                   /\ Stay(t, done) /\ UNCHANGED <<bccLock, stale>>
    /\ UNCHANGED <<hier, tcc, tccLock, filterLock, filter, unmarked>>

(* MESITopCC::processAccess.  First the other children lose what the       *)
(* request takes from them: all their copies for a GETX, exclusivity for a *)
(* GETS.  A child that upgrades is taken off the list before.              *)
Grants_E(f) == /\ f.type = GETS /\ tcc[f.c][f.id].sharers = {}
               /\ haveExclusive(f.c, f.id) /\ ~f.noexcl

(* Mutant: nobody else is invalidated. *)
Others_None(f) == {}

Others(f) == tcc[f.c][f.id].sharers \ {f.child}

invalidateOthers(t) ==
    /\ Busy(t, "access", "directory")
    /\ LET f == Top(t)
           e == tcc[f.c][f.id]
       IN  \/ /\ f.type = GETX
              /\ \E k \in Others(f) : Push(t, f, Invalidate(k, f.addr, INV))
              /\ tcc' = [tcc EXCEPT ![f.c][f.id].sharers = Others(f)]
           \/ /\ f.type = GETS /\ isExclusive(e)
              /\ \E k \in e.sharers : Push(t, f, Invalidate(k, f.addr, INVX))
              /\ UNCHANGED tcc
    /\ UNCHANGED <<hier, array, bcc, bccLock, tccLock, filterLock, filter, stale, unmarked>>

(* Mutant: a PUTX stops before the part it shares with PUTS. *)
grant_PutxBreaks(t, f, e, childState) ==
    /\ IF f.type = PUTX THEN UNCHANGED <<tcc, bcc>>
       ELSE /\ tcc' = [tcc EXCEPT ![f.c][f.id] = e]
            /\ bcc' = [bcc EXCEPT ![f.child][f.slot] = childState,
                                  ![f.c][f.id] = IF f.wb THEN M ELSE @]
    /\ Stay(t, [f EXCEPT !.pc = "end"])

(* The outcome for the child, and the silent E to M of the cache itself    *)
(* when an invalidated child had written the line                          *)
(* (processWritebackOnAccess).                                             *)
grant(t, f, e, childState) ==
    /\ tcc' = [tcc EXCEPT ![f.c][f.id] = e]
    /\ bcc' = [bcc EXCEPT ![f.child][f.slot] = childState,
                          ![f.c][f.id] = IF f.wb THEN M ELSE @]
    /\ Stay(t, [f EXCEPT !.pc = "end"])

updateDirectory(t) ==
    /\ Busy(t, "access", "directory")
    /\ LET f == Top(t)
           e == tcc[f.c][f.id]
       IN  \/ /\ f.type \in {PUTS, PUTX}
              /\ grant(t, f, [e EXCEPT !.sharers = @ \ {f.child}], I)
           \/ /\ Grants_E(f)
              /\ grant(t, f, [sharers |-> {f.child}, exclusive |-> TRUE], E)
           \/ /\ f.type = GETS /\ ~Grants_E(f) /\ ~isExclusive(e)
              /\ grant(t, f, [sharers |-> e.sharers \cup {f.child}, exclusive |-> FALSE], S)
           \/ /\ f.type = GETX /\ Others(f) = {}
              /\ grant(t, f, [sharers |-> {f.child}, exclusive |-> TRUE], M)
    /\ UNCHANGED <<hier, array, bccLock, tccLock, filterLock, filter, stale, unmarked>>

(* endAccess: relock the child, then unlock this cache. *)
endAccess(t) ==
    /\ Busy(t, "access", "end")
    /\ LET f == Top(t)
       IN  /\ IF f.child = CORE
              THEN /\ filterLock[f.c] = FREE
                   /\ filterLock' = [filterLock EXCEPT ![f.c] = t]
                   /\ bccLock' = [bccLock EXCEPT ![f.c] = FREE]
                   /\ stale' = IF f.type = GETX THEN stale \cup {f.addr} ELSE stale
                   /\ unmarked' = IF f.type = GETX THEN unmarked \ {f.addr} ELSE unmarked
                   /\ UNCHANGED tccLock
              ELSE /\ bccLock[f.child] = FREE
                   /\ bccLock' = [bccLock EXCEPT ![f.child] = t, ![f.c] = FREE]
                   /\ tccLock' = [tccLock EXCEPT ![f.c] = FREE]
                   /\ UNCHANGED <<filterLock, stale, unmarked>>
    /\ stack' = [stack EXCEPT ![t] = Tail(@)]
    /\ UNCHANGED <<hier, array, bcc, tcc, filter>>

----------------------------------------------------------------------------
(* Invalidations: BaseCache::invalidate, called by sendInvalidates. *)

startInv(t) ==
    /\ Busy(t, "inv", "bcc") /\ bccLock[Top(t).c] = FREE
    /\ bccLock' = [bccLock EXCEPT ![Top(t).c] = t]
    /\ LET f == Top(t)
       IN  Stay(t, [f EXCEPT !.id = lookup(f.c, f.addr),
                             !.pc = IF Terminal(f.c) THEN "filter" ELSE "children"])
    /\ UNCHANGED <<hier, array, bcc, tcc, tccLock, filterLock, filter, stale, unmarked>>

(* Only an exclusive child has to be told of a downgrade. *)
invalidateChild(t) ==
    /\ Busy(t, "inv", "children")
    /\ LET f == Top(t)
           e == tcc[f.c][f.id]
       IN  /\ f.type = INVX => isExclusive(e)
           /\ \E k \in e.sharers : Push(t, f, Invalidate(k, f.addr, f.type))
    /\ UNCHANGED <<hier, array, bcc, tcc, bccLock, tccLock, filterLock, filter, stale, unmarked>>

(* MESIBottomCC::processInval, then the lock is released. *)
processInval(f) ==
    /\ bcc' = [bcc EXCEPT ![f.c][f.id] = IF f.type = INVX THEN S ELSE I]
    /\ bccLock' = [bccLock EXCEPT ![f.c] = FREE]

(* Mutant: what the children reported is forgotten. *)
inducedWriteback_OwnOnly(f) == bcc[f.c][f.id] = M

inducedWriteback(f) == f.wb \/ bcc[f.c][f.id] = M

(* Back in sendInvalidates: the directory entry and the writeback flag. *)
returnInv(t, f, wb) ==
    LET g == stack[t][2]
    IN  /\ tcc' = IF f.type = INV THEN [tcc EXCEPT ![g.c][g.id].sharers = @ \ {f.c}]
                  ELSE [tcc EXCEPT ![g.c][g.id].exclusive = FALSE]
        /\ stack' = [stack EXCEPT ![t] = <<[g EXCEPT !.wb = @ \/ wb]>> \o Tail(Tail(@))]

processInv(t) ==
    /\ Busy(t, "inv", "children")
    /\ LET f == Top(t)
           e == tcc[f.c][f.id]
       IN  /\ e.sharers = {} \/ (f.type = INVX /\ ~isExclusive(e))
           /\ processInval(f)
           /\ returnInv(t, f, inducedWriteback(f))
    /\ UNCHANGED <<hier, array, tccLock, filterLock, filter, stale, unmarked>>

(* FilterCache::invalidate.  The filter holds virtual line numbers: with a *)
(* TLB they do not compare equal to the physical one of the request.       *)
filterInvalidate(t) ==
    /\ Busy(t, "inv", "filter")
    /\ LET f == Top(t)
           match == ~hier.tlb /\ filter[f.c].rd = f.addr
       IN  /\ filterLock[f.c] = FREE
           /\ filterLock' = [filterLock EXCEPT ![f.c] = t]
           /\ filter' = IF match THEN [filter EXCEPT ![f.c] = [rd |-> NoLine, wr |-> NoLine]]
                        ELSE filter
           /\ processInval(f)
           /\ Stay(t, [f EXCEPT !.pc = "unlock", !.wb = inducedWriteback(f)])
    /\ UNCHANGED <<hier, array, tcc, tccLock, stale, unmarked>>

filterUnlock(t) ==
    /\ Busy(t, "inv", "unlock")
    /\ filterLock' = [filterLock EXCEPT ![Top(t).c] = FREE]
    /\ returnInv(t, Top(t), Top(t).wb)
    /\ UNCHANGED <<hier, array, bcc, bccLock, tccLock, filter, stale, unmarked>>

----------------------------------------------------------------------------
Next == \E t \in Threads :
    \/ \E c \in hier.core[t], a \in Lines : storeHit(t, c, a)
    \/ \E c \in hier.core[t], a \in Lines, type \in {GETS, GETX} : replace(t, c, a, type)
    \/ \E c \in hier.core[t] : contextSwitch(t, c)
    \/ fill(t)
    \/ lockTcc(t) \/ startAccess(t) \/ evictChild(t) \/ processEviction(t)
    \/ processAccess(t) \/ invalidateOthers(t) \/ updateDirectory(t) \/ endAccess(t)
    \/ startInv(t) \/ invalidateChild(t) \/ processInv(t)
    \/ filterInvalidate(t) \/ filterUnlock(t)

Spec == Init /\ [][Next]_vars

----------------------------------------------------------------------------
(* Properties. *)

EntryOf(c, a) == IF lookup(c, a) = 0 THEN Clear ELSE tcc[c][lookup(c, a)]
Children(p, a) == {c \in Caches : Parent(c, a) = p}
Frames == UNION {{stack[t][k] : k \in 1 .. Len(stack[t])} : t \in Threads}

(* The arrays hold what their C++ types allow, and no line is cached twice *)
(* in the same cache (SetAssocArray::lookup returns the first match).      *)
TypeOK ==
    /\ \A c \in Caches : /\ bcc[c] \in [Slot(c) -> MESIState]
                         /\ array[c] \in [Slot(c) -> Lines \cup {NoLine}]
                         /\ tcc[c] \in [Slot(c) -> [sharers : SUBSET Caches, exclusive : BOOLEAN]]
                         /\ \A i, j \in Slot(c) : array[c][i] = array[c][j] =>
                                i = j \/ array[c][i] = NoLine
                         /\ {bccLock[c], tccLock[c], filterLock[c]} \subseteq Threads \cup {FREE}
    /\ \A f \in Frames : f.c \in Caches /\ f.addr \in Lines
    /\ stale \subseteq Lines

(* Of the caches below one parent, one that may write a line (E or M) is   *)
(* the only one that has it, whatever invalidations and upgrades of the    *)
(* other cores are under way (MESITopCC::processAccess).                   *)
SingleWriter == \A a \in Lines, c, d \in Caches :
    c # d /\ Parent(c, a) = Parent(d, a) /\ StateOf(c, a) \in {E, M}
        => StateOf(d, a) = I

(* Whenever a cache is unlocked, even in the middle of an access that has  *)
(* gone up the tree, its directory lists exactly the children that have    *)
(* the line, and calls them exclusive when one may write it.               *)
DirectoryExact == TypeOK /\ \A a \in Lines, p \in Caches :
    bccLock[p] = FREE =>
      LET e == EntryOf(p, a)
      IN  /\ e.sharers = {c \in Children(p, a) : StateOf(c, a) # I}
          /\ isExclusive(e) <=> \E c \in Children(p, a) : StateOf(c, a) \in {E, M}

(* Some cache or some invalidation on its way back knows a line dirty. *)
Marked(a) ==
    \/ \E c \in Caches : StateOf(c, a) = M
    \/ \E f \in Frames : f.op # "replace" /\ f.wb
                         /\ a = IF f.pc = "evict" THEN array[f.c][f.id] ELSE f.addr

(* A line that a core has written, in its first-level cache or in the      *)
(* filter before it, and that memory has not received yet is marked        *)
(* modified in some cache, or its writeback is being reported by an        *)
(* invalidation (reqWriteback): no race between an eviction and an         *)
(* invalidation loses a dirty line.  Left out are the lines last written   *)
(* through a filter entry that had outlived the line in its cache: with a  *)
(* TLB an invalidation does not find the entry; without one, another       *)
(* thread may release the lock under which replace fills the filter.       *)
(* While replace does have that lock, it has "the new address guaranteed"  *)
(* (filter_cache.h:160).                                                   *)
DirtyKept ==
    /\ \A a \in stale \ unmarked : Marked(a)
    /\ \A t \in {u \in Threads : Busy(u, "replace", "fill")} : LET f == Top(t) IN
         /\ hier.tlb => filterLock[f.c] = t
         /\ filterLock[f.c] = t => StateOf(f.c, f.addr) \in (IF f.type = GETX THEN {M} ELSE {S, E, M})

(* The assertions of the controllers: what CheckForMESIRace accepts as a   *)
(* race, what an eviction, an access and an invalidation find and leave.   *)
RaceExpected(f) == LET state == ChildState(f)
    IN  \/ state = f.init
        \/ f.type \in {PUTS, PUTX} /\ state \in {I, S}
        \/ f.type = GETX /\ f.init = S /\ state = I
AccessAsserts(f) ==
    LET state == bcc[f.c][f.id]
        e == tcc[f.c][f.id]
        exclusive == state \in {E, M}
        put == f.type \in {PUTS, PUTX}
    IN  /\ f.pc = "evict" /\ f.wb => exclusive
        /\ f.pc = "insert" => state = I
        /\ f.pc = "process" /\ put => (state # I /\ (f.type = PUTX => exclusive))
        /\ f.pc = "directory" =>
              /\ f.type = GETS => state # I /\ f.child \notin e.sharers
              /\ f.type = GETX => state = M /\ ~(f.child \in e.sharers /\ isExclusive(e))
              /\ put => f.child \in e.sharers /\ (f.type = PUTX => isExclusive(e))
              /\ f.wb => exclusive
        /\ f.pc = "end" /\ f.child = CORE => state # I /\ (f.type = GETX => state = M)
        /\ f.pc = "end" /\ f.child # CORE =>
              IF put THEN ChildState(f) = I ELSE ChildState(f) \in (IF f.type = GETS THEN {S, E} ELSE {M})
AssertsHold == \A t \in {u \in Threads : stack[u] # <<>>} : LET f == Top(t) IN
    /\ f.op = "access" /\ f.pc \in {"tcc", "bcc"} => RaceExpected(f)
    /\ f.op = "access" /\ f.id # 0 => AccessAsserts(f)
    /\ f.op = "inv" /\ f.pc \in {"children", "filter"} =>
          /\ f.id # 0 /\ bcc[f.c][f.id] # I
          /\ f.type = INVX => bcc[f.c][f.id] \in {E, M}

(* The threads never wait for each other in a circle, although accesses    *)
(* lock upwards and invalidations downwards: a cache is unlocked before    *)
(* its parent is locked, and relocked while the parent is held.            *)
WaitsFor(t) == LET f == Top(t)
    IN  CASE stack[t] = <<>> -> FREE
          [] stack[t] # <<>> /\ f.pc = "tcc" -> tccLock[f.c]
          [] stack[t] # <<>> /\ f.pc = "bcc" -> bccLock[f.c]
          [] stack[t] # <<>> /\ f.pc = "filter" -> filterLock[f.c]
          [] stack[t] # <<>> /\ f.pc = "end" ->
                IF f.child = CORE THEN filterLock[f.c] ELSE bccLock[f.child]
          [] OTHER -> FREE
NoCircularWait == \A T \in SUBSET Threads : T # {} => \E t \in T : WaitsFor(t) \notin T
=============================================================================
