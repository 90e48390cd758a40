--------------------------- MODULE MemoryController ---------------------------
(***************************************************************************)
(* The DRAM cache of a memory controller (class MemoryController, mc.cpp): *)
(* access() serves LLC misses (LOAD) and dirty LLC evictions (STORE) from  *)
(* an in-package DRAM cache or from external DRAM, under one of the        *)
(* schemes HybridCache (Banshee), UnisonCache, Tagless and AlloyCache.     *)
(*                                                                         *)
(* access() runs under _lock from its first state change to its return, so *)
(* one call is one step: lookup, hit or miss with replacement, tag buffer  *)
(* flush, bandwidth rebalancing.  Clean LLC evictions (PUTS) return before *)
(* they change anything.  Timing, traffic and statistics are left out; of  *)
(* the requests sent to the two memories the model keeps what they do to   *)
(* the data: the ghost variable fresh says which memory holds the newest   *)
(* value of each line.                                                     *)
(***************************************************************************)
EXTENDS PagePlacement

Addrs == config.addrs            \* line addresses in use
PageLines == config.page_lines   \* _granularity / 64
VecBits == config.vec_bits       \* bits of a TLB entry's bit vectors (64 in the code)
MaxUp == config.max_up           \* bounds on delta_index, which lies in -MaxDown .. MaxUp;
MaxDown == config.max_down       \* both are 0 when the bandwidth is not balanced
MaxDs == config.max_ds           \* bound on _ds_index, which the code does not cap
Balanced == MaxUp > 0            \* _bw_balance

(* Only HybridCache creates the tag buffer that FBR consults (mc.cpp:160,  *)
(* page_placement.cpp:156); Tagless and AlloyCache never ask the policy.   *)
ASSUME SchemeAssumption == \A c \in Configs :
    /\ c.scheme \in {"HybridCache", "UnisonCache", "Tagless", "AlloyCache"}
    /\ c.scheme # "HybridCache" => c.placement_policy = "LRU"
    /\ c.scheme = "Tagless" => c.num_sets = 1
    /\ c.scheme = "AlloyCache" => c.num_ways = 1 /\ c.page_lines = 1
ASSUME AddrsAssumption == \A c \in Configs :
    /\ c.page_lines \in Nat \ {0} /\ c.vec_bits \in Nat \ {0}
    /\ c.addrs \subseteq Nat /\ {a \div c.page_lines : a \in c.addrs} \subseteq Tags
(* Pages of 4 KB, one line to a bit.  HybridCache is also constructed with *)
(* pages of 2 MB (mc.cpp:51), but there address - tag * 64 passes 63 and   *)
(* the assertions at mc.cpp:551 and 614 end the simulation.                *)
ASSUME PagesAssumption == \A c \in Configs : c.scheme # "AlloyCache" => c.page_lines = c.vec_bits
ASSUME DeltasAssumption == \A c \in Configs :
    /\ c.max_up \in Nat /\ c.max_down \in Nat /\ c.max_ds \in Nat
    /\ c.scheme \in {"UnisonCache", "Tagless"} => c.max_up = 0 /\ c.max_down = 0

VARIABLES cache,            \* _cache[set].ways[way]
          tlb,              \* _tlb; a page not in the map has way = NumWays
          chunks,           \* _chunks[set].entries of the placement policy
          lru_bits,         \* _lru_bits[set] of the placement policy
          ds_index,         \* _ds_index: the sets below it are switched off
          next_evict_idx,   \* _next_evict_idx of Tagless
          fresh,            \* ghost: the memories with the newest value of a line
          pte               \* ghost: the way the page tables and TLBs know of

vars == <<config, cache, tlb, chunks, lru_bits, ds_index, next_evict_idx, fresh, pte,
          tag_buffer, entry_occupied>>

(* mc.cpp:227, 229 and 550: the code subtracts tag * 64 whatever the page  *)
(* size is.                                                                *)
tagOf(address) == address \div PageLines
bitOf(address) == address - tagOf(address) * VecBits
Page(tag) == {a \in Addrs : tagOf(a) = tag}
setNum(tag) == tag % NumSets
Hybrid == Scheme = "HybridCache"
Paged == Scheme # "AlloyCache"

(* The state as a value that the stages of access() transform. *)
Now == [cache |-> cache, tlb |-> tlb, chunks |-> chunks, lru_bits |-> lru_bits,
        evict |-> next_evict_idx, fresh |-> fresh, pte |-> pte,
        tb |-> tag_buffer, occ |-> entry_occupied]

Become(m) ==
    /\ cache' = m.cache /\ tlb' = m.tlb /\ chunks' = m.chunks /\ lru_bits' = m.lru_bits
    /\ next_evict_idx' = m.evict /\ fresh' = m.fresh /\ pte' = m.pte
    /\ tag_buffer' = m.tb /\ entry_occupied' = m.occ

Init ==
    /\ config \in Configs
    /\ cache = [s \in Set |-> [w \in Way |-> [valid |-> FALSE, tag |-> 0, dirty |-> FALSE]]]
    /\ tlb = [t \in Tags |-> [way |-> NumWays, touch |-> {}, dirty |-> {}]]
    /\ chunks = [s \in Set |-> EmptyChunk]
    /\ lru_bits = [s \in Set |-> FreshLruBits]
    /\ ds_index = 0 /\ next_evict_idx = 0
    /\ fresh = [a \in Addrs |-> {"ext"}]
    /\ pte = [t \in Tags |-> NumWays]
    /\ TBInit

-----------------------------------------------------------------------------
(* The tag buffer as access() uses it.  A flush writes every mapping to    *)
(* the page tables.                                                        *)
tbInsert(m, tag, remap) ==
    [m EXCEPT !.tb = insert(m.tb, tag, remap), !.occ = @ + newlyOccupied(m.tb, tag, remap)]

tbHint(m, tag, type) ==
    IF Hybrid /\ type = LOAD /\ canInsert(m.tb, tag) THEN tbInsert(m, tag, FALSE) ELSE m

tbFlush(m) ==
    [m EXCEPT !.tb = EmptyTagBuffer, !.occ = 0, !.pte = [t \in Tags |-> m.tlb[t].way]]

flushIfCrowded(m) ==
    IF Hybrid /\ 10 * m.occ > 7 * TBWays * TBSets THEN tbFlush(m) ELSE m

(* The page leaves the cache, after the lines in written were copied to    *)
(* external DRAM.                                                          *)
leaveCache(data, tag, written) ==
    [a \in Addrs |-> CASE a \in Page(tag) \cap written -> IF "mc" \in data[a] THEN {"ext"} ELSE {}
                       [] a \in Page(tag) \ written -> data[a] \ {"mc"}
                       [] OTHER -> data[a]]

(* The page is copied from external DRAM into the cache. *)
fillPage(data, tag) ==
    [a \in Addrs |-> CASE a \in Page(tag) /\ "ext" \in data[a] -> {"ext", "mc"}
                       [] a \in Page(tag) /\ "ext" \notin data[a] -> {}
                       [] OTHER -> data[a]]

-----------------------------------------------------------------------------
(* Mutant: the victim's remapping is not recorded. *)
recordRemap_NewOnly(m, tag, victim) == IF Hybrid THEN tbInsert(m, tag, TRUE) ELSE m

recordRemap(m, tag, victim) ==
    IF Hybrid THEN tbInsert(tbInsert(m, tag, TRUE), victim, TRUE) ELSE m

(* Mutant: dirty pages are dropped like clean ones. *)
writtenBack_None(m, s, w) == {}

(* What an eviction copies to external DRAM: the page, or with footprints  *)
(* the lines marked dirty.                                                 *)
writtenBack(m, s, w) ==
    LET victim == m.cache[s][w].tag
    IN  CASE ~m.cache[s][w].dirty -> {}
          [] m.cache[s][w].dirty /\ Scheme \in {"UnisonCache", "Tagless"} ->
                 {a \in Page(victim) : bitOf(a) \in m.tlb[victim].dirty}
          [] OTHER -> Page(victim)

evict(m, s, w, tag) ==
    LET victim == m.cache[s][w].tag
    IN  [recordRemap(m, tag, victim) EXCEPT
            !.tlb[victim].way = NumWays,
            !.fresh = leaveCache(@, victim, writtenBack(m, s, w))]

(* Mutant: the bit vectors of the page's last stay are kept. *)
touched_Stale(entry, w, bit, type) ==
    [way |-> w, touch |-> entry.touch \cup {bit},
     dirty |-> IF type = STORE THEN entry.dirty \cup {bit} ELSE entry.dirty]

(* The TLB entry of a page placed in way w by an access to line bit. *)
touched(entry, w, bit, type) ==
    IF Paged THEN [way |-> w, touch |-> {bit}, dirty |-> IF type = STORE THEN {bit} ELSE {}]
    ELSE [entry EXCEPT !.way = w]

(* A page placed in an empty way is not recorded in the tag buffer: the    *)
(* code ignores the cost of initialising the mapping (mc.cpp:454-455).     *)
install(m, s, w, address, type) ==
    LET tag == tagOf(address)
        m1 == IF m.cache[s][w].valid THEN evict(m, s, w, tag) ELSE [m EXCEPT !.pte[tag] = IF Hybrid THEN w ELSE @]
    IN  [m1 EXCEPT !.cache[s][w] = [valid |-> TRUE, tag |-> tag, dirty |-> type = STORE],
                   !.tlb[tag] = touched(@, w, bitOf(address), type),
                   !.fresh = fillPage(@, tag)]

(* Where the data of a write-back that misses goes: to the cache if its    *)
(* page was placed, and to external DRAM if the scheme sends it there.     *)
store(data, address, type, placed) ==
    IF type = STORE
    THEN [data EXCEPT ![address] =
            (IF placed THEN {"mc"} ELSE {}) \cup
            (IF placed /\ Scheme \in {"AlloyCache", "UnisonCache"} THEN {} ELSE {"ext"})]
    ELSE data

(* The replacement decision on a miss: what each scheme may answer. *)
replaceWay(m, s, tag, type) ==
    LET keep == NoReplacement(m.chunks[s], m.lru_bits[s])
        ways == m.cache[s]
    IN  CASE Scheme = "Tagless" -> {[keep EXCEPT !.way = m.evict]}
          [] Scheme = "AlloyCache" /\ s >= ds_index ->
                 IF ~ways[0].valid THEN {[keep EXCEPT !.way = 0]}
                 ELSE {keep} \cup (IF EnableReplace THEN {[keep EXCEPT !.way = 0]} ELSE {})
          [] Scheme \in {"HybridCache", "UnisonCache"} /\ s >= ds_index ->
                 handleCacheMiss(tag, type, ways, m.chunks[s], m.lru_bits[s], m.tb)
          [] OTHER -> {keep}

Miss(m, address, type) ==
    LET tag == tagOf(address)
        s == setNum(tag)
        Served(o) ==
            LET m1 == [m EXCEPT !.chunks[s] = o.entries, !.lru_bits[s] = o.bits,
                                !.evict = IF Scheme = "Tagless" THEN (@ + 1) % NumWays ELSE @]
                m2 == IF o.way < NumWays THEN install(m1, s, o.way, address, type)
                      ELSE tbHint(m1, tag, type)
            IN  [m2 EXCEPT !.fresh = store(@, address, type, o.way < NumWays)]
    IN  {Served(o) : o \in replaceWay(m, s, tag, type)}

(* The TLB entry of a cached page after an access to line bit. *)
marked(entry, bit, type) ==
    IF Paged THEN [entry EXCEPT !.touch = @ \cup {bit},
                                !.dirty = IF type = STORE THEN @ \cup {bit} ELSE @]
    ELSE entry

Hit(m, address, type, w) ==
    LET tag == tagOf(address)
        s == setNum(tag)
        Outcome == IF Scheme \in {"HybridCache", "UnisonCache"}
                   THEN handleCacheHit(tag, w, m.chunks[s], m.lru_bits[s])
                   ELSE {[entries |-> m.chunks[s], bits |-> m.lru_bits[s]]}
        Served(o) ==
            [m EXCEPT !.chunks[s] = o.entries, !.lru_bits[s] = o.bits,
                      !.cache[s][w].dirty = @ \/ type = STORE,
                      !.tlb[tag] = marked(@, bitOf(address), type),
                      !.fresh[address] = IF type = STORE THEN {"mc"} ELSE @]
    IN  {tbHint(Served(o), tag, type) : o \in Outcome}

hitWay(m, tag) ==
    LET s == setNum(tag)
    IN  IF Paged THEN m.tlb[tag].way
        ELSE IF m.cache[s][0].valid /\ m.cache[s][0].tag = tag /\ s >= ds_index THEN 0
        ELSE NumWays

-----------------------------------------------------------------------------
recordDrained(m, tag) ==
    tbInsert(IF canInsert(m.tb, tag) THEN m ELSE tbFlush(m), tag, TRUE)

(* Draining a way that is switched off.  Both requests sent for a dirty    *)
(* page are reads (GETS, mc.cpp:741-744), so external DRAM is not written. *)
drainWay(m, slot) ==
    LET meta == m.cache[slot[1]][slot[2]]
        m1 == IF Hybrid THEN recordDrained([m EXCEPT !.tlb[meta.tag].way = NumWays], meta.tag)
              ELSE m
    IN  IF ~meta.valid THEN m
        ELSE [m1 EXCEPT !.cache[slot[1]][slot[2]] = [meta EXCEPT !.valid = FALSE, !.dirty = FALSE],
                        !.fresh = leaveCache(@, meta.tag, {})]

(* The ways of the sets first .. last are drained in order. *)
drainWays(m, first, last) ==
    LET count == IF first <= last THEN (last - first + 1) * NumWays ELSE 0
        drain[n \in 0 .. count] ==
          IF n = 0 THEN m
          ELSE drainWay(drain[n - 1], <<first + (n - 1) \div NumWays, (n - 1) % NumWays>>)
    IN  drain[count]

(* Mutant: the counters of a drained set are kept. *)
drainSets_KeepsChunks(m, first, last) == drainWays(m, first, last)

drainSets(m, first, last) ==
    LET m1 == drainWays(m, first, last)
    IN  IF Hybrid
        THEN [m1 EXCEPT !.chunks = [s \in Set |-> IF s \in first .. last THEN EmptyChunk ELSE @[s]]]
        ELSE m1

rebalance(m, delta) ==
    IF delta > 0
    THEN drainSets(m, ds_index, IF ds_index + delta <= NumSets
                                THEN ds_index + delta - 1 ELSE NumSets - 1)
    ELSE m

access(address, type) ==
    LET w == hitWay(Now, tagOf(address))
    IN  \E m \in IF w < NumWays THEN Hit(Now, address, type, w) ELSE Miss(Now, address, type) :
        \E delta \in -MaxDown .. MaxUp :
            /\ ds_index + delta <= MaxDs
            /\ Become(rebalance(flushIfCrowded(m), delta))
            /\ ds_index' = IF ds_index + delta <= 0 THEN 0 ELSE ds_index + delta
            /\ UNCHANGED config

Next == \E address \in Addrs, type \in {LOAD, STORE} : access(address, type)

Spec == Init /\ [][Next]_vars

-----------------------------------------------------------------------------
Cached(address) == hitWay(Now, tagOf(address)) < NumWays

Bits == 0 .. VecBits - 1

(* Type correctness. *)
TypeOK ==
    /\ cache \in [Set -> [Way -> [valid : BOOLEAN, tag : Tags, dirty : BOOLEAN]]]
    /\ tlb \in [Tags -> [way : 0 .. NumWays, touch : SUBSET Bits, dirty : SUBSET Bits]]
    /\ chunks \in [Set -> [Entry -> ChunkEntry]]
    /\ lru_bits \in [Set -> [Way -> Way]]
    /\ \A s \in Set, w \in Way : \E v \in Way : lru_bits[s][v] = w
    /\ ds_index \in 0 .. MaxDs /\ next_evict_idx \in Way
    /\ fresh \in [Addrs -> SUBSET {"ext", "mc"}]
    /\ pte \in [Tags -> 0 .. NumWays]
    /\ TBTypeOK

(* The TLB and the cache tell the same story (the assertions at            *)
(* mc.cpp:257, 270, 480, 517, 542 and 567): a page with a way is valid in  *)
(* that way of its set, and a page without one is nowhere in its set; the  *)
(* bit vectors describe the page's current stay, which touched some line   *)
(* and has dirty ones exactly if its way is dirty; and the sets switched   *)
(* off by rebalancing are empty.                                           *)
TLBMatchesCache ==
    /\ TypeOK
    /\ \A s \in Set, w \in Way : s < ds_index => ~cache[s][w].valid
    /\ Paged => \A tag \in Tags, w \in Way :
         LET way == cache[setNum(tag)][w]
             page == tlb[tag]
         IN  /\ page.way = w <=> (way.valid /\ way.tag = tag)
             /\ page.way = w => /\ page.touch # {} /\ page.dirty \subseteq page.touch
                                /\ way.dirty <=> page.dirty # {}

(* The counters follow the cache (page_placement.cpp:97-109, 144, 151,     *)
(* 226, 340): the entries are filled from the front, no page is counted    *)
(* twice, and the first NumWays entries are those of the cached pages, so  *)
(* there are candidates only once every way is occupied; and no counter    *)
(* passes its limit, whatever the order of counting and halving.           *)
ChunksMatchCache ==
    Policy = "FBR" =>
    \A s \in Set :
        LET e == chunks[s] IN
        /\ \A i \in Entry : e[i].count < MaxCount
        /\ \A i, j \in Entry : i < j /\ e[j].valid => e[i].valid /\ e[i].tag # e[j].tag
        /\ \A w \in Way : /\ cache[s][w].valid <=> e[w].valid
                          /\ cache[s][w].valid => cache[s][w].tag = e[w].tag

(* Whenever the placement policy picks a page to replace, the tag buffer   *)
(* can take both remappings: the assertion at mc.cpp:464.  The policy asks *)
(* about the page its counters name, access() about the page in the way.   *)
ReplacementFits ==
    Hybrid => \A tag \in Tags, type \in {LOAD, STORE} :
        LET s == setNum(tag) IN
        hitWay(Now, tag) = NumWays /\ s >= ds_index =>
            \A o \in handleCacheMiss(tag, type, cache[s], chunks[s], lru_bits[s], tag_buffer) :
                o.way < NumWays /\ cache[s][o.way].valid =>
                    canInsert2(tag_buffer, tag, cache[s][o.way].tag)

(* Banshee's lazy TLB coherence: a page whose mapping differs from what    *)
(* the page tables say is in the tag buffer, marked as remapped, so no     *)
(* core can act on the stale mapping (mc.cpp:464-468, 693-698, 748-758).   *)
StaleMappingsBuffered ==
    Hybrid => \A tag \in Tags :
        tlb[tag].way # pte[tag] =>
            \E w \in TBWay : LET e == tag_buffer[setOf(tag)][w] IN e.tag = tag /\ e.remap

(* No data is lost and no stale data served: the memory an access to a     *)
(* line would go to holds the newest value of the line, whatever sequence  *)
(* of write-backs, placements and evictions came before (mc.cpp:361-558),  *)
(* unless rebalancing has dropped some (see DrainWritesBack).              *)
NewestDataServed ==
    ~Balanced => \A a \in Addrs : (IF Cached(a) THEN "mc" ELSE "ext") \in fresh[a]

(* What the comment at mc.cpp:730-731 asks of rebalancing: all dirty data  *)
(* of the sets that are switched off is written back to external DRAM.     *)
DrainWritesBack ==
    [][\A a \in Addrs :
          Cached(a) /\ setNum(tagOf(a)) < ds_index' => "ext" \in fresh'[a]]_vars
=============================================================================
