---------------------------- MODULE PagePlacement ----------------------------
(***************************************************************************)
(* The page placement policy of the DRAM cache (class PagePlacementPolicy, *)
(* page_placement.cpp): which way of a set a missing page replaces, if     *)
(* any.  LRU keeps recency bits per way; FBR (frequency based replacement) *)
(* keeps NumEntries sampled counters per set, of which the first NumWays   *)
(* belong to the cached pages and the others to candidates.                *)
(*                                                                         *)
(* The methods are operators on the state of one set.  A method that draws *)
(* a random number returns the set of its possible outcomes.               *)
(***************************************************************************)
EXTENDS TagBuffer

CONSTANT Configs   \* the configurations to consider, records with the fields below

VARIABLE config    \* what the constructors read from the configuration file

NumSets == config.num_sets               \* sets of the DRAM cache
NumWays == config.num_ways               \* ways of a set
NumEntries == config.num_entries         \* _num_entries_per_chunk (9 in the code)
MaxCount == config.max_count             \* _max_count_size (31 or 255 in the code)
Margin == config.margin                  \* compareCounter: granularity / 64 / 2 * _sample_rate
EnableReplace == config.enable_replace   \* _enable_replace
Policy == config.placement_policy        \* _placement_policy
Scheme == config.scheme                  \* _scheme

ASSUME PlacementAssumption == \A c \in Configs :
    /\ c.num_sets \in Nat \ {0} /\ c.num_ways \in Nat \ {0}
    /\ c.num_entries \in Nat /\ c.num_entries > c.num_ways
    /\ c.max_count \in Nat \ {0, 1} /\ c.margin \in Nat
    /\ c.placement_policy \in {"LRU", "FBR"} /\ c.enable_replace \in BOOLEAN
    /\ c.placement_policy = "FBR" => c.enable_replace

Set == 0 .. NumSets - 1
Way == 0 .. NumWays - 1
Entry == 0 .. NumEntries - 1
ChunkEntry == [valid : BOOLEAN, tag : Tags, count : 0 .. MaxCount - 1]
LOAD == "LOAD"
STORE == "STORE"

(* The counters of an invalid entry are never read before being reset. *)
EmptyChunk == [i \in Entry |-> [valid |-> FALSE, tag |-> 0, count |-> 0]]
FreshLruBits == [w \in Way |-> w]

getEmptyWay(ways) == FirstOr({w \in Way : ~ways[w].valid}, NumWays)

updateLRUBits(bits, way_num) ==
    [w \in Way |-> CASE w = way_num -> 0
                     [] w # way_num /\ bits[w] < bits[way_num] -> bits[w] + 1
                     [] OTHER -> bits[w]]

handleCounterOverflow(entries, overflow_entry) ==
    [i \in Entry |-> [entries[i] EXCEPT
        !.count = IF i = overflow_entry THEN (@ + 1) \div 2 ELSE @ \div 2]]

countAccess(entries, idx) ==
    LET counted == [entries EXCEPT ![idx].count = @ + 1]
    IN  IF counted[idx].count >= MaxCount THEN handleCounterOverflow(counted, idx) ELSE counted

(* Where a tag without an entry may be counted: the first free entry, else *)
(* a random candidate, which a count above one may protect.                *)
allocatable(entries) ==
    LET Free == {i \in Entry : ~entries[i].valid}
        Candidate == Entry \ Way
    IN  IF Free # {} THEN {FirstOr(Free, NumEntries)}
        ELSE Candidate \cup (IF \E i \in Candidate : entries[i].count > 1
                             THEN {NumEntries} ELSE {})

getChunkEntry(entries, tag) ==
    LET Holder == {i \in Entry : entries[i].valid /\ entries[i].tag = tag}
        fresh == [valid |-> TRUE, tag |-> tag, count |-> 0]
    IN  IF Holder # {}
        THEN {[idx |-> FirstOr(Holder, NumEntries), entries |-> entries]}
        ELSE {[idx |-> i, entries |-> IF i \in Entry THEN [entries EXCEPT ![i] = fresh]
                                      ELSE entries] : i \in allocatable(entries)}

compareCounter(entry1, entry2) == entry1.count >= entry2.count + Margin

pickVictimWay(entries) ==
    FirstOr({w \in Way : \A v \in Way : entries[w].count <= entries[v].count}, NumWays)

NoReplacement(entries, bits) == [way |-> NumWays, entries |-> entries, bits |-> bits]

(* The LRU part of handleCacheMiss: f < _sample_rate is a free choice.     *)
MissLRU(tag, ways, entries, bits, tb) ==
    LET empty_way == getEmptyWay(ways)
        Place(w) == [way |-> w, entries |-> entries, bits |-> updateLRUBits(bits, w)]
        Victim == {w \in Way : /\ bits[w] = NumWays - 1
                               /\ Scheme = "HybridCache" => canInsert2(tb, tag, ways[w].tag)}
    IN  CASE empty_way < NumWays -> {Place(empty_way)}
          [] empty_way = NumWays /\ EnableReplace ->
                 {NoReplacement(entries, bits)} \cup {Place(w) : w \in Victim}
          [] OTHER -> {NoReplacement(entries, bits)}

(* Mutant: room in the tag buffer is not asked for. *)
Challenge_NoRoomCheck(tag, idx, entries, bits, tb) ==
    LET victim == pickVictimWay(entries)
    IN  IF compareCounter(entries[idx], entries[victim])
        THEN [way |-> victim, bits |-> bits,
              entries |-> [entries EXCEPT ![idx] = entries[victim], ![victim] = entries[idx]]]
        ELSE NoReplacement(entries, bits)

(* A candidate counted at idx takes the place of the least used page if it *)
(* leads by Margin and the tag buffer can record both remappings.          *)
Challenge(tag, idx, entries, bits, tb) ==
    LET victim == pickVictimWay(entries)
    IN  IF /\ compareCounter(entries[idx], entries[victim])
           /\ canInsert2(tb, tag, entries[victim].tag)
        THEN [way |-> victim, bits |-> bits,
              entries |-> [entries EXCEPT ![idx] = entries[victim], ![victim] = entries[idx]]]
        ELSE NoReplacement(entries, bits)

(* The FBR part: sampleOrNot is a free choice, except that an empty way is *)
(* always filled.  LLC write-backs never replace.                          *)
MissFBR(tag, type, ways, entries, bits, tb) ==
    LET empty_way == getEmptyWay(ways)
        Counted == {IF g.idx = NumEntries THEN NoReplacement(entries, bits)
                    ELSE LET counted == countAccess(g.entries, g.idx)
                         IN  IF empty_way < NumWays
                             THEN [way |-> empty_way, entries |-> counted, bits |-> bits]
                             ELSE Challenge(tag, g.idx, counted, bits, tb)
                    : g \in getChunkEntry(entries, tag)}
    IN  IF type = STORE THEN {NoReplacement(entries, bits)}
        ELSE Counted \cup (IF empty_way < NumWays THEN {} ELSE {NoReplacement(entries, bits)})

handleCacheMiss(tag, type, ways, entries, bits, tb) ==
    IF Policy = "LRU" THEN MissLRU(tag, ways, entries, bits, tb)
    ELSE MissFBR(tag, type, ways, entries, bits, tb)

handleCacheHit(tag, hit_way, entries, bits) ==
    IF Policy = "LRU"
    THEN {[entries |-> entries, bits |-> updateLRUBits(bits, hit_way)]}
    ELSE {[entries |-> e, bits |-> bits] :
            e \in {entries} \cup {countAccess(g.entries, g.idx) :
                                    g \in {h \in getChunkEntry(entries, tag) : h.idx < NumEntries}}}
=============================================================================
