------------------------------ MODULE TagBuffer ------------------------------
(***************************************************************************)
(* The tag buffer of the HybridCache scheme (class TagBuffer in mc.h and   *)
(* mc.cpp): a small set-associative buffer of page tags beside the DRAM    *)
(* cache.  An entry inserted with remap = TRUE records a page mapping that *)
(* is not yet in the page tables; it must survive until the buffer is      *)
(* flushed.  An entry with remap = FALSE is a mere hint and is replaced in *)
(* LRU order.                                                              *)
(*                                                                         *)
(* The methods are operators on a buffer value, so that the memory         *)
(* controller can call several of them in one access; the actions below    *)
(* call them under the contract their callers follow (canInsert first).    *)
(***************************************************************************)
EXTENDS Integers, FiniteSets

CONSTANTS TBSets,   \* _num_sets of the buffer
          TBWays,   \* _num_ways of the buffer (8 in the code)
          Tags      \* page tags in use; 0 is a real page and the empty mark

ASSUME TBSetsAssumption == TBSets \in Nat \ {0}
ASSUME TBWaysAssumption == TBWays \in Nat \ {0}
ASSUME TagsAssumption == Tags \subseteq Nat /\ 0 \in Tags

VARIABLES tag_buffer,      \* _tag_buffer[set][way]
          entry_occupied   \* _entry_occupied

tbvars == <<tag_buffer, entry_occupied>>

TBSet == 0 .. TBSets - 1
TBWay == 0 .. TBWays - 1
TagBufferEntry == [tag : Tags, remap : BOOLEAN, lru : TBWay]
Slot == TBSet \X TBWay

setOf(tag) == tag % TBSets

EmptyTagBuffer ==
    [s \in TBSet |-> [w \in TBWay |-> [tag |-> 0, remap |-> FALSE, lru |-> w]]]

(* What a loop that looks for the first index in S returns. *)
FirstOr(S, none) == IF S = {} THEN none ELSE CHOOSE x \in S : \A y \in S : x <= y

(* The first way holding tag, or TBWays.  An empty slot holds tag 0. *)
existInTB(tb, tag) == FirstOr({w \in TBWay : tb[setOf(tag)][w].tag = tag}, TBWays)

canInsert(tb, tag) ==
    \E w \in TBWay : ~tb[setOf(tag)][w].remap \/ tb[setOf(tag)][w].tag = tag

canInsert2(tb, tag1, tag2) ==
    IF setOf(tag1) # setOf(tag2)
    THEN canInsert(tb, tag1) /\ canInsert(tb, tag2)
    ELSE \E v, w \in TBWay :
            /\ v # w
            /\ \A x \in {v, w} : \/ ~tb[setOf(tag1)][x].remap
                                 \/ tb[setOf(tag1)][x].tag \in {tag1, tag2}

(* Move way to the front of the LRU order of the replaceable entries. *)
updateLRU(set, way) ==
    [w \in TBWay |->
        IF w = way THEN [set[w] EXCEPT !.lru = 0]
        ELSE IF ~set[w].remap /\ set[w].lru < set[way].lru
             THEN [set[w] EXCEPT !.lru = @ + 1]
             ELSE set[w]]

(* The replacement loop of insert, scanning upwards with >=, prefers w to v. *)
Older(set, v, w) == set[v].lru < set[w].lru \/ (set[v].lru = set[w].lru /\ v <= w)

(* The ways the replacement loop of insert may end on. *)
Replaceable(set) ==
    {w \in TBWay : /\ ~set[w].remap
                   /\ \A v \in TBWay : ~set[v].remap => Older(set, v, w)}

insertAt(set, way, tag, remap) ==
    LET placed == [set EXCEPT ![way] = [tag |-> tag, remap |-> remap, lru |-> @.lru]]
    IN  IF remap THEN placed ELSE updateLRU(placed, way)

insert(tb, tag, remap) ==
    LET s   == setOf(tag)
        way == existInTB(tb, tag)
    IN  IF way < TBWays
        THEN CASE remap -> [tb EXCEPT ![s][way].remap = TRUE]
               [] ~remap /\ ~tb[s][way].remap -> [tb EXCEPT ![s] = updateLRU(@, way)]
               [] OTHER -> tb
        ELSE [tb EXCEPT ![s] = insertAt(@, CHOOSE w \in Replaceable(@) : TRUE, tag, remap)]

(* Mutant: an entry that already was a remapping is counted again. *)
newlyOccupied_Always(tb, tag, remap) == IF remap THEN 1 ELSE 0

(* What insert adds to _entry_occupied. *)
newlyOccupied(tb, tag, remap) ==
    LET way == existInTB(tb, tag)
    IN  IF remap /\ (way = TBWays \/ ~tb[setOf(tag)][way].remap) THEN 1 ELSE 0

-----------------------------------------------------------------------------
TBInit == tag_buffer = EmptyTagBuffer /\ entry_occupied = 0

(* insert(tag, remap), as at mc.cpp:562-563, 610-611 and 757-758. *)
InsertOne(tag, remap) ==
    /\ canInsert(tag_buffer, tag)
    /\ tag_buffer' = insert(tag_buffer, tag, remap)
    /\ entry_occupied' = entry_occupied + newlyOccupied(tag_buffer, tag, remap)

(* Both halves of a page replacement, mc.cpp:464-468. *)
InsertPair(tag, victim) ==
    LET tb1 == insert(tag_buffer, tag, TRUE)
    IN  /\ tag # victim
        /\ canInsert2(tag_buffer, tag, victim)
        /\ tag_buffer' = insert(tb1, victim, TRUE)
        /\ entry_occupied' = entry_occupied + newlyOccupied(tag_buffer, tag, TRUE)
                                            + newlyOccupied(tb1, victim, TRUE)

clearTagBuffer == tag_buffer' = EmptyTagBuffer /\ entry_occupied' = 0

TBNext ==
    \/ \E tag \in Tags, remap \in BOOLEAN : InsertOne(tag, remap)
    \/ \E tag, victim \in Tags : InsertPair(tag, victim)
    \/ clearTagBuffer

TBSpec == TBInit /\ [][TBNext]_tbvars

-----------------------------------------------------------------------------
(* What a well-formed buffer value is, for any caller of the operators.    *)
Buffers == [TBSet -> [TBWay -> TagBufferEntry]]

UniqueTags(tb) ==
    \A s \in TBSet : \A v, w \in TBWay :
        /\ tb[s][v].tag # 0 => setOf(tb[s][v].tag) = s
        /\ v # w => tb[s][v].tag # tb[s][w].tag \/ tb[s][v].tag = 0

DistinctLru(tb) ==
    \A s \in TBSet : \A v, w \in TBWay :
        v # w /\ ~tb[s][v].remap /\ ~tb[s][w].remap => tb[s][v].lru # tb[s][w].lru

RemapSlots(tb) == {slot \in Slot : tb[slot[1]][slot[2]].remap}

(* Type correctness of the buffer and its occupancy counter. *)
TBTypeOK == tag_buffer \in Buffers /\ entry_occupied \in Nat

(* Every real tag sits in the set it hashes to, and none is buffered       *)
(* twice: the assertion of insert (mc.cpp:941-942).                        *)
NoDuplicateTags == UniqueTags(tag_buffer)

(* _entry_occupied counts the remap entries: the assertion of canInsert    *)
(* (mc.cpp:898), on which the 70% flush decision rests.                    *)
OccupancyExact == entry_occupied = Cardinality(RemapSlots(tag_buffer))

(* The LRU stamps of the replaceable entries of a set stay pairwise        *)
(* distinct although remap entries leave the order for good, so insert's   *)
(* victim is unique (mc.cpp:957-964, 977-985).                             *)
LruDistinct == DistinctLru(tag_buffer)

(* canInsert(tag1, tag2) is a sound promise: once it holds, inserting tag1 *)
(* leaves room for tag2, so the assertion replace_way != _num_ways         *)
(* (mc.cpp:965) cannot fail between the two inserts of a replacement.      *)
PairFits ==
    \A tag1, tag2 \in Tags :
        tag1 # tag2 /\ canInsert2(tag_buffer, tag1, tag2)
            => /\ canInsert(tag_buffer, tag1)
               /\ canInsert(insert(tag_buffer, tag1, TRUE), tag2)

KeepsRemaps(tb, tb2) ==
    \A s \in TBSet, w \in TBWay :
        tb[s][w].remap => tb2[s][w].remap /\ tb2[s][w].tag = tb[s][w].tag

(* A pending remapping is never dropped, overwritten or demoted by an      *)
(* insert: it only goes away when the whole buffer is flushed              *)
(* (mc.cpp:951, 960, 987-998).                                             *)
RemapSticky ==
    [][tag_buffer' # EmptyTagBuffer => KeepsRemaps(tag_buffer, tag_buffer')]_tbvars
=============================================================================
