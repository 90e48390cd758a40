-------------------------- MODULE DramCacheProofs ---------------------------
(* Proofs about the DRAM cache (mc.cpp, page_placement.cpp): the tag buffer *)
(* for any number of sets, ways and tags, and the cache for caches, tag     *)
(* buffers, page sets and configurations of any size, as long as bandwidth  *)
(* is not balanced: rebalancing drains sets in a loop, whose induction the  *)
(* provers cannot do.                                                       *)
EXTENDS MemoryController, FiniteSetTheorems, TLAPS

-----------------------------------------------------------------------------
(* The tag buffer. The lemmas are about the operators on a buffer value;    *)
(* the inductive invariant TBInv is the conjunction of the invariants of    *)
(* TagBuffer.                                                               *)

(* A non-empty set of naturals has a least element. *)
LEMMA LeastNat ==
    ASSUME NEW S \in SUBSET Nat, S # {}
    PROVE  \E x \in S : \A y \in S : x <= y
<1> DEFINE R == OpToRel(<, Nat)
<1>1. IsWellFoundedOn(R, Nat)
  BY Zenon, NatLessThanWellFounded
<1>2. ASSUME NEW x \in Nat, NEW y \in Nat, y < x
      PROVE  <<y, x>> \in R
  BY <1>2, Zenon DEF OpToRel
<1> HIDE DEF R
<1>3. PICK x \in S : \A y \in S : ~(<<y, x>> \in R)
  BY Zenon, <1>1, WFMin
<1>4. \A y \in S : ~(y < x)
  BY Zenon, <1>2, <1>3
<1>5. QED
  BY <1>4

(* setOf is a set index. *)
LEMMA SetOfType ==
    ASSUME NEW tag \in Tags
    PROVE  setOf(tag) \in TBSet
BY TBSetsAssumption, TagsAssumption DEF setOf, TBSet

(* existInTB (mc.cpp:877-887) returns the first way holding the tag if      *)
(* there is one and _num_ways otherwise.                                    *)
LEMMA ExistInTB ==
    ASSUME NEW tb \in Buffers, NEW tag \in Tags
    PROVE  \/ /\ existInTB(tb, tag) \in TBWay
              /\ tb[setOf(tag)][existInTB(tb, tag)].tag = tag
              /\ \A w \in TBWay : w < existInTB(tb, tag) => tb[setOf(tag)][w].tag # tag
           \/ /\ existInTB(tb, tag) = TBWays
              /\ \A w \in TBWay : tb[setOf(tag)][w].tag # tag
<1> DEFINE Match == {w \in TBWay : tb[setOf(tag)][w].tag = tag}
<1>1. CASE Match = {}
  BY Zenon, <1>1 DEF existInTB, FirstOr
<1>2. CASE Match # {}
  <2>1. Match \in SUBSET Nat
    BY TBWaysAssumption DEF TBWay
  <2>2. \E w \in Match : \A v \in Match : w <= v
    BY Zenon, <1>2, <2>1, LeastNat
  <2>3. existInTB(tb, tag) = CHOOSE w \in Match : \A v \in Match : w <= v
    BY Zenon, <1>2 DEF existInTB, FirstOr
  <2>4. existInTB(tb, tag) \in Match /\ \A v \in Match : existInTB(tb, tag) <= v
    BY Zenon, <2>2, <2>3
  <2>5. QED
    BY <2>1, <2>4
<1>3. QED
  BY Zenon, <1>1, <1>2

(* The replacement loop of insert (mc.cpp:957-965) finds a way, which holds *)
(* no remapping, as soon as one way of the set holds none.                  *)
LEMMA VictimExists ==
    ASSUME NEW tb \in Buffers, DistinctLru(tb), NEW s \in TBSet,
           NEW u \in TBWay, ~tb[s][u].remap
    PROVE  LET victim == CHOOSE w \in Replaceable(tb[s]) : TRUE
           IN  victim \in TBWay /\ ~tb[s][victim].remap
<1> DEFINE Free == {w \in TBWay : ~tb[s][w].remap}
           Young == {TBWays - tb[s][w].lru : w \in Free}
<1>1. \A w \in TBWay : tb[s][w] \in TagBufferEntry /\ w \in Nat
  BY TBWaysAssumption DEF Buffers, TBWay
<1>2. \A w \in TBWay : tb[s][w].lru \in TBWay
  BY Zenon, <1>1 DEF TagBufferEntry
<1>3. Young \in SUBSET Nat /\ Young # {}
  <2>1. \A w \in Free : TBWays - tb[s][w].lru \in Nat
    BY <1>2, TBWaysAssumption DEF TBWay
  <2>2. u \in Free
    BY Zenon
  <2>3. QED
    BY Zenon, <2>1, <2>2
<1>4. PICK y \in Young : \A z \in Young : y <= z
  BY Zenon, <1>3, LeastNat
<1>5. PICK w \in Free : y = TBWays - tb[s][w].lru
  BY Zenon, <1>4
<1>6. ASSUME NEW v \in Free
      PROVE  tb[s][v].lru <= tb[s][w].lru
  <2>1. y <= TBWays - tb[s][v].lru
    BY Zenon, <1>4
  <2>2. QED
    BY <2>1, <1>2, <1>5, TBWaysAssumption DEF TBWay
<1>7. \A v \in Free : v # w => tb[s][v].lru # tb[s][w].lru
  BY Zenon DEF DistinctLru
<1>8. \A v \in Free : Older(tb[s], v, w)
  BY <1>1, <1>2, <1>6, <1>7, TBWaysAssumption DEF Older, TBWay
<1>9. w \in Replaceable(tb[s])
  BY Zenon, <1>8 DEF Replaceable
<1>10. (CHOOSE x \in Replaceable(tb[s]) : TRUE) \in Replaceable(tb[s])
  BY Zenon, <1>9
<1>11. QED
  BY Zenon, <1>10 DEF Replaceable

(* One set of a buffer whose replaceable entries have distinct stamps. *)
DistinctIn(set) ==
    \A v, w \in TBWay :
        v # w /\ ~set[v].remap /\ ~set[w].remap => set[v].lru # set[w].lru

(* updateLRU (mc.cpp:977-985) only permutes the stamps of the replaceable   *)
(* entries of the set.                                                      *)
LEMMA UpdateLRU ==
    ASSUME NEW set \in [TBWay -> TagBufferEntry], NEW way \in TBWay,
           DistinctIn(set), ~set[way].remap
    PROVE  /\ updateLRU(set, way) \in [TBWay -> TagBufferEntry]
           /\ DistinctIn(updateLRU(set, way))
           /\ \A w \in TBWay : /\ updateLRU(set, way)[w].tag = set[w].tag
                               /\ updateLRU(set, way)[w].remap = set[w].remap
<1> DEFINE new == updateLRU(set, way)
           bump(w) == ~set[w].remap /\ set[w].lru < set[way].lru
<1>1. \A w \in TBWay : /\ set[w] \in TagBufferEntry
                       /\ set[w].lru \in 0 .. TBWays - 1
  BY Zenon DEF TagBufferEntry, TBWay
<1>2. \A w \in TBWay :
        /\ new[w].tag = set[w].tag
        /\ new[w].remap = set[w].remap
        /\ new[w].lru = IF w = way THEN 0 ELSE IF bump(w) THEN set[w].lru + 1 ELSE set[w].lru
  BY <1>1 DEF updateLRU, TagBufferEntry
<1>3. \A w \in TBWay : new[w].lru \in 0 .. TBWays - 1
  BY <1>1, <1>2, TBWaysAssumption
<1>4. new \in [TBWay -> TagBufferEntry]
  <2>1. \A w \in TBWay : new[w] \in TagBufferEntry
    BY <1>1, <1>3 DEF updateLRU, TagBufferEntry, TBWay
  <2>2. QED
    BY Zenon, <2>1 DEF updateLRU
<1>5. DistinctIn(new)
  <2> SUFFICES ASSUME NEW v \in TBWay, NEW w \in TBWay, v # w,
                      ~new[v].remap, ~new[w].remap
               PROVE  new[v].lru # new[w].lru
    BY Zenon DEF DistinctIn
  <2>1. set[v].lru # set[w].lru /\ ~set[v].remap /\ ~set[w].remap
    BY Zenon, <1>2 DEF DistinctIn
  <2>2. (v # way => set[v].lru # set[way].lru) /\ (w # way => set[w].lru # set[way].lru)
    BY Zenon, <2>1 DEF DistinctIn
  <2> HIDE DEF new
  <2>3. QED
    BY <1>1, <1>2, <2>1, <2>2, TBWaysAssumption
<1>6. QED
  BY Zenon, <1>2, <1>4, <1>5

(* What insert (mc.cpp:928-975) does to a buffer it may insert into: it     *)
(* changes one way, never overwrites a remapping of another page, and       *)
(* leaves tags and remap bits of every other slot alone.                    *)
InsertEffect(tb, tag, remap, way) ==
    LET s   == setOf(tag)
        tb2 == insert(tb, tag, remap)
    IN  /\ tb2 \in Buffers
        /\ DistinctLru(tb2)
        /\ tb2[s][way].tag = tag
        /\ tb2[s][way].remap <=> (remap \/ tb[s][way].remap)
        /\ tb[s][way].remap => tb[s][way].tag = tag
        /\ tb[s][way].tag = tag \/ \A w \in TBWay : tb[s][w].tag # tag
        /\ \A w \in TBWay : w < way => tb[s][w].tag # tag
        /\ \A w \in TBWay \ {way} : /\ tb2[s][w].tag = tb[s][w].tag
                                    /\ tb2[s][w].remap = tb[s][w].remap
        /\ \A r \in TBSet \ {s} : tb2[r] = tb[r]
        /\ newlyOccupied(tb, tag, remap) = IF remap /\ ~tb[s][way].remap THEN 1 ELSE 0

(* insert has that effect on every buffer canInsert accepts. *)
LEMMA InsertThm ==
    ASSUME NEW tb \in Buffers, DistinctLru(tb), NEW tag \in Tags,
           NEW remap \in BOOLEAN, canInsert(tb, tag)
    PROVE  \E way \in TBWay : InsertEffect(tb, tag, remap, way)
<1> DEFINE s == setOf(tag)
           e == existInTB(tb, tag)
           tb2 == insert(tb, tag, remap)
<1>1. s \in TBSet
  BY Zenon, SetOfType
<1>2. /\ tb[s] \in [TBWay -> TagBufferEntry]
      /\ DistinctIn(tb[s])
      /\ \A w \in TBWay : tb[s][w].remap \in BOOLEAN
  BY Zenon, <1>1 DEF Buffers, DistinctLru, DistinctIn, TagBufferEntry
<1>3. ASSUME NEW set \in [TBWay -> TagBufferEntry], DistinctIn(set), 
             tb2 = [tb EXCEPT ![s] = set]
      PROVE  /\ tb2 \in Buffers /\ DistinctLru(tb2) /\ tb2[s] = set
             /\ \A r \in TBSet \ {s} : tb2[r] = tb[r]
  <2> HIDE DEF tb2, s
  <2>1. tb2 \in Buffers /\ tb2[s] = set /\ \A r \in TBSet \ {s} : tb2[r] = tb[r]
    BY Zenon, <1>1, <1>3 DEF Buffers
  <2>2. \A r \in TBSet : DistinctIn(tb2[r])
    BY <1>3, <2>1 DEF DistinctLru, DistinctIn
  <2>3. QED
    BY Zenon, <2>1, <2>2 DEF DistinctLru, DistinctIn
<1>4. CASE /\ e \in TBWay /\ tb[s][e].tag = tag
           /\ \A w \in TBWay : w < e => tb[s][w].tag # tag
  <2>0. e < TBWays /\ e # TBWays
    BY <1>4, TBWaysAssumption DEF TBWay
  <2>1. CASE remap
    <3> DEFINE set == [tb[s] EXCEPT ![e].remap = TRUE]
    <3>1. tb2 = [tb EXCEPT ![s] = set]
      BY Zenon, <1>1, <1>2, <1>4, <2>0, <2>1 DEF insert, Buffers
    <3>2. /\ set \in [TBWay -> TagBufferEntry]
          /\ \A w \in TBWay : /\ set[w].tag = tb[s][w].tag
                              /\ set[w].lru = tb[s][w].lru
                              /\ w # e => set[w].remap = tb[s][w].remap
          /\ set[e].remap
      <4> HIDE DEF s, e
      <4>1. set[e] = [tb[s][e] EXCEPT !.remap = TRUE] /\ \A w \in TBWay \ {e} : set[w] = tb[s][w]
        BY Zenon, <1>2, <1>4
      <4>2. tb[s][e] \in TagBufferEntry
        BY Zenon, <1>2, <1>4
      <4>3. /\ set[e] \in TagBufferEntry /\ set[e].remap
            /\ set[e].tag = tb[s][e].tag /\ set[e].lru = tb[s][e].lru
        <5> HIDE DEF set
        <5>1. ASSUME NEW x \in TagBufferEntry, NEW y, y = [x EXCEPT !.remap = TRUE]
              PROVE  y \in TagBufferEntry /\ y.remap /\ y.tag = x.tag /\ y.lru = x.lru
          <6>1. y = [tag |-> x.tag, remap |-> TRUE, lru |-> x.lru]
            BY Zenon, <5>1 DEF TagBufferEntry
          <6>2. QED
            BY Zenon, <6>1 DEF TagBufferEntry
        <5>2. QED
          BY Zenon, <4>1, <4>2, <5>1
      <4>4. QED
        BY Zenon, <1>2, <1>4, <4>1, <4>3
    <3> HIDE DEF set
    <3>3. DistinctIn(set)
      BY <1>2, <1>4, <3>2 DEF DistinctIn
    <3>4. InsertEffect(tb, tag, remap, e)
      <4>1. newlyOccupied(tb, tag, remap) = IF remap /\ ~tb[s][e].remap THEN 1 ELSE 0
        BY Zenon, <2>0 DEF newlyOccupied
      <4>2. /\ tb2 \in Buffers /\ DistinctLru(tb2) /\ tb2[s] = set
            /\ \A r \in TBSet \ {s} : tb2[r] = tb[r]
        BY Zenon, <1>3, <3>1, <3>2, <3>3
      <4>3. QED
        BY Zenon, <1>4, <2>1, <3>2, <4>1, <4>2 DEF InsertEffect
    <3>5. QED
      BY Zenon, <1>4, <3>4
  <2>2. CASE ~remap /\ ~tb[s][e].remap
    <3> DEFINE set == updateLRU(tb[s], e)
    <3>1. tb2 = [tb EXCEPT ![s] = set]
      BY Zenon, <1>1, <1>4, <2>0, <2>2 DEF insert, Buffers
    <3>2. /\ set \in [TBWay -> TagBufferEntry] /\ DistinctIn(set)
          /\ \A w \in TBWay : set[w].tag = tb[s][w].tag /\ set[w].remap = tb[s][w].remap
      BY Zenon, <1>2, <1>4, <2>2, UpdateLRU
    <3>3. InsertEffect(tb, tag, remap, e)
      <4> HIDE DEF set
      <4> QED BY Zenon, <1>2, <1>3, <1>4, <2>0, <2>2, <3>1, <3>2 DEF InsertEffect, newlyOccupied
    <3>4. QED
      BY Zenon, <1>4, <3>3
  <2>3. CASE ~remap /\ tb[s][e].remap
    <3>1. tb2 = tb
      BY Zenon, <1>4, <2>0, <2>3 DEF insert
    <3>2. InsertEffect(tb, tag, remap, e)
      BY Zenon, <1>1, <1>2, <1>4, <2>3, <3>1 DEF InsertEffect, newlyOccupied
    <3>3. QED
      BY Zenon, <1>4, <3>2
  <2>4. QED
    BY Zenon, <2>1, <2>2, <2>3
<1>5. CASE e = TBWays /\ \A w \in TBWay : tb[s][w].tag # tag
  <2> DEFINE victim == CHOOSE w \in Replaceable(tb[s]) : TRUE
             placed == [tb[s] EXCEPT ![victim] = [tag |-> tag, remap |-> remap, lru |-> @.lru]]
             set == insertAt(tb[s], victim, tag, remap)
  <2>0. ~(e < TBWays)
    BY <1>5, TBWaysAssumption
  <2>1. victim \in TBWay /\ ~tb[s][victim].remap
    <3>1. PICK u \in TBWay : ~tb[s][u].remap
      BY Zenon, <1>5 DEF canInsert
    <3>2. QED
      BY Zenon, <1>1, <3>1, VictimExists
  <2>2. tb2 = [tb EXCEPT ![s] = set]
    BY Zenon, <1>1, <2>0 DEF insert, Buffers
  <2> HIDE DEF victim
  <2>3. /\ placed \in [TBWay -> TagBufferEntry] /\ DistinctIn(placed)
        /\ placed[victim].tag = tag /\ placed[victim].remap = remap
        /\ \A w \in TBWay \ {victim} : placed[w] = tb[s][w]
    BY Zenon, <1>2, <2>1 DEF DistinctIn, TagBufferEntry
  <2>4. /\ set \in [TBWay -> TagBufferEntry] /\ DistinctIn(set)
        /\ set[victim].tag = tag /\ set[victim].remap = remap
        /\ \A w \in TBWay \ {victim} : /\ set[w].tag = tb[s][w].tag
                                       /\ set[w].remap = tb[s][w].remap
    <3>1. CASE remap
      <4>1. set = placed
        BY Zenon, <3>1 DEF insertAt
      <4>2. QED
        BY Zenon, <4>1, <2>3
    <3>2. CASE ~remap
      <4>1. set = updateLRU(placed, victim)
        BY Zenon, <3>2 DEF insertAt
      <4> HIDE DEF placed, set
      <4>2. QED
        BY <4>1, <3>2, <2>1, <2>3, UpdateLRU
    <3>3. QED
      BY Zenon, <3>1, <3>2
  <2>5. InsertEffect(tb, tag, remap, victim)
    <3> HIDE DEF set
    <3>1. newlyOccupied(tb, tag, remap) = IF remap /\ ~tb[s][victim].remap THEN 1 ELSE 0
      BY Zenon, <1>5, <2>1 DEF newlyOccupied
    <3>2. /\ tb2 \in Buffers /\ DistinctLru(tb2) /\ tb2[s] = set
          /\ \A r \in TBSet \ {s} : tb2[r] = tb[r]
      BY Zenon, <1>3, <2>2, <2>4
    <3>3. tb2[s][victim].remap <=> (remap \/ tb[s][victim].remap)
      BY Zenon, <2>1, <2>4, <3>2
    <3>4. QED
      BY Zenon, <1>5, <2>1, <2>4, <3>1, <3>2, <3>3 DEF InsertEffect
  <2>6. QED
    BY Zenon, <2>1, <2>5
<1>6. QED
  BY Zenon, <1>4, <1>5, ExistInTB

(* The strengthening of UniqueTags that makes PairFits inductive: of the    *)
(* ways with one tag (only the empty mark 0 can be there twice) none but    *)
(* the first holds a remapping, because existInTB returns the first.        *)
RemapIsFirst(tb) ==
    \A s \in TBSet : \A v, w \in TBWay :
        w < v /\ tb[s][w].tag = tb[s][v].tag => ~tb[s][v].remap

WellFormed(tb) ==
    tb \in Buffers /\ DistinctLru(tb) /\ UniqueTags(tb) /\ RemapIsFirst(tb)

(* The buffer has finitely many slots. *)
LEMMA SlotsFinite == IsFiniteSet(Slot)
<1>1. IsFiniteSet(TBSet) /\ IsFiniteSet(TBWay)
  BY FS_Interval, TBSetsAssumption, TBWaysAssumption DEF TBSet, TBWay
<1>2. QED
  BY Zenon, <1>1, FS_Product DEF Slot

(* insert keeps a buffer well formed, keeps every remapping, and            *)
(* _entry_occupied grows by exactly the number of new remappings.           *)
LEMMA InsertPreserves ==
    ASSUME NEW tb, WellFormed(tb), NEW tag \in Tags, NEW remap \in BOOLEAN,
           canInsert(tb, tag)
    PROVE  /\ WellFormed(insert(tb, tag, remap))
           /\ KeepsRemaps(tb, insert(tb, tag, remap))
           /\ newlyOccupied(tb, tag, remap) \in Nat
           /\ Cardinality(RemapSlots(insert(tb, tag, remap)))
                = Cardinality(RemapSlots(tb)) + newlyOccupied(tb, tag, remap)
<1> DEFINE s == setOf(tag)
           tb2 == insert(tb, tag, remap)
<1>0. tb \in Buffers /\ DistinctLru(tb) /\ UniqueTags(tb) /\ RemapIsFirst(tb)
  BY Zenon DEF WellFormed
<1>1. PICK way \in TBWay : InsertEffect(tb, tag, remap, way)
  BY Zenon, <1>0, InsertThm
<1>2. s \in TBSet
  BY Zenon, SetOfType
<1>3. /\ tb2 \in Buffers /\ DistinctLru(tb2)
      /\ tb2[s][way].tag = tag
      /\ tb2[s][way].remap <=> (remap \/ tb[s][way].remap)
      /\ tb[s][way].remap => tb[s][way].tag = tag
      /\ tb[s][way].tag = tag \/ \A w \in TBWay : tb[s][w].tag # tag
      /\ \A w \in TBWay : w < way => tb[s][w].tag # tag
      /\ \A w \in TBWay \ {way} : /\ tb2[s][w].tag = tb[s][w].tag
                                  /\ tb2[s][w].remap = tb[s][w].remap
      /\ \A r \in TBSet \ {s} : tb2[r] = tb[r]
      /\ newlyOccupied(tb, tag, remap) = IF remap /\ ~tb[s][way].remap THEN 1 ELSE 0
  BY Zenon, <1>1 DEF InsertEffect
<1>4. setOf(tag) = s
  BY Zenon
<1> HIDE DEF s, tb2
<1>5. UniqueTags(tb2)
  BY <1>0, <1>2, <1>3, <1>4 DEF UniqueTags
<1>6. RemapIsFirst(tb2)
  <2> SUFFICES ASSUME NEW r \in TBSet, NEW v \in TBWay, NEW w \in TBWay,
                      w < v, tb2[r][w].tag = tb2[r][v].tag
               PROVE  ~tb2[r][v].remap
    BY Zenon DEF RemapIsFirst
  <2>1. w # v
    BY TBWaysAssumption DEF TBWay
  <2>2. CASE r # s
    BY Zenon, <1>0, <1>3, <2>2 DEF RemapIsFirst
  <2>3. CASE r = s /\ v # way /\ w # way
    BY Zenon, <1>0, <1>3, <2>3 DEF RemapIsFirst
  <2>4. CASE r = s /\ v = way
    BY Zenon, <1>3, <2>1, <2>4
  <2>5. CASE r = s /\ w = way
    <3>1. tb[s][v].tag = tag /\ tb2[s][v].remap = tb[s][v].remap
      BY Zenon, <1>3, <2>1, <2>5
    <3>2. tb[s][way].tag = tb[s][v].tag
      BY Zenon, <1>3, <3>1
    <3>3. QED
      BY Zenon, <1>0, <1>2, <2>5, <3>1, <3>2 DEF RemapIsFirst
  <2>6. QED
    BY Zenon, <2>2, <2>3, <2>4, <2>5
<1>7. KeepsRemaps(tb, tb2)
  BY Zenon, <1>2, <1>3 DEF KeepsRemaps
<1>8. newlyOccupied(tb, tag, remap) \in Nat
  BY <1>3
<1>9. Cardinality(RemapSlots(tb2)) = Cardinality(RemapSlots(tb)) + newlyOccupied(tb, tag, remap)
  <2>1. IsFiniteSet(RemapSlots(tb)) /\ Cardinality(RemapSlots(tb)) \in Nat
    <3>1. RemapSlots(tb) \in SUBSET Slot
      BY Zenon DEF RemapSlots
    <3>2. QED
      BY Zenon, <3>1, SlotsFinite, FS_Subset, FS_CardinalityType
  <2>2. <<s, way>> \in Slot
    BY Zenon, <1>2 DEF Slot
  <2>3. ASSUME NEW r \in TBSet, NEW w \in TBWay, <<r, w>> # <<s, way>>
        PROVE  tb2[r][w].remap <=> tb[r][w].remap
    BY Zenon, <1>2, <1>3, <2>3
  <2>4. CASE remap
    <3>1. RemapSlots(tb2) = RemapSlots(tb) \cup {<<s, way>>}
      BY <1>3, <2>2, <2>3, <2>4 DEF RemapSlots, Slot
    <3>2. <<s, way>> \in RemapSlots(tb) <=> tb[s][way].remap
      BY Zenon, <2>2 DEF RemapSlots
    <3>3. Cardinality(RemapSlots(tb) \cup {<<s, way>>})
            = IF <<s, way>> \in RemapSlots(tb) THEN Cardinality(RemapSlots(tb))
              ELSE Cardinality(RemapSlots(tb)) + 1
      BY <2>1, FS_AddElement, Zenon
    <3>4. newlyOccupied(tb, tag, remap) = IF tb[s][way].remap THEN 0 ELSE 1
      BY Zenon, <1>3, <2>4
    <3>5. QED
      BY <2>1, <3>1, <3>2, <3>3, <3>4
  <2>5. CASE ~remap
    <3>1. RemapSlots(tb2) = RemapSlots(tb)
      BY Zenon, <1>3, <2>2, <2>3, <2>5 DEF RemapSlots, Slot
    <3>2. QED
      BY <1>3, <2>1, <2>5, <3>1
  <2>6. QED
    BY Zenon, <2>4, <2>5
<1>10. QED
  BY Zenon, <1>3, <1>5, <1>6, <1>7, <1>8, <1>9 DEF WellFormed, tb2

(* canInsert(tag1, tag2) (mc.cpp:910-926) leaves room for both inserts of a *)
(* page replacement.                                                        *)
LEMMA PairRoom ==
    ASSUME NEW tb, WellFormed(tb), NEW tag1 \in Tags, NEW tag2 \in Tags,
           tag1 # tag2, canInsert2(tb, tag1, tag2)
    PROVE  canInsert(tb, tag1) /\ canInsert(insert(tb, tag1, TRUE), tag2)
<1> DEFINE s == setOf(tag1)
           tb2 == insert(tb, tag1, TRUE)
<1>0. tb \in Buffers /\ DistinctLru(tb) /\ RemapIsFirst(tb)
  BY Zenon DEF WellFormed
<1>1. s \in TBSet /\ setOf(tag2) \in TBSet
  BY Zenon, SetOfType
<1>2. canInsert(tb, tag1)
  <2>1. CASE s # setOf(tag2)
    BY Zenon, <2>1 DEF canInsert2
  <2>2. CASE s = setOf(tag2)
    <3>1. PICK v, w \in TBWay :
             /\ v # w
             /\ \A x \in {v, w} : ~tb[s][x].remap \/ tb[s][x].tag \in {tag1, tag2}
      BY Zenon, <2>2 DEF canInsert2
    <3>2. v < w \/ w < v
      BY <3>1, TBWaysAssumption DEF TBWay
    <3>3. tb[s][v].tag = tb[s][w].tag => ~tb[s][v].remap \/ ~tb[s][w].remap
      BY Zenon, <1>0, <1>1, <3>2 DEF RemapIsFirst
    <3>4. \E x \in {v, w} : ~tb[s][x].remap \/ tb[s][x].tag = tag1
      BY Zenon, <3>1, <3>3
    <3>5. QED
      BY Zenon, <3>4 DEF canInsert
  <2>3. QED
    BY Zenon, <2>1, <2>2
<1>3. PICK way \in TBWay : InsertEffect(tb, tag1, TRUE, way)
  BY Zenon, <1>0, <1>2, InsertThm
<1>4. /\ tb[s][way].tag = tag1 \/ \A w \in TBWay : tb[s][w].tag # tag1
      /\ \A w \in TBWay : w < way => tb[s][w].tag # tag1
      /\ \A w \in TBWay \ {way} : /\ tb2[s][w].tag = tb[s][w].tag
                                  /\ tb2[s][w].remap = tb[s][w].remap
      /\ \A r \in TBSet \ {s} : tb2[r] = tb[r]
  BY Zenon, <1>3 DEF InsertEffect
<1>5. canInsert(tb2, tag2)
  <2>1. CASE s # setOf(tag2)
    <3>1. canInsert(tb, tag2) /\ tb2[setOf(tag2)] = tb[setOf(tag2)]
      BY Zenon, <1>1, <1>4, <2>1 DEF canInsert2
    <3>2. QED
      BY Zenon, <3>1 DEF canInsert
  <2>2. CASE s = setOf(tag2)
    <3>1. PICK u \in TBWay \ {way} : ~tb[s][u].remap \/ tb[s][u].tag \in {tag1, tag2}
      BY Zenon, <2>2 DEF canInsert2
    <3>2. tb[s][u].tag = tag1 => ~tb[s][u].remap
      <4>1. SUFFICES ASSUME tb[s][u].tag = tag1
                     PROVE  ~tb[s][u].remap
        BY Zenon
      <4>2. tb[s][way].tag = tb[s][u].tag /\ way < u
        BY <1>4, <4>1, <3>1, TBWaysAssumption DEF TBWay
      <4>3. QED
        BY Zenon, <1>0, <1>1, <4>2 DEF RemapIsFirst
    <3>3. ~tb2[s][u].remap \/ tb2[s][u].tag = tag2
      BY Zenon, <1>4, <3>1, <3>2
    <3>4. QED
      BY Zenon, <2>2, <3>3 DEF canInsert
  <2>3. QED
    BY Zenon, <2>1, <2>2
<1>6. QED
  BY Zenon, <1>2, <1>5

-----------------------------------------------------------------------------
(* The inductive invariant. *)
TBInv ==
    /\ WellFormed(tag_buffer)
    /\ entry_occupied \in Nat
    /\ entry_occupied = Cardinality(RemapSlots(tag_buffer))

(* The constructor and clearTagBuffer (mc.cpp:858-875, 987-998) make a well *)
(* formed buffer without remappings.                                        *)
LEMMA EmptyIsWellFormed ==
    /\ WellFormed(EmptyTagBuffer)
    /\ Cardinality(RemapSlots(EmptyTagBuffer)) = 0
<1>1. \A s \in TBSet, w \in TBWay :
         /\ EmptyTagBuffer[s][w] \in TagBufferEntry
         /\ EmptyTagBuffer[s][w].tag = 0
         /\ ~EmptyTagBuffer[s][w].remap
         /\ EmptyTagBuffer[s][w].lru = w
  BY Zenon, TagsAssumption DEF EmptyTagBuffer, TagBufferEntry
<1>2. EmptyTagBuffer \in Buffers
  BY Zenon, <1>1 DEF EmptyTagBuffer, Buffers
<1>3. UniqueTags(EmptyTagBuffer) /\ DistinctLru(EmptyTagBuffer) /\ RemapIsFirst(EmptyTagBuffer)
  BY <1>1 DEF UniqueTags, DistinctLru, RemapIsFirst
<1>4. RemapSlots(EmptyTagBuffer) = {}
  BY Zenon, <1>1 DEF RemapSlots, Slot
<1>5. QED
  BY Zenon, <1>2, <1>3, <1>4, FS_EmptySet DEF WellFormed

(* A single insert keeps the invariant and every remapping. *)
LEMMA InsertOneStep ==
    ASSUME TBInv, NEW tag \in Tags, NEW remap \in BOOLEAN, InsertOne(tag, remap)
    PROVE  TBInv' /\ KeepsRemaps(tag_buffer, tag_buffer')
BY InsertPreserves DEF TBInv, InsertOne

(* So do the two inserts of a page replacement (mc.cpp:464-468). *)
LEMMA InsertPairStep ==
    ASSUME TBInv, NEW tag \in Tags, NEW victim \in Tags, InsertPair(tag, victim)
    PROVE  TBInv' /\ KeepsRemaps(tag_buffer, tag_buffer')
<1> DEFINE tb1 == insert(tag_buffer, tag, TRUE)
           tb2 == insert(tb1, victim, TRUE)
           n1 == newlyOccupied(tag_buffer, tag, TRUE)
           n2 == newlyOccupied(tb1, victim, TRUE)
<1>1. WellFormed(tag_buffer) /\ entry_occupied \in Nat
      /\ entry_occupied = Cardinality(RemapSlots(tag_buffer))
  BY Zenon DEF TBInv
<1>2. canInsert(tag_buffer, tag) /\ canInsert(tb1, victim)
  BY Zenon, <1>1, PairRoom DEF InsertPair
<1>3. /\ WellFormed(tb1) /\ KeepsRemaps(tag_buffer, tb1) /\ n1 \in Nat
      /\ Cardinality(RemapSlots(tb1)) = Cardinality(RemapSlots(tag_buffer)) + n1
  BY Zenon, <1>1, <1>2, InsertPreserves
<1> tag_buffer' = tb2 /\ entry_occupied' = entry_occupied + n1 + n2
  BY Zenon DEF InsertPair
<1> HIDE DEF tb1
<1>4. /\ WellFormed(tb2) /\ KeepsRemaps(tb1, tb2) /\ n2 \in Nat
      /\ Cardinality(RemapSlots(tb2)) = Cardinality(RemapSlots(tb1)) + n2
  BY Zenon, <1>2, <1>3, InsertPreserves
<1> HIDE DEF tb2, n1, n2
<1>5. KeepsRemaps(tag_buffer, tb2)
  BY Zenon, <1>3, <1>4 DEF KeepsRemaps
<1>6. QED
  BY <1>1, <1>3, <1>4, <1>5 DEF TBInv

(* Every step of the buffer keeps the invariant. *)
LEMMA TBInvInductive == TBInv /\ [TBNext]_tbvars => TBInv'
<1> SUFFICES ASSUME TBInv, [TBNext]_tbvars
             PROVE  TBInv'
  BY Zenon
<1>1. ASSUME NEW tag \in Tags, NEW remap \in BOOLEAN, InsertOne(tag, remap)
      PROVE  TBInv'
  BY Zenon, <1>1, InsertOneStep
<1>2. ASSUME NEW tag \in Tags, NEW victim \in Tags, InsertPair(tag, victim)
      PROVE  TBInv'
  BY Zenon, <1>2, InsertPairStep
<1>3. CASE clearTagBuffer
  BY Zenon, <1>3, EmptyIsWellFormed DEF clearTagBuffer, TBInv
<1>4. CASE UNCHANGED tbvars
  BY Zenon, <1>4 DEF tbvars, TBInv
<1>5. QED
  BY Zenon, <1>1, <1>2, <1>3, <1>4 DEF TBNext

(* The tag buffer keeps its inductive invariant for any number of sets,     *)
(* ways and pages.                                                          *)
THEOREM TBInvariance == TBSpec => []TBInv
<1>1. TBInit => TBInv
  BY EmptyIsWellFormed DEF TBInit, TBInv
<1>2. QED
  BY <1>1, TBInvInductive, PTL DEF TBSpec

(* The buffer and its counter keep their types (TagBuffer, mc.cpp:858-998). *)
THEOREM TBTypeCorrect == TBSpec => []TBTypeOK
<1>1. TBInv => TBTypeOK
  BY Zenon DEF TBInv, WellFormed, TBTypeOK
<1>2. QED
  BY <1>1, TBInvariance, PTL

(* insert's assertion (mc.cpp:941-942) never fails.                         *)
THEOREM TagsUnique == TBSpec => []NoDuplicateTags
<1>1. TBInv => NoDuplicateTags
  BY Zenon DEF TBInv, WellFormed, NoDuplicateTags
<1>2. QED
  BY <1>1, TBInvariance, PTL

(* canInsert's assertion num == _entry_occupied (mc.cpp:898) never fails.   *)
THEOREM OccupancyIsExact == TBSpec => []OccupancyExact
<1>1. TBInv => OccupancyExact
  BY Zenon DEF TBInv, OccupancyExact
<1>2. QED
  BY <1>1, TBInvariance, PTL

(* The replaceable entries of a set always have distinct LRU stamps.        *)
THEOREM StampsDistinct == TBSpec => []LruDistinct
<1>1. TBInv => LruDistinct
  BY Zenon DEF TBInv, WellFormed, LruDistinct
<1>2. QED
  BY <1>1, TBInvariance, PTL

(* Once canInsert(tag1, tag2) has answered yes, both inserts of a page      *)
(* replacement find a way: insert's assertion at mc.cpp:965 never fails.    *)
THEOREM PairAlwaysFits == TBSpec => []PairFits
<1>1. TBInv => PairFits
  BY Zenon, PairRoom DEF TBInv, PairFits
<1>2. QED
  BY <1>1, TBInvariance, PTL

(* A pending remapping leaves the buffer only when the buffer is flushed.   *)
THEOREM RemapsAreSticky == TBSpec => RemapSticky
<1>1. TBInv /\ [TBNext]_tbvars
        => [tag_buffer' # EmptyTagBuffer => KeepsRemaps(tag_buffer, tag_buffer')]_tbvars
  <2> SUFFICES ASSUME TBInv, [TBNext]_tbvars, tag_buffer' # EmptyTagBuffer
               PROVE  KeepsRemaps(tag_buffer, tag_buffer') \/ UNCHANGED tbvars
    BY Zenon
  <2>1. ASSUME NEW tag \in Tags, NEW remap \in BOOLEAN, InsertOne(tag, remap)
        PROVE  KeepsRemaps(tag_buffer, tag_buffer')
    BY Zenon, <2>1, InsertOneStep
  <2>2. ASSUME NEW tag \in Tags, NEW victim \in Tags, InsertPair(tag, victim)
        PROVE  KeepsRemaps(tag_buffer, tag_buffer')
    BY Zenon, <2>2, InsertPairStep
  <2>3. QED
    BY Zenon, <2>1, <2>2 DEF TBNext, clearTagBuffer
<1>2. QED
  BY <1>1, TBInvariance, PTL DEF TBSpec, RemapSticky

-----------------------------------------------------------------------------
(* Configurations and addresses *)

(* What PlacementAssumption says about sizes. *)
LEMMA SizeFacts ==
    ASSUME config \in Configs
    PROVE  /\ NumSets \in Nat /\ NumSets > 0 /\ NumWays \in Nat /\ NumWays > 0
           /\ NumEntries \in Nat /\ NumEntries > NumWays
           /\ MaxCount \in Nat /\ MaxCount >= 2
<1>1. /\ config.num_sets \in Nat \ {0} /\ config.num_ways \in Nat \ {0}
      /\ config.num_entries \in Nat /\ config.num_entries > config.num_ways
      /\ config.max_count \in Nat \ {0, 1}
  BY Zenon, PlacementAssumption
<1>2. QED
  BY <1>1 DEF NumSets, NumWays, NumEntries, MaxCount

(* What AddrsAssumption says about addresses. *)
LEMMA AddrFacts ==
    ASSUME config \in Configs, NEW a \in Addrs
    PROVE  a \in Nat /\ tagOf(a) \in Tags
<1>1. config.addrs \subseteq Nat /\ {b \div config.page_lines : b \in config.addrs} \subseteq Tags
  BY Zenon, AddrsAssumption
<1>2. QED
  BY Zenon, <1>1 DEF Addrs, tagOf, PageLines

(* What SchemeAssumption says about schemes and policies. *)
LEMMA SchemeFacts ==
    ASSUME config \in Configs
    PROVE  /\ Scheme \in {"HybridCache", "UnisonCache", "Tagless", "AlloyCache"}
           /\ Policy \in {"LRU", "FBR"}
           /\ Policy = "FBR" => Hybrid
           /\ ~Paged => NumWays = 1
BY Zenon, SchemeAssumption, PlacementAssumption DEF Scheme, Policy, Hybrid, Paged, NumWays

(* The set of a page exists. *)
LEMMA SetNumType ==
    ASSUME config \in Configs, NEW tag \in Tags
    PROVE  setNum(tag) \in Set
BY SizeFacts, TagsAssumption DEF setNum, Set

(* FirstOr returns the least member. *)
LEMMA FirstOrLeast ==
    ASSUME NEW S \in SUBSET Nat, NEW none, S # {}
    PROVE  FirstOr(S, none) \in S /\ \A y \in S : FirstOr(S, none) <= y
BY Zenon, LeastNat DEF FirstOr

-----------------------------------------------------------------------------
(* The counters of a set *)

Chunk == [Entry -> ChunkEntry]

(* Two chunks count the same pages. *)
SamePages(e, f) == \A i \in Entry : (f[i].valid <=> e[i].valid) /\ f[i].tag = e[i].tag

(* The counters e of a set whose ways are ways: what ChunksMatchCache says. *)
CountsSet(ways, e) ==
    /\ \A i, j \in Entry : i < j /\ e[j].valid => e[i].valid /\ e[i].tag # e[j].tag
    /\ \A w \in Way : /\ ways[w].valid <=> e[w].valid
                      /\ ways[w].valid => ways[w].tag = e[w].tag

(* The first counters are those of the cached pages; at least one more is *)
(* for a candidate.                                                       *)
LEMMA WaysAreEntries ==
    ASSUME config \in Configs
    PROVE  Way \subseteq Entry /\ Entry \subseteq Nat /\ NumWays \in Entry /\ NumWays \notin Way /\ Way # {}
BY SizeFacts DEF Way, Entry

(* Counting an access changes counts only, and keeps them below the limit. *)
LEMMA CountAccess ==
    ASSUME config \in Configs, NEW e \in Chunk, NEW idx \in Entry
    PROVE  countAccess(e, idx) \in Chunk /\ SamePages(e, countAccess(e, idx))
<1> DEFINE counted == [e EXCEPT ![idx].count = @ + 1]
<1>1. MaxCount \in Nat /\ MaxCount >= 2
  BY Zenon, SizeFacts
<1>2. \A i \in Entry : e[i] \in ChunkEntry /\ e[i].count \in Nat /\ e[i].count < MaxCount
  BY <1>1 DEF Chunk, ChunkEntry
<1>3. /\ \A i \in Entry : counted[i].valid = e[i].valid /\ counted[i].tag = e[i].tag
      /\ counted[idx].count = e[idx].count + 1
      /\ \A i \in Entry \ {idx} : counted[i] = e[i]
      /\ counted[idx] = [valid |-> e[idx].valid, tag |-> e[idx].tag, count |-> e[idx].count + 1]
  BY Zenon DEF Chunk, ChunkEntry
<1>4. CASE counted[idx].count >= MaxCount
  <2> DEFINE h == handleCounterOverflow(counted, idx)
  <2>1. countAccess(e, idx) = h
    BY Zenon, <1>4 DEF countAccess
  <2>2. h[idx] = [valid |-> e[idx].valid, tag |-> e[idx].tag, count |-> (e[idx].count + 1 + 1) \div 2]
    BY Zenon, <1>3 DEF handleCounterOverflow
  <2>3. \A i \in Entry \ {idx} :
           h[i] = [valid |-> e[i].valid, tag |-> e[i].tag, count |-> e[i].count \div 2]
    BY Zenon, <1>2, <1>3 DEF handleCounterOverflow, ChunkEntry
  <2>4. (e[idx].count + 1 + 1) \div 2 \in 0 .. MaxCount - 1
    BY <1>1, <1>2, <1>3, <1>4
  <2>5. \A i \in Entry : e[i].count \div 2 \in 0 .. MaxCount - 1
    BY <1>1, <1>2
  <2>6. DOMAIN h = Entry /\ h = [i \in Entry |-> h[i]]
    BY DEF handleCounterOverflow
  <2> HIDE DEF h, counted
  <2>7. \A i \in Entry : h[i] \in ChunkEntry /\ h[i].valid = e[i].valid /\ h[i].tag = e[i].tag
    <3>1. h[idx] \in ChunkEntry /\ h[idx].valid = e[idx].valid /\ h[idx].tag = e[idx].tag
      BY <1>2, <2>2, <2>4 DEF ChunkEntry
    <3>2. ASSUME NEW i \in Entry \ {idx}
          PROVE  h[i] \in ChunkEntry /\ h[i].valid = e[i].valid /\ h[i].tag = e[i].tag
      <4>1. e[i].valid \in BOOLEAN /\ e[i].tag \in Tags /\ e[i].count \div 2 \in 0 .. MaxCount - 1
        BY Zenon, <1>2, <2>5 DEF ChunkEntry
      <4>2. h[i] = [valid |-> e[i].valid, tag |-> e[i].tag, count |-> e[i].count \div 2]
        BY Zenon, <2>3
      <4>3. QED
        BY <4>1, <4>2 DEF ChunkEntry
    <3>3. QED
      BY Zenon, <3>1, <3>2
  <2>8. QED
    BY Zenon, <2>1, <2>6, <2>7 DEF Chunk, SamePages
<1>5. CASE ~(counted[idx].count >= MaxCount)
  <2>1. countAccess(e, idx) = counted
    BY Zenon, <1>5 DEF countAccess
  <2>2. \A i \in Entry : counted[i] \in ChunkEntry
    BY <1>1, <1>2, <1>3, <1>5 DEF ChunkEntry
  <2>3. counted = [i \in Entry |-> counted[i]]
    BY Zenon DEF Chunk
  <2>4. QED
    BY Zenon, <1>3, <2>1, <2>2, <2>3 DEF Chunk, SamePages
<1>6. QED
  BY Zenon, <1>4, <1>5

(* Counters that name the same pages match the same ways. *)
LEMMA SamePagesCounted ==
    ASSUME config \in Configs, NEW ways, NEW e, NEW f, CountsSet(ways, e), SamePages(e, f)
    PROVE  CountsSet(ways, f)
BY WaysAreEntries DEF CountsSet, SamePages

Ways == [Way -> [valid : BOOLEAN, tag : Tags, dirty : BOOLEAN]]

(* The ways after the page of tag has been put into way w. *)
Installed(ways, w, tag, ways2) ==
    /\ ways2[w].valid /\ ways2[w].tag = tag
    /\ \A v \in Way \ {w} : (ways2[v].valid <=> ways[v].valid) /\ ways2[v].tag = ways[v].tag

Misses(ways, tag) == \A w \in Way : ways[w].valid => ways[w].tag # tag

(* getEmptyWay returns the first empty way, or the number of ways. *)
LEMMA EmptyWay ==
    ASSUME config \in Configs, NEW ways
    PROVE  \/ /\ getEmptyWay(ways) \in Way /\ ~ways[getEmptyWay(ways)].valid
              /\ \A w \in Way : w < getEmptyWay(ways) => ways[w].valid
           \/ getEmptyWay(ways) = NumWays /\ \A w \in Way : ways[w].valid
<1> DEFINE S == {w \in Way : ~ways[w].valid}
<1>1. S \in SUBSET Nat
  BY Zenon, WaysAreEntries
<1>2. CASE S = {}
  BY Zenon, <1>2 DEF getEmptyWay, FirstOr
<1>3. CASE S # {}
  <2>1. getEmptyWay(ways) \in S /\ \A y \in S : getEmptyWay(ways) <= y
    BY Zenon, <1>1, <1>3, FirstOrLeast DEF getEmptyWay
  <2>2. QED
    BY <1>1, <2>1
<1>4. QED
  BY Zenon, <1>2, <1>3

NewEntry(tag) == [valid |-> TRUE, tag |-> tag, count |-> 0]

(* A fresh counter is well typed. *)
LEMMA NewEntryType ==
    ASSUME config \in Configs, NEW tag \in Tags
    PROVE  NewEntry(tag) \in ChunkEntry
BY SizeFacts DEF NewEntry, ChunkEntry

(* getChunkEntry for a page that is not cached while a way is empty: there  *)
(* are no candidates, and the entry is the one of the empty way.            *)
LEMMA ChunkEntryOfEmptyWay ==
    ASSUME config \in Configs, NEW ways, NEW e \in Chunk, CountsSet(ways, e),
           NEW tag \in Tags, Misses(ways, tag), NEW x, x = getEmptyWay(ways), x \in Way,
           NEW g \in getChunkEntry(e, tag)
    PROVE  /\ g.idx = x /\ g.entries \in Chunk
           /\ \A ways2 : Installed(ways, x, tag, ways2) => CountsSet(ways2, g.entries)
<1> DEFINE Holder == {i \in Entry : e[i].valid /\ e[i].tag = tag}
           Free == {i \in Entry : ~e[i].valid}
           f == [e EXCEPT ![x] = NewEntry(tag)]
<1>0. Way \subseteq Entry /\ Entry \subseteq Nat /\ NumWays \notin Way
  BY Zenon, WaysAreEntries
<1>1. ~ways[x].valid /\ \A w \in Way : w < x => ways[w].valid
  BY Zenon, <1>0, EmptyWay
<1>2. ~e[x].valid /\ \A w \in Way : w < x => e[w].valid /\ e[w].tag # tag
  BY Zenon, <1>1 DEF CountsSet, Misses
<1>3. \A j \in Entry : x < j => ~e[j].valid
  BY Zenon, <1>0, <1>2 DEF CountsSet
<1>4. \A i \in Entry : i < x => i \in Way
  BY <1>0, SizeFacts DEF Way, Entry
<1>5. Holder = {}
  <2>1. \A i \in Entry : i < x \/ i = x \/ x < i
    BY <1>0
  <2>2. ASSUME NEW i \in Entry
        PROVE  ~(e[i].valid /\ e[i].tag = tag)
    BY Zenon, <1>2, <1>3, <1>4, <2>1
  <2>3. QED
    BY Zenon, <2>2
<1>6. FirstOr(Free, NumEntries) = x
  <2>1. x \in Free /\ \A i \in Free : x <= i
    BY <1>0, <1>2, <1>4
  <2>2. FirstOr(Free, NumEntries) \in Free /\ \A y \in Free : FirstOr(Free, NumEntries) <= y
    BY Zenon, <1>0, <2>1, FirstOrLeast
  <2> HIDE DEF Free
  <2>3. FirstOr(Free, NumEntries) \in Nat /\ x \in Nat
    BY Zenon, <1>0, <2>2 DEF Free
  <2>4. QED
    BY <2>1, <2>2, <2>3
<1>7. allocatable(e) = {x}
  <2>1. Free # {}
    BY Zenon, <1>0, <1>2
  <2>2. QED
    BY Zenon, <1>6, <2>1 DEF allocatable
<1>8. g = [idx |-> x, entries |-> f]
  BY Zenon, <1>0, <1>5, <1>7 DEF getChunkEntry, NewEntry
<1>9. f \in Chunk
  BY Zenon, <1>0, NewEntryType DEF Chunk
<1>10. f[x] = NewEntry(tag) /\ \A i \in Entry \ {x} : f[i] = e[i]
  BY Zenon, <1>0 DEF Chunk
<1> HIDE DEF f
<1>11. ASSUME NEW ways2, Installed(ways, x, tag, ways2)
       PROVE  CountsSet(ways2, f)
  <2>1. f[x].valid /\ f[x].tag = tag
    BY <1>10 DEF NewEntry
  <2>2. \A i, j \in Entry : i < j /\ f[j].valid => f[i].valid /\ f[i].tag # f[j].tag
    BY <1>0, <1>2, <1>3, <1>4, <1>10, <2>1 DEF CountsSet
  <2>3. \A w \in Way : /\ ways2[w].valid <=> f[w].valid
                       /\ ways2[w].valid => ways2[w].tag = f[w].tag
    BY Zenon, <1>0, <1>10, <1>11, <2>1 DEF CountsSet, Installed
  <2>4. QED
    BY Zenon, <2>2, <2>3 DEF CountsSet
<1>12. QED
  BY Zenon, <1>8, <1>9, <1>11

(* getChunkEntry for a page that is not cached while all ways are in use:   *)
(* a candidate's entry, or none.                                            *)
LEMMA ChunkEntryOfCandidate ==
    ASSUME config \in Configs, NEW ways, NEW e \in Chunk, CountsSet(ways, e),
           NEW tag \in Tags, Misses(ways, tag), \A w \in Way : ways[w].valid,
           NEW g \in getChunkEntry(e, tag)
    PROVE  \/ g.idx = NumEntries
           \/ /\ g.idx \in Entry \ Way /\ g.entries \in Chunk
              /\ CountsSet(ways, g.entries)
              /\ g.entries[g.idx].valid /\ g.entries[g.idx].tag = tag
<1> DEFINE Holder == {i \in Entry : e[i].valid /\ e[i].tag = tag}
           Free == {i \in Entry : ~e[i].valid}
           f(i) == [e EXCEPT ![i] = NewEntry(tag)]
<1>0. Way \subseteq Entry /\ Entry \subseteq Nat
  BY Zenon, WaysAreEntries
<1>1. \A w \in Way : e[w].valid /\ e[w].tag # tag
  BY Zenon DEF CountsSet, Misses
<1>2. CASE Holder # {}
  <2>1. FirstOr(Holder, NumEntries) \in Holder
    BY Zenon, <1>0, <1>2, FirstOrLeast
  <2>2. g = [idx |-> FirstOr(Holder, NumEntries), entries |-> e]
    BY Zenon, <1>2 DEF getChunkEntry
  <2>3. QED
    BY Zenon, <1>1, <2>1, <2>2
<1>3. CASE Holder = {}
  <2>1. PICK i \in allocatable(e) : g = [idx |-> i, entries |-> IF i \in Entry THEN f(i) ELSE e]
    BY Zenon, <1>3 DEF getChunkEntry, NewEntry
  <2>2. CASE i = NumEntries
    BY Zenon, <2>1, <2>2
  <2>3. CASE i # NumEntries
    <3>1. i \in Entry \ Way /\ \A k \in Entry : k < i => e[k].valid
      <4>1. CASE Free # {}
        <5>1. i = FirstOr(Free, NumEntries)
          BY Zenon, <4>1 DEF allocatable
        <5>2. i \in Free /\ \A y \in Free : i <= y
          BY Zenon, <1>0, <4>1, <5>1, FirstOrLeast
        <5>3. \A k \in Entry : k < i => ~(i <= k)
          BY <1>0, <5>2
        <5>4. QED
          BY Zenon, <1>1, <5>2, <5>3
      <4>2. CASE Free = {}
        <5>1. i \in Entry \ Way
          BY Zenon, <2>3, <4>2 DEF allocatable
        <5>2. QED
          BY Zenon, <4>2, <5>1
      <4>3. QED
        BY Zenon, <4>1, <4>2
    <3>2. g.idx = i /\ g.entries = f(i)
      BY Zenon, <2>1, <3>1
    <3>3. f(i) \in Chunk
      BY Zenon, <3>1, NewEntryType DEF Chunk
    <3>4. /\ f(i)[i].valid /\ f(i)[i].tag = tag
          /\ \A k \in Entry \ {i} : f(i)[k] = e[k]
      BY Zenon, <3>1 DEF Chunk, NewEntry
    <3>5. \A k \in Entry : e[k].valid => e[k].tag # tag
      BY Zenon, <1>3
    <3> HIDE DEF f
    <3>6. \A k, l \in Entry : k < l /\ f(i)[l].valid => f(i)[k].valid /\ f(i)[k].tag # f(i)[l].tag
      BY <1>0, <3>1, <3>4, <3>5 DEF CountsSet
    <3>7. \A w \in Way : /\ ways[w].valid <=> f(i)[w].valid
                         /\ ways[w].valid => ways[w].tag = f(i)[w].tag
      BY Zenon, <1>0, <3>1, <3>4 DEF CountsSet
    <3>8. CountsSet(ways, f(i))
      BY Zenon, <3>6, <3>7 DEF CountsSet
    <3>9. QED
      BY Zenon, <3>1, <3>2, <3>3, <3>4, <3>8
  <2>4. QED
    BY Zenon, <2>2, <2>3
<1>4. QED
  BY Zenon, <1>2, <1>3

(* The least used page has a way. *)
LEMMA PickVictim ==
    ASSUME config \in Configs, NEW e \in Chunk
    PROVE  pickVictimWay(e) \in Way
<1> DEFINE Count == {e[w].count : w \in Way}
           S == {w \in Way : \A v \in Way : e[w].count <= e[v].count}
<1>0. Way \subseteq Entry /\ Entry \subseteq Nat /\ Way # {}
  BY Zenon, WaysAreEntries
<1>1. Count \in SUBSET Nat
  BY <1>0, SizeFacts DEF Chunk, ChunkEntry
<1>2. Count # {}
  BY Zenon, <1>0
<1>3. PICK c \in Count : \A d \in Count : c <= d
  BY Zenon, <1>1, <1>2, LeastNat
<1>4. PICK w \in Way : e[w].count = c
  BY Zenon, <1>3
<1>5. w \in S
  BY Zenon, <1>3, <1>4
<1>6. S \in SUBSET Nat /\ S # {}
  BY Zenon, <1>0, <1>5
<1>7. FirstOr(S, NumWays) \in S
  BY Zenon, <1>6, FirstOrLeast
<1>8. QED
  BY Zenon, <1>7 DEF pickVictimWay

(* The least used page and a candidate change places. *)
LEMMA SwapCounted ==
    ASSUME config \in Configs, NEW ways, NEW e \in Chunk, CountsSet(ways, e),
           \A w \in Way : ways[w].valid,
           NEW victim \in Way, NEW idx \in Entry \ Way, e[idx].valid,
           NEW ways2, Installed(ways, victim, e[idx].tag, ways2)
    PROVE  /\ [e EXCEPT ![idx] = e[victim], ![victim] = e[idx]] \in Chunk
           /\ CountsSet(ways2, [e EXCEPT ![idx] = e[victim], ![victim] = e[idx]])
<1> DEFINE f == [e EXCEPT ![idx] = e[victim], ![victim] = e[idx]]
<1>0. Way \subseteq Entry /\ Entry \subseteq Nat
  BY Zenon, WaysAreEntries
<1>1. f \in Chunk
  BY Zenon, <1>0 DEF Chunk
<1>2. f[idx] = e[victim] /\ f[victim] = e[idx] /\ \A i \in Entry \ {idx, victim} : f[i] = e[i]
  BY Zenon, <1>0 DEF Chunk
<1>3. e[victim].valid
  BY Zenon DEF CountsSet
<1> HIDE DEF f
<1>4. \A i \in Entry : f[i].valid <=> e[i].valid
  BY Zenon, <1>0, <1>2, <1>3
<1>5. \A i, j \in Entry : i # j /\ e[i].valid /\ e[j].valid => e[i].tag # e[j].tag
  <2>1. \A i, j \in Entry : i # j => i < j \/ j < i
    BY <1>0
  <2>2. QED
    BY Zenon, <2>1 DEF CountsSet
<1>6. \A i, j \in Entry : i # j /\ f[i].valid /\ f[j].valid => f[i].tag # f[j].tag
  BY <1>0, <1>2, <1>4, <1>5
<1>7. \A i, j \in Entry : i < j => i # j
  BY <1>0
<1>8. \A i, j \in Entry : i < j /\ f[j].valid => f[i].valid /\ f[i].tag # f[j].tag
  BY Zenon, <1>4, <1>6, <1>7 DEF CountsSet
<1>9. \A w \in Way : /\ ways2[w].valid <=> f[w].valid
                     /\ ways2[w].valid => ways2[w].tag = f[w].tag
  BY Zenon, <1>0, <1>2, <1>4 DEF CountsSet, Installed
<1>10. QED
  BY Zenon, <1>1, <1>8, <1>9 DEF CountsSet, f

-----------------------------------------------------------------------------
(* What the placement policy answers *)

LruBits == [Way -> Way]

(* updateLRUBits keeps the recency bits well typed. *)
LEMMA UpdateLRUBitsType ==
    ASSUME config \in Configs, NEW bits \in LruBits, NEW w \in Way
    PROVE  updateLRUBits(bits, w) \in LruBits
<1>1. Way \subseteq Nat /\ 0 \in Way
  BY SizeFacts DEF Way
<1>2. ASSUME NEW v \in Way, bits[v] < bits[w]
      PROVE  bits[v] + 1 \in Way
  <2>1. bits[v] \in Way /\ bits[w] \in Way
    BY Zenon DEF LruBits
  <2>2. QED
    BY <1>2, <2>1, SizeFacts DEF Way
<1>3. ASSUME NEW v \in Way
      PROVE  updateLRUBits(bits, w)[v] \in Way
  BY Zenon, <1>1, <1>2 DEF updateLRUBits, LruBits
<1>4. QED
  BY Zenon, <1>3 DEF updateLRUBits, LruBits

(* A decision o about the page of tag that keeps the counters true, and for *)
(* which the tag buffer has room.                                           *)
GoodMiss(o, tag, ways, tb) ==
    /\ o.way \in 0 .. NumWays /\ o.entries \in Chunk /\ o.bits \in LruBits
    /\ Policy = "FBR" /\ o.way = NumWays => CountsSet(ways, o.entries)
    /\ Policy = "FBR" /\ o.way \in Way =>
         \A ways2 : Installed(ways, o.way, tag, ways2) => CountsSet(ways2, o.entries)
    /\ Hybrid /\ o.way \in Way /\ ways[o.way].valid => canInsert2(tb, tag, ways[o.way].tag)

(* A miss that replaces nothing is a good outcome. *)
LEMMA KeepIsGood ==
    ASSUME config \in Configs, NEW tag, NEW ways, NEW e \in Chunk, NEW bits \in LruBits, NEW tb,
           Policy = "FBR" => CountsSet(ways, e)
    PROVE  GoodMiss(NoReplacement(e, bits), tag, ways, tb)
<1>1. NumWays \in 0 .. NumWays /\ NumWays \notin Way
  BY SizeFacts, WaysAreEntries
<1>2. QED
  BY Zenon, <1>1 DEF GoodMiss, NoReplacement

(* What the LRU policy decides on a miss is a good outcome. *)
LEMMA MissLRUIsGood ==
    ASSUME config \in Configs, NEW tag, NEW ways, NEW e \in Chunk, NEW bits \in LruBits, NEW tb,
           Policy = "LRU", NEW o \in MissLRU(tag, ways, e, bits, tb)
    PROVE  GoodMiss(o, tag, ways, tb)
<1> DEFINE x == getEmptyWay(ways)
           Place(w) == [way |-> w, entries |-> e, bits |-> updateLRUBits(bits, w)]
           Victim == {w \in Way : /\ bits[w] = NumWays - 1
                                  /\ Scheme = "HybridCache" => canInsert2(tb, tag, ways[w].tag)}
<1>1. \A w \in Way : w \in 0 .. NumWays
  BY SizeFacts DEF Way
<1>2. ASSUME NEW w \in Way, ways[w].valid /\ Hybrid => canInsert2(tb, tag, ways[w].tag)
      PROVE  GoodMiss(Place(w), tag, ways, tb)
  <2>1. Place(w).way = w /\ Place(w).entries = e /\ Place(w).bits = updateLRUBits(bits, w)
    BY Zenon
  <2> HIDE DEF Place
  <2>2. QED
    BY Zenon, <1>1, <1>2, <2>1, UpdateLRUBitsType DEF GoodMiss
<1>3. GoodMiss(NoReplacement(e, bits), tag, ways, tb)
  BY Zenon, KeepIsGood
<1>4. CASE x \in Way /\ ~ways[x].valid
  <2>1. x < NumWays /\ x # NumWays
    BY <1>4, SizeFacts DEF Way
  <2>2. o = Place(x)
    <3>1. MissLRU(tag, ways, e, bits, tb) = {Place(x)}
      BY Zenon, <2>1 DEF MissLRU
    <3>2. QED
      BY Zenon, <3>1
  <2>3. QED
    BY Zenon, <1>2, <1>4, <2>2
<1>5. CASE x = NumWays
  <2>1. ~(x < NumWays)
    BY <1>5, SizeFacts
  <2>2. o = NoReplacement(e, bits) \/ \E w \in Victim : o = Place(w)
    BY Zenon, <1>5, <2>1 DEF MissLRU
  <2>3. ASSUME NEW w \in Victim
        PROVE  GoodMiss(Place(w), tag, ways, tb)
    BY Zenon, <1>2 DEF Hybrid
  <2>4. QED
    BY Zenon, <1>3, <2>2, <2>3
<1>6. QED
  BY Zenon, <1>4, <1>5, EmptyWay

(* A candidate that challenges a cached page replaces it only if the tag *)
(* buffer has room for both, and takes its counter's place.              *)
LEMMA ChallengeIsGood ==
    ASSUME config \in Configs, NEW tag, NEW ways, NEW e \in Chunk, NEW bits \in LruBits, NEW tb,
           CountsSet(ways, e), \A w \in Way : ways[w].valid,
           NEW idx \in Entry \ Way, e[idx].valid, e[idx].tag = tag
    PROVE  GoodMiss(Challenge(tag, idx, e, bits, tb), tag, ways, tb)
<1> DEFINE victim == pickVictimWay(e)
           o == Challenge(tag, idx, e, bits, tb)
           f == [e EXCEPT ![idx] = e[victim], ![victim] = e[idx]]
<1>1. victim \in Way
  BY Zenon, PickVictim
<1>2. CASE compareCounter(e[idx], e[victim]) /\ canInsert2(tb, tag, e[victim].tag)
  <2>1. o = [way |-> victim, bits |-> bits, entries |-> f]
    BY Zenon, <1>2 DEF Challenge
  <2>2. o.way = victim /\ o.bits = bits /\ o.entries = f
    BY <2>1
  <2>3. victim \in 0 .. NumWays /\ victim # NumWays
    BY <1>1, SizeFacts DEF Way
  <2>4. ways[victim].tag = e[victim].tag
    BY Zenon, <1>1 DEF CountsSet
  <2>5. \E ways2 : Installed(ways, victim, tag, ways2)
    <3>1. Installed(ways, victim, tag, [v \in Way |-> IF v = victim THEN NewEntry(tag) ELSE ways[v]])
      BY Zenon, <1>1 DEF Installed, NewEntry
    <3>2. QED
      BY Zenon, <3>1
  <2>6. f \in Chunk /\ \A ways2 : Installed(ways, victim, tag, ways2) => CountsSet(ways2, f)
    <3> HIDE DEF victim
    <3>1. QED
      BY Zenon, <1>1, <2>5, SwapCounted
  <2> HIDE DEF o, f, victim
  <2>7. QED
    BY Zenon, <1>2, <2>2, <2>3, <2>4, <2>6 DEF GoodMiss, o
<1>3. CASE ~(compareCounter(e[idx], e[victim]) /\ canInsert2(tb, tag, e[victim].tag))
  <2>1. o = NoReplacement(e, bits)
    BY Zenon, <1>3 DEF Challenge
  <2>2. QED
    BY Zenon, <2>1, KeepIsGood
<1>4. QED
  BY Zenon, <1>2, <1>3

(* What the frequency based policy decides on a miss is a good outcome. *)
LEMMA MissFBRIsGood ==
    ASSUME config \in Configs, NEW tag \in Tags, NEW type, NEW ways, NEW e \in Chunk,
           NEW bits \in LruBits, NEW tb, CountsSet(ways, e), Misses(ways, tag),
           NEW o \in MissFBR(tag, type, ways, e, bits, tb)
    PROVE  GoodMiss(o, tag, ways, tb)
<1> DEFINE x == getEmptyWay(ways)
           Counted(g) == IF g.idx = NumEntries THEN NoReplacement(e, bits)
                         ELSE LET counted == countAccess(g.entries, g.idx)
                              IN  IF x < NumWays
                                  THEN [way |-> x, entries |-> counted, bits |-> bits]
                                  ELSE Challenge(tag, g.idx, counted, bits, tb)
<1>1. GoodMiss(NoReplacement(e, bits), tag, ways, tb)
  BY Zenon, KeepIsGood
<1>2. o = NoReplacement(e, bits) \/ \E g \in getChunkEntry(e, tag) : o = Counted(g)
  BY Zenon DEF MissFBR
<1>3. ASSUME NEW g \in getChunkEntry(e, tag)
      PROVE  GoodMiss(Counted(g), tag, ways, tb)
  <2> DEFINE c == countAccess(g.entries, g.idx)
  <2>1. CASE x \in Way /\ ~ways[x].valid
    <3>1. x < NumWays /\ x # NumWays /\ x \in 0 .. NumWays
      BY <2>1, SizeFacts DEF Way
    <3>2. /\ g.idx = x /\ g.entries \in Chunk
          /\ \A ways2 : Installed(ways, x, tag, ways2) => CountsSet(ways2, g.entries)
      BY Zenon, <2>1, ChunkEntryOfEmptyWay
    <3>3. x \in Entry /\ x # NumEntries
      BY <2>1, SizeFacts DEF Way, Entry
    <3>4. c \in Chunk /\ SamePages(g.entries, c)
      BY Zenon, <3>2, <3>3, CountAccess
    <3>5. Counted(g) = [way |-> x, entries |-> c, bits |-> bits]
      BY Zenon, <3>1, <3>2, <3>3
    <3> HIDE DEF x, c, Counted
    <3>6. Counted(g).way = x /\ Counted(g).entries = c /\ Counted(g).bits = bits
      BY <3>5
    <3>7. \A ways2 : Installed(ways, x, tag, ways2) => CountsSet(ways2, c)
      BY Zenon, <3>2, <3>4, SamePagesCounted
    <3>8. QED
      BY Zenon, <2>1, <3>1, <3>4, <3>6, <3>7 DEF GoodMiss
  <2>2. CASE x = NumWays /\ \A w \in Way : ways[w].valid
    <3>1. ~(x < NumWays)
      BY <2>2, SizeFacts
    <3>2. CASE g.idx = NumEntries
      BY Zenon, <1>1, <3>2
    <3>3. CASE g.idx # NumEntries
      <4>1. /\ g.idx \in Entry \ Way /\ g.entries \in Chunk
            /\ CountsSet(ways, g.entries)
            /\ g.entries[g.idx].valid /\ g.entries[g.idx].tag = tag
        BY <2>2, <3>3, ChunkEntryOfCandidate
      <4>2. c \in Chunk /\ SamePages(g.entries, c)
        BY Zenon, <4>1, CountAccess
      <4>3. CountsSet(ways, c) /\ c[g.idx].valid /\ c[g.idx].tag = tag
        <5> HIDE DEF c
        <5>1. QED
          BY Zenon, <4>1, <4>2, SamePagesCounted DEF SamePages
      <4>4. Counted(g) = Challenge(tag, g.idx, c, bits, tb)
        BY Zenon, <3>1, <3>3
      <4> HIDE DEF c, Counted
      <4>5. QED
        BY Zenon, <2>2, <4>1, <4>2, <4>3, <4>4, ChallengeIsGood
    <3>4. QED
      BY Zenon, <3>2, <3>3
  <2>3. QED
    BY Zenon, <2>1, <2>2, EmptyWay
<1>4. QED
  BY Zenon, <1>1, <1>2, <1>3

(* handleCacheMiss keeps the counters true and asks for room in the tag     *)
(* buffer for exactly the pages that access() will insert.                  *)
LEMMA CacheMissIsGood ==
    ASSUME config \in Configs, NEW tag \in Tags, NEW type, NEW ways, NEW e \in Chunk,
           NEW bits \in LruBits, NEW tb, Policy = "FBR" => CountsSet(ways, e), Misses(ways, tag),
           NEW o \in handleCacheMiss(tag, type, ways, e, bits, tb)
    PROVE  GoodMiss(o, tag, ways, tb)
<1>1. CASE Policy = "LRU"
  BY Zenon, <1>1, MissLRUIsGood DEF handleCacheMiss
<1>2. CASE Policy = "FBR"
  BY Zenon, <1>2, MissFBRIsGood DEF handleCacheMiss
<1>3. QED
  BY Zenon, <1>1, <1>2, SchemeFacts

(* handleCacheHit only changes counts and recency. *)
LEMMA CacheHitIsGood ==
    ASSUME config \in Configs, NEW tag \in Tags, NEW ways, NEW e \in Chunk, NEW bits \in LruBits,
           Policy = "FBR" => CountsSet(ways, e),
           NEW w \in Way, ways[w].valid, ways[w].tag = tag,
           NEW o \in handleCacheHit(tag, w, e, bits)
    PROVE  o.entries \in Chunk /\ o.bits \in LruBits /\ (Policy = "FBR" => CountsSet(ways, o.entries))
<1>1. CASE Policy = "LRU"
  <2>1. o = [entries |-> e, bits |-> updateLRUBits(bits, w)]
    BY Zenon, <1>1 DEF handleCacheHit
  <2>2. QED
    BY Zenon, <1>1, <2>1, UpdateLRUBitsType
<1>2. CASE Policy = "FBR"
  <2> DEFINE Holder == {i \in Entry : e[i].valid /\ e[i].tag = tag}
             i == FirstOr(Holder, NumEntries)
  <2>1. Way \subseteq Entry /\ Entry \subseteq Nat
    BY Zenon, WaysAreEntries
  <2>2. w \in Holder
    BY Zenon, <1>2, <2>1 DEF CountsSet
  <2>3. i \in Holder
    BY Zenon, <2>1, <2>2, FirstOrLeast
  <2>4. getChunkEntry(e, tag) = {[idx |-> i, entries |-> e]}
    BY Zenon, <2>2 DEF getChunkEntry
  <2> HIDE DEF i
  <2>5. \/ o = [entries |-> e, bits |-> bits]
        \/ o = [entries |-> countAccess(e, i), bits |-> bits]
    <3>1. \A h \in getChunkEntry(e, tag) : h.entries = e /\ h.idx = i
      BY <2>4
    <3>2. Policy # "LRU"
      BY Zenon, <1>2
    <3>3. PICK f \in {e} \cup {countAccess(g.entries, g.idx) :
                                 g \in {h \in getChunkEntry(e, tag) : h.idx < NumEntries}} :
             o = [entries |-> f, bits |-> bits]
      BY Zenon, <3>2 DEF handleCacheHit
    <3>4. f = e \/ f = countAccess(e, i)
      BY Zenon, <3>1, <3>3
    <3>5. QED
      BY Zenon, <3>3, <3>4
  <2>6. countAccess(e, i) \in Chunk /\ CountsSet(ways, countAccess(e, i))
    BY Zenon, <1>2, <2>3, CountAccess, SamePagesCounted
  <2>7. QED
    BY <1>2, <2>5, <2>6
<1>3. QED
  BY Zenon, <1>1, <1>2, SchemeFacts

-----------------------------------------------------------------------------
(* The state as a value *)

TLBEntry == [way : 0 .. NumWays, touch : SUBSET Int, dirty : SUBSET Int]

States == [cache : [Set -> Ways], tlb : [Tags -> TLBEntry], chunks : [Set -> Chunk],
           lru_bits : [Set -> LruBits], evict : Way, fresh : [Addrs -> SUBSET {"ext", "mc"}],
           pte : [Tags -> 0 .. NumWays], tb : Buffers, occ : Nat]

(* A page whose TLB entry names a way is in that way of its set, and in no  *)
(* other; every way holds a page of its own set.                            *)
Mapped(c, t) ==
    /\ \A tag \in Tags, w \in Way :
          t[tag].way = w <=> c[setNum(tag)][w].valid /\ c[setNum(tag)][w].tag = tag
    /\ \A s \in Set, w \in Way : c[s][w].valid => setNum(c[s][w].tag) = s

Counted(c, e) == Policy = "FBR" => \A s \in Set : CountsSet(c[s], e[s])

Buffer(tb, occ) == WellFormed(tb) /\ occ = Cardinality(RemapSlots(tb))

Remapped(tb, tag) == \E w \in TBWay : tb[setOf(tag)][w].tag = tag /\ tb[setOf(tag)][w].remap

Buffered(t, p, tb) == Hybrid => \A tag \in Tags : t[tag].way # p[tag] => Remapped(tb, tag)

(* An eviction of the page of a from way w copies the line a to external    *)
(* DRAM.                                                                    *)
Footprints == Scheme \in {"UnisonCache", "Tagless"}
Copied(c, t, a) ==
    /\ c[setNum(tagOf(a))][t[tagOf(a)].way].dirty
    /\ Footprints => bitOf(a) \in t[tagOf(a)].dirty

(* A line of a cached page is new in the cache, and new in external DRAM or *)
(* due to be copied there; a line of another page is new in external DRAM.  *)
Newest(c, t, f) ==
    \A a \in Addrs : IF t[tagOf(a)].way \in Way
                     THEN "mc" \in f[a] /\ ("ext" \in f[a] \/ Copied(c, t, a))
                     ELSE "ext" \in f[a]

GoodData(m) == m \in States /\ Mapped(m.cache, m.tlb) /\ Newest(m.cache, m.tlb, m.fresh)

Good(m) ==
    /\ GoodData(m) /\ Counted(m.cache, m.chunks)
    /\ Buffer(m.tb, m.occ) /\ Buffered(m.tlb, m.pte, m.tb)

(* m2 differs from m only in the tag buffer. *)
SameButBuffer(m, m2) ==
    m2 = [m EXCEPT !.tb = m2.tb, !.occ = m2.occ]

(* A well-formed tag buffer is well typed. *)
LEMMA BufferType ==
    ASSUME NEW tb, NEW occ, Buffer(tb, occ)
    PROVE  tb \in Buffers /\ occ \in Nat
<1>1. IsFiniteSet(RemapSlots(tb))
  BY Zenon, SlotsFinite, FS_Subset DEF RemapSlots
<1>2. QED
  BY Zenon, <1>1, FS_CardinalityType DEF Buffer, WellFormed

(* One insert, after canInsert has answered yes. *)
LEMMA InsertKeepsBuffer ==
    ASSUME NEW m \in States, Buffer(m.tb, m.occ), NEW tag \in Tags, NEW remap \in BOOLEAN,
           canInsert(m.tb, tag)
    PROVE  LET m2 == tbInsert(m, tag, remap)
           IN  /\ m2 \in States /\ SameButBuffer(m, m2)
               /\ Buffer(m2.tb, m2.occ) /\ KeepsRemaps(m.tb, m2.tb)
               /\ m2.tb = insert(m.tb, tag, remap)
               /\ remap => Remapped(m2.tb, tag)
<1> DEFINE m2 == tbInsert(m, tag, remap)
           tb2 == insert(m.tb, tag, remap)
           n == newlyOccupied(m.tb, tag, remap)
<1>1. m2 = [m EXCEPT !.tb = tb2, !.occ = m.occ + n]
  BY Zenon DEF tbInsert, States
<1>2. /\ WellFormed(m.tb) /\ m.occ = Cardinality(RemapSlots(m.tb))
  BY Zenon DEF Buffer
<1>3. /\ WellFormed(tb2) /\ KeepsRemaps(m.tb, tb2) /\ n \in Nat
      /\ Cardinality(RemapSlots(tb2)) = Cardinality(RemapSlots(m.tb)) + n
  BY Zenon, <1>2, InsertPreserves
<1>4. remap => Remapped(tb2, tag)
  <2> SUFFICES ASSUME remap PROVE Remapped(tb2, tag)
    BY Zenon
  <2>1. m.tb \in Buffers /\ DistinctLru(m.tb)
    BY Zenon, <1>2 DEF WellFormed
  <2>2. PICK way \in TBWay : InsertEffect(m.tb, tag, remap, way)
    BY Zenon, <2>1, InsertThm
  <2>3. QED
    BY Zenon, <2>2 DEF InsertEffect, Remapped
<1> HIDE DEF m2, tb2, n
<1>5. m2.tb = tb2 /\ m2.occ = m.occ + n
  BY Zenon, <1>1 DEF States
<1>6. Buffer(m2.tb, m2.occ)
  BY Zenon, <1>2, <1>3, <1>5 DEF Buffer
<1>7. m2.tb \in Buffers /\ m2.occ \in Nat
  BY Zenon, <1>6, BufferType
<1>8. m2 \in States /\ SameButBuffer(m, m2)
  BY Zenon, <1>1, <1>5, <1>7 DEF States, SameButBuffer
<1>9. QED
  BY Zenon, <1>3, <1>4, <1>5, <1>6, <1>8 DEF m2, tb2

(* A page stays remapped if the buffer keeps its remappings. *)
LEMMA KeptRemapped ==
    ASSUME NEW tb, NEW tb2, KeepsRemaps(tb, tb2), NEW tag \in Tags, Remapped(tb, tag)
    PROVE  Remapped(tb2, tag)
BY Zenon, SetOfType DEF KeepsRemaps, Remapped

(* Both inserts of a replacement, after canInsert has answered yes. *)
LEMMA RecordRemapKeepsBuffer ==
    ASSUME NEW m \in States, Buffer(m.tb, m.occ), NEW tag \in Tags, NEW victim \in Tags,
           tag # victim, Hybrid => canInsert2(m.tb, tag, victim)
    PROVE  LET m2 == recordRemap(m, tag, victim)
           IN  /\ m2 \in States /\ SameButBuffer(m, m2)
               /\ Buffer(m2.tb, m2.occ) /\ KeepsRemaps(m.tb, m2.tb)
               /\ Hybrid => Remapped(m2.tb, tag) /\ Remapped(m2.tb, victim)
<1>1. CASE ~Hybrid
  <2>1. SameButBuffer(m, m) /\ KeepsRemaps(m.tb, m.tb)
    BY Zenon DEF SameButBuffer, KeepsRemaps, States
  <2>2. QED
    BY Zenon, <1>1, <2>1 DEF recordRemap
<1>2. CASE Hybrid
  <2> DEFINE r == tbInsert(m, tag, TRUE)
             m2 == tbInsert(r, victim, TRUE)
  <2>1. /\ canInsert(m.tb, tag) /\ canInsert(insert(m.tb, tag, TRUE), victim)
    BY Zenon, <1>2, PairRoom DEF Buffer
  <2>2. /\ r \in States /\ SameButBuffer(m, r) /\ Buffer(r.tb, r.occ)
        /\ KeepsRemaps(m.tb, r.tb) /\ Remapped(r.tb, tag) /\ canInsert(r.tb, victim)
    BY Zenon, <2>1, InsertKeepsBuffer
  <2> HIDE DEF r
  <2>3. /\ m2 \in States /\ SameButBuffer(r, m2) /\ Buffer(m2.tb, m2.occ)
        /\ KeepsRemaps(r.tb, m2.tb) /\ Remapped(m2.tb, victim)
    BY Zenon, <2>2, InsertKeepsBuffer
  <2>4. m2 = recordRemap(m, tag, victim)
    BY Zenon, <1>2 DEF recordRemap, r
  <2> HIDE DEF m2
  <2>5. Remapped(m2.tb, tag)
    BY Zenon, <2>2, <2>3, KeptRemapped
  <2>6. KeepsRemaps(m.tb, m2.tb)
    BY Zenon, <2>2, <2>3 DEF KeepsRemaps
  <2>7. SameButBuffer(m, m2)
    BY Zenon, <2>2, <2>3 DEF SameButBuffer, States
  <2>8. QED
    BY Zenon, <2>3, <2>4, <2>5, <2>6, <2>7
<1>3. QED
  BY Zenon, <1>1, <1>2

-----------------------------------------------------------------------------
(* Evictions and placements *)

(* Freshness stays well typed when a page leaves the cache. *)
LEMMA LeaveCacheType ==
    ASSUME NEW f \in [Addrs -> SUBSET {"ext", "mc"}], NEW tag, NEW written
    PROVE  leaveCache(f, tag, written) \in [Addrs -> SUBSET {"ext", "mc"}]
<1>1. \A a \in Addrs : leaveCache(f, tag, written)[a] \in SUBSET {"ext", "mc"}
  BY Zenon DEF leaveCache
<1>2. QED
  BY Zenon, <1>1 DEF leaveCache

(* Freshness stays well typed when a page is loaded. *)
LEMMA FillPageType ==
    ASSUME NEW f \in [Addrs -> SUBSET {"ext", "mc"}], NEW tag
    PROVE  fillPage(f, tag) \in [Addrs -> SUBSET {"ext", "mc"}]
<1>1. \A a \in Addrs : fillPage(f, tag)[a] \in SUBSET {"ext", "mc"}
  BY Zenon DEF fillPage
<1>2. QED
  BY Zenon, <1>1 DEF fillPage

(* The bit of a line in the footprint is a number. *)
LEMMA BitType ==
    ASSUME config \in Configs, NEW a \in Addrs
    PROVE  bitOf(a) \in Int
<1>1. config.vec_bits \in Nat
  BY Zenon, AddrsAssumption
<1>2. tagOf(a) \in Nat /\ a \in Nat
  BY Zenon, AddrFacts, TagsAssumption
<1>3. QED
  BY <1>1, <1>2 DEF bitOf, VecBits

(* The TLB entry of a page that was just placed. *)
LEMMA TouchedType ==
    ASSUME config \in Configs, NEW e \in TLBEntry, NEW w \in Way, NEW a \in Addrs, NEW type
    PROVE  /\ touched(e, w, bitOf(a), type) \in TLBEntry
           /\ touched(e, w, bitOf(a), type).way = w
           /\ Paged /\ type = STORE => touched(e, w, bitOf(a), type).dirty = {bitOf(a)}
<1>1. w \in 0 .. NumWays /\ bitOf(a) \in Int
  BY SMTT(30), BitType, SizeFacts DEF Way
<1>2. QED
  BY Zenon, <1>1 DEF touched, TLBEntry

(* What evict changes. *)
EvictEffect(m, s, w, tag, m1) ==
    LET victim == m.cache[s][w].tag
    IN  /\ m1 \in States
        /\ m1.cache = m.cache /\ m1.chunks = m.chunks /\ m1.lru_bits = m.lru_bits
        /\ m1.pte = m.pte /\ m1.evict = m.evict
        /\ m1.tlb = [m.tlb EXCEPT ![victim].way = NumWays]
        /\ m1.fresh = leaveCache(m.fresh, victim, writtenBack(m, s, w))
        /\ Buffer(m1.tb, m1.occ) /\ KeepsRemaps(m.tb, m1.tb)
        /\ Hybrid => Remapped(m1.tb, tag) /\ Remapped(m1.tb, victim)

(* What eviction does to each field of the state. *)
LEMMA EvictFields ==
    ASSUME config \in Configs, NEW m \in States, Buffer(m.tb, m.occ), NEW s \in Set, NEW w \in Way,
           NEW tag \in Tags, m.cache[s][w].tag # tag,
           Hybrid => canInsert2(m.tb, tag, m.cache[s][w].tag)
    PROVE  EvictEffect(m, s, w, tag, evict(m, s, w, tag))
<1> DEFINE victim == m.cache[s][w].tag
           r == recordRemap(m, tag, victim)
           f == leaveCache(r.fresh, victim, writtenBack(m, s, w))
           m1 == [r EXCEPT !.tlb[victim].way = NumWays, !.fresh = f]
<1>1. victim \in Tags
  BY DEF States, Ways
<1>2. /\ r \in States /\ SameButBuffer(m, r)
      /\ Buffer(r.tb, r.occ) /\ KeepsRemaps(m.tb, r.tb)
      /\ Hybrid => Remapped(r.tb, tag) /\ Remapped(r.tb, victim)
  BY Zenon, <1>1, RecordRemapKeepsBuffer
<1>3. evict(m, s, w, tag) = m1
  BY Zenon DEF evict
<1> HIDE DEF r, victim
<1>4. /\ r.cache = m.cache /\ r.tlb = m.tlb /\ r.chunks = m.chunks /\ r.lru_bits = m.lru_bits
      /\ r.evict = m.evict /\ r.fresh = m.fresh /\ r.pte = m.pte
  BY Zenon, <1>2 DEF SameButBuffer, States
<1>5. f \in [Addrs -> SUBSET {"ext", "mc"}]
  BY Zenon, <1>2, LeaveCacheType DEF States
<1>6. f = leaveCache(m.fresh, victim, writtenBack(m, s, w))
  BY Zenon, <1>4
<1> HIDE DEF f
<1>7. [r.tlb EXCEPT ![victim].way = NumWays] \in [Tags -> TLBEntry]
  <2>1. r.tlb \in [Tags -> TLBEntry] /\ NumWays \in 0 .. NumWays
    BY <1>2, SizeFacts DEF States
  <2>2. [r.tlb[victim] EXCEPT !.way = NumWays] \in TLBEntry
    BY Zenon, <1>1, <2>1 DEF TLBEntry
  <2>3. QED
    BY Zenon, <2>1, <2>2
<1>8. /\ m1.cache = r.cache /\ m1.tlb = [r.tlb EXCEPT ![victim].way = NumWays]
      /\ m1.chunks = r.chunks /\ m1.lru_bits = r.lru_bits /\ m1.evict = r.evict
      /\ m1.fresh = f /\ m1.pte = r.pte /\ m1.tb = r.tb /\ m1.occ = r.occ
  BY Zenon, <1>2 DEF States
<1>9. m1 \in States
  BY Zenon, <1>2, <1>5, <1>7 DEF States
<1> HIDE DEF m1
<1>10. QED
  BY Zenon, <1>2, <1>3, <1>4, <1>6, <1>8, <1>9 DEF EvictEffect, victim

(* The TLB after the page of tag took way w from the page of old, if any. *)
Moved(t, t2, tag, w, old) ==
    /\ t2[tag].way = w
    /\ old.valid => t2[old.tag].way = NumWays
    /\ \A x \in Tags \ {tag} : (old.valid /\ x = old.tag) \/ t2[x] = t[x]

(* The ways after the page of tag was put in way w of set s. *)
NewWay(tag, dirty) == [valid |-> TRUE, tag |-> tag, dirty |-> dirty]
WithPage(c, s, w, tag, dirty) == [c EXCEPT ![s][w] = NewWay(tag, dirty)]

(* What install does to an access that misses. *)
InstallEffect(m, s, w, a, type, m2) ==
    LET tag == tagOf(a)
        victim == m.cache[s][w].tag
        evicted == m.cache[s][w].valid
    IN  /\ m2 \in States
        /\ m2.chunks = m.chunks /\ m2.lru_bits = m.lru_bits /\ m2.evict = m.evict
        /\ m2.cache = [m.cache EXCEPT ![s][w] = [valid |-> TRUE, tag |-> tag, dirty |-> type = STORE]]
        /\ Moved(m.tlb, m2.tlb, tag, w, m.cache[s][w])
        /\ Paged /\ type = STORE => m2.tlb[tag].dirty = {bitOf(a)}
        /\ m2.fresh = fillPage(IF evicted THEN leaveCache(m.fresh, victim, writtenBack(m, s, w))
                               ELSE m.fresh, tag)
        /\ Buffer(m2.tb, m2.occ) /\ Buffered(m2.tlb, m2.pte, m2.tb)

(* The last three assignments of a placement. *)
Placed(m1, s, w, a, type) ==
    [m1 EXCEPT !.cache[s][w] = [valid |-> TRUE, tag |-> tagOf(a), dirty |-> type = STORE],
               !.tlb[tagOf(a)] = touched(@, w, bitOf(a), type),
               !.fresh = fillPage(@, tagOf(a))]

PlaceEffect(m1, s, w, a, type, m2) ==
    /\ m2 \in States
    /\ m2.cache = [m1.cache EXCEPT ![s][w] = [valid |-> TRUE, tag |-> tagOf(a), dirty |-> type = STORE]]
    /\ m2.chunks = m1.chunks /\ m2.lru_bits = m1.lru_bits /\ m2.evict = m1.evict
    /\ m2.tlb = [m1.tlb EXCEPT ![tagOf(a)] = touched(m1.tlb[tagOf(a)], w, bitOf(a), type)]
    /\ m2.fresh = fillPage(m1.fresh, tagOf(a))
    /\ m2.pte = m1.pte /\ m2.tb = m1.tb /\ m2.occ = m1.occ

(* What placing a page does to each field of the state. *)
LEMMA PlaceFields ==
    ASSUME config \in Configs, NEW m1 \in States, NEW s \in Set, NEW w \in Way,
           NEW a \in Addrs, NEW type \in {LOAD, STORE},
           NEW m2, m2 = Placed(m1, s, w, a, type)
    PROVE  PlaceEffect(m1, s, w, a, type, m2)
<1> DEFINE tag == tagOf(a)
           new == [valid |-> TRUE, tag |-> tag, dirty |-> type = STORE]
           f == fillPage(m1.fresh, tag)
           e == touched(m1.tlb[tag], w, bitOf(a), type)
<1>1. tag \in Tags
  BY Zenon, AddrFacts
<1>2. m1.tlb \in [Tags -> TLBEntry] /\ m1.fresh \in [Addrs -> SUBSET {"ext", "mc"}]
      /\ m1.cache \in [Set -> Ways]
  BY Zenon DEF States
<1>3. e \in TLBEntry
  BY Zenon, <1>1, <1>2, TouchedType
<1>4. f \in [Addrs -> SUBSET {"ext", "mc"}]
  BY Zenon, <1>2, FillPageType
<1>5. new \in [valid : BOOLEAN, tag : Tags, dirty : BOOLEAN]
  BY Zenon, <1>1
<1> HIDE DEF tag, new
<1>6. [m1.cache EXCEPT ![s][w] = new] \in [Set -> Ways]
  BY Zenon, <1>2, <1>5 DEF Ways
<1>7. m2 = [m1 EXCEPT !.cache = [m1.cache EXCEPT ![s][w] = new],
                      !.tlb = [m1.tlb EXCEPT ![tag] = e], !.fresh = f]
  BY Zenon DEF tag, new, Placed, States
<1>8. [m1.tlb EXCEPT ![tag] = e] \in [Tags -> TLBEntry]
  BY Zenon, <1>2, <1>3
<1> HIDE DEF e, f
<1>9. /\ m2 \in States
      /\ m2.cache = [m1.cache EXCEPT ![s][w] = new]
      /\ m2.chunks = m1.chunks /\ m2.lru_bits = m1.lru_bits /\ m2.evict = m1.evict
      /\ m2.tlb = [m1.tlb EXCEPT ![tag] = e] /\ m2.fresh = f
      /\ m2.pte = m1.pte /\ m2.tb = m1.tb /\ m2.occ = m1.occ
  BY Zenon, <1>4, <1>6, <1>7, <1>8 DEF States
<1>10. QED
  BY Zenon, <1>9 DEF PlaceEffect, tag, new, e, f

(* What install, eviction and placement together, does to each field. *)
LEMMA InstallThm ==
    ASSUME config \in Configs, NEW m \in States, Buffer(m.tb, m.occ), Buffered(m.tlb, m.pte, m.tb),
           NEW a \in Addrs, NEW type \in {LOAD, STORE}, NEW s \in Set, NEW w \in Way,
           m.cache[s][w].valid => m.cache[s][w].tag # tagOf(a),
           Hybrid /\ m.cache[s][w].valid => canInsert2(m.tb, tagOf(a), m.cache[s][w].tag)
    PROVE  InstallEffect(m, s, w, a, type, install(m, s, w, a, type))
<1> DEFINE tag == tagOf(a)
           victim == m.cache[s][w].tag
           evicted == m.cache[s][w].valid
           m1 == IF evicted THEN evict(m, s, w, tag) ELSE [m EXCEPT !.pte[tag] = IF Hybrid THEN w ELSE @]
           m2 == install(m, s, w, a, type)
           f == IF evicted THEN leaveCache(m.fresh, victim, writtenBack(m, s, w)) ELSE m.fresh
<1>1. tag \in Tags /\ victim \in Tags /\ evicted \in BOOLEAN /\ w \in 0 .. NumWays
  BY AddrFacts, SizeFacts DEF States, Ways, Way
<1>2. /\ m1 \in States /\ m1.cache = m.cache /\ m1.chunks = m.chunks
      /\ m1.lru_bits = m.lru_bits /\ m1.evict = m.evict /\ m1.fresh = f
      /\ Buffer(m1.tb, m1.occ) /\ KeepsRemaps(m.tb, m1.tb)
      /\ m1.tlb[tag] \in TLBEntry
      /\ evicted => /\ tag # victim /\ m1.tlb[victim].way = NumWays /\ m1.pte = m.pte
                    /\ Hybrid => Remapped(m1.tb, tag) /\ Remapped(m1.tb, victim)
      /\ ~evicted /\ Hybrid => m1.pte[tag] = w
      /\ \A x \in Tags \ {tag} : (evicted /\ x = victim) \/ (m1.tlb[x] = m.tlb[x] /\ m1.pte[x] = m.pte[x])
  <2>1. CASE evicted
    <3>1. m1 = evict(m, s, w, tag)
      BY Zenon, <2>1
    <3>2. /\ m1 \in States
          /\ m1.cache = m.cache /\ m1.chunks = m.chunks /\ m1.lru_bits = m.lru_bits
          /\ m1.pte = m.pte /\ m1.evict = m.evict
          /\ m1.tlb = [m.tlb EXCEPT ![victim].way = NumWays]
          /\ m1.fresh = f
          /\ Buffer(m1.tb, m1.occ) /\ KeepsRemaps(m.tb, m1.tb)
          /\ Hybrid => Remapped(m1.tb, tag) /\ Remapped(m1.tb, victim)
      <4>1. f = leaveCache(m.fresh, victim, writtenBack(m, s, w))
        BY Zenon, <2>1
      <4>2. victim # tag /\ (Hybrid => canInsert2(m.tb, tag, victim))
        BY Zenon, <2>1
      <4> HIDE DEF m1, f, tag, evicted
      <4>3. QED
        <5>1. EvictEffect(m, s, w, tag, m1)
          BY Zenon, <1>1, <3>1, <4>2, EvictFields
        <5>2. QED
          BY Zenon, <4>1, <5>1 DEF EvictEffect
    <3>3. tag # victim
      BY Zenon, <2>1
    <3> HIDE DEF tag, victim, evicted, m1, f
    <3>4. m.tlb \in [Tags -> TLBEntry] /\ m1.tlb \in [Tags -> TLBEntry]
      BY Zenon, <3>2 DEF States
    <3>5. m1.tlb[victim].way = NumWays
      BY Zenon, <1>1, <3>2, <3>4 DEF TLBEntry
    <3>6. m1.tlb[tag] \in TLBEntry
      BY Zenon, <1>1, <3>4
    <3>7. \A x \in Tags \ {victim} : m1.tlb[x] = m.tlb[x]
      BY Zenon, <3>2, <3>4
    <3>8. QED
      BY Zenon, <2>1, <3>2, <3>3, <3>5, <3>6, <3>7
  <2>2. CASE ~evicted
    <3>1. m1 = [m EXCEPT !.pte[tag] = IF Hybrid THEN w ELSE @] /\ f = m.fresh
      BY Zenon, <2>2
    <3>2. KeepsRemaps(m.tb, m.tb)
      BY Zenon DEF KeepsRemaps
    <3> HIDE DEF tag, victim, evicted, m1, f
    <3>3. m.pte \in [Tags -> 0 .. NumWays] /\ m.tlb \in [Tags -> TLBEntry]
      BY Zenon DEF States
    <3> DEFINE p == [m.pte EXCEPT ![tag] = IF Hybrid THEN w ELSE @]
    <3>4. p \in [Tags -> 0 .. NumWays] /\ (Hybrid => p[tag] = w) /\ \A x \in Tags \ {tag} : p[x] = m.pte[x]
      BY Zenon, <1>1, <3>3
    <3>5. m1 = [m EXCEPT !.pte = p]
      BY Zenon, <3>1 DEF States
    <3> HIDE DEF p
    <3>6. /\ m1 \in States /\ m1.cache = m.cache /\ m1.chunks = m.chunks
          /\ m1.lru_bits = m.lru_bits /\ m1.evict = m.evict /\ m1.fresh = m.fresh
          /\ m1.tb = m.tb /\ m1.occ = m.occ /\ m1.tlb = m.tlb /\ m1.pte = p
      BY Zenon, <3>4, <3>5 DEF States
    <3>7. QED
      BY Zenon, <1>1, <2>2, <3>1, <3>2, <3>3, <3>4, <3>6
  <2>3. QED
    BY Zenon, <2>1, <2>2
<1>3. m2 = Placed(m1, s, w, a, type)
  BY Zenon DEF install, Placed
<1> HIDE DEF m1, m2, f
<1>4. /\ m2 \in States
      /\ m2.cache = [m1.cache EXCEPT ![s][w] = [valid |-> TRUE, tag |-> tagOf(a), dirty |-> type = STORE]]
      /\ m2.chunks = m1.chunks /\ m2.lru_bits = m1.lru_bits /\ m2.evict = m1.evict
      /\ m2.tlb = [m1.tlb EXCEPT ![tagOf(a)] = touched(m1.tlb[tagOf(a)], w, bitOf(a), type)]
      /\ m2.fresh = fillPage(m1.fresh, tagOf(a))
      /\ m2.pte = m1.pte /\ m2.tb = m1.tb /\ m2.occ = m1.occ
  <2>1. PlaceEffect(m1, s, w, a, type, m2)
    BY ZenonT(30), <1>2, <1>3, PlaceFields
  <2>2. QED
    BY Zenon, <2>1 DEF PlaceEffect
<1>5. /\ m2.tlb[tag] = touched(m1.tlb[tag], w, bitOf(a), type)
      /\ \A x \in Tags \ {tag} : m2.tlb[x] = m1.tlb[x]
  BY Zenon, <1>1, <1>2, <1>4 DEF States
<1>6. m2.tlb[tag].way = w /\ (Paged /\ type = STORE => m2.tlb[tag].dirty = {bitOf(a)})
  <2> HIDE DEF tag, victim, evicted
  <2>0. PICK e : e = m1.tlb[tag]
    BY Zenon
  <2>1. e \in TLBEntry
    BY ZenonT(30), <2>0, <1>2
  <2>2. /\ touched(e, w, bitOf(a), type).way = w
        /\ Paged /\ type = STORE => touched(e, w, bitOf(a), type).dirty = {bitOf(a)}
    BY SMTT(30), <2>1, TouchedType
  <2>3. QED
    BY ZenonT(30), <1>5, <2>0, <2>2
<1> HIDE DEF tag, victim, evicted
<1>7. Moved(m.tlb, m2.tlb, tag, w, m.cache[s][w])
  BY Zenon, <1>1, <1>2, <1>5, <1>6 DEF Moved, evicted, victim
<1>8. Buffered(m2.tlb, m2.pte, m2.tb)
  <2> SUFFICES ASSUME Hybrid, NEW x \in Tags, m2.tlb[x].way # m2.pte[x]
               PROVE  Remapped(m2.tb, x)
    BY Zenon DEF Buffered
  <2>1. CASE x = tag
    BY Zenon, <1>1, <1>2, <1>4, <1>6, <2>1
  <2>2. CASE x # tag /\ evicted /\ x = victim
    BY Zenon, <1>2, <1>4, <2>2
  <2>3. CASE x # tag /\ ~(evicted /\ x = victim)
    <3>1. m2.tlb[x] = m.tlb[x] /\ m2.pte[x] = m.pte[x]
      <4>1. m1.tlb[x] = m.tlb[x] /\ m1.pte[x] = m.pte[x]
        BY Zenon, <1>2, <2>3
      <4>2. m2.tlb[x] = m1.tlb[x] /\ m2.pte = m1.pte
        BY Zenon, <1>4, <1>5, <2>3
      <4>3. QED
        BY Zenon, <4>1, <4>2
    <3>2. Remapped(m.tb, x)
      BY Zenon, <3>1 DEF Buffered
    <3>3. QED
      BY Zenon, <1>2, <1>4, <3>2, KeptRemapped
  <2>4. QED
    BY Zenon, <2>1, <2>2, <2>3
<1>9. QED
  BY Zenon, <1>2, <1>4, <1>6, <1>7, <1>8 DEF InstallEffect, tag, victim, evicted, m2, f

-----------------------------------------------------------------------------
(* A placement keeps the mapping and the data *)

(* Replacing a page keeps TLB and cache in agreement. *)
LEMMA MovedMapped ==
    ASSUME config \in Configs, NEW c \in [Set -> Ways], NEW t \in [Tags -> TLBEntry],
           NEW t2 \in [Tags -> TLBEntry], Mapped(c, t), NEW tag \in Tags, t[tag].way \notin Way,
           NEW w \in Way, NEW dirty, NEW s, s = setNum(tag),
           Moved(t, t2, tag, w, c[s][w]),
           NEW c2, c2 = WithPage(c, s, w, tag, dirty)
    PROVE  Mapped(c2, t2)
<1>1. s \in Set
  BY Zenon, SetNumType
<1>2. /\ c2[s][w] = NewWay(tag, dirty)
      /\ \A v \in Way : v # w => c2[s][v] = c[s][v]
      /\ \A r \in Set : r # s => c2[r] = c[r]
  BY Zenon, <1>1 DEF WithPage, Ways
<1>3. c2[s][w].valid /\ c2[s][w].tag = tag
  BY <1>2 DEF NewWay
<1>4. NumWays \notin Way
  BY Zenon, WaysAreEntries
<1>5. ASSUME NEW x \in Tags, NEW v \in Way
      PROVE  t2[x].way = v <=> c2[setNum(x)][v].valid /\ c2[setNum(x)][v].tag = x
  <2>1. setNum(x) \in Set
    BY Zenon, SetNumType
  <2>2. t[x].way = v <=> c[setNum(x)][v].valid /\ c[setNum(x)][v].tag = x
    BY Zenon DEF Mapped
  <2>3. CASE x = tag
    <3>1. t2[x].way = w
      BY Zenon, <2>3 DEF Moved
    <3>2. ~(c[s][v].valid /\ c[s][v].tag = x)
      BY Zenon, <2>2, <2>3
    <3>3. QED
      BY <1>2, <1>3, <2>3, <3>1, <3>2
  <2>4. CASE x # tag /\ c[s][w].valid /\ x = c[s][w].tag
    <3>1. t2[x].way # v
      BY Zenon, <1>4, <2>4 DEF Moved
    <3>2. setNum(x) = s
      BY <1>1, <2>4 DEF Mapped
    <3>3. t[x].way = w
      BY <2>4, <3>2 DEF Mapped
    <3>4. CASE v = w
      BY Zenon, <1>3, <2>4, <3>1, <3>2, <3>4
    <3>5. CASE v # w
      BY <1>2, <2>2, <3>1, <3>2, <3>3, <3>5
    <3>6. QED
      BY Zenon, <3>4, <3>5
  <2>5. CASE x # tag /\ ~(c[s][w].valid /\ x = c[s][w].tag)
    <3>1. t2[x] = t[x]
      BY Zenon, <2>5 DEF Moved
    <3>2. CASE setNum(x) = s /\ v = w
      BY Zenon, <1>3, <2>2, <2>5, <3>1, <3>2
    <3>3. CASE ~(setNum(x) = s /\ v = w)
      <4>1. c2[setNum(x)][v] = c[setNum(x)][v]
        BY Zenon, <1>2, <2>1, <3>3
      <4>2. QED
        BY Zenon, <2>2, <3>1, <4>1
    <3>4. QED
      BY Zenon, <3>2, <3>3
  <2>6. QED
    BY Zenon, <2>3, <2>4, <2>5
<1>6. ASSUME NEW r \in Set, NEW v \in Way, c2[r][v].valid
      PROVE  setNum(c2[r][v].tag) = r
  <2>1. CASE r = s /\ v = w
    BY Zenon, <1>3, <2>1
  <2>2. CASE ~(r = s /\ v = w)
    <3>1. c2[r][v] = c[r][v]
      BY Zenon, <1>2, <2>2
    <3>2. QED
      BY <1>6, <3>1 DEF Mapped
  <2>3. QED
    BY Zenon, <2>1, <2>2
<1>7. QED
  BY Zenon, <1>5, <1>6 DEF Mapped

(* Replacing a page keeps counters and cache in agreement. *)
LEMMA MovedCounted ==
    ASSUME config \in Configs, NEW c \in [Set -> Ways], NEW e \in [Set -> Chunk],
           NEW s \in Set, NEW tag, NEW dirty, Counted(c, e),
           NEW o, NEW tb, GoodMiss(o, tag, c[s], tb), o.way \in Way
    PROVE  Counted(WithPage(c, s, o.way, tag, dirty), [e EXCEPT ![s] = o.entries])
<1> DEFINE w == o.way
           f == o.entries
           c2 == WithPage(c, s, w, tag, dirty)
           e2 == [e EXCEPT ![s] = f]
<1>0. w \in Way /\ (Policy = "FBR" => \A ways2 : Installed(c[s], w, tag, ways2) => CountsSet(ways2, f))
  BY Zenon DEF GoodMiss
<1> HIDE DEF w, f
<1>1. /\ c2[s][w] = NewWay(tag, dirty)
      /\ \A v \in Way : v # w => c2[s][v] = c[s][v]
      /\ \A r \in Set : r # s => c2[r] = c[r]
  BY Zenon, <1>0 DEF WithPage, Ways
<1>2. Installed(c[s], w, tag, c2[s])
  BY <1>1 DEF Installed, NewWay
<1>3. Policy = "FBR" => CountsSet(c2[s], e2[s])
  BY Zenon, <1>0, <1>2
<1>4. \A r \in Set : r # s => c2[r] = c[r] /\ e2[r] = e[r]
  BY Zenon, <1>1
<1>5. QED
  BY Zenon, <1>3, <1>4 DEF Counted, w, f

(* What the placement of the page of a does to the data of every line. *)
AfterEviction(m, s, w) ==
    IF m.cache[s][w].valid THEN leaveCache(m.fresh, m.cache[s][w].tag, writtenBack(m, s, w))
    ELSE m.fresh

(* The newest value of a line of an evicted page is in external DRAM *)
(* afterwards: it was there, or is written back.                     *)
LEMMA EvictedLine ==
    ASSUME config \in Configs, NEW m, GoodData(m), NEW s \in Set, NEW w \in Way, m.cache[s][w].valid,
           NEW b \in Addrs, tagOf(b) = m.cache[s][w].tag
    PROVE  "ext" \in AfterEviction(m, s, w)[b]
<1> DEFINE victim == m.cache[s][w].tag
           written == writtenBack(m, s, w)
<1>1. /\ m.cache \in [Set -> Ways] /\ m.tlb \in [Tags -> TLBEntry]
      /\ m.fresh \in [Addrs -> SUBSET {"ext", "mc"}]
  BY Zenon DEF GoodData, States
<1>2. victim \in Tags /\ setNum(victim) = s
  BY <1>1 DEF GoodData, Mapped, Ways
<1>3. m.tlb[victim].way = w
  BY Zenon, <1>2 DEF GoodData, Mapped
<1>4. "mc" \in m.fresh[b] /\ ("ext" \in m.fresh[b] \/ Copied(m.cache, m.tlb, b))
  BY Zenon, <1>3 DEF GoodData, Newest
<1>5. b \in Page(victim)
  BY Zenon DEF Page
<1>6. Copied(m.cache, m.tlb, b) => b \in written
  <2> SUFFICES ASSUME Copied(m.cache, m.tlb, b) PROVE b \in written
    BY Zenon
  <2>1. m.cache[s][w].dirty /\ (Footprints => bitOf(b) \in m.tlb[victim].dirty)
    BY Zenon, <1>2, <1>3 DEF Copied
  <2>2. CASE Footprints
    <3>1. written = {a \in Page(victim) : bitOf(a) \in m.tlb[victim].dirty}
      BY Zenon, <2>1, <2>2 DEF writtenBack, Footprints
    <3>2. QED
      BY Zenon, <1>5, <2>1, <2>2, <3>1
  <2>3. CASE ~Footprints
    <3>1. written = Page(victim)
      BY Zenon, <2>1, <2>3 DEF writtenBack, Footprints
    <3>2. QED
      BY Zenon, <1>5, <3>1
  <2>4. QED
    BY Zenon, <2>2, <2>3
<1> HIDE DEF written, victim
<1>7. AfterEviction(m, s, w) = leaveCache(m.fresh, victim, written)
  BY Zenon DEF AfterEviction, victim, written
<1>8. CASE b \in written
  <2>1. b \in Page(victim) \cap written
    BY Zenon, <1>5, <1>8
  <2>2. leaveCache(m.fresh, victim, written)[b] = {"ext"}
    BY Zenon, <1>4, <2>1 DEF leaveCache
  <2>3. QED
    BY Zenon, <1>7, <2>2
<1>9. CASE b \notin written
  <2>1. b \in Page(victim) \ written /\ b \notin Page(victim) \cap written
    BY Zenon, <1>5, <1>9
  <2>2. leaveCache(m.fresh, victim, written)[b] = m.fresh[b] \ {"mc"}
    BY Zenon, <2>1 DEF leaveCache
  <2>3. "ext" \in m.fresh[b]
    BY Zenon, <1>4, <1>6, <1>9
  <2>4. QED
    BY Zenon, <1>7, <2>2, <2>3
<1>10. QED
  BY Zenon, <1>8, <1>9

(* Evicting a page leaves the lines of other pages alone. *)
LEMMA OtherLines ==
    ASSUME NEW m, NEW s, NEW w, NEW b \in Addrs, m.cache[s][w].valid => tagOf(b) # m.cache[s][w].tag
    PROVE  AfterEviction(m, s, w)[b] = m.fresh[b]
<1>1. CASE ~m.cache[s][w].valid
  BY Zenon, <1>1 DEF AfterEviction
<1>2. CASE m.cache[s][w].valid
  <2>1. b \notin Page(m.cache[s][w].tag)
    BY Zenon, <1>2 DEF Page
  <2>2. QED
    BY Zenon, <1>2, <2>1 DEF AfterEviction, leaveCache
<1>3. QED
  BY Zenon, <1>1, <1>2

(* Loading a page copies its newest values, and touches no other page. *)
LEMMA FilledLines ==
    ASSUME NEW f, NEW tag, NEW b \in Addrs
    PROVE  /\ tagOf(b) = tag /\ "ext" \in f[b] => fillPage(f, tag)[b] = {"ext", "mc"}
           /\ tagOf(b) # tag => fillPage(f, tag)[b] = f[b]
BY Zenon DEF fillPage, Page

(* After a replacement the memory that serves a line has its newest value. *)
LEMMA MovedNewest ==
    ASSUME config \in Configs, NEW m, GoodData(m), NEW a \in Addrs, NEW type \in {LOAD, STORE},
           m.tlb[tagOf(a)].way \notin Way,
           NEW s, s = setNum(tagOf(a)), NEW w \in Way,
           NEW m2, InstallEffect(m, s, w, a, type, m2)
    PROVE  Newest(m2.cache, m2.tlb, store(m2.fresh, a, type, TRUE))
<1> DEFINE tag == tagOf(a)
           evicted == m.cache[s][w].valid
           victim == m.cache[s][w].tag
           f1 == AfterEviction(m, s, w)
           f2 == fillPage(f1, tag)
           f3 == store(f2, a, type, TRUE)
           c == m.cache
           c2 == m2.cache
           new == type = STORE
<1>1. /\ m.cache \in [Set -> Ways] /\ m.tlb \in [Tags -> TLBEntry]
      /\ m.fresh \in [Addrs -> SUBSET {"ext", "mc"}] /\ m2.fresh \in [Addrs -> SUBSET {"ext", "mc"}]
      /\ m2.tlb \in [Tags -> TLBEntry]
  BY Zenon DEF GoodData, States, InstallEffect
<1>2. tag \in Tags /\ s \in Set /\ NumWays \notin Way
  BY ZenonT(30), AddrFacts, SetNumType, WaysAreEntries
<1>3. m2.fresh = f2
  BY Zenon DEF InstallEffect, AfterEviction
<1>4. /\ c2[s][w] = NewWay(tag, new)
      /\ \A v \in Way : v # w => c2[s][v] = c[s][v]
      /\ \A r \in Set : r # s => c2[r] = c[r]
  <2>1. c2 = [c EXCEPT ![s][w] = NewWay(tag, new)]
    BY Zenon DEF InstallEffect, NewWay
  <2> HIDE DEF new, tag, c, c2
  <2>2. c \in [Set -> Ways]
    BY Zenon, <1>1 DEF c
  <2>3. QED
    BY Zenon, <1>2, <2>1, <2>2 DEF Ways
<1>5. evicted => victim # tag
  <2> SUFFICES ASSUME evicted, victim = tag PROVE FALSE
    BY Zenon
  <2>1. m.tlb[tag].way = w
    BY <1>2 DEF GoodData, Mapped
  <2>2. QED
    BY Zenon, <2>1
<1>6. Moved(m.tlb, m2.tlb, tag, w, m.cache[s][w])
  BY Zenon DEF InstallEffect
<1>7. Paged /\ type = STORE => m2.tlb[tag].dirty = {bitOf(a)}
  BY Zenon DEF InstallEffect
<1>8. f2 \in [Addrs -> SUBSET {"ext", "mc"}]
  BY Zenon, <1>1, <1>3
<1> HIDE DEF tag, evicted, victim, f1, f2, c, c2
<1>9. /\ \A b \in Addrs : b # a \/ type # STORE => f3[b] = f2[b]
      /\ type = STORE => "mc" \in f3[a]
  BY Zenon, <1>8 DEF store
<1> HIDE DEF f3, new
<1>10. ASSUME NEW b \in Addrs
      PROVE  IF m2.tlb[tagOf(b)].way \in Way
             THEN "mc" \in f3[b] /\ ("ext" \in f3[b] \/ Copied(c2, m2.tlb, b))
             ELSE "ext" \in f3[b]
  <2>1. CASE tagOf(b) = tag
    <3>1. m2.tlb[tagOf(b)].way = w
      BY Zenon, <1>6, <2>1 DEF Moved
    <3>2. "ext" \in m.fresh[b]
      BY Zenon, <2>1 DEF GoodData, Newest, tag
    <3>3. f1[b] = m.fresh[b]
      BY <1>5, <2>1, OtherLines DEF f1, evicted, victim
    <3>4. f2[b] = {"ext", "mc"}
      BY <2>1, <3>2, <3>3, FilledLines DEF f2
    <3>5. CASE b # a \/ type # STORE
      <4>1. f3[b] = f2[b]
        BY Zenon, <1>9, <3>5
      <4>2. QED
        BY Zenon, <3>1, <3>4, <4>1
    <3>6. CASE b = a /\ type = STORE
      <4>1. "mc" \in f3[b]
        BY Zenon, <1>9, <3>6
      <4>2. c2[s][w].dirty
        <5>1. NewWay(tag, new).dirty = new
          BY Zenon DEF NewWay
        <5>2. new
          BY Zenon, <3>6 DEF new
        <5>3. QED
          BY Zenon, <1>4, <5>1, <5>2
      <4>3. Footprints => bitOf(b) \in m2.tlb[tag].dirty
        BY Zenon, <1>7, <3>6 DEF Footprints, Paged
      <4>4. Copied(c2, m2.tlb, b)
        BY Zenon, <2>1, <3>1, <4>2, <4>3 DEF Copied, tag
      <4>5. QED
        BY Zenon, <3>1, <4>1, <4>4
    <3>7. QED
      BY Zenon, <3>5, <3>6
  <2>2. CASE tagOf(b) # tag /\ evicted /\ tagOf(b) = victim
    <3>1. m2.tlb[tagOf(b)].way = NumWays
      BY Zenon, <1>6, <2>2 DEF Moved, evicted, victim
    <3>2. "ext" \in f1[b]
      BY ZenonT(30), <1>2, <2>2, EvictedLine DEF f1, evicted, victim
    <3>3. f2[b] = f1[b]
      BY <2>2, FilledLines DEF f2
    <3>4. b # a
      BY Zenon, <2>2 DEF tag
    <3>5. f3[b] = f2[b]
      BY Zenon, <1>9, <3>4
    <3>6. QED
      BY Zenon, <1>2, <3>1, <3>2, <3>3, <3>5
  <2>3. CASE tagOf(b) # tag /\ ~(evicted /\ tagOf(b) = victim)
    <3> DEFINE x == tagOf(b)
               v == m.tlb[x].way
    <3>1. x \in Tags /\ setNum(x) \in Set
      BY Zenon, AddrFacts, SetNumType
    <3>2. m2.tlb[x] = m.tlb[x]
      BY Zenon, <1>6, <2>3, <3>1 DEF Moved, evicted, victim
    <3>3. f3[b] = m.fresh[b]
      <4>1. f1[b] = m.fresh[b]
        BY <2>3, OtherLines DEF f1, evicted, victim
      <4>2. f2[b] = f1[b]
        BY <2>3, FilledLines DEF f2
      <4>3. b # a
        BY Zenon, <2>3 DEF tag
      <4>4. f3[b] = f2[b]
        BY Zenon, <1>9, <4>3
      <4>5. QED
        BY ZenonT(30), <4>1, <4>2, <4>4
    <3>4. v \in Way => c2[setNum(x)][v] = c[setNum(x)][v]
      <4> SUFFICES ASSUME v \in Way PROVE c2[setNum(x)][v] = c[setNum(x)][v]
        BY Zenon
      <4>1. c[setNum(x)][v].valid /\ c[setNum(x)][v].tag = x
        BY Zenon, <3>1 DEF GoodData, Mapped, c
      <4>2. ~(setNum(x) = s /\ v = w)
        BY Zenon, <2>3, <4>1 DEF c, evicted, victim
      <4>3. QED
        BY Zenon, <1>4, <3>1, <4>2
    <3>5. v \in Way => (Copied(c2, m2.tlb, b) <=> Copied(c, m.tlb, b))
      BY Zenon, <3>2, <3>4 DEF Copied
    <3>6. IF v \in Way THEN "mc" \in m.fresh[b] /\ ("ext" \in m.fresh[b] \/ Copied(c, m.tlb, b))
          ELSE "ext" \in m.fresh[b]
      BY Zenon DEF GoodData, Newest, c
    <3>7. QED
      BY Zenon, <3>2, <3>3, <3>5, <3>6
  <2>4. QED
    BY Zenon, <2>1, <2>2, <2>3
<1>11. QED
  BY Zenon, <1>3, <1>10 DEF Newest, c2, f3

-----------------------------------------------------------------------------
(* access() keeps the state good *)

(* Whatever scheme and policy, the way chosen on a miss is a good outcome. *)
LEMMA ReplaceWayIsGood ==
    ASSUME config \in Configs, NEW m, Good(m), NEW tag \in Tags, NEW type, NEW s, s = setNum(tag),
           m.tlb[tag].way \notin Way, NEW o \in replaceWay(m, s, tag, type)
    PROVE  GoodMiss(o, tag, m.cache[s], m.tb)
<1> DEFINE e == m.chunks[s]
           bits == m.lru_bits[s]
           ways == m.cache[s]
           keep == NoReplacement(e, bits)
<1>1. s \in Set
  BY Zenon, SetNumType
<1>2. e \in Chunk /\ bits \in LruBits /\ m.evict \in Way
  BY Zenon, <1>1 DEF Good, GoodData, States
<1>3. Policy = "FBR" => CountsSet(ways, e)
  BY Zenon, <1>1 DEF Good, Counted
<1>4. Misses(ways, tag)
  BY Zenon DEF Good, GoodData, Mapped, Misses
<1>5. GoodMiss(keep, tag, ways, m.tb)
  BY Zenon, <1>2, <1>3, KeepIsGood
<1>6. ASSUME ~Hybrid, NEW w \in Way
      PROVE  GoodMiss([keep EXCEPT !.way = w], tag, ways, m.tb)
  <2>1. Policy # "FBR"
    BY Zenon, <1>6, SchemeFacts
  <2>2. w \in 0 .. NumWays
    BY SizeFacts DEF Way
  <2>3. [keep EXCEPT !.way = w] = [way |-> w, entries |-> e, bits |-> bits]
    BY DEF NoReplacement
  <2> HIDE DEF e, bits, ways, keep
  <2>4. QED
    BY Zenon, <1>2, <1>6, <2>1, <2>2, <2>3 DEF GoodMiss
<1>7. CASE Scheme = "Tagless"
  <2>1. o = [keep EXCEPT !.way = m.evict]
    BY Zenon, <1>7 DEF replaceWay
  <2>2. ~Hybrid
    BY Zenon, <1>7 DEF Hybrid
  <2> HIDE DEF keep
  <2>3. QED
    BY Zenon, <1>2, <1>6, <2>1, <2>2
<1>8. CASE Scheme = "AlloyCache"
  <2>1. o = keep \/ o = [keep EXCEPT !.way = 0]
    BY Zenon, <1>8 DEF replaceWay
  <2>2. ~Hybrid /\ 0 \in Way
    BY <1>8, SizeFacts DEF Hybrid, Way
  <2> HIDE DEF keep
  <2>3. QED
    BY Zenon, <1>5, <1>6, <2>1, <2>2
<1>9. CASE Scheme \in {"HybridCache", "UnisonCache"}
  <2>1. o = keep \/ o \in handleCacheMiss(tag, type, ways, e, bits, m.tb)
    BY Zenon, <1>9 DEF replaceWay
  <2>2. ASSUME o \in handleCacheMiss(tag, type, ways, e, bits, m.tb)
        PROVE  GoodMiss(o, tag, ways, m.tb)
    <3> HIDE DEF ways, e, bits
    <3>1. QED
      BY Zenon, <1>2, <1>3, <1>4, <2>2, CacheMissIsGood
  <2>3. QED
    BY Zenon, <1>5, <2>1, <2>2
<1>10. QED
  BY Zenon, <1>7, <1>8, <1>9, SchemeFacts

(* The bookkeeping before a placement: counters, recency and the next way   *)
(* of Tagless.                                                              *)
Accounted(m, s, o) ==
    [m EXCEPT !.chunks[s] = o.entries, !.lru_bits[s] = o.bits,
              !.evict = IF Scheme = "Tagless" THEN (@ + 1) % NumWays ELSE @]

AccountEffect(m, s, o, m1) ==
    /\ m1 \in States
    /\ m1.cache = m.cache /\ m1.tlb = m.tlb /\ m1.fresh = m.fresh /\ m1.pte = m.pte
    /\ m1.tb = m.tb /\ m1.occ = m.occ
    /\ m1.chunks = [m.chunks EXCEPT ![s] = o.entries]

(* What the policy's bookkeeping does to each field. *)
LEMMA AccountThm ==
    ASSUME config \in Configs, NEW m \in States, NEW s \in Set,
           NEW o, o.entries \in Chunk, o.bits \in LruBits
    PROVE  AccountEffect(m, s, o, Accounted(m, s, o))
<1> DEFINE e == [m.chunks EXCEPT ![s] = o.entries]
           b == [m.lru_bits EXCEPT ![s] = o.bits]
           x == IF Scheme = "Tagless" THEN (m.evict + 1) % NumWays ELSE m.evict
           m1 == Accounted(m, s, o)
<1>1. e \in [Set -> Chunk] /\ b \in [Set -> LruBits]
  BY Zenon DEF States
<1>2. x \in Way
  <2>1. m.evict \in Way
    BY Zenon DEF States
  <2>2. (m.evict + 1) % NumWays \in Way
    BY <2>1, SizeFacts DEF Way
  <2>3. QED
    BY Zenon, <2>1, <2>2
<1>3. m1 = [m EXCEPT !.chunks = e, !.lru_bits = b, !.evict = x]
  BY Zenon DEF Accounted, States
<1> HIDE DEF e, b, x, m1
<1>4. /\ m1 \in States
      /\ m1.cache = m.cache /\ m1.tlb = m.tlb /\ m1.fresh = m.fresh /\ m1.pte = m.pte
      /\ m1.tb = m.tb /\ m1.occ = m.occ /\ m1.chunks = e
  BY Zenon, <1>1, <1>2, <1>3 DEF States
<1>5. QED
  BY Zenon, <1>4 DEF AccountEffect, e, m1

BufferEffect(m, m2) ==
    /\ m2 \in States
    /\ m2.cache = m.cache /\ m2.tlb = m.tlb /\ m2.fresh = m.fresh /\ m2.pte = m.pte
    /\ m2.chunks = m.chunks
    /\ Buffer(m2.tb, m2.occ) /\ KeepsRemaps(m.tb, m2.tb)

(* A hint to the tag buffer changes nothing but the buffer, and keeps its *)
(* remappings.                                                            *)
LEMMA HintThm ==
    ASSUME NEW m \in States, Buffer(m.tb, m.occ), NEW tag \in Tags, NEW type
    PROVE  BufferEffect(m, tbHint(m, tag, type))
<1>1. CASE Hybrid /\ type = LOAD /\ canInsert(m.tb, tag)
  <2> DEFINE m2 == tbInsert(m, tag, FALSE)
  <2>1. tbHint(m, tag, type) = m2
    BY Zenon, <1>1 DEF tbHint
  <2>2. m2 \in States /\ SameButBuffer(m, m2) /\ Buffer(m2.tb, m2.occ) /\ KeepsRemaps(m.tb, m2.tb)
    BY Zenon, <1>1, InsertKeepsBuffer
  <2> HIDE DEF m2
  <2>3. /\ m2.cache = m.cache /\ m2.tlb = m.tlb /\ m2.fresh = m.fresh /\ m2.pte = m.pte
        /\ m2.chunks = m.chunks
    BY Zenon, <2>2 DEF SameButBuffer, States
  <2>4. QED
    BY Zenon, <2>1, <2>2, <2>3 DEF BufferEffect
<1>2. CASE ~(Hybrid /\ type = LOAD /\ canInsert(m.tb, tag))
  <2>1. tbHint(m, tag, type) = m
    BY Zenon, <1>2 DEF tbHint
  <2>2. KeepsRemaps(m.tb, m.tb)
    BY Zenon DEF KeepsRemaps
  <2>3. QED
    BY Zenon, <2>1, <2>2 DEF BufferEffect
<1>3. QED
  BY Zenon, <1>1, <1>2

(* Stale mappings stay buffered if the buffer keeps its remappings. *)
LEMMA KeptBuffered ==
    ASSUME NEW t, NEW p, NEW tb, NEW tb2, Buffered(t, p, tb), KeepsRemaps(tb, tb2)
    PROVE  Buffered(t, p, tb2)
BY Zenon, KeptRemapped DEF Buffered

(* A miss that places the page keeps the state consistent. *)
LEMMA PlacedIsGood ==
    ASSUME config \in Configs, NEW m, Good(m), NEW a \in Addrs, NEW type \in {LOAD, STORE},
           m.tlb[tagOf(a)].way \notin Way, NEW s, s = setNum(tagOf(a)),
           NEW o, GoodMiss(o, tagOf(a), m.cache[s], m.tb), o.way \in Way,
           NEW m1, m1 = Accounted(m, s, o), NEW m2, m2 = install(m1, s, o.way, a, type),
           NEW n, n = [m2 EXCEPT !.fresh = store(m2.fresh, a, type, TRUE)]
    PROVE  Good(n)
<1> DEFINE tag == tagOf(a)
           w == o.way
           new == type = STORE
           f == store(m2.fresh, a, type, TRUE)
<1>1. tag \in Tags /\ s \in Set
  BY Zenon, AddrFacts, SetNumType
<1>2. /\ m \in States /\ Mapped(m.cache, m.tlb) /\ Newest(m.cache, m.tlb, m.fresh)
      /\ Counted(m.cache, m.chunks) /\ Buffer(m.tb, m.occ) /\ Buffered(m.tlb, m.pte, m.tb)
  BY Zenon DEF Good, GoodData
<1>3. AccountEffect(m, s, o, m1)
  BY Zenon, <1>1, <1>2, AccountThm DEF GoodMiss
<1>4. /\ m1 \in States /\ m1.cache = m.cache /\ m1.tlb = m.tlb /\ m1.fresh = m.fresh
      /\ m1.pte = m.pte /\ m1.tb = m.tb /\ m1.occ = m.occ
      /\ m1.chunks = [m.chunks EXCEPT ![s] = o.entries]
  BY Zenon, <1>3 DEF AccountEffect
<1>5. m1.cache[s][w].valid => m1.cache[s][w].tag # tag
  BY <1>1, <1>2, <1>4 DEF Mapped
<1>6. Hybrid /\ m1.cache[s][w].valid => canInsert2(m1.tb, tag, m1.cache[s][w].tag)
  BY Zenon, <1>4 DEF GoodMiss
<1>7. Buffer(m1.tb, m1.occ) /\ Buffered(m1.tlb, m1.pte, m1.tb)
  BY Zenon, <1>2, <1>4
<1>8. InstallEffect(m1, s, w, a, type, m2)
  BY <1>1, <1>4, <1>5, <1>6, <1>7, InstallThm
<1>9. GoodData(m1)
  BY Zenon, <1>2, <1>4 DEF GoodData
<1>10. m1.tlb[tag].way \notin Way
  BY Zenon, <1>4
<1>11. Newest(m2.cache, m2.tlb, f)
  BY Zenon, <1>8, <1>9, <1>10, MovedNewest
<1>12. /\ m2 \in States /\ m2.chunks = m1.chunks
       /\ m2.cache = WithPage(m.cache, s, w, tag, new)
       /\ Moved(m.tlb, m2.tlb, tag, w, m.cache[s][w])
       /\ Buffer(m2.tb, m2.occ) /\ Buffered(m2.tlb, m2.pte, m2.tb)
  BY Zenon, <1>4, <1>8 DEF InstallEffect, WithPage, NewWay
<1> HIDE DEF new, w, tag
<1>13. /\ m.cache \in [Set -> Ways] /\ m.tlb \in [Tags -> TLBEntry] /\ m2.tlb \in [Tags -> TLBEntry]
       /\ m.chunks \in [Set -> Chunk] /\ m2.fresh \in [Addrs -> SUBSET {"ext", "mc"}]
  BY Zenon, <1>2, <1>12 DEF States
<1>14. Mapped(m2.cache, m2.tlb)
  <2>1. m.tlb[tag].way \notin Way /\ s = setNum(tag) /\ w \in Way
    BY Zenon DEF tag, w
  <2>2. QED
    BY Zenon, <1>1, <1>2, <1>12, <1>13, <2>1, MovedMapped
<1>15. Counted(m2.cache, m2.chunks)
  <2>1. GoodMiss(o, tag, m.cache[s], m.tb) /\ o.way \in Way
    BY Zenon DEF tag
  <2>2. m2.chunks = [m.chunks EXCEPT ![s] = o.entries] /\ m2.cache = WithPage(m.cache, s, o.way, tag, new)
    BY Zenon, <1>4, <1>12 DEF w
  <2>3. Counted(WithPage(m.cache, s, o.way, tag, new), [m.chunks EXCEPT ![s] = o.entries])
    BY Zenon, <1>1, <1>2, <1>13, <2>1, MovedCounted
  <2>4. QED
    BY Zenon, <2>2, <2>3
<1>16. f \in [Addrs -> SUBSET {"ext", "mc"}]
  BY Zenon, <1>13 DEF store
<1> HIDE DEF f
<1>17. /\ n \in States /\ n.fresh = f
       /\ n.cache = m2.cache /\ n.tlb = m2.tlb /\ n.chunks = m2.chunks /\ n.pte = m2.pte
       /\ n.tb = m2.tb /\ n.occ = m2.occ
  <2>1. n = [m2 EXCEPT !.fresh = f]
    BY Zenon DEF f
  <2>2. QED
    BY Zenon, <1>12, <1>16, <2>1 DEF States
<1>18. QED
  BY Zenon, <1>11, <1>12, <1>14, <1>15, <1>17 DEF Good, GoodData

(* A miss that bypasses the cache keeps the state consistent. *)
LEMMA RefusedIsGood ==
    ASSUME config \in Configs, NEW m, Good(m), NEW a \in Addrs, NEW type \in {LOAD, STORE},
           m.tlb[tagOf(a)].way \notin Way, NEW s, s = setNum(tagOf(a)),
           NEW o, GoodMiss(o, tagOf(a), m.cache[s], m.tb), o.way = NumWays,
           NEW m1, m1 = Accounted(m, s, o), NEW m2, m2 = tbHint(m1, tagOf(a), type),
           NEW n, n = [m2 EXCEPT !.fresh = store(m2.fresh, a, type, FALSE)]
    PROVE  Good(n)
<1> DEFINE tag == tagOf(a)
           f == store(m2.fresh, a, type, FALSE)
<1>1. tag \in Tags /\ s \in Set
  BY Zenon, AddrFacts, SetNumType
<1>2. /\ m \in States /\ Mapped(m.cache, m.tlb) /\ Newest(m.cache, m.tlb, m.fresh)
      /\ Counted(m.cache, m.chunks) /\ Buffer(m.tb, m.occ) /\ Buffered(m.tlb, m.pte, m.tb)
  BY Zenon DEF Good, GoodData
<1>3. AccountEffect(m, s, o, m1)
  BY Zenon, <1>1, <1>2, AccountThm DEF GoodMiss
<1>4. m1 \in States /\ Buffer(m1.tb, m1.occ)
  BY Zenon, <1>2, <1>3 DEF AccountEffect
<1>5. BufferEffect(m1, m2)
  BY Zenon, <1>1, <1>4, HintThm
<1>6. /\ m2 \in States /\ m2.cache = m.cache /\ m2.tlb = m.tlb /\ m2.fresh = m.fresh
      /\ m2.pte = m.pte /\ m2.chunks = [m.chunks EXCEPT ![s] = o.entries]
      /\ Buffer(m2.tb, m2.occ) /\ KeepsRemaps(m.tb, m2.tb)
  BY Zenon, <1>3, <1>5 DEF AccountEffect, BufferEffect
<1>7. Buffered(m2.tlb, m2.pte, m2.tb)
  BY Zenon, <1>2, <1>6, KeptBuffered
<1>8. Counted(m2.cache, m2.chunks)
  <2>1. m.chunks \in [Set -> Chunk]
    BY Zenon, <1>2 DEF States
  <2>2. Policy = "FBR" => CountsSet(m.cache[s], o.entries)
    BY Zenon DEF GoodMiss
  <2>3. QED
    BY Zenon, <1>1, <1>2, <1>6, <2>1, <2>2 DEF Counted
<1>9. m.fresh \in [Addrs -> SUBSET {"ext", "mc"}]
  BY Zenon, <1>2 DEF States
<1>10. /\ f \in [Addrs -> SUBSET {"ext", "mc"}]
       /\ \A b \in Addrs : b # a => f[b] = m.fresh[b]
       /\ "ext" \in m.fresh[a] => "ext" \in f[a]
  BY Zenon, <1>6, <1>9 DEF store
<1>11. n = [m2 EXCEPT !.fresh = f]
  BY Zenon
<1> HIDE DEF f
<1>12. Newest(m.cache, m.tlb, f)
  <2> SUFFICES ASSUME NEW b \in Addrs
               PROVE  IF m.tlb[tagOf(b)].way \in Way
                      THEN "mc" \in f[b] /\ ("ext" \in f[b] \/ Copied(m.cache, m.tlb, b))
                      ELSE "ext" \in f[b]
    BY Zenon DEF Newest
  <2>1. IF m.tlb[tagOf(b)].way \in Way
        THEN "mc" \in m.fresh[b] /\ ("ext" \in m.fresh[b] \/ Copied(m.cache, m.tlb, b))
        ELSE "ext" \in m.fresh[b]
    BY Zenon, <1>2 DEF Newest
  <2>2. CASE b = a
    BY Zenon, <1>10, <2>1, <2>2
  <2>3. CASE b # a
    BY Zenon, <1>10, <2>1, <2>3
  <2>4. QED
    BY Zenon, <2>2, <2>3
<1>13. /\ n \in States /\ n.fresh = f
       /\ n.cache = m2.cache /\ n.tlb = m2.tlb /\ n.chunks = m2.chunks /\ n.pte = m2.pte
       /\ n.tb = m2.tb /\ n.occ = m2.occ
  BY Zenon, <1>6, <1>10, <1>11 DEF States
<1>14. QED
  BY Zenon, <1>2, <1>6, <1>7, <1>8, <1>12, <1>13 DEF Good, GoodData

(* Every miss keeps the state consistent. *)
LEMMA MissIsGood ==
    ASSUME config \in Configs, NEW m, Good(m), NEW a \in Addrs, NEW type \in {LOAD, STORE},
           m.tlb[tagOf(a)].way \notin Way, NEW n \in Miss(m, a, type)
    PROVE  Good(n)
<1> DEFINE tag == tagOf(a)
           s == setNum(tag)
<1>1. PICK o \in replaceWay(m, s, tag, type) :
         LET m2 == IF o.way < NumWays THEN install(Accounted(m, s, o), s, o.way, a, type)
                   ELSE tbHint(Accounted(m, s, o), tag, type)
         IN  n = [m2 EXCEPT !.fresh = store(@, a, type, o.way < NumWays)]
  BY Zenon DEF Miss, Accounted
<1>2. GoodMiss(o, tag, m.cache[s], m.tb)
  BY Zenon, AddrFacts, ReplaceWayIsGood
<1>3. o.way \in 0 .. NumWays
  BY Zenon, <1>2 DEF GoodMiss
<1> DEFINE m1 == Accounted(m, s, o)
<1> HIDE DEF m1
<1>4. CASE o.way \in Way
  <2> DEFINE m2 == install(m1, s, o.way, a, type)
  <2>1. o.way < NumWays
    BY <1>4, SizeFacts DEF Way
  <2>2. n = [m2 EXCEPT !.fresh = store(m2.fresh, a, type, TRUE)]
    BY Zenon, <1>1, <2>1 DEF m1, store
  <2> HIDE DEF m2
  <2>3. QED
    BY Zenon, <1>2, <1>4, <2>2, PlacedIsGood DEF m1, m2
<1>5. CASE o.way = NumWays
  <2> DEFINE m2 == tbHint(m1, tag, type)
  <2>1. ~(o.way < NumWays)
    BY <1>5, SizeFacts
  <2>2. n = [m2 EXCEPT !.fresh = store(m2.fresh, a, type, FALSE)]
    BY Zenon, <1>1, <2>1 DEF m1, store
  <2> HIDE DEF m2
  <2>3. QED
    BY Zenon, <1>2, <1>5, <2>2, RefusedIsGood DEF m1, m2
<1>6. QED
  BY <1>3, <1>4, <1>5, SizeFacts DEF Way

(* The same pages in the same ways; a way may have become dirty. *)
SameMap(c, c2) ==
    \A s \in Set, v \in Way : /\ c2[s][v].valid = c[s][v].valid /\ c2[s][v].tag = c[s][v].tag
                              /\ c[s][v].dirty => c2[s][v].dirty

SameWays(t, t2) ==
    \A x \in Tags : t2[x].way = t[x].way /\ t[x].dirty \subseteq t2[x].dirty

(* TLB and cache agree as long as neither mapping changes. *)
LEMMA SameMapped ==
    ASSUME config \in Configs, NEW c, NEW c2, NEW t, NEW t2, SameMap(c, c2), SameWays(t, t2), Mapped(c, t)
    PROVE  Mapped(c2, t2)
<1>1. ASSUME NEW x \in Tags, NEW v \in Way
      PROVE  t2[x].way = v <=> c2[setNum(x)][v].valid /\ c2[setNum(x)][v].tag = x
  <2>1. setNum(x) \in Set
    BY Zenon, SetNumType
  <2>2. t[x].way = v <=> c[setNum(x)][v].valid /\ c[setNum(x)][v].tag = x
    BY Zenon DEF Mapped
  <2>3. /\ c2[setNum(x)][v].valid = c[setNum(x)][v].valid
        /\ c2[setNum(x)][v].tag = c[setNum(x)][v].tag /\ t2[x].way = t[x].way
    BY Zenon, <2>1 DEF SameMap, SameWays
  <2>4. QED
    BY Zenon, <2>2, <2>3
<1>2. \A s \in Set, v \in Way : c2[s][v].valid => setNum(c2[s][v].tag) = s
  BY DEF SameMap, Mapped
<1>3. QED
  BY ZenonT(30), <1>1, <1>2 DEF Mapped

(* A hit in way w: what access() changes before the tag buffer hint. *)
HitEffect(m, s, w, a, type, o, m1) ==
    /\ m1 \in States /\ SameMap(m.cache, m1.cache) /\ SameWays(m.tlb, m1.tlb)
    /\ m1.chunks = [m.chunks EXCEPT ![s] = o.entries]
    /\ m1.pte = m.pte /\ m1.tb = m.tb /\ m1.occ = m.occ
    /\ m1.fresh = [m.fresh EXCEPT ![a] = IF type = STORE THEN {"mc"} ELSE @]
    /\ type = STORE => m1.cache[s][w].dirty /\ (Paged => bitOf(a) \in m1.tlb[tagOf(a)].dirty)

Touched(m, s, w, a, type, o) ==
    [m EXCEPT !.chunks[s] = o.entries, !.lru_bits[s] = o.bits,
              !.cache[s][w].dirty = @ \/ type = STORE,
              !.tlb[tagOf(a)] = marked(@, bitOf(a), type),
              !.fresh[a] = IF type = STORE THEN {"mc"} ELSE @]

(* What a hit does to each field of the state. *)
LEMMA HitThm ==
    ASSUME config \in Configs, NEW m \in States, NEW s \in Set, NEW w \in Way, NEW a \in Addrs,
           NEW type \in {LOAD, STORE}, NEW o, o.entries \in Chunk, o.bits \in LruBits
    PROVE  HitEffect(m, s, w, a, type, o, Touched(m, s, w, a, type, o))
<1> DEFINE tag == tagOf(a)
           bit == bitOf(a)
           old == m.cache[s][w]
           c2 == [m.cache EXCEPT ![s][w] = [old EXCEPT !.dirty = old.dirty \/ type = STORE]]
           page == m.tlb[tag]
           page2 == marked(page, bit, type)
           t2 == [m.tlb EXCEPT ![tag] = page2]
           e2 == [m.chunks EXCEPT ![s] = o.entries]
           b2 == [m.lru_bits EXCEPT ![s] = o.bits]
           f2 == [m.fresh EXCEPT ![a] = IF type = STORE THEN {"mc"} ELSE @]
           m1 == Touched(m, s, w, a, type, o)
<1>1. tag \in Tags /\ bit \in Int
  BY Zenon, AddrFacts, BitType
<1>2. /\ m.cache \in [Set -> Ways] /\ m.tlb \in [Tags -> TLBEntry] /\ m.chunks \in [Set -> Chunk]
      /\ m.lru_bits \in [Set -> LruBits] /\ m.fresh \in [Addrs -> SUBSET {"ext", "mc"}]
  BY Zenon DEF States
<1>3. m1 = [m EXCEPT !.chunks = e2, !.lru_bits = b2, !.cache = c2, !.tlb = t2, !.fresh = f2]
  BY Zenon DEF Touched, States
<1>4. c2 \in [Set -> Ways] /\ SameMap(m.cache, c2) /\ (type = STORE => c2[s][w].dirty)
  <2>0. old \in [valid : BOOLEAN, tag : Tags, dirty : BOOLEAN]
    BY Zenon, <1>2 DEF Ways
  <2>1. [old EXCEPT !.dirty = old.dirty \/ type = STORE] \in [valid : BOOLEAN, tag : Tags, dirty : BOOLEAN]
    <3> HIDE DEF old
    <3>1. QED
      BY Zenon, <2>0
  <2>2. c2 \in [Set -> Ways]
    BY Zenon, <1>2, <2>1 DEF Ways
  <2>3. /\ c2[s][w].valid = old.valid /\ c2[s][w].tag = old.tag
        /\ old.dirty => c2[s][w].dirty
        /\ type = STORE => c2[s][w].dirty
    BY Zenon, <1>2, <2>1 DEF Ways
  <2>4. /\ \A v \in Way : v # w => c2[s][v] = m.cache[s][v]
        /\ \A r \in Set : r # s => c2[r] = m.cache[r]
    BY Zenon, <1>2 DEF Ways
  <2> HIDE DEF c2
  <2>5. SameMap(m.cache, c2)
    <3> SUFFICES ASSUME NEW r \in Set, NEW v \in Way
                 PROVE  /\ c2[r][v].valid = m.cache[r][v].valid /\ c2[r][v].tag = m.cache[r][v].tag
                        /\ m.cache[r][v].dirty => c2[r][v].dirty
      BY Zenon DEF SameMap
    <3>1. CASE r = s /\ v = w
      BY Zenon, <2>3, <3>1
    <3>2. CASE ~(r = s /\ v = w)
      BY Zenon, <2>4, <3>2
    <3>3. QED
      BY Zenon, <3>1, <3>2
  <2>6. QED
    BY Zenon, <2>2, <2>3, <2>5
<1>5. /\ t2 \in [Tags -> TLBEntry] /\ SameWays(m.tlb, t2)
      /\ type = STORE /\ Paged => bit \in t2[tag].dirty
  <2>1. page \in TLBEntry
    BY Zenon, <1>1, <1>2
  <2>2. /\ page2 \in TLBEntry /\ page2.way = page.way /\ page.dirty \subseteq page2.dirty
        /\ type = STORE /\ Paged => bit \in page2.dirty
    BY Zenon, <1>1, <2>1 DEF TLBEntry, marked
  <2> HIDE DEF page2
  <2>3. t2[tag] = page2 /\ \A x \in Tags : x # tag => t2[x] = m.tlb[x]
    BY Zenon, <1>1, <1>2
  <2>4. t2 \in [Tags -> TLBEntry]
    BY Zenon, <1>2, <2>2
  <2> HIDE DEF t2
  <2>5. SameWays(m.tlb, t2)
    BY Zenon, <2>2, <2>3 DEF SameWays
  <2>6. QED
    BY Zenon, <2>2, <2>3, <2>4, <2>5
<1>6. f2 \in [Addrs -> SUBSET {"ext", "mc"}] /\ e2 \in [Set -> Chunk] /\ b2 \in [Set -> LruBits]
  BY Zenon, <1>2
<1>7. f2 = [m.fresh EXCEPT ![a] = IF type = STORE THEN {"mc"} ELSE @]
  BY Zenon
<1> HIDE DEF c2, t2, e2, b2, f2, m1
<1>8. /\ m1 \in States /\ m1.cache = c2 /\ m1.tlb = t2 /\ m1.chunks = e2 /\ m1.fresh = f2
      /\ m1.pte = m.pte /\ m1.tb = m.tb /\ m1.occ = m.occ
  BY Zenon, <1>3, <1>4, <1>5, <1>6 DEF States
<1>9. QED
  BY Zenon, <1>4, <1>5, <1>7, <1>8 DEF HitEffect, m1, e2

(* Every hit keeps the state consistent. *)
LEMMA HitIsGood ==
    ASSUME config \in Configs, NEW m, Good(m), NEW a \in Addrs, NEW type \in {LOAD, STORE},
           NEW w \in Way, m.tlb[tagOf(a)].way = w, NEW n \in Hit(m, a, type, w)
    PROVE  Good(n)
<1> DEFINE tag == tagOf(a)
           s == setNum(tag)
           Outcome == IF Scheme \in {"HybridCache", "UnisonCache"}
                      THEN handleCacheHit(tag, w, m.chunks[s], m.lru_bits[s])
                      ELSE {[entries |-> m.chunks[s], bits |-> m.lru_bits[s]]}
<1>1. tag \in Tags /\ s \in Set
  BY Zenon, AddrFacts, SetNumType
<1>2. /\ m \in States /\ Mapped(m.cache, m.tlb) /\ Newest(m.cache, m.tlb, m.fresh)
      /\ Counted(m.cache, m.chunks) /\ Buffer(m.tb, m.occ) /\ Buffered(m.tlb, m.pte, m.tb)
  BY Zenon DEF Good, GoodData
<1>3. PICK o \in Outcome : n = tbHint(Touched(m, s, w, a, type, o), tag, type)
  BY Zenon DEF Hit, Touched
<1>4. /\ o.entries \in Chunk /\ o.bits \in LruBits
      /\ Policy = "FBR" => CountsSet(m.cache[s], o.entries)
  <2>1. m.chunks[s] \in Chunk /\ m.lru_bits[s] \in LruBits
    BY Zenon, <1>1, <1>2 DEF States
  <2>2. Policy = "FBR" => CountsSet(m.cache[s], m.chunks[s])
    BY Zenon, <1>1, <1>2 DEF Counted
  <2>3. m.cache[s][w].valid /\ m.cache[s][w].tag = tag
    <3>1. \A x \in Tags, v \in Way :
            m.tlb[x].way = v <=> m.cache[setNum(x)][v].valid /\ m.cache[setNum(x)][v].tag = x
      BY Zenon, <1>2 DEF Mapped
    <3>2. QED
      BY Zenon, <1>1, <3>1
  <2>4. CASE o \in handleCacheHit(tag, w, m.chunks[s], m.lru_bits[s])
    <3> HIDE DEF s, tag
    <3>1. QED
      BY ZenonT(30), <1>1, <2>1, <2>2, <2>3, <2>4, CacheHitIsGood
  <2>5. CASE o = [entries |-> m.chunks[s], bits |-> m.lru_bits[s]]
    BY Zenon, <2>1, <2>2, <2>5
  <2>6. QED
    BY Zenon, <1>3, <2>4, <2>5
<1> DEFINE m1 == Touched(m, s, w, a, type, o)
<1>5. HitEffect(m, s, w, a, type, o, m1)
  BY ZenonT(30), <1>1, <1>2, <1>4, HitThm
<1>6. n = tbHint(m1, tag, type)
  BY Zenon, <1>3
<1> HIDE DEF m1
<1>7. m1 \in States /\ Buffer(m1.tb, m1.occ)
  BY Zenon, <1>2, <1>5 DEF HitEffect
<1>8. BufferEffect(m1, n)
  BY Zenon, <1>1, <1>6, <1>7, HintThm
<1>9. /\ n \in States /\ SameMap(m.cache, n.cache) /\ SameWays(m.tlb, n.tlb)
      /\ n.chunks = [m.chunks EXCEPT ![s] = o.entries] /\ n.pte = m.pte
      /\ n.fresh = [m.fresh EXCEPT ![a] = IF type = STORE THEN {"mc"} ELSE @]
      /\ type = STORE => n.cache[s][w].dirty /\ (Paged => bitOf(a) \in n.tlb[tag].dirty)
      /\ Buffer(n.tb, n.occ) /\ KeepsRemaps(m.tb, n.tb)
  BY Zenon, <1>5, <1>8 DEF HitEffect, BufferEffect
<1> HIDE DEF s
<1>10. Mapped(n.cache, n.tlb)
  BY Zenon, <1>2, <1>9, SameMapped
<1>11. Counted(n.cache, n.chunks)
  <2>1. m.chunks \in [Set -> Chunk]
    BY Zenon, <1>2 DEF States
  <2>2. Policy = "FBR" => \A r \in Set : CountsSet(m.cache[r], n.chunks[r])
    <3>1. \A r \in Set : n.chunks[r] = IF r = s THEN o.entries ELSE m.chunks[r]
      BY Zenon, <1>1, <1>9, <2>1
    <3>2. Policy = "FBR" => \A r \in Set : CountsSet(m.cache[r], m.chunks[r])
      BY Zenon, <1>2 DEF Counted
    <3>3. QED
      BY Zenon, <1>4, <3>1, <3>2
  <2>3. ASSUME NEW r \in Set, NEW e, CountsSet(m.cache[r], e)
        PROVE  CountsSet(n.cache[r], e)
    <3>1. \A v \in Way : /\ n.cache[r][v].valid <=> m.cache[r][v].valid
                         /\ n.cache[r][v].tag = m.cache[r][v].tag
      BY ZenonT(30), <1>9 DEF SameMap
    <3>2. QED
      BY Zenon, <2>3, <3>1 DEF CountsSet
  <2>4. QED
    BY Zenon, <2>2, <2>3 DEF Counted
<1>12. Buffered(n.tlb, n.pte, n.tb)
  <2>1. Buffered(n.tlb, n.pte, m.tb)
    BY Zenon, <1>2, <1>9 DEF Buffered, SameWays
  <2>2. QED
    BY Zenon, <1>9, <2>1, KeptBuffered
<1>13. Newest(n.cache, n.tlb, n.fresh)
  <2> SUFFICES ASSUME NEW b \in Addrs
               PROVE  IF n.tlb[tagOf(b)].way \in Way
                      THEN "mc" \in n.fresh[b] /\ ("ext" \in n.fresh[b] \/ Copied(n.cache, n.tlb, b))
                      ELSE "ext" \in n.fresh[b]
    BY Zenon DEF Newest
  <2> DEFINE x == tagOf(b)
             v == m.tlb[x].way
  <2>1. x \in Tags /\ setNum(x) \in Set
    BY Zenon, AddrFacts, SetNumType
  <2>2. n.tlb[x].way = v /\ m.tlb[x].dirty \subseteq n.tlb[x].dirty
    BY Zenon, <1>9, <2>1 DEF SameWays
  <2>3. IF v \in Way THEN "mc" \in m.fresh[b] /\ ("ext" \in m.fresh[b] \/ Copied(m.cache, m.tlb, b))
        ELSE "ext" \in m.fresh[b]
    BY Zenon, <1>2 DEF Newest
  <2>4. v \in Way /\ Copied(m.cache, m.tlb, b) => Copied(n.cache, n.tlb, b)
    BY Zenon, <1>9, <2>1, <2>2 DEF Copied, SameMap
  <2>5. m.fresh \in [Addrs -> SUBSET {"ext", "mc"}]
    BY Zenon, <1>2 DEF States
  <2>6. CASE b # a \/ type # STORE
    <3>1. n.fresh[b] = m.fresh[b]
      BY Zenon, <1>9, <2>5, <2>6
    <3>2. QED
      BY Zenon, <2>2, <2>3, <2>4, <3>1
  <2>7. CASE b = a /\ type = STORE
    <3>1. n.fresh[b] = {"mc"}
      BY Zenon, <1>9, <2>5, <2>7
    <3>2. v = w /\ setNum(x) = s
      BY Zenon, <2>7 DEF s
    <3>3. Copied(n.cache, n.tlb, b)
      <4>1. n.cache[setNum(x)][n.tlb[x].way].dirty
        BY Zenon, <1>9, <2>2, <2>7, <3>2
      <4>2. Footprints => Paged
        BY Zenon DEF Footprints, Paged
      <4>3. Footprints => bitOf(b) \in n.tlb[x].dirty
        BY Zenon, <1>9, <2>7, <4>2
      <4>4. QED
        BY Zenon, <4>1, <4>3 DEF Copied
    <3>4. QED
      BY Zenon, <2>2, <3>1, <3>2, <3>3
  <2>8. QED
    BY Zenon, <2>6, <2>7
<1>14. QED
  BY Zenon, <1>9, <1>10, <1>11, <1>12, <1>13 DEF Good, GoodData

(* A flush brings the page tables up to date and empties the buffer. *)
LEMMA FlushIsGood ==
    ASSUME config \in Configs, NEW m, Good(m)
    PROVE  Good(flushIfCrowded(m))
<1> DEFINE p == [t \in Tags |-> m.tlb[t].way]
           n == tbFlush(m)
<1>1. /\ m \in States /\ Mapped(m.cache, m.tlb) /\ Newest(m.cache, m.tlb, m.fresh)
      /\ Counted(m.cache, m.chunks)
  BY Zenon DEF Good, GoodData
<1>2. m.tlb \in [Tags -> TLBEntry]
  BY Zenon, <1>1 DEF States
<1>3. p \in [Tags -> 0 .. NumWays] /\ \A t \in Tags : p[t] = m.tlb[t].way
  BY Zenon, <1>2 DEF TLBEntry
<1>4. Buffer(EmptyTagBuffer, 0)
  BY Zenon, EmptyIsWellFormed DEF Buffer
<1>5. EmptyTagBuffer \in Buffers
  BY Zenon, <1>4, BufferType
<1>6. n = [m EXCEPT !.tb = EmptyTagBuffer, !.occ = 0, !.pte = p]
  BY Zenon DEF tbFlush
<1> HIDE DEF n, p
<1>7. /\ n \in States /\ n.cache = m.cache /\ n.tlb = m.tlb /\ n.fresh = m.fresh
      /\ n.chunks = m.chunks /\ n.pte = p /\ n.tb = EmptyTagBuffer /\ n.occ = 0
  BY Zenon, <1>1, <1>3, <1>5, <1>6 DEF States
<1>8. Buffered(n.tlb, n.pte, n.tb)
  BY Zenon, <1>3, <1>7 DEF Buffered
<1>9. Good(n)
  BY Zenon, <1>1, <1>4, <1>7, <1>8 DEF Good, GoodData
<1>10. QED
  BY Zenon, <1>9 DEF flushIfCrowded, n

(* A page is a hit exactly if the TLB gives it a way, also for AlloyCache,  *)
(* which looks at the tag of the only way.                                  *)
LEMMA HitWay ==
    ASSUME config \in Configs, NEW m, Good(m), ds_index = 0, NEW tag \in Tags
    PROVE  hitWay(m, tag) = m.tlb[tag].way /\ m.tlb[tag].way \in 0 .. NumWays
<1> DEFINE s == setNum(tag)
           way == m.cache[s][0]
<1>1. m.tlb[tag] \in TLBEntry /\ s \in Set
  BY Zenon, SetNumType DEF Good, GoodData, States
<1>2. m.tlb[tag].way \in 0 .. NumWays
  BY Zenon, <1>1 DEF TLBEntry
<1>3. CASE Paged
  BY Zenon, <1>2, <1>3 DEF hitWay
<1>4. CASE ~Paged
  <2>1. NumWays = 1 /\ 0 \in Way
    BY <1>4, SchemeFacts DEF Way
  <2>2. s >= ds_index
    BY <1>1 DEF Set
  <2>3. m.tlb[tag].way = 0 <=> way.valid /\ way.tag = tag
    BY Zenon, <2>1 DEF Good, GoodData, Mapped
  <2>4. m.tlb[tag].way = 0 \/ m.tlb[tag].way = NumWays
    BY <1>2, <2>1
  <2>5. hitWay(m, tag) = IF way.valid /\ way.tag = tag THEN 0 ELSE NumWays
    BY Zenon, <1>4, <2>2 DEF hitWay
  <2>6. CASE way.valid /\ way.tag = tag
    BY Zenon, <1>2, <2>3, <2>5, <2>6
  <2>7. CASE ~(way.valid /\ way.tag = tag)
    BY Zenon, <1>2, <2>3, <2>4, <2>5, <2>7
  <2>8. QED
    BY Zenon, <2>6, <2>7
<1>5. QED
  BY Zenon, <1>3, <1>4

-----------------------------------------------------------------------------
(* The inductive invariant.  Each part needs the others: what an eviction   *)
(* writes back is decided by the dirty bits, which describe the right page  *)
(* only if TLB and cache agree; the room asked for in the tag buffer is     *)
(* that of the page the counters name, which is the page in the way only if *)
(* the counters follow the cache; and a mapping that the page tables lack   *)
(* stays buffered only if the inserts found room.                           *)
CacheInv == config \in Configs /\ (~Balanced => ds_index = 0 /\ Good(Now))

(* The fields of the present state. *)
LEMMA NowFields ==
    /\ Now.cache = cache /\ Now.tlb = tlb /\ Now.chunks = chunks /\ Now.lru_bits = lru_bits
    /\ Now.evict = next_evict_idx /\ Now.fresh = fresh /\ Now.pte = pte
    /\ Now.tb = tag_buffer /\ Now.occ = entry_occupied
BY Zenon DEF Now

(* The cache starts consistent. *)
LEMMA InitIsGood == Init => CacheInv
<1> SUFFICES ASSUME Init PROVE Good(Now) /\ ds_index = 0 /\ config \in Configs
  BY Zenon DEF CacheInv
<1>1. config \in Configs /\ ds_index = 0
  BY Zenon DEF Init
<1>2. /\ NumWays \in 0 .. NumWays /\ 0 \in Way /\ NumWays \notin Way
  BY <1>1, SizeFacts, WaysAreEntries DEF Way
<1>3. /\ Buffer(tag_buffer, entry_occupied) /\ tag_buffer \in Buffers /\ entry_occupied \in Nat
  <2>1. Buffer(tag_buffer, entry_occupied)
    BY Zenon, EmptyIsWellFormed DEF Init, TBInit, Buffer
  <2>2. QED
    BY Zenon, <2>1, BufferType
<1>4. cache \in [Set -> Ways] /\ \A s \in Set, w \in Way : ~cache[s][w].valid
  BY Zenon, TagsAssumption DEF Init, Ways
<1>5. /\ tlb \in [Tags -> TLBEntry] /\ pte \in [Tags -> 0 .. NumWays]
      /\ \A t \in Tags : tlb[t].way = NumWays /\ pte[t] = NumWays
  BY Zenon, <1>2 DEF Init, TLBEntry
<1>6. chunks \in [Set -> Chunk] /\ \A s \in Set, i \in Entry : ~chunks[s][i].valid
  <2>1. EmptyChunk \in Chunk /\ \A i \in Entry : ~EmptyChunk[i].valid
    BY <1>1, TagsAssumption, SizeFacts DEF EmptyChunk, Chunk, ChunkEntry
  <2>2. QED
    BY Zenon, <2>1 DEF Init
<1>7. lru_bits \in [Set -> LruBits] /\ next_evict_idx \in Way
  <2>1. FreshLruBits \in LruBits
    BY Zenon DEF FreshLruBits, LruBits
  <2>2. QED
    BY Zenon, <1>2, <2>1 DEF Init
<1>8. fresh \in [Addrs -> SUBSET {"ext", "mc"}] /\ \A a \in Addrs : "ext" \in fresh[a]
  BY Zenon DEF Init
<1>9. Now \in States
  BY Zenon, <1>3, <1>4, <1>5, <1>6, <1>7, <1>8 DEF Now, States
<1>10. Mapped(cache, tlb)
  BY Zenon, <1>1, <1>2, <1>4, <1>5, SetNumType DEF Mapped
<1>11. Newest(cache, tlb, fresh)
  BY ZenonT(30), <1>1, <1>2, <1>5, <1>8, AddrFacts DEF Newest
<1>12. Counted(cache, chunks)
  BY Zenon, <1>1, <1>4, <1>6, WaysAreEntries DEF Counted, CountsSet
<1>13. Buffered(tlb, pte, tag_buffer)
  BY ZenonT(30), <1>5 DEF Buffered
<1>14. QED
  BY Zenon, <1>1, <1>3, <1>9, <1>10, <1>11, <1>12, <1>13, NowFields DEF Good, GoodData

(* The primed invariant, for a step that leaves the configuration alone. *)
LEMMA BecomeGood ==
    ASSUME NEW n, Good(n), Become(n), UNCHANGED config
    PROVE  Good(Now)'
<1>1. /\ n \in States /\ Mapped(n.cache, n.tlb) /\ Newest(n.cache, n.tlb, n.fresh)
      /\ Counted(n.cache, n.chunks) /\ Buffer(n.tb, n.occ) /\ Buffered(n.tlb, n.pte, n.tb)
  BY Zenon DEF Good, GoodData
<1>2. /\ cache' = n.cache /\ tlb' = n.tlb /\ chunks' = n.chunks /\ lru_bits' = n.lru_bits
      /\ next_evict_idx' = n.evict /\ fresh' = n.fresh /\ pte' = n.pte
      /\ tag_buffer' = n.tb /\ entry_occupied' = n.occ
  BY Zenon DEF Become
<1>3. /\ Set' = Set /\ Way' = Way /\ Entry' = Entry /\ Addrs' = Addrs /\ NumWays' = NumWays
      /\ MaxCount' = MaxCount /\ Policy' = Policy /\ Scheme' = Scheme /\ NumSets' = NumSets
      /\ PageLines' = PageLines /\ VecBits' = VecBits
  BY Zenon DEF Set, Way, Entry, Addrs, NumWays, MaxCount, Policy, Scheme, NumSets, NumEntries,
         PageLines, VecBits
<1>4. Now' = n
  BY Zenon, <1>1, <1>2 DEF Now, States
<1>5. States' = States
  BY ZenonT(30), <1>3 DEF States, Ways, TLBEntry, Chunk, ChunkEntry, LruBits
<1>6. Mapped(cache, tlb)'
  <2>1. ASSUME NEW x PROVE setNum(x)' = setNum(x)
    BY ZenonT(30), <1>3 DEF setNum
  <2>2. \A tag \in Tags, w \in Way :
           n.tlb[tag].way = w <=> n.cache[setNum(tag)'][w].valid /\ n.cache[setNum(tag)'][w].tag = tag
    BY Zenon, <1>1, <2>1 DEF Mapped
  <2>3. \A s \in Set, w \in Way : n.cache[s][w].valid => setNum(n.cache[s][w].tag)' = s
    BY Zenon, <1>1, <2>1 DEF Mapped
  <2>4. Mapped(n.cache, n.tlb)'
    BY Zenon, <1>3, <2>2, <2>3 DEF Mapped
  <2>5. QED
    BY Zenon, <1>2, <2>4
<1>7. Newest(cache, tlb, fresh)'
  BY Zenon, <1>1, <1>2, <1>3 DEF Newest, Copied, Footprints, setNum, tagOf, bitOf
<1>8. Counted(cache, chunks)'
  BY Zenon, <1>1, <1>2, <1>3 DEF Counted, CountsSet
<1>9. Buffered(tlb, pte, tag_buffer)'
  BY Zenon, <1>1, <1>2, <1>3 DEF Buffered, Hybrid
<1>10. Buffer(tag_buffer, entry_occupied)'
  BY Zenon, <1>1, <1>2
<1>11. (Now \in States)'
  BY Zenon, <1>1, <1>4, <1>5
<1>12. QED
  <2>1. (/\ Now.cache = cache /\ Now.tlb = tlb /\ Now.chunks = chunks /\ Now.fresh = fresh
         /\ Now.pte = pte /\ Now.tb = tag_buffer /\ Now.occ = entry_occupied)'
    BY Zenon, <1>2, <1>4
  <2>2. QED
    BY Zenon, <1>6, <1>7, <1>8, <1>9, <1>10, <1>11, <2>1 DEF Good, GoodData

(* One access(): a hit or a miss, then the flush; without balancing nothing *)
(* is drained.                                                              *)
LEMMA AccessIsGood ==
    ASSUME CacheInv, NEW a \in Addrs, NEW type \in {LOAD, STORE}, access(a, type)
    PROVE  CacheInv'
<1>1. config' = config /\ config' \in Configs /\ Balanced' = Balanced
  BY Zenon DEF access, CacheInv, Balanced, MaxUp
<1>2. ASSUME ~Balanced
      PROVE  ds_index' = 0 /\ Good(Now)'
  <2> DEFINE tag == tagOf(a)
             w == hitWay(Now, tag)
  <2>1. config \in Configs /\ ds_index = 0 /\ Good(Now) /\ tag \in Tags
    BY Zenon, <1>2, AddrFacts DEF CacheInv
  <2>2. w = Now.tlb[tag].way /\ w \in 0 .. NumWays
    BY Zenon, <2>1, HitWay
  <2>3. PICK m \in (IF w < NumWays THEN Hit(Now, a, type, w) ELSE Miss(Now, a, type)),
             delta \in -MaxDown .. MaxUp :
           /\ Become(rebalance(flushIfCrowded(m), delta))
           /\ ds_index' = IF ds_index + delta <= 0 THEN 0 ELSE ds_index + delta
    BY Zenon DEF access
  <2>4. Good(m)
    <3> HIDE DEF w
    <3>1. CASE w < NumWays
      <4>1. w \in Way
        BY <2>2, <3>1, <2>1, SizeFacts DEF Way
      <4>2. m \in Hit(Now, a, type, w)
        BY Zenon, <2>3, <3>1
      <4>3. QED
        BY Zenon, <2>1, <2>2, <4>1, <4>2, HitIsGood
    <3>2. CASE ~(w < NumWays)
      <4>1. w \notin Way
        BY <2>1, <3>2, SizeFacts DEF Way
      <4>2. m \in Miss(Now, a, type)
        BY Zenon, <2>3, <3>2
      <4>3. QED
        BY Zenon, <2>1, <2>2, <4>1, <4>2, MissIsGood
    <3>3. QED
      BY ZenonT(30), <3>1, <3>2
  <2>5. delta <= 0 /\ ~(delta > 0) /\ delta \in Int
    <3>1. MaxUp \in Nat /\ MaxDown \in Nat
      BY Zenon, <2>1, DeltasAssumption DEF MaxUp, MaxDown
    <3>2. MaxUp = 0
      BY <1>2, <3>1 DEF Balanced
    <3>3. QED
      BY <2>3, <3>1, <3>2
  <2>6. rebalance(flushIfCrowded(m), delta) = flushIfCrowded(m)
    BY Zenon, <2>5 DEF rebalance
  <2>7. Good(flushIfCrowded(m)) /\ Become(flushIfCrowded(m))
    BY Zenon, <2>1, <2>3, <2>4, <2>6, FlushIsGood
  <2>8. Good(Now)'
    BY Zenon, <1>1, <2>7, BecomeGood
  <2>9. ds_index' = 0
    BY <2>1, <2>3, <2>5
  <2>10. QED
    BY Zenon, <2>8, <2>9
<1>3. QED
  BY Zenon, <1>1, <1>2 DEF CacheInv

(* A step that changes nothing keeps the invariant. *)
LEMMA StutterIsGood ==
    ASSUME CacheInv, UNCHANGED vars
    PROVE  CacheInv'
<1>1. UNCHANGED config /\ Balanced' = Balanced /\ ds_index' = ds_index
  BY Zenon DEF vars, Balanced, MaxUp
<1>2. Become(Now)
  BY Zenon, NowFields DEF vars, Become
<1>3. Good(Now) => Good(Now)'
  BY Zenon, <1>1, <1>2, BecomeGood
<1>4. QED
  BY Zenon, <1>1, <1>3 DEF CacheInv

(* Whatever the sizes, the scheme, the policy and the order of accesses:    *)
(* the TLB, the cache, the counters, the tag buffer, the page tables and    *)
(* the data stay consistent (mc.cpp:190-700, page_placement.cpp).           *)
THEOREM CacheInvariance == Spec => []CacheInv
<1>1. CacheInv /\ [Next]_vars => CacheInv'
  <2> SUFFICES ASSUME CacheInv, [Next]_vars PROVE CacheInv'
    BY Zenon
  <2>1. CASE UNCHANGED vars
    BY Zenon, <2>1, StutterIsGood
  <2>2. CASE Next
    <3>1. PICK a \in Addrs, type \in {LOAD, STORE} : access(a, type)
      BY Zenon, <2>2 DEF Next
    <3>2. QED
      BY Zenon, <3>1, AccessIsGood
  <2>3. QED
    BY Zenon, <2>1, <2>2
<1>2. QED
  BY <1>1, InitIsGood, PTL DEF Spec

(* The memory that serves an access holds the newest value of the line: no  *)
(* write-back is lost and no stale copy is read (mc.cpp:361-558).           *)
THEOREM NewestIsServed == Spec => []NewestDataServed
<1>1. CacheInv => NewestDataServed
  <2> SUFFICES ASSUME CacheInv, ~Balanced, NEW a \in Addrs
               PROVE  (IF Cached(a) THEN "mc" ELSE "ext") \in fresh[a]
    BY Zenon DEF NewestDataServed
  <2>1. config \in Configs /\ ds_index = 0 /\ Good(Now) /\ tagOf(a) \in Tags
    BY Zenon, AddrFacts DEF CacheInv
  <2> DEFINE w == hitWay(Now, tagOf(a))
  <2>2. w = tlb[tagOf(a)].way /\ w \in 0 .. NumWays
    BY ZenonT(30), <2>1, HitWay, NowFields
  <2>3. IF w \in Way THEN "mc" \in fresh[a] ELSE "ext" \in fresh[a]
    BY Zenon, <2>1, <2>2, NowFields DEF Good, GoodData, Newest
  <2>4. Cached(a) <=> w < NumWays
    BY Zenon DEF Cached
  <2> HIDE DEF w
  <2>5. w < NumWays <=> w \in Way
    BY <2>1, <2>2, SizeFacts DEF Way
  <2>6. QED
    BY Zenon, <2>3, <2>4, <2>5
<1>2. QED
  BY <1>1, CacheInvariance, PTL

(* The tag buffer's occupancy counter is exact through every access, pair   *)
(* insert and flush the controller makes (the assertion at mc.cpp:898).     *)
THEOREM OccupancyStaysExact == Spec => [](~Balanced => OccupancyExact)
<1>1. CacheInv => (~Balanced => OccupancyExact)
  BY Zenon, NowFields DEF CacheInv, Good, Buffer, OccupancyExact
<1>2. QED
  BY <1>1, CacheInvariance, PTL

(* A mapping the page tables do not know is in the tag buffer, marked as    *)
(* remapped (mc.cpp:464-468, 693-698).                                      *)
THEOREM StaleMappingsAreBuffered == Spec => [](~Balanced => StaleMappingsBuffered)
<1>1. CacheInv => (~Balanced => StaleMappingsBuffered)
  BY Zenon, NowFields DEF CacheInv, Good, Buffered, Remapped, StaleMappingsBuffered
<1>2. QED
  BY <1>1, CacheInvariance, PTL

(* The counters of the placement policy name the cached pages, way by way   *)
(* (page_placement.cpp:97-109, 144, 151, 226, 340).                         *)
THEOREM CountersFollowCache == Spec => [](~Balanced => ChunksMatchCache)
<1>1. CacheInv => (~Balanced => ChunksMatchCache)
  <2> SUFFICES ASSUME CacheInv, ~Balanced, Policy = "FBR", NEW s \in Set
               PROVE  /\ \A i \in Entry : chunks[s][i].count < MaxCount
                      /\ CountsSet(cache[s], chunks[s])
    BY Zenon DEF ChunksMatchCache, CountsSet
  <2>1. config \in Configs /\ chunks \in [Set -> Chunk] /\ Counted(cache, chunks)
    BY Zenon, NowFields DEF CacheInv, Good, GoodData, States
  <2>2. CountsSet(cache[s], chunks[s])
    BY Zenon, <2>1 DEF Counted
  <2>3. \A i \in Entry : chunks[s][i].count \in 0 .. MaxCount - 1
    BY Zenon, <2>1 DEF Chunk, ChunkEntry
  <2>4. QED
    BY SMTT(30), <2>1, <2>2, <2>3, SizeFacts
<1>2. QED
  BY <1>1, CacheInvariance, PTL

(* A page picked for replacement always finds room for both remappings in   *)
(* the tag buffer: the assertion at mc.cpp:464 never fails.                 *)
THEOREM ReplacementsAlwaysFit == Spec => [](~Balanced => ReplacementFits)
<1>1. CacheInv => (~Balanced => ReplacementFits)
  <2> SUFFICES ASSUME CacheInv, ~Balanced, Hybrid, NEW tag \in Tags, NEW type \in {LOAD, STORE},
                      hitWay(Now, tag) = NumWays, NEW s, s = setNum(tag),
                      NEW o \in handleCacheMiss(tag, type, cache[s], chunks[s], lru_bits[s], tag_buffer),
                      o.way < NumWays, cache[s][o.way].valid
               PROVE  canInsert2(tag_buffer, tag, cache[s][o.way].tag)
    BY Zenon DEF ReplacementFits
  <2>1. config \in Configs /\ ds_index = 0 /\ Good(Now) /\ s \in Set
    BY Zenon, SetNumType DEF CacheInv
  <2>2. tlb[tag].way = NumWays /\ NumWays \notin Way
    BY Zenon, <2>1, HitWay, NowFields, WaysAreEntries
  <2>3. /\ chunks[s] \in Chunk /\ lru_bits[s] \in LruBits
        /\ Policy = "FBR" => CountsSet(cache[s], chunks[s])
    <3>1. chunks \in [Set -> Chunk] /\ lru_bits \in [Set -> LruBits] /\ Counted(cache, chunks)
      BY Zenon, <2>1, NowFields DEF Good, GoodData, States
    <3>2. QED
      BY Zenon, <2>1, <3>1 DEF Counted
  <2>4. Misses(cache[s], tag)
    <3>1. \A w \in Way : tlb[tag].way = w <=> cache[s][w].valid /\ cache[s][w].tag = tag
      BY ZenonT(30), <2>1, NowFields DEF Good, GoodData, Mapped
    <3>2. QED
      BY Zenon, <2>2, <3>1 DEF Misses
  <2>5. GoodMiss(o, tag, cache[s], tag_buffer)
    BY Zenon, <2>1, <2>3, <2>4, CacheMissIsGood
  <2>6. o.way \in Way
    <3>1. o.way \in 0 .. NumWays
      BY Zenon, <2>5 DEF GoodMiss
    <3>2. NumWays \in Nat
      BY Zenon, <2>1, SizeFacts
    <3>3. ASSUME NEW w \in 0 .. NumWays, w < NumWays PROVE w \in Way
      BY SMTT(30), <3>2, <3>3 DEF Way
    <3>4. QED
      BY Zenon, <3>1, <3>3
  <2>7. QED
    BY Zenon, <2>5, <2>6 DEF GoodMiss
<1>2. QED
  BY <1>1, CacheInvariance, PTL
=============================================================================
