--------------------------- MODULE CoherenceProofs ---------------------------
(* Proofs about the cache hierarchy, concluded: the steps of invalidations, *)
(* the invariance theorem and what follows from it.                         *)
EXTENDS CoherenceAccess

----------------------------------------------------------------------------
(* Invalidations. *)

(* The state of slot j of cache k becomes s. *)
SetsState(k, j, s) == bcc' = [bcc EXCEPT ![k][j] = s]
(* Then no other state changes. *)
StateBecomes(k, j, s) ==
    /\ DOMAIN bcc' = Caches /\ \A c \in Caches : bcc'[c] \in [Slot(c) -> MESIState]
    /\ \A c \in Caches : \A x \in Slot(c) : bcc'[c][x] = IF c = k /\ x = j THEN s ELSE bcc[c][x]
    /\ \A c \in Caches, a \in Lines :
          StateOf(c, a)' = IF c = k /\ a = array[k][j] THEN s ELSE StateOf(c, a)

(* What an invalidation changes of the states of lines. *)
LEMMA InvalViews ==
    ASSUME Types, Distinct, NEW k \in Caches, NEW j \in Slot(k), NEW s \in MESIState,
           SetsState(k, j, s), hier' = hier, array' = array
    PROVE  StateBecomes(k, j, s)
<1>1. DOMAIN bcc = Caches /\ \A c \in Caches : bcc[c] \in [Slot(c) -> MESIState]
  BY Zenon DEF Types
<1>2. DOMAIN bcc' = Caches /\ \A c \in Caches : bcc'[c] \in [Slot(c) -> MESIState]
  BY Zenon, <1>1 DEF SetsState
<1>3. \A c \in Caches : \A x \in Slot(c) : bcc'[c][x] = IF c = k /\ x = j THEN s ELSE bcc[c][x]
  BY Zenon, <1>1 DEF SetsState
<1>4. \A c \in Caches : c # k => bcc'[c] = bcc[c]
  BY Zenon, <1>1 DEF SetsState
<1>5. ASSUME NEW c \in Caches, NEW a \in Lines
      PROVE  StateOf(c, a)' = IF c = k /\ a = array[k][j] THEN s ELSE StateOf(c, a)
  <2>1. CASE c = k
    <3>1. /\ a # array[k][j] => StateOf(k, a)' = StateOf(k, a)
          /\ a = array[k][j] => StateOf(k, a)' = bcc'[k][j]
      BY Zenon, <1>3, StateViews
    <3>2. StateOf(c, a)' = StateOf(k, a)'
      BY Zenon, <2>1 DEF StateOf, lookup, Slot
    <3> QED
      BY Zenon, <3>1, <3>2, <2>1, <1>3
  <2>2. CASE c # k
    BY Zenon, <2>2, <1>4, StateSame
  <2> QED
    BY Zenon, <2>1, <2>2
<1> QED
  BY Zenon, <1>2, <1>3, <1>5 DEF StateBecomes

(* What invalidation f, sent by g, finds: the line is there, and a copy    *)
(* that may be written is one its sender may write too.                   *)
Finds(f, g) ==
    /\ f.id \in Slot(f.c) /\ array[f.c][f.id] = f.addr /\ StateOf(f.c, f.addr) = bcc[f.c][f.id]
    /\ bcc[f.c][f.id] # I
    /\ f.type = INVX \/ f.wb => bcc[f.c][f.id] \in {E, M}
    /\ bcc[f.c][f.id] \in {E, M} => bcc[g.c][g.id] \in {E, M}

(* An invalidation that holds its lock finds this. *)
LEMMA InvHas ==
    ASSUME CoherenceInv, NEW t \in Threads, NEW top, top = Depth(t), NEW f, f = Top(t), NEW pc,
           InvRuns(t, top, f, pc), pc \in {"children", "filter"}, NEW g, g = Call(t, top - 1)
    PROVE  Finds(f, g)
<1>0. Types /\ Distinct /\ SlotsOK
  BY Zenon DEF CoherenceInv
<1>1. /\ top \in 1 .. Depth(t) /\ f = Call(t, top) /\ IsInv(t, top) /\ f.pc = pc /\ OwnInv(f, g) /\ Sent(f, g)
      /\ f.c \in Caches /\ f.addr \in Lines /\ g.c \in Caches
  BY Zenon DEF InvRuns
<1>2. /\ f.id \in Slot(f.c) /\ array[f.c][f.id] = f.addr /\ bcc[f.c][f.id] # I
      /\ f.type = INVX \/ f.wb => bcc[f.c][f.id] \in {E, M}
  BY Zenon, <1>1 DEF OwnInv
<1>3. StateOf(f.c, f.addr) = bcc[f.c][f.id]
  BY Zenon, <1>0, <1>1, <1>2, StateIs
<1>4. StateOf(f.c, f.addr) \in {E, M} => isExclusive(tcc[g.c][g.id])
  BY Zenon, <1>1, InvFinds
<1>5. g.id \in Slot(g.c)
  BY Zenon, <1>1 DEF Sent
<1>6. SlotFine(g.c, array[g.c][g.id], bcc[g.c][g.id], tcc[g.c][g.id])
  BY Zenon, <1>0, <1>1, <1>5, SlotIs
<1>7. isExclusive(tcc[g.c][g.id]) => bcc[g.c][g.id] \in {E, M}
  BY Zenon, <1>6 DEF SlotFine
<1> QED
  BY Zenon, <1>2, <1>3, <1>4, <1>7 DEF Finds

(* Thread t's invalidation f left line b of its cache in state s, either   *)
(* now, with the cache locked, or in an earlier step.                      *)
Invals(t, f, b, s) ==
    /\ DOMAIN bcc' = Caches /\ \A c \in Caches : bcc'[c] \in [Slot(c) -> MESIState]
    /\ \A c \in Caches : \A x \in Slot(c) :
          \/ bcc'[c][x] = bcc[c][x]
          \/ /\ c = f.c /\ x = f.id /\ array[c][x] = b /\ Holder(t, c) /\ bcc'[c][x] = s
             /\ SlotFine(c, b, s, tcc[c][x])
    /\ \A c \in Caches, a \in Lines : StateOf(c, a)' = IF c = f.c /\ a = b THEN s ELSE StateOf(c, a)
    /\ \A c \in Caches, a \in Lines : c = f.c /\ a = b => StateOf(c, a)' = StateOf(c, a) \/ Holder(t, c)
    /\ bccLock' \in [Caches -> Threads \cup {FREE}]
    /\ \A c \in Caches : bccLock'[c] = bccLock[c] \/ (c = f.c /\ Holder(t, c))

(* MESIBottomCC::processInval, once the children have lost what they must. *)
LEMMA ProcessInvalStep ==
    ASSUME CoherenceInv, NEW t \in Threads, NEW top, top = Depth(t), NEW f, f = Top(t), NEW pc,
           InvRuns(t, top, f, pc), pc \in {"children", "filter"}, processInval(f), hier' = hier, array' = array,
           tcc[f.c][f.id].sharers = {} \/ (f.type = INVX /\ ~isExclusive(tcc[f.c][f.id])),
           NEW s, s = (IF f.type = INV THEN I ELSE S), NEW b, b = f.addr
    PROVE  Invals(t, f, b, s)
<1>0. Types /\ Distinct /\ SlotsOK
  BY Zenon DEF CoherenceInv
<1>1. /\ f.c \in Caches /\ f.addr \in Lines /\ f \in InvFrame /\ Holder(t, f.c)
  BY Zenon DEF InvRuns
<1>2. f.type \in {INV, INVX} /\ s \in MESIState
  BY Zenon, <1>1 DEF InvFrame, MESIState
<1>3. f.id \in Slot(f.c) /\ array[f.c][f.id] = f.addr
  <2>1. Finds(f, Call(t, top - 1))
    BY Zenon, InvHas
  <2> QED
    BY Zenon, <2>1 DEF Finds
<1>4. SetsState(f.c, f.id, s)
  <2>1. s = IF f.type = INVX THEN S ELSE I
    BY Zenon, <1>2 DEF INV, INVX
  <2> QED
    BY Zenon, <2>1 DEF processInval, SetsState
<1>5. /\ DOMAIN bcc' = Caches /\ \A c \in Caches : bcc'[c] \in [Slot(c) -> MESIState]
      /\ \A c \in Caches : \A x \in Slot(c) : bcc'[c][x] = IF c = f.c /\ x = f.id THEN s ELSE bcc[c][x]
      /\ \A c \in Caches, a \in Lines :
            StateOf(c, a)' = IF c = f.c /\ a = array[f.c][f.id] THEN s ELSE StateOf(c, a)
  <2>1. StateBecomes(f.c, f.id, s)
    BY Zenon, <1>0, <1>1, <1>2, <1>3, <1>4, InvalViews
  <2> QED
    BY Zenon, <2>1 DEF StateBecomes
<1>6. SlotFine(f.c, b, s, tcc[f.c][f.id])
  <2>1. SlotFine(f.c, b, bcc[f.c][f.id], tcc[f.c][f.id])
    BY Zenon, <1>0, <1>1, <1>3, SlotIs
  <2>2. b # NoLine
    BY Zenon, <1>1, NamesAssumption
  <2>3. s # I \/ tcc[f.c][f.id].sharers = {}
    BY Zenon, <1>2 DEF INV, INVX, S, I
  <2>4. ~isExclusive(tcc[f.c][f.id])
    BY Zenon DEF isExclusive
  <2> QED
    BY Zenon, <2>1, <2>2, <2>3, <2>4 DEF SlotFine
<1>7. bccLock' \in [Caches -> Threads \cup {FREE}] /\ \A c \in Caches : c # f.c => bccLock'[c] = bccLock[c]
  BY Zenon, <1>0, <1>1 DEF processInval, Types
<1>8. \A c \in Caches : \A x \in Slot(c) :
          \/ bcc'[c][x] = bcc[c][x]
          \/ /\ c = f.c /\ x = f.id /\ array[c][x] = b /\ Holder(t, c) /\ bcc'[c][x] = s
             /\ SlotFine(c, b, s, tcc[c][x])
  BY <1>1, <1>3, <1>5, <1>6
<1>9. \A c \in Caches, a \in Lines : StateOf(c, a)' = IF c = f.c /\ a = b THEN s ELSE StateOf(c, a)
  BY <1>3, <1>5
<1>10. \A c \in Caches : bccLock'[c] = bccLock[c] \/ (c = f.c /\ Holder(t, c))
  BY Zenon, <1>1, <1>7
<1>11. \A c \in Caches, a \in Lines : c = f.c /\ a = b => StateOf(c, a)' = StateOf(c, a) \/ Holder(t, c)
  BY Zenon, <1>1
<1> QED
  BY Zenon, <1>5, <1>7, <1>8, <1>9, <1>10, <1>11 DEF Invals

(* The step after it, when the first-level cache has let go of its lock    *)
(* and the filter is locked: the parent has not heard yet.                 *)
LEMMA FilterInvalidateStep ==
    ASSUME CoherenceInv, NEW t \in Threads, filterInvalidate(t)
    PROVE  CoherenceInv'
<1>0. Types /\ Distinct /\ SlotsOK
  BY Zenon DEF CoherenceInv
<1>1. PICK f, top, b : f = Top(t) /\ top = Depth(t) /\ b = f.addr
  BY Zenon
<1>2. InvRuns(t, top, f, "filter")
  BY Zenon, <1>1, RunsInv DEF filterInvalidate
<1>3. PICK g : g = Call(t, top - 1)
  BY Zenon
<1>4. /\ stack[t] # <<>> /\ top \in 1 .. Depth(t) /\ top \in Nat /\ top > 2 /\ top - 1 \in Int
      /\ f = Call(t, top) /\ IsInv(t, top) /\ f \in InvFrame /\ f.op = "inv" /\ f.pc = "filter"
  BY Zenon, <1>2 DEF InvRuns
<1>5. /\ f.c \in Caches /\ b \in Lines /\ g.c = Parent(f.c, b) /\ g.c \in Caches /\ g.c # f.c
      /\ Holder(t, f.c) /\ Sent(f, g) /\ OwnInv(f, g)
  BY Zenon, <1>1, <1>2, <1>3 DEF InvRuns
<1>6. hier' = hier /\ array' = array /\ tcc' = tcc /\ tccLock' = tccLock
  BY Zenon DEF filterInvalidate
<1>7. processInval(f) /\ filterLock' = [filterLock EXCEPT ![f.c] = t]
  BY Zenon, <1>1 DEF filterInvalidate
<1>8. PICK s : s = IF f.type = INV THEN I ELSE S
  BY Zenon
<1>9. PICK wb : wb = inducedWriteback(f)
  BY Zenon
<1>10. PICK h : h = [f EXCEPT !.pc = "unlock", !.wb = wb]
  BY Zenon
<1>11. f.type \in {INV, INVX} /\ f.wb \in BOOLEAN
  BY Zenon, <1>4 DEF InvFrame
<1>12. wb \in BOOLEAN
  BY Zenon, <1>9, <1>11 DEF inducedWriteback
<1>13. /\ h \in InvFrame /\ h \in Frame /\ h.op = "inv" /\ h.pc = "unlock" /\ h.c = f.c /\ h.addr = b
       /\ h.type = f.type /\ h.wb = wb
  BY Zenon, <1>1, <1>4, <1>10, <1>12 DEF InvFrame, Frame
<1>14. Stay(t, h)
  BY Zenon, <1>1, <1>9, <1>10 DEF filterInvalidate
<1>15. /\ Kept(t, top - 1) /\ stack' \in [Threads -> Seq(Frame)] /\ Depth(t)' = top
       /\ Call(t, top)' = h /\ Call(t, top - 1)' = g
  <2>1. f.op = Top(t).op /\ h.op = Top(t).op
    BY Zenon, <1>1, <1>4, <1>13
  <2> QED
    <3>1. /\ Kept(t, top - 1) /\ stack' \in [Threads -> Seq(Frame)] /\ Depth(t)' = top
          /\ Call(t, top)' = h /\ (top > 1 => Call(t, top - 1)' = Call(t, top - 1))
      BY Zenon, <2>1, <1>1, <1>4, <1>13, <1>14, StayKeeps
    <3> QED
      BY Zenon, <3>1, <1>3, <1>4, SomeDepth
<1>16. tcc[f.c][f.id].sharers = {}
  <2>1. f.id \in Slot(f.c) /\ array[f.c][f.id] = b
    <3>1. Finds(f, g)
      BY Zenon, <1>1, <1>2, <1>3, InvHas
    <3> QED
      BY Zenon, <3>1, <1>1 DEF Finds
  <2>2. Terminal(f.c)
    BY Zenon, <1>4, <1>5 DEF OwnInv
  <2>3. \A x \in tcc[f.c][f.id].sharers : Parent(x, b) = f.c
    BY Zenon, <2>1, <1>0, <1>5, SlotIs DEF SlotFine
  <2>4. tcc[f.c][f.id].sharers \subseteq Caches
    BY Zenon, <2>1, <1>0, <1>5 DEF Types, Entries
  <2> QED
    <3>1. \A x \in tcc[f.c][f.id].sharers : FALSE
      BY Zenon, <2>2, <2>3, <2>4, <1>0, <1>5, Tree
    <3> QED
      BY Zenon, <3>1
<1>17. Invals(t, f, b, s)
  BY Zenon, <1>1, <1>2, <1>6, <1>7, <1>8, <1>16, ProcessInvalStep
<1>18. Types'
  <2>1. filterLock' \in [Caches -> Threads \cup {FREE}]
    BY Zenon, <1>0, <1>5, <1>7 DEF Types
  <2>2. DOMAIN bcc' = Caches /\ \A c \in Caches : bcc'[c] \in [Slot(c) -> MESIState]
    BY Zenon, <1>17 DEF Invals
  <2>3. bccLock' \in [Caches -> Threads \cup {FREE}]
    BY Zenon, <1>17 DEF Invals
  <2> QED
    BY Zenon, <2>1, <2>2, <2>3, <1>0, <1>6, <1>15 DEF Types, Caches, Slot, Entries, Frame, AccessFrame, InvFrame, ReplaceFrame
<1>19. Distinct'
  BY Zenon, <1>0, <1>6 DEF Distinct, Caches, Slot
<1>20. Ordered'
  <2>1. h.op = Top(t).op /\ h.c = Top(t).c
    BY Zenon, <1>1, <1>4, <1>13
  <2> QED
    BY Zenon, <2>1, <1>4, <1>6, <1>13, <1>14, <1>18, StayOrdered
<1>21. Footprint(t, top - 1)
  <2>1. \A c \in Caches : bccLock'[c] = bccLock[c] \/ Holder(t, c)
    BY Zenon, <1>17 DEF Invals
  <2>2. \A c \in Caches : \A x \in Slot(c) :
          bcc'[c][x] = bcc[c][x] \/ (x = f.id /\ Holder(t, c) /\ bcc'[c][x] = IF f.type = INV THEN I ELSE S)
    BY Zenon, <1>8, <1>17 DEF Invals
  <2>3. \A c \in Caches, a \in Lines :
          StateOf(c, a)' = StateOf(c, a) \/ (Holder(t, c) /\ a = f.addr)
    BY Zenon, <1>1, <1>17, TopDepth DEF Invals
  <2> QED
    BY Zenon, <2>1, <2>2, <2>3, <1>1, <1>4, <1>6 DEF Footprint
<1>22. SlotsOK'
  <2>1. \A c \in Caches : \A x \in Slot(c) :
          \/ bcc'[c][x] = bcc[c][x]
          \/ array[c][x] = b /\ bcc'[c][x] = s /\ SlotFine(c, b, s, tcc[c][x])
    BY Zenon, <1>17 DEF Invals
  <2> QED
    BY Zenon, <2>1, <1>0, <1>6, SlotsKeep
<1>23. ASSUME NEW a \in Lines, a = b, NEW c \in Caches, c = f.c PROVE Listed(c, a)'
  <2>1. StateOf(c, a)' = s
    BY Zenon, <1>17, <1>23 DEF Invals
  <2>2. Unlocking(c, a, f.type)'
    <3>1. top \in 1 .. Depth(t)' /\ Unlocks(Call(t, top)', c, a, f.type)
      BY Zenon, <1>4, <1>13, <1>15, <1>23, SomeDepth DEF Unlocks
    <3> QED
      BY Zenon, <3>1 DEF Unlocking, Unlocks
  <2>3. PICK p : p = g.c
    BY Zenon
  <2>4. EntryOf(p, a)' = tcc[p][g.id]
    <3>1. g.id \in Slot(p) /\ array[p][g.id] = a
      BY Zenon, <2>3, <1>1, <1>5, <1>23 DEF Sent
    <3>2. EntryOf(p, a) = tcc[p][g.id]
      BY Zenon, <3>1, <2>3, <1>0, <1>5, StateIs
    <3> QED
      BY <3>2, <1>6 DEF EntryOf, lookup, Slot
  <2>5. c \in tcc[p][g.id].sharers /\ (f.type = INVX => isExclusive(tcc[p][g.id]))
    BY Zenon, <2>3, <1>5, <1>23 DEF Sent
  <2>6. p = Parent(c, a) /\ Parent(c, a)' = p
    BY Zenon, <2>3, <1>5, <1>6, <1>23 DEF Parent
  <2>7. EntryOf(Parent(c, a), a)' = EntryOf(p, a)'
    <3>1. Parent(c, a)' = p
      BY Zenon, <2>6
    <3> QED
      BY <3>1, SMTT(30) DEF EntryOf, lookup, Slot
  <2>8. isExclusive(EntryOf(Parent(c, a), a))' <=> isExclusive(tcc[p][g.id])
    BY Zenon, <2>4, <2>7 DEF isExclusive
  <2>9. (EntryOf(Parent(c, a), a)').sharers = tcc[p][g.id].sharers
    BY Zenon, <2>4, <2>7
  <2>10. CASE f.type = INV
    BY Zenon, <2>10, <2>1, <2>2, <2>5, <2>9, <1>8 DEF Listed
  <2>11. CASE f.type = INVX
    BY Zenon, <2>11, <2>1, <2>2, <2>5, <2>8, <2>9, <1>8 DEF Listed, INV, INVX
  <2> QED
    BY Zenon, <2>10, <2>11, <1>11
<1>24. ASSUME NEW q \in Caches, NEW c \in Caches, NEW a \in Lines, ~(c = f.c /\ a = b)
       PROVE  Quiet(t, top - 1, q, c, a)
  <2>1. StateOf(c, a)' = StateOf(c, a)
    BY Zenon, <1>17, <1>24 DEF Invals
  <2>2. SameEntry(q, a)
    BY <1>6 DEF SameEntry, EntryOf, lookup, Slot, isExclusive
  <2>3. NotMarked(t, top - 1)
    <3>1. \A d \in 1 .. Depth(t) : d > top - 1 => d = top
      BY Zenon, <1>1, <1>4, TopDepth
    <3> QED
      BY Zenon, <3>1, <1>4 DEF NotMarked, IsAccess
  <2> QED
    BY Zenon, <2>1, <2>2, <2>3, UnmarkedKeep DEF Quiet, Alike
<1>25. Directory'
  BY Zenon, <1>4, <1>6, <1>15, <1>18, <1>21, <1>23, <1>24, DirectoryKeeps
<1>26. OwnInv(h, g)'
  <2>1. StateOf(f.c, b)' = s
    BY ZenonT(30), <1>5, <1>17 DEF Invals
  <2>2. StateOf(h.c, h.addr)' = IF h.type = INV THEN I ELSE S
    BY <2>1, <1>8, <1>13 DEF StateOf, lookup, Slot
  <2>3. wb => bcc[g.c][g.id] \in {E, M}
    <3>1. /\ f.wb => bcc[f.c][f.id] \in {E, M}
          /\ bcc[f.c][f.id] \in {E, M} => bcc[g.c][g.id] \in {E, M}
      <4>1. Finds(f, g)
        BY Zenon, <1>1, <1>2, <1>3, InvHas
      <4> QED
        BY Zenon, <4>1, <1>1 DEF Finds
    <3> QED
      BY Zenon, <3>1, <1>9 DEF inducedWriteback
  <2>4. bcc'[g.c][g.id] = bcc[g.c][g.id]
    BY Zenon, <1>5, <1>17 DEF Invals, Sent
  <2> QED
    BY Zenon, <2>2, <2>3, <2>4, <1>13 DEF OwnInv
<1>27. Sent(h, g)'
  BY Zenon, <1>1, <1>5, <1>6, <1>13 DEF Sent, Slot, isExclusive
<1>28. CallOK(t, top)'
  BY Zenon, <1>4, <1>6, <1>13, <1>15, <1>26, <1>27, InvAt
<1>29. \A d \in 1 .. Depth(t)' : d > top - 1 => CallOK(t, d)'
  BY Zenon, <1>4, <1>15, <1>28, TopDepth
<1> QED
  BY Zenon, <1>4, <1>15, <1>18, <1>19, <1>20, <1>21, <1>22, <1>25, <1>29, StepKeeps

(* The directory entry once the parent hears of the invalidation. *)
ReturnEntry(f, old) == IF f.type = INV THEN [old EXCEPT !.sharers = @ \ {f.c}] ELSE [old EXCEPT !.exclusive = FALSE]
(* The entry after a child reports that it was invalidated or downgraded. *)
LEMMA ReturnEntryIs ==
    ASSUME NEW f, NEW old \in Entries, Lone(old), f.c \in old.sharers, f.type \in {INV, INVX},
           NEW e, e = ReturnEntry(f, old)
    PROVE  /\ e \in Entries /\ ~isExclusive(e) /\ Lone(e) /\ e.sharers \subseteq old.sharers
           /\ f.c \in e.sharers <=> f.type = INVX
           /\ \A c : c # f.c => (c \in e.sharers <=> c \in old.sharers)
           /\ \A c : c # f.c /\ c \in old.sharers => ~isExclusive(old)
<1>1. old.sharers \subseteq Caches /\ old.exclusive \in BOOLEAN
  BY Zenon DEF Entries
<1>2. CASE f.type = INV
  <2>1. e \in Entries /\ e.sharers = old.sharers \ {f.c} /\ e.exclusive = old.exclusive
    BY Zenon, <1>1, <1>2 DEF ReturnEntry, Entries
  <2> QED
    BY Zenon, <2>1, <1>2 DEF isExclusive, Lone, INV, INVX
<1>3. CASE f.type = INVX
  <2>1. e \in Entries /\ e.sharers = old.sharers /\ e.exclusive = FALSE
    BY Zenon, <1>1, <1>3 DEF ReturnEntry, Entries, INV, INVX
  <2> QED
    BY Zenon, <2>1, <1>3 DEF isExclusive, Lone, INV, INVX
<1> QED
  BY Zenon, <1>2, <1>3

(* Call g has line b, and its directory lists the cache f invalidates it in. *)
Sender(f, g, b) ==
    /\ g.c \in Caches /\ g.id \in Slot(g.c) /\ array[g.c][g.id] = b /\ b \in Lines
    /\ g.c = Parent(f.c, b) /\ g.c # f.c /\ f.c \in Caches
    /\ tcc[g.c][g.id] \in Entries /\ Lone(tcc[g.c][g.id]) /\ f.c \in tcc[g.c][g.id].sharers
    /\ f.type \in {INV, INVX} /\ (f.type = INVX => isExclusive(tcc[g.c][g.id]))
    /\ SlotFine(g.c, b, bcc[g.c][g.id], tcc[g.c][g.id])
    /\ EntryOf(g.c, b) = tcc[g.c][g.id]

(* What the caller of an invalidation knows. *)
LEMMA SenderIs ==
    ASSUME CoherenceInv, NEW t \in Threads, NEW top, top = Depth(t), NEW f, f = Top(t), NEW pc,
           InvRuns(t, top, f, pc), NEW g, g = Call(t, top - 1), NEW b, b = f.addr
    PROVE  Sender(f, g, b)
<1>0. Types /\ Distinct /\ SlotsOK
  BY Zenon DEF CoherenceInv
<1>1. /\ f.c \in Caches /\ b \in Lines /\ f \in InvFrame /\ g.c = Parent(f.c, b) /\ g.c \in Caches /\ g.c # f.c
      /\ Sent(f, g)
  BY Zenon DEF InvRuns
<1>2. /\ g.id \in Slot(g.c) /\ array[g.c][g.id] = b /\ f.c \in tcc[g.c][g.id].sharers
      /\ (f.type = INVX => isExclusive(tcc[g.c][g.id]))
  BY Zenon, <1>1 DEF Sent
<1>3. tcc[g.c][g.id] \in Entries
  BY Zenon, <1>0, <1>1, <1>2 DEF Types
<1>4. SlotFine(g.c, b, bcc[g.c][g.id], tcc[g.c][g.id])
  BY Zenon, <1>0, <1>1, <1>2, SlotIs
<1>5. Lone(tcc[g.c][g.id])
  BY Zenon, <1>4 DEF SlotFine, Lone
<1>6. EntryOf(g.c, b) = tcc[g.c][g.id]
  BY Zenon, <1>0, <1>1, <1>2, StateIs
<1>7. f.type \in {INV, INVX}
  BY Zenon, <1>1 DEF InvFrame
<1> QED
  BY Zenon, <1>1, <1>2, <1>3, <1>4, <1>5, <1>6, <1>7 DEF Sender

(* The other children of the cache, as its directory has them. *)
LEMMA SiblingSays ==
    ASSUME CoherenceInv, NEW t \in Threads, NEW top, top = Depth(t), NEW f, f = Top(t), NEW pc,
           InvRuns(t, top, f, pc), NEW g, g = Call(t, top - 1), NEW p, p = g.c, NEW i, i = g.id,
           NEW a \in Lines, a = f.addr, NEW c \in Caches, c # f.c, Parent(c, a) = p
    PROVE  Says(g, tcc[p][i], StateOf(c, a), c, a)
<1>1. /\ top \in Nat /\ top - 1 \in 1 .. Depth(t) /\ f = Call(t, top) /\ HoldsBcc(t, top - 1)
  BY Zenon DEF InvRuns
<1>2. p \in Caches /\ i \in Slot(p) /\ array[p][i] = a
  <2>1. Sender(f, g, a)
    BY Zenon, SenderIs
  <2> QED
    BY Zenon, <2>1 DEF Sender
<1>3. PICK d : d = top - 1
  BY Zenon
<1>4. d \in 1 .. Depth(t) /\ HoldsBcc(t, d) /\ Call(t, d) = g /\ Call(t, d + 1) = f
  <2>1. d + 1 = top
    BY Zenon, <1>1, <1>3, NearDepth
  <2> QED
    BY Zenon, <2>1, <1>1, <1>3
<1>5. Call(t, d).c = p
  BY Zenon, <1>4
<1>6. d < Depth(t) => ~(Call(t, d + 1).op = "inv" /\ Call(t, d + 1).pc = "unlock" /\ Call(t, d + 1).c = c)
  BY Zenon, <1>4
<1>7. d \in 1 .. Depth(t)
  BY Zenon, <1>4
<1>8. HoldsBcc(t, d)
  BY Zenon, <1>4
<1>9. p \in Caches
  BY Zenon, <1>2
<1>10. i \in Slot(p)
  BY Zenon, <1>2
<1>11. array[p][i] = a
  BY Zenon, <1>2
<1>12. Says(Call(t, d), tcc[p][i], StateOf(c, a), c, a)
  BY Zenon, <1>5, <1>6, <1>7, <1>8, <1>9, <1>10, <1>11, DirectorySays
<1> QED
  BY Zenon, <1>4, <1>12

(* The sender goes on as h: only the writeback flag may differ. *)
SameCaller(h, g, wb) ==
    /\ h \in Frame /\ h.op = g.op /\ h.pc = g.pc /\ h.c = g.c /\ h.addr = g.addr /\ h.type = g.type /\ h.id = g.id
    /\ h.wb = (g.wb \/ wb)
    /\ g.op = "access" => h.child = g.child /\ h.slot = g.slot /\ h.init = g.init
(* The caller of an invalidation only remembers the writeback. *)
LEMMA CallerGoesOn ==
    ASSUME NEW g \in Frame, g.op \in {"access", "inv"}, NEW wb \in BOOLEAN, NEW h, h = [g EXCEPT !.wb = @ \/ wb]
    PROVE  SameCaller(h, g, wb)
<1>1. CASE g.op = "access"
  <2>1. g \in AccessFrame
    BY Zenon, <1>1, FrameKinds
  <2> QED
    BY Zenon, <2>1, <1>1 DEF SameCaller, AccessFrame, Frame
<1>2. CASE g.op = "inv"
  <2>1. g \in InvFrame
    BY Zenon, <1>2, FrameKinds
  <2> QED
    BY Zenon, <2>1, <1>2 DEF SameCaller, InvFrame, Frame
<1> QED
  BY Zenon, <1>1, <1>2

(* An invalidation of line b that left its copy in state s returns to the  *)
(* sender g, which goes on as h with the directory entry e.                *)
InvReturns(t, top, f, g, h, b, s, e) ==
    /\ hier' = hier /\ array' = array /\ tccLock' = tccLock
    /\ filterLock' \in [Caches -> Threads \cup {FREE}] /\ stack' \in [Threads -> Seq(Frame)]
    /\ Invals(t, f, b, s) /\ SetsEntry(g.c, g.id, e) /\ e = ReturnEntry(f, tcc[g.c][g.id])
    /\ s = IF f.type = INV THEN I ELSE S
    /\ Kept(t, top - 2) /\ Depth(t)' = top - 1 /\ Call(t, top - 1)' = h /\ ~Waits(t, top - 1)'
    /\ Call(t, top - 1 - 1)' = Call(t, top - 1 - 1)

(* The directory hears of the invalidation. *)
LEMMA ReturnListed ==
    ASSUME CoherenceInv, NEW t \in Threads, NEW top, top = Depth(t), NEW f, f = Top(t), NEW pc,
           InvRuns(t, top, f, pc), NEW g, g = Call(t, top - 1), NEW wb, NEW h, SameCaller(h, g, wb),
           NEW b, b = f.addr, NEW s, NEW e, InvReturns(t, top, f, g, h, b, s, e),
           NEW p \in Caches, p = g.c, NEW c \in Caches, NEW a \in Lines, a = b, p = Parent(c, a)
    PROVE  Listed(c, a)'
<1>0. Types /\ Distinct
  BY Zenon DEF CoherenceInv
<1>1. hier' = hier /\ array' = array
  BY Zenon DEF InvReturns
<1>2. PICK i, old : i = g.id /\ old = tcc[p][i]
  BY Zenon
<1>3. /\ i \in Slot(p) /\ array[p][i] = a /\ old \in Entries /\ Lone(old) /\ f.c \in old.sharers
      /\ f.type \in {INV, INVX}
  <2>1. Sender(f, g, b)
    BY Zenon, <1>2, SenderIs
  <2> QED
    BY Zenon, <2>1, <1>2 DEF Sender
<1>4. e = ReturnEntry(f, old) /\ SetsEntry(p, i, e) /\ Invals(t, f, b, s) /\ s = IF f.type = INV THEN I ELSE S
  BY Zenon, <1>2 DEF InvReturns
<1>5. /\ e \in Entries /\ ~isExclusive(e)
      /\ f.c \in e.sharers <=> f.type = INVX
      /\ \A x : x # f.c => (x \in e.sharers <=> x \in old.sharers)
      /\ \A x : x # f.c /\ x \in old.sharers => ~isExclusive(old)
  BY Zenon, <1>3, <1>4, ReturnEntryIs
<1>6. EntryOf(p, a)' = e
  <2>1. i \in Slot(p) /\ e \in Entries /\ SetsEntry(p, i, e)
    BY Zenon, <1>3, <1>4, <1>5
  <2>2. \A x \in Lines : x = array[p][i] => EntryOf(p, x) = tcc[p][i] /\ EntryOf(p, x)' = e
    <3>1. EntryBecomes(p, i, e)
      BY Zenon, <2>1, <1>0, <1>1, EntryViews
    <3> QED
      BY Zenon, <3>1 DEF EntryBecomes
  <2> QED
    BY Zenon, <2>2, <1>3
<1>7. p = Parent(c, a)'
  BY Zenon, <1>1 DEF Parent
<1>8. EntryOf(Parent(c, a), a)' = e
  <2>1. EntryOf(Parent(c, a), a)' = EntryOf(p, a)'
    BY <1>7, Zenon DEF EntryOf, lookup, Slot
  <2> QED
    BY Zenon, <2>1, <1>6
<1>9. isExclusive(EntryOf(Parent(c, a), a))' <=> isExclusive(e)
  BY Zenon, <1>8 DEF isExclusive
<1>10. CASE c = f.c
  <2>1. StateOf(c, a)' = s
    BY Zenon, <1>4, <1>10 DEF Invals
  <2>2. c \in e.sharers <=> s # I
    BY Zenon, <1>3, <1>4, <1>5, <1>10 DEF INV, INVX, S, I
  <2>3. s \notin {E, M}
    BY Zenon, <1>4 DEF S, I, E, M
  <2> QED
    BY Zenon, <2>1, <2>2, <2>3, <1>5, <1>8, <1>9 DEF Listed
<1>11. CASE c # f.c
  <2>1. PICK r : r = StateOf(c, a)
    BY Zenon
  <2>2. StateOf(c, a)' = r
    BY Zenon, <2>1, <1>4, <1>11 DEF Invals
  <2>3. Says(g, old, r, c, a)
    BY Zenon, <2>1, <1>2, <1>11, SiblingSays
  <2>4. CASE (c \in old.sharers <=> r # I) /\ (c \in old.sharers => (isExclusive(old) <=> r \in {E, M}))
    <3>1. (c \in e.sharers <=> r # I) /\ (c \in e.sharers => (isExclusive(e) <=> r \in {E, M}))
      BY Zenon, <2>4, <1>5, <1>11
    <3> QED
      BY Zenon, <3>1, <2>2, <1>8, <1>9 DEF Listed
  <2>5. CASE r = S /\ c \notin old.sharers /\ ~isExclusive(old) /\ Upgrades(g, g.c, c, a)
    <3>1. Upgrades(h, p, c, a)
      BY Zenon, <2>5 DEF Upgrades, SameCaller
    <3>2. top - 1 \in 1 .. Depth(t)' /\ Call(t, top - 1)' = h /\ ~Waits(t, top - 1)'
      BY DEF InvReturns, InvRuns
    <3>3. PICK d : d = top - 1
      BY Zenon
    <3>4. d \in 1 .. Depth(t)' /\ Upgrades(Call(t, d)', p, c, a) /\ ~Waits(t, d)'
      BY Zenon, <3>1, <3>2, <3>3
    <3>5. Upgrading(p, c, a)'
      BY Zenon, <3>4 DEF Upgrading, Upgrades
    <3>6. Upgrading(Parent(c, a), c, a)'
      BY Zenon, <3>5, <1>7 DEF Upgrading, Upgrades
    <3>7. c \notin e.sharers
      BY Zenon, <2>5, <1>5, <1>11
    <3> QED
      BY Zenon, <3>6, <3>7, <2>2, <2>5, <1>5, <1>8, <1>9 DEF Listed
  <2> QED
    BY Zenon, <2>3, <2>4, <2>5 DEF Says
<1> QED
  BY Zenon, <1>10, <1>11

(* A sender that is an access. *)
LEMMA ReturnToAccess ==
    ASSUME CoherenceInv, NEW t \in Threads, NEW top, top = Depth(t), NEW f, f = Top(t), NEW pc,
           InvRuns(t, top, f, pc), NEW g, g = Call(t, top - 1), NEW wb \in BOOLEAN, NEW h, SameCaller(h, g, wb),
           NEW b, b = f.addr, NEW s, NEW e, InvReturns(t, top, f, g, h, b, s, e),
           wb => bcc[g.c][g.id] \in {E, M}, g.op = "access"
    PROVE  CallOK(t, top - 1)'
<1>0. Types /\ CallsOK
  BY Zenon DEF CoherenceInv
<1>1. PICK d : d = top - 1
  BY Zenon
<1>2. /\ d \in 1 .. Depth(t) /\ d \in Nat /\ d > 1 /\ g = Call(t, d) /\ IsAccess(t, d) /\ CallOK(t, d) /\ HoldsBcc(t, d)
  BY Zenon, <1>1, SomeDepth DEF InvRuns, IsAccess
<1>3. Sent(f, g)
  BY Zenon DEF InvRuns
<1>4. /\ hier' = hier /\ array' = array /\ tccLock' = tccLock /\ Call(t, d)' = h /\ Waits(t, d)' = FALSE
      /\ Call(t, d - 1)' = Call(t, d - 1) /\ Invals(t, f, b, s) /\ SetsEntry(g.c, g.id, e)
  BY Zenon, <1>1 DEF InvReturns, Waits
<1>5. g.c \in Caches /\ g.c # f.c /\ g.id \in Slot(g.c) /\ array[g.c][g.id] = b
  <2>1. Sender(f, g, b)
    BY Zenon, SenderIs
  <2> QED
    BY Zenon, <2>1 DEF Sender
<1>6. bcc'[g.c][g.id] = bcc[g.c][g.id] /\ bccLock'[g.c] = bccLock[g.c]
  BY Zenon, <1>4, <1>5 DEF Invals
<1>7. bccLock[g.c] = t /\ (HoldsTcc(t, d) => tccLock[g.c] = t)
  BY Zenon, <1>2 DEF CallOK, LocksOK
<1>8. /\ h.op = "access" /\ h.pc = g.pc /\ h.c = g.c /\ h.addr = g.addr /\ h.type = g.type /\ h.id = g.id
      /\ h.wb = (g.wb \/ wb) /\ h.child = g.child /\ h.slot = g.slot /\ h.init = g.init
  BY Zenon DEF SameCaller
<1>9. g.pc \in {"evict", "directory"} /\ (g.pc = "directory" => f.c # g.child)
  BY Zenon, <1>3 DEF Sent
<1>10. Waits(t, d) = FALSE
  <2>1. ~Waits(t, d)
    BY Zenon, <1>2 DEF HoldsBcc, IsAccess, IsInv
  <2> QED
    BY Zenon, <2>1 DEF Waits
<1>11. OwnAccess(g, FALSE) /\ (d > 2 => ChildOK(g)) /\ ShapeOK(t, d)
  BY Zenon, <1>2, <1>10 DEF CallOK, KnowsOK, IsAccess
<1>12. ShapeOK(t, d)'
  <2>1. /\ h.c = Call(t, d).c /\ h.addr = Call(t, d).addr /\ h.type = Call(t, d).type
        /\ h.child = Call(t, d).child /\ h.slot = Call(t, d).slot /\ h.init = Call(t, d).init
    BY Zenon, <1>2, <1>8
  <2>2. hier' = hier /\ Call(t, d)' = h /\ h.op = "access"
    BY Zenon, <1>4, <1>8
  <2>3. d > 1 => Call(t, d - 1)' = Call(t, d - 1)
    BY Zenon, <1>4
  <2>4. \A c \in Caches : c # h.c => array'[c] = array[c]
    BY Zenon, <1>4
  <2>5. d \in 1 .. Depth(t) /\ IsAccess(t, d)
    BY Zenon, <1>2
  <2> QED
    BY Zenon, <2>1, <2>2, <2>3, <2>4, <2>5, AccessStays
<1>13. OwnAccess(h, FALSE)'
  <2>1. bcc'[h.c][h.id] = bcc[g.c][g.id] /\ array' = array /\ hier' = hier
    BY Zenon, <1>4, <1>6, <1>8
  <2>2. h.wb => bcc[g.c][g.id] \in {E, M}
    BY ZenonT(30), <1>8, <1>9, <1>11 DEF OwnAccess
  <2>3. CASE g.pc = "evict"
    BY SMTT(30), <2>1, <2>2, <2>3, <1>8, <1>11 DEF OwnAccess, Slot
  <2>4. CASE g.pc = "directory"
    BY Zenon, <2>1, <2>2, <2>4, <1>8, <1>11 DEF OwnAccess, Slot, Terminal
  <2> QED
    BY Zenon, <2>3, <2>4, <1>9
<1>14. d > 2 => ChildOK(h)'
  <2>1. HAVE d > 2
  <2>2. g.child \in Caches /\ g.slot \in Slot(g.child) /\ array[g.child][g.slot] = g.addr
    BY Zenon, <2>1, <1>0, <1>2, CallerOf
  <2>3. g.child # f.c \/ g.addr # b
    <3>1. CASE g.pc = "evict"
      BY Zenon, <3>1, <1>5, <1>11 DEF OwnAccess
    <3>2. CASE g.pc = "directory"
      BY Zenon, <3>2, <1>9
    <3> QED
      BY ZenonT(30), <3>1, <3>2, <1>9
  <2>4. bcc'[g.child][g.slot] = bcc[g.child][g.slot]
    BY Zenon, <2>2, <2>3, <1>4 DEF Invals
  <2>5. bcc'[h.child][h.slot] = bcc[g.child][g.slot]
    BY Zenon, <2>4, <1>8
  <2>6. ChildOK(g)
    BY Zenon, <2>1, <1>11
  <2> QED
    BY ZenonT(30), <2>5, <2>6, <1>8 DEF ChildOK
<1>15. bccLock'[h.c] = t
  BY Zenon, <1>6, <1>7, <1>8
<1>16. h.pc # "tcc" /\ ~Terminal(h.c) => tccLock'[h.c] = t
  BY Zenon, <1>2, <1>4, <1>7, <1>8 DEF HoldsTcc, IsAccess
<1> QED
  BY Zenon, <1>1, <1>4, <1>8, <1>12, <1>13, <1>14, <1>15, <1>16, AccessAt

(* A sender that is itself an invalidation. *)
LEMMA ReturnToInv ==
    ASSUME CoherenceInv, NEW t \in Threads, NEW top, top = Depth(t), NEW f, f = Top(t), NEW pc,
           InvRuns(t, top, f, pc), NEW g, g = Call(t, top - 1), NEW wb \in BOOLEAN, NEW h, SameCaller(h, g, wb),
           NEW b, b = f.addr, NEW s, NEW e, InvReturns(t, top, f, g, h, b, s, e),
           wb => bcc[g.c][g.id] \in {E, M}, g.op = "inv"
    PROVE  CallOK(t, top - 1)'
<1>0. Types /\ Distinct
  BY Zenon DEF CoherenceInv
<1>1. PICK d, gg : d = top - 1 /\ gg = Call(t, d - 1)
  BY Zenon
<1>2. /\ d \in 1 .. Depth(t) /\ d \in Nat /\ d > 1 /\ g = Call(t, d) /\ IsInv(t, d) /\ CallOK(t, d) /\ HoldsBcc(t, d)
  BY Zenon, <1>1, SomeDepth DEF InvRuns, IsInv
<1>3. /\ hier' = hier /\ array' = array /\ Call(t, d)' = h
      /\ Call(t, d - 1)' = gg /\ Invals(t, f, b, s) /\ SetsEntry(g.c, g.id, e)
  BY Zenon, <1>1 DEF InvReturns
<1>4. g.c \in Caches /\ g.c # f.c /\ g.id \in Slot(g.c) /\ array[g.c][g.id] = b
  <2>1. Sender(f, g, b)
    BY Zenon, SenderIs
  <2> QED
    BY Zenon, <2>1 DEF Sender
<1>5. bcc'[g.c][g.id] = bcc[g.c][g.id] /\ bccLock'[g.c] = bccLock[g.c]
  BY Zenon, <1>3, <1>4 DEF Invals
<1>6. bccLock[g.c] = t
  BY Zenon, <1>2 DEF CallOK, LocksOK
<1>7. /\ h.op = "inv" /\ h.pc = g.pc /\ h.c = g.c /\ h.addr = g.addr /\ h.type = g.type /\ h.id = g.id
      /\ h.wb = (g.wb \/ wb)
  BY Zenon DEF SameCaller
<1>8. d > 2 /\ Sent(g, gg) /\ OwnInv(g, gg)
  BY Zenon, <1>1, <1>2 DEF CallOK, ShapeOK, KnowsOK, IsInv
<1>9. g.pc = "children"
  BY ZenonT(30), <1>2, <1>8 DEF HoldsBcc, IsInv, IsAccess, InvRuns, Sent
<1>10. OwnInv(h, gg)'
  <2>1. bcc'[h.c][h.id] = bcc[g.c][g.id]
    BY Zenon, <1>5, <1>7
  <2>2. /\ ~Terminal(g.c) /\ g.id \in Slot(g.c) /\ array[g.c][g.id] = g.addr /\ bcc[g.c][g.id] # I
        /\ g.type = INVX \/ g.wb => bcc[g.c][g.id] \in {E, M}
    BY ZenonT(30), <1>8, <1>9 DEF OwnInv
  <2> QED
    BY Zenon, <2>1, <2>2, <1>3, <1>7, <1>9 DEF OwnInv, Slot, Terminal
<1>11. Sent(h, gg)'
  <2>1. gg.c \in Caches /\ gg.c # g.c /\ gg.id \in Slot(gg.c)
    <3>1. CallsOK /\ SlotsOK
      BY Zenon DEF CoherenceInv
    <3>2. /\ Call(t, d - 1).c \in Caches /\ Call(t, d - 1).id \in Slot(Call(t, d - 1).c)
          /\ Call(t, d - 1).c # Call(t, d).c
      BY Zenon, <3>1, <1>0, <1>2, SenderHolds
    <3> QED
      BY Zenon, <3>2, <1>1, <1>2
  <2>2. tcc'[gg.c][gg.id] = tcc[gg.c][gg.id]
    BY Zenon, <2>1, <1>0, <1>3 DEF SetsEntry, Types
  <2> QED
    BY ZenonT(30), <2>2, <1>3, <1>7, <1>8 DEF Sent, Slot, isExclusive
<1>12. bccLock'[h.c] = t
  BY Zenon, <1>5, <1>6, <1>7
<1> QED
  BY Zenon, <1>1, <1>2, <1>3, <1>7, <1>8, <1>10, <1>11, <1>12, InvAt

(* An invalidation returns. *)
LEMMA ReturnStep ==
    ASSUME CoherenceInv, NEW t \in Threads, NEW top, top = Depth(t), NEW f, f = Top(t), NEW pc,
           InvRuns(t, top, f, pc), NEW wb \in BOOLEAN, NEW b, b = f.addr,
           NEW s, s = (IF f.type = INV THEN I ELSE S), Invals(t, f, b, s),
           wb => bcc[Call(t, top - 1).c][Call(t, top - 1).id] \in {E, M}, returnInv(t, f, wb),
           hier' = hier, array' = array, tccLock' = tccLock, filterLock' \in [Caches -> Threads \cup {FREE}]
    PROVE  CoherenceInv'
<1>0. Types /\ Distinct /\ SlotsOK
  BY Zenon DEF CoherenceInv
<1>1. PICK g : g = Call(t, top - 1)
  BY Zenon
<1>2. PICK p, i, old : p = g.c /\ i = g.id /\ old = tcc[p][i]
  BY Zenon
<1>3. PICK e : e = ReturnEntry(f, old)
  BY Zenon
<1>4. PICK h : h = [g EXCEPT !.wb = @ \/ wb]
  BY Zenon
<1>5. /\ top \in Nat /\ top > 2 /\ f = Call(t, top) /\ IsInv(t, top) /\ f.op = "inv" /\ f.pc = pc
      /\ g \in Frame /\ g.op \in {"access", "inv"} /\ HoldsBcc(t, top - 1)
  BY ZenonT(30), <1>1 DEF InvRuns
<1>6. /\ p \in Caches /\ i \in Slot(p) /\ array[p][i] = b /\ b \in Lines /\ p = Parent(f.c, b)
      /\ p # f.c /\ f.c \in Caches
      /\ old \in Entries /\ Lone(old) /\ f.c \in old.sharers /\ f.type \in {INV, INVX}
      /\ SlotFine(p, b, bcc[p][i], old)
  <2>1. Sender(f, g, b)
    BY Zenon, <1>1, <1>2, SenderIs
  <2> QED
    BY Zenon, <2>1, <1>1, <1>2 DEF Sender
<1>7. /\ e \in Entries /\ ~isExclusive(e) /\ Lone(e) /\ e.sharers \subseteq old.sharers
  BY Zenon, <1>3, <1>6, ReturnEntryIs
<1>8. SameCaller(h, g, wb)
  BY Zenon, <1>4, <1>5, CallerGoesOn
<1>9. h \in Frame /\ h.op = g.op /\ h.c = g.c
  BY Zenon, <1>8 DEF SameCaller
<1>10. stack' = [stack EXCEPT ![t] = <<h>> \o Tail(Tail(@))]
  <2>1. stack[t][2] = g
    <3>1. Len(stack[t]) + 1 - (top - 1) = 2
      BY <1>5 DEF Depth
    <3> QED
      BY Zenon, <3>1, <1>1 DEF Call
  <2> QED
    BY Zenon, <2>1, <1>4 DEF returnInv
<1>11. SetsEntry(p, i, e)
  <2>1. stack[t][2] = g
    <3>1. Len(stack[t]) + 1 - (top - 1) = 2
      BY <1>5 DEF Depth
    <3> QED
      BY Zenon, <3>1, <1>1 DEF Call
  <2>2. tcc' = IF f.type = INV THEN [tcc EXCEPT ![p][i].sharers = @ \ {f.c}]
               ELSE [tcc EXCEPT ![p][i].exclusive = FALSE]
    BY Zenon, <2>1, <1>2 DEF returnInv
  <2> QED
    BY Zenon, <2>2, <1>2, <1>3, <1>6 DEF SetsEntry, ReturnEntry
<1>12. Returns(t, h) /\ stack' \in [Threads -> Seq(Frame)]
  <2>1. Depth(t) >= 2
    BY Zenon, <1>5, SomeDepth
  <2>2. h \in Frame
    BY Zenon, <1>9
  <2> QED
    BY Zenon, <2>1, <2>2, <1>0, <1>10, ReturnEffect
<1>13. /\ Kept(t, top - 2) /\ Depth(t)' = top - 1 /\ Call(t, top - 1)' = h /\ ~Waits(t, top - 1)'
       /\ Call(t, top - 1 - 1)' = Call(t, top - 1 - 1)
  <2>1. top > 2 => h.op = Call(t, top - 1).op
    BY Zenon, <1>1, <1>9
  <2>2. top \in Nat /\ top >= 2 /\ top > 2
    BY Zenon, <1>5, SomeDepth
  <2>3. Returns(t, h) /\ h \in Frame
    BY ZenonT(30), <1>9, <1>12
  <2> QED
    BY Zenon, <2>1, <2>2, <2>3, ReturnKeeps
<1>14. InvReturns(t, top, f, g, h, b, s, e)
  BY Zenon, <1>2, <1>3, <1>11, <1>12, <1>13 DEF InvReturns
<1>15. /\ DOMAIN tcc' = Caches /\ \A c \in Caches : tcc'[c] \in [Slot(c) -> Entries]
       /\ \A c \in Caches : \A j \in Slot(c) : tcc'[c][j] = IF c = p /\ j = i THEN e ELSE tcc[c][j]
       /\ \A c \in Caches, a \in Lines : c # p \/ a # array[p][i] => SameEntry(c, a)
       /\ Distinct'
  <2>1. EntryBecomes(p, i, e)
    BY Zenon, <1>0, <1>6, <1>7, <1>11, EntryViews
  <2> QED
    BY Zenon, <2>1 DEF EntryBecomes
<1>16. Types'
  <2>1. DOMAIN bcc' = Caches /\ \A c \in Caches : bcc'[c] \in [Slot(c) -> MESIState]
    BY Zenon DEF Invals
  <2>2. bccLock' \in [Caches -> Threads \cup {FREE}]
    BY Zenon DEF Invals
  <2>3. stack' \in [Threads -> Seq(Frame)]
    BY Zenon, <1>12
  <2>4. DOMAIN tcc' = Caches /\ \A c \in Caches : tcc'[c] \in [Slot(c) -> Entries]
    BY Zenon, <1>15
  <2> QED
    BY Zenon, <2>1, <2>2, <2>3, <2>4, <1>0 DEF Types, Caches, Slot, Entries, Frame, AccessFrame, InvFrame, ReplaceFrame
<1>17. Ordered'
  <2>1. Depth(t) >= 2 /\ h.op = Call(t, Depth(t) - 1).op /\ h.c = Call(t, Depth(t) - 1).c
    BY Zenon, <1>1, <1>5, <1>9, SomeDepth
  <2> QED
    BY Zenon, <2>1, <1>9, <1>12, <1>16, ReturnOrdered
<1>18. Footprint(t, top - 2)
  <2>1. \A c \in Caches : bccLock'[c] = bccLock[c] \/ Holder(t, c)
    BY ZenonT(30) DEF Invals
  <2>2. \A c \in Caches : \A x \in Slot(c) :
          bcc'[c][x] = bcc[c][x] \/ (x = f.id /\ Holder(t, c) /\ bcc'[c][x] = IF f.type = INV THEN I ELSE S)
    BY Zenon DEF Invals
  <2>3. \A c \in Caches, a \in Lines :
          StateOf(c, a)' = StateOf(c, a) \/ (Holder(t, c) /\ a = f.addr)
    BY Zenon DEF Invals
  <2>4. \A c \in Caches : \A x \in Slot(c) :
          tcc'[c][x] = tcc[c][x] \/ (c = p /\ x = i /\ tcc'[c][x].sharers \subseteq tcc[c][x].sharers)
    BY Zenon, <1>2, <1>7, <1>15
  <2>5. top >= 1 /\ p = Call(t, top - 1).c /\ i = Call(t, top - 1).id /\ IsInv(t, top) /\ f = Call(t, top)
    BY Zenon, <1>1, <1>2, <1>5, SomeDepth
  <2> QED
    BY ZenonT(30), <2>1, <2>2, <2>3, <2>4, <2>5 DEF Footprint
<1>19. SlotsOK'
  <2>1. \A c \in Caches : \A x \in Slot(c) :
          \/ bcc'[c][x] = bcc[c][x]
          \/ c = f.c /\ array[c][x] = b /\ bcc'[c][x] = s /\ SlotFine(c, b, s, tcc[c][x])
    BY Zenon DEF Invals
  <2>2. SlotFine(p, b, bcc[p][i], e)
    BY Zenon, <1>6, <1>7 DEF SlotFine, Lone
  <2>3. ASSUME NEW c \in Caches, NEW x \in Slot(c)
        PROVE  \/ bcc'[c][x] = bcc[c][x] /\ tcc'[c][x] = tcc[c][x]
               \/ SlotFine(c, array[c][x], bcc'[c][x], tcc'[c][x])
    <3>1. CASE c = p /\ x = i
      BY Zenon, <3>1, <2>1, <2>2, <1>6, <1>15
    <3>2. CASE ~(c = p /\ x = i)
      BY Zenon, <3>2, <2>1, <1>15
    <3> QED
      BY ZenonT(30), <3>1, <3>2
  <2> QED
    BY Zenon, <2>3, <1>0, SlotsKeep
<1>20. ASSUME NEW q \in Caches, NEW c \in Caches, NEW a \in Lines, q = Parent(c, a), ~(q = p /\ a = b)
       PROVE  Quiet(t, top - 2, q, c, a)
  <2>1. ~(c = f.c /\ a = b)
    BY Zenon, <1>6, <1>20
  <2>2. StateOf(c, a)' = StateOf(c, a)
    BY Zenon, <2>1 DEF Invals
  <2>3. SameEntry(q, a)
    BY Zenon, <1>6, <1>15, <1>20
  <2>4. \A d \in 1 .. Depth(t) : d > top - 2 => d = top \/ d = top - 1
    BY Zenon, <1>5, LastTwo
  <2>5. PICK m : m = top - 1
    BY Zenon
  <2>6. Call(t, m)' = h /\ ~Waits(t, m)' /\ m <= Depth(t)' /\ Call(t, m) = g
    <3>1. Call(t, m)' = h /\ ~Waits(t, m)' /\ Call(t, m) = g /\ Depth(t)' = m
      BY Zenon, <2>5, <1>1, <1>13
    <3>2. m <= m
      BY Zenon, <2>5, <1>5, BelowDepth
    <3> QED
      BY Zenon, <3>1, <3>2
  <2>7. ~Upgrades(f, q, c, a)
    BY Zenon, <1>5 DEF Upgrades
  <2>8. Upgrades(g, q, c, a) => Upgrades(h, q, c, a)
    BY Zenon, <1>8 DEF Upgrades, SameCaller
  <2>9. UpgradeKept(t, top - 2, q, c, a)
    <3>1. \A d \in 1 .. Depth(t) : d > top - 2 => d = top \/ d = m
      BY Zenon, <2>4, <2>5
    <3> QED
      BY Zenon, <3>1, <2>6, <2>7, <2>8, <1>5 DEF UpgradeKept
  <2>10. \A type : ~Unlocks(f, c, a, type)
    BY Zenon, <2>1 DEF Unlocks
  <2>11. \A type : ~Unlocks(g, c, a, type)
    BY Zenon, <1>1, <1>5 DEF Unlocks, HoldsBcc, IsAccess, IsInv
  <2>12. \A type : UnlockKept(t, top - 2, c, a, type)
    BY ZenonT(30), <2>4, <2>10, <2>11, <1>1, <1>5 DEF UnlockKept
  <2> QED
    BY Zenon, <2>2, <2>3, <2>9, <2>12 DEF Quiet, Alike
<1>21. ASSUME NEW c \in Caches, NEW a \in Lines, p = Parent(c, a), a = b PROVE Listed(c, a)'
  BY ZenonT(30), <1>1, <1>2, <1>6, <1>8, <1>14, <1>21, ReturnListed
<1>22. Directory'
  <2>1. \A q, c \in Caches, a \in Lines : q = Parent(c, a) => Quiet(t, top - 2, q, c, a) \/ Listed(c, a)'
    BY Zenon, <1>20, <1>21
  <2>2. top - 2 \in Int
    BY Zenon, <1>5, NearDepth
  <2> QED
    BY Zenon, <2>1, <2>2, <1>13, <1>16, <1>18, DirectoryKeeps
<1>23. CallOK(t, top - 1)'
  <2>1. wb => bcc[g.c][g.id] \in {E, M}
    BY Zenon, <1>1
  <2>2. CASE g.op = "access"
    BY Zenon, <2>1, <2>2, <1>1, <1>8, <1>14, ReturnToAccess
  <2>3. CASE g.op = "inv"
    BY Zenon, <2>1, <2>3, <1>1, <1>8, <1>14, ReturnToInv
  <2> QED
    BY Zenon, <2>2, <2>3, <1>5
<1>24. \A d \in 1 .. Depth(t)' : d > top - 2 => CallOK(t, d)'
  <2>1. \A d \in 1 .. Depth(t)' : d > top - 2 => d = top - 1
    BY Zenon, <1>5, <1>13, PopDepth
  <2> QED
    BY ZenonT(30), <2>1, <1>23
<1> QED
  <2>1. top - 2 \in Int
    BY Zenon, <1>5, NearDepth
  <2> QED
    BY Zenon, <2>1, <1>13, <1>15, <1>16, <1>17, <1>18, <1>19, <1>22, <1>24, StepKeeps

(* processInv keeps the invariant. *)
LEMMA ProcessInvStep ==
    ASSUME CoherenceInv, NEW t \in Threads, processInv(t)
    PROVE  CoherenceInv'
<1>1. PICK f, top, b : f = Top(t) /\ top = Depth(t) /\ b = f.addr
  BY Zenon
<1>2. InvRuns(t, top, f, "children")
  BY Zenon, <1>1, RunsInv DEF processInv
<1>3. PICK wb, s : wb = inducedWriteback(f) /\ s = IF f.type = INV THEN I ELSE S
  BY Zenon
<1>4. hier' = hier /\ array' = array /\ tccLock' = tccLock /\ filterLock' = filterLock
  BY Zenon DEF processInv
<1>5. /\ tcc[f.c][f.id].sharers = {} \/ (f.type = INVX /\ ~isExclusive(tcc[f.c][f.id]))
      /\ processInval(f) /\ returnInv(t, f, wb)
  BY ZenonT(30), <1>1, <1>3 DEF processInv
<1>6. Invals(t, f, b, s)
  BY Zenon, <1>1, <1>2, <1>3, <1>4, <1>5, ProcessInvalStep
<1>7. f.wb \in BOOLEAN
  BY Zenon, <1>2 DEF InvRuns, InvFrame
<1>8. wb \in BOOLEAN
  BY Zenon, <1>3, <1>7 DEF inducedWriteback
<1>9. wb => bcc[Call(t, top - 1).c][Call(t, top - 1).id] \in {E, M}
  <2>1. PICK g : g = Call(t, top - 1)
    BY Zenon
  <2>2. /\ f.wb => bcc[f.c][f.id] \in {E, M}
        /\ bcc[f.c][f.id] \in {E, M} => bcc[g.c][g.id] \in {E, M}
    <3>1. Finds(f, g)
      BY Zenon, <2>1, <1>1, <1>2, InvHas
    <3> QED
      BY Zenon, <3>1 DEF Finds
  <2> QED
    BY Zenon, <2>1, <2>2, <1>3 DEF inducedWriteback
<1>10. filterLock' \in [Caches -> Threads \cup {FREE}]
  BY Zenon, <1>4 DEF CoherenceInv, Types
<1>11. returnInv(t, f, wb)
  BY Zenon, <1>5
<1> QED
  BY Zenon, <1>1, <1>2, <1>3, <1>4, <1>6, <1>8, <1>9, <1>10, <1>11, ReturnStep

(* The unlock of the filter cache keeps the invariant. *)
LEMMA FilterUnlockStep ==
    ASSUME CoherenceInv, NEW t \in Threads, filterUnlock(t)
    PROVE  CoherenceInv'
<1>0. Types
  BY Zenon DEF CoherenceInv
<1>1. PICK f, top, b, wb : f = Top(t) /\ top = Depth(t) /\ b = f.addr /\ wb = f.wb
  BY Zenon
<1>2. InvRuns(t, top, f, "unlock")
  BY Zenon, <1>1, RunsInv DEF filterUnlock
<1>3. PICK s : s = IF f.type = INV THEN I ELSE S
  BY Zenon
<1>4. hier' = hier /\ array' = array /\ tccLock' = tccLock /\ bcc' = bcc /\ bccLock' = bccLock
  BY Zenon DEF filterUnlock
<1>5. returnInv(t, f, wb) /\ filterLock' = [filterLock EXCEPT ![f.c] = FREE]
  BY Zenon, <1>1 DEF filterUnlock
<1>6. /\ wb \in BOOLEAN /\ f.c \in Caches /\ b \in Lines /\ f.pc = "unlock" /\ OwnInv(f, Call(t, top - 1))
  BY Zenon, <1>1, <1>2 DEF InvRuns, InvFrame
<1>7. Invals(t, f, b, s)
  <2>1. StateOf(f.c, b) = s
    BY Zenon, <1>1, <1>3, <1>6 DEF OwnInv
  <2>2. \A c \in Caches, a \in Lines : StateOf(c, a)' = StateOf(c, a)
    BY Zenon, <1>4 DEF StateOf, lookup, Slot
  <2>3. \A c \in Caches, a \in Lines : StateOf(c, a)' = IF c = f.c /\ a = b THEN s ELSE StateOf(c, a)
    BY Zenon, <2>1, <2>2
  <2>4. /\ DOMAIN bcc' = Caches /\ \A c \in Caches : bcc'[c] \in [Slot(c) -> MESIState]
        /\ bccLock' \in [Caches -> Threads \cup {FREE}]
    BY Zenon, <1>0, <1>4 DEF Types
  <2>5. bcc' = bcc /\ bccLock' = bccLock
    BY Zenon, <1>4
  <2> QED
    BY Zenon, <2>2, <2>3, <2>4, <2>5 DEF Invals
<1>8. wb => bcc[Call(t, top - 1).c][Call(t, top - 1).id] \in {E, M}
  BY Zenon, <1>1, <1>6 DEF OwnInv
<1>9. filterLock' \in [Caches -> Threads \cup {FREE}]
  BY Zenon, <1>0, <1>5, <1>6 DEF Types
<1>10. hier' = hier /\ array' = array /\ tccLock' = tccLock /\ returnInv(t, f, wb) /\ wb \in BOOLEAN
  BY Zenon, <1>4, <1>5, <1>6
<1> QED
  BY Zenon, <1>1, <1>2, <1>3, <1>7, <1>8, <1>9, <1>10, ReturnStep

----------------------------------------------------------------------------
(* The theorems. *)

(* Empty caches satisfy the invariant. *)
LEMMA InitCoherence == Init => CoherenceInv
<1> SUFFICES ASSUME Init PROVE CoherenceInv
  BY Zenon
<1>1. /\ hier \in Hierarchies /\ array = [c \in Caches |-> [i \in Slot(c) |-> NoLine]]
      /\ bcc = [c \in Caches |-> [i \in Slot(c) |-> I]] /\ tcc = [c \in Caches |-> [i \in Slot(c) |-> Clear]]
      /\ bccLock = [c \in Caches |-> FREE] /\ tccLock = bccLock /\ filterLock = bccLock
      /\ stack = [t \in Threads |-> <<>>]
  BY Zenon DEF Init
<1>2. Clear \in Entries /\ Clear.sharers = {} /\ ~isExclusive(Clear) /\ Clear.exclusive = FALSE
  BY Zenon DEF Clear, Entries, isExclusive
<1>3. Types
  <2>1. /\ DOMAIN array = Caches /\ DOMAIN bcc = Caches /\ DOMAIN tcc = Caches
        /\ \A c \in Caches : /\ array[c] \in [Slot(c) -> Lines \cup {NoLine}]
                             /\ bcc[c] \in [Slot(c) -> MESIState]
                             /\ tcc[c] \in [Slot(c) -> Entries]
    BY Zenon, <1>1, <1>2 DEF MESIState
  <2>2. bccLock \in [Caches -> Threads \cup {FREE}]
    BY Zenon, <1>1
  <2>3. <<>> \in Seq(Frame)
    OBVIOUS
  <2>4. stack \in [Threads -> Seq(Frame)]
    BY Zenon, <2>3, <1>1
  <2> QED
    BY Zenon, <2>1, <2>2, <2>4, <1>1 DEF Types
<1>4. \A t \in Threads : Depth(t) = 0 /\ (1 .. Depth(t)) = {}
  BY <1>1 DEF Depth
<1>5. \A c \in Caches : \A i \in Slot(c) : array[c][i] = NoLine /\ bcc[c][i] = I /\ tcc[c][i] = Clear
  BY Zenon, <1>1
<1>6. Distinct
  BY Zenon, <1>5 DEF Distinct
<1>7. CallsOK /\ Ordered
  BY ZenonT(30), <1>4 DEF CallsOK, Ordered
<1>8. SlotsOK
  BY Zenon, <1>2, <1>5 DEF SlotsOK
<1>9. Directory
  <2>1. ASSUME NEW c \in Caches, NEW a \in Lines, Parent(c, a) # MEM PROVE Listed(c, a)
    <3>1. PICK p \in Caches : p = Parent(c, a)
      BY Zenon, <2>1, <1>3, Tree
    <3>2. \A k \in Caches : \A i \in Slot(k) : array[k][i] # a
      BY Zenon, <1>5, NamesAssumption
    <3>3. StateOf(c, a) = I
      BY Zenon, <3>2, <1>3, <1>6, StateIs
    <3>4. EntryOf(p, a) = Clear
      BY Zenon, <3>2, <1>3, <1>6, StateIs
    <3> QED
      BY Zenon, <3>1, <3>3, <3>4, <1>2 DEF Listed
  <2> QED
    BY Zenon, <2>1 DEF Directory
<1> QED
  BY Zenon, <1>3, <1>6, <1>7, <1>8, <1>9 DEF CoherenceInv

(* Every step keeps the invariant. *)
LEMMA NextCoherence ==
    ASSUME CoherenceInv, [Next]_vars
    PROVE  CoherenceInv'
<1>1. CASE UNCHANGED vars
  BY ZenonT(30), <1>1, NothingStep DEF vars
<1>2. ASSUME NEW t \in Threads,
             \/ \E c \in hier.core[t], a \in Lines : storeHit(t, c, a)
             \/ \E c \in hier.core[t], a \in Lines, type \in {GETS, GETX} : replace(t, c, a, type)
             \/ \E c \in hier.core[t] : contextSwitch(t, c)
             \/ fill(t)
             \/ lockTcc(t) \/ startAccess(t) \/ evictChild(t) \/ processEviction(t)
             \/ processAccess(t) \/ invalidateOthers(t) \/ updateDirectory(t) \/ endAccess(t)
             \/ startInv(t) \/ invalidateChild(t) \/ processInv(t)
             \/ filterInvalidate(t) \/ filterUnlock(t)
      PROVE  CoherenceInv'
  <2>0. ASSUME NEW c \in hier.core[t], NEW a \in Lines, storeHit(t, c, a) PROVE CoherenceInv'
    BY Zenon, <2>0, NothingStep DEF storeHit
  <2>1. ASSUME NEW c \in hier.core[t], NEW a \in Lines, NEW type \in {GETS, GETX}, replace(t, c, a, type)
        PROVE  CoherenceInv'
    BY Zenon, <2>1, ReplaceStep
  <2>2. ASSUME NEW c \in hier.core[t], contextSwitch(t, c) PROVE CoherenceInv'
    BY Zenon, <2>2, NothingStep DEF contextSwitch
  <2>3. CASE fill(t)
    BY Zenon, <2>3, FillStep
  <2>4. CASE lockTcc(t)
    BY Zenon, <2>4, LockTccStep
  <2>5. CASE startAccess(t)
    BY Zenon, <2>5, StartAccessStep
  <2>6. CASE evictChild(t)
    BY Zenon, <2>6, EvictChildStep
  <2>7. CASE processEviction(t)
    BY Zenon, <2>7, ProcessEvictionStep
  <2>8. CASE processAccess(t)
    BY Zenon, <2>8, ProcessAccessStep
  <2>9. CASE invalidateOthers(t)
    BY Zenon, <2>9, InvalidateOthersStep
  <2>10. CASE updateDirectory(t)
    BY Zenon, <2>10, UpdateDirectoryStep
  <2>11. CASE endAccess(t)
    BY Zenon, <2>11, EndAccessStep
  <2>12. CASE startInv(t)
    BY Zenon, <2>12, StartInvStep
  <2>13. CASE invalidateChild(t)
    BY Zenon, <2>13, InvalidateChildStep
  <2>14. CASE processInv(t)
    BY Zenon, <2>14, ProcessInvStep
  <2>15. CASE filterInvalidate(t)
    BY Zenon, <2>15, FilterInvalidateStep
  <2>16. CASE filterUnlock(t)
    BY Zenon, <2>16, FilterUnlockStep
  <2> QED
    BY Zenon, <1>2, <2>0, <2>1, <2>2, <2>3, <2>4, <2>5, <2>6, <2>7, <2>8, <2>9, <2>10, <2>11, <2>12, <2>13, <2>14, <2>15, <2>16
<1> QED
  BY <1>1, <1>2, Zenon DEF Next

(* The invariant of the cache hierarchy: the locks, calls, slots and       *)
(* directories of any tree of caches, whatever the cores interleave.       *)
THEOREM CoherenceInvariance == Spec => []CoherenceInv
<1>1. Init => CoherenceInv
  BY Zenon, InitCoherence
<1>2. CoherenceInv /\ [Next]_vars => CoherenceInv'
  BY Zenon, NextCoherence
<1> QED
  BY <1>1, <1>2, PTL DEF Spec

(* A line that a cache has is one it is asked for. *)
LEMMA HeldIsAsked ==
    ASSUME CoherenceInv, NEW c \in Caches, NEW a \in Lines, StateOf(c, a) # I
    PROVE  Asked(hier, c, a)
<1>0. Types /\ Distinct /\ SlotsOK
  BY Zenon DEF CoherenceInv
<1>1. PICK i \in Slot(c) : array[c][i] = a
  BY Zenon, <1>0, StateIs
<1>2. SlotFine(c, a, bcc[c][i], tcc[c][i])
  BY Zenon, <1>0, <1>1, SlotIs
<1> QED
  BY Zenon, <1>2, NamesAssumption DEF SlotFine

(* The invariant implies that a writer is alone among its siblings. *)
LEMMA CoherentSingleWriter == CoherenceInv => SingleWriter
<1> SUFFICES ASSUME CoherenceInv, NEW a \in Lines, NEW c \in Caches, NEW d \in Caches, c # d,
                    Parent(c, a) = Parent(d, a), StateOf(c, a) \in {E, M}
             PROVE  StateOf(d, a) = I
  BY Zenon DEF SingleWriter
<1>0. Types /\ Directory
  BY Zenon DEF CoherenceInv
<1>1. CASE Parent(c, a) = MEM
  <2>1. Asked(hier, c, a)
    BY Zenon, HeldIsAsked DEF E, M, I
  <2>2. StateOf(d, a) # I => Asked(hier, d, a)
    BY Zenon, HeldIsAsked
  <2> QED
    BY Zenon, <2>1, <2>2, <1>0, <1>1, Tree
<1>2. CASE Parent(c, a) # MEM
  <2>1. Listed(c, a) /\ Listed(d, a)
    BY Zenon, <1>0, <1>2 DEF Directory
  <2>2. PICK e : e = EntryOf(Parent(c, a), a)
    BY Zenon
  <2>3. c \in e.sharers /\ isExclusive(e)
    BY Zenon, <2>1, <2>2 DEF Listed, E, M, I, S
  <2>4. d \notin e.sharers
    BY Zenon, <2>3 DEF isExclusive
  <2> QED
    BY Zenon, <2>1, <2>2, <2>3, <2>4 DEF Listed
<1> QED
  BY Zenon, <1>1, <1>2

(* A child that may write a line is the only one that has it, for every    *)
(* tree of caches and every interleaving of the cores (MESITopCC).         *)
THEOREM OneWriter == Spec => []SingleWriter
<1>1. CoherenceInv => SingleWriter
  BY Zenon, CoherentSingleWriter
<1> QED
  BY <1>1, CoherenceInvariance, PTL

(* Whoever works on the entry of a cache has it locked. *)
LEMMA UnlockedIsListed ==
    ASSUME CoherenceInv, NEW p \in Caches, bccLock[p] = FREE, NEW c \in Caches, NEW a \in Lines, p = Parent(c, a)
    PROVE  /\ c \in EntryOf(p, a).sharers <=> StateOf(c, a) # I
           /\ c \in EntryOf(p, a).sharers => (isExclusive(EntryOf(p, a)) <=> StateOf(c, a) \in {E, M})
<1>0. Types /\ CallsOK /\ SlotsOK /\ Directory
  BY Zenon DEF CoherenceInv
<1>1. Listed(c, a)
  BY Zenon, <1>0, Tree DEF Directory
<1>2. ASSUME NEW t \in Threads, NEW d \in 1 .. Depth(t), HoldsBcc(t, d), Call(t, d).c = p PROVE FALSE
  BY <1>0, <1>2, NamesAssumption DEF CallsOK, CallOK, LocksOK
<1>3. ~Upgrading(p, c, a)
  <2>1. ASSUME NEW t \in Threads, NEW d \in 1 .. Depth(t), Upgrades(Call(t, d), p, c, a), ~Waits(t, d) PROVE FALSE
    <3>1. HoldsBcc(t, d) /\ Call(t, d).c = p
      BY Zenon, <2>1 DEF Upgrades, HoldsBcc, IsAccess
    <3> QED
      BY Zenon, <3>1, <1>2
  <2> QED
    BY Zenon, <2>1 DEF Upgrading
<1>4. ASSUME NEW type PROVE ~Unlocking(c, a, type)
  <2>1. ASSUME NEW t \in Threads, NEW d \in 1 .. Depth(t), Unlocks(Call(t, d), c, a, type) PROVE FALSE
    <3>1. IsInv(t, d) /\ Call(t, d).c = c /\ Call(t, d).addr = a
      BY Zenon, <2>1 DEF Unlocks, IsInv
    <3>2. d - 1 \in 1 .. Depth(t) /\ HoldsBcc(t, d - 1) /\ Call(t, d - 1).c = p
      BY Zenon, <3>1, <1>0, SenderHolds
    <3> QED
      BY Zenon, <3>2, <1>2
  <2> QED
    BY Zenon, <2>1 DEF Unlocking
<1> QED
  BY Zenon, <1>1, <1>3, <1>4 DEF Listed

(* The sharers an entry lists are children. *)
LEMMA SharersAreChildren ==
    ASSUME CoherenceInv, NEW p \in Caches, NEW a \in Lines
    PROVE  EntryOf(p, a).sharers \subseteq Children(p, a)
<1>0. Types /\ Distinct /\ SlotsOK
  BY Zenon DEF CoherenceInv
<1>1. CASE \E i \in Slot(p) : array[p][i] = a
  <2>1. PICK i \in Slot(p) : array[p][i] = a
    BY Zenon, <1>1
  <2>2. EntryOf(p, a) = tcc[p][i]
    BY Zenon, <2>1, <1>0, StateIs
  <2>3. SlotFine(p, a, bcc[p][i], tcc[p][i])
    BY Zenon, <2>1, <1>0, SlotIs
  <2>4. tcc[p][i].sharers \subseteq Caches
    BY Zenon, <1>0 DEF Types, Entries
  <2> QED
    BY Zenon, <2>2, <2>3, <2>4 DEF SlotFine, Children
<1>2. CASE \A i \in Slot(p) : array[p][i] # a
  BY <1>2, <1>0, StateIs DEF Clear
<1> QED
  BY Zenon, <1>1, <1>2

(* The types the C++ classes give the state; stale lines are lines. *)
StaleOK == stale \subseteq Lines
(* The invariant implies the type invariant. *)
LEMMA CoherentTypes == CoherenceInv /\ StaleOK => TypeOK
<1> SUFFICES ASSUME CoherenceInv, StaleOK PROVE TypeOK
  BY Zenon
<1>0. Types /\ Distinct
  BY Zenon DEF CoherenceInv
<1>1. \A c \in Caches : bccLock[c] \in Threads \cup {FREE} /\ tccLock[c] \in Threads \cup {FREE}
                        /\ filterLock[c] \in Threads \cup {FREE}
  BY Zenon, <1>0 DEF Types
<1>2. \A c \in Caches : {bccLock[c], tccLock[c], filterLock[c]} \subseteq Threads \cup {FREE}
  BY Zenon, <1>1
<1>3. \A t \in Threads : \A k \in 1 .. Len(stack[t]) : stack[t][k] \in Frame
  BY <1>0 DEF Types
<1>4. \A f \in Frames : f \in Frame
  BY <1>3 DEF Frames
<1>5. \A f \in Frames : f.c \in Caches /\ f.addr \in Lines
  BY Zenon, <1>4, FrameKinds
<1>6. \A c \in Caches : /\ array[c] \in [Slot(c) -> Lines \cup {NoLine}]
                        /\ bcc[c] \in [Slot(c) -> MESIState]
                        /\ tcc[c] \in [Slot(c) -> [sharers : SUBSET Caches, exclusive : BOOLEAN]]
  BY Zenon, <1>0 DEF Types, Entries
<1>7. \A c \in Caches : \A i, j \in Slot(c) : array[c][i] = array[c][j] => i = j \/ array[c][i] = NoLine
  BY Zenon, <1>0 DEF Distinct
<1> QED
  BY Zenon, <1>2, <1>5, <1>6, <1>7 DEF TypeOK, StaleOK

(* The history variable keeps its type. *)
LEMMA StaleInvariance ==
    ASSUME CoherenceInv, StaleOK, [Next]_vars
    PROVE  StaleOK'
<1>1. CASE UNCHANGED vars
  BY Zenon, <1>1 DEF vars, StaleOK
<1>2. ASSUME NEW t \in Threads, endAccess(t) PROVE StaleOK'
  <2>1. stack[t] # <<>> /\ (stale' = stale \/ stale' = stale \cup {Top(t).addr})
    BY Zenon, <1>2 DEF endAccess, Busy
  <2>2. Top(t).addr \in Lines
    BY Zenon, <2>1, TopIs
  <2> QED
    BY Zenon, <2>1, <2>2 DEF StaleOK
<1>3. ASSUME NEW t \in Threads, NEW f, NEW a, NEW type, NEW st, NEW noexcl, callParent(t, f, a, type, st, noexcl)
      PROVE  StaleOK'
  BY Zenon, <1>3 DEF callParent, StaleOK
<1>4. ASSUME NEW t \in Threads, processEviction(t) \/ processAccess(t) PROVE StaleOK'
  BY Zenon, <1>3, <1>4 DEF processEviction, processAccess, StaleOK
<1>5. ASSUME NEW t \in Threads, NEW c, NEW a \in Lines, storeHit(t, c, a) PROVE StaleOK'
  BY Zenon, <1>5 DEF storeHit, StaleOK
<1>6. ASSUME NEW t \in Threads,
             \/ \E c \in hier.core[t], a \in Lines, type \in {GETS, GETX} : replace(t, c, a, type)
             \/ \E c \in hier.core[t] : contextSwitch(t, c)
             \/ fill(t)
             \/ lockTcc(t) \/ startAccess(t) \/ evictChild(t)
             \/ invalidateOthers(t) \/ updateDirectory(t)
             \/ startInv(t) \/ invalidateChild(t) \/ processInv(t)
             \/ filterInvalidate(t) \/ filterUnlock(t)
      PROVE  StaleOK'
  <2>1. stale' = stale
    BY Zenon, <1>6 DEF replace, contextSwitch, fill, lockTcc, startAccess, evictChild, invalidateOthers, updateDirectory,
                startInv, invalidateChild, processInv, filterInvalidate, filterUnlock
  <2> QED
    BY ZenonT(30), <2>1 DEF StaleOK
<1> QED
  BY <1>1, <1>2, <1>4, <1>5, <1>6, Zenon DEF Next

(* The invariant implies that unlocked directories are exact. *)
LEMMA CoherentDirectory == CoherenceInv /\ StaleOK => DirectoryExact
<1> SUFFICES ASSUME CoherenceInv, StaleOK PROVE DirectoryExact
  BY Zenon
<1>1. TypeOK
  BY Zenon, CoherentTypes
<1>2. ASSUME NEW a \in Lines, NEW p \in Caches, bccLock[p] = FREE, NEW e, e = EntryOf(p, a)
      PROVE  /\ e.sharers = {c \in Children(p, a) : StateOf(c, a) # I}
             /\ isExclusive(e) <=> \E c \in Children(p, a) : StateOf(c, a) \in {E, M}
  <2>1. \A c \in Children(p, a) :
            /\ c \in e.sharers <=> StateOf(c, a) # I
            /\ c \in e.sharers => (isExclusive(e) <=> StateOf(c, a) \in {E, M})
    BY Zenon, <1>2, UnlockedIsListed DEF Children
  <2>2. e.sharers \subseteq Children(p, a)
    BY Zenon, <1>2, SharersAreChildren
  <2>3. e.sharers = {c \in Children(p, a) : StateOf(c, a) # I}
    BY Zenon, <2>1, <2>2
  <2>4. isExclusive(e) => \E c \in e.sharers : TRUE
    BY Zenon DEF isExclusive
  <2>5. isExclusive(e) <=> \E c \in Children(p, a) : StateOf(c, a) \in {E, M}
    BY Zenon, <2>1, <2>2, <2>4 DEF E, M, I
  <2> QED
    BY Zenon, <2>3, <2>5
<1> QED
  BY Zenon, <1>1, <1>2 DEF DirectoryExact

(* Whenever a cache is unlocked its directory is exact: it lists the       *)
(* children that have the line, and says whether one may write it          *)
(* (MESITopCC::processAccess, processEviction, processInval).              *)
THEOREM DirectoriesAreExact == Spec => []DirectoryExact
<1>1. Init => StaleOK
  BY Zenon DEF Init, StaleOK
<1>2. CoherenceInv /\ StaleOK /\ [Next]_vars => StaleOK'
  BY Zenon, StaleInvariance
<1>3. CoherenceInv /\ StaleOK => DirectoryExact
  BY ZenonT(30), CoherentDirectory
<1> QED
  BY <1>1, <1>2, <1>3, CoherenceInvariance, PTL DEF Spec

(* What an access on top of its thread finds in the child that asked. *)
LEMMA ChildSays ==
    ASSUME CoherenceInv, NEW t \in Threads, NEW top, top = Depth(t), NEW f, f = Top(t), NEW pc,
           AccessRuns(t, top, f, pc), pc \in {"process", "directory"}, top > 2
    PROVE  /\ ChildOK(f) /\ f.child \in Caches /\ f.child # CORE /\ f.id \in Slot(f.c)
           /\ Says(f, tcc[f.c][f.id], bcc[f.child][f.slot], f.child, f.addr)
           /\ SlotFine(f.c, f.addr, bcc[f.c][f.id], tcc[f.c][f.id])
<1>0. Types /\ Distinct /\ CallsOK /\ SlotsOK
  BY Zenon DEF CoherenceInv
<1>1. /\ top \in 1 .. Depth(t) /\ f = Call(t, top) /\ IsAccess(t, top) /\ f.pc = pc /\ f.c \in Caches
      /\ f.addr \in Lines /\ OwnAccess(f, FALSE) /\ ChildOK(f)
  BY Zenon DEF AccessRuns
<1>2. f.id \in Slot(f.c) /\ array[f.c][f.id] = f.addr
  BY ZenonT(30), <1>1 DEF OwnAccess
<1>3. /\ f.child \in Caches /\ f.slot \in Slot(f.child) /\ array[f.child][f.slot] = f.addr
      /\ Parent(f.child, f.addr) = f.c
  BY Zenon, <1>0, <1>1, CallerOf
<1>4. StateOf(f.child, f.addr) = bcc[f.child][f.slot]
  BY Zenon, <1>0, <1>1, <1>3, StateIs
<1>5. PICK p, i, a : p = f.c /\ i = f.id /\ a = f.addr
  BY Zenon
<1>6. p \in Caches /\ i \in Slot(p) /\ a \in Lines /\ array[p][i] = a /\ Parent(f.child, a) = p
  BY Zenon, <1>1, <1>2, <1>3, <1>5
<1>7. pc \notin {"tcc", "bcc"}
  BY Zenon
<1>8. Says(f, tcc[p][i], StateOf(f.child, a), f.child, a)
  BY Zenon, <1>3, <1>5, <1>6, <1>7, TopSays
<1>9. SlotFine(f.c, f.addr, bcc[f.c][f.id], tcc[f.c][f.id])
  BY Zenon, <1>0, <1>1, <1>2, SlotIs
<1> QED
  BY ZenonT(30), <1>0, <1>1, <1>2, <1>3, <1>4, <1>5, <1>8, <1>9, Tree

(* Where an access came from. *)
LEMMA AskedBy ==
    ASSUME CoherenceInv, NEW t \in Threads, NEW top, top = Depth(t), NEW f, f = Top(t), NEW pc,
           AccessRuns(t, top, f, pc)
    PROVE  /\ f.child = CORE => top = 2 /\ f.type \in {GETS, GETX} /\ f.init = I /\ Terminal(f.c)
           /\ f.child # CORE => top > 2
<1>0. Types /\ CallsOK
  BY Zenon DEF CoherenceInv
<1>1. /\ top \in 1 .. Depth(t) /\ top \in Nat /\ top >= 2 /\ f = Call(t, top) /\ IsAccess(t, top) /\ f.op = "access"
      /\ ShapeOK(t, top)
  BY Zenon DEF AccessRuns
<1>2. top = 2 => f.child = CORE /\ f.c \in hier.core[t] /\ f.type \in {GETS, GETX} /\ f.init = I
  BY Zenon, <1>1 DEF ShapeOK
<1>3. top > 2 => f.child \in Caches
  BY Zenon, <1>0, <1>1, CallerOf
<1>4. top > 2 => f.child # CORE
  BY Zenon, <1>0, <1>3, Tree
<1>5. top = 2 => Terminal(f.c)
  BY Zenon, <1>0, <1>2, Tree DEF Terminal
<1>6. top = 2 \/ top > 2
  BY Zenon, <1>1, SomeDepth
<1> QED
  BY Zenon, <1>2, <1>4, <1>5, <1>6

(* CheckForMESIRace only meets the races it knows. *)
LEMMA RacesExpected ==
    ASSUME CoherenceInv, NEW t \in Threads, NEW top, top = Depth(t), NEW f, f = Top(t), NEW pc,
           AccessRuns(t, top, f, pc), pc \in {"tcc", "bcc"}
    PROVE  RaceExpected(f)
<1>1. f.pc = pc /\ f \in AccessFrame /\ (top > 2 => ChildOK(f))
  BY Zenon DEF AccessRuns
<1>2. f.type \in {GETS, GETX, PUTS, PUTX}
  BY Zenon, <1>1 DEF AccessFrame
<1>3. CASE f.child = CORE
  BY Zenon, <1>3, AskedBy DEF RaceExpected, ChildState
<1>4. CASE f.child # CORE
  <2>1. ChildOK(f) /\ ChildState(f) = bcc[f.child][f.slot]
    BY Zenon, <1>1, <1>4, AskedBy DEF ChildState
  <2> QED
    BY Zenon, <2>1, <1>1, <1>2 DEF ChildOK, RaceExpected, GETS, GETX, PUTS, PUTX
<1> QED
  BY Zenon, <1>3, <1>4

(* MESIBottomCC and MESITopCC find what they assert. *)
LEMMA AccessesAssert ==
    ASSUME CoherenceInv, NEW t \in Threads, NEW top, top = Depth(t), NEW f, f = Top(t), NEW pc,
           AccessRuns(t, top, f, pc)
    PROVE  AccessAsserts(f)
<1>1. f.pc = pc /\ f \in AccessFrame /\ OwnAccess(f, FALSE) /\ (top > 2 => ChildOK(f))
  BY Zenon DEF AccessRuns
<1>2. f.type \in {GETS, GETX, PUTS, PUTX}
  BY Zenon, <1>1 DEF AccessFrame
<1>3. PICK state, e, child, put : state = bcc[f.c][f.id] /\ e = tcc[f.c][f.id] /\ child = bcc[f.child][f.slot]
                                  /\ put = (f.type \in {PUTS, PUTX})
  BY Zenon
<1>4. f.pc = "evict" /\ f.wb => state \in {E, M}
  BY Zenon, <1>1, <1>3 DEF OwnAccess
<1>5. f.pc = "insert" => state = I
  BY Zenon, <1>1, <1>3 DEF OwnAccess
<1>6. f.pc = "process" /\ f.type \in {PUTS, PUTX} => state # I /\ (f.type = PUTX => state \in {E, M})
  <2> SUFFICES ASSUME f.pc = "process", f.type \in {PUTS, PUTX}
               PROVE  state # I /\ (f.type = PUTX => state \in {E, M})
    BY Zenon
  <2>1. top > 2
    BY Zenon, AskedBy DEF GETS, GETX, PUTS, PUTX
  <2>2. ChildOK(f) /\ Says(f, e, child, f.child, f.addr) /\ SlotFine(f.c, f.addr, state, e)
    BY Zenon, <2>1, <1>1, <1>3, ChildSays
  <2>3. child \in (IF f.type = PUTX THEN {M} ELSE {S, E})
    BY Zenon, <2>2, <1>3 DEF ChildOK
  <2>4. ~Upgrades(f, f.c, f.child, f.addr)
    BY Zenon DEF Upgrades
  <2>5. f.child \in e.sharers /\ (f.type = PUTX => isExclusive(e))
    BY Zenon, <2>2, <2>3, <2>4 DEF Says, S, E, M, I
  <2> QED
    BY Zenon, <2>2, <2>5 DEF SlotFine
<1>7. f.pc = "directory" =>
         /\ f.type = GETS => state # I /\ f.child \notin e.sharers
         /\ f.type = GETX => state = M /\ ~(f.child \in e.sharers /\ isExclusive(e))
         /\ f.type \in {PUTS, PUTX} => f.child \in e.sharers /\ (f.type = PUTX => isExclusive(e))
         /\ f.wb => state \in {E, M}
  <2> SUFFICES ASSUME f.pc = "directory"
               PROVE  /\ f.type = GETS => state # I /\ f.child \notin e.sharers
                      /\ f.type = GETX => state = M /\ ~(f.child \in e.sharers /\ isExclusive(e))
                      /\ f.type \in {PUTS, PUTX} => f.child \in e.sharers /\ (f.type = PUTX => isExclusive(e))
                      /\ f.wb => state \in {E, M}
    BY Zenon
  <2>1. top > 2
    BY Zenon, <1>1, AskedBy DEF OwnAccess
  <2>2. ChildOK(f) /\ Says(f, e, child, f.child, f.addr)
    BY Zenon, <2>1, <1>1, <1>3, ChildSays
  <2>3. /\ f.type = GETS => child = I
        /\ f.type = GETX => child \in {I, S}
        /\ f.type \in {PUTS, PUTX} => child \in (IF f.type = PUTX THEN {M} ELSE {S, E})
    BY Zenon, <2>2, <1>3 DEF ChildOK, GETS, GETX, PUTS, PUTX
  <2>4. Upgrades(f, f.c, f.child, f.addr) => f.type = GETX
    BY Zenon DEF Upgrades
  <2>5. /\ f.type = GETS => f.child \notin e.sharers
        /\ f.type = GETX => ~(f.child \in e.sharers /\ isExclusive(e))
    BY Zenon, <2>2, <2>3 DEF Says, I, S, E, M
  <2>6. f.type \in {PUTS, PUTX} => f.child \in e.sharers /\ (f.type = PUTX => isExclusive(e))
    BY Zenon, <2>2, <2>3, <2>4 DEF Says, I, S, E, M, GETX, PUTS, PUTX
  <2>7. (f.type = GETS => state # I) /\ (f.type = GETX => state = M) /\ (f.wb => state \in {E, M})
    BY Zenon, <1>1, <1>3 DEF OwnAccess
  <2> QED
    BY Zenon, <2>5, <2>6, <2>7
<1>8. f.pc = "end" /\ f.child = CORE => state # I /\ (f.type = GETX => state = M)
  BY Zenon, <1>1, <1>3 DEF OwnAccess
<1>9. f.pc = "end" /\ f.child # CORE =>
         IF f.type \in {PUTS, PUTX} THEN ChildState(f) = I
         ELSE ChildState(f) \in (IF f.type = GETS THEN {S, E} ELSE {M})
  <2> SUFFICES ASSUME f.pc = "end", f.child # CORE
               PROVE  IF f.type \in {PUTS, PUTX} THEN ChildState(f) = I
                      ELSE ChildState(f) \in (IF f.type = GETS THEN {S, E} ELSE {M})
    BY Zenon
  <2>1. ChildOK(f) /\ ChildState(f) = bcc[f.child][f.slot]
    BY Zenon, <1>1, AskedBy DEF ChildState
  <2> QED
    BY Zenon, <2>1 DEF ChildOK
<1> QED
  BY <1>3, <1>4, <1>5, <1>6, <1>7, <1>8, <1>9, Zenon DEF AccessAsserts

(* The invariant implies the assertions of the controllers. *)
LEMMA CoherentAsserts == CoherenceInv => AssertsHold
<1> SUFFICES ASSUME CoherenceInv, NEW t \in {u \in Threads : stack[u] # <<>>}, NEW f, f = Top(t)
             PROVE  /\ f.op = "access" /\ f.pc \in {"tcc", "bcc"} => RaceExpected(f)
                    /\ f.op = "access" /\ f.id # 0 => AccessAsserts(f)
                    /\ f.op = "inv" /\ f.pc \in {"children", "filter"} =>
                          /\ f.id # 0 /\ bcc[f.c][f.id] # I
                          /\ f.type = INVX => bcc[f.c][f.id] \in {E, M}
  BY Zenon DEF AssertsHold
<1>1. PICK top, pc : top = Depth(t) /\ pc = f.pc
  BY Zenon
<1>2. CASE f.op = "access"
  <2>1. Busy(t, "access", pc)
    BY Zenon, <1>1, <1>2 DEF Busy, Top
  <2>2. AccessRuns(t, top, f, pc)
    BY Zenon, <2>1, <1>1, RunsAccess
  <2>3. pc \in {"tcc", "bcc"} => RaceExpected(f)
    BY Zenon, <2>2, <1>1, RacesExpected
  <2>4. AccessAsserts(f)
    BY Zenon, <2>2, <1>1, AccessesAssert
  <2> QED
    BY Zenon, <2>3, <2>4, <1>1, <1>2
<1>3. CASE f.op = "inv"
  <2>1. Busy(t, "inv", pc)
    BY Zenon, <1>1, <1>3 DEF Busy, Top
  <2>2. InvRuns(t, top, f, pc)
    BY Zenon, <2>1, <1>1, RunsInv
  <2>3. f.c \in Caches /\ OwnInv(f, Call(t, top - 1))
    BY Zenon, <2>2 DEF InvRuns
  <2>4. \A i \in Slot(f.c) : i # 0
    BY Zenon, <2>3, SlotNat DEF CoherenceInv
  <2> QED
    BY Zenon, <2>3, <2>4, <1>3 DEF OwnInv
<1> QED
  BY Zenon, <1>2, <1>3

(* No assertion of the coherence controllers fails, whatever races between *)
(* accesses, evictions, upgrades and invalidations the cores produce.      *)
THEOREM AssertionsHold == Spec => []AssertsHold
<1>1. CoherenceInv => AssertsHold
  BY Zenon, CoherentAsserts
<1> QED
  BY <1>1, CoherenceInvariance, PTL

=============================================================================
