--------------------------- MODULE CoherenceAccess ---------------------------
(* Proofs about the cache hierarchy, continued: the steps of an access that *)
(* change a line or what a cache knows of its children.                     *)
EXTENDS CoherenceCalls

(* The end of an access: its caller, if any, holds its cache again. *)
LEMMA EndAccessStep ==
    ASSUME CoherenceInv, NEW t \in Threads, endAccess(t)
    PROVE  CoherenceInv'
<1>0. PICK top, f, g : top = Depth(t) /\ f = Top(t) /\ g = Call(t, top - 1)
  BY Zenon
<1>1. /\ Busy(t, "access", "end") /\ UNCHANGED <<hier, array, bcc, tcc>>
      /\ stack' = [stack EXCEPT ![t] = Tail(@)]
  BY Zenon DEF endAccess
<1>2. AccessRuns(t, top, f, "end")
  BY Zenon, <1>0, <1>1, RunsAccess
<1>3. /\ stack[t] # <<>> /\ top \in 1 .. Depth(t) /\ top \in Nat /\ top >= 2
      /\ f = Call(t, top) /\ IsAccess(t, top) /\ ~IsInv(t, top) /\ f \in AccessFrame /\ f.pc = "end"
      /\ f.c \in Caches /\ LocksOK(t, top) /\ ShapeOK(t, top) /\ Holder(t, f.c) /\ f.op = "access"
      /\ (top > 2 => ChildOK(f))
  BY ZenonT(30), <1>2 DEF AccessRuns
<1>4. Types /\ CallsOK /\ top - 1 \in 1 .. Depth(t) /\ top - 1 \in Int /\ top - 2 \in Int /\ top - 1 + 1 = top
  BY Zenon, <1>0, <1>3, NearDepth, SomeDepth DEF CoherenceInv
<1>5. g \in Frame /\ g.c \in Caches /\ CallOK(t, top - 1)
  BY Zenon, <1>0, <1>4, CallTypes, FrameKinds DEF CallsOK
<1>6. Pops(t) /\ stack' \in [Threads -> Seq(Frame)]
  BY Zenon, <1>1, <1>3, <1>4, PopEffect
<1>7. Returns(t, g)
  BY Zenon, <1>0, <1>6 DEF Pops, Returns
<1>8. /\ Kept(t, top - 2) /\ Depth(t)' = top - 1 /\ Call(t, top - 1)' = g /\ ~Waits(t, top - 1)'
      /\ top > 2 => Call(t, top - 1 - 1)' = Call(t, top - 1 - 1)
  BY ZenonT(30), <1>0, <1>3, <1>5, <1>7, ReturnKeeps
<1>9. top > 2 => /\ Waits(t, top - 1) /\ IsAccess(t, top - 1) /\ Called(f, g) /\ f.child = g.c
                 /\ f.child \in Caches /\ f.child # f.c /\ f.child # CORE
  <2> HAVE top > 2
  <2>1. /\ Waits(t, top - 1) /\ IsAccess(t, top - 1) /\ Called(f, g) /\ f.child = g.c
        /\ f.child \in Caches /\ f.child # f.c
    BY ZenonT(30), <1>0, <1>3, <1>4, CallerOf
  <2> QED
    BY Zenon, <2>1, <1>4, Tree
<1>10. top = 2 => g.op = "replace" /\ f.child = CORE
  <2> HAVE top = 2
  <2>1. f.child = CORE
    BY Zenon, <1>3 DEF ShapeOK
  <2>2. PICK n : n = top - 1
    BY Zenon
  <2>3. n = 1 /\ g = Call(t, n) /\ ShapeOK(t, n)
    BY Zenon, <2>2, <1>0, <1>5, OneBelow DEF CallOK
  <2> QED
    BY Zenon, <2>1, <2>3 DEF ShapeOK
<1>11. NotMarked(t, top - 2)
  <2> SUFFICES ASSUME NEW d \in 1 .. Depth(t), d > top - 2
               PROVE  /\ ~(IsAccess(t, d) /\ Call(t, d).pc = "directory" /\ Call(t, d).type = GETX /\ ~Waits(t, d))
                      /\ ~(IsInv(t, d) /\ Call(t, d).pc = "unlock")
    BY Zenon DEF NotMarked
  <2>1. d = top \/ d = top - 1
    BY Zenon, <1>0, <1>3, LastTwo
  <2>2. CASE d = top
    BY Zenon, <2>2, <1>3
  <2>3. CASE d = top - 1
    <3>1. top > 2 => IsAccess(t, d) /\ ~IsInv(t, d) /\ Waits(t, d)
      BY Zenon, <2>3, <1>9 DEF IsInv, IsAccess
    <3>2. top = 2 => ~IsAccess(t, d) /\ ~IsInv(t, d)
      BY Zenon, <2>3, <1>0, <1>10 DEF IsInv, IsAccess
    <3> QED
      BY Zenon, <3>1, <3>2, <1>3, SomeDepth
  <2> QED
    BY Zenon, <2>1, <2>2, <2>3
<1>12. CASE f.child = CORE
  <2>1. /\ filterLock' = [filterLock EXCEPT ![f.c] = t] /\ bccLock' = [bccLock EXCEPT ![f.c] = FREE]
        /\ tccLock' = tccLock
    BY Zenon, <1>0, <1>12 DEF endAccess
  <2>2. QuietLocks(t)
    BY Zenon, <2>1, <1>3, <1>4 DEF QuietLocks, Types
  <2>3. Types'
    BY Zenon, <1>1, <1>6, <2>2, QuietFootprint
  <2>4. Ordered'
    BY ZenonT(30), <1>0, <1>1, <1>3, <1>5, <1>7, <2>3, ReturnOrdered
  <2>5. top = 2
    BY Zenon, <1>3, <1>9, <1>12, SomeDepth
  <2>6. PICK n : n = top - 1
    BY Zenon
  <2>7. n = 1 /\ Call(t, n)' = g /\ g.op = "replace"
    BY <2>5, <2>6, <1>8, <1>10
  <2>8. CallOK(t, n)'
    BY Zenon, <2>7 DEF CallOK, LocksOK, HoldsBcc, HoldsTcc, IsAccess, IsInv, ShapeOK, KnowsOK
  <2>9. \A d \in 1 .. Depth(t)' : d > top - 2 => CallOK(t, d)'
    BY Zenon, <2>5, <2>6, <2>8, <1>8, PopDepth
  <2> QED
    BY Zenon, <2>2, <2>4, <2>9, <1>1, <1>4, <1>6, <1>8, <1>11, QuietStep
<1>13. CASE f.child # CORE
  <2>1. /\ bccLock[f.child] = FREE /\ bccLock' = [bccLock EXCEPT ![f.child] = t, ![f.c] = FREE]
        /\ tccLock' = [tccLock EXCEPT ![f.c] = FREE] /\ filterLock' = filterLock
    BY Zenon, <1>0, <1>13 DEF endAccess
  <2>2. top > 2
    BY Zenon, <1>3, <1>10, <1>13, SomeDepth
  <2>3. ~Terminal(f.c) /\ HoldsTcc(t, top)
    <3>1. f.c = Parent(f.child, f.addr) /\ f.child \in Caches /\ f.addr \in Lines
      BY Zenon, <2>2, <1>3, <1>4, CallerOf DEF AccessFrame
    <3> QED
      BY <3>1, <1>3, <1>4, Tree DEF HoldsTcc
  <2>4. QuietLocks(t)
    <3>1. /\ bccLock \in [Caches -> Threads \cup {FREE}] /\ tccLock \in [Caches -> Threads \cup {FREE}]
          /\ filterLock \in [Caches -> Threads \cup {FREE}]
      BY Zenon, <1>4 DEF Types
    <3>2. \A c \in Caches : bccLock'[c] = bccLock[c] \/ bccLock[c] = FREE \/ Holder(t, c)
      BY Zenon, <3>1, <2>1, <1>3
    <3>3. \A c \in Caches : tccLock'[c] = tccLock[c] \/ f.c = c
      BY ZenonT(30), <3>1, <2>1
    <3>4. Depth(t) >= 1 /\ HoldsTcc(t, Depth(t)) /\ Call(t, Depth(t)).c = f.c
      BY Zenon, <2>3, <1>0, <1>3, SomeDepth
    <3> QED
      BY Zenon, <3>1, <3>2, <3>3, <3>4, <2>1 DEF QuietLocks
  <2>5. Types'
    BY Zenon, <1>1, <1>6, <2>4, QuietFootprint
  <2>6. Ordered'
    BY Zenon, <1>0, <1>1, <1>3, <1>5, <1>7, <2>5, ReturnOrdered
  <2>7. PICK n : n = top - 1
    BY Zenon
  <2>8. /\ Call(t, n)' = g /\ Call(t, n) = g /\ ~Waits(t, n)' /\ Waits(t, n) /\ n > 1
        /\ CallOK(t, n) /\ Call(t, n - 1)' = Call(t, n - 1) /\ n \in Nat /\ n # 1 /\ g.op = "access"
    BY <2>2, <2>7, <1>0, <1>3, <1>5, <1>8, <1>9 DEF IsAccess
  <2>9. LocksOK(t, n)'
    <3>1. bccLock'[g.c] = t
      BY Zenon, <2>1, <2>2, <1>4, <1>5, <1>9 DEF Types
    <3>2. g.pc # "tcc" /\ ~Terminal(g.c) => tccLock[g.c] = t
      BY Zenon, <2>8 DEF CallOK, LocksOK, HoldsTcc, IsAccess
    <3>3. g.pc # "tcc" /\ ~Terminal(g.c) => tccLock'[g.c] = t
      BY Zenon, <3>2, <2>1, <2>2, <1>4, <1>5, <1>9 DEF Types
    <3>4. Call(t, n).c' = g.c
      BY Zenon, <2>8
    <3> QED
      BY Zenon, <3>1, <3>3, <2>8, <1>1 DEF LocksOK, HoldsTcc, Terminal
  <2>10. ShapeOK(t, n)'
    BY Zenon, <2>8, <1>1 DEF CallOK, ShapeOK, Called, Slot, Parent, Terminal
  <2>11. OwnAccess(g, TRUE)
    BY Zenon, <2>8 DEF CallOK, KnowsOK
  <2>12. OwnAccess(g, FALSE)
    <3>1. ChildOK(f) /\ Called(f, g)
      BY Zenon, <2>2, <1>3, <1>9
    <3>2. bcc[g.c][g.id] \in (IF f.type \in {PUTS, PUTX} THEN {I} ELSE IF f.type = GETS THEN {S, E} ELSE {M})
      BY Zenon, <3>1, <1>3 DEF ChildOK, Called
    <3>3. g.pc = "insert" => bcc[g.c][g.id] = I
      BY Zenon, <3>1, <3>2 DEF Called
    <3>4. g.pc # "insert" => /\ f.type = g.type /\ f.type \in {GETS, GETX} /\ bcc[g.c][g.id] # I
                             /\ g.type = GETX => bcc[g.c][g.id] = M
      BY ZenonT(30), <3>1, <3>2 DEF Called, GETS, GETX, PUTS, PUTX, I, S, E, M
    <3> QED
      BY Zenon, <3>3, <3>4, <2>11 DEF OwnAccess
  <2>13. KnowsOK(t, n)'
    <3>1. OwnAccess(g, FALSE)'
      BY Zenon, <2>12, <1>1 DEF OwnAccess, Slot, Terminal
    <3>2. n > 2 => ChildOK(g)'
      BY Zenon, <2>8, <1>1 DEF CallOK, KnowsOK, ChildOK
    <3> QED
      BY ZenonT(30), <3>1, <3>2, <2>8 DEF KnowsOK, OwnAccess, ChildOK
  <2>14. \A d \in 1 .. Depth(t)' : d > top - 2 => CallOK(t, d)'
    <3>1. \A d \in 1 .. Depth(t)' : d > top - 2 => d = n
      BY Zenon, <2>7, <1>3, <1>8, PopDepth
    <3> QED
      BY Zenon, <3>1, <2>9, <2>10, <2>13 DEF CallOK
  <2> QED
    BY Zenon, <2>4, <2>6, <2>14, <1>1, <1>4, <1>6, <1>8, <1>11, QuietStep
<1> QED
  BY Zenon, <1>12, <1>13

(* The end of FilterCache::replace. *)
LEMMA FillStep ==
    ASSUME CoherenceInv, NEW t \in Threads, fill(t)
    PROVE  CoherenceInv'
<1>0. PICK top, f : top = Depth(t) /\ f = Top(t)
  BY Zenon
<1>1. /\ stack[t] # <<>> /\ f.op = "replace" /\ UNCHANGED <<hier, array, bcc, tcc, bccLock, tccLock>>
      /\ stack' = [stack EXCEPT ![t] = Tail(@)] /\ filterLock' = [filterLock EXCEPT ![f.c] = FREE]
  BY Zenon, <1>0 DEF fill, Busy, Top
<1>2. top \in Nat /\ f = Call(t, top) /\ CallOK(t, top) /\ f.c \in Caches /\ top \in 1 .. Depth(t) /\ Types
  BY Zenon, <1>0, <1>1, TopIs DEF CoherenceInv
<1>3. top = 1
  BY Zenon, <1>1, <1>2 DEF CallOK, ShapeOK
<1>4. Pops(t) /\ stack' \in [Threads -> Seq(Frame)]
  BY Zenon, <1>1, <1>2, PopEffect
<1>5. Depth(t)' = 0 /\ Elsewhere(t)
  <2>1. Depth(t)' = Depth(t) - 1 /\ Elsewhere(t)
    BY Zenon, <1>4 DEF Pops
  <2>2. Depth(t) = 1
    BY Zenon, <1>0, <1>3
  <2> QED
    BY <2>1, <2>2
<1>6. QuietLocks(t)
  <2>1. /\ bccLock \in [Caches -> Threads \cup {FREE}] /\ tccLock \in [Caches -> Threads \cup {FREE}]
        /\ filterLock \in [Caches -> Threads \cup {FREE}]
    BY Zenon, <1>2 DEF Types
  <2> QED
    BY Zenon, <2>1, <1>1 DEF QuietLocks
<1>7. Types'
  BY Zenon, <1>1, <1>4, <1>6, QuietFootprint
<1>8. Kept(t, 0)
  BY <1>0, <1>3, <1>5 DEF Kept
<1>9. NotMarked(t, 0)
  BY <1>0, <1>1, <1>2, <1>3 DEF NotMarked, IsAccess, IsInv
<1>10. Ordered'
  <2>1. Depth(t)' <= Depth(t) + 1 /\ ~(Depth(t)' = Depth(t) + 1) /\ \A d \in 1 .. Depth(t) : ~(d <= Depth(t)')
    BY SMTT(30), <1>0, <1>3, <1>5
  <2> QED
    BY Zenon, <2>1, <1>1, <1>2, <1>5, <1>7, OrderedKeeps DEF CoherenceInv
<1> QED
  BY <1>1, <1>4, <1>5, <1>6, <1>8, <1>9, <1>10, QuietStep

(* A miss in the filter. *)
LEMMA ReplaceStep ==
    ASSUME CoherenceInv, NEW t \in Threads, NEW c \in hier.core[t], NEW a \in Lines,
           NEW type \in {GETS, GETX}, replace(t, c, a, type)
    PROVE  CoherenceInv'
<1>0. Types /\ Ordered
  BY Zenon DEF CoherenceInv
<1>1. c \in Caches /\ Terminal(c) /\ c \in hier.l1s
  BY Zenon, <1>0, Tree DEF Terminal
<1> DEFINE g == Access(c, a, type, CORE, 0, I, c \in hier.ifetch)
           f == [op |-> "replace", pc |-> "fill", c |-> c, addr |-> a, type |-> type]
<1>2. /\ stack[t] = <<>> /\ UNCHANGED <<hier, array, bcc, tcc, bccLock, tccLock>>
      /\ filterLock' = [filterLock EXCEPT ![c] = FREE] /\ stack' = [stack EXCEPT ![t] = <<g, f>>]
  BY Zenon DEF replace
<1>3. /\ g \in AccessFrame /\ g.op = "access" /\ g.pc = "bcc" /\ g.c = c /\ g.type = type /\ g.child = CORE
      /\ g.init = I /\ g.id = 0 /\ g.wb = FALSE
  BY SMTT(30), <1>1 DEF Access, AccessFrame, MESIState
<1>4. f \in ReplaceFrame /\ f.op = "replace"
  BY Zenon, <1>1 DEF ReplaceFrame
<1> HIDE DEF f, g
<1>5. f \in Frame /\ g \in Frame
  BY ZenonT(30), <1>3, <1>4 DEF Frame
<1>6. /\ stack' \in [Threads -> Seq(Frame)] /\ Elsewhere(t) /\ stack'[t] = <<g, f>>
  BY SMTT(30), <1>0, <1>2, <1>5 DEF Types, Elsewhere
<1>7. Depth(t)' = 2 /\ Depth(t) = 0 /\ \A d : (d = 1 => Call(t, d)' = f) /\ (d = 2 => Call(t, d)' = g)
  BY SMTT(30), <1>2, <1>6 DEF Depth, Call
<1>8. QuietLocks(t)
  BY Zenon, <1>0, <1>1, <1>2 DEF QuietLocks, Types
<1>9. Types'
  BY Zenon, <1>2, <1>6, <1>8, QuietFootprint
<1>10. Kept(t, 0) /\ NotMarked(t, 0)
  BY <1>6, <1>7 DEF Kept, NotMarked
<1>11. Ordered'
  <2> SUFFICES ASSUME NEW u \in Threads, NEW d \in 1 .. Depth(u)', NEW e \in 1 .. Depth(u)', d < e
               PROVE  /\ IsAccess(u, d)' /\ IsAccess(u, e)' => LevelOf(u, d)' < LevelOf(u, e)'
                      /\ IsAccess(u, d)' /\ IsInv(u, e)' /\ ~Waits(u, d)' => LevelOf(u, e)' < LevelOf(u, d)'
                      /\ IsInv(u, d)' => IsInv(u, e)' /\ LevelOf(u, e)' < LevelOf(u, d)'
    BY ZenonT(30) DEF Ordered
  <2>1. CASE u # t
    <3>1. Depth(u)' = Depth(u) /\ \A k : Call(u, k)' = Call(u, k)
      BY Zenon, <2>1, <1>6 DEF Elsewhere, Depth, Call
    <3>2. Waits(u, d)' = Waits(u, d) /\ IsAccess(u, d)' = IsAccess(u, d) /\ IsInv(u, d)' = IsInv(u, d)
          /\ IsAccess(u, e)' = IsAccess(u, e) /\ IsInv(u, e)' = IsInv(u, e)
          /\ LevelOf(u, d)' = LevelOf(u, d) /\ LevelOf(u, e)' = LevelOf(u, e)
      BY SMTT(30), <3>1, <1>2 DEF Waits, IsAccess, IsInv, LevelOf
    <3> QED
      BY ZenonT(30), <3>1, <3>2, <1>0 DEF Ordered
  <2>2. CASE u = t
    <3>1. d = 1
      BY <2>2, <1>7
    <3>2. Call(t, d)' = f
      BY Zenon, <3>1, <1>7
    <3> QED
      BY Zenon, <2>2, <3>2, <1>4 DEF IsAccess, IsInv
  <2> QED
    BY Zenon, <2>1, <2>2
<1>12. ASSUME NEW d, d = 1 PROVE CallOK(t, d)'
  BY Zenon, <1>4, <1>7, <1>12 DEF CallOK, LocksOK, HoldsBcc, HoldsTcc, IsAccess, IsInv, ShapeOK, KnowsOK
<1>13. ASSUME NEW d, d = 2 PROVE CallOK(t, d)'
  <2>1. Call(t, d)' = g
    BY Zenon, <1>7, <1>13
  <2>2. LocksOK(t, d)'
    BY ZenonT(30), <2>1, <1>1, <1>2, <1>3 DEF LocksOK, HoldsBcc, HoldsTcc, IsAccess, IsInv, Terminal
  <2>3. ShapeOK(t, d)'
    <3>1. d # 1 /\ ~(d > 2)
      BY <1>13
    <3> QED
      BY Zenon, <2>1, <3>1, <1>1, <1>2, <1>3 DEF ShapeOK
  <2>4. KnowsOK(t, d)'
    BY SMTT(30), <2>1, <1>3, <1>13 DEF KnowsOK, OwnAccess
  <2> QED
    BY Zenon, <2>2, <2>3, <2>4 DEF CallOK
<1>14. \A d \in 1 .. Depth(t)' : d > 0 => CallOK(t, d)'
  BY SMTT(30), <1>7, <1>12, <1>13
<1> QED
  BY SMTT(30), <1>2, <1>6, <1>8, <1>10, <1>11, <1>14, QuietStep

(* Steps that change nothing the invariant is about. *)
LEMMA NothingStep ==
    ASSUME CoherenceInv, UNCHANGED <<hier, array, bcc, tcc, bccLock, tccLock, filterLock, stack>>
    PROVE  CoherenceInv'
<1>0. Types /\ Distinct /\ CallsOK /\ Ordered /\ SlotsOK /\ Directory
  BY Zenon DEF CoherenceInv
<1>1. Caches' = Caches /\ Entries' = Entries /\ (\A c : Slot(c)' = Slot(c)) /\ (\A c, a : Parent(c, a)' = Parent(c, a))
  BY Zenon DEF Caches, Entries, Slot, Parent
<1>2. Frame' = Frame
  BY Zenon, <1>1 DEF Frame, AccessFrame, InvFrame, ReplaceFrame
<1>3. \A t, d : Depth(t)' = Depth(t) /\ Call(t, d)' = Call(t, d)
  BY Zenon DEF Depth, Call
<1>4. \A t, d : Waits(t, d)' = Waits(t, d)
  BY <1>3 DEF Waits, IsAccess
<1>5. Types'
  BY Zenon, <1>0, <1>1, <1>2 DEF Types
<1>6. Distinct'
  BY Zenon, <1>0, <1>1 DEF Distinct
<1>7. SlotsOK'
  BY <1>0, <1>1 DEF SlotsOK, isExclusive, Asked
<1>8. CallsOK'
  <2>1. ASSUME NEW t \in Threads, NEW d \in 1 .. Depth(t) PROVE CallOK(t, d)'
    <3>1. CallOK(t, d) /\ Depth(t) \in Nat
      BY Zenon, <1>0, CallTypes DEF CallsOK
    <3> QED
      BY <3>1, <1>3, <1>4, UnchangedCall
  <2> QED
    BY Zenon, <2>1, <1>3 DEF CallsOK
<1>9. Ordered'
  BY <1>0, <1>3, <1>4 DEF Ordered, IsAccess, IsInv, LevelOf
<1>10. Directory'
  <2>1. \A c, a : StateOf(c, a)' = StateOf(c, a) /\ EntryOf(c, a)' = EntryOf(c, a)
    BY ZenonT(30), <1>1 DEF StateOf, EntryOf, lookup, Clear
  <2>2. \A p, c, a : Upgrading(p, c, a)' = Upgrading(p, c, a)
    BY <1>3, <1>4 DEF Upgrading, Upgrades
  <2>3. \A c, a, type : Unlocking(c, a, type)' = Unlocking(c, a, type)
    BY <1>3 DEF Unlocking, Unlocks
  <2>4. ASSUME NEW c \in Caches, NEW a \in Lines, Listed(c, a) PROVE Listed(c, a)'
    <3>1. PICK p : p = Parent(c, a) /\ p = Parent(c, a)'
      BY Zenon, <1>1
    <3> QED
      BY Zenon, <3>1, <2>1, <2>2, <2>3, <2>4 DEF Listed, isExclusive
  <2> QED
    BY Zenon, <2>4, <1>0, <1>1 DEF Directory
<1> QED
  BY Zenon, <1>5, <1>6, <1>7, <1>8, <1>9, <1>10 DEF CoherenceInv

----------------------------------------------------------------------------
(* An access changes the state or the tag of its line, and goes on or asks its parent. *)

(* The access goes on as h. *)
LEMMA LineStay ==
    ASSUME CoherenceInv, NEW t \in Threads, NEW top, top = Depth(t), NEW f, f = Top(t), NEW pc,
           AccessRuns(t, top, f, pc), pc \in {"evict", "insert", "process"},
           NEW b, NEW s, LineChange(f, b, s), bccLock' = bccLock,
           NEW h, SameAccess(h, f), Stay(t, h), OwnAccess(h, FALSE)', top > 2 => ChildOK(h)
    PROVE  CoherenceInv'
<1>0. Types
  BY Zenon DEF CoherenceInv
<1>1. /\ stack[t] # <<>> /\ top \in 1 .. Depth(t) /\ top \in Nat /\ top >= 2 /\ top - 1 \in Int
      /\ f = Call(t, top) /\ IsAccess(t, top) /\ f.op = "access" /\ f.c \in Caches /\ bccLock[f.c] = t
      /\ f.pc = pc /\ LocksOK(t, top)
  BY Zenon DEF AccessRuns
<1>2. h \in Frame /\ h.op = "access" /\ h.c = f.c
  BY Zenon DEF SameAccess, AccessFrame, Frame
<1>3. /\ Kept(t, top - 1) /\ stack' \in [Threads -> Seq(Frame)]
      /\ Depth(t)' = top /\ Call(t, top)' = h /\ ~Waits(t, top)'
      /\ top > 1 => Call(t, top - 1)' = Call(t, top - 1)
  BY Zenon, <1>1, <1>2, StayKeeps
<1>4. hier' = hier /\ tccLock' = tccLock
  BY Zenon DEF LineChange, Writes
<1>5. Types' /\ Distinct' /\ SlotsOK' /\ Directory' /\ Footprint(t, top - 1)
  <2>1. bccLock' \in [Caches -> Threads \cup {FREE}]
    BY Zenon, <1>0 DEF Types
  <2> QED
    BY Zenon, <2>1, <1>3, LineStep DEF LineChange
<1>6. Ordered'
  BY Zenon, <1>1, <1>2, <1>4, <1>5, StayOrdered
<1>7. \A c \in Caches : c # f.c => array'[c] = array[c] /\ bcc'[c] = bcc[c]
  <2>1. Written(f, b, s)
    BY Zenon, <1>0, <1>1, WriteEffect DEF LineChange, CoherenceInv
  <2> QED
    BY Zenon, <2>1 DEF Written
<1>8. ~Terminal(f.c) => tccLock[f.c] = t
  BY Zenon, <1>1 DEF LocksOK, HoldsTcc
<1>9. ShapeOK(t, top)'
  BY <1>1, <1>2, <1>3, <1>4, <1>7, AccessStays DEF SameAccess
<1>10. ASSUME top > 2 PROVE ChildOK(h)'
  <2>1. h.child \in Caches /\ h.child # f.c
    BY <1>10, <1>0, <1>1, CallerOf DEF SameAccess, CoherenceInv
  <2>2. bcc'[h.child] = bcc[h.child]
    BY Zenon, <2>1, <1>7
  <2> QED
    BY Zenon, <2>2, <1>10 DEF ChildOK
<1>11. \A d \in 1 .. Depth(t)' : d > top - 1 => CallOK(t, d)'
  <2>1. Waits(t, top)' = FALSE
    BY Zenon, <1>3 DEF Waits, IsAccess
  <2>2. CallOK(t, top)'
    BY Zenon, <2>1, <1>1, <1>2, <1>3, <1>4, <1>8, <1>9, <1>10, AccessAt
  <2> QED
    BY Zenon, <2>2, <1>1, <1>3, TopDepth
<1> QED
  BY Zenon, <1>1, <1>3, <1>5, <1>6, <1>11, StepKeeps

(* Access h asks its parent for line b, which it has in state s. *)
Asks(h, b, type, s) ==
    \/ h.pc = "insert" /\ ((type = PUTS /\ s \in {S, E}) \/ (type = PUTX /\ s = M))
    \/ /\ h.pc = (IF Terminal(h.c) THEN "end" ELSE "directory") /\ b = h.addr /\ type = h.type
       /\ (type = GETS /\ s = I) \/ (type = GETX /\ s \in {I, S})

CallsUp(t, h, b, s) ==
    /\ bccLock' = [bccLock EXCEPT ![h.c] = FREE] /\ Parent(h.c, b) # MEM
    /\ \E type \in {GETS, GETX, PUTS, PUTX}, noexcl \in BOOLEAN :
          Asks(h, b, type, s) /\ Push(t, h, Access(Parent(h.c, b), b, type, h.c, h.id, s, noexcl))

(* The access gives its lock away and asks the parent for line b. *)
LEMMA LinePush ==
    ASSUME CoherenceInv, NEW t \in Threads, NEW top, top = Depth(t), NEW f, f = Top(t), NEW pc,
           AccessRuns(t, top, f, pc), pc \in {"evict", "insert", "process"},
           NEW b \in Lines, NEW s, LineChange(f, b, s),
           NEW h, SameAccess(h, f), h.id = f.id, OwnAccess(h, TRUE)', top > 2 => ChildOK(h), CallsUp(t, h, b, s)
    PROVE  CoherenceInv'
<1>0. Types
  BY Zenon DEF CoherenceInv
<1>1. /\ stack[t] # <<>> /\ top \in 1 .. Depth(t) /\ top \in Nat /\ top >= 2 /\ top - 1 \in Int
      /\ f = Call(t, top) /\ IsAccess(t, top) /\ f.op = "access" /\ f.c \in Caches /\ bccLock[f.c] = t
      /\ f.pc = pc /\ LocksOK(t, top)
  BY Zenon DEF AccessRuns
<1>2. h \in Frame /\ h.op = "access" /\ h.c = f.c /\ h.addr = f.addr /\ h.id = f.id
  BY Zenon DEF SameAccess, AccessFrame, Frame
<1>3. PICK p, type, noexcl : /\ p = Parent(h.c, b) /\ p # MEM /\ type \in {GETS, GETX, PUTS, PUTX} /\ noexcl \in BOOLEAN
                             /\ Asks(h, b, type, s) /\ Push(t, h, Access(p, b, type, h.c, h.id, s, noexcl))
                             /\ bccLock' = [bccLock EXCEPT ![f.c] = FREE]
  BY Zenon, <1>2 DEF CallsUp
<1>4. /\ p \in Caches /\ ~Terminal(p) /\ hier.level[f.c] < hier.level[p]
      /\ h.id \in Slot(f.c) /\ h.id \in Nat /\ s \in MESIState
  <2>1. p \in Caches /\ ~Terminal(p) /\ hier.level[f.c] < hier.level[p]
    BY Zenon, <1>0, <1>1, <1>2, <1>3, Tree
  <2>2. h.id \in Slot(f.c) /\ s \in MESIState
    BY Zenon, <1>2 DEF LineChange
  <2>3. h.id \in Nat
    BY Zenon, <2>2, <1>0, <1>1, SlotNat
  <2> QED
    BY Zenon, <2>1, <2>2, <2>3
<1>5. PICK g : g = Access(p, b, type, h.c, h.id, s, noexcl)
  BY Zenon
<1>6. /\ g \in AccessFrame /\ g \in Frame /\ g.op = "access" /\ g.pc = "tcc" /\ g.c = p /\ g.addr = b /\ g.type = type
      /\ g.child = h.c /\ g.slot = h.id /\ g.init = s /\ g.id = 0 /\ g.wb = FALSE
  BY Zenon, <1>1, <1>2, <1>3, <1>4, <1>5 DEF Access, AccessFrame, Frame
<1>7. /\ Kept(t, top - 1) /\ stack' \in [Threads -> Seq(Frame)] /\ Pushes(t, h, g)
      /\ Depth(t)' = top + 1 /\ Call(t, top)' = h
      /\ top > 1 => Call(t, top - 1)' = Call(t, top - 1)
  <2>1. Push(t, h, g) /\ h.op = Top(t).op
    BY Zenon, <1>1, <1>2, <1>3, <1>5
  <2> QED
    BY ZenonT(30), <2>1, <1>1, <1>2, <1>6, PushKeeps
<1>8. PICK new : new = top + 1
  BY Zenon
<1>9. Call(t, new)' = g /\ new \in Nat /\ new > 2 /\ new - 1 = top
  <2>1. new \in 1 .. Depth(t) + 1 /\ new = Depth(t) + 1
    BY Zenon, <1>1, <1>8, NearDepth, SomeDepth
  <2>2. Call(t, new)' = g
    BY Zenon, <2>1, <1>7 DEF Pushes
  <2> QED
    BY <2>2, <1>1, <1>8
<1>10. hier' = hier /\ tccLock' = tccLock
  BY Zenon DEF LineChange, Writes
<1>11. Types' /\ Distinct' /\ SlotsOK' /\ Directory' /\ Footprint(t, top - 1)
  <2>1. bccLock' \in [Caches -> Threads \cup {FREE}] /\ \A c \in Caches : c # f.c => bccLock'[c] = bccLock[c]
    BY Zenon, <1>0, <1>3 DEF Types
  <2> QED
    BY ZenonT(30), <2>1, <1>7, LineStep DEF LineChange
<1>12. Ordered'
  <2>1. /\ Depth(t) >= 1 /\ h.op = Call(t, Depth(t)).op /\ h.c = Call(t, Depth(t)).c
        /\ hier.level[h.c] < hier.level[g.c]
    BY Zenon, <1>1, <1>2, <1>4, <1>6, SomeDepth
  <2> QED
    BY Zenon, <2>1, <1>2, <1>6, <1>7, <1>10, <1>11, OrderedPush
<1>13. /\ \A c \in Caches : c # f.c => array'[c] = array[c] /\ bcc'[c] = bcc[c]
       /\ array'[h.c][h.id] = b /\ bcc'[h.c][h.id] = s
  <2>1. /\ f.c \in Caches /\ f.id \in Slot(f.c) /\ b \in Lines \cup {NoLine} /\ Writes(f, b, s) /\ Tagged(f, b)
        /\ Distinct
    BY Zenon, <1>1 DEF LineChange, CoherenceInv
  <2>2. /\ \A c \in Caches : c # f.c => array'[c] = array[c] /\ bcc'[c] = bcc[c]
        /\ \A c \in Caches : \A i \in Slot(c) :
              /\ array'[c][i] = IF c = f.c /\ i = f.id THEN b ELSE array[c][i]
              /\ bcc'[c][i] = IF c = f.c /\ i = f.id THEN s ELSE bcc[c][i]
    <3>1. Written(f, b, s)
      BY Zenon, <2>1, <1>0, <1>4, WriteEffect
    <3> QED
      BY Zenon, <3>1 DEF Written
  <2>3. array'[f.c][f.id] = b /\ bcc'[f.c][f.id] = s
    BY Zenon, <2>1, <2>2
  <2> QED
    BY Zenon, <2>2, <2>3, <1>2
<1>14. Waits(t, top)' = TRUE /\ Waits(t, new)' = FALSE
  BY <1>2, <1>6, <1>7, <1>8, <1>9, <1>1 DEF Waits, IsAccess
<1>15. ~Terminal(f.c) => tccLock[f.c] = t
  BY Zenon, <1>1 DEF LocksOK, HoldsTcc
<1>16. ShapeOK(t, top)'
  <2>1. /\ h.child = f.child /\ h.slot = f.slot /\ h.init = f.init
        /\ h.type = f.type \/ (h.type \in {PUTS, PUTX} /\ f.type \in {PUTS, PUTX})
    BY Zenon DEF SameAccess
  <2>2. /\ h.c = Call(t, top).c /\ h.addr = Call(t, top).addr /\ h.child = Call(t, top).child
        /\ h.slot = Call(t, top).slot /\ h.init = Call(t, top).init
        /\ \/ h.type = Call(t, top).type
           \/ h.type \in {PUTS, PUTX} /\ Call(t, top).type \in {PUTS, PUTX}
        /\ \A c \in Caches : c # h.c => array'[c] = array[c]
    BY Zenon, <2>1, <1>1, <1>2, <1>13
  <2>3. /\ top \in 1 .. Depth(t) /\ IsAccess(t, top) /\ hier' = hier /\ h.op = "access"
        /\ Call(t, top)' = h
        /\ top > 1 => Call(t, top - 1)' = Call(t, top - 1)
    BY Zenon, <1>1, <1>2, <1>7, <1>10
  <2> QED
    BY ZenonT(30), <2>2, <2>3, AccessStays
<1>17. CallOK(t, top)'
  <2>1. ASSUME top > 2 PROVE ChildOK(h)'
    <3>1. h.child \in Caches /\ h.child # f.c
      BY <2>1, <1>0, <1>1, CallerOf DEF SameAccess, CoherenceInv
    <3>2. bcc'[h.child] = bcc[h.child]
      BY Zenon, <3>1, <1>13
    <3> QED
      BY Zenon, <3>2, <2>1 DEF ChildOK
  <2> QED
    BY Zenon, <2>1, <1>2, <1>7, <1>10, <1>14, <1>15, <1>16, AccessAt
<1>19. ShapeOK(t, new)'
  <2>1. g.child = h.c /\ g.slot = h.id /\ h.id \in Slot(h.c)
    BY Zenon, <1>2, <1>4, <1>6
  <2>2. g.c = Parent(h.c, g.addr) /\ array'[h.c][h.id] = g.addr
    BY Zenon, <1>3, <1>6, <1>13
  <2>3. \/ h.pc = "insert" /\ (g.type = PUTS \/ g.type = PUTX)
        \/ /\ h.pc = (IF Terminal(h.c) THEN "end" ELSE "directory") 
           /\ g.addr = h.addr /\ g.type = h.type /\ g.type \in {GETS, GETX}
    BY Zenon, <1>3, <1>6 DEF Asks
  <2>4. Called(g, h)'
    BY Zenon, <2>1, <2>2, <2>3, <1>2, <1>10 DEF Called, Slot, Parent, Terminal
  <2>5. Call(t, new - 1)' = h
    BY Zenon, <1>7, <1>9
  <2> QED
    <3>1. Called(Call(t, new), Call(t, new - 1))'
      BY Zenon, <2>4, <2>5, <1>9 DEF Called
    <3> QED
      BY Zenon, <3>1, <1>6, <1>9, SomeDepth DEF ShapeOK
<1>20. CallOK(t, new)'
  <2>1. OwnAccess(g, FALSE)'
    BY Zenon, <1>6 DEF OwnAccess
  <2>2. ChildOK(g)'
    BY Zenon, <1>3, <1>6, <1>13 DEF Asks, ChildOK, GETS, GETX, PUTS, PUTX, I, S, E, M
  <2>3. hier' = hier
    BY Zenon, <1>10
  <2> QED
    BY Zenon, <2>1, <2>2, <2>3, <1>6, <1>9, <1>14, <1>19, AccessAt
<1>21. \A d \in 1 .. Depth(t)' : d > top - 1 => CallOK(t, d)'
  <2>1. \A d \in 1 .. Depth(t)' : d > top - 1 => d = top \/ d = new
    BY Zenon, <1>1, <1>7, <1>8, PushDepth
  <2> QED
    BY Zenon, <2>1, <1>17, <1>20
<1> QED
  BY Zenon, <1>1, <1>7, <1>11, <1>12, <1>21, StepKeeps
(* What a call to a memory or to a parent needs of the cache. *)
LEMMA CallParentStep ==
    ASSUME CoherenceInv, NEW t \in Threads, NEW top, top = Depth(t), NEW f, f = Top(t), NEW pc,
           AccessRuns(t, top, f, pc), pc \in {"evict", "insert", "process"},
           NEW h, SameAccess(h, f), h.id = f.id, top > 2 => ChildOK(h),
           NEW b \in Lines, NEW type, NEW s \in MESIState, NEW noexcl \in BOOLEAN,
           callParent(t, h, b, type, s, noexcl), Asks(h, b, type, s),
           array' = [array EXCEPT ![f.c][f.id] = b] \/ (array' = array /\ b = array[f.c][f.id]),
           UNCHANGED <<hier, tcc, tccLock, filterLock>>,
           f.id \in Slot(f.c), Tagged(f, b), Asked(hier, f.c, b), Alike(bcc[f.c][f.id], s),
           tcc[f.c][f.id].sharers = {} \/ (s = bcc[f.c][f.id] /\ type = GETX),
           Parent(f.c, b) = MEM => OwnAccess(h, FALSE)', Parent(f.c, b) # MEM => OwnAccess(h, TRUE)'
    PROVE  CoherenceInv'
<1>1. h.c = f.c /\ b # NoLine /\ type \in {GETS, GETX, PUTS, PUTX}
  BY Zenon, NamesAssumption DEF SameAccess, Asks, AccessFrame
<1>2. CASE Parent(f.c, b) = MEM
  <2>1. PICK r : r = memAccess(type, noexcl)
    BY Zenon
  <2>2. bcc' = [bcc EXCEPT ![f.c][f.id] = r] /\ Stay(t, h) /\ bccLock' = bccLock
    BY Zenon, <2>1, <1>1, <1>2 DEF callParent
  <2>3. r \in MESIState /\ (type = GETX => r = M)
    BY Zenon, <2>1, <1>1 DEF memAccess, MESIState, GETS, GETX, PUTS, PUTX
  <2>4. LineChange(f, b, r)
    BY Zenon, <2>2, <2>3, <1>1, <1>2 DEF LineChange, Writes
  <2> QED
    BY Zenon, <2>2, <2>4, <1>2, LineStay
<1>3. CASE Parent(f.c, b) # MEM
  <2>1. /\ bcc' = [bcc EXCEPT ![f.c][f.id] = s] /\ bccLock' = [bccLock EXCEPT ![h.c] = FREE]
        /\ Push(t, h, Access(Parent(h.c, b), b, type, h.c, h.id, s, noexcl))
    BY Zenon, <1>1, <1>3 DEF callParent
  <2>2. LineChange(f, b, s)
    BY Zenon, <2>1, <1>1, <1>3 DEF LineChange, Writes
  <2>3. CallsUp(t, h, b, s)
    BY Zenon, <2>1, <1>1, <1>3 DEF CallsUp
  <2> QED
    BY Zenon, <2>2, <2>3, <1>3, LinePush
<1> QED
  BY Zenon, <1>2, <1>3

(* processEviction: once no child has the victim it leaves this cache, and *)
(* the parent, if it has one, is told.                                     *)
LEMMA ProcessEvictionStep ==
    ASSUME CoherenceInv, NEW t \in Threads, processEviction(t)
    PROVE  CoherenceInv'
<1>0. Types /\ SlotsOK
  BY Zenon DEF CoherenceInv
<1>1. PICK f, top : f = Top(t) /\ top = Depth(t)
  BY Zenon
<1>2. AccessRuns(t, top, f, "evict")
  BY Zenon, <1>1, RunsAccess DEF processEviction
<1>3. PICK h : h = [f EXCEPT !.pc = "insert", !.wb = FALSE]
  BY Zenon
<1>4. PICK s : s = IF f.wb THEN M ELSE bcc[f.c][f.id]
  BY Zenon
<1>5. /\ tcc[f.c][f.id].sharers = {} /\ UNCHANGED <<hier, array, tcc, tccLock, filterLock>>
      /\ IF s = I THEN Stay(t, h) /\ UNCHANGED <<bcc, bccLock, stale>>
         ELSE callParent(t, h, array[f.c][f.id], IF s = M THEN PUTX ELSE PUTS, s, FALSE)
  BY Zenon, <1>1, <1>3, <1>4 DEF processEviction
<1>6. /\ f \in AccessFrame /\ f.c \in Caches /\ f.pc = "evict" /\ OwnAccess(f, FALSE) /\ f.id \in Slot(f.c)
      /\ f.type \in {GETS, GETX} /\ \A i \in Slot(f.c) : array[f.c][i] # f.addr
  BY Zenon, <1>2 DEF AccessRuns, OwnAccess
<1>7. /\ h \in AccessFrame /\ SameAccess(h, f) /\ h.id = f.id /\ h.pc = "insert" /\ h.wb = FALSE
      /\ h.type = f.type /\ h.c = f.c /\ h.addr = f.addr
  BY Zenon, <1>3, <1>6 DEF SameAccess, AccessFrame
<1>8. top > 2 => ChildOK(h)
  <2>1. top > 2 => ChildOK(f)
    BY Zenon, <1>2 DEF AccessRuns
  <2> QED
    BY Zenon, <2>1, <1>6, <1>7 DEF ChildOK, SameAccess, GETS, GETX, PUTS, PUTX
<1>9. /\ s \in MESIState /\ bcc[f.c][f.id] \in MESIState /\ array[f.c][f.id] \in Lines \cup {NoLine}
      /\ Alike(bcc[f.c][f.id], s)
  <2>1. f.wb => bcc[f.c][f.id] \in {E, M}
    BY Zenon, <1>6 DEF OwnAccess
  <2>2. bcc[f.c][f.id] \in MESIState /\ array[f.c][f.id] \in Lines \cup {NoLine}
    BY Zenon, <1>0, <1>6 DEF Types
  <2> QED
    BY Zenon, <2>1, <2>2, <1>4 DEF Alike, MESIState
<1>10. /\ array[f.c][f.id] # NoLine => Asked(hier, f.c, array[f.c][f.id])
       /\ array[f.c][f.id] = NoLine => bcc[f.c][f.id] = I
  BY Zenon, <1>0, <1>6 DEF SlotsOK
<1>11. ASSUME NEW w \in BOOLEAN, ~w => bcc'[f.c][f.id] = I PROVE OwnAccess(h, w)'
  BY Zenon, <1>5, <1>6, <1>7, <1>11 DEF OwnAccess, Slot
<1>12. CASE s = I
  <2>1. Stay(t, h) /\ UNCHANGED <<bcc, bccLock>>
    BY Zenon, <1>5, <1>12
  <2>2. bcc[f.c][f.id] = I
    BY Zenon, <1>9, <1>12 DEF Alike, I, E, M
  <2>3. OwnAccess(h, FALSE)'
    BY Zenon, <2>1, <2>2, <1>11
  <2>4. PICK b : b = array[f.c][f.id]
    BY Zenon
  <2>5. LineChange(f, b, s)
    BY ZenonT(30), <2>1, <2>2, <2>4, <1>5, <1>6, <1>9, <1>10, <1>12 DEF LineChange, Writes, Tagged
  <2> QED
    BY Zenon, <2>1, <2>3, <2>5, <1>1, <1>2, <1>7, <1>8, LineStay
<1>13. CASE s # I
  <2>1. PICK b, type : b = array[f.c][f.id] /\ type = IF s = M THEN PUTX ELSE PUTS
    BY Zenon
  <2>2. callParent(t, h, b, type, s, FALSE)
    BY Zenon, <2>1, <1>5, <1>13
  <2>3. bcc[f.c][f.id] # I
    BY Zenon, <1>9, <1>13 DEF Alike, I, E, M
  <2>4. b \in Lines /\ Asked(hier, f.c, b)
    BY Zenon, <2>1, <2>3, <1>9, <1>10
  <2>5. Parent(f.c, b) = MEM => OwnAccess(h, FALSE)'
    <3>1. Parent(f.c, b) = MEM => bcc' = [bcc EXCEPT ![f.c][f.id] = I]
      BY Zenon, <2>1, <2>2, <1>7 DEF callParent, memAccess, PUTS, PUTX, GETS, GETX
    <3>2. Parent(f.c, b) = MEM => bcc'[f.c][f.id] = I
      BY Zenon, <3>1, <1>0, <1>6 DEF Types
    <3> QED
      BY Zenon, <3>2, <1>11
  <2>6. OwnAccess(h, TRUE)'
    BY Zenon, <1>11
  <2>7. Asks(h, b, type, s)
    BY Zenon, <2>1, <1>7, <1>9, <1>13 DEF Asks, MESIState
  <2>8. Tagged(f, b)
    BY Zenon, <2>1 DEF Tagged
  <2> QED
    BY ZenonT(30), <2>1, <2>2, <2>4, <2>5, <2>6, <2>7, <2>8, <1>1, <1>2, <1>5, <1>6, <1>7, <1>8, <1>9, CallParentStep
<1> QED
  BY Zenon, <1>12, <1>13

(* A cache is only asked for lines of its children or of its core. *)
LEMMA AskedLine ==
    ASSUME CoherenceInv, NEW t \in Threads, NEW top, top = Depth(t), NEW f, NEW pc, AccessRuns(t, top, f, pc)
    PROVE  /\ Asked(hier, f.c, f.addr)
           /\ top = 2 <=> f.child = CORE
           /\ Terminal(f.c) => top = 2
           /\ top = 2 => f.type \in {GETS, GETX}
           /\ top > 2 => f.child \in Caches /\ f.slot \in Slot(f.child) /\ f.child # f.c
                         /\ f.c = Parent(f.child, f.addr) /\ array[f.child][f.slot] = f.addr
<1>1. /\ Types /\ CallsOK /\ f = Call(t, top) /\ top \in 1 .. Depth(t) /\ top \in Nat /\ top >= 2 /\ f.op = "access"
      /\ IsAccess(t, top) /\ ShapeOK(t, top) /\ f.addr \in Lines
  BY Zenon DEF AccessRuns, CoherenceInv
<1>2. CASE top = 2
  <2>1. f.child = CORE /\ f.c \in hier.core[t] /\ f.type \in {GETS, GETX}
    BY Zenon, <1>1, <1>2 DEF ShapeOK
  <2>2. f.c \in hier.l1s
    BY Zenon, <2>1, <1>1, Tree
  <2> QED
    BY <2>1, <2>2, <1>2 DEF Asked
<1>3. CASE top > 2
  <2>1. /\ f.child \in Caches /\ f.slot \in Slot(f.child) /\ f.child # f.c
        /\ f.c = Parent(f.child, f.addr) /\ array[f.child][f.slot] = f.addr
    BY Zenon, <1>1, <1>3, CallerOf
  <2>2. ~Terminal(f.c) /\ CORE \notin Caches
    BY Zenon, <2>1, <1>1, Tree
  <2>3. Asked(hier, f.c, f.addr)
    BY Zenon, <2>1 DEF Asked, Parent, Caches
  <2> QED
    BY Zenon, <2>1, <2>2, <2>3, <1>3, <1>1, NearDepth
<1> QED
  BY Zenon, <1>1, <1>2, <1>3, SomeDepth

(* postinsert and MESIBottomCC::processAccess: the line enters its slot    *)
(* and the cache gets the permission it lacks.                             *)
LEMMA ProcessAccessStep ==
    ASSUME CoherenceInv, NEW t \in Threads, processAccess(t)
    PROVE  CoherenceInv'
<1>0. Types /\ SlotsOK
  BY Zenon DEF CoherenceInv
<1>1. PICK f, top, pc : /\ f = Top(t) /\ top = Depth(t) /\ pc \in {"insert", "process"} /\ Busy(t, "access", pc)
  BY Zenon DEF processAccess
<1>2. AccessRuns(t, top, f, pc)
  BY Zenon, <1>1, RunsAccess
<1>3. PICK h : h = [f EXCEPT !.pc = IF Terminal(f.c) THEN "end" ELSE "directory"]
  BY Zenon
<1>4. PICK state : state = bcc[f.c][f.id]
  BY Zenon
<1> DEFINE miss == (f.type = GETS /\ state = I) \/ (f.type = GETX /\ state \in {I, S})
<1>5. /\ array' = [array EXCEPT ![f.c][f.id] = f.addr] /\ UNCHANGED <<hier, tcc, tccLock, filterLock>>
      /\ miss => callParent(t, h, f.addr, f.type, state, f.noexcl)
      /\ ~miss => /\ bcc' = IF f.type \in {GETX, PUTX} /\ state = E
                            THEN [bcc EXCEPT ![f.c][f.id] = M] ELSE bcc
                  /\ Stay(t, h) /\ bccLock' = bccLock
  BY Zenon, <1>1, <1>3, <1>4 DEF processAccess
<1>6. /\ f \in AccessFrame /\ f.c \in Caches /\ f.addr \in Lines /\ f.pc = pc /\ f.id \in Slot(f.c) /\ ~f.wb
      /\ pc = "insert" => /\ f.type \in {GETS, GETX} /\ state = I /\ tcc[f.c][f.id].sharers = {}
                          /\ \A i \in Slot(f.c) : array[f.c][i] # f.addr
      /\ pc = "process" => array[f.c][f.id] = f.addr
  BY Zenon, <1>1, <1>2, <1>4 DEF AccessRuns, OwnAccess
<1>7. /\ Asked(hier, f.c, f.addr) /\ (top = 2 <=> f.child = CORE) /\ (Terminal(f.c) => top = 2)
      /\ top = 2 => f.type \in {GETS, GETX}
  BY Zenon, <1>1, <1>2, AskedLine
<1>8. /\ h \in AccessFrame /\ SameAccess(h, f) /\ h.id = f.id /\ ~h.wb /\ h.type = f.type /\ h.c = f.c
      /\ h.addr = f.addr /\ h.child = f.child /\ h.pc = (IF Terminal(h.c) THEN "end" ELSE "directory")
  BY Zenon, <1>3, <1>6 DEF SameAccess, AccessFrame
<1>9. top > 2 => ChildOK(h)
  <2>1. top > 2 => ChildOK(f)
    BY Zenon, <1>2 DEF AccessRuns
  <2>2. top > 2 => h.pc = "directory"
    BY Zenon, <1>7, <1>8, NearDepth
  <2> QED
    BY Zenon, <2>1, <2>2, <1>1, <1>6, <1>8 DEF ChildOK, SameAccess, GETS, GETX, PUTS, PUTX
<1>10. state \in MESIState /\ Tagged(f, f.addr) /\ (state = I => tcc[f.c][f.id].sharers = {})
  <2>1. state \in MESIState
    BY Zenon, <1>0, <1>4, <1>6 DEF Types
  <2>2. Tagged(f, f.addr)
    BY Zenon, <1>1, <1>4, <1>6 DEF Tagged
  <2>3. state = I => tcc[f.c][f.id].sharers = {}
    BY Zenon, <1>0, <1>4, <1>6 DEF SlotsOK
  <2> QED
    BY Zenon, <2>1, <2>2, <2>3
<1>11. ASSUME NEW w \in BOOLEAN,
              ~w => /\ f.type = GETS => bcc'[f.c][f.id] # I
                    /\ f.type = GETX => bcc'[f.c][f.id] = M
       PROVE  OwnAccess(h, w)'
  <2>1. array'[f.c][f.id] = f.addr
    BY Zenon, <1>0, <1>5, <1>6 DEF Types
  <2>2. f.id # 0
    BY <1>0, <1>6, Tree DEF Slot
  <2>3. ~w /\ f.child = CORE => bcc'[f.c][f.id] # I
    BY Zenon, <1>7, <1>11 DEF I, M
  <2>4. h.id \in Slot(h.c)' /\ (Terminal(h.c)' <=> Terminal(h.c))
    BY ZenonT(30), <1>5, <1>6, <1>8 DEF Slot, Terminal
  <2> QED
    BY Zenon, <2>1, <2>2, <2>3, <2>4, <1>8, <1>11 DEF OwnAccess
<1>12. CASE miss
  <2>1. callParent(t, h, f.addr, f.type, state, f.noexcl) /\ f.noexcl \in BOOLEAN
    BY Zenon, <1>5, <1>6, <1>12 DEF AccessFrame
  <2>2. Asks(h, f.addr, f.type, state)
    BY Zenon, <1>8, <1>12 DEF Asks
  <2>3. tcc[f.c][f.id].sharers = {} \/ (state = bcc[f.c][f.id] /\ f.type = GETX)
    BY Zenon, <1>4, <1>10, <1>12
  <2>4. OwnAccess(h, TRUE)'
    BY Zenon, <1>11
  <2>5. Parent(f.c, f.addr) = MEM => OwnAccess(h, FALSE)'
    <3>1. Parent(f.c, f.addr) = MEM => bcc' = [bcc EXCEPT ![f.c][f.id] = memAccess(f.type, f.noexcl)]
      BY Zenon, <2>1, <1>8 DEF callParent
    <3>2. Parent(f.c, f.addr) = MEM => bcc'[f.c][f.id] = memAccess(f.type, f.noexcl)
      BY Zenon, <3>1, <1>0, <1>6 DEF Types
    <3>3. /\ f.type = GETS => memAccess(f.type, f.noexcl) # I
          /\ f.type = GETX => memAccess(f.type, f.noexcl) = M
      BY Zenon DEF memAccess, GETS, GETX, PUTS, PUTX, I, S, E, M
    <3> QED
      BY Zenon, <3>2, <3>3, <1>11
  <2>6. Alike(bcc[f.c][f.id], state) /\ Tagged(f, f.addr)
    BY Zenon, <1>4, <1>10 DEF Alike
  <2> HIDE DEF miss
  <2> QED
    BY ZenonT(30), <2>1, <2>2, <2>3, <2>4, <2>5, <2>6, <1>1, <1>2, <1>5, <1>6, <1>7, <1>8, <1>9, <1>10, CallParentStep
<1>13. CASE ~miss
  <2>1. PICK s : s = IF f.type \in {GETX, PUTX} /\ state = E THEN M ELSE state
    BY Zenon
  <2>2. /\ bcc' = [bcc EXCEPT ![f.c][f.id] = s] \/ (bcc' = bcc /\ s = bcc[f.c][f.id])
        /\ Stay(t, h) /\ bccLock' = bccLock
    BY Zenon, <2>1, <1>4, <1>5, <1>13
  <2>3. s \in MESIState /\ Alike(bcc[f.c][f.id], s) /\ (s \in {E, M} \/ s = bcc[f.c][f.id])
    BY Zenon, <2>1, <1>4, <1>10 DEF Alike, MESIState
  <2>4. bcc'[f.c][f.id] = s
    BY Zenon, <2>2, <1>0, <1>6 DEF Types
  <2>5. OwnAccess(h, FALSE)'
    <3>1. (f.type = GETS => s # I) /\ (f.type = GETX => s = M)
      BY Zenon, <2>1, <1>10, <1>13 DEF MESIState, GETS, GETX, PUTS, PUTX, I, S, E, M
    <3> QED
      BY Zenon, <3>1, <2>4, <1>11
  <2>6. LineChange(f, f.addr, s)
    BY Zenon, <2>2, <2>3, <1>5, <1>6, <1>7, <1>10, NamesAssumption DEF LineChange, Writes
  <2> QED
    BY Zenon, <2>2, <2>5, <2>6, <1>1, <1>2, <1>8, <1>9, LineStay
<1> QED
  BY Zenon, <1>12, <1>13

----------------------------------------------------------------------------
(* A cache changes what it has about its children. *)

(* The directory entry of slot i of cache p becomes e. *)
SetsEntry(p, i, e) == tcc' = [tcc EXCEPT ![p][i] = e]
(* Then entry i of p is e, and nothing else of the directories changes. *)
EntryBecomes(p, i, e) ==
    /\ DOMAIN tcc' = Caches /\ \A c \in Caches : tcc'[c] \in [Slot(c) -> Entries]
    /\ \A c \in Caches : \A j \in Slot(c) : tcc'[c][j] = IF c = p /\ j = i THEN e ELSE tcc[c][j]
    /\ \A c \in Caches, a \in Lines : c # p \/ a # array[p][i] => SameEntry(c, a)
    /\ \A a \in Lines : a = array[p][i] => EntryOf(p, a) = tcc[p][i] /\ EntryOf(p, a)' = e
    /\ Distinct'

(* What writing one directory entry changes. *)
LEMMA EntryViews ==
    ASSUME Types, Distinct, NEW p \in Caches, NEW i \in Slot(p), NEW e \in Entries,
           SetsEntry(p, i, e), hier' = hier, array' = array
    PROVE  EntryBecomes(p, i, e)
<1>1. DOMAIN tcc = Caches /\ \A c \in Caches : tcc[c] \in [Slot(c) -> Entries]
  BY Zenon DEF Types
<1>2. DOMAIN tcc' = Caches /\ \A c \in Caches : tcc'[c] \in [Slot(c) -> Entries]
  BY Zenon, <1>1 DEF SetsEntry
<1>3. \A c \in Caches : \A j \in Slot(c) : tcc'[c][j] = IF c = p /\ j = i THEN e ELSE tcc[c][j]
  BY Zenon, <1>1 DEF SetsEntry
<1>4. \A c, a : lookup(c, a)' = lookup(c, a)
  BY Zenon DEF lookup, Slot
<1>5. ASSUME NEW c \in Caches, NEW a \in Lines, c # p \/ a # array[p][i] PROVE SameEntry(c, a)
  <2>1. CASE \E j \in Slot(c) : array[c][j] = a
    <3>1. PICK j \in Slot(c) : array[c][j] = a
      BY Zenon, <2>1
    <3>2. lookup(c, a) = j /\ ~(c = p /\ j = i)
      BY Zenon, <3>1, <1>5, StateIs
    <3>3. EntryOf(c, a)' = EntryOf(c, a)
      BY Zenon, <3>2, <1>3, <1>4 DEF EntryOf
    <3> QED
      BY Zenon, <3>3 DEF SameEntry, isExclusive
  <2>2. CASE ~\E j \in Slot(c) : array[c][j] = a
    <3>1. lookup(c, a) = 0
      BY Zenon, <2>2, StateIs
    <3>2. EntryOf(c, a)' = EntryOf(c, a)
      BY Zenon, <3>1, <1>4 DEF EntryOf, Clear
    <3> QED
      BY Zenon, <3>2 DEF SameEntry, isExclusive
  <2> QED
    BY Zenon, <2>1, <2>2
<1>6. ASSUME NEW a \in Lines, a = array[p][i] PROVE EntryOf(p, a) = tcc[p][i] /\ EntryOf(p, a)' = e
  <2>1. lookup(p, a) = i /\ EntryOf(p, a) = tcc[p][i]
    BY Zenon, <1>6, StateIs
  <2>2. i # 0
    BY Tree DEF Slot
  <2> QED
    BY Zenon, <2>1, <2>2, <1>3, <1>4 DEF EntryOf
<1>7. Distinct'
  BY Zenon DEF Distinct, Caches, Slot
<1> QED
  BY Zenon, <1>2, <1>3, <1>5, <1>6, <1>7 DEF EntryBecomes

(* The state of slot i of cache c changes. *)
LEMMA StateViews ==
    ASSUME Types, Distinct, UNCHANGED <<hier, array>>, NEW c \in Caches, NEW i \in Slot(c),
           \A j \in Slot(c) : j # i => bcc'[c][j] = bcc[c][j], NEW a \in Lines
    PROVE  /\ a # array[c][i] => StateOf(c, a)' = StateOf(c, a)
           /\ a = array[c][i] => StateOf(c, a) = bcc[c][i] /\ StateOf(c, a)' = bcc'[c][i]
<1>1. lookup(c, a)' = lookup(c, a)
  BY Zenon DEF lookup, Slot
<1>2. CASE \E j \in Slot(c) : array[c][j] = a
  <2>1. PICK j \in Slot(c) : array[c][j] = a
    BY Zenon, <1>2
  <2>2. lookup(c, a) = j /\ j # 0 /\ (a = array[c][i] => j = i)
    BY <2>1, StateIs, Tree DEF Slot
  <2> QED
    BY Zenon, <2>1, <2>2, <1>1 DEF StateOf
<1>3. CASE ~\E j \in Slot(c) : array[c][j] = a
  BY Zenon, <1>1, <1>3, StateIs DEF StateOf
<1> QED
  BY Zenon, <1>2, <1>3

(* The state of every line of a cache whose array does not change. *)
LEMMA StateSame ==
    ASSUME UNCHANGED <<hier, array>>, NEW c, bcc'[c] = bcc[c], NEW a
    PROVE  StateOf(c, a)' = StateOf(c, a)
  BY DEF StateOf, lookup, Slot

(* Only the children of p and line a see a change. *)
Quiet(t, n, p, c, a) ==
    /\ Alike(StateOf(c, a), StateOf(c, a)') /\ SameEntry(p, a)
    /\ UpgradeKept(t, n, p, c, a) /\ UnlockKept(t, n, c, a, INV) /\ UnlockKept(t, n, c, a, INVX)
(* The directories stay exact if each entry is left alone or is exact *)
(* afterwards.                                                        *)
LEMMA DirectoryKeeps ==
    ASSUME CoherenceInv, NEW t \in Threads, NEW n \in Int, Kept(t, n), Footprint(t, n), Types', hier' = hier,
           \A p, c \in Caches, a \in Lines : p = Parent(c, a) => Quiet(t, n, p, c, a) \/ Listed(c, a)'
    PROVE  Directory'
<1>1. ASSUME NEW c \in Caches, NEW a \in Lines, Parent(c, a) # MEM PROVE Listed(c, a)'
  <2>1. Listed(c, a)
    BY Zenon, <1>1 DEF CoherenceInv, Directory
  <2>2. PICK p \in Caches : p = Parent(c, a)
    BY Zenon, <1>1, Tree DEF CoherenceInv
  <2>3. CASE Quiet(t, n, p, c, a)
    BY Zenon, <2>1, <2>2, <2>3, ListedKeeps DEF Quiet
  <2> QED
    BY Zenon, <2>2, <2>3, <1>1
<1> QED
  BY Zenon, <1>1 DEF Directory, Caches, Parent

(* The slots stay consistent if each is left alone or is consistent *)
(* afterwards.                                                      *)
LEMMA SlotsKeep ==
    ASSUME SlotsOK, UNCHANGED <<hier, array>>,
           \A c \in Caches : \A i \in Slot(c) :
              \/ bcc'[c][i] = bcc[c][i] /\ tcc'[c][i] = tcc[c][i]
              \/ SlotFine(c, array[c][i], bcc'[c][i], tcc'[c][i])
    PROVE  SlotsOK'
<1>1. ASSUME NEW c \in Caches, NEW i \in Slot(c) PROVE SlotFine(c, array'[c][i], bcc'[c][i], tcc'[c][i])
  <2>1. SlotFine(c, array[c][i], bcc[c][i], tcc[c][i])
    BY Zenon, SlotIs
  <2>2. CASE bcc'[c][i] = bcc[c][i] /\ tcc'[c][i] = tcc[c][i]
    BY ZenonT(30), <2>1, <2>2
  <2> QED
    BY Zenon, <2>2
<1> QED
  BY Zenon, <1>1, SlotsNext

(* What an access that holds its cache may take from its directory entry. *)
LEMMA TopSays ==
    ASSUME CoherenceInv, NEW t \in Threads, NEW top, top = Depth(t), NEW f, f = Top(t), NEW pc,
           AccessRuns(t, top, f, pc), pc \notin {"tcc", "bcc"},
           NEW p \in Caches, p = f.c, NEW i \in Slot(p), NEW a \in Lines, array[p][i] = a,
           NEW c \in Caches, Parent(c, a) = p
    PROVE  Says(f, tcc[p][i], StateOf(c, a), c, a)
<1>1. top \in 1 .. Depth(t) /\ HoldsBcc(t, top) /\ Call(t, top) = f /\ ~(top < Depth(t))
  BY Zenon, NearDepth DEF AccessRuns
<1>2. Call(t, top).c = p
  BY Zenon, <1>1
<1>3. Says(Call(t, top), tcc[p][i], StateOf(c, a), c, a)
  BY Zenon, <1>1, <1>2, DirectorySays
<1> QED
  BY Zenon, <1>1, <1>3

(* The entry of a GETX without the child that upgrades. *)
Lone(e) == e.exclusive => \A x, y \in e.sharers : x = y
Without(e, child) == [e EXCEPT !.sharers = @ \ {child}]
Unshared(e, old, child) ==
    /\ e \in Entries /\ e.sharers = old.sharers \ {child} /\ e.exclusive = old.exclusive
    /\ child \in old.sharers => ~old.exclusive /\ ~isExclusive(old) /\ ~isExclusive(e)
    /\ child \notin old.sharers => e = old

(* The entry an upgrade leaves while it invalidates the others. *)
LEMMA OthersEntry ==
    ASSUME NEW old \in Entries, NEW child, \E k \in old.sharers : k # child,
           Lone(old), NEW e, e = Without(old, child)
    PROVE  Unshared(e, old, child)
<1>1. e \in Entries /\ e.sharers = old.sharers \ {child} /\ e.exclusive = old.exclusive
  BY Zenon DEF Entries, Without
<1>2. /\ child \in old.sharers => ~old.exclusive /\ ~isExclusive(old) /\ ~isExclusive(e)
      /\ child \notin old.sharers => e = old
  BY <1>1 DEF isExclusive, Lone, Entries
<1> QED
  BY Zenon, <1>1, <1>2 DEF Unshared

(* The state of a line is a MESI state. *)
LEMMA StateType ==
    ASSUME Types, Distinct, NEW c \in Caches, NEW a \in Lines
    PROVE  StateOf(c, a) \in MESIState
<1>1. CASE \E i \in Slot(c) : array[c][i] = a
  <2>1. PICK i \in Slot(c) : array[c][i] = a
    BY Zenon, <1>1
  <2>2. StateOf(c, a) = bcc[c][i] /\ bcc[c][i] \in MESIState
    BY Zenon, <2>1, StateIs DEF Types
  <2> QED
    BY Zenon, <2>2
<1>2. CASE \A i \in Slot(c) : array[c][i] # a
  BY ZenonT(30), <1>2, StateIs DEF MESIState
<1> QED
  BY Zenon, <1>1, <1>2

(* A GETX tells another child to invalidate its copy, after taking the     *)
(* child that upgrades off the list.                                       *)
LEMMA UpgradeStep ==
    ASSUME CoherenceInv, NEW t \in Threads, NEW top, top = Depth(t), NEW f, f = Top(t),
           AccessRuns(t, top, f, "directory"), f.type = GETX,
           NEW p, NEW i, NEW b, p = f.c, i = f.id, b = f.addr,
           NEW k \in tcc[p][i].sharers, k # f.child, NEW e, e = Without(tcc[p][i], f.child),
           SetsEntry(p, i, e), Push(t, f, Invalidate(k, b, INV)),
           hier' = hier, array' = array, bcc' = bcc, bccLock' = bccLock, tccLock' = tccLock, filterLock' = filterLock
    PROVE  CoherenceInv'
<1>0. Types /\ Distinct /\ SlotsOK /\ CallsOK
  BY Zenon DEF CoherenceInv
<1>1. /\ stack[t] # <<>> /\ top \in 1 .. Depth(t) /\ top \in Nat /\ top >= 2 /\ top - 1 \in Int
      /\ f = Call(t, top) /\ IsAccess(t, top) /\ ~Waits(t, top) /\ f.op = "access" /\ f.pc = "directory"
      /\ f \in Frame /\ p \in Caches /\ b \in Lines /\ Holder(t, p) /\ bccLock[p] = t
      /\ OwnAccess(f, FALSE) /\ LocksOK(t, top) /\ HoldsBcc(t, top)
      /\ top > 2 => ChildOK(f)
  BY Zenon DEF AccessRuns, Frame
<1>2. p \in Caches /\ i \in Slot(p) /\ b \in Lines /\ array[p][i] = b /\ ~Terminal(p) /\ bcc[p][i] = M
  BY Zenon, <1>1 DEF OwnAccess
<1>3. PICK old : old = tcc[p][i]
  BY Zenon
<1>3a. SlotFine(p, b, bcc[p][i], old)
  BY ZenonT(30), <1>0, <1>2, <1>3, SlotIs
<1>4. k \in old.sharers /\ k # f.child /\ k \in e.sharers /\ old \in Entries
  BY ZenonT(30), <1>0, <1>1, <1>2, <1>3 DEF Types, Entries, Without
<1>5. /\ e \in Entries /\ e.sharers = old.sharers \ {f.child} /\ e.exclusive = old.exclusive
      /\ f.child \in old.sharers => ~old.exclusive /\ ~isExclusive(old) /\ ~isExclusive(e)
      /\ f.child \notin old.sharers => e = old
  <2>1. Lone(old)
    BY Zenon, <1>3a DEF SlotFine, Lone
  <2> QED
    <3>1. Unshared(e, old, f.child)
      BY Zenon, <2>1, <1>3, <1>4, OthersEntry
    <3> QED
      BY Zenon, <3>1 DEF Unshared
<1>6. /\ DOMAIN tcc' = Caches /\ \A c \in Caches : tcc'[c] \in [Slot(c) -> Entries]
      /\ \A c \in Caches : \A j \in Slot(c) : tcc'[c][j] = IF c = p /\ j = i THEN e ELSE tcc[c][j]
      /\ \A c \in Caches, a \in Lines : c # p \/ a # b => SameEntry(c, a)
      /\ EntryOf(p, b) = old /\ EntryOf(p, b)' = e
      /\ Distinct'
  <2>1. /\ DOMAIN tcc' = Caches /\ \A c \in Caches : tcc'[c] \in [Slot(c) -> Entries]
        /\ \A c \in Caches : \A j \in Slot(c) : tcc'[c][j] = IF c = p /\ j = i THEN e ELSE tcc[c][j]
        /\ \A c \in Caches, a \in Lines : c # p \/ a # array[p][i] => SameEntry(c, a)
        /\ \A a \in Lines : a = array[p][i] => EntryOf(p, a) = tcc[p][i] /\ EntryOf(p, a)' = e
        /\ Distinct'
    <3>1. EntryBecomes(p, i, e)
      BY Zenon, <1>0, <1>2, <1>5, EntryViews
    <3> QED
      BY Zenon, <3>1 DEF EntryBecomes
  <2> QED
    BY Zenon, <2>1, <1>2, <1>3
<1>7. PICK g : g = Invalidate(k, b, INV)
  BY Zenon
<1>8. k \in Caches /\ Parent(k, b) = p
  <2>1. old.sharers \subseteq Caches
    BY Zenon, <1>4 DEF Entries
  <2>2. \A x \in old.sharers : Parent(x, b) = p
    BY Zenon, <1>3a DEF SlotFine
  <2> QED
    BY Zenon, <2>1, <2>2, <1>4
<1>9. g \in Frame /\ g.op = "inv" /\ g.pc = "bcc" /\ g.c = k /\ g.addr = b /\ g.type = INV /\ g.wb = FALSE
  BY ZenonT(30), <1>1, <1>7, <1>8 DEF Invalidate, Frame, InvFrame
<1>10. /\ Kept(t, top - 1) /\ stack' \in [Threads -> Seq(Frame)] /\ Pushes(t, f, g)
       /\ Depth(t)' = top + 1 /\ Call(t, top)' = f
       /\ top > 1 => Call(t, top - 1)' = Call(t, top - 1)
  <2>1. Push(t, f, g)
    BY Zenon, <1>7
  <2> QED
    BY ZenonT(30), <2>1, <1>1, <1>9, PushKeeps
<1>11. PICK new : new = top + 1
  BY Zenon
<1>12. Call(t, new)' = g /\ new \in Nat /\ new > 2 /\ new - 1 = top
  <2>1. new \in 1 .. Depth(t) + 1 /\ new = Depth(t) + 1
    BY Zenon, <1>1, <1>11, NearDepth, SomeDepth
  <2>2. Call(t, new)' = g
    BY Zenon, <2>1, <1>10 DEF Pushes
  <2> QED
    BY SMTT(30), <2>2, <1>1, <1>11
<1>13. Waits(t, top)' = FALSE
  <2>1. IsAccess(t, new)' = FALSE
    BY Zenon, <1>9, <1>12 DEF IsAccess
  <2> QED
    BY Zenon, <2>1, <1>11 DEF Waits, IsAccess
<1>14. Types'
  BY Zenon, <1>0, <1>6, <1>10 DEF Types, Caches, Slot, Entries, Frame, AccessFrame, InvFrame, ReplaceFrame
<1>15. Footprint(t, top - 1)
  <2>1. \A c, a : StateOf(c, a)' = StateOf(c, a)
    BY ZenonT(30), StateSame
  <2>2. \A c \in Caches : \A j \in Slot(c) :
           tcc'[c][j] = tcc[c][j] \/ (Holder(t, c) /\ j = Call(t, Depth(t)).id /\ IsAccess(t, Depth(t)))
    <3>1. i = Call(t, Depth(t)).id /\ IsAccess(t, Depth(t))
      BY Zenon, <1>1
    <3> QED
      BY Zenon, <3>1, <1>1, <1>6
  <2> QED
    BY Zenon, <2>1, <2>2 DEF Footprint
<1>16. SlotsOK'
  <2>1. SlotFine(p, b, bcc[p][i], e)
    <3>2. bcc[p][i] # I /\ bcc[p][i] \in {E, M} /\ b # NoLine
      BY Zenon, <1>2, NamesAssumption DEF I, E, M
    <3> QED
      BY Zenon, <3>2, <1>3a, <1>5 DEF SlotFine
  <2>2. \A c \in Caches : \A j \in Slot(c) :
              \/ bcc'[c][j] = bcc[c][j] /\ tcc'[c][j] = tcc[c][j]
              \/ SlotFine(c, array[c][j], bcc'[c][j], tcc'[c][j])
    <3> SUFFICES ASSUME NEW c \in Caches, NEW j \in Slot(c)
                 PROVE  \/ bcc'[c][j] = bcc[c][j] /\ tcc'[c][j] = tcc[c][j]
                        \/ SlotFine(c, array[c][j], bcc'[c][j], tcc'[c][j])
      BY Zenon
    <3>1. bcc'[c][j] = bcc[c][j]
      BY Zenon
    <3>2. CASE c = p /\ j = i
      <4>1. tcc'[c][j] = e /\ bcc'[c][j] = bcc[p][i] /\ array[c][j] = b
        BY Zenon, <3>1, <3>2, <1>2, <1>6
      <4> QED
        BY Zenon, <4>1, <3>2, <2>1
    <3>3. CASE ~(c = p /\ j = i)
      BY Zenon, <3>1, <3>3, <1>6
    <3> QED
      BY Zenon, <3>2, <3>3
  <2> QED
    BY Zenon, <2>2, <1>0, SlotsKeep
<1>17. \A q, c, a, type : UpgradeKept(t, top - 1, q, c, a) /\ UnlockKept(t, top - 1, c, a, type)
  <2>1. \A d \in 1 .. Depth(t) : d > top - 1 => d = top
    BY Zenon, <1>1, TopDepth
  <2>2. top <= Depth(t)' /\ ~Waits(t, top)' /\ Call(t, top)' = Call(t, top)
    <3>1. top <= Depth(t)'
      BY Zenon, <1>1, <1>10, NearDepth
    <3> QED
      BY Zenon, <3>1, <1>1, <1>10, <1>13
  <2>3. \A q, c, a : UpgradeKept(t, top - 1, q, c, a)
    BY Zenon, <2>1, <2>2 DEF UpgradeKept
  <2>4. \A c, a, type : UnlockKept(t, top - 1, c, a, type)
    BY Zenon, <2>1, <2>2 DEF UnlockKept
  <2> QED
    BY Zenon, <2>3, <2>4
<1>18. Directory'
  <2> SUFFICES ASSUME NEW q \in Caches, NEW c \in Caches, NEW a \in Lines, q = Parent(c, a)
               PROVE  Quiet(t, top - 1, q, c, a) \/ Listed(c, a)'
    BY Zenon, <1>1, <1>10, <1>14, <1>15, DirectoryKeeps
  <2>1. Alike(StateOf(c, a), StateOf(c, a)') /\ StateOf(c, a)' = StateOf(c, a)
    BY Zenon, StateSame DEF Alike
  <2>2. CASE f.child \notin old.sharers \/ q # p \/ a # b
    <3>1. SameEntry(q, a)
      <4>1. CASE q # p \/ a # b
        BY Zenon, <4>1, <1>6
      <4>2. CASE q = p /\ a = b
        <5>1. SameEntry(p, b)
          <6>1. EntryOf(p, b)' = EntryOf(p, b)
            BY Zenon, <4>2, <2>2, <1>5, <1>6
          <6> QED
            BY Zenon, <6>1 DEF SameEntry, isExclusive
        <5> QED
          BY Zenon, <5>1, <4>2 DEF SameEntry
      <4> QED
        BY Zenon, <4>1, <4>2
    <3> QED
      BY Zenon, <3>1, <2>1, <1>17 DEF Quiet
  <2>3. CASE f.child \in old.sharers /\ q = p /\ a = b
    <3>1. Says(f, old, StateOf(c, a), c, a)
      <4>1. p \in Caches /\ i \in Slot(p) /\ array[p][i] = a /\ Parent(c, a) = p
        BY ZenonT(30), <2>3, <1>2
      <4>2. Says(f, tcc[p][i], StateOf(c, a), c, a)
        BY SMTT(30), <4>1, TopSays
      <4> QED
        BY Zenon, <4>2, <1>3
    <3>2. StateOf(c, a) \in MESIState
      BY Zenon, <1>0, StateType
    <3>4. EntryOf(p, a)' = e /\ Parent(c, a)' = p /\ isExclusive(EntryOf(p, a))' = FALSE
      BY Zenon, <2>3, <1>5, <1>6 DEF Parent, isExclusive
    <3>5. CASE c # f.child
      <4>1. (c \in e.sharers <=> StateOf(c, a) # I) /\ (c \in e.sharers => StateOf(c, a) \notin {E, M})
        BY Zenon, <3>1, <3>5, <2>3, <1>5 DEF Upgrades, Says
      <4> QED
        BY Zenon, <4>1, <3>4, <2>1 DEF Listed, isExclusive
    <3>6. CASE c = f.child
      <4>1. StateOf(c, a) = S /\ c \notin e.sharers
        BY Zenon, <3>1, <3>2, <3>6, <2>3, <1>5 DEF MESIState, Upgrades, Says
      <4>2. Upgrading(p, c, a)'
        <5>1. Upgrades(Call(t, top)', p, c, a) /\ top \in 1 .. Depth(t)'
          BY Zenon, <3>6, <2>3, <1>1, <1>10, SomeDepth DEF Upgrades
        <5> QED
          BY ZenonT(30), <5>1, <1>13 DEF Upgrading, Upgrades
      <4> QED
        BY Zenon, <4>1, <4>2, <3>4, <2>1 DEF Listed, isExclusive
    <3> QED
      BY Zenon, <3>5, <3>6
  <2> QED
    BY Zenon, <2>2, <2>3
<1>19. Ordered'
  <2>1. hier.level[g.c] < hier.level[p]
    BY Zenon, <1>0, <1>1, <1>8, <1>9, Tree
  <2> QED
    BY Zenon, <2>1, <1>1, <1>9, <1>10, <1>14, OrderedPush, SomeDepth
<1>20. CallOK(t, top)'
  <2>1. ShapeOK(t, top)'
    BY Zenon, <1>1, <1>10, AccessStays
  <2>2. OwnAccess(f, FALSE)'
    BY Zenon, <1>1 DEF OwnAccess, Slot, Terminal
  <2>3. top > 2 => ChildOK(f)'
    BY Zenon, <1>1 DEF ChildOK
  <2>4. ~Terminal(p) => tccLock[p] = t
    BY Zenon, <1>1 DEF LocksOK, HoldsTcc
  <2> QED
    BY Zenon, <2>1, <2>2, <2>3, <2>4, <1>1, <1>10, <1>13, AccessAt
<1>21. CallOK(t, new)'
  <2>1. Sent(g, f)'
    BY Zenon, <1>1, <1>2, <1>4, <1>5, <1>6, <1>9 DEF Sent, Slot, INV, INVX
  <2>2. OwnInv(g, f)'
    BY Zenon, <1>9 DEF OwnInv
  <2>3. Call(t, new - 1)' = f
    BY Zenon, <1>10, <1>12
  <2>4. hier' = hier
    BY Zenon
  <2> QED
    BY Zenon, <2>1, <2>2, <2>3, <2>4, <1>9, <1>12, InvAt
<1>22. \A d \in 1 .. Depth(t)' : d > top - 1 => CallOK(t, d)'
  <2>1. \A d \in 1 .. Depth(t)' : d > top - 1 => d = top \/ d = new
    BY Zenon, <1>1, <1>10, <1>11, PushDepth
  <2> QED
    BY ZenonT(30), <2>1, <1>20, <1>21
<1> QED
  BY ZenonT(30), <1>1, <1>6, <1>10, <1>14, <1>15, <1>16, <1>18, <1>19, <1>22, StepKeeps

(* An access of the directory: its line and the child that made it. *)
LEMMA DirectoryRuns ==
    ASSUME CoherenceInv, NEW t \in Threads, NEW top, top = Depth(t), NEW f, f = Top(t),
           AccessRuns(t, top, f, "directory")
    PROVE  /\ top > 2 /\ f.id \in Slot(f.c) /\ array[f.c][f.id] = f.addr /\ f.addr \in Lines /\ f.c \in Caches
           /\ f.child \in Caches /\ f.slot \in Slot(f.child) /\ f.child # f.c /\ array[f.child][f.slot] = f.addr
           /\ Parent(f.child, f.addr) = f.c
           /\ StateOf(f.child, f.addr) = bcc[f.child][f.slot] /\ ChildOK(f)
           /\ Says(f, tcc[f.c][f.id], bcc[f.child][f.slot], f.child, f.addr)
<1>0. Types /\ Distinct
  BY Zenon DEF CoherenceInv
<1>1. /\ f.id \in Slot(f.c) /\ array[f.c][f.id] = f.addr /\ f.addr \in Lines /\ f.c \in Caches /\ ~Terminal(f.c)
      /\ top \in Nat /\ top >= 2 /\ (top > 2 => ChildOK(f)) /\ f = Call(t, top)
  BY Zenon DEF AccessRuns, OwnAccess
<1>2. top > 2
  <2>1. top = 2 => f.c \in hier.core[t]
    BY Zenon, <1>1 DEF AccessRuns, ShapeOK
  <2>2. hier.core[t] \subseteq hier.l1s
    BY Zenon, <1>0, Tree
  <2> QED
    BY Zenon, <2>1, <2>2, <1>1, SomeDepth DEF Terminal
<1>3. /\ f.child \in Caches /\ f.slot \in Slot(f.child) /\ f.child # f.c
      /\ f.c = Parent(f.child, f.addr) /\ array[f.child][f.slot] = f.addr
  BY Zenon, <1>2, AskedLine
<1>4. StateOf(f.child, f.addr) = bcc[f.child][f.slot]
  BY Zenon, <1>0, <1>1, <1>3, StateIs
<1>5. Says(f, tcc[f.c][f.id], StateOf(f.child, f.addr), f.child, f.addr)
  <2>1. PICK p, i, c, a : p = f.c /\ i = f.id /\ c = f.child /\ a = f.addr
    BY Zenon
  <2>2. p \in Caches /\ i \in Slot(p) /\ a \in Lines /\ array[p][i] = a /\ c \in Caches /\ Parent(c, a) = p
    BY Zenon, <2>1, <1>1, <1>3
  <2>3. Says(f, tcc[p][i], StateOf(c, a), c, a)
    BY <2>1, <2>2, TopSays
  <2> QED
    BY Zenon, <2>1, <2>3
<1> QED
  BY Zenon, <1>1, <1>2, <1>3, <1>4, <1>5

(* MESITopCC::processAccess: the other children lose what the request      *)
(* takes from them.                                                        *)
LEMMA InvalidateOthersStep ==
    ASSUME CoherenceInv, NEW t \in Threads, invalidateOthers(t)
    PROVE  CoherenceInv'
<1>0. Types /\ Distinct
  BY Zenon DEF CoherenceInv
<1>1. PICK f, top : f = Top(t) /\ top = Depth(t)
  BY Zenon
<1>2. AccessRuns(t, top, f, "directory")
  BY Zenon, <1>1, RunsAccess DEF invalidateOthers
<1>3. /\ f.id \in Slot(f.c) /\ array[f.c][f.id] = f.addr /\ f.addr \in Lines /\ f.c \in Caches
      /\ ChildOK(f) /\ Says(f, tcc[f.c][f.id], bcc[f.child][f.slot], f.child, f.addr)
  BY Zenon, <1>1, <1>2, DirectoryRuns
<1>4. hier' = hier /\ array' = array /\ bcc' = bcc /\ bccLock' = bccLock /\ tccLock' = tccLock /\ filterLock' = filterLock
  BY Zenon DEF invalidateOthers
<1>5. ASSUME f.type = GETX, NEW k \in Others(f), Push(t, f, Invalidate(k, f.addr, INV)),
             tcc' = [tcc EXCEPT ![f.c][f.id].sharers = Others(f)]
      PROVE  CoherenceInv'
  <2>1. PICK p, i, b, e : p = f.c /\ i = f.id /\ b = f.addr /\ e = Without(tcc[p][i], f.child)
    BY Zenon
  <2>2. Others(f) = tcc[p][i].sharers \ {f.child}
    BY Zenon, <2>1 DEF Others
  <2>3. SetsEntry(p, i, e)
    BY Zenon, <2>1, <2>2, <1>5 DEF SetsEntry, Without
  <2>4. k \in tcc[p][i].sharers /\ k # f.child /\ Push(t, f, Invalidate(k, b, INV))
    BY Zenon, <2>1, <2>2, <1>5
  <2>5. f.type = GETX
    BY Zenon, <1>5
  <2> QED
    BY Zenon, <2>1, <2>3, <2>4, <2>5, <1>1, <1>2, <1>4, UpgradeStep
<1>6. ASSUME f.type = GETS, isExclusive(tcc[f.c][f.id]), NEW k \in tcc[f.c][f.id].sharers,
             Push(t, f, Invalidate(k, f.addr, INVX)), tcc' = tcc
      PROVE  CoherenceInv'
  <2>1. stack[t] # <<>> /\ f.op = "access" /\ f.pc = "directory" /\ top \in Nat /\ f = Call(t, top)
    BY Zenon, <1>2 DEF AccessRuns
  <2>2. f.child \notin tcc[f.c][f.id].sharers
    <3>1. bcc[f.child][f.slot] = I
      BY Zenon, <2>1, <1>3, <1>6 DEF ChildOK
    <3> QED
      BY Zenon, <3>1, <1>3 DEF Says
  <2>3. NotMarked(t, top - 1)
    <3>1. \A d \in 1 .. Depth(t) : d > top - 1 => d = top
      BY Zenon, <2>1, <1>1, TopDepth
    <3> QED
      BY Zenon, <3>1, <2>1, <1>6 DEF NotMarked, IsInv, GETS, GETX
  <2>4. ASSUME NEW g, g.c = k, g.addr = f.addr, g.type = INVX PROVE Sent(g, f)
    BY Zenon, <2>1, <2>2, <2>4, <1>3, <1>6 DEF Sent, GETS, GETX, INV, INVX
  <2>5. UNCHANGED <<hier, array, bcc, tcc, bccLock, tccLock, filterLock>> /\ Push(t, f, Invalidate(k, f.addr, INVX))
    BY Zenon, <1>4, <1>6
  <2> QED
    BY Zenon, <2>1, <2>3, <2>4, <2>5, <1>1, <1>3, <1>6, QuietPush
<1> QED
  <2>1. \/ /\ f.type = GETX
           /\ \E k \in Others(f) : Push(t, f, Invalidate(k, f.addr, INV))
           /\ tcc' = [tcc EXCEPT ![f.c][f.id].sharers = Others(f)]
        \/ /\ f.type = GETS /\ isExclusive(tcc[f.c][f.id])
           /\ \E k \in tcc[f.c][f.id].sharers : Push(t, f, Invalidate(k, f.addr, INVX))
           /\ tcc' = tcc
    BY Zenon, <1>1 DEF invalidateOthers
  <2> QED
    BY Zenon, <2>1, <1>5, <1>6

(* Then slot j of k is in state s, slot i of p in state r, and no other state changes. *)
StatesBecome(k, j, s, p, i, r) ==
    /\ DOMAIN bcc' = Caches /\ \A c \in Caches : bcc'[c] \in [Slot(c) -> MESIState]
    /\ \A c \in Caches : \A x \in Slot(c) :
          bcc'[c][x] = IF c = k /\ x = j THEN s ELSE IF c = p /\ x = i THEN r ELSE bcc[c][x]
    /\ \A c \in Caches, a \in Lines :
          StateOf(c, a)' = IF c = k /\ a = array[k][j] THEN s
                           ELSE IF c = p /\ a = array[p][i] THEN r ELSE StateOf(c, a)

(* A cache writes the state of the child and perhaps its own. *)
GrantsTo(k, j, s, p, i, r) == bcc' = [bcc EXCEPT ![k][j] = s, ![p][i] = r]
(* What granting a state to a child changes of the states of lines. *)
LEMMA GrantViews ==
    ASSUME Types, Distinct, NEW p \in Caches, NEW i \in Slot(p), NEW k \in Caches, NEW j \in Slot(k), p # k,
           NEW s \in MESIState, NEW r \in MESIState, GrantsTo(k, j, s, p, i, r), hier' = hier, array' = array
    PROVE  StatesBecome(k, j, s, p, i, r)
<1>1. DOMAIN bcc = Caches /\ \A c \in Caches : bcc[c] \in [Slot(c) -> MESIState]
  BY Zenon DEF Types
<1>2. DOMAIN bcc' = Caches /\ \A c \in Caches : bcc'[c] \in [Slot(c) -> MESIState]
  BY Zenon, <1>1 DEF GrantsTo
<1>3. \A c \in Caches : \A x \in Slot(c) :
         bcc'[c][x] = IF c = k /\ x = j THEN s ELSE IF c = p /\ x = i THEN r ELSE bcc[c][x]
  BY Zenon, <1>1 DEF GrantsTo
<1>4. \A c \in Caches : c # p /\ c # k => bcc'[c] = bcc[c]
  BY Zenon, <1>1 DEF GrantsTo
<1>5. ASSUME NEW c \in Caches, NEW a \in Lines
      PROVE  StateOf(c, a)' = IF c = k /\ a = array[k][j] THEN s
                              ELSE IF c = p /\ a = array[p][i] THEN r ELSE StateOf(c, a)
  <2>1. CASE c = k
    <3>1. /\ a # array[k][j] => StateOf(k, a)' = StateOf(k, a)
          /\ a = array[k][j] => StateOf(k, a)' = bcc'[k][j]
      BY Zenon, <1>3, StateViews
    <3>2. StateOf(c, a)' = StateOf(k, a)'
      BY Zenon, <2>1 DEF StateOf, lookup, Slot
    <3> QED
      BY Zenon, <3>1, <3>2, <2>1, <1>3
  <2>2. CASE c = p
    <3>1. /\ a # array[p][i] => StateOf(p, a)' = StateOf(p, a)
          /\ a = array[p][i] => StateOf(p, a)' = bcc'[p][i]
      BY Zenon, <1>3, StateViews
    <3>2. StateOf(c, a)' = StateOf(p, a)'
      BY Zenon, <2>2 DEF StateOf, lookup, Slot
    <3> QED
      BY Zenon, <3>1, <3>2, <2>2, <1>3
  <2>3. CASE c # p /\ c # k
    BY Zenon, <2>3, <1>4, StateSame
  <2> QED
    BY Zenon, <2>1, <2>2, <2>3
<1> QED
  BY Zenon, <1>2, <1>3, <1>5 DEF StatesBecome

(* What the directory may decide about the child of f: its entry goes from *)
(* old to e, and the child gets the line in state s.                       *)
Decides(f, old, e, s) ==
    /\ e \in Entries /\ s \in MESIState
    /\ f.child \in e.sharers <=> s # I
    /\ f.child \in e.sharers => (isExclusive(e) <=> s \in {E, M})
    /\ \A c : c # f.child => (c \in e.sharers <=> c \in old.sharers)
    /\ \A c : c # f.child /\ c \in e.sharers => (isExclusive(e) <=> isExclusive(old))
    /\ s \in (IF f.type \in {PUTS, PUTX} THEN {I} ELSE IF f.type = GETS THEN {S, E} ELSE {M})

(* Any decision of processAccess that fits entry and states keeps the *)
(* invariant.                                                         *)
LEMMA GrantStep ==
    ASSUME CoherenceInv, NEW t \in Threads, NEW top, top = Depth(t), NEW f, f = Top(t),
           AccessRuns(t, top, f, "directory"),
           NEW p, NEW i, NEW b, NEW k, NEW j, p = f.c, i = f.id, b = f.addr, k = f.child, j = f.slot,
           NEW old, old = tcc[p][i], NEW e, NEW s, NEW r, Decides(f, old, e, s),
           r \in MESIState, Alike(bcc[p][i], r), SlotFine(p, b, r, e), SlotFine(k, b, s, tcc[k][j]),
           SetsEntry(p, i, e), GrantsTo(k, j, s, p, i, r), Stay(t, [f EXCEPT !.pc = "end"]),
           hier' = hier, array' = array, bccLock' = bccLock, tccLock' = tccLock, filterLock' = filterLock
    PROVE  CoherenceInv'
<1>0. Types /\ Distinct /\ SlotsOK /\ CallsOK
  BY Zenon DEF CoherenceInv
<1>1. /\ stack[t] # <<>> /\ top \in 1 .. Depth(t) /\ top \in Nat /\ top - 1 \in Int
      /\ f = Call(t, top) /\ IsAccess(t, top) /\ ~IsInv(t, top) /\ f.op = "access" /\ f.pc = "directory"
      /\ f \in AccessFrame /\ Holder(t, p) /\ bccLock[p] = t
      /\ LocksOK(t, top) /\ HoldsBcc(t, top)
  BY Zenon DEF AccessRuns
<1>2. /\ top > 2 /\ p \in Caches /\ i \in Slot(p) /\ array[p][i] = b /\ b \in Lines
      /\ k \in Caches /\ j \in Slot(k) /\ p # k /\ array[k][j] = b /\ Parent(k, b) = p
  BY Zenon, DirectoryRuns
<1>3. e \in Entries /\ s \in MESIState
  BY Zenon DEF Decides
<1>4. /\ DOMAIN tcc' = Caches /\ \A c \in Caches : tcc'[c] \in [Slot(c) -> Entries]
      /\ \A c \in Caches : \A x \in Slot(c) : tcc'[c][x] = IF c = p /\ x = i THEN e ELSE tcc[c][x]
      /\ \A c \in Caches, a \in Lines : c # p \/ a # b => SameEntry(c, a)
      /\ EntryOf(p, b)' = e
      /\ Distinct'
  <2>1. /\ DOMAIN tcc' = Caches /\ \A c \in Caches : tcc'[c] \in [Slot(c) -> Entries]
        /\ \A c \in Caches : \A x \in Slot(c) : tcc'[c][x] = IF c = p /\ x = i THEN e ELSE tcc[c][x]
        /\ \A c \in Caches, a \in Lines : c # p \/ a # array[p][i] => SameEntry(c, a)
        /\ \A a \in Lines : a = array[p][i] => EntryOf(p, a) = tcc[p][i] /\ EntryOf(p, a)' = e
        /\ Distinct'
    <3>1. EntryBecomes(p, i, e)
      BY Zenon, <1>0, <1>2, <1>3, EntryViews
    <3> QED
      BY Zenon, <3>1 DEF EntryBecomes
  <2> QED
    BY Zenon, <2>1, <1>2
<1>5. /\ DOMAIN bcc' = Caches /\ \A c \in Caches : bcc'[c] \in [Slot(c) -> MESIState]
      /\ \A c \in Caches : \A x \in Slot(c) :
            bcc'[c][x] = IF c = k /\ x = j THEN s ELSE IF c = p /\ x = i THEN r ELSE bcc[c][x]
      /\ \A c \in Caches, a \in Lines :
            StateOf(c, a)' = IF c = k /\ a = array[k][j] THEN s
                             ELSE IF c = p /\ a = array[p][i] THEN r ELSE StateOf(c, a)
  <2>1. StatesBecome(k, j, s, p, i, r)
    BY Zenon, <1>0, <1>2, <1>3, GrantViews
  <2> QED
    BY Zenon, <2>1 DEF StatesBecome
<1>6. PICK h : h = [f EXCEPT !.pc = "end"]
  BY Zenon
<1>7. /\ h \in AccessFrame /\ h \in Frame /\ h.op = "access" /\ h.pc = "end" /\ h.c = p /\ h.addr = b /\ h.child = k
      /\ h.slot = j /\ h.id = i /\ h.type = f.type /\ h.init = f.init /\ SameAccess(h, f)
  BY Zenon, <1>1, <1>6 DEF AccessFrame, Frame, SameAccess
<1>8. /\ Kept(t, top - 1) /\ stack' \in [Threads -> Seq(Frame)]
      /\ Depth(t)' = top /\ Call(t, top)' = h /\ ~Waits(t, top)'
      /\ top > 1 => Call(t, top - 1)' = Call(t, top - 1)
  <2>1. Stay(t, h) /\ h.op = Top(t).op
    BY Zenon, <1>1, <1>6, <1>7
  <2> QED
    BY Zenon, <2>1, <1>1, <1>7, StayKeeps
<1>9. Types'
  BY Zenon, <1>0, <1>4, <1>5, <1>8 DEF Types, Caches, Slot, Entries, Frame, AccessFrame, InvFrame, ReplaceFrame
<1>10. StateOf(p, b) = bcc[p][i]
  BY Zenon, <1>0, <1>2, StateIs
<1>11. Footprint(t, top - 1)
  <2>1. Grants(t, k) /\ top >= 1 /\ f = Call(t, Depth(t)) /\ IsAccess(t, Depth(t)) /\ ~IsInv(t, Depth(t))
    BY Zenon, <1>1, <1>2, SomeDepth DEF Grants
  <2>2. \A c \in Caches : \A x \in Slot(c) :
            bcc'[c][x] = bcc[c][x] \/ (Holder(t, c) /\ x = f.id) \/ (Grants(t, c) /\ x = f.slot)
    <3> SUFFICES ASSUME NEW c \in Caches, NEW x \in Slot(c), bcc'[c][x] # bcc[c][x]
                 PROVE  (Holder(t, c) /\ x = f.id) \/ (Grants(t, c) /\ x = f.slot)
      BY Zenon
    <3>1. (c = k /\ x = j) \/ (c = p /\ x = i)
      BY Zenon, <1>5
    <3> QED
      BY Zenon, <3>1, <2>1, <1>1
  <2>3. \A c \in Caches : \A x \in Slot(c) : tcc'[c][x] = tcc[c][x] \/ (Holder(t, c) /\ x = f.id)
    BY Zenon, <1>1, <1>4
  <2>4. \A c \in Caches, a \in Lines :
              \/ StateOf(c, a)' = StateOf(c, a)
              \/ Holder(t, c) /\ StateOf(c, a) \in {E, M}
              \/ Grants(t, c) /\ a = f.addr
    <3> SUFFICES ASSUME NEW c \in Caches, NEW a \in Lines, StateOf(c, a)' # StateOf(c, a)
                 PROVE  (Holder(t, c) /\ StateOf(c, a) \in {E, M}) \/ (Grants(t, c) /\ a = f.addr)
      BY Zenon
    <3>1. CASE c = k /\ a = b
      BY Zenon, <3>1, <2>1
    <3>2. CASE ~(c = k /\ a = b)
      <4>1. c = p /\ a = b /\ StateOf(c, a)' = r
        BY <3>2, <1>2, <1>5
      <4>2. StateOf(c, a) = bcc[p][i]
        BY Zenon, <4>1, <1>10
      <4> QED
        BY Zenon, <4>1, <4>2, <1>1 DEF Alike
    <3> QED
      BY Zenon, <3>1, <3>2
  <2> QED
    BY Zenon, <2>1, <2>2, <2>3, <2>4 DEF Footprint
<1>12. SlotsOK'
  <2>1. \A c \in Caches : \A x \in Slot(c) :
              \/ bcc'[c][x] = bcc[c][x] /\ tcc'[c][x] = tcc[c][x]
              \/ SlotFine(c, array[c][x], bcc'[c][x], tcc'[c][x])
    BY <1>2, <1>4, <1>5
  <2> QED
    BY Zenon, <2>1, <1>0, SlotsKeep
<1>13. Directory'
  <2> SUFFICES ASSUME NEW q \in Caches, NEW c \in Caches, NEW a \in Lines, q = Parent(c, a)
               PROVE  Quiet(t, top - 1, q, c, a) \/ Listed(c, a)'
    BY Zenon, <1>1, <1>8, <1>9, <1>11, DirectoryKeeps
  <2>1. CASE q = p /\ a = b
    <3>1. EntryOf(p, a)' = e /\ Parent(c, a)' = p
      BY Zenon, <2>1, <1>4 DEF Parent
    <3>2. CASE c = k
      <4>1. StateOf(c, a)' = s
        BY <3>2, <2>1, <1>2, <1>5
      <4>2. (c \in e.sharers <=> s # I) /\ (c \in e.sharers => (isExclusive(e) <=> s \in {E, M}))
        BY Zenon, <3>2 DEF Decides
      <4> QED
        BY Zenon, <3>1, <4>1, <4>2 DEF Listed, isExclusive
    <3>3. CASE c # k
      <4>1. c # p
        <5>1. Parent(c, a) # MEM /\ Parent(c, a) = p
          BY Zenon, <2>1, <1>0, <1>2, Tree
        <5>2. hier.level[c] < hier.level[p] /\ hier.level[c] \in Nat
          BY Zenon, <5>1, <1>0, Tree
        <5> QED
          BY Zenon, <5>2, NearDepth
      <4>2. StateOf(c, a)' = StateOf(c, a)
        BY Zenon, <4>1, <3>3, <1>5
      <4>3. Says(f, old, StateOf(c, a), c, a)
        <5>1. array[p][i] = a /\ Parent(c, a) = p
          BY Zenon, <2>1, <1>2
        <5>2. Says(f, tcc[p][i], StateOf(c, a), c, a)
          BY <5>1, <1>2, TopSays
        <5> QED
          BY Zenon, <5>2
      <4>4. (c \in old.sharers <=> StateOf(c, a) # I) /\ (c \in old.sharers => (isExclusive(old) <=> StateOf(c, a) \in {E, M}))
        BY Zenon, <4>3, <3>3 DEF Says, Upgrades
      <4>5. (c \in e.sharers <=> c \in old.sharers) /\ (c \in e.sharers => (isExclusive(e) <=> isExclusive(old)))
        BY Zenon, <3>3 DEF Decides
      <4> QED
        BY Zenon, <3>1, <4>2, <4>4, <4>5 DEF Listed, isExclusive
    <3> QED
      BY Zenon, <3>2, <3>3
  <2>2. CASE q # p \/ a # b
    <3>1. SameEntry(q, a)
      BY Zenon, <2>2, <1>4
    <3>2. Alike(StateOf(c, a), StateOf(c, a)')
      <4>1. ~(c = k /\ a = b)
        BY Zenon, <2>2, <1>2
      <4>2. CASE c = p /\ a = b
        BY Zenon, <4>1, <4>2, <1>2, <1>5, <1>10
      <4>3. CASE ~(c = p /\ a = b)
        <5>1. ~(c = k /\ a = array[k][j]) /\ ~(c = p /\ a = array[p][i])
          BY Zenon, <4>1, <4>3, <1>2
        <5>2. StateOf(c, a)' = StateOf(c, a)
          BY Zenon, <5>1, <1>5
        <5> QED
          BY Zenon, <5>2 DEF Alike
      <4> QED
        BY Zenon, <4>2, <4>3
    <3>3. \A d \in 1 .. Depth(t) : d > top - 1 => d = top
      BY Zenon, <1>1, TopDepth
    <3>4. ~Upgrades(Call(t, top), q, c, a)
      BY Zenon, <2>2, <1>1 DEF Upgrades
    <3>5. UpgradeKept(t, top - 1, q, c, a)
      BY Zenon, <3>3, <3>4 DEF UpgradeKept
    <3>6. UnlockKept(t, top - 1, c, a, INV) /\ UnlockKept(t, top - 1, c, a, INVX)
      BY Zenon, <3>3, <1>1 DEF UnlockKept, Unlocks
    <3> QED
      BY Zenon, <3>1, <3>2, <3>5, <3>6 DEF Quiet
  <2> QED
    BY Zenon, <2>1, <2>2
<1>14. Ordered'
  <2>1. Stay(t, h) /\ h.op = Top(t).op /\ h.c = Top(t).c
    BY Zenon, <1>1, <1>6, <1>7
  <2> QED
    BY Zenon, <2>1, <1>1, <1>7, <1>9, StayOrdered
<1>15. CallOK(t, top)'
  <2>1. ShapeOK(t, top)'
    BY Zenon, <1>1, <1>7, <1>8, AccessStays
  <2>2. OwnAccess(h, FALSE)'
    <3>1. CORE \notin Caches /\ h.id \in Slot(h.c)' /\ array'[h.c][h.id] = h.addr
      BY Zenon, <1>0, <1>2, <1>7, Tree DEF Slot
    <3> QED
      BY Zenon, <3>1, <1>2, <1>7 DEF OwnAccess
  <2>3. ChildOK(h)'
    <3>1. bcc'[k][j] = s /\ s \in (IF f.type \in {PUTS, PUTX} THEN {I} ELSE IF f.type = GETS THEN {S, E} ELSE {M})
      BY Zenon, <1>2, <1>5 DEF Decides
    <3> QED
      BY Zenon, <3>1, <1>7 DEF ChildOK
  <2>4. ~Terminal(p) => tccLock[p] = t
    BY Zenon, <1>1 DEF LocksOK, HoldsTcc
  <2>5. Waits(t, top)' = FALSE
    BY Zenon, <1>8 DEF Waits, IsAccess
  <2> QED
    BY Zenon, <2>1, <2>2, <2>3, <2>4, <2>5, <1>1, <1>7, <1>8, AccessAt
<1>16. \A d \in 1 .. Depth(t)' : d > top - 1 => CallOK(t, d)'
  BY Zenon, <1>1, <1>8, <1>15, TopDepth
<1> QED
  BY Zenon, <1>1, <1>4, <1>8, <1>9, <1>11, <1>12, <1>13, <1>14, <1>16, StepKeeps

(* A PUT comes from an eviction, which comes after all invalidations. *)
LEMMA PutSlot ==
    ASSUME CoherenceInv, NEW t \in Threads, NEW top, top = Depth(t), NEW f, f = Top(t),
           AccessRuns(t, top, f, "directory"), f.type \in {PUTS, PUTX}
    PROVE  tcc[f.child][f.slot].sharers = {}
<1>1. top > 2 /\ f = Call(t, top) /\ IsAccess(t, top) /\ top \in 1 .. Depth(t) /\ Types /\ CallsOK
  BY Zenon, DirectoryRuns DEF AccessRuns, CoherenceInv
<1>2. PICK g, n : g = Call(t, top - 1) /\ n = top - 1
  BY Zenon
<1>3. n \in 1 .. Depth(t) /\ Called(f, g) /\ IsAccess(t, n) /\ g = Call(t, n)
  BY Zenon, <1>1, <1>2, CallerOf
<1>4. CallOK(t, n)
  BY Zenon, <1>1, <1>3 DEF CallsOK
<1>5. g.pc = "insert" /\ f.child = g.c /\ f.slot = g.id
  BY Zenon, <1>3 DEF Called, GETS, GETX, PUTS, PUTX
<1>6. OwnAccess(g, Waits(t, n))
  BY Zenon, <1>3, <1>4 DEF CallOK, KnowsOK, IsAccess
<1> QED
  BY Zenon, <1>5, <1>6 DEF OwnAccess

(* MESITopCC::processAccess: the outcome for the child. *)
LEMMA UpdateDirectoryStep ==
    ASSUME CoherenceInv, NEW t \in Threads, updateDirectory(t)
    PROVE  CoherenceInv'
<1>0. Types /\ Distinct /\ SlotsOK
  BY Zenon DEF CoherenceInv
<1>1. PICK f, top : f = Top(t) /\ top = Depth(t)
  BY Zenon
<1>2. AccessRuns(t, top, f, "directory")
  BY Zenon, <1>1, RunsAccess DEF updateDirectory
<1>3. PICK p, i, b, k, j : p = f.c /\ i = f.id /\ b = f.addr /\ k = f.child /\ j = f.slot
  BY Zenon
<1>4. PICK old, r, ek : old = tcc[p][i] /\ r = (IF f.wb THEN M ELSE bcc[p][i]) /\ ek = tcc[k][j]
  BY Zenon
<1>5. /\ p \in Caches /\ i \in Slot(p) /\ array[p][i] = b /\ b \in Lines /\ b # NoLine
      /\ k \in Caches /\ j \in Slot(k) /\ p # k /\ array[k][j] = b /\ Parent(k, b) = p
      /\ ChildOK(f) /\ Says(f, old, bcc[k][j], k, b)
  BY Zenon, <1>1, <1>2, <1>3, <1>4, DirectoryRuns, NamesAssumption
<1>6. /\ f.pc = "directory" /\ f.type \in {GETS, GETX, PUTS, PUTX}
      /\ f.type = GETS => bcc[p][i] # I /\ bcc[k][j] = I
      /\ f.type = GETX => bcc[p][i] = M
      /\ f.type \in {PUTS, PUTX} => bcc[k][j] # I
      /\ f.wb => bcc[p][i] \in {E, M}
  <2>1. f.pc = "directory" /\ OwnAccess(f, FALSE) /\ f \in AccessFrame
    BY Zenon, <1>2 DEF AccessRuns
  <2>2. f.type \in {GETS, GETX, PUTS, PUTX}
    BY Zenon, <2>1 DEF AccessFrame
  <2>3. /\ f.type = GETS => bcc[p][i] # I
        /\ f.type = GETX => bcc[p][i] = M
        /\ f.wb => bcc[p][i] \in {E, M}
    BY Zenon, <2>1, <1>3 DEF OwnAccess
  <2>4. /\ f.type = GETS => bcc[k][j] = I
        /\ f.type \in {PUTS, PUTX} => bcc[k][j] # I
    BY Zenon, <2>1, <1>3, <1>5 DEF ChildOK, I, S, E, M
  <2> QED
    BY Zenon, <2>1, <2>2, <2>3, <2>4
<1>7. old \in Entries /\ bcc[p][i] \in MESIState
  BY Zenon, <1>0, <1>4, <1>5 DEF Types
<1>8. SlotFine(p, b, bcc[p][i], old) /\ SlotFine(k, b, bcc[k][j], ek)
  BY Zenon, <1>0, <1>4, <1>5, SlotIs
<1>9. f.type \in {PUTS, PUTX} => ek.sharers = {}
  BY Zenon, <1>1, <1>2, <1>3, <1>4, PutSlot
<1>10. r \in MESIState /\ Alike(bcc[p][i], r)
  BY Zenon, <1>4, <1>6, <1>7 DEF Alike, MESIState
<1>11. ASSUME NEW e, NEW s, grant(t, f, e, s), Decides(f, old, e, s), isExclusive(e) => r \in {E, M},
              e.exclusive => \A x, y \in e.sharers : x = y
       PROVE  CoherenceInv'
  <2>1. /\ hier' = hier /\ array' = array /\ bccLock' = bccLock /\ tccLock' = tccLock /\ filterLock' = filterLock
    BY Zenon DEF updateDirectory
  <2>2. SetsEntry(p, i, e) /\ Stay(t, [f EXCEPT !.pc = "end"])
    BY Zenon, <1>3, <1>11 DEF grant, SetsEntry
  <2>3. GrantsTo(k, j, s, p, i, r)
    <3>1. bcc' = [bcc EXCEPT ![k][j] = s, ![p][i] = IF f.wb THEN M ELSE @]
      BY Zenon, <1>3, <1>11 DEF grant
    <3>2. [bcc EXCEPT ![k][j] = s][p][i] = bcc[p][i]
      BY Zenon, <1>0, <1>5 DEF Types
    <3> QED
      BY Zenon, <3>1, <3>2, <1>4 DEF GrantsTo
  <2>4. SlotFine(p, b, r, e)
    <3>1. \A x \in e.sharers : Parent(x, b) = p
      BY Zenon, <1>3, <1>5, <1>8, <1>11 DEF Decides, SlotFine
    <3>2. e.sharers # {} => r # I
      <4>1. CASE f.type \in {GETS, GETX}
        BY Zenon, <4>1, <1>4, <1>6 DEF I, M, GETS, GETX
      <4>2. CASE f.type \in {PUTS, PUTX}
        <5>1. f.child \notin e.sharers
          BY Zenon, <4>2, <1>11 DEF Decides
        <5>2. \A x \in e.sharers : x \in old.sharers
          BY Zenon, <5>1, <1>11 DEF Decides
        <5>3. e.sharers # {} => bcc[p][i] # I
          BY Zenon, <5>2, <1>8 DEF SlotFine
        <5> QED
          BY Zenon, <5>3, <1>4 DEF I, M
      <4> QED
        BY Zenon, <4>1, <4>2, <1>6
    <3> QED
      BY Zenon, <3>1, <3>2, <1>5, <1>8, <1>11 DEF SlotFine
  <2>5. SlotFine(k, b, s, ek)
    <3>1. CASE f.type \in {PUTS, PUTX}
      BY Zenon, <3>1, <1>5, <1>8, <1>9 DEF SlotFine, isExclusive
    <3>2. CASE f.type = GETS
      <4>1. ek.sharers = {}
        BY Zenon, <3>2, <1>6, <1>8 DEF SlotFine
      <4> QED
        BY Zenon, <4>1, <1>5, <1>8 DEF SlotFine, isExclusive
    <3>3. CASE f.type = GETX
      <4>1. s = M
        BY Zenon, <3>3, <1>11 DEF Decides, GETS, GETX, PUTS, PUTX
      <4> QED
        BY Zenon, <4>1, <1>5, <1>8 DEF SlotFine, I, M
    <3> QED
      BY Zenon, <3>1, <3>2, <3>3, <1>6
  <2>6. Decides(f, old, e, s)
    BY Zenon, <1>11
  <2>7. SlotFine(k, b, s, tcc[k][j])
    BY Zenon, <2>5, <1>4
  <2>8. old = tcc[p][i]
    BY Zenon, <1>4
  <2> QED
    BY Zenon, <2>1, <2>2, <2>3, <2>4, <2>6, <2>7, <2>8, <1>1, <1>2, <1>3, <1>10, GrantStep
<1>12. ASSUME f.type \in {PUTS, PUTX}, grant(t, f, [old EXCEPT !.sharers = @ \ {f.child}], I) PROVE CoherenceInv'
  <2>1. PICK e : e = [old EXCEPT !.sharers = @ \ {f.child}]
    BY Zenon
  <2>2. e \in Entries /\ e.sharers = old.sharers \ {f.child} /\ e.exclusive = old.exclusive
    BY Zenon, <2>1, <1>7 DEF Entries
  <2>3. k \in old.sharers
    BY Zenon, <1>5, <1>6, <1>12 DEF Says, Upgrades, GETX, PUTS, PUTX
  <2>4. old.exclusive => \A x, y \in old.sharers : x = y
    BY Zenon, <1>8 DEF SlotFine
  <2>5. ~isExclusive(e) /\ (e.exclusive => \A x, y \in e.sharers : x = y)
    BY Zenon, <2>2, <2>3, <2>4, <1>3 DEF isExclusive
  <2>6. \A c : c \in e.sharers => ~isExclusive(old)
    BY Zenon, <2>2, <2>3, <1>3 DEF isExclusive
  <2>7. Decides(f, old, e, I)
    BY Zenon, <2>2, <2>5, <2>6, <1>12 DEF Decides, MESIState
  <2>8. grant(t, f, e, I)
    BY Zenon, <2>1, <1>12
  <2> QED
    BY Zenon, <2>5, <2>7, <2>8, <1>11
<1>13. ASSUME f.type = GETS, old.sharers = {}, bcc[p][i] \in {E, M},
              grant(t, f, [sharers |-> {f.child}, exclusive |-> TRUE], E)
       PROVE  CoherenceInv'
  <2>1. PICK e : e = [sharers |-> {f.child}, exclusive |-> TRUE]
    BY Zenon
  <2>2. e \in Entries /\ e.sharers = {f.child} /\ e.exclusive = TRUE
    BY Zenon, <2>1, <1>3, <1>5 DEF Entries
  <2>3. isExclusive(e)
    BY Zenon, <2>2 DEF isExclusive
  <2>4. Decides(f, old, e, E)
    BY Zenon, <2>2, <2>3, <1>13 DEF Decides, MESIState, I, E, M, GETS, PUTS, PUTX
  <2>5. r \in {E, M}
    BY Zenon, <1>4, <1>13
  <2>6. grant(t, f, e, E)
    BY Zenon, <2>1, <1>13
  <2> QED
    BY Zenon, <2>2, <2>4, <2>5, <2>6, <1>11
<1>14. ASSUME f.type = GETS, ~isExclusive(old),
              grant(t, f, [sharers |-> old.sharers \cup {f.child}, exclusive |-> FALSE], S)
       PROVE  CoherenceInv'
  <2>1. PICK e : e = [sharers |-> old.sharers \cup {f.child}, exclusive |-> FALSE]
    BY Zenon
  <2>2. e \in Entries /\ e.sharers = old.sharers \cup {f.child} /\ e.exclusive = FALSE
    BY Zenon, <2>1, <1>3, <1>5, <1>7 DEF Entries
  <2>3. ~isExclusive(e)
    BY Zenon, <2>2 DEF isExclusive
  <2>4. Decides(f, old, e, S)
    BY Zenon, <2>2, <2>3, <1>14 DEF Decides, MESIState, I, S, E, M, GETS, PUTS, PUTX
  <2>5. grant(t, f, e, S)
    BY Zenon, <2>1, <1>14
  <2> QED
    BY Zenon, <2>2, <2>3, <2>4, <2>5, <1>11
<1>15. ASSUME f.type = GETX, Others(f) = {},
              grant(t, f, [sharers |-> {f.child}, exclusive |-> TRUE], M)
       PROVE  CoherenceInv'
  <2>1. PICK e : e = [sharers |-> {f.child}, exclusive |-> TRUE]
    BY Zenon
  <2>2. e \in Entries /\ e.sharers = {f.child} /\ e.exclusive = TRUE
    BY Zenon, <2>1, <1>3, <1>5 DEF Entries
  <2>3. isExclusive(e)
    BY Zenon, <2>2 DEF isExclusive
  <2>4. \A c \in old.sharers : c = f.child
    BY Zenon, <1>3, <1>4, <1>15 DEF Others
  <2>5. Decides(f, old, e, M)
    BY Zenon, <2>2, <2>3, <2>4, <1>15 DEF Decides, MESIState, I, E, M, GETS, GETX, PUTS, PUTX
  <2>6. r \in {E, M}
    BY Zenon, <1>4, <1>6, <1>15
  <2>7. grant(t, f, e, M)
    BY Zenon, <2>1, <1>15
  <2> QED
    BY Zenon, <2>2, <2>5, <2>6, <2>7, <1>11
<1> QED
  <2>1. \/ f.type \in {PUTS, PUTX} /\ grant(t, f, [old EXCEPT !.sharers = @ \ {f.child}], I)
        \/ Grants_E(f) /\ grant(t, f, [sharers |-> {f.child}, exclusive |-> TRUE], E)
        \/ /\ f.type = GETS /\ ~isExclusive(old)
           /\ grant(t, f, [sharers |-> old.sharers \cup {f.child}, exclusive |-> FALSE], S)
        \/ f.type = GETX /\ Others(f) = {} /\ grant(t, f, [sharers |-> {f.child}, exclusive |-> TRUE], M)
    BY Zenon, <1>1, <1>3, <1>4 DEF updateDirectory
  <2>2. Grants_E(f) => f.type = GETS /\ old.sharers = {} /\ bcc[p][i] \in {E, M}
    BY Zenon, <1>3, <1>4 DEF Grants_E, haveExclusive
  <2> QED
    BY Zenon, <2>1, <2>2, <1>12, <1>13, <1>14, <1>15
==============================================================================
