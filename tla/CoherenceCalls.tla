--------------------------- MODULE CoherenceCalls ----------------------------
(* Proofs about the cache hierarchy (cache.cpp, coherence_ctrls.h and .cpp) *)
(* for trees of caches of any shape and size, any lines and any number of   *)
(* cores.  This module has the inductive invariant, the calls and what a    *)
(* step leaves alone, and the steps that write no line.                     *)
EXTENDS Coherence, Integers, TLAPS

----------------------------------------------------------------------------
(* The calls of a thread, outermost first. *)

AccessFrame ==
    [op : {"access"}, pc : {"tcc", "bcc", "evict", "insert", "process", "directory", "end"},
     c : Caches, addr : Lines, type : {GETS, GETX, PUTS, PUTX}, child : Caches \cup {CORE},
     slot : Nat, init : MESIState, noexcl : BOOLEAN, id : Nat, wb : BOOLEAN]
InvFrame ==
    [op : {"inv"}, pc : {"bcc", "children", "filter", "unlock"}, c : Caches, addr : Lines,
     type : {INV, INVX}, id : Nat, wb : BOOLEAN]
ReplaceFrame ==
    [op : {"replace"}, pc : {"fill"}, c : Caches, addr : Lines, type : {GETS, GETX}]
Frame == AccessFrame \cup InvFrame \cup ReplaceFrame

Entries == [sharers : SUBSET Caches, exclusive : BOOLEAN]

Types ==
    /\ hier \in Hierarchies
    /\ DOMAIN array = Caches /\ DOMAIN bcc = Caches /\ DOMAIN tcc = Caches
    /\ \A c \in Caches : /\ array[c] \in [Slot(c) -> Lines \cup {NoLine}]
                         /\ bcc[c] \in [Slot(c) -> MESIState]
                         /\ tcc[c] \in [Slot(c) -> Entries]
    /\ bccLock \in [Caches -> Threads \cup {FREE}]
    /\ tccLock \in [Caches -> Threads \cup {FREE}]
    /\ filterLock \in [Caches -> Threads \cup {FREE}]
    /\ stack \in [Threads -> Seq(Frame)]

Depth(t) == Len(stack[t])
Call(t, d) == stack[t][Len(stack[t]) + 1 - d]
IsAccess(t, d) == Call(t, d).op = "access"
IsInv(t, d) == Call(t, d).op = "inv"

(* An access that waits for the access it made to the parent. *)
Waits(t, d) == IsAccess(t, d) /\ d < Depth(t) /\ IsAccess(t, d + 1)

HoldsBcc(t, d) ==
    \/ IsAccess(t, d) /\ ~Waits(t, d) /\ Call(t, d).pc \notin {"tcc", "bcc"}
    \/ IsInv(t, d) /\ Call(t, d).pc \in {"children", "filter"}
HoldsTcc(t, d) == IsAccess(t, d) /\ Call(t, d).pc # "tcc" /\ ~Terminal(Call(t, d).c)

LocksOK(t, d) ==
    /\ HoldsBcc(t, d) => bccLock[Call(t, d).c] = t
    /\ HoldsTcc(t, d) => tccLock[Call(t, d).c] = t

(* Access f was made by access g. *)
Called(f, g) ==
    /\ g.op = "access" /\ f.child = g.c /\ f.slot = g.id /\ g.id \in Slot(g.c)
    /\ f.c = Parent(g.c, f.addr) /\ array[g.c][g.id] = f.addr
    /\ \/ g.pc = "insert" /\ (f.type = PUTS \/ f.type = PUTX)
       \/ g.pc = (IF Terminal(g.c) THEN "end" ELSE "directory") 
          /\ f.addr = g.addr /\ f.type = g.type /\ f.type \in {GETS, GETX}

(* Invalidation f was sent by call g. *)
Sent(f, g) ==
    LET e == tcc[g.c][g.id]
    IN  /\ f.c \in e.sharers /\ g.id \in Slot(g.c) /\ array[g.c][g.id] = f.addr
        /\ f.type = INVX => isExclusive(e)
        /\ \/ g.op = "access" /\ g.pc = "evict" /\ f.type = INV
           \/ /\ g.op = "access" /\ g.pc = "directory" /\ f.c # g.child
              /\ f.type = IF g.type = GETX THEN INV ELSE INVX
              /\ IF g.type = GETX THEN g.child \notin e.sharers ELSE g.type = GETS
           \/ g.op = "inv" /\ g.pc = "children" /\ f.type = g.type

ShapeOK(t, d) ==
    LET f == Call(t, d)
    IN  /\ f.op = "replace" <=> d = 1
        /\ f.op = "access" /\ d = 2 => f.child = CORE /\ f.c \in hier.core[t]
                                        /\ f.type \in {GETS, GETX} /\ f.init = I
        /\ f.op = "access" /\ d > 2 => Called(f, Call(t, d - 1))
        /\ f.op = "inv" => d > 2 /\ Sent(f, Call(t, d - 1))

(* What an access knows about its own cache. *)
OwnAccess(f, waits) ==
    LET state == bcc[f.c][f.id]
    IN  /\ f.pc \in {"tcc", "bcc", "insert", "process"} \/ waits => ~f.wb
        /\ f.pc \in {"tcc", "bcc"} => f.id = 0
        /\ f.pc \in {"evict", "insert"} => /\ f.type \in {GETS, GETX} /\ f.id \in Slot(f.c)
                                           /\ \A i \in Slot(f.c) : array[f.c][i] # f.addr
        /\ f.pc \in {"process", "directory"} \/ (f.pc = "end" /\ f.id # 0) =>
              f.id \in Slot(f.c) /\ array[f.c][f.id] = f.addr
        /\ f.pc = "insert" => tcc[f.c][f.id].sharers = {}
        /\ f.pc = "insert" /\ ~waits => state = I
        /\ f.pc = "directory" => ~Terminal(f.c)
        /\ f.pc = "directory" /\ ~waits => /\ f.type = GETS => state # I
                                           /\ f.type = GETX => state = M
        /\ f.pc \in {"evict", "directory"} /\ f.wb => state \in {E, M}
        /\ f.pc = "end" /\ f.child = CORE => f.id # 0
        /\ f.pc = "end" /\ f.child = CORE /\ ~waits => state # I /\ (f.type = GETX => state = M)

OwnInv(f, g) ==
    LET state == bcc[f.c][f.id]
    IN  /\ f.pc = "bcc" => ~f.wb
        /\ f.pc = "children" => ~Terminal(f.c)
        /\ f.pc = "filter" => Terminal(f.c)
        /\ f.pc \in {"children", "filter"} =>
              /\ f.id \in Slot(f.c) /\ array[f.c][f.id] = f.addr
              /\ state # I
              /\ f.type = INVX \/ f.wb => state \in {E, M}
        /\ f.pc = "unlock" => /\ StateOf(f.c, f.addr) = IF f.type = INV THEN I ELSE S
                              /\ f.wb => bcc[g.c][g.id] \in {E, M}

(* What an access knows about the line in the cache that made it. *)
ChildOK(f) ==
    LET state == bcc[f.child][f.slot]
        before == f.pc \in {"tcc", "bcc"}
        put == f.type \in {PUTS, PUTX}
    IN  /\ f.pc # "end" /\ f.type = GETS => f.init = I /\ state = I
        /\ f.pc # "end" /\ f.type = GETX => f.init \in {I, S} /\ state \in {I, f.init}
        /\ before /\ put => f.init \in (IF f.type = PUTX THEN {M} ELSE {S, E}) /\ state \in {f.init, S, I}
        /\ f.pc \in {"process", "directory"} /\ put => state \in (IF f.type = PUTX THEN {M} ELSE {S, E})
        /\ f.pc = "end" => state \in (IF put THEN {I} ELSE IF f.type = GETS THEN {S, E} ELSE {M})

KnowsOK(t, d) ==
    LET f == Call(t, d)
    IN  /\ f.op = "access" => OwnAccess(f, Waits(t, d))
        /\ f.op = "access" /\ d > 2 => ChildOK(f)
        /\ f.op = "inv" => OwnInv(f, Call(t, d - 1))

CallOK(t, d) == LocksOK(t, d) /\ ShapeOK(t, d) /\ KnowsOK(t, d)
CallsOK == \A t \in Threads : \A d \in 1 .. Depth(t) : CallOK(t, d)

(* Accesses climb and invalidations descend. *)
LevelOf(t, d) == hier.level[Call(t, d).c]
Ordered == \A t \in Threads : \A d, e \in 1 .. Depth(t) : d < e =>
    /\ IsAccess(t, d) /\ IsAccess(t, e) => LevelOf(t, d) < LevelOf(t, e)
    /\ IsAccess(t, d) /\ IsInv(t, e) /\ ~Waits(t, d) => LevelOf(t, e) < LevelOf(t, d)
    /\ IsInv(t, d) => IsInv(t, e) /\ LevelOf(t, e) < LevelOf(t, d)

(* No line is cached twice in a cache. *)
Distinct == \A c \in Caches : \A i, j \in Slot(c) :
    array[c][i] = array[c][j] => i = j \/ array[c][i] = NoLine

(* The slots of a cache. *)
SlotsOK == \A c \in Caches : \A i \in Slot(c) :
    LET e == tcc[c][i]
    IN  /\ array[c][i] = NoLine => bcc[c][i] = I /\ e.sharers = {}
        /\ array[c][i] # NoLine => Asked(hier, c, array[c][i])
        /\ e.sharers # {} => bcc[c][i] # I
        /\ isExclusive(e) => bcc[c][i] \in {E, M}
        /\ e.exclusive => \A x, y \in e.sharers : x = y
        /\ \A x \in e.sharers : Parent(x, array[c][i]) = c

(* The directory of a cache and its children. *)
Upgrades(f, p, c, a) ==
    f.op = "access" /\ f.pc = "directory" /\ f.c = p /\ f.child = c /\ f.addr = a /\ f.type = GETX
Upgrading(p, c, a) == \E t \in Threads : \E d \in 1 .. Depth(t) :
    Upgrades(Call(t, d), p, c, a) /\ ~Waits(t, d)
Unlocks(f, c, a, type) == f.op = "inv" /\ f.pc = "unlock" /\ f.c = c /\ f.addr = a /\ f.type = type
Unlocking(c, a, type) == \E t \in Threads : \E d \in 1 .. Depth(t) : Unlocks(Call(t, d), c, a, type)

Listed(c, a) ==
    LET p == Parent(c, a)
        e == EntryOf(p, a)
        s == StateOf(c, a)
    IN  \/ /\ c \in e.sharers <=> s # I
           /\ c \in e.sharers => (isExclusive(e) <=> s \in {E, M})
        \/ Upgrading(p, c, a) /\ s = S /\ c \notin e.sharers /\ ~isExclusive(e)
        \/ Unlocking(c, a, INV) /\ s = I /\ c \in e.sharers
        \/ Unlocking(c, a, INVX) /\ s = S /\ c \in e.sharers /\ isExclusive(e)
Directory == \A c \in Caches, a \in Lines : Parent(c, a) # MEM => Listed(c, a)

CoherenceInv == Types /\ Distinct /\ CallsOK /\ Ordered /\ SlotsOK /\ Directory

----------------------------------------------------------------------------
(* Arithmetic on the depth of a stack, in the form the steps below use it. *)

(* The numbers next to a depth. *)
LEMMA NearDepth ==
    \A n \in Nat : /\ n - 1 \in Int /\ n - 2 \in Int /\ n + 1 \in Nat
                   /\ n - 1 + 1 = n /\ n + 1 - 1 = n /\ n < n + 1 /\ n <= n + 1 /\ ~(n < n)
  BY SMT

(* A depth of at least one, of at least two, and above two. *)
LEMMA SomeDepth ==
    \A n \in Nat : /\ n >= 1 => n - 1 \in Nat /\ n \in 1 .. n /\ n \in 1 .. n + 1 /\ n + 1 \in 1 .. n + 1
                   /\ n >= 1 /\ n # 1 => n + 1 > 2 /\ n + 1 # 1 /\ n + 1 # 2
                   /\ n >= 2 => n # 1 /\ n >= 1 /\ n > 1 /\ n - 1 \in 1 .. n /\ (n > 2 \/ n = 2)
                   /\ n > 2 => n # 1 /\ n # 2 /\ n >= 2 /\ n >= 1 /\ n > 1 /\ n - 1 > 1
  BY SMT

(* The depths of a stack are positive. *)
LEMMA DepthNat == \A n \in Nat : \A d \in 1 .. n : d \in Nat /\ d >= 1 /\ d <= n
  BY SMT

(* The caller of the second call is the first. *)
LEMMA OneBelow == 2 - 1 = 1
  BY SMT

(* The depth of a call that is made. *)
LEMMA NextDepth ==
    \A n \in Nat : \A m : m = n + 1 => /\ m \in Nat /\ m - 1 = n /\ m \in 1 .. n + 1
                                       /\ n >= 1 /\ n # 1 => m > 2
  BY SMT

(* The first two calls. *)
LEMMA LowDepth ==
    \A n \in Nat : \A d \in 1 .. n : /\ d <= 2 \/ d > 2
                                     /\ d <= 2 => d = 1 \/ d = 2
                                     /\ d = 2 => ~(d > 2) /\ d # 1
  BY SMT

(* Two calls when at most one is made. *)
LEMMA NewDepth ==
    \A n, m \in Nat : m <= n + 1 => \A d, e \in 1 .. m : d < e =>
        /\ e <= n \/ e > n
        /\ e > n => e = n + 1 /\ m = n + 1 /\ d \in 1 .. n
        /\ e <= n => /\ d \in 1 .. n /\ e \in 1 .. n /\ d + 1 \in 1 .. n /\ d + 1 <= m
                     /\ d < n /\ d < m /\ d <= m /\ e <= m
  BY SMT

(* Levels are ordered. *)
LEMMA LessTrans == \A x, y, z \in Nat : x < y /\ y < z => x < z
  BY SMT

(* The depth of the caller of the innermost call. *)
LEMMA BelowDepth ==
    \A n \in Nat : /\ n - 1 \in Int /\ n - 1 <= n /\ n - 1 <= n + 1 /\ n - 1 < n /\ n - 1 < n + 1
                   /\ n - 1 + 1 = n /\ n - 1 <= n - 1
  BY SMT

(* The first element of a sequence. *)
LEMMA HeadOf ==
    ASSUME NEW X, NEW x \in Seq(X), Len(x) >= 1
    PROVE  x[1] \in X /\ Len(x) \in Nat
  BY SMT

(* The depths a step of the innermost call can change, when it goes on. *)
LEMMA TopDepth == \A n \in Nat : \A d \in 1 .. n : d > n - 1 => d = n
  BY SMT

(* The same, when it makes a call. *)
LEMMA PushDepth == \A n \in Nat : \A d \in 1 .. n + 1 : d > n - 1 => d = n \/ d = n + 1
  BY SMT

(* The same, when it returns. *)
LEMMA PopDepth == \A n \in Nat : \A d \in 1 .. n - 1 : d > n - 2 => d = n - 1
  BY SMT

(* The innermost call and its caller. *)
LEMMA LastTwo == \A n \in Nat : \A d \in 1 .. n : d > n - 2 => d = n \/ d = n - 1
  BY SMT

----------------------------------------------------------------------------
(* The tree. *)

(* What HierarchiesAssumption says about the tree of this run. *)
LEMMA Tree ==
    ASSUME Types
    PROVE  /\ CORE \notin Caches /\ MEM \notin Caches /\ hier.l1s \subseteq Caches
           /\ hier.ways \in [Caches -> Nat \ {0}]
           /\ \A c \in Caches : hier.level[c] \in Nat
           /\ \A c \in Caches, a \in Lines :
                 /\ Parent(c, a) \in Caches \cup {MEM} /\ ~Terminal(Parent(c, a))
                 /\ Parent(c, a) # MEM => hier.level[c] < hier.level[Parent(c, a)]
           /\ \A t \in Threads : hier.core[t] \subseteq hier.l1s
           /\ \A t, u \in Threads, c \in Caches : c \in hier.core[t] /\ c \in hier.core[u] => t = u
           /\ \A a \in Lines, c, d \in Caches :
                 Parent(c, a) = MEM /\ Parent(d, a) = MEM /\ Asked(hier, c, a) /\ Asked(hier, d, a) => c = d
<1>1. hier \in Hierarchies
  BY Zenon DEF Types
<1>2. /\ CORE \notin Caches /\ MEM \notin Caches /\ hier.l1s \subseteq Caches
      /\ hier.ways \in [Caches -> Nat \ {0}] /\ hier.level \in [Caches -> Nat]
      /\ hier.parent \in [Caches -> [Lines -> (Caches \ hier.l1s) \cup {MEM}]]
      /\ hier.core \in [Threads -> SUBSET hier.l1s]
      /\ \A t, u \in Threads : t # u => hier.core[t] \cap hier.core[u] = {}
      /\ \A a \in Lines, c, d \in Caches :
         /\ hier.parent[c][a] = d => hier.level[c] < hier.level[d]
         /\ hier.parent[c][a] = MEM /\ hier.parent[d][a] = MEM /\ Asked(hier, c, a) /\ Asked(hier, d, a)
               => c = d
  BY Zenon, <1>1, HierarchiesAssumption DEF Caches
<1>3. \A c \in Caches : hier.level[c] \in Nat
  BY Zenon, <1>2
<1>4. \A c \in Caches, a \in Lines :
         /\ Parent(c, a) \in Caches \cup {MEM} /\ ~Terminal(Parent(c, a))
         /\ Parent(c, a) # MEM => hier.level[c] < hier.level[Parent(c, a)]
  <2> SUFFICES ASSUME NEW c \in Caches, NEW a \in Lines
               PROVE  /\ Parent(c, a) \in Caches \cup {MEM} /\ ~Terminal(Parent(c, a))
                      /\ Parent(c, a) # MEM => hier.level[c] < hier.level[Parent(c, a)]
    BY Zenon
  <2>1. hier.parent[c][a] \in (Caches \ hier.l1s) \cup {MEM}
    BY <1>2
  <2> QED
    BY Zenon, <2>1, <1>2 DEF Parent, Terminal
<1>5. \A t \in Threads : hier.core[t] \subseteq hier.l1s
  BY Zenon, <1>2
<1>6. \A t, u \in Threads, c \in Caches : c \in hier.core[t] /\ c \in hier.core[u] => t = u
  BY Zenon, <1>2
<1> QED
  BY Zenon, <1>2, <1>3, <1>4, <1>5, <1>6 DEF Parent

----------------------------------------------------------------------------
(* The calls of a thread. *)

(* The innermost call is the one a thread runs. *)
LEMMA CallTypes ==
    ASSUME Types, NEW t \in Threads
    PROVE  /\ Depth(t) \in Nat
           /\ \A d \in 1 .. Depth(t) : Call(t, d) \in Frame
           /\ stack[t] # <<>> => Depth(t) >= 1 /\ Top(t) = Call(t, Depth(t))
           /\ stack[t] = <<>> <=> Depth(t) = 0
<1>1. stack[t] \in Seq(Frame)
  BY Zenon DEF Types
<1>2. Len(stack[t]) \in Nat /\ \A k \in 1 .. Len(stack[t]) : stack[t][k] \in Frame
  BY <1>1
<1>3. \A d \in 1 .. Depth(t) : Len(stack[t]) + 1 - d \in 1 .. Len(stack[t])
  BY <1>2 DEF Depth
<1>4. \A d \in 1 .. Depth(t) : Call(t, d) \in Frame
  BY Zenon, <1>2, <1>3 DEF Call
<1>5. stack[t] # <<>> => Len(stack[t]) >= 1 /\ Head(stack[t]) = stack[t][1]
  BY <1>1
<1>6. Len(stack[t]) + 1 - Len(stack[t]) = 1
  BY <1>2
<1>7. stack[t] = <<>> <=> Len(stack[t]) = 0
  BY <1>1
<1> QED
  BY Zenon, <1>2, <1>4, <1>5, <1>6, <1>7 DEF Depth, Call, Top

(* The kinds of calls. *)
LEMMA FrameKinds ==
    ASSUME NEW f \in Frame
    PROVE  /\ f.op = "access" <=> f \in AccessFrame
           /\ f.op = "inv" <=> f \in InvFrame
           /\ f.op = "replace" <=> f \in ReplaceFrame
           /\ f.c \in Caches /\ f.addr \in Lines
  BY Zenon DEF Frame, AccessFrame, InvFrame, ReplaceFrame

Elsewhere(t) == \A u \in Threads : u # t => stack'[u] = stack[u]
Stays(t, f) ==
    /\ Depth(t)' = Depth(t) /\ Elsewhere(t)
    /\ \A d \in 1 .. Depth(t) : Call(t, d)' = IF d = Depth(t) THEN f ELSE Call(t, d)
Pushes(t, f, g) ==
    /\ Depth(t)' = Depth(t) + 1 /\ Elsewhere(t)
    /\ \A d \in 1 .. Depth(t) + 1 :
         Call(t, d)' = IF d = Depth(t) + 1 THEN g ELSE IF d = Depth(t) THEN f ELSE Call(t, d)
Pops(t) ==
    /\ Depth(t)' = Depth(t) - 1 /\ Elsewhere(t)
    /\ \A d \in 1 .. Depth(t) - 1 : Call(t, d)' = Call(t, d)
Returns(t, g) ==
    /\ Depth(t)' = Depth(t) - 1 /\ Elsewhere(t)
    /\ \A d \in 1 .. Depth(t) - 1 : Call(t, d)' = IF d = Depth(t) - 1 THEN g ELSE Call(t, d)

(* Ways are numbered from 1. *)
LEMMA SlotNat ==
    ASSUME Types
    PROVE  \A c \in Caches : \A i \in Slot(c) : i \in Nat /\ i # 0
  BY Tree DEF Slot

(* What has to be shown of an access h after a step. *)
LEMMA AccessAt ==
    ASSUME NEW t, NEW d, NEW h, Call(t, d)' = h, h.op = "access", NEW w \in BOOLEAN, Waits(t, d)' = w, hier' = hier,
           ~w /\ h.pc \notin {"tcc", "bcc"} => bccLock'[h.c] = t,
           h.pc # "tcc" /\ ~Terminal(h.c) => tccLock'[h.c] = t,
           ShapeOK(t, d)', OwnAccess(h, w)', d > 2 => ChildOK(h)'
    PROVE  CallOK(t, d)'
<1>1. KnowsOK(t, d)'
  <2>1. OwnAccess(Call(t, d), Waits(t, d))'
    BY Zenon DEF OwnAccess
  <2>2. d > 2 => ChildOK(Call(t, d))'
    BY Zenon DEF ChildOK
  <2> QED
    BY Zenon, <2>1, <2>2 DEF KnowsOK
<1>2. LocksOK(t, d)'
  <2>1. HoldsBcc(t, d)' => ~w /\ h.pc \notin {"tcc", "bcc"}
    BY Zenon DEF HoldsBcc, IsAccess, IsInv
  <2>2. HoldsTcc(t, d)' => h.pc # "tcc" /\ ~Terminal(h.c)
    BY Zenon DEF HoldsTcc, Terminal
  <2> QED
    BY Zenon, <2>1, <2>2 DEF LocksOK
<1> QED
  BY Zenon, <1>1, <1>2 DEF CallOK

(* What has to be shown of an invalidation h, sent by g, after a step. *)
LEMMA InvAt ==
    ASSUME NEW t, NEW d, NEW h, Call(t, d)' = h, h.op = "inv", NEW g, Call(t, d - 1)' = g, hier' = hier,
           d \in Nat, d > 2, h.pc \in {"children", "filter"} => bccLock'[h.c] = t, Sent(h, g)', OwnInv(h, g)'
    PROVE  CallOK(t, d)'
<1>1. KnowsOK(t, d)'
  <2>1. OwnInv(Call(t, d), Call(t, d - 1))'
    BY DEF OwnInv, StateOf, lookup
  <2> QED
    BY Zenon, <2>1 DEF KnowsOK
<1>2. ShapeOK(t, d)'
  <2>1. Sent(Call(t, d), Call(t, d - 1))'
    BY Zenon DEF Sent
  <2> QED
    BY Zenon, <2>1, SomeDepth DEF ShapeOK
<1>3. LocksOK(t, d)'
  BY Zenon DEF LocksOK, HoldsBcc, HoldsTcc, IsAccess, IsInv
<1> QED
  BY Zenon, <1>1, <1>2, <1>3 DEF CallOK

(* Nothing but the stack of t changes, and it goes on as before. *)
LEMMA UnchangedCall ==
    ASSUME NEW t, NEW d, CallOK(t, d), Call(t, d)' = Call(t, d),
           d > 1 => Call(t, d - 1)' = Call(t, d - 1), Waits(t, d)' = Waits(t, d),
           d \in Nat, UNCHANGED <<hier, array, bcc, tcc, bccLock, tccLock>>
    PROVE  CallOK(t, d)'
<1>1. LocksOK(t, d)'
  BY Zenon DEF CallOK, LocksOK, HoldsBcc, HoldsTcc, IsAccess, IsInv, Terminal
<1>2. ShapeOK(t, d)'
  <2>1. d > 2 => Call(t, d - 1)' = Call(t, d - 1)
    BY Zenon, SomeDepth
  <2>2. ShapeOK(t, d)
    BY Zenon DEF CallOK
  <2>3. ASSUME Call(t, d).op = "access", d > 2 PROVE Called(Call(t, d), Call(t, d - 1))'
    BY ZenonT(30), <2>1, <2>2, <2>3 DEF ShapeOK, Called, Slot, Parent, Terminal
  <2>4. ASSUME Call(t, d).op = "inv" PROVE d > 2 /\ Sent(Call(t, d), Call(t, d - 1))'
    BY ZenonT(30), <2>1, <2>2, <2>4 DEF ShapeOK, Sent, Slot, isExclusive
  <2> QED
    BY ZenonT(30), <2>2, <2>3, <2>4 DEF ShapeOK
<1>3. KnowsOK(t, d)'
  <2>1. Call(t, d).op = "access" => OwnAccess(Call(t, d), Waits(t, d))'
    BY Zenon DEF CallOK, KnowsOK, OwnAccess, Slot, Terminal
  <2>2. Call(t, d).op = "access" /\ d > 2 => ChildOK(Call(t, d))'
    BY Zenon DEF CallOK, KnowsOK, ChildOK
  <2>3. Call(t, d).op = "inv" => OwnInv(Call(t, d), Call(t, d - 1))'
    <3> SUFFICES ASSUME Call(t, d).op = "inv" PROVE OwnInv(Call(t, d), Call(t, d - 1))'
      BY Zenon
    <3>1. d > 2 /\ OwnInv(Call(t, d), Call(t, d - 1))
      BY Zenon DEF CallOK, ShapeOK, KnowsOK
    <3> QED
      <4>1. StateOf(Call(t, d).c, Call(t, d).addr)' = StateOf(Call(t, d).c, Call(t, d).addr)
        BY DEF StateOf, lookup, Slot
      <4>2. Call(t, d - 1)' = Call(t, d - 1)
        BY Zenon, <3>1, SomeDepth
      <4> QED
        BY ZenonT(30), <3>1, <4>1, <4>2 DEF OwnInv, Slot, Terminal
  <2> QED
    BY Zenon, <2>1, <2>2, <2>3 DEF KnowsOK
<1> QED
  BY Zenon, <1>1, <1>2, <1>3 DEF CallOK

(* Stay replaces the innermost call. *)
LEMMA StayEffect ==
    ASSUME Types, NEW t \in Threads, stack[t] # <<>>, NEW f \in Frame, Stay(t, f)
    PROVE  Stays(t, f) /\ stack' \in [Threads -> Seq(Frame)]
<1>1. stack \in [Threads -> Seq(Frame)] /\ stack[t] \in Seq(Frame) /\ Len(stack[t]) \in Nat /\ Len(stack[t]) >= 1
  BY DEF Types
<1>2. Tail(stack[t]) \in Seq(Frame) /\ Len(Tail(stack[t])) = Len(stack[t]) - 1
      /\ \A k \in 1 .. Len(stack[t]) - 1 : Tail(stack[t])[k] = stack[t][k + 1]
  BY <1>1
<1> DEFINE new == <<f>> \o Tail(stack[t])
<1>3. new \in Seq(Frame) /\ Len(new) = Len(stack[t]) /\ new[1] = f
      /\ \A k \in 2 .. Len(stack[t]) : new[k] = stack[t][k]
  <2>1. <<f>> \in Seq(Frame) /\ Len(<<f>>) = 1 /\ <<f>>[1] = f
    OBVIOUS
  <2>2. new \in Seq(Frame) /\ Len(new) = 1 + Len(Tail(stack[t]))
    BY <2>1, <1>2
  <2>3. \A k \in 1 .. Len(new) : new[k] = IF k <= 1 THEN <<f>>[k] ELSE Tail(stack[t])[k - 1]
    BY <2>1, <1>1, <1>2
  <2> QED
    BY <2>1, <2>2, <2>3, <1>1, <1>2
<1>4. stack' = [stack EXCEPT ![t] = new]
  BY Zenon DEF Stay
<1> HIDE DEF new
<1>5. stack'[t] = new /\ stack' \in [Threads -> Seq(Frame)] /\ Elsewhere(t)
  BY Zenon, <1>1, <1>3, <1>4 DEF Elsewhere
<1>6. ASSUME NEW d \in 1 .. Len(stack[t])
      PROVE  new[Len(new) + 1 - d] = IF d = Len(stack[t]) THEN f ELSE stack[t][Len(stack[t]) + 1 - d]
  BY <1>1, <1>3
<1> QED
  BY Zenon, <1>3, <1>5, <1>6 DEF Stays, Depth, Call

(* Push replaces the innermost call and makes another. *)
LEMMA PushEffect ==
    ASSUME Types, NEW t \in Threads, stack[t] # <<>>, NEW f \in Frame, NEW g \in Frame, Push(t, f, g)
    PROVE  Pushes(t, f, g) /\ stack' \in [Threads -> Seq(Frame)]
<1>1. stack \in [Threads -> Seq(Frame)] /\ stack[t] \in Seq(Frame) /\ Len(stack[t]) \in Nat /\ Len(stack[t]) >= 1
  BY DEF Types
<1>2. Tail(stack[t]) \in Seq(Frame) /\ Len(Tail(stack[t])) = Len(stack[t]) - 1
      /\ \A k \in 1 .. Len(stack[t]) - 1 : Tail(stack[t])[k] = stack[t][k + 1]
  BY <1>1
<1> DEFINE new == <<g, f>> \o Tail(stack[t])
<1>3. new \in Seq(Frame) /\ Len(new) = Len(stack[t]) + 1 /\ new[1] = g /\ new[2] = f
      /\ \A k \in 3 .. Len(stack[t]) + 1 : new[k] = stack[t][k - 1]
  <2>1. <<g, f>> \in Seq(Frame) /\ Len(<<g, f>>) = 2 /\ <<g, f>>[1] = g /\ <<g, f>>[2] = f
    OBVIOUS
  <2>2. new \in Seq(Frame) /\ Len(new) = 2 + Len(Tail(stack[t]))
    BY <2>1, <1>2
  <2>3. \A k \in 1 .. Len(new) : new[k] = IF k <= 2 THEN <<g, f>>[k] ELSE Tail(stack[t])[k - 2]
    BY <2>1, <1>1, <1>2
  <2> QED
    BY <2>1, <2>2, <2>3, <1>1, <1>2
<1>4. stack' = [stack EXCEPT ![t] = new]
  BY Zenon DEF Push
<1> HIDE DEF new
<1>5. stack'[t] = new /\ stack' \in [Threads -> Seq(Frame)] /\ Elsewhere(t)
  BY Zenon, <1>1, <1>3, <1>4 DEF Elsewhere
<1>6. ASSUME NEW d \in 1 .. Len(stack[t]) + 1
      PROVE  new[Len(new) + 1 - d] = IF d = Len(stack[t]) + 1 THEN g ELSE IF d = Len(stack[t]) THEN f
                                     ELSE stack[t][Len(stack[t]) + 1 - d]
  <2>1. Len(new) + 1 - d \in 1 .. Len(stack[t]) + 1 /\ d \in Int
    BY <1>1, <1>3
  <2>2. CASE d = Len(stack[t]) + 1
    BY <2>2, <1>1, <1>3
  <2>3. CASE d = Len(stack[t])
    BY <2>3, <1>1, <1>3
  <2>4. CASE d < Len(stack[t])
    <3> DEFINE k == Len(new) + 1 - d
    <3>1. k \in 3 .. Len(stack[t]) + 1 /\ k - 1 = Len(stack[t]) + 1 - d
      BY <2>1, <2>4, <1>1, <1>3
    <3> HIDE DEF k
    <3>2. new[k] = stack[t][k - 1]
      BY Zenon, <3>1, <1>3
    <3>3. new[k] = stack[t][Len(stack[t]) + 1 - d]
      BY Zenon, <3>1, <3>2
    <3> QED
      BY <3>3, <2>4, <1>1 DEF k
  <2> QED
    BY <2>1, <2>2, <2>3, <2>4, <1>1
<1> QED
  BY Zenon, <1>3, <1>5, <1>6 DEF Pushes, Depth, Call

(* Dropping the innermost call. *)
LEMMA PopEffect ==
    ASSUME Types, NEW t \in Threads, stack[t] # <<>>, stack' = [stack EXCEPT ![t] = Tail(@)]
    PROVE  Pops(t) /\ stack' \in [Threads -> Seq(Frame)]
<1>1. stack \in [Threads -> Seq(Frame)] /\ stack[t] \in Seq(Frame) /\ Len(stack[t]) \in Nat /\ Len(stack[t]) >= 1
  BY DEF Types
<1>2. Tail(stack[t]) \in Seq(Frame) /\ Len(Tail(stack[t])) = Len(stack[t]) - 1
      /\ \A k \in 1 .. Len(stack[t]) - 1 : Tail(stack[t])[k] = stack[t][k + 1]
  BY <1>1
<1>5. stack'[t] = Tail(stack[t]) /\ stack' \in [Threads -> Seq(Frame)] /\ Elsewhere(t)
  BY Zenon, <1>1, <1>2 DEF Elsewhere
<1>6. ASSUME NEW d \in 1 .. Len(stack[t]) - 1
      PROVE  Tail(stack[t])[Len(Tail(stack[t])) + 1 - d] = stack[t][Len(stack[t]) + 1 - d]
  BY <1>1, <1>2
<1> QED
  BY Zenon, <1>2, <1>5, <1>6 DEF Pops, Depth, Call

(* Dropping the innermost call and replacing its caller. *)
LEMMA ReturnEffect ==
    ASSUME Types, NEW t \in Threads, Depth(t) >= 2, NEW g \in Frame,
           stack' = [stack EXCEPT ![t] = <<g>> \o Tail(Tail(@))]
    PROVE  Returns(t, g) /\ stack' \in [Threads -> Seq(Frame)] /\ stack[t][2] = Call(t, Depth(t) - 1)
<1>1. stack \in [Threads -> Seq(Frame)] /\ stack[t] \in Seq(Frame) /\ Len(stack[t]) \in Nat /\ Len(stack[t]) >= 2
      /\ stack[t] # <<>>
  BY DEF Types, Depth
<1>2. Tail(stack[t]) \in Seq(Frame) /\ Len(Tail(stack[t])) = Len(stack[t]) - 1
      /\ \A k \in 1 .. Len(stack[t]) - 1 : Tail(stack[t])[k] = stack[t][k + 1]
  BY <1>1
<1>3. Tail(Tail(stack[t])) \in Seq(Frame) /\ Len(Tail(Tail(stack[t]))) = Len(stack[t]) - 2
      /\ \A k \in 1 .. Len(stack[t]) - 2 : Tail(Tail(stack[t]))[k] = stack[t][k + 2]
  <2> DEFINE rest == Tail(stack[t])
  <2>1. rest \in Seq(Frame) /\ rest # <<>> /\ Len(rest) = Len(stack[t]) - 1
    <3>1. rest \in Seq(Frame) /\ Len(rest) = Len(stack[t]) - 1 /\ Len(rest) >= 1
      BY <1>1, <1>2
    <3> HIDE DEF rest
    <3> QED
      BY <3>1
  <2>2. \A k \in 1 .. Len(stack[t]) - 2 : rest[k + 1] = stack[t][k + 2]
    BY <1>1, <1>2
  <2> HIDE DEF rest
  <2>3. Tail(rest) \in Seq(Frame) /\ Len(Tail(rest)) = Len(rest) - 1
        /\ \A k \in 1 .. Len(rest) - 1 : Tail(rest)[k] = rest[k + 1]
    BY <2>1
  <2>4. Tail(rest) \in Seq(Frame) /\ Len(Tail(rest)) = Len(stack[t]) - 2
        /\ \A k \in 1 .. Len(stack[t]) - 2 : Tail(rest)[k] = stack[t][k + 2]
    BY <1>1, <2>1, <2>2, <2>3
  <2> QED
    BY Zenon, <2>4 DEF rest
<1> DEFINE new == <<g>> \o Tail(Tail(stack[t]))
<1>4. new \in Seq(Frame) /\ Len(new) = Len(stack[t]) - 1 /\ new[1] = g
      /\ \A k \in 2 .. Len(stack[t]) - 1 : new[k] = stack[t][k + 1]
  <2>1. <<g>> \in Seq(Frame) /\ Len(<<g>>) = 1 /\ <<g>>[1] = g
    OBVIOUS
  <2>2. new \in Seq(Frame) /\ Len(new) = 1 + Len(Tail(Tail(stack[t])))
    BY <2>1, <1>3
  <2>3. \A k \in 1 .. Len(new) : new[k] = IF k <= 1 THEN <<g>>[k] ELSE Tail(Tail(stack[t]))[k - 1]
    BY <2>1, <1>1, <1>3
  <2> QED
    BY <2>1, <2>2, <2>3, <1>1, <1>3
<1>5. stack' = [stack EXCEPT ![t] = new]
  BY Zenon
<1> HIDE DEF new
<1>6. stack'[t] = new /\ stack' \in [Threads -> Seq(Frame)] /\ Elsewhere(t)
  BY Zenon, <1>1, <1>4, <1>5 DEF Elsewhere
<1>7. ASSUME NEW d \in 1 .. Len(stack[t]) - 1
      PROVE  new[Len(new) + 1 - d] = IF d = Len(stack[t]) - 1 THEN g ELSE stack[t][Len(stack[t]) + 1 - d]
  <2>1. CASE d = Len(stack[t]) - 1
    BY <2>1, <1>1, <1>4
  <2>2. CASE d < Len(stack[t]) - 1
    <3> DEFINE k == Len(new) + 1 - d
    <3>1. k \in 2 .. Len(stack[t]) - 1 /\ k + 1 = Len(stack[t]) + 1 - d
      BY <2>2, <1>1, <1>4
    <3> HIDE DEF k
    <3>2. new[k] = stack[t][k + 1]
      BY Zenon, <3>1, <1>4
    <3>3. new[k] = stack[t][Len(stack[t]) + 1 - d]
      BY Zenon, <3>1, <3>2
    <3> QED
      BY <3>3, <2>2, <1>1 DEF k
  <2> QED
    BY <2>1, <2>2, <1>1
<1>8. Len(stack[t]) + 1 - (Len(stack[t]) - 1) = 2
  BY <1>1
<1> QED
  BY Zenon, <1>4, <1>6, <1>7, <1>8 DEF Returns, Depth, Call

----------------------------------------------------------------------------
(* Locks separate the calls. *)

(* Calls that hold the lock of the same cache are the same call. *)
LEMMA LockUnique ==
    ASSUME Types, CallsOK, Ordered, NEW t \in Threads, NEW u \in Threads,
           NEW d \in 1 .. Depth(t), NEW e \in 1 .. Depth(u),
           HoldsBcc(t, d), HoldsBcc(u, e), Call(t, d).c = Call(u, e).c
    PROVE  t = u /\ d = e
<1>1. bccLock[Call(t, d).c] = t /\ bccLock[Call(u, e).c] = u
  BY Zenon DEF CallsOK, CallOK, LocksOK
<1>2. t = u
  BY Zenon, <1>1
<1>3. LevelOf(t, d) = LevelOf(t, e) /\ LevelOf(t, d) \in Nat /\ Depth(t) \in Nat
  BY Zenon, <1>2, CallTypes, FrameKinds, Tree DEF LevelOf
<1>4. ASSUME NEW x \in 1 .. Depth(t), NEW y \in 1 .. Depth(t), x < y, HoldsBcc(t, x), HoldsBcc(t, y),
             LevelOf(t, x) = LevelOf(t, y), LevelOf(t, x) \in Nat
      PROVE  FALSE
  <2>1. IsAccess(t, x) \/ IsInv(t, x)
    BY Zenon, <1>4 DEF HoldsBcc
  <2>2. IsAccess(t, y) \/ IsInv(t, y)
    BY Zenon, <1>4 DEF HoldsBcc
  <2>3. IsAccess(t, x) => ~Waits(t, x)
    BY Zenon, <1>4 DEF HoldsBcc, IsAccess, IsInv
  <2> QED
    BY <1>4, <2>1, <2>2, <2>3 DEF Ordered
<1> QED
  BY <1>2, <1>3, <1>4

(* Of the accesses that are past startAccess's first lock, one per cache. *)
LEMMA MidUnique ==
    ASSUME Types, CallsOK, Ordered, NEW t \in Threads, NEW u \in Threads,
           NEW d \in 1 .. Depth(t), NEW e \in 1 .. Depth(u), IsAccess(t, d), IsAccess(u, e),
           Call(t, d).pc # "tcc", Call(u, e).pc # "tcc", Call(t, d).c = Call(u, e).c
    PROVE  t = u /\ d = e
<1> DEFINE c == Call(t, d).c
<1>1. c \in Caches /\ Depth(t) \in Nat /\ Depth(u) \in Nat
  BY Zenon, CallTypes, FrameKinds
<1>2. t = u
  <2>1. CASE ~Terminal(c)
    <3>1. HoldsTcc(t, d) /\ HoldsTcc(u, e)
      BY Zenon, <2>1 DEF HoldsTcc
    <3>2. tccLock[Call(t, d).c] = t /\ tccLock[Call(u, e).c] = u
      BY Zenon, <3>1 DEF CallsOK, CallOK, LocksOK
    <3> QED
      BY Zenon, <3>2
  <2>2. CASE Terminal(c)
    <3>1. ASSUME NEW v \in Threads, NEW x \in 1 .. Depth(v), IsAccess(v, x), Call(v, x).c = c
          PROVE  c \in hier.core[v]
      <4>1. Call(v, x) \in Frame /\ Call(v, x).addr \in Lines /\ Depth(v) \in Nat
        BY Zenon, CallTypes, FrameKinds
      <4>2. ShapeOK(v, x)
        BY Zenon DEF CallsOK, CallOK
      <4>3. x # 1
        BY Zenon, <3>1, <4>2 DEF ShapeOK, IsAccess
      <4>4. CASE x > 2
        <5>1. Call(v, x).c = Parent(Call(v, x - 1).c, Call(v, x).addr)
          BY Zenon, <3>1, <4>2, <4>4 DEF ShapeOK, IsAccess, Called
        <5>2. x - 1 \in 1 .. Depth(v)
          BY <4>1, <4>4
        <5>3. Call(v, x - 1).c \in Caches
          BY Zenon, <5>2, CallTypes, FrameKinds
        <5> QED
          BY <5>1, <5>3, <4>1, <3>1, <2>2, Tree
      <4> QED
        BY <4>1, <4>2, <4>3, <4>4, <3>1 DEF ShapeOK, IsAccess
    <3>2. c \in hier.core[t] /\ c \in hier.core[u]
      BY Zenon, <3>1
    <3> QED
      BY Zenon, <3>2, <1>1, Tree
  <2> QED
    BY Zenon, <2>1, <2>2
<1>3. LevelOf(t, d) = LevelOf(t, e) /\ LevelOf(t, d) \in Nat
  BY Zenon, <1>1, <1>2, Tree DEF LevelOf
<1> QED
  BY <1>1, <1>2, <1>3 DEF Ordered

(* An access below the innermost call is past its first lock. *)
LEMMA CallerOf ==
    ASSUME Types, CallsOK, NEW t \in Threads, NEW d \in 1 .. Depth(t), IsAccess(t, d), d > 2
    PROVE  /\ d - 1 \in 1 .. Depth(t) /\ IsAccess(t, d - 1) /\ Waits(t, d - 1)
           /\ Call(t, d - 1).pc \in {"insert", "directory", "end"}
           /\ Called(Call(t, d), Call(t, d - 1))
           /\ Call(t, d).child = Call(t, d - 1).c /\ Call(t, d).child \in Caches
           /\ Call(t, d).slot \in Slot(Call(t, d).child)
           /\ array[Call(t, d).child][Call(t, d).slot] = Call(t, d).addr
           /\ Call(t, d).c = Parent(Call(t, d).child, Call(t, d).addr)
           /\ Call(t, d).c # Call(t, d).child
<1>1. Depth(t) \in Nat /\ Call(t, d) \in Frame /\ Call(t, d).addr \in Lines /\ Call(t, d).c \in Caches
  BY Zenon, CallTypes, FrameKinds
<1>2. d - 1 \in 1 .. Depth(t) /\ d - 1 < Depth(t) /\ d - 1 + 1 = d
  BY <1>1
<1>3. Call(t, d - 1) \in Frame /\ Call(t, d - 1).c \in Caches
  BY Zenon, <1>2, CallTypes, FrameKinds
<1>4. Called(Call(t, d), Call(t, d - 1))
  BY Zenon DEF CallsOK, CallOK, ShapeOK, IsAccess
<1>5. IsAccess(t, d - 1) /\ Waits(t, d - 1)
  BY Zenon, <1>2, <1>4 DEF Called, IsAccess, Waits
<1>6. hier.level[Call(t, d - 1).c] < hier.level[Call(t, d).c]
  BY <1>1, <1>3, <1>4, Tree DEF Called
<1>7. Call(t, d).c # Call(t, d - 1).c
  BY <1>1, <1>3, <1>6, Tree
<1> QED
  BY Zenon, <1>1, <1>2, <1>3, <1>4, <1>5, <1>7 DEF Called

(* A cache waits for at most one access. *)
LEMMA ChildUnique ==
    ASSUME Types, CallsOK, Ordered, NEW t \in Threads, NEW u \in Threads,
           NEW d \in 1 .. Depth(t), NEW e \in 1 .. Depth(u), IsAccess(t, d), IsAccess(u, e),
           d > 2, e > 2, Call(t, d).child = Call(u, e).child
    PROVE  t = u /\ d = e
<1>1. /\ d - 1 \in 1 .. Depth(t) /\ IsAccess(t, d - 1) /\ Call(t, d - 1).pc # "tcc"
      /\ Call(t, d).child = Call(t, d - 1).c
  BY Zenon, CallerOf
<1>2. /\ e - 1 \in 1 .. Depth(u) /\ IsAccess(u, e - 1) /\ Call(u, e - 1).pc # "tcc"
      /\ Call(u, e).child = Call(u, e - 1).c
  BY Zenon, CallerOf
<1>3. t = u /\ d - 1 = e - 1
  BY Zenon, <1>1, <1>2, MidUnique
<1>4. Depth(t) \in Nat /\ Depth(u) \in Nat
  BY Zenon, CallTypes
<1> QED
  BY <1>3, <1>4

(* The sender of an invalidation holds the lock of the parent. *)
LEMMA SenderHolds ==
    ASSUME Types, CallsOK, SlotsOK, NEW t \in Threads, NEW d \in 1 .. Depth(t), IsInv(t, d)
    PROVE  /\ d > 2 /\ d - 1 \in 1 .. Depth(t) /\ HoldsBcc(t, d - 1)
           /\ Call(t, d - 1) \in Frame
           /\ Sent(Call(t, d), Call(t, d - 1))
           /\ Call(t, d - 1).c \in Caches /\ Call(t, d - 1).id \in Slot(Call(t, d - 1).c)
           /\ Call(t, d - 1).c = Parent(Call(t, d).c, Call(t, d).addr)
           /\ Call(t, d - 1).c # Call(t, d).c
           /\ array[Call(t, d - 1).c][Call(t, d - 1).id] = Call(t, d).addr
           /\ Call(t, d).c \in tcc[Call(t, d - 1).c][Call(t, d - 1).id].sharers
<1>1. Depth(t) \in Nat /\ Call(t, d) \in Frame /\ Call(t, d).addr \in Lines /\ Call(t, d).c \in Caches
  BY Zenon, CallTypes, FrameKinds
<1>2. d > 2 /\ Sent(Call(t, d), Call(t, d - 1))
  BY Zenon DEF CallsOK, CallOK, ShapeOK, IsInv
<1>3. d - 1 \in 1 .. Depth(t) /\ d - 1 + 1 = d
  BY <1>1, <1>2
<1>4. Call(t, d - 1) \in Frame /\ Call(t, d - 1).c \in Caches
  BY Zenon, <1>3, CallTypes, FrameKinds
<1>5. ~IsAccess(t, d)
  BY Zenon DEF IsAccess, IsInv
<1>6. HoldsBcc(t, d - 1)
  BY Zenon, <1>2, <1>3, <1>5 DEF Sent, HoldsBcc, IsAccess, IsInv, Waits
<1>7. /\ Call(t, d).c \in tcc[Call(t, d - 1).c][Call(t, d - 1).id].sharers
      /\ Call(t, d - 1).id \in Slot(Call(t, d - 1).c)
      /\ array[Call(t, d - 1).c][Call(t, d - 1).id] = Call(t, d).addr
  BY Zenon, <1>2 DEF Sent
<1>8. Call(t, d - 1).c = Parent(Call(t, d).c, Call(t, d).addr)
  BY <1>4, <1>7 DEF SlotsOK
<1>9. Call(t, d - 1).c # Call(t, d).c
  BY <1>1, <1>4, <1>8, Tree
<1> QED
  BY Zenon, <1>2, <1>3, <1>4, <1>6, <1>7, <1>8, <1>9

----------------------------------------------------------------------------
(* What a step leaves alone. *)

(* Thread t runs a call that holds the lock of cache c. *)
Holder(t, c) == Depth(t) >= 1 /\ HoldsBcc(t, Depth(t)) /\ Call(t, Depth(t)).c = c

(* Thread t grants line a to cache c. *)
Grants(t, c) ==
    /\ Depth(t) > 2 /\ IsAccess(t, Depth(t)) /\ HoldsBcc(t, Depth(t))
    /\ Call(t, Depth(t)).child = c

(* A step of thread t changes the locks and the line of the cache whose    *)
(* lock it holds, a line of the child it grants it to, and the directory   *)
(* entry of the sender of an invalidation it ends.  Its n outermost calls  *)
(* stay as they are.                                                       *)
Footprint(t, n) ==
    LET top == Depth(t)
        f == Call(t, top)
        g == Call(t, top - 1)
    IN  /\ hier' = hier
        /\ \A c \in Caches : bccLock'[c] = bccLock[c] \/ bccLock[c] = FREE \/ Holder(t, c)
        /\ \A c \in Caches : \/ tccLock'[c] = tccLock[c] \/ tccLock[c] = FREE
                             \/ top >= 1 /\ HoldsTcc(t, top) /\ f.c = c
        /\ \A c \in Caches : array'[c] = array[c] \/ (Holder(t, c) /\ IsAccess(t, top))
        /\ \A c \in Caches : \A i \in Slot(c) :
              \/ bcc'[c][i] = bcc[c][i]
              \/ /\ Holder(t, c) /\ i = f.id
                 /\ IsInv(t, top) => bcc'[c][i] = IF f.type = INV THEN I ELSE S
              \/ Grants(t, c) /\ i = f.slot
        /\ \A c \in Caches : \A i \in Slot(c) :
              \/ tcc'[c][i] = tcc[c][i]
              \/ Holder(t, c) /\ i = f.id /\ IsAccess(t, top)
              \/ /\ top >= 1 /\ IsInv(t, top) /\ n = top - 2 /\ c = g.c /\ i = g.id
                 /\ tcc'[c][i].sharers \subseteq tcc[c][i].sharers
        /\ \A c \in Caches, a \in Lines :
              \/ StateOf(c, a)' = StateOf(c, a)
              \/ Holder(t, c) /\ IsAccess(t, top) /\ (Parent(c, a) = MEM \/ StateOf(c, a) \in {E, M})
              \/ Holder(t, c) /\ IsInv(t, top) /\ a = f.addr
              \/ Grants(t, c) /\ a = f.addr
Kept(t, n) ==
    /\ Elsewhere(t) /\ n \in Int /\ n <= Depth(t) /\ n <= Depth(t)'
    /\ \A d \in 1 .. n : Call(t, d)' = Call(t, d)
    /\ n >= 1 => n < Depth(t) /\ n < Depth(t)' /\ Call(t, n + 1)'.op = Call(t, n + 1).op

(* What a call relies on. *)
Rely(u, d) ==
    LET f == Call(u, d)
    IN  /\ HoldsBcc(u, d) => bccLock'[f.c] = bccLock[f.c]
        /\ HoldsTcc(u, d) => tccLock'[f.c] = tccLock[f.c]
        /\ HoldsBcc(u, d) \/ (IsAccess(u, d) /\ f.pc # "tcc") => array'[f.c] = array[f.c]
        /\ HoldsBcc(u, d) /\ f.id \in Slot(f.c) =>
              bcc'[f.c][f.id] = bcc[f.c][f.id] /\ tcc'[f.c][f.id] = tcc[f.c][f.id]
        /\ IsAccess(u, d) /\ f.pc = "insert" => tcc'[f.c][f.id].sharers = {}
        /\ IsAccess(u, d) /\ d > 2 =>
              /\ array'[f.child][f.slot] = array[f.child][f.slot]
              /\ \/ bcc'[f.child][f.slot] = bcc[f.child][f.slot]
                 \/ /\ ~HoldsBcc(u, d)
                    /\ \/ bcc'[f.child][f.slot] = I
                       \/ bcc'[f.child][f.slot] = S /\ bcc[f.child][f.slot] \in {E, M}
        /\ IsInv(u, d) /\ f.pc = "unlock" =>
              \A c \in Caches, a \in Lines : c = f.c /\ a = f.addr => StateOf(c, a)' = StateOf(c, a)

(* What is known of the innermost call when it holds the lock. *)
LEMMA HolderIs ==
    ASSUME CoherenceInv, NEW t \in Threads, Depth(t) >= 1
    PROVE  /\ Depth(t) \in 1 .. Depth(t) /\ Depth(t) \in Nat
           /\ HoldsBcc(t, Depth(t)) /\ IsAccess(t, Depth(t)) =>
                 Call(t, Depth(t)).pc \notin {"tcc", "bcc"}
           /\ HoldsBcc(t, Depth(t)) /\ IsInv(t, Depth(t)) =>
                 /\ Call(t, Depth(t)).id \in Slot(Call(t, Depth(t)).c)
                 /\ array[Call(t, Depth(t)).c][Call(t, Depth(t)).id] = Call(t, Depth(t)).addr
                 /\ Call(t, Depth(t)).type = INVX => bcc[Call(t, Depth(t)).c][Call(t, Depth(t)).id] \in {E, M}
<1>1. Depth(t) \in Nat
  BY Zenon, CallTypes DEF CoherenceInv
<1>2. Depth(t) \in 1 .. Depth(t)
  BY <1>1
<1>3. CallOK(t, Depth(t))
  BY Zenon, <1>2 DEF CoherenceInv, CallsOK
<1>4. IsInv(t, Depth(t)) /\ IsAccess(t, Depth(t)) => FALSE
  BY Zenon DEF IsInv, IsAccess
<1>5. HoldsBcc(t, Depth(t)) /\ IsAccess(t, Depth(t)) => Call(t, Depth(t)).pc \notin {"tcc", "bcc"}
  BY Zenon, <1>4 DEF HoldsBcc
<1>6. HoldsBcc(t, Depth(t)) /\ IsInv(t, Depth(t)) => Call(t, Depth(t)).pc \in {"children", "filter"}
  BY Zenon, <1>4 DEF HoldsBcc
<1>7. IsInv(t, Depth(t)) => OwnInv(Call(t, Depth(t)), Call(t, Depth(t) - 1))
  BY Zenon, <1>3 DEF CallOK, KnowsOK, IsInv
<1> QED
  BY Zenon, <1>1, <1>2, <1>5, <1>6, <1>7 DEF OwnInv

(* What a call knows of other caches is not touched by a step of another *)
(* thread or of a deeper call, because of the locks it holds.            *)
LEMMA RelyHolds ==
    ASSUME CoherenceInv, NEW t \in Threads, NEW n \in Int, Footprint(t, n), NEW u \in Threads,
           NEW d \in 1 .. Depth(u), u # t \/ (d <= n /\ n < Depth(t))
    PROVE  Rely(u, d)
<1> DEFINE f == Call(u, d)
           top == Depth(t)
           h == Call(t, top)
<1>0. Types /\ Distinct /\ CallsOK /\ Ordered /\ SlotsOK
  BY Zenon DEF CoherenceInv
<1>1. Depth(t) \in Nat /\ Depth(u) \in Nat /\ f \in Frame /\ f.c \in Caches /\ f.addr \in Lines
  BY Zenon, <1>0, CallTypes, FrameKinds
<1>2. ~(u = t /\ d = top) /\ ~(u = t /\ d = top + 1) /\ ~(u = t /\ d - 1 = top)
  BY <1>1
<1>3. CallOK(u, d)
  BY Zenon, <1>0 DEF CallsOK
<1>4. Holder(t, f.c) => ~HoldsBcc(u, d)
  <2> SUFFICES ASSUME Holder(t, f.c), HoldsBcc(u, d) PROVE FALSE
    BY Zenon
  <2>1. top \in 1 .. Depth(t) /\ HoldsBcc(t, top) /\ Call(t, top).c = Call(u, d).c
    BY <1>1 DEF Holder
  <2> QED
    BY Zenon, <1>0, <1>2, <2>1, LockUnique
<1>5. ASSUME NEW c \in Caches, Holder(t, c), IsAccess(t, top), NEW e \in 1 .. Depth(u),
             IsAccess(u, e), Call(u, e).pc # "tcc", Call(u, e).c = c
      PROVE  u = t /\ e = top
  <2>1. top \in 1 .. Depth(t) /\ Call(t, top).c = c /\ Call(t, top).pc # "tcc"
    BY Zenon, <1>5, <1>1, HolderIs DEF Holder
  <2> QED
    BY Zenon, <1>0, <1>5, <2>1, MidUnique
<1>6. HoldsBcc(u, d) => bccLock'[f.c] = bccLock[f.c]
  <2> SUFFICES ASSUME HoldsBcc(u, d) PROVE bccLock'[f.c] = bccLock[f.c]
    BY Zenon
  <2>1. bccLock[f.c] = u /\ u # FREE
    BY Zenon, <1>3, NamesAssumption DEF CallOK, LocksOK
  <2> QED
    BY Zenon, <1>1, <1>4, <2>1 DEF Footprint
<1>7. HoldsTcc(u, d) => tccLock'[f.c] = tccLock[f.c]
  <2> SUFFICES ASSUME HoldsTcc(u, d) PROVE tccLock'[f.c] = tccLock[f.c]
    OBVIOUS
  <2>1. tccLock[f.c] = u /\ u # FREE
    BY Zenon, <1>3, NamesAssumption DEF CallOK, LocksOK
  <2>2. ASSUME top >= 1, HoldsTcc(t, top), h.c = f.c PROVE FALSE
    <3>1. /\ top \in 1 .. Depth(t) /\ IsAccess(t, top) /\ Call(t, top).pc # "tcc"
          /\ IsAccess(u, d) /\ Call(u, d).pc # "tcc"
      BY <2>2, <1>1 DEF HoldsTcc
    <3> QED
      BY Zenon, <3>1, <2>2, <1>0, <1>2, MidUnique
  <2> QED
    BY <1>1, <2>1, <2>2 DEF Footprint
<1>8. HoldsBcc(u, d) \/ (IsAccess(u, d) /\ f.pc # "tcc") => array'[f.c] = array[f.c]
  BY Zenon, <1>1, <1>2, <1>4, <1>5 DEF Footprint
<1>9. HoldsBcc(u, d) /\ f.id \in Slot(f.c) => bcc'[f.c][f.id] = bcc[f.c][f.id]
  <2> SUFFICES ASSUME HoldsBcc(u, d), f.id \in Slot(f.c), Grants(t, f.c), h.slot = f.id PROVE FALSE
    BY Zenon, <1>1, <1>4 DEF Footprint
  <2>1. top \in 1 .. Depth(t) /\ top > 2 /\ IsAccess(t, top) /\ HoldsBcc(t, top) /\ h.child = f.c
    BY <1>1 DEF Grants
  <2>2. /\ top - 1 \in 1 .. Depth(t) /\ IsAccess(t, top - 1) /\ Waits(t, top - 1)
        /\ Call(t, top - 1).pc # "tcc" /\ Call(t, top - 1).c = f.c /\ array[f.c][f.id] = h.addr
        /\ h.c = Parent(f.c, h.addr)
    BY <2>1, <1>0, CallerOf
  <2>3. CASE IsAccess(u, d)
    <3>1. f.pc # "tcc" /\ ~Waits(u, d)
      BY Zenon, <2>3 DEF HoldsBcc, IsAccess, IsInv
    <3> QED
      BY <2>2, <2>3, <3>1, <1>0, MidUnique
  <2>4. CASE IsInv(u, d)
    <3>1. f.pc \in {"children", "filter"}
      BY Zenon, <2>4 DEF HoldsBcc, IsAccess, IsInv
    <3>2. array[f.c][f.id] = f.addr
      BY Zenon, <3>1, <2>4, <1>3 DEF CallOK, KnowsOK, OwnInv, IsInv
    <3>3. d - 1 \in 1 .. Depth(u) /\ HoldsBcc(u, d - 1) /\ Call(u, d - 1).c = h.c
      <4>1. d - 1 \in 1 .. Depth(u) /\ HoldsBcc(u, d - 1) /\ Call(u, d - 1).c = Parent(f.c, f.addr)
        BY Zenon, <2>4, <1>0, SenderHolds
      <4> QED
        BY Zenon, <4>1, <3>2, <2>2
    <3> QED
      BY <3>3, <2>1, <1>0, <1>2, LockUnique
  <2> QED
    BY Zenon, <2>3, <2>4 DEF HoldsBcc
<1>10. ASSUME top >= 1, IsInv(t, top), n = top - 2, HoldsBcc(u, d), Call(t, top - 1).c = f.c PROVE FALSE
  <2>1. top \in 1 .. Depth(t)
    BY <1>10, <1>1
  <2>2. top - 1 \in 1 .. Depth(t) /\ HoldsBcc(t, top - 1)
    BY Zenon, <2>1, <1>0, <1>10, SenderHolds
  <2>3. u = t /\ d = top - 1
    BY <2>2, <1>0, <1>10, LockUnique
  <2> QED
    BY <2>3, <1>10, <1>1
<1>11. HoldsBcc(u, d) /\ f.id \in Slot(f.c) => tcc'[f.c][f.id] = tcc[f.c][f.id]
  BY Zenon, <1>1, <1>4, <1>10 DEF Footprint
<1>12. IsAccess(u, d) /\ f.pc = "insert" => tcc'[f.c][f.id].sharers = {}
  <2> SUFFICES ASSUME IsAccess(u, d), f.pc = "insert" PROVE tcc'[f.c][f.id].sharers = {}
    BY Zenon
  <2>1. f.id \in Slot(f.c) /\ tcc[f.c][f.id].sharers = {}
    BY Zenon, <1>3 DEF CallOK, KnowsOK, OwnAccess, IsAccess
  <2>2. ~(Holder(t, f.c) /\ IsAccess(t, top))
    BY Zenon, <1>1, <1>2, <1>5
  <2> QED
    BY <1>1, <2>1, <2>2 DEF Footprint
<1>13. ASSUME IsAccess(u, d), d > 2
       PROVE  /\ array'[f.child][f.slot] = array[f.child][f.slot]
              /\ \/ bcc'[f.child][f.slot] = bcc[f.child][f.slot]
                 \/ /\ ~HoldsBcc(u, d)
                    /\ \/ bcc'[f.child][f.slot] = I
                       \/ bcc'[f.child][f.slot] = S /\ bcc[f.child][f.slot] \in {E, M}
  <2>1. /\ d - 1 \in 1 .. Depth(u) /\ IsAccess(u, d - 1) /\ Call(u, d - 1).pc # "tcc"
        /\ Call(u, d - 1).c = f.child /\ f.child \in Caches /\ f.slot \in Slot(f.child)
        /\ array[f.child][f.slot] = f.addr /\ f.c = Parent(f.child, f.addr)
    BY Zenon, <1>0, <1>13, CallerOf
  <2>2. ~(Holder(t, f.child) /\ IsAccess(t, top))
    BY Zenon, <2>1, <1>2, <1>5
  <2>3. array'[f.child][f.slot] = array[f.child][f.slot]
    BY Zenon, <2>1, <2>2 DEF Footprint
  <2>4. ~Grants(t, f.child)
    <3> SUFFICES ASSUME Grants(t, f.child) PROVE FALSE
      BY Zenon
    <3>1. top \in 1 .. Depth(t) /\ top > 2 /\ IsAccess(t, top) /\ Call(t, top).child = f.child
      BY <1>1 DEF Grants
    <3> QED
      BY Zenon, <3>1, <1>0, <1>2, <1>13, ChildUnique
  <2>5. ASSUME Holder(t, f.child), f.slot = h.id,
               IsInv(t, top) => bcc'[f.child][f.slot] = IF h.type = INV THEN I ELSE S
        PROVE  /\ ~HoldsBcc(u, d)
               /\ \/ bcc'[f.child][f.slot] = I
                  \/ bcc'[f.child][f.slot] = S /\ bcc[f.child][f.slot] \in {E, M}
    <3>1. top >= 1 /\ HoldsBcc(t, top) /\ h.c = f.child /\ top \in 1 .. Depth(t)
      BY <2>5, <1>1 DEF Holder
    <3>2. IsInv(t, top)
      BY Zenon, <3>1, <2>2, <2>5 DEF HoldsBcc
    <3>3. h.addr = f.addr /\ (h.type = INVX => bcc[f.child][f.slot] \in {E, M})
      BY Zenon, <3>1, <3>2, <2>5, <2>1, HolderIs
    <3>4. h \in Frame
      BY Zenon, <3>1, <1>0, CallTypes
    <3>5. h.type \in {INV, INVX}
      BY Zenon, <3>2, <3>4, FrameKinds DEF InvFrame, IsInv
    <3>6. top - 1 \in 1 .. Depth(t) /\ HoldsBcc(t, top - 1) /\ Call(t, top - 1).c = f.c
          /\ Sent(h, Call(t, top - 1))
      BY <3>1, <3>2, <3>3, <2>1, <1>0, SenderHolds
    <3>7. ~HoldsBcc(u, d)
      <4> SUFFICES ASSUME HoldsBcc(u, d) PROVE FALSE
        BY Zenon
      <4>1. u = t /\ d = top - 1
        BY <3>6, <1>0, LockUnique
      <4>2. Sent(h, f) /\ f.op = "access"
        BY Zenon, <4>1, <3>6, <1>13 DEF IsAccess
      <4>3. f.pc = "evict"
        BY Zenon, <4>2, <3>1 DEF Sent
      <4>4. f.id \in Slot(f.c) /\ array[f.c][f.id] = f.addr
        BY Zenon, <4>2, <3>3 DEF Sent
      <4> QED
        BY Zenon, <4>2, <4>3, <4>4, <1>3 DEF CallOK, KnowsOK, OwnAccess
    <3> QED
      BY Zenon, <3>2, <3>3, <3>5, <3>7, <2>5
  <2> QED
    BY Zenon, <2>1, <2>3, <2>4, <2>5 DEF Footprint
<1>14. ASSUME IsInv(u, d), f.pc = "unlock", NEW c \in Caches, NEW a \in Lines, c = f.c, a = f.addr
       PROVE  StateOf(c, a)' = StateOf(c, a)
  <2>1. /\ d - 1 \in 1 .. Depth(u) /\ HoldsBcc(u, d - 1) /\ Call(u, d - 1).c = Parent(f.c, f.addr)
        /\ Call(u, d - 1).c \in Caches
    BY Zenon, <1>0, <1>14, SenderHolds
  <2>2. StateOf(f.c, f.addr) \in {I, S}
    BY Zenon, <1>3, <1>14 DEF CallOK, KnowsOK, OwnInv, IsInv
  <2>3. Parent(f.c, f.addr) # MEM /\ StateOf(f.c, f.addr) \notin {E, M}
    BY Zenon, <1>0, <2>1, <2>2, Tree DEF I, S, E, M
  <2>4. ~(Holder(t, f.c) /\ IsInv(t, top) /\ f.addr = h.addr)
    <3> SUFFICES ASSUME Holder(t, f.c), IsInv(t, top), f.addr = h.addr PROVE FALSE
      BY Zenon
    <3>1. top \in 1 .. Depth(t) /\ h.c = f.c
      BY <1>1 DEF Holder
    <3>2. top - 1 \in 1 .. Depth(t) /\ HoldsBcc(t, top - 1) /\ Call(t, top - 1).c = Parent(f.c, f.addr)
      BY <3>1, <1>0, SenderHolds
    <3>3. u = t /\ d - 1 = top - 1
      BY <3>2, <2>1, <1>0, LockUnique
    <3> QED
      BY <3>3, <1>1, <1>2
  <2>5. ~(Grants(t, f.c) /\ f.addr = h.addr)
    <3> SUFFICES ASSUME Grants(t, f.c), f.addr = h.addr PROVE FALSE
      BY Zenon
    <3>1. top \in 1 .. Depth(t) /\ top > 2 /\ IsAccess(t, top) /\ HoldsBcc(t, top) /\ h.child = f.c
      BY <1>1 DEF Grants
    <3>2. h.c = Parent(f.c, f.addr)
      BY <3>1, <1>0, CallerOf
    <3> QED
      BY <3>1, <3>2, <2>1, <1>0, <1>2, LockUnique
  <2> QED
    BY Zenon, <1>14, <2>3, <2>4, <2>5 DEF Footprint
<1> QED
  BY Zenon, <1>6, <1>7, <1>8, <1>9, <1>11, <1>12, <1>13, <1>14 DEF Rely

(* A waiting access below the core's asks for a line or a permission. *)
LEMMA WaitsAre ==
    ASSUME Types, CallsOK, NEW t \in Threads, NEW d \in 1 .. Depth(t), Waits(t, d)
    PROVE  /\ d + 1 \in 1 .. Depth(t) /\ IsAccess(t, d) /\ IsAccess(t, d + 1)
           /\ Call(t, d).type \in {GETS, GETX}
           /\ Call(t, d).pc \in {"insert", "directory", "end"} /\ ~Call(t, d).wb
           /\ d > 2 => Call(t, d).pc # "end"
<1>1. Depth(t) \in Nat /\ d + 1 \in 1 .. Depth(t) /\ d + 1 - 1 = d /\ IsAccess(t, d + 1) /\ IsAccess(t, d)
  BY CallTypes DEF Waits
<1>2. ShapeOK(t, d) /\ ShapeOK(t, d + 1) /\ KnowsOK(t, d)
  BY Zenon, <1>1 DEF CallsOK, CallOK
<1>3. d # 1
  BY Zenon, <1>1, <1>2 DEF ShapeOK, IsAccess
<1>4. Called(Call(t, d + 1), Call(t, d))
  BY <1>1, <1>2, <1>3 DEF ShapeOK, IsAccess
<1>5. OwnAccess(Call(t, d), TRUE)
  BY Zenon, <1>1, <1>2 DEF KnowsOK, IsAccess
<1>6. Call(t, d).pc \in {"insert", "directory", "end"}
  BY Zenon, <1>4 DEF Called
<1>7. Call(t, d).type \in {GETS, GETX}
  <2>1. CASE Call(t, d).pc = "insert"
    BY Zenon, <2>1, <1>5 DEF OwnAccess
  <2>2. CASE Call(t, d).pc # "insert"
    BY Zenon, <2>2, <1>4 DEF Called
  <2> QED
    BY Zenon, <2>1, <2>2
<1>8. ASSUME d > 2 PROVE ~Terminal(Call(t, d).c)
  <2>1. /\ d - 1 \in 1 .. Depth(t) /\ Call(t, d).child \in Caches
        /\ Call(t, d).c = Parent(Call(t, d).child, Call(t, d).addr)
    BY Zenon, <1>1, <1>8, CallerOf
  <2>2. Call(t, d).addr \in Lines
    BY Zenon, CallTypes, FrameKinds
  <2> QED
    BY <2>1, <2>2, Tree
<1>9. d > 2 => Call(t, d).pc # "end"
  BY Zenon, <1>4, <1>8 DEF Called
<1> QED
  BY Zenon, <1>1, <1>5, <1>6, <1>7, <1>9 DEF OwnAccess

(* The calls a step leaves alone still know what they knew. *)
LEMMA OthersKeep ==
    ASSUME CoherenceInv, NEW t \in Threads, NEW n \in Int, Kept(t, n), Footprint(t, n),
           Types', NEW u \in Threads, NEW d \in 1 .. Depth(u)', u # t \/ d <= n
    PROVE  /\ CallOK(u, d)' /\ d \in 1 .. Depth(u)
           /\ Call(u, d)' = Call(u, d) /\ Waits(u, d)' = Waits(u, d)
<1> DEFINE f == Call(u, d)
           g == Call(u, d - 1)
<1>0. Types /\ Distinct /\ CallsOK /\ Ordered /\ SlotsOK /\ hier' = hier
  BY Zenon DEF CoherenceInv, Footprint
<1>1. Depth(t) \in Nat /\ Depth(u) \in Nat /\ Depth(u)' \in Nat /\ Depth(t)' \in Nat
  <2>1. Depth(t) \in Nat /\ Depth(u) \in Nat
    BY Zenon, <1>0, CallTypes
  <2>2. stack'[u] \in Seq(Frame') /\ stack'[t] \in Seq(Frame')
    BY Zenon DEF Types
  <2> QED
    BY <2>1, <2>2 DEF Depth
<1>2. /\ d \in 1 .. Depth(u) /\ Call(u, d)' = Call(u, d) /\ Waits(u, d)' = Waits(u, d)
      /\ d > 1 => d - 1 \in 1 .. Depth(u) /\ Call(u, d - 1)' = Call(u, d - 1)
      /\ u # t \/ (d <= n /\ n < Depth(t))
  <2>1. CASE u # t
    <3>1. stack'[u] = stack[u]
      BY Zenon, <2>1 DEF Kept, Elsewhere
    <3>2. Depth(u)' = Depth(u) /\ Call(u, d)' = Call(u, d) /\ Call(u, d - 1)' = Call(u, d - 1)
          /\ Call(u, d + 1)' = Call(u, d + 1)
      BY Zenon, <3>1 DEF Depth, Call
    <3>3. Waits(u, d)' = Waits(u, d)
      BY Zenon, <3>2 DEF Waits, IsAccess
    <3> QED
      BY <2>1, <3>2, <3>3, <1>1
  <2>2. CASE u = t
    <3>1. d <= n /\ n >= 1 /\ n < Depth(t) /\ n < Depth(t)' /\ Call(t, n + 1)'.op = Call(t, n + 1).op
      BY <2>2, <1>1 DEF Kept
    <3>2. d \in 1 .. n /\ d \in 1 .. Depth(t) /\ d < Depth(t) /\ d < Depth(t)'
      BY <2>2, <3>1, <1>1
    <3>3. Call(t, d)' = Call(t, d)
      BY Zenon, <3>2 DEF Kept
    <3>4. IsAccess(t, d + 1)' = IsAccess(t, d + 1)
      <4>1. CASE d = n
        BY Zenon, <4>1, <3>1 DEF IsAccess
      <4>2. CASE d < n
        <5>1. d + 1 \in 1 .. n
          BY <4>2, <3>2
        <5> QED
          BY Zenon, <5>1 DEF IsAccess, Kept
      <4> QED
        BY <4>1, <4>2, <3>2
    <3>5. Waits(t, d)' = Waits(t, d)
      BY Zenon, <3>2, <3>3, <3>4 DEF Waits, IsAccess
    <3>6. d > 1 => d - 1 \in 1 .. n /\ d - 1 \in 1 .. Depth(t)
      BY <3>2, <1>1
    <3>7. d > 1 => Call(t, d - 1)' = Call(t, d - 1)
      BY Zenon, <3>6 DEF Kept
    <3> QED
      BY Zenon, <2>2, <3>1, <3>2, <3>3, <3>5, <3>6, <3>7
  <2> QED
    BY Zenon, <2>1, <2>2
<1>3. Rely(u, d)
  BY Zenon, <1>2, RelyHolds
<1>4. d > 1 => Rely(u, d - 1)
  <2>1. d > 1 => d - 1 \in 1 .. Depth(u) /\ (u # t \/ (d - 1 <= n /\ n < Depth(t)))
    BY <1>2, <1>1
  <2> QED
    BY Zenon, <2>1, RelyHolds
<1>5. CallOK(u, d) /\ f \in Frame /\ f.c \in Caches /\ f.addr \in Lines
  BY Zenon, <1>0, <1>2, CallTypes, FrameKinds DEF CallsOK
<1>6. IsAccess(u, d)' = IsAccess(u, d) /\ IsInv(u, d)' = IsInv(u, d)
  BY Zenon, <1>2 DEF IsAccess, IsInv
<1>7. HoldsBcc(u, d)' = HoldsBcc(u, d) /\ HoldsTcc(u, d)' = HoldsTcc(u, d)
  BY <1>0, <1>2, <1>6 DEF HoldsBcc, HoldsTcc, Terminal
<1>8. LocksOK(u, d)'
  BY Zenon, <1>2, <1>3, <1>5, <1>7 DEF LocksOK, Rely, CallOK
<1>9. f.op = "access" /\ d > 2 => Called(f, g)'
  <2> SUFFICES ASSUME f.op = "access", d > 2 PROVE Called(Call(u, d), Call(u, d - 1))'
    BY Zenon DEF Called
  <2>1. IsAccess(u, d)
    BY Zenon DEF IsAccess
  <2>2. Called(Call(u, d), Call(u, d - 1)) /\ array'[f.child][f.slot] = array[f.child][f.slot]
    BY Zenon, <2>1, <1>3, <1>5 DEF Rely, CallOK, ShapeOK
  <2>3. array'[g.c][g.id] = array[g.c][g.id]
    BY Zenon, <2>2 DEF Called
  <2> QED
    <3>1. Call(u, d)' = Call(u, d) /\ Call(u, d - 1)' = Call(u, d - 1)
      BY Zenon, <1>1, <1>2, DepthNat, SomeDepth
    <3> QED
      BY ZenonT(30), <3>1, <2>2, <2>3, <1>0 DEF Called, Slot, Parent, Terminal
<1>10. ASSUME f.op = "inv"
       PROVE  /\ d > 2 /\ Sent(Call(u, d), Call(u, d - 1))'
              /\ bcc'[g.c][g.id] = bcc[g.c][g.id]
  <2>1. IsInv(u, d)
    BY Zenon, <1>10 DEF IsInv
  <2>2. d > 2 /\ HoldsBcc(u, d - 1) /\ g.id \in Slot(g.c) /\ Sent(f, g)
    BY Zenon, <2>1, <1>0, <1>2, SenderHolds
  <2>3. array'[g.c] = array[g.c] /\ tcc'[g.c][g.id] = tcc[g.c][g.id] /\ bcc'[g.c][g.id] = bcc[g.c][g.id]
    <3>1. Rely(u, d - 1)
      BY Zenon, <2>2, <1>0, <1>1, <1>2, <1>4, DepthNat, SomeDepth
    <3> QED
      BY Zenon, <3>1, <2>2 DEF Rely
  <2>4. Call(u, d)' = f /\ Call(u, d - 1)' = g
    <3>1. d > 1
      BY Zenon, <2>2, <1>0, <1>1, DepthNat, SomeDepth
    <3> QED
      BY Zenon, <3>1, <1>2
  <2> QED
    BY Zenon, <2>2, <2>3, <2>4, <1>0 DEF Sent, Slot
<1>11. ShapeOK(u, d)'
  <2>1. f.op = "replace" <=> d = 1
    BY Zenon, <1>5 DEF CallOK, ShapeOK
  <2>2. f.op = "access" /\ d = 2 => f.child = CORE /\ f.c \in hier.core[u] /\ f.type \in {GETS, GETX} /\ f.init = I
    BY Zenon, <1>5 DEF CallOK, ShapeOK
  <2> QED
    BY Zenon, <2>1, <2>2, <1>0, <1>2, <1>9, <1>10 DEF ShapeOK
<1>12. ASSUME f.op = "access" PROVE OwnAccess(Call(u, d), Waits(u, d))'
  <2>1. OwnAccess(f, Waits(u, d)) /\ IsAccess(u, d) /\ ~IsInv(u, d)
    BY Zenon, <1>5, <1>12 DEF CallOK, KnowsOK, IsAccess, IsInv
  <2>2. f.pc # "tcc" => array'[f.c] = array[f.c]
    BY Zenon, <2>1, <1>3 DEF Rely
  <2>3. HoldsBcc(u, d) <=> ~Waits(u, d) /\ f.pc \notin {"tcc", "bcc"}
    BY Zenon, <2>1 DEF HoldsBcc
  <2>4. HoldsBcc(u, d) /\ f.id \in Slot(f.c) => bcc'[f.c][f.id] = bcc[f.c][f.id]
    BY Zenon, <1>3 DEF Rely
  <2>5. f.pc = "insert" => tcc'[f.c][f.id].sharers = {}
    BY Zenon, <2>1, <1>3 DEF Rely
  <2>6. f.pc = "end" /\ f.child = CORE => f.id # 0
    BY Zenon, <2>1 DEF OwnAccess
  <2> DEFINE w == Waits(u, d)
  <2>7. w' = w /\ (HoldsBcc(u, d) <=> ~w /\ f.pc \notin {"tcc", "bcc"}) /\ OwnAccess(f, w)
    BY ZenonT(30), <1>2, <2>1, <2>3
  <2> HIDE DEF w
  <2>8. OwnAccess(Call(u, d), w)'
    BY Zenon, <2>2, <2>4, <2>5, <2>6, <2>7, <1>0, <1>2 DEF OwnAccess, Slot, Terminal
  <2> QED
    BY Zenon, <2>8 DEF w
<1>13. ASSUME f.op = "access", d > 2 PROVE ChildOK(Call(u, d))'
  <2>1. ChildOK(f) /\ IsAccess(u, d) /\ ~IsInv(u, d)
    BY Zenon, <1>5, <1>13 DEF CallOK, KnowsOK, IsAccess, IsInv
  <2>2. \/ bcc'[f.child][f.slot] = bcc[f.child][f.slot]
        \/ /\ ~HoldsBcc(u, d)
           /\ \/ bcc'[f.child][f.slot] = I
              \/ bcc'[f.child][f.slot] = S /\ bcc[f.child][f.slot] \in {E, M}
    BY Zenon, <2>1, <1>3, <1>13 DEF Rely
  <2>3. CASE bcc'[f.child][f.slot] = bcc[f.child][f.slot]
    BY Zenon, <2>1, <2>3, <1>2 DEF ChildOK
  <2>4. CASE /\ ~HoldsBcc(u, d)
             /\ \/ bcc'[f.child][f.slot] = I
                \/ bcc'[f.child][f.slot] = S /\ bcc[f.child][f.slot] \in {E, M}
    <3>1. f.pc \in {"tcc", "bcc"} \/ (f.pc \in {"insert", "directory"} /\ f.type \in {GETS, GETX})
      <4>1. f.pc \in {"tcc", "bcc"} \/ Waits(u, d)
        BY Zenon, <2>1, <2>4 DEF HoldsBcc
      <4> QED
        BY Zenon, <4>1, <1>0, <1>2, <1>13, WaitsAre
    <3>2. f.type \in {GETS, GETX, PUTS, PUTX}
      BY Zenon, <1>5, <1>13, FrameKinds DEF AccessFrame
    <3> QED
      BY Zenon, <2>1, <2>4, <3>1, <3>2, <1>2 DEF ChildOK, GETS, GETX, PUTS, PUTX, I, S, E, M
  <2> QED
    BY Zenon, <2>2, <2>3, <2>4
<1>14. ASSUME f.op = "inv" PROVE OwnInv(Call(u, d), Call(u, d - 1))'
  <2>1. OwnInv(f, g) /\ IsInv(u, d) /\ ~IsAccess(u, d)
    BY Zenon, <1>5, <1>14 DEF CallOK, KnowsOK, IsAccess, IsInv
  <2>2. Call(u, d)' = f /\ Call(u, d - 1)' = g /\ bcc'[g.c][g.id] = bcc[g.c][g.id]
    <3>1. d > 1
      BY Zenon, <1>1, <1>10, <1>14, DepthNat, SomeDepth
    <3> QED
      BY Zenon, <3>1, <1>2, <1>10, <1>14
  <2>3. HoldsBcc(u, d) <=> f.pc \in {"children", "filter"}
    BY Zenon, <2>1 DEF HoldsBcc
  <2>4. f.pc \in {"children", "filter"} /\ f.id \in Slot(f.c) =>
           array'[f.c] = array[f.c] /\ bcc'[f.c][f.id] = bcc[f.c][f.id]
    BY Zenon, <2>3, <1>3 DEF Rely
  <2>5. f.pc = "unlock" => \A c \in Caches, a \in Lines : c = f.c /\ a = f.addr => StateOf(c, a)' = StateOf(c, a)
    BY Zenon, <2>1, <1>3 DEF Rely
  <2>6. f.pc = "unlock" => StateOf(f.c, f.addr) = IF f.type = INV THEN I ELSE S
    BY Zenon, <2>1 DEF OwnInv
  <2>7. f.pc = "unlock" => StateOf(Call(u, d).c, Call(u, d).addr)' = IF f.type = INV THEN I ELSE S
    <3> SUFFICES ASSUME f.pc = "unlock", NEW c, c = f.c, NEW a, a = f.addr
                 PROVE  StateOf(c, a)' = IF f.type = INV THEN I ELSE S
      BY <2>2 DEF StateOf, lookup
    <3> QED
      BY Zenon, <2>5, <2>6, <1>5
  <2> QED
    BY Zenon, <2>1, <2>2, <2>4, <2>7, <1>0 DEF OwnInv, Slot, Terminal
<1>15. KnowsOK(u, d)'
  BY Zenon, <1>2, <1>12, <1>13, <1>14 DEF KnowsOK
<1> QED
  BY Zenon, <1>2, <1>8, <1>11, <1>15 DEF CallOK

(* The order of the calls that stay is kept. *)
LEMMA OrderedKeeps ==
    ASSUME Types, Ordered, NEW t \in Threads, Types', hier' = hier, Elsewhere(t),
           Depth(t)' <= Depth(t) + 1,
           \A d \in 1 .. Depth(t) : d <= Depth(t)' =>
               Call(t, d)'.op = Call(t, d).op /\ Call(t, d)'.c = Call(t, d).c,
           Depth(t)' = Depth(t) + 1 => \A d \in 1 .. Depth(t) : \A e : e = Depth(t) + 1 =>
               /\ IsAccess(t, d)' /\ IsAccess(t, e)' => LevelOf(t, d)' < LevelOf(t, e)'
               /\ IsAccess(t, d)' /\ IsInv(t, e)' /\ ~Waits(t, d)' => LevelOf(t, e)' < LevelOf(t, d)'
               /\ IsInv(t, d)' => IsInv(t, e)' /\ LevelOf(t, e)' < LevelOf(t, d)'
    PROVE  Ordered'
<1>1. Depth(t) \in Nat /\ Depth(t)' \in Nat
  <2>1. stack[t] \in Seq(Frame) /\ stack'[t] \in Seq(Frame')
    BY Zenon DEF Types
  <2> QED
    BY <2>1 DEF Depth
<1> SUFFICES ASSUME NEW u \in Threads, NEW d \in 1 .. Depth(u)', NEW e \in 1 .. Depth(u)', d < e
             PROVE  /\ IsAccess(u, d)' /\ IsAccess(u, e)' => LevelOf(u, d)' < LevelOf(u, e)'
                    /\ IsAccess(u, d)' /\ IsInv(u, e)' /\ ~Waits(u, d)' => LevelOf(u, e)' < LevelOf(u, d)'
                    /\ IsInv(u, d)' => IsInv(u, e)' /\ LevelOf(u, e)' < LevelOf(u, d)'
  BY Zenon DEF Ordered
<1>2. CASE u # t
  <2>1. stack'[u] = stack[u]
    BY Zenon, <1>2 DEF Elsewhere
  <2>2. Depth(u)' = Depth(u) /\ \A k : Call(u, k)' = Call(u, k)
    BY Zenon, <2>1 DEF Depth, Call
  <2>3. Waits(u, d)' = Waits(u, d) /\ IsAccess(u, d)' = IsAccess(u, d) /\ IsInv(u, d)' = IsInv(u, d)
        /\ IsAccess(u, e)' = IsAccess(u, e) /\ IsInv(u, e)' = IsInv(u, e)
        /\ LevelOf(u, d)' = LevelOf(u, d) /\ LevelOf(u, e)' = LevelOf(u, e)
    <3>1. \A k : /\ IsAccess(u, k)' = IsAccess(u, k) /\ IsInv(u, k)' = IsInv(u, k)
                 /\ LevelOf(u, k)' = LevelOf(u, k)
      BY Zenon, <2>2 DEF IsAccess, IsInv, LevelOf
    <3>2. Waits(u, d)' = Waits(u, d)
      BY Zenon, <2>2, <3>1 DEF Waits
    <3> QED
      BY Zenon, <3>1, <3>2
  <2> QED
    BY Zenon, <2>2, <2>3 DEF Ordered
<1>3. CASE u = t /\ e <= Depth(t)
  <2>1. d \in 1 .. Depth(t) /\ e \in 1 .. Depth(t) /\ d + 1 \in 1 .. Depth(t) /\ d + 1 <= Depth(t)' /\ d < Depth(t)
        /\ d < Depth(t)' /\ d <= Depth(t)' /\ e <= Depth(t)'
    BY Zenon, <1>1, <1>3, NewDepth
  <2>2. Waits(t, d)' = Waits(t, d)
    BY Zenon, <2>1 DEF Waits, IsAccess
  <2>3. IsAccess(t, d)' = IsAccess(t, d) /\ IsInv(t, d)' = IsInv(t, d)
        /\ IsAccess(t, e)' = IsAccess(t, e) /\ IsInv(t, e)' = IsInv(t, e)
        /\ LevelOf(t, d)' = LevelOf(t, d) /\ LevelOf(t, e)' = LevelOf(t, e)
    BY Zenon, <2>1 DEF IsAccess, IsInv, LevelOf
  <2> QED
    BY <1>3, <2>1, <2>2, <2>3 DEF Ordered
<1>4. CASE u = t /\ e > Depth(t)
  <2>1. e = Depth(t) + 1 /\ Depth(t)' = Depth(t) + 1 /\ d \in 1 .. Depth(t)
    BY Zenon, <1>1, <1>4, NewDepth
  <2> QED
    BY Zenon, <1>4, <2>1
<1>5. CASE u = t
  <2>1. e <= Depth(t) \/ e > Depth(t)
    BY Zenon, <1>1, <1>5, NewDepth
  <2> QED
    BY Zenon, <2>1, <1>3, <1>4, <1>5
<1> QED
  BY Zenon, <1>2, <1>5

(* The new call is above (access) or below (invalidation) its caller. *)
LEMMA OrderedPush ==
    ASSUME CoherenceInv, NEW t \in Threads, Types', hier' = hier, Depth(t) >= 1,
           NEW f, NEW g, Pushes(t, f, g),
           f.op = Call(t, Depth(t)).op, f.c = Call(t, Depth(t)).c,
           \/ /\ f.op = "access" /\ g.op = "access" /\ hier.level[f.c] < hier.level[g.c]
           \/ /\ f.op \in {"access", "inv"} /\ g.op = "inv" /\ hier.level[g.c] < hier.level[f.c]
    PROVE  Ordered'
<1> DEFINE top == Depth(t)
           new == Depth(t) + 1
<1>0. Types /\ Ordered /\ CallsOK
  BY Zenon DEF CoherenceInv
<1>1. top \in Nat /\ top \in 1 .. Depth(t) /\ Depth(t)' = new /\ new \in 1 .. new /\ Elsewhere(t)
  BY <1>0, CallTypes DEF Pushes
<1>2. \A d \in 1 .. Depth(t) : Call(t, d)'.op = Call(t, d).op /\ Call(t, d)'.c = Call(t, d).c
  BY <1>1 DEF Pushes
<1>3. ASSUME NEW e, e = new PROVE Call(t, e)' = g
  BY Zenon, <1>1, <1>3 DEF Pushes
<1>4. ASSUME NEW d \in 1 .. Depth(t), NEW e, e = new
      PROVE  /\ IsAccess(t, d)' /\ IsAccess(t, e)' => LevelOf(t, d)' < LevelOf(t, e)'
             /\ IsAccess(t, d)' /\ IsInv(t, e)' /\ ~Waits(t, d)' => LevelOf(t, e)' < LevelOf(t, d)'
             /\ IsInv(t, d)' => IsInv(t, e)' /\ LevelOf(t, e)' < LevelOf(t, d)'
  <2>1. /\ IsAccess(t, d)' = IsAccess(t, d) /\ IsInv(t, d)' = IsInv(t, d) /\ LevelOf(t, d)' = LevelOf(t, d)
        /\ IsAccess(t, e)' = (g.op = "access") /\ IsInv(t, e)' = (g.op = "inv")
        /\ LevelOf(t, e)' = hier.level[g.c] /\ LevelOf(t, top) = hier.level[f.c]
        /\ IsAccess(t, top) = (f.op = "access") /\ IsInv(t, top) = (f.op = "inv")
    BY Zenon, <1>2, <1>3, <1>4 DEF IsAccess, IsInv, LevelOf
  <2>2. LevelOf(t, d) \in Nat /\ LevelOf(t, top) \in Nat /\ LevelOf(t, e)' \in Nat
    <3>1. Call(t, d).c \in Caches /\ Call(t, top).c \in Caches
      BY Zenon, <1>0, <1>1, CallTypes, FrameKinds
    <3>2. g.c \in Caches
      <4>1. stack'[t] \in Seq(Frame')
        BY Zenon DEF Types
      <4>2. stack'[t][1] \in Frame' /\ Len(stack'[t]) \in Nat
        <5>1. Len(stack'[t]) >= 1
          BY Zenon, <1>1, NextDepth, DepthNat DEF Depth
        <5> QED
          BY Zenon, <4>1, <5>1, HeadOf
      <4>3. Call(t, e)' = stack'[t][1]
        BY <4>2, <1>1, <1>4 DEF Call, Depth
      <4> QED
        <5>1. Frame' = Frame
          BY Zenon DEF Frame, AccessFrame, InvFrame, ReplaceFrame, Caches
        <5>2. g \in Frame
          BY Zenon, <5>1, <4>2, <4>3, <1>3, <1>4
        <5> QED
          BY Zenon, <5>2, FrameKinds
    <3> QED
      BY Zenon, <3>1, <3>2, <2>1, <1>0, Tree DEF LevelOf
  <2>3. CASE d = top
    BY Zenon, <2>1, <2>2, <2>3 DEF IsAccess, IsInv
  <2>4. CASE d < top
    <3>1. IsAccess(t, d) /\ ~Waits(t, d) => IsInv(t, top)
      <4> SUFFICES ASSUME IsAccess(t, d), ~IsInv(t, top) PROVE Waits(t, d)
        BY Zenon
      <4>1. d + 1 \in 1 .. Depth(t) /\ d + 1 # 1 /\ d < Depth(t)
        BY <2>4, <1>1
      <4>2. Call(t, d + 1) \in Frame /\ Call(t, d + 1).op # "replace"
        BY Zenon, <4>1, <1>0, CallTypes DEF CallsOK, CallOK, ShapeOK
      <4>3. IsAccess(t, d + 1) \/ IsInv(t, d + 1)
        BY Zenon, <4>2 DEF Frame, AccessFrame, InvFrame, ReplaceFrame, IsAccess, IsInv
      <4>4. ~IsInv(t, d + 1)
        BY <4>1, <1>0, <1>1 DEF Ordered
      <4> QED
        BY Zenon, <4>1, <4>3, <4>4 DEF Waits
    <3>2. Waits(t, d)' = Waits(t, d)
      <4>1. d + 1 \in 1 .. Depth(t) /\ d < Depth(t) /\ d < Depth(t)'
        BY <2>4, <1>1
      <4> QED
        BY Zenon, <4>1, <1>2 DEF Waits, IsAccess
    <3>3. /\ IsAccess(t, d) /\ IsAccess(t, top) => LevelOf(t, d) < LevelOf(t, top)
          /\ IsAccess(t, d) /\ IsInv(t, top) /\ ~Waits(t, d) => LevelOf(t, top) < LevelOf(t, d)
          /\ IsInv(t, d) => IsInv(t, top) /\ LevelOf(t, top) < LevelOf(t, d)
      BY Zenon, <2>4, <1>0, <1>1 DEF Ordered
    <3>4. CASE f.op = "access" /\ g.op = "access" /\ hier.level[f.c] < hier.level[g.c]
      <4>1. /\ IsAccess(t, top) /\ ~IsInv(t, top) /\ ~IsInv(t, e)'
            /\ LevelOf(t, top) < LevelOf(t, e)'
        BY Zenon, <3>4, <2>1
      <4>2. IsAccess(t, d) => LevelOf(t, d) < LevelOf(t, e)'
        BY Zenon, <4>1, <3>3, <2>2, LessTrans
      <4> QED
        BY Zenon, <4>1, <4>2, <3>3, <2>1
    <3>5. CASE f.op = "access" /\ g.op = "inv" /\ hier.level[g.c] < hier.level[f.c]
      <4>1. ~IsInv(t, d) /\ (IsAccess(t, d) => Waits(t, d)) /\ ~IsAccess(t, e)'
        BY Zenon, <3>5, <3>1, <3>3, <2>1
      <4> QED
        BY Zenon, <4>1, <3>2, <2>1
    <3>6. CASE f.op = "inv" /\ g.op = "inv" /\ hier.level[g.c] < hier.level[f.c]
      <4>1. IsInv(t, top) /\ ~IsAccess(t, e)' /\ IsInv(t, e)' /\ LevelOf(t, e)' < LevelOf(t, top)
        BY Zenon, <3>6, <2>1
      <4>2. IsAccess(t, d) /\ ~Waits(t, d) => LevelOf(t, e)' < LevelOf(t, d)
        BY Zenon, <4>1, <3>3, <2>2, LessTrans
      <4>3. IsInv(t, d) => LevelOf(t, e)' < LevelOf(t, d)
        BY Zenon, <4>1, <3>3, <2>2, LessTrans
      <4> QED
        BY Zenon, <4>1, <4>2, <4>3, <3>2, <2>1
    <3> QED
      BY Zenon, <3>4, <3>5, <3>6
  <2> QED
    BY <1>1, <2>3, <2>4
<1> QED
  BY <1>0, <1>1, <1>2, <1>4, OrderedKeeps

----------------------------------------------------------------------------
(* What a cache holds for a line. *)

(* lookup finds the slot of a line, or none. *)
LEMMA StateIs ==
    ASSUME Types, Distinct, NEW c \in Caches, NEW a \in Lines
    PROVE  /\ \A i \in Slot(c) : array[c][i] = a =>
                 lookup(c, a) = i /\ StateOf(c, a) = bcc[c][i] /\ EntryOf(c, a) = tcc[c][i]
           /\ (\A i \in Slot(c) : array[c][i] # a) =>
                 lookup(c, a) = 0 /\ StateOf(c, a) = I /\ EntryOf(c, a) = Clear
<1>1. hier.ways[c] \in Nat
  BY Zenon, Tree
<1>2. \A i \in Slot(c) : i # 0
  BY <1>1 DEF Slot
<1>3. ASSUME NEW i \in Slot(c), array[c][i] = a PROVE lookup(c, a) = i
  <2>1. a # NoLine
    BY Zenon, NamesAssumption
  <2>2. \A j \in Slot(c) : array[c][j] = a => j = i
    BY Zenon, <1>3, <2>1 DEF Distinct
  <2> QED
    BY Zenon, <1>3, <2>2 DEF lookup
<1>4. (\A i \in Slot(c) : array[c][i] # a) => lookup(c, a) = 0
  BY Zenon DEF lookup
<1> QED
  BY Zenon, <1>2, <1>3, <1>4 DEF StateOf, EntryOf

(* StateIs for the next state. *)
LEMMA StateIsNext ==
    ASSUME Types', Distinct', Types, hier' = hier, NEW c \in Caches, NEW a \in Lines
    PROVE  /\ \A i \in Slot(c) : array'[c][i] = a =>
                 lookup(c, a)' = i /\ StateOf(c, a)' = bcc'[c][i] /\ EntryOf(c, a)' = tcc'[c][i]
           /\ (\A i \in Slot(c) : array'[c][i] # a) =>
                 lookup(c, a)' = 0 /\ StateOf(c, a)' = I /\ EntryOf(c, a)' = Clear
<1>1. hier.ways[c] \in Nat
  BY Zenon, Tree
<1>2. Slot(c)' = Slot(c) /\ Caches' = Caches /\ \A i \in Slot(c) : i # 0
  BY <1>1 DEF Slot, Caches
<1>3. ASSUME NEW i \in Slot(c), array'[c][i] = a PROVE lookup(c, a)' = i
  <2>1. a # NoLine
    BY Zenon, NamesAssumption
  <2>2. \A j \in Slot(c) : array'[c][j] = a => j = i
    BY Zenon, <1>2, <1>3, <2>1 DEF Distinct
  <2> QED
    BY Zenon, <1>2, <1>3, <2>2 DEF lookup
<1>4. (\A i \in Slot(c) : array'[c][i] # a) => lookup(c, a)' = 0
  BY Zenon, <1>2 DEF lookup
<1> QED
  BY Zenon, <1>2, <1>3, <1>4 DEF StateOf, EntryOf, Clear

----------------------------------------------------------------------------
(* The directory. *)

(* The calls of t above the n outermost that upgrade or unlock a line go on. *)
UpgradeKept(t, n, p, c, a) == \A d \in 1 .. Depth(t) :
    d > n /\ Upgrades(Call(t, d), p, c, a) /\ ~Waits(t, d) =>
        d <= Depth(t)' /\ Upgrades(Call(t, d)', p, c, a) /\ ~Waits(t, d)'
UnlockKept(t, n, c, a, type) == \A d \in 1 .. Depth(t) :
    d > n /\ Unlocks(Call(t, d), c, a, type) => d <= Depth(t)' /\ Unlocks(Call(t, d)', c, a, type)

(* The calls a step leaves alone are still there. *)
LEMMA CallsStay ==
    ASSUME CoherenceInv, NEW t \in Threads, NEW n \in Int, Kept(t, n), Footprint(t, n), Types',
           NEW u \in Threads, NEW d \in 1 .. Depth(u), u # t \/ d <= n
    PROVE  d \in 1 .. Depth(u)' /\ Call(u, d)' = Call(u, d) /\ Waits(u, d)' = Waits(u, d)
<1>1. Depth(t) \in Nat /\ Depth(u) \in Nat /\ Depth(t)' \in Nat /\ Depth(u)' \in Nat
  <2>1. stack[t] \in Seq(Frame) /\ stack'[t] \in Seq(Frame') /\ stack[u] \in Seq(Frame) /\ stack'[u] \in Seq(Frame')
    BY Zenon DEF Types, CoherenceInv
  <2> QED
    BY <2>1 DEF Depth
<1>2. d \in 1 .. Depth(u)'
  <2>1. CASE u # t
    BY Zenon, <2>1 DEF Kept, Elsewhere, Depth
  <2>2. CASE u = t
    BY <2>2, <1>1 DEF Kept
  <2> QED
    BY Zenon, <2>1, <2>2
<1> QED
  BY <1>2, OthersKeep

(* Upgrades and invalidations in their windows stay there as long as their *)
(* calls do.                                                               *)
LEMMA MarksKeep ==
    ASSUME CoherenceInv, NEW t \in Threads, NEW n \in Int, Kept(t, n), Footprint(t, n), Types',
           NEW p, NEW c, NEW a, NEW type
    PROVE  /\ UpgradeKept(t, n, p, c, a) /\ Upgrading(p, c, a) => Upgrading(p, c, a)'
           /\ UnlockKept(t, n, c, a, type) /\ Unlocking(c, a, type) => Unlocking(c, a, type)'
<1>0. Depth(t) \in Nat /\ Depth(t)' \in Nat
  <2>1. stack[t] \in Seq(Frame) /\ stack'[t] \in Seq(Frame')
    BY Zenon DEF Types, CoherenceInv
  <2> QED
    BY <2>1 DEF Depth
<1>1. ASSUME UpgradeKept(t, n, p, c, a), Upgrading(p, c, a) PROVE Upgrading(p, c, a)'
  <2>1. PICK u \in Threads : \E d \in 1 .. Depth(u) : Upgrades(Call(u, d), p, c, a) /\ ~Waits(u, d)
    BY Zenon, <1>1 DEF Upgrading
  <2>2. PICK d \in 1 .. Depth(u) : Upgrades(Call(u, d), p, c, a) /\ ~Waits(u, d)
    BY Zenon, <2>1
  <2>3. CASE u # t \/ d <= n
    <3>1. d \in 1 .. Depth(u)' /\ Call(u, d)' = Call(u, d) /\ Waits(u, d)' = Waits(u, d)
      BY Zenon, <2>3, CallsStay
    <3>2. Upgrades(Call(u, d)', p, c, a) /\ ~Waits(u, d)'
      BY Zenon, <3>1, <2>2
    <3> QED
      BY Zenon, <3>1, <3>2 DEF Upgrading, Upgrades
  <2>4. CASE u = t /\ d > n
    <3>1. d <= Depth(t)' /\ Upgrades(Call(t, d)', p, c, a) /\ ~Waits(t, d)'
      BY Zenon, <2>2, <2>4, <1>1 DEF UpgradeKept
    <3>2. d \in 1 .. Depth(t)'
      BY <3>1, <2>4, <1>0
    <3> QED
      BY Zenon, <3>1, <3>2, <2>4 DEF Upgrading, Upgrades
  <2> QED
    BY <2>3, <2>4, <1>0
<1>2. ASSUME UnlockKept(t, n, c, a, type), Unlocking(c, a, type) PROVE Unlocking(c, a, type)'
  <2>1. PICK u \in Threads : \E d \in 1 .. Depth(u) : Unlocks(Call(u, d), c, a, type)
    BY Zenon, <1>2 DEF Unlocking
  <2>2. PICK d \in 1 .. Depth(u) : Unlocks(Call(u, d), c, a, type)
    BY Zenon, <2>1
  <2>3. CASE u # t \/ d <= n
    <3>1. d \in 1 .. Depth(u)' /\ Call(u, d)' = Call(u, d)
      BY Zenon, <2>3, CallsStay
    <3>2. Unlocks(Call(u, d)', c, a, type)
      BY Zenon, <3>1, <2>2
    <3> QED
      BY Zenon, <3>1, <3>2 DEF Unlocking, Unlocks
  <2>4. CASE u = t /\ d > n
    <3>1. d <= Depth(t)' /\ Unlocks(Call(t, d)', c, a, type)
      BY Zenon, <2>2, <2>4, <1>2 DEF UnlockKept
    <3>2. d \in 1 .. Depth(t)'
      BY <3>1, <2>4, <1>0
    <3> QED
      BY Zenon, <3>1, <3>2, <2>4 DEF Unlocking, Unlocks
  <2> QED
    BY <2>3, <2>4, <1>0
<1> QED
  BY Zenon, <1>1, <1>2

(* Two states of a line a parent cannot tell apart. *)
Alike(s, r) == s = r \/ (s \in {E, M} /\ r \in {E, M})
SameEntry(p, a) ==
    EntryOf(p, a)'.sharers = EntryOf(p, a).sharers /\ isExclusive(EntryOf(p, a))' = isExclusive(EntryOf(p, a))

(* A directory stays exact where neither entry, state nor windows change. *)
LEMMA ListedKeeps ==
    ASSUME CoherenceInv, NEW t \in Threads, NEW n \in Int, Kept(t, n), Footprint(t, n), Types',
           NEW c \in Caches, NEW a \in Lines, NEW p, p = Parent(c, a), Listed(c, a),
           Alike(StateOf(c, a), StateOf(c, a)'), SameEntry(p, a),
           UpgradeKept(t, n, p, c, a), UnlockKept(t, n, c, a, INV), UnlockKept(t, n, c, a, INVX)
    PROVE  Listed(c, a)'
<1>1. Parent(c, a)' = p
  BY Zenon DEF Parent, Footprint
<1>2. /\ Upgrading(p, c, a) => Upgrading(p, c, a)'
      /\ Unlocking(c, a, INV) => Unlocking(c, a, INV)'
      /\ Unlocking(c, a, INVX) => Unlocking(c, a, INVX)'
  BY Zenon, MarksKeep, INV = INV', INVX = INVX' DEF INV, INVX
<1> DEFINE s == StateOf(c, a)
           sh == EntryOf(p, a).sharers
           ex == isExclusive(EntryOf(p, a))
           up == Upgrading(p, c, a)
           un == Unlocking(c, a, INV)
           ux == Unlocking(c, a, INVX)
<1>3. \/ (c \in sh <=> s # I) /\ (c \in sh => (ex <=> s \in {E, M}))
      \/ up /\ s = S /\ c \notin sh /\ ~ex
      \/ un /\ s = I /\ c \in sh
      \/ ux /\ s = S /\ c \in sh /\ ex
  BY Zenon DEF Listed
<1>4. Alike(s, s') /\ sh' = sh /\ ex' = ex /\ (up => up') /\ (un => un') /\ (ux => ux')
  <2>1. s' = StateOf(c, a)' /\ sh' = EntryOf(p, a)'.sharers /\ ex' = isExclusive(EntryOf(p, a))'
    BY Zenon
  <2> QED
    BY Zenon, <1>2, <2>1 DEF SameEntry
<1>5. \/ (c \in sh' <=> s' # I) /\ (c \in sh' => (ex' <=> s' \in {E, M}))
      \/ up' /\ s' = S /\ c \notin sh' /\ ~ex'
      \/ un' /\ s' = I /\ c \in sh'
      \/ ux' /\ s' = S /\ c \in sh' /\ ex'
  <2> HIDE DEF s, sh, ex, up, un, ux
  <2> QED
    BY Zenon, <1>3, <1>4 DEF Alike, I, S, E, M
<1> QED
  BY Zenon, <1>1, <1>5 DEF Listed, I, S, E, M

----------------------------------------------------------------------------
(* Steps. *)

(* A step keeps the invariant when it re-establishes what it touched. *)
LEMMA StepKeeps ==
    ASSUME CoherenceInv, NEW t \in Threads, NEW n \in Int, Kept(t, n), Footprint(t, n),
           Types', Distinct', Ordered', SlotsOK', Directory',
           \A d \in 1 .. Depth(t)' : d > n => CallOK(t, d)'
    PROVE  CoherenceInv'
<1>1. \A u \in Threads : \A d \in 1 .. Depth(u)' : u # t \/ d <= n => CallOK(u, d)'
  BY Zenon, OthersKeep
<1>2. Depth(t)' \in Nat
  <2>1. stack'[t] \in Seq(Frame')
    BY Zenon DEF Types
  <2> QED
    BY <2>1 DEF Depth
<1>3. \A u \in Threads : \A d \in 1 .. Depth(u)' : CallOK(u, d)'
  BY <1>1, <1>2
<1>4. CallsOK'
  BY Zenon, <1>3 DEF CallsOK
<1> QED
  BY Zenon, <1>4 DEF CoherenceInv

(* A step that changes neither tags, states nor directories. *)
QuietLocks(t) ==
    /\ bccLock' \in [Caches -> Threads \cup {FREE}] /\ tccLock' \in [Caches -> Threads \cup {FREE}]
    /\ filterLock' \in [Caches -> Threads \cup {FREE}]
    /\ \A c \in Caches : bccLock'[c] = bccLock[c] \/ bccLock[c] = FREE \/ Holder(t, c)
    /\ \A c \in Caches : \/ tccLock'[c] = tccLock[c] \/ tccLock[c] = FREE
                         \/ /\ Depth(t) >= 1 /\ HoldsTcc(t, Depth(t))
                            /\ Call(t, Depth(t)).c = c
NotMarked(t, n) == \A d \in 1 .. Depth(t) : d > n =>
    /\ ~(IsAccess(t, d) /\ Call(t, d).pc = "directory" /\ Call(t, d).type = GETX /\ ~Waits(t, d))
    /\ ~(IsInv(t, d) /\ Call(t, d).pc = "unlock")

(* A step that only moves calls and locks touches no cache. *)
LEMMA QuietFootprint ==
    ASSUME CoherenceInv, NEW t \in Threads, NEW n, UNCHANGED <<hier, array, bcc, tcc>>,
           QuietLocks(t), stack' \in [Threads -> Seq(Frame)]
    PROVE  Footprint(t, n) /\ Types' /\ Distinct' /\ SlotsOK'
<1>1. Types /\ Distinct /\ SlotsOK
  BY Zenon DEF CoherenceInv
<1>2. Caches' = Caches /\ Entries' = Entries /\ MESIState' = MESIState
      /\ \A c : Slot(c)' = Slot(c)
  BY Zenon DEF Caches, Entries, Slot, MESIState, I, S, E, M
<1>3. Frame' = Frame
  BY Zenon, <1>2 DEF Frame, AccessFrame, InvFrame, ReplaceFrame, GETS, GETX, PUTS, PUTX, INV, INVX, CORE
<1>4. Types'
  BY Zenon, <1>1, <1>2, <1>3 DEF Types, QuietLocks, FREE, NoLine
<1>5. Distinct'
  BY Zenon, <1>1, <1>2 DEF Distinct, NoLine
<1>6. SlotsOK'
  BY <1>1, <1>2 DEF SlotsOK, NoLine, Parent, isExclusive, Asked, I, E, M
<1>7. \A c \in Caches, a \in Lines : StateOf(c, a)' = StateOf(c, a)
  BY Zenon, <1>2 DEF StateOf, lookup, I
<1>8. Footprint(t, n)
  BY Zenon, <1>7 DEF Footprint, QuietLocks
<1> QED
  BY Zenon, <1>4, <1>5, <1>6, <1>8

(* A step of a call outside the windows opens and closes none. *)
LEMMA UnmarkedKeep ==
    ASSUME NEW t, NEW n, NotMarked(t, n), NEW p, NEW c, NEW a, NEW type
    PROVE  UpgradeKept(t, n, p, c, a) /\ UnlockKept(t, n, c, a, type)
  BY Zenon DEF NotMarked, UpgradeKept, UnlockKept, Upgrades, Unlocks, IsAccess, IsInv

(* A step that only moves calls and locks keeps the directories. *)
LEMMA QuietDirectory ==
    ASSUME CoherenceInv, NEW t \in Threads, NEW n \in Int, Kept(t, n), Footprint(t, n), Types',
           UNCHANGED <<hier, array, bcc, tcc>>, NotMarked(t, n)
    PROVE  Directory'
<1>1. Caches' = Caches /\ (\A c : Slot(c)' = Slot(c)) /\ (\A c, a : Parent(c, a)' = Parent(c, a))
  BY Zenon DEF Caches, Slot, Parent
<1>2. \A c, a : lookup(c, a)' = lookup(c, a)
  BY Zenon, <1>1 DEF lookup
<1>3. \A c, a : StateOf(c, a)' = StateOf(c, a) /\ EntryOf(c, a)' = EntryOf(c, a)
  BY Zenon, <1>1, <1>2 DEF StateOf, EntryOf, I, Clear
<1>4. ASSUME NEW c \in Caches, NEW a \in Lines, Parent(c, a) # MEM PROVE Listed(c, a)'
  <2>1. Listed(c, a)
    BY Zenon, <1>4 DEF CoherenceInv, Directory
  <2>2. Alike(StateOf(c, a), StateOf(c, a)')
    BY Zenon, <1>3 DEF Alike
  <2>3. \A p : SameEntry(p, a)
    BY Zenon, <1>3 DEF SameEntry, isExclusive
  <2>4. \A p, type : UpgradeKept(t, n, p, c, a) /\ UnlockKept(t, n, c, a, type)
    BY Zenon, UnmarkedKeep
  <2> QED
    BY Zenon, <2>1, <2>2, <2>3, <2>4, ListedKeeps
<1> QED
  BY Zenon, <1>1, <1>4 DEF Directory, MEM

(* A step that only moves calls and locks keeps the invariant, if what the *)
(* moved calls know is true.                                               *)
LEMMA QuietStep ==
    ASSUME CoherenceInv, NEW t \in Threads, NEW n \in Int, Kept(t, n), NotMarked(t, n),
           UNCHANGED <<hier, array, bcc, tcc>>, QuietLocks(t), stack' \in [Threads -> Seq(Frame)],
           Ordered', \A d \in 1 .. Depth(t)' : d > n => CallOK(t, d)'
    PROVE  CoherenceInv'
<1>1. Footprint(t, n) /\ Types' /\ Distinct' /\ SlotsOK'
  BY Zenon, QuietFootprint
<1>2. Directory'
  BY Zenon, <1>1, QuietDirectory
<1> QED
  BY Zenon, <1>1, <1>2, StepKeeps

(* The call a thread runs. *)
LEMMA TopIs ==
    ASSUME CoherenceInv, NEW t \in Threads, stack[t] # <<>>, NEW top, top = Depth(t)
    PROVE  /\ top \in 1 .. Depth(t) /\ top \in Nat /\ top >= 1
           /\ Top(t) = Call(t, top) /\ Top(t) \in Frame
           /\ CallOK(t, top) /\ ~Waits(t, top)
           /\ Top(t).c \in Caches /\ Top(t).addr \in Lines
<1>1. Types /\ CallsOK
  BY Zenon DEF CoherenceInv
<1>2. Depth(t) \in Nat /\ Depth(t) >= 1 /\ Top(t) = Call(t, top)
  BY Zenon, <1>1, CallTypes
<1>3. Depth(t) \in 1 .. Depth(t)
  BY <1>2
<1>4. Top(t) \in Frame /\ Top(t).c \in Caches /\ Top(t).addr \in Lines
  BY Zenon, <1>1, <1>2, <1>3, CallTypes, FrameKinds
<1>5. ~Waits(t, top)
  BY <1>2 DEF Waits
<1> QED
  BY Zenon, <1>1, <1>2, <1>3, <1>4, <1>5 DEF CallsOK

(* A step that goes on in the same call. *)
LEMMA StayKeeps ==
    ASSUME CoherenceInv, NEW t \in Threads, stack[t] # <<>>, NEW top, top = Depth(t),
           NEW f \in Frame, Stay(t, f), f.op = Top(t).op
    PROVE  /\ Kept(t, top - 1) /\ stack' \in [Threads -> Seq(Frame)]
           /\ Depth(t)' = top /\ Elsewhere(t) /\ Call(t, top)' = f /\ ~Waits(t, top)'
           /\ top > 1 => Call(t, top - 1)' = Call(t, top - 1)
           /\ \A d \in 1 .. top : Call(t, d)' = IF d = top THEN f ELSE Call(t, d)
<1>1. top \in 1 .. top /\ top \in Nat /\ top >= 1 /\ Top(t) = Call(t, top)
  BY Zenon, TopIs
<1>2. Stays(t, f) /\ stack' \in [Threads -> Seq(Frame)]
  BY Zenon, StayEffect DEF CoherenceInv
<1>3. \A d \in 1 .. top : Call(t, d)' = IF d = top THEN f ELSE Call(t, d)
  BY Zenon, <1>2 DEF Stays
<1>4. Depth(t)' = top /\ Elsewhere(t)
  BY Zenon, <1>2 DEF Stays
<1>5. Call(t, top)' = f
  BY Zenon, <1>1, <1>3
<1>6. ~Waits(t, top)'
  BY <1>1, <1>4 DEF Waits
<1>7. top > 1 => Call(t, top - 1)' = Call(t, top - 1)
  <2>1. top > 1 => top - 1 \in 1 .. top /\ top - 1 # top
    BY <1>1
  <2> QED
    BY Zenon, <2>1, <1>3
<1>8. Kept(t, top - 1)
  <2>1. \A d \in 1 .. top - 1 : d \in 1 .. top /\ d # top
    BY <1>1
  <2>2. top - 1 + 1 = top /\ top - 1 \in Int
    BY <1>1
  <2>3. \A d \in 1 .. top - 1 : Call(t, d)' = Call(t, d)
    BY Zenon, <2>1, <1>3
  <2> QED
    BY <1>1, <1>4, <1>5, <2>2, <2>3 DEF Kept
<1> QED
  BY Zenon, <1>2, <1>3, <1>4, <1>5, <1>6, <1>7, <1>8

(* A call that goes on keeps the order of the stack. *)
LEMMA StayOrdered ==
    ASSUME CoherenceInv, NEW t \in Threads, stack[t] # <<>>, NEW f \in Frame, Stay(t, f),
           f.op = Top(t).op, f.c = Top(t).c, Types', hier' = hier
    PROVE  Ordered'
<1>1. PICK top : top = Depth(t)
  BY Zenon
<1>2. top \in Nat /\ Top(t) = Call(t, top)
  BY Zenon, <1>1, TopIs
<1>3. Depth(t)' = top /\ Elsewhere(t) /\ \A d \in 1 .. top : Call(t, d)' = IF d = top THEN f ELSE Call(t, d)
  BY <1>1, StayKeeps
<1>4. \A d \in 1 .. Depth(t) : Call(t, d)'.op = Call(t, d).op /\ Call(t, d)'.c = Call(t, d).c
  BY Zenon, <1>1, <1>2, <1>3
<1>5. Depth(t)' <= Depth(t) + 1 /\ ~(Depth(t)' = Depth(t) + 1)
  BY <1>1, <1>2, <1>3
<1> QED
  BY Zenon, <1>3, <1>4, <1>5, OrderedKeeps DEF CoherenceInv

(* A step that makes a call. *)
LEMMA PushKeeps ==
    ASSUME CoherenceInv, NEW t \in Threads, stack[t] # <<>>, NEW top, top = Depth(t),
           NEW f \in Frame, NEW g \in Frame, Push(t, f, g), f.op = Top(t).op
    PROVE  /\ Kept(t, top - 1) /\ stack' \in [Threads -> Seq(Frame)] /\ Pushes(t, f, g)
           /\ Depth(t)' = top + 1 /\ Call(t, top)' = f /\ Call(t, top + 1)' = g
           /\ Call(t, top + 1 - 1)' = f
           /\ top > 1 => Call(t, top - 1)' = Call(t, top - 1)
<1>1. top \in 1 .. top /\ top \in Nat /\ top >= 1 /\ Top(t) = Call(t, top)
  BY Zenon, TopIs
<1>2. Pushes(t, f, g) /\ stack' \in [Threads -> Seq(Frame)]
  BY Zenon, PushEffect DEF CoherenceInv
<1>3. \A d \in 1 .. top + 1 : Call(t, d)' = IF d = top + 1 THEN g ELSE IF d = top THEN f ELSE Call(t, d)
  BY Zenon, <1>2 DEF Pushes
<1>4. Depth(t)' = top + 1 /\ Elsewhere(t)
  BY Zenon, <1>2 DEF Pushes
<1>5. Call(t, top)' = f /\ Call(t, top + 1)' = g /\ top + 1 - 1 = top
  <2>1. top \in 1 .. top + 1 /\ top + 1 \in 1 .. top + 1 /\ top # top + 1 /\ top + 1 - 1 = top
    BY <1>1
  <2> QED
    BY Zenon, <2>1, <1>3
<1>7. top > 1 => Call(t, top - 1)' = Call(t, top - 1)
  <2>1. top > 1 => top - 1 \in 1 .. top + 1 /\ top - 1 # top /\ top - 1 # top + 1
    BY <1>1
  <2> QED
    BY Zenon, <2>1, <1>3
<1>8. Kept(t, top - 1)
  <2>1. \A d \in 1 .. top - 1 : d \in 1 .. top + 1 /\ d # top /\ d # top + 1
    BY <1>1
  <2>2. top - 1 + 1 = top /\ top - 1 \in Int
    BY <1>1
  <2>3. \A d \in 1 .. top - 1 : Call(t, d)' = Call(t, d)
    BY Zenon, <2>1, <1>3
  <2> QED
    BY <1>1, <1>4, <1>5, <2>2, <2>3 DEF Kept
<1> QED
  BY Zenon, <1>2, <1>4, <1>5, <1>7, <1>8

(* A step that returns to the caller, as g. *)
LEMMA ReturnKeeps ==
    ASSUME CoherenceInv, NEW t \in Threads, NEW top \in Nat, top = Depth(t), top >= 2, NEW g \in Frame,
           Returns(t, g), top > 2 => g.op = Call(t, top - 1).op
    PROVE  /\ Kept(t, top - 2)
           /\ Depth(t)' = top - 1 /\ Elsewhere(t) /\ Call(t, top - 1)' = g /\ ~Waits(t, top - 1)'
           /\ top > 2 => Call(t, top - 1 - 1)' = Call(t, top - 1 - 1)
           /\ \A d \in 1 .. top - 1 : Call(t, d)' = IF d = top - 1 THEN g ELSE Call(t, d)
<1>1. \A d \in 1 .. top - 1 : Call(t, d)' = IF d = top - 1 THEN g ELSE Call(t, d)
  BY Zenon DEF Returns
<1>2. Depth(t)' = top - 1 /\ Elsewhere(t)
  BY Zenon DEF Returns
<1>3. Call(t, top - 1)' = g
  <2>1. top - 1 \in 1 .. top - 1
    OBVIOUS
  <2> QED
    BY Zenon, <1>1, <2>1
<1>4. ~Waits(t, top - 1)'
  BY <1>2 DEF Waits
<1>5. top > 2 => Call(t, top - 1 - 1)' = Call(t, top - 1 - 1)
  <2>1. top > 2 => top - 1 - 1 \in 1 .. top - 1 /\ top - 1 - 1 # top - 1
    OBVIOUS
  <2> QED
    BY Zenon, <2>1, <1>1
<1>6. Kept(t, top - 2)
  <2>1. \A d \in 1 .. top - 2 : d \in 1 .. top - 1 /\ d # top - 1
    OBVIOUS
  <2>2. top - 2 + 1 = top - 1 /\ top - 2 \in Int
    OBVIOUS
  <2>3. \A d \in 1 .. top - 2 : Call(t, d)' = Call(t, d)
    BY Zenon, <2>1, <1>1
  <2> QED
    BY <1>2, <1>3, <2>2, <2>3 DEF Kept
<1> QED
  BY Zenon, <1>1, <1>2, <1>3, <1>4, <1>5, <1>6

(* A call that returns keeps the order of the stack. *)
LEMMA ReturnOrdered ==
    ASSUME CoherenceInv, NEW t \in Threads, Depth(t) >= 2, NEW g \in Frame, Returns(t, g),
           g.op = Call(t, Depth(t) - 1).op, g.c = Call(t, Depth(t) - 1).c, Types', hier' = hier
    PROVE  Ordered'
<1>1. Depth(t) \in Nat /\ Types
  BY Zenon, CallTypes DEF CoherenceInv
<1>4. \A d \in 1 .. Depth(t) : d <= Depth(t)' => Call(t, d)'.op = Call(t, d).op /\ Call(t, d)'.c = Call(t, d).c
  BY <1>1 DEF Returns
<1>5. Depth(t)' <= Depth(t) + 1 /\ ~(Depth(t)' = Depth(t) + 1)
  BY <1>1 DEF Returns
<1> QED
  BY Zenon, <1>4, <1>5, OrderedKeeps DEF CoherenceInv, Returns

(* An access that goes on stays the access its caller made. *)
LEMMA AccessStays ==
    ASSUME CoherenceInv, NEW t \in Threads, NEW top \in 1 .. Depth(t), IsAccess(t, top),
           hier' = hier, NEW f, Call(t, top)' = f,
           top > 1 => Call(t, top - 1)' = Call(t, top - 1),
           \A c \in Caches : c # f.c => array'[c] = array[c],
           f.op = "access", f.c = Call(t, top).c, f.addr = Call(t, top).addr,
           f.child = Call(t, top).child, f.slot = Call(t, top).slot, f.init = Call(t, top).init,
           \/ f.type = Call(t, top).type
           \/ f.type \in {PUTS, PUTX} /\ Call(t, top).type \in {PUTS, PUTX}
    PROVE  ShapeOK(t, top)'
<1>0. Types /\ CallsOK /\ Depth(t) \in Nat
  BY Zenon, CallTypes DEF CoherenceInv
<1>1. ShapeOK(t, top) /\ Call(t, top).op = "access"
  BY Zenon DEF CoherenceInv, CallsOK, CallOK, IsAccess
<1>2. CASE top <= 2
  <2>1. top = 2 /\ f.child = CORE /\ f.c \in hier.core[t] /\ f.type \in {GETS, GETX} /\ f.init = I
    <3>1. top = 2
      BY Zenon, <1>0, <1>1, <1>2, LowDepth DEF ShapeOK
    <3>2. /\ Call(t, top).child = CORE /\ Call(t, top).c \in hier.core[t]
          /\ Call(t, top).type \in {GETS, GETX} /\ Call(t, top).init = I
      BY Zenon, <3>1, <1>1 DEF ShapeOK
    <3>3. f.type \in {GETS, GETX}
      BY Zenon, <3>2 DEF GETS, GETX, PUTS, PUTX
    <3> QED
      BY Zenon, <3>1, <3>2, <3>3
  <2>2. top # 1 /\ ~(top > 2)
    BY Zenon, <2>1, <1>0, LowDepth
  <2> QED
    BY Zenon, <2>1, <2>2 DEF ShapeOK, CORE, GETS, GETX, I
<1>3. CASE top > 2
  <2> DEFINE g == Call(t, top - 1)
  <2>1. Called(Call(t, top), g) /\ Call(t, top).child \in Caches /\ Call(t, top).c # Call(t, top).child
    BY Zenon, <1>0, <1>3, CallerOf
  <2>2. g.c \in Caches /\ g.c # f.c
    BY Zenon, <2>1 DEF Called
  <2>3. array'[g.c] = array[g.c] /\ Call(t, top - 1)' = g
    BY Zenon, <2>2, <1>0, <1>3, DepthNat, SomeDepth
  <2>4. Called(Call(t, top), Call(t, top - 1))'
    BY ZenonT(30), <2>1, <2>3 DEF Called, Slot, Parent, Terminal, GETS, GETX, PUTS, PUTX
  <2>5. top # 1 /\ top # 2
    BY Zenon, <1>0, <1>3, DepthNat, SomeDepth
  <2> QED
    BY Zenon, <2>4, <2>5 DEF ShapeOK
<1> QED
  BY Zenon, <1>0, <1>2, <1>3, LowDepth

(* The access that a thread runs. *)
AccessRuns(t, top, f, pc) ==
    /\ stack[t] # <<>> /\ top \in 1 .. Depth(t) /\ top \in Nat /\ top >= 2 /\ top - 1 \in Int
    /\ f = Call(t, top) /\ IsAccess(t, top) /\ ~Waits(t, top) /\ ~IsInv(t, top)
    /\ f \in AccessFrame /\ f.op = "access" /\ f.pc = pc
    /\ f.c \in Caches /\ f.addr \in Lines
    /\ LocksOK(t, top) /\ ShapeOK(t, top)
    /\ OwnAccess(f, FALSE) /\ (top > 2 => ChildOK(f))
    /\ HoldsBcc(t, top) <=> pc \notin {"tcc", "bcc"}
    /\ pc \notin {"tcc", "bcc"} => Holder(t, f.c) /\ bccLock[f.c] = t

(* What the invariant says about an access that runs. *)
LEMMA RunsAccess ==
    ASSUME CoherenceInv, NEW t \in Threads, NEW pc, Busy(t, "access", pc), NEW top, top = Depth(t),
           NEW f, f = Top(t)
    PROVE  AccessRuns(t, top, f, pc)
<1>1. stack[t] # <<>> /\ f.op = "access" /\ f.pc = pc
  BY Zenon DEF Busy, Top
<1>2. /\ top \in 1 .. Depth(t) /\ top \in Nat /\ top >= 1
      /\ f = Call(t, top) /\ f \in Frame
      /\ CallOK(t, top) /\ ~Waits(t, top)
      /\ f.c \in Caches /\ f.addr \in Lines
  BY Zenon, <1>1, TopIs
<1>3. f \in AccessFrame /\ IsAccess(t, top) /\ ~IsInv(t, top)
  BY Zenon, <1>1, <1>2, FrameKinds DEF IsAccess, IsInv
<1>4. top # 1 /\ LocksOK(t, top) /\ ShapeOK(t, top)
  BY Zenon, <1>1, <1>2 DEF CallOK, ShapeOK
<1>9. top >= 2 /\ top - 1 \in Int
  BY <1>2, <1>4
<1>5. OwnAccess(f, Waits(t, top)) /\ (top > 2 => ChildOK(f))
  BY Zenon, <1>1, <1>2 DEF CallOK, KnowsOK
<1>6. OwnAccess(f, FALSE)
  BY Zenon, <1>2, <1>5 DEF OwnAccess
<1>7. HoldsBcc(t, top) <=> pc \notin {"tcc", "bcc"}
  BY Zenon, <1>1, <1>2, <1>3 DEF HoldsBcc
<1>8. pc \notin {"tcc", "bcc"} => Holder(t, f.c) /\ bccLock[f.c] = t
  BY Zenon, <1>2, <1>7 DEF Holder, CallOK, LocksOK
<1> QED
  BY Zenon, <1>1, <1>2, <1>3, <1>4, <1>5, <1>6, <1>7, <1>8, <1>9 DEF AccessRuns

InvRuns(t, top, f, pc) ==
    /\ stack[t] # <<>> /\ top \in 1 .. Depth(t) /\ top \in Nat /\ top > 2 /\ top - 1 \in Int
    /\ top - 1 \in 1 .. Depth(t) /\ top - 1 > 1
    /\ f = Call(t, top) /\ IsInv(t, top) /\ ~IsAccess(t, top) /\ ~Waits(t, top)
    /\ f \in InvFrame /\ f.op = "inv" /\ f.pc = pc
    /\ f.c \in Caches /\ f.addr \in Lines
    /\ Sent(f, Call(t, top - 1)) /\ OwnInv(f, Call(t, top - 1))
    /\ HoldsBcc(t, top - 1) /\ Call(t, top - 1).c = Parent(f.c, f.addr)
    /\ Call(t, top - 1).c \in Caches /\ Call(t, top - 1) \in Frame
    /\ Call(t, top - 1).c # f.c /\ Call(t, top - 1).op \in {"access", "inv"}
    /\ CallOK(t, top - 1)
    /\ HoldsBcc(t, top) <=> pc \in {"children", "filter"}
    /\ pc \in {"children", "filter"} => Holder(t, f.c) /\ bccLock[f.c] = t

(* What the invariant says about an invalidation that runs. *)
LEMMA RunsInv ==
    ASSUME CoherenceInv, NEW t \in Threads, NEW pc, Busy(t, "inv", pc), NEW top, top = Depth(t),
           NEW f, f = Top(t)
    PROVE  InvRuns(t, top, f, pc)
<1>1. stack[t] # <<>> /\ f.op = "inv" /\ f.pc = pc
  BY Zenon DEF Busy, Top
<1>2. /\ top \in 1 .. Depth(t) /\ top \in Nat /\ top >= 1
      /\ f = Call(t, top) /\ f \in Frame
      /\ CallOK(t, top) /\ ~Waits(t, top)
      /\ f.c \in Caches /\ f.addr \in Lines
  BY Zenon, <1>1, TopIs
<1>3. f \in InvFrame /\ IsInv(t, top) /\ ~IsAccess(t, top)
  BY Zenon, <1>1, <1>2, FrameKinds DEF IsAccess, IsInv
<1>4. /\ top > 2 /\ top - 1 \in 1 .. Depth(t) /\ HoldsBcc(t, top - 1)
      /\ Call(t, top - 1) \in Frame /\ Sent(Call(t, top), Call(t, top - 1))
      /\ Call(t, top - 1).c \in Caches
      /\ Call(t, top - 1).c = Parent(Call(t, top).c, Call(t, top).addr)
      /\ Call(t, top - 1).c # Call(t, top).c
  BY Zenon, <1>2, <1>3, SenderHolds DEF CoherenceInv
<1>10. /\ Sent(f, Call(t, top - 1)) /\ Call(t, top - 1).c = Parent(f.c, f.addr) /\ Call(t, top - 1).c # f.c
  BY Zenon, <1>2, <1>4
<1>5. OwnInv(f, Call(t, top - 1))
  BY Zenon, <1>1, <1>2 DEF CallOK, KnowsOK
<1>6. Call(t, top - 1).op \in {"access", "inv"}
  BY Zenon, <1>4 DEF HoldsBcc, IsAccess, IsInv
<1>7. HoldsBcc(t, top) <=> pc \in {"children", "filter"}
  BY Zenon, <1>1, <1>2, <1>3 DEF HoldsBcc
<1>8. pc \in {"children", "filter"} => Holder(t, f.c) /\ bccLock[f.c] = t
  BY Zenon, <1>2, <1>7 DEF Holder, CallOK, LocksOK
<1>9. top - 1 \in Int /\ top - 1 > 1 /\ CallOK(t, top - 1)
  BY <1>2, <1>4 DEF CoherenceInv, CallsOK
<1> QED
  BY Zenon, <1>1, <1>2, <1>3, <1>4, <1>5, <1>6, <1>7, <1>8, <1>9, <1>10 DEF InvRuns

(* An access goes on as h in the same cache, and takes or keeps its locks. *)
SameAccess(h, f) ==
    /\ h \in AccessFrame /\ h.c = f.c /\ h.addr = f.addr /\ h.child = f.child /\ h.slot = f.slot
    /\ h.init = f.init
    /\ h.type = f.type \/ (h.type \in {PUTS, PUTX} /\ f.type \in {PUTS, PUTX})

(* An access that only takes a lock keeps the invariant. *)
LEMMA QuietAccess ==
    ASSUME CoherenceInv, NEW t \in Threads, NEW top, top = Depth(t), NEW f, f = Top(t), NEW pc,
           AccessRuns(t, top, f, pc), pc \in {"tcc", "bcc"},
           NEW h, SameAccess(h, f), Stay(t, h), UNCHANGED <<hier, array, bcc, tcc>>, QuietLocks(t),
           h.pc \notin {"tcc", "bcc"} => bccLock'[f.c] = t,
           h.pc # "tcc" /\ ~Terminal(f.c) => tccLock'[f.c] = t,
           OwnAccess(h, FALSE), top > 2 => ChildOK(h)
    PROVE  CoherenceInv'
<1>2. /\ stack[t] # <<>> /\ top \in 1 .. Depth(t) /\ top \in Nat /\ top >= 2 /\ top - 1 \in Int
      /\ f = Call(t, top) /\ IsAccess(t, top) /\ ~IsInv(t, top)
      /\ f.op = "access" /\ f.pc = pc /\ f.c \in Caches
  BY Zenon DEF AccessRuns
<1>3. h \in Frame /\ h.op = "access"
  BY Zenon DEF SameAccess, AccessFrame, Frame
<1>4. /\ Kept(t, top - 1) /\ stack' \in [Threads -> Seq(Frame)]
      /\ Depth(t)' = top /\ Call(t, top)' = h /\ ~Waits(t, top)'
      /\ top > 1 => Call(t, top - 1)' = Call(t, top - 1)
  BY Zenon, <1>2, <1>3, StayKeeps
<1>6. Types'
  BY Zenon, <1>4, QuietFootprint
<1>7. Ordered'
  BY Zenon, <1>2, <1>3, <1>6, StayOrdered DEF SameAccess
<1>8. NotMarked(t, top - 1)
  BY Zenon, <1>2, TopDepth DEF NotMarked
<1>9. ShapeOK(t, top)'
  BY Zenon, <1>2, <1>3, <1>4, AccessStays DEF SameAccess
<1>10. CallOK(t, top)'
  <2>1. OwnAccess(h, FALSE)'
    BY Zenon DEF OwnAccess, Slot, Terminal, I, S, E, M, GETS, GETX, CORE
  <2>2. top > 2 => ChildOK(h)'
    BY Zenon DEF ChildOK, I, S, E, M, GETS, GETX, PUTS, PUTX
  <2>3. Waits(t, top)' = FALSE
    BY Zenon, <1>4 DEF Waits
  <2>4. h.pc \notin {"tcc", "bcc"} => bccLock'[h.c] = t
    BY Zenon DEF SameAccess
  <2>5. h.pc # "tcc" /\ ~Terminal(h.c) => tccLock'[h.c] = t
    BY Zenon DEF SameAccess
  <2> QED
    BY Zenon, <2>1, <2>2, <2>3, <2>4, <2>5, <1>3, <1>4, <1>9, AccessAt
<1>11. \A d \in 1 .. Depth(t)' : d > top - 1 => CallOK(t, d)'
  BY Zenon, <1>2, <1>4, <1>10, TopDepth
<1> QED
  BY Zenon, <1>2, <1>4, <1>7, <1>8, <1>11, QuietStep

(* Taking the lock of the directory keeps the invariant. *)
LEMMA LockTccStep ==
    ASSUME CoherenceInv, NEW t \in Threads, lockTcc(t)
    PROVE  CoherenceInv'
<1>0. PICK top, f : top = Depth(t) /\ f = Top(t)
  BY Zenon
<1> DEFINE h == [f EXCEPT !.pc = "bcc"]
<1>1. Busy(t, "access", "tcc") /\ Stay(t, h) /\ UNCHANGED <<hier, array, bcc, tcc, bccLock, filterLock>>
      /\ tccLock' = [tccLock EXCEPT ![f.c] = t] /\ tccLock[f.c] = FREE
  BY Zenon, <1>0 DEF lockTcc
<1>2. AccessRuns(t, top, f, "tcc")
  BY Zenon, <1>0, <1>1, RunsAccess
<1>3. f \in AccessFrame /\ f.pc = "tcc" /\ f.c \in Caches /\ OwnAccess(f, FALSE) /\ (top > 2 => ChildOK(f))
  BY Zenon, <1>2 DEF AccessRuns
<1>4. SameAccess(h, f) /\ h.pc = "bcc" /\ h.type = f.type /\ h.wb = f.wb /\ h.id = f.id
  BY Zenon, <1>3 DEF AccessFrame, SameAccess
<1> HIDE DEF h
<1>5. QuietLocks(t) /\ tccLock'[f.c] = t
  BY Zenon, <1>1, <1>3 DEF QuietLocks, CoherenceInv, Types
<1>6. OwnAccess(h, FALSE)
  BY Zenon, <1>3, <1>4 DEF OwnAccess, SameAccess
<1>7. top > 2 => ChildOK(h)
  BY Zenon, <1>3, <1>4 DEF ChildOK, SameAccess
<1> QED
  BY Zenon, <1>0, <1>1, <1>2, <1>4, <1>5, <1>6, <1>7, QuietAccess

(* startAccess, with the race check and the lookup, keeps the invariant. *)
LEMMA StartAccessStep ==
    ASSUME CoherenceInv, NEW t \in Threads, startAccess(t)
    PROVE  CoherenceInv'
<1>0. PICK top, f : top = Depth(t) /\ f = Top(t)
  BY Zenon
<1> DEFINE race == CheckForMESIRace(f.type, ChildState(f), f.init)
           hit == lookup(f.c, f.addr)
<1>1. Busy(t, "access", "bcc") /\ UNCHANGED <<hier, array, bcc, tcc, tccLock, filterLock>>
      /\ bccLock' = [bccLock EXCEPT ![f.c] = t] /\ bccLock[f.c] = FREE
  BY Zenon, <1>0 DEF startAccess
<1>2. AccessRuns(t, top, f, "bcc")
  BY Zenon, <1>0, <1>1, RunsAccess
<1>3. /\ f \in AccessFrame /\ f.pc = "bcc" /\ f.c \in Caches /\ f.addr \in Lines
      /\ OwnAccess(f, FALSE) /\ (top > 2 => ChildOK(f)) /\ top >= 2 /\ top \in Nat
      /\ top \in 1 .. Depth(t) /\ IsAccess(t, top) /\ f = Call(t, top)
  BY Zenon, <1>2 DEF AccessRuns
<1>4. QuietLocks(t) /\ bccLock'[f.c] = t
  BY Zenon, <1>1, <1>3 DEF QuietLocks, CoherenceInv, Types
<1>5. ~Terminal(f.c) => tccLock'[f.c] = t
  BY Zenon, <1>1, <1>2, <1>3 DEF AccessRuns, LocksOK, HoldsTcc
<1>6. f.wb = FALSE /\ f.id = 0
  BY Zenon, <1>3 DEF OwnAccess, AccessFrame
<1>7. top = 2 => f.child = CORE /\ f.type \in {GETS, GETX} /\ ChildState(f) = I
  BY ZenonT(30), <1>2, <1>3 DEF AccessRuns, ShapeOK, ChildState
<1>8. top > 2 => f.child # CORE /\ ChildState(f) = bcc[f.child][f.slot]
  BY ZenonT(30), <1>3, CallerOf, Tree DEF CoherenceInv, ChildState
<1>9. CASE race.skip /\ Stay(t, [f EXCEPT !.pc = "end"])
  <2> DEFINE h == [f EXCEPT !.pc = "end"]
  <2>1. SameAccess(h, f) /\ h.pc = "end" /\ h.type = f.type /\ h.wb = f.wb /\ h.id = f.id
    BY Zenon, <1>3 DEF AccessFrame, SameAccess
  <2>2. f.type \in {PUTS, PUTX} /\ ChildState(f) = I
    BY ZenonT(30), <1>9 DEF CheckForMESIRace
  <2>3. top > 2 /\ f.child # CORE /\ bcc[f.child][f.slot] = I
    BY Zenon, <1>3, <1>7, <1>8, <2>2, SomeDepth DEF GETS, GETX, PUTS, PUTX
  <2>4. Stay(t, h)
    BY Zenon, <1>9
  <2> HIDE DEF h
  <2>5. OwnAccess(h, FALSE)
    BY Zenon, <1>6, <2>1, <2>3 DEF OwnAccess, SameAccess
  <2>6. ChildOK(h)
    BY Zenon, <2>1, <2>2, <2>3 DEF ChildOK, SameAccess
  <2> QED
    BY Zenon, <1>0, <1>1, <1>2, <1>4, <1>5, <2>1, <2>4, <2>5, <2>6, QuietAccess
<1>10. CASE ~race.skip /\ hit # 0 /\ Stay(t, [f EXCEPT !.pc = "process", !.type = race.type, !.id = hit])
  <2> DEFINE h == [f EXCEPT !.pc = "process", !.type = race.type, !.id = hit]
  <2>1. hit \in Slot(f.c) /\ array[f.c][hit] = f.addr
    BY Zenon, <1>10 DEF lookup
  <2>2. hit \in Nat
    BY Zenon, <2>1, <1>3, SlotNat DEF CoherenceInv
  <2>3. \/ race.type = f.type /\ (f.type \in {GETS, GETX} \/ ChildState(f) = f.init \/ f.type = PUTS)
        \/ race.type = PUTS /\ f.type = PUTX /\ ChildState(f) # f.init
    BY Zenon, <1>3 DEF CheckForMESIRace, AccessFrame
  <2>4. f.type \in {PUTS, PUTX} => ChildState(f) = f.init \/ ChildState(f) # I
    BY Zenon, <1>10 DEF CheckForMESIRace
  <2>5. race.type \in {GETS, GETX, PUTS, PUTX}
    BY Zenon, <1>3, <2>3 DEF AccessFrame
  <2>6. SameAccess(h, f) /\ h.pc = "process" /\ h.type = race.type /\ h.wb = f.wb /\ h.id = hit
    <3> HIDE DEF race, hit
    <3>1. /\ h \in AccessFrame /\ h.c = f.c /\ h.addr = f.addr /\ h.child = f.child /\ h.slot = f.slot
          /\ h.init = f.init /\ h.pc = "process" /\ h.type = race.type /\ h.wb = f.wb /\ h.id = hit
      BY Zenon, <1>3, <2>2, <2>5 DEF AccessFrame
    <3> QED
      BY Zenon, <3>1, <2>3 DEF SameAccess
  <2>7. Stay(t, h)
    BY Zenon, <1>10
  <2> HIDE DEF h
  <2>8. OwnAccess(h, FALSE)
    BY Zenon, <1>6, <2>1, <2>6 DEF OwnAccess, SameAccess
  <2>9. ASSUME top > 2 PROVE ChildOK(h)
    <3>1. ChildOK(f) /\ ChildState(f) = bcc[f.child][f.slot]
      BY Zenon, <1>3, <1>8, <2>9
    <3>2. h.child = f.child /\ h.slot = f.slot /\ h.init = f.init /\ h.pc = "process"
      BY Zenon, <2>6 DEF SameAccess
    <3>3. CASE f.type \in {GETS, GETX}
      <4>1. h.type = f.type
        BY Zenon, <3>3, <2>3, <2>6 DEF GETS, GETX, PUTS, PUTX
      <4> QED
        BY Zenon, <4>1, <3>1, <3>2, <3>3, <1>3 DEF ChildOK, GETS, GETX, PUTS, PUTX
    <3>4. CASE f.type \in {PUTS, PUTX}
      <4>1. f.init \in (IF f.type = PUTX THEN {M} ELSE {S, E}) /\ bcc[f.child][f.slot] \in {f.init, S, I}
        BY Zenon, <3>1, <3>4, <1>3 DEF ChildOK
      <4>2. bcc[f.child][f.slot] \in (IF h.type = PUTX THEN {M} ELSE {S, E}) /\ h.type \in {PUTS, PUTX}
        BY Zenon, <4>1, <3>1, <3>4, <2>3, <2>4, <2>6 DEF GETS, GETX, PUTS, PUTX, I, S, E, M
      <4> QED
        BY Zenon, <4>2, <3>2 DEF ChildOK, GETS, GETX, PUTS, PUTX
    <3> QED
      BY Zenon, <3>3, <3>4, <1>3 DEF AccessFrame
  <2> QED
    BY Zenon, <1>0, <1>1, <1>2, <1>4, <1>5, <2>6, <2>7, <2>8, <2>9, QuietAccess
<1>11. CASE /\ ~race.skip /\ hit = 0 /\ f.type \in {GETS, GETX}
            /\ \E victim \in Slot(f.c) : Stay(t, [f EXCEPT !.pc = "evict", !.id = victim])
  <2>1. PICK victim \in Slot(f.c) : Stay(t, [f EXCEPT !.pc = "evict", !.id = victim])
    BY Zenon, <1>11
  <2> DEFINE h == [f EXCEPT !.pc = "evict", !.id = victim]
  <2>2. victim \in Nat
    BY Zenon, <1>3, SlotNat DEF CoherenceInv
  <2>3. SameAccess(h, f) /\ h.pc = "evict" /\ h.type = f.type /\ h.wb = f.wb /\ h.id = victim
    BY Zenon, <1>3, <2>2 DEF AccessFrame, SameAccess
  <2>4. \A i \in Slot(f.c) : array[f.c][i] # f.addr
    <3>1. \A i \in Slot(f.c) : array[f.c][i] = f.addr => lookup(f.c, f.addr) = i
      BY Zenon, <1>3, StateIs DEF CoherenceInv
    <3>2. \A i \in Slot(f.c) : i # 0
      BY Zenon, <1>3, SlotNat DEF CoherenceInv
    <3> QED
      BY Zenon, <3>1, <3>2, <1>11
  <2>5. Stay(t, h)
    BY Zenon, <2>1
  <2> HIDE DEF h
  <2>6. OwnAccess(h, FALSE)
    BY Zenon, <1>6, <1>11, <2>3, <2>4 DEF OwnAccess, SameAccess
  <2>7. top > 2 => ChildOK(h)
    BY Zenon, <1>3, <1>11, <2>3 DEF ChildOK, SameAccess, GETS, GETX, PUTS, PUTX
  <2> QED
    BY Zenon, <1>0, <1>1, <1>2, <1>4, <1>5, <2>3, <2>5, <2>6, <2>7, QuietAccess
<1> QED
  BY Zenon, <1>0, <1>9, <1>10, <1>11 DEF startAccess

(* A line is locked while an invalidation that unlocks the filter or an     *)
(* upgrade is under way below it.                                           *)
LEMMA NoUnlock ==
    ASSUME CoherenceInv, NEW t \in Threads, NEW d \in 1 .. Depth(t), HoldsBcc(t, d),
           NEW c \in Caches, NEW a \in Lines, Call(t, d).c = Parent(c, a),
           d < Depth(t) => ~(Call(t, d + 1).op = "inv" /\ Call(t, d + 1).pc = "unlock" /\ Call(t, d + 1).c = c),
           NEW type
    PROVE  ~Unlocking(c, a, type)
<1>0. Types /\ CallsOK /\ Ordered /\ SlotsOK /\ Depth(t) \in Nat
  BY Zenon, CallTypes DEF CoherenceInv
<1> SUFFICES ASSUME Unlocking(c, a, type) PROVE FALSE
  BY Zenon
<1>1. PICK u \in Threads : \E e \in 1 .. Depth(u) : Unlocks(Call(u, e), c, a, type)
  BY Zenon DEF Unlocking
<1>2. PICK e \in 1 .. Depth(u) : Unlocks(Call(u, e), c, a, type)
  BY Zenon, <1>1
<1>3. IsInv(u, e) /\ Call(u, e).c = c /\ Call(u, e).addr = a /\ Call(u, e).op = "inv" /\ Call(u, e).pc = "unlock"
  BY Zenon, <1>2 DEF Unlocks, IsInv
<1>4. e - 1 \in 1 .. Depth(u) /\ HoldsBcc(u, e - 1) /\ Call(u, e - 1).c = Parent(c, a)
  BY Zenon, <1>0, <1>3, SenderHolds
<1>5. u = t /\ e - 1 = d
  BY Zenon, <1>0, <1>4, LockUnique
<1>6. e = d + 1 /\ d < Depth(t)
  BY <1>0, <1>5
<1> QED
  BY Zenon, <1>3, <1>5, <1>6

(* An upgrade of a line in its window belongs to the call that holds the *)
(* lock of the cache.                                                    *)
LEMMA OwnUpgrade ==
    ASSUME CoherenceInv, NEW t \in Threads, NEW d \in 1 .. Depth(t), HoldsBcc(t, d),
           NEW c, NEW a, Upgrading(Call(t, d).c, c, a)
    PROVE  Upgrades(Call(t, d), Call(t, d).c, c, a)
<1>1. PICK u \in Threads : \E e \in 1 .. Depth(u) : Upgrades(Call(u, e), Call(t, d).c, c, a) /\ ~Waits(u, e)
  BY Zenon DEF Upgrading
<1>2. PICK e \in 1 .. Depth(u) : Upgrades(Call(u, e), Call(t, d).c, c, a) /\ ~Waits(u, e)
  BY Zenon, <1>1
<1>3. HoldsBcc(u, e) /\ Call(u, e).c = Call(t, d).c
  BY Zenon, <1>2 DEF Upgrades, HoldsBcc, IsAccess
<1>4. u = t /\ e = d
  BY Zenon, <1>3, LockUnique DEF CoherenceInv
<1> QED
  BY Zenon, <1>2, <1>4

(* What the entry e of call f says about child c, which has line a in      *)
(* state s.                                                                *)
Says(f, e, s, c, a) ==
    \/ /\ c \in e.sharers <=> s # I
       /\ c \in e.sharers => (isExclusive(e) <=> s \in {E, M})
    \/ s = S /\ c \notin e.sharers /\ ~isExclusive(e) /\ Upgrades(f, f.c, c, a)

(* What the directory says of a line of a child, while its cache is locked *)
(* by the call a thread runs.                                              *)
LEMMA DirectorySays ==
    ASSUME CoherenceInv, NEW t \in Threads, NEW d \in 1 .. Depth(t), HoldsBcc(t, d),
           NEW p \in Caches, Call(t, d).c = p, NEW i \in Slot(p), NEW a \in Lines, array[p][i] = a,
           NEW c \in Caches, Parent(c, a) = p,
           d < Depth(t) => ~(Call(t, d + 1).op = "inv" /\ Call(t, d + 1).pc = "unlock" /\ Call(t, d + 1).c = c)
    PROVE  Says(Call(t, d), tcc[p][i], StateOf(c, a), c, a)
<1>0. Types /\ Distinct /\ Directory
  BY Zenon DEF CoherenceInv
<1>1. p # MEM
  BY Zenon, <1>0, Tree
<1>2. Listed(c, a)
  BY Zenon, <1>0, <1>1 DEF Directory
<1>3. EntryOf(p, a) = tcc[p][i]
  BY Zenon, <1>0, StateIs
<1>4. ~Unlocking(c, a, INV) /\ ~Unlocking(c, a, INVX)
  BY Zenon, NoUnlock
<1>5. Upgrading(p, c, a) => Upgrades(Call(t, d), p, c, a)
  BY Zenon, OwnUpgrade
<1> QED
  BY Zenon, <1>2, <1>3, <1>4, <1>5 DEF Listed, Says

(* An invalidation finds the line, with the permission it takes away. *)
LEMMA InvFinds ==
    ASSUME CoherenceInv, NEW t \in Threads, NEW d \in 1 .. Depth(t), IsInv(t, d), Call(t, d).pc # "unlock"
    PROVE  /\ StateOf(Call(t, d).c, Call(t, d).addr) # I
           /\ StateOf(Call(t, d).c, Call(t, d).addr) \in {E, M} <=>
                 isExclusive(tcc[Call(t, d - 1).c][Call(t, d - 1).id])
           /\ lookup(Call(t, d).c, Call(t, d).addr) \in Slot(Call(t, d).c)
           /\ array[Call(t, d).c][lookup(Call(t, d).c, Call(t, d).addr)] = Call(t, d).addr
           /\ StateOf(Call(t, d).c, Call(t, d).addr) =
                 bcc[Call(t, d).c][lookup(Call(t, d).c, Call(t, d).addr)]
<1> DEFINE c == Call(t, d).c
           a == Call(t, d).addr
           g == Call(t, d - 1)
<1>0. Types /\ Distinct /\ CallsOK /\ SlotsOK /\ Depth(t) \in Nat
  BY Zenon, CallTypes DEF CoherenceInv
<1>1. c \in Caches /\ a \in Lines
  BY Zenon, <1>0, CallTypes, FrameKinds
<1>2. /\ d > 2 /\ d - 1 \in 1 .. Depth(t) /\ HoldsBcc(t, d - 1) /\ g.c \in Caches /\ g.id \in Slot(g.c)
      /\ g.c = Parent(c, a) /\ array[g.c][g.id] = a /\ c \in tcc[g.c][g.id].sharers
  BY Zenon, <1>0, SenderHolds
<1>3. d - 1 + 1 = d
  BY Zenon, <1>0, DepthNat, NearDepth
<1> HIDE DEF c, a, g
<1>4. /\ c \in tcc[g.c][g.id].sharers <=> StateOf(c, a) # I
      /\ c \in tcc[g.c][g.id].sharers => (isExclusive(tcc[g.c][g.id]) <=> StateOf(c, a) \in {E, M})
  <2>1. ~(Call(t, d - 1 + 1).op = "inv" /\ Call(t, d - 1 + 1).pc = "unlock" /\ Call(t, d - 1 + 1).c = c)
    BY Zenon, <1>3
  <2>2. PICK n, p, i : n = d - 1 /\ p = g.c /\ i = g.id
    BY Zenon
  <2>3. /\ n \in 1 .. Depth(t) /\ HoldsBcc(t, n) /\ p \in Caches /\ Call(t, n).c = p /\ i \in Slot(p)
        /\ array[p][i] = a /\ Parent(c, a) = p /\ c \in tcc[p][i].sharers
    BY Zenon, <2>2, <1>2 DEF g
  <2>4. n < Depth(t) => ~(Call(t, n + 1).op = "inv" /\ Call(t, n + 1).pc = "unlock" /\ Call(t, n + 1).c = c)
    BY Zenon, <2>1, <2>2
  <2>5. Says(Call(t, n), tcc[p][i], StateOf(c, a), c, a)
    BY Zenon, <2>3, <2>4, <1>1, DirectorySays
  <2> QED
    BY Zenon, <2>2, <2>3, <2>5 DEF Says
<1>5. StateOf(c, a) # I /\ (StateOf(c, a) \in {E, M} <=> isExclusive(tcc[g.c][g.id]))
  BY Zenon, <1>2, <1>4
<1>6. PICK i \in Slot(c) : array[c][i] = a
  BY Zenon, <1>0, <1>1, <1>5, StateIs
<1>7. lookup(c, a) = i /\ StateOf(c, a) = bcc[c][i]
  BY Zenon, <1>0, <1>1, <1>6, StateIs
<1> QED
  BY Zenon, <1>5, <1>6, <1>7 DEF c, a, g

(* A call sends an invalidation. *)
LEMMA QuietPush ==
    ASSUME CoherenceInv, NEW t \in Threads, stack[t] # <<>>, NEW top, top = Depth(t), NEW f, f = Top(t),
           f.op \in {"access", "inv"}, NotMarked(t, top - 1),
           UNCHANGED <<hier, array, bcc, tcc, bccLock, tccLock, filterLock>>,
           NEW k \in tcc[f.c][f.id].sharers, NEW a, NEW type \in {INV, INVX}, f.id \in Slot(f.c),
           array[f.c][f.id] = a, Push(t, f, Invalidate(k, a, type)),
           \A g : g.c = k /\ g.addr = a /\ g.type = type => Sent(g, f)
    PROVE  CoherenceInv'
<1>0. Types /\ SlotsOK
  BY Zenon DEF CoherenceInv
<1>1. /\ top \in 1 .. Depth(t) /\ top \in Nat /\ top >= 1 /\ f = Call(t, top) /\ f \in Frame
      /\ CallOK(t, top) /\ ~Waits(t, top) /\ f.c \in Caches
  BY Zenon, TopIs
<1>2. k \in Caches /\ a \in Lines /\ Parent(k, a) = f.c
  <2>1. tcc[f.c][f.id] \in Entries /\ array[f.c][f.id] \in Lines \cup {NoLine}
    BY Zenon, <1>0, <1>1 DEF Types
  <2>2. array[f.c][f.id] = NoLine => tcc[f.c][f.id].sharers = {}
    BY Zenon, <1>0, <1>1 DEF SlotsOK
  <2>3. Parent(k, a) = f.c
    BY Zenon, <1>0, <1>1 DEF SlotsOK
  <2> QED
    BY Zenon, <2>1, <2>2, <2>3 DEF Entries
<1>3. hier.level[k] < hier.level[f.c]
  BY Zenon, <1>0, <1>1, <1>2, Tree
<1>3a. PICK g : g = Invalidate(k, a, type)
  BY Zenon
<1>4. g \in InvFrame /\ g \in Frame /\ g.op = "inv" /\ g.pc = "bcc" /\ g.c = k /\ g.addr = a /\ g.type = type /\ g.wb = FALSE
  BY Zenon, <1>2, <1>3a DEF Invalidate, InvFrame, Frame
<1>5. Push(t, f, g)
  BY Zenon, <1>3a
<1>6. /\ Kept(t, top - 1) /\ stack' \in [Threads -> Seq(Frame)] /\ Pushes(t, f, g)
      /\ Depth(t)' = top + 1 /\ Call(t, top)' = f /\ Call(t, top + 1)' = g
      /\ Call(t, top + 1 - 1)' = f
      /\ top > 1 => Call(t, top - 1)' = Call(t, top - 1)
  BY Zenon, <1>4, <1>5, <1>1, PushKeeps
<1>7. QuietLocks(t)
  BY Zenon, <1>0 DEF QuietLocks, Types
<1>8. Types'
  BY Zenon, <1>6, <1>7, QuietFootprint
<1>9. Ordered'
  BY Zenon, <1>1, <1>3, <1>4, <1>6, <1>8, OrderedPush
<1>10. CallOK(t, top)'
  <2>1. Waits(t, top)' = Waits(t, top)
    BY Zenon, <1>1, <1>4, <1>6 DEF Waits, IsAccess
  <2> QED
    BY Zenon, <2>1, <1>1, <1>6, UnchangedCall
<1>11. CallOK(t, top + 1)'
  <2>1. Sent(g, f)
    BY Zenon, <1>4
  <2>2. Sent(g, f)'
    BY Zenon, <2>1 DEF Sent, isExclusive, Slot
  <2>3. OwnInv(g, f)'
    BY Zenon, <1>4 DEF OwnInv
  <2>4. top # 1
    BY ZenonT(30), <1>1 DEF CallOK, ShapeOK
  <2>5. PICK new : new = top + 1
    BY Zenon
  <2>6. hier' = hier /\ (g.pc \in {"children", "filter"} => bccLock'[g.c] = t) /\ g.op = "inv"
    BY Zenon, <1>4
  <2>7. new > 2 /\ new \in Nat /\ new - 1 = top /\ new \in 1 .. Depth(t) + 1 /\ new = Depth(t) + 1
    <3>1. new > 2 /\ new \in Nat /\ new - 1 = top /\ new \in 1 .. top + 1
      BY Zenon, <1>1, <2>4, <2>5, NextDepth
    <3> QED
      BY Zenon, <2>5, <3>1
  <2>8. Call(t, new)' = g /\ Call(t, new - 1)' = f
    BY Zenon, <1>6, <2>7 DEF Pushes
  <2>9. CallOK(t, new)'
    BY Zenon, <2>2, <2>3, <2>6, <2>7, <2>8, InvAt
  <2> QED
    BY Zenon, <2>5, <2>9
<1>12. \A d \in 1 .. Depth(t)' : d > top - 1 => CallOK(t, d)'
  <2>1. \A d \in 1 .. Depth(t)' : d > top - 1 => d = top \/ d = top + 1
    BY Zenon, <1>1, <1>6, PushDepth
  <2> QED
    BY ZenonT(30), <2>1, <1>10, <1>11
<1>13. top - 1 \in Int
  BY Zenon, <1>1, NearDepth
<1> QED
  BY Zenon, <1>6, <1>7, <1>9, <1>12, <1>13, QuietStep

(* An eviction that invalidates a child keeps the invariant. *)
LEMMA EvictChildStep ==
    ASSUME CoherenceInv, NEW t \in Threads, evictChild(t)
    PROVE  CoherenceInv'
<1>0. PICK top, f : top = Depth(t) /\ f = Top(t)
  BY Zenon
<1>1. Busy(t, "access", "evict") /\ UNCHANGED <<hier, array, bcc, tcc, bccLock, tccLock, filterLock>>
  BY Zenon DEF evictChild
<1>2. PICK k \in tcc[f.c][f.id].sharers : Push(t, f, Invalidate(k, array[f.c][f.id], INV))
  BY Zenon, <1>0 DEF evictChild
<1>3. AccessRuns(t, top, f, "evict")
  BY Zenon, <1>0, <1>1, RunsAccess
<1>4. stack[t] # <<>> /\ f.op = "access" /\ f.pc = "evict" /\ f = Call(t, top) /\ IsAccess(t, top)
      /\ ~IsInv(t, top) /\ top \in 1 .. Depth(t) /\ f.id \in Slot(f.c) /\ top \in Nat
  BY Zenon, <1>3 DEF AccessRuns, OwnAccess
<1>5. NotMarked(t, top - 1)
  BY Zenon, <1>0, <1>4, TopDepth DEF NotMarked
<1>6. PICK a : a = array[f.c][f.id]
  BY Zenon
<1>7. \A g : g.c = k /\ g.addr = a /\ g.type = INV => Sent(g, f)
  BY Zenon, <1>2, <1>4, <1>6 DEF Sent, INV, INVX
<1> QED
  BY Zenon, <1>0, <1>1, <1>2, <1>4, <1>5, <1>6, <1>7, QuietPush

(* An access that invalidates or downgrades a child keeps the invariant. *)
LEMMA InvalidateChildStep ==
    ASSUME CoherenceInv, NEW t \in Threads, invalidateChild(t)
    PROVE  CoherenceInv'
<1>0. PICK top, f : top = Depth(t) /\ f = Top(t)
  BY Zenon
<1>1. Busy(t, "inv", "children") /\ UNCHANGED <<hier, array, bcc, tcc, bccLock, tccLock, filterLock>>
      /\ (f.type = INVX => isExclusive(tcc[f.c][f.id]))
  BY Zenon, <1>0 DEF invalidateChild
<1>2. PICK k \in tcc[f.c][f.id].sharers : Push(t, f, Invalidate(k, f.addr, f.type))
  BY Zenon, <1>0 DEF invalidateChild
<1>3. InvRuns(t, top, f, "children")
  BY Zenon, <1>0, <1>1, RunsInv
<1>4. stack[t] # <<>> /\ f.op = "inv" /\ f.pc = "children" /\ f = Call(t, top) /\ IsInv(t, top)
      /\ ~IsAccess(t, top) /\ top \in 1 .. Depth(t) /\ top \in Nat /\ f.type \in {INV, INVX}
      /\ f.id \in Slot(f.c) /\ array[f.c][f.id] = f.addr
  BY Zenon, <1>3 DEF InvRuns, OwnInv, InvFrame
<1>5. NotMarked(t, top - 1)
  BY Zenon, <1>0, <1>4, TopDepth DEF NotMarked
<1>6. PICK a, type : a = f.addr /\ type = f.type
  BY Zenon
<1>7. \A g : g.c = k /\ g.addr = a /\ g.type = type => Sent(g, f)
  BY Zenon, <1>1, <1>2, <1>4, <1>6 DEF Sent
<1> QED
  BY Zenon, <1>0, <1>1, <1>2, <1>4, <1>5, <1>6, <1>7, QuietPush

(* An invalidation that locks its cache keeps the invariant. *)
LEMMA StartInvStep ==
    ASSUME CoherenceInv, NEW t \in Threads, startInv(t)
    PROVE  CoherenceInv'
<1>0. PICK top, f : top = Depth(t) /\ f = Top(t)
  BY Zenon
<1> DEFINE hit == lookup(f.c, f.addr)
           next == IF Terminal(f.c) THEN "filter" ELSE "children"
<1>1. Busy(t, "inv", "bcc") /\ UNCHANGED <<hier, array, bcc, tcc, tccLock, filterLock>>
      /\ bccLock' = [bccLock EXCEPT ![f.c] = t] /\ bccLock[f.c] = FREE
      /\ Stay(t, [f EXCEPT !.id = hit, !.pc = next])
  BY Zenon, <1>0 DEF startInv
<1>2. InvRuns(t, top, f, "bcc")
  BY Zenon, <1>0, <1>1, RunsInv
<1>3. /\ stack[t] # <<>> /\ f.op = "inv" /\ f.pc = "bcc" /\ f = Call(t, top) /\ IsInv(t, top) /\ f \in InvFrame
      /\ ~IsAccess(t, top) /\ top \in 1 .. Depth(t) /\ top \in Nat /\ top > 2 /\ top - 1 \in Int
      /\ f.c \in Caches /\ f.addr \in Lines /\ OwnInv(f, Call(t, top - 1)) /\ Sent(f, Call(t, top - 1))
  BY Zenon, <1>2 DEF InvRuns
<1>4. PICK h : h = [f EXCEPT !.id = hit, !.pc = next]
  BY Zenon
<1>5. /\ hit \in Slot(f.c) /\ array[f.c][hit] = f.addr /\ bcc[f.c][hit] # I
      /\ bcc[f.c][hit] \in {E, M} <=> isExclusive(tcc[Call(t, top - 1).c][Call(t, top - 1).id])
  BY ZenonT(30), <1>3, InvFinds
<1>6. hit \in Nat
  BY Zenon, <1>3, <1>5, SlotNat DEF CoherenceInv
<1>7. /\ h \in InvFrame /\ h \in Frame /\ h.op = "inv" /\ h.c = f.c /\ h.addr = f.addr /\ h.type = f.type
      /\ h.wb = f.wb /\ h.id = hit /\ h.pc = next
  <2> HIDE DEF hit
  <2> QED
    BY Zenon, <1>3, <1>4, <1>6 DEF InvFrame, Frame
<1>8. PICK i : i = hit
  BY Zenon
<1>9. Stay(t, h)
  BY Zenon, <1>1, <1>4
<1>10. /\ Kept(t, top - 1) /\ stack' \in [Threads -> Seq(Frame)]
       /\ Depth(t)' = top /\ Call(t, top)' = h /\ ~Waits(t, top)'
       /\ top > 1 => Call(t, top - 1)' = Call(t, top - 1)
  BY Zenon, <1>0, <1>3, <1>7, <1>9, StayKeeps
<1>11. QuietLocks(t) /\ bccLock'[f.c] = t
  BY Zenon, <1>1, <1>3 DEF QuietLocks, CoherenceInv, Types
<1>12. Types'
  BY Zenon, <1>1, <1>10, <1>11, QuietFootprint
<1>13. Ordered'
  BY ZenonT(30), <1>0, <1>1, <1>3, <1>7, <1>9, <1>12, StayOrdered
<1>14. NotMarked(t, top - 1)
  BY Zenon, <1>0, <1>3, TopDepth DEF NotMarked
<1>15. CallOK(t, top)'
  <2>1. PICK g : g = Call(t, top - 1)
    BY Zenon
  <2>2. Call(t, top - 1)' = g
    BY Zenon, <2>1, <1>3, <1>10, SomeDepth
  <2>3. Sent(h, g)'
    <3>1. Sent(f, g)
      BY Zenon, <2>1, <1>3
    <3>2. h.c = f.c /\ h.addr = f.addr /\ h.type = f.type
      BY Zenon, <1>7
    <3> QED
      BY Zenon, <3>1, <3>2, <1>1 DEF Sent, Slot, isExclusive
  <2>4. f.type = INVX => bcc[f.c][hit] \in {E, M}
    BY Zenon, <1>3, <1>5 DEF Sent
  <2>5. ~h.wb
    BY Zenon, <1>3, <1>7 DEF OwnInv
  <2>6. h.id \in Slot(h.c) /\ array[h.c][h.id] = h.addr /\ bcc[h.c][h.id] # I /\ (h.type = INVX => bcc[h.c][h.id] \in {E, M})
    BY Zenon, <2>4, <1>5, <1>7
  <2>7. (h.pc = "children" => ~Terminal(h.c)) /\ (h.pc = "filter" => Terminal(h.c)) /\ h.pc # "unlock" /\ h.pc # "bcc"
    BY ZenonT(30), <1>7
  <2>8. bccLock'[h.c] = t /\ hier' = hier
    BY Zenon, <1>1, <1>7, <1>11
  <2> HIDE DEF hit, next
  <2>9. OwnInv(h, g)'
    BY Zenon, <2>5, <2>6, <2>7, <1>1 DEF OwnInv, Slot, Terminal
  <2> QED
    BY Zenon, <2>2, <2>3, <2>8, <2>9, <1>3, <1>7, <1>10, InvAt
<1>16. \A d \in 1 .. Depth(t)' : d > top - 1 => CallOK(t, d)'
  BY Zenon, <1>3, <1>10, <1>15, TopDepth
<1> QED
  BY Zenon, <1>1, <1>3, <1>10, <1>11, <1>13, <1>14, <1>16, QuietStep

----------------------------------------------------------------------------
(* A cache changes the state or the tag of one of its lines. *)

Writes(f, b, s) ==
    /\ array' = [array EXCEPT ![f.c][f.id] = b] \/ (array' = array /\ b = array[f.c][f.id])
    /\ bcc' = [bcc EXCEPT ![f.c][f.id] = s] \/ (bcc' = bcc /\ s = bcc[f.c][f.id])
    /\ UNCHANGED <<hier, tcc>>

(* Line b is in the slot of f, or enters it in place of one that is gone. *)
Tagged(f, b) ==
    \/ b = array[f.c][f.id]
    \/ /\ b \in Lines /\ bcc[f.c][f.id] = I /\ tcc[f.c][f.id].sharers = {}
       /\ \A i \in Slot(f.c) : array[f.c][i] # b

(* Then the slot of f has tag b and state s, and no other slot changes. *)
Written(f, b, s) ==
    /\ \A c \in Caches : \A i \in Slot(c) :
          /\ array'[c][i] = IF c = f.c /\ i = f.id THEN b ELSE array[c][i]
          /\ bcc'[c][i] = IF c = f.c /\ i = f.id THEN s ELSE bcc[c][i]
    /\ \A c \in Caches : c # f.c => array'[c] = array[c] /\ bcc'[c] = bcc[c]
    /\ DOMAIN array' = Caches /\ DOMAIN bcc' = Caches
    /\ \A c \in Caches : /\ array'[c] \in [Slot(c) -> Lines \cup {NoLine}]
                         /\ bcc'[c] \in [Slot(c) -> MESIState]
    /\ Distinct'

(* What writing tag and state of one slot changes. *)
LEMMA WriteEffect ==
    ASSUME Types, Distinct, NEW f, f.c \in Caches, f.id \in Slot(f.c), NEW b \in Lines \cup {NoLine},
           NEW s \in MESIState, Writes(f, b, s), Tagged(f, b)
    PROVE  Written(f, b, s)
<1>1. /\ DOMAIN array = Caches /\ DOMAIN bcc = Caches
      /\ \A c \in Caches : /\ array[c] \in [Slot(c) -> Lines \cup {NoLine}]
                           /\ bcc[c] \in [Slot(c) -> MESIState]
  BY Zenon DEF Types
<1>2. /\ array' = [array EXCEPT ![f.c][f.id] = b] \/ (array' = array /\ b = array[f.c][f.id])
      /\ bcc' = [bcc EXCEPT ![f.c][f.id] = s] \/ (bcc' = bcc /\ s = bcc[f.c][f.id])
  BY Zenon DEF Writes
<1>3. \A c \in Caches : \A i \in Slot(c) : array'[c][i] = IF c = f.c /\ i = f.id THEN b ELSE array[c][i]
  BY <1>1, <1>2
<1>4. \A c \in Caches : \A i \in Slot(c) : bcc'[c][i] = IF c = f.c /\ i = f.id THEN s ELSE bcc[c][i]
  BY <1>1, <1>2
<1>5. \A c \in Caches : c # f.c => array'[c] = array[c] /\ bcc'[c] = bcc[c]
  BY Zenon, <1>1, <1>2
<1>6. DOMAIN array' = Caches /\ DOMAIN bcc' = Caches
  BY Zenon, <1>1, <1>2
<1>7. \A c \in Caches : array'[c] \in [Slot(c) -> Lines \cup {NoLine}] /\ bcc'[c] \in [Slot(c) -> MESIState]
  BY <1>1, <1>2
<1>8. Distinct'
  <2>1. Caches' = Caches /\ \A c : Slot(c)' = Slot(c)
    BY Zenon DEF Writes, Caches, Slot
  <2>2. ASSUME NEW c \in Caches, NEW i \in Slot(c), NEW j \in Slot(c), array'[c][i] = array'[c][j]
        PROVE  i = j \/ array'[c][i] = NoLine
    BY <2>2, <1>3 DEF Distinct, Tagged
  <2> QED
    BY Zenon, <2>1, <2>2 DEF Distinct
<1> QED
  BY Zenon, <1>3, <1>4, <1>5, <1>6, <1>7, <1>8 DEF Written

(* Cache c sees line a change only if f.c is c and b is a. *)
Viewed(f, b, s, c, a) ==
    /\ SameEntry(c, a)
    /\ c # f.c \/ a # b => StateOf(c, a)' = StateOf(c, a)
    /\ c = f.c /\ a = b => StateOf(c, a) = bcc[f.c][f.id] /\ StateOf(c, a)' = s

(* What writing tag and state of one slot changes of the states of lines. *)
LEMMA WriteViews ==
    ASSUME Types, Distinct, Types', NEW f, f.c \in Caches, f.id \in Slot(f.c), NEW b \in Lines \cup {NoLine},
           NEW s \in MESIState, Writes(f, b, s), Tagged(f, b), NEW c \in Caches, NEW a \in Lines
    PROVE  Viewed(f, b, s, c, a)
<1> SUFFICES /\ SameEntry(c, a)
             /\ c # f.c \/ a # b => StateOf(c, a)' = StateOf(c, a)
             /\ c = f.c /\ a = b => StateOf(c, a) = bcc[f.c][f.id] /\ StateOf(c, a)' = s
  BY Zenon DEF Viewed
<1>1. /\ \A i \in Slot(c) : /\ array'[c][i] = IF c = f.c /\ i = f.id THEN b ELSE array[c][i]
                            /\ bcc'[c][i] = IF c = f.c /\ i = f.id THEN s ELSE bcc[c][i]
      /\ Distinct' /\ tcc' = tcc /\ hier' = hier
  <2>1. Written(f, b, s)
    BY Zenon, WriteEffect
  <2> QED
    BY Zenon, <2>1 DEF Written, Writes
<1>2. /\ \A i \in Slot(c) : array[c][i] = a => StateOf(c, a) = bcc[c][i] /\ EntryOf(c, a) = tcc[c][i]
      /\ (\A i \in Slot(c) : array[c][i] # a) => StateOf(c, a) = I /\ EntryOf(c, a) = Clear
  BY StateIs
<1>3. /\ \A i \in Slot(c) : array'[c][i] = a => StateOf(c, a)' = bcc'[c][i] /\ EntryOf(c, a)' = tcc'[c][i]
      /\ (\A i \in Slot(c) : array'[c][i] # a) => StateOf(c, a)' = I /\ EntryOf(c, a)' = Clear
  BY Zenon, <1>1, StateIsNext
<1>5. \A e : e.sharers = {} => ~isExclusive(e)
  BY Zenon DEF isExclusive
<1>6. EntryOf(c, a)' = EntryOf(c, a) \/ (EntryOf(c, a)'.sharers = {} /\ EntryOf(c, a).sharers = {}) => SameEntry(c, a)
  BY Zenon, <1>5 DEF SameEntry, isExclusive
<1>7. Clear.sharers = {}
  BY Zenon DEF Clear
<1>8. CASE c # f.c
  <2>1. \A i \in Slot(c) : array'[c][i] = array[c][i] /\ bcc'[c][i] = bcc[c][i]
    BY Zenon, <1>1, <1>8
  <2>2. StateOf(c, a)' = StateOf(c, a) /\ EntryOf(c, a)' = EntryOf(c, a)
    BY <2>1, <1>1, <1>2, <1>3
  <2> QED
    BY Zenon, <2>2, <1>6, <1>8
<1>9. CASE c = f.c /\ a = b
  <2>1. StateOf(c, a)' = s /\ EntryOf(c, a)' = tcc[c][f.id]
    BY Zenon, <1>1, <1>3, <1>9
  <2>2. CASE b = array[f.c][f.id]
    <3>1. StateOf(c, a) = bcc[c][f.id] /\ EntryOf(c, a) = tcc[c][f.id]
      BY Zenon, <1>2, <1>9, <2>2
    <3> QED
      BY Zenon, <3>1, <2>1, <1>6, <1>9
  <2>3. CASE b # array[f.c][f.id]
    <3>1. bcc[f.c][f.id] = I /\ tcc[f.c][f.id].sharers = {} /\ \A i \in Slot(f.c) : array[f.c][i] # b
      BY Zenon, <2>3 DEF Tagged
    <3>2. StateOf(c, a) = I /\ EntryOf(c, a) = Clear
      BY Zenon, <3>1, <1>2, <1>9
    <3> QED
      BY Zenon, <3>1, <3>2, <2>1, <1>6, <1>7, <1>9
  <2> QED
    BY Zenon, <2>2, <2>3
<1>10. CASE c = f.c /\ a # b
  <2>1. CASE \E i \in Slot(c) : i # f.id /\ array[c][i] = a
    <3>1. PICK i \in Slot(c) : i # f.id /\ array[c][i] = a
      BY Zenon, <2>1
    <3>2. array'[c][i] = a /\ bcc'[c][i] = bcc[c][i]
      BY Zenon, <3>1, <1>1
    <3>3. StateOf(c, a)' = StateOf(c, a) /\ EntryOf(c, a)' = EntryOf(c, a)
      BY Zenon, <3>1, <3>2, <1>1, <1>2, <1>3
    <3> QED
      BY Zenon, <3>3, <1>6, <1>10
  <2>2. CASE ~ \E i \in Slot(c) : i # f.id /\ array[c][i] = a
    <3>1. \A i \in Slot(c) : array'[c][i] # a
      BY Zenon, <2>2, <1>1, <1>10
    <3>2. StateOf(c, a)' = I /\ EntryOf(c, a)'.sharers = {}
      BY Zenon, <3>1, <1>3, <1>7
    <3>3. StateOf(c, a) = I /\ EntryOf(c, a).sharers = {}
      <4>1. CASE array[c][f.id] = a
        BY Zenon, <4>1, <1>2, <1>10 DEF Tagged
      <4>2. CASE array[c][f.id] # a
        BY Zenon, <4>2, <2>2, <1>2, <1>7
      <4> QED
        BY Zenon, <4>1, <4>2
    <3> QED
      BY Zenon, <3>2, <3>3, <1>6, <1>10
  <2> QED
    BY Zenon, <2>1, <2>2
<1> QED
  BY Zenon, <1>8, <1>9, <1>10

(* What SlotsOK says of a slot with tag a, state s and entry e. *)
SlotFine(c, a, s, e) ==
    /\ a = NoLine => s = I /\ e.sharers = {}
    /\ a # NoLine => Asked(hier, c, a)
    /\ e.sharers # {} => s # I
    /\ isExclusive(e) => s \in {E, M}
    /\ e.exclusive => \A x, y \in e.sharers : x = y
    /\ \A x \in e.sharers : Parent(x, a) = c

(* SlotsOK for one slot. *)
LEMMA SlotIs ==
    ASSUME SlotsOK, NEW c \in Caches, NEW i \in Slot(c)
    PROVE  SlotFine(c, array[c][i], bcc[c][i], tcc[c][i])
  BY Zenon DEF SlotsOK, SlotFine

(* The slots are consistent after a step if each is. *)
LEMMA SlotsNext ==
    ASSUME hier' = hier,
           \A c \in Caches : \A i \in Slot(c) : SlotFine(c, array'[c][i], bcc'[c][i], tcc'[c][i])
    PROVE  SlotsOK'
<1>1. Caches' = Caches /\ \A c : Slot(c)' = Slot(c)
  BY Zenon DEF Caches, Slot
<1> QED
  BY <1>1 DEF SlotsOK, SlotFine, Parent, isExclusive

(* What an access leaves when it changes its line to b in state s. *)
LEMMA LineStep ==
    ASSUME CoherenceInv, NEW t \in Threads, NEW top, top = Depth(t), NEW f, NEW pc, AccessRuns(t, top, f, pc),
           pc \in {"evict", "insert", "process"}, f.id \in Slot(f.c),
           NEW b \in Lines \cup {NoLine}, NEW s \in MESIState, Writes(f, b, s), Tagged(f, b),
           b = NoLine => s = I, b # NoLine => Asked(hier, f.c, b),
           tcc[f.c][f.id].sharers = {} \/ s \in {E, M} \/ s = bcc[f.c][f.id],
           b \in Lines => Parent(f.c, b) = MEM \/ Alike(bcc[f.c][f.id], s),
           bccLock' \in [Caches -> Threads \cup {FREE}], \A c \in Caches : c # f.c => bccLock'[c] = bccLock[c],
           UNCHANGED <<tccLock, filterLock>>, stack' \in [Threads -> Seq(Frame)], Kept(t, top - 1)
    PROVE  Types' /\ Distinct' /\ SlotsOK' /\ Directory' /\ Footprint(t, top - 1)
<1>0. Types /\ Distinct /\ SlotsOK /\ Directory
  BY Zenon DEF CoherenceInv
<1>1. /\ f = Call(t, top) /\ IsAccess(t, top) /\ ~IsInv(t, top) /\ f.pc = pc /\ f.c \in Caches
      /\ Holder(t, f.c) /\ top - 1 \in Int /\ top >= 1 /\ top \in Nat
  BY Zenon, SomeDepth DEF AccessRuns
<1>2. /\ \A c \in Caches : \A i \in Slot(c) :
            /\ array'[c][i] = IF c = f.c /\ i = f.id THEN b ELSE array[c][i]
            /\ bcc'[c][i] = IF c = f.c /\ i = f.id THEN s ELSE bcc[c][i]
      /\ \A c \in Caches : c # f.c => array'[c] = array[c] /\ bcc'[c] = bcc[c]
      /\ DOMAIN array' = Caches /\ DOMAIN bcc' = Caches
      /\ \A c \in Caches : /\ array'[c] \in [Slot(c) -> Lines \cup {NoLine}]
                           /\ bcc'[c] \in [Slot(c) -> MESIState]
      /\ Distinct'
  <2>1. Written(f, b, s)
    BY Zenon, <1>0, <1>1, WriteEffect
  <2> QED
    BY Zenon, <2>1 DEF Written
<1>3. UNCHANGED <<hier, tcc>>
  BY Zenon DEF Writes
<1>4. Caches' = Caches /\ Entries' = Entries /\ (\A c : Slot(c)' = Slot(c)) /\ (\A c, a : Parent(c, a)' = Parent(c, a))
      /\ (\A c, a : Asked(hier, c, a)' = Asked(hier, c, a)) /\ \A e : isExclusive(e)' = isExclusive(e)
  BY Zenon, <1>3 DEF Caches, Entries, Slot, Parent, Asked, isExclusive
<1>5. Types'
  <2>1. Frame' = Frame
    BY Zenon, <1>4 DEF Frame, AccessFrame, InvFrame, ReplaceFrame
  <2>2. DOMAIN tcc' = Caches /\ \A c \in Caches : tcc'[c] \in [Slot(c) -> Entries]
    BY Zenon, <1>0, <1>3 DEF Types
  <2>3. tccLock' \in [Caches -> Threads \cup {FREE}] /\ filterLock' \in [Caches -> Threads \cup {FREE}] /\ hier' \in Hierarchies
    BY Zenon, <1>0, <1>3 DEF Types
  <2> QED
    BY Zenon, <2>1, <2>2, <2>3, <1>2, <1>4 DEF Types
<1>6. \A c \in Caches, a \in Lines :
         /\ SameEntry(c, a)
         /\ c # f.c \/ a # b => StateOf(c, a)' = StateOf(c, a)
         /\ c = f.c /\ a = b => StateOf(c, a) = bcc[f.c][f.id] /\ StateOf(c, a)' = s
  <2>1. \A c \in Caches, a \in Lines : Viewed(f, b, s, c, a)
    BY Zenon, <1>0, <1>1, <1>5, WriteViews
  <2> QED
    BY Zenon, <2>1 DEF Viewed
<1>7. SlotsOK'
  <2> SUFFICES ASSUME NEW c \in Caches, NEW i \in Slot(c)
               PROVE  SlotFine(c, array'[c][i], bcc'[c][i], tcc'[c][i])
    BY Zenon, <1>3, SlotsNext
  <2>1. PICK e : e = tcc[c][i] /\ e = tcc'[c][i]
    BY Zenon, <1>3
  <2>2. SlotFine(c, array[c][i], bcc[c][i], e)
    BY Zenon, <2>1, <1>0, SlotIs
  <2>3. CASE c = f.c /\ i = f.id
    <3>1. array'[c][i] = b /\ bcc'[c][i] = s
      BY Zenon, <2>3, <1>2
    <3>2. e.sharers = {} \/ s \in {E, M} \/ s = bcc[c][i]
      BY Zenon, <2>1, <2>3
    <3>3. b = array[c][i] \/ e.sharers = {}
      BY Zenon, <2>1, <2>3 DEF Tagged
    <3>4. b = NoLine => b = array[c][i]
      BY Zenon, <2>3, NamesAssumption DEF Tagged
    <3>5. SlotFine(c, b, s, e)
      <4>1. (b # NoLine => Asked(hier, c, b)) /\ (b = NoLine => s = I /\ e.sharers = {})
        BY Zenon, <2>3, <2>2, <3>4 DEF SlotFine
      <4>2. (e.sharers # {} => s # I) /\ (isExclusive(e) => s \in {E, M})
        BY Zenon, <3>2, <2>2 DEF SlotFine, isExclusive, I, E, M
      <4>3. \A x \in e.sharers : Parent(x, b) = c
        BY Zenon, <3>3, <2>2 DEF SlotFine
      <4> QED
        BY Zenon, <4>1, <4>2, <4>3, <2>2 DEF SlotFine
    <3> QED
      BY Zenon, <3>1, <3>5, <2>1
  <2>4. CASE ~(c = f.c /\ i = f.id)
    <3>1. array'[c][i] = array[c][i] /\ bcc'[c][i] = bcc[c][i]
      BY Zenon, <2>4, <1>2
    <3> QED
      BY Zenon, <3>1, <2>1, <2>2
  <2> QED
    BY Zenon, <2>3, <2>4
<1>8. \A c \in Caches, a \in Lines : c = f.c /\ a = b => Parent(c, a) = MEM \/ Alike(StateOf(c, a), s)
  BY Zenon, <1>6
<1>9. Footprint(t, top - 1)
  <2>1. \A c \in Caches : bccLock'[c] = bccLock[c] \/ bccLock[c] = FREE \/ Holder(t, c)
    BY Zenon, <1>1
  <2>2. \A c \in Caches : array'[c] = array[c] \/ (Holder(t, c) /\ IsAccess(t, top))
    BY Zenon, <1>1, <1>2
  <2>3. \A c \in Caches : \A i \in Slot(c) :
           bcc'[c][i] = bcc[c][i] \/ (Holder(t, c) /\ i = f.id /\ ~IsInv(t, top))
    <3> SUFFICES ASSUME NEW c \in Caches, NEW i \in Slot(c), bcc'[c][i] # bcc[c][i]
                 PROVE  Holder(t, c) /\ i = f.id /\ ~IsInv(t, top)
      BY Zenon
    <3>1. c = f.c /\ i = f.id
      BY Zenon, <1>2
    <3> QED
      BY Zenon, <3>1, <1>1
  <2>4. \A c \in Caches, a \in Lines :
              \/ StateOf(c, a)' = StateOf(c, a)
              \/ Holder(t, c) /\ IsAccess(t, top) /\ (Parent(c, a) = MEM \/ StateOf(c, a) \in {E, M})
    <3> SUFFICES ASSUME NEW c \in Caches, NEW a \in Lines, StateOf(c, a)' # StateOf(c, a)
                 PROVE  Holder(t, c) /\ IsAccess(t, top) /\ (Parent(c, a) = MEM \/ StateOf(c, a) \in {E, M})
      BY Zenon
    <3>1. c = f.c /\ a = b /\ StateOf(c, a)' = s
      BY Zenon, <1>6
    <3> QED
      BY Zenon, <3>1, <1>1, <1>8 DEF Alike
  <2> QED
    BY Zenon, <2>1, <2>2, <2>3, <2>4, <1>1, <1>3 DEF Footprint
<1>10. NotMarked(t, top - 1)
  BY Zenon, <1>1, TopDepth DEF NotMarked
<1>11. ASSUME NEW c \in Caches, NEW a \in Lines, Parent(c, a) # MEM PROVE Listed(c, a)'
  <2>1. Listed(c, a)
    BY Zenon, <1>0, <1>11 DEF Directory
  <2>2. Alike(StateOf(c, a), StateOf(c, a)')
    BY Zenon, <1>6, <1>8, <1>11 DEF Alike
  <2>5. PICK q \in Caches : q = Parent(c, a)
    BY Zenon, <1>0, <1>11, Tree
  <2>3. SameEntry(q, a)
    BY Zenon, <1>6
  <2>4. \A p, type : UpgradeKept(t, top - 1, p, c, a) /\ UnlockKept(t, top - 1, c, a, type)
    BY Zenon, <1>10, UnmarkedKeep
  <2> QED
    BY Zenon, <2>1, <2>2, <2>3, <2>4, <2>5, <1>1, <1>5, <1>9, ListedKeeps
<1>12. Directory'
  BY Zenon, <1>4, <1>11 DEF Directory
<1> QED
  BY Zenon, <1>2, <1>5, <1>7, <1>9, <1>12

(* A change of its line that an access may make. *)
LineChange(f, b, s) ==
    /\ f.id \in Slot(f.c) /\ b \in Lines \cup {NoLine} /\ s \in MESIState /\ Writes(f, b, s) /\ Tagged(f, b)
    /\ b = NoLine => s = I
    /\ b # NoLine => Asked(hier, f.c, b)
    /\ tcc[f.c][f.id].sharers = {} \/ s \in {E, M} \/ s = bcc[f.c][f.id]
    /\ b \in Lines => Parent(f.c, b) = MEM \/ Alike(bcc[f.c][f.id], s)
    /\ UNCHANGED <<tccLock, filterLock>>
==============================================================================
