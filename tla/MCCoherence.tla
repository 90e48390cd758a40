----------------------------- MODULE MCCoherence -----------------------------
(* Small cache trees for TLC. *)
EXTENDS Coherence, TLC

CONSTANTS t1, t2, d1, d2, i1, p1, b0, b1, last, a, b

AllTo(p) == [x \in Lines |-> p]
L1s == {d1, d2}
Load(lines) == {GETS} \X lines
Store(lines) == {GETX} \X lines
Both(lines) == Load(lines) \cup Store(lines)
Cores == t1 :> {d1} @@ t2 :> {d2}

(* Two cores, one of them with an instruction cache, below a shared        *)
(* cache that holds a single line: sharing and capacity evictions collide. *)
Shared ==
    [tlb |-> FALSE, caches |-> {d1, d2, i1, last}, l1s |-> {d1, d2, i1}, ifetch |-> {i1},
     core |-> t1 :> {d1, i1} @@ t2 :> {d2}, uses |-> d1 :> Both({a, b}) @@ i1 :> Load({a}) @@ d2 :> Both({a}),
     level |-> [c \in {d1, d2, i1} |-> 1] @@ last :> 2, ways |-> [c \in {d1, d2, i1, last} |-> 1],
     parent |-> [c \in {d1, d2, i1} |-> AllTo(last)] @@ last :> AllTo(MEM)]

(* A core with a private second-level cache and a core without, below a    *)
(* shared cache.                                                           *)
Private ==
    [tlb |-> FALSE, caches |-> {d1, d2, p1, last}, l1s |-> L1s, ifetch |-> {}, core |-> Cores,
     uses |-> d1 :> Both({a, b}) @@ d2 :> Both({a}),
     level |-> [c \in L1s |-> 1] @@ p1 :> 2 @@ last :> 3,
     ways |-> [c \in {d1, d2, p1} |-> 1] @@ last :> 2,
     parent |-> d1 :> AllTo(p1) @@ d2 :> AllTo(last) @@ p1 :> AllTo(last) @@ last :> AllTo(MEM)]

(* Two cores below the two banks of a shared cache. *)
Banked ==
    [tlb |-> FALSE, caches |-> {d1, d2, b0, b1}, l1s |-> L1s, ifetch |-> {}, core |-> Cores,
     uses |-> d1 :> Both({a, b}) @@ d2 :> Both({a}),
     level |-> [c \in L1s |-> 1] @@ [c \in {b0, b1} |-> 2], ways |-> [c \in {d1, d2, b0, b1} |-> 1],
     parent |-> [c \in L1s |-> a :> b0 @@ b :> b1] @@ [c \in {b0, b1} |-> AllTo(MEM)]]

(* Two cores that store, the first of them to both lines of its cache: an  *)
(* invalidation of one line releases the lock it takes for the other.      *)
Storing ==
    [tlb |-> FALSE, caches |-> {d1, d2, last}, l1s |-> L1s, ifetch |-> {}, core |-> Cores,
     uses |-> [c \in L1s |-> Store({a, b})], level |-> [c \in L1s |-> 1] @@ last :> 2,
     ways |-> d1 :> 2 @@ d2 :> 1 @@ last :> 2,
     parent |-> [c \in L1s |-> AllTo(last)] @@ last :> AllTo(MEM)]

(* Trees without a TLB, and one with it. *)
Trees == {Shared, Private, Banked, Storing, [Banked EXCEPT !.tlb = TRUE]}
=============================================================================
