------------------------------ MODULE MCWeave ------------------------------
(* Small systems for TLC: cores, a timing cache and a memory, their        *)
(* domains, the threads that simulate these, and the blocks cores run.     *)
EXTENDS WeavePhase

(* Accesses that hit, after a write-back or not, and that miss. *)
Hit(put) ==
    [hit |-> TRUE, put |-> put, lat |-> 0, evict |-> "none", wait |-> 0, down |-> 1]
Miss(lat, evict, wait) ==
    [hit |-> FALSE, put |-> FALSE, lat |-> lat, evict |-> evict, wait |-> wait, down |-> 1]

Block(instrs, paths) == [instrs |-> instrs, paths |-> paths, leave |-> FALSE]
Leave(paths) == [instrs |-> 0, paths |-> paths, leave |-> TRUE]
Long == Block(PhaseLength, <<>>)

(* An in-order core in one domain, cache and memory in the other, each     *)
(* with its thread.                                                        *)
InOrder ==
    [ooo |-> FALSE, cores |-> <<0>>, cache |-> 1, mem |-> 1, mshrs |-> 1,
     threads |-> <<{0}, {1}>>, maxEvents |-> 14,
     blocks |-> {Long, Leave(<<>>), Block(1, <<Hit(TRUE)>>), Block(1, <<Miss(2, "dirty", 0)>>),
                 Block(0, <<Miss(0, "clean", 0), Hit(FALSE)>>), Leave(<<Miss(2, "none", 0)>>)}]

(* The same on a single thread (sim.contentionThreads = sim.domains / 2). *)
OneThread == [InOrder EXCEPT !.threads = <<{0, 1}>>]

(* The memory in the domain of the core. *)
Apart == [InOrder EXCEPT !.mem = 0, !.maxEvents = 12,
              !.blocks = {Long, Leave(<<>>), Block(1, <<Hit(TRUE)>>), Block(1, <<Miss(2, "clean", 0)>>)}]

(* Core, cache and memory in three domains. *)
Three == [InOrder EXCEPT !.mem = 2, !.threads = <<{0}, {1}, {2}>>, !.maxEvents = 9,
              !.blocks = {Long, Leave(<<>>), Block(1, <<Hit(FALSE)>>), Block(0, <<Miss(2, "clean", 0)>>)}]

(* Two cores that share an MSHR. *)
TwoCores == [InOrder EXCEPT !.cores = <<0, 1>>, !.maxEvents = 10,
              !.blocks = {Long, Block(1, <<Miss(2, "none", 0)>>)}]

(* Two cores, one in the memory's domain: crossings from the first to the  *)
(* cache and from the cache to the memory wait for each other's domains.   *)
Mutual == [InOrder EXCEPT !.cores = <<0, 2>>, !.mem = 0, !.maxEvents = 14, !.threads = <<{0, 1, 2}>>,
              !.blocks = {Long, Block(1, <<Miss(2, "none", 0)>>)}]

(* Two cores and two MSHRs: an access may be at the cache in the cycle in  *)
(* which a miss wants to write its line.                                   *)
TwoMSHRs == [TwoCores EXCEPT !.mshrs = 2, !.maxEvents = 10, !.cores = <<0, 0>>, !.cache = 0, !.mem = 0,
              !.threads = <<{0}>>,
              !.blocks = {Long, Block(1, <<Miss(0, "none", 0)>>), Block(1, <<Hit(FALSE)>>)}]

(* An out-of-order core, without domains and with two. *)
OutOfOrder ==
    [InOrder EXCEPT !.ooo = TRUE, !.cache = 0, !.mem = 0, !.threads = <<{0}>>, !.maxEvents = 24,
         !.blocks = {Long, Leave(<<>>), Block(1, <<Hit(TRUE)>>), Block(0, <<Miss(2, "dirty", 0)>>),
                     Block(1, <<Miss(0, "none", 1)>>)}]
OutOfOrderTwo ==
    [OutOfOrder EXCEPT !.cache = 1, !.mem = 1, !.threads = <<{0}, {1}>>, !.maxEvents = 16,
         !.blocks = {Long, Leave(<<>>), Block(1, <<Hit(FALSE)>>), Block(0, <<Miss(2, "none", 1)>>)}]

(* An out-of-order core and two domains on one thread, the default number  *)
(* of threads for two domains (init.cpp:971): TapersAtLimit.               *)
OutOfOrderShared ==
    [OutOfOrderTwo EXCEPT !.threads = <<{0, 1}>>,
         !.blocks = {Long, Leave(<<>>), Block(1, <<Hit(FALSE)>>), Block(0, <<Miss(2, "none", 0)>>)}]

(* Dirty victims, with the memory in the core's domain. *)
DirtyApart == [Apart EXCEPT !.blocks = {Long, Leave(<<>>), Block(1, <<Hit(TRUE)>>), Block(1, <<Miss(2, "dirty", 0)>>)}]

(* And with the memory in a domain of its own: DirtyVictimsCross. *)
DirtyThree == [Three EXCEPT !.maxEvents = 14, !.blocks = {Long, Leave(<<>>), Block(0, <<Miss(2, "dirty", 0)>>)}]

Systems == {InOrder, OneThread, Apart, Three, TwoCores, Mutual, TwoMSHRs, OutOfOrder, OutOfOrderTwo,
            OutOfOrderShared, DirtyApart, DirtyThree}
============================================================================
