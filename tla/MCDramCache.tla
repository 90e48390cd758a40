----------------------------- MODULE MCDramCache -----------------------------
(* Small configurations of the DRAM cache for TLC.                          *)
EXTENDS MemoryController

(* Banshee with frequency based replacement and room for all pages but one. *)
Base == [scheme |-> "HybridCache", placement_policy |-> "FBR", enable_replace |-> TRUE,
         num_sets |-> 1, num_ways |-> 2, num_entries |-> 3, max_count |-> 3, margin |-> 1,
         addrs |-> 0 .. 2, page_lines |-> 1, vec_bits |-> 1,
         max_up |-> 0, max_down |-> 0, max_ds |-> 0]

(* More pages in one set of the tag buffer than it has ways. *)
Crowded == [Base EXCEPT !.addrs = {0, 2, 4}]

(* Pages of two lines, one of them in use with both. *)
BansheeLRU == [Base EXCEPT !.placement_policy = "LRU", !.addrs = {0, 1, 2, 4}, !.page_lines = 2, !.vec_bits = 2]

(* Two direct-mapped sets, switched off and on one at a time. *)
Balance == [Base EXCEPT !.num_sets = 2, !.num_ways = 1, !.num_entries = 2, !.max_count = 2,
                        !.max_up = 1, !.max_down = 1, !.max_ds = 2]

(* Pages of two lines, so that footprints matter. *)
Unison == [BansheeLRU EXCEPT !.scheme = "UnisonCache", !.addrs = 0 .. 5]

TaglessFIFO == [Unison EXCEPT !.scheme = "Tagless"]

Alloy == [Base EXCEPT !.scheme = "AlloyCache", !.placement_policy = "LRU", !.num_sets = 2, !.num_ways = 1,
                      !.addrs = {0, 1, 2, 4}]

AlloyBalance == [Alloy EXCEPT !.max_up = 1, !.max_down = 1, !.max_ds = 3]

AllSchemes == {Base, Crowded, BansheeLRU, Balance, Unison, TaglessFIFO, Alloy}
OnlyAlloyBalance == {AlloyBalance}
=============================================================================
