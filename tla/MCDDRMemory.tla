---------------------------- MODULE MCDDRMemory ----------------------------
(* Workloads for the memory controller: two ranks of two banks with two     *)
(* lines per row.  Addresses 0 and 2 are of the same row, 8 of another row  *)
(* of their bank, 1 is in another bank, 4 in another rank.                  *)
EXTENDS DDRMemory

Load(depth, deferred, closed, addrs, writes, sizes, pauses, n, refreshes) ==
    [queueDepth |-> depth, deferredWrites |-> deferred, closedPage |-> closed, addrs |-> addrs,
     writes |-> writes, sizes |-> sizes, pauses |-> pauses, requests |-> n, refreshes |-> refreshes]

(* Reads and writes of two rows of a bank, deferred or not. *)
Rows == {Load(2, d, c, {0, 8}, BOOLEAN, {2}, {0, 3}, 4, 0) : d \in BOOLEAN, c \in BOOLEAN}

(* More reads than the queue holds. *)
Overflow == {Load(2, FALSE, c, {0, 8}, {FALSE}, {2}, {0, 4}, 5, 0) : c \in BOOLEAN}
            \cup {Load(1, TRUE, TRUE, {0, 1}, BOOLEAN, {2}, {0, 2}, 4, 0)}

(* Activations in several banks, accesses of two sizes and a refresh. *)
Activations == {Load(2, TRUE, c, {0, 1, 4, 8}, {FALSE}, {2}, {0, 2}, 3, 1) : c \in BOOLEAN}
               \cup {Load(4, FALSE, FALSE, {0, 1, 8}, {FALSE}, {2, 6}, {0, 3}, 4, 0)}
               \cup {Load(2, TRUE, FALSE, {0, 8}, BOOLEAN, {2, 4}, {0, 3}, 3, 1)}

MCWorkloads == Rows \cup Overflow \cup Activations
=============================================================================
