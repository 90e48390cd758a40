------------------------------ MODULE DDRClock ------------------------------
(* The two clocks of a DDR memory (src/src/ddr_mem.h).  The simulation      *)
(* counts system cycles, the memory computes in memory cycles.              *)
EXTENDS Integers

CONSTANTS sysFreqKHz, memFreqKHz

(* The constructor panics unless the memory has less than half the          *)
(* frequency of the system.                                                 *)
ASSUME FreqAssumption == /\ sysFreqKHz \in Nat \ {0} /\ memFreqKHz \in Nat \ {0}
                         /\ 2 * memFreqKHz < sysFreqKHz

sysToMemCycle(sysCycle) == (sysCycle * memFreqKHz) \div sysFreqKHz + 1

(* Mutant: the first system cycle of the memory cycle before. *)
matchingMemToSysCycle_First(memCycle) == ((memCycle - 1) * sysFreqKHz) \div memFreqKHz

(* A system cycle that is translated back to the same memory cycle. *)
matchingMemToSysCycle(memCycle) == (((2 * memCycle - 1) * sysFreqKHz) \div memFreqKHz) \div 2

(* The system cycle for a tick in memory cycle memCycle, planned in system  *)
(* cycle sysCycle.                                                          *)
tickCycle(memCycle, sysCycle) ==
    IF matchingMemToSysCycle(memCycle) > sysCycle THEN matchingMemToSysCycle(memCycle) ELSE sysCycle
=============================================================================
