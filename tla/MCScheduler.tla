---------------------------- MODULE MCScheduler ----------------------------
(* Threads and workloads for TLC. *)
EXTENDS Scheduler

CONSTANTS g1, g2, g3, g4

AnyCore == [g \in Threads |-> Cores]
Split == [g \in Threads |-> IF g \in {g1, g3} THEN {0} ELSE {1}]
OneCore == [g \in Threads |-> {0}]

(* Plain system calls, which are fake leaves until they stall a phase. *)
Fake == [threads |-> {g1, g2, g3}, mask |-> AnyCore, nappers |-> {}, timers |-> {}, blocking |-> {},
         mortal |-> {}, forwarded |-> {}]

(* Sleeps and timeouts, with plain calls known to block. *)
Sleep == [Fake EXCEPT !.nappers = {g1, g2}, !.timers = {g3}, !.blocking = Threads]

(* Two threads for each core, and all threads on one core. *)
Pinned == [Fake EXCEPT !.threads = Threads, !.mask = Split, !.blocking = Threads]
Piled == [Fake EXCEPT !.mask = OneCore]

(* A thread that is killed and one that is fast-forwarded, on one core with *)
(* a third; and two of either kind on two cores.                            *)
Mixed == [Piled EXCEPT !.nappers = {g1}, !.mortal = {g1}, !.timers = {g2}, !.forwarded = {g2}]
Killed == [Fake EXCEPT !.threads = {g1, g2}, !.nappers = {g1}, !.mortal = {g1, g2}]
Forwarded == [Fake EXCEPT !.threads = {g1, g2}, !.timers = {g1}, !.forwarded = {g1, g2}]

AllWorkloads == {Fake, Sleep, Pinned, Piled, Mixed, Killed, Forwarded}
FakeOnly == {Fake}

(* Three threads of which one sleeps, and two of which one may be killed. *)
OneNapper == {[Fake EXCEPT !.nappers = {g1}],
              [Fake EXCEPT !.threads = {g1, g2}, !.nappers = {g1}, !.mortal = {g2}]}
=============================================================================
