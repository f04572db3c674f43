---------------------------- MODULE PhaseBarrier ----------------------------
(***************************************************************************)
(* What mpac_thread_manager_barrier promises a fixed group of threads: a   *)
(* thread that comes to the barrier stays there until all of them have     *)
(* come, and then all of them have passed, in one step.                    *)
(***************************************************************************)
EXTENDS Naturals

CONSTANT Worker

VARIABLES
  inside,    \* the threads that have come and must stay
  passed     \* how many barriers each thread has passed

vars == <<inside, passed>>

Init == inside = {} /\ passed = [w \in Worker |-> 0]

Come(w) ==
  /\ w \notin inside
  /\ inside' = inside \cup {w}
  /\ UNCHANGED passed

Open ==
  /\ inside = Worker
  /\ inside' = {}
  /\ passed' = [w \in Worker |-> passed[w] + 1]

Next == Open \/ \E w \in Worker : Come(w)

Spec == Init /\ [][Next]_vars
=============================================================================
