---------------------------- MODULE PacketQueues ----------------------------
(***************************************************************************)
(* What the rings of the sniffer promise: for each worker a bounded FIFO   *)
(* queue of packets.  A packet that is put into a queue is taken out by    *)
(* that worker, in order, once, and as it was put; the worker keeps it to  *)
(* itself until it takes the next one.                                     *)
(***************************************************************************)
EXTENDS Integers, Sequences

VARIABLES
  cap,     \* the capacity of each worker's queue; fixed in a behaviour
  q,       \* the packets queued for each worker
  busy     \* the packet each worker has taken, in a sequence of at most one

vars == <<cap, q, busy>>

Init ==
  /\ \A j \in DOMAIN cap : cap[j] \in Nat
  /\ q = [j \in DOMAIN cap |-> <<>>]
  /\ busy = [j \in DOMAIN cap |-> <<>>]

(* Any packet may come; the queue is not full.                             *)
Put(j) ==
  /\ Len(q[j]) < cap[j]
  /\ Len(q'[j]) = Len(q[j]) + 1
  /\ q' = [q EXCEPT ![j] = Append(@, q'[j][Len(q'[j])])]
  /\ UNCHANGED <<cap, busy>>

Take(j) ==
  /\ busy[j] = <<>> /\ q[j] # <<>>
  /\ busy' = [busy EXCEPT ![j] = <<Head(q[j])>>]
  /\ q' = [q EXCEPT ![j] = Tail(@)]
  /\ UNCHANGED cap

Finish(j) ==
  /\ busy[j] # <<>>
  /\ busy' = [busy EXCEPT ![j] = <<>>]
  /\ UNCHANGED <<cap, q>>

Next == \E j \in DOMAIN cap : Put(j) \/ Take(j) \/ Finish(j)

Spec == Init /\ [][Next]_vars
=============================================================================
