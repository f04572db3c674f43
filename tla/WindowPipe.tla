----------------------------- MODULE WindowPipe -----------------------------
(***************************************************************************)
(* What the producer and the consumer of benchmarks/cache promise each     *)
(* other, without the counters and flags that keep it: in rounds of size   *)
(* blocks, the producer makes a block only while at most upper blocks are  *)
(* waiting to be used; the consumer uses one only when at least lower      *)
(* blocks of this round are waiting, or the round is made completely; and  *)
(* nobody makes a block of the next round before this one is used up.      *)
(*                                                                         *)
(* size, lower and upper are fixed in a behaviour (they are variables so   *)
(* that one model covers all options).                                     *)
(***************************************************************************)
EXTENDS Integers

VARIABLES size, lower, upper, pround, made, cround, used

vars == <<size, lower, upper, pround, made, cround, used>>
window == <<size, lower, upper>>

(* The blocks made of the round the consumer is in.                        *)
Ready == IF pround = cround THEN made ELSE 0

Init ==
  /\ size \in Nat \ {0} /\ lower \in Nat /\ upper \in Nat
  /\ pround \in Nat /\ cround = pround
  /\ made = 0 /\ used = 0

Make ==
  /\ pround = cround /\ made < size
  /\ made - used <= upper
  /\ made' = made + 1
  /\ UNCHANGED <<window, pround, cround, used>>

Use ==
  /\ used < size
  /\ Ready - used >= lower \/ Ready = size
  /\ used' = used + 1
  /\ UNCHANGED <<window, pround, made, cround>>

(* The consumer opens the next round, and the producer follows.            *)
Open ==
  /\ pround = cround /\ made = size /\ used = size
  /\ cround' = cround + 1 /\ used' = 0
  /\ UNCHANGED <<window, pround, made>>

Follow ==
  /\ pround # cround
  /\ pround' = cround /\ made' = 0
  /\ UNCHANGED <<window, cround, used>>

Next == Make \/ Use \/ Open \/ Follow

Spec == Init /\ [][Next]_vars
=============================================================================
