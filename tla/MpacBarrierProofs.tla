-------------------------- MODULE MpacBarrierProofs --------------------------
(***************************************************************************)
(* Proofs about MpacBarrier, for every finite group of threads and every   *)
(* number of calls.                                                        *)
(***************************************************************************)
EXTENDS MpacBarrier, FiniteSetTheorems, TLAPS

-----------------------------------------------------------------------------
(* The inductive invariant.                                                *)

Sleepers == {w \in Worker : Asleep(w)}

(* The owner of the mutex is the one worker in the critical section.       *)
MutexHeld == \A w \in Worker : owner = w <=> pc[w] \in {"locked", "last", "unlock"}

(* The count reaches the size of the group only while the last worker has  *)
(* the mutex and is about to wake the others.                              *)
CountBelow ==
  /\ nworker > 0 => (narrived = nworker <=> \E w \in Worker : pc[w] = "last")
  /\ nworker = 0 => narrived = 0 /\ \A w \in Worker : pc[w] \in {"out", "locked"}

IInv == TypeOK /\ MutexHeld /\ NoLostSleeper /\ CountBelow /\ NoOvertaking

-----------------------------------------------------------------------------
(* The sleepers are a finite subset of the workers, all of them when they  *)
(* are as many.                                                            *)
LEMMA GroupSize ==
  /\ Cardinality(Worker) \in Nat /\ Cardinality(Worker) > 0
  /\ Cardinality({}) = 0
BY WorkerAssumption, FS_CardinalityType, FS_EmptySet

LEMMA SubgroupSize ==
  ASSUME NEW S \in SUBSET Worker
  PROVE  /\ IsFiniteSet(S) /\ Cardinality(S) \in Nat
         /\ Cardinality(S) <= Cardinality(Worker)
         /\ Cardinality(S) = Cardinality(Worker) => S = Worker
         /\ \A w \in Worker \ S : Cardinality(S \cup {w}) = Cardinality(S) + 1
BY WorkerAssumption, FS_Subset, FS_CardinalityType, FS_AddElement

LEMMA InitInvariant == Init => IInv
<1> SUFFICES ASSUME Init PROVE IInv
  OBVIOUS
<1>1. Sleepers = {}
  BY DEF Init, Sleepers, Asleep
<1>2. TypeOK
  BY GroupSize DEF Init, TypeOK
<1>3. MutexHeld
  BY WorkerAssumption DEF Init, MutexHeld
<1>4. NoLostSleeper /\ CountBelow
  BY <1>1, GroupSize DEF Init, NoLostSleeper, Sleepers, CountBelow
<1>5. NoOvertaking
  BY DEF Init, NoOvertaking, Passed, Released
<1>6. QED
  BY <1>2, <1>3, <1>4, <1>5 DEF IInv

(* The steps that neither put a worker to sleep nor wake one up.           *)
LEMMA QuietStep ==
  ASSUME IInv, NEW w \in Worker, Lock(w) \/ Refuse(w) \/ Wake(w) \/ Unlock(w)
  PROVE  IInv'
<1> USE DEF Lock, Refuse, Wake, Unlock
<1>1. TypeOK'
  BY DEF IInv, TypeOK
<1>2. MutexHeld'
  BY WorkerAssumption DEF IInv, TypeOK, MutexHeld
<1>3. Sleepers' = Sleepers
  BY DEF IInv, TypeOK, Sleepers, Asleep
<1>4. NoLostSleeper'
  BY <1>3 DEF IInv, NoLostSleeper, Sleepers
<1>5. CountBelow'
  BY GroupSize DEF IInv, TypeOK, CountBelow
<1>6. NoOvertaking'
  BY DEF IInv, TypeOK, NoOvertaking, Passed, Released, CountBelow
<1>7. QED
  BY <1>1, <1>2, <1>4, <1>5, <1>6 DEF IInv

(* A worker that arrives is counted and joins the sleepers.                *)
LEMMA ArriveStep ==
  ASSUME IInv, NEW w \in Worker, ArriveAndWait(w) \/ ArriveLast(w)
  PROVE  /\ IInv'
         /\ w \notin Sleepers /\ Sleepers' = Sleepers \cup {w}
<1> USE DEF ArriveAndWait, ArriveLast, IsLast
<1>1. w \notin Sleepers /\ Sleepers' = Sleepers \cup {w}
  BY DEF IInv, TypeOK, Sleepers, Asleep
<1>2. Sleepers' \in SUBSET Worker
  BY DEF Sleepers
<1>3. /\ Cardinality(Sleepers') = Cardinality(Sleepers) + 1
      /\ Cardinality(Sleepers') <= Cardinality(Worker)
      /\ Cardinality(Sleepers) \in Nat
  <2>1. Sleepers \in SUBSET Worker
    BY DEF Sleepers
  <2>2. QED
    BY <1>1, <1>2, <2>1, SubgroupSize
<1>4. NoLostSleeper'
  BY <1>3 DEF IInv, NoLostSleeper, Sleepers
<1>5. TypeOK'
  BY <1>3, <1>4, GroupSize DEF IInv, TypeOK, NoLostSleeper, Sleepers
<1>6. MutexHeld'
  BY WorkerAssumption DEF IInv, TypeOK, MutexHeld
<1>7. CountBelow'
  BY GroupSize DEF IInv, TypeOK, CountBelow, MutexHeld
<1>8. NoOvertaking'
  BY DEF IInv, TypeOK, NoOvertaking, Passed, Released
<1>9. QED
  BY <1>1, <1>4, <1>5, <1>6, <1>7, <1>8 DEF IInv

(* When the last worker broadcasts, all workers are asleep, and all of     *)
(* them are released.                                                      *)
LEMMA BroadcastStep ==
  ASSUME IInv, NEW w \in Worker, Broadcast(w)
  PROVE  /\ IInv'
         /\ nworker > 0 /\ Sleepers = Worker /\ Sleepers' = {}
         /\ \A v \in Worker : Passed(v)' = Passed(v) + 1
<1> USE DEF Broadcast
<1>1. nworker = Cardinality(Worker) /\ nworker > 0 /\ narrived = nworker
  BY GroupSize DEF IInv, TypeOK, CountBelow
<1>2. Sleepers = Worker
  <2>1. Sleepers \in SUBSET Worker /\ Cardinality(Sleepers) = Cardinality(Worker)
    BY <1>1 DEF IInv, NoLostSleeper, Sleepers
  <2>2. QED
    BY <2>1, SubgroupSize
<1>3. \A v \in Worker : pc[v] \in {"waiting", "last"}
  BY <1>2 DEF Sleepers, Asleep
<1>4. \A v \in Worker : pc[v] = "last" => v = w
  BY DEF IInv, MutexHeld
<1>5. pc' = [v \in Worker |-> IF v = w THEN "unlock" ELSE "woken"]
  BY <1>3, <1>4
<1>6. Sleepers' = {}
  BY <1>5 DEF Sleepers, Asleep
<1>7. \A v \in Worker : Passed(v)' = Passed(v) + 1
  BY <1>1, <1>3, <1>5 DEF Passed, Released, IInv, TypeOK
<1>8. TypeOK'
  BY <1>5, GroupSize DEF IInv, TypeOK
<1>9. MutexHeld'
  BY <1>4, <1>5 DEF IInv, MutexHeld
<1>10. NoLostSleeper' /\ CountBelow'
  BY <1>1, <1>5, <1>6, GroupSize DEF NoLostSleeper, Sleepers, CountBelow
<1>11. NoOvertaking'
  BY <1>7 DEF IInv, NoOvertaking
<1>12. QED
  BY <1>1, <1>2, <1>6, <1>7, <1>8, <1>9, <1>10, <1>11 DEF IInv

LEMMA StutterStep == ASSUME IInv, UNCHANGED vars PROVE IInv'
BY DEF IInv, vars, lck, TypeOK, MutexHeld, NoLostSleeper, Asleep, CountBelow,
       NoOvertaking, Passed, Released

LEMMA Invariance == Spec => []IInv
<1>1. IInv /\ [Next]_vars => IInv'
  BY QuietStep, ArriveStep, BroadcastStep, StutterStep DEF Next, Barrier, Joined
<1>2. QED
  BY InitInvariant, <1>1, PTL DEF Spec

-----------------------------------------------------------------------------
(* The theorems.                                                           *)

(* The counters, the mutex and the control points of the barrier stay in   *)
(* their ranges: in particular the count never passes the group's size,    *)
(* the only value the last worker tests it for.                            *)
THEOREM TypeCorrect == Spec => []TypeOK
  BY Invariance, PTL DEF IInv

(* No worker returns from its k-th call before all others are released     *)
(* from theirs, for every size of the group.                               *)
THEOREM NobodyOvertakes == Spec => []NoOvertaking
  BY Invariance, PTL DEF IInv

(* The count is always the number of workers asleep in the barrier.        *)
THEOREM NoSleeperIsLost == Spec => []NoLostSleeper
  BY Invariance, PTL DEF IInv

-----------------------------------------------------------------------------
(* The barrier implements the abstract one.                                *)

LEMMA InitRefines == Init => Phase!Init
BY DEF Init, Phase!Init, Asleep, Passed, Released

(* A quiet step is a stuttering step of the abstract barrier.              *)
LEMMA QuietStepRefines ==
  ASSUME IInv, NEW w \in Worker, Lock(w) \/ Refuse(w) \/ Wake(w) \/ Unlock(w)
  PROVE  UNCHANGED Phase!vars
<1> USE DEF Lock, Refuse, Wake, Unlock
<1>1. {v \in Worker : Asleep(v)}' = {v \in Worker : Asleep(v)}
  BY DEF IInv, TypeOK, Asleep
<1>2. \A v \in Worker : Passed(v)' = Passed(v)
  BY DEF IInv, TypeOK, Passed, Released, CountBelow
<1>3. QED
  BY <1>1, <1>2 DEF Phase!vars

LEMMA ArriveStepRefines ==
  ASSUME IInv, NEW w \in Worker, ArriveAndWait(w) \/ ArriveLast(w)
  PROVE  Phase!Come(w)
<1>1. \A v \in Worker : Passed(v)' = Passed(v)
  BY DEF IInv, TypeOK, Passed, Released, ArriveAndWait, ArriveLast
<1>2. QED
  BY <1>1, ArriveStep DEF Phase!Come, Sleepers

LEMMA BroadcastStepRefines ==
  ASSUME IInv, NEW w \in Worker, Broadcast(w)
  PROVE  Phase!Open
BY BroadcastStep DEF Phase!Open, Sleepers

LEMMA StutterRefines == ASSUME UNCHANGED vars PROVE UNCHANGED Phase!vars
BY DEF vars, lck, Phase!vars, Asleep, Passed, Released

(* Every behaviour of the barrier, with its two counters and one condition *)
(* variable, is one of the abstract barrier: the broadcast of the last     *)
(* worker is its opening, and the slow workers' way out is invisible.      *)
THEOREM Refinement == Spec => ImplementsPhaseBarrier
<1>1. IInv /\ [Next]_vars => [Phase!Next]_(Phase!vars)
  BY QuietStepRefines, ArriveStepRefines, BroadcastStepRefines, StutterRefines
     DEF Next, Barrier, Joined, Phase!Next
<1>2. QED
  BY InitRefines, Invariance, <1>1, PTL DEF Spec, ImplementsPhaseBarrier, Phase!Spec
=============================================================================
