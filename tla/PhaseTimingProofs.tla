------------------------- MODULE PhaseTimingProofs --------------------------
(***************************************************************************)
(* What the benchmarks measure, for every number of workers, of phases and *)
(* of rounds: the routines of benchmarks/cpu and benchmarks/mem            *)
(* (PhaseTiming) and the phases of the Cell ports (CellBench), where each  *)
(* time is shown to be that of what its label says, or of its part.        *)
(***************************************************************************)
EXTENDS CellBench, MpacBarrierProofs, SequenceTheorems

-----------------------------------------------------------------------------
(* The barrier a worker comes to next; one that is released from a barrier *)
(* already counts as being behind it.                                      *)
Turns(w) == Released(w) /\ step[w] > routine.reps
NextPhase(w) == IF Turns(w) THEN phase[w] + 1 ELSE phase[w]
NextStep(w) == IF Turns(w) THEN 0 ELSE IF Released(w) THEN step[w] + 1 ELSE step[w]

PlaceType ==
  /\ routine \in Routines
  /\ phase \in [Worker -> 0 .. routine.phases]
  /\ step \in [Worker -> 0 .. routine.reps + 1]
  /\ nworker = Cardinality(Worker)
  /\ \A w \in Worker : phase[w] = routine.phases => pc[w] = "out" /\ step[w] = 0

Together ==
  \A v, w \in Worker : NextPhase(v) = NextPhase(w) /\ NextStep(v) = NextStep(w)

(* The times that are set follow from the next barrier.                    *)
Times ==
  \A w \in Worker :
    /\ gtime1 = IF NextStep(w) > 0 THEN <<NextPhase(w), 0>>
                ELSE IF NextPhase(w) = 0 THEN Unset ELSE <<NextPhase(w) - 1, 0>>
    /\ gtime2 = IF NextPhase(w) = 0 THEN Unset
                ELSE <<NextPhase(w) - 1, routine.reps + 1>>

PInv == PlaceType /\ Together /\ Times

(* A worker that owes a result is between two phases.                      *)
Results ==
  /\ loaded \in [Worker -> Place \cup {Unset}]
  /\ stored \in [Worker -> 0 .. routine.phases]
  /\ \A w \in Worker :
       /\ routine.stores # "worker" => loaded[w] = Unset
       /\ routine.stores = "worker" => stored[w] \in {phase[w], phase[w] - 1}
       /\ Owes(w) => pc[w] = "out" /\ step[w] = 0 /\ phase[w] > 0
       /\ loaded[w] # Unset => Owes(w) /\ loaded[w] = <<phase[w] - 1, routine.reps + 1>>
  /\ gtime = [k \in 0 .. routine.phases - 1 |-> gtime[k]]
  /\ ResultIsPhaseSpan

LEMMA RoutineFacts ==
  ASSUME routine \in Routines
  PROVE  /\ routine.phases \in Nat /\ routine.reps \in Nat
         /\ routine.stores = "main" => routine.phases = 1
BY RoutinesAssumption DEF RoutineType

LEMMA InitPlaces == TInit => PInv /\ Results
<1> SUFFICES ASSUME TInit PROVE PInv /\ Results
  OBVIOUS
<1>1. routine.phases \in Nat /\ routine.reps \in Nat
  BY RoutineFacts DEF TInit
<1>2. /\ \A w \in Worker : pc[w] = "out" /\ phase[w] = 0 /\ step[w] = 0
      /\ gtime1 = Unset /\ gtime2 = Unset
  BY DEF TInit, Init
<1>3. PlaceType
  BY <1>1, <1>2 DEF TInit, PlaceType
<1>4. \A w \in Worker : NextPhase(w) = 0 /\ NextStep(w) = 0
  BY <1>2 DEF NextPhase, NextStep, Turns, Released
<1>5. Together /\ Times
  BY <1>2, <1>4 DEF Together, Times
<1>6. Results
  BY <1>1, <1>2 DEF TInit, Results, Owes, ResultIsPhaseSpan
<1>7. QED
  BY <1>3, <1>5, <1>6 DEF PInv

-----------------------------------------------------------------------------
(* The steps of a worker in the barrier.                                   *)
LEMMA MovesKeepPlaces ==
  ASSUME IInv, PInv, NEW w \in Worker, TLock(w) \/ InBarrier(w)
  PROVE  PInv'
<1>1. UNCHANGED <<routine, phase, step, gtime1, gtime2, nworker>>
  BY DEF TLock, InBarrier, timing, Lock, ArriveAndWait, ArriveLast, Wake
<1>2. PICK from \in {"out", "locked", "woken"}, to \in {"locked", "waiting", "last", "unlock"} :
        /\ pc[w] = from /\ pc' = [pc EXCEPT ![w] = to]
        /\ from = "woken" <=> to = "unlock"
        /\ from = "out" => phase[w] < routine.phases
  BY DEF TLock, InBarrier, Lock, ArriveAndWait, ArriveLast, Wake
<1>3. \A v \in Worker : Released(v)' <=> Released(v)
  BY <1>2 DEF Released, IInv, TypeOK
<1>4. \A v \in Worker : NextPhase(v)' = NextPhase(v) /\ NextStep(v)' = NextStep(v)
  BY <1>1, <1>3 DEF NextPhase, NextStep, Turns
<1>5. routine.phases \in Nat
  BY RoutineFacts DEF PInv, PlaceType
<1>6. PlaceType'
  <2>1. \A v \in Worker : phase[v] = routine.phases => pc'[v] = "out" /\ step[v] = 0
    BY <1>2, <1>5 DEF PInv, PlaceType, IInv, TypeOK
  <2>2. QED
    BY <1>1, <2>1 DEF PInv, PlaceType
<1>7. QED
  BY <1>1, <1>4, <1>6 DEF PInv, Together, Times

LEMMA BroadcastKeepsPlaces ==
  ASSUME IInv, PInv, NEW w \in Worker, TBroadcast(w)
  PROVE  PInv'
<1>1. Broadcast(w) /\ UNCHANGED <<routine, phase, step, nworker>>
  BY DEF TBroadcast, Broadcast
<1>2. \A v \in Worker : Asleep(v) /\ pc'[v] \in {"woken", "unlock"}
  <2>1. Sleepers = Worker
    BY <1>1, BroadcastStep
  <2>2. \A v \in Worker : Asleep(v)
    BY <2>1 DEF Sleepers
  <2>3. \A v \in Worker : pc[v] = "last" => v = w
    BY <1>1 DEF IInv, MutexHeld, Broadcast
  <2>4. QED
    BY <1>1, <2>2, <2>3 DEF Asleep, Broadcast
<1>3. \A v \in Worker : ~Released(v) /\ Released(v)'
  BY <1>2 DEF Asleep, Released
<1>4. \A v \in Worker : phase[v] = phase[w] /\ step[v] = step[w]
  BY <1>3 DEF PInv, Together, NextPhase, NextStep, Turns
<1>5. /\ routine.phases \in Nat /\ routine.reps \in Nat
      /\ phase[w] \in 0 .. routine.phases /\ step[w] \in 0 .. routine.reps + 1
  BY RoutineFacts DEF PInv, PlaceType
<1>6. \A v \in Worker :
        /\ NextPhase(v)' = IF step[w] > routine.reps THEN phase[w] + 1 ELSE phase[w]
        /\ NextStep(v)' = IF step[w] > routine.reps THEN 0 ELSE step[w] + 1
  BY <1>1, <1>3, <1>4 DEF NextPhase, NextStep, Turns
<1>7. /\ gtime1 = IF step[w] > 0 THEN <<phase[w], 0>>
                  ELSE IF phase[w] = 0 THEN Unset ELSE <<phase[w] - 1, 0>>
      /\ gtime2 = IF phase[w] = 0 THEN Unset ELSE <<phase[w] - 1, routine.reps + 1>>
  BY <1>3 DEF PInv, Times, NextPhase, NextStep, Turns
<1>8. /\ gtime1' = IF step[w] = 0 THEN <<phase[w], step[w]>> ELSE gtime1
      /\ gtime2' = IF step[w] = routine.reps + 1 THEN <<phase[w], step[w]>> ELSE gtime2
  BY DEF TBroadcast
<1>9. Times'
  <2>1. CASE step[w] > routine.reps
    <3>1. step[w] = routine.reps + 1 /\ step[w] > 0 /\ phase[w] + 1 # 0
      BY <1>5, <2>1
    <3>2. gtime1' = <<phase[w], 0>> /\ gtime2' = <<phase[w], routine.reps + 1>>
      BY <1>7, <1>8, <3>1
    <3>3. \A v \in Worker : NextPhase(v)' = phase[w] + 1 /\ NextStep(v)' = 0
      BY <1>6, <2>1
    <3>4. phase[w] + 1 - 1 = phase[w]
      BY <1>5
    <3>5. \A v \in Worker : NextPhase(v)' - 1 = phase[w] /\ NextPhase(v)' # 0 /\ ~(NextStep(v)' > 0)
      BY <1>5, <3>1, <3>3, <3>4
    <3>6. QED
      BY <1>1, <3>2, <3>5 DEF Times
  <2>2. CASE ~(step[w] > routine.reps)
    <3>1. step[w] # routine.reps + 1 /\ step[w] + 1 > 0
      BY <1>5, <2>2
    <3>2. gtime1' = <<phase[w], 0>> /\ gtime2' = gtime2
      BY <1>5, <1>7, <1>8, <3>1
    <3>3. \A v \in Worker : NextPhase(v)' = phase[w] /\ NextStep(v)' = step[w] + 1
      BY <1>6, <2>2
    <3>4. QED
      BY <1>1, <1>7, <3>1, <3>2, <3>3 DEF Times
  <2>3. QED
    BY <2>1, <2>2
<1>10. PlaceType'
  <2>1. \A v \in Worker : phase[v] # routine.phases
    BY <1>2 DEF PInv, PlaceType, Asleep
  <2>2. QED
    BY <1>1, <2>1 DEF PInv, PlaceType
<1>11. QED
  BY <1>6, <1>9, <1>10 DEF PInv, Together

LEMMA UnlockKeepsPlaces ==
  ASSUME IInv, PInv, NEW w \in Worker, TUnlock(w)
  PROVE  PInv'
<1>1. /\ pc[w] = "unlock" /\ pc' = [pc EXCEPT ![w] = "out"]
      /\ UNCHANGED <<routine, gtime1, gtime2, nworker>>
  BY DEF TUnlock, Unlock, timing
<1>2. /\ routine.phases \in Nat /\ routine.reps \in Nat
      /\ phase[w] \in 0 .. routine.phases /\ step[w] \in 0 .. routine.reps + 1
      /\ phase[w] # routine.phases
  BY <1>1, RoutineFacts DEF PInv, PlaceType
<1>3. /\ step' = [step EXCEPT ![w] = IF step[w] <= routine.reps THEN step[w] + 1 ELSE 0]
      /\ phase' = [phase EXCEPT ![w] = IF step[w] <= routine.reps THEN phase[w] ELSE phase[w] + 1]
  <2>1. CASE step[w] <= routine.reps
    BY <2>1 DEF TUnlock, PInv, PlaceType
  <2>2. CASE ~(step[w] <= routine.reps)
    BY <2>2 DEF TUnlock
  <2>3. QED
    BY <2>1, <2>2
<1>4. PlaceType'
  <2>1. /\ phase' \in [Worker -> 0 .. routine.phases]
        /\ step' \in [Worker -> 0 .. routine.reps + 1]
    BY <1>2, <1>3 DEF PInv, PlaceType
  <2>2. \A v \in Worker : phase'[v] = routine.phases => pc'[v] = "out" /\ step'[v] = 0
    BY <1>1, <1>2, <1>3 DEF PInv, PlaceType, IInv, TypeOK
  <2>3. QED
    BY <1>1, <2>1, <2>2 DEF PInv, PlaceType
<1>5. \A v \in Worker : NextPhase(v)' = NextPhase(v) /\ NextStep(v)' = NextStep(v)
  <2> SUFFICES ASSUME NEW v \in Worker
               PROVE  NextPhase(v)' = NextPhase(v) /\ NextStep(v)' = NextStep(v)
    OBVIOUS
  <2>1. CASE v = w
    <3>1. Released(w) /\ ~Released(w)'
      BY <1>1 DEF Released, IInv, TypeOK
    <3>2. QED
      BY <1>1, <1>2, <1>3, <2>1, <3>1 DEF NextPhase, NextStep, Turns, PInv, PlaceType
  <2>2. CASE v # w
    <3>1. Released(v)' <=> Released(v)
      BY <1>1, <2>2 DEF Released, IInv, TypeOK
    <3>2. QED
      BY <1>1, <1>3, <2>2, <3>1 DEF NextPhase, NextStep, Turns, PInv, PlaceType
  <2>3. QED
    BY <2>1, <2>2
<1>6. QED
  BY <1>1, <1>4, <1>5 DEF PInv, Together, Times

(* Nothing else moves a worker or sets a time.                             *)
LEMMA OthersKeepPlaces ==
  ASSUME PInv, UNCHANGED <<vars, routine, phase, step, gtime1, gtime2>>
  PROVE  PInv'
BY DEF vars, lck, PInv, PlaceType, Together, Times, NextPhase, NextStep, Turns, Released

-----------------------------------------------------------------------------
(* The results.                                                            *)
LEMMA BarrierKeepsResults ==
  ASSUME IInv, PInv, Results, NEW w \in Worker,
         TLock(w) \/ InBarrier(w) \/ TBroadcast(w)
  PROVE  Results'
<1>1. UNCHANGED <<routine, phase, step, gtime, loaded, stored>>
  BY DEF TLock, InBarrier, TBroadcast, timing
<1>2. \A v \in Worker : Owes(v)' <=> Owes(v)
  BY <1>1 DEF Owes
<1>3. \A v \in Worker : Owes(v) => pc'[v] = "out"
  BY DEF Results, TLock, Lock, InBarrier, ArriveAndWait, ArriveLast, Wake, TBroadcast,
         Broadcast, IInv, TypeOK
<1>4. QED
  BY <1>1, <1>2, <1>3 DEF Results, ResultIsPhaseSpan

LEMMA UnlockKeepsResults ==
  ASSUME IInv, PInv, Results, NEW w \in Worker, TUnlock(w)
  PROVE  Results'
<1>1. /\ pc[w] = "unlock" /\ pc' = [pc EXCEPT ![w] = "out"]
      /\ UNCHANGED <<routine, gtime, loaded, stored>>
  BY DEF TUnlock, Unlock, timing
<1>2. /\ routine.phases \in Nat /\ routine.reps \in Nat
      /\ phase \in [Worker -> 0 .. routine.phases]
  BY RoutineFacts DEF PInv, PlaceType
<1>3. ~Owes(w) /\ loaded[w] = Unset
  BY <1>1 DEF Results
<1>4. \/ step' = [step EXCEPT ![w] = step[w] + 1] /\ phase' = phase
      \/ step' = [step EXCEPT ![w] = 0] /\ phase' = [phase EXCEPT ![w] = phase[w] + 1]
  BY DEF TUnlock
<1>5. ASSUME NEW v \in Worker, v # w
      PROVE  pc'[v] = pc[v] /\ step'[v] = step[v] /\ phase'[v] = phase[v] /\ (Owes(v)' <=> Owes(v))
  BY <1>1, <1>2, <1>4, <1>5 DEF Owes, PInv, PlaceType
<1>6. /\ routine.stores = "worker" => stored[w] \in {phase'[w], phase'[w] - 1}
      /\ Owes(w)' => pc'[w] = "out" /\ step'[w] = 0 /\ phase'[w] > 0
  <2>1. routine.stores = "worker" => stored[w] = phase[w]
    BY <1>2, <1>3 DEF Owes, Results
  <2>2. CASE phase' = phase
    BY <1>1, <1>2, <1>3, <2>1, <2>2 DEF Owes
  <2>3. CASE phase' = [phase EXCEPT ![w] = phase[w] + 1] /\ step' = [step EXCEPT ![w] = 0]
    <3>1. phase'[w] = phase[w] + 1 /\ step'[w] = 0 /\ pc'[w] = "out"
      BY <1>1, <2>3 DEF PInv, PlaceType, IInv, TypeOK
    <3>2. QED
      BY <1>2, <2>1, <3>1
  <2>4. QED
    BY <1>4, <2>2, <2>3
<1>7. QED
  BY <1>1, <1>3, <1>5, <1>6 DEF Results, ResultIsPhaseSpan

LEMMA StoringKeepsResults ==
  ASSUME IInv, PInv, Results, NEW w \in Worker, LoadTime(w) \/ StoreResult(w)
  PROVE  Results'
<1>1. UNCHANGED <<pc, routine, phase, step, gtime1, gtime2>> /\ pc[w] = "out" /\ Owes(w)
  BY DEF LoadTime, StoreResult, vars
<1>2. /\ routine.phases \in Nat /\ routine.reps \in Nat
      /\ phase[w] \in 0 .. routine.phases /\ step[w] = 0 /\ phase[w] > 0
  BY <1>1, RoutineFacts DEF PInv, PlaceType, Results
<1>3. stored[w] = phase[w] - 1 /\ stored[w] \in 0 .. routine.phases - 1
  BY <1>1, <1>2 DEF Owes, Results
<1>4. NextPhase(w) = phase[w] /\ NextStep(w) = 0
  BY <1>1, <1>2 DEF NextPhase, NextStep, Turns, Released
<1>5. gtime1 = <<phase[w] - 1, 0>> /\ gtime2 = <<phase[w] - 1, routine.reps + 1>>
  BY <1>2, <1>4 DEF PInv, Times
<1>6. CASE LoadTime(w)
  <2>1. loaded' = [loaded EXCEPT ![w] = gtime2] /\ UNCHANGED <<gtime, stored>>
    BY <1>6 DEF LoadTime
  <2>2. gtime2 \in Place
    BY <1>2, <1>5 DEF Place
  <2>3. \A v \in Worker : Owes(v)' <=> Owes(v)
    BY <1>1, <2>1 DEF Owes
  <2>4. routine.stores = "worker"
    BY <1>1 DEF Owes
  <2>5. QED
    BY <1>1, <1>5, <2>1, <2>2, <2>3, <2>4 DEF Results, ResultIsPhaseSpan
<1>7. CASE StoreResult(w)
  <2>1. /\ gtime' = [gtime EXCEPT ![stored[w]] = <<gtime1, loaded[w]>>]
        /\ stored' = [stored EXCEPT ![w] = stored[w] + 1]
        /\ loaded' = [loaded EXCEPT ![w] = Unset] /\ loaded[w] # Unset
    BY <1>7 DEF StoreResult
  <2>2. loaded[w] = <<stored[w], routine.reps + 1>> /\ gtime1 = <<stored[w], 0>>
    BY <1>3, <1>5, <2>1 DEF Results
  <2>3. ResultIsPhaseSpan' /\ gtime' = [k \in 0 .. routine'.phases - 1 |-> gtime'[k]]
    BY <1>1, <2>1, <2>2 DEF Results, ResultIsPhaseSpan
  <2>4. stored'[w] = phase[w]
    BY <1>2, <1>3, <2>1 DEF Results
  <2>5. ~Owes(w)' /\ \A v \in Worker : v # w => (Owes(v)' <=> Owes(v))
    BY <1>1, <1>2, <2>1, <2>4 DEF Owes, Results
  <2>6. stored' \in [Worker -> 0 .. routine.phases] /\ loaded' \in [Worker -> Place \cup {Unset}]
    BY <1>2, <2>1, <2>4 DEF Results
  <2>7. QED
    BY <1>1, <2>1, <2>3, <2>4, <2>5, <2>6 DEF Results
<1>8. QED
  BY <1>6, <1>7

(* A result main stores when all workers have passed the phase.            *)
LEMMA MainStoresSpan ==
  ASSUME PInv, Results, NEW k \in 0 .. routine.phases - 1,
         \E w \in Worker : pc[w] = "out" /\ phase[w] = k + 1 /\ step[w] = 0,
         routine.stores # "worker",
         gtime' = [gtime EXCEPT ![k] = <<gtime1, gtime2>>],
         UNCHANGED <<pc, routine, phase, step, loaded, stored>>
  PROVE  Results'
<1>1. PICK w \in Worker : pc[w] = "out" /\ phase[w] = k + 1 /\ step[w] = 0
  OBVIOUS
<1>2. k \in Nat /\ routine.reps \in Nat
  BY RoutineFacts DEF PInv, PlaceType
<1>3. NextPhase(w) = k + 1 /\ NextStep(w) = 0
  BY <1>1 DEF NextPhase, NextStep, Turns, Released
<1>4. gtime1 = <<k, 0>> /\ gtime2 = <<k, routine.reps + 1>>
  <2>1. k + 1 # 0 /\ k + 1 - 1 = k /\ ~(0 > 0)
    BY <1>2
  <2>2. QED
    BY <1>3, <2>1 DEF PInv, Times
<1>5. ResultIsPhaseSpan' /\ gtime' = [l \in 0 .. routine'.phases - 1 |-> gtime'[l]]
  BY <1>4 DEF Results, ResultIsPhaseSpan
<1>6. \A v \in Worker : Owes(v)' <=> Owes(v)
  BY DEF Owes
<1>7. QED
  BY <1>5, <1>6 DEF Results

LEMMA OthersKeepResults ==
  ASSUME Results, UNCHANGED <<pc, routine, phase, step, gtime, loaded, stored>>
  PROVE  Results'
<1>1. \A v \in Worker : Owes(v)' <=> Owes(v)
  BY DEF Owes
<1>2. QED
  BY <1>1 DEF Results, ResultIsPhaseSpan

-----------------------------------------------------------------------------
(* The routines of benchmarks/cpu and benchmarks/mem.                      *)
LEMMA WorkUsesBarrier ==
  ASSUME NEW w \in Worker, Work(w)
  PROVE  [Next]_vars
BY DEF Work, TLock, InBarrier, TBroadcast, TUnlock, LoadTime, StoreResult, Next, Barrier

LEMMA TimingStep == IInv /\ PInv /\ Results /\ [TNext]_tvars => (PInv /\ Results)'
<1> SUFFICES ASSUME IInv, PInv, Results, [TNext]_tvars PROVE (PInv /\ Results)'
  OBVIOUS
<1>1. CASE MainStores
  <2>1. /\ UNCHANGED <<vars, routine, phase, step, gtime1, gtime2, loaded, stored>>
        /\ routine.stores = "main" /\ \A w \in Worker : phase[w] = routine.phases
        /\ gtime' = [gtime EXCEPT ![0] = <<gtime1, gtime2>>]
    BY <1>1 DEF MainStores, WorkersDone
  <2>2. routine.phases = 1
    BY <2>1, RoutineFacts DEF PInv, PlaceType
  <2>3. \E w \in Worker : pc[w] = "out" /\ phase[w] = 0 + 1 /\ step[w] = 0
    <3>1. \A w \in Worker : pc[w] = "out" /\ phase[w] = 0 + 1 /\ step[w] = 0
      BY <2>1, <2>2 DEF PInv, PlaceType
    <3>2. Worker # {}
      BY GroupSize
    <3>3. QED
      BY <3>1, <3>2
  <2>4. 0 \in 0 .. routine.phases - 1 /\ UNCHANGED pc
    BY <2>1, <2>2 DEF vars
  <2>5. QED
    BY <2>1, <2>3, <2>4, MainStoresSpan, OthersKeepPlaces
<1>2. ASSUME NEW w \in Worker, Work(w) PROVE (PInv /\ Results)'
  <2>1. CASE LoadTime(w) \/ StoreResult(w)
    <3>1. UNCHANGED <<vars, routine, phase, step, gtime1, gtime2>>
      BY <2>1 DEF LoadTime, StoreResult
    <3>2. QED
      BY <2>1, <3>1, OthersKeepPlaces, StoringKeepsResults
  <2>2. QED
    BY <1>2, <2>1, MovesKeepPlaces, BroadcastKeepsPlaces, UnlockKeepsPlaces,
       BarrierKeepsResults, UnlockKeepsResults DEF Work
<1>3. CASE UNCHANGED tvars
  <2>1. UNCHANGED <<vars, pc, routine, phase, step, gtime1, gtime2, gtime, loaded, stored>>
    BY <1>3 DEF tvars, timing, vars
  <2>2. QED
    BY <2>1, OthersKeepPlaces, OthersKeepResults
<1>4. QED
  BY <1>1, <1>2, <1>3 DEF TNext, TJoined

LEMMA TimingInvariance == TSpec => [](IInv /\ PInv /\ Results)
<1>1. TInit => Init
  BY DEF TInit
<1>2. [TNext]_tvars => [Next]_vars
  BY WorkUsesBarrier DEF TNext, TJoined, MainStores, tvars
<1>3. TSpec => []IInv
  BY <1>1, <1>2, Invariance, PTL DEF TSpec, Spec
<1>4. QED
  BY <1>3, InitPlaces, TimingStep, PTL DEF TSpec

(* Every variable keeps its type.                                          *)
THEOREM TimingTypeCorrect == TSpec => []TTypeOK
<1>1. IInv /\ PInv /\ Results => TTypeOK
  <2> SUFFICES ASSUME IInv, PInv, Results PROVE TTypeOK
    OBVIOUS
  <2>1. routine.phases \in Nat /\ routine.reps \in Nat
    BY RoutineFacts DEF PInv, PlaceType
  <2>2. PICK w \in Worker : TRUE
    BY GroupSize
  <2>3. NextPhase(w) \in Nat
    BY <2>1 DEF NextPhase, PInv, PlaceType
  <2>4. gtime1 \in Place \cup {Unset} /\ gtime2 \in Place \cup {Unset}
    BY <2>1, <2>3 DEF PInv, Times, Place
  <2>5. gtime \in [0 .. routine.phases - 1 ->
                    {Unset} \cup ((Place \cup {Unset}) \X (Place \cup {Unset}))]
    <3>1. \A k \in 0 .. routine.phases - 1 : <<k, 0>> \in Place /\ <<k, routine.reps + 1>> \in Place
      BY <2>1 DEF Place
    <3>2. ASSUME NEW k \in 0 .. routine.phases - 1
          PROVE  gtime[k] \in {Unset} \cup ((Place \cup {Unset}) \X (Place \cup {Unset}))
      <4>1. gtime[k] = Unset \/ gtime[k] = << <<k, 0>>, <<k, routine.reps + 1>> >>
        BY DEF Results, ResultIsPhaseSpan
      <4>2. << <<k, 0>>, <<k, routine.reps + 1>> >> \in (Place \cup {Unset}) \X (Place \cup {Unset})
        BY <3>1
      <4>3. QED
        BY <4>1, <4>2
    <3>3. QED
      BY <3>2 DEF Results
  <2>6. QED
    BY <2>4, <2>5 DEF IInv, PInv, PlaceType, Results, TTypeOK
<1>2. QED
  BY <1>1, TimingInvariance, PTL

(* Each result is the time between the first and the last barrier of its   *)
(* own phase, although the two times are globals every phase uses again    *)
(* and no lock protects.                                                   *)
THEOREM ResultsAreSpans == TSpec => []ResultIsPhaseSpan
BY TimingInvariance, PTL DEF Results

LEMMA OutTogether == Together => WorksTogether
BY DEF Together, WorksTogether, NextPhase, NextStep, Turns, Released

(* Workers that are between barriers are in the same round of the same     *)
(* phase.                                                                  *)
THEOREM WorkersWorkTogether == TSpec => []WorksTogether
<1>1. PInv => WorksTogether
  BY OutTogether DEF PInv
<1>2. QED
  BY <1>1, TimingInvariance, PTL

-----------------------------------------------------------------------------
(* The Cell ports: main forks the workers anew for every phase.  A worker  *)
(* that is through with the phase has nothing more to do with the barrier, *)
(* and one whose SPE runs waits for it between the two barriers.           *)
CellType ==
  /\ round \in Nat
  /\ mpc \in {"fork", "mail", "join", "done"}
  /\ i \in 0 .. N /\ (mpc = "mail" => i < N)
  /\ context \in [Worker -> {"none", "loaded", "destroyed"}]
  /\ spe \in [Worker -> {"idle", "running", "stopped"}]

CellPlaces ==
  /\ routine.stores = "main, each phase"
  /\ \A w \in Worker :
       /\ phase[w] \in {round, round + 1}
       /\ phase[w] = round + 1 => pc[w] = "out" /\ step[w] = 0
       /\ mpc = "join" /\ w < i => phase[w] = round + 1

SpeRuns ==
  \A w \in Worker : spe[w] = "running" =>
    /\ context[w] = "loaded"
    /\ phase[w] = round /\ step[w] = 1 /\ pc[w] = "out"

(* The context of a thread is there until the thread has ended.            *)
Loaded ==
  /\ created \subseteq Worker
  /\ \A w \in created : context[w] = "loaded" \/ phase[w] = round + 1

CellInv == CellType /\ CellPlaces /\ SpeRuns /\ Loaded

LEMMA WorkerNumbers == N \in Nat /\ Worker = 0 .. N - 1
BY GroupSize, ThreadsAssumption DEF N

LEMMA InitCell == CInit /\ job.prog # "none" => CellInv
<1> SUFFICES ASSUME CInit, job.prog # "none" PROVE CellInv
  OBVIOUS
<1>1. \A w \in Worker : phase[w] = 0 /\ pc[w] = "out" /\ step[w] = 0 /\ spe[w] = "idle"
  BY DEF CInit, TInit, Init
<1>2. /\ round = 0 /\ mpc = "fork" /\ i = 0 /\ routine.stores = "main, each phase"
      /\ created = {}
      /\ context \in [Worker -> {"none", "loaded", "destroyed"}]
      /\ spe \in [Worker -> {"idle", "running", "stopped"}]
  BY DEF CInit
<1>3. CellType
  <2>1. N \in Nat
    BY WorkerNumbers
  <2>2. round = 0 /\ i = 0 /\ mpc = "fork"
    BY DEF CInit
  <2>3. i \in 0 .. N /\ mpc # "mail" /\ round \in Nat
    BY <2>1, <2>2
  <2>4. QED
    BY <1>2, <2>3 DEF CellType
<1>4. CellPlaces
  BY <1>1, <1>2 DEF CellPlaces
<1>5. SpeRuns
  BY <1>1 DEF SpeRuns
<1>6. Loaded
  BY <1>2 DEF Loaded
<1>7. QED
  BY <1>3, <1>4, <1>5, <1>6 DEF CellInv

(* What main does but for taking the time.                                 *)
LEMMA MainKeepsCell ==
  ASSUME CellInv, Fork \/ Mail \/ Forked \/ JoinAndDestroy
  PROVE  CellInv' /\ UNCHANGED <<tvars, job>>
<1>1. UNCHANGED <<tvars, job, round>> /\ round \in Nat /\ i \in Nat /\ i <= N /\ N \in Nat
  BY WorkerNumbers DEF Fork, Mail, Forked, JoinAndDestroy, CellInv, CellType
<1>2. UNCHANGED <<routine, phase, step, pc>>
  BY <1>1 DEF tvars, vars
<1>3. ASSUME \A w \in Worker : mpc' = "join" /\ w < i' => phase[w] = round + 1 PROVE CellPlaces'
  BY <1>1, <1>2, <1>3 DEF CellInv, CellPlaces
<1>4. CASE Fork
  <2>1. /\ mpc' \in {"fork", "mail"} /\ i \in Worker /\ i < N
        /\ (i' = i + 1 /\ mpc' = "fork") \/ i' = i
        /\ context' = [context EXCEPT ![i] = "loaded"] /\ spe' = [spe EXCEPT ![i] = "idle"]
        /\ created' = created \cup {i}
    BY <1>1, <1>4, WorkerNumbers DEF Fork
  <2>2. CellType'
    BY <1>1, <2>1 DEF CellInv, CellType
  <2>3. CellPlaces'
    BY <1>3, <2>1
  <2>4. SpeRuns'
    BY <1>1, <1>2, <2>1 DEF CellInv, CellType, SpeRuns
  <2>5. Loaded'
    BY <1>1, <1>2, <2>1 DEF CellInv, CellType, Loaded
  <2>6. QED
    BY <1>1, <2>2, <2>3, <2>4, <2>5 DEF CellInv
<1>5. CASE Mail
  <2>1. mpc = "mail" /\ mpc' = "fork" /\ i' = i + 1 /\ UNCHANGED <<context, spe, created>>
    BY <1>5 DEF Mail
  <2>2. CellType'
    BY <1>1, <2>1 DEF CellInv, CellType
  <2>3. CellPlaces'
    BY <1>3, <2>1
  <2>4. SpeRuns'
    BY <1>1, <1>2, <2>1 DEF CellInv, SpeRuns
  <2>5. Loaded'
    BY <1>1, <1>2, <2>1 DEF CellInv, Loaded
  <2>6. QED
    BY <1>1, <2>2, <2>3, <2>4, <2>5 DEF CellInv
<1>6. CASE Forked
  <2>1. mpc' = "join" /\ i' = 0 /\ UNCHANGED <<context, spe, created>>
    BY <1>6 DEF Forked, cell
  <2>2. CellType'
    BY <1>1, <2>1 DEF CellInv, CellType
  <2>3. \A w \in Worker : ~(w < 0)
    BY WorkerNumbers
  <2>4. CellPlaces'
    BY <1>3, <2>1, <2>3
  <2>5. SpeRuns'
    BY <1>1, <1>2, <2>1 DEF CellInv, SpeRuns
  <2>6. Loaded'
    BY <1>1, <1>2, <2>1 DEF CellInv, Loaded
  <2>7. QED
    BY <1>1, <2>2, <2>4, <2>5, <2>6 DEF CellInv
<1>7. CASE JoinAndDestroy
  <2>1. /\ mpc = "join" /\ mpc' = "join" /\ spe' = spe /\ i \in Worker /\ i < N /\ i' = i + 1
        /\ context' = [context EXCEPT ![i] = "destroyed"] /\ phase[i] > round
        /\ created' = created
    BY <1>1, <1>7, WorkerNumbers DEF JoinAndDestroy, Exited
  <2>2. phase[i] \in {round, round + 1}
    BY <2>1 DEF CellInv, CellPlaces
  <2>3. phase[i] = round + 1 /\ phase[i] # round
    BY <1>1, <2>1, <2>2
  <2>4. CellType'
    BY <1>1, <2>1 DEF CellInv, CellType
  <2>5. \A w \in Worker : w < i + 1 => w < i \/ w = i
    BY <2>1, WorkerNumbers
  <2>6. \A w \in Worker : w < i => phase[w] = round + 1
    BY <2>1 DEF CellInv, CellPlaces
  <2>7. CellPlaces'
    BY <1>3, <2>1, <2>3, <2>5, <2>6
  <2>8. \A w \in Worker : spe[w] = "running" => w # i
    BY <2>3 DEF CellInv, SpeRuns
  <2>9. SpeRuns'
    BY <1>1, <1>2, <2>1, <2>8 DEF CellInv, CellType, SpeRuns
  <2>10. Loaded'
    BY <1>1, <1>2, <2>1, <2>3 DEF CellInv, CellType, Loaded
  <2>11. QED
    BY <1>1, <2>4, <2>7, <2>9, <2>10 DEF CellInv
<1>8. QED
  BY <1>4, <1>5, <1>6, <1>7

LEMMA TakeTimeKeeps ==
  ASSUME CellInv, PInv, Results, TakeTime
  PROVE  (CellInv /\ PInv /\ Results)'
<1>1. /\ mpc = "join" /\ i = N /\ gtime' = [gtime EXCEPT ![round] = <<gtime1, gtime2>>]
      /\ round' = round + 1 /\ i' = 0 /\ mpc' \in {"done", "fork"} /\ created' = {}
      /\ UNCHANGED <<vars, routine, phase, step, gtime1, gtime2, loaded, stored, job, cell>>
  BY DEF TakeTime
<1>2. UNCHANGED <<pc, spe, context>> /\ round \in Nat /\ N \in Nat
  BY <1>1, WorkerNumbers DEF vars, cell, CellInv, CellType
<1>3. \A w \in Worker : phase[w] = round + 1 /\ pc[w] = "out" /\ step[w] = 0
  <2>1. \A w \in Worker : w < i
    BY <1>1, WorkerNumbers
  <2>2. \A w \in Worker : phase[w] = round + 1
    BY <1>1, <2>1 DEF CellInv, CellPlaces
  <2>3. QED
    BY <2>2 DEF CellInv, CellPlaces
<1>4. PICK w \in Worker : phase[w] = round + 1 /\ pc[w] = "out" /\ step[w] = 0
  BY <1>3, GroupSize
<1>5. round \in 0 .. routine.phases - 1 /\ routine.stores # "worker"
  <2>1. phase[w] \in 0 .. routine.phases /\ routine.phases \in Nat
    BY RoutineFacts DEF PInv, PlaceType
  <2>2. round \in 0 .. routine.phases - 1
    BY <1>2, <1>4, <2>1
  <2>3. QED
    BY <2>2 DEF CellInv, CellPlaces
<1>6. Results'
  BY <1>1, <1>2, <1>4, <1>5, MainStoresSpan
<1>7. PInv'
  BY <1>1, OthersKeepPlaces
<1>8. \A v \in Worker : spe[v] # "running"
  <2>1. round + 1 # round
    BY <1>2
  <2>2. QED
    BY <1>3, <2>1 DEF CellInv, SpeRuns
<1>9. \A v \in Worker : phase[v] # round + 1 + 1
  <2>1. round + 1 # round + 1 + 1
    BY <1>2
  <2>2. QED
    BY <1>3, <2>1
<1>10. CellType'
  BY <1>1, <1>2 DEF CellInv, CellType
<1>11. CellPlaces'
  BY <1>1, <1>2, <1>3, <1>9 DEF CellInv, CellPlaces
<1>12. SpeRuns'
  BY <1>2, <1>8 DEF SpeRuns
<1>13. Loaded'
  BY <1>1 DEF Loaded
<1>14. QED
  BY <1>6, <1>7, <1>10, <1>11, <1>12, <1>13 DEF CellInv

LEMMA ThreadKeepsCell ==
  ASSUME CellInv, PInv, IInv, NEW w \in Worker, CellThread(w)
  PROVE  CellInv'
<1>1. round \in Nat /\ round + 1 # round /\ UNCHANGED <<mpc, i, round, created>>
  BY DEF CellInv, CellType, CellThread, RunSpe, SpeStops, PassBarrier, main
<1>2. CASE RunSpe(w) \/ SpeStops(w)
  <2>1. /\ UNCHANGED <<tvars, context>>
        /\ \/ /\ phase[w] = round /\ pc[w] = "out" /\ step[w] = 1 /\ context[w] = "loaded"
              /\ spe' = [spe EXCEPT ![w] = "running"]
           \/ spe' = [spe EXCEPT ![w] = "stopped"]
    BY <1>1, <1>2 DEF RunSpe, SpeStops, CellInv, Loaded
  <2>2. UNCHANGED <<routine, phase, step, pc>>
    BY <2>1 DEF tvars, vars
  <2>3. CellType' /\ CellPlaces'
    BY <1>1, <2>1, <2>2 DEF CellInv, CellType, CellPlaces
  <2>4. SpeRuns'
    BY <1>1, <2>1, <2>2 DEF CellInv, CellType, SpeRuns
  <2>5. Loaded'
    BY <1>1, <2>1, <2>2 DEF CellInv, Loaded
  <2>6. QED
    BY <2>3, <2>4, <2>5 DEF CellInv
<1>3. CASE PassBarrier(w)
  <2>1. w \in created /\ phase[w] = round /\ UNCHANGED <<context, spe, routine>>
    BY <1>3 DEF PassBarrier, cell, TLock, InBarrier, TBroadcast, TUnlock
  <2>2. CellType'
    BY <1>1, <2>1 DEF CellInv, CellType
  <2>3. CASE UNCHANGED <<phase, step>> /\ \A v \in Worker : v # w /\ pc[v] = "out" => pc'[v] = "out"
    <3>1. CellPlaces'
      BY <1>1, <2>1, <2>3 DEF CellInv, CellPlaces
    <3>2. pc[w] = "out" /\ step[w] = 1 => spe[w] = "stopped"
      BY <1>3, <2>3 DEF PassBarrier, TLock, InBarrier, ArriveAndWait, ArriveLast, Wake,
         TBroadcast, Broadcast, TUnlock, Unlock
    <3>3. SpeRuns'
      BY <1>1, <2>1, <2>3, <3>2 DEF CellInv, SpeRuns
    <3>4. Loaded'
      BY <1>1, <2>1, <2>3 DEF CellInv, Loaded
    <3>5. QED
      BY <2>2, <3>1, <3>3, <3>4 DEF CellInv
  <2>4. CASE TUnlock(w)
    <3>1. pc[w] = "unlock" /\ pc' = [pc EXCEPT ![w] = "out"]
      BY <2>4 DEF TUnlock, Unlock
    <3>2. \/ step' = [step EXCEPT ![w] = step[w] + 1] /\ phase' = phase
          \/ step' = [step EXCEPT ![w] = 0] /\ phase' = [phase EXCEPT ![w] = phase[w] + 1]
      BY <2>4 DEF TUnlock
    <3>3. \/ phase'[w] = round
          \/ phase'[w] = round + 1 /\ step'[w] = 0 /\ pc'[w] = "out"
      BY <2>1, <3>1, <3>2 DEF PInv, PlaceType, IInv, TypeOK
    <3>4. spe[w] # "running"
      BY <3>1 DEF CellInv, SpeRuns
    <3>5. \A v \in Worker : v # w => phase'[v] = phase[v] /\ step'[v] = step[v] /\ pc'[v] = pc[v]
      BY <3>1, <3>2 DEF PInv, PlaceType, IInv, TypeOK
    <3>6. \A v \in Worker : mpc = "join" /\ v < i => v # w
      BY <1>1, <2>1 DEF CellInv, CellPlaces
    <3>7. CellPlaces'
      BY <1>1, <2>1, <3>3, <3>5, <3>6 DEF CellInv, CellPlaces
    <3>8. SpeRuns'
      BY <1>1, <2>1, <3>4, <3>5 DEF CellInv, SpeRuns
    <3>9. Loaded'
      BY <1>1, <2>1, <3>3, <3>5 DEF CellInv, Loaded
    <3>10. QED
      BY <2>2, <3>7, <3>8, <3>9 DEF CellInv
  <2>5. CASE TLock(w) \/ InBarrier(w) \/ TBroadcast(w)
    <3>1. UNCHANGED <<phase, step>>
      BY <2>5 DEF TLock, InBarrier, TBroadcast
    <3>2. \A v \in Worker : v # w /\ pc[v] = "out" => pc'[v] = "out"
      BY <2>5 DEF TLock, Lock, InBarrier, ArriveAndWait, ArriveLast, Wake, TBroadcast,
         Broadcast, IInv, TypeOK
    <3>3. QED
      BY <2>3, <3>1, <3>2
  <2>6. QED
    BY <1>3, <2>4, <2>5 DEF PassBarrier
<1>4. QED
  BY <1>2, <1>3 DEF CellThread

(* The same of every job: without Cell the SPEs are left alone.            *)
JobInv ==
  /\ PInv /\ Results
  /\ job.prog # "none" => CellInv
  /\ job.prog = "none" => \A w \in Worker : spe[w] = "idle"

LEMMA InitJob == CInit => JobInv
<1> SUFFICES ASSUME CInit PROVE JobInv
  OBVIOUS
<1>1. TInit /\ \A w \in Worker : spe[w] = "idle"
  BY DEF CInit
<1>2. QED
  BY <1>1, InitPlaces, InitCell DEF JobInv

LEMMA CellKeepsJob ==
  ASSUME IInv, JobInv, job.prog # "none", CellStep
  PROVE  JobInv'
<1>1. CellInv /\ PInv /\ Results
  BY DEF JobInv
<1>2. CASE Fork \/ Mail \/ Forked \/ JoinAndDestroy
  <2>1. CellInv' /\ UNCHANGED <<tvars, job>>
    BY <1>1, <1>2, MainKeepsCell
  <2>2. UNCHANGED <<vars, pc, routine, phase, step, gtime1, gtime2, gtime, loaded, stored>>
    BY <2>1 DEF tvars, timing, vars
  <2>3. QED
    BY <1>1, <2>1, <2>2, OthersKeepPlaces, OthersKeepResults DEF JobInv
<1>3. CASE TakeTime
  <2>1. job' = job
    BY <1>3 DEF TakeTime
  <2>2. QED
    BY <1>1, <1>3, <2>1, TakeTimeKeeps DEF JobInv
<1>4. ASSUME NEW w \in Worker, CellThread(w) PROVE JobInv'
  <2>1. CellInv' /\ job' = job
    BY <1>1, <1>4, ThreadKeepsCell DEF CellThread, RunSpe, SpeStops, PassBarrier
  <2>2. CASE RunSpe(w) \/ SpeStops(w)
    <3>1. UNCHANGED <<vars, pc, routine, phase, step, gtime1, gtime2, gtime, loaded, stored>>
      BY <2>2 DEF RunSpe, SpeStops, tvars, timing, vars
    <3>2. QED
      BY <1>1, <2>1, <3>1, OthersKeepPlaces, OthersKeepResults DEF JobInv
  <2>3. CASE TLock(w) \/ InBarrier(w)
    BY <1>1, <2>1, <2>3, MovesKeepPlaces, BarrierKeepsResults DEF JobInv
  <2>4. CASE TBroadcast(w)
    BY <1>1, <2>1, <2>4, BroadcastKeepsPlaces, BarrierKeepsResults DEF JobInv
  <2>5. CASE TUnlock(w)
    BY <1>1, <2>1, <2>5, UnlockKeepsPlaces, UnlockKeepsResults DEF JobInv
  <2>6. QED
    BY <1>4, <2>2, <2>3, <2>4, <2>5 DEF CellThread, PassBarrier
<1>5. QED
  BY <1>2, <1>3, <1>4 DEF CellStep, Main

LEMMA JobStep == IInv /\ JobInv /\ [CNext]_cvars => JobInv'
<1> SUFFICES ASSUME IInv, JobInv, [CNext]_cvars PROVE JobInv'
  OBVIOUS
<1>1. CASE UNCHANGED cvars
  <2>1. /\ UNCHANGED <<vars, pc, routine, phase, step, gtime1, gtime2, gtime, loaded, stored>>
        /\ UNCHANGED <<job, mpc, i, round, created, context, spe>>
    BY <1>1 DEF cvars, tvars, timing, vars, main, cell
  <2>2. (PInv /\ Results)'
    BY <2>1, OthersKeepPlaces, OthersKeepResults DEF JobInv
  <2>3. CellInv => CellInv'
    BY <2>1 DEF CellInv, CellType, CellPlaces, SpeRuns, Loaded
  <2>4. QED
    BY <2>1, <2>2, <2>3 DEF JobInv
<1>2. CASE job.prog = "none" /\ TNext /\ UNCHANGED <<job, main, cell>>
  <2>1. (PInv /\ Results)'
    BY <1>2, TimingStep DEF JobInv
  <2>2. QED
    BY <1>2, <2>1 DEF JobInv, cell
<1>3. CASE job.prog # "none" /\ CellStep
  BY <1>3, CellKeepsJob
<1>4. QED
  BY <1>1, <1>2, <1>3 DEF CNext, Ended

LEMMA ThreadUsesBarrier ==
  ASSUME NEW w \in Worker, CellThread(w)
  PROVE  [Next]_vars
BY DEF CellThread, RunSpe, SpeStops, PassBarrier, TLock, InBarrier, TBroadcast, TUnlock,
   Next, Barrier, tvars

LEMMA JobInvariance == CSpec => [](IInv /\ JobInv)
<1>1. CInit => Init
  BY DEF CInit, TInit
<1>2. [CNext]_cvars => [Next]_vars
  <2> SUFFICES ASSUME [CNext]_cvars PROVE [Next]_vars
    OBVIOUS
  <2>1. CASE TNext
    BY <2>1, WorkUsesBarrier DEF TNext, TJoined, MainStores, tvars
  <2>2. CASE Main
    BY <2>2 DEF Main, Fork, Mail, Forked, JoinAndDestroy, TakeTime, tvars
  <2>3. CASE \E w \in Worker : CellThread(w)
    BY <2>3, ThreadUsesBarrier
  <2>4. CASE UNCHANGED cvars
    BY <2>4 DEF cvars, tvars
  <2>5. QED
    BY <2>1, <2>2, <2>3, <2>4 DEF CNext, CellStep, Ended
<1>3. CSpec => []IInv
  BY <1>1, <1>2, Invariance, PTL DEF CSpec, Spec
<1>4. QED
  BY <1>3, InitJob, JobStep, PTL DEF CSpec

(* No SPE program runs in a context that main has destroyed: main joins    *)
(* the thread that runs it first, in every phase anew.                     *)
THEOREM ContextsOutlivePrograms == CSpec => []ContextInUse
<1>1. JobInv => ContextInUse
  BY DEF JobInv, CellInv, SpeRuns, ContextInUse
<1>2. QED
  BY <1>1, JobInvariance, PTL

(* What is proved of PhaseTiming holds in the Cell ports too, where it is  *)
(* main that takes the result after every phase, and whose threads are new *)
(* ones in every phase.                                                    *)
THEOREM CellResultsAreSpans == CSpec => [](ResultIsPhaseSpan /\ WorksTogether)
<1>1. JobInv => ResultIsPhaseSpan /\ WorksTogether
  BY OutTogether DEF JobInv, PInv, Results
<1>2. QED
  BY <1>1, JobInvariance, PTL

-----------------------------------------------------------------------------
(* The results of the cpu benchmark.                                       *)
Names == {"add", "subtract", "multiply", "log", "sin", "cos", "tan", "exp",
          "shift left", "shift right", "compare"}

(* What the SPEs have done.  The workers main has created in this phase    *)
(* are the first ones; of the others each is where the last phase has left *)
(* it, with nothing to do.                                                 *)
CreatedInv ==
  /\ created = CASE mpc = "fork" -> 0 .. i - 1
                 [] mpc = "mail" -> 0 .. i
                 [] mpc = "join" -> Worker
                 [] mpc = "done" -> {}
  /\ \A w \in Worker \ created : phase[w] = round /\ step[w] = 0 /\ pc[w] = "out"

(* A thread is through with its SPE before it locks the second barrier.    *)
SpeOrder ==
  /\ routine.reps = 0
  /\ \A w \in created :
       /\ phase[w] = round + 1 => spe[w] = "stopped"
       /\ phase[w] = round /\ step[w] = 1 /\ pc[w] # "out" => spe[w] = "stopped"
  /\ \A w \in Worker \ created : spe[w] # "running"

Rounds(w) == IF w \in created /\ spe[w] = "stopped" THEN round + 1 ELSE round

(* The result of a phase is what its program says, for which main has set  *)
(* the operation and which has not been set anew since.                    *)
CpuRan ==
  job.prog = "cpu" =>
    /\ job.func \in {"i", "f", "l"}
    /\ IF mpc = "done" THEN round = thr_counter(job.func) ELSE round < thr_counter(job.func)
    /\ \A w \in created : operation[w] = round
    /\ \A w \in Worker :
         /\ Len(ran[w]) = Rounds(w)
         /\ \A k \in 1 .. Rounds(w) : ran[w][k] = Label[job.func][k]

(* What all phases so far have copied, the size of this phase's part being *)
(* in the mailbox already or still to come.                                *)
MemRan ==
  job.prog = "mem" =>
    /\ chunk_size \in 0 .. job.size
    /\ mpc = "done" => chunk_size = 0
    /\ \A w \in created : mbox[w] = <<>> \/ mbox[w] = <<"rep", data_size, "func">>
    /\ \A w \in Worker :
         /\ \A k \in 1 .. Len(ran[w]) : ran[w][k] \in 0 .. MAX
         /\ AddsUp(ran[w], IF w \in created /\ spe[w] = "stopped"
                             THEN job.size - chunk_size + data_size
                             ELSE job.size - chunk_size)

RanType ==
  /\ operation \in [Worker -> Nat]
  /\ job \in Jobs /\ job.prog # "none"
  /\ ran \in [Worker -> Seq(IF job.prog = "mem" THEN Nat ELSE Names)]
  /\ mbox = [w \in Worker |-> mbox[w]]

RanInv == RanType /\ CreatedInv /\ SpeOrder /\ CpuRan /\ MemRan

(* What the programs do and what main calls it are the same.               *)
LEMMA LabelsOfPrograms ==
  ASSUME NEW f \in {"i", "f", "l"}
  PROVE  /\ Kernel[f] = Label[f]
         /\ Label[f] \in Seq(Names)
         /\ Len(Label[f]) = thr_counter(f) /\ thr_counter(f) \in Nat \ {0}
<1>1. CASE f = "i"
  BY <1>1 DEF Kernel, Label, Names, thr_counter
<1>2. CASE f = "f"
  BY <1>2 DEF Kernel, Label, Names, thr_counter
<1>3. CASE f = "l"
  BY <1>3 DEF Kernel, Label, Names, thr_counter
<1>4. QED
  BY <1>1, <1>2, <1>3

LEMMA NothingAddsUp == \A total \in Nat : total = 0 => AddsUp(<<>>, total)
<1> DEFINE end == [k \in 0 .. 0 |-> 0]
<1>1. Len(<<>>) = 0 /\ end \in [0 .. 0 -> 0 .. 0] /\ end[0] = 0
  OBVIOUS
<1> HIDE DEF end
<1>2. AddsUp(<<>>, 0)
  BY <1>1 DEF AddsUp
<1>3. QED
  BY <1>2

LEMMA OneMorePart ==
  ASSUME NEW s \in Seq(Nat), NEW total \in Nat, NEW part \in Nat, AddsUp(s, total)
  PROVE  AddsUp(Append(s, part), total + part)
<1>1. PICK end \in [0 .. Len(s) -> 0 .. total] :
        /\ end[0] = 0 /\ end[Len(s)] = total
        /\ \A k \in 1 .. Len(s) : end[k] = end[k - 1] + s[k]
  BY DEF AddsUp
<1>2. /\ Len(s) \in Nat /\ Len(Append(s, part)) = Len(s) + 1
      /\ Append(s, part)[Len(s) + 1] = part
      /\ \A k \in 1 .. Len(s) : Append(s, part)[k] = s[k]
  OBVIOUS
<1> DEFINE new == [k \in 0 .. Len(s) + 1 |-> IF k = Len(s) + 1 THEN total + part ELSE end[k]]
<1>3. new \in [0 .. Len(s) + 1 -> 0 .. total + part]
  <2>1. ASSUME NEW k \in 0 .. Len(s) + 1 PROVE new[k] \in 0 .. total + part
    <3>1. CASE k = Len(s) + 1
      BY <3>1
    <3>2. CASE k # Len(s) + 1
      <4>1. k \in 0 .. Len(s)
        BY <1>2, <3>2
      <4>2. end[k] \in 0 .. total
        BY <1>1, <4>1
      <4>3. QED
        BY <3>2, <4>2
    <3>3. QED
      BY <3>1, <3>2
  <2>2. QED
    BY <2>1
<1>4. new[0] = 0 /\ new[Len(s) + 1] = total + part
  BY <1>1, <1>2
<1>5. ASSUME NEW k \in 1 .. Len(s) + 1 PROVE new[k] = new[k - 1] + Append(s, part)[k]
  <2>1. k - 1 \in 0 .. Len(s) /\ k - 1 # Len(s) + 1 /\ k \in 0 .. Len(s) + 1
        /\ k - 1 \in 0 .. Len(s) + 1
    BY <1>2
  <2>2. new[k - 1] = end[k - 1]
    BY <2>1
  <2>3. CASE k = Len(s) + 1
    <3>1. new[k] = total + part /\ k - 1 = Len(s) /\ Append(s, part)[k] = part
      BY <1>2, <1>4, <2>3
    <3>2. QED
      BY <1>1, <2>2, <3>1
  <2>4. CASE k # Len(s) + 1
    <3>1. k \in 1 .. Len(s)
      BY <1>2, <2>4
    <3>2. new[k] = end[k]
      BY <2>1, <2>4
    <3>3. QED
      BY <1>1, <1>2, <2>2, <3>1, <3>2
  <2>5. QED
    BY <2>3, <2>4
<1>6. new \in [0 .. Len(Append(s, part)) -> 0 .. total + part]
  BY <1>2, <1>3
<1> HIDE DEF new
<1>7. QED
  BY <1>2, <1>4, <1>5, <1>6 DEF AddsUp

LEMMA PartSize ==
  ASSUME MemRan, RanType, job.prog = "mem"
  PROVE  /\ job.size \in Nat /\ chunk_size \in 0 .. job.size
         /\ data_size \in 0 .. MAX /\ data_size <= chunk_size /\ MAX \in Nat
<1>1. job.size \in Nat
  <2>1. job \in JobType
    BY JobsAssumption DEF RanType
  <2>2. QED
    BY <2>1 DEF JobType
<1>2. QED
  BY <1>1, JobsAssumption DEF MemRan, data_size

LEMMA InitRan == CInit /\ job.prog # "none" => RanInv
<1> SUFFICES ASSUME CInit, job.prog # "none" PROVE RanInv
  OBVIOUS
<1>1. /\ mpc = "fork" /\ i = 0 /\ round = 0 /\ created = {} /\ job \in Jobs /\ N \in Nat
      /\ \A w \in Worker : phase[w] = 0 /\ step[w] = 0 /\ pc[w] = "out" /\ spe[w] = "idle"
      /\ \A w \in Worker : ran[w] = <<>>
  BY WorkerNumbers DEF CInit, TInit, Init
<1>2. RanType
  <2>1. \A S : <<>> \in Seq(S)
    OBVIOUS
  <2>2. ran \in [Worker -> Seq(IF job.prog = "mem" THEN Nat ELSE Names)]
    BY <2>1 DEF CInit
  <2>3. operation \in [Worker -> Nat] /\ mbox = [w \in Worker |-> mbox[w]]
    BY DEF CInit
  <2>4. QED
    BY <1>1, <2>2, <2>3 DEF RanType
<1>3. CreatedInv
  BY <1>1 DEF CreatedInv
<1>4. SpeOrder
  BY <1>1 DEF SpeOrder, CInit
<1>5. job \in JobType
  BY <1>1, JobsAssumption
<1>6. CpuRan
  <2>1. SUFFICES ASSUME job.prog = "cpu" PROVE CpuRan
    BY DEF CpuRan
  <2>2. job.func \in {"i", "f", "l"}
    BY <1>5, <2>1 DEF JobType
  <2>3. thr_counter(job.func) \in Nat \ {0}
    BY <2>2, LabelsOfPrograms
  <2>4. \A w \in Worker : Rounds(w) = 0 /\ Len(ran[w]) = 0
    BY <1>1 DEF Rounds
  <2>5. QED
    BY <1>1, <2>2, <2>3, <2>4 DEF CpuRan
<1>7. MemRan
  <2>1. SUFFICES ASSUME job.prog = "mem" PROVE MemRan
    BY DEF MemRan
  <2>2. job.size \in Nat
    BY <1>5, <2>1 DEF JobType
  <2>3. chunk_size = job.size
    BY <2>1 DEF CInit
  <2>4. AddsUp(<<>>, job.size - chunk_size)
    BY <2>2, <2>3, NothingAddsUp
  <2>5. QED
    BY <1>1, <2>2, <2>3, <2>4 DEF MemRan
<1>8. QED
  BY <1>2, <1>3, <1>4, <1>6, <1>7 DEF RanInv

LEMMA MainKeepsRan ==
  ASSUME CellInv, RanInv, Fork \/ Mail \/ Forked \/ JoinAndDestroy
  PROVE  RanInv'
<1>1. /\ UNCHANGED <<tvars, job, round, chunk_size, ran>>
      /\ round \in Nat /\ i \in Nat /\ i <= N /\ N \in Nat /\ Worker = 0 .. N - 1
  BY WorkerNumbers DEF Fork, Mail, Forked, JoinAndDestroy, CellInv, CellType, cell
<1>2. UNCHANGED <<routine, phase, step, pc, data_size>>
  BY <1>1 DEF tvars, vars, data_size
<1>3. RanType /\ CreatedInv /\ SpeOrder /\ CpuRan /\ MemRan
  BY DEF RanInv
<1>4. ASSUME CreatedInv', SpeOrder', mpc # "done", mpc' # "done", UNCHANGED <<operation, mbox>>,
             \A w \in created' : w \in created, \A w \in created : w \in created',
             UNCHANGED spe
      PROVE  RanInv'
  <2>1. created' = created
    BY <1>4
  <2>2. RanType'
    BY <1>1, <1>3, <1>4 DEF RanType
  <2>3. \A w \in Worker : Rounds(w)' = Rounds(w)
    BY <1>1, <1>4, <2>1 DEF Rounds
  <2>4. CpuRan'
    BY <1>1, <1>3, <1>4, <2>1, <2>3 DEF CpuRan
  <2>5. MemRan'
    BY <1>1, <1>2, <1>3, <1>4, <2>1 DEF MemRan
  <2>6. QED
    BY <1>4, <2>2, <2>4, <2>5 DEF RanInv
<1>5. CASE Fork
  <2>1. /\ mpc = "fork" /\ i \in Worker /\ i < N /\ created = 0 .. i - 1 /\ i \notin created
        /\ operation' = [operation EXCEPT ![i] = round]
        /\ mbox' = [mbox EXCEPT ![i] = <<>>] /\ spe' = [spe EXCEPT ![i] = "idle"]
        /\ created' = created \cup {i} /\ created' = 0 .. i
        /\ \/ mpc' = "fork" /\ i' = i + 1
           \/ mpc' = "mail" /\ i' = i
    BY <1>1, <1>3, <1>5 DEF Fork, CreatedInv
  <2>2. phase[i] = round /\ step[i] = 0 /\ pc[i] = "out" /\ phase[i] # round + 1
    BY <1>1, <1>3, <2>1 DEF CreatedInv
  <2>3. CreatedInv'
    <3>1. created' = 0 .. i' - 1 \/ mpc' = "mail"
      BY <1>1, <2>1
    <3>2. created' = CASE mpc' = "fork" -> 0 .. i' - 1
                       [] mpc' = "mail" -> 0 .. i'
                       [] mpc' = "join" -> Worker
                       [] mpc' = "done" -> {}
      BY <1>1, <2>1
    <3>3. \A w \in Worker \ created' : phase'[w] = round' /\ step'[w] = 0 /\ pc'[w] = "out"
      BY <1>1, <1>2, <1>3, <2>1 DEF CreatedInv
    <3>4. QED
      BY <3>2, <3>3, <1>1 DEF CreatedInv
  <2>4. spe'[i] = "idle" /\ \A w \in Worker : w # i => spe'[w] = spe[w]
    BY <2>1 DEF CellInv, CellType
  <2>5. SpeOrder'
    BY <1>1, <1>2, <1>3, <2>1, <2>2, <2>4 DEF SpeOrder
  <2>6. RanType'
    BY <1>1, <1>3, <2>1 DEF RanType
  <2>7. \A w \in Worker : w \in created' /\ spe'[w] = "stopped" <=> w \in created /\ spe[w] = "stopped"
    BY <2>1, <2>4
  <2>8. CpuRan'
    <3>1. \A w \in Worker : Rounds(w)' = Rounds(w)
      BY <1>1, <2>7 DEF Rounds
    <3>2. \A w \in created' :
           operation'[w] = round \/ (w \in created /\ operation'[w] = operation[w])
      BY <2>1, <1>3 DEF RanType, CellInv, Loaded
    <3>3. QED
      BY <1>1, <1>3, <2>1, <3>1, <3>2 DEF CpuRan
  <2>9. MemRan'
    <3>1. \A w \in created' :
           mbox'[w] = <<>> \/ (w \in created /\ mbox'[w] = mbox[w])
      <4>1. \A w \in created : w # i /\ w \in Worker
        BY <2>1 DEF CellInv, Loaded
      <4>2. mbox'[i] = <<>>
        BY <2>1, <1>3 DEF RanType
      <4>3. \A w \in created : mbox'[w] = mbox[w]
        BY <2>1, <1>3, <4>1 DEF RanType
      <4>4. QED
        BY <2>1, <4>2, <4>3
    <3>2. QED
      BY <1>1, <1>2, <1>3, <2>1, <2>7, <3>1 DEF MemRan
  <2>10. QED
    BY <2>3, <2>5, <2>6, <2>8, <2>9 DEF RanInv
<1>6. CASE Mail
  <2>1. /\ mpc = "mail" /\ mpc' = "fork" /\ i' = i + 1
        /\ mbox' = [mbox EXCEPT ![i] = <<"rep", data_size, "func">>]
        /\ UNCHANGED <<operation, spe, created>> /\ created = 0 .. i
    BY <1>3, <1>6 DEF Mail, CreatedInv
  <2>2. created' = 0 .. i' - 1
    BY <1>1, <2>1
  <2>3. CreatedInv'
    BY <1>1, <1>2, <1>3, <2>1, <2>2 DEF CreatedInv
  <2>4. SpeOrder'
    BY <1>1, <1>2, <1>3, <2>1 DEF SpeOrder
  <2>5. RanType'
    BY <1>1, <1>3, <2>1 DEF RanType
  <2>6. CpuRan'
    <3>1. \A w \in Worker : Rounds(w)' = Rounds(w)
      BY <1>1, <2>1 DEF Rounds
    <3>2. QED
      BY <1>1, <1>3, <2>1, <3>1 DEF CpuRan
  <2>7. MemRan'
    <3>1. \A w \in created : mbox'[w] = <<"rep", data_size, "func">> \/ mbox'[w] = mbox[w]
      <4>1. created \subseteq Worker
        BY DEF CellInv, Loaded
      <4>2. QED
        BY <1>3, <2>1, <4>1 DEF RanType
    <3>2. QED
      BY <1>1, <1>2, <1>3, <2>1, <3>1 DEF MemRan
  <2>8. QED
    BY <2>3, <2>4, <2>5, <2>6, <2>7 DEF RanInv
<1>7. CASE Forked
  <2>1. mpc = "fork" /\ mpc' = "join" /\ i = N /\ UNCHANGED <<created, operation, mbox, spe>>
    BY <1>7 DEF Forked, cell
  <2>2. created = Worker
    BY <1>1, <1>3, <2>1 DEF CreatedInv
  <2>3. CreatedInv'
    BY <1>1, <1>2, <2>1, <2>2 DEF CreatedInv
  <2>4. SpeOrder'
    BY <1>1, <1>2, <1>3, <2>1 DEF SpeOrder
  <2>5. QED
    BY <1>4, <2>1, <2>3, <2>4
<1>8. CASE JoinAndDestroy
  <2>1. mpc = "join" /\ mpc' = "join" /\ UNCHANGED <<created, operation, mbox, spe>>
    BY <1>8 DEF JoinAndDestroy
  <2>2. CreatedInv'
    BY <1>1, <1>2, <1>3, <2>1 DEF CreatedInv
  <2>3. SpeOrder'
    BY <1>1, <1>2, <1>3, <2>1 DEF SpeOrder
  <2>4. QED
    BY <1>4, <2>1, <2>2, <2>3
<1>9. QED
  BY <1>5, <1>6, <1>7, <1>8

LEMMA TakeTimeKeepsRan ==
  ASSUME CellInv, RanInv, TakeTime
  PROVE  RanInv'
<1>1. /\ mpc = "join" /\ i = N /\ round' = round + 1 /\ i' = 0 /\ created' = {}
      /\ mpc' = (IF LastPhase THEN "done" ELSE "fork")
      /\ chunk_size' = chunk_size - data_size
      /\ UNCHANGED <<routine, phase, step, pc, job, operation, mbox, spe, ran>>
      /\ round \in Nat /\ N \in Nat
  BY WorkerNumbers DEF TakeTime, vars, cell, CellInv, CellType
<1>2. RanType /\ CreatedInv /\ SpeOrder /\ CpuRan /\ MemRan
  BY DEF RanInv
<1>3. created = Worker
  BY <1>1, <1>2 DEF CreatedInv
<1>4. \A w \in Worker : phase[w] = round + 1 /\ step[w] = 0 /\ pc[w] = "out"
  <2>1. \A w \in Worker : w < i
    BY <1>1, WorkerNumbers
  <2>2. QED
    BY <1>1, <2>1 DEF CellInv, CellPlaces
<1>5. \A w \in Worker : spe[w] = "stopped"
  BY <1>2, <1>3, <1>4 DEF SpeOrder
<1>6. RanType'
  BY <1>1, <1>2 DEF RanType
<1>7. CreatedInv'
  <2>1. mpc' = "fork" => created' = 0 .. i' - 1
    BY <1>1
  <2>2. created' = CASE mpc' = "fork" -> 0 .. i' - 1
                     [] mpc' = "mail" -> 0 .. i'
                     [] mpc' = "join" -> Worker'
                     [] mpc' = "done" -> {}
    BY <1>1, <2>1
  <2>3. QED
    BY <1>1, <1>4, <2>2 DEF CreatedInv
<1>8. SpeOrder'
  BY <1>1, <1>2, <1>5 DEF SpeOrder
<1>9. CpuRan'
  <2>1. SUFFICES ASSUME job.prog = "cpu" PROVE CpuRan'
    BY <1>1 DEF CpuRan
  <2>2. /\ job.func \in {"i", "f", "l"} /\ round < thr_counter(job.func)
        /\ thr_counter(job.func) \in Nat
    BY <1>1, <1>2, <2>1, LabelsOfPrograms DEF CpuRan
  <2>3. LastPhase <=> round + 1 = thr_counter(job.func)
    BY <2>1 DEF LastPhase
  <2>4. IF mpc' = "done" THEN round + 1 = thr_counter(job.func)
                         ELSE round + 1 < thr_counter(job.func)
    <3>1. CASE LastPhase
      BY <1>1, <2>3, <3>1
    <3>2. CASE ~LastPhase
      BY <1>1, <2>2, <2>3, <3>2
    <3>3. QED
      BY <3>1, <3>2
  <2>5. \A w \in Worker : Rounds(w) = round + 1 /\ Rounds(w)' = round + 1
    BY <1>1, <1>3, <1>5 DEF Rounds
  <2>6. \A w \in Worker :
          /\ Len(ran[w]) = Rounds(w)
          /\ \A k \in 1 .. Rounds(w) : ran[w][k] = Label[job.func][k]
    BY <1>2, <2>1 DEF CpuRan
  <2>7. thr_counter(job.func)' = thr_counter(job.func) /\ Label' = Label
    BY <1>1 DEF thr_counter, Label
  <2>8. QED
    BY <1>1, <2>2, <2>4, <2>5, <2>6, <2>7 DEF CpuRan
<1>10. MemRan'
  <2>1. SUFFICES ASSUME job.prog = "mem" PROVE MemRan'
    BY <1>1 DEF MemRan
  <2>2. /\ job.size \in Nat /\ chunk_size \in 0 .. job.size
        /\ data_size \in 0 .. MAX /\ data_size <= chunk_size /\ MAX \in Nat
    BY <1>2, <2>1, PartSize
  <2>3. chunk_size' \in 0 .. job.size /\ job.size - chunk_size + data_size = job.size - chunk_size'
    BY <1>1, <2>2
  <2>4. mpc' = "done" => chunk_size' = 0
    <3>1. LastPhase => chunk_size = data_size
      BY <2>1 DEF LastPhase
    <3>2. QED
      BY <1>1, <2>2, <3>1
  <2>5. \A w \in Worker : AddsUp(ran[w], job.size - chunk_size')
    BY <1>2, <1>3, <1>5, <2>1, <2>3 DEF MemRan
  <2>6. QED
    BY <1>1, <1>2, <2>1, <2>3, <2>4, <2>5 DEF MemRan
<1>11. QED
  BY <1>6, <1>7, <1>8, <1>9, <1>10 DEF RanInv

LEMMA SpeKeepsRan ==
  ASSUME CellInv, RanInv, NEW v \in Worker, SpeStops(v)
  PROVE  RanInv'
<1>1. /\ spe[v] = "running" /\ spe' = [spe EXCEPT ![v] = "stopped"]
      /\ UNCHANGED <<tvars, job, mpc, i, round, chunk_size, created, operation, mbox>>
      /\ round \in Nat
  BY DEF SpeStops, main, CellInv, CellType
<1>2. UNCHANGED <<routine, phase, step, pc, data_size>>
  BY <1>1 DEF tvars, vars, data_size
<1>3. RanType /\ CreatedInv /\ SpeOrder /\ CpuRan /\ MemRan
  BY DEF RanInv
<1>4. v \in created /\ phase[v] = round /\ phase[v] # round + 1 /\ created \subseteq Worker
      /\ mpc # "done"
  <2>1. v \in created
    BY <1>1, <1>3 DEF SpeOrder
  <2>2. mpc # "done"
    BY <1>3, <2>1 DEF CreatedInv
  <2>3. QED
    BY <1>1, <2>1, <2>2 DEF CellInv, Loaded, SpeRuns
<1>5. spe'[v] = "stopped" /\ \A w \in Worker : w # v => spe'[w] = spe[w]
  BY <1>1 DEF CellInv, CellType
<1>6. CreatedInv'
  BY <1>1, <1>2, <1>3 DEF CreatedInv
<1>7. SpeOrder'
  BY <1>1, <1>2, <1>3, <1>4, <1>5 DEF SpeOrder
<1>8. /\ Rounds(v) = round /\ Rounds(v)' = round + 1
      /\ \A w \in Worker : w # v => Rounds(w)' = Rounds(w)
  BY <1>1, <1>4, <1>5 DEF Rounds
<1>9. CASE job.prog = "cpu"
  <2>1. /\ job.func \in {"i", "f", "l"} /\ round < thr_counter(job.func)
        /\ operation[v] = round /\ Len(ran[v]) = round
        /\ \A k \in 1 .. round : ran[v][k] = Label[job.func][k]
    BY <1>3, <1>4, <1>8, <1>9 DEF CpuRan
  <2>2. ran' = [ran EXCEPT ![v] = Append(ran[v], Kernel[job.func][operation[v] + 1])]
    BY <1>9 DEF SpeStops
  <2>3. PICK did : did = Label[job.func][round + 1]
    OBVIOUS
  <2>4. did \in Names
    <3>1. round + 1 \in 1 .. Len(Label[job.func]) /\ Label[job.func] \in Seq(Names)
      BY <1>1, <2>1, LabelsOfPrograms
    <3>2. QED
      BY <2>3, <3>1, ElementOfSeq
  <2>5. ran' = [ran EXCEPT ![v] = Append(ran[v], did)]
    BY <2>1, <2>2, <2>3, LabelsOfPrograms
  <2>6. ran \in [Worker -> Seq(Names)]
    BY <1>3, <1>9 DEF RanType
  <2>7. ran' \in [Worker -> Seq(Names)]
    BY <2>4, <2>5, <2>6
  <2>8. /\ Len(Append(ran[v], did)) = round + 1 /\ Append(ran[v], did)[round + 1] = did
        /\ \A k \in 1 .. round : Append(ran[v], did)[k] = ran[v][k]
    BY <2>1, <2>4, <2>6
  <2>9. ran'[v] = Append(ran[v], did) /\ \A w \in Worker : w # v => ran'[w] = ran[w]
    BY <2>5, <2>6
  <2>10. \A k \in 1 .. round + 1 : ran'[v][k] = Label[job.func][k]
    <3>1. \A k \in 1 .. round + 1 : k = round + 1 \/ k \in 1 .. round
      BY <1>1
    <3>2. QED
      BY <2>1, <2>3, <2>8, <2>9, <3>1
  <2>11. thr_counter(job.func)' = thr_counter(job.func) /\ Label' = Label
    BY <1>1 DEF thr_counter, Label
  <2>12. \A w \in Worker : /\ Len(ran'[w]) = Rounds(w)'
                           /\ \A k \in 1 .. Rounds(w)' : ran'[w][k] = Label[job.func][k]
    <3> TAKE w \in Worker
    <3>1. CASE w = v
      BY <1>8, <2>8, <2>9, <2>10, <3>1
    <3>2. CASE w # v
      BY <1>3, <1>8, <1>9, <2>9, <3>2 DEF CpuRan
    <3>3. QED
      BY <3>1, <3>2
  <2>13. CpuRan'
    BY <1>1, <1>3, <1>4, <1>9, <2>1, <2>11, <2>12 DEF CpuRan
  <2>14. MemRan'
    BY <1>1, <1>9 DEF MemRan
  <2>15. RanType'
    BY <1>1, <1>3, <1>9, <2>7 DEF RanType
  <2>16. QED
    BY <1>6, <1>7, <2>13, <2>14, <2>15 DEF RanInv
<1>10. CASE job.prog = "mem"
  <2>1. /\ job.size \in Nat /\ chunk_size \in 0 .. job.size
        /\ data_size \in 0 .. MAX /\ data_size <= chunk_size /\ MAX \in Nat
    BY <1>3, <1>10, PartSize
  <2>2. Len(mbox[v]) = 3 /\ ran' = [ran EXCEPT ![v] = Append(ran[v], mbox[v][2])]
    BY <1>10 DEF SpeStops
  <2>3. mbox[v] = <<>> \/ mbox[v] = <<"rep", data_size, "func">>
    BY <1>3, <1>4, <1>10 DEF MemRan
  <2>4. mbox[v] = <<"rep", data_size, "func">>
    BY <2>2, <2>3
  <2>5. mbox[v][2] = data_size
    BY <2>4
  <2>6. ran \in [Worker -> Seq(Nat)]
    BY <1>3, <1>10 DEF RanType
  <2>7. PICK part : part = data_size
    OBVIOUS
  <2>8. part \in 0 .. MAX /\ part \in Nat
    BY <2>1, <2>7
  <2>9. ran' = [ran EXCEPT ![v] = Append(ran[v], part)]
    BY <2>2, <2>5, <2>7
  <2>10. ran' \in [Worker -> Seq(Nat)]
    BY <2>6, <2>8, <2>9
  <2>11. ran'[v] = Append(ran[v], part) /\ \A w \in Worker : w # v => ran'[w] = ran[w]
    BY <2>6, <2>9
  <2>12. AddsUp(ran'[v], job.size - chunk_size + data_size)
    <3>1. AddsUp(ran[v], job.size - chunk_size) /\ job.size - chunk_size \in Nat
      BY <1>1, <1>3, <1>10, <2>1 DEF MemRan
    <3>2. QED
      BY <2>6, <2>7, <2>8, <2>11, <3>1, OneMorePart
  <2>13. \A k \in 1 .. Len(ran'[v]) : ran'[v][k] \in 0 .. MAX
    <3>1. /\ Len(Append(ran[v], part)) = Len(ran[v]) + 1 /\ Len(ran[v]) \in Nat
          /\ Append(ran[v], part)[Len(ran[v]) + 1] = part
          /\ \A k \in 1 .. Len(ran[v]) : Append(ran[v], part)[k] = ran[v][k]
      BY <2>6, <2>8
    <3>2. \A k \in 1 .. Len(ran[v]) : ran[v][k] \in 0 .. MAX
      BY <1>3, <1>10 DEF MemRan
    <3>3. \A k \in 1 .. Len(ran[v]) + 1 : k = Len(ran[v]) + 1 \/ k \in 1 .. Len(ran[v])
      BY <3>1
    <3>4. QED
      BY <2>8, <2>11, <3>1, <3>2, <3>3
  <2>14. MemRan'
    <3>1. \A w \in Worker :
            /\ \A k \in 1 .. Len(ran'[w]) : ran'[w][k] \in 0 .. MAX
            /\ AddsUp(ran'[w], IF w \in created /\ spe'[w] = "stopped"
                                 THEN job.size - chunk_size + data_size
                                 ELSE job.size - chunk_size)
      <4> TAKE w \in Worker
      <4>1. CASE w = v
        BY <1>4, <1>5, <2>12, <2>13, <4>1
      <4>2. CASE w # v
        BY <1>3, <1>5, <1>10, <2>11, <4>2 DEF MemRan
      <4>3. QED
        BY <4>1, <4>2
    <3>2. QED
      BY <1>1, <1>2, <1>3, <1>10, <3>1 DEF MemRan
  <2>15. CpuRan'
    BY <1>1, <1>10 DEF CpuRan
  <2>16. RanType'
    BY <1>1, <1>3, <1>10, <2>10 DEF RanType
  <2>17. QED
    BY <1>6, <1>7, <2>14, <2>15, <2>16 DEF RanInv
<1>11. job.prog \in {"cpu", "mem"}
  <2>1. job \in JobType /\ job.prog # "none"
    BY <1>3, JobsAssumption DEF RanType
  <2>2. QED
    BY <2>1 DEF JobType
<1>12. QED
  BY <1>9, <1>10, <1>11

(* A thread that runs its SPE or passes the barrier adds nothing.          *)
LEMMA ThreadKeepsRan ==
  ASSUME IInv, PInv, CellInv, RanInv, NEW v \in Worker, RunSpe(v) \/ PassBarrier(v)
  PROVE  RanInv'
<1>1. /\ UNCHANGED <<job, mpc, i, round, chunk_size, created, operation, mbox, ran, routine>>
      /\ v \in created /\ phase[v] = round /\ round \in Nat
  BY DEF RunSpe, PassBarrier, main, cell, tvars, CellInv, CellType, TLock, InBarrier,
     TBroadcast, TUnlock
<1>2. RanType /\ CreatedInv /\ SpeOrder /\ CpuRan /\ MemRan
  BY DEF RanInv
<1>3. ASSUME SpeOrder', CreatedInv', \A w \in Worker : spe'[w] = "stopped" <=> spe[w] = "stopped"
      PROVE  RanInv'
  <2>1. \A w \in Worker : Rounds(w)' = Rounds(w)
    BY <1>1, <1>3 DEF Rounds
  <2>2. CpuRan'
    BY <1>1, <1>2, <2>1 DEF CpuRan
  <2>3. data_size' = data_size
    BY <1>1 DEF data_size
  <2>4. MemRan'
    BY <1>1, <1>2, <1>3, <2>3 DEF MemRan
  <2>5. RanType'
    BY <1>1, <1>2 DEF RanType
  <2>6. QED
    BY <1>3, <2>2, <2>4, <2>5 DEF RanInv
<1>4. CASE RunSpe(v)
  <2>1. /\ UNCHANGED <<phase, step, pc>> /\ pc[v] = "out" /\ spe[v] = "idle"
        /\ spe' = [spe EXCEPT ![v] = "running"] /\ phase[v] # round + 1
    BY <1>1, <1>4 DEF RunSpe, tvars, vars
  <2>2. spe'[v] = "running" /\ \A w \in Worker : w # v => spe'[w] = spe[w]
    BY <2>1 DEF CellInv, CellType
  <2>3. CreatedInv'
    BY <1>1, <1>2, <2>1 DEF CreatedInv
  <2>4. SpeOrder'
    BY <1>1, <1>2, <2>1, <2>2 DEF SpeOrder, CellInv, Loaded
  <2>5. QED
    BY <1>3, <2>1, <2>2, <2>3, <2>4
<1>5. CASE PassBarrier(v)
  <2>1. spe' = spe /\ created \subseteq Worker /\ step[v] \in {0, 1} /\ routine.reps = 0
    BY <1>2, <1>5 DEF PassBarrier, cell, PInv, PlaceType, SpeOrder, CellInv, Loaded
  <2>2. ASSUME UNCHANGED <<phase, step>>, \A w \in Worker : w # v /\ pc[w] = "out" => pc'[w] = "out",
               \A w \in Worker : w # v => (pc'[w] # "out" <=> pc[w] # "out"),
               pc[v] # "out" \/ (step[v] = 1 => spe[v] = "stopped")
        PROVE  RanInv'
    <3>1. CreatedInv'
      BY <1>1, <1>2, <2>2 DEF CreatedInv
    <3>2. SpeOrder'
      BY <1>1, <1>2, <2>1, <2>2 DEF SpeOrder
    <3>3. QED
      BY <1>3, <2>1, <3>1, <3>2
  <2>3. CASE TLock(v)
    <3>1. UNCHANGED <<phase, step>> /\ (step[v] = 1 => spe[v] = "stopped")
      BY <1>5, <2>3 DEF PassBarrier, TLock, InBarrier, ArriveAndWait, ArriveLast, Wake,
         TBroadcast, Broadcast, TUnlock, Unlock, Lock
    <3>2. \A w \in Worker : w # v => pc'[w] = pc[w]
      BY <2>3 DEF TLock, Lock, IInv, TypeOK
    <3>3. QED
      BY <2>2, <3>1, <3>2
  <2>4. CASE InBarrier(v) \/ TBroadcast(v)
    <3>1. UNCHANGED <<phase, step>> /\ pc[v] # "out"
      BY <2>4 DEF InBarrier, ArriveAndWait, ArriveLast, Wake, TBroadcast, Broadcast
    <3>2. \A w \in Worker : w # v => (pc'[w] # "out" <=> pc[w] # "out")
      BY <2>4 DEF InBarrier, ArriveAndWait, ArriveLast, Wake, TBroadcast, Broadcast, IInv, TypeOK
    <3>3. QED
      BY <2>2, <3>1, <3>2
  <2>5. CASE TUnlock(v)
    <3>1. pc[v] = "unlock" /\ pc' = [pc EXCEPT ![v] = "out"]
      BY <2>5 DEF TUnlock, Unlock
    <3>2. \/ step[v] = 0 /\ step' = [step EXCEPT ![v] = step[v] + 1] /\ phase' = phase
          \/ step[v] = 1 /\ step' = [step EXCEPT ![v] = 0]
             /\ phase' = [phase EXCEPT ![v] = phase[v] + 1]
      BY <2>1, <2>5 DEF TUnlock
    <3>3. \A w \in Worker : w # v => phase'[w] = phase[w] /\ step'[w] = step[w] /\ pc'[w] = pc[w]
      BY <3>1, <3>2 DEF PInv, PlaceType, IInv, TypeOK
    <3>4. /\ pc'[v] = "out"
          /\ phase'[v] = round \/ (step[v] = 1 /\ phase'[v] = round + 1)
      BY <1>1, <3>1, <3>2 DEF PInv, PlaceType, IInv, TypeOK
    <3>5. step[v] = 1 => spe[v] = "stopped"
      BY <1>1, <1>2, <3>1 DEF SpeOrder
    <3>6. phase'[v] = round + 1 => spe[v] = "stopped"
      BY <1>1, <3>4, <3>5
    <3>7. CreatedInv'
      BY <1>1, <1>2, <3>3 DEF CreatedInv
    <3>8. SpeOrder'
      BY <1>1, <1>2, <2>1, <3>3, <3>4, <3>6 DEF SpeOrder
    <3>9. QED
      BY <1>3, <2>1, <3>7, <3>8
  <2>6. QED
    BY <1>5, <2>3, <2>4, <2>5 DEF PassBarrier
<1>6. QED
  BY <1>4, <1>5

(* In the Cell ports the kernels that the SPEs of cpu ran in a phase are   *)
(* those its time is printed under, and the parts that an SPE of mem       *)
(* copied fit its buffer and add up to the data it was to copy.            *)
THEOREM ResultsAreLabelled == CSpec => []PrintedIsWhatRan
<1>1. CInit => (job.prog # "none" => RanInv)
  BY InitRan
<1>2. IInv /\ JobInv /\ (job.prog # "none" => RanInv) /\ [CNext]_cvars
        => (job.prog # "none" => RanInv)'
  <2> SUFFICES ASSUME IInv, JobInv, job.prog # "none" => RanInv, [CNext]_cvars, job'.prog # "none"
               PROVE  RanInv'
    OBVIOUS
  <2>1. job' = job
    BY DEF CNext, CellStep, Main, Fork, Mail, Forked, JoinAndDestroy, TakeTime, CellThread,
       RunSpe, SpeStops, PassBarrier, Ended, cvars
  <2>2. PInv /\ CellInv /\ RanInv
    BY <2>1 DEF JobInv
  <2>3. CASE UNCHANGED cvars
    <3>1. /\ UNCHANGED <<job, mpc, i, round, chunk_size, created, operation, mbox, spe, ran>>
          /\ UNCHANGED <<routine, phase, step, pc>>
      BY <2>3 DEF cvars, tvars, vars, main, cell
    <3>2. \A w \in Worker : Rounds(w)' = Rounds(w)
      BY <3>1 DEF Rounds
    <3>3. data_size' = data_size
      BY <3>1 DEF data_size
    <3>4. CpuRan'
      BY <2>2, <3>1, <3>2 DEF RanInv, CpuRan
    <3>5. MemRan'
      BY <2>2, <3>1, <3>3 DEF RanInv, MemRan
    <3>6. RanType'
      BY <2>2, <3>1 DEF RanInv, RanType
    <3>7. (CreatedInv /\ SpeOrder)'
      BY <2>2, <3>1 DEF RanInv, CreatedInv, SpeOrder
    <3>8. QED
      BY <3>4, <3>5, <3>6, <3>7 DEF RanInv
  <2>4. CASE Main
    BY <2>2, <2>4, MainKeepsRan, TakeTimeKeepsRan DEF Main
  <2>5. ASSUME NEW w \in Worker, CellThread(w) PROVE RanInv'
    BY <2>2, <2>5, SpeKeepsRan, ThreadKeepsRan DEF CellThread
  <2>6. QED
    BY <2>1, <2>3, <2>4, <2>5 DEF CNext, CellStep, Ended
<1>3. JobInv /\ (job.prog # "none" => RanInv) => PrintedIsWhatRan
  <2> SUFFICES ASSUME JobInv, job.prog # "none", RanInv, NEW w \in Worker
               PROVE  /\ job.prog = "cpu" => IsPrefix(ran[w], Label[job.func])
                      /\ job.prog = "mem" => \A k \in DOMAIN ran[w] : ran[w][k] <= MAX
                      /\ mpc = "done" =>
                           /\ job.prog = "cpu" => ran[w] = Label[job.func]
                           /\ job.prog = "mem" => AddsUp(ran[w], job.size)
    BY DEF PrintedIsWhatRan
  <2>1. CASE job.prog = "cpu"
    <3>1. ran[w] \in Seq(Names) /\ Label[job.func] \in Seq(Names)
      BY <2>1, LabelsOfPrograms DEF RanInv, RanType, CpuRan
    <3>2. Len(ran[w]) = Rounds(w) /\ \A k \in 1 .. Len(ran[w]) : ran[w][k] = Label[job.func][k]
      BY <2>1 DEF RanInv, CpuRan
    <3>3. /\ round \in Nat /\ Len(Label[job.func]) = thr_counter(job.func)
          /\ IF mpc = "done" THEN round = thr_counter(job.func)
                             ELSE round < thr_counter(job.func)
          /\ thr_counter(job.func) \in Nat
      BY <2>1, LabelsOfPrograms DEF RanInv, CpuRan, JobInv, CellInv, CellType
    <3>4. Len(ran[w]) <= Len(Label[job.func])
      BY <3>2, <3>3, <2>1 DEF Rounds, RanInv, CreatedInv
    <3>5. IsPrefix(ran[w], Label[job.func])
      <4>1. /\ SubSeq(ran[w], 1, Len(ran[w])) = [k \in 1 .. Len(ran[w]) |-> ran[w][k]]
            /\ SubSeq(Label[job.func], 1, Len(ran[w])) = [k \in 1 .. Len(ran[w]) |-> Label[job.func][k]]
        BY <3>1, <3>4
      <4>2. SubSeq(ran[w], 1, Len(ran[w])) = SubSeq(Label[job.func], 1, Len(ran[w]))
        BY <3>2, <4>1
      <4>3. QED
        BY <3>4, <4>2 DEF IsPrefix
    <3>6. ASSUME mpc = "done" PROVE ran[w] = Label[job.func]
      <4>1. Len(ran[w]) = Len(Label[job.func])
        BY <3>2, <3>3, <3>6 DEF Rounds, RanInv, CreatedInv
      <4>2. QED
        BY <3>1, <3>2, <4>1, SeqEqual
    <3>7. QED
      BY <2>1, <3>5, <3>6
  <2>2. CASE job.prog = "mem"
    <3>1. /\ ran[w] \in Seq(Nat)
          /\ \A k \in 1 .. Len(ran[w]) : ran[w][k] \in 0 .. MAX
          /\ MAX \in Nat
      BY <2>2, JobsAssumption DEF RanInv, RanType, MemRan
    <3>2. ASSUME NEW k \in DOMAIN ran[w] PROVE ran[w][k] <= MAX
      BY <3>1
    <3>3. ASSUME mpc = "done" PROVE AddsUp(ran[w], job.size)
      <4>1. job.size - chunk_size = job.size
        BY <2>2, <3>3, PartSize DEF RanInv, MemRan
      <4>2. w \notin created
        BY <3>3 DEF RanInv, CreatedInv
      <4>3. QED
        BY <2>2, <4>1, <4>2 DEF RanInv, MemRan
    <3>4. QED
      BY <2>2, <3>2, <3>3
  <2>3. job.prog \in {"cpu", "mem"}
    <3>1. job \in JobType
      BY JobsAssumption DEF RanInv, RanType
    <3>2. QED
      BY <3>1 DEF JobType
  <2>4. QED
    BY <2>1, <2>2, <2>3
<1>4. QED
  BY <1>1, <1>2, <1>3, JobInvariance, PTL DEF CSpec
=============================================================================
