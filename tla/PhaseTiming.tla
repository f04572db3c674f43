----------------------------- MODULE PhaseTiming -----------------------------
(***************************************************************************)
(* The timed work routines of benchmarks/cpu and benchmarks/mem on top of  *)
(* the barrier.  All workers of a run execute the same routine, phase by   *)
(* phase; a phase is                                                       *)
(*   barrier(&gtime1); work, reps times behind a barrier(NULL);            *)
(*   barrier(&gtime2);                                                     *)
(* and its result is gtime2 - gtime1, which in benchmarks/cpu every worker *)
(* computes and stores in gtime[phase] before its next phase, and in       *)
(* benchmarks/mem main computes after it has joined the workers.  gtime1,  *)
(* gtime2 and gtime are globals no lock protects: the last worker to       *)
(* arrive writes the time inside the barrier, all others read it outside.  *)
(*                                                                         *)
(* A time is abstracted to the place in the routine of the barrier whose   *)
(* release it is, <<phase, barrier in the phase>>, and a difference to the *)
(* pair of its operands.  The work changes no shared state: left out.      *)
(***************************************************************************)
EXTENDS MpacBarrier

CONSTANT Routines    (* the work routines a run may choose from *)

(* mpac_cpu_bm_fl has five phases, _int, _lo and _sps three, without       *)
(* barriers in between; mpac_mem_mtm_gt is one such phase and mtm_lt is    *)
(* one with num_reps_per_thr barriers in between.  In the Cell ports main  *)
(* stores the result of every phase, for which it forks the workers anew   *)
(* (CellBench).                                                            *)
RoutineType ==
  [phases : Nat, reps : Nat, stores : {"worker", "main", "main, each phase"}]

ASSUME RoutinesAssumption ==
  /\ Routines \subseteq RoutineType
  /\ \A r \in Routines : /\ Calls >= r.phases * (r.reps + 2)
                         /\ r.stores = "main" => r.phases = 1

Unset == <<>>
Place == Nat \X Nat

VARIABLES
  routine,          \* the routine of this run
  phase, step,      \* each worker's next barrier, or the one it is in
  gtime1, gtime2,   \* the two times of the phase under way
  gtime,            \* the results, one per phase
  loaded,           \* gtime2 as a worker has just read it, or Unset
  stored            \* how many results each worker has stored

timing == <<gtime1, gtime2, gtime, loaded, stored>>
tvars == <<vars, routine, phase, step, timing>>

TInit ==
  /\ Init /\ nworker = Cardinality(Worker)  \* startj has initialised the lock
  /\ routine \in Routines
  /\ phase = [w \in Worker |-> 0] /\ step = [w \in Worker |-> 0]
  /\ gtime1 = Unset /\ gtime2 = Unset
  /\ gtime = [k \in 0 .. routine.phases - 1 |-> Unset]
  /\ loaded = [w \in Worker |-> Unset]
  /\ stored = [w \in Worker |-> 0]

(* In benchmarks/cpu the result of a phase is stored before the next one.  *)
Owes(w) == routine.stores = "worker" /\ stored[w] < phase[w]

(* (Slip: a worker enters the next phase before it has stored its result.) *)
TLockUnpaid(w) ==
  /\ phase[w] < routine.phases
  /\ Lock(w)
  /\ UNCHANGED <<routine, phase, step, timing>>

TLock(w) ==
  /\ phase[w] < routine.phases /\ ~Owes(w)
  /\ Lock(w)
  /\ UNCHANGED <<routine, phase, step, timing>>

(* Inside the barrier; Refuse never applies, the lock being initialised.   *)
InBarrier(w) ==
  /\ ArriveAndWait(w) \/ ArriveLast(w) \/ Wake(w)
  /\ UNCHANGED <<routine, phase, step, timing>>

(* The last worker sets the time its caller passed, if it passed one.      *)
TBroadcast(w) ==
  LET now == <<phase[w], step[w]>> IN
  /\ Broadcast(w)
  /\ gtime1' = IF step[w] = 0 THEN now ELSE gtime1
  /\ gtime2' = IF step[w] = routine.reps + 1 THEN now ELSE gtime2
  /\ UNCHANGED <<routine, phase, step, gtime, loaded, stored>>

TUnlock(w) ==
  /\ Unlock(w)
  /\ IF step[w] <= routine.reps
       THEN /\ step' = [step EXCEPT ![w] = @ + 1]
            /\ UNCHANGED phase
       ELSE /\ step' = [step EXCEPT ![w] = 0]
            /\ phase' = [phase EXCEPT ![w] = @ + 1]
  /\ UNCHANGED <<routine, timing>>

(* gtime[k] = gtime2 - gtime1: two loads and a store.                      *)
LoadTime(w) ==
  /\ pc[w] = "out" /\ Owes(w) /\ loaded[w] = Unset
  /\ loaded' = [loaded EXCEPT ![w] = gtime2]
  /\ UNCHANGED <<vars, routine, phase, step, gtime1, gtime2, gtime, stored>>

StoreResult(w) ==
  /\ pc[w] = "out" /\ Owes(w) /\ loaded[w] # Unset
  /\ gtime' = [gtime EXCEPT ![stored[w]] = <<gtime1, loaded[w]>>]
  /\ stored' = [stored EXCEPT ![w] = @ + 1]
  /\ loaded' = [loaded EXCEPT ![w] = Unset]
  /\ UNCHANGED <<vars, routine, phase, step, gtime1, gtime2>>

Work(w) ==
  \/ TLock(w) \/ InBarrier(w) \/ TBroadcast(w) \/ TUnlock(w)
  \/ LoadTime(w) \/ StoreResult(w)

WorkersDone == \A w \in Worker : phase[w] = routine.phases /\ ~Owes(w)

(* In benchmarks/mem main makes the only result, after the join.           *)
MainStores ==
  /\ routine.stores = "main" /\ WorkersDone /\ gtime[0] = Unset
  /\ gtime' = [gtime EXCEPT ![0] = <<gtime1, gtime2>>]
  /\ UNCHANGED <<vars, routine, phase, step, gtime1, gtime2, loaded, stored>>

Measured == WorkersDone /\ \A k \in DOMAIN gtime : gtime[k] # Unset
TJoined == Measured /\ UNCHANGED tvars

TNext == TJoined \/ MainStores \/ \E w \in Worker : Work(w)

TSpec == TInit /\ [][TNext]_tvars

-----------------------------------------------------------------------------
TTypeOK ==
  /\ TypeOK
  /\ routine \in Routines
  /\ phase \in [Worker -> 0 .. routine.phases]
  /\ step \in [Worker -> 0 .. routine.reps + 1]
  /\ gtime1 \in Place \cup {Unset} /\ gtime2 \in Place \cup {Unset}
  /\ gtime \in [0 .. routine.phases - 1 ->
                  {Unset} \cup ((Place \cup {Unset}) \X (Place \cup {Unset}))]
  /\ loaded \in [Worker -> Place \cup {Unset}]
  /\ stored \in [Worker -> 0 .. routine.phases]

(* Each result is the time between the first and the last barrier of its   *)
(* own phase, whichever worker stored it last: a fast worker that is in    *)
(* the next phase already never changes a time a slow one still reads.     *)
ResultIsPhaseSpan ==
  \A k \in 0 .. routine.phases - 1 :
    gtime[k] \in {Unset, << <<k, 0>>, <<k, routine.reps + 1>> >>}

(* Workers that work at the same time work in the same round of the same   *)
(* phase, so that the slowest of them determines the time of the round.    *)
WorksTogether ==
  \A v, w \in Worker :
    pc[v] = "out" /\ pc[w] = "out" => phase[v] = phase[w] /\ step[v] = step[w]

(* The run ends, with a result for every phase.                            *)
AllMeasured == <>Measured
=============================================================================
