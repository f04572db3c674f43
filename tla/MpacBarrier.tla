---------------------------- MODULE MpacBarrier ----------------------------
(***************************************************************************)
(* mpac_thread_manager_barrier of common/mpac_thread_manager.c: one mutex, *)
(* one condition variable and two counters in the static lock brrlck,      *)
(* shared by the workers of a thread manager.  A worker here is a thread   *)
(* that calls the barrier Calls times and ignores what it returns, as all  *)
(* the work routines of the benchmarks do.                                 *)
(*                                                                         *)
(* This module takes pthread_cond_wait to return only after a broadcast;   *)
(* MpacBarrierPosix adds the wakeups POSIX allows besides.                 *)
(***************************************************************************)
EXTENDS Integers, FiniteSets

CONSTANTS
  Worker,     (* the threads that call the barrier                  *)
  Calls,      (* how often each of them calls it                    *)
  NoThread    (* the owner of a mutex that is free                  *)

ASSUME WorkerAssumption == IsFiniteSet(Worker) /\ Worker # {} /\ NoThread \notin Worker
ASSUME CallsAssumption == Calls \in Nat

VARIABLES
  nworker, narrived,  \* the counters of brrlck
  owner,              \* who holds brrlck.lock
  pc,                 \* where each worker is in the barrier; "out": not in it
  calls               \* how many of its calls have returned

lck == <<nworker, narrived, owner>>
vars == <<lck, pc, calls>>

(* brrlck is static: its counters are 0 until mpac_thread_manager_init has *)
(* called initlock for its workers, which it does before it forks them.    *)
(* Without that, every call fails.                                         *)
Init ==
  /\ nworker \in {0, Cardinality(Worker)}
  /\ narrived = 0
  /\ owner = NoThread
  /\ pc = [w \in Worker |-> "out"]
  /\ calls = [w \in Worker |-> 0]

(* Is the one who arrives now the last?  (Slip: it counts itself twice.)   *)
IsLastTooSoon == narrived + 2 = nworker
IsLast == narrived + 1 = nworker

Lock(w) ==
  /\ pc[w] = "out" /\ calls[w] < Calls
  /\ owner = NoThread
  /\ owner' = w
  /\ pc' = [pc EXCEPT ![w] = "locked"]
  /\ UNCHANGED <<nworker, narrived, calls>>

(* (Slip: the early return forgets the mutex.)                             *)
RefuseKeepsLock(w) ==
  /\ pc[w] = "locked" /\ nworker <= 0
  /\ pc' = [pc EXCEPT ![w] = "out"]
  /\ calls' = [calls EXCEPT ![w] = @ + 1]
  /\ UNCHANGED lck

(* The lock has not been initialised: MPAC_FAILURE.                        *)
Refuse(w) ==
  /\ pc[w] = "locked" /\ nworker <= 0
  /\ owner' = NoThread
  /\ pc' = [pc EXCEPT ![w] = "out"]
  /\ calls' = [calls EXCEPT ![w] = @ + 1]
  /\ UNCHANGED <<nworker, narrived>>

(* A worker that is not the last goes to sleep and gives up the mutex in   *)
(* one step of pthread_cond_wait.                                          *)
ArriveAndWait(w) ==
  /\ pc[w] = "locked" /\ nworker > 0
  /\ ~IsLast
  /\ narrived' = narrived + 1
  /\ owner' = NoThread
  /\ pc' = [pc EXCEPT ![w] = "waiting"]
  /\ UNCHANGED <<nworker, calls>>

ArriveLast(w) ==
  /\ pc[w] = "locked" /\ nworker > 0
  /\ IsLast
  /\ narrived' = narrived + 1
  /\ pc' = [pc EXCEPT ![w] = "last"]
  /\ UNCHANGED <<nworker, owner, calls>>

(* (Slip: pthread_cond_signal for pthread_cond_broadcast.)                 *)
SignalsOne(w) ==
  /\ pc[w] = "last"
  /\ narrived' = 0
  /\ \E v \in Worker :
       /\ pc[v] = "waiting" \/ v = w
       /\ pc' = [u \in Worker |-> IF u = w THEN "unlock"
                                ELSE IF u = v THEN "woken" ELSE pc[u]]
  /\ UNCHANGED <<nworker, owner, calls>>

(* The last one resets the count and wakes up all who sleep now; they go   *)
(* on when they get the mutex.                                             *)
Broadcast(w) ==
  /\ pc[w] = "last"
  /\ narrived' = 0
  /\ pc' = [v \in Worker |-> CASE v = w -> "unlock"
                               [] v # w /\ pc[v] = "waiting" -> "woken"
                               [] OTHER -> pc[v]]
  /\ UNCHANGED <<nworker, owner, calls>>

Wake(w) ==
  /\ pc[w] = "woken" /\ owner = NoThread
  /\ owner' = w
  /\ pc' = [pc EXCEPT ![w] = "unlock"]
  /\ UNCHANGED <<nworker, narrived, calls>>

Unlock(w) ==
  /\ pc[w] = "unlock"
  /\ owner' = NoThread
  /\ pc' = [pc EXCEPT ![w] = "out"]
  /\ calls' = [calls EXCEPT ![w] = @ + 1]
  /\ UNCHANGED <<nworker, narrived>>

Barrier(w) ==
  \/ Lock(w) \/ Refuse(w) \/ ArriveAndWait(w) \/ ArriveLast(w)
  \/ Broadcast(w) \/ Wake(w) \/ Unlock(w)

AllDone == \A w \in Worker : pc[w] = "out" /\ calls[w] = Calls
Joined == AllDone /\ UNCHANGED vars

Next == Joined \/ \E w \in Worker : Barrier(w)

(* Every thread runs on.  Weak fairness is enough for the mutex: the other *)
(* threads take it a bounded number of times before they all sleep.        *)
Fairness == \A w \in Worker : WF_vars(Barrier(w))

Spec == Init /\ [][Next]_vars
FairSpec == Spec /\ Fairness

-----------------------------------------------------------------------------
TypeOK ==
  /\ nworker \in {0, Cardinality(Worker)}
  /\ narrived \in 0 .. Cardinality(Worker)
  /\ owner \in Worker \cup {NoThread}
  /\ pc \in [Worker -> {"out", "locked", "waiting", "last", "woken", "unlock"}]
  /\ calls \in [Worker -> Nat]

(* A worker is released when it is through with the barrier but for the    *)
(* mutex; the barriers it has passed are those it has returned from and    *)
(* the one it is released from.                                            *)
Released(w) == pc[w] \in {"woken", "unlock"}
Asleep(w) == pc[w] \in {"waiting", "last"}
Passed(w) == IF nworker = 0 THEN 0
             ELSE IF Released(w) THEN calls[w] + 1 ELSE calls[w]

(* Nobody overtakes: when a worker has returned from its call number k,    *)
(* every other has come to its own call number k and been released from    *)
(* it, even if fast workers come back for the next round, and count and    *)
(* sleep on the same condition variable, before slow ones got the mutex.   *)
NoOvertaking ==
  nworker > 0 => \A v, w \in Worker : Passed(v) = Passed(w)

(* The count is the number of sleepers of the current round: a sleeper is  *)
(* never forgotten by a broadcast nor counted twice, so that the last of   *)
(* the group always finds the count one short.                             *)
NoLostSleeper == narrived = Cardinality({w \in Worker : Asleep(w)})

(* The barrier is the abstract one: a step of all threads at once.         *)
Phase == INSTANCE PhaseBarrier WITH
           inside <- {w \in Worker : Asleep(w)},
           passed <- [w \in Worker |-> Passed(w)]

ImplementsPhaseBarrier == Phase!Spec

(* Every call returns: the group never ends up asleep.                     *)
AllReturn == <>AllDone
=============================================================================
