---------------------------- MODULE ThreadManager ----------------------------
(***************************************************************************)
(* mpac_thread_manager of common/: one handle, the operations a program    *)
(* applies to it one after the other, and the threads it creates, which    *)
(* run a work routine that calls the barrier Calls times.                  *)
(*                                                                         *)
(* A program is a sequence of operations; startj and startd are the        *)
(* sequences of calls they consist of.  What an operation returns is       *)
(* ignored, as by startj, startd and every program of the repository.      *)
(* Each operation is a loop over the slots of the handle that takes one    *)
(* slot a step; a malloc that fails is left out (it ends in a crash).      *)
(***************************************************************************)
EXTENDS MpacBarrier, Sequences

CONSTANT Programs

(* (Slip: startj frees before it waits.)                                   *)
startjFreesFirst == <<"init", "fork", "free", "wait">>
startj == <<"init", "fork", "wait", "free">>
startd == <<"init", "fork", "isolate", "free">>

num_threads == Cardinality(Worker)

(* A handle is used again only when its threads have been joined.          *)
Reusable(p, k) == k = 0 \/ (k >= 4 /\ SubSeq(p, k - 3, k) = startj)

ASSUME SlotsAssumption == Worker = 0 .. num_threads - 1
ASSUME ProgramsAssumption ==
  \A p \in Programs :
    /\ p \in Seq({"init", "fork", "wait", "isolate", "sendsig", "end", "free"})
    /\ \A k \in DOMAIN p : p[k] = "init" => Reusable(p, k - 1)

VARIABLES
  program,           \* the operations of this run
  at,                \* which of them is being executed
  i,                 \* its loop variable
  num_live_threads,  \* of the handle
  job,               \* what each slot's job descriptor holds
  thr,               \* where each slot's thread is
  cancel             \* the threads with a cancellation request

barrier == <<lck, pc, calls>>
tmvars == <<barrier, program, at, i, num_live_threads, job, thr, cancel>>

Op == IF at <= Len(program) THEN program[at] ELSE "over"

TMInit ==
  /\ Init /\ nworker = 0
  /\ program \in Programs /\ at = 1 /\ i = 0
  /\ num_live_threads = 0
  /\ job = [w \in Worker |-> "unset"]
  /\ thr = [w \in Worker |-> "none"]
  /\ cancel = {}

-----------------------------------------------------------------------------
(* The operations.                                                         *)

Return == at' = at + 1 /\ i' = 0

(* (Slip: a lock for one worker more than there are.)                      *)
InitManagerOneMore ==
  /\ Op = "init"
  /\ num_live_threads' = 0
  /\ job' = [w \in Worker |-> "set"]
  /\ nworker' = num_threads + 1 /\ narrived' = 0 /\ owner' = NoThread
  /\ calls' = [w \in Worker |-> 0]
  /\ thr' = [w \in Worker |-> "none"]
  /\ Return
  /\ UNCHANGED <<pc, program, cancel>>

(* mpac_thread_manager_init sets the handle and the jobs, and initlock     *)
(* makes the barrier's lock anew.                                          *)
InitManager ==
  /\ Op = "init"
  /\ num_live_threads' = 0
  /\ job' = [w \in Worker |-> "set"]
  /\ nworker' = num_threads /\ narrived' = 0 /\ owner' = NoThread
  /\ calls' = [w \in Worker |-> 0]
  /\ thr' = [w \in Worker |-> "none"]
  /\ Return
  /\ UNCHANGED <<pc, program, cancel>>

(* (Slip: the thread is not counted.)                                      *)
ForkOneUncounted ==
  /\ Op = "fork" /\ i < num_threads
  /\ thr' = [thr EXCEPT ![i] = "started"]
  /\ i' = i + 1
  /\ UNCHANGED <<barrier, program, at, num_live_threads, job, cancel>>

ForkOne ==
  /\ Op = "fork" /\ i < num_threads
  /\ thr' = [thr EXCEPT ![i] = "started"]
  /\ num_live_threads' = num_live_threads + 1
  /\ i' = i + 1
  /\ UNCHANGED <<barrier, program, at, job, cancel>>

(* (Slip: the thread is counted before it is created.)                     *)
ForkFailsCounted ==
  /\ Op = "fork" /\ i < num_threads
  /\ num_live_threads' = num_live_threads + 1
  /\ Return
  /\ UNCHANGED <<barrier, program, job, thr, cancel>>

(* pthread_create fails: those already created run on.                     *)
ForkFails ==
  /\ Op = "fork" /\ i < num_threads
  /\ Return
  /\ UNCHANGED <<barrier, program, num_live_threads, job, thr, cancel>>

(* The four loops over the live threads: the count decides how many slots  *)
(* from the first on are acted upon.                                       *)
ForEachLive == {"wait", "isolate", "end", "sendsig"}

Slot(op) ==
  /\ Op = op /\ i < num_threads /\ num_live_threads > 0
  /\ num_live_threads' = num_live_threads - 1
  /\ i' = i + 1
  /\ UNCHANGED <<barrier, program, at, job>>

JoinOne ==
  /\ Slot("wait")
  /\ thr[i] = "exited"
  /\ thr' = [thr EXCEPT ![i] = "joined"]
  /\ UNCHANGED cancel

IsolateOne == Slot("isolate") /\ UNCHANGED <<thr, cancel>>

CancelOne ==
  /\ Slot("end")
  /\ cancel' = cancel \cup {i}
  /\ UNCHANGED thr

(* The signal is handled by the program's handler and ends no thread.      *)
SignalOne == Slot("sendsig") /\ UNCHANGED <<thr, cancel>>

(* For a thread that has exited pthread_kill and pthread_cancel may report *)
(* an error, at which the loop is left.                                    *)
CallFails ==
  /\ Op \in {"sendsig", "end"} /\ i < num_threads /\ num_live_threads > 0
  /\ thr[i] = "exited"
  /\ Return
  /\ UNCHANGED <<barrier, program, num_live_threads, job, thr, cancel>>

SkipSlot ==
  /\ Op \in ForEachLive /\ i < num_threads /\ num_live_threads <= 0
  /\ i' = i + 1
  /\ UNCHANGED <<barrier, program, at, num_live_threads, job, thr, cancel>>

FreeOne ==
  /\ Op = "free" /\ i < num_threads
  /\ job' = [job EXCEPT ![i] = "freed"]
  /\ i' = i + 1
  /\ UNCHANGED <<barrier, program, at, num_live_threads, thr, cancel>>

LoopEnds ==
  /\ Op \in ForEachLive \cup {"fork", "free"} /\ i = num_threads
  /\ Return
  /\ UNCHANGED <<barrier, program, num_live_threads, job, thr, cancel>>

Main ==
  \/ InitManager \/ ForkOne \/ ForkFails \/ JoinOne \/ IsolateOne \/ CancelOne
  \/ SignalOne \/ CallFails \/ SkipSlot \/ FreeOne \/ LoopEnds

-----------------------------------------------------------------------------
(* The threads: mpac_thread_manager_affinity_setter reads its job twice,   *)
(* once before it pins the thread and once for the routine.  A thread that *)
(* reads a freed job may do anything: it is not followed any further.      *)

Reads(w, from, to) ==
  /\ thr[w] = from
  /\ thr' = [thr EXCEPT ![w] = IF job[w] = "set" THEN to ELSE "wild"]
  /\ UNCHANGED <<barrier, program, at, i, num_live_threads, job, cancel>>

ReadAffinity(w) == Reads(w, "started", "pinned")
ReadRoutine(w) == Reads(w, "pinned", "working")

Work(w) ==
  /\ thr[w] = "working"
  /\ Barrier(w)
  /\ UNCHANGED <<program, at, i, num_live_threads, job, thr, cancel>>

RoutineReturns(w) ==
  /\ thr[w] = "working" /\ pc[w] = "out" /\ calls[w] = Calls
  /\ thr' = [thr EXCEPT ![w] = "exited"]
  /\ UNCHANGED <<barrier, program, at, i, num_live_threads, job, cancel>>

(* A cancelled thread ends at its next cancellation point.  One that waits *)
(* on the condition variable takes the mutex before it ends, and with no   *)
(* cleanup handler it keeps it and stays counted.                          *)
Cancelled(w) ==
  /\ w \in cancel /\ thr[w] \in {"started", "pinned", "working"}
  /\ \/ pc[w] = "out" /\ UNCHANGED owner
     \/ pc[w] \in {"waiting", "woken"} /\ owner = NoThread /\ owner' = w
  /\ thr' = [thr EXCEPT ![w] = "exited"]
  /\ UNCHANGED <<nworker, narrived, pc, calls, program, at, i,
                 num_live_threads, job, cancel>>

Thread(w) ==
  \/ ReadAffinity(w) \/ ReadRoutine(w) \/ Work(w) \/ RoutineReturns(w)
  \/ Cancelled(w)

Ended(w) == thr[w] \in {"none", "exited", "joined"}
Idle == Op = "over" /\ (\A w \in Worker : Ended(w)) /\ UNCHANGED tmvars

TMNext == Main \/ Idle \/ \E w \in Worker : Thread(w)

(* Every thread runs on; nothing makes pthread_create fail or succeed.     *)
TMSpec == TMInit /\ [][TMNext]_tmvars
TMFairSpec == /\ TMSpec
              /\ WF_tmvars(Main)
              /\ \A w \in Worker : WF_tmvars(Thread(w))

-----------------------------------------------------------------------------
TMTypeOK ==
  /\ TypeOK
  /\ program \in Programs /\ at \in 1 .. Len(program) + 1
  /\ i \in 0 .. num_threads
  /\ num_live_threads \in 0 .. num_threads
  /\ job \in [Worker -> {"unset", "set", "freed"}]
  /\ thr \in [Worker -> {"none", "started", "pinned", "working", "exited",
                         "joined", "wild"}]
  /\ cancel \subseteq Worker

(* The operations of the current life of the handle executed so far.       *)
Before(op) ==
  \E k \in 1 .. at - 1 :
    program[k] = op /\ \A m \in k + 1 .. at - 1 : program[m] # "init"

(* The count that the loops go by is right when it is needed: as long as   *)
(* the handle is only forked and waited for, it is the number of threads   *)
(* not joined yet, and these are the slots that come next, even after a    *)
(* fork that stopped halfway.                                              *)
LiveThreadsComeNext ==
  (Op = "wait" /\ ~\E op \in {"isolate", "end", "sendsig"} : Before(op)) =>
    {w \in Worker : ~(thr[w] \in {"none", "joined"})}
      = i .. i + num_live_threads - 1

(* A thread of startj finds its job: the jobs are freed behind the join of *)
(* all threads that were created.                                          *)
JoinedBeforeFree ==
  (\A k \in DOMAIN program : program[k] \in {"init", "fork", "wait", "free"}) =>
    \A w \in Worker :
      /\ thr[w] # "wild"
      /\ job[w] = "freed" => thr[w] \in {"none", "joined"}

(* A program that calls startj again, like the disk benchmark, never makes *)
(* the lock anew under a thread that is in the barrier.                    *)
LockMadeAnewWhenFree ==
  [][InitManager => owner = NoThread /\ \A w \in Worker : pc[w] = "out"]_tmvars

(* startj returns, and so does a program made of it, unless pthread_create *)
(* failed and left a group that waits for its missing members.             *)
ShortGroup ==
  Calls > 0 /\ Op = "wait" /\ \E w \in Worker : thr[w] = "none"

StartjReturns ==
  (\A k \in DOMAIN program : program[k] \in {"init", "fork", "wait", "free"})
    => <>(Op = "over" \/ ShortGroup)

(* mpac_thread_manager_end forces the workers to be killed, even those     *)
(* that are blocked (comment above it): all that it has cancelled end.     *)
EndKillsWorkers ==
  (Op = "over" /\ Before("end")) ~> \A w \in cancel : Ended(w)

(* Isolated threads release their resources themselves (comment above      *)
(* isolate): nobody else does while they still need them.                  *)
ReleasedByThreadItself ==
  \A w \in Worker : thr[w] # "wild"
=============================================================================
