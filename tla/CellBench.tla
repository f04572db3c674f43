------------------------------ MODULE CellBench ------------------------------
(***************************************************************************)
(* The cpu and memory benchmarks for the Cell BE, cbe/cpu_bench and        *)
(* cbe/mem_bench: their main creates, for every phase, an SPE context and  *)
(* a thread for each worker.  A thread passes the barrier, a copy of that  *)
(* of the thread manager, runs the program of its context on an SPE,       *)
(* passes the barrier again and ends; main joins the threads, destroys     *)
(* their contexts and takes the time of the phase.                         *)
(*                                                                         *)
(* What the SPE is to do it is told through memory (cpu: one operation a   *)
(* phase) or through the mailbox of its context (mem: the size of the part *)
(* of the data, of which one phase copies at most MAX bytes).  A failing   *)
(* malloc, pthread_create or gettimeofday ends the process: left out.      *)
(***************************************************************************)
EXTENDS PhaseTiming, SequencesExt

CONSTANTS
  Jobs,    (* the benchmarks of this run, with the options that matter      *)
  MAX      (* how much a phase of the memory benchmark copies at most       *)

(* The two programs; "none" is the benchmarks of PhaseTiming.  Without -u  *)
(* func is never set, and may be any of the three by chance.               *)
JobType == [prog : {"cpu"}, func : {"i", "f", "l"}]
             \cup [prog : {"mem"}, size : Nat] \cup {[prog |-> "none"]}

ASSUME JobsAssumption == Jobs \subseteq JobType /\ MAX \in Nat \ {0}
ASSUME ThreadsAssumption == Worker = 0 .. Cardinality(Worker) - 1

(* What spu.c of cpu_bench does for an operation and a function.           *)
Kernel ==
  [i |-> <<"add", "subtract", "multiply">>,
   f |-> <<"log", "sin", "cos", "tan", "exp">>,
   l |-> <<"shift left", "shift right", "compare">>]

(* (Slip: the names of the two shifts change places.)                      *)
LabelShiftsSwapped ==
  [i |-> <<"add", "subtract", "multiply">>,
   f |-> <<"log", "sin", "cos", "tan", "exp">>,
   l |-> <<"shift right", "shift left", "compare">>]

(* The name main prints with time_dif[k - 1].                              *)
Label ==
  [i |-> <<"add", "subtract", "multiply">>,
   f |-> <<"log", "sin", "cos", "tan", "exp">>,
   l |-> <<"shift left", "shift right", "compare">>]

thr_counter(func) == IF func = "f" THEN 5 ELSE 3

(* As many phases as it takes, and one if there is nothing to copy.        *)
Chunks(size) == IF size = 0 THEN 1 ELSE (size + MAX - 1) \div MAX

PhasesOf(j) == IF j.prog = "cpu" THEN thr_counter(j.func) ELSE Chunks(j.size)

VARIABLES
  job,
  mpc, i, round,     \* main: where it is, its loop variable, the phase
  chunk_size,        \* mem: how much is left to copy
  created,           \* the threads of this phase
  context,           \* the SPE context of each worker
  operation,         \* cpu: pd[w].operation
  mbox,              \* mem: what main has written to the mailbox
  spe,               \* the SPE of each worker
  ran                \* what it has done in the phases so far

main == <<mpc, i, round, chunk_size, created>>
cell == <<context, operation, mbox, spe, ran>>
cvars == <<tvars, job, main, cell>>

N == Cardinality(Worker)

CInit ==
  /\ TInit
  /\ job \in Jobs
  /\ (job.prog = "none") = (routine.stores # "main, each phase")
  /\ job.prog # "none" => routine.phases = PhasesOf(job) /\ routine.reps = 0
  /\ mpc = "fork" /\ i = 0 /\ round = 0
  /\ chunk_size = IF job.prog = "mem" THEN job.size ELSE 0
  /\ created = {}
  /\ context = [w \in Worker |-> "none"]
  /\ operation = [w \in Worker |-> 0]
  /\ mbox = [w \in Worker |-> <<>>]
  /\ spe = [w \in Worker |-> "idle"]
  /\ ran = [w \in Worker |-> <<>>]

data_size == IF chunk_size > MAX THEN MAX ELSE chunk_size

-----------------------------------------------------------------------------
(* main.                                                                   *)

Fork ==
  /\ mpc = "fork" /\ i < N
  /\ operation' = [operation EXCEPT ![i] = round]
  /\ context' = [context EXCEPT ![i] = "loaded"]
  /\ mbox' = [mbox EXCEPT ![i] = <<>>]
  /\ spe' = [spe EXCEPT ![i] = "idle"]
  /\ created' = created \cup {i}
  /\ IF job.prog = "mem" THEN mpc' = "mail" /\ UNCHANGED i
                         ELSE i' = i + 1 /\ UNCHANGED mpc
  /\ UNCHANGED <<tvars, job, round, chunk_size, ran>>

(* The thread is under way when main writes what its SPE will wait for.    *)
Mail ==
  /\ mpc = "mail"
  /\ mbox' = [mbox EXCEPT ![i] = <<"rep", data_size, "func">>]
  /\ i' = i + 1 /\ mpc' = "fork"
  /\ UNCHANGED <<tvars, job, round, chunk_size, created, context, operation,
                 spe, ran>>

Forked ==
  /\ mpc = "fork" /\ i = N
  /\ mpc' = "join" /\ i' = 0
  /\ UNCHANGED <<tvars, job, round, chunk_size, created, cell>>

Exited(w) == w \in created /\ phase[w] > round

(* (Slip: main destroys a context without waiting for its thread.)         *)
DestroyUnjoined ==
  /\ mpc = "join" /\ i < N
  /\ context' = [context EXCEPT ![i] = "destroyed"]
  /\ i' = i + 1
  /\ UNCHANGED <<tvars, job, mpc, round, chunk_size, created, operation, mbox, spe,
                 ran>>

JoinAndDestroy ==
  /\ mpc = "join" /\ i < N
  /\ Exited(i)
  /\ context' = [context EXCEPT ![i] = "destroyed"]
  /\ i' = i + 1
  /\ UNCHANGED <<tvars, job, mpc, round, chunk_size, created, operation, mbox, spe,
                 ran>>

LastPhase ==
  IF job.prog = "mem" THEN chunk_size = data_size
                      ELSE round + 1 = thr_counter(job.func)

(* time_dif[count1] = my_time2 - my_time1, or added up in the one time_dif *)
(* of the memory benchmark.                                                *)
TakeTime ==
  /\ mpc = "join" /\ i = N
  /\ gtime' = [gtime EXCEPT ![round] = <<gtime1, gtime2>>]
  /\ round' = round + 1
  /\ chunk_size' = chunk_size - data_size
  /\ created' = {}
  /\ i' = 0
  /\ mpc' = IF LastPhase THEN "done" ELSE "fork"
  /\ UNCHANGED <<vars, routine, phase, step, gtime1, gtime2, loaded, stored,
                 job, cell>>

Main == Fork \/ Mail \/ Forked \/ JoinAndDestroy \/ TakeTime

-----------------------------------------------------------------------------
(* The threads and their SPEs.                                             *)

(* The SPE is run between the two barriers.                                *)
RunSpe(w) ==
  /\ w \in created /\ phase[w] = round
  /\ pc[w] = "out" /\ step[w] = 1 /\ spe[w] = "idle"
  /\ spe' = [spe EXCEPT ![w] = "running"]
  /\ UNCHANGED <<tvars, job, main, context, operation, mbox, ran>>

(* It fetches its part of pd, or takes three words from its mailbox, the   *)
(* second of which is the size of the data, works and stops.               *)
SpeStops(w) ==
  /\ spe[w] = "running" /\ context[w] = "loaded"
  /\ IF job.prog = "mem"
       THEN /\ Len(mbox[w]) = 3
            /\ ran' = [ran EXCEPT ![w] = Append(@, mbox[w][2])]
       ELSE ran' = [ran EXCEPT ![w] = Append(@, Kernel[job.func][operation[w] + 1])]
  /\ spe' = [spe EXCEPT ![w] = "stopped"]
  /\ UNCHANGED <<tvars, job, main, context, operation, mbox>>

(* The thread passes the barrier like a worker of PhaseTiming.             *)
PassBarrier(w) ==
  /\ w \in created /\ phase[w] = round
  /\ \/ TLock(w) /\ (step[w] = 1 => spe[w] = "stopped")
     \/ InBarrier(w) \/ TBroadcast(w) \/ TUnlock(w)
  /\ UNCHANGED <<job, main, cell>>

CellThread(w) == RunSpe(w) \/ SpeStops(w) \/ PassBarrier(w)

CellStep == Main \/ \E w \in Worker : CellThread(w)

Ended == mpc = "done" /\ UNCHANGED cvars

CNext == IF job.prog = "none" THEN TNext /\ UNCHANGED <<job, main, cell>>
                              ELSE CellStep \/ Ended

CSpec == CInit /\ [][CNext]_cvars

(* Every thread and every SPE runs on.                                     *)
CFairSpec ==
  /\ CSpec
  /\ WF_cvars(job.prog # "none" /\ Main)
  /\ WF_cvars(job.prog = "none" /\ MainStores /\ UNCHANGED <<job, main, cell>>)
  /\ \A w \in Worker :
       WF_cvars(IF job.prog = "none" THEN Work(w) /\ UNCHANGED <<job, main, cell>>
                                     ELSE CellThread(w))

-----------------------------------------------------------------------------
(* The SPE program that runs always finds its context: main destroys none  *)
(* before the thread that uses it has ended.                               *)
ContextInUse ==
  \A w \in Worker : spe[w] = "running" => context[w] = "loaded"

(* Laid end to end, from 0, the parts s reach to total.                    *)
AddsUp(s, total) ==
  \E end \in [0 .. Len(s) -> 0 .. total] :
    /\ end[0] = 0 /\ end[Len(s)] = total
    /\ \A k \in 1 .. Len(s) : end[k] = end[k - 1] + s[k]

(* Each time printed is the time of what it is printed for: in the phase   *)
(* of that result every SPE did what its name says (cpu), or copied its    *)
(* own part, and the parts are all of the data and none is greater than    *)
(* the SPE's buffer (mem).  How often it did so is not compared.           *)
PrintedIsWhatRan ==
  \A w \in Worker :
    /\ job.prog = "cpu" => IsPrefix(ran[w], Label[job.func])
    /\ job.prog = "mem" => \A k \in DOMAIN ran[w] : ran[w][k] <= MAX
    /\ mpc = "done" =>
         /\ job.prog = "cpu" => ran[w] = Label[job.func]
         /\ job.prog = "mem" => AddsUp(ran[w], job.size)
=============================================================================
