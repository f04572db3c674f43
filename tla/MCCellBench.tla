----------------------------- MODULE MCCellBench -----------------------------
(* TLC instance of CellBench and, with the job "none", of PhaseTiming: a   *)
(* routine of benchmarks/cpu with three phases and one of benchmarks/mem   *)
(* with four rounds in its only phase; on the Cell, all functions, and     *)
(* data of no, one and two whole parts and a bit.                          *)
EXTENDS CellBench

MCRoutines == {[phases |-> 3, reps |-> 0, stores |-> "worker"],
               [phases |-> 1, reps |-> 4, stores |-> "main"]}
    \cup [phases : {1, 3, 5}, reps : {0}, stores : {"main, each phase"}]

MCJobs == {[prog |-> "none"]} \cup [prog : {"cpu"}, func : {"i", "f", "l"}]
            \cup [prog : {"mem"}, size : {0, 2, 5}]
=============================================================================
