------------------------------ MODULE Services ------------------------------
(***************************************************************************)
(* The services of common/ as programs use them, one program to a run:     *)
(*   init     mpac_init: the processors are counted, then the clocks and   *)
(*            loops measured and the least measurable durations found,     *)
(*   pin      a thread that counts the processors to be pinned to one,     *)
(*   read     the length of a file, then its content,                      *)
(*   measure  one function of Clocks,                                      *)
(*   stats    a few functions of Statistics on one array.                  *)
(***************************************************************************)
EXTENDS FileInput, Clocks, Statistics

CONSTANT Jobs

(* The only NUL is the one that ends a string: a text file has none.       *)
TextChar == Char \ {"nul"}

ASSUME JobsAssumption ==
  Jobs \subseteq [kind : {"init", "pin", "read"}, arg : Seq(TextChar)]
                  \cup [kind : {"measure"}, arg : Seq(Calls)]
                  \cup [kind : {"stats"}, arg : Seq(Int)]

(* MaxCount bounds no count of lines.                                      *)
ASSUME CountAssumption ==
  \A j \in Jobs : j.kind \in {"init", "pin"} => Len(j.arg) <= MaxCount

InitCalls == <<"overhead_gtd", "overhead_rtc", "swrtc", "loop_overhead", "clock_gtd", "clock_rtc">>

VARIABLES job, min_measurable

others == <<job, min_measurable>>
vars == <<fvars, mvars, svars, others>>

VInit ==
  /\ job \in Jobs
  /\ min_measurable = [gtd |-> 0, rtc |-> 0]
  /\ CASE job.kind \in {"init", "pin"} -> FInit("open", job.arg)
       [] job.kind = "read" -> FInit("length", job.arg)
       [] OTHER -> FInit("off", <<>>)
  /\ MInit(IF job.kind = "init" THEN InitCalls ELSE IF job.kind = "measure" THEN job.arg ELSE <<>>)
  /\ IF job.kind = "stats" THEN SInit(0, job.arg) ELSE SInit(MaxCalls, <<>>)

UsesFile ==
  /\ ~(job.kind = "init" /\ fpc = "counted")
  /\ FNext /\ UNCHANGED <<mvars, svars, others>>

FileGrows == Grow /\ UNCHANGED <<mvars, svars, others>>

(* 10 * (resolution of the clock - overhead of a loop - overhead of a      *)
(* call), in units of 1/Loops tick.                                        *)
MinMeasurable(res, res_clk, ovh) == 10 * (res_clk * Loops - ovh - res)

(* mpac_init goes on to the clocks when the processors are counted.        *)
Measures ==
  /\ MNext
  /\ job.kind = "init" => fpc = "counted"
  /\ UNCHANGED <<fvars, svars, others>>

InitReturns ==
  /\ job.kind = "init" /\ fpc = "counted" /\ todo = <<>>
  /\ fpc' = "off"
  /\ min_measurable' =
       [gtd |-> MinMeasurable(result["overhead_gtd"], result["clock_gtd"], result["loop_overhead"]),
        rtc |-> MinMeasurable(result["overhead_rtc"], result["clock_rtc"], result["loop_overhead"])]
  /\ UNCHANGED <<opened, len, copied, errors, failed, grown, readvars, mvars, svars, job>>

Computes == SNext /\ UNCHANGED <<fvars, mvars, others>>

Over == FDone /\ todo = <<>> /\ made = MaxCalls /\ loop = "none"

Stop == Over /\ UNCHANGED vars

VNext == UsesFile \/ FileGrows \/ Measures \/ InitReturns \/ Computes \/ Stop

VSpec == VInit /\ [][VNext]_vars
VFairSpec ==
  VSpec /\ WF_vars(UsesFile) /\ WF_vars(Measures) /\ WF_vars(InitReturns) /\ WF_vars(Computes)

-----------------------------------------------------------------------------
(* Every program comes to its end whatever the file holds, wherever a read *)
(* fails and however coarse the clock is, unless open fails for the        *)
(* processors: then each read fails as well, and only a 0 would end the    *)
(* loop that counts them.                                                  *)
ProgramsEnd == <>(Over \/ (job.kind \in {"init", "pin"} /\ opened = "none" /\ fpc # "open"))
=============================================================================
