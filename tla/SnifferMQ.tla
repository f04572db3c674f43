------------------------------ MODULE SnifferMQ ------------------------------
(***************************************************************************)
(* The packet sniffer of apps/sniffer/sniffer_MQ and sniffer_MQ_optimized: *)
(* main, the dispatcher, receives packets from one raw socket and deals    *)
(* them out to its workers in turn, each of which has a ring of its own,   *)
(* with two indices and no lock; a time keeper ends the process.           *)
(*                                                                         *)
(* A packet is a number and what the workers tell packets apart by.  A     *)
(* step of the dispatcher or of a worker ends where it has read or written *)
(* an index, a slot or a counter.  Once the time keeper has freed the      *)
(* rings the behaviour is undefined, and is not followed any further.      *)
(***************************************************************************)
EXTENDS Integers, Sequences, FiniteSetsExt

CONSTANTS
  Options,      (* the command lines of the runs                            *)
  MaxPackets,   (* bound: how many packets come in on the interface         *)
  MaxErrors     (* bound: how many calls of recvfrom fail                   *)

OptionType == [optimized : BOOLEAN, numwrkr : Nat \ {0}, Q_len : Nat,
               execution_mode : 3 .. 5]

ASSUME OptionsAssumption == Options \subseteq OptionType
ASSUME BoundsAssumption == MaxPackets \in Nat /\ MaxErrors \in Nat

Kind == {"tcp", "ip", "other"}     \* TCP over IP, other IP, not IP
Null == [n |-> -1, kind |-> "null"]  \* ethHeader is NULL: nothing received
Packet == [n : 0 .. MaxPackets - 1, kind : Kind] \cup {Null}

VARIABLES
  opts,                      \* the options of this run
  slot, geti, puti,          \* the rings: wrkr_Q and their indices
  dpc, turn,                 \* the dispatcher, and the worker whose turn it is
  packets, dropped,          \* its counters
  wpc, num_pckts_processed,  \* the workers, and their counters
  ctrl_c,
  kpc, summed, pprocessed,   \* the time keeper: its step, its loop, its sum
  report,                    \* what it prints
  arrived, errors,           \* the packets received and the failed calls
  crashed                    \* a worker or the dispatcher has trapped

rings == <<slot, geti, puti>>
dispatcher == <<dpc, turn, packets, dropped>>
workers == <<wpc, num_pckts_processed>>
keeper == <<ctrl_c, kpc, summed, pprocessed, report>>
vars == <<opts, rings, dispatcher, workers, keeper, arrived, errors, crashed>>

Worker == 0 .. opts.numwrkr - 1

(* The packet queue length of the options is split between the rings.      *)
Q(j) == opts.Q_len \div opts.numwrkr
          + (IF j < opts.Q_len % opts.numwrkr THEN 1 ELSE 0)

After(k, j) == (k + 1) % Q(j)

(* (Slips: a ring taken for empty when the indices are equal, or never;    *)
(* a ring never taken for full.)                                           *)
EmptyIfEqual(j) == geti[j] = puti[j]
NeverEmpty(j) == FALSE
NeverFull(j) == FALSE

Empty(j) == After(geti[j], j) = puti[j]
Full(j) == geti[j] = puti[j]

Unset == -1

Init ==
  /\ opts \in Options
  /\ slot = [j \in Worker |-> [k \in 0 .. Q(j) - 1 |-> Null]]
  /\ geti = [j \in Worker |-> Q(j) - 1] /\ puti = [j \in Worker |-> 0]
  /\ dpc = "choose" /\ turn = 0 /\ packets = 0 /\ dropped = 0
  /\ wpc = [j \in Worker |-> "loop"]
  /\ num_pckts_processed = [j \in Worker |-> 0]
  /\ ctrl_c = 0 /\ kpc = "sleep" /\ summed = 0 /\ pprocessed = 0
  /\ report = [packets |-> Unset, dropped |-> Unset]
  /\ arrived = 0 /\ errors = 0 /\ crashed = FALSE

Running == ~crashed /\ kpc # "exit"

-----------------------------------------------------------------------------
(* The dispatcher.                                                         *)

NextTurn == (turn + 1) % opts.numwrkr

(* (Slip: the dispatcher does not look at ctrl_c.)                         *)
ChooseAnyhow ==
  /\ Running
  /\ dpc = "choose" /\ Q(turn) > 0
  /\ dpc' = IF Full(turn) THEN "drop" ELSE "store"
  /\ UNCHANGED <<opts, rings, turn, packets, dropped, workers, keeper,
                 arrived, errors, crashed>>

(* A full ring decides that the packet to come will be dropped, whenever   *)
(* it comes.                                                               *)
Choose ==
  /\ Running
  /\ dpc = "choose" /\ ctrl_c = 0
  /\ Q(turn) > 0
  /\ dpc' = IF Full(turn) THEN "drop" ELSE "store"
  /\ UNCHANGED <<opts, rings, turn, packets, dropped, workers, keeper,
                 arrived, errors, crashed>>

(* After ctrl_c only the inner loop is left: main goes round for ever.     *)
Break ==
  /\ Running
  /\ dpc = "choose" /\ ctrl_c = 1
  /\ turn' = 0
  /\ UNCHANGED <<opts, rings, dpc, packets, dropped, workers, keeper, arrived,
                 errors, crashed>>

(* recvfrom fills the slot; when it fails, which is ignored, the slot is   *)
(* what it was.                                                            *)
Receive ==
  /\ Running
  /\ dpc = "store" /\ arrived < MaxPackets
  /\ \E k \in Kind :
       slot' = [slot EXCEPT ![turn][puti[turn]] = [n |-> arrived, kind |-> k]]
  /\ arrived' = arrived + 1
  /\ dpc' = "publish"
  /\ UNCHANGED <<opts, geti, puti, turn, packets, dropped, workers, keeper,
                 errors, crashed>>

ReceiveFails ==
  /\ Running
  /\ dpc = "store" /\ errors < MaxErrors
  /\ errors' = errors + 1
  /\ dpc' = "publish"
  /\ UNCHANGED <<opts, rings, turn, packets, dropped, workers, keeper, arrived,
                 crashed>>

Publish ==
  /\ Running
  /\ dpc = "publish"
  /\ puti' = [puti EXCEPT ![turn] = After(@, turn)]
  /\ dpc' = "count"
  /\ UNCHANGED <<opts, slot, geti, turn, packets, dropped, workers, keeper,
                 arrived, errors, crashed>>

CountPacket ==
  /\ Running
  /\ dpc = "count"
  /\ packets' = packets + 1
  /\ turn' = NextTurn
  /\ dpc' = "choose"
  /\ UNCHANGED <<opts, rings, dropped, workers, keeper, arrived, errors, crashed>>

(* A packet that is dropped is received into dcntx.                        *)
ReceiveDropped ==
  /\ Running
  /\ dpc = "drop"
  /\ \/ /\ arrived < MaxPackets
        /\ arrived' = arrived + 1 /\ UNCHANGED errors
     \/ /\ errors < MaxErrors
        /\ errors' = errors + 1 /\ UNCHANGED arrived
  /\ packets' = packets + 1
  /\ dpc' = "countdrop"
  /\ UNCHANGED <<opts, rings, turn, dropped, workers, keeper, crashed>>

CountDropped ==
  /\ Running
  /\ dpc = "countdrop"
  /\ dropped' = dropped + 1
  /\ turn' = NextTurn
  /\ dpc' = "choose"
  /\ UNCHANGED <<opts, rings, packets, workers, keeper, arrived, errors, crashed>>

(* A ring of length 0: the index is taken modulo 0.                        *)
DispatcherTraps ==
  /\ Running
  /\ dpc = "choose" /\ ctrl_c = 0
  /\ Q(turn) = 0
  /\ crashed' = TRUE
  /\ UNCHANGED <<opts, rings, dispatcher, workers, keeper, arrived, errors>>

Dispatcher ==
  \/ Choose \/ Break \/ Receive \/ ReceiveFails \/ Publish \/ CountPacket
  \/ ReceiveDropped \/ CountDropped \/ DispatcherTraps

-----------------------------------------------------------------------------
(* The workers.                                                            *)

Claimed(j) == slot[j][geti[j]]

(* A worker moves its index first and then works on the slot, which Full   *)
(* keeps from the dispatcher until the index moves on.  ctrl_c was 0 when  *)
(* the worker last looked at it, which may be before it was set.           *)
Claim(j) ==
  /\ Running
  /\ wpc[j] = "loop" /\ Q(j) > 0 /\ ~Empty(j)
  /\ geti' = [geti EXCEPT ![j] = After(@, j)]
  /\ wpc' = [wpc EXCEPT ![j] = "process"]
  /\ UNCHANGED <<opts, slot, puti, dispatcher, num_pckts_processed, keeper,
                 arrived, errors, crashed>>

(* sniffer_MQ looks for a TCP header, in the modes that want one, in a     *)
(* loop that never ends for a packet without one.                          *)
Stuck(j) ==
  /\ wpc[j] = "process"
  /\ Claimed(j).kind = "ip" /\ opts.execution_mode # 3 /\ ~opts.optimized

(* sniffer_MQ counts the IP packets only.                                  *)
Counts(j) == opts.optimized \/ Claimed(j).kind # "other"

(* (Slip: the worker returns where it should go on.)                       *)
ProcessReturns(j) ==
  /\ Running
  /\ wpc[j] = "process" /\ Claimed(j) # Null /\ ~Stuck(j)
  /\ num_pckts_processed' =
       [num_pckts_processed EXCEPT ![j] = IF Counts(j) THEN @ + 1 ELSE @]
  /\ wpc' = [wpc EXCEPT ![j] = "ended"]
  /\ UNCHANGED <<opts, rings, dispatcher, keeper, arrived, errors, crashed>>

Process(j) ==
  /\ Running
  /\ wpc[j] = "process" /\ Claimed(j) # Null /\ ~Stuck(j)
  /\ num_pckts_processed' =
       [num_pckts_processed EXCEPT ![j] = IF Counts(j) THEN @ + 1 ELSE @]
  /\ wpc' = [wpc EXCEPT ![j] = "loop"]
  /\ UNCHANGED <<opts, rings, dispatcher, keeper, arrived, errors, crashed>>

(* Mode 3 of sniffer_MQ_optimized never looks at the header.               *)
ProcessUnseen(j) ==
  /\ Running
  /\ wpc[j] = "process" /\ Claimed(j) = Null
  /\ opts.optimized /\ opts.execution_mode = 3
  /\ num_pckts_processed' = [num_pckts_processed EXCEPT ![j] = @ + 1]
  /\ wpc' = [wpc EXCEPT ![j] = "loop"]
  /\ UNCHANGED <<opts, rings, dispatcher, keeper, arrived, errors, crashed>>

(* A slot that recvfrom has never filled, and a ring of length 0.          *)
WorkerTraps(j) ==
  /\ Running
  /\ \/ /\ wpc[j] = "process" /\ Claimed(j) = Null
        /\ ~(opts.optimized /\ opts.execution_mode = 3)
     \/ wpc[j] = "loop" /\ Q(j) = 0
  /\ crashed' = TRUE
  /\ UNCHANGED <<opts, rings, dispatcher, workers, keeper, arrived, errors>>

WorkerEnds(j) ==
  /\ Running
  /\ wpc[j] = "loop" /\ ctrl_c = 1
  /\ wpc' = [wpc EXCEPT ![j] = "ended"]
  /\ UNCHANGED <<opts, rings, dispatcher, num_pckts_processed, keeper, arrived,
                 errors, crashed>>

WorkerStep(j) ==
  \/ Claim(j) \/ Process(j) \/ ProcessUnseen(j) \/ WorkerTraps(j) \/ WorkerEnds(j)

-----------------------------------------------------------------------------
(* The time keeper.                                                        *)

WakeUp ==
  /\ Running
  /\ kpc = "sleep"
  /\ ctrl_c' = 1
  /\ kpc' = "sum"
  /\ UNCHANGED <<opts, rings, dispatcher, workers, summed, pprocessed, report,
                 arrived, errors, crashed>>

Sum ==
  /\ Running
  /\ kpc = "sum" /\ summed < opts.numwrkr
  /\ pprocessed' = pprocessed + num_pckts_processed[summed]
  /\ summed' = summed + 1
  /\ UNCHANGED <<opts, rings, dispatcher, workers, ctrl_c, kpc, report, arrived,
                 errors, crashed>>

(* C does not say which argument of mpac_sniffer_output is read first.     *)
ReadCounter ==
  /\ Running
  /\ kpc = "sum" /\ summed = opts.numwrkr
  /\ \/ /\ report.packets = Unset
        /\ report' = [report EXCEPT !.packets = packets]
     \/ /\ report.dropped = Unset
        /\ report' = [report EXCEPT !.dropped = dropped]
  /\ UNCHANGED <<opts, rings, dispatcher, workers, ctrl_c, kpc, summed,
                 pprocessed, arrived, errors, crashed>>

Reported == report.packets # Unset /\ report.dropped # Unset

FreeAndExit ==
  /\ Running
  /\ kpc = "sum" /\ Reported
  /\ kpc' = "exit"
  /\ UNCHANGED <<opts, rings, dispatcher, workers, ctrl_c, summed, pprocessed,
                 report, arrived, errors, crashed>>

TimeKeeper == WakeUp \/ Sum \/ ReadCounter \/ FreeAndExit

-----------------------------------------------------------------------------
Over == ~Running /\ UNCHANGED vars

Next == Over \/ Dispatcher \/ TimeKeeper \/ \E j \in Worker : WorkerStep(j)

Spec == Init /\ [][Next]_vars

AnyWorker == 0 .. Max({o.numwrkr : o \in Options}) - 1

(* The threads run on.  Nothing is assumed of the network, nor of the time *)
(* keeper, which may sleep for as long as it takes.                        *)
FairSpec ==
  /\ Spec
  /\ \A j \in AnyWorker : WF_vars(j \in Worker /\ WorkerStep(j))
  /\ WF_vars(Choose \/ Publish \/ CountPacket \/ CountDropped)

-----------------------------------------------------------------------------
TypeOK ==
  /\ opts \in OptionType
  /\ DOMAIN slot = Worker /\ \A j \in Worker : slot[j] \in [0 .. Q(j) - 1 -> Packet]
  /\ geti \in [Worker -> Int] /\ puti \in [Worker -> Int]
  /\ \A j \in Worker : Q(j) > 0 => {geti[j], puti[j]} \subseteq 0 .. Q(j) - 1
  /\ dpc \in {"choose", "store", "publish", "count", "drop", "countdrop"}
  /\ turn \in Worker
  /\ packets \in Nat /\ dropped \in Nat
  /\ wpc \in [Worker -> {"loop", "process", "ended"}]
  /\ num_pckts_processed \in [Worker -> Nat]
  /\ ctrl_c \in {0, 1} /\ kpc \in {"sleep", "sum", "exit"}
  /\ summed \in 0 .. opts.numwrkr /\ pprocessed \in Nat
  /\ report \in [packets : Int, dropped : Int]
  /\ arrived \in 0 .. MaxPackets /\ errors \in 0 .. MaxErrors
  /\ crashed \in BOOLEAN

(* The dispatcher never receives into the slot a worker works on, nor into *)
(* one that is still queued: a ring is decided to have room before the     *)
(* packet comes, and the worker moves its index meanwhile.                 *)
Queued(j) == IF Q(j) = 0 THEN 0 ELSE (puti[j] - geti[j] - 1) % Q(j)
QueuedSlots(j) == {(geti[j] + k) % Q(j) : k \in 1 .. Queued(j)}

SlotIsDispatchers ==
  dpc \in {"store", "publish"} =>
    /\ wpc[turn] = "process" => puti[turn] # geti[turn]
    /\ puti[turn] \notin QueuedSlots(turn)

(* The numbers the sniffer prints fit together: the packets processed are  *)
(* at most those captured and not dropped, but for the one packet the      *)
(* dispatcher has handed over and not counted yet.  Three actors write and *)
(* read these counters without a lock.                                     *)
ReportAddsUp ==
  Reported => pprocessed <= report.packets - report.dropped + 1

(* Neither ring arithmetic nor an empty slot traps, unless the queue is    *)
(* shorter than the number of workers or recvfrom failed.                  *)
TrapsOnlyOnMisuse ==
  crashed => opts.Q_len < opts.numwrkr \/ errors > 0

capacities == [j \in Worker |-> IF Q(j) = 0 THEN 0 ELSE Q(j) - 1]
queues == [j \in Worker |-> [k \in 1 .. Queued(j) |-> slot[j][(geti[j] + k) % Q(j)]]]
hands == [j \in Worker |-> IF wpc[j] = "process" THEN <<Claimed(j)>> ELSE <<>>]

Rings == INSTANCE PacketQueues WITH cap <- capacities, q <- queues, busy <- hands

(* The rings are FIFO queues: nothing is overwritten, skipped or handed    *)
(* over twice, and a ring of length Q holds Q - 1 packets besides the one  *)
(* that is worked on.                                                      *)
ImplementsPacketQueues == Rings!Spec

(* What a worker is handed it comes to, unless the process ends first or   *)
(* the worker itself is stuck in a packet without a TCP header.            *)
Backlog(j) == j \in Worker /\ Queued(j) > 0 /\ ~Stuck(j)

QueuedIsProcessed ==
  \A j \in AnyWorker : Backlog(j) ~> (ctrl_c = 1 \/ crashed \/ ~Backlog(j))
=============================================================================
