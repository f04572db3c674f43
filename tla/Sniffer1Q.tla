------------------------------ MODULE Sniffer1Q ------------------------------
(***************************************************************************)
(* The packet sniffer of apps/sniffer/sniffer_1Q: main, the dispatcher,    *)
(* goes round one array of slots, pckts, and receives a packet into every  *)
(* slot that is marked empty; each worker goes round a share of the same   *)
(* slots and marks those it has processed.  The mark is all that keeps     *)
(* the two apart.  A time keeper ends the process.                         *)
(*                                                                         *)
(* A packet is what the threads tell packets apart by, its length and what *)
(* kind it is.  A step ends where it has read or written a mark, a slot or *)
(* a counter.  A use of memory that is freed or was never set (crashed) is *)
(* not followed any further.                                               *)
(***************************************************************************)
EXTENDS Integers, FiniteSetsExt

CONSTANTS
  Options,      (* the command lines of the runs                            *)
  Packets,      (* the packets on the interface                             *)
  MaxPackets,   (* bound: how many packets come in on the interface         *)
  MaxErrors     (* bound: how many calls of recvfrom fail on an open socket *)

OptionType == [numwrkr : Nat \ {0}, Q_len : Nat, execution_mode : 3 .. 5]

ASSUME OptionsAssumption == Options \subseteq OptionType
ASSUME PacketsAssumption ==
  Packets \subseteq [kind : {"tcp", "ip", "bad", "other"}, len : Nat]
ASSUME BoundsAssumption == MaxPackets \in Nat /\ MaxErrors \in Nat

(* TCP, other IP, IP whose header cannot be right, not IP; and what a slot *)
(* is before the first receive, when ethHeader is NULL.                    *)
Null == [kind |-> "null", len |-> 0]

VARIABLES
  opts,
  slot, empty,               \* pckts: what a slot holds, and its mark
  dpc, turn,                 \* the dispatcher and its loop variable
  data,                      \* its count, less what recvfrom returned to it
  wpc, at,                   \* the workers and their loop variables
  ctrl_c, kpc, joined,       \* the time keeper, its last loop variable
  open,                      \* the raw socket
  arrived, errors,           \* packets received and failed calls so far
  crashed

slots == <<slot, empty>>
dispatcher == <<dpc, turn, data>>
workers == <<wpc, at>>
keeper == <<ctrl_c, kpc, joined, open>>
network == <<arrived, errors>>
vars == <<opts, slots, dispatcher, workers, keeper, network, crashed>>

Slot == 0 .. opts.Q_len - 1
Worker == 0 .. opts.numwrkr - 1

Init ==
  /\ opts \in Options
  /\ slot = [i \in Slot |-> Null] /\ empty = [i \in Slot |-> 1]
  /\ dpc = "scan" /\ turn = 0 /\ data = 0
  /\ wpc = [j \in Worker |-> "scan"] /\ at = [j \in Worker |-> j]
  /\ ctrl_c = 0 /\ kpc = "sleep" /\ joined = 0 /\ open = TRUE
  /\ arrived = 0 /\ errors = 0 /\ crashed = FALSE

Running == ~crashed /\ kpc # "exit"

-----------------------------------------------------------------------------
(* mpac_sniff_rawpacket, begun on an open socket, into slot i: a packet,   *)
(* or an error, which leaves the packet that was there with length -1.     *)
Arrives(i) ==
  /\ arrived < MaxPackets
  /\ \E p \in Packets : slot' = [slot EXCEPT ![i] = p]
  /\ arrived' = arrived + 1 /\ UNCHANGED errors

Fails(i) == slot' = [slot EXCEPT ![i].len = -1]

(* The dispatcher.                                                         *)
NextTurn == (turn + 1) % opts.Q_len

PassOver ==
  /\ Running
  /\ dpc = "scan" /\ opts.Q_len > 0 /\ empty[turn] = 0
  /\ turn' = NextTurn
  /\ UNCHANGED <<opts, slots, dpc, data, workers, keeper, network, crashed>>

(* (Slip: the mark is not looked at.)                                      *)
TakeAny ==
  /\ Running
  /\ dpc = "scan" /\ opts.Q_len > 0 /\ open
  /\ dpc' = "receive"
  /\ UNCHANGED <<opts, slots, turn, data, workers, keeper, network, crashed>>

Take ==
  /\ Running
  /\ dpc = "scan" /\ opts.Q_len > 0 /\ empty[turn] = 1 /\ open
  /\ dpc' = "receive"
  /\ UNCHANGED <<opts, slots, turn, data, workers, keeper, network, crashed>>

(* On the closed socket every call fails at once.                          *)
TakeClosed ==
  /\ Running
  /\ dpc = "scan" /\ opts.Q_len > 0 /\ empty[turn] = 1 /\ ~open
  /\ Fails(turn) /\ data' = data + 1
  /\ dpc' = "handover"
  /\ UNCHANGED <<opts, empty, turn, workers, keeper, network, crashed>>

(* A call under way when the socket is closed goes on waiting.             *)
Receive ==
  /\ Running
  /\ dpc = "receive"
  /\ Arrives(turn) \/ (errors < MaxErrors /\ Fails(turn)
                         /\ errors' = errors + 1 /\ UNCHANGED arrived)
  /\ data' = data - slot'[turn].len
  /\ dpc' = "handover"
  /\ UNCHANGED <<opts, empty, turn, workers, keeper, crashed>>

HandOver ==
  /\ Running
  /\ dpc = "handover"
  /\ empty' = [empty EXCEPT ![turn] = 0]
  /\ dpc' = "add"
  /\ UNCHANGED <<opts, slot, turn, data, workers, keeper, network, crashed>>

(* (Slip: the length of the slot the loop goes to next.)                   *)
AddLengthOfNext ==
  /\ Running
  /\ dpc = "add"
  /\ data' = data + slot[NextTurn].len
  /\ turn' = NextTurn /\ dpc' = "scan"
  /\ UNCHANGED <<opts, slots, workers, keeper, network, crashed>>

(* The length is read from the slot after it has been handed over.         *)
AddLength ==
  /\ Running
  /\ dpc = "add"
  /\ data' = data + slot[turn].len
  /\ turn' = NextTurn /\ dpc' = "scan"
  /\ UNCHANGED <<opts, slots, workers, keeper, network, crashed>>

Dispatcher == PassOver \/ Take \/ TakeClosed \/ Receive \/ HandOver \/ AddLength

-----------------------------------------------------------------------------
(* The workers.                                                            *)

Go(j, to) == wpc' = [wpc EXCEPT ![j] = to]
ToNextSlot(j) == at' = [at EXCEPT ![j] = @ + opts.numwrkr]

InPass(j) == wpc[j] = "scan" /\ at[j] < opts.Q_len
Full(j) == InPass(j) /\ empty[at[j]] = 0
IsIP(p) == p.kind \in {"tcp", "ip", "bad"}

(* A slot that is empty, or holds a packet that is not IP, is passed over. *)
Skip(j) ==
  /\ Running
  /\ InPass(j) /\ (empty[at[j]] = 1 \/ slot[at[j]].kind = "other")
  /\ ToNextSlot(j)
  /\ UNCHANGED <<opts, slots, dispatcher, wpc, keeper, network, crashed>>

(* The first receive into the slot failed: there is no header to look at.  *)
Trap(j) ==
  /\ Running
  /\ Full(j) /\ slot[at[j]].kind = "null"
  /\ crashed' = TRUE
  /\ UNCHANGED <<opts, slots, dispatcher, workers, keeper, network>>

Enter(j) ==
  /\ Running
  /\ Full(j) /\ IsIP(slot[at[j]])
  /\ Go(j, IF opts.execution_mode = 3 THEN "count" ELSE "extract")
  /\ UNCHANGED <<opts, slots, dispatcher, at, keeper, network, crashed>>

(* In modes 4 and 5 the header extraction does not look at the packet in   *)
(* the slot: mpac_sniff_ippacket receives another one into it ...          *)
Extract(j) ==
  /\ Running
  /\ wpc[j] = "extract"
  /\ IF open THEN Go(j, "receive") /\ UNCHANGED slot
             ELSE Go(j, "examine") /\ Fails(at[j])
  /\ UNCHANGED <<opts, empty, dispatcher, at, keeper, network, crashed>>

(* ... and again, until it is IP and, mpac_sniff_extract_tcpheader, TCP or *)
(* not to be used; an error ends it too.                                   *)
Extracted(p) == p.kind \in {"tcp", "bad"}

ReceiveAgain(j) ==
  /\ Running
  /\ wpc[j] = "receive"
  /\ \/ /\ Arrives(at[j])
        /\ Go(j, IF Extracted(slot'[at[j]]) THEN "examine" ELSE "extract")
     \/ /\ errors < MaxErrors /\ Fails(at[j])
        /\ errors' = errors + 1 /\ UNCHANGED arrived
        /\ Go(j, "examine")
  /\ UNCHANGED <<opts, empty, dispatcher, at, keeper, crashed>>

(* The five-tuple or the payload is compared: what comes of it is ignored. *)
Examine(j) ==
  /\ Running
  /\ wpc[j] = "examine"
  /\ Go(j, "count")
  /\ UNCHANGED <<opts, slots, dispatcher, at, keeper, network, crashed>>

(* The counters of packets and bytes only feed the report: left out.        *)
Freed == kpc \in {"join", "exit"}

Count(j) ==
  /\ Running
  /\ wpc[j] = "count" /\ ~Freed
  /\ Go(j, "release")
  /\ UNCHANGED <<opts, slots, dispatcher, at, keeper, network, crashed>>

(* The time keeper frees the counters before it waits for the workers.     *)
CountFreed(j) ==
  /\ Running
  /\ wpc[j] = "count" /\ Freed
  /\ crashed' = TRUE
  /\ UNCHANGED <<opts, slots, dispatcher, workers, keeper, network>>

(* (Slip: the slot is left marked.)                                        *)
ReleaseKeepsSlot(j) ==
  /\ Running
  /\ wpc[j] = "release"
  /\ Go(j, "scan") /\ ToNextSlot(j)
  /\ UNCHANGED <<opts, slots, dispatcher, keeper, network, crashed>>

Release(j) ==
  /\ Running
  /\ wpc[j] = "release"
  /\ empty' = [empty EXCEPT ![at[j]] = 1]
  /\ IF ctrl_c = 1 THEN Go(j, "ended") /\ UNCHANGED at
                   ELSE Go(j, "scan") /\ ToNextSlot(j)
  /\ UNCHANGED <<opts, slot, dispatcher, keeper, network, crashed>>

(* (Slip: a worker looks at ctrl_c behind a packet only.)                  *)
NextRoundAnyhow(j) ==
  /\ Running
  /\ wpc[j] = "scan" /\ at[j] >= opts.Q_len
  /\ at' = [at EXCEPT ![j] = j]
  /\ UNCHANGED <<opts, slots, dispatcher, wpc, keeper, network, crashed>>

(* ctrl_c is looked at when a round is over.                               *)
NextRound(j) ==
  /\ Running
  /\ wpc[j] = "scan" /\ at[j] >= opts.Q_len
  /\ IF ctrl_c = 1 THEN Go(j, "ended") /\ UNCHANGED at
                   ELSE at' = [at EXCEPT ![j] = j] /\ UNCHANGED wpc
  /\ UNCHANGED <<opts, slots, dispatcher, keeper, network, crashed>>

WorkerStep(j) ==
  \/ Skip(j) \/ Trap(j) \/ Enter(j) \/ Extract(j) \/ Examine(j)
  \/ Count(j) \/ CountFreed(j) \/ Release(j) \/ NextRound(j)

-----------------------------------------------------------------------------
(* The time keeper: it prints what it sums up, closes the socket, frees    *)
(* the counters and only then waits for the workers.                       *)

Keep(from, to) == Running /\ kpc = from /\ kpc' = to

WakeUp ==
  /\ Keep("sleep", "close") /\ ctrl_c' = 1
  /\ UNCHANGED <<opts, slots, dispatcher, workers, joined, open, network, crashed>>

Close ==
  /\ Keep("close", "free") /\ open' = FALSE
  /\ UNCHANGED <<opts, slots, dispatcher, workers, ctrl_c, joined, network, crashed>>

Free ==
  /\ Keep("free", "join")
  /\ UNCHANGED <<opts, slots, dispatcher, workers, ctrl_c, joined, open, network,
                 crashed>>

Join ==
  /\ Keep("join", "join")
  /\ joined < opts.numwrkr /\ wpc[joined] = "ended"
  /\ joined' = joined + 1
  /\ UNCHANGED <<opts, slots, dispatcher, workers, ctrl_c, open, network, crashed>>

Exit ==
  /\ Keep("join", "exit")
  /\ joined = opts.numwrkr
  /\ UNCHANGED <<opts, slots, dispatcher, workers, ctrl_c, joined, open, network,
                 crashed>>

Ending == Close \/ Free \/ Join \/ Exit

-----------------------------------------------------------------------------
Over == ~Running /\ UNCHANGED vars

Next == \/ Over \/ Dispatcher \/ WakeUp \/ Ending
        \/ \E j \in Worker : WorkerStep(j) \/ ReceiveAgain(j)

Spec == Init /\ [][Next]_vars

AnyWorker == 0 .. Max({o.numwrkr : o \in Options}) - 1

(* The threads run on.  Nothing is assumed of the network, nor of when the *)
(* time keeper wakes up.                                                   *)
FairSpec ==
  /\ Spec
  /\ \A j \in AnyWorker : WF_vars(j \in Worker /\ WorkerStep(j))
  /\ WF_vars(PassOver \/ Take \/ TakeClosed \/ HandOver \/ AddLength)
  /\ WF_vars(Ending)

-----------------------------------------------------------------------------
TypeOK ==
  /\ opts \in Options
  /\ slot \in [Slot -> [kind : {"tcp", "ip", "bad", "other", "null"}, len : Int]]
  /\ empty \in [Slot -> {0, 1}]
  /\ dpc \in {"scan", "receive", "handover", "add"}
  /\ turn \in 0 .. opts.Q_len /\ data \in Int
  /\ wpc \in [Worker -> {"scan", "extract", "receive", "examine", "count",
                         "release", "ended"}]
  /\ at \in [Worker -> Nat]
  /\ ctrl_c \in {0, 1} /\ kpc \in {"sleep", "close", "free", "join", "exit"}
  /\ joined \in 0 .. opts.numwrkr /\ open \in BOOLEAN
  /\ arrived \in 0 .. MaxPackets /\ errors \in 0 .. MaxErrors
  /\ crashed \in BOOLEAN

Uses(j) == wpc[j] \in {"extract", "receive", "examine", "count", "release"}
Receiving(i) == dpc \in {"receive", "handover"} /\ turn = i

(* A slot has one user at a time: while a worker is at work on one, in     *)
(* modes 4 and 5 receiving into it, the dispatcher does not receive into   *)
(* it and no other worker looks at it, although only the mark, written     *)
(* without a lock, says whose it is.                                       *)
OneUser ==
  \A j \in Worker : Uses(j) =>
    /\ empty[at[j]] = 0 /\ ~Receiving(at[j])
    /\ \A k \in Worker \ {j} : Uses(k) => at[k] # at[j]

(* In mode 3 the throughput printed is that of the packets received: the   *)
(* dispatcher's count, which it reads from a slot that it has already      *)
(* handed over, is the lengths it was returned.  (In modes 4 and 5 the     *)
(* worker may have received another packet into the slot by then.)         *)
DataIsReceived ==
  opts.execution_mode = 3 =>
    data + (IF dpc \in {"handover", "add"} THEN slot[turn].len ELSE 0) = 0

Lost(i) == empty[i] = 0 /\ slot[i].kind = "other"

(* The capture goes on: until the time is over somebody is at the socket   *)
(* again and again, unless every slot holds a packet that is not IP,       *)
(* which no worker ever releases.                                          *)
CaptureGoesOn ==
  []<>(\/ dpc = "receive" \/ \E j \in Worker : wpc[j] = "receive"
       \/ \A i \in Slot : Lost(i)
       \/ ctrl_c = 1 \/ ~Running)

(* In mode 3 the process ends when the time is over.  (In modes 4 and 5 a  *)
(* worker may be in recvfrom when the socket is closed, and the time       *)
(* keeper waits for it until one more packet comes.)                       *)
StopsInTime == (ctrl_c = 1 /\ opts.execution_mode = 3) ~> ~Running
=============================================================================
