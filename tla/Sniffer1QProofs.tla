--------------------------- MODULE Sniffer1QProofs ---------------------------
(***************************************************************************)
(* Who uses a slot of sniffer_1Q, and what its dispatcher counts, for      *)
(* every number of workers, slots and packets.                             *)
(***************************************************************************)
EXTENDS Sniffer1Q, TLAPS

-----------------------------------------------------------------------------
(* Worker j goes to the slots j, j + numwrkr, j + 2 * numwrkr, ...         *)
Shares == \A j \in Worker : \E k \in Nat : at[j] = j + k * opts.numwrkr

(* The mark says whose a slot is: it is set as long as the dispatcher      *)
(* receives, and not set as long as a worker is at work.                   *)
MarkTells ==
  /\ opts.Q_len > 0 => turn \in Slot
  /\ dpc # "scan" => opts.Q_len > 0
  /\ dpc \in {"receive", "handover"} => empty[turn] = 1
  /\ \A j \in Worker : Uses(j) => at[j] \in Slot /\ empty[at[j]] = 0

(* In mode 3 no worker receives.                                           *)
NoReceiver ==
  opts.execution_mode = 3 => \A j \in Worker : wpc[j] \notin {"extract", "receive", "examine"}

IInv == TypeOK /\ Shares /\ MarkTells /\ NoReceiver /\ DataIsReceived

LEMMA Remainder ==
  ASSUME NEW a \in Nat, NEW n \in Nat \ {0}
  PROVE  a % n \in 0 .. n - 1
OBVIOUS

(* Two workers are never at the same slot.                                 *)
LEMMA SharesDisjoint ==
  ASSUME NEW n \in Nat \ {0}, NEW j \in 0 .. n - 1, NEW l \in 0 .. n - 1,
         NEW x \in Nat, NEW y \in Nat, j + x * n = l + y * n
  PROVE  j = l
OBVIOUS

LEMMA NextOfShare ==
  ASSUME NEW n \in Nat, NEW j \in Nat, NEW x \in Nat
  PROVE  (j + x * n) + n = j + (x + 1) * n
OBVIOUS


(* A slot holds a packet, or after an error one of length -1.              *)
SlotType == [kind : {"tcp", "ip", "bad", "other", "null"}, len : Int]

LEMMA Typed == TypeOK => /\ opts \in OptionType
                         /\ slot \in [Slot -> SlotType]
<1>1. TypeOK => opts \in OptionType
  BY OptionsAssumption DEF TypeOK
<1>2. TypeOK => slot \in [Slot -> SlotType]
  BY DEF TypeOK, SlotType
<1>3. QED
  BY <1>1, <1>2

LEMMA InitInv == Init => IInv
<1> SUFFICES ASSUME Init PROVE IInv
  OBVIOUS
<1>1. opts.Q_len \in Nat /\ opts.numwrkr \in Nat \ {0}
  BY OptionsAssumption DEF Init, OptionType
<1>2. TypeOK
  <2>1. Null \in [kind : {"tcp", "ip", "bad", "other", "null"}, len : Int]
    BY DEF Null
  <2>2. slot \in [Slot -> [kind : {"tcp", "ip", "bad", "other", "null"}, len : Int]]
    BY <2>1 DEF Init
  <2>3. at \in [Worker -> Nat]
    BY <1>1 DEF Init, Worker
  <2>4. /\ empty \in [Slot -> {0, 1}]
        /\ wpc \in [Worker -> {"scan", "extract", "receive", "examine", "count", "release", "ended"}]
    BY DEF Init
  <2>5. /\ opts \in Options /\ turn \in 0 .. opts.Q_len /\ data \in Int
        /\ joined \in 0 .. opts.numwrkr
    BY <1>1 DEF Init
  <2>6. /\ dpc = "scan" /\ ctrl_c = 0 /\ kpc = "sleep" /\ open \in BOOLEAN
        /\ arrived = 0 /\ errors = 0 /\ crashed \in BOOLEAN
    BY DEF Init
  <2>7. QED
    BY <2>2, <2>3, <2>4, <2>5, <2>6, BoundsAssumption DEF TypeOK
<1>3. Shares
  <2> SUFFICES ASSUME NEW j \in Worker PROVE at[j] = j + 0 * opts.numwrkr
    BY DEF Shares
  <2>1. QED
    BY <1>1 DEF Init, Worker
<1>4. MarkTells /\ NoReceiver /\ DataIsReceived
  BY <1>1 DEF Init, MarkTells, Uses, NoReceiver, DataIsReceived, Slot
<1>5. QED
  BY <1>2, <1>3, <1>4 DEF IInv

LEMMA NextTurnInRange ==
  ASSUME TypeOK, opts.Q_len > 0
  PROVE  NextTurn \in Slot /\ NextTurn \in 0 .. opts.Q_len
<1>1. opts.Q_len \in Nat \ {0} /\ turn + 1 \in Nat
  BY Typed DEF OptionType, TypeOK
<1>2. NextTurn \in 0 .. opts.Q_len - 1
  BY <1>1, Remainder DEF NextTurn
<1>3. QED
  BY <1>1, <1>2 DEF Slot

(* What a receive leaves in a slot.                                        *)
LEMMA FailedSlot ==
  ASSUME slot \in [Slot -> SlotType], NEW i
  PROVE  /\ [slot EXCEPT ![i].len = -1] \in [Slot -> SlotType]
         /\ i \in Slot => [slot EXCEPT ![i].len = -1][i].len = -1
<1> DEFINE p == [slot[i] EXCEPT !.len = -1]
<1>1. [slot EXCEPT ![i].len = -1] = [slot EXCEPT ![i] = p]
  OBVIOUS
<1>2. i \in Slot => p \in SlotType /\ p.len = -1
  BY DEF SlotType
<1>3. QED
  BY <1>1, <1>2

LEMMA ReceivedSlot ==
  ASSUME TypeOK, NEW i \in Slot,
         Arrives(i) \/ (errors < MaxErrors /\ Fails(i) /\ errors' = errors + 1 /\ UNCHANGED arrived)
  PROVE  /\ slot' \in [Slot -> SlotType]
         /\ arrived' \in 0 .. MaxPackets /\ errors' \in 0 .. MaxErrors
<1>1. arrived \in 0 .. MaxPackets /\ errors \in 0 .. MaxErrors
  BY DEF TypeOK
<1>2. CASE Arrives(i)
  <2>1. PICK p \in Packets : slot' = [slot EXCEPT ![i] = p]
    BY <1>2 DEF Arrives
  <2>2. p \in SlotType
    BY PacketsAssumption DEF SlotType
  <2>3. slot' \in [Slot -> SlotType]
    BY <2>1, <2>2, Typed
  <2>4. QED
    BY <1>1, <1>2, <2>3, BoundsAssumption DEF Arrives
<1>3. CASE errors < MaxErrors /\ Fails(i) /\ errors' = errors + 1 /\ UNCHANGED arrived
  <2>1. slot' \in [Slot -> SlotType]
    BY <1>3, Typed, FailedSlot DEF Fails
  <2>2. QED
    BY <1>1, <1>3, <2>1, BoundsAssumption
<1>4. QED
  BY <1>2, <1>3

(* A step of the dispatcher leaves the workers where they are.             *)
LEMMA DispatcherStep ==
  ASSUME IInv, Dispatcher
  PROVE  IInv'
<1>1. UNCHANGED <<opts, wpc, at, ctrl_c, kpc, joined, open, crashed>>
  BY DEF Dispatcher, PassOver, Take, TakeClosed, Receive, HandOver, AddLength, workers, keeper
<1>2. Shares' /\ NoReceiver'
  BY <1>1 DEF IInv, Shares, NoReceiver, Worker
<1>3. TypeOK' /\ MarkTells' /\ DataIsReceived'
  <2> USE DEF IInv
  <2>1. CASE PassOver
    <3>1. /\ UNCHANGED <<slot, empty, dpc, data, arrived, errors>>
          /\ dpc = "scan" /\ opts.Q_len > 0 /\ turn' = NextTurn
      BY <2>1 DEF PassOver, slots, network
    <3>2. TypeOK'
      BY <1>1, <3>1, NextTurnInRange DEF TypeOK, Slot, Worker
    <3>3. MarkTells' /\ DataIsReceived'
      BY <1>1, <3>1, NextTurnInRange DEF MarkTells, DataIsReceived, Uses, Slot, Worker
    <3>4. QED
      BY <3>2, <3>3
  <2>2. CASE Take
    <3>1. /\ UNCHANGED <<slot, empty, turn, data, arrived, errors>>
          /\ dpc = "scan" /\ dpc' = "receive" /\ opts.Q_len > 0 /\ empty[turn] = 1
      BY <2>2 DEF Take, slots, network
    <3>2. TypeOK'
      BY <1>1, <3>1 DEF TypeOK, Slot, Worker
    <3>3. MarkTells' /\ DataIsReceived'
      BY <1>1, <3>1 DEF MarkTells, DataIsReceived, Uses, Slot, Worker
    <3>4. QED
      BY <3>2, <3>3
  <2>3. CASE TakeClosed
    <3>1. /\ UNCHANGED <<empty, turn, arrived, errors>>
          /\ dpc = "scan" /\ dpc' = "handover" /\ opts.Q_len > 0 /\ empty[turn] = 1
          /\ slot' = [slot EXCEPT ![turn].len = -1] /\ data' = data + 1
      BY <2>3 DEF TakeClosed, network, Fails
    <3>2. slot' \in [Slot -> SlotType] /\ (turn \in Slot => slot'[turn].len = -1)
      BY <3>1, Typed, FailedSlot
    <3>3. TypeOK'
      BY <1>1, <3>1, <3>2 DEF TypeOK, Slot, Worker, SlotType
    <3>4. MarkTells'
      BY <1>1, <3>1 DEF MarkTells, Uses, Slot, Worker
    <3>5. DataIsReceived'
      BY <1>1, <3>1, <3>2 DEF MarkTells, DataIsReceived, TypeOK
    <3>6. QED
      BY <3>3, <3>4, <3>5
  <2>4. CASE Receive
    <3>1. /\ UNCHANGED <<empty, turn>>
          /\ dpc = "receive" /\ dpc' = "handover"
          /\ data' = data - slot'[turn].len
          /\ Arrives(turn) \/ (errors < MaxErrors /\ Fails(turn) /\ errors' = errors + 1
                               /\ UNCHANGED arrived)
      BY <2>4 DEF Receive
    <3>2. turn \in Slot
      BY <3>1 DEF MarkTells
    <3>3. /\ slot' \in [Slot -> SlotType]
          /\ arrived' \in 0 .. MaxPackets /\ errors' \in 0 .. MaxErrors
      BY <3>1, <3>2, ReceivedSlot
    <3>4. slot'[turn].len \in Int
      BY <1>1, <3>2, <3>3 DEF Slot, SlotType
    <3>5. TypeOK'
      BY <1>1, <3>1, <3>3, <3>4 DEF TypeOK, Slot, Worker, SlotType
    <3>6. MarkTells'
      BY <1>1, <3>1 DEF MarkTells, Uses, Slot, Worker
    <3>7. DataIsReceived'
      BY <1>1, <3>1, <3>4 DEF DataIsReceived, TypeOK
    <3>8. QED
      BY <3>5, <3>6, <3>7
  <2>5. CASE HandOver
    <3>1. /\ UNCHANGED <<slot, turn, data, arrived, errors>>
          /\ dpc = "handover" /\ dpc' = "add"
          /\ empty' = [empty EXCEPT ![turn] = 0]
      BY <2>5 DEF HandOver, network
    <3>2. TypeOK'
      BY <1>1, <3>1 DEF TypeOK, Slot, Worker
    <3>3. MarkTells' /\ DataIsReceived'
      BY <1>1, <3>1 DEF MarkTells, DataIsReceived, Uses, Slot, Worker, TypeOK
    <3>4. QED
      BY <3>2, <3>3
  <2>6. CASE AddLength
    <3>1. /\ UNCHANGED <<slot, empty, arrived, errors>>
          /\ dpc = "add" /\ dpc' = "scan" /\ turn' = NextTurn
          /\ data' = data + slot[turn].len
      BY <2>6 DEF AddLength, slots, network
    <3>2. slot[turn].len \in Int
      BY <3>1, Typed DEF MarkTells, SlotType
    <3>3. opts.Q_len > 0
      BY <3>1 DEF MarkTells
    <3>4. TypeOK'
      BY <1>1, <3>1, <3>2, <3>3, NextTurnInRange DEF TypeOK, Slot, Worker
    <3>5. MarkTells'
      BY <1>1, <3>1, <3>3, NextTurnInRange DEF MarkTells, Uses, Slot, Worker
    <3>6. DataIsReceived'
      BY <1>1, <3>1 DEF DataIsReceived
    <3>7. QED
      BY <3>4, <3>5, <3>6
  <2>7. QED
    BY <2>1, <2>2, <2>3, <2>4, <2>5, <2>6 DEF Dispatcher
<1>4. QED
  BY <1>2, <1>3 DEF IInv

(* A worker at a slot of the array goes on by numwrkr, or starts again.    *)
LEMMA SharesKept ==
  ASSUME TypeOK, Shares, NEW j \in Worker, UNCHANGED opts,
         \/ UNCHANGED at
         \/ at' = [at EXCEPT ![j] = @ + opts.numwrkr]
         \/ at' = [at EXCEPT ![j] = j]
  PROVE  Shares' /\ at' \in [Worker -> Nat]
<1>1. /\ opts.numwrkr \in Nat \ {0} /\ at \in [Worker -> Nat] /\ j \in Nat
      /\ Worker \subseteq Nat
  BY Typed DEF OptionType, TypeOK, Worker
<1>2. at' \in [Worker -> Nat]
  BY <1>1
<1>3. ASSUME NEW l \in Worker PROVE \E k \in Nat : at'[l] = l + k * opts.numwrkr
  <2>1. PICK x \in Nat : at[l] = l + x * opts.numwrkr
    BY DEF Shares
  <2>2. CASE at'[l] = at[l]
    BY <2>1, <2>2
  <2>3. CASE l = j /\ at'[j] = at[j] + opts.numwrkr
    <3>1. at'[l] = l + (x + 1) * opts.numwrkr
      BY <1>1, <2>1, <2>3, NextOfShare
    <3>2. QED
      BY <3>1
  <2>4. CASE l = j /\ at'[j] = j
    <3>1. at'[l] = l + 0 * opts.numwrkr
      BY <1>1, <2>4
    <3>2. QED
      BY <3>1
  <2>5. QED
    BY <1>1, <2>2, <2>3, <2>4
<1>4. QED
  BY <1>2, <1>3 DEF Shares, Worker

(* Two workers that use slots use different ones.                          *)
LEMMA UsersApart ==
  ASSUME TypeOK, Shares, NEW j \in Worker, NEW l \in Worker, at[j] = at[l]
  PROVE  j = l
<1>1. /\ opts.numwrkr \in Nat \ {0}
      /\ j \in 0 .. opts.numwrkr - 1 /\ l \in 0 .. opts.numwrkr - 1
  BY Typed DEF OptionType, Worker
<1>2. PICK x \in Nat : at[j] = j + x * opts.numwrkr
  BY DEF Shares
<1>3. PICK y \in Nat : at[l] = l + y * opts.numwrkr
  BY DEF Shares
<1>4. QED
  BY <1>1, <1>2, <1>3, SharesDisjoint

LEMMA WorkerKeepsInv ==
  ASSUME IInv, NEW j \in Worker, WorkerStep(j) \/ ReceiveAgain(j)
  PROVE  IInv'
<1> USE DEF IInv
<1>1. UNCHANGED <<opts, dpc, turn, data, ctrl_c, kpc, joined, open>>
  BY DEF WorkerStep, Skip, Trap, Enter, Extract, ReceiveAgain, Examine, Count, CountFreed,
     Release, NextRound, dispatcher, keeper
<1>2. Shares' /\ at' \in [Worker -> Nat]
  <2>1. \/ UNCHANGED at
        \/ at' = [at EXCEPT ![j] = @ + opts.numwrkr]
        \/ at' = [at EXCEPT ![j] = j]
    BY DEF WorkerStep, Skip, Trap, Enter, Extract, ReceiveAgain, Examine, Count, CountFreed,
       Release, NextRound, workers, ToNextSlot
  <2>2. QED
    BY <1>1, <2>1, SharesKept
<1>3. wpc' \in [Worker -> {"scan", "extract", "receive", "examine", "count", "release", "ended"}]
  <2>1. UNCHANGED wpc \/ \E to \in {"scan", "extract", "receive", "examine", "count", "release",
                                    "ended"} : wpc' = [wpc EXCEPT ![j] = to]
    BY DEF WorkerStep, Skip, Trap, Enter, Extract, ReceiveAgain, Examine, Count, CountFreed,
       Release, NextRound, workers, Go
  <2>2. QED
    BY <2>1 DEF TypeOK
<1>4. \A l \in Worker \ {j} : wpc'[l] = wpc[l] /\ at'[l] = at[l]
  BY DEF WorkerStep, Skip, Trap, Enter, Extract, ReceiveAgain, Examine, Count, CountFreed,
     Release, NextRound, workers, Go, ToNextSlot, TypeOK
(* The slots, by what the worker does to them.                             *)
<1>5. CASE UNCHANGED <<slots, network>>
  <2>1. UNCHANGED <<slot, empty, arrived, errors>> /\ crashed' \in BOOLEAN
    <3>1. UNCHANGED crashed \/ crashed' = TRUE
      BY DEF WorkerStep, Skip, Trap, Enter, Extract, ReceiveAgain, Examine, Count, CountFreed,
         Release, NextRound
    <3>2. QED
      BY <1>5, <3>1 DEF slots, network, TypeOK
  <2>2. TypeOK'
    BY <1>1, <1>2, <1>3, <2>1 DEF TypeOK, Slot, Worker
  <2>3. MarkTells' /\ NoReceiver'
    <3>1. Uses(j)' => at'[j] \in Slot /\ empty[at'[j]] = 0
      <4>1. CASE Enter(j)
        BY <4>1, <1>2, Typed DEF Enter, Full, InPass, Slot, OptionType
      <4>2. CASE Skip(j) \/ NextRound(j) \/ Release(j)
        BY <4>2 DEF Skip, NextRound, Release, Uses, InPass, Go, TypeOK
      <4>3. CASE Trap(j) \/ CountFreed(j)
        BY <4>3 DEF Trap, CountFreed, Uses, workers, MarkTells
      <4>4. CASE Extract(j) \/ ReceiveAgain(j) \/ Examine(j) \/ Count(j)
        BY <4>4 DEF Extract, ReceiveAgain, Examine, Count, Uses, MarkTells
      <4>5. QED
        BY <4>1, <4>2, <4>3, <4>4 DEF WorkerStep
    <3>2. opts.execution_mode = 3 => wpc'[j] \notin {"extract", "receive", "examine"}
      <4>1. CASE Enter(j)
        BY <4>1 DEF Enter, Go, TypeOK
      <4>2. CASE ~Enter(j)
        BY <4>2 DEF WorkerStep, Skip, Trap, Extract, ReceiveAgain, Examine, Count, CountFreed,
           Release, NextRound, workers, Go, TypeOK, NoReceiver
      <4>3. QED
        BY <4>1, <4>2
    <3>3. MarkTells'
      BY <1>1, <1>4, <2>1, <3>1 DEF MarkTells, Uses, Slot, Worker
    <3>4. QED
      BY <1>1, <1>4, <3>2, <3>3 DEF NoReceiver, Worker
  <2>4. DataIsReceived'
    BY <1>1, <2>1 DEF DataIsReceived
  <2>5. QED
    BY <1>2, <2>2, <2>3, <2>4
<1>6. CASE Extract(j) \/ ReceiveAgain(j)
  <2>1. /\ wpc[j] \in {"extract", "receive"} /\ UNCHANGED <<empty, at, crashed>>
        /\ wpc'[j] \in {"extract", "receive", "examine"}
    BY <1>6 DEF Extract, ReceiveAgain, Go, TypeOK
  <2>2. at[j] \in Slot /\ empty[at[j]] = 0 /\ opts.execution_mode # 3
    BY <2>1 DEF MarkTells, Uses, NoReceiver
  <2>3. /\ slot' \in [Slot -> SlotType]
        /\ arrived' \in 0 .. MaxPackets /\ errors' \in 0 .. MaxErrors
    <3>1. CASE Extract(j)
      BY <3>1, Typed, FailedSlot DEF Extract, Fails, network, TypeOK
    <3>2. CASE ReceiveAgain(j)
      <4>1. Arrives(at[j]) \/ (errors < MaxErrors /\ Fails(at[j]) /\ errors' = errors + 1
                                /\ UNCHANGED arrived)
        BY <3>2 DEF ReceiveAgain
      <4>2. QED
        BY <2>2, <4>1, ReceivedSlot
    <3>3. QED
      BY <1>6, <3>1, <3>2
  <2>4. TypeOK'
    BY <1>1, <1>2, <1>3, <2>1, <2>3 DEF TypeOK, Slot, Worker, SlotType
  <2>5. MarkTells'
    BY <1>1, <1>4, <2>1, <2>2 DEF MarkTells, Uses, Slot, Worker
  <2>6. NoReceiver' /\ DataIsReceived'
    BY <1>1, <2>2 DEF NoReceiver, DataIsReceived
  <2>7. QED
    BY <1>2, <2>4, <2>5, <2>6
<1>7. CASE Release(j)
  <2>1. /\ wpc[j] = "release" /\ UNCHANGED <<slot, arrived, errors, crashed>>
        /\ wpc'[j] \in {"ended", "scan"}
        /\ empty' = [empty EXCEPT ![at[j]] = 1]
    BY <1>7 DEF Release, Go, network, TypeOK
  <2>2. TypeOK'
    BY <1>1, <1>2, <1>3, <2>1 DEF TypeOK, Slot, Worker
  <2>3. \A l \in Worker \ {j} : Uses(l) => at[l] # at[j]
    BY UsersApart
  <2>4. MarkTells'
    BY <1>1, <1>4, <2>1, <2>3 DEF MarkTells, Uses, Slot, Worker, TypeOK
  <2>5. NoReceiver' /\ DataIsReceived'
    BY <1>1, <1>4, <2>1 DEF NoReceiver, DataIsReceived, Worker
  <2>6. QED
    BY <1>2, <2>2, <2>4, <2>5
<1>8. QED
  BY <1>5, <1>6, <1>7 DEF WorkerStep, Skip, Trap, Enter, Examine, Count, CountFreed, NextRound

LEMMA KeeperKeepsInv ==
  ASSUME IInv, WakeUp \/ Ending \/ UNCHANGED vars
  PROVE  IInv'
<1> USE DEF IInv
<1>1. UNCHANGED <<opts, slot, empty, dpc, turn, data, wpc, at, arrived, errors, crashed>>
  BY DEF WakeUp, Ending, Close, Free, Join, Exit, vars, slots, dispatcher, workers, network
<1>2. Shares' /\ MarkTells' /\ NoReceiver' /\ DataIsReceived'
  BY <1>1 DEF Shares, MarkTells, NoReceiver, DataIsReceived, Uses, Slot, Worker
<1>3. /\ ctrl_c' \in {0, 1} /\ kpc' \in {"sleep", "close", "free", "join", "exit"}
      /\ open' \in BOOLEAN
  BY DEF WakeUp, Ending, Close, Free, Join, Exit, Keep, vars, keeper, TypeOK
<1>4. joined' \in 0 .. opts.numwrkr
  <2>1. UNCHANGED joined \/ (joined < opts.numwrkr /\ joined' = joined + 1)
    BY DEF WakeUp, Ending, Close, Free, Join, Exit, vars, keeper
  <2>2. QED
    BY <2>1, Typed DEF TypeOK, OptionType
<1>5. QED
  BY <1>1, <1>2, <1>3, <1>4 DEF TypeOK, Slot, Worker

LEMMA StepInv == IInv /\ [Next]_vars => IInv'
<1> SUFFICES ASSUME IInv, [Next]_vars PROVE IInv'
  OBVIOUS
<1>1. CASE Dispatcher
  BY <1>1, DispatcherStep
<1>2. CASE \E j \in Worker : WorkerStep(j) \/ ReceiveAgain(j)
  BY <1>2, WorkerKeepsInv
<1>3. CASE WakeUp \/ Ending \/ UNCHANGED vars
  BY <1>3, KeeperKeepsInv
<1>4. QED
  BY <1>1, <1>2, <1>3 DEF Next, Over

LEMMA Invariance == Spec => []IInv
BY InitInv, StepInv, PTL DEF Spec

(* Every variable keeps its type, for every length of the queue.           *)
THEOREM TypeCorrect == Spec => []TypeOK
<1>1. IInv => TypeOK
  BY DEF IInv
<1>2. QED
  BY <1>1, Invariance, PTL

(* A worker never receives into, or looks at, the slot that the dispatcher *)
(* receives into, nor one that another worker is at work on.               *)
THEOREM OneUserAtATime == Spec => []OneUser
<1>1. IInv => OneUser
  BY UsersApart DEF IInv, OneUser, MarkTells, Receiving, Uses
<1>2. QED
  BY <1>1, Invariance, PTL

(* The count of the dispatcher is right in mode 3, although it is taken    *)
(* from slots already handed over.                                         *)
THEOREM CountIsReceived == Spec => []DataIsReceived
<1>1. IInv => DataIsReceived
  BY DEF IInv
<1>2. QED
  BY <1>1, Invariance, PTL
=============================================================================
