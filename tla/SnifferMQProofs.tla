--------------------------- MODULE SnifferMQProofs ---------------------------
(***************************************************************************)
(* The rings of sniffer_MQ and sniffer_MQ_optimized are FIFO queues, for   *)
(* every number of workers, every queue length and any number of packets;  *)
(* only misuse traps; and the numbers that are reported fit together.      *)
(***************************************************************************)
EXTENDS SnifferMQ, SequenceTheorems, TLAPS

-----------------------------------------------------------------------------
(* The places of a thread, as far as the rings are concerned, and where    *)
(* the indices of a ring are.                                              *)
Place ==
  /\ opts \in OptionType
  /\ turn \in Worker
  /\ dpc \in {"choose", "store", "publish", "count", "drop", "countdrop"}
  /\ wpc \in [Worker -> {"loop", "process", "ended"}]
  /\ arrived \in 0 .. MaxPackets

InRing ==
  /\ geti \in [Worker -> Int] /\ puti \in [Worker -> Int]
  /\ \A j \in Worker : Q(j) > 0 => geti[j] \in 0 .. Q(j) - 1 /\ puti[j] \in 0 .. Q(j) - 1
  /\ DOMAIN slot = Worker
  /\ \A j \in Worker : slot[j] \in [0 .. Q(j) - 1 -> Packet]

(* While the dispatcher has a slot, the worker of that ring is not at it   *)
(* and does not come to it.                                                *)
Reserved ==
  /\ dpc \in {"store", "publish"} => Q(turn) > 0 /\ puti[turn] # geti[turn]
  /\ \A j \in Worker : wpc[j] = "process" => Q(j) > 0

RInv == Place /\ InRing /\ Reserved

-----------------------------------------------------------------------------
(* Indices.                                                                *)
LEMMA Remainder ==
  ASSUME NEW n \in Nat \ {0}, NEW a \in (-n) .. (2 * n - 1)
  PROVE  a % n = IF a < 0 THEN a + n ELSE IF a < n THEN a ELSE a - n
<1>1. CASE a \in 0 .. n - 1
  BY <1>1
<1>2. CASE a \in n .. 2 * n - 1
  BY <1>2
<1>3. CASE a \in (-n) .. (-1)
  BY <1>3
<1>4. QED
  BY <1>1, <1>2, <1>3

LEMMA Quotient ==
  ASSUME NEW n \in Nat \ {0}, NEW a \in Nat
  PROVE  a \div n \in Nat
OBVIOUS

(* The length of a ring is a number, and fixed.                            *)
LEMMA RingLength ==
  ASSUME opts \in OptionType, NEW j
  PROVE  Q(j) \in Nat
<1>1. opts.Q_len \in Nat /\ opts.numwrkr \in Nat \ {0}
  BY DEF OptionType
<1>2. QED
  BY <1>1, Quotient DEF Q

LEMMA RingsFixed ==
  ASSUME UNCHANGED opts
  PROVE  /\ Worker' = Worker
         /\ \A j : Q(j)' = Q(j)
         /\ \A j, k : After(k, j)' = After(k, j)
BY DEF Worker, Q, After

LEMMA WorkersTakeTurns ==
  ASSUME Place
  PROVE  NextTurn \in Worker /\ 0 \in Worker
<1>1. opts.numwrkr \in Nat \ {0} /\ turn \in 0 .. opts.numwrkr - 1
  BY DEF Place, OptionType, Worker
<1>2. QED
  BY <1>1, Remainder DEF NextTurn, Worker

(* How many packets are in a ring, and how the number moves.               *)
LEMMA QueuedFacts ==
  ASSUME NEW n \in Nat \ {0}, NEW g \in 0 .. n - 1, NEW p \in 0 .. n - 1
  PROVE  /\ (p - g - 1) % n = IF p > g THEN p - g - 1 ELSE p - g - 1 + n
         /\ (p - g - 1) % n \in 0 .. n - 1
         /\ \A k \in 0 .. n : (g + k) % n = IF g + k < n THEN g + k ELSE g + k - n
         /\ (p + 1) % n = IF p + 1 = n THEN 0 ELSE p + 1
<1>1. \A a \in (-n) .. (2 * n - 1) : a % n = IF a < 0 THEN a + n ELSE IF a < n THEN a ELSE a - n
  BY Remainder
<1>2. p - g - 1 \in (-n) .. (2 * n - 1) /\ p + 1 \in (-n) .. (2 * n - 1)
  OBVIOUS
<1>3. \A k \in 0 .. n : g + k \in (-n) .. (2 * n - 1)
  OBVIOUS
<1>4. QED
  BY <1>1, <1>2, <1>3

LEMMA NextIndex ==
  ASSUME NEW n \in Nat \ {0}, NEW p \in 0 .. n - 1
  PROVE  (p + 1) % n = IF p + 1 = n THEN 0 ELSE p + 1
BY QueuedFacts

(* The index k places on from g in a ring of n slots, and the number of    *)
(* packets queued in it.  The lemmas that follow need no more of them than *)
(* their values.                                                           *)
Plus(n, g, k) == (g + k) % n
QueuedIn(n, g, p) == IF n = 0 THEN 0 ELSE (p - g - 1) % n

LEMMA IndexValues ==
  ASSUME NEW n \in Nat \ {0}, NEW g \in 0 .. n - 1, NEW p \in 0 .. n - 1
  PROVE  /\ QueuedIn(n, g, p) = IF p > g THEN p - g - 1 ELSE p - g - 1 + n
         /\ QueuedIn(n, g, p) \in 0 .. n - 1
         /\ \A k \in 0 .. n : Plus(n, g, k) = IF g + k < n THEN g + k ELSE g + k - n
         /\ \A k \in 0 .. n : Plus(n, g, k) \in 0 .. n - 1
<1>1. /\ QueuedIn(n, g, p) = IF p > g THEN p - g - 1 ELSE p - g - 1 + n
      /\ QueuedIn(n, g, p) \in 0 .. n - 1
  BY QueuedFacts DEF QueuedIn
<1>2. \A k \in 0 .. n : Plus(n, g, k) = IF g + k < n THEN g + k ELSE g + k - n
  BY QueuedFacts DEF Plus
<1>3. QED
  BY <1>1, <1>2

LEMMA FreeSlot ==
  ASSUME NEW n \in Nat \ {0}, NEW g \in 0 .. n - 1, NEW p \in 0 .. n - 1, p # g
  PROVE  \A k \in 1 .. QueuedIn(n, g, p) : Plus(n, g, k) # p
<1> SUFFICES ASSUME NEW k \in 1 .. QueuedIn(n, g, p) PROVE Plus(n, g, k) # p
  OBVIOUS
<1>1. /\ QueuedIn(n, g, p) = IF p > g THEN p - g - 1 ELSE p - g - 1 + n
      /\ QueuedIn(n, g, p) \in 0 .. n - 1
  BY IndexValues
<1>2. k \in 0 .. n
  BY <1>1
<1>3. Plus(n, g, k) = IF g + k < n THEN g + k ELSE g + k - n
  BY <1>2, IndexValues
<1>4. QED
  BY <1>1, <1>3

LEMMA PublishMoves ==
  ASSUME NEW n \in Nat \ {0}, NEW g \in 0 .. n - 1, NEW p \in 0 .. n - 1, p # g
  PROVE  /\ QueuedIn(n, g, p) \in 0 .. n - 2 /\ Plus(n, p, 1) \in 0 .. n - 1
         /\ QueuedIn(n, g, Plus(n, p, 1)) = QueuedIn(n, g, p) + 1
         /\ Plus(n, g, QueuedIn(n, g, p) + 1) = p
<1>1. /\ QueuedIn(n, g, p) = IF p > g THEN p - g - 1 ELSE p - g - 1 + n
      /\ Plus(n, p, 1) = IF p + 1 < n THEN p + 1 ELSE p + 1 - n
  BY IndexValues
<1>2. Plus(n, p, 1) \in 0 .. n - 1
  BY <1>1
<1>3. QueuedIn(n, g, Plus(n, p, 1))
        = IF Plus(n, p, 1) > g THEN Plus(n, p, 1) - g - 1 ELSE Plus(n, p, 1) - g - 1 + n
  BY <1>2, IndexValues
<1>4. QueuedIn(n, g, p) + 1 \in 0 .. n
  BY <1>1
<1>5. Plus(n, g, QueuedIn(n, g, p) + 1)
        = IF g + (QueuedIn(n, g, p) + 1) < n THEN g + (QueuedIn(n, g, p) + 1)
          ELSE g + (QueuedIn(n, g, p) + 1) - n
  BY <1>4, IndexValues
<1>6. QED
  BY <1>1, <1>2, <1>3, <1>5

LEMMA ClaimMoves ==
  ASSUME NEW n \in Nat \ {0}, NEW g \in 0 .. n - 1, NEW p \in 0 .. n - 1,
         Plus(n, g, 1) # p
  PROVE  /\ QueuedIn(n, g, p) \in 1 .. n - 1 /\ Plus(n, g, 1) \in 0 .. n - 1
         /\ QueuedIn(n, Plus(n, g, 1), p) = QueuedIn(n, g, p) - 1
         /\ \A k \in 1 .. QueuedIn(n, g, p) - 1 :
              Plus(n, Plus(n, g, 1), k) = Plus(n, g, k + 1)
<1>1. /\ QueuedIn(n, g, p) = IF p > g THEN p - g - 1 ELSE p - g - 1 + n
      /\ Plus(n, g, 1) = IF g + 1 < n THEN g + 1 ELSE g + 1 - n
  BY IndexValues
<1>2. Plus(n, g, 1) \in 0 .. n - 1 /\ QueuedIn(n, g, p) \in 1 .. n - 1
  BY <1>1
<1>3. QueuedIn(n, Plus(n, g, 1), p)
        = IF p > Plus(n, g, 1) THEN p - Plus(n, g, 1) - 1 ELSE p - Plus(n, g, 1) - 1 + n
  BY <1>2, IndexValues
<1>4. ASSUME NEW k \in 1 .. QueuedIn(n, g, p) - 1
      PROVE  Plus(n, Plus(n, g, 1), k) = Plus(n, g, k + 1)
  <2>1. k \in 0 .. n /\ k + 1 \in 0 .. n
    BY <1>2
  <2>2. /\ Plus(n, g, k + 1) = IF g + (k + 1) < n THEN g + (k + 1) ELSE g + (k + 1) - n
        /\ Plus(n, Plus(n, g, 1), k)
             = IF Plus(n, g, 1) + k < n THEN Plus(n, g, 1) + k ELSE Plus(n, g, 1) + k - n
    BY <1>2, <2>1, IndexValues
  <2>3. QED
    BY <1>1, <1>2, <2>1, <2>2
<1>5. QED
  BY <1>1, <1>2, <1>3, <1>4

-----------------------------------------------------------------------------
LEMMA InitRings == Init => RInv
<1> SUFFICES ASSUME Init PROVE RInv
  OBVIOUS
<1>1. opts \in OptionType /\ opts.numwrkr \in Nat \ {0}
  BY OptionsAssumption DEF Init, OptionType
<1>2. Place
  BY <1>1, BoundsAssumption DEF Init, Place, Worker
<1>3. InRing
  <2>1. \A j \in Worker : Q(j) \in Nat
    BY <1>1, RingLength
  <2>2. /\ geti = [j \in Worker |-> Q(j) - 1] /\ puti = [j \in Worker |-> 0]
        /\ slot = [j \in Worker |-> [k \in 0 .. Q(j) - 1 |-> Null]]
    BY DEF Init
  <2>3. \A j \in Worker : slot[j] \in [0 .. Q(j) - 1 -> Packet]
    BY <2>2 DEF Packet
  <2>4. QED
    BY <2>1, <2>2, <2>3 DEF InRing
<1>4. Reserved
  BY DEF Init, Reserved
<1>5. QED
  BY <1>2, <1>3, <1>4 DEF RInv

(* The index of a ring goes on inside it.                                  *)
LEMMA AfterInRing ==
  ASSUME Place, NEW j \in Worker, Q(j) > 0, NEW k \in 0 .. Q(j) - 1
  PROVE  After(k, j) \in 0 .. Q(j) - 1
<1>1. Q(j) \in Nat \ {0}
  BY RingLength DEF Place
<1>2. QED
  BY <1>1, QueuedFacts DEF After

LEMMA DispatcherStep ==
  ASSUME RInv, Dispatcher
  PROVE  RInv'
<1> USE DEF RInv
<1>1. UNCHANGED <<opts, wpc, geti>>
  BY DEF Dispatcher, Choose, Break, Receive, ReceiveFails, Publish, CountPacket, ReceiveDropped,
     CountDropped, DispatcherTraps, workers, rings
<1>2. Worker' = Worker /\ \A j : Q(j)' = Q(j)
  BY <1>1, RingsFixed
<1>3. CASE Receive
  <2>1. /\ dpc = "store" /\ dpc' = "publish" /\ UNCHANGED <<puti, turn>>
        /\ arrived < MaxPackets /\ arrived' = arrived + 1
    BY <1>3 DEF Receive
  <2>2. PICK k \in Kind : slot' = [slot EXCEPT ![turn][puti[turn]] = [n |-> arrived, kind |-> k]]
    BY <1>3 DEF Receive
  <2>3. Place'
    BY <1>1, <1>2, <2>1, BoundsAssumption DEF Place
  <2>4. [n |-> arrived, kind |-> k] \in Packet
    BY <2>1, BoundsAssumption DEF Place, Packet
  <2>5. InRing'
    <3>1. DOMAIN slot' = Worker
      BY <2>2 DEF InRing
    <3>2. \A j \in Worker : slot'[j] \in [0 .. Q(j) - 1 -> Packet]
      BY <2>2, <2>4 DEF InRing
    <3>3. QED
      BY <1>1, <1>2, <2>1, <3>1, <3>2 DEF InRing
  <2>6. QED
    BY <1>1, <1>2, <2>1, <2>3, <2>5 DEF Reserved
<1>4. CASE Publish
  <2>1. /\ dpc = "publish" /\ dpc' = "count" /\ UNCHANGED <<slot, turn, arrived>>
        /\ puti' = [puti EXCEPT ![turn] = After(puti[turn], turn)]
    BY <1>4 DEF Publish, Place, InRing
  <2>2. Place'
    BY <1>1, <1>2, <2>1 DEF Place
  <2>3. Q(turn) > 0 /\ turn \in Worker /\ puti[turn] \in 0 .. Q(turn) - 1
    BY <2>1 DEF Reserved, Place, InRing
  <2>4. After(puti[turn], turn) \in 0 .. Q(turn) - 1
    BY <2>3, AfterInRing
  <2>5. InRing'
    BY <1>1, <1>2, <2>1, <2>3, <2>4 DEF InRing
  <2>6. QED
    BY <1>1, <1>2, <2>1, <2>2, <2>5 DEF Reserved
<1>5. CASE Choose \/ ReceiveFails \/ DispatcherTraps
  <2>1. /\ UNCHANGED <<slot, puti, turn, arrived>>
        /\ dpc' \in {"choose", "store", "publish", "count", "drop", "countdrop"}
    BY <1>5 DEF Choose, ReceiveFails, DispatcherTraps, rings, dispatcher, Place
  <2>2. dpc' \in {"store", "publish"} => Q(turn) > 0 /\ puti[turn] # geti[turn]
    BY <1>5 DEF Choose, ReceiveFails, DispatcherTraps, dispatcher, Full, Reserved
  <2>3. QED
    BY <1>1, <1>2, <2>1, <2>2 DEF Place, InRing, Reserved
<1>6. CASE Break \/ CountPacket \/ ReceiveDropped \/ CountDropped
  <2>1. /\ UNCHANGED <<slot, puti>> /\ arrived' \in 0 .. MaxPackets
        /\ dpc' \in {"choose", "countdrop"}
    BY <1>6, BoundsAssumption DEF Break, CountPacket, ReceiveDropped, CountDropped, rings, Place
  <2>2. turn' \in Worker
    BY <1>6, WorkersTakeTurns DEF Break, CountPacket, ReceiveDropped, CountDropped, Place
  <2>3. QED
    BY <1>1, <1>2, <2>1, <2>2 DEF Place, InRing, Reserved
<1>7. QED
  BY <1>3, <1>4, <1>5, <1>6 DEF Dispatcher

LEMMA WorkerKeepsRings ==
  ASSUME RInv, NEW j \in Worker, WorkerStep(j)
  PROVE  RInv'
<1> USE DEF RInv
<1>1. UNCHANGED <<opts, slot, puti, turn, dpc, arrived>>
  BY DEF WorkerStep, Claim, Process, ProcessUnseen, WorkerTraps, WorkerEnds, rings, dispatcher
<1>2. Worker' = Worker /\ \A l : Q(l)' = Q(l)
  BY <1>1, RingsFixed
<1>3. CASE Claim(j)
  <2>1. /\ Q(j) > 0 /\ ~Empty(j)
        /\ geti' = [geti EXCEPT ![j] = After(geti[j], j)]
        /\ wpc' = [wpc EXCEPT ![j] = "process"]
    BY <1>3 DEF Claim, InRing
  <2>2. geti[j] \in 0 .. Q(j) - 1
    BY <2>1 DEF InRing
  <2>3. After(geti[j], j) \in 0 .. Q(j) - 1 /\ After(geti[j], j) # puti[j]
    BY <2>1, <2>2, AfterInRing DEF Empty
  <2>4. Place' /\ InRing'
    BY <1>1, <1>2, <2>1, <2>3 DEF Place, InRing
  <2>5. Reserved'
    BY <1>1, <1>2, <2>1, <2>3 DEF Reserved, InRing, Place
  <2>6. QED
    BY <2>4, <2>5
<1>4. CASE ~Claim(j)
  <2>1. /\ UNCHANGED geti
        /\ UNCHANGED wpc \/ \E to \in {"loop", "ended"} : wpc' = [wpc EXCEPT ![j] = to]
    BY <1>4 DEF WorkerStep, Process, ProcessUnseen, WorkerTraps, WorkerEnds, rings, workers
  <2>2. Place' /\ InRing' /\ Reserved'
    BY <1>1, <1>2, <2>1 DEF Place, InRing, Reserved
  <2>3. QED
    BY <2>2
<1>5. QED
  BY <1>3, <1>4

LEMMA KeeperKeepsRings ==
  ASSUME RInv, TimeKeeper \/ UNCHANGED vars
  PROVE  RInv'
<1>1. UNCHANGED <<opts, slot, geti, puti, turn, dpc, wpc, arrived>>
  BY DEF TimeKeeper, WakeUp, Sum, ReadCounter, FreeAndExit, vars, rings, dispatcher, workers
<1>2. Worker' = Worker /\ \A l : Q(l)' = Q(l)
  BY <1>1, RingsFixed
<1>3. QED
  BY <1>1, <1>2 DEF RInv, Place, InRing, Reserved

LEMMA StepRings == RInv /\ [Next]_vars => RInv'
<1> SUFFICES ASSUME RInv, [Next]_vars PROVE RInv'
  OBVIOUS
<1>1. CASE Dispatcher
  BY <1>1, DispatcherStep
<1>2. CASE \E j \in Worker : WorkerStep(j)
  BY <1>2, WorkerKeepsRings
<1>3. CASE TimeKeeper \/ UNCHANGED vars
  BY <1>3, KeeperKeepsRings
<1>4. QED
  BY <1>1, <1>2, <1>3 DEF Next, Over

(* What the rings need is an invariant.                                    *)
THEOREM RingInvariance == Spec => []RInv
BY InitRings, StepRings, PTL DEF Spec

(* The counters, which the rings do not depend on.                         *)
Counters ==
  /\ packets \in Nat /\ dropped \in Nat
  /\ num_pckts_processed \in [Worker -> Nat]
  /\ ctrl_c \in {0, 1} /\ kpc \in {"sleep", "sum", "exit"}
  /\ summed \in 0 .. opts.numwrkr /\ pprocessed \in Nat
  /\ report \in [packets : Int, dropped : Int]
  /\ errors \in 0 .. MaxErrors
  /\ crashed \in BOOLEAN

LEMMA StepCounters ==
  ASSUME Place, Counters, [Next]_vars
  PROVE  Counters'
<1>1. opts.numwrkr \in Nat \ {0} /\ Worker = 0 .. opts.numwrkr - 1
  BY DEF Place, OptionType, Worker
<1>2. UNCHANGED opts
  BY DEF Next, Over, Dispatcher, Choose, Break, Receive, ReceiveFails, Publish,
         CountPacket, ReceiveDropped, CountDropped, DispatcherTraps, TimeKeeper,
         WakeUp, Sum, ReadCounter, FreeAndExit, WorkerStep, Claim, Process,
         ProcessUnseen, WorkerTraps, WorkerEnds, vars
<1>3. Worker' = Worker
  BY <1>2, RingsFixed
<1>4. CASE Dispatcher
  <2>1. UNCHANGED <<num_pckts_processed, ctrl_c, kpc, summed, pprocessed, report>>
    BY <1>4
    DEF Dispatcher, Choose, Break, Receive, ReceiveFails, Publish, CountPacket,
        ReceiveDropped, CountDropped, DispatcherTraps, workers, keeper
  <2>2. packets' \in {packets, packets + 1} /\ dropped' \in {dropped, dropped + 1}
    BY <1>4
    DEF Dispatcher, Choose, Break, Receive, ReceiveFails, Publish, CountPacket,
        ReceiveDropped, CountDropped, DispatcherTraps, dispatcher
  <2>3. \/ errors' = errors
        \/ errors < MaxErrors /\ errors' = errors + 1
    BY <1>4
    DEF Dispatcher, Choose, Break, Receive, ReceiveFails, Publish, CountPacket,
        ReceiveDropped, CountDropped, DispatcherTraps
  <2>4. crashed' \in {crashed, TRUE}
    BY <1>4
    DEF Dispatcher, Choose, Break, Receive, ReceiveFails, Publish, CountPacket,
        ReceiveDropped, CountDropped, DispatcherTraps
  <2>5. errors' \in 0 .. MaxErrors /\ packets' \in Nat /\ dropped' \in Nat
    BY <2>2, <2>3, BoundsAssumption DEF Counters
  <2>6. crashed' \in BOOLEAN
    BY <2>4 DEF Counters
  <2>7. QED
    BY <1>2, <1>3, <2>1, <2>5, <2>6 DEF Counters
<1>5. CASE TimeKeeper
  <2>1. UNCHANGED <<packets, dropped, num_pckts_processed, errors, crashed>>
    BY <1>5 DEF TimeKeeper, WakeUp, Sum, ReadCounter, FreeAndExit, dispatcher, workers
  <2>2. ctrl_c' \in {0, 1} /\ kpc' \in {"sleep", "sum", "exit"}
    BY <1>5 DEF Counters, TimeKeeper, WakeUp, Sum, ReadCounter, FreeAndExit
  <2>3. summed' \in 0 .. opts.numwrkr /\ pprocessed' \in Nat
    BY <1>1, <1>5 DEF Counters, TimeKeeper, WakeUp, Sum, ReadCounter, FreeAndExit
  <2>4. \/ UNCHANGED report
        \/ report' = [report EXCEPT !.packets = packets]
        \/ report' = [report EXCEPT !.dropped = dropped]
    BY <1>5 DEF TimeKeeper, WakeUp, Sum, ReadCounter, FreeAndExit
  <2>5. report' \in [packets : Int, dropped : Int]
    BY <2>4 DEF Counters
  <2>6. QED
    BY <1>2, <1>3, <2>1, <2>2, <2>3, <2>5 DEF Counters
<1>6. ASSUME NEW j \in Worker, WorkerStep(j) PROVE Counters'
  <2>1. UNCHANGED <<packets, dropped, ctrl_c, kpc, summed, pprocessed, report, errors>>
    BY <1>6 DEF WorkerStep, Claim, Process, ProcessUnseen, WorkerTraps, WorkerEnds, dispatcher, keeper
  <2>2. crashed' \in {crashed, TRUE}
    BY <1>6 DEF WorkerStep, Claim, Process, ProcessUnseen, WorkerTraps, WorkerEnds
  <2>3. num_pckts_processed' \in [Worker -> Nat]
    BY <1>6 DEF Counters, WorkerStep, Claim, Process, ProcessUnseen, WorkerTraps, WorkerEnds, workers
  <2>4. crashed' \in BOOLEAN
    BY <2>2 DEF Counters
  <2>5. QED
    BY <1>2, <1>3, <2>1, <2>3, <2>4 DEF Counters
<1>7. CASE UNCHANGED vars
  BY <1>2, <1>3, <1>7 DEF Counters, vars, dispatcher, workers, keeper
<1>8. QED
  BY <1>4, <1>5, <1>6, <1>7 DEF Next, Over

LEMMA CountersHold == Spec => []Counters
<1>1. Init => Counters
  <2> SUFFICES ASSUME Init PROVE Counters
    OBVIOUS
  <2>1. opts.numwrkr \in Nat
    BY OptionsAssumption DEF Init, OptionType
  <2>2. num_pckts_processed \in [Worker -> Nat] /\ report \in [packets : Int, dropped : Int]
    BY DEF Init, Unset
  <2>3. errors \in 0 .. MaxErrors /\ summed \in 0 .. opts.numwrkr
    BY <2>1, BoundsAssumption DEF Init
  <2>4. /\ packets \in Nat /\ dropped \in Nat /\ pprocessed \in Nat
        /\ ctrl_c \in {0, 1} /\ kpc \in {"sleep", "sum", "exit"} /\ crashed \in BOOLEAN
    BY DEF Init
  <2>5. QED
    BY <2>2, <2>3, <2>4 DEF Counters
<1>2. RInv /\ Counters /\ [Next]_vars => Counters'
  BY StepCounters DEF RInv
<1>3. QED
  BY RingInvariance, <1>1, <1>2, PTL DEF Spec

(* Every variable keeps its type, in runs of any length: the indices stay  *)
(* within their rings and the time keeper's loop within the workers.       *)
THEOREM TypeCorrect == Spec => []TypeOK
<1>1. RInv /\ Counters => TypeOK
  BY DEF RInv, Place, InRing, Counters, TypeOK
<1>2. QED
  BY RingInvariance, CountersHold, <1>1, PTL

(* The dispatcher never receives into a slot that is queued or worked on,  *)
(* although it decides to before the packet comes and the worker moves its *)
(* index meanwhile.                                                        *)
THEOREM SlotStaysDispatchers == Spec => []SlotIsDispatchers
<1>1. RInv => SlotIsDispatchers
  <2> SUFFICES ASSUME RInv, dpc \in {"store", "publish"} PROVE SlotIsDispatchers
    BY DEF SlotIsDispatchers
  <2>1. /\ Q(turn) \in Nat \ {0} /\ puti[turn] # geti[turn]
        /\ puti[turn] \in 0 .. Q(turn) - 1 /\ geti[turn] \in 0 .. Q(turn) - 1
    BY RingLength DEF RInv, Place, InRing, Reserved
  <2>2. \A k \in 1 .. QueuedIn(Q(turn), geti[turn], puti[turn]) :
          Plus(Q(turn), geti[turn], k) # puti[turn]
    BY <2>1, FreeSlot
  <2>3. \A k \in 1 .. Queued(turn) : (geti[turn] + k) % Q(turn) # puti[turn]
    BY <2>2 DEF QueuedIn, Plus, Queued
  <2>4. QED
    BY <2>1, <2>3 DEF SlotIsDispatchers, QueuedSlots
<1>2. QED
  BY <1>1, RingInvariance, PTL

-----------------------------------------------------------------------------
(* As long as recvfrom has not failed every queued slot holds a packet, as *)
(* does every slot a worker has claimed.                                   *)
Filled(j) ==
  /\ \A k \in 1 .. QueuedIn(Q(j), geti[j], puti[j]) :
       slot[j][Plus(Q(j), geti[j], k)] # Null
  /\ wpc[j] = "process" => slot[j][geti[j]] # Null
  /\ dpc = "publish" /\ turn = j => slot[j][puti[j]] # Null

FInv == /\ errors = 0 => \A j \in Worker : Filled(j)
        /\ TrapsOnlyOnMisuse

LEMMA TurnInRing ==
  ASSUME RInv, dpc \in {"store", "publish"}
  PROVE  /\ turn \in Worker /\ Q(turn) \in Nat \ {0} /\ puti[turn] # geti[turn]
         /\ puti[turn] \in 0 .. Q(turn) - 1 /\ geti[turn] \in 0 .. Q(turn) - 1
         /\ slot[turn] \in [0 .. Q(turn) - 1 -> Packet]
         /\ DOMAIN slot = Worker /\ DOMAIN puti = Worker
BY RingLength DEF RInv, Place, InRing, Reserved

LEMMA ReceiveFills ==
  ASSUME RInv, Receive, \A j \in Worker : Filled(j)
  PROVE  \A j \in Worker : Filled(j)'
<1> DEFINE n == Q(turn)
           g == geti[turn]
           p == puti[turn]
<1>1. /\ turn \in Worker /\ n \in Nat \ {0} /\ p # g /\ p \in 0 .. n - 1 /\ g \in 0 .. n - 1
      /\ slot[turn] \in [0 .. n - 1 -> Packet] /\ DOMAIN slot = Worker
  BY TurnInRing DEF Receive
<1>2. UNCHANGED <<opts, geti, puti, wpc, turn>> /\ Worker' = Worker /\ \A j : Q(j)' = Q(j)
  BY RingsFixed DEF Receive, workers
<1>3. PICK k \in Kind : slot' = [slot EXCEPT ![turn] =
                                   [slot[turn] EXCEPT ![p] = [n |-> arrived, kind |-> k]]]
  BY DEF Receive
<1>4. [n |-> arrived, kind |-> k] # Null
  <2>1. arrived # -1
    BY DEF RInv, Place
  <2>2. QED
    BY <2>1 DEF Null
<1>5. /\ slot'[turn][p] # Null /\ \A i \in 0 .. n - 1 : i # p => slot'[turn][i] = slot[turn][i]
      /\ \A j \in Worker : j # turn => slot'[j] = slot[j]
  BY <1>1, <1>3, <1>4
<1>6. \A i \in 1 .. QueuedIn(n, g, p) : Plus(n, g, i) # p /\ Plus(n, g, i) \in 0 .. n - 1
  <2> HIDE DEF n, g, p
  <2>1. \A i \in 1 .. QueuedIn(n, g, p) : Plus(n, g, i) # p
    BY <1>1, FreeSlot
  <2>2. QueuedIn(n, g, p) \in 0 .. n - 1
    BY <1>1, IndexValues
  <2>3. \A i \in 1 .. QueuedIn(n, g, p) : Plus(n, g, i) \in 0 .. n - 1
    BY <1>1, <2>2, IndexValues
  <2>4. QED
    BY <2>1, <2>3
<1>7. \A j \in Worker : j = turn => Filled(j)'
  BY <1>1, <1>2, <1>5, <1>6 DEF Filled
<1>8. \A j \in Worker : j # turn => Filled(j)'
  BY <1>2, <1>5 DEF Filled
<1>9. QED
  BY <1>7, <1>8

LEMMA PublishFills ==
  ASSUME RInv, Publish, \A j \in Worker : Filled(j)
  PROVE  \A j \in Worker : Filled(j)'
<1> DEFINE n == Q(turn)
           g == geti[turn]
           p == puti[turn]
<1>1. /\ turn \in Worker /\ n \in Nat \ {0} /\ p # g /\ p \in 0 .. n - 1 /\ g \in 0 .. n - 1
      /\ DOMAIN puti = Worker /\ dpc = "publish"
  BY TurnInRing DEF Publish
<1>2. /\ UNCHANGED <<opts, slot, geti, wpc, turn>> /\ dpc' = "count"
      /\ puti' = [puti EXCEPT ![turn] = Plus(n, p, 1)]
      /\ Worker' = Worker /\ \A j : Q(j)' = Q(j)
  BY RingsFixed DEF Publish, workers, After, Plus
<1>3. /\ QueuedIn(n, g, Plus(n, p, 1)) = QueuedIn(n, g, p) + 1
      /\ Plus(n, g, QueuedIn(n, g, p) + 1) = p /\ QueuedIn(n, g, p) \in Nat
  <2> HIDE DEF n, g, p
  <2>1. QED
    BY <1>1, PublishMoves
<1>4. \A k \in 1 .. QueuedIn(n, g, p) + 1 : slot[turn][Plus(n, g, k)] # Null
  <2> SUFFICES ASSUME NEW k \in 1 .. QueuedIn(n, g, p) + 1 PROVE slot[turn][Plus(n, g, k)] # Null
    OBVIOUS
  <2>1. k \in 1 .. QueuedIn(n, g, p) \/ k = QueuedIn(n, g, p) + 1
    BY <1>3
  <2>2. QED
    BY <1>1, <1>3, <2>1 DEF Filled
<1>5. puti'[turn] = Plus(n, p, 1)
  BY <1>1, <1>2
<1>6. \A j \in Worker : j = turn => Filled(j)'
  BY <1>1, <1>2, <1>3, <1>4, <1>5 DEF Filled
<1>7. \A j \in Worker : j # turn => Filled(j)'
  BY <1>2 DEF Filled
<1>8. QED
  BY <1>6, <1>7

LEMMA ClaimFills ==
  ASSUME RInv, NEW l \in Worker, Claim(l), \A j \in Worker : Filled(j)
  PROVE  \A j \in Worker : Filled(j)'
<1> DEFINE n == Q(l)
           g == geti[l]
           p == puti[l]
<1>1. /\ n \in Nat \ {0} /\ p \in 0 .. n - 1 /\ g \in 0 .. n - 1
      /\ DOMAIN geti = Worker /\ DOMAIN wpc = Worker
  BY RingLength DEF RInv, Place, InRing, Claim
<1>2. /\ UNCHANGED <<opts, slot, puti, dpc, turn>> /\ Plus(n, g, 1) # p
      /\ geti' = [geti EXCEPT ![l] = Plus(n, g, 1)] /\ wpc' = [wpc EXCEPT ![l] = "process"]
      /\ Worker' = Worker /\ \A j : Q(j)' = Q(j)
  BY RingsFixed DEF Claim, dispatcher, Empty, After, Plus
<1>3. /\ QueuedIn(n, g, p) \in Nat \ {0}
      /\ QueuedIn(n, Plus(n, g, 1), p) = QueuedIn(n, g, p) - 1
      /\ \A k \in 1 .. QueuedIn(n, g, p) - 1 : Plus(n, Plus(n, g, 1), k) = Plus(n, g, k + 1)
  <2> HIDE DEF n, g, p
  <2>1. QED
    BY <1>1, <1>2, ClaimMoves
<1>4. \A k \in 1 .. QueuedIn(n, g, p) - 1 : slot[l][Plus(n, Plus(n, g, 1), k)] # Null
  <2> SUFFICES ASSUME NEW k \in 1 .. QueuedIn(n, g, p) - 1
               PROVE  slot[l][Plus(n, Plus(n, g, 1), k)] # Null
    OBVIOUS
  <2>1. k + 1 \in 1 .. QueuedIn(n, g, p)
    BY <1>3
  <2>2. slot[l][Plus(n, g, k + 1)] # Null
    BY <2>1 DEF Filled
  <2>3. QED
    BY <1>3, <2>2
<1>5. slot[l][Plus(n, g, 1)] # Null
  <2>1. 1 \in 1 .. QueuedIn(n, g, p)
    BY <1>3
  <2>2. QED
    BY <2>1 DEF Filled
<1>6. geti'[l] = Plus(n, g, 1)
  BY <1>1, <1>2
<1>7. Filled(l)'
  BY <1>2, <1>3, <1>4, <1>5, <1>6 DEF Filled
<1>8. \A j \in Worker : j # l => Filled(j)'
  BY <1>1, <1>2 DEF Filled
<1>9. QED
  BY <1>7, <1>8

LEMMA RestFills ==
  ASSUME RInv, [Next]_vars, ~Publish, ~Receive, ~ReceiveFails, \A j \in Worker : ~Claim(j),
         \A j \in Worker : Filled(j)
  PROVE  \A j \in Worker : Filled(j)'
<1>1. UNCHANGED <<opts, slot, geti, puti>> /\ Worker' = Worker /\ \A j : Q(j)' = Q(j)
  <2>1. UNCHANGED <<opts, slot, geti, puti>>
    BY DEF Next, Over, vars, Dispatcher, Choose, Break, CountPacket, ReceiveDropped,
           CountDropped, DispatcherTraps, TimeKeeper, WakeUp, Sum, ReadCounter,
           FreeAndExit, WorkerStep, Process, ProcessUnseen, WorkerTraps, WorkerEnds, rings
  <2>2. QED
    BY <2>1, RingsFixed
<1>2. \/ UNCHANGED wpc
      \/ \E j \in Worker, to \in {"loop", "ended"} : wpc' = [wpc EXCEPT ![j] = to]
  BY DEF Next, Over, vars, Dispatcher, Choose, Break, CountPacket, ReceiveDropped,
         CountDropped, DispatcherTraps, TimeKeeper, WakeUp, Sum, ReadCounter,
         FreeAndExit, WorkerStep, Process, ProcessUnseen, WorkerTraps, WorkerEnds, workers
<1>3. \A j \in Worker : wpc'[j] = "process" => wpc[j] = "process"
  BY <1>2 DEF RInv, Place
<1>4. dpc' = "publish" => dpc = "publish" /\ turn' = turn
  BY DEF Next, Over, vars, Dispatcher, Choose, Break, CountPacket, ReceiveDropped,
         CountDropped, DispatcherTraps, TimeKeeper, WakeUp, Sum, ReadCounter, FreeAndExit,
         WorkerStep, Process, ProcessUnseen, WorkerTraps, WorkerEnds, dispatcher
<1>5. QED
  BY <1>1, <1>3, <1>4 DEF Filled

LEMMA NothingQueued ==
  ASSUME Init, NEW j \in Worker, Q(j) \in Nat
  PROVE  QueuedIn(Q(j), geti[j], puti[j]) = 0
<1>1. CASE Q(j) = 0
  BY <1>1 DEF QueuedIn
<1>2. CASE Q(j) # 0
  <2>1. Q(j) \in Nat \ {0} /\ geti[j] = Q(j) - 1 /\ puti[j] = 0
    BY <1>2 DEF Init
  <2>2. QueuedIn(Q(j), Q(j) - 1, 0)
          = IF 0 > Q(j) - 1 THEN 0 - (Q(j) - 1) - 1 ELSE 0 - (Q(j) - 1) - 1 + Q(j)
    BY <2>1, IndexValues
  <2>3. QED
    BY <2>1, <2>2
<1>3. QED
  BY <1>1, <1>2

(* A trap is the reader of an empty slot, or a ring of length 0.           *)
LEMMA TrapsOnNull ==
  ASSUME RInv, errors \in Nat, errors = 0 => \A j \in Worker : Filled(j),
         DispatcherTraps \/ \E j \in Worker : WorkerTraps(j)
  PROVE  opts.Q_len < opts.numwrkr \/ errors > 0
<1>1. opts.Q_len \in Nat /\ opts.numwrkr \in Nat \ {0}
  BY DEF RInv, Place, OptionType
<1>2. ASSUME NEW j \in Worker, Q(j) = 0 PROVE opts.Q_len < opts.numwrkr
  <2>1. ASSUME NEW a \in Nat, NEW b \in Nat \ {0}, a \div b = 0 PROVE a < b
    BY <2>1
  <2>2. opts.Q_len \div opts.numwrkr = 0
    BY <1>1, <1>2, Quotient DEF Q
  <2>3. QED
    BY <1>1, <2>1, <2>2
<1>3. CASE \E j \in Worker : Q(j) = 0
  BY <1>2, <1>3
<1>4. CASE \E j \in Worker : wpc[j] = "process" /\ Claimed(j) = Null
  BY <1>4 DEF Filled, Claimed
<1>5. QED
  BY <1>3, <1>4 DEF DispatcherTraps, WorkerTraps, RInv, Place

LEMMA StepFills == RInv /\ Counters /\ FInv /\ [Next]_vars => FInv'
<1> SUFFICES ASSUME RInv, Counters, FInv, [Next]_vars PROVE FInv'
  OBVIOUS
<1>1. errors \in Nat
  BY DEF Counters
<1>2. errors' = errors \/ ReceiveFails \/ ReceiveDropped
  <2>1. CASE Dispatcher
    BY <2>1 DEF Dispatcher, Choose, Break, Receive, Publish, CountPacket, CountDropped, DispatcherTraps
  <2>2. CASE TimeKeeper \/ Over
    BY <2>2 DEF TimeKeeper, WakeUp, Sum, ReadCounter, FreeAndExit, Over, vars
  <2>3. ASSUME NEW j \in Worker, WorkerStep(j) PROVE errors' = errors
    BY <2>3 DEF WorkerStep, Claim, Process, ProcessUnseen, WorkerTraps, WorkerEnds
  <2>4. CASE UNCHANGED vars
    BY <2>4 DEF vars
  <2>5. QED
    BY <2>1, <2>2, <2>3, <2>4 DEF Next
<1>3. errors' \in Nat /\ errors' >= errors /\ (ReceiveFails => errors' > 0)
  BY <1>1, <1>2 DEF ReceiveDropped, ReceiveFails
<1>4. errors' = 0 => \A j \in Worker' : Filled(j)'
  <2> SUFFICES ASSUME errors' = 0 PROVE \A j \in Worker' : Filled(j)'
    OBVIOUS
  <2>1. errors = 0 /\ ~ReceiveFails /\ \A j \in Worker : Filled(j)
    BY <1>1, <1>3 DEF FInv
  <2>2. UNCHANGED opts /\ Worker' = Worker
    <3>1. UNCHANGED opts
      BY DEF Next, Over, Dispatcher, Choose, Break, Receive, ReceiveFails, Publish,
             CountPacket, ReceiveDropped, CountDropped, DispatcherTraps, TimeKeeper,
             WakeUp, Sum, ReadCounter, FreeAndExit, WorkerStep, Claim, Process,
             ProcessUnseen, WorkerTraps, WorkerEnds, vars
    <3>2. QED
      BY <3>1, RingsFixed
  <2>3. QED
    BY <2>1, <2>2, ReceiveFills, PublishFills, ClaimFills, RestFills
<1>5. TrapsOnlyOnMisuse'
  <2>1. \/ UNCHANGED crashed
        \/ DispatcherTraps \/ \E j \in Worker : WorkerTraps(j)
    BY DEF Next, Over, vars, Dispatcher, Choose, Break, Receive, ReceiveFails, Publish,
           CountPacket, ReceiveDropped, CountDropped, TimeKeeper, WakeUp, Sum,
           ReadCounter, FreeAndExit, WorkerStep, Claim, Process, ProcessUnseen, WorkerEnds
  <2>2. UNCHANGED opts
    BY DEF Next, Over, Dispatcher, Choose, Break, Receive, ReceiveFails, Publish,
           CountPacket, ReceiveDropped, CountDropped, DispatcherTraps, TimeKeeper,
           WakeUp, Sum, ReadCounter, FreeAndExit, WorkerStep, Claim, Process,
           ProcessUnseen, WorkerTraps, WorkerEnds, vars
  <2>3. opts.Q_len < opts.numwrkr \/ errors > 0 => opts'.Q_len < opts'.numwrkr \/ errors' > 0
    BY <1>1, <1>3, <2>2 DEF ReceiveDropped
  <2>4. QED
    <3>1. DispatcherTraps \/ (\E j \in Worker : WorkerTraps(j)) => opts.Q_len < opts.numwrkr \/ errors > 0
      BY <1>1, TrapsOnNull DEF FInv
    <3>2. QED
      BY <2>1, <2>3, <3>1 DEF FInv, TrapsOnlyOnMisuse
<1>6. QED
  BY <1>4, <1>5 DEF FInv

(* Neither the arithmetic of the rings nor an empty slot stops the         *)
(* sniffer, unless its queue is shorter than its workers are many or       *)
(* recvfrom has failed.                                                    *)
THEOREM TrapsAreMisuse == Spec => []TrapsOnlyOnMisuse
<1>1. Init => FInv
  <2> SUFFICES ASSUME Init PROVE FInv
    OBVIOUS
  <2>1. ASSUME NEW j \in Worker PROVE Filled(j)
    <3>1. Q(j) \in Nat
      BY InitRings, RingLength DEF RInv, Place
    <3>2. QueuedIn(Q(j), geti[j], puti[j]) = 0
      BY <3>1, NothingQueued
    <3>3. QED
      BY <3>2 DEF Init, Filled
  <2>2. QED
    BY <2>1 DEF Init, FInv, TrapsOnlyOnMisuse
<1>2. FInv => TrapsOnlyOnMisuse
  BY DEF FInv
<1>3. QED
  BY RingInvariance, CountersHold, <1>1, <1>2, StepFills, PTL DEF Spec

-----------------------------------------------------------------------------
(* The packets of worker j that the counters may still tell apart: counted, *)
(* in hand, and queued.                                                    *)
HandedOver(j) ==
  num_pckts_processed[j] + (IF wpc[j] = "process" THEN 1 ELSE 0)
    + QueuedIn(Q(j), geti[j], puti[j])

(* How many packets were published: what the dispatcher's two counters     *)
(* say, which it changes one after the other.                              *)
Published ==
  packets - dropped + (IF dpc = "count" THEN 1 ELSE IF dpc = "countdrop" THEN -1 ELSE 0)

(* sum[k] is the sum of the first k of the n numbers f.                    *)
AddsUp(n, f, sum) ==
  /\ f \in [0 .. n - 1 -> Nat] /\ sum \in [0 .. n -> Nat]
  /\ sum[0] = 0 /\ \A k \in 0 .. n - 1 : sum[k + 1] = sum[k] + f[k]

(* Each worker has been given, and the time keeper has seen processed, no  *)
(* more than what was published for it; and that is, over all workers,     *)
(* what was published.                                                     *)
Covers(f, sum) ==
  /\ AddsUp(opts.numwrkr, f, sum)
  /\ \A j \in Worker : HandedOver(j) <= f[j]
  /\ sum[opts.numwrkr] = Published
  /\ pprocessed <= sum[summed]

Ledger == \E f, sum : Covers(f, sum)

(* What has been read for the report, and what may still happen to the     *)
(* counter that has not been read: once ctrl_c is set only the packet      *)
(* under way is counted.                                                   *)
HalfReported ==
  /\ kpc # "sleep" => ctrl_c = 1
  /\ report # [packets |-> Unset, dropped |-> Unset] => summed = opts.numwrkr /\ kpc # "sleep"
  /\ (report.packets # Unset /\ report.dropped = Unset) =>
       pprocessed <= report.packets - dropped + (IF dpc \in {"drop", "countdrop"} THEN 0 ELSE 1)
  /\ (report.packets = Unset /\ report.dropped # Unset) =>
       pprocessed <= packets - report.dropped + 1
  /\ ReportAddsUp

LEMMA HandedOverType ==
  RInv /\ Counters => \A j \in Worker : /\ QueuedIn(Q(j), geti[j], puti[j]) \in Nat
                                        /\ HandedOver(j) \in Nat
                                        /\ num_pckts_processed[j] <= HandedOver(j)
<1> SUFFICES ASSUME RInv, Counters, NEW j \in Worker
             PROVE  /\ QueuedIn(Q(j), geti[j], puti[j]) \in Nat
                    /\ HandedOver(j) \in Nat
                    /\ num_pckts_processed[j] <= HandedOver(j)
  OBVIOUS
<1>1. Q(j) \in Nat
  BY RingLength DEF RInv, Place
<1>2. QueuedIn(Q(j), geti[j], puti[j]) \in Nat
  <2>1. CASE Q(j) = 0
    BY <2>1 DEF QueuedIn
  <2>2. CASE Q(j) # 0
    <3> DEFINE n == Q(j)
               g == geti[j]
               p == puti[j]
    <3>1. n \in Nat \ {0} /\ g \in 0 .. n - 1 /\ p \in 0 .. n - 1
      BY <1>1, <2>2 DEF RInv, InRing
    <3> HIDE DEF n, g, p
    <3>2. QueuedIn(n, g, p) \in 0 .. n - 1
      BY <3>1, IndexValues
    <3>3. QED
      BY <3>1, <3>2 DEF n, g, p
  <2>3. QED
    BY <2>1, <2>2
<1>3. QED
  BY <1>2 DEF HandedOver, Counters

LEMMA InitLedger == Init => Ledger /\ HalfReported
<1> SUFFICES ASSUME Init PROVE Ledger /\ HalfReported
  OBVIOUS
<1>1. opts.numwrkr \in Nat \ {0}
  BY OptionsAssumption DEF Init, OptionType
<1> DEFINE f == [j \in Worker |-> 0]
           sum == [k \in 0 .. opts.numwrkr |-> 0]
<1>2. AddsUp(opts.numwrkr, f, sum)
  BY <1>1 DEF AddsUp, Worker
<1>3. \A j \in Worker : HandedOver(j) = 0
  <2> SUFFICES ASSUME NEW j \in Worker PROVE HandedOver(j) = 0
    OBVIOUS
  <2>1. Q(j) \in Nat
    BY InitRings, RingLength DEF RInv, Place
  <2>2. QueuedIn(Q(j), geti[j], puti[j]) = 0
    BY <2>1, NothingQueued
  <2>3. QED
    BY <2>2 DEF HandedOver, Init
<1>4. Covers(f, sum)
  BY <1>1, <1>2, <1>3 DEF Covers, Init, Published
<1>5. HalfReported
  BY DEF HalfReported, ReportAddsUp, Reported, Init, Unset
<1>6. QED
  BY <1>4, <1>5 DEF Ledger

(* One more in one place, and in every sum that has it in it.              *)
LEMMA OneMore ==
  ASSUME NEW n \in Nat \ {0}, NEW t \in 0 .. n - 1, NEW f, NEW sum, AddsUp(n, f, sum)
  PROVE  LET f1   == [k \in 0 .. n - 1 |-> IF k = t THEN f[k] + 1 ELSE f[k]]
             sum1 == [k \in 0 .. n |-> IF k > t THEN sum[k] + 1 ELSE sum[k]]
         IN  AddsUp(n, f1, sum1)
<1> DEFINE f1 == [k \in 0 .. n - 1 |-> IF k = t THEN f[k] + 1 ELSE f[k]]
           sum1 == [k \in 0 .. n |-> IF k > t THEN sum[k] + 1 ELSE sum[k]]
<1>1. /\ \A k \in 0 .. n - 1 : f[k] \in Nat
      /\ \A k \in 0 .. n : sum[k] \in Nat
      /\ sum[0] = 0 /\ \A k \in 0 .. n - 1 : sum[k + 1] = sum[k] + f[k]
  BY DEF AddsUp
<1>2. f1 \in [0 .. n - 1 -> Nat]
  BY <1>1
<1>3. sum1 \in [0 .. n -> Nat]
  BY <1>1
<1>4. sum1[0] = 0
  BY <1>1
<1>5. ASSUME NEW k \in 0 .. n - 1 PROVE sum1[k + 1] = sum1[k] + f1[k]
  <2>1. k \in 0 .. n /\ k + 1 \in 0 .. n
    OBVIOUS
  <2>2. /\ sum1[k] = IF k > t THEN sum[k] + 1 ELSE sum[k]
        /\ sum1[k + 1] = IF k + 1 > t THEN sum[k + 1] + 1 ELSE sum[k + 1]
        /\ f1[k] = IF k = t THEN f[k] + 1 ELSE f[k]
    BY <2>1
  <2>3. sum[k + 1] = sum[k] + f[k] /\ sum[k] \in Nat /\ f[k] \in Nat
    BY <1>1, <2>1
  <2> HIDE DEF f1, sum1
  <2>4. QED
    BY <2>2, <2>3
<1>6. QED
  BY <1>2, <1>3, <1>4, <1>5 DEF AddsUp

(* Handing a packet over: one more for worker turn, and for every sum that *)
(* has him in it.                                                          *)
LEMMA PublishCovered ==
  ASSUME RInv, Counters, Publish, NEW f, NEW sum, Covers(f, sum)
  PROVE  Ledger'
<1> DEFINE f1 == [k \in 0 .. opts.numwrkr - 1 |-> IF k = turn THEN f[k] + 1 ELSE f[k]]
           sum1 == [k \in 0 .. opts.numwrkr |-> IF k > turn THEN sum[k] + 1 ELSE sum[k]]
<1>1. opts.numwrkr \in Nat \ {0} /\ Worker = 0 .. opts.numwrkr - 1 /\ turn \in Worker
  BY DEF RInv, Place, OptionType, Worker
<1>2. /\ UNCHANGED <<opts, geti, wpc, num_pckts_processed, packets, dropped, pprocessed, summed, turn>>
      /\ puti' = [puti EXCEPT ![turn] = Plus(Q(turn), puti[turn], 1)]
      /\ dpc = "publish" /\ dpc' = "count"
  BY DEF Publish, workers, keeper, After, Plus
<1>3. Worker' = Worker /\ \A j : Q(j)' = Q(j)
  BY <1>2, RingsFixed
<1>4. /\ \A j \in Worker : f[j] \in Nat
      /\ sum \in [0 .. opts.numwrkr -> Nat]
      /\ sum[opts.numwrkr] = Published /\ pprocessed <= sum[summed]
      /\ \A j \in Worker : HandedOver(j) <= f[j]
  BY <1>1 DEF Covers, AddsUp
<1>5. AddsUp(opts.numwrkr, f1, sum1)
  BY <1>1, OneMore DEF Covers
<1>6. \A j \in Worker : f1[j] = IF j = turn THEN f[j] + 1 ELSE f[j]
  BY <1>1
<1>7. HandedOver(turn)' = HandedOver(turn) + 1
  <2> DEFINE n == Q(turn)
             g == geti[turn]
             p == puti[turn]
  <2>1. n \in Nat \ {0} /\ g \in 0 .. n - 1 /\ p \in 0 .. n - 1 /\ p # g
    BY <1>2, TurnInRing
  <2>2. puti'[turn] = Plus(n, p, 1)
    BY <1>1, <1>2 DEF RInv, InRing
  <2> HIDE DEF n, g, p
  <2>3. QueuedIn(n, g, Plus(n, p, 1)) = QueuedIn(n, g, p) + 1 /\ QueuedIn(n, g, p) \in 0 .. n - 2
    BY <2>1, PublishMoves
  <2>4. QueuedIn(Q(turn), geti[turn], puti'[turn]) = QueuedIn(Q(turn), geti[turn], puti[turn]) + 1
    BY <2>2, <2>3 DEF n, g, p
  <2>5. /\ QueuedIn(Q(turn), geti[turn], puti[turn]) \in Int
        /\ num_pckts_processed[turn] \in Nat
    BY <1>1, <2>1, <2>3 DEF n, g, p, Counters
  <2>6. HandedOver(turn)' = num_pckts_processed[turn] + (IF wpc[turn] = "process" THEN 1 ELSE 0)
                              + QueuedIn(Q(turn), geti[turn], puti'[turn])
    BY <1>2, <1>3 DEF HandedOver
  <2>7. QED
    BY <2>4, <2>5, <2>6 DEF HandedOver
<1>8. \A j \in Worker : j # turn => HandedOver(j)' = HandedOver(j)
  BY <1>1, <1>2, <1>3 DEF HandedOver, RInv, InRing
<1>9. \A j \in Worker : HandedOver(j) \in Nat
  BY HandedOverType
<1>10. ASSUME NEW j \in Worker PROVE HandedOver(j)' <= f1[j]
  <2>1. f[j] \in Nat /\ HandedOver(j) \in Nat /\ HandedOver(j) <= f[j]
    BY <1>4, <1>9
  <2>2. CASE j = turn
    <3>1. HandedOver(j)' = HandedOver(j) + 1 /\ f1[j] = f[j] + 1
      BY <1>2, <1>6, <1>7, <2>2 DEF HandedOver
    <3> HIDE DEF f1
    <3>2. QED
      BY <2>1, <3>1
  <2>3. CASE j # turn
    BY <1>6, <1>8, <2>1, <2>3
  <2>4. QED
    BY <2>2, <2>3
<1>11. summed \in 0 .. opts.numwrkr /\ pprocessed \in Nat /\ packets \in Nat /\ dropped \in Nat
  BY DEF Counters
<1>12. sum1[opts.numwrkr] = sum[opts.numwrkr] + 1 /\ sum[summed] <= sum1[summed]
  BY <1>1, <1>4, <1>11
<1> HIDE DEF f1, sum1
<1> PICK f2, sum2 : f2 = f1 /\ sum2 = sum1
  OBVIOUS
<1>13. Covers(f2, sum2)'
  <2>1. Published' = Published + 1
    BY <1>2, <1>11 DEF Published
  <2>2. pprocessed <= sum2[summed]
    <3>1. sum[summed] \in Nat /\ sum1[summed] \in Nat
      BY <1>4, <1>5, <1>11 DEF AddsUp
    <3>2. QED
      BY <1>4, <1>11, <1>12, <3>1
  <2>3. AddsUp(opts.numwrkr, f2, sum2)'
    BY <1>2, <1>5 DEF AddsUp
  <2>4. sum2[opts.numwrkr] = Published'
    BY <1>4, <1>12, <2>1
  <2>5. \A j \in Worker : HandedOver(j)' <= f2[j]
    BY <1>10
  <2>6. QED
    BY <1>2, <1>3, <2>2, <2>3, <2>4, <2>5 DEF Covers
<1>14. QED
  BY <1>13 DEF Ledger

(* A step that hands nothing over.                                         *)
LEMMA CoverStays ==
  ASSUME RInv, Counters, NEW f, NEW sum, Covers(f, sum),
         UNCHANGED <<opts, pprocessed, summed>>, Published' = Published,
         \A j \in Worker : HandedOver(j)' \in Int /\ HandedOver(j)' <= HandedOver(j)
  PROVE  Ledger'
<1>1. Worker' = Worker
  BY RingsFixed
<1>2. \A j \in Worker : HandedOver(j) \in Nat /\ f[j] \in Nat
  <2>1. Worker = 0 .. opts.numwrkr - 1
    BY DEF Worker
  <2>2. QED
    BY <2>1, HandedOverType DEF Covers, AddsUp
<1>3. \A j \in Worker : HandedOver(j)' <= f[j]
  BY <1>2 DEF Covers
<1>4. Covers(f, sum)'
  BY <1>1, <1>3 DEF Covers, AddsUp
<1>5. QED
  BY <1>4 DEF Ledger

(* A step of the dispatcher other than handing over changes neither what   *)
(* the workers have nor what it says it has published.                     *)
LEMMA DispatcherLedger ==
  ASSUME RInv, RInv', Counters, Counters', Ledger, Dispatcher
  PROVE  Ledger'
<1>1. PICK f, sum : Covers(f, sum)
  BY DEF Ledger
<1>2. CASE Publish
  BY <1>1, <1>2, PublishCovered
<1>3. CASE ~Publish
  <2>1. UNCHANGED <<opts, geti, puti, wpc, num_pckts_processed, pprocessed, summed>>
    BY <1>3 DEF Dispatcher, Choose, Break, Receive, ReceiveFails, CountPacket,
       ReceiveDropped, CountDropped, DispatcherTraps, rings, workers, keeper
  <2>2. packets \in Nat /\ dropped \in Nat
    BY DEF Counters
  <2>3. Published' = Published
    BY <1>3, <2>2 DEF Dispatcher, Choose, Break, Receive, ReceiveFails, CountPacket,
       ReceiveDropped, CountDropped, DispatcherTraps, dispatcher, Published
  <2>4. \A j \in Worker : HandedOver(j)' = HandedOver(j)
    BY <2>1, RingsFixed DEF HandedOver
  <2>5. \A j \in Worker : HandedOver(j) \in Nat
    BY HandedOverType
  <2>6. \A j \in Worker : HandedOver(j)' \in Int /\ HandedOver(j)' <= HandedOver(j)
    BY <2>4, <2>5
  <2>7. QED
    BY <1>1, <2>1, <2>3, <2>6, CoverStays
<1>4. QED
  BY <1>2, <1>3

(* A worker moves a packet from its ring into its hand and from there into *)
(* its counter, or forgets it.                                             *)
LEMMA WorkerHands ==
  ASSUME RInv, Counters, NEW j \in Worker, WorkerStep(j)
  PROVE  \A l \in Worker : HandedOver(l)' \in Int /\ HandedOver(l)' <= HandedOver(l)
<1>1. UNCHANGED <<opts, puti>>
  BY DEF WorkerStep, Claim, Process, ProcessUnseen, WorkerTraps, WorkerEnds, rings
<1>2. \A l : Q(l)' = Q(l)
  BY <1>1, RingsFixed
<1>3. \A l \in Worker : /\ HandedOver(l) \in Nat /\ num_pckts_processed[l] \in Nat
                        /\ QueuedIn(Q(l), geti[l], puti[l]) \in Nat
  BY HandedOverType DEF Counters
<1>4. /\ DOMAIN geti = Worker /\ DOMAIN wpc = Worker
      /\ DOMAIN num_pckts_processed = Worker
  BY DEF RInv, Place, InRing, Counters
<1>5. ASSUME NEW l \in Worker, l # j PROVE HandedOver(l)' = HandedOver(l)
  <2>1. geti'[l] = geti[l] /\ wpc'[l] = wpc[l] /\ num_pckts_processed'[l] = num_pckts_processed[l]
    BY <1>4, <1>5 DEF WorkerStep, Claim, Process, ProcessUnseen, WorkerTraps, WorkerEnds,
       rings, workers
  <2>2. QED
    BY <1>1, <1>2, <2>1 DEF HandedOver
<1>6. CASE Claim(j)
  <2> DEFINE n == Q(j)
             g == geti[j]
             p == puti[j]
  <2>1. n \in Nat \ {0} /\ g \in 0 .. n - 1 /\ p \in 0 .. n - 1 /\ Plus(n, g, 1) # p
    BY <1>6, RingLength DEF Claim, Empty, After, Plus, RInv, Place, InRing
  <2>2. /\ geti'[j] = Plus(n, g, 1) /\ wpc[j] = "loop" /\ wpc'[j] = "process"
        /\ num_pckts_processed'[j] = num_pckts_processed[j]
    BY <1>4, <1>6 DEF Claim, After, Plus
  <2> HIDE DEF n, g, p
  <2>3. QueuedIn(n, Plus(n, g, 1), p) = QueuedIn(n, g, p) - 1
    BY <2>1, ClaimMoves
  <2>4. HandedOver(j)' = num_pckts_processed[j] + 1 + QueuedIn(n, Plus(n, g, 1), p)
    BY <1>1, <1>2, <2>2 DEF HandedOver, n, p
  <2>5. HandedOver(j) = num_pckts_processed[j] + 0 + QueuedIn(n, g, p)
    BY <2>2 DEF HandedOver, n, g, p
  <2>6. QueuedIn(n, g, p) \in Nat
    BY <1>3 DEF n, g, p
  <2>7. HandedOver(j)' = HandedOver(j)
    BY <1>3, <2>3, <2>4, <2>5, <2>6
  <2>8. QED
    BY <1>3, <1>5, <2>7
<1>7. CASE ~Claim(j)
  <2> DEFINE n == QueuedIn(Q(j), geti[j], puti[j])
  <2>1. UNCHANGED geti
    BY <1>7 DEF WorkerStep, Process, ProcessUnseen, WorkerTraps, WorkerEnds, rings
  <2>2. \/ /\ wpc'[j] # "process" /\ num_pckts_processed'[j] = num_pckts_processed[j]
        \/ /\ wpc'[j] = wpc[j] /\ num_pckts_processed'[j] = num_pckts_processed[j]
        \/ /\ wpc[j] = "process" /\ wpc'[j] = "loop"
           /\ num_pckts_processed'[j] = num_pckts_processed[j] + 1
    BY <1>4, <1>7 DEF WorkerStep, Process, ProcessUnseen, WorkerTraps, WorkerEnds, workers
  <2>3. HandedOver(j)' = num_pckts_processed'[j] + (IF wpc'[j] = "process" THEN 1 ELSE 0) + n
    BY <1>1, <1>2, <2>1 DEF HandedOver
  <2>4. HandedOver(j) = num_pckts_processed[j] + (IF wpc[j] = "process" THEN 1 ELSE 0) + n
    BY DEF HandedOver
  <2>5. n \in Nat /\ num_pckts_processed[j] \in Nat
    BY <1>3
  <2> HIDE DEF n
  <2>6. HandedOver(j)' \in Int /\ HandedOver(j)' <= HandedOver(j)
    BY <2>2, <2>3, <2>4, <2>5
  <2>7. QED
    BY <1>3, <1>5, <2>6
<1>8. QED
  BY <1>6, <1>7

LEMMA WorkerLedger ==
  ASSUME RInv, Counters, Ledger, NEW j \in Worker, WorkerStep(j)
  PROVE  Ledger'
<1>1. PICK f, sum : Covers(f, sum)
  BY DEF Ledger
<1>2. UNCHANGED <<opts, packets, dropped, dpc, pprocessed, summed>>
  BY DEF WorkerStep, Claim, Process, ProcessUnseen, WorkerTraps, WorkerEnds, dispatcher, keeper
<1>3. Published' = Published
  BY <1>2 DEF Published
<1>4. QED
  BY <1>1, <1>2, <1>3, WorkerHands, CoverStays

(* The time keeper adds the counter of a worker that has been given at     *)
(* least as many; nothing else of what it does is in the ledger.           *)
LEMMA KeeperLedger ==
  ASSUME RInv, Counters, Ledger, TimeKeeper \/ UNCHANGED vars
  PROVE  Ledger'
<1>1. PICK f, sum : Covers(f, sum)
  BY DEF Ledger
<1>2. UNCHANGED <<opts, packets, dropped, dpc, geti, puti, wpc, num_pckts_processed>>
  BY DEF TimeKeeper, WakeUp, Sum, ReadCounter, FreeAndExit, vars, rings, dispatcher, workers
<1>3. /\ Published' = Published /\ Worker' = Worker
      /\ \A j \in Worker : HandedOver(j)' = HandedOver(j)
  BY <1>2, RingsFixed DEF Published, HandedOver
<1>4. CASE Sum
  <2>1. /\ summed \in Nat /\ summed < opts.numwrkr /\ summed \in Worker
        /\ Worker = 0 .. opts.numwrkr - 1 /\ opts.numwrkr \in Nat
    BY <1>4 DEF Sum, Counters, Worker, RInv, Place, OptionType
  <2>2. /\ pprocessed' = pprocessed + num_pckts_processed[summed]
        /\ summed' = summed + 1
    BY <1>4 DEF Sum
  <2>3. /\ sum[summed + 1] = sum[summed] + f[summed] /\ sum[summed] \in Nat /\ f[summed] \in Nat
        /\ HandedOver(summed) <= f[summed] /\ pprocessed <= sum[summed]
    <3>1. /\ sum \in [0 .. opts.numwrkr -> Nat] /\ f \in [0 .. opts.numwrkr - 1 -> Nat]
          /\ \A k \in 0 .. opts.numwrkr - 1 : sum[k + 1] = sum[k] + f[k]
      BY <1>1 DEF Covers, AddsUp
    <3>2. summed \in 0 .. opts.numwrkr /\ summed \in 0 .. opts.numwrkr - 1
      BY <2>1
    <3>3. HandedOver(summed) <= f[summed] /\ pprocessed <= sum[summed]
      BY <1>1, <2>1 DEF Covers
    <3>4. QED
      BY <3>1, <3>2, <3>3
  <2>4. /\ num_pckts_processed[summed] <= HandedOver(summed) /\ HandedOver(summed) \in Nat
        /\ num_pckts_processed[summed] \in Nat /\ pprocessed \in Nat
    BY <2>1, HandedOverType DEF Counters
  <2>5. pprocessed' <= sum[summed']
    BY <2>2, <2>3, <2>4
  <2>6. Covers(f, sum)'
    <3>1. AddsUp(opts.numwrkr, f, sum)' /\ sum[opts.numwrkr'] = Published'
      BY <1>1, <1>2, <1>3 DEF Covers, AddsUp
    <3>2. \A j \in Worker' : HandedOver(j)' <= f[j]
      BY <1>1, <1>3 DEF Covers
    <3>3. QED
      BY <2>5, <3>1, <3>2 DEF Covers
  <2>7. QED
    BY <2>6 DEF Ledger
<1>5. CASE ~Sum
  <2>1. UNCHANGED <<pprocessed, summed>>
    BY <1>5 DEF TimeKeeper, WakeUp, ReadCounter, FreeAndExit, vars, keeper
  <2>2. Covers(f, sum)'
    BY <1>1, <1>2, <1>3, <2>1 DEF Covers
  <2>3. QED
    BY <2>2 DEF Ledger
<1>6. QED
  BY <1>4, <1>5

LEMMA StepLedger ==
  ASSUME RInv, RInv', Counters, Counters', Ledger, [Next]_vars
  PROVE  Ledger'
BY DispatcherLedger, WorkerLedger, KeeperLedger DEF Next, Over

(* Once all counters are summed they come to no more than was published.   *)
LEMMA SummedIsPublished ==
  ASSUME Ledger, summed = opts.numwrkr
  PROVE  pprocessed <= Published
BY DEF Ledger, Covers

(* After ctrl_c the dispatcher finishes what it has under way, and changes *)
(* the counter that has not been read by the packet it is at, if any.      *)
LEMMA StepReported ==
  ASSUME Place, Counters, Counters', Ledger, HalfReported, [Next]_vars
  PROVE  HalfReported'
<1>1. /\ packets \in Nat /\ dropped \in Nat /\ pprocessed \in Nat /\ opts.numwrkr \in Nat
      /\ report \in [packets : Int, dropped : Int]
      /\ dpc \in {"choose", "store", "publish", "count", "drop", "countdrop"}
  BY DEF Counters, Place, OptionType
<1>2. UNCHANGED opts
  BY DEF Next, Over, Dispatcher, Choose, Break, Receive, ReceiveFails, Publish,
         CountPacket, ReceiveDropped, CountDropped, DispatcherTraps, TimeKeeper,
         WakeUp, Sum, ReadCounter, FreeAndExit, WorkerStep, Claim, Process,
         ProcessUnseen, WorkerTraps, WorkerEnds, vars
<1>3. CASE Dispatcher
  <2>1. UNCHANGED <<ctrl_c, kpc, summed, pprocessed, report>>
    BY <1>3
    DEF Dispatcher, Choose, Break, Receive, ReceiveFails, Publish, CountPacket,
        ReceiveDropped, CountDropped, DispatcherTraps, keeper
  <2>2. \/ UNCHANGED <<packets, dropped, dpc>>
        \/ UNCHANGED <<packets, dropped>> /\ ctrl_c = 0
        \/ UNCHANGED <<packets, dropped>> /\ {dpc, dpc'} \subseteq {"store", "publish", "count"}
        \/ packets' = packets + 1 /\ dropped' = dropped /\ dpc = "count" /\ dpc' = "choose"
        \/ packets' = packets + 1 /\ dropped' = dropped /\ dpc = "drop" /\ dpc' = "countdrop"
        \/ packets' = packets /\ dropped' = dropped + 1 /\ dpc = "countdrop" /\ dpc' = "choose"
    BY <1>1, <1>3
    DEF Dispatcher, Choose, Break, Receive, ReceiveFails, Publish, CountPacket,
        ReceiveDropped, CountDropped, DispatcherTraps, dispatcher
  <2>3. CASE report = [packets |-> Unset, dropped |-> Unset]
    BY <1>2, <2>1, <2>3 DEF HalfReported, ReportAddsUp, Reported, Unset
  <2>4. CASE report # [packets |-> Unset, dropped |-> Unset]
    <3>1. ctrl_c = 1 /\ report.packets \in Int /\ report.dropped \in Int
      BY <1>1, <2>4 DEF HalfReported
    <3>2. QED
      BY <1>1, <1>2, <2>1, <2>2, <3>1 DEF HalfReported, ReportAddsUp, Reported
  <2>5. QED
    BY <2>3, <2>4
<1>4. CASE \E j \in Worker : WorkerStep(j)
  <2>1. UNCHANGED <<ctrl_c, kpc, summed, pprocessed, report, packets, dropped, dpc>>
    BY <1>4 DEF WorkerStep, Claim, Process, ProcessUnseen, WorkerTraps, WorkerEnds, dispatcher, keeper
  <2>2. QED
    BY <1>2, <2>1 DEF HalfReported, ReportAddsUp, Reported
<1>5. CASE ReadCounter
  <2>1. UNCHANGED <<ctrl_c, kpc, summed, pprocessed, packets, dropped, dpc>>
    BY <1>5 DEF ReadCounter, dispatcher
  <2>2. /\ kpc = "sum" /\ summed = opts.numwrkr
        /\ \/ report.packets = Unset /\ report' = [report EXCEPT !.packets = packets]
           \/ report.dropped = Unset /\ report' = [report EXCEPT !.dropped = dropped]
    BY <1>5 DEF ReadCounter
  <2>3. pprocessed <= Published
    BY <2>2, SummedIsPublished
  <2>4. pprocessed <= packets - dropped + (IF dpc \in {"drop", "countdrop"} THEN 0 ELSE 1)
    BY <1>1, <2>3 DEF Published
  <2>5. CASE report.packets = Unset /\ report' = [report EXCEPT !.packets = packets]
    <3>1. report'.packets = packets /\ report'.dropped = report.dropped /\ packets # Unset
      BY <1>1, <2>5 DEF Unset
    <3>2. QED
      BY <1>1, <1>2, <2>1, <2>2, <2>4, <2>5, <3>1 DEF HalfReported, ReportAddsUp, Reported
  <2>6. CASE report.dropped = Unset /\ report' = [report EXCEPT !.dropped = dropped]
    <3>1. report'.dropped = dropped /\ report'.packets = report.packets /\ dropped # Unset
      BY <1>1, <2>6 DEF Unset
    <3>2. QED
      BY <1>1, <1>2, <2>1, <2>2, <2>4, <2>6, <3>1 DEF HalfReported, ReportAddsUp, Reported
  <2>7. QED
    BY <2>2, <2>5, <2>6
<1>6. CASE WakeUp \/ Sum \/ FreeAndExit \/ UNCHANGED vars
  <2>1. UNCHANGED <<report, packets, dropped, dpc>>
    BY <1>6 DEF WakeUp, Sum, FreeAndExit, dispatcher, vars, keeper
  <2>2. \/ kpc = "sleep" /\ ctrl_c' = 1 /\ UNCHANGED <<summed, pprocessed>>
        \/ kpc = "sum" /\ summed < opts.numwrkr /\ UNCHANGED <<ctrl_c, kpc>>
        \/ kpc = "sum" /\ kpc' = "exit" /\ UNCHANGED <<ctrl_c, summed, pprocessed>>
        \/ UNCHANGED <<ctrl_c, kpc, summed, pprocessed>>
    BY <1>6 DEF WakeUp, Sum, FreeAndExit, vars, keeper
  <2>3. summed \in Nat
    BY <1>1 DEF Counters
  <2>4. CASE report = [packets |-> Unset, dropped |-> Unset]
    BY <1>2, <2>1, <2>2, <2>4 DEF HalfReported, ReportAddsUp, Reported, Unset
  <2>5. CASE report # [packets |-> Unset, dropped |-> Unset]
    BY <1>1, <1>2, <2>1, <2>2, <2>3, <2>5 DEF HalfReported, ReportAddsUp, Reported, Unset
  <2>6. QED
    BY <2>4, <2>5
<1>7. QED
  BY <1>3, <1>4, <1>5, <1>6 DEF Next, Over, TimeKeeper

(* What the sniffer prints fits together, however many workers it has and  *)
(* however the three kinds of actor go on while it is read: the packets    *)
(* processed are at most those captured and not dropped, but for one.      *)
THEOREM ReportFits == Spec => []ReportAddsUp
<1>1. RInv /\ RInv' /\ Counters /\ Counters' /\ Ledger /\ HalfReported /\ [Next]_vars
        => Ledger' /\ HalfReported'
  BY StepLedger, StepReported DEF RInv
<1>2. HalfReported => ReportAddsUp
  BY DEF HalfReported
<1>3. QED
  BY RingInvariance, CountersHold, InitLedger, <1>1, <1>2, PTL DEF Spec

-----------------------------------------------------------------------------
(* The queue a ring stands for: n slots s with the indices g and p.        *)
QueueIn(n, g, p, s) == [k \in 1 .. QueuedIn(n, g, p) |-> s[Plus(n, g, k)]]

LEMMA AppendLast ==
  ASSUME NEW S, NEW s \in Seq(S), NEW t \in Seq(S), Len(t) = Len(s) + 1,
         \A k \in 1 .. Len(s) : t[k] = s[k]
  PROVE  t = Append(s, t[Len(t)])
<1>1. Len(s) \in Nat /\ Len(t) \in 1 .. Len(t)
  BY LenProperties
<1>2. t[Len(t)] \in S
  BY <1>1, ElementOfSeq
<1>3. /\ Append(s, t[Len(t)]) \in Seq(S) /\ Len(Append(s, t[Len(t)])) = Len(s) + 1
      /\ \A k \in 1 .. Len(s) + 1 : Append(s, t[Len(t)])[k] = IF k = Len(s) + 1 THEN t[Len(t)] ELSE s[k]
  BY <1>2
<1>4. QED
  BY <1>1, <1>3, SeqEqual

LEMMA DropFirst ==
  ASSUME NEW S, NEW s \in Seq(S), NEW t \in Seq(S), Len(s) = Len(t) + 1,
         \A k \in 1 .. Len(t) : t[k] = s[k + 1]
  PROVE  t = Tail(s) /\ s # <<>> /\ Head(s) = s[1]
<1>1. Len(t) \in Nat /\ s # <<>>
  BY LenProperties, EmptySeq
<1>2. /\ Tail(s) \in Seq(S) /\ Len(Tail(s)) = Len(t)
      /\ \A k \in 1 .. Len(t) : Tail(s)[k] = s[k + 1]
  BY <1>1, HeadTailProperties
<1>3. t = Tail(s)
  BY <1>2, SeqEqual
<1>4. QED
  BY <1>1, <1>3

LEMMA RingIsSequence ==
  ASSUME NEW n \in Nat \ {0}, NEW g \in 0 .. n - 1, NEW p \in 0 .. n - 1,
         NEW s \in [0 .. n - 1 -> Packet]
  PROVE  /\ QueueIn(n, g, p, s) \in Seq(Packet)
         /\ Len(QueueIn(n, g, p, s)) = QueuedIn(n, g, p)
         /\ \A k \in 1 .. QueuedIn(n, g, p) : QueueIn(n, g, p, s)[k] = s[Plus(n, g, k)]
<1>1. QueuedIn(n, g, p) \in 0 .. n - 1
  BY IndexValues
<1>2. ASSUME NEW k \in 1 .. QueuedIn(n, g, p) PROVE s[Plus(n, g, k)] \in Packet
  <2>1. Plus(n, g, k) \in 0 .. n - 1
    BY <1>1, IndexValues
  <2>2. QED
    BY <2>1
<1>3. QED
  BY <1>1, <1>2 DEF QueueIn

LEMMA PutInRing ==
  ASSUME NEW n \in Nat \ {0}, NEW g \in 0 .. n - 1, NEW p \in 0 .. n - 1, p # g,
         NEW s \in [0 .. n - 1 -> Packet]
  PROVE  LET old == QueueIn(n, g, p, s)
             new == QueueIn(n, g, Plus(n, p, 1), s)
         IN  /\ Len(old) < n - 1 /\ Len(new) = Len(old) + 1
             /\ new = Append(old, new[Len(new)])
<1> DEFINE old == QueueIn(n, g, p, s)
           new == QueueIn(n, g, Plus(n, p, 1), s)
           d == QueuedIn(n, g, p)
<1>1. /\ Plus(n, p, 1) \in 0 .. n - 1 /\ d \in 0 .. n - 2
      /\ QueuedIn(n, g, Plus(n, p, 1)) = d + 1
  BY PublishMoves
<1>2. /\ old \in Seq(Packet) /\ Len(old) = d
      /\ \A k \in 1 .. d : old[k] = s[Plus(n, g, k)]
  BY RingIsSequence
<1>3. Plus(n, p, 1) \in 0 .. n - 1
  BY <1>1
<1>4. /\ new \in Seq(Packet) /\ Len(new) = QueuedIn(n, g, Plus(n, p, 1))
      /\ \A k \in 1 .. QueuedIn(n, g, Plus(n, p, 1)) : new[k] = s[Plus(n, g, k)]
  BY <1>3, RingIsSequence
<1>5. /\ new \in Seq(Packet) /\ Len(new) = d + 1
      /\ \A k \in 1 .. d + 1 : new[k] = s[Plus(n, g, k)]
  BY <1>1, <1>4
<1> HIDE DEF old, new, d
<1>6. Len(old) < n - 1 /\ Len(new) = Len(old) + 1 /\ \A k \in 1 .. Len(old) : new[k] = old[k]
  BY <1>1, <1>2, <1>5
<1>7. new = Append(old, new[Len(new)])
  BY <1>2, <1>5, <1>6, AppendLast
<1>8. QED
  BY <1>6, <1>7 DEF old, new

LEMMA TakeFromRing ==
  ASSUME NEW n \in Nat \ {0}, NEW g \in 0 .. n - 1, NEW p \in 0 .. n - 1,
         NEW s \in [0 .. n - 1 -> Packet], Plus(n, g, 1) # p
  PROVE  LET old == QueueIn(n, g, p, s)
             new == QueueIn(n, Plus(n, g, 1), p, s)
         IN  old # <<>> /\ Head(old) = s[Plus(n, g, 1)] /\ new = Tail(old)
<1> DEFINE old == QueueIn(n, g, p, s)
           new == QueueIn(n, Plus(n, g, 1), p, s)
           d == QueuedIn(n, g, p)
<1>1. /\ Plus(n, g, 1) \in 0 .. n - 1 /\ d \in 1 .. n - 1
      /\ QueuedIn(n, Plus(n, g, 1), p) = d - 1
      /\ \A k \in 1 .. d - 1 : Plus(n, Plus(n, g, 1), k) = Plus(n, g, k + 1)
  BY ClaimMoves
<1>2. /\ old \in Seq(Packet) /\ Len(old) = d
      /\ \A k \in 1 .. d : old[k] = s[Plus(n, g, k)]
  BY RingIsSequence
<1>3. Plus(n, g, 1) \in 0 .. n - 1
  BY <1>1
<1>4. /\ new \in Seq(Packet) /\ Len(new) = QueuedIn(n, Plus(n, g, 1), p)
      /\ \A k \in 1 .. QueuedIn(n, Plus(n, g, 1), p) :
           new[k] = s[Plus(n, Plus(n, g, 1), k)]
  BY <1>3, RingIsSequence
<1>5. /\ new \in Seq(Packet) /\ Len(new) = d - 1
      /\ \A k \in 1 .. d - 1 : new[k] = s[Plus(n, Plus(n, g, 1), k)]
  BY <1>1, <1>4
<1> HIDE DEF old, new, d
<1>6. Len(old) = Len(new) + 1
  BY <1>1, <1>2, <1>5
<1>7. ASSUME NEW k \in 1 .. Len(new) PROVE new[k] = old[k + 1]
  <2>1. k \in 1 .. d - 1 /\ k + 1 \in 1 .. d
    BY <1>1, <1>5
  <2>2. old[k + 1] = s[Plus(n, g, k + 1)]
    BY <1>2, <2>1
  <2>3. QED
    BY <1>1, <1>5, <2>1, <2>2
<1>8. new = Tail(old) /\ old # <<>> /\ Head(old) = old[1]
  BY <1>2, <1>5, <1>6, <1>7, DropFirst
<1>9. 1 \in 1 .. d
  BY <1>1
<1>10. QED
  BY <1>2, <1>8, <1>9 DEF old, new

LEMMA StoreInRing ==
  ASSUME NEW n \in Nat \ {0}, NEW g \in 0 .. n - 1, NEW p \in 0 .. n - 1, p # g,
         NEW s, NEW t, \A k \in 0 .. n - 1 : k # p => t[k] = s[k]
  PROVE  QueueIn(n, g, p, t) = QueueIn(n, g, p, s) /\ t[g] = s[g]
<1>1. \A k \in 1 .. QueuedIn(n, g, p) : Plus(n, g, k) # p
  BY FreeSlot
<1>2. QueuedIn(n, g, p) \in 0 .. n - 1
  BY IndexValues
<1>3. \A k \in 1 .. QueuedIn(n, g, p) : Plus(n, g, k) \in 0 .. n - 1
  BY <1>2, IndexValues
<1>4. \A k \in 1 .. QueuedIn(n, g, p) : t[Plus(n, g, k)] = s[Plus(n, g, k)]
  BY <1>1, <1>3
<1>5. QED
  BY <1>4 DEF QueueIn

-----------------------------------------------------------------------------
(* The queues, the capacities and the packets in hand, in terms of rings.  *)
LEMMA QueuesNow ==
  /\ queues = [j \in Worker |-> QueueIn(Q(j), geti[j], puti[j], slot[j])]
  /\ hands = [j \in Worker |-> IF wpc[j] = "process" THEN <<slot[j][geti[j]]>> ELSE <<>>]
BY DEF queues, hands, QueueIn, QueuedIn, Queued, Plus, Claimed

LEMMA QueuesNext ==
  ASSUME UNCHANGED opts
  PROVE  /\ queues' = [j \in Worker |-> QueueIn(Q(j), geti'[j], puti'[j], slot'[j])]
         /\ hands' = [j \in Worker |-> IF wpc'[j] = "process" THEN <<slot'[j][geti'[j]]>> ELSE <<>>]
         /\ capacities' = capacities
BY DEF queues, hands, capacities, QueueIn, QueuedIn, Queued, Plus, Claimed, Q, Worker

LEMMA PublishPuts ==
  ASSUME RInv, Publish
  PROVE  Rings!Put(turn)
<1> DEFINE n == Q(turn)
           old == QueueIn(n, geti[turn], puti[turn], slot[turn])
           new == QueueIn(n, geti[turn], Plus(n, puti[turn], 1), slot[turn])
<1>1. /\ turn \in Worker /\ n \in Nat \ {0} /\ puti[turn] # geti[turn]
      /\ puti[turn] \in 0 .. n - 1 /\ geti[turn] \in 0 .. n - 1
      /\ slot[turn] \in [0 .. n - 1 -> Packet] /\ DOMAIN puti = Worker
  BY RingLength DEF RInv, Place, InRing, Reserved, Publish
<1>2. /\ UNCHANGED <<opts, slot, geti, wpc>>
      /\ puti' = [puti EXCEPT ![turn] = Plus(n, puti[turn], 1)]
  BY DEF Publish, workers, After, Plus
<1>3. /\ Len(old) < n - 1 /\ Len(new) = Len(old) + 1
      /\ new = Append(old, new[Len(new)])
  <2> HIDE DEF n
  <2>1. QED
    BY <1>1, PutInRing
<1>4. queues' = [queues EXCEPT ![turn] = new]
  BY <1>1, <1>2, QueuesNow, QueuesNext
<1>5. queues[turn] = old /\ queues'[turn] = new
  BY <1>1, <1>4, QueuesNow
<1>6. hands' = hands /\ capacities' = capacities
  BY <1>2, QueuesNow, QueuesNext
<1>7. capacities[turn] = n - 1
  BY <1>1 DEF capacities
<1> HIDE DEF old, new, n
<1>8. queues' = [queues EXCEPT ![turn] = Append(queues[turn], queues'[turn][Len(queues'[turn])])]
  BY <1>3, <1>4, <1>5
<1>9. QED
  BY <1>3, <1>5, <1>6, <1>7, <1>8 DEF Rings!Put

LEMMA ClaimTakes ==
  ASSUME RInv, NEW j \in Worker, Claim(j)
  PROVE  Rings!Take(j)
<1> DEFINE n == Q(j)
           h == Plus(n, geti[j], 1)
           old == QueueIn(n, geti[j], puti[j], slot[j])
           new == QueueIn(n, h, puti[j], slot[j])
<1>1. /\ n \in Nat \ {0} /\ DOMAIN geti = Worker /\ DOMAIN wpc = Worker
      /\ puti[j] \in 0 .. n - 1 /\ geti[j] \in 0 .. n - 1
      /\ slot[j] \in [0 .. n - 1 -> Packet]
  BY RingLength DEF RInv, Place, InRing, Claim
<1>2. /\ UNCHANGED <<opts, slot, puti>> /\ h # puti[j] /\ wpc[j] = "loop"
      /\ geti' = [geti EXCEPT ![j] = h] /\ wpc' = [wpc EXCEPT ![j] = "process"]
  BY DEF Claim, Empty, After, Plus
<1>3. old # <<>> /\ Head(old) = slot[j][h] /\ new = Tail(old)
  <2> HIDE DEF n
  <2>1. QED
    BY <1>1, <1>2, TakeFromRing
<1> HIDE DEF h
<1>4. queues[j] = old /\ hands[j] = <<>> /\ capacities' = capacities
  BY <1>2, QueuesNow, QueuesNext
<1>5. queues' = [queues EXCEPT ![j] = new]
  BY <1>1, <1>2, QueuesNow, QueuesNext
<1>6. hands' = [hands EXCEPT ![j] = <<slot[j][h]>>]
  BY <1>1, <1>2, QueuesNow, QueuesNext
<1> HIDE DEF old, new, n
<1>7. QED
  BY <1>3, <1>4, <1>5, <1>6 DEF Rings!Take

LEMMA ProcessFinishes ==
  ASSUME RInv, NEW j \in Worker, Process(j) \/ ProcessUnseen(j)
  PROVE  Rings!Finish(j)
<1>1. /\ UNCHANGED <<opts, slot, geti, puti>> /\ wpc[j] = "process"
      /\ wpc' = [wpc EXCEPT ![j] = "loop"] /\ DOMAIN wpc = Worker
  BY DEF Process, ProcessUnseen, rings, RInv, Place
<1>2. hands[j] # <<>>
  BY <1>1, QueuesNow
<1>3. hands' = [hands EXCEPT ![j] = <<>>]
  BY <1>1, QueuesNow, QueuesNext
<1>4. queues' = queues /\ capacities' = capacities
  BY <1>1, QueuesNow, QueuesNext
<1>5. QED
  BY <1>2, <1>3, <1>4 DEF Rings!Finish

(* The slot a packet is received into is not in the queue.                 *)
LEMMA ReceiveIsUnseen ==
  ASSUME RInv, Receive
  PROVE  UNCHANGED <<capacities, queues, hands>>
<1>1. /\ turn \in Worker /\ Q(turn) \in Nat \ {0} /\ puti[turn] # geti[turn]
      /\ puti[turn] \in 0 .. Q(turn) - 1 /\ geti[turn] \in 0 .. Q(turn) - 1
      /\ slot[turn] \in [0 .. Q(turn) - 1 -> Packet] /\ DOMAIN slot = Worker
  BY RingLength DEF RInv, Place, InRing, Reserved, Receive
<1>2. UNCHANGED <<opts, geti, puti, wpc>>
  BY DEF Receive, workers
<1>3. PICK x : slot' = [slot EXCEPT ![turn] = [slot[turn] EXCEPT ![puti[turn]] = x]]
  BY DEF Receive
<1>4. /\ QueueIn(Q(turn), geti[turn], puti[turn], slot'[turn])
           = QueueIn(Q(turn), geti[turn], puti[turn], slot[turn])
      /\ slot'[turn][geti[turn]] = slot[turn][geti[turn]]
  <2>1. slot'[turn] = [slot[turn] EXCEPT ![puti[turn]] = x]
    BY <1>1, <1>3
  <2>2. \A k \in 0 .. Q(turn) - 1 : k # puti[turn] => slot'[turn][k] = slot[turn][k]
    BY <1>1, <2>1
  <2> DEFINE n == Q(turn)
             g == geti[turn]
             p == puti[turn]
             s == slot[turn]
             t == slot'[turn]
  <2>3. /\ n \in Nat \ {0} /\ g \in 0 .. n - 1 /\ p \in 0 .. n - 1 /\ p # g
        /\ \A k \in 0 .. n - 1 : k # p => t[k] = s[k]
    BY <1>1, <2>2
  <2> HIDE DEF n, g, p, s, t
  <2>4. QueueIn(n, g, p, t) = QueueIn(n, g, p, s) /\ t[g] = s[g]
    BY <2>3, StoreInRing
  <2>5. QED
    BY <2>4 DEF n, g, p, s, t
<1>5. \A j \in Worker : j # turn => slot'[j] = slot[j]
  BY <1>1, <1>3
<1>6. QED
  BY <1>2, <1>4, <1>5, QueuesNow, QueuesNext

LEMMA RestIsUnseen ==
  ASSUME RInv, [Next]_vars, ~Publish, ~Receive,
         \A j \in Worker : ~Claim(j) /\ ~Process(j) /\ ~ProcessUnseen(j)
  PROVE  UNCHANGED <<capacities, queues, hands>>
<1>1. UNCHANGED <<opts, slot, geti, puti>>
  BY DEF Next, Over, vars, Dispatcher, Choose, Break, ReceiveFails, CountPacket,
         ReceiveDropped, CountDropped, DispatcherTraps, TimeKeeper, WakeUp, Sum,
         ReadCounter, FreeAndExit, WorkerStep, WorkerTraps, WorkerEnds, rings
<1>2. UNCHANGED wpc \/ \E j \in Worker : wpc[j] = "loop" /\ wpc' = [wpc EXCEPT ![j] = "ended"]
  BY DEF Next, Over, vars, Dispatcher, Choose, Break, ReceiveFails, CountPacket,
         ReceiveDropped, CountDropped, DispatcherTraps, TimeKeeper, WakeUp, Sum,
         ReadCounter, FreeAndExit, WorkerStep, WorkerTraps, WorkerEnds, workers
<1>3. \A j \in Worker : wpc'[j] = "process" <=> wpc[j] = "process"
  BY <1>2 DEF RInv, Place
<1>4. QED
  BY <1>1, <1>3, QueuesNow, QueuesNext

LEMMA InitQueues == Init => Rings!Init
<1> SUFFICES ASSUME Init PROVE Rings!Init
  OBVIOUS
<1>1. RInv
  BY InitRings
<1>2. \A j \in Worker : Q(j) \in Nat
  BY <1>1, RingLength DEF RInv, Place
<1>3. \A j \in Worker : Queued(j) = 0
  <2> SUFFICES ASSUME NEW j \in Worker, Q(j) # 0 PROVE Queued(j) = 0
    BY DEF Queued
  <2>1. Q(j) \in Nat \ {0} /\ geti[j] = Q(j) - 1 /\ puti[j] = 0
    BY <1>2 DEF Init
  <2>2. QueuedIn(Q(j), geti[j], puti[j]) = 0
    BY <2>1, NothingQueued
  <2>3. QED
    BY <2>2 DEF Queued, QueuedIn
<1>4. queues = [j \in Worker |-> <<>>] /\ hands = [j \in Worker |-> <<>>]
  BY <1>3 DEF queues, hands, Init
<1>5. DOMAIN capacities = Worker /\ \A j \in Worker : capacities[j] \in Nat
  BY <1>2 DEF capacities
<1>6. QED
  BY <1>4, <1>5 DEF Rings!Init

(* Every ring with its two indices and no lock is a bounded FIFO queue:    *)
(* what the dispatcher and the workers do to a ring is what an atomic      *)
(* queue would do, in any order of their steps.                            *)
THEOREM RingsAreQueues == Spec => ImplementsPacketQueues
<1>1. ASSUME RInv, [Next]_vars PROVE [Rings!Next]_(Rings!vars)
  <2>1. DOMAIN capacities = Worker
    BY DEF capacities
  <2>2. CASE Publish
    BY <1>1, <2>1, <2>2, PublishPuts DEF Rings!Next, RInv, Place
  <2>3. CASE Receive
    BY <1>1, <2>3, ReceiveIsUnseen DEF Rings!vars
  <2>4. ASSUME NEW j \in Worker, Claim(j) PROVE Rings!Next
    BY <1>1, <2>1, <2>4, ClaimTakes DEF Rings!Next
  <2>5. ASSUME NEW j \in Worker, Process(j) \/ ProcessUnseen(j) PROVE Rings!Next
    BY <1>1, <2>1, <2>5, ProcessFinishes DEF Rings!Next
  <2>6. CASE /\ ~Publish /\ ~Receive
             /\ \A j \in Worker : ~Claim(j) /\ ~Process(j) /\ ~ProcessUnseen(j)
    BY <1>1, <2>6, RestIsUnseen DEF Rings!vars
  <2>7. QED
    BY <2>2, <2>3, <2>4, <2>5, <2>6
<1>2. QED
  BY InitQueues, RingInvariance, <1>1, PTL DEF Spec, ImplementsPacketQueues, Rings!Spec
=============================================================================
