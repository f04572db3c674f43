------------------------------ MODULE CacheCtc ------------------------------
(***************************************************************************)
(* The cache-to-cache benchmark, benchmarks/cache: a producer thread and a *)
(* consumer thread walk over the same data set block by block and keep     *)
(* their distance inside a window, with no lock: each polls two counters   *)
(* and a reset flag that the other one writes.                             *)
(*                                                                         *)
(* The pairs of one run share nothing (every array is indexed by the       *)
(* pair's id), so one pair is modelled.  What a kernel loads and stores    *)
(* in a block is abstracted to pass[b], the last iteration in which the    *)
(* producer went through block b; the times it takes are left out.         *)
(***************************************************************************)
EXTENDS Integers

CONSTANT Options    (* the command lines the benchmark may be started with *)

YES == 1
NO == 0
mpac_K == 1024

(* What parse_cmdl can leave in a configuration, as far as the two threads *)
(* look at it: atoi and atol yield any integer, the switches YES or NO.    *)
ConfigType == [dataset_sz : Int, block_sz : Int, lbound_sync : Int,
               ubound_sync : Int, itrs_w : Int, itrs_bm : Int,
               cwarm : {YES, NO}, exclusion : {YES, NO}]

ASSUME OptionsAssumption == Options \subseteq ConfigType

(* The command lines main goes on with: the others exit in validate_CLopts *)
validate_CLopts(o) ==
  /\ o.itrs_bm >= 0
  /\ o.itrs_w >= 0
  /\ o.lbound_sync >= 0
  /\ o.ubound_sync >= 0
  /\ o.block_sz >= 8 * mpac_K
  /\ o.dataset_sz >= o.block_sz

VARIABLES
  opts,          \* the options of this run
  producer_at,   \* the block the producer last finished, or -1
  consumer_at,   \* the block the consumer last finished, or -1
  reset_at,      \* 1 while the producer has not seen the end of an iteration
  pass,          \* the data set: the iteration that last produced each block
  ppc, pn, pb, pdistance,    \* producer: where it is, its n, b and distance
  cpc, cn, cb, cdistance,    \* consumer: the same
  finished       \* main has joined both threads and printed the results

shared == <<producer_at, consumer_at, reset_at>>
prod == <<ppc, pn, pb, pdistance>>
cons == <<cpc, cn, cb, cdistance>>
vars == <<opts, shared, pass, prod, cons, finished>>

num_blks == opts.dataset_sz \div opts.block_sz
Blocks == 0 .. num_blks - 1

(* The threads number their warm-up and benchmark iterations from 0 again; *)
(* here one count runs through both loops: the first itrs_w are warm-up.   *)
Iterations == opts.itrs_w + opts.itrs_bm
Warmup(n) == n < opts.itrs_w

(* In which iterations the producer takes part in the handshake, and with  *)
(* which one the consumer begins.                                          *)
WarmTogether == opts.exclusion = YES \/ opts.cwarm = YES
Synced(n) == WarmTogether \/ ~Warmup(n)
FirstSynced == IF WarmTogether THEN 0 ELSE opts.itrs_w

Distance == producer_at - consumer_at

(* (Slips in the polling loops: one block more; one block less; no end at  *)
(* the last block.)                                                        *)
ProducerTooFarByOne == Distance > opts.ubound_sync + 1
ConsumerTooNearByOne == Distance < opts.lbound_sync - 1 /\ producer_at < num_blks - 1
ConsumerTooNearForEver == Distance < opts.lbound_sync

(* The two polling loops: NO_OP() is executed while these hold.            *)
ProducerTooFar == Distance > opts.ubound_sync
ConsumerTooNear == Distance < opts.lbound_sync /\ producer_at < num_blks - 1

Init ==
  /\ opts \in {o \in Options : validate_CLopts(o)}
  /\ producer_at = -1 /\ consumer_at = -1 /\ reset_at = 0
  /\ pass = [b \in Blocks |-> -1]
  /\ ppc = "start" /\ pn = 0 /\ pb = 0 /\ pdistance = 0
  /\ cpc = "start" /\ cn = FirstSynced /\ cb = 0 /\ cdistance = 0
  /\ finished = FALSE

-----------------------------------------------------------------------------
(* The producer.                                                           *)

(* The head of an iteration loop: the next iteration, or the thread's end. *)
ProducerAt(n) == IF n < Iterations THEN "loop" ELSE "done"

(* The memset of the whole data set when the thread starts.                *)
ProducerStart ==
  /\ ppc = "start"
  /\ pass' = [b \in Blocks |-> -1]
  /\ ppc' = ProducerAt(0)
  /\ UNCHANGED <<opts, shared, pn, pb, pdistance, cons, finished>>

(* A benchmark block begins by recording the distance, before it is known  *)
(* that the distance lets the producer go on.                              *)
ProducerNext ==
  /\ ppc = "loop" /\ pb < num_blks
  /\ pdistance' = IF Warmup(pn) THEN pdistance ELSE Distance
  /\ ppc' = "spin"
  /\ UNCHANGED <<opts, shared, pass, pn, pb, cons, finished>>

(* The polling loop ends and the kernel runs over block pb.                *)
ProducerEnter ==
  /\ ppc = "spin"
  /\ Synced(pn) => ~ProducerTooFar
  /\ ppc' = "work"
  /\ UNCHANGED <<opts, shared, pass, pn, pb, pdistance, cons, finished>>

(* The kernel is done with block pb.                                       *)
ProducerLeave ==
  /\ ppc = "work"
  /\ pass' = [pass EXCEPT ![pb] = pn]
  /\ producer_at' = IF Synced(pn) THEN producer_at + 1 ELSE producer_at
  /\ pb' = pb + 1
  /\ ppc' = "loop"
  /\ UNCHANGED <<opts, consumer_at, reset_at, pn, pdistance, cons, finished>>

(* After the last block of an iteration the consumer does not wait for,    *)
(* the producer starts over; otherwise it polls for the reset flag ...     *)
ProducerIterate ==
  /\ ppc = "loop" /\ pb = num_blks /\ ~Synced(pn)
  /\ pn' = pn + 1 /\ pb' = 0
  /\ ppc' = ProducerAt(pn + 1)
  /\ UNCHANGED <<opts, shared, pass, pdistance, cons, finished>>

ProducerSeesReset ==
  /\ ppc = "loop" /\ pb = num_blks /\ Synced(pn)
  /\ reset_at # 0
  /\ ppc' = "clear"
  /\ UNCHANGED <<opts, shared, pass, pn, pb, pdistance, cons, finished>>

(* ... and takes it back, in a store of its own.                           *)
ProducerClearsReset ==
  /\ ppc = "clear"
  /\ reset_at' = 0
  /\ pn' = pn + 1 /\ pb' = 0
  /\ ppc' = ProducerAt(pn + 1)
  /\ UNCHANGED <<opts, producer_at, consumer_at, pass, pdistance, cons, finished>>

Producer ==
  \/ ProducerStart \/ ProducerNext \/ ProducerEnter \/ ProducerLeave
  \/ ProducerIterate \/ ProducerSeesReset \/ ProducerClearsReset

-----------------------------------------------------------------------------
(* The consumer.                                                           *)

ConsumerAt(n) == IF n < Iterations THEN "loop" ELSE "done"

(* With -x the consumer clears a data set of its own, which pass does not  *)
(* describe.  Without warm-up for the consumer, its first iteration is the *)
(* first benchmark iteration.                                              *)
ConsumerStart ==
  /\ cpc = "start"
  /\ cpc' = ConsumerAt(cn)
  /\ UNCHANGED <<opts, shared, pass, prod, cn, cb, cdistance, finished>>

ConsumerNext ==
  /\ cpc = "loop" /\ cb < num_blks
  /\ cdistance' = IF Warmup(cn) THEN cdistance ELSE Distance
  /\ cpc' = "spin"
  /\ UNCHANGED <<opts, shared, pass, prod, cn, cb, finished>>

ConsumerEnter ==
  /\ cpc = "spin"
  /\ ~ConsumerTooNear
  /\ cpc' = "work"
  /\ UNCHANGED <<opts, shared, pass, prod, cn, cb, cdistance, finished>>

ConsumerLeave ==
  /\ cpc = "work"
  /\ consumer_at' = consumer_at + 1
  /\ cb' = cb + 1
  /\ cpc' = "loop"
  /\ UNCHANGED <<opts, producer_at, reset_at, pass, prod, cn, cdistance, finished>>

(* (Slip: it does not wait for the producer.)                              *)
ConsumerDrainedAtOnce ==
  /\ cpc = "loop" /\ cb = num_blks
  /\ cpc' = "resetp"
  /\ UNCHANGED <<opts, shared, pass, prod, cn, cb, cdistance, finished>>

(* The consumer waits until the producer is through with the iteration ... *)
ConsumerDrained ==
  /\ cpc = "loop" /\ cb = num_blks
  /\ producer_at >= num_blks - 1
  /\ cpc' = "resetp"
  /\ UNCHANGED <<opts, shared, pass, prod, cn, cb, cdistance, finished>>

(* ... and puts the counters back and raises the flag: three stores.       *)
ConsumerResetsProducerAt ==
  /\ cpc = "resetp"
  /\ producer_at' = -1
  /\ cpc' = "resetc"
  /\ UNCHANGED <<opts, consumer_at, reset_at, pass, prod, cn, cb, cdistance, finished>>

(* (Slip: consumer_at is left as it is.)                                   *)
ConsumerKeepsConsumerAt ==
  /\ cpc = "resetc"
  /\ cpc' = "flag"
  /\ UNCHANGED <<opts, shared, pass, prod, cn, cb, cdistance, finished>>

ConsumerResetsConsumerAt ==
  /\ cpc = "resetc"
  /\ consumer_at' = -1
  /\ cpc' = "flag"
  /\ UNCHANGED <<opts, producer_at, reset_at, pass, prod, cn, cb, cdistance, finished>>

(* (Slip: the flag is not raised.)                                         *)
ConsumerRaisesNoReset ==
  /\ cpc = "flag"
  /\ cn' = cn + 1 /\ cb' = 0
  /\ cpc' = ConsumerAt(cn + 1)
  /\ UNCHANGED <<opts, shared, pass, prod, cdistance, finished>>

ConsumerRaisesReset ==
  /\ cpc = "flag"
  /\ reset_at' = 1
  /\ cn' = cn + 1 /\ cb' = 0
  /\ cpc' = ConsumerAt(cn + 1)
  /\ UNCHANGED <<opts, producer_at, consumer_at, pass, prod, cdistance, finished>>

Consumer ==
  \/ ConsumerStart \/ ConsumerNext \/ ConsumerEnter \/ ConsumerLeave
  \/ ConsumerDrained \/ ConsumerResetsProducerAt \/ ConsumerResetsConsumerAt
  \/ ConsumerRaisesReset

-----------------------------------------------------------------------------
(* main waits for the producer, then for the consumer, and prints.         *)
Finish ==
  /\ ~finished /\ ppc = "done" /\ cpc = "done"
  /\ finished' = TRUE
  /\ UNCHANGED <<opts, shared, pass, prod, cons>>

Exited == finished /\ UNCHANGED vars

Next == Producer \/ Consumer \/ Finish \/ Exited

(* Both threads are runnable all the time and pinned to cores: neither is  *)
(* kept from taking its next step for ever.                                *)
Fairness == WF_vars(Producer) /\ WF_vars(Consumer) /\ WF_vars(Finish)

Spec == Init /\ [][Next]_vars
FairSpec == Spec /\ Fairness

-----------------------------------------------------------------------------
(* What the handshake implements, seen by the pipe of module WindowPipe:   *)
(* rounds are the synchronised iterations, and the blocks made and used in *)
(* the current round are counted from 0.                                   *)
ProducerRound == IF Synced(pn) THEN pn ELSE FirstSynced
Made == IF Synced(pn) THEN pb ELSE 0

Pipe == INSTANCE WindowPipe WITH
          size <- num_blks, lower <- opts.lbound_sync, upper <- opts.ubound_sync,
          pround <- ProducerRound, made <- Made, cround <- cn, used <- cb

(* Producer and consumer are a pipe with a window: rounds are kept apart   *)
(* and the bounds hold, although the code numbers no round and resets both *)
(* counters in three separate stores of one of the threads.                *)
ImplementsWindowPipe == Pipe!Spec

-----------------------------------------------------------------------------
TypeOK ==
  /\ opts \in ConfigType /\ validate_CLopts(opts)
  /\ producer_at \in -1 .. num_blks - 1
  /\ consumer_at \in -1 .. num_blks - 1
  /\ reset_at \in {0, 1}
  /\ pass \in [Blocks -> -1 .. Iterations - 1]
  /\ ppc \in {"start", "loop", "spin", "work", "clear", "done"}
  /\ pn \in 0 .. Iterations /\ pb \in 0 .. num_blks /\ pdistance \in Int
  /\ cpc \in {"start", "loop", "spin", "work", "resetp", "resetc", "flag", "done"}
  /\ cn \in 0 .. Iterations /\ cb \in 0 .. num_blks /\ cdistance \in Int
  /\ finished \in BOOLEAN

(* The producer never runs further ahead than the upper bound allows: it   *)
(* polls (line 172) before the kernel and counts after it, while the       *)
(* consumer moves and resets the counters under it.                        *)
LeadBounded == Distance <= opts.ubound_sync + 1

(* A reset is never lost and never early: the consumer rewrites the        *)
(* counters and raises the flag only while the producer is polling for it, *)
(* with the last flag taken back.  (Nothing but the counters themselves    *)
(* keeps the threads from doing this in different iterations.)             *)
ResetHandshake ==
  cpc \in {"resetp", "resetc", "flag"} =>
    /\ reset_at = 0
    /\ pn = cn /\ pb = num_blks /\ ppc = "loop"

(* The consumer uses a block of shared data only after the producer has    *)
(* gone through that block in the same iteration, whatever the kernels do: *)
(* what a lower bound of at least 1 is for.  In particular the two threads *)
(* are never in the same block at a time.                                  *)
ConsumesFresh ==
  (opts.exclusion = NO /\ opts.lbound_sync >= 1 /\ cpc = "work")
    => pass[cb] = cn

(* The distances the two threads record, and the benchmark averages and    *)
(* prints, are distances the options allow.                                *)
DistanceInRange ==
  opts.lbound_sync >= 1 => /\ pdistance \in 0 .. opts.ubound_sync + 1
                           /\ cdistance \in 0 .. opts.ubound_sync + 1

(* The bounds leave the two threads a distance both can work at, or the    *)
(* upper one is out of reach of the data set.                              *)
WindowExists ==
  opts.lbound_sync <= opts.ubound_sync + 1 \/ num_blks <= opts.ubound_sync + 1

(* A thread whose polling loop would not end in the current state.         *)
ProducerStuck ==
  \/ ppc = "spin" /\ Synced(pn) /\ ProducerTooFar
  \/ ppc = "loop" /\ pb = num_blks /\ Synced(pn) /\ reset_at = 0
  \/ ppc = "done"

ConsumerStuck ==
  \/ cpc = "spin" /\ ConsumerTooNear
  \/ cpc = "loop" /\ cb = num_blks /\ producer_at < num_blks - 1
  \/ cpc = "done"

(* The polling loops of the two threads never wait for each other, unless  *)
(* the bounds are such that the consumer asks for a longer lead than the   *)
(* producer allows itself.                                                 *)
NoMutualWait ==
  WindowExists =>
    (ProducerStuck /\ ConsumerStuck => ppc = "done" /\ cpc = "done")

(* Every run whose bounds leave a window comes to its results.             *)
Terminates == WindowExists => <>finished
=============================================================================
