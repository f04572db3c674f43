--------------------------- MODULE CacheCtcProofs ---------------------------
(***************************************************************************)
(* Proofs about CacheCtc, for every configuration main accepts: any number *)
(* of blocks, any bounds, any number of iterations.                        *)
(***************************************************************************)
EXTENDS CacheCtc, TLAPS

-----------------------------------------------------------------------------
(* The inductive invariant.  The code keeps no iteration number in shared  *)
(* memory, so it has to say which iterations the two threads can be in at  *)
(* once: the same one, or, once the flag is raised, the consumer is one    *)
(* ahead while the producer still polls or takes the flag back.            *)

Resetting == cpc \in {"resetp", "resetc", "flag"}

(* Where each thread is in its own loops.                                  *)
ProducerLocal ==
  /\ ppc = "start" => pn = 0 /\ pb = 0
  /\ ppc \in {"loop", "spin", "work", "clear"} => pn < Iterations
  /\ ppc \in {"spin", "work"} => pb < num_blks
  /\ ppc = "clear" => pb = num_blks /\ Synced(pn)
  /\ ppc = "done" => pn = Iterations /\ pb = 0

ConsumerLocal ==
  /\ FirstSynced <= cn
  /\ cpc = "start" => cn = FirstSynced /\ cb = 0
  /\ cpc \notin {"start", "done"} => cn < Iterations
  /\ cpc \in {"spin", "work"} => cb < num_blks
  /\ Resetting => cb = num_blks
  /\ cpc = "done" => cn = Iterations /\ cb = 0

(* Both threads are in the same iteration and the counters tell how far.   *)
SameRound ==
  /\ cn = ProducerRound /\ reset_at = 0 /\ ppc # "clear"
  /\ cpc \notin {"resetc", "flag"}
  /\ producer_at = Made - 1 /\ consumer_at = cb - 1
  /\ cpc = "resetp" => Synced(pn) /\ pb = num_blks

(* The consumer is putting the counters back under a polling producer.     *)
ResetUnderWay ==
  /\ cn = pn /\ reset_at = 0
  /\ Synced(pn) /\ ppc = "loop" /\ pb = num_blks
  /\ producer_at = -1
  /\ \/ cpc = "resetc" /\ consumer_at = num_blks - 1
     \/ cpc = "flag" /\ consumer_at = -1

(* The flag is up: the consumer is in the next iteration already.          *)
FlagRaised ==
  /\ cn = pn + 1 /\ reset_at = 1
  /\ Synced(pn) /\ ppc \in {"loop", "clear"} /\ pb = num_blks
  /\ producer_at = -1 /\ consumer_at = cb - 1
  /\ ~Resetting

Rounds == SameRound \/ ResetUnderWay \/ FlagRaised

(* What the two windows leave room for while a kernel runs.                *)
Window ==
  /\ LeadBounded
  /\ ppc = "work" /\ Synced(pn) => ~ProducerTooFar
  /\ cpc = "work" => ~ConsumerTooNear
  /\ opts.lbound_sync >= 1 /\ SameRound => cb <= Made
  /\ opts.lbound_sync >= 1 /\ FlagRaised => cb = 0

(* What the blocks behind the producer hold.                               *)
Produced == Synced(pn) => \A b \in 0 .. pb - 1 : pass[b] = pn

IInv ==
  /\ TypeOK
  /\ ProducerLocal /\ ConsumerLocal
  /\ Rounds
  /\ Window
  /\ Produced
  /\ DistanceInRange
  /\ finished => ppc = "done" /\ cpc = "done"

-----------------------------------------------------------------------------
(* What validate_CLopts leaves of the options, as numbers.                 *)
LEMMA OptionFacts ==
  ASSUME opts \in ConfigType, validate_CLopts(opts)
  PROVE  /\ num_blks \in Nat /\ num_blks >= 1
         /\ opts.lbound_sync \in Nat /\ opts.ubound_sync \in Nat
         /\ opts.itrs_w \in Nat /\ opts.itrs_bm \in Nat
         /\ Iterations \in Nat
         /\ FirstSynced \in 0 .. Iterations
<1>1. /\ opts.dataset_sz \in Int /\ opts.block_sz \in Int
      /\ opts.block_sz >= 1 /\ opts.dataset_sz >= opts.block_sz
  BY DEF ConfigType, validate_CLopts, mpac_K
<1>2. \A d, s \in Int : s >= 1 /\ d >= s => d \div s \in Nat /\ d \div s >= 1
  OBVIOUS
<1>3. num_blks \in Nat /\ num_blks >= 1
  BY <1>1, <1>2 DEF num_blks
<1>4. QED
  BY <1>3 DEF ConfigType, validate_CLopts, Iterations, FirstSynced, YES, NO

LEMMA InitInvariant == Init => IInv
<1> SUFFICES ASSUME Init PROVE IInv
  OBVIOUS
<1>1. opts \in ConfigType /\ validate_CLopts(opts)
  BY OptionsAssumption DEF Init
<1>o. /\ num_blks \in Nat /\ num_blks >= 1
      /\ opts.lbound_sync \in Nat /\ opts.ubound_sync \in Nat
      /\ Iterations \in Nat /\ FirstSynced \in 0 .. Iterations
  BY <1>1, OptionFacts
<1>2. TypeOK
  <2>1. pass \in [Blocks -> -1 .. Iterations - 1]
    BY <1>o DEF Init
  <2>2. finished \in BOOLEAN
    BY DEF Init
  <2>3. producer_at \in -1 .. num_blks - 1 /\ consumer_at \in -1 .. num_blks - 1
    BY <1>o DEF Init
  <2>4. /\ pn \in 0 .. Iterations /\ pb \in 0 .. num_blks /\ pdistance \in Int
        /\ cn \in 0 .. Iterations /\ cb \in 0 .. num_blks /\ cdistance \in Int
    BY <1>o DEF Init
  <2>5. QED
    BY <1>1, <2>1, <2>2, <2>3, <2>4 DEF Init, TypeOK
<1>3. ProducerLocal /\ ConsumerLocal
  BY <1>o DEF Init, ProducerLocal, ConsumerLocal, Resetting
<1>4. SameRound
  BY <1>1, <1>o DEF Init, SameRound, ProducerRound, Made, Synced, Warmup,
                    FirstSynced, ConfigType, validate_CLopts, WarmTogether
<1>5. Window /\ Produced /\ DistanceInRange
  BY <1>o DEF Init, Window, LeadBounded, Distance, Produced, DistanceInRange,
         FlagRaised, Made
<1>6. QED
  BY <1>2, <1>3, <1>4, <1>5 DEF IInv, Rounds, Init

-----------------------------------------------------------------------------
(* No step changes the options, nor anything that is computed from them:   *)
(* what every step below uses of them.                                     *)
OptionsStep ==
  /\ opts' = opts
  /\ num_blks' = num_blks /\ Blocks' = Blocks
  /\ Iterations' = Iterations /\ FirstSynced' = FirstSynced
  /\ num_blks \in Nat /\ num_blks >= 1
  /\ opts.lbound_sync \in Nat /\ opts.ubound_sync \in Nat
  /\ opts.itrs_w \in Nat /\ opts.itrs_bm \in Nat
  /\ Iterations \in Nat /\ FirstSynced \in 0 .. Iterations

LEMMA StepFacts == ASSUME IInv, [Next]_vars PROVE OptionsStep
<1>1. opts' = opts
  BY DEF Next, vars, Producer, ProducerStart, ProducerNext, ProducerEnter,
         ProducerLeave, ProducerIterate, ProducerSeesReset, ProducerClearsReset,
         Consumer, ConsumerStart, ConsumerNext, ConsumerEnter, ConsumerLeave,
         ConsumerDrained, ConsumerResetsProducerAt, ConsumerResetsConsumerAt,
         ConsumerRaisesReset, Finish, Exited
<1>2. /\ num_blks' = num_blks /\ Blocks' = Blocks
      /\ Iterations' = Iterations /\ FirstSynced' = FirstSynced
  BY <1>1 DEF num_blks, Blocks, Iterations, FirstSynced, WarmTogether
<1>3. QED
  BY <1>1, <1>2, OptionFacts DEF OptionsStep, IInv, TypeOK

(* Each action preserves the invariant: one lemma per action, and in it    *)
(* one step per conjunct.                                                  *)

LEMMA ProducerStartStep == ASSUME IInv, ProducerStart PROVE IInv'
<1>f. OptionsStep
  BY StepFacts DEF Next, Producer
<1> USE <1>f DEF OptionsStep, ProducerStart, shared, prod, cons
<1>1. TypeOK'
  BY DEF IInv, TypeOK, ProducerAt
<1>2. ProducerLocal' /\ ConsumerLocal'
  BY DEF IInv, TypeOK, ProducerLocal, ConsumerLocal, Resetting, ProducerAt,
         Synced, Warmup, WarmTogether
<1>3. Rounds'
  BY DEF IInv, TypeOK, ProducerLocal, ConsumerLocal, Rounds, SameRound, ResetUnderWay, FlagRaised, Resetting,
         ProducerRound, Made, ProducerAt, Synced, Warmup, WarmTogether,
         FirstSynced, Iterations
<1>4. Window'
  BY DEF IInv, TypeOK, ProducerLocal, ConsumerLocal, Rounds, SameRound, ResetUnderWay, FlagRaised, Resetting,
         ProducerRound, Made, ProducerAt, Synced, Warmup, WarmTogether,
         Window, LeadBounded, Distance, ProducerTooFar, ConsumerTooNear
<1>5. Produced'
  BY DEF IInv, TypeOK, Produced, Synced, Warmup, WarmTogether, ProducerLocal,
         Blocks
<1>6. DistanceInRange'
  BY DEF IInv, DistanceInRange, TypeOK, ProducerLocal, ConsumerLocal, Rounds,
         SameRound, ResetUnderWay, FlagRaised, Resetting, Window, LeadBounded, Distance, Made
<1>7. (finished => ppc = "done" /\ cpc = "done")'
  BY DEF IInv
<1>8. QED
  BY <1>1, <1>2, <1>3, <1>4, <1>5, <1>6, <1>7 DEF IInv

LEMMA ProducerNextStep == ASSUME IInv, ProducerNext PROVE IInv'
<1>f. OptionsStep
  BY StepFacts DEF Next, Producer
<1> USE <1>f DEF OptionsStep, ProducerNext, shared, prod, cons
<1>1. TypeOK'
  BY DEF IInv, TypeOK, ProducerAt
<1>2. ProducerLocal' /\ ConsumerLocal'
  BY DEF IInv, TypeOK, ProducerLocal, ConsumerLocal, Resetting, ProducerAt,
         Synced, Warmup, WarmTogether
<1>3. Rounds'
  BY DEF IInv, TypeOK, ProducerLocal, ConsumerLocal, Rounds, SameRound, ResetUnderWay, FlagRaised, Resetting,
         ProducerRound, Made, ProducerAt, Synced, Warmup, WarmTogether,
         FirstSynced, Iterations
<1>4. Window'
  BY DEF IInv, TypeOK, ProducerLocal, ConsumerLocal, Rounds, SameRound, ResetUnderWay, FlagRaised, Resetting,
         ProducerRound, Made, ProducerAt, Synced, Warmup, WarmTogether,
         Window, LeadBounded, Distance, ProducerTooFar, ConsumerTooNear
<1>5. Produced'
  BY DEF IInv, TypeOK, Produced, Synced, Warmup, WarmTogether, ProducerLocal,
         Blocks
<1>6. DistanceInRange'
  BY DEF IInv, DistanceInRange, TypeOK, ProducerLocal, ConsumerLocal, Rounds,
         SameRound, ResetUnderWay, FlagRaised, Resetting, Window, LeadBounded, Distance, Made
<1>7. (finished => ppc = "done" /\ cpc = "done")'
  BY DEF IInv
<1>8. QED
  BY <1>1, <1>2, <1>3, <1>4, <1>5, <1>6, <1>7 DEF IInv

LEMMA ProducerEnterStep == ASSUME IInv, ProducerEnter PROVE IInv'
<1>f. OptionsStep
  BY StepFacts DEF Next, Producer
<1> USE <1>f DEF OptionsStep, ProducerEnter, shared, prod, cons
<1>1. TypeOK'
  BY DEF IInv, TypeOK, ProducerAt
<1>2. ProducerLocal' /\ ConsumerLocal'
  BY DEF IInv, TypeOK, ProducerLocal, ConsumerLocal, Resetting, ProducerAt,
         Synced, Warmup, WarmTogether
<1>3. Rounds'
  BY DEF IInv, TypeOK, ProducerLocal, ConsumerLocal, Rounds, SameRound, ResetUnderWay, FlagRaised, Resetting,
         ProducerRound, Made, ProducerAt, Synced, Warmup, WarmTogether,
         FirstSynced, Iterations
<1>4. Window'
  BY DEF IInv, TypeOK, ProducerLocal, ConsumerLocal, Rounds, SameRound, ResetUnderWay, FlagRaised, Resetting,
         ProducerRound, Made, ProducerAt, Synced, Warmup, WarmTogether,
         Window, LeadBounded, Distance, ProducerTooFar, ConsumerTooNear
<1>5. Produced'
  BY DEF IInv, TypeOK, Produced, Synced, Warmup, WarmTogether, ProducerLocal,
         Blocks
<1>6. DistanceInRange'
  BY DEF IInv, DistanceInRange, TypeOK, ProducerLocal, ConsumerLocal, Rounds,
         SameRound, ResetUnderWay, FlagRaised, Resetting, Window, LeadBounded, Distance, Made
<1>7. (finished => ppc = "done" /\ cpc = "done")'
  BY DEF IInv
<1>8. QED
  BY <1>1, <1>2, <1>3, <1>4, <1>5, <1>6, <1>7 DEF IInv

LEMMA ProducerLeaveStep == ASSUME IInv, ProducerLeave PROVE IInv'
<1>f. OptionsStep
  BY StepFacts DEF Next, Producer
<1> USE <1>f DEF OptionsStep, ProducerLeave, shared, prod, cons
<1>1. TypeOK'
  <2>1. producer_at' \in -1 .. num_blks - 1 /\ consumer_at' \in -1 .. num_blks - 1
    BY DEF IInv, TypeOK, ProducerLocal, ConsumerLocal, Rounds, SameRound, ResetUnderWay, FlagRaised, Resetting,
           Made
  <2>2. pass' \in [Blocks -> -1 .. Iterations - 1]
    BY DEF IInv, TypeOK, ProducerLocal, Blocks
  <2>3. pn' \in 0 .. Iterations /\ pb' \in 0 .. num_blks
    BY DEF IInv, TypeOK, ProducerLocal
  <2>4. cn' \in 0 .. Iterations /\ cb' \in 0 .. num_blks
    BY DEF IInv, TypeOK, ConsumerLocal
  <2>5. QED
    BY <2>1, <2>2, <2>3, <2>4 DEF IInv, TypeOK, ProducerAt
<1>2. ProducerLocal' /\ ConsumerLocal'
  BY DEF IInv, TypeOK, ProducerLocal, ConsumerLocal, Resetting, ProducerAt,
         Synced, Warmup, WarmTogether
<1>3. Rounds'
  BY DEF IInv, TypeOK, ProducerLocal, ConsumerLocal, Rounds, SameRound, ResetUnderWay, FlagRaised, Resetting,
         ProducerRound, Made, ProducerAt, Synced, Warmup, WarmTogether,
         FirstSynced, Iterations
<1>4. Window'
  BY DEF IInv, TypeOK, ProducerLocal, ConsumerLocal, Rounds, SameRound, ResetUnderWay, FlagRaised, Resetting,
         ProducerRound, Made, ProducerAt, Synced, Warmup, WarmTogether,
         Window, LeadBounded, Distance, ProducerTooFar, ConsumerTooNear
<1>5. Produced'
  <2>1. SUFFICES ASSUME Synced(pn), NEW b \in 0 .. pb
                 PROVE  pass'[b] = pn
    BY DEF Produced, Synced, Warmup, WarmTogether, IInv, TypeOK
  <2>2. pass \in [Blocks -> -1 .. Iterations - 1] /\ b \in Blocks /\ pb \in Blocks
    BY DEF IInv, TypeOK, ProducerLocal, Blocks
  <2>3. QED
    BY <2>1, <2>2 DEF IInv, TypeOK, Produced
<1>6. DistanceInRange'
  BY DEF IInv, DistanceInRange, TypeOK, ProducerLocal, ConsumerLocal, Rounds,
         SameRound, ResetUnderWay, FlagRaised, Resetting, Window, LeadBounded, Distance, Made
<1>7. (finished => ppc = "done" /\ cpc = "done")'
  BY DEF IInv
<1>8. QED
  BY <1>1, <1>2, <1>3, <1>4, <1>5, <1>6, <1>7 DEF IInv

LEMMA ProducerIterateStep == ASSUME IInv, ProducerIterate PROVE IInv'
<1>f. OptionsStep
  BY StepFacts DEF Next, Producer
<1> USE <1>f DEF OptionsStep, ProducerIterate, shared, prod, cons
<1>1. TypeOK'
  <2>1. producer_at' \in -1 .. num_blks - 1 /\ consumer_at' \in -1 .. num_blks - 1
    BY DEF IInv, TypeOK, ProducerLocal, ConsumerLocal, Rounds, SameRound, ResetUnderWay, FlagRaised, Resetting,
           Made
  <2>2. pass' \in [Blocks -> -1 .. Iterations - 1]
    BY DEF IInv, TypeOK, ProducerLocal, Blocks
  <2>3. pn' \in 0 .. Iterations /\ pb' \in 0 .. num_blks
    BY DEF IInv, TypeOK, ProducerLocal
  <2>4. cn' \in 0 .. Iterations /\ cb' \in 0 .. num_blks
    BY DEF IInv, TypeOK, ConsumerLocal
  <2>5. QED
    BY <2>1, <2>2, <2>3, <2>4 DEF IInv, TypeOK, ProducerAt
<1>2. ProducerLocal' /\ ConsumerLocal'
  BY DEF IInv, TypeOK, ProducerLocal, ConsumerLocal, Resetting, ProducerAt,
         Synced, Warmup, WarmTogether
<1>3. Rounds'
  BY DEF IInv, TypeOK, ProducerLocal, ConsumerLocal, Rounds, SameRound, ResetUnderWay, FlagRaised, Resetting,
         ProducerRound, Made, ProducerAt, Synced, Warmup, WarmTogether,
         FirstSynced, Iterations
<1>4. Window'
  BY DEF IInv, TypeOK, ProducerLocal, ConsumerLocal, Rounds, SameRound, ResetUnderWay, FlagRaised, Resetting,
         ProducerRound, Made, ProducerAt, Synced, Warmup, WarmTogether,
         Window, LeadBounded, Distance, ProducerTooFar, ConsumerTooNear
<1>5. Produced'
  BY DEF IInv, TypeOK, Produced, Synced, Warmup, WarmTogether, ProducerLocal,
         Blocks
<1>6. DistanceInRange'
  BY DEF IInv, DistanceInRange, TypeOK, ProducerLocal, ConsumerLocal, Rounds,
         SameRound, ResetUnderWay, FlagRaised, Resetting, Window, LeadBounded, Distance, Made
<1>7. (finished => ppc = "done" /\ cpc = "done")'
  BY DEF IInv
<1>8. QED
  BY <1>1, <1>2, <1>3, <1>4, <1>5, <1>6, <1>7 DEF IInv

LEMMA ProducerSeesResetStep == ASSUME IInv, ProducerSeesReset PROVE IInv'
<1>f. OptionsStep
  BY StepFacts DEF Next, Producer
<1> USE <1>f DEF OptionsStep, ProducerSeesReset, shared, prod, cons
<1>1. TypeOK'
  BY DEF IInv, TypeOK, ProducerAt
<1>2. ProducerLocal' /\ ConsumerLocal'
  BY DEF IInv, TypeOK, ProducerLocal, ConsumerLocal, Resetting, ProducerAt,
         Synced, Warmup, WarmTogether
<1>3. Rounds'
  BY DEF IInv, TypeOK, ProducerLocal, ConsumerLocal, Rounds, SameRound, ResetUnderWay, FlagRaised, Resetting,
         ProducerRound, Made, ProducerAt, Synced, Warmup, WarmTogether,
         FirstSynced, Iterations
<1>4. Window'
  BY DEF IInv, TypeOK, ProducerLocal, ConsumerLocal, Rounds, SameRound, ResetUnderWay, FlagRaised, Resetting,
         ProducerRound, Made, ProducerAt, Synced, Warmup, WarmTogether,
         Window, LeadBounded, Distance, ProducerTooFar, ConsumerTooNear
<1>5. Produced'
  BY DEF IInv, TypeOK, Produced, Synced, Warmup, WarmTogether, ProducerLocal,
         Blocks
<1>6. DistanceInRange'
  BY DEF IInv, DistanceInRange, TypeOK, ProducerLocal, ConsumerLocal, Rounds,
         SameRound, ResetUnderWay, FlagRaised, Resetting, Window, LeadBounded, Distance, Made
<1>7. (finished => ppc = "done" /\ cpc = "done")'
  BY DEF IInv
<1>8. QED
  BY <1>1, <1>2, <1>3, <1>4, <1>5, <1>6, <1>7 DEF IInv

LEMMA ProducerClearsResetStep == ASSUME IInv, ProducerClearsReset PROVE IInv'
<1>f. OptionsStep
  BY StepFacts DEF Next, Producer
<1> USE <1>f DEF OptionsStep, ProducerClearsReset, shared, prod, cons
<1>1. TypeOK'
  <2>1. producer_at' \in -1 .. num_blks - 1 /\ consumer_at' \in -1 .. num_blks - 1
    BY DEF IInv, TypeOK, ProducerLocal, ConsumerLocal, Rounds, SameRound, ResetUnderWay, FlagRaised, Resetting,
           Made
  <2>2. pass' \in [Blocks -> -1 .. Iterations - 1]
    BY DEF IInv, TypeOK, ProducerLocal, Blocks
  <2>3. pn' \in 0 .. Iterations /\ pb' \in 0 .. num_blks
    BY DEF IInv, TypeOK, ProducerLocal
  <2>4. cn' \in 0 .. Iterations /\ cb' \in 0 .. num_blks
    BY DEF IInv, TypeOK, ConsumerLocal
  <2>5. QED
    BY <2>1, <2>2, <2>3, <2>4 DEF IInv, TypeOK, ProducerAt
<1>2. ProducerLocal' /\ ConsumerLocal'
  BY DEF IInv, TypeOK, ProducerLocal, ConsumerLocal, Resetting, ProducerAt,
         Synced, Warmup, WarmTogether
<1>3. Rounds'
  BY DEF IInv, TypeOK, ProducerLocal, ConsumerLocal, Rounds, SameRound, ResetUnderWay, FlagRaised, Resetting,
         ProducerRound, Made, ProducerAt, Synced, Warmup, WarmTogether,
         FirstSynced, Iterations
<1>4. Window'
  BY DEF IInv, TypeOK, ProducerLocal, ConsumerLocal, Rounds, SameRound, ResetUnderWay, FlagRaised, Resetting,
         ProducerRound, Made, ProducerAt, Synced, Warmup, WarmTogether,
         Window, LeadBounded, Distance, ProducerTooFar, ConsumerTooNear
<1>5. Produced'
  BY DEF IInv, TypeOK, Produced, Synced, Warmup, WarmTogether, ProducerLocal,
         Blocks
<1>6. DistanceInRange'
  BY DEF IInv, DistanceInRange, TypeOK, ProducerLocal, ConsumerLocal, Rounds,
         SameRound, ResetUnderWay, FlagRaised, Resetting, Window, LeadBounded, Distance, Made
<1>7. (finished => ppc = "done" /\ cpc = "done")'
  BY DEF IInv
<1>8. QED
  BY <1>1, <1>2, <1>3, <1>4, <1>5, <1>6, <1>7 DEF IInv

LEMMA ConsumerStartStep == ASSUME IInv, ConsumerStart PROVE IInv'
<1>f. OptionsStep
  BY StepFacts DEF Next, Consumer
<1> USE <1>f DEF OptionsStep, ConsumerStart, shared, prod, cons
<1>1. TypeOK'
  BY DEF IInv, TypeOK, ConsumerAt
<1>2. ProducerLocal' /\ ConsumerLocal'
  BY DEF IInv, TypeOK, ProducerLocal, ConsumerLocal, Resetting, ConsumerAt,
         Synced, Warmup, WarmTogether
<1>3. Rounds'
  BY DEF IInv, TypeOK, ProducerLocal, ConsumerLocal, Rounds, SameRound, ResetUnderWay, FlagRaised, Resetting,
         ProducerRound, Made, ConsumerAt, Synced, Warmup, WarmTogether,
         FirstSynced, Iterations
<1>4. Window'
  BY DEF IInv, TypeOK, ProducerLocal, ConsumerLocal, Rounds, SameRound, ResetUnderWay, FlagRaised, Resetting,
         ProducerRound, Made, ConsumerAt, Synced, Warmup, WarmTogether,
         Window, LeadBounded, Distance, ProducerTooFar, ConsumerTooNear
<1>5. Produced'
  BY DEF IInv, TypeOK, Produced, Synced, Warmup, WarmTogether, ProducerLocal,
         Blocks
<1>6. DistanceInRange'
  BY DEF IInv, DistanceInRange, TypeOK, ProducerLocal, ConsumerLocal, Rounds,
         SameRound, ResetUnderWay, FlagRaised, Resetting, Window, LeadBounded, Distance, Made
<1>7. (finished => ppc = "done" /\ cpc = "done")'
  BY DEF IInv
<1>8. QED
  BY <1>1, <1>2, <1>3, <1>4, <1>5, <1>6, <1>7 DEF IInv

LEMMA ConsumerNextStep == ASSUME IInv, ConsumerNext PROVE IInv'
<1>f. OptionsStep
  BY StepFacts DEF Next, Consumer
<1> USE <1>f DEF OptionsStep, ConsumerNext, shared, prod, cons
<1>1. TypeOK'
  BY DEF IInv, TypeOK, ConsumerAt
<1>2. ProducerLocal' /\ ConsumerLocal'
  BY DEF IInv, TypeOK, ProducerLocal, ConsumerLocal, Resetting, ConsumerAt,
         Synced, Warmup, WarmTogether
<1>3. Rounds'
  BY DEF IInv, TypeOK, ProducerLocal, ConsumerLocal, Rounds, SameRound, ResetUnderWay, FlagRaised, Resetting,
         ProducerRound, Made, ConsumerAt, Synced, Warmup, WarmTogether,
         FirstSynced, Iterations
<1>4. Window'
  BY DEF IInv, TypeOK, ProducerLocal, ConsumerLocal, Rounds, SameRound, ResetUnderWay, FlagRaised, Resetting,
         ProducerRound, Made, ConsumerAt, Synced, Warmup, WarmTogether,
         Window, LeadBounded, Distance, ProducerTooFar, ConsumerTooNear
<1>5. Produced'
  BY DEF IInv, TypeOK, Produced, Synced, Warmup, WarmTogether, ProducerLocal,
         Blocks
<1>6. DistanceInRange'
  BY DEF IInv, DistanceInRange, TypeOK, ProducerLocal, ConsumerLocal, Rounds,
         SameRound, ResetUnderWay, FlagRaised, Resetting, Window, LeadBounded, Distance, Made
<1>7. (finished => ppc = "done" /\ cpc = "done")'
  BY DEF IInv
<1>8. QED
  BY <1>1, <1>2, <1>3, <1>4, <1>5, <1>6, <1>7 DEF IInv

LEMMA ConsumerEnterStep == ASSUME IInv, ConsumerEnter PROVE IInv'
<1>f. OptionsStep
  BY StepFacts DEF Next, Consumer
<1> USE <1>f DEF OptionsStep, ConsumerEnter, shared, prod, cons
<1>1. TypeOK'
  BY DEF IInv, TypeOK, ConsumerAt
<1>2. ProducerLocal' /\ ConsumerLocal'
  BY DEF IInv, TypeOK, ProducerLocal, ConsumerLocal, Resetting, ConsumerAt,
         Synced, Warmup, WarmTogether
<1>3. Rounds'
  BY DEF IInv, TypeOK, ProducerLocal, ConsumerLocal, Rounds, SameRound, ResetUnderWay, FlagRaised, Resetting,
         ProducerRound, Made, ConsumerAt, Synced, Warmup, WarmTogether,
         FirstSynced, Iterations
<1>4. Window'
  BY DEF IInv, TypeOK, ProducerLocal, ConsumerLocal, Rounds, SameRound, ResetUnderWay, FlagRaised, Resetting,
         ProducerRound, Made, ConsumerAt, Synced, Warmup, WarmTogether,
         Window, LeadBounded, Distance, ProducerTooFar, ConsumerTooNear
<1>5. Produced'
  BY DEF IInv, TypeOK, Produced, Synced, Warmup, WarmTogether, ProducerLocal,
         Blocks
<1>6. DistanceInRange'
  BY DEF IInv, DistanceInRange, TypeOK, ProducerLocal, ConsumerLocal, Rounds,
         SameRound, ResetUnderWay, FlagRaised, Resetting, Window, LeadBounded, Distance, Made
<1>7. (finished => ppc = "done" /\ cpc = "done")'
  BY DEF IInv
<1>8. QED
  BY <1>1, <1>2, <1>3, <1>4, <1>5, <1>6, <1>7 DEF IInv

LEMMA ConsumerLeaveStep == ASSUME IInv, ConsumerLeave PROVE IInv'
<1>f. OptionsStep
  BY StepFacts DEF Next, Consumer
<1> USE <1>f DEF OptionsStep, ConsumerLeave, shared, prod, cons
<1>1. TypeOK'
  <2>1. producer_at' \in -1 .. num_blks - 1 /\ consumer_at' \in -1 .. num_blks - 1
    BY DEF IInv, TypeOK, ProducerLocal, ConsumerLocal, Rounds, SameRound, ResetUnderWay, FlagRaised, Resetting,
           Made
  <2>2. pass' \in [Blocks -> -1 .. Iterations - 1]
    BY DEF IInv, TypeOK, ProducerLocal, Blocks
  <2>3. pn' \in 0 .. Iterations /\ pb' \in 0 .. num_blks
    BY DEF IInv, TypeOK, ProducerLocal
  <2>4. cn' \in 0 .. Iterations /\ cb' \in 0 .. num_blks
    BY DEF IInv, TypeOK, ConsumerLocal
  <2>5. QED
    BY <2>1, <2>2, <2>3, <2>4 DEF IInv, TypeOK, ConsumerAt
<1>2. ProducerLocal' /\ ConsumerLocal'
  BY DEF IInv, TypeOK, ProducerLocal, ConsumerLocal, Resetting, ConsumerAt,
         Synced, Warmup, WarmTogether
<1>3. Rounds'
  BY DEF IInv, TypeOK, ProducerLocal, ConsumerLocal, Rounds, SameRound, ResetUnderWay, FlagRaised, Resetting,
         ProducerRound, Made, ConsumerAt, Synced, Warmup, WarmTogether,
         FirstSynced, Iterations
<1>4. Window'
  BY DEF IInv, TypeOK, ProducerLocal, ConsumerLocal, Rounds, SameRound, ResetUnderWay, FlagRaised, Resetting,
         ProducerRound, Made, ConsumerAt, Synced, Warmup, WarmTogether,
         Window, LeadBounded, Distance, ProducerTooFar, ConsumerTooNear
<1>5. Produced'
  BY DEF IInv, TypeOK, Produced, Synced, Warmup, WarmTogether, ProducerLocal,
         Blocks
<1>6. DistanceInRange'
  BY DEF IInv, DistanceInRange, TypeOK, ProducerLocal, ConsumerLocal, Rounds,
         SameRound, ResetUnderWay, FlagRaised, Resetting, Window, LeadBounded, Distance, Made
<1>7. (finished => ppc = "done" /\ cpc = "done")'
  BY DEF IInv
<1>8. QED
  BY <1>1, <1>2, <1>3, <1>4, <1>5, <1>6, <1>7 DEF IInv

LEMMA ConsumerDrainedStep == ASSUME IInv, ConsumerDrained PROVE IInv'
<1>f. OptionsStep
  BY StepFacts DEF Next, Consumer
<1> USE <1>f DEF OptionsStep, ConsumerDrained, shared, prod, cons
<1>1. TypeOK'
  BY DEF IInv, TypeOK, ConsumerAt
<1>2. ProducerLocal' /\ ConsumerLocal'
  BY DEF IInv, TypeOK, ProducerLocal, ConsumerLocal, Resetting, ConsumerAt,
         Synced, Warmup, WarmTogether
<1>3. Rounds'
  BY DEF IInv, TypeOK, ProducerLocal, ConsumerLocal, Rounds, SameRound, ResetUnderWay, FlagRaised, Resetting,
         ProducerRound, Made, ConsumerAt, Synced, Warmup, WarmTogether,
         FirstSynced, Iterations
<1>4. Window'
  BY DEF IInv, TypeOK, ProducerLocal, ConsumerLocal, Rounds, SameRound, ResetUnderWay, FlagRaised, Resetting,
         ProducerRound, Made, ConsumerAt, Synced, Warmup, WarmTogether,
         Window, LeadBounded, Distance, ProducerTooFar, ConsumerTooNear
<1>5. Produced'
  BY DEF IInv, TypeOK, Produced, Synced, Warmup, WarmTogether, ProducerLocal,
         Blocks
<1>6. DistanceInRange'
  BY DEF IInv, DistanceInRange, TypeOK, ProducerLocal, ConsumerLocal, Rounds,
         SameRound, ResetUnderWay, FlagRaised, Resetting, Window, LeadBounded, Distance, Made
<1>7. (finished => ppc = "done" /\ cpc = "done")'
  BY DEF IInv
<1>8. QED
  BY <1>1, <1>2, <1>3, <1>4, <1>5, <1>6, <1>7 DEF IInv

LEMMA ConsumerResetsProducerAtStep == ASSUME IInv, ConsumerResetsProducerAt PROVE IInv'
<1>f. OptionsStep
  BY StepFacts DEF Next, Consumer
<1> USE <1>f DEF OptionsStep, ConsumerResetsProducerAt, shared, prod, cons
<1>1. TypeOK'
  BY DEF IInv, TypeOK, ConsumerAt
<1>2. ProducerLocal' /\ ConsumerLocal'
  BY DEF IInv, TypeOK, ProducerLocal, ConsumerLocal, Resetting, ConsumerAt,
         Synced, Warmup, WarmTogether
<1>3. Rounds'
  BY DEF IInv, TypeOK, ProducerLocal, ConsumerLocal, Rounds, SameRound, ResetUnderWay, FlagRaised, Resetting,
         ProducerRound, Made, ConsumerAt, Synced, Warmup, WarmTogether,
         FirstSynced, Iterations
<1>4. Window'
  BY DEF IInv, TypeOK, ProducerLocal, ConsumerLocal, Rounds, SameRound, ResetUnderWay, FlagRaised, Resetting,
         ProducerRound, Made, ConsumerAt, Synced, Warmup, WarmTogether,
         Window, LeadBounded, Distance, ProducerTooFar, ConsumerTooNear
<1>5. Produced'
  BY DEF IInv, TypeOK, Produced, Synced, Warmup, WarmTogether, ProducerLocal,
         Blocks
<1>6. DistanceInRange'
  BY DEF IInv, DistanceInRange, TypeOK, ProducerLocal, ConsumerLocal, Rounds,
         SameRound, ResetUnderWay, FlagRaised, Resetting, Window, LeadBounded, Distance, Made
<1>7. (finished => ppc = "done" /\ cpc = "done")'
  BY DEF IInv
<1>8. QED
  BY <1>1, <1>2, <1>3, <1>4, <1>5, <1>6, <1>7 DEF IInv

LEMMA ConsumerResetsConsumerAtStep == ASSUME IInv, ConsumerResetsConsumerAt PROVE IInv'
<1>f. OptionsStep
  BY StepFacts DEF Next, Consumer
<1> USE <1>f DEF OptionsStep, ConsumerResetsConsumerAt, shared, prod, cons
<1>1. TypeOK'
  BY DEF IInv, TypeOK, ConsumerAt
<1>2. ProducerLocal' /\ ConsumerLocal'
  BY DEF IInv, TypeOK, ProducerLocal, ConsumerLocal, Resetting, ConsumerAt,
         Synced, Warmup, WarmTogether
<1>3. Rounds'
  BY DEF IInv, TypeOK, ProducerLocal, ConsumerLocal, Rounds, SameRound, ResetUnderWay, FlagRaised, Resetting,
         ProducerRound, Made, ConsumerAt, Synced, Warmup, WarmTogether,
         FirstSynced, Iterations
<1>4. Window'
  BY DEF IInv, TypeOK, ProducerLocal, ConsumerLocal, Rounds, SameRound, ResetUnderWay, FlagRaised, Resetting,
         ProducerRound, Made, ConsumerAt, Synced, Warmup, WarmTogether,
         Window, LeadBounded, Distance, ProducerTooFar, ConsumerTooNear
<1>5. Produced'
  BY DEF IInv, TypeOK, Produced, Synced, Warmup, WarmTogether, ProducerLocal,
         Blocks
<1>6. DistanceInRange'
  BY DEF IInv, DistanceInRange, TypeOK, ProducerLocal, ConsumerLocal, Rounds,
         SameRound, ResetUnderWay, FlagRaised, Resetting, Window, LeadBounded, Distance, Made
<1>7. (finished => ppc = "done" /\ cpc = "done")'
  BY DEF IInv
<1>8. QED
  BY <1>1, <1>2, <1>3, <1>4, <1>5, <1>6, <1>7 DEF IInv

LEMMA ConsumerRaisesResetStep == ASSUME IInv, ConsumerRaisesReset PROVE IInv'
<1>f. OptionsStep
  BY StepFacts DEF Next, Consumer
<1> USE <1>f DEF OptionsStep, ConsumerRaisesReset, shared, prod, cons
<1>1. TypeOK'
  <2>1. producer_at' \in -1 .. num_blks - 1 /\ consumer_at' \in -1 .. num_blks - 1
    BY DEF IInv, TypeOK, ProducerLocal, ConsumerLocal, Rounds, SameRound, ResetUnderWay, FlagRaised, Resetting,
           Made
  <2>2. pass' \in [Blocks -> -1 .. Iterations - 1]
    BY DEF IInv, TypeOK, ProducerLocal, Blocks
  <2>3. pn' \in 0 .. Iterations /\ pb' \in 0 .. num_blks
    BY DEF IInv, TypeOK, ProducerLocal
  <2>4. cn' \in 0 .. Iterations /\ cb' \in 0 .. num_blks
    BY DEF IInv, TypeOK, ConsumerLocal
  <2>5. QED
    BY <2>1, <2>2, <2>3, <2>4 DEF IInv, TypeOK, ConsumerAt
<1>2. ProducerLocal' /\ ConsumerLocal'
  BY DEF IInv, TypeOK, ProducerLocal, ConsumerLocal, Resetting, ConsumerAt,
         Synced, Warmup, WarmTogether
<1>3. Rounds'
  BY DEF IInv, TypeOK, ProducerLocal, ConsumerLocal, Rounds, SameRound, ResetUnderWay, FlagRaised, Resetting,
         ProducerRound, Made, ConsumerAt, Synced, Warmup, WarmTogether,
         FirstSynced, Iterations
<1>4. Window'
  BY DEF IInv, TypeOK, ProducerLocal, ConsumerLocal, Rounds, SameRound, ResetUnderWay, FlagRaised, Resetting,
         ProducerRound, Made, ConsumerAt, Synced, Warmup, WarmTogether,
         Window, LeadBounded, Distance, ProducerTooFar, ConsumerTooNear
<1>5. Produced'
  BY DEF IInv, TypeOK, Produced, Synced, Warmup, WarmTogether, ProducerLocal,
         Blocks
<1>6. DistanceInRange'
  BY DEF IInv, DistanceInRange, TypeOK, ProducerLocal, ConsumerLocal, Rounds,
         SameRound, ResetUnderWay, FlagRaised, Resetting, Window, LeadBounded, Distance, Made
<1>7. (finished => ppc = "done" /\ cpc = "done")'
  BY DEF IInv
<1>8. QED
  BY <1>1, <1>2, <1>3, <1>4, <1>5, <1>6, <1>7 DEF IInv

-----------------------------------------------------------------------------
LEMMA Invariance == Spec => []IInv
<1>1. IInv /\ [Next]_vars => IInv'
  <2> SUFFICES ASSUME IInv, [Next]_vars PROVE IInv'
    OBVIOUS
  <2>1. CASE Producer
    BY <2>1, ProducerStartStep, ProducerNextStep, ProducerEnterStep,
       ProducerLeaveStep, ProducerIterateStep, ProducerSeesResetStep,
       ProducerClearsResetStep DEF Producer
  <2>2. CASE Consumer
    BY <2>2, ConsumerStartStep, ConsumerNextStep, ConsumerEnterStep,
       ConsumerLeaveStep, ConsumerDrainedStep, ConsumerResetsProducerAtStep,
       ConsumerResetsConsumerAtStep, ConsumerRaisesResetStep DEF Consumer
  <2>3. CASE Finish \/ UNCHANGED vars
    <3>1. /\ UNCHANGED <<opts, shared, pass, prod, cons>>
          /\ UNCHANGED finished \/ (finished' = TRUE /\ ppc = "done" /\ cpc = "done")
      BY <2>3 DEF Finish, vars
    <3>2. TypeOK'
      BY <3>1 DEF IInv, TypeOK, shared, prod, cons, num_blks, Blocks, Iterations
    <3>3. (ProducerLocal /\ ConsumerLocal /\ Rounds)'
      BY <3>1 DEF IInv, shared, prod, cons, ProducerLocal, ConsumerLocal, Rounds,
             SameRound, ResetUnderWay, FlagRaised, Resetting, num_blks, Synced,
             Warmup, WarmTogether, FirstSynced, Iterations, ProducerRound, Made
    <3>4. (Window /\ Produced /\ DistanceInRange)'
      BY <3>1 DEF IInv, shared, prod, cons, Window, SameRound, FlagRaised, Resetting,
             num_blks, Synced, Warmup, WarmTogether, FirstSynced, ProducerRound,
             Made, LeadBounded, Distance, ProducerTooFar, ConsumerTooNear, Produced,
             DistanceInRange
    <3>5. QED
      BY <3>1, <3>2, <3>3, <3>4 DEF IInv, prod, cons
  <2>4. QED
    BY <2>1, <2>2, <2>3 DEF Next, Exited
<1>2. QED
  BY <1>1, InitInvariant, PTL DEF Spec

(* The types of the variables, for every option main accepts: in           *)
(* particular the counters stay block numbers (or -1) although each is     *)
(* written by both threads or counted beyond its own loop.                 *)
THEOREM TypeCorrect == Spec => []TypeOK
  BY Invariance, PTL DEF IInv

(* However long the runs and whatever the bounds, the producer is never    *)
(* more than the upper bound and the block at hand ahead (producer.c:172). *)
THEOREM LeadIsBounded == Spec => []LeadBounded
  BY Invariance, PTL DEF IInv, Window

(* The three stores that end an iteration fall into the time the producer  *)
(* polls for the flag, with the last flag taken back: no reset is lost or  *)
(* overtakes the producer (consumer.c:135-138, 352-356).                   *)
THEOREM ResetsAreHandshakes == Spec => []ResetHandshake
<1>1. IInv => ResetHandshake
  <2> SUFFICES ASSUME IInv PROVE ResetHandshake
    OBVIOUS
  <2>1. num_blks \in Nat /\ num_blks >= 1
    BY OptionFacts DEF IInv, TypeOK
  <2>2. QED
    BY <2>1 DEF IInv, TypeOK, ProducerLocal, Rounds, SameRound, ResetUnderWay,
           FlagRaised, Resetting, ResetHandshake, ProducerRound
<1>2. QED
  BY <1>1, Invariance, PTL

(* With a lower bound of at least 1 and shared data, the consumer is only  *)
(* ever in a block the producer has finished in the same iteration: the    *)
(* poll at consumer.c:71 and 151 keeps it from reading old data.           *)
THEOREM ConsumerReadsFreshBlocks == Spec => []ConsumesFresh
<1>1. IInv => ConsumesFresh
  <2> SUFFICES ASSUME IInv, opts.lbound_sync >= 1, cpc = "work"
               PROVE  pass[cb] = cn
    BY DEF ConsumesFresh
  <2>1. /\ num_blks \in Nat /\ num_blks >= 1
        /\ opts.lbound_sync \in Nat /\ opts.ubound_sync \in Nat
    BY OptionFacts DEF IInv, TypeOK
  <2>2. cb \in 0 .. num_blks - 1 /\ ~ConsumerTooNear
    BY <2>1 DEF IInv, TypeOK, ConsumerLocal, Window
  <2>3. SameRound
    BY <2>1, <2>2 DEF IInv, TypeOK, Rounds, ResetUnderWay, FlagRaised,
           ConsumerTooNear, Distance
  <2>4. Synced(pn) /\ cb \in 0 .. pb - 1
    BY <2>1, <2>2, <2>3 DEF IInv, TypeOK, SameRound, Made, ConsumerTooNear, Distance
  <2>5. QED
    BY <2>3, <2>4 DEF IInv, Produced, SameRound, ProducerRound
<1>2. QED
  BY <1>1, Invariance, PTL

(* Every distance the threads store in sep_cp lies in the window.          *)
THEOREM DistancesAreInRange == Spec => []DistanceInRange
  BY Invariance, PTL DEF IInv

(* The threads never poll for each other when the bounds leave a window:   *)
(* the absence of deadlock, as a state predicate.                          *)
THEOREM NoDeadlock == Spec => []NoMutualWait
<1>1. IInv => NoMutualWait
  <2> SUFFICES ASSUME IInv, WindowExists, ProducerStuck, ConsumerStuck
               PROVE  ppc = "done" /\ cpc = "done"
    BY DEF NoMutualWait
  <2>1. /\ num_blks \in Nat /\ num_blks >= 1
        /\ opts.lbound_sync \in Nat /\ opts.ubound_sync \in Nat
        /\ opts.itrs_w \in Nat /\ opts.itrs_bm \in Nat
        /\ Iterations \in Nat /\ FirstSynced \in 0 .. Iterations
    BY OptionFacts DEF IInv, TypeOK
  <2> USE <2>1 DEF IInv, TypeOK, ProducerLocal, ConsumerLocal, ProducerStuck,
        ConsumerStuck, ProducerTooFar, ConsumerTooNear, Distance, Resetting
  <2>2. CASE SameRound
    BY <2>2 DEF SameRound, Made, ProducerRound, WindowExists, Synced, Warmup,
           Iterations
  <2>3. CASE FlagRaised
    BY <2>3 DEF FlagRaised
  <2>4. CASE ResetUnderWay
    BY <2>4 DEF ResetUnderWay
  <2>5. QED
    BY <2>2, <2>3, <2>4 DEF Rounds
<1>2. QED
  BY <1>1, Invariance, PTL

-----------------------------------------------------------------------------
(* The two threads with their counters, flag and polling loops implement   *)
(* the pipe with a window, for every data set and all bounds.              *)
THEOREM Refinement == Spec => ImplementsWindowPipe
<1>1. Init => Pipe!Init
  <2> SUFFICES ASSUME Init PROVE Pipe!Init
    OBVIOUS
  <2>1. opts \in ConfigType /\ validate_CLopts(opts)
    BY OptionsAssumption DEF Init
  <2>2. /\ num_blks \in Nat /\ num_blks >= 1
        /\ opts.lbound_sync \in Nat /\ opts.ubound_sync \in Nat
        /\ opts.itrs_w \in Nat /\ opts.itrs_bm \in Nat
    BY <2>1, OptionFacts
  <2>3. QED
    BY <2>2 DEF Init, Pipe!Init, ProducerRound, FirstSynced, Made, Synced, Warmup
<1>2. IInv /\ IInv' /\ [Next]_vars => [Pipe!Next]_(Pipe!vars)
  <2> SUFFICES ASSUME IInv, IInv', [Next]_vars
               PROVE  [Pipe!Next]_(Pipe!vars)
    OBVIOUS
  <2>f. OptionsStep
    BY StepFacts
  <2> USE <2>f DEF OptionsStep, Pipe!vars, Pipe!window, shared, prod, cons
  <2> USE DEF ProducerRound, Made, Synced, Warmup, WarmTogether
  <2>1. ASSUME ProducerLeave PROVE Pipe!Make \/ UNCHANGED Pipe!vars
    BY <2>1 DEF ProducerLeave, Pipe!Make, IInv, TypeOK, ProducerLocal, Rounds,
           SameRound, ResetUnderWay, FlagRaised, Window, ProducerTooFar, Distance
  <2>2. ASSUME ConsumerLeave PROVE Pipe!Use
    BY <2>2 DEF ConsumerLeave, Pipe!Use, Pipe!Ready, IInv, TypeOK, ConsumerLocal,
           Rounds, SameRound, ResetUnderWay, FlagRaised, Resetting, Window,
           ConsumerTooNear, Distance
  <2>3. ASSUME ConsumerRaisesReset PROVE Pipe!Open
    BY <2>3 DEF ConsumerRaisesReset, Pipe!Open, IInv, TypeOK, ConsumerLocal,
           Rounds, SameRound, ResetUnderWay, FlagRaised, Resetting
  <2>4. ASSUME ProducerClearsReset PROVE Pipe!Follow
    BY <2>4 DEF ProducerClearsReset, Pipe!Follow, IInv, TypeOK, ProducerLocal,
           Rounds, SameRound, ResetUnderWay, FlagRaised
  <2>5. ASSUME ProducerIterate PROVE UNCHANGED Pipe!vars
    BY <2>5 DEF ProducerIterate, IInv, TypeOK, FirstSynced
  <2>6. ASSUME ProducerStart \/ ProducerNext \/ ProducerEnter \/ ProducerSeesReset
        PROVE  UNCHANGED Pipe!vars
    BY <2>6 DEF ProducerStart, ProducerNext, ProducerEnter, ProducerSeesReset
  <2>7. ASSUME \/ ConsumerStart \/ ConsumerNext \/ ConsumerEnter \/ ConsumerDrained
               \/ ConsumerResetsProducerAt \/ ConsumerResetsConsumerAt
        PROVE  UNCHANGED Pipe!vars
    BY <2>7 DEF ConsumerStart, ConsumerNext, ConsumerEnter, ConsumerDrained,
           ConsumerResetsProducerAt, ConsumerResetsConsumerAt
  <2>8. ASSUME Finish \/ UNCHANGED vars PROVE UNCHANGED Pipe!vars
    BY <2>8 DEF Finish, vars
  <2>9. QED
    BY <2>1, <2>2, <2>3, <2>4, <2>5, <2>6, <2>7, <2>8
       DEF Next, Producer, Consumer, Exited, Pipe!Next
<1>3. QED
  BY <1>1, <1>2, Invariance, PTL DEF Spec, ImplementsWindowPipe, Pipe!Spec
=============================================================================
