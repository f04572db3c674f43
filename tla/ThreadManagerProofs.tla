------------------------ MODULE ThreadManagerProofs -------------------------
(***************************************************************************)
(* The thread manager's handle under programs that apply startj to it, any *)
(* number of times: cpu, mem, disk, net, hello and the apps; and the disk  *)
(* benchmark, whose two groups of threads share files.                     *)
(***************************************************************************)
EXTENDS Disk, MpacBarrierProofs, SequenceTheorems

StartjOnly(p) ==
  /\ Len(p) % 4 = 0
  /\ \A m \in DOMAIN p : p[m] = startj[((m - 1) % 4) + 1]

Live(w) == thr[w] \notin {"none", "joined"}

HandleType ==
  /\ program \in Programs /\ StartjOnly(program)
  /\ at \in Nat \ {0} /\ at <= Len(program) + 1
  /\ i \in 0 .. num_threads
  /\ num_live_threads \in 0 .. num_threads
  /\ job \in [Worker -> {"unset", "set", "freed"}]
  /\ thr \in [Worker -> {"none", "started", "pinned", "working", "exited", "joined"}]
  /\ cancel = {}

(* The threads that live: while they are being created those before i,     *)
(* while they are being joined as many as are counted from i on, and at    *)
(* any other time none.                                                    *)
LiveSlots ==
  /\ Op = "fork" => num_live_threads = i /\ \A w \in Worker : Live(w) <=> w < i
  /\ Op = "wait" => /\ i + num_live_threads <= num_threads
                    /\ \A w \in Worker : Live(w) <=> i <= w /\ w < i + num_live_threads
  /\ Op \notin {"fork", "wait"} => \A w \in Worker : ~Live(w)

JobsSet == Op \in {"fork", "wait"} => \A w \in Worker : job[w] = "set"

OnlyWorkingInside == \A w \in Worker : thr[w] # "working" => pc[w] = "out"

HInv == HandleType /\ LiveSlots /\ JobsSet /\ OnlyWorkingInside

LEMMA Slots == num_threads \in Nat /\ Worker = 0 .. num_threads - 1
BY GroupSize, SlotsAssumption DEF num_threads

LEMMA ProgramIsSeq ==
  ASSUME NEW p \in Programs
  PROVE  Len(p) \in Nat /\ DOMAIN p = 1 .. Len(p)
BY ProgramsAssumption

OpKnown ==
  /\ Op = "init" <=> at <= Len(program) /\ at % 4 = 1
  /\ Op = "fork" <=> at <= Len(program) /\ at % 4 = 2
  /\ Op = "wait" <=> at <= Len(program) /\ at % 4 = 3
  /\ Op = "free" <=> at <= Len(program) /\ at % 4 = 0
  /\ Op \in {"init", "fork", "wait", "free", "over"}

LEMMA OpIs == HandleType => OpKnown
<1> SUFFICES ASSUME HandleType PROVE OpKnown
  OBVIOUS
<1>1. Len(program) \in Nat /\ DOMAIN program = 1 .. Len(program) /\ at \in Nat \ {0}
  BY ProgramIsSeq DEF HandleType
<1>2. CASE at <= Len(program)
  <2>1. program[at] = startj[((at - 1) % 4) + 1]
    BY <1>1, <1>2 DEF HandleType, StartjOnly
  <2>2. \/ at % 4 = 1 /\ (at - 1) % 4 = 0
        \/ at % 4 = 2 /\ (at - 1) % 4 = 1
        \/ at % 4 = 3 /\ (at - 1) % 4 = 2
        \/ at % 4 = 0 /\ (at - 1) % 4 = 3
    BY <1>1
  <2>3. /\ startj[0 + 1] = "init" /\ startj[1 + 1] = "fork"
        /\ startj[2 + 1] = "wait" /\ startj[3 + 1] = "free"
    BY DEF startj
  <2>4. Op = program[at]
    BY <1>2 DEF Op
  <2>5. QED
    BY <1>2, <2>1, <2>2, <2>3, <2>4 DEF OpKnown
<1>3. CASE ~(at <= Len(program))
  BY <1>3 DEF Op, OpKnown
<1>4. QED
  BY <1>2, <1>3

LEMMA NextOpIs == HandleType' => OpKnown'
BY OpIs, PTL

(* The operation that follows.                                             *)
LEMMA OpFollows ==
  ASSUME HandleType, HandleType', Return, program' = program, Op # "over"
  PROVE  /\ Op = "init" => Op' = "fork"
         /\ Op = "fork" => Op' = "wait"
         /\ Op = "wait" => Op' = "free"
         /\ Op = "free" => Op' \in {"init", "over"}
<1>1. /\ at \in Nat \ {0} /\ at' = at + 1 /\ Len(program) \in Nat /\ Len(program) % 4 = 0
  BY ProgramIsSeq DEF HandleType, StartjOnly, Return
<1>2. at <= Len(program)
  BY OpIs DEF OpKnown
<1>3. /\ at % 4 = 1 => (at + 1) % 4 = 2 /\ at + 1 <= Len(program)
      /\ at % 4 = 2 => (at + 1) % 4 = 3 /\ at + 1 <= Len(program)
      /\ at % 4 = 3 => (at + 1) % 4 = 0 /\ at + 1 <= Len(program)
      /\ at % 4 = 0 => (at + 1) % 4 = 1
  BY <1>1, <1>2
<1>4. QED
  BY <1>1, <1>2, <1>3, OpIs, NextOpIs DEF OpKnown

LEMMA SameOp == UNCHANGED <<program, at>> => Op' = Op
BY DEF Op

LEMMA InitHandle == TMInit /\ StartjOnly(program) => HInv
<1> SUFFICES ASSUME TMInit, StartjOnly(program) PROVE HInv
  OBVIOUS
<1>1. /\ program \in Programs /\ at = 1 /\ i = 0 /\ num_live_threads = 0 /\ cancel = {}
      /\ job = [w \in Worker |-> "unset"] /\ thr = [w \in Worker |-> "none"]
      /\ pc = [w \in Worker |-> "out"]
  BY DEF TMInit, Init
<1>2. HandleType
  <2>1. 0 \in 0 .. num_threads /\ Len(program) \in Nat
    BY <1>1, Slots, ProgramIsSeq
  <2>2. QED
    BY <1>1, <2>1 DEF HandleType
<1>3. Op \in {"init", "over"}
  <2>1. at % 4 = 1
    BY <1>1
  <2>2. QED
    BY <1>2, <2>1, OpIs DEF OpKnown
<1>4. QED
  BY <1>1, <1>2, <1>3 DEF HInv, LiveSlots, JobsSet, OnlyWorkingInside, Live

-----------------------------------------------------------------------------
(* The steps of the program.                                               *)

LEMMA MainHandleType ==
  ASSUME HInv, Main
  PROVE  HandleType' /\ program' = program /\ pc' = pc /\ Op # "over"
<1>1. num_threads \in Nat /\ num_live_threads \in Nat /\ i \in Nat /\ at \in Nat
  BY Slots DEF HInv, HandleType
<1>2. HandleType /\ Len(program) \in Nat
  BY ProgramIsSeq DEF HInv, HandleType
<1>3. Op # "over" /\ program' = program /\ pc' = pc
  BY DEF Main, InitManager, ForkOne, ForkFails, JoinOne, IsolateOne, CancelOne, SignalOne,
     CallFails, SkipSlot, FreeOne, LoopEnds, Slot, ForEachLive, barrier
<1>4. at <= Len(program) /\ Op \in {"init", "fork", "wait", "free"}
  BY <1>2, <1>3, OpIs DEF OpKnown
<1>5. CASE InitManager
  <2>1. /\ at' = at + 1 /\ i' = 0 /\ num_live_threads' = 0 /\ cancel' = cancel
        /\ job' = [w \in Worker |-> "set"] /\ thr' = [w \in Worker |-> "none"]
    BY <1>5 DEF InitManager, Return
  <2>2. /\ at' \in Nat \ {0} /\ at' <= Len(program) + 1
        /\ i' \in 0 .. num_threads /\ num_live_threads' \in 0 .. num_threads
    BY <1>1, <1>2, <1>4, <2>1
  <2>3. QED
    BY <1>2, <1>3, <2>1, <2>2 DEF HandleType
<1>6. CASE ForkOne
  <2>1. num_live_threads = i /\ i < num_threads
    BY <1>6 DEF ForkOne, HInv, LiveSlots
  <2>2. /\ at' = at /\ i' = i + 1 /\ num_live_threads' = num_live_threads + 1
        /\ UNCHANGED <<job, cancel>> /\ thr' = [thr EXCEPT ![i] = "started"]
    BY <1>6 DEF ForkOne
  <2>3. i' \in 0 .. num_threads /\ num_live_threads' \in 0 .. num_threads
    BY <1>1, <2>1, <2>2
  <2>4. QED
    BY <1>2, <1>3, <2>2, <2>3 DEF HandleType
<1>7. CASE ForkFails \/ LoopEnds
  <2>1. at' = at + 1 /\ i' = 0 /\ UNCHANGED <<num_live_threads, job, thr, cancel>>
    BY <1>7 DEF ForkFails, LoopEnds, Return
  <2>2. at' \in Nat \ {0} /\ at' <= Len(program) + 1 /\ i' \in 0 .. num_threads
    BY <1>1, <1>2, <1>4, <2>1
  <2>3. QED
    BY <1>2, <1>3, <2>1, <2>2 DEF HandleType
<1>8. CASE JoinOne
  <2>1. /\ num_live_threads > 0 /\ i < num_threads /\ at' = at /\ i' = i + 1
        /\ num_live_threads' = num_live_threads - 1
        /\ UNCHANGED <<job, cancel>> /\ thr' = [thr EXCEPT ![i] = "joined"]
    BY <1>8 DEF JoinOne, Slot
  <2>2. num_live_threads <= num_threads
    BY DEF HInv, HandleType
  <2>3. i' \in 0 .. num_threads /\ num_live_threads' \in 0 .. num_threads
    BY <1>1, <2>1, <2>2
  <2>4. QED
    BY <1>2, <1>3, <2>1, <2>3 DEF HandleType
<1>9. CASE SkipSlot \/ FreeOne
  BY <1>1, <1>2, <1>3, <1>4, <1>9 DEF SkipSlot, FreeOne, HandleType
<1>10. QED
  BY <1>3, <1>4, <1>5, <1>6, <1>7, <1>8, <1>9 DEF Main, IsolateOne, CancelOne, SignalOne,
     CallFails, Slot

LEMMA MainKeepsHandle ==
  ASSUME HInv, Main
  PROVE  HInv'
<1>1. /\ num_threads \in Nat /\ num_live_threads \in Nat /\ i \in Nat
      /\ HandleType /\ Worker = 0 .. num_threads - 1 /\ i <= num_threads
      /\ num_live_threads <= num_threads
  BY Slots DEF HInv, HandleType
<1>2. HandleType' /\ program' = program /\ pc' = pc /\ Op # "over"
  BY MainHandleType
<1>3. CASE InitManager
  <2>1. /\ Op' = "fork" /\ i' = 0 /\ num_live_threads' = 0
        /\ \A w \in Worker : job'[w] = "set" /\ thr'[w] = "none"
    BY <1>1, <1>2, <1>3, OpFollows DEF InitManager, Return
  <2>2. \A w \in Worker : pc'[w] = "out"
    BY <1>2, <1>3 DEF InitManager, HInv, LiveSlots, OnlyWorkingInside, Live
  <2>3. \A w \in Worker : ~(w < 0)
    BY <1>1
  <2>4. QED
    BY <1>2, <2>1, <2>2, <2>3 DEF HInv, LiveSlots, JobsSet, OnlyWorkingInside, Live
<1>4. CASE ForkOne
  <2>1. /\ Op = "fork" /\ Op' = "fork" /\ i \in Worker /\ i' = i + 1 /\ job' = job
        /\ num_live_threads' = num_live_threads + 1 /\ thr' = [thr EXCEPT ![i] = "started"]
    BY <1>1, <1>4, SameOp DEF ForkOne
  <2>2. num_live_threads = i /\ \A w \in Worker : Live(w) <=> w < i
    BY <2>1 DEF HInv, LiveSlots
  <2>3. \A w \in Worker : w < i + 1 <=> w < i \/ w = i
    BY <1>1
  <2>4. /\ thr'[i] = "started"
        /\ \A w \in Worker : w # i => thr'[w] = thr[w]
    BY <1>1, <2>1 DEF HandleType
  <2>5. LiveSlots'
    BY <2>1, <2>2, <2>3, <2>4 DEF LiveSlots, Live
  <2>6. JobsSet'
    BY <2>1 DEF HInv, JobsSet
  <2>7. OnlyWorkingInside'
    <3>1. pc[i] = "out"
      <4>1. ~Live(i)
        BY <1>1, <2>1, <2>2
      <4>2. QED
        BY <2>1, <4>1 DEF HInv, OnlyWorkingInside, Live
    <3>2. QED
      BY <1>2, <2>4, <3>1 DEF HInv, OnlyWorkingInside
  <2>8. QED
    BY <1>2, <2>5, <2>6, <2>7 DEF HInv
<1>5. CASE ForkFails \/ LoopEnds
  <2>1. Return /\ i' = 0 /\ UNCHANGED <<num_live_threads, job, thr>>
    BY <1>5 DEF ForkFails, LoopEnds, Return
  <2>2. Op \in {"fork", "wait", "free"}
    BY <1>1, <1>2, <1>5, OpIs DEF ForkFails, LoopEnds, ForEachLive, OpKnown
  <2>3. OnlyWorkingInside'
    BY <1>2, <2>1 DEF HInv, OnlyWorkingInside
  <2>4. CASE Op = "fork"
    <3>1. Op' = "wait" /\ JobsSet'
      BY <1>1, <1>2, <2>1, <2>4, OpFollows DEF HInv, JobsSet
    <3>2. num_live_threads = i /\ \A w \in Worker : Live(w) <=> w < i
      BY <2>4 DEF HInv, LiveSlots
    <3>3. \A w \in Worker : w < i <=> 0 <= w /\ w < 0 + i
      BY <1>1
    <3>4. LiveSlots'
      <4>1. 0 + i <= num_threads
        BY <1>1
      <4>2. QED
        BY <2>1, <3>1, <3>2, <3>3, <4>1 DEF LiveSlots, Live
    <3>5. QED
      BY <1>2, <2>3, <3>1, <3>4 DEF HInv
  <2>5. CASE Op = "wait"
    <3>1. i = num_threads /\ Op' = "free"
      BY <1>1, <1>2, <1>5, <2>1, <2>5, OpFollows DEF ForkFails, LoopEnds
    <3>2. \A w \in Worker : Live(w) => i <= w
      BY <2>5 DEF HInv, LiveSlots
    <3>3. \A w \in Worker : ~(i <= w)
      BY <1>1, <3>1
    <3>4. LiveSlots' /\ JobsSet'
      BY <2>1, <3>1, <3>2, <3>3 DEF LiveSlots, JobsSet, Live
    <3>5. QED
      BY <1>2, <2>3, <3>4 DEF HInv
  <2>6. CASE Op = "free"
    <3>1. Op' \in {"init", "over"}
      BY <1>1, <1>2, <2>1, <2>6, OpFollows
    <3>2. LiveSlots' /\ JobsSet'
      BY <2>1, <2>6, <3>1 DEF HInv, LiveSlots, JobsSet, Live
    <3>3. QED
      BY <1>2, <2>3, <3>2 DEF HInv
  <2>7. QED
    BY <2>2, <2>4, <2>5, <2>6
<1>6. CASE JoinOne \/ SkipSlot
  <2>1. /\ Op = "wait" /\ i \in Worker /\ i' = i + 1 /\ job' = job /\ UNCHANGED <<program, at>>
        /\ \/ /\ num_live_threads > 0 /\ num_live_threads' = num_live_threads - 1
              /\ thr[i] = "exited" /\ thr' = [thr EXCEPT ![i] = "joined"]
           \/ /\ num_live_threads = 0 /\ num_live_threads' = 0 /\ thr' = thr
    BY <1>1, <1>2, <1>6, OpIs DEF JoinOne, Slot, SkipSlot, OpKnown, ForEachLive
  <2>2. Op' = "wait" /\ JobsSet'
    BY <2>1, SameOp DEF HInv, JobsSet
  <2>3. /\ i + num_live_threads <= num_threads
        /\ \A w \in Worker : Live(w) <=> i <= w /\ w < i + num_live_threads
    BY <2>1 DEF HInv, LiveSlots
  <2>4. OnlyWorkingInside'
    BY <1>1, <1>2, <2>1 DEF HInv, OnlyWorkingInside, HandleType
  <2>5. /\ i + 1 + num_live_threads' <= num_threads
        /\ \A w \in Worker : w # i =>
              ((i <= w /\ w < i + num_live_threads) <=> (i + 1 <= w /\ w < i + 1 + num_live_threads'))
        /\ ~(i + 1 <= i)
        /\ num_live_threads = 0 => ~(i < i + num_live_threads)
    <3>1. i < num_threads
      BY <1>1, <2>1
    <3>2. QED
      BY <1>1, <2>1, <2>3, <3>1
  <2>6. \A w \in Worker : w # i => (Live(w) <=> Live(w)')
    BY <1>1, <2>1 DEF HandleType, Live
  <2>7. thr'[i] \in {"none", "joined"}
    <3>1. CASE num_live_threads > 0
      <4>1. thr'[i] = "joined"
        BY <1>1, <2>1, <3>1 DEF HandleType
      <4>2. QED
        BY <4>1 DEF Live
    <3>2. CASE num_live_threads = 0
      <4>1. ~Live(i) /\ thr' = thr
        BY <2>1, <2>3, <2>5, <3>2
      <4>2. QED
        BY <4>1 DEF Live
    <3>3. QED
      BY <1>1, <3>1, <3>2
  <2>8. \A w \in Worker : Live(w)' <=> i + 1 <= w /\ w < i + 1 + num_live_threads'
    <3>1. \A w \in Worker : w = i => ~Live(w)'
      BY <2>7 DEF Live
    <3>2. QED
      BY <2>1, <2>3, <2>5, <2>6, <3>1
  <2>9. LiveSlots'
    BY <2>1, <2>2, <2>5, <2>8 DEF LiveSlots, Live
  <2>10. QED
    BY <1>2, <2>2, <2>4, <2>9 DEF HInv
<1>7. CASE FreeOne
  <2>1. Op = "free" /\ Op' = "free" /\ thr' = thr
    BY <1>7, SameOp DEF FreeOne
  <2>2. QED
    BY <1>2, <2>1 DEF HInv, LiveSlots, JobsSet, OnlyWorkingInside, Live
<1>8. QED
  <2>1. Op \in {"init", "fork", "wait", "free", "over"}
    BY <1>1, OpIs DEF OpKnown
  <2>2. QED
    BY <2>1, <1>3, <1>4, <1>5, <1>6, <1>7 DEF Main, IsolateOne, CancelOne, SignalOne,
       CallFails, Slot

-----------------------------------------------------------------------------
(* The steps of the threads.                                               *)

LEMMA ThreadMoves ==
  ASSUME HInv, NEW w \in Worker, Live(w), pc[w] = "out",
         NEW to \in {"pinned", "working", "exited"}, thr' = [thr EXCEPT ![w] = to],
         UNCHANGED <<pc, program, at, i, num_live_threads, job, cancel>>
  PROVE  HInv'
<1>1. Op' = Op
  BY SameOp
<1>2. thr'[w] = to /\ \A v \in Worker : v # w => thr'[v] = thr[v]
  BY DEF HInv, HandleType
<1>3. HandleType'
  BY DEF HInv, HandleType
<1>4. \A v \in Worker : Live(v)' <=> Live(v)
  BY <1>2 DEF Live
<1>5. LiveSlots'
  BY <1>1, <1>4 DEF HInv, LiveSlots
<1>6. JobsSet' /\ OnlyWorkingInside'
  BY <1>1, <1>2 DEF HInv, JobsSet, OnlyWorkingInside
<1>7. QED
  BY <1>3, <1>5, <1>6 DEF HInv

LEMMA BarrierOfOne ==
  ASSUME NEW w \in Worker, Barrier(w),
         pc \in [Worker -> {"out", "locked", "waiting", "last", "woken", "unlock"}]
  PROVE  \A v \in Worker : v # w /\ pc[v] = "out" => pc'[v] = "out"
<1>1. CASE Broadcast(w)
  BY <1>1 DEF Broadcast
<1>2. CASE ~Broadcast(w)
  <2>1. \E s : pc' = [pc EXCEPT ![w] = s]
    BY <1>2 DEF Barrier, Lock, Refuse, ArriveAndWait, ArriveLast, Wake, Unlock
  <2>2. QED
    BY <2>1
<1>3. QED
  BY <1>1, <1>2

LEMMA ThreadKeepsHandle ==
  ASSUME IInv, HInv, NEW w \in Worker, Thread(w)
  PROVE  HInv'
<1>1. UNCHANGED <<program, at, i, num_live_threads, job, cancel>> /\ cancel = {}
  BY DEF Thread, ReadAffinity, ReadRoutine, Reads, Work, RoutineReturns, Cancelled, HInv,
     HandleType
<1>2. Op' = Op
  BY <1>1, SameOp
<1>4. CASE ReadAffinity(w) \/ ReadRoutine(w)
  <2>1. Live(w) /\ pc[w] = "out"
    BY <1>4 DEF ReadAffinity, ReadRoutine, Reads, Live, HInv, OnlyWorkingInside
  <2>2. job[w] = "set"
    BY <2>1 DEF HInv, LiveSlots, JobsSet
  <2>3. QED
    BY <1>1, <1>4, <2>1, <2>2, ThreadMoves DEF ReadAffinity, ReadRoutine, Reads, barrier
<1>5. CASE RoutineReturns(w)
  BY <1>1, <1>5, ThreadMoves DEF RoutineReturns, Live, barrier
<1>6. CASE Work(w)
  <2>1. thr[w] = "working" /\ thr' = thr /\ Barrier(w)
    BY <1>6 DEF Work
  <2>2. \A v \in Worker : v # w /\ pc[v] = "out" => pc'[v] = "out"
    BY <2>1 DEF Barrier, Lock, Refuse, ArriveAndWait, ArriveLast, Broadcast, Wake, Unlock,
       IInv, TypeOK
  <2>3. OnlyWorkingInside'
    BY <2>1, <2>2 DEF HInv, OnlyWorkingInside
  <2>4. QED
    BY <1>1, <1>2, <2>1, <2>3 DEF HInv, HandleType, LiveSlots, JobsSet, Live
<1>7. QED
  BY <1>1, <1>4, <1>5, <1>6 DEF Thread, Cancelled

-----------------------------------------------------------------------------
(* A life of the handle is a run of the barrier: its workers are all       *)
(* outside when the lock is made anew, which is then as good as new.       *)

LEMMA FreshLock == Init' => IInv'
BY InitInvariant, PTL

LEMMA MakingAnew ==
  ASSUME IInv, HInv, InitManager
  PROVE  Init' /\ owner = NoThread /\ \A w \in Worker : pc[w] = "out"
<1>1. \A w \in Worker : pc[w] = "out"
  BY DEF InitManager, HInv, LiveSlots, OnlyWorkingInside, Live
<1>2. pc = [w \in Worker |-> "out"] /\ owner = NoThread
  BY <1>1 DEF IInv, TypeOK, MutexHeld
<1>3. QED
  BY <1>1, <1>2 DEF InitManager, Init, num_threads

LEMMA HandleStep == IInv /\ HInv /\ [TMNext]_tmvars => (IInv /\ HInv)'
<1> SUFFICES ASSUME IInv, HInv, [TMNext]_tmvars PROVE (IInv /\ HInv)'
  OBVIOUS
<1>1. CASE Main
  <2>1. HInv'
    BY <1>1, MainKeepsHandle
  <2>2. CASE InitManager
    BY <2>1, <2>2, MakingAnew, FreshLock
  <2>3. CASE ~InitManager
    <3>1. UNCHANGED vars
      BY <1>1, <2>3 DEF Main, ForkOne, ForkFails, JoinOne, IsolateOne, CancelOne, SignalOne,
         CallFails, SkipSlot, FreeOne, LoopEnds, Slot, barrier, vars
    <3>2. QED
      BY <2>1, <3>1, StutterStep
  <2>4. QED
    BY <2>2, <2>3
<1>2. ASSUME NEW w \in Worker, Thread(w) PROVE (IInv /\ HInv)'
  <2>1. HInv'
    BY <1>2, ThreadKeepsHandle
  <2>2. Barrier(w) \/ UNCHANGED vars
    BY <1>2 DEF Thread, ReadAffinity, ReadRoutine, Reads, Work, RoutineReturns, Cancelled, HInv,
       HandleType, barrier, vars
  <2>3. QED
    BY <2>1, <2>2, QuietStep, ArriveStep, BroadcastStep, StutterStep DEF Barrier
<1>3. CASE UNCHANGED tmvars
  <2>1. UNCHANGED vars /\ UNCHANGED <<program, at, i, num_live_threads, job, thr, cancel, pc>>
    BY <1>3 DEF tmvars, barrier, vars
  <2>2. HInv'
    BY <2>1, SameOp DEF HInv, HandleType, LiveSlots, JobsSet, OnlyWorkingInside, Live
  <2>3. QED
    BY <2>1, <2>2, StutterStep
<1>4. QED
  BY <1>1, <1>2, <1>3 DEF TMNext, Idle

LEMMA HandleInvariance == TMSpec /\ StartjOnly(program) => [](IInv /\ HInv)
<1>1. TMInit => IInv
  BY InitInvariant DEF TMInit
<1>2. QED
  BY <1>1, InitHandle, HandleStep, PTL DEF TMSpec

(* Every variable of the handle keeps its type; no thread runs wild.       *)
THEOREM HandleTypeCorrect == TMSpec /\ StartjOnly(program) => []TMTypeOK
<1>1. IInv /\ HInv => TMTypeOK
  <2> SUFFICES ASSUME IInv, HInv PROVE TMTypeOK
    OBVIOUS
  <2>1. at \in 1 .. Len(program) + 1
    BY ProgramIsSeq DEF HInv, HandleType
  <2>2. QED
    BY <2>1 DEF IInv, HInv, HandleType, TMTypeOK
<1>2. QED
  BY <1>1, HandleInvariance, PTL

LEMMA LiveAreNext == HInv => LiveThreadsComeNext
<1> SUFFICES ASSUME HInv, Op = "wait"
             PROVE  {w \in Worker : ~(thr[w] \in {"none", "joined"})}
                      = i .. i + num_live_threads - 1
  BY DEF LiveThreadsComeNext
<1>1. /\ i \in Nat /\ num_live_threads \in Nat /\ num_threads \in Nat
      /\ Worker = 0 .. num_threads - 1 /\ i + num_live_threads <= num_threads
  BY Slots DEF HInv, HandleType, LiveSlots
<1>2. \A w \in Worker : Live(w) <=> i <= w /\ w < i + num_live_threads
  BY DEF HInv, LiveSlots
<1>3. \A w : w \in i .. i + num_live_threads - 1
              <=> w \in Worker /\ i <= w /\ w < i + num_live_threads
  BY <1>1
<1>4. QED
  BY <1>2, <1>3 DEF Live

(* The threads that wait joins are those that live, also when a fork has   *)
(* stopped halfway, in every life of the handle.                           *)
THEOREM CountIsRight == TMSpec /\ StartjOnly(program) => []LiveThreadsComeNext
BY LiveAreNext, HandleInvariance, PTL

(* No thread reads a job that has been freed, and startj frees none before *)
(* its thread has been joined.                                             *)
THEOREM JobsOutliveThreads == TMSpec /\ StartjOnly(program) => []JoinedBeforeFree
<1>1. HInv => JoinedBeforeFree
  BY DEF HInv, HandleType, LiveSlots, JobsSet, Live, JoinedBeforeFree
<1>2. QED
  BY <1>1, HandleInvariance, PTL

(* Calling startj again never makes the lock anew under a thread that is   *)
(* in the barrier.                                                         *)
THEOREM LockStaysWhileUsed == TMSpec /\ StartjOnly(program) => LockMadeAnewWhenFree
<1>1. IInv /\ HInv => (InitManager => owner = NoThread /\ \A w \in Worker : pc[w] = "out")
  BY MakingAnew
<1>2. QED
  BY <1>1, HandleInvariance, PTL DEF LockMadeAnewWhenFree

(* What the barrier promises for one group of threads holds in every life  *)
(* of the handle, whatever became of the threads of the lives before.      *)
THEOREM NoOvertakingInAnyLife == TMSpec /\ StartjOnly(program) => [](NoOvertaking /\ NoLostSleeper)
<1>1. IInv => NoOvertaking /\ NoLostSleeper
  BY DEF IInv
<1>2. QED
  BY <1>1, HandleInvariance, PTL
-----------------------------------------------------------------------------
(* The disk benchmark.                                                     *)

(* exit by a reader that found no file: the rest of the program does not   *)
(* happen.                                                                 *)
Gone == Op = "over" /\ \A w \in Worker : thr[w] = "none"

DiskType ==
  /\ disk \in Disks
  /\ file \in [Worker -> Int] /\ pos \in [Worker -> Int] /\ k \in [Worker -> Int]
  /\ gtime \in [Worker -> Int] /\ gtime1 \in [Worker -> Int]
  /\ stage \in [Worker -> {"open", "barrier", "move", "close"}]
  /\ failed \in [Worker -> BOOLEAN]

(* In its routine a thread is in the barrier in one stage only.            *)
Places ==
  disk # NoDisk =>
    \A w \in Worker : thr[w] = "working" /\ stage[w] # "barrier" => pc[w] = "out"

(* How much of a file the benchmark writes.                                *)
Blocks == fsize * disk.block_size

(* A file that is timed and closed: all of it, unless the disk refused it. *)
Filed(w) ==
  /\ gtime[w] \in Nat /\ file[w] \in 0 .. gtime[w]
  /\ ~failed[w] => file[w] = gtime[w] /\ gtime[w] = Blocks

(* What is known of a thread that writes: whoever is past the barrier has  *)
(* been through it, and the time of a thread that has ended is its file's. *)
Writer(w) ==
  /\ thr[w] \in {"none", "started", "pinned"} => calls[w] = 0 /\ gtime[w] = Unset
  /\ thr[w] = "working" =>
       /\ pos[w] \in Nat /\ (~failed[w] => pos[w] = k[w] * disk.block_size)
       /\ IF stage[w] = "close" THEN gtime[w] = pos[w] /\ k[w] = fsize ELSE gtime[w] = Unset
       /\ stage[w] \in {"move", "close"} => calls[w] # 0
  /\ thr[w] \in {"exited", "joined"} => Filed(w) /\ calls[w] # 0

(* Either no thread has written, because not all could be created, or all  *)
(* have, and each file is as long as it was timed.                         *)
NoneTimed == \A w \in Worker : gtime[w] = Unset
AllFiled == \A w \in Worker : Filed(w)

(* A thread that reads stays within its file, and its time is that of the  *)
(* whole file.                                                             *)
Reader(w) ==
  /\ thr[w] = "working" => pos[w] <= file[w]
  /\ gtime1[w] # Unset => gtime1[w] = file[w]

Phases ==
  /\ at >= 2 => nworker = num_threads
  /\ at <= 2 => \A w \in Worker : thr[w] # "joined"
  /\ at <= 3 => \A w \in Worker : Writer(w)
  /\ at <= 4 => \A w \in Worker : gtime1[w] = Unset
  /\ at >= 4 => NoneTimed \/ (AllFiled /\ \A w \in Worker : Reader(w))

FilesInv ==
  IF disk = NoDisk THEN \A w \in Worker : gtime[w] = Unset /\ gtime1[w] = Unset
  ELSE /\ program = startj \o startj
       /\ RatesOfOneFile
       /\ Gone \/ Phases

HandleInv == StartjOnly(program) => Gone \/ (IInv /\ HInv /\ Places)

LEMMA InitDisk == DInit => DiskType /\ FilesInv /\ HandleInv
<1> SUFFICES ASSUME DInit PROVE DiskType /\ FilesInv /\ HandleInv
  OBVIOUS
<1>1. /\ \A w \in Worker : /\ gtime[w] = Unset /\ gtime1[w] = Unset /\ calls[w] = 0
                           /\ thr[w] = "none" /\ pc[w] = "out"
      /\ at = 1 /\ TMInit
  BY DEF DInit, TMInit, Init
<1>2. DiskType
  BY DisksAssumption DEF DInit, DiskType, Absent, Unset
<1>3. FilesInv
  <2>1. Phases
    BY <1>1 DEF Phases, Writer
  <2>2. QED
    BY <1>1, <2>1 DEF FilesInv, DInit, RatesOfOneFile
<1>4. HandleInv
  <2>1. IInv
    BY <1>1, InitInvariant DEF TMInit
  <2>2. StartjOnly(program) => HInv
    BY <1>1, InitHandle
  <2>3. Places
    BY <1>1 DEF Places
  <2>4. QED
    BY <2>1, <2>2, <2>3 DEF HandleInv
<1>5. QED
  BY <1>2, <1>3, <1>4

(* The two calls of startj.                                                *)
LEMMA TwoLives ==
  ASSUME program = startj \o startj
  PROVE  StartjOnly(program) /\ Len(program) = 8
<1> DEFINE S == {"init", "fork", "wait", "free"}
<1>1. startj \in Seq(S) /\ Len(startj) = 4
  <2>1. "init" \in S /\ "fork" \in S /\ "wait" \in S /\ "free" \in S
    OBVIOUS
  <2> HIDE DEF S
  <2>2. QED
    BY <2>1 DEF startj
<1> HIDE DEF S
<1>2. /\ startj \o startj \in Seq(S)
      /\ Len(startj \o startj) = Len(startj) + Len(startj)
      /\ \A m \in 1 .. Len(startj) + Len(startj) :
            (startj \o startj)[m] = IF m <= Len(startj) THEN startj[m] ELSE startj[m - Len(startj)]
  BY <1>1, ConcatProperties, Zenon
<1>3. Len(startj) + Len(startj) = 8
  BY <1>1
<1>4. /\ Len(startj \o startj) = 8 /\ DOMAIN (startj \o startj) = 1 .. 8
      /\ \A m \in 1 .. 8 : (startj \o startj)[m] = IF m <= 4 THEN startj[m] ELSE startj[m - 4]
  BY <1>1, <1>2, <1>3
<1>5. ASSUME NEW m \in 1 .. 8 PROVE ((m - 1) % 4) + 1 = IF m <= 4 THEN m ELSE m - 4
  OBVIOUS
<1>6. QED
  BY <1>4, <1>5 DEF StartjOnly

(* What the threads of the disk benchmark do to the handle: they read      *)
(* their jobs, use the barrier, end, or leave it alone; or there is no     *)
(* file to read.                                                           *)
LEMMA DiskThreadKeepsHandle ==
  ASSUME IInv, HInv, Places, DiskType, disk # NoDisk, NEW w \in Worker, DiskThread(w)
  PROVE  Gone' \/ (IInv /\ HInv)'
<1>1. CASE ReadAffinity(w) \/ Enter(w) \/ PassBarrier(w)
  <2>1. Thread(w)
    BY <1>1 DEF Thread, Enter, PassBarrier
  <2>2. QED
    BY <2>1, HandleStep DEF TMNext
<1>2. CASE CloseWritten(w) \/ CloseRead(w)
  <2>1. thr[w] = "working" /\ stage[w] = "close"
    BY <1>2 DEF CloseWritten, CloseRead, Runs
  <2>2. Live(w) /\ pc[w] = "out"
    BY <2>1 DEF Live, Places
  <2>3. /\ UNCHANGED <<barrier, program, at, i, num_live_threads, job, cancel>>
        /\ thr' = [thr EXCEPT ![w] = "exited"]
    BY <1>2 DEF CloseWritten, CloseRead, Runs
  <2>4. HInv'
    BY <2>2, <2>3, ThreadMoves DEF barrier
  <2>5. IInv'
    BY <2>3, StutterStep DEF barrier, vars
  <2>6. QED
    BY <2>4, <2>5
<1>3. CASE OpenToWrite(w) \/ WriteBlock(w) \/ TimeOfWriting(w) \/ OpenToRead(w) \/ ReadBlock(w)
  <2>1. UNCHANGED tmvars
    BY <1>3 DEF OpenToWrite, WriteBlock, TimeOfWriting, OpenToRead, ReadBlock, Runs, tmvars
  <2>2. QED
    BY <2>1, HandleStep
<1>4. CASE ExitWithoutFile(w)
  <2>1. at' = Len(program) + 1 /\ program' = program /\ thr' = [v \in Worker |-> "none"]
    BY <1>4 DEF ExitWithoutFile, Runs
  <2>2. Len(program) \in Nat
    BY ProgramIsSeq DEF HInv, HandleType
  <2>3. Op' = "over"
    BY <2>1, <2>2 DEF Op
  <2>4. QED
    BY <2>1, <2>3 DEF Gone
<1>5. QED
  BY <1>1, <1>2, <1>3, <1>4 DEF DiskThread

LEMMA DiskTypeStep ==
  ASSUME DiskType, [DNext]_dvars
  PROVE  DiskType' /\ UNCHANGED <<disk, program>>
<1>1. CASE Main /\ UNCHANGED <<files, routine>>
  BY <1>1 DEF Main, InitManager, ForkOne, ForkFails, JoinOne, IsolateOne, CancelOne, SignalOne,
     CallFails, SkipSlot, FreeOne, LoopEnds, Slot, DiskType, files, routine
<1>2. CASE UNCHANGED dvars
  BY <1>2 DEF dvars, tmvars, DiskType, files, routine
<1>3. ASSUME NEW w \in Worker, Thread(w) \/ ReadAffinity(w), UNCHANGED <<files, routine>>
      PROVE  DiskType' /\ UNCHANGED <<disk, program>>
  BY <1>3 DEF Thread, ReadAffinity, ReadRoutine, Reads, Work, RoutineReturns, Cancelled,
     DiskType, files, routine
<1>4. ASSUME NEW w \in Worker, disk # NoDisk,
             Enter(w) \/ PassBarrier(w) \/ OpenToWrite(w) \/ OpenToRead(w) \/ ExitWithoutFile(w)
             \/ CloseWritten(w) \/ CloseRead(w)
      PROVE  DiskType' /\ UNCHANGED <<disk, program>>
  <2>1. UNCHANGED <<disk, program, gtime, gtime1>>
    BY <1>4 DEF Enter, PassBarrier, OpenToWrite, OpenToRead, ExitWithoutFile, CloseWritten,
       CloseRead, Runs, ReadRoutine, Reads, Work, files, routine
  <2>2. UNCHANGED stage \/ \E s \in {"open", "barrier", "move"} : To(w, s)
    BY <1>4 DEF Enter, PassBarrier, OpenToWrite, OpenToRead, ExitWithoutFile, CloseWritten,
       CloseRead, routine
  <2>3. stage' \in [Worker -> {"open", "barrier", "move", "close"}]
    BY <2>2 DEF To, DiskType
  <2>4. UNCHANGED <<pos, k>> \/ (pos' = [pos EXCEPT ![w] = 0] /\ k' = [k EXCEPT ![w] = 0])
    BY <1>4 DEF Enter, PassBarrier, OpenToWrite, OpenToRead, ExitWithoutFile, CloseWritten,
       CloseRead, routine
  <2>5. UNCHANGED file \/ \E n \in Int : file' = [file EXCEPT ![w] = n]
    <3>1. pos[w] \in Int /\ 0 \in Int
      BY DEF DiskType
    <3>2. CASE CloseWritten(w)
      BY <3>1, <3>2 DEF CloseWritten
    <3>3. CASE ~CloseWritten(w)
      BY <1>4, <3>1, <3>3 DEF Enter, PassBarrier, OpenToWrite, OpenToRead, ExitWithoutFile,
         CloseRead, files
    <3>4. QED
      BY <3>2, <3>3
  <2>6. pos' \in [Worker -> Int] /\ k' \in [Worker -> Int]
    BY <2>4 DEF DiskType
  <2>7. file' \in [Worker -> Int]
    BY <2>5 DEF DiskType
  <2>8. UNCHANGED failed \/ failed' = [failed EXCEPT ![w] = TRUE]
    BY <1>4 DEF Enter, PassBarrier, OpenToWrite, OpenToRead, ExitWithoutFile, CloseWritten,
       CloseRead, routine
  <2>9. failed' \in [Worker -> BOOLEAN]
    BY <2>8 DEF DiskType
  <2>10. QED
    BY <2>1, <2>3, <2>6, <2>7, <2>9 DEF DiskType
<1>5. ASSUME NEW w \in Worker, disk # NoDisk, WriteBlock(w) \/ TimeOfWriting(w) \/ ReadBlock(w)
      PROVE  DiskType' /\ UNCHANGED <<disk, program>>
  <2>1. disk.block_size \in Nat \ {0} /\ pos[w] \in Int /\ file[w] \in Int /\ k[w] \in Int
    BY <1>5, DisksAssumption DEF DiskType
  <2>2. CASE WriteBlock(w)
    <3>1. /\ \E taken \in 0 .. disk.block_size : pos' = [pos EXCEPT ![w] = @ + taken]
          /\ UNCHANGED failed \/ failed' = [failed EXCEPT ![w] = TRUE]
      BY <2>1, <2>2 DEF WriteBlock
    <3>2. PICK taken \in 0 .. disk.block_size : pos' = [pos EXCEPT ![w] = @ + taken]
      BY <3>1
    <3>3. pos[w] + taken \in Int /\ k[w] + 1 \in Int
      BY <2>1
    <3>4. pos' \in [Worker -> Int]
      BY <3>2, <3>3 DEF DiskType
    <3>5. k' \in [Worker -> Int]
      BY <2>2, <3>3 DEF WriteBlock, DiskType
    <3>6. failed' \in [Worker -> BOOLEAN]
      BY <3>1 DEF DiskType
    <3>7. QED
      BY <2>2, <3>4, <3>5, <3>6 DEF WriteBlock, Runs, DiskType, files
  <2>3. CASE TimeOfWriting(w)
    BY <2>3 DEF TimeOfWriting, Runs, To, DiskType, files
  <2>4. CASE ReadBlock(w)
    <3> DEFINE left == file[w] - pos[w]
               got == IF left < disk.block_size THEN left ELSE disk.block_size
    <3>1. got \in Int /\ pos[w] + got \in Int
      BY <2>1
    <3>2. /\ pos' = [pos EXCEPT ![w] = pos[w] + got]
          /\ stage' = [stage EXCEPT ![w] = IF got < disk.block_size THEN "close" ELSE "move"]
          /\ gtime1' = IF got < disk.block_size THEN [gtime1 EXCEPT ![w] = pos[w] + got]
                                                ELSE gtime1
      BY <2>4 DEF ReadBlock, To, DiskType
    <3> HIDE DEF left, got
    <3>3. QED
      BY <2>4, <3>1, <3>2 DEF ReadBlock, Runs, DiskType, files
  <2>5. QED
    BY <1>5, <2>2, <2>3, <2>4
<1>6. QED
  BY <1>1, <1>2, <1>3, <1>4, <1>5 DEF DNext, DMain, Idle, DThread, DiskThread

(* What a step of the program does to the threads.                         *)
LEMMA MainThreads ==
  ASSUME HandleType, Main
  PROVE  /\ UNCHANGED <<pc, program>>
         /\ \/ UNCHANGED thr
            \/ InitManager /\ \A v \in Worker : thr'[v] = "none"
            \/ \E s \in {"started", "joined"} : i \in Worker /\ thr' = [thr EXCEPT ![i] = s]
<1>1. i < num_threads => i \in Worker
  BY Slots DEF HandleType
<1>2. QED
  BY <1>1 DEF Main, InitManager, ForkOne, ForkFails, JoinOne, IsolateOne, CancelOne, SignalOne,
     CallFails, SkipSlot, FreeOne, LoopEnds, Slot, barrier

(* What a thread of the disk benchmark does it does to its own file, times *)
(* and place.                                                              *)
LEMMA OthersStay ==
  ASSUME DiskType, HandleType, NEW w \in Worker, DiskThread(w), ~ExitWithoutFile(w),
         NEW v \in Worker, v # w
  PROVE  /\ thr'[v] = thr[v] /\ stage'[v] = stage[v] /\ pos'[v] = pos[v] /\ file'[v] = file[v]
         /\ gtime'[v] = gtime[v] /\ gtime1'[v] = gtime1[v]
         /\ k'[v] = k[v] /\ failed'[v] = failed[v]
<1>1. /\ DOMAIN thr = Worker /\ DOMAIN stage = Worker /\ DOMAIN pos = Worker
      /\ DOMAIN file = Worker /\ DOMAIN gtime = Worker /\ DOMAIN gtime1 = Worker
      /\ DOMAIN k = Worker /\ DOMAIN failed = Worker
  BY DEF DiskType, HandleType
<1>2. CASE Enter(w) \/ PassBarrier(w) \/ (ReadAffinity(w) /\ UNCHANGED <<files, routine>>)
  BY <1>1, <1>2 DEF Enter, PassBarrier, ReadAffinity, ReadRoutine, Reads, Work, To, files, routine
<1>3. CASE OpenToWrite(w) \/ TimeOfWriting(w)
  BY <1>1, <1>3 DEF OpenToWrite, TimeOfWriting, To, files
<1>4. CASE OpenToRead(w) \/ CloseRead(w)
  BY <1>1, <1>4 DEF OpenToRead, CloseRead, To, files, routine
<1>5. CASE WriteBlock(w)
  <2>1. \E taken : pos' = [pos EXCEPT ![w] = @ + taken]
    BY <1>5 DEF WriteBlock
  <2>2. UNCHANGED <<thr, stage, file, gtime, gtime1>>
    BY <1>5 DEF WriteBlock, files
  <2>3. /\ k' = [k EXCEPT ![w] = @ + 1]
        /\ UNCHANGED failed \/ failed' = [failed EXCEPT ![w] = TRUE]
    BY <1>5 DEF WriteBlock
  <2>4. QED
    BY <1>1, <2>1, <2>2, <2>3
<1>6. CASE ReadBlock(w)
  <2>1. \E got : pos' = [pos EXCEPT ![w] = @ + got]
    BY <1>6 DEF ReadBlock
  <2>2. \E s : stage' = [stage EXCEPT ![w] = s]
    BY <1>6 DEF ReadBlock, To
  <2>3. gtime1' = gtime1 \/ \E t : gtime1' = [gtime1 EXCEPT ![w] = t]
    BY <1>6 DEF ReadBlock
  <2>4. UNCHANGED <<thr, file, gtime, k, failed>>
    BY <1>6 DEF ReadBlock, files
  <2>5. QED
    BY <1>1, <2>1, <2>2, <2>3, <2>4
<1>7. CASE CloseWritten(w)
  <2>1. /\ thr' = [thr EXCEPT ![w] = "exited"]
        /\ \E n : file' = [file EXCEPT ![w] = n]
        /\ UNCHANGED failed \/ failed' = [failed EXCEPT ![w] = TRUE]
        /\ UNCHANGED <<stage, pos, k, gtime, gtime1>>
    BY <1>7 DEF CloseWritten
  <2>2. QED
    BY <1>1, <2>1
<1>8. QED
  BY <1>2, <1>3, <1>4, <1>5, <1>6, <1>7 DEF DiskThread

LEMMA PlacesStep ==
  ASSUME IInv, HInv, Places, DiskType, disk # NoDisk, [DNext]_dvars, ~Gone'
  PROVE  Places'
<1>1. /\ pc \in [Worker -> {"out", "locked", "waiting", "last", "woken", "unlock"}]
      /\ \A v \in Worker : thr[v] = "working" /\ stage[v] # "barrier" => pc[v] = "out"
      /\ \A v \in Worker : thr[v] # "working" => pc[v] = "out"
      /\ DOMAIN thr = Worker /\ DOMAIN stage = Worker
  BY DEF IInv, TypeOK, Places, HInv, OnlyWorkingInside, HandleType, DiskType
<1>2. CASE Main /\ UNCHANGED <<files, routine>>
  <2>1. pc' = pc /\ stage' = stage /\ \A v \in Worker : thr'[v] = "working" => thr[v] = "working"
    <3>1. /\ pc' = pc /\ stage' = stage
          /\ \/ UNCHANGED thr
             \/ \A v \in Worker : thr'[v] = "none"
             \/ \E s \in {"started", "joined"} : i \in Worker /\ thr' = [thr EXCEPT ![i] = s]
      BY <1>2, MainThreads DEF HInv, routine
    <3>2. QED
      BY <1>1, <3>1
  <2>2. QED
    BY <1>1, <2>1 DEF Places
<1>3. CASE UNCHANGED dvars
  BY <1>1, <1>3 DEF dvars, tmvars, barrier, routine, Places
<1>4. ASSUME NEW w \in Worker, DiskThread(w)
      PROVE  Places'
  <2>1. CASE PassBarrier(w)
    <3>1. stage[w] = "barrier" /\ thr' = thr /\ Barrier(w) /\ ~ExitWithoutFile(w)
      BY <2>1 DEF PassBarrier, Work, ExitWithoutFile
    <3>2. \A v \in Worker : v # w /\ pc[v] = "out" => pc'[v] = "out"
      BY <1>1, <3>1, BarrierOfOne
    <3>3. \A v \in Worker : v # w => stage'[v] = stage[v]
      BY <1>4, <3>1, OthersStay DEF HInv
    <3>4. stage'[w] # "barrier" => pc'[w] = "out"
      BY <1>1, <2>1, <3>1 DEF PassBarrier, To, Unlock
    <3>5. QED
      BY <1>1, <3>1, <3>2, <3>3, <3>4 DEF Places
  <2>2. CASE Enter(w) \/ (ReadAffinity(w) /\ UNCHANGED <<files, routine>>)
    <3>1. pc' = pc /\ thr[w] # "working"
      BY <2>2 DEF Enter, ReadAffinity, ReadRoutine, Reads, barrier
    <3>2. \A v \in Worker : v # w => stage'[v] = stage[v] /\ thr'[v] = thr[v]
      BY <1>4, <3>1, OthersStay DEF HInv, ExitWithoutFile, Runs
    <3>3. QED
      BY <1>1, <3>1, <3>2 DEF Places
  <2>4. CASE ExitWithoutFile(w)
    <3>1. pc' = pc /\ \A v \in Worker : thr'[v] = "none"
      BY <2>4 DEF ExitWithoutFile, barrier
    <3>2. QED
      BY <3>1 DEF Places
  <2>3. CASE \/ OpenToWrite(w) \/ WriteBlock(w) \/ TimeOfWriting(w) \/ CloseWritten(w)
             \/ OpenToRead(w) \/ ReadBlock(w) \/ CloseRead(w)
    <3>1. pc' = pc /\ pc[w] = "out"
      BY <1>1, <2>3 DEF OpenToWrite, WriteBlock, TimeOfWriting, CloseWritten, OpenToRead,
         ReadBlock, CloseRead, Runs, barrier
    <3>2. CASE ~ExitWithoutFile(w)
      <4>1. \A v \in Worker : v # w => stage'[v] = stage[v] /\ thr'[v] = thr[v]
        BY <1>4, <3>2, OthersStay DEF HInv
      <4>2. QED
        BY <1>1, <3>1, <4>1 DEF Places
    <3>3. QED
      BY <2>4, <3>2
  <2>5. QED
    BY <1>4, <2>1, <2>2, <2>3, <2>4 DEF DiskThread
<1>5. QED
  BY <1>2, <1>3, <1>4 DEF DNext, DMain, Idle, DThread, dvars

(* Nothing happens any more once the process is gone.                      *)
LEMMA GoneStays ==
  ASSUME Gone, [DNext]_dvars, DiskType
  PROVE  UNCHANGED dvars
<1>1. ~Main
  BY DEF Gone, Main, InitManager, ForkOne, ForkFails, JoinOne, IsolateOne, CancelOne, SignalOne,
     CallFails, SkipSlot, FreeOne, LoopEnds, Slot, ForEachLive
<1>2. \A w \in Worker : thr[w] = "none"
  BY DEF Gone
<1>3. ASSUME NEW w \in Worker PROVE ~Thread(w) /\ ~DiskThread(w)
  BY <1>2 DEF Thread, ReadAffinity, ReadRoutine, Reads, Work, RoutineReturns, Cancelled,
     DiskThread, Enter, PassBarrier, OpenToWrite, WriteBlock, TimeOfWriting, CloseWritten,
     OpenToRead, ExitWithoutFile, ReadBlock, CloseRead, Runs
<1>4. QED
  BY <1>1, <1>3 DEF DNext, DMain, DThread, dvars

LEMMA HandleInvStep ==
  ASSUME DiskType, HandleInv, [DNext]_dvars
  PROVE  HandleInv'
<1> SUFFICES ASSUME StartjOnly(program)' PROVE (Gone \/ (IInv /\ HInv /\ Places))'
  BY DEF HandleInv
<1>1. UNCHANGED <<disk, program>>
  BY DiskTypeStep
<1>2. Gone \/ (IInv /\ HInv /\ Places)
  BY <1>1 DEF HandleInv, StartjOnly
<1>3. CASE Gone
  <2>1. UNCHANGED dvars
    BY <1>3, GoneStays
  <2>2. QED
    BY <1>3, <2>1 DEF Gone, Op, dvars, tmvars
<1>4. CASE IInv /\ HInv /\ Places
  <2>1. CASE disk = NoDisk
    <3>1. [TMNext]_tmvars
      BY <2>1 DEF DNext, DMain, Idle, DThread, TMNext, dvars
    <3>2. QED
      BY <1>1, <1>4, <2>1, <3>1, HandleStep DEF Places
  <2>2. CASE disk # NoDisk
    <3>1. Gone' \/ (IInv /\ HInv)'
      <4>1. CASE [TMNext]_tmvars
        BY <1>4, <4>1, HandleStep
      <4>2. CASE \E w \in Worker : DiskThread(w)
        BY <1>4, <2>2, <4>2, DiskThreadKeepsHandle
      <4>3. QED
        BY <2>2, <4>1, <4>2 DEF DNext, DMain, Idle, DThread, TMNext, dvars
    <3>2. QED
      BY <1>4, <2>2, <3>1, PlacesStep
  <2>3. QED
    BY <2>1, <2>2
<1>5. QED
  BY <1>2, <1>3, <1>4

-----------------------------------------------------------------------------
(* The files and the times.                                                *)

(* Where the benchmark is in its program.                                  *)
LEMMA WhereWeAre ==
  ASSUME HInv, program = startj \o startj
  PROVE  /\ at \in 1 .. 9 /\ (Writing <=> at <= 4)
         /\ Op = "init" <=> at \in {1, 5}
         /\ Op = "fork" <=> at \in {2, 6}
         /\ Op = "wait" <=> at \in {3, 7}
         /\ Op = "free" <=> at \in {4, 8}
         /\ Op \in {"init", "fork", "wait", "free", "over"}
<1>1. Len(program) = 8 /\ OpKnown
  BY TwoLives, OpIs DEF HInv
<1>2. at \in 1 .. 9
  BY <1>1 DEF HInv, HandleType
<1>3. \A n \in 1 .. 9 : /\ n <= 8 /\ n % 4 = 1 <=> n \in {1, 5}
                        /\ n <= 8 /\ n % 4 = 2 <=> n \in {2, 6}
                        /\ n <= 8 /\ n % 4 = 3 <=> n \in {3, 7}
                        /\ n <= 8 /\ n % 4 = 0 <=> n \in {4, 8}
  OBVIOUS
<1>4. Len(startj) = 4
  BY DEF startj
<1>5. QED
  BY <1>1, <1>2, <1>3, <1>4 DEF OpKnown, Writing

(* When all threads that were created to write have been joined, either    *)
(* none has come through the barrier, or all have.                         *)
LEMMA AllOrNone ==
  ASSUME IInv, HInv, nworker = num_threads,
         \A w \in Worker : Writer(w) /\ thr[w] \in {"none", "joined"}
  PROVE  NoneTimed \/ AllFiled
<1>1. nworker > 0 /\ calls \in [Worker -> Nat]
  BY GroupSize DEF num_threads, IInv, TypeOK
<1>2. \A w \in Worker : Passed(w) = calls[w]
  BY <1>1 DEF Passed, Released, HInv, OnlyWorkingInside
<1>3. \A v, w \in Worker : calls[v] = calls[w]
  BY <1>1, <1>2 DEF IInv, NoOvertaking
<1>4. CASE \A w \in Worker : calls[w] = 0
  BY <1>4 DEF Writer, NoneTimed
<1>5. CASE \A w \in Worker : calls[w] # 0
  BY <1>5 DEF Writer, AllFiled
<1>6. QED
  BY <1>3, <1>4, <1>5

LEMMA MainKeepsFiles ==
  ASSUME IInv, HInv, DiskType, program = startj \o startj, Phases,
         Main, UNCHANGED <<files, routine>>
  PROVE  Phases'
<1>1. /\ UNCHANGED <<file, stage, pos, k, failed, gtime, gtime1, Blocks, fsize, disk>>
      /\ \A w \in Worker : Filed(w)' <=> Filed(w)
  <2>1. UNCHANGED <<disk, file, stage, pos, k, failed, gtime, gtime1>>
    BY DEF files, routine
  <2>2. UNCHANGED fsize /\ UNCHANGED Blocks
    BY <2>1 DEF fsize, Blocks
  <2>3. QED
    BY <2>1, <2>2 DEF Filed
<1>2. /\ at \in 1 .. 9 /\ Op \in {"init", "fork", "wait", "free", "over"}
      /\ Op = "init" <=> at \in {1, 5}
      /\ Op = "fork" <=> at \in {2, 6}
      /\ Op = "wait" <=> at \in {3, 7}
      /\ Op = "free" <=> at \in {4, 8}
  BY WhereWeAre
<1>3. DOMAIN thr = Worker /\ i \in Nat /\ num_threads \in Nat /\ Worker = 0 .. num_threads - 1
  BY Slots DEF HInv, HandleType
<1>4. CASE InitManager
  <2>1. /\ at \in {1, 5} /\ at' = at + 1 /\ nworker' = num_threads
        /\ \A w \in Worker : thr'[w] = "none" /\ calls'[w] = 0
    BY <1>2, <1>4 DEF InitManager, Return
  <2>2. CASE at = 1
    <3>1. \A w \in Worker : thr[w] = "none" /\ Writer(w) /\ gtime1[w] = Unset
      BY <1>2, <2>2 DEF HInv, LiveSlots, Live, Phases
    <3>2. \A w \in Worker : gtime[w] = Unset
      BY <3>1 DEF Writer
    <3>3. QED
      BY <1>1, <2>1, <2>2, <3>1, <3>2 DEF Phases, Writer, num_threads
  <2>3. CASE at = 5
    BY <1>1, <2>1, <2>3 DEF Phases, Reader, NoneTimed, AllFiled, num_threads
  <2>4. QED
    BY <2>1, <2>2, <2>3
<1>5. CASE ForkOne
  <2>1. /\ at \in {2, 6} /\ UNCHANGED <<at, nworker, calls>> /\ i \in Worker
        /\ thr' = [thr EXCEPT ![i] = "started"]
    BY <1>2, <1>3, <1>5 DEF ForkOne, barrier, lck
  <2>2. thr'[i] = "started" /\ \A w \in Worker : w # i => thr'[w] = thr[w]
    BY <1>3, <2>1
  <2>3. CASE at = 2
    <3>1. ~Live(i)
      BY <1>2, <1>3, <2>1 DEF HInv, LiveSlots
    <3>2. thr[i] = "none"
      BY <2>1, <2>3, <3>1 DEF Live, Phases
    <3>3. \A w \in Worker : Writer(w)'
      BY <1>1, <2>1, <2>2, <2>3, <3>2 DEF Phases, Writer
    <3>4. QED
      BY <1>1, <2>1, <2>2, <2>3, <3>3 DEF Phases, num_threads
  <2>4. CASE at = 6
    BY <1>1, <2>1, <2>2, <2>4 DEF Phases, Reader, NoneTimed, AllFiled, num_threads
  <2>5. QED
    BY <2>1, <2>3, <2>4
<1>6. CASE ForkFails \/ LoopEnds
  <2>1. at' = at + 1 /\ UNCHANGED <<nworker, calls, thr>> /\ at \notin {1, 5}
    BY <1>2, <1>6 DEF ForkFails, LoopEnds, Return, barrier, lck, ForEachLive
  <2>2. CASE at = 2
    BY <1>1, <2>1, <2>2 DEF Phases, Writer, num_threads
  <2>3. CASE at = 3
    <3>1. i = num_threads
      BY <1>2, <1>6, <2>3 DEF ForkFails, LoopEnds
    <3>2. \A w \in Worker : Live(w) => i <= w
      BY <1>2, <2>3 DEF HInv, LiveSlots
    <3>3. \A w \in Worker : ~(i <= w)
      BY <1>3, <3>1
    <3>4. \A w \in Worker : thr[w] \in {"none", "joined"}
      BY <3>2, <3>3 DEF Live
    <3>5. NoneTimed \/ AllFiled
      BY <2>3, <3>4, AllOrNone DEF Phases
    <3>6. QED
      BY <1>1, <2>1, <2>3, <3>4, <3>5 DEF Phases, NoneTimed, AllFiled, Reader, num_threads
  <2>4. CASE at >= 4
    BY <1>1, <1>2, <2>1, <2>4 DEF Phases, NoneTimed, AllFiled, Reader, num_threads
  <2>5. QED
    BY <1>2, <2>1, <2>2, <2>3, <2>4
<1>7. CASE JoinOne
  <2>1. /\ at \in {3, 7} /\ UNCHANGED <<at, nworker, calls>> /\ i \in Worker
        /\ thr[i] = "exited" /\ thr' = [thr EXCEPT ![i] = "joined"]
    BY <1>2, <1>3, <1>7 DEF JoinOne, Slot, barrier, lck
  <2>2. thr'[i] = "joined" /\ \A w \in Worker : w # i => thr'[w] = thr[w]
    BY <1>3, <2>1
  <2>3. at = 3 => \A w \in Worker : Writer(w)'
    BY <1>1, <2>1, <2>2 DEF Phases, Writer
  <2>4. QED
    BY <1>1, <2>1, <2>2, <2>3 DEF Phases, Reader, NoneTimed, AllFiled, num_threads
<1>8. CASE SkipSlot \/ FreeOne
  <2>1. UNCHANGED <<at, nworker, calls, thr>>
    BY <1>8 DEF SkipSlot, FreeOne, barrier, lck
  <2>2. QED
    BY <1>1, <2>1 DEF Phases, Writer, Reader, NoneTimed, AllFiled, num_threads
<1>9. QED
  BY <1>2, <1>4, <1>5, <1>6, <1>7, <1>8 DEF Main, IsolateOne, CancelOne, SignalOne,
     CallFails, Slot

(* One thread of the disk benchmark: nothing of the others' that matters   *)
(* here changes.                                                           *)
LEMMA ThreadFrame ==
  ASSUME IInv, HInv, DiskType, disk # NoDisk, NEW w \in Worker, DiskThread(w),
         ~ExitWithoutFile(w)
  PROVE  /\ UNCHANGED <<at, program, disk, nworker>> /\ Live(w)
         /\ \A v \in Worker : v # w => calls'[v] = calls[v]
         /\ ~PassBarrier(w) => calls' = calls
<1>1. /\ DOMAIN calls = Worker /\ nworker \in Nat
  BY GroupSize DEF IInv, TypeOK
<1>2. CASE PassBarrier(w)
  <2>1. Barrier(w) /\ thr[w] = "working" /\ UNCHANGED <<at, program, disk>>
    BY <1>2 DEF PassBarrier, Work, files
  <2>2. nworker' = nworker /\ (calls' = calls \/ calls' = [calls EXCEPT ![w] = @ + 1])
    BY <2>1 DEF Barrier, Lock, Refuse, ArriveAndWait, ArriveLast, Broadcast, Wake, Unlock, lck
  <2>3. QED
    BY <1>1, <1>2, <2>1, <2>2 DEF Live
<1>3. CASE ~PassBarrier(w)
  <2>1. UNCHANGED <<barrier, at, program, disk>> /\ thr[w] \in {"started", "pinned", "working"}
    BY <1>3 DEF DiskThread, Enter, ReadAffinity, ReadRoutine, Reads, OpenToWrite, WriteBlock,
       TimeOfWriting, CloseWritten, OpenToRead, ReadBlock, CloseRead, Runs, files
  <2>2. QED
    BY <1>3, <2>1 DEF barrier, lck, Live
<1>4. QED
  BY <1>2, <1>3

(* A thread that writes.                                                   *)
LEMMA WriterStep ==
  ASSUME IInv, HInv, DiskType, disk # NoDisk, Writing, NEW w \in Worker, DiskThread(w),
         Writer(w), thr[w] # "joined"
  PROVE  Writer(w)' /\ thr'[w] # "joined" /\ gtime1'[w] = gtime1[w]
<1>1. /\ calls[w] \in Nat /\ DOMAIN calls = Worker /\ DOMAIN thr = Worker /\ DOMAIN stage = Worker
      /\ DOMAIN pos = Worker /\ DOMAIN file = Worker /\ DOMAIN gtime = Worker
      /\ DOMAIN k = Worker /\ DOMAIN failed = Worker /\ UNCHANGED disk
      /\ k[w] \in Int /\ disk.block_size \in Nat /\ failed[w] \in BOOLEAN
  <2>1. UNCHANGED disk
    BY DiskTypeStep DEF DNext, DThread
  <2>2. k[w] \in Int /\ disk.block_size \in Nat /\ failed[w] \in BOOLEAN
    BY DisksAssumption DEF DiskType
  <2>3. QED
    BY <2>1, <2>2 DEF IInv, TypeOK, HInv, HandleType, DiskType
<1>2. ~ExitWithoutFile(w) /\ ~OpenToRead(w) /\ ~ReadBlock(w) /\ ~CloseRead(w)
  BY DEF ExitWithoutFile, OpenToRead, ReadBlock, CloseRead
<1>3. Live(w) /\ (~PassBarrier(w) => calls' = calls)
  BY <1>2, ThreadFrame
<1>4. CASE ReadAffinity(w) /\ UNCHANGED <<files, routine>>
  <2>1. job[w] = "set"
    BY <1>3 DEF HInv, LiveSlots, JobsSet
  <2>2. thr[w] = "started" /\ thr'[w] = "pinned" /\ UNCHANGED <<calls, gtime, gtime1>>
    BY <1>1, <1>4, <2>1 DEF ReadAffinity, Reads, routine, barrier
  <2>3. QED
    BY <2>2 DEF Writer
<1>5. CASE Enter(w)
  <2>1. job[w] = "set"
    BY <1>3 DEF HInv, LiveSlots, JobsSet
  <2>2. /\ thr[w] = "pinned" /\ thr'[w] = "working" /\ stage'[w] = "open" /\ pos'[w] = 0
        /\ k'[w] = 0 /\ UNCHANGED <<calls, gtime, gtime1>>
    BY <1>1, <1>5, <2>1 DEF Enter, ReadRoutine, Reads, To, barrier
  <2>3. pos'[w] = k'[w] * disk'.block_size
    BY <1>1, <2>2
  <2>4. QED
    BY <2>2, <2>3 DEF Writer
<1>6. CASE PassBarrier(w)
  <2>1. /\ thr[w] = "working" /\ stage[w] = "barrier" /\ UNCHANGED <<thr, pos, k, failed, gtime, gtime1>>
    BY <1>6 DEF PassBarrier, Work
  <2>2. CASE Unlock(w)
    <3>1. stage'[w] = "move" /\ calls'[w] = calls[w] + 1
      BY <1>1, <1>6, <2>2 DEF PassBarrier, To, Unlock
    <3>2. QED
      BY <1>1, <2>1, <3>1 DEF Writer
  <2>3. CASE ~Unlock(w)
    <3>1. stage'[w] = "barrier"
      BY <1>6, <2>1, <2>3 DEF PassBarrier
    <3>2. QED
      BY <1>1, <2>1, <3>1 DEF Writer
  <2>4. QED
    BY <2>2, <2>3
<1>7. CASE OpenToWrite(w)
  <2>1. /\ thr[w] = "working" /\ stage[w] = "open" /\ stage'[w] = "barrier"
        /\ UNCHANGED <<thr, pos, k, failed, gtime, gtime1>>
    BY <1>1, <1>7 DEF OpenToWrite, Runs, To
  <2>2. QED
    BY <1>1, <2>1 DEF Writer
<1>8. CASE WriteBlock(w)
  <2>1. /\ thr[w] = "working" /\ stage[w] = "move" /\ UNCHANGED <<thr, stage, gtime, gtime1, calls>>
        /\ k'[w] = k[w] + 1
    BY <1>1, <1>8 DEF WriteBlock, Runs, barrier
  <2>2. CASE pos' = [pos EXCEPT ![w] = @ + disk.block_size] /\ UNCHANGED failed
    <3>1. pos'[w] = pos[w] + disk.block_size /\ pos[w] \in Nat
      BY <1>1, <2>1, <2>2 DEF Writer
    <3>2. (k[w] + 1) * disk.block_size = k[w] * disk.block_size + disk.block_size
      BY <1>1
    <3>3. ~failed'[w] => pos'[w] = k'[w] * disk'.block_size
      BY <1>1, <2>1, <2>2, <3>1, <3>2 DEF Writer
    <3>4. pos'[w] \in Nat
      BY <1>1, <3>1
    <3>5. QED
      BY <2>1, <3>3, <3>4 DEF Writer
  <2>3. CASE /\ \E taken \in 0 .. disk.block_size : pos' = [pos EXCEPT ![w] = @ + taken]
             /\ failed' = [failed EXCEPT ![w] = TRUE]
    <3>1. failed'[w]
      BY <1>1, <2>3
    <3>2. PICK taken \in 0 .. disk.block_size : pos' = [pos EXCEPT ![w] = @ + taken]
      BY <2>3
    <3>3. pos'[w] = pos[w] + taken /\ pos[w] \in Nat /\ taken \in Nat
      BY <1>1, <2>1, <3>2 DEF Writer
    <3>4. pos'[w] \in Nat
      BY <3>3
    <3>5. QED
      BY <2>1, <3>1, <3>4 DEF Writer
  <2>4. QED
    BY <1>8, <2>2, <2>3 DEF WriteBlock
<1>9. CASE TimeOfWriting(w)
  <2>1. /\ thr[w] = "working" /\ stage[w] = "move" /\ stage'[w] = "close" /\ gtime'[w] = pos[w]
        /\ k[w] = fsize /\ UNCHANGED <<thr, pos, k, failed, gtime1, calls>>
    BY <1>1, <1>9 DEF TimeOfWriting, Runs, To, barrier
  <2>2. fsize' = fsize
    BY <1>1 DEF fsize
  <2>3. QED
    BY <1>1, <2>1, <2>2 DEF Writer
<1>10. CASE CloseWritten(w)
  <2>1. /\ thr[w] = "working" /\ stage[w] = "close" /\ thr'[w] = "exited"
        /\ UNCHANGED <<gtime, gtime1, calls>>
    BY <1>1, <1>10 DEF CloseWritten, Runs, barrier
  <2>2. /\ pos[w] \in Nat /\ gtime[w] = pos[w] /\ k[w] = fsize /\ calls[w] # 0
        /\ ~failed[w] => pos[w] = Blocks
    BY <2>1 DEF Writer, Blocks
  <2>3. Blocks' = Blocks
    BY <1>1 DEF fsize, Blocks
  <2>4. CASE ~failed[w] /\ UNCHANGED failed /\ file' = [file EXCEPT ![w] = pos[w]]
    BY <1>1, <2>1, <2>2, <2>3, <2>4 DEF Writer, Filed
  <2>5. CASE /\ failed' = [failed EXCEPT ![w] = TRUE]
             /\ \E kept \in 0 .. pos[w] : file' = [file EXCEPT ![w] = kept]
    <3>1. failed'[w] /\ file'[w] \in 0 .. pos[w]
      BY <1>1, <2>5
    <3>2. Filed(w)'
      BY <2>1, <2>2, <3>1 DEF Filed
    <3>3. QED
      BY <2>1, <2>2, <3>2 DEF Writer
  <2>6. QED
    BY <1>10, <2>4, <2>5 DEF CloseWritten
<1>11. QED
  BY <1>2, <1>4, <1>5, <1>6, <1>7, <1>8, <1>9, <1>10 DEF DiskThread

(* A thread that reads keeps to its file.                                  *)
LEMMA ReaderStep ==
  ASSUME HInv, DiskType, disk # NoDisk, ~Writing, NEW w \in Worker, DiskThread(w),
         Reader(w), file[w] \in Nat
  PROVE  Reader(w)'
<1>1. /\ DOMAIN thr = Worker /\ DOMAIN pos = Worker /\ DOMAIN gtime1 = Worker /\ pos[w] \in Int
  BY DEF HInv, HandleType, DiskType
<1>2. UNCHANGED <<file, gtime>>
  BY DEF DiskThread, ReadAffinity, Enter, PassBarrier, OpenToWrite, WriteBlock, TimeOfWriting,
     CloseWritten, OpenToRead, ExitWithoutFile, ReadBlock, CloseRead, files, routine
<1>3. CASE Enter(w)
  <2>1. pos'[w] = 0 /\ gtime1' = gtime1
    BY <1>1, <1>3 DEF Enter
  <2>2. QED
    BY <1>2, <2>1 DEF Reader
<1>4. CASE ReadBlock(w)
  <2> DEFINE left == file[w] - pos[w]
             got == IF left < disk.block_size THEN left ELSE disk.block_size
  <2>1. thr[w] = "working" /\ disk.block_size \in Nat
    BY <1>4, DisksAssumption DEF ReadBlock, Runs, DiskType
  <2>2. pos[w] <= file[w]
    BY <2>1 DEF Reader
  <2>3. /\ pos'[w] = pos[w] + got
        /\ gtime1'[w] = IF got < disk.block_size THEN pos[w] + got ELSE gtime1[w]
    BY <1>1, <1>4 DEF ReadBlock
  <2>4. pos[w] + got <= file[w] /\ (got < disk.block_size => pos[w] + got = file[w])
    BY <1>1, <2>1, <2>2
  <2> HIDE DEF left, got
  <2>5. QED
    BY <1>2, <2>3, <2>4 DEF Reader
<1>5. CASE ~Enter(w) /\ ~ReadBlock(w)
  <2>1. pos' = pos /\ gtime1' = gtime1 /\ (thr'[w] = "working" => thr[w] = "working")
    BY <1>1, <1>5 DEF DiskThread, ReadAffinity, Reads, PassBarrier, Work, OpenToWrite, WriteBlock,
       TimeOfWriting, CloseWritten, OpenToRead, ExitWithoutFile, CloseRead, Runs, files, routine
  <2>2. QED
    BY <1>2, <2>1 DEF Reader
<1>6. QED
  BY <1>3, <1>4, <1>5

LEMMA ThreadKeepsFiles ==
  ASSUME IInv, HInv, DiskType, disk # NoDisk, program = startj \o startj, Phases, RatesOfOneFile,
         NEW w \in Worker, DiskThread(w), ~ExitWithoutFile(w)
  PROVE  Phases' /\ RatesOfOneFile'
<1>1. /\ UNCHANGED <<at, program, disk, nworker>> /\ Live(w)
      /\ \A v \in Worker : v # w => calls'[v] = calls[v]
  BY ThreadFrame
<1>2. at \in {2, 3, 6, 7} /\ (Writing <=> at <= 4)
  BY <1>1, WhereWeAre DEF HInv, LiveSlots
<1>3. \A v \in Worker : v # w =>
        /\ thr'[v] = thr[v] /\ stage'[v] = stage[v] /\ pos'[v] = pos[v] /\ file'[v] = file[v]
        /\ gtime'[v] = gtime[v] /\ gtime1'[v] = gtime1[v]
        /\ k'[v] = k[v] /\ failed'[v] = failed[v]
  BY OthersStay DEF HInv
<1>4. CASE at \in {2, 3}
  <2>1. Writing /\ Writer(w) /\ thr[w] # "joined" /\ \A v \in Worker : Writer(v) /\ gtime1[v] = Unset
    BY <1>1, <1>2, <1>4 DEF Phases, Live
  <2>2. Writer(w)' /\ thr'[w] # "joined" /\ gtime1'[w] = gtime1[w]
    BY <2>1, WriterStep
  <2>3. \A v \in Worker : v # w => Writer(v)'
    <3>1. fsize' = fsize /\ Blocks' = Blocks
      BY <1>1 DEF fsize, Blocks
    <3>2. \A v \in Worker : v # w => (Filed(v)' <=> Filed(v))
      BY <1>3, <3>1 DEF Filed
    <3>3. QED
      BY <1>1, <1>3, <2>1, <3>1, <3>2 DEF Writer
  <2>4. \A v \in Worker : Writer(v)' /\ gtime1'[v] = Unset
    BY <1>3, <2>1, <2>2, <2>3
  <2>5. at = 2 => \A v \in Worker : thr'[v] # "joined"
    BY <1>3, <2>2 DEF Phases
  <2>6. Phases'
    BY <1>1, <1>4, <2>4, <2>5 DEF Phases, num_threads
  <2>7. QED
    BY <2>4, <2>6 DEF RatesOfOneFile
<1>5. CASE at \in {6, 7}
  <2>1. ~Writing /\ nworker = num_threads
    BY <1>2, <1>5 DEF Phases
  <2>2. UNCHANGED <<file, gtime, failed, fsize, Blocks>> /\ \A v \in Worker : Filed(v)' <=> Filed(v)
    <3>1. UNCHANGED <<file, gtime, failed>>
      BY <2>1 DEF DiskThread, ReadAffinity, Enter, PassBarrier, OpenToWrite, WriteBlock,
         TimeOfWriting, CloseWritten, OpenToRead, ExitWithoutFile, ReadBlock, CloseRead, files,
         routine
    <3>2. fsize' = fsize /\ Blocks' = Blocks
      BY <1>1 DEF fsize, Blocks
    <3>3. QED
      BY <3>1, <3>2 DEF Filed
  <2>3. CASE NoneTimed
    BY <1>1, <1>5, <2>1, <2>2, <2>3 DEF Phases, NoneTimed, RatesOfOneFile, num_threads
  <2>4. CASE AllFiled /\ ~NoneTimed
    <3>1. \A v \in Worker : Reader(v) /\ Filed(v)
      BY <1>5, <2>4 DEF Phases, AllFiled
    <3>2. file[w] \in Nat
      BY <3>1 DEF Filed
    <3>3. Reader(w)'
      BY <2>1, <3>1, <3>2, ReaderStep
    <3>4. \A v \in Worker : Reader(v)' /\ Filed(v)'
      BY <1>3, <2>2, <3>1, <3>3 DEF Reader
    <3>5. RatesOfOneFile'
      BY <3>4 DEF Filed, Reader, RatesOfOneFile, Blocks
    <3>6. Phases'
      BY <1>1, <1>5, <2>1, <3>4 DEF Phases, AllFiled, num_threads
    <3>7. QED
      BY <3>5, <3>6
  <2>5. QED
    BY <1>5, <2>3, <2>4 DEF Phases
<1>6. QED
  BY <1>2, <1>4, <1>5

LEMMA FilesStep ==
  ASSUME DiskType, HandleInv, FilesInv, [DNext]_dvars
  PROVE  FilesInv'
<1>1. UNCHANGED <<disk, program, fsize>>
  BY DiskTypeStep DEF fsize
<1>2. CASE disk = NoDisk
  <2>1. UNCHANGED routine
    BY <1>2 DEF DNext, DMain, Idle, DThread, dvars
  <2>2. QED
    BY <1>1, <1>2, <2>1 DEF FilesInv, routine
<1>3. CASE disk # NoDisk /\ Gone
  <2>1. UNCHANGED dvars
    BY <1>3, GoneStays
  <2>2. Gone'
    BY <1>3, <2>1 DEF Gone, Op, dvars, tmvars
  <2>3. QED
    BY <1>1, <1>3, <2>1, <2>2 DEF FilesInv, RatesOfOneFile, dvars, routine
<1>4. CASE disk # NoDisk /\ ~Gone
  <2>1. program = startj \o startj /\ RatesOfOneFile /\ Phases
    BY <1>4 DEF FilesInv
  <2>2. IInv /\ HInv
    BY <1>4, <2>1, TwoLives DEF HandleInv
  <2>3. SUFFICES RatesOfOneFile' /\ (Gone \/ Phases)'
    BY <1>1, <1>4, <2>1 DEF FilesInv
  <2>4. CASE Main /\ UNCHANGED <<files, routine>>
    <3>1. Phases'
      BY <2>1, <2>2, <2>4, MainKeepsFiles
    <3>2. RatesOfOneFile'
      BY <1>1, <2>1, <2>4 DEF RatesOfOneFile, routine
    <3>3. QED
      BY <3>1, <3>2
  <2>5. CASE UNCHANGED dvars
    <3>1. /\ UNCHANGED <<thr, at, nworker, calls>> /\ UNCHANGED <<disk, file>>
          /\ UNCHANGED <<stage, pos, k, failed, gtime, gtime1>>
      BY <2>5 DEF dvars, tmvars, barrier, lck, files, routine
    <3>2. fsize' = fsize /\ Blocks' = Blocks
      BY <3>1 DEF fsize, Blocks
    <3>3. \A v \in Worker : Filed(v)' <=> Filed(v)
      BY <3>1, <3>2 DEF Filed
    <3>4. \A v \in Worker : (Writer(v)' <=> Writer(v)) /\ (Reader(v)' <=> Reader(v))
      BY <3>1, <3>2, <3>3 DEF Writer, Reader
    <3>5. RatesOfOneFile'
      BY <2>1, <3>1, <3>2 DEF RatesOfOneFile
    <3>6. Phases'
      BY <2>1, <3>1, <3>3, <3>4 DEF Phases, NoneTimed, AllFiled, num_threads
    <3>7. QED
      BY <3>5, <3>6
  <2>6. ASSUME NEW w \in Worker, DiskThread(w)
        PROVE  RatesOfOneFile' /\ (Gone \/ Phases)'
    <3>1. CASE ExitWithoutFile(w)
      <4>1. /\ at' = Len(program) + 1 /\ program' = program /\ thr' = [v \in Worker |-> "none"]
            /\ UNCHANGED routine
        BY <3>1 DEF ExitWithoutFile, Runs
      <4>2. Op' = "over"
        BY <2>1, <4>1, TwoLives DEF Op
      <4>3. QED
        BY <1>1, <2>1, <4>1, <4>2 DEF Gone, RatesOfOneFile, routine
    <3>2. CASE ~ExitWithoutFile(w)
      BY <1>4, <2>1, <2>2, <2>6, <3>2, ThreadKeepsFiles
    <3>3. QED
      BY <3>1, <3>2
  <2>7. QED
    BY <1>4, <2>4, <2>5, <2>6 DEF DNext, DMain, Idle, DThread, dvars
<1>5. QED
  BY <1>2, <1>3, <1>4

LEMMA DiskInvariance == DSpec => [](DiskType /\ FilesInv /\ HandleInv)
<1>1. DiskType /\ FilesInv /\ HandleInv /\ [DNext]_dvars => (DiskType /\ FilesInv /\ HandleInv)'
  BY DiskTypeStep, FilesStep, HandleInvStep
<1>2. QED
  BY <1>1, InitDisk, PTL DEF DSpec

(* Both rates the disk benchmark prints for a thread are of one file, the  *)
(* one this run has written, for every number of threads, every size of    *)
(* file and block, whatever an earlier run has left and wherever           *)
(* pthread_create gives out: of all its whole blocks while the disk takes  *)
(* what fwrite and fclose send it, and where it does not, the rate of      *)
(* reading is of no more than was timed to be written.                     *)
THEOREM RatesAreOfOneFile == DSpec => []RatesOfOneFile
<1>1. FilesInv => RatesOfOneFile
  BY DEF FilesInv, RatesOfOneFile
<1>2. QED
  BY <1>1, DiskInvariance, PTL

(* The disk benchmark, which may exit in the middle of its second startj,  *)
(* counts its threads right and frees no job that one of them still needs. *)
THEOREM DiskHandleIsRight ==
  DSpec /\ StartjOnly(program) => [](LiveThreadsComeNext /\ JoinedBeforeFree)
<1>1. /\ HInv => LiveThreadsComeNext /\ JoinedBeforeFree
      /\ Gone => LiveThreadsComeNext /\ JoinedBeforeFree
  <2>1. HInv => LiveThreadsComeNext /\ JoinedBeforeFree
    BY LiveAreNext DEF HInv, HandleType, LiveSlots, JobsSet, Live, JoinedBeforeFree
  <2>2. Gone => LiveThreadsComeNext /\ JoinedBeforeFree
    BY DEF Gone, LiveThreadsComeNext, JoinedBeforeFree
  <2>3. QED
    BY <2>1, <2>2
<1>2. StartjOnly(program) /\ HandleInv => LiveThreadsComeNext /\ JoinedBeforeFree
  BY <1>1 DEF HandleInv
<1>3. DiskType /\ StartjOnly(program) /\ [DNext]_dvars => StartjOnly(program)'
  BY DiskTypeStep DEF StartjOnly
<1>4. QED
  BY <1>2, <1>3, DiskInvariance, PTL DEF DSpec
=============================================================================
