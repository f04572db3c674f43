# A TLA+ verification of MPAC

MPAC is a library for writing multi-threaded benchmarks in C (`common/`), with
benchmarks (`benchmarks/`) and sample applications (`apps/`) on top of it. This
directory holds TLA+ models of its concurrent parts and of its sequential services, TLC
configurations that check them on small instances, and TLAPS proofs for all instances.

Contents: [1 the system](#1-the-system) · [2 modules](#2-modules-and-how-they-correspond-to-the-code)
· [3 runs](#3-runs) · [4 fairness and atomicity](#4-fairness-and-atomicity)
· [5 proofs](#5-proofs) · [6 findings](#6-findings) · [7 not modelled](#7-what-is-not-modelled)
· [8 what is left](#8-what-is-left)

## 1 The system

| component | state | operations | talks to |
|---|---|---|---|
| thread manager (`common/mpac_thread_manager.c`) | the handle: slots, `num_live_threads`, job descriptors; one static barrier lock `brrlck` for all handles | `init`, `fork`, `wait`, `isolate`, `end`, `sendsig`, `free`, and `startj` / `startd` built from them; `barrier` | pthreads; every program below calls it |
| cpu benchmark (`benchmarks/cpu`) | `gtime[]`, phase times, unprotected globals | four work routines of 3 to 5 timed phases | the barrier |
| memory benchmark (`benchmarks/mem`) | two time stamps, private buffers | two copy routines, local and global time | the barrier |
| cache benchmark (`benchmarks/cache`) | per pair: `producer_at`, `consumer_at`, `reset_at`, the data set | a producer and a consumer thread that walk over the data set inside a window | volatile counters, no lock |
| sniffer, one queue per worker (`apps/sniffer/sniffer_MQ`, `_optimized`) | per worker a ring with `geti`, `puti`; counters; `ctrl_c` | dispatcher (`main`), workers, time keeper, SIGINT clean-up | volatile indices, plain counters |
| sort (`apps/sort`) | `data_array`, one part and one `flag` per worker | main divides, raises the flags, joins, merges; workers poll, barrier, sort, barrier | thread manager, barrier, plain flags |
| net benchmark (`benchmarks/net`) | a shared message count, a signal flag, a ring of accepted sockets | senders and receivers, TCP or UDP, by number of messages or by time | a lock of its own, sockets, SIGALRM |
| sniffer, one queue (`apps/sniffer/sniffer_1Q`) | one array of slots with an `empty` flag each; counters | dispatcher fills empty slots in turn, worker `j` takes slots `j`, `j + wrkrs`, ... | volatile flags |
| disk benchmark (`benchmarks/disk`) | a file, two times and two rates per thread | two `startj` in a row, write test and read test | thread manager, barrier, the file system |
| Cell ports (`cbe/cpu_bench`, `cbe/mem_bench`) | an SPE context and a mailbox per thread, two time stamps, a copy of the barrier | per phase: main creates contexts and threads, tells the SPEs what to do, joins, destroys, takes the time | libspe, the barrier |
| suite initialisation (`common/mpac.c`) | number of processors, least measurable durations | count processors, measure clocks and loops | file input, clocks |
| file input (`common/mpac_io_file.c`) | a descriptor, an offset, the caller's buffer | `readln`, `length`, `read`; counting and choosing processors built on them | the kernel |
| clocks (`common/mpac_time.c`, `mpac_resolution.c`) | time stamps | overheads, resolutions, wall clock, running time of a function | the kernel's clocks |
| statistics (`common/mpac_stats.c`) | the caller's array, which `median` and `mode` sort | mean, variance, median, mode, min, max | |
| sockets (`common/mpac_io_tcp.c`, `_udp`, `_raw`) | a descriptor | open, read, write, accept, close | the kernel; net and the sniffers call them |
| hello, tests, build | | | |

What is hard in this code:

* *Interleaving.* The barrier is one mutex, one condition variable and one counter, reused round
  after round with no round number; the work routines rely on it to share plain globals. The cache
  benchmark and the sniffers have no lock at all.
* *Partial failure.* Return values are ignored nearly everywhere: `startj` goes on after a
  `pthread_create` that failed, the sniffers after a `recvfrom` that failed, the
  count of processors after a `read` that failed.
* *Lifetime.* Job descriptors, rings and contexts are freed by one thread while others may need them.
* *Liveness.* Nearly every wait is a poll or a condition that only one other thread can fulfil.
* *Boundaries.* Queue lengths and window bounds come from the command line with few checks.

`PROJECT.json` lists each of these hazards at its line, with the properties that cover it.

What makes each component correct:

* thread manager: `startj` returns when all workers have returned; nothing a thread still needs is
  freed; the barrier's lock is not re-made under a user.
* barrier: nobody passes before everybody has come; every call returns; it is reusable at once.
* cpu and mem: a result is the duration of *its* phase.
* cache: the producer stays inside the window, the consumer reads fresh blocks, rounds do not mix,
  the run ends.
* sniffers: packets are handed over once and in order, a slot has one user at a time, the printed
  counters fit together, capture goes on, and the program stops when its time is over.
* sort: main and workers never use a part at once; the result is sorted.
* net: as many messages are sent as asked for, hardly more; both programs end; a thread's connection
  is its own.
* disk: both rates of a thread are of the same file, the one that this run has written.
* Cell ports: a time is printed for the kernel that ran in it; no SPE runs in a destroyed context.
* services: what is counted, read, measured or computed is so for every input, and calls return.

## 2 Modules and how they correspond to the code

| module | models | kind |
|---|---|---|
| `PhaseBarrier` | what a barrier promises | abstract specification |
| `MpacBarrier` | `mpac_thread_manager_barrier`, lock step by lock step | detailed, implements `PhaseBarrier` |
| `MpacBarrierPosix` | the same with the spurious wakeups POSIX allows | extends `MpacBarrier` |
| `PhaseTiming` | the work routines of cpu and mem | extends `MpacBarrier` |
| `CellBench` | main, threads and SPEs of the Cell ports | extends `PhaseTiming` |
| `ThreadManager` | the handle, its operations, the threads' start-up | extends `MpacBarrier` |
| `Disk` | both routines of the disk benchmark and their files | extends `ThreadManager` |
| `WindowPipe` | a bounded window over rounds | abstract specification |
| `CacheCtc` | producer and consumer | detailed, implements `WindowPipe` |
| `PacketQueues` | bounded FIFO queues with one packet in the worker's hands | abstract specification |
| `SnifferMQ` | dispatcher, workers, time keeper | detailed, implements `PacketQueues` |
| `Sniffer1Q` | dispatcher, workers and time keeper of the one-queue sniffer | detailed |
| `Sort` | main and workers of `apps/sort`, with its quicksort, partition and buckets | extends `MpacBarrier` |
| `Net` | both programs of `benchmarks/net`, TCP and UDP, by count and by time | detailed |
| `FileInput` | reading lines and files, counting and choosing processors | detailed |
| `Clocks` | what is measured about the clock, a loop and a function | detailed |
| `Statistics` | functions of an array that some of them sort | detailed |
| `Services` | the programs made of the last three, `mpac_init` among them | composes them |
| `MpacBarrierProofs`, `CacheCtcProofs`, `SortProofs`, `NetServicesProofs`, `Sniffer1QProofs`, `SnifferMQProofs`, `PhaseTimingProofs`, `ThreadManagerProofs` | theorems | proofs |
| `MC*` | constants for TLC | |

**Barrier.** `nworker`, `narrived` and `owner` are `num_wrkr`, `curr_wrkr` and the mutex of
`brrlck`; `pc[w]` is the place of thread `w` in the function. `pthread_cond_wait` is two steps,
`ArriveAndWait` (count, sleep and release in one) and `Wake` (take the mutex again). A thread calls
the barrier `Calls` times, with nothing in between: what a routine does there cannot touch the lock.
`nworker = 0` initially covers a barrier used before `initlock`.

**Timing.** A time stamp is represented by the barrier at which it is taken, `<<phase, step>>`. A
result is then the pair of the two stamps subtracted, and `ResultIsPhaseSpan` says that it is the
pair of its own phase. Loads and stores of the globals are steps of their own (`LoadTime`,
`StoreResult`), as the threads run them without a lock. In the Cell ports the threads are new ones
in every phase and the barrier is not: `CellBench` adds main, which creates, joins and destroys, and
for each worker its context, its mailbox and what its SPE has done so far. `PrintedIsWhatRan` reads
the names that main prints and the kernels that `spu.c` selects, each from its own file. It compares
names and sizes: the repetitions, and the factor `sizeof(int)` by which main multiplies the bytes
that the SPEs copy as characters (`cbe/mem_bench/ppu.c:289`, `spu.c:63-67`), are not in it. Main
writes the three words of a mailbox in one step, so their order is not exercised either.

**Thread manager.** A run executes one `program`, a sequence of operations; each turn of an
operation's loop is a step, since threads run meanwhile. A thread reads its job twice
(`ReadAffinity`, `ReadRoutine`), runs a routine that calls the barrier `Calls` times and returns. A
thread that reads a freed job is `"wild"` and not followed further. `Disk` puts a routine in the
place of the barrier calls: the threads of the first `startj` write, those of the second read. A
time stands for the number of bytes moved in it. What is written is in the stream's buffer until the
file is closed; a full disk may refuse it at `fwrite`, which then takes a part of the block, or at
the flush in `fclose`, whose result nobody looks at: then any part of what was timed may be missing
from the file (`failed` remembers that). Files may be left from an earlier run; `exit`, when there
is no file to read, ends every thread.

**Cache.** One variable per shared counter; every load of a polling loop and every store is a step.
Warm-up and measured iterations are numbered through. `pass[b]` is the iteration in which the
producer last wrote block `b`: what a block holds, as far as freshness is concerned. Options range
over everything `parse_cmdl` can leave and `validate_CLopts` accepts.

**Sniffer.** A packet is its arrival number and its kind: TCP, other IP, not IP. Reading or writing
an index, a slot or a counter is a step. `opts.optimized` selects between the two programs.

**One-queue sniffer.** The dispatcher goes round all slots and fills those marked empty; worker `j`
goes to the slots `j`, `j + numwrkr`, ... and takes those that are not. Reading a mark, receiving,
handing over, adding the length and counting are steps of their own, so that the dispatcher's
`AddLength` may read a slot that has a new user. A packet has a length and a kind: TCP, other IP, IP
with a header that cannot be right, not IP. In modes 4 and 5 a worker receives into its slot
(`ReceiveAgain`), from the same socket. The time keeper closes the socket, frees the counters and
joins the workers. Using a freed counter or a slot without a header is `crashed`, not followed further.

**Sort.** Main's loops over the workers (`Fork`, `DividePieces` or `DivideBuckets`, `RaiseFlag`,
`Join`, `MergePieces` or `MergeBuckets`) take one turn per step, with the workers running in between
(`DivideBuckets` one turn of the inner loop, which looks at every element for every worker); a
worker polls its flag, passes the barrier (lock step by lock step, from `MpacBarrier`), sorts its
part (`SortPart`, `PartSorted`) and passes it again. By pieces main sorts the whole once more
(`SortAll`, `AllSorted`). Sorting takes one `Turn` per step: `stack`, and each worker's
`stack_per_thr`, hold the calls of `mpac_quicksort` still to be made, the first one with the indices
of its partition, and a turn is one exchange of the partition, its end (which leaves the two
recursive calls), or a call that returns at once. `NextGreater` and `NextNotGreater` are the
partition's two inner loops.

**Net.** The sender's threads and the receiver's threads with their two mains, and between them the
operating system as far as the programs notice it: descriptor numbers that are given out again once
closed, sockets that are not connected yet, connections that wait for `accept`, buffers that fill (a
write blocks), connections that have ended (a read returns 0 and does not block), datagrams that get
lost, and SIGALRM, which runs in one thread of the system's choice and interrupts it if it is
blocked. `sent`, `lost` and `cut` are history variables. `mpac_io_tcp_open_sender` is two steps,
`OpenSocket` and `Connect`: between them the second `close` of another thread (`CloseAgain`) may
take the socket, which is then never connected. The result of `connect` is ignored, so the thread
goes on to write to whatever its number is by then: nothing, a socket without a connection, or
another thread's connection. The receiver is short of a connection and stays in `accept`, and no
thread of it starts. A receiver thread that asks an ended connection for a message again and again
has no step: that is how spinning shows in `StarvesOnlyAfterMishap`.

**Services.** `FileInput` reads `/proc/cpuinfo` character by character into a line buffer nobody
clears, and a file block by block; a call of the system's `read` may fail or be interrupted, `stat`
and `open` may fail, and the file may grow between the question for its length and its end. Its size
becomes an `int` (`AsInt`, with `IntHalf` for 2^31), so that a large file has a negative length or a
positive one that is too small. What counting leaves is what a thread to be pinned divides by. In
`Clocks` a loop takes any small number of ticks, wherever in a second it begins, so that every
borrow and every lost fraction occurs; results that the code divides are kept undivided. Properties
are stated of the overheads and resolutions (`MeasuresElapsed`); the other functions of `Clocks`
carry none, and where the headers promise something else section 6 says so. In `Statistics` a
program calls any functions in any order on one array; one step is one turn of a loop, so that what
a loop has found so far is state, and `qsort` may leave any ascending rearrangement of what it was
given. Quotients are kept without their divisors. `Services` runs one of these, or `mpac_init`,
which counts the processors and then measures.

**Types.** The type invariants (`TypeOK`, `TTypeOK`, `TMTypeOK`, `STypeOK`) are proved and therefore
in no run. `CellBench`, `Disk`, `Net` and the services have none; what the proofs about them need of
it is part of their inductive invariants (`CellType`, `DiskType`, `TcpType`, `FileType`, `LinesType`,
`ClockType`).

Operators commented "Slip" are deliberate deviations from the code - a dropped guard, an
off-by-one, a missing reset. They are not used by any specification. Each has been substituted for
the definition it follows, and the property named in `PROJECT.json` was then violated: the check on
the checks, showing that the property can fail.

## 3 Runs

| run | bounds | shows |
|---|---|---|
| `barrier` | 4 threads, 3 calls | nobody overtakes, `PhaseBarrier` is implemented, all calls return |
| `barrier_spurious` | 2 threads | *violation*: one spurious wakeup lets a thread pass alone |
| `timing` | 3 threads; 3 phases with worker results, 1 phase with 4 rounds and main's result; Cell: all three functions, data of 0, 2 and 5 with parts of 2 | results are the spans of their phases; on the Cell also that contexts outlive programs and that what is printed is what ran; all is measured |
| `cache_ctc` | 1 to 3 blocks, both bounds 0 to 3 (and rejected ones), up to 1 warm-up and 2 measured iterations, all switches | window, resets, freshness, distances, no mutual wait, `WindowPipe`, termination |
| `thread_manager` | 3 threads, 2 barrier calls, 5 programs; disk: files of 3 bytes and of 1 byte in blocks of 2, files of an earlier run there or not, the disk refusing data at any `fwrite` or `fclose` | `startj`, alone or repeated, with `pthread_create` failing anywhere; both rates are of the file this run has written, except for what the disk refused |
| `thread_manager_end` | 3 threads | *violation*: `end` on threads in the barrier |
| `thread_manager_detach` | 2 threads | *violation*: `startd` frees jobs too early |
| `sniffer_mq` | 1 or 2 workers, queue length 0 to 3, 3 packets, 1 receive error | rings are FIFO queues, slots have one user, counters, traps only on misuse, processing |
| `sniffer_1q` | 2 workers, 1 to 3 slots, modes 3 to 5; 2 packets of 4 kinds, 1 receive error | a slot has one user, the data counter, capture goes on, the program stops in time |
| `services` | every file of up to 5 characters (buffer of 4 cells) and of up to 3 (blocks of 2), larger ones of 4 to 10 characters with ints of -4 to 3, 1 failing or interrupted read, growth by 1; seconds of 2 ticks, loops of 2 rounds, 2 differences; samples of up to 4 numbers from -1 to 2, two calls; counts are bounded by 5 lines, as many as a file of 5 characters can have | processors are counted, files are read whole, overheads and resolutions are of what elapsed, statistics are of the sample, all programs end |
| `sort` | 3 workers, every array of 1 to 4 numbers from 0 to 4, both use cases | main and workers never use a part at once, the result is sorted, the program ends |
| `net` | 3 threads on each side; TCP by count (0, 1, 2 messages each), UDP by count (1, 3); both by time, thread 0 sending once before the alarm and any thread after it; buffers of 1 message; 1,167,128 states, two minutes | how many datagrams are sent, when a counting receiver or its main in `accept` can be left waiting, counting senders end unless a socket was closed before it was connected |

Why the bounds are enough. Three threads are the smallest group with a first, a last and one in
between; the fourth of `barrier` lets two threads of the next round meet two of this one. A barrier
can be one round ahead at most, so three calls show every overlap of two rounds with a round before
or after. A whole block and a rest, and a block longer than the file, are what the disk benchmark
can tell apart; data of no part, one part, and two parts and a bit do the same for the Cell memory
benchmark. In `cache_ctc` bounds and block numbers go past each other in both directions, and two
iterations are needed for a reset to be followed by something; `CacheCtcProofs` does away with the
bounds anyway. In `sniffer_mq` a queue of length 3 split between two workers has rings of 2 and 1
(one of capacity 0), unsplit it has a ring that fills and wraps with three packets; length 0 and 1
are the misuse cases.

In `sort` three workers share 1 to 4 elements: fewer than workers, as many, and a number that is no
multiple of theirs; the values make buckets of equal and unequal filling, empty ones, and a spread
below, at and above a multiple of the number of workers. In `net` the third thread is what a stray
write needs: one that closes twice, one whose connection is cut, and one that opens the number next.
With a buffer of one message, one message each fits without a receiver, and two do not.
A timed thread closes its descriptor once, so no number changes hands while it is in use, and what
one thread sends before the alarm is no other thread's concern.

In `sniffer_1q` three slots for two workers are shared unevenly, one slot is fewer than the workers,
and two packets let a slot be used, handed back and used again while the first is still being
counted; the kinds are all that the code tells apart. In `services` a line is shorter than the
buffer, fills it or does not fit; a file ends within a block or with one, and grows past either;
sizes of 4, 5, 8, 9 and 10 become the ints -4, -3, 0, 1 and 2, as 2 GiB, 4 GiB and a little more do;
a loop may take up to three of the two ticks of a second, so that none, one or two seconds end in
it; four numbers make even and odd samples, and ties.

## 4 Fairness and atomicity

Weak fairness of each thread: the threads are runnable all the time, and the scheduler of a
multi-core machine runs them on. No strong fairness is needed for the mutex, because a thread that
waits for it competes with finitely many acquisitions before the others sleep. Nothing is assumed of
the environment: packets need not come, the time keeper may sleep as long as it likes,
`pthread_create` and `read` may or may not fail. In the sniffers no fairness is assumed of a
`recvfrom` that waits for a packet; in the Cell ports each thread runs on together with its SPE.

Memory is sequentially consistent in the models. The barrier's state is protected by its mutex; the
counters of the cache benchmark and the ring indices are `volatile`, so the compiler keeps their
order, and on the machines the suite is written for (x86) stores are not reordered with stores, nor
loads with loads. Where the code races on plain variables (`ctrl_c`, the packet counters), a step
may use a value that has become old: a worker may claim a packet after `ctrl_c` is set, and the time
keeper reads the counters one at a time in either order.

`apps/sort` polls a flag that is not `volatile`. Its makefiles compile without optimisation, and
then every turn of the loop loads the flag; a compiler that keeps it in a register would turn the
loop into an endless one. The model is of the program as its makefiles build it. The net benchmark,
built with `-O3`, reads its flag and its count through functions of another file, so that each turn
reads them anew.

In `Sniffer1Q` the dispatcher's and the workers' steps are fair as long as they do not wait for the
network, and the time keeper's once it is awake. `CaptureGoesOn` therefore says that somebody is at
the socket again and again, and `StopsInTime` that the process ends once the time is over, in mode 3:
in the other modes a worker that waits in `recvfrom` when the socket is closed may wait for good. In
`Services` every program is sequential and runs on; `ProgramsEnd` exempts the count of processors
after a failed `open`, which does not end. `Disk` and `CellBench` take over the fairness of the
modules they extend: main, each thread, and each SPE.

In `Net` it is assumed only that the two programs do not both stand still while one of their threads,
or the receiver's main in `accept`, can go on; not even that every thread that can go on does, and
nothing of the alarms, which may come at any time, again and again, in either order. It suffices
since a thread that counts cannot go round without its count going down.

## 5 Proofs

TLAPS proves, for every value of the constants (`tlapm` reports no failed obligation):

| theorem | statement |
|---|---|
| `MpacBarrierProofs!TypeCorrect`, `NobodyOvertakes`, `NoSleeperIsLost` | `Spec => []...` for `TypeOK`, `NoOvertaking`, `NoLostSleeper` |
| `MpacBarrierProofs!Refinement` | `Spec => ImplementsPhaseBarrier` |
| `CacheCtcProofs!TypeCorrect`, `LeadIsBounded`, `ResetsAreHandshakes`, `ConsumerReadsFreshBlocks`, `DistancesAreInRange`, `NoDeadlock` | `Spec => []...` for the six invariants of `cache_ctc` |
| `CacheCtcProofs!Refinement` | `Spec => ImplementsWindowPipe` |
| `PhaseTimingProofs!TimingTypeCorrect`, `ResultsAreSpans`, `WorkersWorkTogether` | `TSpec => []...` for `TTypeOK`, `ResultIsPhaseSpan`, `WorksTogether` |
| `PhaseTimingProofs!ContextsOutlivePrograms`, `CellResultsAreSpans`, `ResultsAreLabelled` | `CSpec => []...` for `ContextInUse`, for `ResultIsPhaseSpan` and `WorksTogether` in the Cell ports, and for `PrintedIsWhatRan` |
| `ThreadManagerProofs!HandleTypeCorrect`, `CountIsRight`, `JobsOutliveThreads` | `TMSpec /\ StartjOnly(program) => []...` for `TMTypeOK`, `LiveThreadsComeNext`, `JoinedBeforeFree` |
| `ThreadManagerProofs!LockStaysWhileUsed`, `NoOvertakingInAnyLife` | the same for `LockMadeAnewWhenFree`, and `[](NoOvertaking /\ NoLostSleeper)` |
| `ThreadManagerProofs!RatesAreOfOneFile` | `DSpec => []RatesOfOneFile` |
| `ThreadManagerProofs!DiskHandleIsRight` | `DSpec /\ StartjOnly(program) => [](LiveThreadsComeNext /\ JoinedBeforeFree)` |
| `Sniffer1QProofs!TypeCorrect`, `OneUserAtATime`, `CountIsReceived` | `Spec => []...` for `TypeOK`, `OneUser`, `DataIsReceived` |
| `SnifferMQProofs!TypeCorrect`, `SlotStaysDispatchers`, `TrapsAreMisuse`, `ReportFits` | `Spec => []...` for `TypeOK`, `SlotIsDispatchers`, `TrapsOnlyOnMisuse`, `ReportAddsUp` |
| `SnifferMQProofs!RingsAreQueues` | `Spec => ImplementsPacketQueues` |
| `SortProofs!PartsAreHandedOver`, `DataIsSorted`, `SortTypeCorrect` | `SSpec => []...` for `HandOver`, `Sorted`, `STypeOK` |
| `NetServicesProofs!SentIsBounded`, `StarvingIsMishap` | `NSpec => []...` for `SentInBounds`, `StarvesOnlyAfterMishap` |
| `NetServicesProofs!FileIsCopied`, `ProcessorsAreCounted`, `CallsMeasure`, `StatsAreOfSample` | `VSpec => []...` for `ReadsWholeFile`, `CountsProcessors`, `MeasuresElapsed`, `StatsOfSample` |

*Barrier.* The invariant is about sets of threads: the number of sleepers is the count, only the
owner of the mutex is between `lock` and `unlock`, and every thread has passed the same number of
barriers. The last is what is not obvious: a thread that is through may have locked for the next
round while another has not taken the mutex back yet. `Passed` counts a woken thread's call as done,
so that all values of `Passed` change in one step, the broadcast - which is also the step of
`PhaseBarrier`. The lemmas are about cardinalities of finite sets with one member more or less.
Assumptions: a finite, non-empty set of workers, `NoThread` not among them, and a natural number of
calls.

*Cache.* No iteration number is in shared memory, so the invariant `IInv` says which combinations of
the threads' private iterations and the counters can occur: `SameRound`, `ResetUnderWay` or
`FlagRaised`. That these three are closed under every step is the argument that resets are never
lost. `Window` adds what the polling loops leave true while a kernel runs, and `Produced` what the
producer has written. The only assumption is that options are of the type `parse_cmdl` yields.

*Timing.* The invariant counts barriers, not phases: `NextPhase` and `NextStep` are the barrier a
worker comes to next, where one that is released already counts as behind it. All workers have the
same next barrier (`Together`), because the broadcast moves them all at once, and the two times are
a function of it (`Times`). A worker that owes a result has not come to its next barrier, so the time
it loads is still the one of its phase (`Results`). In the Cell ports the same invariant holds
although threads come and go (`JobInv`): `CellInv` adds that main's phase is that of the threads,
that those it has joined are through, and that a context is destroyed only then. For
`PrintedIsWhatRan`, `RanInv` says what every SPE has done by now: the first kernels of the job's
list (`CpuRan`), or parts that add up to what main has handed out (`MemRan`); an SPE that has stopped
is a phase ahead of the others, and `SpeOrder` says that a thread which has come to the second
barrier is through with its SPE. Assumptions: the
barrier's, and `Calls` large enough for the routine; on the Cell, workers numbered from 0, jobs as
the two command lines allow them, and a buffer of at least one element.

*Thread manager.* `startj` is four operations, `StartjOnly(p)` says that `p` is made of them. What is
inductive is which threads live (`LiveSlots`): while they are being forked those before `i`, while
they are being joined the `num_live_threads` from `i` on, and none at any other time - a fork that
stops halfway leaves the count and the threads in step, so `wait` joins them all. From that follows
that jobs are freed and the lock is made anew only when nobody is left. The barrier's invariant is
taken over unchanged: each life of the handle is one run of it, and a new lock starts the next.
Programs with other operations (`startd`, `end`, `sendsig`) are outside: two of the findings are
about them. Assumptions: slots numbered from 0, programs that are sequences of operations.

*Disk.* The handle's invariant holds here too, up to the step at which a reader without a file calls
`exit` (`Gone`). `FilesInv` follows the program: a writer that is past the barrier has been
through it, so either all writers were created or none has come that far (`AllOrNone`); a writer that
has ended has closed a file that is no longer than its time says, and as long unless the disk
refused data of it (`Writer`, `Filed`). When `wait` has joined them there is
for every number such a file, or no time at all, and that is all the readers of the second life
need: they start at the beginning and read to the end of files that nobody writes any more
(`Reader`). Assumptions: sizes of files and blocks of at least one byte.

*One-queue sniffer.* `MarkTells` ties the plain mark to the place of whoever uses the slot: set as
long as the dispatcher receives, cleared as long as a worker is at work. Two workers never meet since
their slots differ modulo their number (`Shares`, `SharesDisjoint`). The data counter is compared
with what was received at any moment between the two steps (`DataIsReceived` is inductive with
`NoReceiver`, that no worker writes slots in mode 3).

*Multi-queue sniffers.* `RInv` says that indices stay in their rings and that while the dispatcher
has a slot `puti` is not `geti`, the slot at which the worker is; it is closed under every step
without a word about the queue's content. The refinement maps a ring to the sequence of the slots
between `geti` and `puti` (`queues`), its length less one to the capacity (`capacities`), and the
packet at work to the worker's hands (`hands`). Taking from a ring is `Tail` of its sequence,
publishing is `Append`; the lemmas are about remainders and stretches of a ring. `TrapsAreMisuse`
needs what a slot may hold (`FInv`): a slot without a header has not been received into without an
error. `ReportFits` keeps books (`Ledger`): there is a share of the published packets for each
worker that covers what it has counted, has in hand and has queued, and the shares add up to what
the dispatcher's two counters say, one more or less while it is between them. The time keeper reads
the workers' counters before or after they change, but never more than their shares; after it has
set `ctrl_c` the dispatcher counts only the packet under way (`HalfReported`).

*Sort.* Every behaviour of `SSpec` is one of the barrier's `Spec` (`UsesBarrier`), so what is proved
of the barrier holds here without a new proof. `SInv` ties each worker's place to the number of its
barrier calls, and main's place to the flags and to who has ended. A worker that sorts has passed
one barrier and not two; `NoOvertaking` gives the same for all others, so all flags are up and
nobody has ended, which leaves main at its join. `DInv` adds what the data are. `Sorting` is the
invariant of a quicksort that is under way: the calls to be made are for stretches one behind the
other, two elements in the wrong order lie both in one of them, and the partition under way has
nothing greater than the pivot up to `i`, and from `j` on only what is (`Partitioned`). Every turn
keeps it (`TurnKeeps`), the inner loops stay in their stretch (`NextGreaterIs`, `NextNotGreaterIs`),
and with no calls left the array is `InOrder`. That a turn loses nothing is said by a bijection
(`Rearranged`), as is what main does: a part is what it was given, rearranged (`Parts`); buckets are
wide enough together for all values (`BucketsHoldAll`), so each element is in exactly one, and what
has been copied back is what was generated below the next bucket (`Merged`, `Below`), in order, as
the buckets are; pieces go back to where they came from. So nothing had to be proved of a recursive
function: the recursion is in the state, and the induction is that over steps. Assumptions: the
barrier's, workers numbered from 0, two calls each, and at least one value between 0 and 32767, as
`parse_cmdl` makes sure.

*Net.* Let A be the set of UDP threads that have found the count above zero and have not decremented
it since. The count minus |A| never falls below 1 minus the number of threads (`CountInv`): a test
that succeeds makes A one larger, but needs a count of 1; a decrement makes both one smaller. Since
what was sent is what the count has lost, plus those who have sent and not decremented, the surplus
is less than the number of threads. For the receivers that count, `TcpInv` balances each connection:
what is on the way and what its sender has yet to write is at least what is yet to be received, as
long as nobody has cut it, and exactly that as long as no connection was cut at all. A socket that
its own thread connects is a connection of the thread's own: what is connected stands in one of the
two queues, once (`Established`), and as long as nobody else has closed it a thread's number is its
socket (`Descriptors`). A second close before the connect makes it one that was cut. So before the
first cut nobody writes to a receiver that is gone (`NobodyWritesInVain`), and SIGPIPE takes a cut;
and since a number that is closed for the second time is another thread's only if it cuts that
thread's connection, a stray write can only add to the balance. A receiver starts when as many
connections are accepted as there are threads, and then each thread has one (`EveryThreadAccepted`,
by the pigeon-hole principle). If fewer are accepted and none is to come, there is a thread without
one (`ThreadNotAccepted`, by the same), which is past its connect, so its socket was cut before. By
time no descriptor is closed twice (`TimedInv`): a thread's number stays its socket, it is
connected, and main gets all connections. By UDP, `UdpInv` says that main has had or will get what
was sent, unless a datagram was lost. The proof changed the property: in an earlier form it did not
allow for a sender that SIGPIPE ends while another thread's receiver waits, which takes a fourth
thread, and the run has three. Assumptions: at least one thread and one message, as `parse_cmdl`
makes sure.

*Services.* `ReadInv`: what has been copied is what stands before the offset, and the length is the
size of the file as an int unless it has grown. An int is what the conversion makes of any number,
and of one that it can hold it makes the same (`AsIntIsInt`), for every width. `LinesInv`: if lines
fit and none is cut short, then while a line is read the buffer holds what stands between the last
line end and the offset, with whatever is left of longer lines behind it (`LineBegun`); once it is
read, there is a NUL at its end, so that `strstr` sees that line and nothing of an earlier one
(`LineRead`). The count is the number of ends, up to there, of lines that name a processor
(`ProcessorEnds`), which the last line makes all. That a line begins where the one before has ended
is an argument about the least place of a kind (`LeastOf`). `ClockInv`: a stamp is a number of ticks
(`Ticks`), and with or without a borrowed second the difference of two stamps is that of their ticks
(`SinceIsDifference`); each difference in whole seconds loses less than a second (`Summed`).
Assumptions: a buffer of at least two cells and blocks of at least one byte (`BufferAssumption`),
natural numbers for clocks, loops and bounds (`ClockAssumption`, `EnvironmentAssumption`), texts
without NUL characters and samples of integers (`JobsAssumption`), and a bound on the count no less
than the longest text (`CountAssumption`), so that the bound is never met.

*Statistics.* `StatInv`: the array is a rearrangement of the sample at every moment, every loop knows
about the elements before `at` what its function is to know of all (`LoopsRun`), and what was
returned is right for the sample (`OfSample`). A rearrangement by one bijection after another is one
by a single one (`RearrangedTwice`); it has the same numbers as often (`RearrangedCount`) and the
same sums (`PermutedSums`). The last is the deep one, since a sum is a recursive function: the
library's induction theorems take an operator as a parameter and cannot be used, so the proof looks
at the least length at which two rearranged sequences have different sums, takes the last element
from both, with one exchange, and has a shorter pair (`SumsDiffer`, `PermutesFewer`,
`PermutedOneMore`, `LeastOf`). `AddDistance` adds up the n-fold distances from the mean, as the code
does; that these squares make the mean of the squares less the square of the mean is `VarFound`. For
the median, the element at a place of an ascending array is the one that `KthLeast` names
(`KthInOrder`): what is less stands before it, what is not greater up to it at least. For the mode,
`ModeOf` says that the run under way is all there is of its number so far, and that the mode so far
is the least of the most frequent; an element that is not equal to the one before it is a number
that has not been there, because the array is in order (`ModeGoesOn`). No bound on the sample is
needed; the numbers are integers, where the code has doubles, and what rounding does is not said.

*Only model-checked.* Liveness (`AllReturn`, `Terminates`, `AllMeasured`, `StartjReturns`,
`QueuedIsProcessed`, `CaptureGoesOn`, `StopsInTime`, `Ends`, `CountingSendersEnd`, `ProgramsEnd`):
reasoning about `ENABLED` and fairness is out of the prover's reach. `NoMutualWait` is the safety
half of termination and is proved. All invariants and action properties of the runs that pass are
proved, and all three refinements.

## 6 Findings

1. `barrier_spurious`: the wait in the barrier is not in a loop.
2. `thread_manager_end`: `end` cannot kill more than one thread that waits in the barrier.
3. `thread_manager_detach`: `startd` frees what its detached threads have yet to read.

Each is stated with its lines in `PROJECT.json`. TLC's counterexamples are the shortest ones.

Places where a comment or a usage text says more than the code does, seen while modelling; the
models follow the code, and the properties state what is left:

* the usage of cache calls the bounds "positive integer" (`benchmarks/cache/mpac_cache_ctc.c:325`),
  but accepted bounds with a lower one above the upper one stop both threads (exempted in
  `NoMutualWait` and `Terminates`);
* the usage of net calls `-d` the "Test duration" (`benchmarks/net/mpac_net.c:58`), but a timed TCP
  receiver whose connection has ended never looks at its flag again, and a timed UDP receiver may be
  left alone when main gets the alarm;
* `mpac_time_wctime` is to give "the CPU time (in seconds)" of a function
  (`common/mpac_time.h:12-13`), but takes the difference of two times of the day in whole seconds
  (`common/mpac_time.c:150-152`); the model has it so, and no property is about it;
* `mpac_time_frt_gtd` and `mpac_time_frt_rtc` measure "the running time of a function"
  (`common/mpac_time.h:15-19`), but subtract the fractions of a second alone, which is wrong, even
  negative, across the end of a second, and divide both parts by a million as integers, so that the
  first gives 0 for anything short (`common/mpac_time.c:218-219`, `235-236`); no property is about
  them;
* `adiff` is "in microseconds" (`common/mpac_resolution.h:19`), or "in nanoseconds" (line 26), but
  is a mean of differences that a `long` cuts to whole seconds (`common/mpac_resolution.c:57-58`);
  `MeasuresElapsed` states what that leaves, less than a second for each difference;
* `mpac_io_file_length` "returns the size of a file in bytes" (`common/mpac_io_file.c:66`), but as an
  `int`: a file of 4 GiB and 100 bytes has the length 100, and the buffer made for it is overrun;
* the read of a file is made "equal to the passed lenght" (`common/mpac_io_file.c:95`), but goes on
  behind it when the file grows, or when its size is more than the length says (`ReadsWholeFile`
  exempts a size that no int holds);
* the disk benchmark is to "create a file of size specified by user"
  (`benchmarks/disk/mpac_disk_bm_wt.c:46-49`), but writes whole blocks only, while the rate is
  computed from the size that was asked for, also when the disk is full (`RatesOfOneFile` claims
  only an upper bound for a file of which data was refused);
* in net the second `close` of a descriptor (`benchmarks/net/mpac_net_tcpsender.c:86`) may leave the
  receiver in `accept` and two senders in a full connection for ever (exempted in
  `CountingSendersEnd` as `Unmade`, and named in `StarvesOnlyAfterMishap`);
* the case `'s'` of cpu divides by six times where its routine measures three
  (`benchmarks/cpu/mpac_cpu_bm.c:153`).

## 7 What is not modelled

Command line parsing other than the checks that bound the models; printing; the arithmetic that is
timed, and the unrolled kernels of cache and compute; failing `malloc` (the callers crash);
`sniffer_MQ` after its time keeper has freed the memory of running threads, and the SIGINT clean-ups
of the sniffers and of net (undefined behaviour with no outcome to choose from); standard deviation
and confidence interval (roots and tables of real numbers); the disk benchmark's arrays that are too
small for the text of a thread's number or for more than 20 or 30 threads; name look-ups and socket
options, and socket calls other than those `Net` and the sniffers use. Reasons per component are in
`PROJECT.json`.

Hazards that are known and that no property covers: a SIGINT during net frees the contexts of
running threads; quicksort looks at one element behind its part; `startj` goes
on after an `init` that failed; `sendsig` counts live threads down, so that a `wait` behind it joins
fewer (the run `thread_manager` executes such a program; no property is stated about its end).

## 8 What is left

Models: a receiver of `Net` that is not up yet, and SIGINT at the moments at which nothing
has been freed; the averages that cache prints. Proofs: nothing of what the runs check, except
liveness.
