------------------------------- MODULE Clocks -------------------------------
(***************************************************************************)
(* common/mpac_time.c and common/mpac_resolution.c: what the suite         *)
(* measures about the clock itself and about a function.                   *)
(*                                                                         *)
(* The clock counts ticks, Second of them to a second; a time stamp is a   *)
(* number of seconds and a fraction, timeval or timespec.  A loop takes    *)
(* 0 .. MaxLap ticks.  A loop of Loops rounds stands for the ones of a     *)
(* million; a result is kept for all rounds together, or, where the code   *)
(* compares or combines results, in units of 1/Loops tick.                 *)
(***************************************************************************)
EXTENDS Integers, Sequences

CONSTANTS Second, Loops, MaxLap, Diffs

ASSUME ClockAssumption ==
  Second \in Nat \ {0} /\ Loops \in Nat \ {0} /\ MaxLap \in Nat /\ Diffs \in Nat \ {0}

Calls == {"overhead_gtd", "overhead_rtc", "swrtc", "loop_overhead", "clock_gtd", "clock_rtc",
          "resolution_gtd", "resolution_rtc", "frt_gtd", "frt_rtc", "wctime"}

VARIABLES
  todo,        \* the calls of this run that are left
  mpc,         \* where the call at its head is
  now,         \* the clock
  start,       \* the stamp that the call measures from
  over,        \* time_overhead of mpac_resolution_clock_*, or tt1
  done,        \* differences found, or rounds of the search
  total,       \* of the differences
  result,      \* of each call
  elapsed,     \* what the clock really counted since start was read
  last         \* the call that has just returned

mvars == <<todo, mpc, now, start, over, done, total, result, elapsed, last>>

Stamp(t) == [sec |-> t \div Second, frac |-> t % Second]

(* Division of C integers.                                                 *)
Quot(a, b) == IF a >= 0 THEN a \div b ELSE -((-a) \div b)

(* (Slip: the second that was borrowed is not taken off.)                  *)
SinceUnpaid(s, e) ==
  LET f == IF e.frac < s.frac THEN e.frac + Second ELSE e.frac
  IN (e.sec - s.sec) * Second + (f - s.frac)

(* overhead_*: borrow a second when the fraction is the smaller one.       *)
Since(s, e) ==
  LET b == IF e.frac < s.frac THEN [sec |-> e.sec - 1, frac |-> e.frac + Second] ELSE e
  IN (b.sec - s.sec) * Second + (b.frac - s.frac)

(* resolution_*: a difference of doubles that is stored in a long.         *)
WholeSeconds(s, e) == Quot((e.sec - s.sec) * Second + (e.frac - s.frac), Second)

MInit(calls) ==
  /\ todo = calls /\ mpc = "call" /\ now \in 0 .. Second - 1
  /\ start = Stamp(0) /\ over = 0 /\ done = 0 /\ total = 0 /\ elapsed = 0 /\ last = "none"
  /\ result = [c \in Calls |-> 0]

At(c, p) == todo # <<>> /\ Head(todo) = c /\ mpc = p

(* Time goes on by d ticks.                                                *)
Lap(d) == now' = now + d /\ elapsed' = elapsed + d

Return(c, r) ==
  /\ result' = [result EXCEPT ![c] = r]
  /\ todo' = Tail(todo) /\ mpc' = "call" /\ last' = c

(* Only differences matter: now is counted from the second a call began.   *)
Begin(p) ==
  /\ now' = now % Second /\ start' = Stamp(now')
  /\ elapsed' = 0 /\ last' = "none" /\ mpc' = p

-----------------------------------------------------------------------------
(* mpac_time_overhead_gtd and _rtc: a loop of calls between two stamps.    *)
Overhead(c) ==
  \/ At(c, "call") /\ Begin("loop") /\ UNCHANGED <<todo, over, done, total, result>>
  \/ /\ At(c, "loop")
     /\ \E d \in 0 .. MaxLap : Lap(d) /\ Return(c, Since(start, Stamp(now + d)))
     /\ UNCHANGED <<start, over, done, total>>

overhead_gtd == Overhead("overhead_gtd")
overhead_rtc == Overhead("overhead_rtc")

(* mpac_resolution_swrtc: the mean of a number that clock_getres repeats.  *)
swrtc ==
  /\ At("swrtc", "call") /\ elapsed' = 0 /\ Return("swrtc", 1)
  /\ UNCHANGED <<now, start, over, done, total>>

(* mpac_time_loop_overhead: one operation, a sleep, then two.              *)
loop_overhead ==
  \/ At("loop_overhead", "call") /\ Begin("one") /\ UNCHANGED <<todo, over, done, total, result>>
  \/ /\ At("loop_overhead", "one") /\ \E d \in 0 .. MaxLap : now' = now + d + Second /\ over' = d
     /\ start' = Stamp(now') /\ elapsed' = 0 /\ mpc' = "two"
     /\ UNCHANGED <<todo, done, total, result, last>>
  \/ /\ At("loop_overhead", "two")
     /\ \E d \in 0 .. MaxLap :
          Lap(d) /\ Return("loop_overhead", 2 * over - Since(start, Stamp(now + d)))
     /\ over' = 0 /\ UNCHANGED <<start, done, total>>

(* The search of mpac_resolution_clock_* goes on.                          *)
TooShort(d) == d * Loops - over < 0

(* mpac_resolution_clock_*: first the overhead, then loops of twice the    *)
(* length until one is not shorter; done rounds take done ticks at least.  *)
Search(c) ==
  \/ At(c, "call") /\ Begin("overhead") /\ done' = 0 /\ UNCHANGED <<todo, over, total, result>>
  \/ /\ At(c, "overhead")
     /\ \E d \in 0 .. MaxLap : now' = now + d /\ over' = Since(start, Stamp(now + d))
     /\ start' = Stamp(now') /\ elapsed' = 0 /\ mpc' = "search"
     /\ UNCHANGED <<todo, done, total, result, last>>
  \/ /\ At(c, "search")
     /\ \E d \in done .. MaxLap :
          /\ now' = now + d
          /\ IF TooShort(d)
             THEN start' = Stamp(now') /\ elapsed' = 0 /\ done' = done + 1
                  /\ UNCHANGED <<todo, mpc, result, last>>
             ELSE Return(c, d) /\ elapsed' = d /\ done' = 0 /\ UNCHANGED start
     /\ UNCHANGED <<over, total>>

clock_gtd == Search("clock_gtd")
clock_rtc == Search("clock_rtc")

(* mpac_resolution_gtd and _rtc: Diffs differences, each from the one      *)
(* before; one that is 0 as a long is measured again, from the same start. *)
(* (A reading of the same tick changes nothing but the number of calls.)   *)
Resolution(c) ==
  \/ At(c, "call") /\ Begin("diffs") /\ done' = 0 /\ total' = 0 /\ UNCHANGED <<todo, over, result>>
  \/ /\ At(c, "diffs")
     /\ \E d \in 1 .. MaxLap :
          LET diff == WholeSeconds(start, Stamp(now + d)) IN
            /\ Lap(d)
            /\ IF diff > 0
               THEN /\ done' = done + 1 /\ total' = total + diff /\ start' = Stamp(now + d)
                    /\ IF done' < Diffs THEN UNCHANGED <<todo, mpc, result, last>>
                                        ELSE Return(c, total')
               ELSE UNCHANGED <<todo, mpc, done, total, start, result, last>>
     /\ UNCHANGED over

resolution_gtd == Resolution("resolution_gtd")
resolution_rtc == Resolution("resolution_rtc")

(* mpac_time_frt_*: seconds and fraction are each divided by a million and *)
(* never borrowed.  The seconds come to 0; what is left of the fraction is *)
(* the result: nothing of microseconds, thousandths of nanoseconds.        *)
Frt(c, unit) ==
  \/ At(c, "call") /\ Begin("loop") /\ UNCHANGED <<todo, over, done, total, result>>
  \/ /\ At(c, "loop")
     /\ \E d \in 0 .. MaxLap :
          Lap(d) /\ Return(c, Quot((Stamp(now + d).frac - start.frac) * unit, Second))
     /\ UNCHANGED <<start, over, done, total>>

frt_gtd == Frt("frt_gtd", 1)
frt_rtc == Frt("frt_rtc", 1000)

(* mpac_time_wctime: the difference of whole seconds.                      *)
wctime ==
  \/ At("wctime", "call") /\ Begin("run") /\ UNCHANGED <<todo, over, done, total, result>>
  \/ /\ At("wctime", "run")
     /\ \E d \in 0 .. MaxLap : Lap(d) /\ Return("wctime", Stamp(now + d).sec - start.sec)
     /\ UNCHANGED <<start, over, done, total>>

MNext ==
  \/ overhead_gtd \/ overhead_rtc \/ swrtc \/ loop_overhead \/ clock_gtd \/ clock_rtc
  \/ resolution_gtd \/ resolution_rtc \/ frt_gtd \/ frt_rtc \/ wctime

-----------------------------------------------------------------------------
(* The overheads of the two clocks, which mpac_init uses, are exact,       *)
(* wherever in a second the loop began and ended, although the code        *)
(* subtracts seconds and fraction apart.  The two resolutions are means of *)
(* whole seconds, where the header promises micro- and nanoseconds: of     *)
(* what the clock really counted over their differences they miss less     *)
(* than a second each, and never claim more.                               *)
MeasuresElapsed ==
  /\ (last \in {"overhead_gtd", "overhead_rtc"} => result[last] = elapsed)
  /\ (last \in {"resolution_gtd", "resolution_rtc"} =>
        /\ result[last] * Second <= elapsed
        /\ elapsed < (result[last] + Diffs) * Second)
=============================================================================
