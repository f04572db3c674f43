----------------------------- MODULE Statistics -----------------------------
(***************************************************************************)
(* common/mpac_stats.c: functions of an array of numbers.  median and mode *)
(* sort the caller's array where it stands, so what later calls see        *)
(* depends on the calls before them.  A program calls MaxCalls of them, in *)
(* any order.  One step is one turn of a loop.  The data are integers; a   *)
(* quotient is kept without its divisor: mean as n times, median as twice, *)
(* var as n^3 times its value.                                             *)
(***************************************************************************)
EXTENDS Integers, SequencesExt

CONSTANT MaxCalls

ASSUME CallsAssumption == MaxCalls \in Nat

VARIABLES
  made,        \* "off" or the number of calls made
  sample,      \* the data the program began with
  data,        \* what the array holds now
  function, returned,
  loop,        \* the loop that runs, or "none"
  at,          \* its a: the elements before it are done with
  sum, mean, \* of mean and var
  best,        \* the min, max or mode so far
  current, cfreq, freq

sums == <<sum, mean>>
runs == <<current, cfreq, freq>>
locals == <<at, sums, best, runs>>
svars == <<made, sample, data, function, returned, loop, locals>>

n == Len(data)
next == data[at + 1]

SInit(start, numbers) ==
  /\ made = start /\ sample = numbers /\ data = numbers
  /\ function = "none" /\ returned = 0 /\ loop = "none" /\ at = 0
  /\ sum = 0 /\ mean = 0 /\ best = 0 /\ current = 0 /\ cfreq = 1 /\ freq = 1

Failure == -1

(* qsort with mpac_stats_cmp: a rearrangement in ascending order.          *)
Rearrangements(s) == {[j \in DOMAIN s |-> s[p[j]]] : p \in Bijection(DOMAIN s, DOMAIN s)}
InOrder(s) == \A j, k \in DOMAIN s : j < k => s[j] <= s[k]
qsort == data' \in {s \in Rearrangements(data) : InOrder(s)}

-----------------------------------------------------------------------------
(* The calls; n < 1 is a failure, of every function.                       *)
Call(f) ==
  /\ loop = "none" /\ made \in 0 .. MaxCalls - 1
  /\ made' = made + 1 /\ function' = f /\ UNCHANGED sample

Fail == n < 1 /\ returned' = Failure /\ UNCHANGED <<data, loop, locals>>

Loop(l, a) == n >= 1 /\ loop' = l /\ at' = a

(* var calls mean before it looks at the distances from it.                *)
Adds(f) ==
  /\ Call(f)
  /\ \/ Fail
     \/ Loop("mean", 0) /\ sum' = 0 /\ UNCHANGED <<data, returned, mean, best, runs>>

Seeks(f) ==
  /\ Call(f)
  /\ \/ Fail
     \/ Loop(f, 1) /\ best' = data[1] /\ UNCHANGED <<data, returned, sums, runs>>

mpac_stats_mean == Adds("mean")
mpac_stats_var == Adds("var")
mpac_stats_min == Seeks("min")
mpac_stats_max == Seeks("max")

(* C indices: the a-th of the array, from 0.                               *)
Median(s) ==
  LET c(a) == s[a + 1]
      half == Len(s) \div 2
  IN IF Len(s) % 2 = 1 THEN 2 * c(half) ELSE c(half - 1) + c(half)

mpac_stats_median ==
  /\ Call("median")
  /\ \/ Fail
     \/ n >= 1 /\ qsort /\ returned' = Median(data') /\ UNCHANGED <<loop, locals>>

mpac_stats_mode ==
  /\ Call("mode")
  /\ \/ Fail
     \/ /\ Loop("mode", 1) /\ qsort
        /\ best' = data'[1] /\ current' = data'[1] /\ cfreq' = 1 /\ freq' = 1
        /\ UNCHANGED <<returned, sums>>

-----------------------------------------------------------------------------
(* The turns of the loops, and what comes after them.                      *)
Turn(l) ==
  /\ loop = l /\ at < n /\ at' = at + 1
  /\ UNCHANGED <<made, sample, data, function, returned, loop>>

LoopEnds(l) == loop = l /\ at >= n /\ UNCHANGED <<made, sample, data, function>>

AddNext == Turn("mean") /\ sum' = sum + next /\ UNCHANGED <<mean, best, runs>>

AddDistance ==
  /\ Turn("var")
  /\ sum' = sum + (n * next - mean) * (n * next - mean)
  /\ UNCHANGED <<mean, best, runs>>

Pick(l, better) ==
  /\ Turn(l) /\ best' = IF better THEN next ELSE best
  /\ UNCHANGED <<sums, runs>>

(* The frequency starts at 1 for the first number and counts from 0 again  *)
(* at every other one; only a greater frequency makes a new mode.          *)
(* (Slip: a run as long as the longest takes its place.)                   *)
LongerRunOrEqual(f, longest) == f >= longest
LongerRun(f, longest) == f > longest

CountNext ==
  /\ Turn("mode")
  /\ current' = next /\ cfreq' = IF next # current THEN 1 ELSE cfreq + 1
  /\ IF LongerRun(cfreq', freq)
       THEN best' = next /\ freq' = cfreq'
       ELSE UNCHANGED <<best, freq>>
  /\ UNCHANGED sums

MeanOfVar ==
  /\ LoopEnds("mean") /\ function = "var"
  /\ mean' = sum /\ Loop("var", 0) /\ sum' = 0
  /\ UNCHANGED <<returned, best, runs>>

ResultReturns ==
  /\ \E l \in {"mean", "var", "min", "max", "mode"} : LoopEnds(l) /\ function = l
  /\ returned' = IF function \in {"mean", "var"} THEN sum ELSE best
  /\ loop' = "none" /\ UNCHANGED locals

SNext ==
  \/ mpac_stats_mean \/ mpac_stats_var \/ mpac_stats_min \/ mpac_stats_max
  \/ mpac_stats_median \/ mpac_stats_mode
  \/ AddNext \/ AddDistance \/ MeanOfVar \/ CountNext \/ ResultReturns
  \/ Pick("min", next < best) \/ Pick("max", next > best)

-----------------------------------------------------------------------------
Sum(s) ==
  LET upto[k \in 0 .. Len(s)] == IF k = 0 THEN 0 ELSE upto[k - 1] + s[k]
  IN upto[Len(s)]

(* How often x is in the sample.                                           *)
Frequency(x) == Cardinality({a \in DOMAIN sample : sample[a] = x})

KthLeast(j) ==
  CHOOSE x \in Range(sample) :
    /\ Cardinality({a \in DOMAIN sample : sample[a] < x}) < j
    /\ Cardinality({a \in DOMAIN sample : sample[a] <= x}) >= j

(* Whatever was called before, and whatever it did to the array, a         *)
(* function returns what its name says of the data the program began with: *)
(* the mode is the least of the most frequent numbers, the median the mean *)
(* of the middle two, and the variance the mean of the squares less the    *)
(* square of the mean; and the array still holds the same numbers.         *)
StatsOfSample ==
  LET Number == Range(sample)
      k == Len(sample)
      squares == Sum([a \in DOMAIN sample |-> sample[a] * sample[a]])
      Returned(f) == function = f /\ loop = "none"
  IN
  /\ Len(data) = k
  /\ \A x \in Number : Frequency(x) = Cardinality({a \in DOMAIN data : data[a] = x})
  /\ (function # "none" /\ k = 0 => returned = Failure)
  /\ k > 0 =>
       /\ (Returned("mean") => returned = Sum(sample))
       /\ (Returned("min") => returned \in Number /\ \A x \in Number : returned <= x)
       /\ (Returned("max") => returned \in Number /\ \A x \in Number : returned >= x)
       /\ (Returned("var") => returned = k * (k * squares - Sum(sample) * Sum(sample)))
       /\ (Returned("median") =>
             returned = KthLeast((k + 1) \div 2) + KthLeast(k \div 2 + 1))
       /\ (Returned("mode") =>
             /\ returned \in Number
             /\ \A x \in Number : Frequency(x) <= Frequency(returned)
             /\ \A x \in Number : Frequency(x) = Frequency(returned) => returned <= x)
=============================================================================
