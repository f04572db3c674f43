-------------------------------- MODULE Sort --------------------------------
(***************************************************************************)
(* The sorting application, apps/sort: main forks its workers, generates   *)
(* the data, hands each worker a part of it by raising a flag the worker   *)
(* polls, joins the workers, which sort their parts between two barriers,  *)
(* and puts the parts together again.  With use case 'q' the parts are     *)
(* consecutive pieces and main sorts the whole again; with 'b' they are    *)
(* buckets of values, and the concatenation is the result.                 *)
(*                                                                         *)
(* Workers are numbered from 0.  The parameters of a run are its threads   *)
(* (Worker), its use case and its data; times are left out, and so is a    *)
(* pthread_create that fails (see ThreadManager).                          *)
(***************************************************************************)
EXTENDS MpacBarrier, Sequences, SequencesExt

CONSTANTS
  Arrays,     (* what the data may be: the array sizes and values of a run  *)
  UseCases    (* 'b' or 'q'                                                 *)

num_thrs == Cardinality(Worker)

Value == 0 .. 32767

(* parse_cmdl keeps the limits of the data between 0 and 32767, and the    *)
(* array size at 1 or more, but a size given before the number of threads  *)
(* need not be a multiple of it.                                           *)
ASSUME SortAssumption ==
  /\ Worker = 0 .. num_thrs - 1
  /\ Calls = 2
  /\ UseCases \subseteq {"b", "q"}
  /\ Arrays \subseteq Seq(Value) \ {<<>>}

-----------------------------------------------------------------------------
(* mpac_quicksort on a[l] .. a[r], indices from 1 as in all sequences here.*)

(* The two inner loops of mpac_partition: the next element from i upwards  *)
(* that is greater than the pivot a[l], or r + 1 (where the code reads an  *)
(* element behind the part before it finds that i > r: any value stops     *)
(* it); and the next one from j downwards that is not.                     *)
NextGreater(a, l, r, i) ==
  CHOOSE k \in i + 1 .. r + 1 :
    /\ k = r + 1 \/ a[k] > a[l]
    /\ \A m \in i + 1 .. k - 1 : a[m] <= a[l]

NextNotGreater(a, l, j) ==
  CHOOSE k \in l .. j - 1 :
    /\ a[k] <= a[l]
    /\ \A m \in k + 1 .. j - 1 : a[m] > a[l]

Swapped(a, i, j) == [a EXCEPT ![i] = a[j], ![j] = a[i]]

(* A call of mpac_quicksort, with the indices of its partition.            *)
CallType == [l : Nat, r : Nat, i : Nat, j : Nat]

Call(l, r) == [l |-> l, r |-> r, i |-> l, j |-> r + 1]

(* What a thread that sorts a has still to do are the calls st, the first  *)
(* of them under way.  One turn: the call returns at once, or its          *)
(* partition swaps two elements and goes on, or it has come to its end,    *)
(* puts the pivot in its place, and the two recursive calls are left.      *)
Turn(a, st) ==
  LET c == Head(st)
      i == NextGreater(a, c.l, c.r, c.i)
      j == NextNotGreater(a, c.l, c.j)
  IN IF c.l >= c.r THEN [a |-> a, st |-> Tail(st)]
     ELSE IF i >= j
       THEN [a |-> Swapped(a, c.l, j),
             st |-> <<Call(c.l, j - 1), Call(j + 1, c.r)>> \o Tail(st)]
       ELSE [a |-> Swapped(a, i, j),
             st |-> <<[c EXCEPT !.i = i, !.j = j]>> \o Tail(st)]

mpac_quicksort(a) == <<Call(1, Len(a))>>

-----------------------------------------------------------------------------
(* How main divides the data.                                              *)

(* 'q': consecutive pieces; what is left over is in none of them.          *)
PieceLen(data) == Len(data) \div num_thrs
Piece(data, w) == SubSeq(data, w * PieceLen(data) + 1, (w + 1) * PieceLen(data))

(* 'b': buckets of equal width from the least value on, as many as there   *)
(* are workers, wide enough to hold the greatest value.                    *)
Least(data) == CHOOSE x \in Range(data) : \A y \in Range(data) : x <= y
Greatest(data) == CHOOSE x \in Range(data) : \A y \in Range(data) : x >= y

(* (Slip: the width is not rounded up.)                                    *)
WidthRoundedDown(data) == (Greatest(data) - Least(data) + 1) \div num_thrs

BucketWidth(data) ==
  LET diff == Greatest(data) - Least(data) + 1
      rem == diff % num_thrs
  IN (IF rem # 0 THEN diff - rem + num_thrs ELSE diff) \div num_thrs

IsIn(x, data, w) ==
  /\ x >= Least(data) + BucketWidth(data) * w
  /\ x < Least(data) + BucketWidth(data) * (w + 1)

-----------------------------------------------------------------------------
VARIABLES
  given, app_uc,    \* what was generated; the use case
  data_array,       \* main's array
  stack,            \* main's calls of mpac_quicksort
  mpc, i, j, k,     \* where main is, and the loop variables
  array_per_thr,    \* each worker's part
  stack_per_thr,    \* each worker's calls of mpac_quicksort
  flag,             \* 1: the part is there
  wpc               \* where each worker is in mpac_sort_app_bs

barrier == <<lck, pc, calls>>
main == <<mpc, i, j, k, stack>>
worker == <<stack_per_thr, wpc>>
svars == <<barrier, given, app_uc, data_array, main, array_per_thr, flag, worker>>

SInit ==
  /\ Init /\ nworker = num_thrs    \* thread_manager_init has made the lock
  /\ given \in Arrays /\ app_uc \in UseCases
  /\ data_array = given
  /\ mpc = "fork" /\ i = 0 /\ j = 0 /\ k = 0 /\ stack = <<>>
  /\ array_per_thr = [w \in Worker |-> <<>>]
  /\ stack_per_thr = [w \in Worker |-> <<>>]
  /\ flag = [w \in Worker |-> 0]
  /\ wpc = [w \in Worker |-> "none"]

(* The loops over the workers.                                             *)
Advance(from, to) ==
  /\ mpc = from
  /\ IF i + 1 < num_thrs THEN i' = i + 1 /\ UNCHANGED mpc
                         ELSE i' = 0 /\ mpc' = to

(* The workers are started before there is any data.                       *)
Fork ==
  /\ Advance("fork", "divide")
  /\ wpc' = [wpc EXCEPT ![i] = "poll"]
  /\ UNCHANGED <<barrier, given, app_uc, data_array, j, k, stack,
                 array_per_thr, stack_per_thr, flag>>

DividePieces ==
  /\ app_uc = "q" /\ Advance("divide", "raise")
  /\ array_per_thr' = [array_per_thr EXCEPT ![i] = Piece(data_array, i)]
  /\ UNCHANGED <<barrier, given, app_uc, data_array, j, k, stack, flag, worker>>

(* For each worker all elements are looked at.                             *)
DivideBuckets ==
  /\ app_uc = "b" /\ mpc = "divide"
  /\ IF j + 1 < Len(data_array) THEN j' = j + 1 /\ UNCHANGED <<mpc, i>>
                                ELSE j' = 0 /\ Advance("divide", "raise")
  /\ array_per_thr' = [array_per_thr EXCEPT ![i] =
       IF IsIn(data_array[j + 1], data_array, i) THEN Append(@, data_array[j + 1]) ELSE @]
  /\ UNCHANGED <<barrier, given, app_uc, data_array, k, stack, flag, worker>>

(* (Slip: a worker with nothing to sort is not told.)                      *)
RaiseFlagIfAny ==
  /\ Advance("raise", "join")
  /\ flag' = [flag EXCEPT ![i] = IF array_per_thr[i] = <<>> THEN 0 ELSE 1]
  /\ UNCHANGED <<barrier, given, app_uc, data_array, j, k, stack, array_per_thr, worker>>

RaiseFlag ==
  /\ Advance("raise", "join")
  /\ flag' = [flag EXCEPT ![i] = 1]
  /\ UNCHANGED <<barrier, given, app_uc, data_array, j, k, stack, array_per_thr, worker>>

Join ==
  /\ Advance("join", "merge")
  /\ wpc[i] = "exited"
  /\ UNCHANGED <<barrier, given, app_uc, data_array, j, k, stack, array_per_thr, flag, worker>>

(* Part w is copied back to where it came from, or behind the parts before *)
(* it, which are k elements.                                               *)
CopiedBack(w, from) ==
  [p \in DOMAIN data_array |->
     IF p \in from + 1 .. from + Len(array_per_thr[w]) THEN array_per_thr[w][p - from]
                                                       ELSE data_array[p]]

MergePieces ==
  /\ app_uc = "q" /\ Advance("merge", "sort")
  /\ data_array' = CopiedBack(i, i * PieceLen(data_array))
  /\ stack' = IF mpc' = "sort" THEN mpac_quicksort(data_array) ELSE stack
  /\ UNCHANGED <<barrier, given, app_uc, j, k, array_per_thr, flag, worker>>

MergeBuckets ==
  /\ app_uc = "b" /\ Advance("merge", "done")
  /\ data_array' = CopiedBack(i, k)
  /\ k' = k + Len(array_per_thr[i])
  /\ UNCHANGED <<barrier, given, app_uc, j, stack, array_per_thr, flag, worker>>

SortAll ==
  /\ mpc = "sort" /\ stack # <<>>
  /\ LET t == Turn(data_array, stack) IN data_array' = t.a /\ stack' = t.st
  /\ UNCHANGED <<barrier, given, app_uc, mpc, i, j, k, array_per_thr, flag, worker>>

AllSorted ==
  /\ mpc = "sort" /\ stack = <<>>
  /\ mpc' = "done"
  /\ UNCHANGED <<barrier, given, app_uc, data_array, i, j, k, stack, array_per_thr, flag, worker>>

Main ==
  \/ Fork \/ DividePieces \/ DivideBuckets \/ RaiseFlag \/ Join
  \/ MergePieces \/ MergeBuckets \/ SortAll \/ AllSorted

-----------------------------------------------------------------------------
(* A worker: poll the flag, barrier, sort, barrier.                        *)

mainvars == <<given, app_uc, data_array, main, flag>>

(* (Slip: it does not poll.)                                               *)
StartsAtOnce(w) ==
  /\ wpc[w] = "poll"
  /\ wpc' = [wpc EXCEPT ![w] = "barrier"]
  /\ UNCHANGED <<barrier, mainvars, array_per_thr, stack_per_thr>>

SeesFlag(w) ==
  /\ wpc[w] = "poll" /\ flag[w] # 0
  /\ wpc' = [wpc EXCEPT ![w] = "barrier"]
  /\ UNCHANGED <<barrier, mainvars, array_per_thr, stack_per_thr>>

(* One of the two calls of the barrier, from Lock to Unlock.               *)
InBarrier(w) ==
  /\ wpc[w] = "barrier"
  /\ \/ Lock(w) \/ ArriveAndWait(w) \/ ArriveLast(w) \/ Broadcast(w) \/ Wake(w)
  /\ UNCHANGED <<mainvars, array_per_thr, worker>>

BeginToSort(w) ==
  /\ wpc[w] = "barrier" /\ calls[w] = 0
  /\ Unlock(w)
  /\ wpc' = [wpc EXCEPT ![w] = "sort"]
  /\ stack_per_thr' = [stack_per_thr EXCEPT ![w] = mpac_quicksort(array_per_thr[w])]
  /\ UNCHANGED <<mainvars, array_per_thr>>

SortPart(w) ==
  /\ wpc[w] = "sort" /\ stack_per_thr[w] # <<>>
  /\ LET t == Turn(array_per_thr[w], stack_per_thr[w]) IN
       /\ array_per_thr' = [array_per_thr EXCEPT ![w] = t.a]
       /\ stack_per_thr' = [stack_per_thr EXCEPT ![w] = t.st]
  /\ UNCHANGED <<barrier, mainvars, wpc>>

PartSorted(w) ==
  /\ wpc[w] = "sort" /\ stack_per_thr[w] = <<>>
  /\ wpc' = [wpc EXCEPT ![w] = "barrier"]
  /\ UNCHANGED <<barrier, mainvars, array_per_thr, stack_per_thr>>

Exit(w) ==
  /\ wpc[w] = "barrier" /\ calls[w] > 0
  /\ Unlock(w)
  /\ wpc' = [wpc EXCEPT ![w] = "exited"]
  /\ UNCHANGED <<mainvars, array_per_thr, stack_per_thr>>

mpac_sort_app_bs(w) ==
  SeesFlag(w) \/ InBarrier(w) \/ BeginToSort(w) \/ SortPart(w) \/ PartSorted(w) \/ Exit(w)

Over == mpc = "done" /\ UNCHANGED svars

SNext == Over \/ Main \/ \E w \in Worker : mpac_sort_app_bs(w)

SSpec == SInit /\ [][SNext]_svars
SFairSpec == /\ SSpec
             /\ WF_svars(Main)
             /\ \A w \in Worker : WF_svars(mpac_sort_app_bs(w))

-----------------------------------------------------------------------------
STypeOK ==
  /\ TypeOK
  /\ given \in Arrays /\ app_uc \in UseCases
  /\ mpc \in {"fork", "divide", "raise", "join", "merge", "sort", "done"}
  /\ i \in Worker /\ j \in Nat /\ k \in Nat
  /\ data_array \in Seq(Nat) /\ stack \in Seq(CallType)
  /\ array_per_thr \in [Worker -> Seq(Nat)]
  /\ stack_per_thr \in [Worker -> Seq(CallType)]
  /\ flag \in [Worker -> {0, 1}]
  /\ wpc \in [Worker -> {"none", "poll", "barrier", "sort", "exited"}]

(* Main and a worker never use a part at the same time, though all that    *)
(* keeps them apart is a flag per worker and a join: while a worker sorts, *)
(* every part has been handed over and main waits for the workers; while   *)
(* main divides or merges, nobody sorts.  And as the barrier is there for, *)
(* nobody begins to sort before every worker has its part.                 *)
HandOver ==
  \A w \in Worker : wpc[w] = "sort" =>
    \A v \in Worker :
      /\ flag[v] = 1 /\ wpc[v] \in {"barrier", "sort"}
      /\ mpc = "join"

(* The program sorts: what is left in data_array is what was generated, in *)
(* order, whatever the number of workers is to the number of elements and  *)
(* to the spread of the values.                                            *)
Sorted ==
  mpc = "done" =>
    /\ \A m \in 1 .. Len(data_array) - 1 : data_array[m] <= data_array[m + 1]
    /\ \A x \in Range(given) \cup Range(data_array) :
         Cardinality({m \in DOMAIN data_array : data_array[m] = x})
           = Cardinality({m \in DOMAIN given : given[m] = x})

(* The program comes to its end.                                           *)
Ends == <>(mpc = "done")
=============================================================================
