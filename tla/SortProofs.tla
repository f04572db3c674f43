----------------------------- MODULE SortProofs -----------------------------
(***************************************************************************)
(* What apps/sort promises, proved for every number of workers and all     *)
(* data: main and the workers keep apart, from what MpacBarrierProofs has  *)
(* proved of the barrier; and the array is sorted in the end, because each *)
(* turn of mpac_quicksort keeps an invariant, the parts are together what  *)
(* was generated, and the buckets are in order.                            *)
(***************************************************************************)
EXTENDS Sort, MpacBarrierProofs, SequenceTheorems, FunctionTheorems, WellFoundedInduction

-----------------------------------------------------------------------------
(* One turn of mpac_quicksort.  What the inner loops find is the least     *)
(* place of a kind, and there is one in every non-empty set of places.     *)
LEMMA LeastOf ==
  ASSUME NEW T \in SUBSET Nat, T # {}
  PROVE  \E x \in T : \A y \in T : x <= y
<1>1. PICK x \in T : \A y \in T : <<y, x>> \notin OpToRel(<, Nat)
  BY NatLessThanWellFounded, WFMin
<1>2. \A y \in T : ~(y < x)
  BY <1>1 DEF OpToRel
<1>3. QED
  BY <1>2

(* The inner loops find what they look for.                                *)
LEMMA NextGreaterIs ==
  ASSUME NEW n \in Nat, NEW a \in [1 .. n -> Nat], NEW l \in 1 .. n, NEW r \in 1 .. n,
         NEW x \in l .. r
  PROVE  LET y == NextGreater(a, l, r, x) IN
         /\ y \in x + 1 .. r + 1
         /\ y = r + 1 \/ a[y] > a[l]
         /\ \A m \in x + 1 .. y - 1 : a[m] <= a[l]
<1> DEFINE T == {y \in x + 1 .. r + 1 : y = r + 1 \/ a[y] > a[l]}
<1>1. T \in SUBSET Nat /\ r + 1 \in T
  OBVIOUS
<1>2. PICK y \in T : \A z \in T : y <= z
  <2> HIDE DEF T
  <2>1. QED
    BY <1>1, LeastOf
<1>3. /\ y \in x + 1 .. r + 1
      /\ y = r + 1 \/ a[y] > a[l]
      /\ \A m \in x + 1 .. y - 1 : a[m] <= a[l]
  <2>1. ASSUME NEW m \in x + 1 .. y - 1 PROVE a[m] <= a[l]
    <3>1. m \in x + 1 .. r + 1 /\ m \notin T /\ m \in 1 .. n
      BY <1>2
    <3>2. a[m] \in Nat /\ a[l] \in Nat
      BY <3>1
    <3>3. QED
      BY <3>1, <3>2
  <2>2. QED
    BY <1>2, <2>1
<1> HIDE DEF T
<1>4. QED
  BY <1>3 DEF NextGreater

(* The pivot stops the search from above.                                  *)
LEMMA NextNotGreaterIs ==
  ASSUME NEW n \in Nat, NEW a \in [1 .. n -> Nat], NEW l \in 1 .. n, NEW x \in l + 1 .. n + 1
  PROVE  LET y == NextNotGreater(a, l, x) IN
         /\ y \in l .. x - 1
         /\ a[y] <= a[l]
         /\ \A m \in y + 1 .. x - 1 : a[m] > a[l]
<1> DEFINE T == {d \in 0 .. x - 1 - l : a[x - 1 - d] <= a[l]}
<1>1. T \in SUBSET Nat /\ x - 1 - l \in T
  <2>1. x - 1 - (x - 1 - l) = l /\ a[l] <= a[l]
    OBVIOUS
  <2>2. QED
    BY <2>1
<1>2. PICK d \in T : \A z \in T : d <= z
  <2> HIDE DEF T
  <2>1. QED
    BY <1>1, LeastOf
<1>3. PICK y \in l .. x - 1 : y = x - 1 - d /\ a[y] <= a[l]
  BY <1>2
<1>4. \A m \in y + 1 .. x - 1 : a[m] > a[l]
  <2> TAKE m \in y + 1 .. x - 1
  <2>1. PICK e \in 0 .. x - 1 - l : e = x - 1 - m /\ e < d /\ m = x - 1 - e
    BY <1>2, <1>3
  <2>2. ~(a[x - 1 - e] <= a[l])
    <3>1. d \in Nat /\ e \in Nat /\ ~(d <= e)
      BY <2>1
    <3>2. e \notin T
      BY <1>2, <3>1
    <3>3. QED
      BY <3>2
  <2>3. m \in 1 .. n /\ a[m] \in Nat /\ a[l] \in Nat
    BY <1>3
  <2>4. QED
    BY <2>1, <2>2, <2>3
<1> HIDE DEF T
<1>5. QED
  BY <1>3, <1>4 DEF NextNotGreater

-----------------------------------------------------------------------------
(* A call of a[l] .. a[r] has before i what is not greater than the pivot, *)
(* and from j on what is.                                                  *)
Partitioned(a, n, c) ==
  /\ c.l >= 1 /\ c.l <= n + 1 /\ c.r <= n
  /\ c.l < c.r =>
       /\ c.i \in c.l .. c.r /\ c.j \in c.l + 1 .. c.r + 1 /\ c.i < c.j
       /\ \A m \in c.l + 1 .. c.i : a[m] <= a[c.l]
       /\ \A m \in c.j .. c.r : a[m] > a[c.l]

(* The calls are about parts of the array one behind the other, and        *)
(* elements in the wrong order are in the same part.                       *)
Apart(st) == \A x \in 1 .. Len(st), y \in 1 .. Len(st) : x < y => st[x].r < st[y].l

OneCall(st, p, q) == \E x \in 1 .. Len(st) : st[x].l <= p /\ q <= st[x].r

Sorting(a, st) ==
  /\ a \in Seq(Nat) /\ st \in Seq(CallType)
  /\ \A x \in 1 .. Len(st) : Partitioned(a, Len(a), st[x])
  /\ Apart(st)
  /\ \A p \in 1 .. Len(a), q \in 1 .. Len(a) :
       p < q /\ a[p] > a[q] => OneCall(st, p, q)

InOrder(a) == \A p \in 1 .. Len(a), q \in 1 .. Len(a) : p < q => a[p] <= a[q]

(* What a call of mpac_quicksort is when it begins.                        *)
LEMMA CallIs ==
  ASSUME NEW l \in Nat, NEW r \in Nat
  PROVE  /\ Call(l, r) \in CallType
         /\ Call(l, r).l = l /\ Call(l, r).r = r /\ Call(l, r).i = l /\ Call(l, r).j = r + 1
BY DEF Call, CallType

(* A call finds nothing partitioned when it begins,                         *)
LEMMA NewCall ==
  ASSUME NEW n \in Nat, NEW b, NEW l \in Nat, NEW r \in Nat, l >= 1, l <= n + 1, r <= n
  PROVE  Partitioned(b, n, Call(l, r))
<1> DEFINE c == Call(l, r)
<1>1. c.l = l /\ c.r = r /\ c.i = l /\ c.j = r + 1
  BY CallIs
<1> HIDE DEF c
<1>2. (\A m \in l + 1 .. l : b[m] <= b[l]) /\ (\A m \in r + 1 .. r : b[m] > b[l])
  OBVIOUS
<1>3. Partitioned(b, n, c)
  BY <1>1, <1>2 DEF Partitioned
<1>4. QED
  BY <1>3 DEF c

(* ... and the sorting has its invariant then.                             *)
LEMMA SortingBegins ==
  ASSUME NEW a \in Seq(Nat)
  PROVE  Sorting(a, mpac_quicksort(a))
<1>1. Len(a) \in Nat
  BY LenProperties
<1> DEFINE c == Call(1, Len(a))
<1>2. c \in CallType /\ c.l = 1 /\ c.r = Len(a)
  BY <1>1, CallIs
<1>3. mpac_quicksort(a) = <<c>> /\ Partitioned(a, Len(a), c)
  <2>1. 1 \in Nat /\ 1 >= 1 /\ 1 <= Len(a) + 1 /\ Len(a) <= Len(a)
    BY <1>1
  <2>2. QED
    BY <1>1, <2>1, NewCall DEF mpac_quicksort
<1> HIDE DEF c
<1>4. <<c>> \in Seq(CallType) /\ Len(<<c>>) = 1 /\ <<c>>[1] = c
  BY <1>2
<1>6. Apart(<<c>>)
  BY <1>4 DEF Apart
<1>7. \A p \in 1 .. Len(a), q \in 1 .. Len(a) : OneCall(<<c>>, p, q)
  BY <1>1, <1>2, <1>4 DEF OneCall
<1>8. QED
  BY <1>3, <1>4, <1>6, <1>7 DEF Sorting

(* With no calls left the array is in order.                               *)
LEMMA SortingEnds ==
  ASSUME NEW a, Sorting(a, <<>>)
  PROVE  InOrder(a)
<1>1. a \in Seq(Nat) /\ Len(<<>>) = 0
  BY DEF Sorting
<1>2. \A p, q : ~OneCall(<<>>, p, q)
  BY <1>1 DEF OneCall
<1>3. \A p \in 1 .. Len(a) : a[p] \in Nat
  BY <1>1
<1>4. QED
  BY <1>2, <1>3, SMTT(30) DEF Sorting, InOrder

-----------------------------------------------------------------------------
(* What an exchange leaves where.                                          *)
LEMMA SwapIs ==
  ASSUME NEW a \in Seq(Nat), NEW x \in 1 .. Len(a), NEW y \in 1 .. Len(a)
  PROVE  /\ Swapped(a, x, y) \in Seq(Nat) /\ Len(Swapped(a, x, y)) = Len(a)
         /\ Swapped(a, x, y)[x] = a[y] /\ Swapped(a, x, y)[y] = a[x]
         /\ \A m \in 1 .. Len(a) : m # x /\ m # y => Swapped(a, x, y)[m] = a[m]
<1>1. Len(a) \in Nat /\ a \in [1 .. Len(a) -> Nat] /\ DOMAIN a = 1 .. Len(a)
  BY LenProperties
<1> DEFINE b == [a EXCEPT ![x] = a[y]]
<1>2. /\ b \in Seq(Nat) /\ Len(b) = Len(a)
      /\ \A m \in 1 .. Len(a) : b[m] = IF m = x THEN a[y] ELSE a[m]
  <2>1. a[y] \in Nat
    BY <1>1
  <2>2. QED
    BY <2>1, ExceptSeq
<1> HIDE DEF b
<1>3. /\ [b EXCEPT ![y] = a[x]] \in Seq(Nat) /\ Len([b EXCEPT ![y] = a[x]]) = Len(a)
      /\ \A m \in 1 .. Len(a) : [b EXCEPT ![y] = a[x]][m] = IF m = y THEN a[x] ELSE b[m]
  <2>1. a[x] \in Nat
    BY <1>1
  <2>2. QED
    BY <1>2, <2>1, ExceptSeq
<1>4. Swapped(a, x, y) = [b EXCEPT ![y] = a[x]]
  BY DEF Swapped, b
<1>5. QED
  BY <1>2, <1>3, <1>4

(* The calls left over are for stretches of the array.                     *)
LEMMA SortingType ==
  ASSUME NEW a, NEW st, Sorting(a, st)
  PROVE  /\ a \in Seq(Nat) /\ Len(a) \in Nat /\ a \in [1 .. Len(a) -> Nat]
         /\ \A m \in 1 .. Len(a) : a[m] \in Nat
         /\ st \in Seq(CallType) /\ Len(st) \in Nat
         /\ \A z \in 1 .. Len(st) :
              /\ st[z] \in CallType
              /\ st[z].l \in Nat /\ st[z].r \in Nat /\ st[z].i \in Nat /\ st[z].j \in Nat
              /\ st[z].l >= 1 /\ st[z].l <= Len(a) + 1 /\ st[z].r <= Len(a)
<1>1. a \in Seq(Nat) /\ st \in Seq(CallType) /\ \A z \in 1 .. Len(st) : Partitioned(a, Len(a), st[z])
  BY DEF Sorting
<1>2. \A z \in 1 .. Len(st) : st[z] \in CallType
  BY <1>1, ElementOfSeq
<1>3. QED
  BY <1>1, <1>2, LenProperties DEF CallType, Partitioned

(* What is in a stretch of the array is in the array.                      *)
LEMMA Within ==
  ASSUME NEW l \in Nat, NEW r \in Nat, NEW n \in Nat, l >= 1, r <= n, NEW x \in l .. r
  PROVE  x \in 1 .. n
OBVIOUS

(* Exchanging two elements of the first call's part puts no others in the  *)
(* wrong order.                                                            *)
LEMMA Outside ==
  ASSUME NEW a, NEW st, Sorting(a, st), Len(st) >= 1,
         NEW x \in st[1].l .. st[1].r, NEW y \in st[1].l .. st[1].r,
         NEW p \in 1 .. Len(a), NEW q \in 1 .. Len(a), p < q,
         Swapped(a, x, y)[p] > Swapped(a, x, y)[q], ~(st[1].l <= p /\ q <= st[1].r)
  PROVE  \E z \in 2 .. Len(st) : st[z].l <= p /\ q <= st[z].r
<1> DEFINE b == Swapped(a, x, y)
           l == st[1].l
           r == st[1].r
<1>1. /\ l \in Nat /\ r \in Nat /\ l >= 1 /\ r <= Len(a) /\ Len(a) \in Nat /\ a \in Seq(Nat)
      /\ Len(st) \in Nat /\ \A m \in 1 .. Len(a) : a[m] \in Nat
      /\ \A z \in 1 .. Len(st) : st[z].l \in Nat /\ st[z].r \in Nat
  <2> HIDE DEF l, r
  <2>1. /\ Len(a) \in Nat /\ a \in Seq(Nat) /\ Len(st) \in Nat
        /\ \A m \in 1 .. Len(a) : a[m] \in Nat
        /\ \A z \in 1 .. Len(st) : /\ st[z].l \in Nat /\ st[z].r \in Nat
                                  /\ st[z].l >= 1 /\ st[z].r <= Len(a)
    BY SortingType
  <2>2. 1 \in 1 .. Len(st)
    BY <2>1
  <2>3. QED
    BY <2>1, <2>2 DEF l, r
<1> HIDE DEF l, r
<1>2. x \in l .. r /\ y \in l .. r /\ ~(l <= p /\ q <= r) /\ b[p] > b[q]
  BY DEF l, r
<1>3. x \in 1 .. Len(a) /\ y \in 1 .. Len(a)
  <2>1. l \in Nat /\ r \in Nat /\ Len(a) \in Nat /\ l >= 1 /\ r <= Len(a)
    BY <1>1
  <2> HIDE DEF b
  <2>2. QED
    BY <1>2, <2>1, Within
<1>4. /\ b[x] = a[y] /\ b[y] = a[x]
      /\ \A m \in 1 .. Len(a) : m # x /\ m # y => b[m] = a[m]
  BY <1>1, <1>3, SwapIs
<1> HIDE DEF b
<1>5. PICK s \in 1 .. Len(a), t \in 1 .. Len(a) :
        /\ b[p] = a[s] /\ b[q] = a[t]
        /\ p = s \/ (p \in l .. r /\ s \in l .. r)
        /\ q = t \/ (q \in l .. r /\ t \in l .. r)
  <2>1. \E s \in 1 .. Len(a) : b[p] = a[s] /\ (p = s \/ (p \in l .. r /\ s \in l .. r))
    BY <1>2, <1>3, <1>4
  <2>2. \E t \in 1 .. Len(a) : b[q] = a[t] /\ (q = t \/ (q \in l .. r /\ t \in l .. r))
    BY <1>2, <1>3, <1>4
  <2>3. QED
    BY <2>1, <2>2
<1>6. s < t /\ ~(l <= s /\ t <= r)
  <2>1. \A u, v, e, f, g, h \in Int :
          /\ u < v /\ ~(g <= u /\ v <= h)
          /\ u = e \/ (g <= u /\ u <= h /\ g <= e /\ e <= h)
          /\ v = f \/ (g <= v /\ v <= h /\ g <= f /\ f <= h)
          => e < f /\ ~(g <= e /\ f <= h)
    BY SMTT(30)
  <2>2. p \in Int /\ q \in Int /\ s \in Int /\ t \in Int /\ l \in Int /\ r \in Int
    BY <1>1
  <2>3. /\ p = s \/ (l <= p /\ p <= r /\ l <= s /\ s <= r)
        /\ q = t \/ (l <= q /\ q <= r /\ l <= t /\ t <= r)
    BY <1>1, <1>5
  <2>4. p < q /\ ~(l <= p /\ q <= r)
    BY <1>2
  <2>5. QED
    BY <2>1, <2>2, <2>3, <2>4
<1>7. PICK z \in 1 .. Len(st) : st[z].l <= s /\ t <= st[z].r
  <2>1. a[s] > a[t]
    BY <1>2, <1>5
  <2>2. OneCall(st, s, t)
    BY <1>6, <2>1 DEF Sorting
  <2>3. QED
    BY <2>2 DEF OneCall
<1>8. z \in 2 .. Len(st)
  <2>1. z # 1
    BY <1>6, <1>7 DEF l, r
  <2>2. QED
    BY <1>1, <2>1
<1>9. r < st[z].l /\ st[z].l \in Nat
  <2>1. 1 \in 1 .. Len(st) /\ z \in 1 .. Len(st) /\ 1 < z
    BY <1>1, <1>8
  <2>2. st[1].r < st[z].l
    BY <2>1 DEF Sorting, Apart
  <2>3. QED
    BY <1>1, <2>1, <2>2 DEF r
<1>10. s = p /\ t = q
  <2>1. s > r
    <3>1. \A u \in Nat, v \in Nat, e \in Nat : u < v /\ v <= e => e > u
      OBVIOUS
    <3>2. s \in Nat
      OBVIOUS
    <3>3. QED
      BY <1>1, <1>7, <1>9, <3>1, <3>2
  <2>2. t > r
    BY <1>1, <1>6, <2>1
  <2>3. s \notin l .. r /\ t \notin l .. r
    BY <1>1, <2>1, <2>2
  <2>4. QED
    BY <1>5, <2>3
<1>11. QED
  BY <1>7, <1>8, <1>10

(* A call looks at its own stretch only.                                   *)
LEMMA PartitionedAsBefore ==
  ASSUME NEW n \in Nat, NEW a, NEW b, NEW c \in CallType, Partitioned(a, n, c),
         \A m \in c.l .. c.r : b[m] = a[m]
  PROVE  Partitioned(b, n, c)
<1>1. c.l \in Nat /\ c.r \in Nat /\ c.i \in Nat /\ c.j \in Nat
  BY DEF CallType
<1>2. CASE c.l < c.r
  <2>1. /\ c.i \in c.l .. c.r /\ c.j \in c.l + 1 .. c.r + 1
        /\ \A m \in c.l + 1 .. c.i : a[m] <= a[c.l]
        /\ \A m \in c.j .. c.r : a[m] > a[c.l]
    BY <1>2 DEF Partitioned
  <2>2. b[c.l] = a[c.l]
    BY <1>1, <1>2
  <2>3. \A m \in c.l + 1 .. c.i : m \in c.l .. c.r
    BY <1>1, <2>1
  <2>4. \A m \in c.j .. c.r : m \in c.l .. c.r
    BY <1>1, <2>1
  <2>5. \A m \in c.l + 1 .. c.i : b[m] <= b[c.l]
    BY <2>1, <2>2, <2>3
  <2>6. \A m \in c.j .. c.r : b[m] > b[c.l]
    BY <2>1, <2>2, <2>4
  <2>7. QED
    BY <1>2, <2>5, <2>6 DEF Partitioned
<1>3. CASE ~(c.l < c.r)
  BY <1>3 DEF Partitioned
<1>4. QED
  BY <1>2, <1>3

LEMMA IntervalBehind ==
  ASSUME NEW l \in Nat, NEW r \in Nat, NEW p \in Nat, NEW q \in Nat, NEW n \in Nat,
         r < p, q <= n, NEW m \in p .. q
  PROVE  m \in 1 .. n /\ m \notin l .. r
OBVIOUS

(* An exchange within the first call's part is nothing to the other calls. *)
LEMMA OtherCalls ==
  ASSUME NEW a, NEW st, Sorting(a, st), Len(st) >= 1,
         NEW x \in st[1].l .. st[1].r, NEW y \in st[1].l .. st[1].r, NEW z \in 2 .. Len(st)
  PROVE  /\ Partitioned(Swapped(a, x, y), Len(a), st[z]) /\ st[1].r < st[z].l
<1> DEFINE b == Swapped(a, x, y)
           l == st[1].l
           r == st[1].r
           c == st[z]
<1>1. /\ l \in Nat /\ r \in Nat /\ l >= 1 /\ r <= Len(a) /\ Len(a) \in Nat /\ a \in Seq(Nat)
      /\ Len(st) \in Nat
      /\ c.l \in Nat /\ c.r \in Nat /\ c.i \in Nat /\ c.j \in Nat /\ c.l <= Len(a) + 1 /\ c.r <= Len(a)
  BY SortingType, SMTT(30)
<1>2. r < c.l /\ Partitioned(a, Len(a), c)
  BY <1>1 DEF Sorting, Apart
<1> HIDE DEF l, r, c
<1>3. x \in l .. r /\ y \in l .. r
  BY DEF l, r
<1>4. \A m \in 1 .. Len(a) : m # x /\ m # y => b[m] = a[m]
  <2>1. x \in 1 .. Len(a) /\ y \in 1 .. Len(a)
    BY <1>1, <1>3, Within
  <2>2. QED
    BY <1>1, <2>1, SwapIs
<1> HIDE DEF b
<1>5. \A m \in c.l .. c.r : b[m] = a[m]
  <2>1. \A m \in c.l .. c.r : m \in 1 .. Len(a) /\ m # x /\ m # y
    <3>1. \A m \in c.l .. c.r : m \in 1 .. Len(a) /\ m \notin l .. r
      <4>1. /\ c.l \in Nat /\ c.r \in Nat /\ l \in Nat /\ r \in Nat /\ Len(a) \in Nat
            /\ r < c.l /\ c.r <= Len(a)
        BY <1>1, <1>2
      <4>2. QED
        BY <4>1, IntervalBehind, SMTT(30)
    <3>2. QED
      BY <1>3, <3>1
  <2>2. QED
    BY <1>4, <2>1
<1>6. Partitioned(b, Len(a), c)
  <2>1. c \in CallType
    BY SortingType DEF c
  <2>2. QED
    BY <1>1, <1>2, <1>5, <2>1, PartitionedAsBefore
<1>7. QED
  BY <1>2, <1>6 DEF b, c, r

(* A call that returns at once leaves the others.                          *)
LEMMA CallReturns ==
  ASSUME NEW a, NEW st, Sorting(a, st), st # <<>>, st[1].l >= st[1].r
  PROVE  Sorting(a, Tail(st))
<1>1. Tail(st) \in Seq(CallType) /\ Len(Tail(st)) = Len(st) - 1 /\ Len(st) \in Nat
      /\ \A z \in 1 .. Len(Tail(st)) : Tail(st)[z] = st[z + 1]
  BY SortingType, HeadTailProperties
<1>2. Apart(Tail(st))
  BY <1>1 DEF Sorting, Apart
<1>3. \A z \in 1 .. Len(Tail(st)) : Partitioned(a, Len(a), Tail(st)[z])
  BY <1>1 DEF Sorting
<1>4. ASSUME NEW p \in 1 .. Len(a), NEW q \in 1 .. Len(a), p < q, a[p] > a[q]
      PROVE  OneCall(Tail(st), p, q)
  <2>1. PICK z \in 1 .. Len(st) : st[z].l <= p /\ q <= st[z].r
    BY <1>4 DEF Sorting, OneCall
  <2>2. z # 1
    BY <1>4, <2>1, SortingType, SMTT(30)
  <2>3. PICK y \in 1 .. Len(Tail(st)) : z = y + 1
    BY <1>1, <2>1, <2>2
  <2>4. QED
    BY <1>1, <2>1, <2>3 DEF OneCall
<1>5. QED
  BY <1>1, <1>2, <1>3, <1>4 DEF Sorting

(* What the inner loops of c's partition have found: x from below, and y   *)
(* from above.                                                             *)
Found(a, c, x, y) ==
  /\ x \in c.i + 1 .. c.r + 1 /\ (x = c.r + 1 \/ a[x] > a[c.l])
  /\ y \in c.l .. c.j - 1 /\ a[y] <= a[c.l]
  /\ \A m \in c.i + 1 .. x - 1 : a[m] <= a[c.l]
  /\ \A m \in y + 1 .. c.j - 1 : a[m] > a[c.l]

(* A turn of the partition exchanges two elements, and keeps on its sides  *)
(* what belongs there.                                                     *)
LEMMA PartitionGoesOn ==
  ASSUME NEW a, NEW st, Sorting(a, st), Len(st) >= 1,
         NEW c \in CallType, c = st[1], c.l < c.r, NEW x, NEW y, Found(a, c, x, y), x < y
  PROVE  Sorting(Swapped(a, x, y), [st EXCEPT ![1] = [c EXCEPT !.i = x, !.j = y]])
<1> DEFINE b == Swapped(a, x, y)
           d == [c EXCEPT !.i = x, !.j = y]
           n == Len(a)
           l == c.l
           r == c.r
           i0 == c.i
           j0 == c.j
           su == [st EXCEPT ![1] = d]
<1>1. /\ n \in Nat /\ a \in Seq(Nat) /\ (\A m \in 1 .. n : a[m] \in Nat)
      /\ st \in Seq(CallType) /\ Len(st) \in Nat
  BY SortingType
<1>2. /\ l \in Nat /\ r \in Nat /\ i0 \in Nat /\ j0 \in Nat
  BY DEF CallType
<1>3. Partitioned(a, n, c)
  BY <1>1 DEF Sorting
<1>4. /\ l >= 1 /\ r <= n /\ l < r /\ i0 \in l .. r /\ j0 \in l + 1 .. r + 1
      /\ \A m \in l + 1 .. i0 : a[m] <= a[l]
      /\ \A m \in j0 .. r : a[m] > a[l]
  BY <1>3 DEF Partitioned
<1>5. /\ x \in i0 + 1 .. r /\ y \in l + 1 .. j0 - 1
      /\ \A m \in i0 + 1 .. x - 1 : a[m] <= a[l]
      /\ \A m \in y + 1 .. j0 - 1 : a[m] > a[l]
      /\ a[x] > a[l] /\ a[y] <= a[l]
  <2> HIDE DEF l, r, i0, j0
  <2>1. /\ x \in i0 + 1 .. r + 1 /\ (x = r + 1 \/ a[x] > a[l])
        /\ y \in l .. j0 - 1 /\ a[y] <= a[l]
        /\ \A m \in i0 + 1 .. x - 1 : a[m] <= a[l]
        /\ \A m \in y + 1 .. j0 - 1 : a[m] > a[l]
    BY DEF Found, l, r, i0, j0
  <2>2. /\ l \in Int /\ r \in Int /\ i0 \in Int /\ j0 \in Int /\ x \in Int /\ y \in Int
        /\ l <= i0 /\ j0 <= r + 1 /\ i0 + 1 <= x /\ y <= j0 - 1 /\ x < y
    BY <1>2, <1>4, <2>1
  <2>3. x # r + 1 /\ x \in i0 + 1 .. r /\ y \in l + 1 .. j0 - 1
    BY <2>2
  <2>4. QED
    BY <2>1, <2>3
<1>6. d \in CallType /\ d.l = l /\ d.r = r /\ d.i = x /\ d.j = y
  <2>1. x \in Nat /\ y \in Nat
    BY <1>2, <1>4, <1>5, SMTT(30)
  <2>2. QED
    BY <2>1 DEF CallType
<1>7. l = st[1].l /\ r = st[1].r
  OBVIOUS
<1> HIDE DEF d, n, l, r, i0, j0
<1>8. x \in l + 1 .. r /\ y \in l + 1 .. r /\ x \in 1 .. n /\ y \in 1 .. n /\ l \in 1 .. n
  <2>1. /\ l \in Int /\ r \in Int /\ n \in Int /\ i0 \in Int /\ j0 \in Int /\ x \in Int /\ y \in Int
        /\ 1 <= l /\ l <= i0 /\ i0 + 1 <= x /\ x <= r /\ r <= n
        /\ l + 1 <= y /\ y <= j0 - 1 /\ j0 <= r + 1
    BY <1>1, <1>2, <1>4, <1>5
  <2>2. QED
    BY <2>1
<1>9. /\ b \in Seq(Nat) /\ Len(b) = n /\ b[x] = a[y] /\ b[y] = a[x]
      /\ \A m \in 1 .. n : m # x /\ m # y => b[m] = a[m]
  BY <1>1, <1>8, SwapIs DEF n
<1>10. b[l] = a[l]
  <2>1. l # x /\ l # y
    BY <1>2, <1>4, <1>8
  <2>2. QED
    BY <1>8, <1>9, <2>1
<1>11. su \in Seq(CallType) /\ Len(su) = Len(st) /\ su[1] = d
      /\ \A z \in 2 .. Len(st) : su[z] = st[z]
  BY <1>1, <1>6, ExceptSeq
<1> HIDE DEF b, su
<1>12. Partitioned(b, n, d)
  <2>1. \A m \in l + 1 .. x : b[m] <= b[l]
    <3> TAKE m \in l + 1 .. x
    <3>1. m \in 1 .. n /\ m \in Nat
      <4>1. /\ l \in Int /\ r \in Int /\ n \in Int /\ x \in Int /\ y \in Int
            /\ 1 <= l /\ l <= x /\ l <= y /\ x <= r /\ r <= n
        BY <1>1, <1>2, <1>4, <1>8, SMTT(30)
      <4>2. QED
        BY <4>1
    <3>2. m # x => a[m] <= a[l]
      BY <1>2, <1>4, <1>5
    <3>3. m # x => b[m] = a[m]
      <4>1. m # y
        BY <1>2, <1>8, <3>1
      <4>2. QED
        BY <1>9, <3>1, <4>1
    <3>4. QED
      BY <1>5, <1>9, <1>10, <3>2, <3>3
  <2>2. \A m \in y .. r : b[m] > b[l]
    <3> TAKE m \in y .. r
    <3>1. m \in 1 .. n /\ m \in Nat
      <4>1. /\ l \in Int /\ r \in Int /\ n \in Int /\ x \in Int /\ y \in Int
            /\ 1 <= l /\ l <= x /\ l <= y /\ x <= r /\ r <= n
        BY <1>1, <1>2, <1>4, <1>8, SMTT(30)
      <4>2. QED
        BY <4>1
    <3>2. m # y => a[m] > a[l]
      BY <1>2, <1>4, <1>5
    <3>3. m # y => b[m] = a[m]
      <4>1. m # x
        <5>1. x \in Int /\ y \in Int /\ m \in Int /\ x < y /\ y <= m
          BY <1>2, <1>8, <3>1
        <5>2. QED
          BY <5>1
      <4>2. QED
        BY <1>9, <3>1, <4>1
    <3>4. QED
      BY <1>5, <1>9, <1>10, <3>2, <3>3
  <2>3. QED
    BY <1>1, <1>2, <1>4, <1>6, <1>8, <2>1, <2>2, SMTT(30) DEF Partitioned
<1>13. x \in st[1].l .. st[1].r /\ y \in st[1].l .. st[1].r
  BY <1>2, <1>7, <1>8
<1>14. ASSUME NEW z \in 1 .. Len(su) PROVE Partitioned(b, n, su[z])
  <2>1. CASE z = 1
    BY <1>11, <1>12, <2>1
  <2>2. CASE z \in 2 .. Len(st)
    <3>1. Partitioned(b, n, st[z])
      BY <1>13, <2>2, OtherCalls DEF b, n
    <3>2. QED
      BY <1>11, <2>2, <3>1
  <2>3. QED
    BY <1>1, <1>11, <2>1, <2>2
<1>15. \A z \in 1 .. Len(su) : su[z].l = st[z].l /\ su[z].r = st[z].r
  <2> TAKE z \in 1 .. Len(su)
  <2>1. CASE z = 1
    BY <1>6, <1>7, <1>11, <2>1
  <2>2. CASE z \in 2 .. Len(st)
    BY <1>11, <2>2
  <2>3. QED
    BY <1>1, <1>11, <2>1, <2>2
<1>16. Apart(su)
  BY <1>11, <1>15 DEF Sorting, Apart
<1>17. ASSUME NEW p \in 1 .. n, NEW q \in 1 .. n, p < q, b[p] > b[q]
       PROVE  OneCall(su, p, q)
  <2>1. CASE l <= p /\ q <= r
    BY <1>1, <1>6, <1>11, <2>1 DEF OneCall
  <2>2. CASE ~(l <= p /\ q <= r)
    <3>1. \E z \in 2 .. Len(st) : st[z].l <= p /\ q <= st[z].r
      BY <1>7, <1>13, <1>17, <2>2, Outside DEF b, n
    <3>2. PICK z \in 2 .. Len(st) : st[z].l <= p /\ q <= st[z].r
      BY <3>1
    <3>3. z \in 1 .. Len(su) /\ su[z].l <= p /\ q <= su[z].r
      <4>1. z \in 1 .. Len(su)
        BY <1>1, <1>11
      <4>2. su[z].l = st[z].l /\ su[z].r = st[z].r
        BY <1>15, <4>1
      <4>3. QED
        BY <3>2, <4>1, <4>2
    <3>4. QED
      BY <3>3 DEF OneCall
  <2>3. QED
    BY <2>1, <2>2
<1>18. Sorting(b, su)
  BY <1>9, <1>11, <1>14, <1>16, <1>17 DEF Sorting
<1>19. QED
  BY <1>18 DEF b, su, d

(* At its end it has what is not greater than the pivot before it, and     *)
(* what is behind it.                                                      *)
LEMMA PartitionEnds ==
  ASSUME NEW a, NEW st, Sorting(a, st), Len(st) >= 1,
         NEW c \in CallType, c = st[1], c.l < c.r, NEW x, NEW y, Found(a, c, x, y), x >= y
  PROVE  Sorting(Swapped(a, c.l, y), <<Call(c.l, y - 1), Call(y + 1, c.r)>> \o Tail(st))
<1> DEFINE b == Swapped(a, c.l, y)
           two == <<Call(c.l, y - 1), Call(y + 1, c.r)>>
           su == two \o Tail(st)
           n == Len(a)
           l == c.l
           r == c.r
           i0 == c.i
           j0 == c.j
<1>1. /\ n \in Nat /\ a \in Seq(Nat) /\ (\A m \in 1 .. n : a[m] \in Nat)
      /\ st \in Seq(CallType) /\ Len(st) \in Nat
  BY SortingType
<1>2. /\ l \in Nat /\ r \in Nat /\ i0 \in Nat /\ j0 \in Nat
  BY DEF CallType
<1>3. Partitioned(a, n, c)
  BY <1>1 DEF Sorting
<1>4. /\ l >= 1 /\ r <= n /\ l < r /\ i0 \in l .. r /\ j0 \in l + 1 .. r + 1
      /\ \A m \in l + 1 .. i0 : a[m] <= a[l]
      /\ \A m \in j0 .. r : a[m] > a[l]
  BY <1>3 DEF Partitioned
<1>5. /\ x \in i0 + 1 .. r + 1 /\ y \in l .. j0 - 1 /\ x >= y
      /\ \A m \in i0 + 1 .. x - 1 : a[m] <= a[l]
      /\ \A m \in y + 1 .. j0 - 1 : a[m] > a[l]
      /\ a[y] <= a[l]
  BY DEF Found
<1>6. l = st[1].l /\ r = st[1].r
  OBVIOUS
<1> HIDE DEF n, l, r, i0, j0
<1>7. y \in l .. r /\ y \in 1 .. n /\ l \in 1 .. n /\ y \in Nat /\ y - 1 \in Nat /\ y + 1 \in Nat
      /\ l \in l .. r
  <2>1. /\ l \in Int /\ r \in Int /\ n \in Int /\ j0 \in Int /\ y \in Int
        /\ 1 <= l /\ l < r /\ r <= n /\ l <= y /\ y <= j0 - 1 /\ j0 <= r + 1
    BY <1>1, <1>2, <1>4, <1>5
  <2>2. QED
    BY <2>1
<1>8. /\ b \in Seq(Nat) /\ Len(b) = n /\ b[l] = a[y] /\ b[y] = a[l]
      /\ \A m \in 1 .. n : m # l /\ m # y => b[m] = a[m]
  <2>1. b = Swapped(a, l, y) /\ n = Len(a)
    BY DEF l, n
  <2> HIDE DEF b
  <2>2. a \in Seq(Nat) /\ l \in 1 .. Len(a) /\ y \in 1 .. Len(a)
    BY <1>1, <1>7, <2>1
  <2>3. /\ Swapped(a, l, y) \in Seq(Nat) /\ Len(Swapped(a, l, y)) = Len(a)
        /\ Swapped(a, l, y)[l] = a[y] /\ Swapped(a, l, y)[y] = a[l]
        /\ \A m \in 1 .. Len(a) : m # l /\ m # y => Swapped(a, l, y)[m] = a[m]
    <3>1. \A d \in Seq(Nat) : \A u \in 1 .. Len(d), v \in 1 .. Len(d) :
            /\ Swapped(d, u, v) \in Seq(Nat) /\ Len(Swapped(d, u, v)) = Len(d)
            /\ Swapped(d, u, v)[u] = d[v] /\ Swapped(d, u, v)[v] = d[u]
            /\ \A m \in 1 .. Len(d) : m # u /\ m # v => Swapped(d, u, v)[m] = d[m]
      BY SwapIs, Zenon
    <3>2. QED
      BY <2>2, <3>1, Zenon
  <2>4. QED
    BY <2>1, <2>3, Zenon
<1>9. /\ Call(l, y - 1) \in CallType /\ Call(y + 1, r) \in CallType
      /\ Call(l, y - 1).l = l /\ Call(l, y - 1).r = y - 1
      /\ Call(y + 1, r).l = y + 1 /\ Call(y + 1, r).r = r
  <2>1. l \in Nat /\ r \in Nat /\ y - 1 \in Nat /\ y + 1 \in Nat
    BY <1>2, <1>7
  <2>2. \A u \in Nat, v \in Nat :
          Call(u, v) \in CallType /\ Call(u, v).l = u /\ Call(u, v).r = v
    BY CallIs, Zenon
  <2>3. QED
    BY <2>1, <2>2, Zenon
<1>10. /\ Tail(st) \in Seq(CallType) /\ Len(Tail(st)) = Len(st) - 1
       /\ \A z \in 1 .. Len(Tail(st)) : Tail(st)[z] = st[z + 1]
  <2>1. st # <<>>
    BY EmptySeq
  <2>2. QED
    BY <1>1, <2>1, HeadTailProperties
<1>11. /\ two \in Seq(CallType) /\ Len(two) = 2
       /\ two[1] = Call(l, y - 1) /\ two[2] = Call(y + 1, r)
  BY <1>9 DEF l, r
<1> HIDE DEF two
<1>12. /\ su \in Seq(CallType) /\ Len(su) = Len(st) + 1
       /\ su[1] = Call(l, y - 1) /\ su[2] = Call(y + 1, r)
       /\ \A z \in 2 .. Len(st) : su[z + 1] = st[z]
  <2>1. /\ su \in Seq(CallType) /\ Len(su) = 2 + Len(Tail(st))
        /\ \A z \in 1 .. 2 + Len(Tail(st)) : su[z] = IF z <= 2 THEN two[z] ELSE Tail(st)[z - 2]
    <3>1. two \in Seq(CallType) /\ Tail(st) \in Seq(CallType)
      BY <1>10, <1>11
    <3>2. /\ su \in Seq(CallType) /\ Len(su) = Len(two) + Len(Tail(st))
          /\ \A z \in 1 .. Len(two) + Len(Tail(st)) :
               su[z] = IF z <= Len(two) THEN two[z] ELSE Tail(st)[z - Len(two)]
      BY <3>1, ConcatProperties
    <3>3. QED
      BY <1>11, <3>2
  <2> HIDE DEF su
  <2>2. \A z \in 2 .. Len(st) :
          /\ z + 1 \in 1 .. 2 + Len(Tail(st)) /\ ~(z + 1 <= 2)
          /\ (z + 1) - 2 = z - 1 /\ z - 1 \in 1 .. Len(Tail(st)) /\ (z - 1) + 1 = z
    BY <1>1, <1>10
  <2>3. \A z \in 2 .. Len(st) : su[z + 1] = st[z]
    <3> TAKE z \in 2 .. Len(st)
    <3>1. su[z + 1] = Tail(st)[z - 1]
      BY <2>1, <2>2
    <3>2. QED
      BY <1>10, <2>2, <3>1
  <2>4. Len(su) = Len(st) + 1 /\ 1 \in 1 .. 2 + Len(Tail(st)) /\ 2 \in 1 .. 2 + Len(Tail(st))
    <3>1. Len(st) \in Int /\ Len(Tail(st)) \in Int /\ Len(st) >= 1
      BY <1>1, <1>10
    <3>2. QED
      BY <1>10, <2>1, <3>1
  <2>5. su[1] = two[1] /\ su[2] = two[2]
    BY <2>1, <2>4
  <2>6. su[1] = Call(l, y - 1) /\ su[2] = Call(y + 1, r)
    BY <1>11, <2>5, Zenon
  <2>7. su \in Seq(CallType) /\ Len(su) = Len(st) + 1
    BY <2>1, <2>4, Zenon
  <2>8. QED
    BY <2>3, <2>6, <2>7, ZenonT(30)
<1> HIDE DEF b, su
<1>13. \A m \in l .. y : b[m] <= b[y]
  <2> TAKE m \in l .. y
  <2>1. m \in 1 .. n /\ m \in Nat
    BY <1>1, <1>2, <1>4, <1>7
  <2>2. CASE m = l \/ m = y
    <3>1. b[l] <= b[y]
      BY <1>5, <1>8
    <3>2. \A o \in Nat : o <= o
      OBVIOUS
    <3>3. b[y] <= b[y]
      <4>1. b[y] \in Nat
        BY <1>1, <1>7, <1>8
      <4>2. QED
        BY <3>2, <4>1, Zenon
    <3>4. QED
      BY <2>2, <3>1, <3>3, Zenon
  <2>3. CASE m # l /\ m # y
    <3>1. m \in l + 1 .. i0 \/ m \in i0 + 1 .. x - 1
      BY <1>2, <1>4, <1>5, <1>7, <2>1, <2>3
    <3>2. QED
      BY <1>4, <1>5, <1>8, <2>1, <2>3, <3>1
  <2>4. QED
    BY <2>2, <2>3
<1>14. \A m \in y + 1 .. r : b[m] > b[y]
  <2> TAKE m \in y + 1 .. r
  <2>1. m \in 1 .. n /\ m \in Nat /\ m \notin l .. y
    <3>1. y \in Int /\ r \in Int /\ n \in Int /\ l \in Int /\ r <= n /\ y >= 1 /\ m \in y + 1 .. r
      BY <1>1, <1>2, <1>4, <1>7
    <3>2. QED
      BY <3>1
  <2>4. m # l /\ m # y
    BY <1>2, <1>7, <2>1
  <2>2. m \in y + 1 .. j0 - 1 \/ m \in j0 .. r
    BY <1>2, <1>4, <1>5, <1>7, <2>1
  <2>3. QED
    BY <1>4, <1>5, <1>8, <2>1, <2>2, <2>4
<1>15. \A m \in 1 .. n : b[m] \in Nat
  BY <1>8
<1>16. l \in st[1].l .. st[1].r /\ y \in st[1].l .. st[1].r
  BY <1>6, <1>7
<1>17. \A z \in 1 .. Len(su) : z = 1 \/ z = 2 \/ \E o \in 2 .. Len(st) : z = o + 1
  <2> TAKE z \in 1 .. Len(su)
  <2>1. CASE z > 2
    <3>1. z - 1 \in 2 .. Len(st) /\ z = (z - 1) + 1
      BY <1>1, <1>12, <2>1
    <3>2. QED
      BY <3>1
  <2>2. QED
    BY <1>1, <1>12, <2>1
<1>18. ASSUME NEW z \in 1 .. Len(su) PROVE Partitioned(b, n, su[z])
  <2>1. CASE z = 1
    <3>1. y - 1 <= n /\ l <= n + 1
      BY <1>1, <1>2, <1>7
    <3>2. Partitioned(b, n, Call(l, y - 1))
      BY <1>1, <1>2, <1>4, <1>7, <3>1, NewCall
    <3>3. QED
      BY <1>12, <2>1, <3>2
  <2>2. CASE z = 2
    <3>1. y + 1 <= n + 1 /\ y + 1 >= 1
      BY <1>1, <1>7
    <3>2. Partitioned(b, n, Call(y + 1, r))
      BY <1>1, <1>2, <1>4, <1>7, <3>1, NewCall
    <3>3. QED
      BY <1>12, <2>2, <3>2
  <2>3. ASSUME NEW o \in 2 .. Len(st), z = o + 1 PROVE Partitioned(b, n, su[z])
    <3>1. Partitioned(b, n, st[o])
      BY <1>16, OtherCalls DEF b, n, l
    <3>2. QED
      BY <1>12, <2>3, <3>1
  <2>4. QED
    BY <1>17, <2>1, <2>2, <2>3
<1>19. \A z \in 2 .. Len(st) : r < st[z].l /\ st[z].l \in Nat
  <2> TAKE z \in 2 .. Len(st)
  <2>1. 1 \in 1 .. Len(st) /\ z \in 1 .. Len(st) /\ 1 < z
    BY <1>1
  <2>2. QED
    BY <1>6, <2>1, SortingType DEF Sorting, Apart
<1>20. Apart(su)
  <2> SUFFICES ASSUME NEW z \in 1 .. Len(su), NEW o \in 1 .. Len(su), z < o
               PROVE  su[z].r < su[o].l
    BY DEF Apart
  <2>1. CASE z = 1 /\ o = 2
    BY <1>7, <1>9, <1>12, <2>1
  <2>2. ASSUME NEW q \in 2 .. Len(st), o = q + 1 PROVE su[z].r < su[o].l
    <3>1. su[o].l = st[q].l /\ r < st[q].l /\ st[q].l \in Nat
      BY <1>12, <1>19, <2>2
    <3>2. CASE z = 1
      BY <1>2, <1>7, <1>9, <1>12, <3>1, <3>2, SMTT(30)
    <3>3. CASE z = 2
      BY <1>9, <1>12, <3>1, <3>3
    <3>4. ASSUME NEW p \in 2 .. Len(st), z = p + 1 PROVE su[z].r < su[o].l
      <4>1. p \in 1 .. Len(st) /\ q \in 1 .. Len(st) /\ p < q
        BY <1>1, <2>2, <3>4
      <4>2. st[p].r < st[q].l
        BY <4>1 DEF Sorting, Apart
      <4>3. QED
        BY <1>12, <3>1, <3>4, <4>2
    <3>5. QED
      BY <1>17, <3>2, <3>3, <3>4
  <2>3. o # 1 /\ (o = 2 => z = 1)
    BY <1>1, <1>12
  <2>4. QED
    BY <1>17, <2>1, <2>2, <2>3
<1>21. ASSUME NEW p \in 1 .. n, NEW q \in 1 .. n, p < q, b[p] > b[q]
       PROVE  OneCall(su, p, q)
  <2>1. CASE l <= p /\ q <= r
    <3>1. q <= y - 1 \/ p >= y + 1
      <4>1. ~(p <= y /\ q >= y)
        <5> SUFFICES ASSUME p <= y, q >= y PROVE FALSE
          OBVIOUS
        <5>1. b[p] <= b[y]
          BY <1>2, <1>7, <1>13, <2>1
        <5>2. b[q] >= b[y]
          BY <1>2, <1>7, <1>14, <1>15, <2>1
        <5>3. b[p] \in Nat /\ b[q] \in Nat /\ b[y] \in Nat
          BY <1>7, <1>15
        <5>4. QED
          BY <1>21, <5>1, <5>2, <5>3
      <4>2. QED
        BY <1>1, <1>7, <1>21, <4>1
    <3>2. CASE q <= y - 1
      <4>1. 1 \in 1 .. Len(su) /\ su[1].l = l /\ su[1].r = y - 1
        BY <1>1, <1>9, <1>12
      <4>2. QED
        BY <2>1, <3>2, <4>1 DEF OneCall
    <3>3. CASE p >= y + 1
      <4>1. su[2].l <= p /\ q <= su[2].r /\ 2 \in 1 .. Len(su)
        BY <1>1, <1>9, <1>12, <2>1, <3>3
      <4>2. QED
        BY <4>1 DEF OneCall
    <3>4. QED
      BY <3>1, <3>2, <3>3
  <2>2. CASE ~(l <= p /\ q <= r)
    <3>1. PICK z \in 2 .. Len(st) : st[z].l <= p /\ q <= st[z].r
      BY <1>6, <1>16, <1>21, <2>2, Outside DEF b, n, l
    <3>2. z + 1 \in 1 .. Len(su) /\ su[z + 1].l <= p /\ q <= su[z + 1].r
      BY <1>1, <1>12, <3>1
    <3>3. QED
      BY <3>2 DEF OneCall
  <2>3. QED
    BY <2>1, <2>2
<1>22. Sorting(b, su)
  BY <1>8, <1>12, <1>18, <1>20, <1>21 DEF Sorting
<1>23. QED
  BY <1>22 DEF b, su, two, l

(* A turn of mpac_quicksort goes on with the sorting, and exchanges two    *)
(* elements or none.                                                       *)
LEMMA TurnKeeps ==
  ASSUME NEW a, NEW st, Sorting(a, st), st # <<>>
  PROVE  /\ Sorting(Turn(a, st).a, Turn(a, st).st)
         /\ \/ Turn(a, st).a = a
           \/ \E x \in 1 .. Len(a), y \in 1 .. Len(a) : Turn(a, st).a = Swapped(a, x, y)
<1> DEFINE c == st[1]
           x == NextGreater(a, c.l, c.r, c.i)
           y == NextNotGreater(a, c.l, c.j)
           n == Len(a)
<1>1. /\ n \in Nat /\ a \in Seq(Nat) /\ a \in [1 .. n -> Nat]
      /\ st \in Seq(CallType) /\ Len(st) \in Nat /\ Len(st) >= 1
      /\ c \in CallType /\ c.l \in Nat /\ c.r \in Nat /\ c.i \in Nat /\ c.j \in Nat
      /\ Head(st) = c /\ Partitioned(a, n, c)
  <2>1. st \in Seq(CallType) /\ Len(st) \in Nat /\ Len(st) >= 1
    BY SortingType, EmptySeq
  <2>2. QED
    BY <2>1, SortingType DEF Sorting
<1>2. Turn(a, st) = IF c.l >= c.r THEN [a |-> a, st |-> Tail(st)]
                    ELSE IF x >= y
                      THEN [a |-> Swapped(a, c.l, y),
                            st |-> <<Call(c.l, y - 1), Call(y + 1, c.r)>> \o Tail(st)]
                      ELSE [a |-> Swapped(a, x, y),
                            st |-> <<[c EXCEPT !.i = x, !.j = y]>> \o Tail(st)]
  BY <1>1 DEF Turn
<1>6. c = st[1] /\ n = Len(a)
  OBVIOUS
<1> HIDE DEF x, y, c, n
<1>3. CASE c.l >= c.r
  <2>1. Turn(a, st).a = a /\ Turn(a, st).st = Tail(st)
    BY <1>2, <1>3
  <2>2. Sorting(a, Tail(st))
    BY <1>3, <1>6, CallReturns
  <2>3. QED
    BY <2>1, <2>2
<1>4. CASE c.l < c.r
  <2>1. /\ c.l \in 1 .. n /\ c.r \in 1 .. n /\ c.i \in c.l .. c.r /\ c.j \in c.l + 1 .. n + 1
        /\ c.j \in c.l + 1 .. c.r + 1
    <3>1. /\ c.l \in Int /\ c.r \in Int /\ n \in Int /\ c.l >= 1 /\ c.r <= n
          /\ c.i \in c.l .. c.r /\ c.j \in c.l + 1 .. c.r + 1
      BY <1>1, <1>4 DEF Partitioned
    <3>2. QED
      BY <1>4, <3>1
  <2>2. /\ x \in c.i + 1 .. c.r + 1 /\ (x = c.r + 1 \/ a[x] > a[c.l])
        /\ \A m \in c.i + 1 .. x - 1 : a[m] <= a[c.l]
    <3>1. n \in Nat /\ a \in [1 .. n -> Nat] /\ c.l \in 1 .. n /\ c.r \in 1 .. n /\ c.i \in c.l .. c.r
      BY <1>1, <2>1
    <3>2. QED
      BY <3>1, NextGreaterIs DEF x
  <2>3. /\ y \in c.l .. c.j - 1 /\ a[y] <= a[c.l]
        /\ \A m \in y + 1 .. c.j - 1 : a[m] > a[c.l]
    <3>1. n \in Nat /\ a \in [1 .. n -> Nat] /\ c.l \in 1 .. n /\ c.j \in c.l + 1 .. n + 1
      BY <1>1, <2>1
    <3>2. QED
      BY <3>1, NextNotGreaterIs DEF y
  <2>6. x \in Int /\ y \in Int
    BY <1>1, <2>1, <2>2, <2>3
  <2>8. Found(a, c, x, y)
    BY <2>2, <2>3 DEF Found
  <2>4. CASE x >= y
    <3>1. Turn(a, st).a = Swapped(a, c.l, y)
          /\ Turn(a, st).st = <<Call(c.l, y - 1), Call(y + 1, c.r)>> \o Tail(st)
      BY <1>1, <1>2, <1>4, <2>4
    <3>2. y \in 1 .. n
      BY <1>1, <2>1, <2>3
    <3>3. Sorting(Swapped(a, c.l, y), <<Call(c.l, y - 1), Call(y + 1, c.r)>> \o Tail(st))
      <4>1. Sorting(a, st) /\ Len(st) >= 1 /\ c \in CallType /\ c.l < c.r
        BY <1>1, <1>4
      <4>2. QED
        BY <1>6, <2>4, <2>8, <4>1, PartitionEnds, Zenon
    <3>4. QED
      BY <1>6, <2>1, <3>1, <3>2, <3>3
  <2>5. CASE x < y
    <3>7. \A u \in Int, v \in Int : u < v => ~(u >= v)
      OBVIOUS
    <3>0. ~(x >= y) /\ ~(c.l >= c.r)
      <4>1. c.l \in Int /\ c.r \in Int
        BY <1>1
      <4>2. QED
        BY <1>4, <2>6, <2>5, <3>7, <4>1, Zenon
    <3>1. Turn(a, st).a = Swapped(a, x, y)
          /\ Turn(a, st).st = <<[c EXCEPT !.i = x, !.j = y]>> \o Tail(st)
      <4> DEFINE A == Swapped(a, x, y)
                 T == <<[c EXCEPT !.i = x, !.j = y]>> \o Tail(st)
      <4>1. Turn(a, st) = [a |-> A, st |-> T]
        BY <1>2, <3>0, Zenon
      <4> HIDE DEF A, T
      <4>2. Turn(a, st).a = A /\ Turn(a, st).st = T
        BY <4>1
      <4>3. QED
        BY <4>2, Zenon DEF A, T
    <3>8. /\ c.l \in Int /\ c.r \in Int /\ c.i \in Int /\ c.j \in Int /\ n \in Int
          /\ 1 <= c.l /\ c.l <= c.i /\ c.j <= c.r + 1 /\ c.r <= n
          /\ c.i + 1 <= x /\ y <= c.j - 1
      BY <1>1, <2>1, <2>2, <2>3, SMTT(30)
    <3>2. x \in c.i + 1 .. c.r /\ y \in c.l + 1 .. c.j - 1 /\ x \in 1 .. n /\ y \in 1 .. n
      BY <2>5, <2>6, <3>8, SMTT(30)
    <3>4. Sorting(Swapped(a, x, y), [st EXCEPT ![1] = [c EXCEPT !.i = x, !.j = y]])
      <4>1. Sorting(a, st) /\ Len(st) >= 1 /\ c \in CallType /\ c.l < c.r
        BY <1>1, <1>4
      <4>2. QED
        BY <1>6, <2>5, <2>8, <4>1, PartitionGoesOn, Zenon
    <3>5. <<[c EXCEPT !.i = x, !.j = y]>> \o Tail(st) = [st EXCEPT ![1] = [c EXCEPT !.i = x, !.j = y]]
      <4> DEFINE d == [c EXCEPT !.i = x, !.j = y]
      <4>1. d \in CallType
        <5>1. x \in Nat /\ y \in Nat
          BY <1>1, <3>2
        <5>2. QED
          BY <1>1, <5>1 DEF CallType
      <4> HIDE DEF d
      <4>2. /\ Tail(st) \in Seq(CallType) /\ Len(Tail(st)) = Len(st) - 1
            /\ \A z \in 1 .. Len(Tail(st)) : Tail(st)[z] = st[z + 1]
        BY <1>1, HeadTailProperties
      <4>3. <<d>> \in Seq(CallType) /\ Len(<<d>>) = 1 /\ <<d>>[1] = d
        BY <4>1
      <4>4. /\ <<d>> \o Tail(st) \in Seq(CallType) /\ Len(<<d>> \o Tail(st)) = 1 + Len(Tail(st))
            /\ \A z \in 1 .. 1 + Len(Tail(st)) :
                 (<<d>> \o Tail(st))[z] = IF z <= 1 THEN <<d>>[z] ELSE Tail(st)[z - 1]
        BY <4>2, <4>3, ConcatProperties
      <4>5. /\ [st EXCEPT ![1] = d] \in Seq(CallType) /\ Len([st EXCEPT ![1] = d]) = Len(st)
            /\ \A z \in 1 .. Len(st) : [st EXCEPT ![1] = d][z] = IF z = 1 THEN d ELSE st[z]
        BY <1>1, <4>1, ExceptSeq
      <4>6. \A z \in 1 .. Len(st) : (<<d>> \o Tail(st))[z] = [st EXCEPT ![1] = d][z]
        <5> TAKE z \in 1 .. Len(st)
        <5>1. CASE z = 1
          BY <1>1, <4>2, <4>3, <4>4, <4>5, <5>1
        <5>2. CASE z > 1
          <6>1. z - 1 \in 1 .. Len(Tail(st)) /\ (z - 1) + 1 = z /\ z \in 1 .. 1 + Len(Tail(st)) /\ ~(z <= 1)
            BY <1>1, <4>2, <5>2
          <6>2. QED
            BY <4>2, <4>4, <4>5, <5>2, <6>1
        <5>3. QED
          BY <1>1, <5>1, <5>2
      <4>7. <<d>> \o Tail(st) = [st EXCEPT ![1] = d]
        BY <1>1, <4>2, <4>4, <4>5, <4>6, SeqEqual
      <4>8. QED
        BY <4>7 DEF d
    <3>6. QED
      BY <1>6, <3>1, <3>2, <3>4, <3>5
  <2>7. QED
    BY <2>4, <2>5, <2>6
<1>5. QED
  BY <1>1, <1>3, <1>4

-----------------------------------------------------------------------------
(* The elements of b at S are those of a at T in another order.            *)
Rearranged(b, S, a, T) ==
  \E f \in [S -> T] :
    /\ \A p \in S, q \in S : f[p] = f[q] => p = q
    /\ \A t \in T : \E p \in S : f[p] = t
    /\ \A p \in S : b[p] = a[f[p]]

(* No elements, or the same at the same places, are rearranged.            *)
LEMMA RearrangedSame ==
  ASSUME NEW a, NEW b, NEW S, \A p \in S : b[p] = a[p]
  PROVE  Rearranged(b, S, a, S)
<1> DEFINE f == [p \in S |-> p]
<1>1. f \in [S -> S] /\ \A p \in S : f[p] = p
  OBVIOUS
<1> HIDE DEF f
<1>2. QED
  BY <1>1 DEF Rearranged

(* Only the elements at S matter.                                          *)
LEMMA RearrangedEqual ==
  ASSUME NEW a, NEW b, NEW c, NEW S, NEW T, Rearranged(b, S, a, T), \A p \in S : c[p] = b[p]
  PROVE  Rearranged(c, S, a, T)
<1>1. PICK f \in [S -> T] : /\ \A p \in S, q \in S : f[p] = f[q] => p = q
                            /\ \A t \in T : \E p \in S : f[p] = t
                            /\ \A p \in S : b[p] = a[f[p]]
  BY DEF Rearranged
<1>2. \A p \in S : c[p] = a[f[p]]
  BY <1>1
<1>3. QED
  BY <1>1, <1>2 DEF Rearranged

(* An exchange rearranges.                                                 *)
LEMMA RearrangedSwap ==
  ASSUME NEW a, NEW b \in Seq(Nat), NEW T, Rearranged(b, 1 .. Len(b), a, T),
         NEW x \in 1 .. Len(b), NEW y \in 1 .. Len(b)
  PROVE  Rearranged(Swapped(b, x, y), 1 .. Len(b), a, T)
<1> DEFINE S == 1 .. Len(b)
           c == Swapped(b, x, y)
<1>1. PICK f \in [S -> T] : /\ \A p \in S, q \in S : f[p] = f[q] => p = q
                            /\ \A t \in T : \E p \in S : f[p] = t
                            /\ \A p \in S : b[p] = a[f[p]]
  BY DEF Rearranged
<1>2. c[x] = b[y] /\ c[y] = b[x] /\ \A m \in S : m # x /\ m # y => c[m] = b[m]
  BY SwapIs
<1> x \in S /\ y \in S
  OBVIOUS
<1> HIDE DEF S, c
<1> DEFINE other == [p \in S |-> IF p = x THEN y ELSE IF p = y THEN x ELSE p]
           g == [p \in S |-> f[other[p]]]
<1>3. /\ other \in [S -> S] /\ \A p \in S : other[other[p]] = p
      /\ \A p \in S : c[p] = b[other[p]]
  BY <1>2
<1> HIDE DEF other
<1>4. g \in [S -> T] /\ \A p \in S : g[p] = f[other[p]] /\ other[p] \in S
  BY <1>1, <1>3
<1> HIDE DEF g
<1>5. ASSUME NEW p \in S, NEW q \in S, g[p] = g[q] PROVE p = q
  <2>1. other[p] = other[q]
    <3>1. other[p] \in S /\ other[q] \in S /\ f[other[p]] = f[other[q]]
      BY <1>4, <1>5
    <3>2. QED
      BY <1>1, <3>1
  <2>2. QED
    BY <1>3, <2>1
<1>6. ASSUME NEW t \in T PROVE \E p \in S : g[p] = t
  <2>1. PICK q \in S : f[q] = t
    BY <1>1
  <2>2. other[q] \in S /\ g[other[q]] = t
    BY <1>3, <1>4, <2>1
  <2>3. QED
    BY <2>2
<1>7. ASSUME NEW p \in S PROVE c[p] = a[g[p]]
  <2>1. other[p] \in S /\ c[p] = b[other[p]] /\ g[p] = f[other[p]]
    BY <1>3, <1>4
  <2>2. b[other[p]] = a[f[other[p]]]
    BY <1>1, <2>1
  <2>3. QED
    BY <2>1, <2>2
<1>8. Rearranged(c, S, a, T)
  BY <1>4, <1>5, <1>6, <1>7 DEF Rearranged
<1>9. QED
  BY <1>8 DEF c, S

(* Elements are rearranged if they are moved by k0.                        *)
LEMMA RearrangedBehind ==
  ASSUME NEW a, NEW b, NEW c, NEW T, NEW n \in Nat, NEW k0 \in Nat,
         Rearranged(b, 1 .. n, a, T), \A p \in 1 .. n : c[k0 + p] = b[p]
  PROVE  Rearranged(c, k0 + 1 .. k0 + n, a, T)
<1> DEFINE S == 1 .. n
           U == k0 + 1 .. k0 + n
<1>1. PICK f \in [S -> T] : /\ \A p \in S, q \in S : f[p] = f[q] => p = q
                            /\ \A t \in T : \E p \in S : f[p] = t
                            /\ \A p \in S : b[p] = a[f[p]]
  BY DEF Rearranged
<1> DEFINE back == [p \in U |-> p - k0]
           g == [p \in U |-> f[back[p]]]
<1>2. /\ back \in [U -> S] /\ \A p \in U : k0 + back[p] = p
      /\ \A p \in S : k0 + p \in U /\ back[k0 + p] = p
  OBVIOUS
<1>3. \A p \in S : c[k0 + p] = b[p]
  OBVIOUS
<1> HIDE DEF S, U, back
<1>4. g \in [U -> T] /\ \A p \in U : g[p] = f[back[p]] /\ back[p] \in S
  BY <1>1, <1>2
<1> HIDE DEF g
<1>5. ASSUME NEW p \in U, NEW q \in U, g[p] = g[q] PROVE p = q
  <2>1. back[p] = back[q]
    BY <1>1, <1>4, <1>5
  <2>2. QED
    BY <1>2, <2>1
<1>6. ASSUME NEW t \in T PROVE \E p \in U : g[p] = t
  <2>1. PICK q \in S : f[q] = t
    BY <1>1
  <2>2. k0 + q \in U /\ g[k0 + q] = t
    BY <1>2, <1>4, <2>1
  <2>3. QED
    BY <2>2
<1>7. \A p \in U : c[p] = a[g[p]]
  BY <1>1, <1>2, <1>3, <1>4
<1>8. Rearranged(c, U, a, T)
  BY <1>4, <1>5, <1>6, <1>7 DEF Rearranged
<1>9. QED
  BY <1>8 DEF U

(* Two stretches that are rearranged apart are rearranged together.        *)
LEMMA RearrangedTogether ==
  ASSUME NEW a, NEW b, NEW S, NEW T, NEW U, NEW V,
         Rearranged(b, S, a, T), Rearranged(b, U, a, V), S \cap U = {}, T \cap V = {}
  PROVE  Rearranged(b, S \cup U, a, T \cup V)
<1>1. PICK f \in [S -> T] : /\ \A p \in S, q \in S : f[p] = f[q] => p = q
                            /\ \A t \in T : \E p \in S : f[p] = t
                            /\ \A p \in S : b[p] = a[f[p]]
  BY DEF Rearranged
<1>2. PICK g \in [U -> V] : /\ \A p \in U, q \in U : g[p] = g[q] => p = q
                            /\ \A t \in V : \E p \in U : g[p] = t
                            /\ \A p \in U : b[p] = a[g[p]]
  BY DEF Rearranged
<1> DEFINE h == [p \in S \cup U |-> IF p \in S THEN f[p] ELSE g[p]]
<1>3. /\ h \in [S \cup U -> T \cup V] /\ \A p \in S : h[p] = f[p] /\ f[p] \in T
      /\ \A p \in U : h[p] = g[p] /\ g[p] \in V
  OBVIOUS
<1> HIDE DEF h
<1>4. ASSUME NEW p \in S \cup U, NEW q \in S \cup U, h[p] = h[q] PROVE p = q
  BY <1>1, <1>2, <1>3, <1>4
<1>5. \A t \in T \cup V : \E p \in S \cup U : h[p] = t
  BY <1>1, <1>2, <1>3
<1>6. \A p \in S \cup U : b[p] = a[h[p]]
  BY <1>1, <1>2, <1>3
<1>7. QED
  BY <1>3, <1>4, <1>5, <1>6 DEF Rearranged

(* As many of them, and each value as often.                               *)
HowOften(a, S, x) == Cardinality({p \in S : a[p] = x})

(* Every value is there as often as before.                                *)
LEMMA RearrangedOften ==
  ASSUME NEW a, NEW b, NEW S, NEW T, IsFiniteSet(S), Rearranged(b, S, a, T), NEW x
  PROVE  HowOften(b, S, x) = HowOften(a, T, x)
<1>1. PICK f \in [S -> T] : /\ \A p \in S, q \in S : f[p] = f[q] => p = q
                            /\ \A t \in T : \E p \in S : f[p] = t
                            /\ \A p \in S : b[p] = a[f[p]]
  BY DEF Rearranged
<1> DEFINE P == {p \in S : b[p] = x}
           Q == {t \in T : a[t] = x}
           g == [p \in P |-> f[p]]
<1>2. g \in [P -> Q] /\ (\A p \in P : g[p] = f[p])
  BY <1>1
<1>3. \A t \in Q : \E p \in P : g[p] = t
  BY <1>1
<1>4. \A p \in P, q \in P : g[p] = g[q] => p = q
  BY <1>1
<1>5. IsFiniteSet(P)
  BY FS_Subset
<1> HIDE DEF P, Q, g
<1>6. g \in Bijection(P, Q)
  BY <1>2, <1>3, <1>4, Fun_IsBij DEF Bijection, Injection, Surjection, IsInjective
<1>7. ExistsBijection(P, Q)
  BY <1>6 DEF ExistsBijection
<1>8. Cardinality(P) = Cardinality(Q)
  BY <1>5, <1>7, FS_Bijection
<1>9. QED
  BY <1>8 DEF P, Q, HowOften

(* A rearrangement of n elements has n elements.                           *)
LEMMA RearrangedFits ==
  ASSUME NEW a, NEW b, NEW m \in Nat, NEW n \in Nat, NEW T \in SUBSET (1 .. n),
         Rearranged(b, 1 .. m, a, T)
  PROVE  m <= n /\ (T = 1 .. n => m = n)
<1>1. PICK f \in [1 .. m -> T] : /\ \A p \in 1 .. m, q \in 1 .. m : f[p] = f[q] => p = q
                                 /\ \A t \in T : \E p \in 1 .. m : f[p] = t
  BY DEF Rearranged
<1>2. IsFiniteSet(1 .. m) /\ Cardinality(1 .. m) = m /\ IsFiniteSet(1 .. n) /\ Cardinality(1 .. n) = n
  BY FS_Interval
<1>3. f \in [1 .. m -> 1 .. n]
  OBVIOUS
<1>4. m <= n
  <2> SUFFICES ASSUME m > n PROVE FALSE
    OBVIOUS
  <2>1. \E p, q \in 1 .. m : p # q /\ f[p] = f[q]
    BY <1>2, <1>3, FS_PigeonHole
  <2>2. QED
    BY <1>1, <2>1
<1>5. ASSUME T = 1 .. n PROVE m = n
  <2>1. n <= m
    <3>0. f \in Surjection(1 .. m, T)
      BY <1>1, Fun_IsSurj
    <3>1. Cardinality(1 .. n) <= Cardinality(1 .. m)
      BY <1>2, <1>5, <3>0, FS_Surjection
    <3>2. QED
      BY <1>2, <3>1
  <2>2. QED
    BY <1>4, <2>1
<1>6. QED
  BY <1>4, <1>5

-----------------------------------------------------------------------------
(* The workers are numbered from 0.                                        *)
LEMMA WorkerNumbers ==
  /\ num_thrs \in Nat /\ num_thrs > 0
  /\ Worker = 0 .. num_thrs - 1
BY GroupSize, SortAssumption DEF num_thrs

(* What \div is.                                                           *)
LEMMA DivisionOf ==
  ASSUME NEW m \in Int, NEW n \in Int, n > 0
  PROVE  m = n * (m \div n) + (m % n)
OBVIOUS

LEMMA DivisionIs ==
  ASSUME NEW m \in Nat, NEW n \in Nat, n > 0
  PROVE  /\ m \div n \in Nat /\ m % n \in Nat /\ m % n < n
         /\ m = n * (m \div n) + (m % n)
<1>1. m \div n \in Nat /\ m % n \in Nat /\ m % n < n
  OBVIOUS
<1>2. m \in Int /\ n \in Int
  OBVIOUS
<1>3. QED
  BY <1>1, <1>2, DivisionOf

(* A multiple of the divisor is divided exactly.                           *)
LEMMA ExactDivision ==
  ASSUME NEW m \in Int, NEW n \in Int, n > 0
  PROVE  (m * n) \div n = m
OBVIOUS

(* The pieces have room in the data.                                       *)
LEMMA PiecesFit ==
  ASSUME NEW data \in Seq(Nat), NEW w \in Worker
  PROVE  /\ PieceLen(data) \in Nat /\ w * PieceLen(data) \in Nat
         /\ (w + 1) * PieceLen(data) = w * PieceLen(data) + PieceLen(data)
         /\ (w + 1) * PieceLen(data) \in 0 .. Len(data)
<1> DEFINE n == num_thrs
           P == PieceLen(data)
           N == Len(data)
<1>1. n \in Nat /\ n > 0 /\ w \in Nat /\ w + 1 <= n /\ N \in Nat
  BY WorkerNumbers, LenProperties
<1>2. P \in Nat /\ n * P <= N
  <2>1. P = N \div n
    BY DEF PieceLen
  <2> HIDE DEF P, N, n
  <2>2. QED
    BY <1>1, <2>1, DivisionIs
<1> HIDE DEF P, N, n
<1>3. (w + 1) * P <= n * P
  BY <1>1, <1>2
<1>4. w * P \in Nat /\ (w + 1) * P = w * P + P /\ (w + 1) * P \in Nat /\ n * P \in Nat
  BY <1>1, <1>2
<1>5. (w + 1) * P \in 0 .. N
  BY <1>1, <1>2, <1>3, <1>4
<1>6. QED
  BY <1>2, <1>4, <1>5 DEF P, N

(* Where bucket w begins.                                                  *)
Low(data, w) == Least(data) + BucketWidth(data) * w

(* Values are natural numbers.                                             *)
LEMMA Values == Value \subseteq Nat /\ \A x \in Value : x <= 32767
BY DEF Value

(* So are the elements of the data, ...                                    *)
LEMMA ElementsOfData ==
  ASSUME NEW data \in Seq(Value), data # <<>>
  PROVE  /\ Len(data) \in Nat /\ Len(data) >= 1 /\ DOMAIN data = 1 .. Len(data)
         /\ \A p \in 1 .. Len(data) : data[p] \in Value
         /\ data \in Seq(Nat)
<1>1. Value \subseteq Nat
  BY Values
<1>2. Len(data) \in Nat \ {0} /\ DOMAIN data = 1 .. Len(data)
  BY <1>1, LenProperties, EmptySeq
<1>3. \A p \in 1 .. Len(data) : data[p] \in Value
  BY <1>1, ElementOfSeq
<1>4. data \in Seq(Nat)
  BY <1>1, SeqMonotonic
<1>5. QED
  BY <1>2, <1>3, <1>4

(* ... and there is a least and a greatest one.                            *)
LEMMA LimitsOfData ==
  ASSUME NEW data \in Seq(Value), data # <<>>
  PROVE  /\ Least(data) \in Nat /\ Greatest(data) \in Nat
         /\ \A p \in 1 .. Len(data) : Least(data) <= data[p] /\ data[p] <= Greatest(data)
<1> DEFINE R == Range(data)
           S == {x \in Nat : \E y \in R : x = 32767 - y}
<1>1. /\ R \in SUBSET Value /\ R # {}
      /\ \A p \in 1 .. Len(data) : data[p] \in R
  BY ElementsOfData DEF Range
<1>2. Least(data) = CHOOSE x \in R : \A y \in R : x <= y
  BY DEF Least
<1>3. Greatest(data) = CHOOSE x \in R : \A y \in R : x >= y
  BY DEF Greatest
<1> HIDE DEF R
<1>4. \E x \in R : \A y \in R : x <= y
  BY <1>1, Values, LeastOf
<1>5. \E x \in R : \A y \in R : x >= y
  <2>1. S \in SUBSET Nat /\ S # {}
    <3>1. PICK y \in R : TRUE
      BY <1>1
    <3>2. y \in Nat /\ y <= 32767
      BY <1>1, <3>1, Values
    <3>3. 32767 - y \in S
      BY <3>1, <3>2
    <3>4. QED
      BY <3>3
  <2>2. PICK s \in S : \A t \in S : s <= t
    <3> HIDE DEF S
    <3>1. QED
      BY <2>1, LeastOf
  <2>3. PICK x \in R : s = 32767 - x
    OBVIOUS
  <2>4. ASSUME NEW y \in R PROVE x >= y
    <3>1. 32767 - y \in S
      BY <1>1, Values
    <3>2. s <= 32767 - y
      BY <2>2, <3>1
    <3>3. QED
      BY <1>1, Values, <2>3, <3>2
  <2>5. QED
    BY <2>4
<1>6. Least(data) \in R /\ \A y \in R : Least(data) <= y
  BY <1>2, <1>4
<1>7. Greatest(data) \in R /\ \A y \in R : Greatest(data) >= y
  BY <1>3, <1>5
<1>8. \A x \in R : x \in Nat
  BY <1>1, Values
<1>9. QED
  BY <1>1, <1>6, <1>7, <1>8

(* The buckets are as wide as it takes to hold all values.                 *)
LEMMA BucketsHoldAll ==
  ASSUME NEW data \in Seq(Value), data # <<>>
  PROVE  /\ \A w \in 0 .. num_thrs : Low(data, w) \in Nat
         /\ \A w \in Worker : Low(data, w) <= Low(data, w + 1)
         /\ \A w \in Worker, x \in Nat :
              IsIn(x, data, w) <=> Low(data, w) <= x /\ x < Low(data, w + 1)
         /\ \A p \in 1 .. Len(data) : Low(data, 0) <= data[p] /\ data[p] < Low(data, num_thrs)
<1> DEFINE n == num_thrs
           L == Least(data)
           G == Greatest(data)
           W == BucketWidth(data)
           diff == G - L + 1
           rem == diff % n
           q == diff \div n
<1>1. /\ n \in Nat /\ n > 0 /\ Worker = 0 .. n - 1
      /\ L \in Nat /\ G \in Nat
      /\ \A p \in 1 .. Len(data) : L <= data[p] /\ data[p] <= G
  BY WorkerNumbers, LimitsOfData
<1>2. L <= G
  BY <1>1, ElementsOfData, Values
<1>3. diff \in Nat /\ q \in Nat /\ rem \in Nat /\ rem < n /\ diff = n * q + rem
  <2>1. diff \in Nat
    BY <1>1, <1>2
  <2> HIDE DEF diff, n
  <2>2. QED
    BY <1>1, <2>1, DivisionIs
<1>4. W = (IF rem # 0 THEN diff - rem + n ELSE diff) \div n
  BY DEF BucketWidth
<1> HIDE DEF n, L, G, W, diff, rem, q
<1>5. W \in Nat /\ n * W >= diff
  <2>1. CASE rem # 0
    <3>1. diff - rem + n = (q + 1) * n
      BY <1>1, <1>3
    <3>2. W = q + 1
      BY <1>1, <1>3, <1>4, <2>1, <3>1, ExactDivision
    <3>3. (q + 1) * n = n * q + n
      BY <1>1, <1>3
    <3>4. n * q \in Nat /\ n * W = W * n
      BY <1>1, <1>3, <3>2
    <3>5. QED
      BY <1>1, <1>3, <3>2, <3>3, <3>4
  <2>2. CASE rem = 0
    <3>1. n * q \in Nat /\ diff = q * n
      BY <1>1, <1>3, <2>2
    <3>2. W = q
      BY <1>1, <1>3, <1>4, <2>2, <3>1, ExactDivision
    <3>3. n * W = W * n
      BY <1>1, <1>3, <3>2
    <3>4. QED
      BY <1>3, <3>1, <3>2, <3>3
  <2>3. QED
    BY <2>1, <2>2
<1>6. \A w : Low(data, w) = L + W * w
  BY DEF Low, L, W
<1>7. \A w \in 0 .. n : Low(data, w) \in Nat
  BY <1>1, <1>5, <1>6
<1>8. \A w \in Worker : Low(data, w) <= Low(data, w + 1)
  <2> TAKE w \in Worker
  <2>1. w \in Nat /\ W * (w + 1) = W * w + W /\ W * w \in Nat
    BY <1>1, <1>5
  <2>2. QED
    BY <1>1, <1>5, <1>6, <2>1
<1>9. \A w \in Worker, x \in Nat :
              IsIn(x, data, w) <=> Low(data, w) <= x /\ x < Low(data, w + 1)
  BY DEF IsIn, Low
<1>10. \A p \in 1 .. Len(data) : Low(data, 0) <= data[p] /\ data[p] < Low(data, n)
  <2>1. Low(data, 0) = L
    BY <1>1, <1>5, <1>6
  <2>2. Low(data, n) > G
    <3>1. W * n = n * W /\ n * W \in Nat
      BY <1>1, <1>5
    <3>2. diff = G - L + 1
      BY DEF diff
    <3>3. QED
      BY <1>1, <1>5, <1>6, <3>1, <3>2
  <2>3. \A p \in 1 .. Len(data) : data[p] \in Nat
    BY ElementsOfData, Values
  <2>4. QED
    BY <1>1, <1>7, <2>1, <2>2, <2>3
<1>11. QED
  BY <1>7, <1>8, <1>9, <1>10 DEF n

-----------------------------------------------------------------------------
(* The workers of the application are threads that use the barrier.        *)

(* Main and the workers use the barrier as its specification allows.       *)
LEMMA InitUsesBarrier == SInit => Init
BY DEF SInit

LEMMA StepUsesBarrier == [SNext]_svars => [Next]_vars
<1> SUFFICES ASSUME [SNext]_svars PROVE [Next]_vars
  OBVIOUS
<1>1. UNCHANGED barrier => UNCHANGED vars
  BY DEF barrier, vars
<1>2. CASE Main \/ Over \/ UNCHANGED svars
  <2>1. UNCHANGED barrier
    BY <1>2 DEF Main, Over, svars, Fork, DividePieces, DivideBuckets, RaiseFlag, Join,
                MergePieces, MergeBuckets, SortAll, AllSorted
  <2>2. QED
    BY <1>1, <2>1
<1>3. ASSUME NEW w \in Worker, SeesFlag(w) \/ SortPart(w) \/ PartSorted(w) PROVE UNCHANGED vars
  BY <1>1, <1>3 DEF SeesFlag, SortPart, PartSorted
<1>4. ASSUME NEW w \in Worker, InBarrier(w) \/ BeginToSort(w) \/ Exit(w) PROVE Next
  BY <1>4 DEF InBarrier, BeginToSort, Exit, Next, Barrier
<1>5. QED
  BY <1>2, <1>3, <1>4 DEF SNext, mpac_sort_app_bs

LEMMA UsesBarrier == SSpec => Spec
BY InitUsesBarrier, StepUsesBarrier, PTL DEF SSpec, Spec

-----------------------------------------------------------------------------
(* The inductive invariant: where each worker is tells how often it has    *)
(* called the barrier and that its flag is up; where main is tells whose   *)
(* flags are up and who has ended.                                         *)

ControlType ==
  /\ mpc \in {"fork", "divide", "raise", "join", "merge", "sort", "done"}
  /\ i \in Worker
  /\ flag \in [Worker -> {0, 1}]
  /\ wpc \in [Worker -> {"none", "poll", "barrier", "sort", "exited"}]

WorkerPlace ==
  \A w \in Worker :
    /\ wpc[w] \in {"none", "poll"} => pc[w] = "out" /\ calls[w] = 0
    /\ wpc[w] = "barrier" => calls[w] \in {0, 1}
    /\ wpc[w] = "sort" => pc[w] = "out" /\ calls[w] = 1
    /\ wpc[w] = "exited" => pc[w] = "out" /\ calls[w] = 2
    /\ flag[w] = 0 => wpc[w] \in {"none", "poll"}

MainPlace ==
  \A w \in Worker :
    /\ mpc = "fork" => (wpc[w] = "none" \/ w < i)
    /\ mpc \in {"fork", "divide"} => flag[w] = 0
    /\ mpc = "raise" => (flag[w] = 1 <=> w < i)
    /\ mpc = "join" /\ w < i => wpc[w] = "exited"
    /\ mpc \in {"merge", "sort", "done"} => wpc[w] = "exited"

SInv == ControlType /\ WorkerPlace /\ MainPlace

(* The places of main and the workers: at first, ...                       *)
LEMMA SInitInvariant == SInit => SInv
BY WorkerNumbers DEF SInit, Init, SInv, ControlType, WorkerPlace, MainPlace

(* The next turn of one of main's loops, or the end of it.                 *)
LEMMA AdvanceFacts ==
  ASSUME NEW from, NEW to, Advance(from, to), i \in Worker
  PROVE  /\ mpc = from
         /\ \/ mpc' = from /\ i' \in Worker /\ i' = i + 1
            \/ /\ mpc' = to /\ i' \in Worker /\ i' = 0
               /\ \A w \in Worker : w <= i
BY WorkerNumbers DEF Advance

(* ... after a step of main, ...                                           *)
LEMMA MainStep ==
  ASSUME SInv, TypeOK, Main
  PROVE  SInv'
<1> USE WorkerNumbers DEF SInv, ControlType, WorkerPlace, MainPlace, barrier
<1>1. CASE Fork
  <2>1. /\ mpc = "fork"
        /\ \/ mpc' = "fork" /\ i' \in Worker /\ i' = i + 1
           \/ mpc' = "divide" /\ i' \in Worker /\ i' = 0
    BY <1>1, AdvanceFacts DEF Fork
  <2>2. /\ wpc' = [wpc EXCEPT ![i] = "poll"]
        /\ UNCHANGED <<pc, calls, flag>>
    BY <1>1 DEF Fork
  <2>3. wpc[i] = "none"
    BY <2>1
  <2>4. QED
    BY <2>1, <2>2, <2>3
<1>2. CASE DividePieces \/ DivideBuckets
  <2>1. /\ mpc = "divide"
        /\ \/ mpc' = "divide" /\ i' \in Worker
           \/ mpc' = "raise" /\ i' \in Worker /\ i' = 0
    BY <1>2, AdvanceFacts DEF DividePieces, DivideBuckets
  <2>2. UNCHANGED <<pc, calls, flag, wpc>>
    BY <1>2 DEF DividePieces, DivideBuckets, worker
  <2>3. QED
    BY <2>1, <2>2
<1>3. CASE RaiseFlag
  <2>1. /\ mpc = "raise"
        /\ \/ mpc' = "raise" /\ i' \in Worker /\ i' = i + 1
           \/ mpc' = "join" /\ i' \in Worker /\ i' = 0
    BY <1>3, AdvanceFacts DEF RaiseFlag
  <2>2. /\ flag' = [flag EXCEPT ![i] = 1]
        /\ UNCHANGED <<pc, calls, wpc>>
    BY <1>3 DEF RaiseFlag, worker
  <2>3. QED
    BY <2>1, <2>2
<1>4. CASE Join
  <2>1. /\ mpc = "join" /\ wpc[i] = "exited"
        /\ \/ mpc' = "join" /\ i' \in Worker /\ i' = i + 1
           \/ /\ mpc' = "merge" /\ i' \in Worker
              /\ \A w \in Worker : w <= i
    BY <1>4, AdvanceFacts DEF Join
  <2>2. UNCHANGED <<pc, calls, flag, wpc>>
    BY <1>4 DEF Join, worker
  <2>3. QED
    BY <2>1, <2>2
<1>5. CASE MergePieces \/ MergeBuckets
  <2>1. /\ mpc = "merge" /\ mpc' \in {"merge", "sort", "done"} /\ i' \in Worker
    BY <1>5, AdvanceFacts DEF MergePieces, MergeBuckets
  <2>2. UNCHANGED <<pc, calls, flag, wpc>>
    BY <1>5 DEF MergePieces, MergeBuckets, worker
  <2>3. QED
    BY <2>1, <2>2
<1>6. CASE SortAll \/ AllSorted
  <2>1. /\ mpc = "sort" /\ mpc' \in {"sort", "done"}
        /\ UNCHANGED <<pc, calls, flag, wpc, i>>
    BY <1>6 DEF SortAll, AllSorted, worker
  <2>2. QED
    BY <2>1
<1>7. QED
  BY <1>1, <1>2, <1>3, <1>4, <1>5, <1>6 DEF Main

(* ... after a step of a worker, ...                                       *)
LEMMA WorkerStep ==
  ASSUME SInv, TypeOK, NEW w \in Worker, mpac_sort_app_bs(w)
  PROVE  SInv'
<1> USE DEF SInv, ControlType, WorkerPlace, MainPlace, TypeOK
<1>1. UNCHANGED <<mpc, i, flag>>
  BY DEF mpac_sort_app_bs, SeesFlag, InBarrier, BeginToSort, SortPart, PartSorted, Exit, mainvars, main
<1>2. CASE SeesFlag(w)
  BY <1>1, <1>2 DEF SeesFlag, barrier
<1>3. CASE InBarrier(w)
  <2>1. /\ wpc[w] = "barrier" /\ UNCHANGED <<calls, wpc>>
        /\ \A v \in Worker : pc[v] = "out" /\ v # w => pc'[v] = "out"
    BY <1>3 DEF InBarrier, Lock, ArriveAndWait, ArriveLast, Broadcast, Wake, worker
  <2>2. QED
    BY <1>1, <2>1
<1>4. CASE BeginToSort(w) \/ Exit(w)
  <2>1. /\ wpc[w] = "barrier"
        /\ pc' = [pc EXCEPT ![w] = "out"]
        /\ calls' = [calls EXCEPT ![w] = @ + 1]
        /\ wpc' = [wpc EXCEPT ![w] = IF calls[w] = 0 THEN "sort" ELSE "exited"]
    BY <1>4 DEF BeginToSort, Exit, Unlock
  <2>2. calls[w] \in {0, 1}
    BY <2>1
  <2>3. QED
    BY <1>1, <2>1, <2>2
<1>5. CASE SortPart(w)
  BY <1>1, <1>5 DEF SortPart, barrier
<1>7. CASE PartSorted(w)
  BY <1>1, <1>7 DEF PartSorted, barrier
<1>6. QED
  BY <1>2, <1>3, <1>4, <1>5, <1>7 DEF mpac_sort_app_bs

(* ... and so always.                                                      *)
LEMMA SInvariance == SSpec => []SInv
<1>1. SInv /\ TypeOK /\ [SNext]_svars => SInv'
  <2> SUFFICES ASSUME SInv, TypeOK, [SNext]_svars PROVE SInv'
    OBVIOUS
  <2>1. CASE UNCHANGED svars
    BY <2>1 DEF svars, main, worker, barrier, SInv, ControlType, WorkerPlace, MainPlace
  <2>2. QED
    BY <2>1, MainStep, WorkerStep DEF SNext, Over
<1>2. SSpec => []TypeOK
  BY UsesBarrier, TypeCorrect, PTL
<1>3. QED
  BY <1>1, <1>2, SInitInvariant, PTL DEF SSpec

-----------------------------------------------------------------------------
(* The barrier's lock keeps the number of workers initlock was given.      *)
LEMMA LockStaysSet == SSpec => [](nworker > 0)
<1>1. SInit => nworker > 0
  BY WorkerNumbers DEF SInit
<1>2. nworker > 0 /\ [SNext]_svars => (nworker > 0)'
  <2> SUFFICES ASSUME nworker > 0, [SNext]_svars PROVE nworker' = nworker
    OBVIOUS
  <2>1. [Next]_vars
    BY StepUsesBarrier
  <2>2. QED
    BY <2>1 DEF Next, Joined, Barrier, vars, lck, Lock, Refuse, ArriveAndWait,
                ArriveLast, Broadcast, Wake, Unlock
<1>3. QED
  BY <1>1, <1>2, PTL DEF SSpec

(* Main and the workers never use a part at the same time, and no worker   *)
(* begins to sort before all have their parts: while one sorts, between    *)
(* its first and its second barrier, so are all the others.                *)
THEOREM PartsAreHandedOver == SSpec => []HandOver
<1>1. SInv /\ NoOvertaking /\ nworker > 0 => HandOver
  <2> SUFFICES ASSUME SInv, NoOvertaking, nworker > 0,
                      NEW w \in Worker, wpc[w] = "sort", NEW v \in Worker
               PROVE  flag[v] = 1 /\ wpc[v] \in {"barrier", "sort"} /\ mpc = "join"
    BY DEF HandOver
  <2> USE DEF SInv, ControlType, WorkerPlace, MainPlace
  <2>1. Passed(w) = 1
    BY DEF Passed, Released
  <2>2. \A u \in Worker : Passed(u) = 1
    BY <2>1 DEF NoOvertaking
  <2>3. \A u \in Worker : wpc[u] \in {"barrier", "sort"}
    BY <2>2 DEF Passed, Released
  <2>4. \A u \in Worker : flag[u] = 1
    BY <2>3
  <2>5. mpc = "join"
    BY <2>3, <2>4, WorkerNumbers
  <2>6. QED
    BY <2>3, <2>4, <2>5
<1>2. SSpec => []NoOvertaking
  BY UsesBarrier, NobodyOvertakes, PTL
<1>3. QED
  BY <1>1, <1>2, SInvariance, LockStaysSet, PTL

-----------------------------------------------------------------------------
(* What is where: the part of the data that is worker w's, and what of it  *)
(* it has been given.                                                      *)
Source(w) ==
  {p \in 1 .. Len(given) :
     IF app_uc = "q" THEN w * PieceLen(given) < p /\ p <= (w + 1) * PieceLen(given)
                     ELSE IsIn(given[p], given, w)}

Taken(w) ==
  {p \in Source(w) : /\ mpc # "fork"
                     /\ mpc = "divide" => w < i \/ (w = i /\ p <= j)}

Below(n) == {p \in 1 .. Len(given) : given[p] < Low(given, n)}

DataType ==
  /\ given \in Seq(Value) /\ given # <<>> /\ app_uc \in {"b", "q"}
  /\ data_array \in Seq(Nat) /\ Len(data_array) = Len(given)
  /\ array_per_thr \in [Worker -> Seq(Nat)]
  /\ stack_per_thr \in [Worker -> Seq(CallType)]
  /\ stack \in Seq(CallType) /\ j \in Nat /\ k \in Nat

(* Each part is what was taken for it, in some order; it is being sorted,  *)
(* or has been.                                                            *)
Parts ==
  \A w \in Worker :
    /\ Rearranged(array_per_thr[w], 1 .. Len(array_per_thr[w]), given, Taken(w))
    /\ app_uc = "q" /\ mpc # "fork" /\ (mpc = "divide" => w < i)
         => Len(array_per_thr[w]) = PieceLen(given)
    /\ wpc[w] = "sort" => Sorting(array_per_thr[w], stack_per_thr[w])
    /\ wpc[w] = "exited" \/ (wpc[w] = "barrier" /\ calls[w] = 1) => InOrder(array_per_thr[w])

(* Main's array, before it merges, ...                                     *)
Given ==
  /\ mpc \in {"fork", "divide", "raise", "join"} => data_array = given /\ k = 0
  /\ IF mpc = "divide" THEN j < Len(given) /\ (app_uc = "q" => j = 0) ELSE j = 0

(* ... while it does, ...                                                  *)
Merged ==
  mpc = "merge" =>
    IF app_uc = "q"
    THEN /\ Rearranged(data_array, 1 .. i * PieceLen(given), given, 1 .. i * PieceLen(given))
         /\ \A p \in i * PieceLen(given) + 1 .. Len(given) : data_array[p] = given[p]
    ELSE /\ k <= Len(given)
         /\ Rearranged(data_array, 1 .. k, given, Below(i))
         /\ \A p \in 1 .. k, q \in 1 .. k : p < q => data_array[p] <= data_array[q]

(* ... and after that.                                                     *)
Whole ==
  /\ mpc \in {"sort", "done"} => Rearranged(data_array, 1 .. Len(given), given, 1 .. Len(given))
  /\ mpc = "sort" => Sorting(data_array, stack)
  /\ mpc = "done" => InOrder(data_array)

DInv == DataType /\ Parts /\ Given /\ Merged /\ Whole

(* What is where when main has forked nobody yet.                          *)
LEMMA DInitInvariant == SInit => DInv
<1> SUFFICES ASSUME SInit PROVE DInv
  OBVIOUS
<1>1. /\ given \in Arrays /\ app_uc \in UseCases /\ data_array = given
      /\ mpc = "fork" /\ i = 0 /\ j = 0 /\ k = 0 /\ stack = <<>>
      /\ array_per_thr = [w \in Worker |-> <<>>]
      /\ stack_per_thr = [w \in Worker |-> <<>>]
      /\ wpc = [w \in Worker |-> "none"]
  BY DEF SInit
<1>2. given \in Seq(Value) /\ given # <<>> /\ app_uc \in {"b", "q"}
  BY <1>1, SortAssumption
<1>3. DataType
  <2>1. given \in Seq(Nat)
    BY <1>2, ElementsOfData
  <2>2. <<>> \in Seq(Nat) /\ <<>> \in Seq(CallType)
    BY EmptySeq
  <2>3. QED
    BY <1>1, <1>2, <2>1, <2>2 DEF DataType
<1>4. Parts
  <2> SUFFICES ASSUME NEW w \in Worker
               PROVE  Rearranged(array_per_thr[w], 1 .. Len(array_per_thr[w]), given, Taken(w))
    BY <1>1 DEF Parts
  <2>1. Taken(w) = {}
    BY <1>1 DEF Taken
  <2>2. 1 .. Len(array_per_thr[w]) = {}
    BY <1>1, EmptySeq
  <2>3. Rearranged(array_per_thr[w], {}, given, {})
    BY RearrangedSame
  <2>4. QED
    BY <2>1, <2>2, <2>3
<1>5. QED
  BY <1>1, <1>3, <1>4 DEF DInv, Given, Merged, Whole

-----------------------------------------------------------------------------
(* The workers.                                                            *)
LEMMA WorkerKeepsData ==
  ASSUME SInv, TypeOK, DInv, NEW w \in Worker, mpac_sort_app_bs(w)
  PROVE  DInv'
<1>1. UNCHANGED <<given, app_uc, data_array, mpc, i, j, k, stack>>
  BY DEF mpac_sort_app_bs, SeesFlag, InBarrier, BeginToSort, SortPart, PartSorted, Exit, mainvars, main
<1>2. \A v \in Worker : Taken(v)' = Taken(v)
  BY <1>1 DEF Taken, Source, IsIn, PieceLen
<1>3. Given' /\ Merged' /\ Whole'
  <2>1. Given' /\ Whole'
    BY <1>1 DEF DInv, Given, Whole
  <2>2. Merged'
    BY <1>1 DEF DInv, Merged, Below, PieceLen, Low, Least, BucketWidth
  <2>3. QED
    BY <2>1, <2>2
<1>4. ASSUME array_per_thr' \in [Worker -> Seq(Nat)], stack_per_thr' \in [Worker -> Seq(CallType)],
             \A v \in Worker :
               /\ Rearranged(array_per_thr[v]', 1 .. Len(array_per_thr[v]'), given, Taken(v))
               /\ Len(array_per_thr[v]') = Len(array_per_thr[v])
               /\ wpc'[v] = "sort" => Sorting(array_per_thr[v]', stack_per_thr[v]')
               /\ wpc'[v] = "exited" \/ (wpc'[v] = "barrier" /\ calls'[v] = 1)
                    => InOrder(array_per_thr[v]')
      PROVE  DInv'
  <2>1. DataType'
    BY <1>1, <1>4 DEF DInv, DataType
  <2>2. Parts'
    <3> SUFFICES ASSUME NEW v \in Worker
                 PROVE  /\ Rearranged(array_per_thr'[v], 1 .. Len(array_per_thr'[v]), given', Taken(v)')
                        /\ app_uc' = "q" /\ mpc' # "fork" /\ (mpc' = "divide" => v < i')
                             => Len(array_per_thr'[v]) = PieceLen(given)'
                        /\ wpc'[v] = "sort" => Sorting(array_per_thr'[v], stack_per_thr'[v])
                        /\ wpc'[v] = "exited" \/ (wpc'[v] = "barrier" /\ calls'[v] = 1)
                             => InOrder(array_per_thr'[v])
      BY DEF Parts
    <3>1. app_uc = "q" /\ mpc # "fork" /\ (mpc = "divide" => v < i) => Len(array_per_thr[v]) = PieceLen(given)
      BY DEF DInv, Parts
    <3>2. PieceLen(given)' = PieceLen(given)
      BY <1>1 DEF PieceLen
    <3>3. QED
      BY <1>1, <1>2, <1>4, <3>1, <3>2
  <2>3. QED
    BY <1>3, <2>1, <2>2 DEF DInv
<1>5. /\ array_per_thr \in [Worker -> Seq(Nat)] /\ stack_per_thr \in [Worker -> Seq(CallType)]
      /\ wpc \in [Worker -> {"none", "poll", "barrier", "sort", "exited"}]
      /\ \A v \in Worker :
           /\ Rearranged(array_per_thr[v], 1 .. Len(array_per_thr[v]), given, Taken(v))
           /\ wpc[v] = "sort" => Sorting(array_per_thr[v], stack_per_thr[v]) /\ calls[v] = 1
           /\ wpc[v] = "exited" \/ (wpc[v] = "barrier" /\ calls[v] = 1) => InOrder(array_per_thr[v])
  BY DEF DInv, DataType, Parts, SInv, ControlType, WorkerPlace
<1>6. CASE SeesFlag(w)
  <2>1. calls[w] = 0
    BY <1>6 DEF SInv, WorkerPlace, SeesFlag
  <2>2. /\ UNCHANGED <<calls, array_per_thr, stack_per_thr>>
        /\ wpc' = [wpc EXCEPT ![w] = "barrier"]
    BY <1>6 DEF SeesFlag, barrier
  <2>3. QED
    BY <1>4, <1>5, <2>1, <2>2
<1>7. CASE InBarrier(w)
  <2>1. UNCHANGED <<calls, wpc, array_per_thr, stack_per_thr>>
    BY <1>7 DEF InBarrier, Lock, ArriveAndWait, ArriveLast, Broadcast, Wake, worker
  <2>2. QED
    BY <1>4, <1>5, <2>1
<1>8. CASE BeginToSort(w)
  <2>1. /\ UNCHANGED array_per_thr /\ calls' = [calls EXCEPT ![w] = @ + 1]
        /\ wpc' = [wpc EXCEPT ![w] = "sort"]
        /\ stack_per_thr' = [stack_per_thr EXCEPT ![w] = mpac_quicksort(array_per_thr[w])]
    BY <1>8 DEF BeginToSort, Unlock
  <2>2. Sorting(array_per_thr[w], mpac_quicksort(array_per_thr[w]))
    BY <1>5, SortingBegins
  <2>3. mpac_quicksort(array_per_thr[w]) \in Seq(CallType)
    BY <2>2 DEF Sorting
  <2> HIDE DEF mpac_quicksort
  <2>4. stack_per_thr' \in [Worker -> Seq(CallType)]
    BY <1>5, <2>1, <2>3
  <2>5. ASSUME NEW v \in Worker
        PROVE  /\ wpc'[v] = "sort" => Sorting(array_per_thr[v]', stack_per_thr[v]')
               /\ wpc'[v] = "exited" \/ (wpc'[v] = "barrier" /\ calls'[v] = 1)
                    => InOrder(array_per_thr[v]')
    <3>1. CASE v = w
      BY <1>5, <2>1, <2>2, <3>1
    <3>2. CASE v # w
      <4>1. wpc'[v] = wpc[v] /\ calls'[v] = calls[v] /\ stack_per_thr'[v] = stack_per_thr[v]
        BY <1>5, <2>1, <3>2 DEF TypeOK
      <4>2. QED
        BY <1>5, <2>1, <4>1
    <3>3. QED
      BY <3>1, <3>2
  <2>6. QED
    BY <1>4, <1>5, <2>1, <2>4, <2>5
<1>9. CASE SortPart(w)
  <2> DEFINE a == array_per_thr[w]
             t == Turn(a, stack_per_thr[w])
  <2>1. /\ UNCHANGED <<calls, wpc>> /\ wpc[w] = "sort" /\ stack_per_thr[w] # <<>>
        /\ array_per_thr' = [array_per_thr EXCEPT ![w] = t.a]
        /\ stack_per_thr' = [stack_per_thr EXCEPT ![w] = t.st]
    BY <1>9 DEF SortPart, barrier
  <2>2. /\ Sorting(t.a, t.st)
        /\ t.a = a \/ \E x \in 1 .. Len(a), y \in 1 .. Len(a) : t.a = Swapped(a, x, y)
    BY <1>5, <2>1, TurnKeeps
  <2>3. t.a \in Seq(Nat) /\ t.st \in Seq(CallType)
    BY <2>2 DEF Sorting
  <2>4. Rearranged(t.a, 1 .. Len(t.a), given, Taken(w)) /\ Len(t.a) = Len(a)
    <3>1. a \in Seq(Nat) /\ Rearranged(a, 1 .. Len(a), given, Taken(w))
      BY <1>5
    <3> HIDE DEF a, t
    <3>2. CASE t.a = a
      BY <3>1, <3>2
    <3>3. ASSUME NEW x \in 1 .. Len(a), NEW y \in 1 .. Len(a), t.a = Swapped(a, x, y)
          PROVE  Rearranged(t.a, 1 .. Len(t.a), given, Taken(w)) /\ Len(t.a) = Len(a)
      <4>1. Len(Swapped(a, x, y)) = Len(a)
        BY <3>1, SwapIs
      <4>2. Rearranged(Swapped(a, x, y), 1 .. Len(a), given, Taken(w))
        BY <3>1, RearrangedSwap
      <4>3. QED
        BY <3>3, <4>1, <4>2
    <3>4. QED
      BY <2>2, <3>2, <3>3
  <2> HIDE DEF t
  <2>5. array_per_thr' \in [Worker -> Seq(Nat)] /\ stack_per_thr' \in [Worker -> Seq(CallType)]
    BY <1>5, <2>1, <2>3
  <2>6. ASSUME NEW v \in Worker
        PROVE  /\ Rearranged(array_per_thr[v]', 1 .. Len(array_per_thr[v]'), given, Taken(v))
               /\ Len(array_per_thr[v]') = Len(array_per_thr[v])
               /\ wpc'[v] = "sort" => Sorting(array_per_thr[v]', stack_per_thr[v]')
               /\ wpc'[v] = "exited" \/ (wpc'[v] = "barrier" /\ calls'[v] = 1)
                    => InOrder(array_per_thr[v]')
    <3>1. CASE v = w
      <4>1. array_per_thr'[v] = t.a /\ stack_per_thr'[v] = t.st /\ wpc'[v] = "sort"
        BY <1>5, <2>1, <3>1
      <4>2. QED
        BY <2>2, <2>4, <3>1, <4>1
    <3>2. CASE v # w
      <4>1. array_per_thr'[v] = array_per_thr[v] /\ stack_per_thr'[v] = stack_per_thr[v]
        BY <1>5, <2>1, <3>2
      <4>2. QED
        BY <1>5, <2>1, <4>1
    <3>3. QED
      BY <3>1, <3>2
  <2>7. QED
    BY <1>4, <2>5, <2>6
<1>10. CASE PartSorted(w)
  <2>1. /\ UNCHANGED <<calls, array_per_thr, stack_per_thr>> /\ wpc[w] = "sort"
        /\ stack_per_thr[w] = <<>> /\ wpc' = [wpc EXCEPT ![w] = "barrier"]
    BY <1>10 DEF PartSorted, barrier
  <2>2. InOrder(array_per_thr[w])
    BY <1>5, <2>1, SortingEnds
  <2>3. QED
    BY <1>4, <1>5, <2>1, <2>2
<1>11. CASE Exit(w)
  <2>1. /\ UNCHANGED <<array_per_thr, stack_per_thr>> /\ calls' = [calls EXCEPT ![w] = @ + 1]
        /\ wpc[w] = "barrier" /\ calls[w] > 0 /\ wpc' = [wpc EXCEPT ![w] = "exited"]
    BY <1>11 DEF Exit, Unlock
  <2>2. InOrder(array_per_thr[w])
    BY <1>5, <2>1 DEF SInv, WorkerPlace
  <2>3. ASSUME NEW v \in Worker
        PROVE  /\ wpc'[v] = "sort" => Sorting(array_per_thr[v]', stack_per_thr[v]')
               /\ wpc'[v] = "exited" \/ (wpc'[v] = "barrier" /\ calls'[v] = 1)
                    => InOrder(array_per_thr[v]')
    <3>1. CASE v = w
      BY <1>5, <2>1, <2>2, <3>1
    <3>2. CASE v # w
      <4>1. wpc'[v] = wpc[v] /\ calls'[v] = calls[v]
        BY <1>5, <2>1, <3>2 DEF TypeOK
      <4>2. QED
        BY <1>5, <2>1, <4>1
    <3>3. QED
      BY <3>1, <3>2
  <2>4. QED
    BY <1>4, <1>5, <2>1, <2>3
<1>12. QED
  BY <1>6, <1>7, <1>8, <1>9, <1>10, <1>11 DEF mpac_sort_app_bs

-----------------------------------------------------------------------------
(* How main divides.                                                       *)
LEMMA PieceIs ==
  ASSUME NEW data \in Seq(Nat), NEW w \in Worker
  PROVE  /\ Piece(data, w) \in Seq(Nat) /\ Len(Piece(data, w)) = PieceLen(data)
         /\ Rearranged(Piece(data, w), 1 .. PieceLen(data), data,
                       w * PieceLen(data) + 1 .. w * PieceLen(data) + PieceLen(data))
<1> DEFINE P == PieceLen(data)
           f == w * PieceLen(data)
           part == Piece(data, w)
<1>1. P \in Nat /\ f \in Nat /\ f + P <= Len(data) /\ (w + 1) * P = f + P
      /\ Len(data) \in Nat /\ \A p \in 1 .. Len(data) : data[p] \in Nat
  BY PiecesFit, LenProperties
<1>2. part = SubSeq(data, f + 1, f + P)
  BY <1>1 DEF Piece
<1> HIDE DEF P, f, part
<1>3. \A p \in f + 1 .. f + P : data[p] \in Nat
  BY <1>1
<1>4. /\ part \in Seq(Nat) /\ Len(part) = P
      /\ \A p \in 1 .. P : part[p] = data[f + p]
  <2>1. /\ part \in Seq(Nat)
        /\ Len(part) = IF f + 1 <= f + P THEN (f + P) - (f + 1) + 1 ELSE 0
        /\ \A p \in 1 .. (f + P) - (f + 1) + 1 : part[p] = data[(f + 1) + p - 1]
    BY <1>1, <1>2, <1>3, SubSeqProperties
  <2>2. \A p \in 1 .. P : (f + 1) + p - 1 = f + p
    BY <1>1
  <2>3. (f + P) - (f + 1) + 1 = P
    BY <1>1
  <2>4. QED
    BY <1>1, <2>1, <2>2, <2>3
<1> DEFINE S == 1 .. P
           T == f + 1 .. f + P
           g == [p \in S |-> f + p]
<1>5. g \in [S -> T] /\ \A p \in S : g[p] = f + p
  BY <1>1
<1>6. \A p \in S, q \in S : g[p] = g[q] => p = q
  BY <1>1, <1>5
<1>7. \A t \in T : \E p \in S : g[p] = t
  <2> TAKE t \in T
  <2>1. t - f \in S /\ f + (t - f) = t
    BY <1>1
  <2>2. QED
    BY <1>5, <2>1
<1>8. \A p \in S : part[p] = data[g[p]]
  BY <1>4, <1>5
<1> HIDE DEF g
<1>9. Rearranged(part, S, data, T)
  BY <1>5, <1>6, <1>7, <1>8 DEF Rearranged
<1>10. QED
  BY <1>4, <1>9 DEF part, P, f

(* One element more on both sides.                                         *)
LEMMA RearrangedAppend ==
  ASSUME NEW a, NEW b \in Seq(Nat), NEW T, NEW t, t \notin T, a[t] \in Nat,
         Rearranged(b, 1 .. Len(b), a, T)
  PROVE  /\ Append(b, a[t]) \in Seq(Nat)
         /\ Rearranged(Append(b, a[t]), 1 .. Len(Append(b, a[t])), a, T \cup {t})
<1> DEFINE c == Append(b, a[t])
           n == Len(b)
<1>1. n \in Nat /\ c \in Seq(Nat) /\ Len(c) = n + 1
      /\ (\A p \in 1 .. n : c[p] = b[p]) /\ c[n + 1] = a[t]
  BY AppendProperties, LenProperties
<1> HIDE DEF c
<1>2. Rearranged(c, 1 .. n, a, T)
  BY <1>1, RearrangedEqual
<1>3. Rearranged(c, {n + 1}, a, {t})
  <2> DEFINE g == [p \in {n + 1} |-> t]
  <2>1. g \in [{n + 1} -> {t}] /\ g[n + 1] = t
    OBVIOUS
  <2> HIDE DEF g
  <2>2. QED
    BY <1>1, <2>1 DEF Rearranged
<1>4. 1 .. n \cap {n + 1} = {} /\ 1 .. n + 1 = 1 .. n \cup {n + 1}
  BY <1>1
<1>5. Rearranged(c, 1 .. n \cup {n + 1}, a, T \cup {t})
  <2> DEFINE S == 1 .. n
             U == {n + 1}
             V == {t}
  <2>1. T \cap V = {}
    OBVIOUS
  <2>2. Rearranged(c, S, a, T) /\ Rearranged(c, U, a, V) /\ S \cap U = {}
    BY <1>2, <1>3, <1>4, Zenon
  <2> HIDE DEF S, U, V
  <2>3. Rearranged(c, S \cup U, a, T \cup V)
    BY <2>1, <2>2, RearrangedTogether, Zenon
  <2>4. QED
    BY <2>3, Zenon DEF S, U, V
<1>6. QED
  BY <1>1, <1>4, <1>5 DEF c

(* The source of a piece is a stretch of the data.                         *)
LEMMA SourceOfPiece ==
  ASSUME app_uc = "q", given \in Seq(Nat), NEW w \in Worker
  PROVE  Source(w) = w * PieceLen(given) + 1 .. w * PieceLen(given) + PieceLen(given)
<1> DEFINE P == PieceLen(given)
           f == w * PieceLen(given)
           N == Len(given)
<1>1. P \in Nat /\ f \in Nat /\ N \in Nat /\ f + P <= N /\ (w + 1) * P = f + P
  BY PiecesFit, LenProperties
<1>2. Source(w) = {p \in 1 .. N : f < p /\ p <= f + P}
  <2>1. Source(w) = {p \in 1 .. N : f < p /\ p <= (w + 1) * P}
    BY DEF Source
  <2>2. QED
    BY <1>1, <2>1
<1> HIDE DEF P, f, N
<1>3. {p \in 1 .. N : f < p /\ p <= f + P} = f + 1 .. f + P
  <2>1. \A p : p \in 1 .. N /\ f < p /\ p <= f + P <=> p \in f + 1 .. f + P
    BY <1>1
  <2>2. QED
    BY <2>1
<1>4. QED
  BY <1>2, <1>3 DEF P, f

(* The data are natural numbers, at least one.                             *)
LEMMA GivenIs ==
  ASSUME DataType
  PROVE  /\ given \in Seq(Nat) /\ Len(given) \in Nat /\ Len(given) >= 1
         /\ \A p \in 1 .. Len(given) : given[p] \in Nat
BY ElementsOfData, Values DEF DataType

(* What a turn of main's loop over the workers changes.                    *)
LEMMA ForkKeepsData ==
  ASSUME SInv, TypeOK, DInv, Fork
  PROVE  DInv'
<1> USE DEF DInv
<1>1. /\ UNCHANGED <<given, app_uc, data_array, array_per_thr, stack_per_thr, j, k, stack, calls>>
      /\ wpc' = [wpc EXCEPT ![i] = "poll"] /\ mpc = "fork"
  BY DEF Fork, barrier, Advance
<1>2. i \in Worker /\ mpc' \in {"fork", "divide"} /\ i' \in Nat /\ (mpc' = "divide" => i' = 0)
  BY AdvanceFacts, WorkerNumbers DEF Fork, SInv, ControlType
<1>3. j = 0
  BY <1>1 DEF Given
<1>4. DataType'
  BY <1>1 DEF DataType
<1>5. \A v \in Worker : Taken(v) = {} /\ Taken(v)' = {}
  <2> TAKE v \in Worker
  <2>1. Taken(v) = {}
    BY <1>1 DEF Taken
  <2>2. v \in Nat /\ \A p \in Source(v)' : p \in Nat /\ ~(p <= 0)
    BY <1>1, GivenIs, WorkerNumbers DEF Source
  <2>3. Taken(v)' = {}
    <3>1. mpc' = "divide" => ~(v < i') /\ j' = 0
      BY <1>1, <1>2, <1>3, <2>2
    <3>2. QED
      BY <1>2, <2>2, <3>1 DEF Taken
  <2>4. QED
    BY <2>1, <2>3
<1>6. Parts'
  <2> SUFFICES ASSUME NEW v \in Worker
               PROVE  /\ Rearranged(array_per_thr'[v], 1 .. Len(array_per_thr'[v]), given', Taken(v)')
                      /\ app_uc' = "q" /\ mpc' # "fork" /\ (mpc' = "divide" => v < i')
                           => Len(array_per_thr'[v]) = PieceLen(given)'
                      /\ wpc'[v] = "sort" => Sorting(array_per_thr'[v], stack_per_thr'[v])
                      /\ wpc'[v] = "exited" \/ (wpc'[v] = "barrier" /\ calls'[v] = 1)
                           => InOrder(array_per_thr'[v])
    BY DEF Parts
  <2>1. wpc'[v] \in {"sort", "exited", "barrier"} => wpc'[v] = wpc[v]
    BY <1>1, <1>2 DEF SInv, ControlType
  <2>2. ~(v < 0)
    BY WorkerNumbers
  <2>3. mpc' # "fork" => mpc' = "divide" /\ ~(v < i')
    BY <1>2, <2>2
  <2>4. QED
    BY <1>1, <1>5, <2>1, <2>3 DEF Parts
<1>7. Given' /\ Merged' /\ Whole'
  <2>1. Len(given) > 0
    BY GivenIs
  <2>2. QED
    BY <1>1, <1>2, <1>3, <2>1 DEF Given, Merged, Whole
<1>8. QED
  BY <1>4, <1>6, <1>7

(* The workers poll, and so what is true of those that sort is.            *)
LEMMA WhileDividing ==
  ASSUME SInv, mpc = "divide", NEW v \in Worker
  PROVE  wpc[v] \in {"none", "poll"}
BY DEF SInv, ControlType, WorkerPlace, MainPlace

(* Dividing gives each worker what belongs to it, ...                      *)
LEMMA DividePiecesKeepsData ==
  ASSUME SInv, TypeOK, DInv, DividePieces
  PROVE  DInv'
<1> USE DEF DInv
<1>1. /\ UNCHANGED <<given, app_uc, data_array, stack_per_thr, j, k, stack, calls, wpc>>
      /\ app_uc = "q" /\ mpc = "divide"
      /\ array_per_thr' = [array_per_thr EXCEPT ![i] = Piece(given, i)]
  BY DEF DividePieces, barrier, worker, Given, Advance
<1>2. /\ i \in Worker
      /\ \/ mpc' = "divide" /\ i' \in Worker /\ i' = i + 1
         \/ mpc' = "raise" /\ \A w \in Worker : w <= i
  BY AdvanceFacts DEF DividePieces, SInv, ControlType
<1>3. j = 0
  BY <1>1 DEF Given
<1>4. given \in Seq(Nat) /\ \A v \in Worker : v \in Int
  BY GivenIs, WorkerNumbers
<1>5. /\ Piece(given, i) \in Seq(Nat) /\ Len(Piece(given, i)) = PieceLen(given)
      /\ Rearranged(Piece(given, i), 1 .. PieceLen(given), given, Source(i))
  BY <1>1, <1>2, <1>4, PieceIs, SourceOfPiece
<1>6. DataType'
  BY <1>1, <1>2, <1>5 DEF DataType
<1>7. ASSUME NEW v \in Worker
      PROVE  /\ Rearranged(array_per_thr'[v], 1 .. Len(array_per_thr'[v]), given, Taken(v)')
             /\ mpc' # "fork" /\ (mpc' = "divide" => v < i')
                  => Len(array_per_thr'[v]) = PieceLen(given)
  <2>1. Source(v)' = Source(v) /\ \A p \in Source(v) : p \in Int /\ ~(p <= 0)
    BY <1>1, GivenIs DEF Source, PieceLen, IsIn
  <2>2. CASE v = i
    <3>1. Taken(v)' = Source(v)
      BY <1>2, <1>4, <2>1, <2>2 DEF Taken
    <3>2. array_per_thr'[v] = Piece(given, i)
      BY <1>1, <1>2, <2>2 DEF DataType
    <3>3. QED
      BY <1>5, <2>2, <3>1, <3>2
  <2>3. CASE v # i
    <3>1. Taken(v)' = Taken(v)
      BY <1>1, <1>2, <1>3, <1>4, <2>1, <2>3 DEF Taken
    <3>2. array_per_thr'[v] = array_per_thr[v]
      BY <1>1, <1>2, <2>3 DEF DataType
    <3>3. mpc' # "fork" /\ (mpc' = "divide" => v < i') => v < i
      BY <1>2, <1>4, <2>3
    <3>4. QED
      BY <1>1, <3>1, <3>2, <3>3 DEF Parts
  <2>4. QED
    BY <2>2, <2>3
<1>8. Parts'
  <2>1. \A v \in Worker : wpc'[v] \in {"none", "poll"}
    BY <1>1, WhileDividing
  <2>2. PieceLen(given)' = PieceLen(given)
    BY <1>1 DEF PieceLen
  <2>3. QED
    BY <1>1, <1>7, <2>1, <2>2 DEF Parts
<1>9. Given' /\ Merged' /\ Whole'
  BY <1>1, <1>2, <1>3 DEF Given, Merged, Whole
<1>10. QED
  BY <1>6, <1>8, <1>9

(* ... by buckets one element after the other.                             *)
LEMMA DivideBucketsKeepsData ==
  ASSUME SInv, TypeOK, DInv, DivideBuckets
  PROVE  DInv'
<1> USE DEF DInv
<1> DEFINE N == Len(given)
<1>1. /\ UNCHANGED <<given, app_uc, data_array, stack_per_thr, k, stack, calls, wpc>>
      /\ app_uc = "b" /\ mpc = "divide" /\ data_array = given
      /\ array_per_thr' = [array_per_thr EXCEPT ![i] =
            IF IsIn(given[j + 1], given, i) THEN Append(@, given[j + 1]) ELSE @]
  BY DEF DivideBuckets, barrier, worker, Given
<1>2. i \in Worker /\ j \in Nat /\ j < N /\ N \in Nat
  BY <1>1, GivenIs DEF SInv, ControlType, DataType, Given
<1>3. \/ mpc' = "divide" /\ i' = i /\ j' = j + 1 /\ j + 1 < N
      \/ j' = 0 /\ j + 1 = N /\ mpc' = "divide" /\ i' \in Worker /\ i' = i + 1
      \/ j' = 0 /\ j + 1 = N /\ mpc' = "raise" /\ \A w \in Worker : w <= i
  <2>1. CASE j + 1 < N
    BY <1>1, <2>1 DEF DivideBuckets
  <2>2. CASE ~(j + 1 < N)
    <3>1. j' = 0 /\ Advance("divide", "raise") /\ j + 1 = N
      BY <1>1, <1>2, <2>2 DEF DivideBuckets
    <3>2. QED
      BY <1>2, <3>1, AdvanceFacts
  <2>3. QED
    BY <2>1, <2>2
<1>4. j + 1 \in 1 .. N /\ given[j + 1] \in Nat /\ \A v \in Worker : v \in Int
  BY <1>2, GivenIs, WorkerNumbers
<1> HIDE DEF N
<1>5. \A v \in Worker : /\ Source(v)' = Source(v)
                        /\ \A p \in Source(v) : p \in Int /\ 1 <= p /\ p <= N
                        /\ j + 1 \in Source(v) <=> IsIn(given[j + 1], given, v)
  BY <1>1, <1>2, <1>4 DEF Source, PieceLen, IsIn, N
<1>6. ASSUME NEW v \in Worker
      PROVE  /\ array_per_thr'[v] \in Seq(Nat)
             /\ Rearranged(array_per_thr'[v], 1 .. Len(array_per_thr'[v]), given, Taken(v)')
  <2>1. /\ array_per_thr[v] \in Seq(Nat)
        /\ Rearranged(array_per_thr[v], 1 .. Len(array_per_thr[v]), given, Taken(v))
    BY DEF DataType, Parts
  <2>2. CASE v = i /\ IsIn(given[j + 1], given, i)
    <3>1. Taken(v) = {p \in Source(v) : p <= j}
      BY <1>1, <1>2, <1>4, <2>2 DEF Taken
    <3>2. Taken(v)' = {p \in Source(v) : p <= j + 1}
      BY <1>2, <1>3, <1>4, <1>5, <2>2 DEF Taken
    <3>3. Taken(v)' = Taken(v) \cup {j + 1} /\ j + 1 \notin Taken(v)
      BY <1>2, <1>5, <2>2, <3>1, <3>2
    <3>4. array_per_thr'[v] = Append(array_per_thr[v], given[j + 1])
      BY <1>1, <1>2, <2>2 DEF DataType
    <3>5. QED
      <4> DEFINE t == j + 1
                 T == Taken(v)
                 b == array_per_thr[v]
      <4>1. b \in Seq(Nat) /\ t \notin T /\ given[t] \in Nat /\ Rearranged(b, 1 .. Len(b), given, T)
        BY <1>4, <2>1, <3>3
      <4>2. array_per_thr'[v] = Append(b, given[t]) /\ Taken(v)' = T \cup {t}
        BY <3>3, <3>4
      <4> HIDE DEF t, T, b
      <4>3. /\ Append(b, given[t]) \in Seq(Nat)
            /\ Rearranged(Append(b, given[t]), 1 .. Len(Append(b, given[t])), given, T \cup {t})
        BY <4>1, RearrangedAppend
      <4>4. QED
        BY <4>2, <4>3
  <2>3. CASE v = i /\ ~IsIn(given[j + 1], given, i)
    <3>1. Taken(v) = {p \in Source(v) : p <= j}
      BY <1>1, <1>2, <1>4, <2>3 DEF Taken
    <3>2. Taken(v)' = {p \in Source(v) : p <= j + 1}
      BY <1>2, <1>3, <1>4, <1>5, <2>3 DEF Taken
    <3>3. Taken(v)' = Taken(v)
      BY <1>2, <1>5, <2>3, <3>1, <3>2
    <3>4. array_per_thr'[v] = array_per_thr[v]
      BY <1>1, <1>2, <2>3 DEF DataType
    <3>5. QED
      BY <2>1, <3>3, <3>4
  <2>4. CASE v # i
    <3>1. Taken(v) = {p \in Source(v) : v < i}
      BY <1>1, <1>2, <1>4, <2>4 DEF Taken
    <3>4. Taken(v)' = {p \in Source(v) : v < i}
      <4>1. CASE mpc' = "divide" /\ i' = i
        BY <1>2, <1>4, <1>5, <2>4, <4>1 DEF Taken
      <4>2. CASE mpc' = "divide" /\ i' = i + 1 /\ j' = 0
        <5>1. \A p \in Source(v) : ~(p <= j')
          BY <1>5, <4>2
        <5>2. v < i' <=> v < i
          BY <1>2, <1>4, <2>4, <4>2
        <5>3. QED
          BY <1>5, <4>2, <5>1, <5>2 DEF Taken
      <4>3. CASE mpc' = "raise" /\ \A u \in Worker : u <= i
        <5>1. v < i
          BY <1>2, <1>4, <2>4, <4>3
        <5>2. QED
          BY <1>5, <4>3, <5>1 DEF Taken
      <4>4. QED
        BY <1>3, <4>1, <4>2, <4>3
    <3>2. array_per_thr'[v] = array_per_thr[v]
      BY <1>1, <1>2, <2>4 DEF DataType
    <3>3. QED
      BY <2>1, <3>1, <3>2, <3>4
  <2>5. QED
    BY <2>2, <2>3, <2>4
<1>7. DataType'
  <2>1. array_per_thr' \in [Worker -> Seq(Nat)]
    <3>1. DOMAIN array_per_thr' = Worker /\ array_per_thr' = [v \in Worker |-> array_per_thr'[v]]
      BY <1>1 DEF DataType
    <3>2. QED
      BY <1>6, <3>1
  <2>2. j' \in Nat
    BY <1>2, <1>3
  <2>3. QED
    BY <1>1, <2>1, <2>2 DEF DataType
<1>8. Parts'
  <2>1. \A v \in Worker : wpc'[v] \in {"none", "poll"}
    BY <1>1, WhileDividing
  <2>2. app_uc' # "q"
    BY <1>1
  <2>3. QED
    BY <1>1, <1>6, <2>1, <2>2 DEF Parts
<1>9. Given' /\ Merged' /\ Whole'
  <2>1. mpc' \in {"divide", "raise"} /\ (mpc' # "divide" => j' = 0) /\ j' < Len(given)
    BY <1>2, <1>3 DEF N
  <2>2. QED
    BY <1>1, <2>1 DEF Given, Merged, Whole
<1>10. QED
  BY <1>7, <1>8, <1>9

(* After that the parts belong to the workers, and main leaves them alone. *)
LEMMA PartsStay ==
  ASSUME DInv, mpc \notin {"fork", "divide"}, mpc' \notin {"fork", "divide"},
         UNCHANGED <<given, app_uc, array_per_thr, stack_per_thr, wpc, calls>>
  PROVE  Parts'
<1>1. \A v \in Worker : Taken(v)' = Taken(v)
  BY DEF Taken, Source, PieceLen, IsIn
<1>2. PieceLen(given)' = PieceLen(given)
  BY DEF PieceLen
<1>3. QED
  BY <1>1, <1>2 DEF DInv, Parts

(* Main raises the flags and joins.                                        *)
LEMMA RaiseFlagKeepsData ==
  ASSUME SInv, TypeOK, DInv, RaiseFlag
  PROVE  DInv'
<1>1. /\ UNCHANGED <<given, app_uc, data_array, array_per_thr, stack_per_thr, j, k, stack, calls, wpc>>
      /\ mpc = "raise" /\ mpc' \in {"raise", "join"}
  BY DEF RaiseFlag, Advance, barrier, worker
<1>2. Parts'
  BY <1>1, PartsStay
<1>3. DataType' /\ Given' /\ Merged' /\ Whole'
  BY <1>1 DEF DInv, DataType, Given, Merged, Whole
<1>4. QED
  BY <1>2, <1>3 DEF DInv

LEMMA JoinKeepsData ==
  ASSUME SInv, TypeOK, DInv, Join
  PROVE  DInv'
<1>1. /\ UNCHANGED <<given, app_uc, data_array, array_per_thr, stack_per_thr, j, k, stack, calls, wpc>>
      /\ mpc = "join" /\ (mpc' = "join" \/ (mpc' = "merge" /\ i' = 0))
  BY DEF Join, Advance, barrier, worker
<1>2. Parts'
  BY <1>1, PartsStay
<1>3. DataType' /\ Given' /\ Whole'
  BY <1>1 DEF DInv, DataType, Given, Whole
<1>4. ASSUME mpc' = "merge" PROVE Merged'
  <2>1. i' = 0 /\ data_array = given /\ k = 0 /\ DataType
    BY <1>1, <1>4 DEF DInv, Given
  <2>2. /\ PieceLen(given) \in Nat
        /\ Low(given, 0) \in Nat /\ \A p \in 1 .. Len(given) : Low(given, 0) <= given[p] /\ given[p] \in Nat
    <3>1. PieceLen(given) \in Nat
      BY <2>1, GivenIs, PiecesFit, WorkerNumbers
    <3>2. 0 \in 0 .. num_thrs
      BY WorkerNumbers
    <3>3. QED
      BY <2>1, <3>1, <3>2, GivenIs, BucketsHoldAll DEF DataType
  <2>3. 0 * PieceLen(given) = 0 /\ 1 .. 0 = {}
    BY <2>2
  <2>4. Below(0) = {}
    BY <2>2 DEF Below
  <2>5. Rearranged(given, {}, given, {})
    BY RearrangedSame
  <2>6. PieceLen(given)' = PieceLen(given) /\ Below(i)' = Below(0)
    BY <1>1, <2>1 DEF PieceLen, Below, Low, Least, BucketWidth
  <2>7. 0 <= Len(given) /\ Len(given) \in Nat
    BY <2>1, GivenIs
  <2>8. CASE app_uc = "q"
    BY <1>1, <2>1, <2>3, <2>5, <2>6, <2>8 DEF Merged
  <2>9. CASE app_uc # "q"
    BY <1>1, <2>1, <2>3, <2>4, <2>5, <2>6, <2>7, <2>9 DEF Merged
  <2>10. QED
    BY <2>8, <2>9
<1>5. Merged'
  BY <1>1, <1>4 DEF Merged
<1>6. QED
  BY <1>2, <1>3, <1>5 DEF DInv

(* A part copied back is where it was put, and nothing else has changed.   *)
LEMMA CopiedBackIs ==
  ASSUME data_array \in Seq(Nat), NEW w \in Worker, array_per_thr[w] \in Seq(Nat),
         NEW from \in Nat, from + Len(array_per_thr[w]) <= Len(data_array)
  PROVE  /\ CopiedBack(w, from) \in Seq(Nat) /\ Len(CopiedBack(w, from)) = Len(data_array)
         /\ \A p \in 1 .. Len(array_per_thr[w]) : CopiedBack(w, from)[from + p] = array_per_thr[w][p]
         /\ \A p \in 1 .. Len(data_array) :
              p <= from \/ p > from + Len(array_per_thr[w]) => CopiedBack(w, from)[p] = data_array[p]
<1> DEFINE b == array_per_thr[w]
           n == Len(b)
           N == Len(data_array)
           c == CopiedBack(w, from)
<1>1. n \in Nat /\ N \in Nat /\ DOMAIN data_array = 1 .. N /\ from + n <= N
      /\ (\A p \in 1 .. n : b[p] \in Nat) /\ \A p \in 1 .. N : data_array[p] \in Nat
  BY LenProperties, ElementOfSeq
<1>2. c = [p \in 1 .. N |-> IF p \in from + 1 .. from + n THEN b[p - from] ELSE data_array[p]]
  BY <1>1 DEF CopiedBack
<1> HIDE DEF b, n, N, c
<1>3. \A p \in from + 1 .. from + n : p - from \in 1 .. n
  BY <1>1
<1>4. c \in [1 .. N -> Nat]
  BY <1>1, <1>2, <1>3
<1>5. c \in Seq(Nat) /\ Len(c) = N
  BY <1>1, <1>4
<1>6. \A p \in 1 .. n : c[from + p] = b[p]
  <2> TAKE p \in 1 .. n
  <2>1. from + p \in 1 .. N /\ from + p \in from + 1 .. from + n /\ (from + p) - from = p
    BY <1>1
  <2>2. QED
    BY <1>2, <2>1
<1>7. \A p \in 1 .. N : p <= from \/ p > from + n => c[p] = data_array[p]
  <2> SUFFICES ASSUME NEW p \in 1 .. N, p <= from \/ p > from + n PROVE c[p] = data_array[p]
    OBVIOUS
  <2>1. p \notin from + 1 .. from + n
    BY <1>1
  <2>2. QED
    BY <1>2, <2>1
<1>8. QED
  BY <1>5, <1>6, <1>7 DEF b, n, N, c

(* Two stretches that follow each other.                                   *)
LEMMA RearrangedOneAfterTheOther ==
  ASSUME NEW a, NEW b, NEW T, NEW V, NEW m \in Nat, NEW n \in Nat, m <= n,
         Rearranged(b, 1 .. m, a, T), Rearranged(b, m + 1 .. n, a, V), T \cap V = {}
  PROVE  Rearranged(b, 1 .. n, a, T \cup V)
<1> DEFINE S == 1 .. m
           U == m + 1 .. n
<1>1. S \cap U = {} /\ S \cup U = 1 .. n
  OBVIOUS
<1>2. Rearranged(b, S, a, T) /\ Rearranged(b, U, a, V)
  OBVIOUS
<1> HIDE DEF S, U
<1>3. QED
  BY <1>1, <1>2, RearrangedTogether

(* The calls depend on the length alone.                                   *)
LEMMA SortOf ==
  ASSUME NEW a, NEW b, Len(a) = Len(b)
  PROVE  mpac_quicksort(a) = mpac_quicksort(b)
BY DEF mpac_quicksort

(* Each piece is copied back to where it came from.                        *)
LEMMA MergePiecesKeepsData ==
  ASSUME SInv, TypeOK, DInv, MergePieces
  PROVE  DInv'
<1> DEFINE P == PieceLen(given)
           f == i * P
           N == Len(given)
           b == array_per_thr[i]
<1>1. /\ UNCHANGED <<given, app_uc, array_per_thr, stack_per_thr, j, k, calls, wpc>>
      /\ mpc = "merge" /\ app_uc = "q"
      /\ data_array' = CopiedBack(i, i * PieceLen(data_array))
      /\ stack' = IF mpc' = "sort" THEN mpac_quicksort(data_array) ELSE stack
  BY DEF MergePieces, Advance, barrier, worker
<1>2. /\ i \in Worker
      /\ \/ mpc' = "merge" /\ i' \in Worker /\ i' = i + 1
         \/ mpc' = "sort" /\ \A w \in Worker : w <= i
  BY AdvanceFacts DEF MergePieces, SInv, ControlType
<1>3. /\ data_array \in Seq(Nat) /\ Len(data_array) = N /\ PieceLen(data_array) = P
      /\ b \in Seq(Nat) /\ given \in Seq(Nat) /\ N \in Nat
  BY <1>2, GivenIs DEF DInv, DataType, PieceLen
<1>4. /\ P \in Nat /\ f \in Nat /\ f + P <= N /\ (i + 1) * P = f + P /\ i \in Nat
  <2>1. /\ P \in Nat /\ f \in Nat /\ (i + 1) * P = f + P /\ (i + 1) * P \in 0 .. N
    BY <1>2, <1>3, PiecesFit
  <2>2. i \in Nat
    BY <1>2, WorkerNumbers
  <2> HIDE DEF P, f, N
  <2>3. QED
    BY <1>3, <2>1, <2>2
<1>5. /\ Len(b) = P
      /\ Rearranged(b, 1 .. P, given, f + 1 .. f + P)
  <2>1. Taken(i) = Source(i)
    BY <1>1 DEF Taken
  <2>2. Source(i) = f + 1 .. f + P
    BY <1>1, <1>2, <1>3, SourceOfPiece
  <2>3. QED
    BY <1>1, <1>2, <2>1, <2>2 DEF DInv, Parts
<1>6. /\ data_array' \in Seq(Nat) /\ Len(data_array') = N
      /\ \A p \in 1 .. P : data_array'[f + p] = b[p]
      /\ \A p \in 1 .. N : p <= f \/ p > f + P => data_array'[p] = data_array[p]
  <2> HIDE DEF P, N
  <2>1. f + Len(b) <= Len(data_array) /\ data_array' = CopiedBack(i, f)
    BY <1>1, <1>3, <1>4, <1>5
  <2> HIDE DEF f
  <2>2. /\ data_array \in Seq(Nat) /\ i \in Worker /\ f \in Nat
        /\ array_per_thr[i] \in Seq(Nat) /\ f + Len(array_per_thr[i]) <= Len(data_array)
    BY <1>2, <1>3, <1>4, <2>1
  <2>3. b = array_per_thr[i] /\ Len(data_array) = N /\ Len(b) = P
    BY <1>3, <1>5
  <2> HIDE DEF b
  <2>4. QED
    BY <2>1, <2>2, <2>3, CopiedBackIs
<1>7. /\ Rearranged(data_array, 1 .. f, given, 1 .. f)
      /\ \A p \in f + 1 .. N : data_array[p] = given[p]
  BY <1>1 DEF DInv, Merged
<1> HIDE DEF P, f, N, b
<1>8. Rearranged(data_array', 1 .. f + P, given, 1 .. f + P)
  <2>1. Rearranged(data_array', 1 .. f, given, 1 .. f)
    <3>1. \A p \in 1 .. f : data_array'[p] = data_array[p]
      BY <1>3, <1>4, <1>6
    <3>2. QED
      BY <1>7, <3>1, RearrangedEqual
  <2>2. Rearranged(data_array', f + 1 .. f + P, given, f + 1 .. f + P)
    BY <1>4, <1>5, <1>6, RearrangedBehind
  <2>3. 1 .. f \cap f + 1 .. f + P = {} /\ 1 .. f \cup f + 1 .. f + P = 1 .. f + P
        /\ f + P \in Nat /\ f <= f + P
    BY <1>4
  <2>4. Rearranged(data_array', 1 .. f + P, given, 1 .. f \cup f + 1 .. f + P)
    BY <1>4, <2>1, <2>2, <2>3, RearrangedOneAfterTheOther
  <2>5. QED
    BY <2>3, <2>4
<1>9. \A p \in f + P + 1 .. N : data_array'[p] = given[p]
  <2> TAKE p \in f + P + 1 .. N
  <2>1. p \in 1 .. N /\ p > f + P /\ p \in f + 1 .. N
    BY <1>3, <1>4
  <2>2. QED
    BY <1>6, <1>7, <2>1
<1>10. Rearranged(data_array', 1 .. N, given, 1 .. N)
  <2>1. Rearranged(data_array', f + P + 1 .. N, given, f + P + 1 .. N)
    BY <1>9, RearrangedSame
  <2>2. 1 .. f + P \cap f + P + 1 .. N = {} /\ 1 .. f + P \cup f + P + 1 .. N = 1 .. N
    BY <1>3, <1>4
  <2>3. f + P \in Nat /\ f + P <= N
    BY <1>4
  <2>4. Rearranged(data_array', 1 .. N, given, 1 .. f + P \cup f + P + 1 .. N)
    BY <1>3, <1>8, <2>1, <2>2, <2>3, RearrangedOneAfterTheOther
  <2>5. QED
    BY <2>2, <2>4
<1>11. DataType'
  <2>1. stack' \in Seq(CallType)
    BY <1>1, <1>3, SortingBegins DEF Sorting, DInv, DataType
  <2>2. QED
    BY <1>1, <1>6, <2>1 DEF DInv, DataType, N
<1>12. Parts'
  BY <1>1, <1>2, PartsStay
<1>13. Given'
  BY <1>1, <1>2 DEF DInv, Given
<1>14. Merged'
  <2> SUFFICES ASSUME mpc' = "merge" PROVE Merged'
    BY DEF Merged
  <2>1. i' * P = f + P
    BY <1>2, <1>4
  <2>2. PieceLen(given)' = P
    BY <1>1 DEF PieceLen, P
  <2>3. QED
    BY <1>1, <1>8, <1>9, <2>1, <2>2 DEF Merged, N
<1>15. Whole'
  <2>1. Rearranged(data_array', 1 .. Len(given)', given', 1 .. Len(given)')
    BY <1>1, <1>10 DEF N
  <2>2. mpc' = "sort" => Sorting(data_array', stack')
    <3>1. Sorting(data_array', mpac_quicksort(data_array'))
      BY <1>6, SortingBegins
    <3>2. mpac_quicksort(data_array') = mpac_quicksort(data_array)
      BY <1>3, <1>6, SortOf
    <3>3. QED
      BY <1>1, <3>1, <3>2
  <2>3. QED
    BY <1>2, <2>1, <2>2 DEF Whole
<1>16. QED
  BY <1>11, <1>12, <1>13, <1>14, <1>15 DEF DInv

(* Each element is there already.                                          *)
LEMMA RearrangedFrom ==
  ASSUME NEW a, NEW b, NEW n, NEW T, Rearranged(b, 1 .. n, a, T), NEW p \in 1 .. n
  PROVE  \E t \in T : b[p] = a[t]
<1> DEFINE S == 1 .. n
<1>1. Rearranged(b, S, a, T) /\ p \in S
  OBVIOUS
<1> HIDE DEF S
<1>2. QED
  BY <1>1 DEF Rearranged

(* The buckets before i are in order, and hold what is below bucket i.     *)
LEMMA MergeBucketsKeepsData ==
  ASSUME SInv, TypeOK, DInv, MergeBuckets
  PROVE  DInv'
<1> DEFINE N == Len(given)
           b == array_per_thr[i]
           n == Len(b)
           T == Below(i)
           U == Source(i)
           c == [p \in 1 .. k + n |-> IF p <= k THEN data_array[p] ELSE b[p - k]]
<1>1. /\ UNCHANGED <<given, app_uc, array_per_thr, stack_per_thr, j, stack, calls, wpc>>
      /\ mpc = "merge" /\ app_uc = "b"
      /\ data_array' = CopiedBack(i, k) /\ k' = k + n
  BY DEF MergeBuckets, Advance, barrier, worker
<1>2. /\ i \in Worker
      /\ \/ mpc' = "merge" /\ i' \in Worker /\ i' = i + 1
         \/ mpc' = "done" /\ i + 1 = num_thrs
  <2>1. /\ i \in Worker
        /\ \/ mpc' = "merge" /\ i' \in Worker /\ i' = i + 1
           \/ mpc' = "done" /\ \A w \in Worker : w <= i
    BY AdvanceFacts DEF MergeBuckets, SInv, ControlType
  <2>2. QED
    BY <2>1, WorkerNumbers
<1>3. /\ data_array \in Seq(Nat) /\ Len(data_array) = N /\ given \in Seq(Value) /\ given # <<>>
      /\ b \in Seq(Nat) /\ n \in Nat /\ k \in Nat /\ N \in Nat
      /\ \A p \in 1 .. N : given[p] \in Nat
  BY <1>2, GivenIs, LenProperties DEF DInv, DataType
<1>4. /\ Low(given, i) \in Nat /\ Low(given, i + 1) \in Nat /\ Low(given, i) <= Low(given, i + 1)
      /\ \A x \in Nat : IsIn(x, given, i) <=> Low(given, i) <= x /\ x < Low(given, i + 1)
      /\ \A p \in 1 .. N : given[p] < Low(given, num_thrs)
  <2>1. i \in 0 .. num_thrs /\ i + 1 \in 0 .. num_thrs
    BY <1>2, WorkerNumbers
  <2>2. QED
    BY <1>2, <1>3, <2>1, BucketsHoldAll
<1>5. /\ T = {p \in 1 .. N : given[p] < Low(given, i)}
      /\ U = {p \in 1 .. N : Low(given, i) <= given[p] /\ given[p] < Low(given, i + 1)}
      /\ Below(i + 1) = {p \in 1 .. N : given[p] < Low(given, i + 1)}
  <2>1. U = {p \in 1 .. N : IsIn(given[p], given, i)}
    BY <1>1 DEF Source
  <2>2. QED
    BY <1>3, <1>4, <2>1 DEF Below
<1>6. /\ Rearranged(b, 1 .. n, given, U) /\ InOrder(b)
      /\ Rearranged(data_array, 1 .. k, given, T) /\ k <= N
      /\ \A p \in 1 .. k, q \in 1 .. k : p < q => data_array[p] <= data_array[q]
  <2>1. Taken(i) = Source(i)
    BY <1>1 DEF Taken
  <2>2. wpc[i] = "exited"
    BY <1>1, <1>2 DEF SInv, MainPlace
  <2>3. QED
    BY <1>1, <1>2, <2>1, <2>2 DEF DInv, Parts, Merged
<1> HIDE DEF N, b, n, T, U
<1>7. T \cap U = {} /\ T \cup U = Below(i + 1) /\ T \subseteq 1 .. N /\ U \subseteq 1 .. N
  <2> DEFINE x == Low(given, i)
             z == Low(given, i + 1)
  <2>1. /\ x \in Nat /\ z \in Nat /\ x <= z /\ \A p \in 1 .. N : given[p] \in Nat
        /\ T = {p \in 1 .. N : given[p] < x}
        /\ U = {p \in 1 .. N : x <= given[p] /\ given[p] < z}
        /\ Below(i + 1) = {p \in 1 .. N : given[p] < z}
    BY <1>3, <1>4, <1>5
  <2> HIDE DEF x, z
  <2>2. \A p \in 1 .. N : /\ ~(given[p] < x /\ x <= given[p])
                         /\ given[p] < z <=> given[p] < x \/ (x <= given[p] /\ given[p] < z)
    BY <2>1
  <2>3. QED
    BY <2>1, <2>2, Zenon
<1>8. /\ \A p \in 1 .. k : c[p] = data_array[p]
      /\ \A p \in 1 .. n : c[k + p] = b[p]
  <2>1. \A p \in 1 .. k : p \in 1 .. k + n /\ p <= k
    BY <1>3
  <2>2. \A p \in 1 .. n : k + p \in 1 .. k + n /\ ~(k + p <= k) /\ (k + p) - k = p
    BY <1>3
  <2>3. QED
    BY <2>1, <2>2
<1> HIDE DEF c
<1>9. Rearranged(c, 1 .. k + n, given, Below(i + 1))
  <2>1. Rearranged(c, 1 .. k, given, T)
    BY <1>6, <1>8, RearrangedEqual
  <2>2. Rearranged(c, k + 1 .. k + n, given, U)
    BY <1>3, <1>6, <1>8, RearrangedBehind
  <2>3. k + n \in Nat /\ k <= k + n
    BY <1>3
  <2>4. Rearranged(c, 1 .. k + n, given, T \cup U)
    BY <1>3, <1>7, <2>1, <2>2, <2>3, RearrangedOneAfterTheOther
  <2>5. QED
    BY <1>7, <2>4
<1>10. k + n <= N /\ (Below(i + 1) = 1 .. N => k + n = N)
  <2>1. k + n \in Nat /\ Below(i + 1) \in SUBSET (1 .. N)
    <3>1. k + n \in Nat
      BY <1>3
    <3>2. \A S : T \subseteq S /\ U \subseteq S => T \cup U \subseteq S
      OBVIOUS
    <3>3. QED
      BY <1>7, <3>1, <3>2
  <2>2. QED
    BY <1>3, <1>9, <2>1, RearrangedFits
<1>11. /\ data_array' \in Seq(Nat) /\ Len(data_array') = N
       /\ \A p \in 1 .. n : data_array'[k + p] = b[p]
       /\ \A p \in 1 .. N : p <= k \/ p > k + n => data_array'[p] = data_array[p]
  BY <1>1, <1>2, <1>3, <1>10, CopiedBackIs DEF b, n
<1>12. \A p \in 1 .. k + n : \/ p \in 1 .. k /\ data_array'[p] = data_array[p] /\ c[p] = data_array[p]
                             \/ p - k \in 1 .. n /\ data_array'[p] = b[p - k] /\ c[p] = b[p - k]
  <2> TAKE p \in 1 .. k + n
  <2>1. CASE p <= k
    <3>1. p \in 1 .. k /\ p \in 1 .. N
      BY <1>3, <1>10, <2>1
    <3>2. QED
      BY <1>8, <1>11, <2>1, <3>1
  <2>2. CASE p > k
    <3>1. p - k \in 1 .. n /\ k + (p - k) = p
      BY <1>3, <2>2
    <3>2. QED
      BY <1>8, <1>11, <3>1
  <2>3. QED
    BY <1>3, <2>1, <2>2
<1>13. Rearranged(data_array', 1 .. k + n, given, Below(i + 1))
  <2>1. \A p \in 1 .. k + n : data_array'[p] = c[p]
    BY <1>12
  <2>2. QED
    BY <1>9, <2>1, RearrangedEqual
<1>14. ASSUME NEW p \in 1 .. k + n, NEW q \in 1 .. k + n, p < q
       PROVE  data_array'[p] <= data_array'[q]
  <2>1. CASE q \in 1 .. k
    <3>1. p \in 1 .. k
      BY <1>3, <1>14, <2>1
    <3>2. p \in 1 .. N /\ q \in 1 .. N /\ p <= k /\ q <= k
      BY <1>3, <1>6, <2>1, <3>1
    <3>3. data_array'[p] = data_array[p] /\ data_array'[q] = data_array[q]
      BY <1>11, <3>2
    <3>4. QED
      BY <1>6, <1>14, <2>1, <3>1, <3>3
  <2>2. CASE p \in 1 .. k /\ q \notin 1 .. k
    <3>1. q - k \in 1 .. n /\ data_array'[q] = b[q - k]
      BY <1>12, <2>2
    <3>2. data_array'[p] = data_array[p]
      <4>1. p \in 1 .. N /\ p <= k
        BY <1>3, <1>6, <2>2
      <4>2. QED
        BY <1>11, <4>1
    <3>3. PICK t \in T : data_array[p] = given[t]
      BY <1>6, <2>2, RearrangedFrom
    <3>4. PICK u \in U : b[q - k] = given[u]
      BY <1>6, <3>1, RearrangedFrom
    <3>5. given[t] \in Nat /\ given[u] \in Nat /\ given[t] < Low(given, i) /\ Low(given, i) <= given[u]
      BY <1>3, <1>5, <1>7, <3>3, <3>4
    <3>6. given[t] <= given[u]
      BY <1>4, <3>5
    <3>7. QED
      BY <3>1, <3>2, <3>3, <3>4, <3>6
  <2>3. CASE p \notin 1 .. k /\ q \notin 1 .. k
    <3>1. p - k \in 1 .. n /\ q - k \in 1 .. n /\ data_array'[p] = b[p - k] /\ data_array'[q] = b[q - k]
      BY <1>12, <2>3
    <3>2. p - k < q - k
      BY <1>3, <1>14
    <3>3. QED
      BY <1>6, <3>1, <3>2 DEF InOrder, n
  <2>4. QED
    BY <2>1, <2>2, <2>3
<1>15. DataType'
  BY <1>1, <1>3, <1>11 DEF DInv, DataType, N, n
<1>16. Parts'
  BY <1>1, <1>2, PartsStay
<1>17. Given'
  BY <1>1, <1>2 DEF DInv, Given
<1>18. Merged'
  <2> SUFFICES ASSUME mpc' = "merge" PROVE Merged'
    BY DEF Merged
  <2>1. Below(i)' = Below(i + 1)
    BY <1>1, <1>2 DEF Below, Low, Least, BucketWidth
  <2>2. QED
    BY <1>1, <1>10, <1>13, <1>14, <2>1 DEF Merged, N, n
<1>19. Whole'
  <2> SUFFICES ASSUME mpc' = "done"
               PROVE  Rearranged(data_array', 1 .. N, given, 1 .. N) /\ InOrder(data_array')
    BY <1>1, <1>2 DEF Whole, N
  <2>1. Below(i + 1) = 1 .. N
    <3>1. i + 1 = num_thrs
      BY <1>2
    <3>2. QED
      BY <1>4, <1>5, <3>1
  <2>2. k + n = N
    BY <1>10, <2>1
  <2>3. QED
    BY <1>11, <1>13, <1>14, <2>1, <2>2 DEF InOrder
<1>20. QED
  BY <1>15, <1>16, <1>17, <1>18, <1>19 DEF DInv

(* Main sorts the whole.                                                   *)
LEMMA SortAllKeepsData ==
  ASSUME SInv, TypeOK, DInv, SortAll
  PROVE  DInv'
<1> DEFINE t == Turn(data_array, stack)
<1>1. /\ UNCHANGED <<given, app_uc, array_per_thr, stack_per_thr, j, k, calls, wpc, mpc, i>>
      /\ mpc = "sort" /\ stack # <<>> /\ data_array' = t.a /\ stack' = t.st
  BY DEF SortAll, barrier, worker
<1>2. /\ Sorting(data_array, stack)
      /\ Rearranged(data_array, 1 .. Len(given), given, 1 .. Len(given))
      /\ data_array \in Seq(Nat) /\ Len(data_array) = Len(given)
  BY <1>1 DEF DInv, DataType, Whole
<1>3. /\ Sorting(t.a, t.st)
      /\ t.a = data_array \/ \E x \in 1 .. Len(data_array), y \in 1 .. Len(data_array) :
                               t.a = Swapped(data_array, x, y)
  BY <1>1, <1>2, TurnKeeps
<1> HIDE DEF t
<1>4. /\ data_array' \in Seq(Nat) /\ Len(data_array') = Len(given)
      /\ Rearranged(data_array', 1 .. Len(given), given, 1 .. Len(given))
  <2>1. CASE t.a = data_array
    BY <1>1, <1>2, <2>1
  <2>2. ASSUME NEW x \in 1 .. Len(data_array), NEW y \in 1 .. Len(data_array),
               t.a = Swapped(data_array, x, y)
        PROVE  /\ data_array' \in Seq(Nat) /\ Len(data_array') = Len(given)
               /\ Rearranged(data_array', 1 .. Len(given), given, 1 .. Len(given))
    <3>1. /\ Swapped(data_array, x, y) \in Seq(Nat)
          /\ Len(Swapped(data_array, x, y)) = Len(data_array)
      BY <1>2, SwapIs
    <3>2. Rearranged(Swapped(data_array, x, y), 1 .. Len(data_array), given, 1 .. Len(given))
      BY <1>2, RearrangedSwap
    <3>3. QED
      BY <1>1, <1>2, <2>2, <3>1, <3>2
  <2>3. QED
    BY <1>3, <2>1, <2>2
<1>5. Parts'
  BY <1>1, PartsStay
<1>6. DataType'
  <2>1. stack' \in Seq(CallType)
    BY <1>1, <1>3 DEF Sorting
  <2>2. QED
    BY <1>1, <1>4, <2>1 DEF DInv, DataType
<1>7. Given' /\ Merged'
  BY <1>1 DEF DInv, Given, Merged
<1>8. Whole'
  BY <1>1, <1>3, <1>4 DEF Whole
<1>9. QED
  BY <1>5, <1>6, <1>7, <1>8 DEF DInv

LEMMA AllSortedKeepsData ==
  ASSUME SInv, TypeOK, DInv, AllSorted
  PROVE  DInv'
<1>1. /\ UNCHANGED <<given, app_uc, array_per_thr, stack_per_thr, j, k, calls, wpc, data_array, stack>>
      /\ mpc = "sort" /\ stack = <<>> /\ mpc' = "done"
  BY DEF AllSorted, barrier, worker
<1>2. InOrder(data_array)
  BY <1>1, SortingEnds DEF DInv, Whole
<1>3. Parts'
  BY <1>1, PartsStay
<1>4. DataType' /\ Given' /\ Merged' /\ Whole'
  BY <1>1, <1>2 DEF DInv, DataType, Given, Merged, Whole
<1>5. QED
  BY <1>3, <1>4 DEF DInv

(* Together: the invariant of the data holds always.                       *)
LEMMA DInvariance == SSpec => []DInv
<1>1. DInv /\ SInv /\ TypeOK /\ [SNext]_svars => DInv'
  <2> SUFFICES ASSUME DInv, SInv, TypeOK, [SNext]_svars PROVE DInv'
    OBVIOUS
  <2>1. CASE UNCHANGED svars
    <3>1. UNCHANGED <<given, app_uc, data_array, array_per_thr, stack_per_thr, mpc, i, j, k, stack, calls, wpc>>
      BY <2>1 DEF svars, main, worker, barrier
    <3>2. \A v \in Worker : Taken(v)' = Taken(v)
      BY <3>1 DEF Taken, Source, IsIn, PieceLen
    <3>3. Parts'
      BY <3>1, <3>2 DEF DInv, Parts, PieceLen
    <3>4. QED
      BY <3>1, <3>3 DEF DInv, DataType, Given, Merged, Whole, Below, PieceLen, Low, Least, BucketWidth
  <2>2. CASE Main
    BY <2>2, ForkKeepsData, DividePiecesKeepsData, DivideBucketsKeepsData, RaiseFlagKeepsData,
       JoinKeepsData, MergePiecesKeepsData, MergeBucketsKeepsData, SortAllKeepsData,
       AllSortedKeepsData DEF Main
  <2>3. CASE \E w \in Worker : mpac_sort_app_bs(w)
    BY <2>3, WorkerKeepsData
  <2>4. QED
    BY <2>1, <2>2, <2>3 DEF SNext, Over
<1>2. SSpec => []TypeOK
  BY UsesBarrier, TypeCorrect, PTL
<1>3. QED
  BY <1>1, <1>2, SInvariance, DInitInvariant, PTL DEF SSpec

(* The program sorts, whatever the number of workers, the use case and the *)
(* data: what is left in main's array is what was generated, in order.     *)
THEOREM DataIsSorted == SSpec => []Sorted
<1>1. DInv => Sorted
  <2> SUFFICES ASSUME DInv, mpc = "done" PROVE Sorted
    BY DEF Sorted
  <2> DEFINE N == Len(given)
  <2>1. /\ InOrder(data_array) /\ Rearranged(data_array, 1 .. N, given, 1 .. N)
        /\ Len(data_array) = N /\ N \in Nat
        /\ DOMAIN data_array = 1 .. N /\ DOMAIN given = 1 .. N
    <3>1. Len(data_array) = N /\ N \in Nat /\ data_array \in Seq(Nat) /\ given \in Seq(Nat)
      BY GivenIs DEF DInv, DataType
    <3>2. QED
      BY <3>1, LenProperties DEF DInv, Whole
  <2> HIDE DEF N
  <2>2. \A m \in 1 .. Len(data_array) - 1 : data_array[m] <= data_array[m + 1]
    <3> TAKE m \in 1 .. Len(data_array) - 1
    <3>1. m \in 1 .. N /\ m + 1 \in 1 .. N /\ m < m + 1
      BY <2>1
    <3>2. QED
      BY <2>1, <3>1 DEF InOrder
  <2>3. \A x : HowOften(data_array, 1 .. N, x) = HowOften(given, 1 .. N, x)
    BY <2>1, FS_Interval, RearrangedOften
  <2>4. QED
    BY <2>1, <2>2, <2>3 DEF Sorted, HowOften
<1>2. QED
  BY <1>1, DInvariance, PTL

(* Main, its flags and its workers are always at a place of the program,   *)
(* and the array generated and the use case stay what they are.            *)
THEOREM SortTypeCorrect == SSpec => []STypeOK
<1>1. SInit => given \in Arrays /\ app_uc \in UseCases
  BY DEF SInit
<1>2. given \in Arrays /\ app_uc \in UseCases /\ [SNext]_svars
        => (given \in Arrays /\ app_uc \in UseCases)'
  <2> SUFFICES ASSUME [SNext]_svars PROVE UNCHANGED <<given, app_uc>>
    OBVIOUS
  <2>1. CASE Main
    BY <2>1 DEF Main, Fork, DividePieces, DivideBuckets, RaiseFlag, Join,
                MergePieces, MergeBuckets, SortAll, AllSorted
  <2>2. CASE \E w \in Worker : mpac_sort_app_bs(w)
    BY <2>2 DEF mpac_sort_app_bs, SeesFlag, InBarrier, BeginToSort, SortPart, PartSorted, Exit, mainvars
  <2>3. QED
    BY <2>1, <2>2 DEF SNext, Over, svars
<1>3. SSpec => []TypeOK
  BY UsesBarrier, TypeCorrect, PTL
<1>4. TypeOK /\ SInv /\ DInv /\ given \in Arrays /\ app_uc \in UseCases => STypeOK
  BY DEF SInv, ControlType, DInv, DataType, STypeOK
<1>5. QED
  BY <1>1, <1>2, <1>3, <1>4, SInvariance, DInvariance, PTL DEF SSpec
=============================================================================
