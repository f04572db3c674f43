-------------------------- MODULE MpacBarrierPosix --------------------------
(***************************************************************************)
(* MpacBarrier with the one freedom POSIX gives pthread_cond_wait besides: *)
(* it may return without a broadcast.  The barrier calls it once, outside  *)
(* any loop that would look at the count again.                            *)
(***************************************************************************)
EXTENDS MpacBarrier

SpuriousWake(w) ==
  /\ pc[w] = "waiting"
  /\ pc' = [pc EXCEPT ![w] = "woken"]
  /\ UNCHANGED <<lck, calls>>

NextPosix == Next \/ \E w \in Worker : SpuriousWake(w)

SpecPosix == Init /\ [][NextPosix]_vars

-----------------------------------------------------------------------------
(* All threads start work at the same time, as the header of the barrier   *)
(* says: a worker that has returned from its call number k leaves none     *)
(* behind that has not come to its own call number k.                      *)
StartTogether ==
  nworker > 0 =>
    \A v, w \in Worker :
      calls[v] > calls[w] => Passed(w) >= calls[v]
=============================================================================
