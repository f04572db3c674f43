----------------------------- MODULE MCSniffer1Q -----------------------------
(* TLC instance of Sniffer1Q: two workers that share three slots unevenly  *)
(* in the mode that only counts, more workers than slots in this mode and  *)
(* in one that receives again, and a slot for each.                        *)
EXTENDS Sniffer1Q

MCOptions ==
  { [numwrkr |-> 2, Q_len |-> 3, execution_mode |-> 3],
    [numwrkr |-> 2, Q_len |-> 1, execution_mode |-> 3],
    [numwrkr |-> 2, Q_len |-> 1, execution_mode |-> 4],
    [numwrkr |-> 2, Q_len |-> 2, execution_mode |-> 5] }

MCPackets == {[kind |-> "tcp", len |-> 1], [kind |-> "ip", len |-> 2],
              [kind |-> "bad", len |-> 1], [kind |-> "other", len |-> 2]}
=============================================================================
