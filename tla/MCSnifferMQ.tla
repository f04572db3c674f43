----------------------------- MODULE MCSnifferMQ -----------------------------
(* TLC instance of SnifferMQ: queues of length 0 to MaxQ, for one worker   *)
(* or split between two, evenly or not.                                    *)
EXTENDS SnifferMQ

CONSTANT MaxQ

(* Mode 4 of sniffer_MQ_optimized does nothing the others do not.          *)
MCOptions ==
  {o \in [optimized : BOOLEAN, numwrkr : 1 .. 2, Q_len : 0 .. MaxQ,
          execution_mode : 3 .. 4] : o.optimized => o.execution_mode = 3}
=============================================================================
