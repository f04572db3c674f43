------------------------------- MODULE MCNet --------------------------------
(* TLC instance of Net: three threads on each side.  With a count and TCP, *)
(* no, one or two messages for each thread, so that they fit or do not fit *)
(* into a socket's buffer; with UDP fewer messages than threads or as      *)
(* many.  With an alarm, thread 0 sends one message before it, and each    *)
(* thread may send after it.                                               *)
EXTENDS Net

MCSetups ==
  [protocol_num : {"TCP"}, torm : {"M"}, num_msg : {2, 3, 6}]
    \cup [protocol_num : {"UDP"}, torm : {"M"}, num_msg : {1, 3}]
    \cup [protocol_num : {"TCP", "UDP"}, torm : {"T"}, num_msg : {1}]

MCMaxTimed == [t \in Thread |-> IF t = 0 THEN 2 ELSE 1]
=============================================================================
