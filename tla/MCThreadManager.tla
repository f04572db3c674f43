--------------------------- MODULE MCThreadManager ---------------------------
(* TLC instance of ThreadManager: startj before startd, as in the test     *)
(* mpac_thr_test, and end, which no program of the repository uses.  Every *)
(* other program is in MCDisk.                                             *)
EXTENDS ThreadManager

MCEnd == { <<"init", "fork", "end">> }
MCDetach == { startj \o startd }
=============================================================================
