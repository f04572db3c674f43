---------------------------- MODULE MCMpacBarrier ----------------------------
(* TLC instance of MpacBarrier: four threads, enough for a sleeper of one *)
(* round, a woken thread of the round before and a newcomer at once.       *)
EXTENDS MpacBarrier
=============================================================================
