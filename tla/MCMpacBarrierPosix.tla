------------------------- MODULE MCMpacBarrierPosix -------------------------
(* TLC instance of MpacBarrierPosix: two threads that call it twice.       *)
EXTENDS MpacBarrierPosix
=============================================================================
