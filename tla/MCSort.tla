------------------------------- MODULE MCSort -------------------------------
(* TLC instance of Sort: arrays of up to MaxLen small numbers, in every    *)
(* order, divided between the workers evenly or not.                       *)
EXTENDS Sort

CONSTANTS MaxLen, MaxValue

MCArrays == UNION {[1 .. n -> 0 .. MaxValue] : n \in 1 .. MaxLen}
=============================================================================
