----------------------------- MODULE MCCacheCtc -----------------------------
(* TLC instance of CacheCtc: every combination of the options below.       *)
EXTENDS CacheCtc

CONSTANTS MaxBlocks, MaxBound, MaxItrs

MCOptions ==
  [dataset_sz : {k * 8 * mpac_K : k \in 0 .. MaxBlocks}, block_sz : {8 * mpac_K},
   lbound_sync : -1 .. MaxBound, ubound_sync : -1 .. MaxBound,
   itrs_w : 0 .. 1, itrs_bm : 0 .. MaxItrs,
   cwarm : {YES, NO}, exclusion : {YES, NO}]
=============================================================================
