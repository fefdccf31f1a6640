-------------------------- MODULE MCCachingStorage --------------------------
(***************************************************************************)
(* Model checking of CachingStorage.  Readings are interchangeable where   *)
(* none is Invalid (a listing is sorted by stamps that are all different,  *)
(* so no choice depends on the reading), and so are writers.               *)
(***************************************************************************)
EXTENDS CachingStorage, TLC

Symmetry == Permutations(Readings) \cup Permutations(Writers)
=============================================================================
