-------------------------- MODULE MCCachingAdapter --------------------------
(* Instances of CachingAdapter for TLC.                                    *)
EXTENDS CachingAdapter, TLC

Symmetric == Permutations(Procs) \cup Permutations(Ids)
=============================================================================
