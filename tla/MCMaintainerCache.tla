-------------------------- MODULE MCMaintainerCache --------------------------
(* Constants of the TLC runs of MaintainerCache.                           *)
EXTENDS MaintainerCache, TLC

\* The variants are interchangeable.
Symmetry == Permutations(Variants)
=============================================================================
