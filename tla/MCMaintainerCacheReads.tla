----------------------- MODULE MCMaintainerCacheReads -----------------------
(* Constants of the TLC runs of MaintainerCacheReads.                      *)
EXTENDS MaintainerCacheReads, TLC

\* The variants are interchangeable.
Symmetry == Permutations(Variants)
=============================================================================
