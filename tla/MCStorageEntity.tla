--------------------------- MODULE MCStorageEntity ---------------------------
(* Instances of StorageEntity for TLC.                                      *)
EXTENDS StorageEntity

CONSTANTS n1, n2, r1, r2

\* The requests run the same code on the same tables.
Requests == Permutations(Request)

\* What follows a move that went wrong is of no interest to a property that is
\* about moves that went well.
WhileKept == ~stray
=============================================================================
