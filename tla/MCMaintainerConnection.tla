----------------------- MODULE MCMaintainerConnection -----------------------
(* Constants of the TLC runs of MaintainerConnection.                      *)
EXTENDS MaintainerConnection, TLC

\* Sockets are interchangeable, and so are the systems.
Symmetry == Permutations(System) \cup Permutations(Socket)
=============================================================================
