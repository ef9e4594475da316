--------------------------- MODULE MCNotification ----------------------------
(* Constants of the TLC runs of Notification.                              *)
EXTENDS Notification, TLC

\* The systems are interchangeable, and so are the keys of the parity groups.
Symmetry == Permutations(System) \cup Permutations(Key)
=============================================================================
