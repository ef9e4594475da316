---------------------------- MODULE MCTimeSeries -----------------------------
(* An instance of TimeSeries for TLC: the second system has samples from the  *)
(* second day on, and the history of the two metrics has different days.      *)
EXTENDS TimeSeries

MCHistory == <<{2, 3}, {2}>>
MCSince == [s1 |-> 1, s2 |-> 4]
=============================================================================
