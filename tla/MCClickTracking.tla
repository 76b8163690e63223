--------------------------- MODULE MCClickTracking ---------------------------
(* A small instance of ClickTracking for TLC.                              *)
EXTENDS ClickTracking, TLC

Symmetric == Permutations(Requests) \cup Permutations(Visitors)
=============================================================================
