------------------------------ MODULE MCTrends ------------------------------
(* Two sources of points. *)
EXTENDS Trends
CONSTANTS s1, s2
=============================================================================
