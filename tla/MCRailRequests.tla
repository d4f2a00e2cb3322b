--------------------------- MODULE MCRailRequests ---------------------------
(* Three provider calls, two workers that lease two at a time, two attempts *)
(* each.                                                                    *)
EXTENDS RailRequests

CONSTANTS p1, p2, p3, s1, s2
=============================================================================
