--------------------------- MODULE MCAccessPoint ---------------------------
(* AccessPoint with one team that may sit in either of two stations.        *)
EXTENDS AccessPoint
CONSTANTS red, blue, t1, k1, k2, p1, p2
=============================================================================
