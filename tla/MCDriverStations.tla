-------------------------- MODULE MCDriverStations --------------------------
(* DriverStations on two stations, two teams and two connections: a driver  *)
(* station that reconnects, and a team that moves to the other station.     *)
EXTENDS DriverStations, TLC
CONSTANTS s1, s2, c1, c2
ConnSymmetry == Permutations({c1, c2})
=============================================================================
