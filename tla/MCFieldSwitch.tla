--------------------------- MODULE MCFieldSwitch ---------------------------
(* FieldSwitch with two stations that may trade two teams, and a settings  *)
(* save that leaves goroutines with the Switch object before it.           *)
EXTENDS FieldSwitch, TLC
CONSTANTS red, blue, t1, t2, a, b, c
Symmetry ==
  Permutations(Stations) \cup Permutations(Teams) \cup Permutations(Switches) \cup Permutations(Bouncers)
=============================================================================
