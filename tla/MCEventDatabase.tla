-------------------------- MODULE MCEventDatabase --------------------------
(* EventDatabase with one team and one match; one upload has a layout that *)
(* cannot be rendered, the other no settings at all.                       *)
EXTENDS EventDatabase, TLC
CONSTANTS team, match, p1, p2, r, c, f1, f2, f3, s1, s2, s3, s4
TwoUploads ==
  {[records |-> {team}, settings |-> [security |-> TRUE, layout |-> "invalid"]],
   [records |-> {match}, settings |-> None]}
Overlapping == Permutations(Restorers) \cup Permutations(Clearers) \cup Permutations(Files) \cup Permutations(Structures)
Symmetry == Permutations(Posters) \cup Permutations(Files) \cup Permutations(Structures)
=============================================================================
