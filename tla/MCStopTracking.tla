--------------------------- MODULE MCStopTracking ---------------------------
(* Instances of StopTracking: one station whose panel has its e-stop and,   *)
(* in the order of openGPIO, which lists the field e-stop last, the inputs  *)
(* that come after it.                                                      *)
EXTENDS StopTracking
CONSTANT s1

EStopOf(name) == [station |-> name, isAStop |-> FALSE, live |-> TRUE]
AStopOf(name) == [station |-> name, isAStop |-> TRUE, live |-> TRUE]

OnePanel == {1}
OneOwned == <<<<s1>>>>
AllThreeInputs == <<<<EStopOf(s1), AStopOf(s1), EStopOf(All)>>>>
EStopAndField == <<<<EStopOf(s1), EStopOf(All)>>>>
=============================================================================
