---------------------------- MODULE MCEStopPanel ----------------------------
(* EStopPanel with a station's e-stop and the field e-stop, and requests    *)
(* that wire the one or both of them.                                       *)
EXTENDS EStopPanel, TLC
CONSTANTS i1, i2
\* The station's button is released, in travel or cut (both open), or
\* unreadable; the field button rests.
Moving == [i \in {i1, i2} |-> IF i = i1 THEN {Released, <<1, 1>>, Unreadable} ELSE {Released}]
SamplerSymmetry == Permutations(Samplers)  \* identities only
TwoInputs == {{i1}, {i1, i2}}
=============================================================================
