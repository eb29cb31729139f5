------------------------------ MODULE MCArena ------------------------------
(* An instance of Arena: one station with its e-stop on a panel.            *)
EXTENDS Arena
CONSTANT s1

OnePanel == {1}
OneOwned == <<<<s1>>>>
EStopOnly == <<<<[station |-> s1, isAStop |-> FALSE, live |-> TRUE]>>>>
=============================================================================
