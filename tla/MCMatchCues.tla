---------------------------- MODULE MCMatchCues ----------------------------
(* MatchCues with the default durations, with a warmup and no pause, and    *)
(* with a teleop that is shorter than its shifts, to be switched between.   *)
EXTENDS MatchCues
Default == [warmup |-> 0, auto |-> 20, pause |-> 3, teleop |-> 140, warning |-> 30,
            fallback |-> "full", artNet |-> FALSE]
Warmup == [Default EXCEPT !.warmup = 3, !.pause = 0, !.fallback = "binary"]
Short == [Default EXCEPT !.teleop = 135, !.fallback = "solid", !.artNet = TRUE]
ThreeSettings == {Default, Warmup, Short}
DefaultOnly == {Default}
=============================================================================
