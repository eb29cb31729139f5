------------------------------ MODULE Shutdown ------------------------------
(***************************************************************************)
(* The arena while the process is told to stop (main's signal goroutine):  *)
(* Arena.DisableAll stores a bypass for one station after another, without *)
(* arena.mu, and the match loop runs on for the 600 ms before the exit.    *)
(***************************************************************************)
EXTENDS Arena

VARIABLES
  shutdown,   \* "no", "storing" in DisableAll, "waiting" for a packet, "done" after one
  unstored,   \* the stations DisableAll has still to store
  undone      \* history: the stations whose bypass a toggle stored since DisableAll did,
              \* or which a match was started with although it was off

shutdownVars == <<shutdown, unstored, undone>>
ShutdownInit == Init /\ shutdown = "no" /\ unstored = Stations /\ undone = {}

Signal ==
  /\ shutdown = "no" /\ shutdown' = "storing"
  /\ UNCHANGED <<vars, unstored, undone>>

DisableNext(s) ==
  /\ shutdown = "storing" /\ s \in unstored
  /\ bypass' = [bypass EXCEPT ![s] = TRUE]
  /\ unstored' = unstored \ {s} /\ undone' = undone \ {s}
  /\ shutdown' = IF unstored' = {} THEN "waiting" ELSE "storing"
  /\ UNCHANGED <<matchVars, configVars, linkVars, eStop, aStop, eStopFault, fieldVars,
                 fieldLive, tickVars, pending>>

(* The first tick that sends a packet after DisableAll is done with. *)
Served == IF shutdown = "waiting" THEN "done" ELSE shutdown
PacketTick ==
  /\ \/ \E over \in BOOLEAN : TickBegin(over, TRUE)
     \/ TickRestore(TRUE)
     \/ \E over \in BOOLEAN : TickBegin(over, FALSE) /\ robot' # robot
  /\ shutdown' = Served
  /\ UNCHANGED <<unstored, undone>>

(* The station whose toggle of a kind this step stores, if it stores one.   *)
Stored(op) == {s \in Stations : \E c \in Clients :
                 /\ pending[c] # NoOp /\ pending'[c] = NoOp
                 /\ pending[c].op = op /\ pending[c].station = s}

(* The stations this step starts a match with and does not find bypassed.   *)
StartedWith ==
  IF matchState = "PreMatch" /\ matchState' = "StartMatch" THEN {s \in Stations : ~bypass[s]} ELSE {}

(* The web server and its handlers, the loop and the driver stations run on *)
(* as before the signal.  StopTracking adds the panel reports and the reset *)
(* of the field, which touch none of these histories.                       *)
RunOn ==
  /\ \/ \E over \in BOOLEAN : TickBegin(over, FALSE) /\ robot' = robot
     \/ TickClear \/ TickRestore(FALSE) \/ TickField \/ TickEnd
     \/ \E answered \in BOOLEAN : PollPanel(answered)
     \/ Environment \/ Operating \/ Toggle
  /\ undone' = IF shutdown = "no" THEN undone
               ELSE undone \cup Stored("toggleBypass") \cup StartedWith
  /\ UNCHANGED <<shutdown, unstored>>
ShutdownStep == Signal \/ (\E s \in Stations : DisableNext(s)) \/ PacketTick \/ RunOn

-----------------------------------------------------------------------------
(* "DisableAll sets Bypass on every alliance station so the next DS packet  *)
(* disables all robots. Safe to call from any goroutine": the first packet  *)
(* sent after DisableAll leaves no robot enabled, but at two kinds of       *)
(* stations: those whose bypass a toggle stored since, and those with which *)
(* an operator has since started a match and whose bypass, restored by a    *)
(* clear or dropped by a reset of the field, was off again (DisableAll,     *)
(* toggleBypass, clearMatchLocked, ResetField, StartMatch).                 *)
FirstPacketDisables ==
  [][shutdown = "waiting" /\ shutdown' = "done"
     => \A s \in Stations \ undone : robot'[s] = "disabled"]_<<vars, shutdownVars>>
=============================================================================
