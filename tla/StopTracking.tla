---------------------------- MODULE StopTracking ----------------------------
(***************************************************************************)
(* The arena with a record of what each station's own e-stop button last   *)
(* reported, to compare the station state that handlePanelInput folds the  *)
(* reports into, and the match, with the buttons themselves; the process    *)
(* may be told to stop at any moment.                                       *)
(***************************************************************************)
EXTENDS Shutdown

VARIABLES
  seen,     \* seen[s]: the last reading reported of station s' own e-stop input
  hidden,   \* the stations whose faulty reading one of an input for "all" replaced
  toggled   \* the stations whose e-stop an operator's toggle stored in this match

trackedVars == <<vars, shutdownVars, seen, hidden, toggled>>

TrackedInit ==
  /\ ShutdownInit
  /\ seen = [s \in Stations |-> "ok"] /\ hidden = {} /\ toggled = {}

(* The fault of a station is that of the last input folded into it: a        *)
(* panel's field e-stop names "all" stations, and says nothing of the       *)
(* stations' own buttons.                                                   *)
Track(reading) ==
  LET input == Head(todo) IN
  IF input.isAStop THEN UNCHANGED <<seen, hidden>>
  ELSE IF input.station = All
  THEN /\ hidden' = IF reading = "fault" THEN {} ELSE {s \in Stations : seen[s] = "fault"}
       /\ UNCHANGED seen
  ELSE /\ seen' = [seen EXCEPT ![input.station] = reading]
       /\ hidden' = hidden \ {input.station}

(* An e-stop that an operator toggles stops one station, not the match.     *)
TrackToggles == toggled' = IF InProgress THEN toggled \cup Stored("toggleEStop") ELSE {}

(* An operator who resets the field starts from what the next poll reports. *)
TrackedNext ==
  /\ \/ /\ \E reading \in Reading : HandleInput(reading) /\ Track(reading)
        /\ UNCHANGED shutdownVars
     \/ /\ ResetField /\ seen' = [s \in Stations |-> "ok"] /\ hidden' = {}
        /\ UNCHANGED shutdownVars
     \/ ShutdownStep /\ UNCHANGED <<seen, hidden>>
  /\ TrackToggles

TrackedSpec == TrackedInit /\ [][TrackedNext]_trackedVars

-----------------------------------------------------------------------------
(* "the arena treats that station as stopped and refuses to start a match   *)
(* until it clears" (docs/hardware-wiring.md), as far as it is true: no     *)
(* match starts while the last report of a station's own button is a wiring *)
(* fault, unless the operator reset the field since or a healthy reading of *)
(* a panel's field e-stop, which openGPIO lists last, replaced the fault    *)
(* (the Swap in handlePanelInput, checkCanStartMatch).                      *)
KnownFaultBlocksStart ==
  [][matchState = "PreMatch" /\ matchState' = "StartMatch"
     => \A s \in Stations \ hidden : seen[s] # "fault"]_trackedVars

(* What the document says, with nothing taken away.  It does not hold of a  *)
(* panel with a field e-stop input.                                         *)
FaultBlocksStart ==
  [][matchState = "PreMatch" /\ matchState' = "StartMatch"
     => \A s \in Stations : seen[s] # "fault"]_trackedVars

(* "A wiring fault stops the field" (docs/hardware-wiring.md): a match does *)
(* not outlast the report of a fault, nor run over one reported before it   *)
(* but for the tick in which a hidden fault is reported again; unless a     *)
(* toggle of the station's e-stop in that match hid it from the abort       *)
(* (handlePanelInput, abortMatchForStop).                                   *)
FaultStopsField ==
  InProgress => \A s \in Stations : seen[s] = "fault" => s \in toggled \cup hidden

(* No match runs on over a stopped station: every panel input, unreachable  *)
(* panel and field e-stop that latches a stop ends the match in the same    *)
(* step, and none is started over one.  An operator's toggle stops only its *)
(* station (Update, handlePanelInput, abortMatchForStop, checkCanStartMatch).*)
StopsEndTheMatch ==
  InProgress => \A s \in Stations : eStop[s] => s \in toggled
=============================================================================
