\* A panel with a station's e-stop and A-stop and the field e-stop, an operator, and the signal to stop.
SPECIFICATION TrackedSpec
CONSTANTS
  s1 = s1
  Stations = {s1}
  All = all
  Teams = {1}
  NoTeam = 0
  Clients = {c1}
  Toggling = {"toggleBypass", "toggleEStop"}
  NoOp = NoOp
  Panels <- OnePanel
  Owned <- OneOwned
  Wired <- AllThreeInputs
  Modes = {}
  Durations = {TRUE}
  Monitoring = {FALSE}
  Presses = {}
INVARIANTS FaultStopsField StopsEndTheMatch
PROPERTIES KnownFaultBlocksStart FirstPacketDisables AStopHoldsThroughAuto
