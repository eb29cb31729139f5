\* A panel with a station's e-stop and the field e-stop.  Run by hand: it ends in a counterexample.
SPECIFICATION TrackedSpec
CONSTANTS
  s1 = s1
  Stations = {s1}
  All = all
  Teams = {1}
  NoTeam = 0
  Clients = {}
  Toggling = {}
  NoOp = NoOp
  Panels <- OnePanel
  Owned <- OneOwned
  Wired <- EStopAndField
  Modes = {}
  Durations = {FALSE}
  Monitoring = {FALSE}
  Presses = {}
PROPERTIES FaultBlocksStart
