\* One station; what ResetField finds.  Run by hand: it ends in a counterexample.
SPECIFICATION Spec
CONSTANTS
  s1 = s1
  Stations = {s1}
  All = all
  Teams = {1}
  NoTeam = 0
  Clients = {}
  Toggling = {}
  NoOp = NoOp
  Panels <- OnePanel
  Owned <- OneOwned
  Wired <- EStopOnly
  Modes = {"red"}
  Durations = {TRUE}
  Monitoring = {TRUE, FALSE}
  Presses = {"active"}
PROPERTIES ResetFindsRobotsDisabled
