\* One station with its e-stop and the field e-stop, an operator, and the fairness of the loop.
SPECIFICATION FairSpec
CONSTANTS
  s1 = s1
  Stations = {s1}
  All = all
  Teams = {1}
  NoTeam = 0
  Clients = {c1}
  Toggling = {"toggleEStop"}
  NoOp = NoOp
  Panels <- OnePanel
  Owned <- OneOwned
  Wired <- EStopOnly
  Modes = {"red"}
  Durations = {FALSE}
  Monitoring = {TRUE, FALSE}
  Presses = {"active"}
INVARIANTS FieldStopHoldsField GameDataOnlyInTeleop
PROPERTIES EnableFitsMatch FieldStopOutlastsButton FieldTurnsAround EStopReachesRobot HeldButtonStopsField
