\* Two stations, two teams, two connections; lineups change at any moment.
SPECIFICATION FairSpec
CONSTANTS
  s1 = s1
  s2 = s2
  c1 = c1
  c2 = c2
  Stations = {s1, s2}
  Teams = {1, 2}
  NoTeam = 0
  Conns = {c1, c2}
  NoConn = NoConn
INVARIANTS PanicNeedsCrossing OneStationPerTeam OwnDriverStation LinkIsOwn
PROPERTIES DeadConnectionLeaves
\* A panic ends the process.
CHECK_DEADLOCK FALSE
