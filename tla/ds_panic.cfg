\* A lineup change between lookup and installation of a connection.
SPECIFICATION Spec
CONSTANTS
  s1 = s1
  s2 = s2
  c1 = c1
  c2 = c2
  Stations = {s1, s2}
  Teams = {1, 2}
  NoTeam = 0
  Conns = {c1, c2}
  NoConn = NoConn
INVARIANTS NoPanic
SYMMETRY ConnSymmetry
CHECK_DEADLOCK FALSE
