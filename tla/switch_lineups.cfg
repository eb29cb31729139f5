\* Two stations, two teams, two Switch objects, one bounce at a time, two lineups.
SPECIFICATION Spec
CONSTANTS
  red = red
  blue = blue
  t1 = t1
  t2 = t2
  a = a
  b = b
  c = c
  Stations = {red, blue}
  Teams = {t1, t2}
  NoTeam = NoTeam
  Switches = {a, b}
  Bouncers = {c}
  MaxRequests = 2
SYMMETRY Symmetry
INVARIANTS ActiveMeansLatest OneVlanPerTeam DownPortsAccounted
PROPERTIES OthersUndisturbed CarriesWhatIsAsked
\* The bound on requests lets the field go quiet.
CHECK_DEADLOCK FALSE
