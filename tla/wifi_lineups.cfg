\* Two stations, one team with two keys, two goroutines besides the monitor.
SPECIFICATION FairSpec
CONSTANTS
  red = red
  blue = blue
  t1 = t1
  k1 = k1
  k2 = k2
  p1 = p1
  p2 = p2
  Stations = {red, blue}
  Teams = {t1}
  NoTeam = NoTeam
  Keys = {k1, k2}
  QuickAddKey = k1
  NoKey = NoKey
  Pushers = {p1, p2}
  monitor = monitor
  MaxOperations = 2
PROPERTIES WifiSettles WifiFromLineupsAsked
