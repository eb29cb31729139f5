\* Three requests of four handlers, in any order and overlap, with starts and stops.
SPECIFICATION Spec
CONSTANTS
  team = team
  match = match
  p1 = p1
  p2 = p2
  r = r
  c = c
  f1 = f1
  f2 = f2
  f3 = f3
  s1 = s1
  s2 = s2
  s3 = s3
  s4 = s4
  Teams = {team}
  Matches = {match}
  Uploads <- TwoUploads
  Posters = {p1, p2}
  Restorers = {r}
  Clearers = {c}
  Configured = TRUE
  Files = {f1, f2}
  NoFile = NoFile
  Structures = {s1, s2, s3, s4}
  MaxRequests = 3
SYMMETRY Symmetry
INVARIANTS RecordsAreKept NetworkIsAsStored SecurityAsChosen
PROPERTIES BadLayoutsRejected
