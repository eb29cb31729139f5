\* Run by hand: two restores and a clear that overlap, and no forms.
SPECIFICATION Spec
CONSTANTS
  team = team
  match = match
  p1 = p1
  p2 = p2
  r = r
  c = c
  f1 = f1
  f2 = f2
  f3 = f3
  s1 = s1
  s2 = s2
  s3 = s3
  s4 = s4
  Teams = {team}
  Matches = {match}
  Uploads <- TwoUploads
  Posters = {}
  Restorers = {p1, p2}
  Clearers = {c}
  Configured = TRUE
  Files = {f1, f2, f3}
  NoFile = NoFile
  Structures = {s1, s2}
  MaxRequests = 3
SYMMETRY Overlapping
INVARIANTS RecordsAreKept NetworkIsAsStored
