\* The pins are configured anew while the controller polls.
SPECIFICATION Spec
CONSTANTS
  i1 = i1
  i2 = i2
  Inputs = {i1, i2}
  Owned = {i1}
  Contacts <- Moving
  Configs <- TwoInputs
  Samplers = {a, b}
  None = None
  Posts = {p}
  MaxAge = 1
  Timeout = 1
  ReadTakes = 1
  Window = 1
INVARIANTS LinesAccounted ReaderFitsConfig HeldPressSeen
SYMMETRY SamplerSymmetry
