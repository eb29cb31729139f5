\* The default settings only.  Quarter seconds; an update comes half a second after the last at most.
SPECIFICATION Spec
CONSTANTS
  Sec = 4
  MaxWait = 1
  MaxStall = 1
  Settings <- DefaultOnly
  MaxAssessing = 2
PROPERTIES CueWithHubs
