\* Quarter seconds; an update comes half a second after the last at most.
SPECIFICATION Spec
CONSTANTS
  Sec = 4
  MaxWait = 1
  MaxStall = 1
  Settings <- ThreeSettings
  MaxAssessing = 2
INVARIANTS LightsLeadHubs WhiteIsTemporary SecondsShown
PROPERTIES CuesInSequence HubsFollowGameData
