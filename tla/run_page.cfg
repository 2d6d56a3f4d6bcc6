SPECIFICATION LiveSpec
CONSTANTS
  Main = main
  Other = other
  Away = away
  MaxEvents = 5
  MaxDeltas = 2
  MaxMoved = 3
  MaxMoves = 3
  MaxFaults = 1
CHECK_DEADLOCK FALSE
INVARIANTS
  RunPageTypeOK
  ViewIsOfItsRun
  HolesAreUnlistened
  PanelIsTruthful
  EndsAreLogged
PROPERTIES
  AgentTextOnlyGrows
  FollowsTheLog
  ViewCatchesUp
  StreamSuffices
