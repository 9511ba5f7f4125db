SPECIFICATION Spec
CHECK_DEADLOCK FALSE
CONSTANTS
  Time = {1, 2, 3}
  StartTime = 2
  EndTime = 4
  PageSize = 2
  MaxRowsChosen = {0, 3}
  VectorSize = 1
  NoToken = NoToken
  MaxEvents = 4
  MaxRestarts = 1
INVARIANTS
  TiesBroken
