SPECIFICATION Spec
CONSTANTS
  MaxAdmissions = 5
  MaxRoom = 5
  MaxHeld = 2
INVARIANTS
  OrderIsLine
  ClearedStays
  ListsHoldUntilDeparture
  ListsOnlyMoveOn
CHECK_DEADLOCK FALSE
