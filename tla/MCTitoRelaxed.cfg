SPECIFICATION Spec
CONSTANTS
  GroupIds = {g1, g2}
  Members = {a, b, c}
  StrictOrder = FALSE
  CompactSlack = 0
  MaxAdmissions = 3
  MaxGroupSize = 2
SYMMETRY Symmetry
INVARIANTS
  TypeOK
  IndexesAgree
  CounterMatchesFlags
  ReadyIndexExact
  HeapCoversReady
  HeapBounded
  SequencesFollowArrival
PROPERTIES
  DepartedStaysOut
  ImplementsDiscipline
CHECK_DEADLOCK FALSE
