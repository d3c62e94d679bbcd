SPECIFICATION Spec
CONSTANTS
  GroupIds = {g1, g2}
  Members = {a, b, c}
  StrictOrder = TRUE
  CompactSlack = 8
  MaxAdmissions = 3
  MaxGroupSize = 2
SYMMETRY Symmetry
INVARIANTS
  IndexesAgree
  ReadyIndexExact
  SequencesFollowArrival
  OneGroupEach
PROPERTIES
  HandedToOneCaller
  ReleasedInOrder
  NothingLeftBehind
  NeverBack
  ImplementsDiscipline
CHECK_DEADLOCK FALSE
