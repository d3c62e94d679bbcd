SPECIFICATION Spec
CONSTANTS
  GroupIds = {g1, g2}
  Members = {a, b}
  StrictOrder = FALSE
  MaxAdmissions = 2
  MaxGroupSize = 2
  Ports <- AllPorts
SYMMETRY Symmetry
INVARIANTS
  IndexesAgree
  CounterMatchesFlags
PROPERTIES
  ImplementsDiscipline
  OutOnceInOrder
