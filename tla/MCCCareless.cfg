SPECIFICATION Spec
CONSTANTS
  GroupIds = {g1, g2, g3}
  Members = {a, b, c}
  StrictOrder = TRUE
  MaxAdmissions = 3
  MaxGroupSize = 2
  MaxGroups = 2
  MaxMembers = 2
  LongNames = {}
  Careful = FALSE
SYMMETRY Symmetry
VIEW View
INVARIANTS
  ArrayInOrder
PROPERTIES
  CopiedOutWhole
  BuffersRespected
