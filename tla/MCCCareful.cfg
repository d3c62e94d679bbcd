SPECIFICATION Spec
CONSTANTS
  GroupIds = {g1, g2, g3, g4}
  Members = {a, b, c}
  StrictOrder = FALSE
  MaxAdmissions = 2
  MaxGroupSize = 2
  MaxGroups = 2
  MaxMembers = 2
  LongNames = {g4}
  Careful = TRUE
SYMMETRY Symmetry
PROPERTIES
  ImplementsDiscipline
