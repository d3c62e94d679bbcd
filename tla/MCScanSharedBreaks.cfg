SPECIFICATION Spec
CONSTANTS
  GroupIds = {g1}
  Members = {a, b}
  StrictOrder = TRUE
  MaxAdmissions = 1
  MaxGroupSize = 2
  Ports <- SharingPorts
SYMMETRY Symmetry
PROPERTIES
  EnteredLeaveReady
