SPECIFICATION ISpec
CONSTANTS
  GroupIds = {g1}
  Members = {a, b}
  Threads = {t1}
  Nobody = Nobody
  StrictOrder = FALSE
  CompactSlack = 8
  MaxAdmissions = 2
  MaxGroupSize = 2
  MaxInterrupts = 2
SYMMETRY Symmetry
VIEW Seen
INVARIANTS
  HandedOnce
  ReleasedWhole
