SPECIFICATION TSpec
CONSTANTS
  GroupIds = {g1, g2}
  Members = {a, b}
  Threads = {t1, t2}
  Nobody = Nobody
  StrictOrder = FALSE
  CompactSlack = 0
  MaxAdmissions = 2
  MaxGroupSize = 2
SYMMETRY Symmetry
INVARIANTS
  LooksWrongOnlyUnderWay
  ReprAgrees
PROPERTIES
  ImplementsTito
