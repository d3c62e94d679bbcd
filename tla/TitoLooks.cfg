SPECIFICATION LSpec
CONSTANTS
  GroupIds = {g1}
  Members = {a, b}
  Threads = {t1, t2}
  Nobody = Nobody
  StrictOrder = TRUE
  CompactSlack = 8
  MaxAdmissions = 1
  MaxGroupSize = 2
  MaxLooks = 2
INVARIANTS
  EntersAsOne
