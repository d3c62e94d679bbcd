SPECIFICATION FairSpec
CONSTANTS
  GroupIds = {g1}
  Members = {a}
  Threads = {t1, t2}
  Nobody = Nobody
  StrictOrder = FALSE
  CompactSlack = 8
  MaxAdmissions = 1
  MaxGroupSize = 2
  MaxInterrupts = 1
PROPERTIES
  LocksComeBack
