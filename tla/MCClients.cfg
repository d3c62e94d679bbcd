SPECIFICATION Spec
CONSTANTS
  Count = 4
INVARIANTS
  EachClaimedOnce
  EndsAsTested
PROPERTIES
  EveryoneFinishes
