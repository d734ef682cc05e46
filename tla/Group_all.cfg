SPECIFICATION FairSpec
CONSTANTS
  Children = {a, b}
  Price <- PricesMC
  Leavers = {}
  ByBank = {FALSE, TRUE}
  MaxTries = 1
  MaxFaults = 1
INVARIANTS
  TypeOK
  MirrorsFollowThePlan
PROPERTIES
  CleanupFinishes
  ChildrenResolve
  PlanIsCarriedOut
CHECK_DEADLOCK FALSE
