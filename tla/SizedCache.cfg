SPECIFICATION Spec
CONSTANTS
  Key = {k1, k2, k3}
  Value <- MCValue
  Weight <- MCWeight
  MaxWeight = 3
  UsizeMax = 7
INVARIANTS
  TypeOK
  ListInOrder
  NodesMapped
  WeightAccounted
  WithinBudget
  StoredSurvives
PROPERTIES
  EvictsOldest
  InsertReturns
