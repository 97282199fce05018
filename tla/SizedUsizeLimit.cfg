SPECIFICATION Spec
CONSTANTS
  Key = {k1, k2, k3}
  Value <- MCValue
  Weight <- MCWeight
  MaxWeight = 6
  UsizeMax = 7
INVARIANT
  WithinBudget
