SPECIFICATION Spec
CONSTANTS
  Key = {k1, k2, k3, k4}
  Value = {v1, v2}
  Capacity = 3
  CountMax = 3
  MaxClock = 7
INVARIANTS
  TypeOK
  IndexMatches
  AgesAreRecency
  CapacityInvariant
PROPERTY
  ImplementsPolicy
SYMMETRY Symmetry
