SPECIFICATION Spec
CONSTANTS
  Key = {k1, k2, k3, k4}
  Value = {v1, v2}
  Capacity = 3
INVARIANTS
  TypeOK
  ListInOrder
  MapMatchesArena
  SlotsAccounted
  CapacityInvariant
PROPERTY
  ImplementsPolicy
