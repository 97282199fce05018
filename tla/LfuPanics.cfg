SPECIFICATION SpecPanics
CONSTANTS
  Key = {k1, k2, k3}
  Value = {v1}
  Capacity = 1
  CountMax = 3
  MaxClock = 7
INVARIANT
  CapacityInvariant
