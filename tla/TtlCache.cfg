SPECIFICATION Spec
CONSTANTS
  Thread = {t1, t2}
  Key = {k1, k2, k3}
  Value = {v1, v2}
  Ttl = {1, 99}
  DefaultTtl = 1
  Capacity = 2
  FarFuture = 4
  InstantMax = 6
  MaxTime = 2
INVARIANTS
  TypeOK
  CapacityInvariant
  LivesForItsTtl
PROPERTY
  ImplementsPolicy
SYMMETRY Symmetry
