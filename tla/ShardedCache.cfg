SPECIFICATION Spec
CONSTANTS
  Thread = {t1, t2}
  Key <- MCKey
  Hash <- MCHash
  NumShards = 2
  PerShard = 1
  MaxCalls = 2
INVARIANTS
  TypeOK
  OneGuardEach
  CapacityContract
  LenIsHonest
  ClearIsThorough
PROPERTY
  CallsReturn
