SPECIFICATION SpecReads
CONSTANTS
  Thread = {t1, t2}
  Key <- MCKey
  Hash <- MCHash
  NumShards = 2
  PerShard = 1
  MaxCalls = 2
INVARIANT
  IsEmptyIsTrue
