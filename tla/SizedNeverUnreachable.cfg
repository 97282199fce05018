SPECIFICATION SpecReads
CONSTANTS
  Key = {k1, k2, k3}
  Value <- MCValue
  Weight <- MCWeight
  MaxWeight = 3
  UsizeMax = 7
INVARIANT
  NeverUnreachable
