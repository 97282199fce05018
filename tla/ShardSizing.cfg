SPECIFICATION Spec
CONSTANTS
  UsizeMax = 1023
  UsizeBits = 10
INVARIANTS
  TypeOK
  SplitIsTight
  ShardsAreWorthwhile
  SketchFits
PROPERTY
  Terminates
