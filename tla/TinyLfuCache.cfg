SPECIFICATION TinySpec
CONSTANTS
  Key <- MCKey
  Value = {v1, v2}
  Capacity = 2
  Row = {0, 1}
  Width = 2
  Column <- MCColumn
  CounterMax = 3
  SampleWindow = 4
INVARIANTS
  TinyTypeOK
  MapMatchesArena
  EstimateIsClose
PROPERTIES
  FilterKeepsPopular
  ImplementsFiltered
  EventuallyAdmitted
