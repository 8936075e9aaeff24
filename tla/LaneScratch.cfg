\* Two lanes, three units, one index past the end, either representation.
CONSTANTS
  l0 = l0   l1 = l1
  Lanes <- MCLanes
  UnitCount = 3
  Units <- MCUnits
  Derive <- MCDerive
  MaxIndex = 3
SPECIFICATION Spec
INVARIANTS TypeOK
PROPERTIES ImplementsArray
