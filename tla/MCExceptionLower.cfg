CONSTANTS
  Exc <- Types
  None = "none"
  Features <- NoFeature
  MaxStack = 5
  MaxRegions = 2
SPECIFICATION Spec
CHECK_DEADLOCK FALSE
INVARIANT TypeOK
PROPERTY ImplementsUnwinder
