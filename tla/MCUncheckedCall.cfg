CONSTANTS
  Exc <- Types
  None = "none"
  Features <- PlainCalls
  MaxStack = 4
  MaxRegions = 2
SPECIFICATION Spec
CHECK_DEADLOCK FALSE
PROPERTY FlagClear
