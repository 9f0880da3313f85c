CONSTANTS
  n1 = n1
  n2 = n2
  Names <- OneName
  Idents <- FirstName
  Kinds <- Define
  Builds <- Nothing
  LastIndex = 5
  LastVar = 3
  MaxVarNames = 0
  MaxCheckpoints = 2
  Discipline = "nested"
SPECIFICATION Spec
CHECK_DEADLOCK FALSE
INVARIANT CheckpointsUsable
