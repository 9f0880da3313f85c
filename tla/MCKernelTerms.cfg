CONSTANTS
  n1 = n1
  n2 = n2
  Names <- OneName
  Idents <- FirstName
  Kinds <- Define
  Builds <- AllBuilds
  LastIndex = 4
  LastVar = 3
  MaxVarNames = 1
  MaxCheckpoints = 2
  Discipline = "nested"
SPECIFICATION Spec
CHECK_DEADLOCK FALSE
INVARIANT EnvValid
INVARIANT CacheClosed
INVARIANT DefsClosed
PROPERTY StaleForever
