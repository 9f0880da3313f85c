CONSTANTS
  n1 = n1
  n2 = n2
  Names <- OneName
  Idents <- FirstName
  Kinds <- Postulate
  Builds <- AppsAndAscriptions
  LastIndex = 5
  LastVar = 3
  MaxVarNames = 0
  MaxCheckpoints = 2
  Discipline = "script"
SPECIFICATION Spec
CHECK_DEADLOCK FALSE
INVARIANT CacheExact
INVARIANT CacheSubterms
INVARIANT HashConsed
