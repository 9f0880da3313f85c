CONSTANTS
  n1 = n1
  n2 = n2
  Names <- TwoNames
  Idents <- FirstName
  Kinds <- AllKinds
  Builds <- Nothing
  LastIndex = 5
  LastVar = 4
  MaxVarNames = 0
  MaxCheckpoints = 2
  Discipline = "separated"
SPECIFICATION Spec
CHECK_DEADLOCK FALSE
INVARIANT TypeOK
INVARIANT CheckpointsUsable
INVARIANT GlobalEnvAgrees
INVARIANT NamesUnambiguous
INVARIANT NamesAgree
INVARIANT LiveConstantsDefined
PROPERTY ImplementsTransactions
