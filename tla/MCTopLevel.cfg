CONSTANTS
  Dir <- OneDir
  Orig = "start"
  Scoped = TRUE
  MaxTerms = 2
  MaxCheckpoints = 1
  MaxDepth = 3
SPECIFICATION Spec
CHECK_DEADLOCK FALSE
INVARIANT TypeOK
 
INVARIANT MirrorAgrees
INVARIANT IncludesBalanced
 
