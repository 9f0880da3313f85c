CONSTANTS
  here = here
  there = there
  f1 = f1
  f2 = f2
  q = q
  sbv = sbv
  z3 = z3
  unsat = unsat
  foreign = foreign
  Procs <- TwoProcs
  Paths <- TwoPaths
  Queries <- OneQuery
  Backends <- TwoBackends
  Uses <- UsesBoth
  Setups <- Versions
  StartSetup <- Older
  Unknown = Unknown
  AnswersTo <- Outcomes
  Cacheable <- Proper
  StartPaths <- Starts
  OldDatabases <- Left
  Hurried <- JustHere
  NoPath = NoPath
  NoEntry = NoEntry
  NoAnswer = NoAnswer
  NoKey = NoKey
  NoSetup = NoSetup
  MaxOps = 3
SPECIFICATION FairSpec
INVARIANT TypeOK
 
 
PROPERTY EntriesStable
PROPERTY ImplementsOracle
PROPERTY ProofsEnd
CHECK_DEADLOCK FALSE
