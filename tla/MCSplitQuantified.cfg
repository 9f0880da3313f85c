CONSTANTS
  Prop <- Quantified
  Model <- Models
  Truth <- TruthIn
  VarName <- TwoVars
  Free <- FreeIn
  Conj <- ConjsIn
  Disj <- DisjsIn
  Neg <- NegsIn
  Impl <- ImplsIn
  Ite <- ItesIn
  PiConj <- Nothing
  PiDisj <- PiDisjsIn
  Arrow <- ArrowsIn
  Pi <- PisIn
  Inst <- InstIn
  Eqn <- EqnsIn
  Simp <- SimpIn
  Conclusions <- QuantifiedConclusions
  CoreProps <- Empty
  CutProps <- Empty
  Weakens <- Empty
  Foreign <- Empty
  Exports <- Empty
  Loose <- Empty
  NoJob = NoJob
  MaxTheorems = 1
  MaxSteps <- ThreeSteps
  SavedSteps = 1
SPECIFICATION Spec
CHECK_DEADLOCK FALSE
INVARIANT GoalsImplyConclusion
