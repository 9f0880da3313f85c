CONSTANTS
  Prop <- Sound
  Model <- Models
  Truth <- TruthIn
  VarName <- TwoVars
  Free <- FreeIn
  Conj <- ConjsIn
  Disj <- DisjsIn
  Neg <- NegsIn
  Impl <- ImplsIn
  Ite <- ItesIn
  PiConj <- Nothing
  PiDisj <- PiDisjsIn
  Arrow <- ArrowsIn
  Pi <- PisIn
  Inst <- InstIn
  Eqn <- EqnsIn
  Simp <- SimpIn
  Conclusions <- SoundConclusions
  CoreProps <- SoundCore
  CutProps <- SoundCuts
  Weakens <- Odd
  Foreign <- Odd
  Exports <- Exported
  Loose <- LooseTerms
  NoJob = NoJob
  MaxTheorems = 2
  MaxSteps <- SoundSteps
  SavedSteps = 1
SPECIFICATION Spec
CHECK_DEADLOCK FALSE
INVARIANT TypeOK
INVARIANT TheoremsHold
INVARIANT GoalsImplyConclusion
INVARIANT OwnEvidenceAccepted
INVARIANT DependenciesRecorded
INVARIANT IntroducedFresh
PROPERTY ImplementsBase
