# A verification project for SAW

SAW (the Software Analysis Workbench) builds terms from programs and
specifications, transforms them, and gives them to provers.  Everything it
reports as proved rests on a small stateful kernel, on proof bookkeeping above
it, and on caches and rollbacks around both.  This directory holds TLA+ modules
translated from that code, TLC configurations that check them on small
instances, and TLAPS proofs for all instances.

Contents:

1. [The system](#1-the-system): components, state, interactions, hazards
2. [The modules](#2-the-modules): what is modelled and how it corresponds to the code
3. [The runs](#3-the-runs): what TLC checks, with which bounds
4. [The theorems](#4-the-theorems): what TLAPS proves and how, and what is only model-checked
5. [Disagreements](#5-disagreements-with-the-code) with the code's own documentation
6. [Limits](#6-limits): what is not modelled and why
7. [What could come next](#7-what-could-come-next)

Run everything from this directory: `tlc -config X.cfg M`, `tlapm M.tla`.

## 1. The system

### 1.1 Components

| Component | State | Operations | What makes it correct |
|---|---|---|---|
| **SAWCore kernel** `saw-core/.../Term/Certified.hs`, `Module.hs` | `SharedContext`: module map, qualified names, globals, hash-consing tables, valid TermIndexes, two counters, all `IORef`s | term constructors (`scm*`), declarations, `checkpointSharedContext`, `restoreSharedContext` | only valid terms are built from; one index, one term; environments agree; a rollback is a rollback |
| **Interval sets** `saw-support/.../IntRangeSet.hs` | an `IntMap` of intervals, holds the valid indexes | insert, delete, union, difference, member | canonical form (derived `Eq`), same set of integers |
| **TopLevel state** `saw-central/.../Value.hs`, `saw-script/.../ValueOps.hs` | `TopLevelRW`: variable and type environments with scopes, Cryptol environment stack, theorem database, solver cache, options | `pushScope`/`popScope`, `makeCheckpoint`/`restoreCheckpoint`, `bracketTopLevel`, `withEnviron`, `checkpoint`, `proof_checkpoint` | interpreter state and kernel state go back together |
| **REPL** `saw-script/.../REPL/Monad.hs` | `REPLState` around `TopLevelRW` | `exceptionProtect`, `captureError`, subshells | an error leaves the state of before the command |
| **Timeouts and failures** `saw-central/.../Builtins.hs` | none of their own | `timeoutHandlePrim`, `failsPrim` | a stopped action leaves nothing behind |
| **Proofs** `saw-central/.../Proof.hs` | `ProofState` (goals, evidence continuation, timings), `TheoremDB` | tactics, `finishProof`, `checkEvidence`, `recordTheorem`, `validateTheorem` | evidence fits the goal; a theorem's summary admits everything it rests on |
| **Solver cache** `saw-central/.../SolverCache.hs` | an LMDB file shared by processes, opened lazily, plus hit/miss counters | lookup, insert, set path, clean, statistics | an answer given is one that was stored for that problem by those solver versions |
| **Crucible setup and overrides** `saw-central/.../Crucible/*` | setup state (pre/post phase, points-to, ghost), override-match state | `llvm_*`/`mir_*`/`jvm_*` commands, `methodSpecHandler` | phases respected; a matched override's obligations are all discharged |
| **RPC server** `saw-server` | a stack of setup tasks, a store of named values | `SAW/...` methods | a method is refused in the wrong task; names resolve to what was stored |
| **Interpreter, loader** `saw-script` | scopes, call stack, include path | evaluation, `include`, subshell | scoping; no half-loaded include survives |
| **C++ exception lowering** `saw-tools/exception-lower` | none of its own; the programs it writes keep three thread-local variables | an LLVM pass: `throw` to a store and a return, `invoke` to a call and a test | the lowered program, which is what SAW verifies, does what the original does |
| **Rewriter, term nets, congruence closure** | none (pure) | rewriting, matching | result equal to the input |
| **Translations and back ends** `cryptol-saw-core`, `saw-core-what4/-sbv/-aig/-rocq`, simulator | none that outlives a call | term to term, term to solver | meaning preserved |

`PROJECT.json` lists every package with its status.

### 1.2 How they interact

The interpreter runs a command in `TopLevel`, a reader/state monad over `IO`.
Commands call the kernel to build terms and declare names, Proof to transform
goals, and a back end to discharge them; the answer may come from the solver
cache.  The kernel's state is in `IORef`s and survives a Haskell exception;
`TopLevelRW` is passed by value and does not.  Every piece of error handling
therefore brackets the kernel with a checkpoint: the REPL around each command
(`exceptionProtect`), `timeoutHandlePrim` around the action it limits, and a
script itself through the `checkpoint` primitive, which returns an action that
restores; nothing keeps a script from calling it twice, or out of order.

Terms are immutable values and stay reachable from Haskell after a rollback.
Whether one may be used again is decided by its `TermIndex` alone: `restore`
removes the indexes handed out since the checkpoint from `scValidTerms`, and
every constructor calls `scmEnsureValidTerm` on its arguments.

### 1.3 What is hard to test

- A declaration is five to nine `IORef` updates.  A timeout is an asynchronous
  exception and can stop it between any two.
- Three comparisons with the checkpoint's `TermIndex` (valid indexes, two cache
  tables) must agree to the index; off by one, a stale term is served years later.
- `scmApply` consults its table *before* it validates its arguments.
- Checkpoints are only numbers: two of them taken with no term made in between are
  indistinguishable, and the staleness test looks at the first index after the
  checkpoint.
- `scNextVarIndex` is not rolled back, by design; a kept `Name` must not change
  meaning.
- Union of interval sets must not depend on order, since equality is derived.
- Between two transactions of a solver-cache operation, other processes insert, clean and
  move; any transaction may fail after it committed; a timeout may strike anywhere.
- Tactics and the check of their evidence are two implementations of one logic, which must
  agree after any sequence of tactics, with goals put back and taken out of order.
- The interpreter's state, the kernel's, Cryptol's, the working directory and the call stack
  each go back by a mechanism of their own when something fails, and handlers nest.
- A lowered exception is a few global variables that every function on the way must treat the
  same way.

`PROJECT.json` has the full list (`hazards`), each at its line.

## 2. The modules

| Module | Models | Kind |
|---|---|---|
| `SharedContext` | `Certified.hs`, `Module.hs` | state machine |
| `SharedContextProperties` | its type invariant, safety and action properties, refinement mapping | properties |
| `Lineage` | what bracketing promises: nested transactions | abstract specification |
| `MCSharedContext` | values for the constants | TLC instances |
| `SharedContextProofs` | the base invariant, tables, environments, checkpoints | proofs |
| `SharedContextNames` | names, globals, definitions of constants | proofs |
| `SharedContextTables` | hash-consing, closed definitions, the refinement of `Lineage` | proofs |
| `SolverCache` | `SolverCache.hs`, `applyProverToGoal`, `onSolverCache`, `timeout_handle` around them | state machine |
| `SolverCacheProperties` | its type invariant, safety, action and liveness properties, refinement | properties |
| `ProverOracle` | what the cache promises to proofs | abstract specification |
| `MCSolverCache` | values for the constants | TLC instance |
| `SolverCacheProofs` | theorems about the above | proofs |
| `Proof` | `SAWCentral/Proof.hs` and the proof commands of `Builtins.hs` | state machine |
| `ProofProperties` | its type invariant, soundness, evidence, freshness, refinement | properties |
| `TheoremBase` | what a theorem database promises | abstract specification |
| `MCProof` | a small logic | TLC instances |
| `ProofSoundness` | theorems about the above | proofs |
| `TopLevel` | `TopLevelRW`, scopes, includes, `fails`, `timeout_handle`, `checkpoint`, REPL | state machine |
| `TopLevelProperties`, `MCTopLevel` | its properties; values for the constants | properties, TLC instance |
| `TopLevelProofs` | theorems about the above | proofs |
| `ExceptionLower` | programs after `ExceptionLowerPass.cpp` | state machine |
| `Unwinder` | the same programs before it | abstract specification |
| `ExceptionLowerProperties`, `MCExceptionLower` | type invariant and refinement; values for the constants | properties, TLC instances |
| `ExceptionLowerProofs` | theorems about the above | proofs |
| `IntRangeSet` | `IntRangeSet.hs`: insert, delete, member as operators on functions | pure |
| `IntRangeSetMachine` | a client of insert and delete | state machine |
| `IntRangeSetAlgebra` | union, difference, fromList, toList and a client of them | state machine |
| `IntRangeSetProofs` | theorems about all operations | proofs |

How they compose.  `SharedContext` holds its valid indexes as an `IntRangeSet` does; what it
promises to handlers is `Lineage`, and `TopLevel` takes that promise (environments and
valid terms go back together) as its own kernel, with only `next`, `stale` and `globals`
left of it, adding that a restore is several writes and can be stopped between them.
`SolverCache` promises `ProverOracle`, an answer some solver gave for the query; `Proof`
takes it as the leaf `tacticSolve`.  `ExceptionLower` stands alone: its output is what
the Crucible front end reads.

### 2.1 SharedContext

**State.**  Each `IORef` of `SharedContext` is a variable: `scModuleMap` is
`moduleMap`, `scQualNameEnv` is `qualNames`, `scGlobalEnv` is `globalEnv`,
`scAppCache` is the pair `appCache` and `hashCache` (its two maps),
`scNextTermIndex` is `nextTerm`, `scNextVarIndex` is `nextVar`, `scValidTerms` is
`validTerms`.  Three more variables are what the client's Haskell values are:
`heap` (every term ever made, because a rollback does not take a term away from who
holds it), `varNames` and `names` (the `VarName`s and `Name`s handed out), and
`checkpoints`.  `pc` and `decl` are the local variables of the declaration that is
running.

**Terms** are numbers into `heap`; an entry has a shape (`tf`, the `TermF`), the
typing context of its free variables (`vt`) and a type (`ty`).  A cached term is
found by shape and type, an application also by shape alone, as in `TermFMap`.  A fourth field,
`revived`, is history: `scmAscribe` made the term from one that had been rolled back, or from one
made so.  No action reads it; properties do, because `scmAscribe` validates nothing
(section 5).

**Actions.**  Term constructors (`SortTerm`, `Variable`, `Pi`, `Apply`, `Ascribe`,
`ConstTerm`, `FreshVarName`) run to the end: each touches the tables in one place.
Declarations are steps: `DefineConstant`, `FreshConstant`, `OpaqueConstant`
register the name (`RegisterName` takes the VarIndex before it looks for the name,
so a clash costs an index: `DuplicateName`); then `InsDefInMap`, `BuildConst`,
`RegisterGlobal`.  `DataType` goes through `DataTypeSort`, `DataTypeTerm`,
`CtorName`, `InsTypeDeclInMap`, `DataTypeGlobal`, `CtorConst`; a check that fails on
the way is `RejectDataType` and leaves what was done.

**Checkpoints.**  `Checkpoint` saves a snapshot.  `Rollback` is a handler that
caught an error; `Interrupt` is the same for an asynchronous exception, at any step
of a declaration; `Release` is a handler whose command succeeded; `Restore` is a
script calling the action that `checkpoint` returned.  The constant `Discipline`
says who is there:

- `"nested"`: handlers only, last in first out, each checkpoint restored at most
  once.  A refused (stale) checkpoint propagates to the next handler out.
- `"separated"`: moreover, a term is made between any two checkpoints that are held.
  This is what a REPL command that has elaborated something before it starts a
  timeout does; it is an assumption on clients, and the run `nested_handlers`
  shows what happens without it.
- `"script"`: any checkpoint, any time, any number of times.

**Abstractions.**  All sorts are one sort, written `NoTerm` in type position, which
keeps the model's terms few and loses universe checks; functions are not dependent;
convertibility unfolds constants at the head (`Whnf`, a least fixed point rather than
a recursion, so that the module can be proved about); a data type has one
constructor and no parameters.  Lambdas, literals, recursors, module loading, display
names and import of foreign terms are left out.

### 2.2 IntRangeSet

The `IntMap Int` of lower to upper ends is a function on a finite set of integers.
`Floor` is `IntMap.lookupLE`.  `Insert` and `Delete` follow the code's case
distinctions: the interval at or below the new one may be joined or cut, those
starting inside are dropped, the one reaching over the end survives in part.
Integers are unbounded here; the code's `Int`s overflow only for `j = maxBound`, and
the kernel's blocks of 2^48 indexes end before that.

### 2.3 SolverCache

**State.**  `db` holds the LMDB databases, one per path, which all processes share.
Per process: `cache` is `rwSolverCache` (`path = NoPath` for no cache; `open` for
`solverCacheEnv` and `solverCacheDB`), `stats` the `IORef` of the statistics, `pc`
and `job` the operation in progress with its local values, `timer` the alarm of a
`timeout_handle` around it.  `installed` is what `getSolverBackendVersions` finds.
`computed`, `answer`, `kept`, `ended` and `aborted` are history: what solvers
answered, what the last proof was told, which keys were in the open cache when a
proof ended, how many operations ended and were abandoned.

**Steps.**  One LMDB transaction is one step.  A proof (`applyProverToGoal`) is
`Prove`; then `LookupHits` followed by `Touch`, or `LookupMisses`/`LookupFails` followed by
`Solve`, `Insert`/`InsertFails`, `CountInsert`; then `Answer`.  `set_solver_cache_path`
is `OpenPath`, `Open` or `SetPath`, `ReadAll`, `WriteAll`; cleaning is `Clean`, `Scan`,
`DeleteDoomed`, `Size`; the commands that print or test statistics are `ShowStats`,
`Size`.  Other processes move between any two steps.

**Failures.**  `tryTransaction` turns every exception into a `Left`: `LookupFails`,
`InsertFails` (before or after the commit), the unchanged case of `Touch`.  The other
operations do not catch: `Throw`, also after a commit.  `Alarm` is the script's timeout.
Whatever leaves an operation by an exception is an `Abort`: the TopLevel state goes
back, hence also the flag that the environment is open; the databases and the
statistics do not.

**Abstractions.**  The hash of a query is the query; an answer that cannot be
encoded (`toSolverCacheValue` gives `Nothing`) is one outside `Cacheable`; a stored
answer always fits the query again, since equal hashes are equal queries here, so
`fromSolverCacheValue` does not fail; of the date of last use only "used since it was
stored" is kept.  LMDB itself (atomic transactions) is external.

### 2.4 Proof

**State.**  `thms` are all theorems ever made, numbered by their nonce, and `db` is
`TheoremDB`.  `phase` and `job` are what runs: `proving` is a `ProofScript` inside
`proveHelper`, `checking` is `checkEvidence`.  `proof` is the `ProofState` (goals,
conclusion, evidence so far), `saved` what `proof_checkpoint` captured, `check` the local
variables of the check: sequents still to be checked, evidence still to be read,
dependencies and summary.  `used` is the name supply.

**Evidence** is a tree and is kept as the sequence of its nodes, each before its children.
`withFirstGoal` works on the first goal and its continuation puts that goal's evidence
first, so tactics make the nodes in just this order, and the check visits them in it.  A
tactic therefore appends one node (`Grown`; `structuralEvidence` replaces a last structural
node), and a step of `checkEvidence` takes one node and one sequent and puts the node's
subgoals in front.

**Terms are abstract.**  A proposition is known by the models it is true in (`Truth`), the
introduced variables free in it (`Free`), and what the code can take it apart into, one
function for each connective (`Conj`, `Disj`, `Neg`, `Impl`, `Ite`, `Pi`, and `PiConj`,
`PiDisj` for the two that are split under a quantifier).  `LogicAssumption` says that the
connectives mean what they should; nothing is assumed of `PiDisj`, because nothing holds.
Rewriting and evaluation keep truth (`Simp`), and so does a solver that answers.  What is
examined is the bookkeeping around them.

**What is not proved.**  The `offline_*` tactics close any goal, with the evidence that a solver
leaves, and a proof term may have free variables, or be made with `fix`, `error` or
`unsafeAssert` of the Prelude, and then prove anything.  `tacticSolve`, `tacticExact` and
`core_thm` allow both, wherever the script asks for it (`Exports` are the conclusions of such
scripts, `Loose` the propositions that have such proof terms).  Evidence and theorems carry a mark
of it (`"offline"`, `"loose"`, `"splitPi"`, and `unsaid` of a theorem) that the code does not
have; no guard reads it, the properties do.

**Actions.**  One per tactic of `Proof.hs` (`tacticIntro`, `tacticApply`, `tacticApplyHyp`,
`tacticSplit`, `tacticSpecializeHyp`, `tacticInsert`, `tacticCut`, `tacticExact`,
`tacticIntroHyps`, `tacticRevertHyp`, `tacticSolve`) and per command of `Builtins.hs` that
changes a goal (focus, delete, `normalize_sequent`, `goal_eval`, `simplifyGoal`, admit,
quickcheck); `core_axiom`, `core_thm`, `specialize_theorem`; `StartProof`,
`finishProof`, `EndWithoutTheorem`; `proof_checkpoint`, `RestoreProof`; `checkEvidence`,
`CheckFails`, `MakeTheorem`.

### 2.5 TopLevel

**State.**  `rw` is `TopLevelRW`: the scopes of the variable environment and of the Cryptol
environment (`env`, `cry`, innermost first), the theorems, the directory stack.  `cwd` is
the process's directory.  `kernel` is what users see of the `SharedContext`: the next
term, the stale ones, those in its environments.  `stack` is the Haskell call stack as far
as it matters: shells, files, commands under `exceptionProtect`, includes, blocks with the
environment `withEnviron` will put back, `fails` and `timeout_handle` with their copies of
the state, a restore that is under way.  `raised` is the exception on its way out; a timeout
knows which `timeout_handle` it is for.  `chks` are the checkpoints scripts have taken.

**Actions.**  `StateT` over `IO` means that a handler which runs its action by `runTopLevel`
on a copy loses the action's changes to `rw` by not taking them, and that nothing takes
back the kernel or `cwd`.  So `Unwind` pops frames and changes nothing else, `FailsCatches`
puts `rw` back and leaves the kernel, `TimeoutHandle` and `ExceptionProtect` put back both.
`InvokeCheckpoint`, `InvalidateTerms`, `PutTopLevelRW` are the three writes of a restore,
and `Alarm` may strike between them.

**Discipline.**  `makeCheckpoint` and `restoreCryptolEnvStack` warn of checkpoints
that are used in another block than their own.  With `Scoped`, scripts heed the
warning: a checkpoint is invoked in the calls it was taken in, a term is made between the
checkpoints of nested handlers (see `nested_handlers`), and once a script's restore has
gone back past the checkpoint that an enclosing handler holds, that handler's command
does nothing more.  Section 5 says what happens to other scripts.

### 2.6 ExceptionLower and Unwinder

The pass is a function from programs to programs; what is modelled is not the rewriting but
what the rewritten programs do, over all programs at once: whenever control is in a
function it may do next whatever a function can do.  `stack` has the functions in
execution; each knows if it was called by an `invoke` and what the landing pad catches, and
which pads and handlers it is inside.  `flag` and `thrown` are `__exclow_error_flag` and the
two other thread-locals.  `Throw`, `Rethrow` and `Resume` are `emitErrorReturn`: set flag
and exception, return.  `Checked` is the block that `lowerInvoke` puts after a call.
`BeginCatch` clears the flag.  `Unwinder` is the same for programs that have not been
lowered, where an exception passes from function to function without executing anything.
`did` is the instruction of the original program, so that the refinement compares what is
executed and not only where it ends.

`Features` opens the cases that the pass gets wrong one at a time: `plain` (code goes on
after a call without landing pad), `cleanup` (cleanups that call or throw), `typed`
(handlers for some types only), `late` (rethrow after something else was thrown).

## 3. The runs

Deadlock is not checked where the bounds stop the system (`LastIndex`, `LastVar`,
`MaxCheckpoints`, `MaxOps`, `MaxSteps`, `MaxTerms` run out, or the program has ended); the
interval run checks it.  Only the solver cache has a liveness property (`ProofsEnd`), under
weak fairness of `ProofStep` and of `UpkeepStep` for each process: Haskell runs what a script
has started to its end, and a solver is taken to answer or to fail at last.  Nothing obliges
a script to start anything, or a timeout to fire.  The other components promise no
progress of their own: what a script, a proof or a program does next is its author's choice,
and none is assumed.

| Run | What is run | Bounds | Properties |
|---|---|---|---|
| `kernel_declare` | separated handlers; every kind of declaration, two names that clash, one of them an identifier | 5 terms, 4 names, 2 checkpoints | `TypeOK`, `CheckpointsUsable`, `GlobalEnvAgrees`, `NamesUnambiguous`, `NamesAgree`, `LiveConstantsDefined`, `ImplementsTransactions` |
| `kernel_terms` | nested handlers; all term constructors and definitions | 4 terms, 3 names, 1 variable, 2 checkpoints | `EnvValid`, `CacheClosed`, `DefsClosed`, `StaleForever` |
| `kernel_script` | checkpoints invoked in any order; opaque constants, function types, applications, ascriptions | 5 terms, 3 names, 2 checkpoints | `CacheExact`, `CacheSubterms`, `HashConsed` |
| `interval_sets` | all operations on seven consecutive end points, lists of two intervals | – | `TypeOK`, `RangesCanonical`, `MemberExact`, `ElementsExact`, `ListRoundTrip`, `CombinesExact` |
| `solver_cache` | two processes, one of which uses timeouts; one starts with a cache, the other with or without one | 2 paths, 1 query, 2 back ends, 2 sets of versions, 3 operations or upgrades in all | `TypeOK`, `Remembered`, `StatsBalance`, `EntriesStable`, `ImplementsOracle`, `ProofsEnd` |
| `proof` | every tactic on true and false conclusions, from admitted, proved and true theorems; goals written to files | 2 theorems, evidence of 3 nodes for the first and 2 for the second, captured proof states of 1 node, 2 variables, 16 propositions; one false conclusion with `offline_*`, two false propositions with proof terms | `TypeOK`, `TheoremsHold`, `GoalsImplyConclusion`, `OwnEvidenceAccepted`, `DependenciesRecorded`, `IntroducedFresh`, `ImplementsBase` |
| `toplevel` | a file or the REPL; scripts that keep to scopes | 2 terms, 1 checkpoint, 3 nested frames (not counting commands and restores) | `TypeOK`, `EnvironmentLive`, `MirrorAgrees`, `IncludesBalanced`, `FailuresUndone` |
| `exception_lower` | programs without hard features | 5 functions, 2 regions in each, 2 types of exceptions | `TypeOK`, `ImplementsUnwinder` |
| `nested_handlers` | two handlers at one TermIndex | – | `CheckpointsUsable` is violated |
| `swallowed_timeout` | the cache, one operation | – | `TimeoutStops` is violated |
| `split_quantified` | a hypothesis that is a quantified disjunction | evidence of 3 nodes | `GoalsImplyConclusion` is violated |
| `unchecked_call` | programs with plain calls that throw | 4 functions | `FlagClear` is violated |

The largest are `toplevel` (4.9 million distinct states, two to three minutes) and `proof`
(1.5 million, about two minutes).

Why the bounds are enough.

- *Kernel.*  Two checkpoints are needed for one to spoil another, and all properties relate
  at most two of them.  Two names suffice for a clash and for a name that is free again
  after a rollback.  Five term indexes are the sort, a constant, its re-made copy after a
  rollback, an application or ascription of it, and one more that distinguishes "the
  checkpoint's index" from "the index after it".
- *Intervals.*  Seven end points leave room for two intervals with a gap, a third that
  touches either, joins both or splits one.
- *Cache.*  Every hazard found is between two operations, and a third operation shows its
  effect (one proof reads what a path change copied while the other process cleaned).  One
  query is enough because keys differ in their versions already, and databases treat keys
  independently.  The two sets of versions differ in one back end and leave the other
  unknown, which are the two cases of `Mismatched`.
- *Proof.*  Every tactic adds one node and splits into at most two goals; three nodes are a
  tactic, a tactic on what it left, and a leaf.  The second theorem can rest on the first,
  which is what dependencies and summaries are about.  Two variables let one intro follow
  another.
- *TopLevel.*  Two terms are one before and one after a checkpoint; three frames are a
  handler in a block in a handler, or a shell in a `fails` in an include.  A random
  simulation with 5 terms, 3 checkpoints and 5 frames over 55 million states met nothing new.
- *ExceptionLower.*  Five functions put two without landing pads between one that catches
  and one that throws; two regions are a handler around a handler or a pad in a handler.

What the properties say:

- `CacheExact`: the tables hold exactly the valid terms.  One inclusion is what
  `Certified.hs` documents as an invariant; the other says nothing usable is lost,
  on which `HashConsed` depends.
- `CacheClosed`: all a cached term is built from, its type included, is valid, if it is
  *clean*: nothing that `scmAscribe` revived went into it, as a part, a type or a definition.
  `CacheSubterms` is the part of it that survives when scripts restore in any
  order: then the module map may supply a stale *type*, never a stale subterm, unless the
  term itself was revived.
- `GlobalEnvAgrees`, `NamesAgree`, `LiveConstantsDefined`, `NamesUnambiguous`: the
  three environments tell one story, also half way through a failed declaration
  (`NamesAgree`) and after one (`GlobalEnvAgrees`); no usable `Constant` lost the
  definition `scmWhnf` insists on, unless it was revived; a `Name` never changes meaning.
- `EnvValid`, `DefsClosed`: the global environment mentions valid terms, and so do definitions
  of clean terms; definitions are closed.
- `HashConsed`: one shape and type, one index; only an application that was revived can be
  made a second time.
- `StaleForever`: an index is never reused and never becomes valid again.
- `CheckpointsUsable`: no handler will be refused.
- `ImplementsTransactions`: with the mapping "live = cached, ever = heap, env = the
  three environments", every step of the kernel is a step of `Lineage`, where a
  rollback puts live terms and bindings back to what they were.  Deleting index
  ranges is thereby shown to be the same as restoring a snapshot.
- `ImplementsOracle`: a proof is told only what a solver computed for the same query
  and versions, however the entry came to it.
- `EntriesStable`: the transaction that marks an entry as used neither revives nor changes
  one; entries leave only by cleaning for versions they do not match.
- `Remembered`: what was in the cache when a proof ended is there, over path changes and
  abandoned operations, until cleaned.
- `StatsBalance`: the printed statistics account for every proof that ended, once.
- `ProofsEnd`: nothing the cache does keeps a proof waiting.
- `TheoremsHold`: a false theorem is one whose summary, or that of one it rests on, says
  otherwise than "proved", or whose evidence holds one of four things (`Unsaid`): a goal that was
  only written to a file, a proof term that proves anything, a disjunction split under a
  quantifier, or a beginning that was made for another proposition.  Each of the first two is
  needed in the run's instance: without it TLC finds a false theorem.  `GoalsImplyConclusion` is the comment of `ProofState`, for the current and every
  captured proof state.  `OwnEvidenceAccepted`: the check at the end accepts, node by
  node, what the tactics made.  `IntroducedFresh`: the variable of an intro step occurs
  nowhere above it, which the check does not check.  `DependenciesRecorded`: the
  verification summary never meets a theorem it does not know.  `ImplementsBase`: the
  database is a `TheoremBase`.
- `EnvironmentLive`: no statement comes upon a rolled-back term, in whichever environment.
  `MirrorAgrees`: what a SAWScript scope binds is visible in the Cryptol scope that goes
  with it, after any restore and unwinding.  `IncludesBalanced`: `popdir` never runs
  out.  `FailuresUndone`: a failed command leaves interpreter and kernel as they were.
- `ImplementsUnwinder`: a lowered program executes the same instructions, leaves the same
  functions and enters the same handlers with the same exceptions.

Each property comes with a mutant of the code it is about (an off-by-one in the
range a restore deletes, an environment not restored, a counter rolled back, a check
dropped, an exception not stored) under which TLC finds it violated.

## 4. The theorems

### SharedContextProofs, SharedContextNames, SharedContextTables

For every value of the constants that satisfies `ContextAssumption` (the last
indexes and bounds are natural numbers; generated names are not client names):

| Theorem | Statement | Assumes |
|---|---|---|
| `SharedContextProofs!TypeCorrect` | `Spec => []TypeOK` | |
| `StaleStaysStale` | `Spec => StaleForever` | |
| `CacheExactForever` | `Spec => []CacheExact` | |
| `CacheSubtermsForever` | `Spec => []CacheSubterms` | |
| `CacheClosedForever` | `Spec => []CacheClosed` | `Handlers` |
| `EnvValidForever` | `Spec => []EnvValid` | `Handlers` |
| `CheckpointsUsableForever` | `Spec => []CheckpointsUsable` | `Discipline = "separated"` |
| `NamesUnambiguousForever` | `Spec => []NamesUnambiguous` | |
| `NamesAgreeForever` | `Spec => []NamesAgree` | |
| `GlobalEnvAgreesForever` | `Spec => []GlobalEnvAgrees` | `Discipline # "nested"` |
| `LiveConstantsDefinedForever` | `Spec => []LiveConstantsDefined` | |
| `HashConsedForever` | `Spec => []HashConsed` | |
| `DefsClosedForever` | `Spec => []DefsClosed` | no `"opaque"` declarations |
| `BracketingImplementsTransactions` | `Spec => ImplementsTransactions` | `Handlers` |

`Handlers` says that checkpoints are used last in first out.  Any term, valid or not, may be
ascribed at any time in all of them.

The argument of the first module.  `StepShape` says that a step adds at most one term, or
goes back to a checkpoint, and that the subterms of a new term lie in any set `V` that holds the
usable terms and is closed under subterms, revived terms excepted (`GroundsSubterms`).  It
is proved once, for every `V`, action by action:

- `WellFormed` is the inductive invariant under all others.  Beyond types it says that
  a term's parts are older than the term (`Older`), that what is mentioned exists,
  and that a checkpoint mentions only terms older than its index (`CheckpointsMade`).
  `TypeOK` alone is not inductive: typing a new term needs that `Whnf` of a type is a
  term, which needs that definitions mention existing terms, which a restore preserves
  only because checkpoints did.
- `CacheExact` needs that the indexes not handed out yet are valid (`FutureValid`).
- `CacheSubterms` takes `V` to be the cached terms, which `CacheExact` makes the valid
  ones.  After a restore the parts of a term that stayed are older than it, hence before
  the checkpoint, hence stayed.
- `CheckpointsUsable` follows from strictly increasing indexes.

`SharedContextNames` has the same plan with names for terms: `NameStep` says that a step
registers a name, inserts a declaration, or goes back to a checkpoint.

- `NamesInv`: names resolve, now and in every checkpoint; the index of a declaration in
  progress is new, and one interrupted is never used again, because `nextVar` does not go
  back.
- `StageInv`: between two writes of a declaration the environments are as far as the next
  write takes them to be.
- `GlobalInv`: while no declaration runs, and in every checkpoint, globals agree.  Under
  `"nested"` a refused checkpoint leaves a declaration half made, hence the assumption.
- `ConstInv`: a usable constant that was not revived and is older than a checkpoint has its definition in what the
  checkpoint will put back (`SavedConstants`), unless its declaration was never finished.

`SharedContextTables`:

- `HashInv`: an application is found by shape alone unless it was ascribed; one that was
  ascribed while it was valid is younger than the application it ascribes
  (`AscribedYounger`), so a restore cannot take the latter and leave the former.
- `ClosedInv`: constants are closed terms, a function type binds the variables that its
  body has besides its own, closed terms have closed types, and the environments, now and in
  checkpoints, mention closed terms only.
- `Ordered`: checkpoints lie in the order of their indexes.  Each action is then mapped:
  `GrowthMaps`, `CheckpointMaps`, `PopMaps`, `CommitMaps`, `RollbackMaps`.
- `LiveInv`, for `CacheClosed` and `EnvValid`: what is clean in an environment, in a
  checkpoint that is held or in the declaration in progress is valid.  Clean is the
  greatest set of terms that were not revived and come from clean ones; a step cleans nothing
  that was not clean (`CleanStep`), because what a Name was declared as stays known
  (`DefsKnown`).  A new clean term is built of valid ones (`NewPartsLive`), which for the
  type of an application needs that unfolding stays among the clean and valid
  (`WhnfLive`).  Going back keeps what is older than the checkpoint (`RolledLive`): this is
  where the order of the checkpoints, hence bracketing, is used.

### SolverCacheProofs

For any processes, paths, queries, versions and old databases that satisfy
`CacheAssumption` (for the last theorem also `OldAssumption`: old databases hold only answers
that can be stored):

| Theorem | Statement |
|---|---|
| `TypeCorrect` | `Spec => []TypeOK` |
| `NothingForgotten` | `Spec => []Remembered` |
| `EntriesAreStable` | `Spec => EntriesStable` |
| `CacheImplementsOracle` | `Spec => ImplementsOracle` |
| `StatisticsBalance` | `Spec => []StatsBalance` |

The inductive invariant `CacheInv` adds to these: every entry, in a database or carried by
a path change, and every answer in hand is in `computed` (`EntriesComputed`,
`FoundComputed`); operations that use the cache have one and keep their key (`HasPath`,
`Keyed`); what is doomed does not match (`DoomedMismatched`); and a process that relies on
entries has its cache open, would have after an abort, and carries them while it moves
(`KeptCarried`).  The last is why `Remembered` alone is not inductive: the write of a path
change restores from `carried` what the read found, so the read must have found it.
`EntryStep` says once what any step does to one entry (leaves, stores, copies or cleans
it); the invariant's conjuncts and `EntriesStable` follow from it without going through
the actions again.  `StatsInv` accounts for the proof in progress by where it is.

### ProofSoundness

For any logic, that is any `Prop`, `Model`, `Truth` and connectives that satisfy
`ShapeAssumption`, `LogicAssumption`, `GenericAssumption` and `FinitenessAssumption`, and any
bounds.

| Theorem | Statement | Assumes besides |
|---|---|---|
| `NormalFormsKeepMeaning` | `NormSound` | |
| `ProofTypes` | `Spec => []TypeOK` | |
| `DependenciesAreRecorded` | `Spec => []DependenciesRecorded` | |
| `VariablesAreFresh` | `Spec => []IntroducedFresh` | |
| `TacticsAreSound` | `Spec => []GoalsImplyConclusion` | `DOMAIN PiDisj = {}` |
| `TheoremsAreTrue` | `Spec => []TheoremsHold` | |
| `DatabaseImplementsBase` | `Spec => ImplementsBase` | |
| `OwnEvidenceIsAccepted` | `Spec => []OwnEvidenceAccepted` | `Foreign \subseteq Weakens` |

`Norm` is a recursive function, so even that it exists has to be proved.  `FinitenessAssumption`
says that propositions are finite: of any set of them, one comes apart into none of the others.
Partial solutions of the equation that defines `Norm` agree where both are defined (a proposition
where they differ, and that comes apart into none of that kind, refutes itself:
`SolutionsAgree`), their union is one (`ReachedSolved`), and it leaves out nothing
(`AllReached`), so `Norm` is what its definition says (`NormUnfolds`).  What a normal form
means is proved in the same way, from the propositions under it (`FormSoundStep`, `FormsSound`).

`PiDisj` and `Foreign` are two disagreements of section 5, and the assumptions say that
scripts stay away from them; the two theorems about the database need none, since what they
claim of a theorem depends on what is in its evidence.  There is one lemma per tactic, and each says the same thing of
it (`Step`): the new goals are sequents, imply the old goal if the node is honest, and the
node mentions nothing that was not in use, except the fresh variable of an intro; and unless
the script may drop conclusions, the check accepts the node for the goal and then asks for
the new goals (`Follows`).  The invariants are proved of such steps in general:

- `EvidenceInDatabase`, `DependenciesKnown`: nodes name theorems of the database, and the
  check collects only those.
- `ScopeInvariant`: whatever a proof state, saved or current, mentions is in `used`.  That
  is why freshness survives putting back an old proof state: `used` does not go back.
- `SoundStates`: honest evidence and valid goals give the conclusion.  The case of intro
  uses `GenericAssumption`, hence the freshness of its variable.
- `JobInvariant`: what the proof states are about is what the job set out to prove.
- `CheckInvariant`: while the check runs no goal is left, and each node of the evidence is
  either still to be read or accounted for in the dependencies, the summary and `unsaid`.  So
  evidence of which nothing is said there is honest and has no split under a quantifier, and the conclusion holds by `SoundStates`.
- `OwnInvariant`: there is a run of the check through the evidence so far, from the conclusion
  to the goals that are left (`Retraces`), and during the check one through what is left of
  the evidence, to nothing.  A run is a sequence of lists of sequents, so that no induction
  over the evidence is needed: a tactic makes it longer by one (`RetracesAppended`), a node of
  the check takes its first away (`RetracesFirst`).  Where a structural node replaces another
  one, the step before must still fit, which is transitivity of `sequentSubsumes`
  (`RetracesReplaced`).  That the check, which compares normal forms, accepts intro of a
  hypothesis, its reversal, normalization itself and the node that `finishProof` puts before
  the evidence of a verification condition, are facts about `Norm` (`IntroSubsumes`,
  `RevertSubsumes`, `NormalSubsumes`: a normal form is its own, `SequentTaken`).  `Weakens`
  stands for the scripts that may have dropped a conclusion; a script that brings in the
  proof state of another brings in what that one dropped, hence the assumption.

### ExceptionLowerProofs

For any exceptions and bounds, if `Features = {}`: `LoweredTypes` (`Spec => []TypeOK`) and
`LoweringIsFaithful` (`Spec => ImplementsUnwinder`).  `Lowered` is the inductive invariant:
pads catch all or nothing (`AllOrNothing`), are innermost (`PadsInnermost`), and while one is
executed the flag is set, the exception is the one the pad was given, and what it calls has
no pads (`PadsCurrent`).  The last is what makes the flag of a cleanup different
from the flag of a throw, and it is what each hard feature breaks: with any one of them TLC
finds `ImplementsUnwinder` violated.

### IntRangeSetProofs

All that the run `interval_sets` checks, for all integers `Lo`, `Hi` and lists of any length
(`MaxPairs \in Nat`), each as a theorem of `AlgebraSpec`, whose client mixes insert, delete,
union and difference:

| Theorem | What it says |
|---|---|
| `TypeCorrect` | the ends of intervals stay within those that the client uses |
| `RangesCanonicalForever` | the intervals are disjoint, nonempty and do not touch |
| `MemberExactForever` | member, which looks at one interval, decides membership in all |
| `ElementsExactForever` | insert and delete are union and difference with an interval's integers |
| `CombinesExactForever` | fromList, union and difference compute the sets they are named for, and union commutes as equality of maps |
| `ListRoundTripForever` | fromList after toList is the identity |
| `EqualSetsEqualMaps` | two canonical maps with the same elements are equal, which the derived `Eq` relies on |

The inductive invariant `Held` is "canonical, within `Lo .. Hi`, and every nonempty set of
lower ends below a number has a greatest element" (`HasFloor`, which stands for the finiteness
of an `IntMap`); `InsertShape` and `DeleteShape` describe the resulting map without the code's
case distinctions.

Union, difference and fromList are `FoldRight`, a function on the sets of positions of a list
that is chosen by its equation.  There is no induction over data to be had, but the strict
subsets of a finite set are well-founded, and each fact needs a set of positions that is least
among those for which it fails (`LeastSet`): solutions of the equation agree
(`SolutionsAgree`), there is one (`SolutionExists`), and it adds or removes what the intervals
cover (`FoldExact`).  The list that `ToList` gives is a list of all intervals because the
numbers of lower ends below each one differ, so each position gets one (`ToListExact`).  That
union commutes and that `FromList` undoes `ToList` then follow from `EqualSetsEqualMaps`.

### TopLevelProofs

For any directories and any bounds on terms, checkpoints and nested calls, if scripts heed
the discipline of section 2.5 (`Scoped`): all that the run `toplevel` checks.

| Theorem | Statement | Assumes |
|---|---|---|
| `TypeCorrect` | `Spec => []TypeOK` | `Scoped` |
| `EnvironmentStaysLive` | `Spec => []EnvironmentLive` | `Scoped` |
| `MirrorStaysAgreeing` | `Spec => []MirrorAgrees` | `Scoped` |
| `IncludesStayBalanced` | `Spec => []IncludesBalanced` | `Scoped` |
| `FailuresAreUndone` | `Spec => FailuresUndone` | `Scoped` |

None of the properties is inductive, because each step that handles a failure puts a *copy* of the
state in force, and says nothing about what was copied.  `Inv` describes the copies, those in frames
and those in checkpoints alike, by two predicates:

- `StateOK`: the copy fits the calls below the frame that holds it.  It has a scope for
  each subshell as far as the innermost block, a directory for each include, the
  two stacks of scopes agree, and a checkpoint that a scope binds was taken with as many scopes as
  there are from that one outwards.  The last is why `restoreCryptolEnvStack`, which zips two
  stacks of scopes, drops nothing that is still in use.
- `StateLive`: the copy was live in the kernel it was made in.  `Continues(chk, k)` carries that
  to a later kernel `k`: nothing older than the checkpoint has become stale since.

What a copy vouches for must also hold of the copies it leads to, for a restore reaches back
over handlers that are waiting; hence `CallsLive`, which relates the kernel to every frame below, and
the strict order of the checkpoints of nested handlers in `PointOK`.  `Waiting` is where that
stops: once a script's restore has gone back past the checkpoint of the command that invoked it,
that command may not fail any more, and nothing is claimed of its handler's copy.  `Restoring` is
the same for a restore between two of its writes, where the state in force is no one's copy.

There is one lemma per action, and under it the parts of `Inv`: the state, the frames, the
checkpoints, the calls that wait.  `Inv` itself was model-checked on the instance of `toplevel`
before it was proved (4.9 million states).

### Only model-checked

- `ProofsEnd`: liveness is out of the prover's reach.
- All properties outside the assumptions above: for example `EnvValid` is claimed of
  handlers only.

## 5. Disagreements with the code

Those that a run shows (`findings` of `PROJECT.json`):

- `nested_handlers`: `restoreSharedContext` refuses a checkpoint whose own index has
  been invalidated, though the checkpoint only vouches for the indexes below it.  Two
  handlers that took their checkpoints at one index therefore cannot both restore.
- `swallowed_timeout`: `tryWithTimeout` catches every exception, that of an enclosing
  `timeout_handle` included.  A timeout that fires during a lookup counts as a failed
  lookup, and the solver is then run without any limit, though `timeout_handle` documents
  that the action is terminated.
- `split_quantified`: `splitDisj` takes a hypothesis `(x : A) -> EqTrue (p x \/ q x)` apart
  under the quantifier, into `(x : A) -> EqTrue (p x)` and `(x : A) -> EqTrue (q x)`.
  `split_goal` then makes two valid goals of a sequent that is not, and the check, which
  calls the same function, accepts.
- `unchecked_call`: the pass looks at `invoke` only.  A caller without a landing pad goes
  on after its callee threw, with the flag set.

Kernel:

- `scmAscribe` reaches `scmMakeTerm` without validating either argument, against the latter's
  stated precondition (`Certified.hs:359`).  A term that was rolled back comes back as a new
  one with the old shape.  `SharedContext` lets clients do this at any time, marks what they
  get (`revived`), and the properties say how far the damage goes.  Without their exceptions
  TLC finds each of them violated:
  - `CacheSubterms` and `CacheClosed`: the parts of the new term are invalid and it is not.
    What is built on it, by valid calls, has it as a part; a definition of it makes the type of a
    later Constant invalid.
  - `LiveConstantsDefined`: a `Constant` whose declaration was rolled back is usable
    again and has no definition, so `scmWhnf` on it panics.
  - `HashConsed`: for valid `f` and `a`, roll back the application `f a`, and ascribe it at its
    own type.  The result is in `hashMapTFM` only; `scmApply f a` looks in
    `appMapTFM` only and makes a second term of the same shape and type.

Proofs:

- `rawSequentSubsumes` should accept evidence for *fewer* conclusions than the goal has
  and accepts evidence for *more*.  Two counterexamples.  (1) `delete_concl` or
  `retain_concl` on `|- P, Q`: the evidence is for `|- P`, the check asks whether `{P, Q}` is
  a subset of `{P}` and refuses the finished proof.  (2) A script that puts back the
  captured proof state of another proof, whose conclusions were `P` and `Q`, leaves evidence
  for `|- P, Q`; for the goal `|- P` the check asks whether `{P}` is a subset of `{P, Q}` and
  accepts.  The properties leave out scripts that do the one (`Weakens`) or the other
  (`Foreign`).
- The check of an intro step does not check that the variable is fresh (its TODO).
  `IntroducedFresh` shows that the name supply makes up for it.
- `sequentToSATQuery` collects the variables of a sequent by base name; two of one
  name become one in the solver's query.
- The `offline_*` provers write the goal to a file and return `SolverEvidence`
  (`Builtins.hs`, `wrapW4ProveExporter`, `proveWithSATExporter`, `proveWithPropExporter`), which
  is documented as "dispatched to a solver which has indicated that it was able to prove the
  sequent" (`Proof.hs:993`).  Any goal can be closed so, and the theorem is summarised as proved
  and reported as verified.  All there is to see is the name of the prover in its statistics:
  `offline: ` and the path (`Prover/Exporter.hs`), and for `offline_w4_*` not even that, but the
  name of the solver's adapter (`Prover/What4.hs`).  So `TheoremsHold` has an exception for it.
- `core_thm` and `goal_exact` look at the type of a proof term and at nothing else.  It may have free
  variables, one of the type that is to be proved for example, and may use the Prelude's `fix`,
  `error` and `unsafeAssert`, with which every proposition has a proof.  Such a theorem is
  summarised as proved, too.

Interpreter:

- *Lost working directory.*  An included file starts with `pushdir` and ends with `popdir`
  (`Loader.hs`, `wrapDir`).  The directory stack is in `TopLevelRW` and goes back after a
  failure; the process's directory does not, except at the end of `interpretFile`.  After an
  include that fails at the REPL, under `fails` or under `timeout_handle`, relative paths are
  looked up in the included file's directory, until the next include or its end.
- *`fails` and the kernel.*  `fails` discards the failed action's interpreter state and not
  its kernel state: names it declared remain taken, and no environment of the interpreter
  knows them.  An enclosing command that fails still undoes them (`FailuresUndone`).
- *Checkpoints in blocks.*  A checkpoint that is invoked inside a block or a function puts
  the whole `TopLevelRW` back, and at the end of the block `withEnviron` puts the environment
  of before the invocation back: bindings to terms that the restore invalidated are
  visible again.  `makeCheckpoint` warns of this; `Scoped` leaves it out.
- *Once only.*  Invoking a checkpoint after which some term was made invalidates the
  checkpoint's own index, so a second invocation is refused.
- *Checkpoints and the REPL.*  A command that invokes a checkpoint of an earlier command and
  then fails meets its own handler's checkpoint stale: the exception leaves
  `exceptionProtect` and ends SAW.  If the handler's checkpoint was taken at the index that
  is handed out next, it is not recognised as stale, and the handler restores an environment
  that mentions stale terms.
- `exceptionProtect` of a subshell takes the `Timeout` of an enclosing `timeout_handle` for
  an error of the command, prints it and goes on.
- `restoreCryptolEnv` says that it keeps the newer name supply "so as to not reuse names
  already issued"; it keeps `meNameSeeds` and rolls `meSupply` back.

Exception lowering:

- The worklist takes calls of the runtime only when they are `call`s; `invoke
  @__cxa_throw` and `invoke @__cxa_rethrow` stay, so a function that throws inside its own
  `try` block is not lowered.
- The lowered landing pad gives selector 0, so no handler for a type is ever chosen.
- `rethrow` and `resume` raise the exception that was thrown last, also when that was
  another one, thrown and caught since.
- Cleanups run with the flag set; a call with a landing pad inside one finds it set and
  lands.
- A landing pad is looked for as the first instruction of its block and missed behind a
  PHI; PHIs of the unwind destination keep the removed edge.
- SEH: `_CxxThrowException` is not lowered, so the flag is never set; a catchpad does not
  load the value its README says it loads; of a catchswitch the first handler is taken.
- The exception object becomes an `alloca` of the function that throws and dangles after it
  has returned.

## 6. Limits

- Under `"script"`, a script that restores an older checkpoint and then a younger one
  that is not recognised as stale can have an environment that mentions invalid terms
  (`EnvValid` is claimed for handlers only).  Opaque constants may have types with free
  variables, so `DefsClosed` is claimed for definitions only.
- Index exhaustion (2^48 terms per context) is not modelled: the model stops before the
  end of its block, as the code assumes it will.
- The solver cache's hash is taken to be injective on queries; a back end replaced while it
  runs is outside the model, since keys hold the versions found before.
- `Proof` takes solvers, rewriting, evaluation and unification as truth-preserving; whether
  they are is a question about the semantics of SAWCore.  Left out are opaque
  sets, simpsets of more than one rule, and rules other than equations; `goal_apply` and
  `goal_apply_hyp` with a rule of more than one premise, which leave several goals;
  `simplify_local`, which rewrites with hypotheses; `beta_reduce_goal` and its
  `ConversionEvidence`; and `AxiomEvidence`, which is checked and which no tactic makes.
- `TopLevel` has no stack trace, options, type scopes or rebindable variables, and none of
  the REPL's `:` commands (`:cd` changes the directory on purpose).
- `ExceptionLower` is Itanium landing pads only.  The exception of an uncaught throw simply
  leaves the last function.

### Not modelled

`PROJECT.json` gives the reason for each component.  They come down to these:

- *The rest of the state is someone else's.*  Crucible LLVM, MIR and JVM verification,
  override matching and x86 verification pass values of Crucible's simulator and memory model
  through each step, the RPC server is handlers in argo's state machine, the Cryptol
  environment wraps Cryptol's module loader.  The directories of these libraries are empty
  submodules; their guards and effects cannot be read from this repository, and a model that
  makes them up would check what was made up.
- *Pure translations* between languages too large to enumerate: Cryptol to SAWCore, SAWCore
  to solvers, Rocq and AIG, netlists to terms, parsers, type checkers and printers; the
  rewriter and the simulator, whose correctness would need a semantics of SAWCore.
- *No state and no order*: verification summary, bisimulation, strip-nuw, auto-match's report,
  command line tools.  The congruence closure is dead code.
- *C and C++ sources.*  Nearly all of them are subjects of verification: examples, exercises
  and test inputs (SHA-512, ChaCha20, Salsa20, Simon and Speck, and their portability
  headers).  SAW runs on them and they are no part of SAW.  The one C++ program with logic of
  its own is the exception-lowering pass, which is modelled.

## 7. What could come next

- `sequentToSATQuery` with names: when is the query equivalent to the sequent?
- SEH funclets in `ExceptionLower`, once the pass lowers the call that throws.
