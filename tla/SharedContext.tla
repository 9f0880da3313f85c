--------------------------- MODULE SharedContext ---------------------------
(***************************************************************************)
(* The SAWCore kernel state: saw-core/src/SAWCore/Term/Certified.hs.       *)
(*                                                                         *)
(* A SharedContext is a record of IORefs: the declared names and their     *)
(* definitions, the hash-consing table of terms, and the counters that     *)
(* number names and terms.  Terms are immutable Haskell values that clients*)
(* keep, also across restoreSharedContext: whether a term may still be used*)
(* is decided by its TermIndex alone.                                      *)
(*                                                                         *)
(* A declaration is several IORef updates.  It runs here as several steps  *)
(* (pc, decl), because an asynchronous exception (timeout, Ctrl-C) can stop*)
(* it between any two of them.                                             *)
(*                                                                         *)
(* Abstractions.  All sorts are one sort, kept as NoTerm in type position  *)
(* (`asSort` recovers it from a term); function types are not dependent;   *)
(* convertibility unfolds constants at the head; module paths, display     *)
(* names, invented variables and printer options are left out.             *)
(***************************************************************************)
EXTENDS Integers, Sequences, FiniteSets

CONSTANTS
  Names,           \* the qualified names clients choose
  Idents,          \* those of them that are ModuleIdentifiers
  LastIndex,       \* the last TermIndex of this context's 48-bit block
  LastVar,         \* bound: the last VarIndex handed out
  MaxVarNames,     \* bound: variable names handed out
  MaxCheckpoints,  \* bound: checkpoints held at one time
  Kinds,           \* the declarations a client makes, a subset of AllKinds
  Builds,          \* the compound terms a client builds, a subset of AllBuilds
  Discipline       \* how checkpoints are used, one of Disciplines

AllKinds == {"define", "opaque", "fresh", "datatype"}

AllBuilds == {"variable", "pi", "apply", "ascribe"}

(* "nested": handlers (REPL command, timeout) bracket what they run, and   *)
(* restore their checkpoint at most once.  "separated": in addition, no two*)
(* of the checkpoints held have the same TermIndex.  "script": checkpoints *)
(* are kept and restored in any order, as SAWScript's `checkpoint` lets.   *)
Disciplines == {"separated", "nested", "script"}

Handlers == Discipline # "script"

Indexes == 0 .. LastIndex
VarIndexes == 1 .. LastVar
NoTerm == -1

(* scFreshQualName: a name made unique by the VarIndex in it.              *)
Fresh(v) == <<"fresh", v>>

ASSUME ContextAssumption ==
  /\ LastIndex \in Nat /\ LastVar \in Nat
  /\ MaxVarNames \in Nat /\ MaxCheckpoints \in Nat
  /\ Idents \subseteq Names
  /\ \A v \in VarIndexes : Fresh(v) \notin Names
  /\ Kinds \subseteq AllKinds /\ Builds \subseteq AllBuilds
  /\ Discipline \in Disciplines

VARIABLES
  heap,         \* every term ever made, by TermIndex
  appCache,     \* appMapTFM of scAppCache: applications at their computed type
  hashCache,    \* hashMapTFM of scAppCache: everything else
  nextTerm,     \* scNextTermIndex
  validTerms,   \* scValidTerms
  nextVar,      \* scNextVarIndex
  varNames,     \* the VarNames handed to clients
  names,        \* the Names handed to clients, each with what it was declared as
  moduleMap,    \* scModuleMap: VarIndex -> definition
  qualNames,    \* scQualNameEnv: qualified name -> VarIndex
  globalEnv,    \* scGlobalEnv: ident -> Constant term
  checkpoints,  \* the SharedContextCheckpoints held, oldest first
  pc, decl      \* the declaration in progress

caches == <<heap, appCache, hashCache, nextTerm>>
envs == <<moduleMap, qualNames, globalEnv>>
counters == <<nextVar, varNames, names>>
control == <<pc, decl>>
vars == <<caches, validTerms, counters, envs, checkpoints, control>>

Extend(f, k, v) == [x \in DOMAIN f \cup {k} |-> IF x = k THEN v ELSE f[x]]

-----------------------------------------------------------------------------
(* Terms.  A term has a shape tf (the TermF), the typing context vt of its *)
(* free variables, and a type.  `revived' is history, which no action      *)
(* reads: scmAscribe made the term from one already rolled back.           *)
SortF == [op |-> "Sort", var |-> 0, fst |-> NoTerm, snd |-> NoTerm]
ConstF(v) == [op |-> "Constant", var |-> v, fst |-> NoTerm, snd |-> NoTerm]
VariableF(x, t) == [op |-> "Variable", var |-> x, fst |-> t, snd |-> NoTerm]
PiF(x, t, b) == [op |-> "Pi", var |-> x, fst |-> t, snd |-> b]
AppF(f, a) == [op |-> "App", var |-> 0, fst |-> f, snd |-> a]

Term(tf, vt, ty) == [tf |-> tf, vt |-> vt, ty |-> ty, revived |-> FALSE]

Cached == appCache \cup hashCache

(* The terms a term is built from, its type included.                      *)
Parts(t) == {heap[t].tf.fst, heap[t].tf.snd, heap[t].ty} \ {NoTerm}

Closed(t) == heap[t].vt = {}

AsType(t) == IF heap[t].tf.op = "Sort" THEN NoTerm ELSE t

(* scmWhnf, on constants: unfold definitions at the head as long as there  *)
(* is one.  The result is the one term that does not unfold of those in    *)
(* every set that holds t and is closed under unfolding; there is none when*)
(* that is a Constant without a definition, on which requireNameInMap      *)
(* panics.                                                                 *)
Unfolds(t) ==
  /\ heap[t].tf.op = "Constant"
  /\ heap[t].tf.var \in DOMAIN moduleMap
  /\ moduleMap[heap[t].tf.var].body # NoTerm

Unfolding(t) == moduleMap[heap[t].tf.var].body

UnfoldClosed(S) == \A t \in S : Unfolds(t) => Unfolding(t) \in S

IsNormal(t) ==
  /\ ~Unfolds(t)
  /\ heap[t].tf.op = "Constant" => heap[t].tf.var \in DOMAIN moduleMap

Whnf(t) ==
  IF ~Unfolds(t) THEN {u \in {t} : IsNormal(u)}
  ELSE {u \in DOMAIN heap :
          /\ IsNormal(u)
          /\ \A S \in SUBSET DOMAIN heap : t \in S /\ UnfoldClosed(S) => u \in S}

HeadTypes(ty) ==
  IF ty = NoTerm THEN {NoTerm} ELSE {AsType(u) : u \in Whnf(ty)}

(* scmSubtype; a type is compared with itself without unfolding it.        *)
Subtype(ty1, ty2) == ty1 # ty2 => HeadTypes(ty1) \cap HeadTypes(ty2) # {}

(* scmEnsureSortType *)
HasSortType(t) == NoTerm \in HeadTypes(heap[t].ty)

(* scmUnifyVarTypes: contexts may be joined if they agree where they meet. *)
Unifiable(vt1, vt2) ==
  \A p \in vt1, q \in vt2 : p[1] = q[1] => p[2] = q[2]

Without(x, vt) == {p \in vt : p[1] # x}

(* scmEnsureNotFreeInContext                                               *)
NotFreeInContext(x, t) ==
  \A p \in heap[t].vt : \A q \in heap[p[2]].vt : q[1] # x

EnsureMade(t) == t \in DOMAIN heap   \* mutant: the check dropped

(* scmEnsureValidTerm                                                      *)
EnsureValid(t) == t \in validTerms

-----------------------------------------------------------------------------
(* scmMakeTerm: reuse the cached term with this shape and type, or number a*)
(* new one.  The precondition that the parts are valid is the caller's.    *)
HashHits(tf, ty) == {t \in hashCache : heap[t].tf = tf /\ heap[t].ty = ty}

MadeTerm(tf, ty) ==
  IF HashHits(tf, ty) = {} THEN nextTerm ELSE CHOOSE t \in HashHits(tf, ty) : TRUE

NewTerm(term) ==
  /\ nextTerm < LastIndex
  /\ heap' = Extend(heap, nextTerm, term)
  /\ nextTerm' = nextTerm + 1

Insert(term) ==
  /\ HashHits(term.tf, term.ty) = {}
  /\ NewTerm(term)
  /\ hashCache' = hashCache \cup {nextTerm}
  /\ UNCHANGED appCache

MakeTerm(tf, vt, ty) ==
  \/ Insert(Term(tf, vt, ty))
  \/ HashHits(tf, ty) # {} /\ UNCHANGED caches

(* Builders run to the end between two commands of the client; one that    *)
(* finds its term in the tables returns it and changes nothing.            *)
Builder == UNCHANGED <<validTerms, envs, checkpoints, control>>

SortTerm ==
  /\ pc = "idle"
  /\ Insert(Term(SortF, {}, NoTerm))
  /\ UNCHANGED counters
  /\ Builder

(* scmFreshVarName *)
FreshVarName ==
  /\ pc = "idle"
  /\ nextVar <= LastVar
  /\ Cardinality(varNames) < MaxVarNames
  /\ varNames' = varNames \cup {nextVar}
  /\ nextVar' = nextVar + 1
  /\ UNCHANGED <<caches, names>>
  /\ Builder

(* scmVariable *)
Variable(x, t) ==
  /\ pc = "idle"
  /\ EnsureValid(t)
  /\ Unifiable({<<x, t>>}, heap[t].vt)
  /\ HasSortType(t)
  /\ Insert(Term(VariableF(x, t), {<<x, t>>} \cup heap[t].vt, AsType(t)))
  /\ UNCHANGED counters
  /\ Builder

(* scmPi; 0 is the wildcard name of scmFun *)
Pi(x, t, body) ==
  /\ pc = "idle"
  /\ EnsureValid(t) /\ EnsureValid(body)
  /\ NotFreeInContext(x, body)
  /\ Unifiable({<<x, t>>}, heap[body].vt)
  /\ Unifiable(heap[t].vt, Without(x, heap[body].vt))
  /\ HasSortType(t) /\ HasSortType(body)
  /\ Insert(Term(PiF(x, t, body), heap[t].vt \cup Without(x, heap[body].vt), NoTerm))
  /\ UNCHANGED counters
  /\ Builder

(* scmApply: the table is asked before the arguments are validated, and    *)
(* only a miss checks them and types the application.                      *)
AppHits(f, a) == {t \in appCache : heap[t].tf = AppF(f, a)}

Apply(f, a) ==
  /\ pc = "idle"
  /\ AppHits(f, a) = {}
  /\ EnsureValid(f) /\ EnsureValid(a)
  /\ Unifiable(heap[f].vt, heap[a].vt)
  /\ heap[f].ty # NoTerm
  /\ \E pi \in Whnf(heap[f].ty) :
       /\ heap[pi].tf.op = "Pi"
       /\ \A p \in heap[heap[pi].tf.snd].vt : p[1] # heap[pi].tf.var
       /\ Subtype(heap[a].ty, AsType(heap[pi].tf.fst))
       /\ NewTerm(Term(AppF(f, a), heap[f].vt \cup heap[a].vt,
                       AsType(heap[pi].tf.snd)))
  /\ appCache' = appCache \cup {nextTerm}
  /\ UNCHANGED <<hashCache, counters>>
  /\ Builder

(* scmAscribe: the shape of t0 at a type convertible to its own.  Neither  *)
(* argument is checked with scmEnsureValidTerm, as the precondition of     *)
(* scmMakeTerm asks: a term already rolled back can come back as a new one.*)
Ascribed(t0, ty) ==
  [Term(heap[t0].tf, heap[t0].vt, AsType(ty)) EXCEPT
     !.revived = heap[t0].revived \/ ~(EnsureValid(t0) /\ EnsureValid(ty))]

(* Mutant: the application table is not consulted.                         *)
AscribeAfresh(t0, ty) ==
  /\ pc = "idle"
  /\ Subtype(heap[t0].ty, AsType(ty))
  /\ Insert(Ascribed(t0, ty))
  /\ UNCHANGED counters
  /\ Builder

(* An application goes back to its appMapTFM entry when that has the type. *)
Ascribe(t0, ty) ==
  /\ pc = "idle"
  /\ Subtype(heap[t0].ty, AsType(ty))
  /\ ~ \E t \in appCache : heap[t].tf = heap[t0].tf /\ heap[t].ty = AsType(ty)
  /\ Insert(Ascribed(t0, ty))
  /\ UNCHANGED counters
  /\ Builder

(* scmConst, by a client that kept a Name; scmTypeOfName finds its type.   *)
ConstTerm(v) ==
  /\ pc = "idle"
  /\ v \in DOMAIN moduleMap
  /\ Insert(Term(ConstF(v), {}, moduleMap[v].ty))
  /\ UNCHANGED counters
  /\ Builder

-----------------------------------------------------------------------------
(* Declarations.                                                           *)
NoDecl == [index |-> 0, qn |-> Fresh(0), ty |-> NoTerm, body |-> NoTerm,
           ctor |-> 0, ctorQn |-> Fresh(0), term |-> NoTerm]

Idle == pc' = "idle" /\ decl' = NoDecl

(* Bound: a declaration is started only if its terms and names still fit.  *)
Room == nextTerm < LastIndex /\ nextVar < LastVar

(* Mutant: the duplicate check dropped.                                    *)
RegisterNameAgain(qn) ==
  /\ nextVar' = nextVar + 1
  /\ qualNames' = Extend(qualNames, qn, nextVar)
  /\ UNCHANGED <<varNames, names>>

(* scmRegisterName: the VarIndex is taken before the name is looked up.    *)
RegisterName(qn) ==
  /\ nextVar' = nextVar + 1
  /\ qn \notin DOMAIN qualNames
  /\ qualNames' = Extend(qualNames, qn, nextVar)
  /\ UNCHANGED <<varNames, names>>

DuplicateName(qn) ==
  /\ nextVar' = nextVar + 1
  /\ qn \in DOMAIN qualNames
  /\ UNCHANGED <<qualNames, varNames, names>>

Declare(qn, ty, body) ==
  /\ pc = "idle" /\ Room
  /\ \/ /\ RegisterName(qn)
        /\ pc' = "named"
        /\ decl' = [NoDecl EXCEPT !.index = nextVar, !.qn = qn,
                                  !.ty = ty, !.body = body]
     \/ /\ DuplicateName(qn)
        /\ UNCHANGED control
  /\ UNCHANGED <<caches, validTerms, moduleMap, globalEnv, checkpoints>>

(* ConstantNotClosed is raised once the name has been registered.          *)
DeclareOpen(qn) ==
  /\ pc = "idle" /\ Room
  /\ RegisterName(qn)
  /\ UNCHANGED <<caches, validTerms, moduleMap, globalEnv, checkpoints, control>>

(* Mutant: the ConstantNotClosed check dropped.                            *)
DefineOpenConstant(qn, rhs) == EnsureValid(rhs) /\ Declare(qn, heap[rhs].ty, rhs)

(* scmDefineConstant, and scmFreshConstant under a name of its own.        *)
DefineConstant(qn, rhs) ==
  /\ EnsureValid(rhs)
  /\ \/ Closed(rhs) /\ Declare(qn, heap[rhs].ty, rhs)
     \/ ~Closed(rhs) /\ DeclareOpen(qn)

FreshConstant(rhs) == DefineConstant(Fresh(nextVar), rhs)

(* scmOpaqueConstant and scmDeclarePrim: the type may have free variables. *)
OpaqueConstant(qn, ty) ==
  /\ EnsureValid(ty)
  /\ HasSortType(ty)
  /\ Declare(qn, AsType(ty), NoTerm)

Definition(qn, ty, body) == [qn |-> qn, ty |-> ty, body |-> body]

(* scmDeclareDef: scmInsDefInMap, then scmConst, then scmRegisterGlobal.   *)
InsDefInMap ==
  /\ pc = "named"
  /\ decl.index \notin DOMAIN moduleMap
  /\ moduleMap' = Extend(moduleMap, decl.index,
                         Definition(decl.qn, decl.ty, decl.body))
  /\ names' = names \cup {<<decl.index, moduleMap'[decl.index]>>}
  /\ pc' = "declared"
  /\ UNCHANGED <<caches, validTerms, nextVar, varNames, qualNames, globalEnv,
                 checkpoints, decl>>

BuildConst ==
  /\ pc = "declared"
  /\ MakeTerm(ConstF(decl.index), {}, decl.ty)
  /\ IF decl.qn \in Idents
       THEN /\ pc' = "built"
            /\ decl' = [decl EXCEPT !.term = MadeTerm(ConstF(decl.index), decl.ty)]
       ELSE Idle
  /\ UNCHANGED <<validTerms, counters, envs, checkpoints>>

RegisterGlobal ==
  /\ pc = "built"
  /\ decl.qn \notin DOMAIN globalEnv
  /\ globalEnv' = Extend(globalEnv, decl.qn, decl.term)
  /\ Idle
  /\ UNCHANGED <<caches, validTerms, counters, moduleMap, qualNames, checkpoints>>

-----------------------------------------------------------------------------
(* scmDefineDataType, with one constructor and without parameters: the     *)
(* constructor's type is the data type itself.                             *)
DataType(qn, ctorQn) ==
  /\ pc = "idle" /\ nextTerm + 2 < LastIndex /\ nextVar + 1 < LastVar
  /\ \/ /\ RegisterName(qn)
        /\ pc' = "dtNamed"
        /\ decl' = [NoDecl EXCEPT !.index = nextVar, !.qn = qn, !.ctorQn = ctorQn]
     \/ /\ DuplicateName(qn)
        /\ UNCHANGED control
  /\ UNCHANGED <<caches, validTerms, moduleMap, globalEnv, checkpoints>>

(* A sort, closedness or universe check fails: what was done so far stays. *)
RejectDataType ==
  /\ pc \in {"dtNamed", "dtSorted", "dtBuilt", "dtCtorNamed"}
  /\ Idle
  /\ UNCHANGED <<caches, validTerms, counters, envs, checkpoints>>

DataTypeSort ==
  /\ pc = "dtNamed"
  /\ MakeTerm(SortF, {}, NoTerm)
  /\ pc' = "dtSorted"
  /\ UNCHANGED <<validTerms, counters, envs, checkpoints, decl>>

(* The Constant term exists before the name is in the module map.          *)
DataTypeTerm ==
  /\ pc = "dtSorted"
  /\ MakeTerm(ConstF(decl.index), {}, NoTerm)
  /\ pc' = "dtBuilt"
  /\ decl' = [decl EXCEPT !.term = MadeTerm(ConstF(decl.index), NoTerm)]
  /\ UNCHANGED <<validTerms, counters, envs, checkpoints>>

CtorName ==
  /\ pc = "dtBuilt"
  /\ \/ /\ RegisterName(decl.ctorQn)
        /\ pc' = "dtCtorNamed"
        /\ decl' = [decl EXCEPT !.ctor = nextVar]
     \/ /\ DuplicateName(decl.ctorQn)
        /\ Idle
  /\ UNCHANGED <<caches, validTerms, moduleMap, globalEnv, checkpoints>>

InsTypeDeclInMap ==
  /\ pc = "dtCtorNamed"
  /\ {decl.index, decl.ctor} \cap DOMAIN moduleMap = {}
  /\ moduleMap' = Extend(Extend(moduleMap,
                           decl.index, Definition(decl.qn, NoTerm, NoTerm)),
                           decl.ctor, Definition(decl.ctorQn, decl.term, NoTerm))
  /\ names' = names \cup {<<v, moduleMap'[v]>> : v \in {decl.index, decl.ctor}}
  /\ pc' = "dtInserted"
  /\ UNCHANGED <<caches, validTerms, nextVar, varNames, qualNames, globalEnv,
                 checkpoints, decl>>

DataTypeGlobal ==
  /\ pc = "dtInserted"
  /\ \/ /\ decl.qn \in Idents \ DOMAIN globalEnv
        /\ globalEnv' = Extend(globalEnv, decl.qn, decl.term)
     \/ /\ decl.qn \notin Idents
        /\ UNCHANGED globalEnv
  /\ pc' = "dtGlobal"
  /\ UNCHANGED <<caches, validTerms, counters, moduleMap, qualNames, checkpoints, decl>>

(* The constructor is declared like any other constant from here on.       *)
CtorConst ==
  /\ pc = "dtGlobal"
  /\ pc' = "declared"
  /\ decl' = [decl EXCEPT !.index = decl.ctor, !.qn = decl.ctorQn, !.ty = decl.term]
  /\ UNCHANGED <<caches, validTerms, counters, envs, checkpoints>>
-----------------------------------------------------------------------------
(* checkpointSharedContext                                                 *)
Snapshot == [moduleMap |-> moduleMap, qualNames |-> qualNames,
             globalEnv |-> globalEnv, termIndex |-> nextTerm]

Checkpoint ==
  /\ pc = "idle"
  /\ Len(checkpoints) < MaxCheckpoints
  /\ Discipline = "separated" =>
       \A k \in 1 .. Len(checkpoints) : checkpoints[k].termIndex # nextTerm
  /\ checkpoints' = Append(checkpoints, Snapshot)
  /\ UNCHANGED <<caches, validTerms, counters, envs, control>>

(* restoreSharedContext: the environments go back, the terms numbered since*)
(* the checkpoint become invalid, the counters run on.                     *)
NotStale(scc) == scc.termIndex \in validTerms

SinceAndBefore(i) == i - 1 .. nextTerm - 1   \* mutant: off by one
AfterOnly(i) == i + 1 .. nextTerm - 1         \* mutant: off by one
Since(i) == i .. nextTerm - 1

UpTo(cache, i) == {t \in cache : t <= i}   \* mutant: off by one
FilterTFM(cache, i) == {t \in cache : t < i}

(* Mutants: one environment is not put back.                               *)
RestoreNotModules(scc) ==
  /\ UNCHANGED moduleMap
  /\ qualNames' = scc.qualNames
  /\ globalEnv' = scc.globalEnv

RestoreNotGlobals(scc) ==
  /\ moduleMap' = scc.moduleMap
  /\ qualNames' = scc.qualNames
  /\ UNCHANGED globalEnv

RestoreEnvs(scc) ==
  /\ moduleMap' = scc.moduleMap
  /\ qualNames' = scc.qualNames
  /\ globalEnv' = scc.globalEnv

RestoreTerms(scc) ==
  /\ validTerms' = validTerms \ Since(scc.termIndex)
  /\ appCache' = FilterTFM(appCache, scc.termIndex)
  /\ hashCache' = FilterTFM(hashCache, scc.termIndex)

(* Mutants: a counter goes back too.                                       *)
RestoreTermIndex(scc) ==
  /\ NotStale(scc)
  /\ RestoreEnvs(scc)
  /\ RestoreTerms(scc)
  /\ nextTerm' = scc.termIndex
  /\ UNCHANGED <<heap, counters>>

RestoreVarIndex(scc) ==
  /\ NotStale(scc)
  /\ RestoreEnvs(scc)
  /\ RestoreTerms(scc)
  /\ nextVar' = Cardinality(DOMAIN scc.moduleMap) + 1
  /\ UNCHANGED <<heap, nextTerm, varNames, names>>

RestoreSharedContext(scc) ==
  /\ NotStale(scc)
  /\ RestoreEnvs(scc)
  /\ RestoreTerms(scc)
  /\ UNCHANGED <<heap, nextTerm, counters>>

Top == checkpoints[Len(checkpoints)]
DropTop ==
  /\ Handlers
  /\ checkpoints # <<>>
  /\ checkpoints' = SubSeq(checkpoints, 1, Len(checkpoints) - 1)

(* A handler puts the state back once and forgets its checkpoint.  When    *)
(* the checkpoint is refused the error goes on to the next handler out.    *)
HandlerRestores ==
  /\ DropTop
  /\ \/ RestoreSharedContext(Top)
     \/ ~NotStale(Top) /\ UNCHANGED <<caches, validTerms, counters, envs>>

Rollback == pc = "idle" /\ HandlerRestores /\ UNCHANGED control

(* An asynchronous exception abandons a declaration at any step.           *)
Interrupt == pc # "idle" /\ HandlerRestores /\ Idle

(* The command succeeded: its handler forgets the checkpoint.              *)
Release ==
  /\ pc = "idle"
  /\ DropTop
  /\ UNCHANGED <<caches, validTerms, counters, envs, control>>

(* A script invokes the action `checkpoint` gave it, as often as it likes. *)
Restore(k) ==
  /\ ~Handlers
  /\ pc = "idle"
  /\ RestoreSharedContext(checkpoints[k])
  /\ UNCHANGED <<checkpoints, control>>

-----------------------------------------------------------------------------
(* mkSharedContext                                                         *)
Init ==
  /\ heap = [t \in {} |-> Term(SortF, {}, NoTerm)]
  /\ appCache = {} /\ hashCache = {}
  /\ nextTerm = 0
  /\ validTerms = Indexes
  /\ nextVar = 1 /\ varNames = {} /\ names = {}
  /\ moduleMap = [v \in {} |-> Definition(Fresh(0), NoTerm, NoTerm)]
  /\ qualNames = [n \in {} |-> 0]
  /\ globalEnv = [n \in {} |-> NoTerm]
  /\ checkpoints = <<>>
  /\ pc = "idle" /\ decl = NoDecl

(* The terms a client can present: all it was ever given, valid or not.  A *)
(* data type that was rejected has not been given to anyone.               *)
NamesHeld == {p[1] : p \in names}

Terms == {t \in DOMAIN heap :
            heap[t].tf.op = "Constant" => heap[t].tf.var \in NamesHeld}

BuildTerm ==
  \/ SortTerm
  \/ FreshVarName
  \/ "variable" \in Builds /\ \E x \in varNames, t \in Terms : Variable(x, t)
  \/ /\ "pi" \in Builds
     /\ \E x \in varNames \cup {0}, t, body \in Terms : Pi(x, t, body)
  \/ "apply" \in Builds /\ \E f, a \in Terms : Apply(f, a)
  \/ "ascribe" \in Builds /\ \E t, ty \in Terms : Ascribe(t, ty)
  \/ \E v \in NamesHeld : ConstTerm(v)

StartDecl ==
  \/ "define" \in Kinds /\ \E qn \in Names, t \in Terms : DefineConstant(qn, t)
  \/ "fresh" \in Kinds /\ \E t \in Terms : FreshConstant(t)
  \/ "opaque" \in Kinds /\ \E qn \in Names, t \in Terms : OpaqueConstant(qn, t)
  \/ "datatype" \in Kinds /\ \E qn, ctorQn \in Names : DataType(qn, ctorQn)

ContinueDecl ==
  \/ InsDefInMap \/ BuildConst \/ RegisterGlobal
  \/ RejectDataType \/ DataTypeSort \/ DataTypeTerm \/ CtorName
  \/ InsTypeDeclInMap \/ DataTypeGlobal \/ CtorConst

UseCheckpoint ==
  \/ Checkpoint \/ Rollback \/ Release \/ Interrupt
  \/ \E k \in 1 .. Len(checkpoints) : Restore(k)

Next == BuildTerm \/ StartDecl \/ ContinueDecl \/ UseCheckpoint

Spec == Init /\ [][Next]_vars
=============================================================================
