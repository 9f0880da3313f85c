------------------------- MODULE SharedContextNames -------------------------
(***************************************************************************)
(* Theorems about the names of SharedContext, for every value of its       *)
(* constants: a Name denotes one declaration for ever, names resolve to    *)
(* what was declared under them, usable Constants keep their definitions   *)
(* and the global environment agrees with the module map.                  *)
(*                                                                         *)
(* A step does one of three things to the names: it registers one, it      *)
(* inserts what was registered, or it goes back to a checkpoint (NameStep).*)
(***************************************************************************)
EXTENDS SharedContextProofs

(* What the declaration in progress has registered and not declared yet.   *)
Undeclared ==
  IF pc \in {"named", "dtNamed", "dtSorted", "dtBuilt"}
    THEN {<<decl.index, decl.qn>>}
    ELSE IF pc = "dtCtorNamed"
      THEN {<<decl.index, decl.qn>>, <<decl.ctor, decl.ctorQn>>}
      ELSE {}

(* The checkpoints after a step are those before it and one taken between  *)
(* two commands.                                                           *)
CheckpointsFrom ==
  \A k \in 1 .. Len(checkpoints') :
    \/ \E j \in 1 .. Len(checkpoints) : checkpoints'[k] = checkpoints[j]
    \/ pc = "idle" /\ checkpoints'[k] = Snapshot

Registers ==
  /\ UNCHANGED <<names, moduleMap>>
  /\ nextVar' >= nextVar
  /\ DOMAIN qualNames \subseteq DOMAIN qualNames'
  /\ \A n \in DOMAIN qualNames : qualNames'[n] = qualNames[n]
  /\ \E qn :
       /\ Undeclared' \subseteq Undeclared \cup {<<nextVar, qn>>}
       /\ \/ Undeclared' \subseteq Undeclared
          \/ /\ nextVar' > nextVar
             /\ qn \in DOMAIN qualNames' \ DOMAIN qualNames
             /\ qualNames'[qn] = nextVar
  /\ CheckpointsFrom

Inserts ==
  /\ Undeclared' = {}
  /\ DOMAIN moduleMap' = DOMAIN moduleMap \cup {p[1] : p \in Undeclared}
  /\ \A v \in DOMAIN moduleMap :
       moduleMap'[v] = moduleMap[v] /\ \A p \in Undeclared : v # p[1]
  /\ \A p \in Undeclared : moduleMap'[p[1]].qn = p[2]
  /\ names' = names \cup {<<p[1], moduleMap'[p[1]]>> : p \in Undeclared}
  /\ UNCHANGED <<nextVar, qualNames, checkpoints>>

GoesBackTo(k) ==
  /\ RestoreEnvs(checkpoints[k])
  /\ RestoreTerms(checkpoints[k])
  /\ UNCHANGED <<heap, nextTerm>>
  /\ UNCHANGED <<names, nextVar>>
  /\ Undeclared' = {}
  /\ CheckpointsFrom

(* The invariant.                                                          *)
Resolve(mm, qns) ==
  \A v \in DOMAIN mm : mm[v].qn \in DOMAIN qns /\ qns[mm[v].qn] = v

SavedResolve ==
  \A k \in 1 .. Len(checkpoints) :
    Resolve(checkpoints[k].moduleMap, checkpoints[k].qualNames)

UndeclaredNew ==
  \A p \in Undeclared :
    /\ p[2] \in DOMAIN qualNames /\ qualNames[p[2]] = p[1]
    /\ p[1] \in Int /\ p[1] < nextVar
    /\ p[1] \notin NamesHeld

UndeclaredApart == \A p, q \in Undeclared : p[1] = q[1] => p = q

NamesBelow == \A v \in NamesHeld : v < nextVar

NamesInv ==
  /\ Resolve(moduleMap, qualNames)
  /\ SavedResolve
  /\ UndeclaredNew
  /\ UndeclaredApart
  /\ NamesBelow
  /\ NamesUnambiguous

-----------------------------------------------------------------------------
(* The steps.                                                              *)
LEMMA SameCheckpoints == checkpoints' = checkpoints => CheckpointsFrom
BY DEF CheckpointsFrom

LEMMA NoNamesStep ==
  ASSUME WellFormed, UNCHANGED <<names, moduleMap, qualNames, nextVar>>,
         Undeclared' \subseteq Undeclared, CheckpointsFrom
  PROVE  Registers
<1>1. nextVar \in Int
  BY ContextAssumption DEF WellFormed, NamesOK, CountersOK
<1> QED
  BY <1>1 DEF Registers

(* Registering qn for a declaration whose undeclared names are then U.     *)
LEMMA RegisterStep ==
  ASSUME WellFormed, NEW qn, RegisterName(qn) \/ DuplicateName(qn),
         UNCHANGED <<moduleMap, checkpoints>>,
         \/ Undeclared' \subseteq Undeclared
         \/ RegisterName(qn) /\ Undeclared' \subseteq Undeclared \cup {<<nextVar, qn>>}
  PROVE  Registers
<1>1. nextVar \in Int /\ nextVar' = nextVar + 1 /\ UNCHANGED <<names, moduleMap>>
  BY ContextAssumption
     DEF WellFormed, NamesOK, CountersOK, RegisterName, DuplicateName
<1>2. /\ DOMAIN qualNames \subseteq DOMAIN qualNames'
      /\ \A n \in DOMAIN qualNames : qualNames'[n] = qualNames[n]
  BY DEF RegisterName, DuplicateName, Extend
<1>3. RegisterName(qn) =>
        qn \in DOMAIN qualNames' \ DOMAIN qualNames /\ qualNames'[qn] = nextVar
  BY DEF RegisterName, Extend
<1>4. nextVar' >= nextVar /\ nextVar' > nextVar
  BY <1>1
<1> QED
  BY <1>1, <1>2, <1>3, <1>4, SameCheckpoints DEF Registers

LEMMA BuildNames == WellFormed /\ BuildTerm => Registers
<1> SUFFICES ASSUME WellFormed, BuildTerm PROVE Registers
  OBVIOUS
<1>1. nextVar \in Int
  BY ContextAssumption DEF WellFormed, NamesOK, CountersOK
<1>2. UNCHANGED <<envs, checkpoints, control, names>> /\ nextVar' \in {nextVar, nextVar + 1}
  BY DEF BuildTerm, SortTerm, FreshVarName, Variable, Pi, Apply, Ascribe, ConstTerm,
         Builder, counters
<1>3. UNCHANGED <<moduleMap, qualNames>> /\ Undeclared' = Undeclared /\ nextVar' >= nextVar
  BY <1>1, <1>2 DEF envs, control, Undeclared
<1> QED
  BY <1>2, <1>3, SameCheckpoints DEF Registers

LEMMA DeclareNames ==
  ASSUME WellFormed, NEW qn, NEW ty, NEW body, Declare(qn, ty, body)
  PROVE  Registers
<1>1. UNCHANGED <<moduleMap, checkpoints>> /\ (RegisterName(qn) \/ DuplicateName(qn))
  BY DEF Declare
<1>2. CASE /\ RegisterName(qn) /\ pc' = "named"
           /\ decl' = [NoDecl EXCEPT !.index = nextVar, !.qn = qn, !.ty = ty, !.body = body]
  <2>1. decl'.index = nextVar /\ decl'.qn = qn
    BY <1>2 DEF NoDecl
  <2>2. Undeclared' = {<<nextVar, qn>>}
    BY <1>2, <2>1 DEF Undeclared
  <2> QED
    BY <1>1, <1>2, <2>2, RegisterStep
<1>3. CASE DuplicateName(qn) /\ UNCHANGED control
  BY <1>1, <1>3, RegisterStep DEF control, Undeclared
<1> QED
  BY <1>2, <1>3 DEF Declare

LEMMA DefineNames ==
  ASSUME WellFormed, NEW qn, NEW rhs, DefineConstant(qn, rhs)
  PROVE  Registers
<1>1. CASE DeclareOpen(qn)
  BY <1>1, RegisterStep DEF DeclareOpen, control, Undeclared
<1> QED
  BY <1>1, DeclareNames DEF DefineConstant

LEMMA DataTypeNames ==
  ASSUME WellFormed, NEW qn, NEW ctorQn, DataType(qn, ctorQn)
  PROVE  Registers
<1>1. UNCHANGED <<moduleMap, checkpoints>> /\ (RegisterName(qn) \/ DuplicateName(qn))
  BY DEF DataType
<1>2. CASE /\ RegisterName(qn) /\ pc' = "dtNamed"
           /\ decl' = [NoDecl EXCEPT !.index = nextVar, !.qn = qn, !.ctorQn = ctorQn]
  <2>1. decl'.index = nextVar /\ decl'.qn = qn
    BY <1>2 DEF NoDecl
  <2>2. Undeclared' = {<<nextVar, qn>>}
    BY <1>2, <2>1 DEF Undeclared
  <2> QED
    BY <1>1, <1>2, <2>2, RegisterStep
<1>3. CASE DuplicateName(qn) /\ UNCHANGED control
  BY <1>1, <1>3, RegisterStep DEF control, Undeclared
<1> QED
  BY <1>2, <1>3 DEF DataType

LEMMA StartNames == WellFormed /\ StartDecl => Registers
BY DefineNames, DeclareNames, DataTypeNames DEF StartDecl, FreshConstant, OpaqueConstant

LEMMA ContinueNames ==
  ASSUME WellFormed, UndeclaredApart, ContinueDecl
  PROVE  Registers \/ Inserts
<1>t. /\ decl \in Decls
      /\ \A x : [decl EXCEPT !.term = x].index = decl.index
      /\ \A x : [decl EXCEPT !.term = x].qn = decl.qn
  BY DEF WellFormed, NamesOK, ControlOK, Decls
<1>1. CASE InsDefInMap
  <2>1. Undeclared = {<<decl.index, decl.qn>>} /\ Undeclared' = {}
    BY <1>1 DEF InsDefInMap, Undeclared
  <2>2. moduleMap' = Extend(moduleMap, decl.index, Definition(decl.qn, decl.ty, decl.body))
    BY <1>1 DEF InsDefInMap
  <2>3. /\ DOMAIN moduleMap' = DOMAIN moduleMap \cup {decl.index}
        /\ \A v \in DOMAIN moduleMap : moduleMap'[v] = moduleMap[v] /\ v # decl.index
        /\ moduleMap'[decl.index].qn = decl.qn
    BY <1>1, <2>2 DEF InsDefInMap, Extend, Definition
  <2>4. /\ names' = names \cup {<<decl.index, moduleMap'[decl.index]>>}
        /\ UNCHANGED <<nextVar, qualNames, checkpoints>>
    BY <1>1 DEF InsDefInMap
  <2> QED
    BY <2>1, <2>3, <2>4 DEF Inserts
<1>2. CASE BuildConst
  <2>1. pc = "declared" /\ pc' \in {"built", "idle"}
        /\ UNCHANGED <<counters, envs, checkpoints>>
    BY <1>2 DEF BuildConst, Idle
  <2> QED
    BY <2>1, NoNamesStep, SameCheckpoints DEF counters, envs, Undeclared
<1>3. CASE RegisterGlobal
  BY <1>3, NoNamesStep, SameCheckpoints DEF RegisterGlobal, Idle, counters, Undeclared
<1>4. CASE RejectDataType
  BY <1>4, NoNamesStep, SameCheckpoints DEF RejectDataType, Idle, counters, envs, Undeclared
<1>5. CASE DataTypeSort
  BY <1>5, NoNamesStep, SameCheckpoints DEF DataTypeSort, counters, envs, Undeclared
<1>6. CASE DataTypeTerm
  <2>1. /\ pc = "dtSorted" /\ pc' = "dtBuilt"
        /\ decl'.index = decl.index /\ decl'.qn = decl.qn
        /\ UNCHANGED <<counters, envs, checkpoints>>
    BY <1>t, <1>6 DEF DataTypeTerm
  <2> QED
    BY <2>1, NoNamesStep, SameCheckpoints DEF counters, envs, Undeclared
<1>7. CASE CtorName
  <2>1. /\ UNCHANGED <<moduleMap, checkpoints>>
        /\ RegisterName(decl.ctorQn) \/ DuplicateName(decl.ctorQn)
        /\ Undeclared = {<<decl.index, decl.qn>>}
    BY <1>7 DEF CtorName, Undeclared
  <2>2. CASE /\ RegisterName(decl.ctorQn) /\ pc' = "dtCtorNamed"
             /\ decl' = [decl EXCEPT !.ctor = nextVar]
    <3>1. /\ decl'.index = decl.index /\ decl'.qn = decl.qn
          /\ decl'.ctor = nextVar /\ decl'.ctorQn = decl.ctorQn
      BY <1>t, <2>2 DEF Decls
    <3>2. Undeclared' = Undeclared \cup {<<nextVar, decl.ctorQn>>}
      BY <2>1, <2>2, <3>1 DEF Undeclared
    <3> QED
      BY <2>1, <2>2, <3>2, RegisterStep
  <2>3. CASE DuplicateName(decl.ctorQn) /\ Idle
    <3>1. Undeclared' = {}
      BY <2>3 DEF Idle, Undeclared
    <3> QED
      BY <2>1, <3>1, RegisterStep
  <2> QED
    BY <1>7, <2>2, <2>3 DEF CtorName
<1>8. CASE InsTypeDeclInMap
  <2> DEFINE dt == Definition(decl.qn, NoTerm, NoTerm)
             ctor == Definition(decl.ctorQn, decl.term, NoTerm)
  <2>1. /\ Undeclared = {<<decl.index, decl.qn>>, <<decl.ctor, decl.ctorQn>>}
        /\ Undeclared' = {}
    BY <1>8 DEF InsTypeDeclInMap, Undeclared
  <2>2. decl.index = decl.ctor => decl.qn = decl.ctorQn
    BY <2>1 DEF UndeclaredApart
  <2>3. /\ moduleMap' = Extend(Extend(moduleMap, decl.index, dt), decl.ctor, ctor)
        /\ dt.qn = decl.qn /\ ctor.qn = decl.ctorQn
    BY <1>8 DEF InsTypeDeclInMap, Definition
  <2> HIDE DEF dt, ctor
  <2>4. /\ DOMAIN moduleMap' = DOMAIN moduleMap \cup {decl.index, decl.ctor}
        /\ \A v \in DOMAIN moduleMap :
             moduleMap'[v] = moduleMap[v] /\ v # decl.index /\ v # decl.ctor
        /\ moduleMap'[decl.index].qn = decl.qn
        /\ moduleMap'[decl.ctor].qn = decl.ctorQn
    BY <1>8, <2>2, <2>3 DEF InsTypeDeclInMap, Extend
  <2>5. /\ names' = names \cup {<<v, moduleMap'[v]>> : v \in {decl.index, decl.ctor}}
        /\ UNCHANGED <<nextVar, qualNames, checkpoints>>
    BY <1>8 DEF InsTypeDeclInMap
  <2>6. {p[1] : p \in Undeclared} = {decl.index, decl.ctor}
    BY <2>1
  <2>7. {<<v, moduleMap'[v]>> : v \in {decl.index, decl.ctor}}
          = {<<p[1], moduleMap'[p[1]]>> : p \in Undeclared}
    BY <2>1
  <2> QED
    BY <2>1, <2>4, <2>5, <2>6, <2>7 DEF Inserts
<1>9. CASE DataTypeGlobal
  BY <1>9, NoNamesStep, SameCheckpoints DEF DataTypeGlobal, counters, Undeclared
<1>10. CASE CtorConst
  BY <1>10, NoNamesStep, SameCheckpoints DEF CtorConst, counters, envs, Undeclared
<1> QED
  BY <1>1, <1>2, <1>3, <1>4, <1>5, <1>6, <1>7, <1>8, <1>9, <1>10 DEF ContinueDecl

LEMMA DropTopFrom ==
  ASSUME WellFormed, DropTop
  PROVE  CheckpointsFrom /\ Len(checkpoints) \in 1 .. Len(checkpoints)
<1>1. checkpoints \in Seq(Checkpoints)
  BY DEF WellFormed, CheckpointsMade
<1>2. \A k \in 1 .. Len(checkpoints') :
        k \in 1 .. Len(checkpoints) /\ checkpoints'[k] = checkpoints[k]
  BY <1>1, DropTopShape
<1> QED
  BY <1>1, <1>2, DropTopShape DEF CheckpointsFrom

LEMMA UseNames ==
  ASSUME WellFormed, UseCheckpoint
  PROVE  Registers \/ \E k \in 1 .. Len(checkpoints) : GoesBackTo(k)
<1>1. CASE Checkpoint
  <2>1. checkpoints \in Seq(Checkpoints) /\ Snapshot \in Checkpoints
    BY SavedCheckpoint DEF WellFormed, CheckpointsMade
  <2>2. CheckpointsFrom
    BY <1>1, <2>1, AppendShape DEF Checkpoint, CheckpointsFrom
  <2> QED
    BY <1>1, <2>2, NoNamesStep DEF Checkpoint, counters, envs, control, Undeclared
<1>2. CASE Release
  BY <1>2, DropTopFrom, NoNamesStep DEF Release, counters, envs, control, Undeclared
<1>3. CASE (Rollback \/ Interrupt) /\ RestoreSharedContext(Top)
  <2>1. DropTop /\ (Idle \/ (UNCHANGED control /\ pc = "idle"))
    BY <1>3 DEF Rollback, Interrupt, HandlerRestores
  <2>2. Undeclared' = {}
    BY <2>1 DEF Idle, control, Undeclared
  <2>3. GoesBackTo(Len(checkpoints))
    BY <1>3, <2>1, <2>2, DropTopFrom
       DEF GoesBackTo, RestoreSharedContext, Top, counters
  <2> QED
    BY <2>1, <2>3, DropTopFrom
<1>4. CASE (Rollback \/ Interrupt) /\ UNCHANGED <<caches, validTerms, counters, envs>>
  <2>1. DropTop /\ (Idle \/ (UNCHANGED control /\ pc = "idle"))
    BY <1>4 DEF Rollback, Interrupt, HandlerRestores
  <2>2. Undeclared' = {}
    BY <2>1 DEF Idle, control, Undeclared
  <2> QED
    BY <1>4, <2>1, <2>2, DropTopFrom, NoNamesStep DEF counters, envs
<1>5. ASSUME NEW k \in 1 .. Len(checkpoints), Restore(k) PROVE GoesBackTo(k)
  BY <1>5, SameCheckpoints
     DEF Restore, GoesBackTo, RestoreSharedContext, counters, control, Undeclared
<1> QED
  BY <1>1, <1>2, <1>3, <1>4, <1>5
     DEF UseCheckpoint, Rollback, Interrupt, HandlerRestores

LEMMA NameStep ==
  ASSUME WellFormed, UndeclaredApart, [Next]_vars
  PROVE  Registers \/ Inserts \/ \E k \in 1 .. Len(checkpoints) : GoesBackTo(k)
<1>1. CASE UNCHANGED vars
  BY <1>1, NoNamesStep, SameCheckpoints DEF vars, counters, envs, control, Undeclared
<1> QED
  BY <1>1, BuildNames, StartNames, ContinueNames, UseNames DEF Next

-----------------------------------------------------------------------------
LEMMA NamesInit == Init => NamesInv
BY DEF Init, NamesInv, Resolve, SavedResolve, UndeclaredNew, UndeclaredApart, NamesBelow,
       NamesUnambiguous, Undeclared, NamesHeld

LEMMA SavedResolveStep ==
  ASSUME NamesInv, CheckpointsFrom
  PROVE  SavedResolve'
BY DEF NamesInv, SavedResolve, CheckpointsFrom, Snapshot, Resolve

LEMMA NamesStep ==
  ASSUME WellFormed, NamesInv, [Next]_vars
  PROVE  NamesInv'
<1>t. nextVar \in Int /\ names \subseteq AnyVar \X Defs /\ NamesHeld \subseteq Int
  <2>1. nextVar \in Int /\ names \subseteq AnyVar \X Defs
    BY ContextAssumption DEF WellFormed, NamesOK, CountersOK
  <2>2. AnyVar \subseteq Int
    BY ContextAssumption DEF AnyVar
  <2> QED
    BY <2>1, <2>2 DEF NamesHeld
<1>i. /\ Resolve(moduleMap, qualNames) /\ SavedResolve /\ UndeclaredNew
      /\ UndeclaredApart /\ NamesBelow /\ NamesUnambiguous
  BY DEF NamesInv
<1>1. CASE Registers
  <2>0. nextVar' \in Int
    <3>1. WellFormed'
      BY WellFormedStep
    <3> QED
      BY <3>1, ContextAssumption DEF WellFormed, NamesOK, CountersOK
  <2>1. PICK qn :
          /\ Undeclared' \subseteq Undeclared \cup {<<nextVar, qn>>}
          /\ \/ Undeclared' \subseteq Undeclared
             \/ /\ nextVar' > nextVar
                /\ qn \in DOMAIN qualNames' \ DOMAIN qualNames
                /\ qualNames'[qn] = nextVar
    BY <1>1 DEF Registers
  <2>2. /\ UNCHANGED <<names, moduleMap>> /\ nextVar' >= nextVar
        /\ DOMAIN qualNames \subseteq DOMAIN qualNames'
        /\ \A n \in DOMAIN qualNames : qualNames'[n] = qualNames[n]
        /\ CheckpointsFrom
    BY <1>1 DEF Registers
  <2>3. Resolve(moduleMap', qualNames')
    BY <1>i, <2>2 DEF Resolve
  <2>4. UndeclaredNew'
    <3> SUFFICES ASSUME NEW p \in Undeclared'
                 PROVE  /\ p[2] \in DOMAIN qualNames' /\ qualNames'[p[2]] = p[1]
                        /\ p[1] \in Int /\ p[1] < nextVar'
                        /\ p[1] \notin NamesHeld
      BY <2>2 DEF UndeclaredNew, NamesHeld
    <3>1. CASE p \in Undeclared
      BY <1>t, <1>i, <2>0, <2>2, <3>1 DEF UndeclaredNew
    <3>2. CASE p \notin Undeclared
      <4>1. p[1] = nextVar /\ p[2] = qn /\ nextVar' > nextVar
            /\ qn \in DOMAIN qualNames' /\ qualNames'[qn] = nextVar
        BY <2>1, <3>2
      <4>2. nextVar \notin NamesHeld
        BY <1>t, <1>i DEF NamesBelow
      <4> QED
        BY <1>t, <2>0, <4>1, <4>2
    <3> QED
      BY <3>1, <3>2
  <2>5. UndeclaredApart'
    <3>1. \A p \in Undeclared : p[1] # nextVar
      BY <1>t, <1>i DEF UndeclaredNew
    <3> QED
      BY <1>i, <2>1, <3>1 DEF UndeclaredApart
  <2>6. NamesBelow' /\ NamesUnambiguous'
    BY <1>t, <1>i, <2>0, <2>2 DEF NamesBelow, NamesUnambiguous, NamesHeld
  <2> QED
    BY <2>2, <2>3, <2>4, <2>5, <2>6, SavedResolveStep DEF NamesInv
<1>2. CASE Inserts
  <2>1. /\ Undeclared' = {}
        /\ DOMAIN moduleMap' = DOMAIN moduleMap \cup {p[1] : p \in Undeclared}
        /\ \A v \in DOMAIN moduleMap : moduleMap'[v] = moduleMap[v]
        /\ \A p \in Undeclared : moduleMap'[p[1]].qn = p[2]
        /\ names' = names \cup {<<p[1], moduleMap'[p[1]]>> : p \in Undeclared}
        /\ UNCHANGED <<nextVar, qualNames, checkpoints>>
    BY <1>2 DEF Inserts
  <2>2. Resolve(moduleMap', qualNames')
    BY <1>i, <2>1 DEF Resolve, UndeclaredNew
  <2>3. UndeclaredNew' /\ UndeclaredApart'
    BY <2>1 DEF UndeclaredNew, UndeclaredApart
  <2>4. SavedResolve'
    BY <2>1, SavedResolveStep, SameCheckpoints
  <2>5. NamesHeld' = NamesHeld \cup {p[1] : p \in Undeclared}
    <3>1. ASSUME NEW p \in Undeclared PROVE p[1] \in NamesHeld'
      <4>1. <<p[1], moduleMap'[p[1]]>> \in names'
        BY <2>1
      <4>2. <<p[1], moduleMap'[p[1]]>>[1] = p[1]
        OBVIOUS
      <4> QED
        BY <4>1, <4>2 DEF NamesHeld
    <3>2. \A q \in names' : q[1] \in NamesHeld \cup {p[1] : p \in Undeclared}
      BY <2>1 DEF NamesHeld
    <3>3. NamesHeld \subseteq NamesHeld'
      BY <2>1 DEF NamesHeld
    <3> QED
      BY <3>1, <3>2, <3>3 DEF NamesHeld
  <2>6. NamesBelow'
    BY <1>i, <2>1, <2>5 DEF NamesBelow, UndeclaredNew
  <2>7. NamesUnambiguous'
    <3> SUFFICES ASSUME NEW p \in names', NEW q \in names', p[1] = q[1]
                 PROVE  p = q
      BY DEF NamesUnambiguous
    <3>1. \A r \in names' :
            \/ r \in names /\ r[1] \in NamesHeld
            \/ r = <<r[1], moduleMap'[r[1]]>> /\ r[1] \notin NamesHeld
      BY <1>i, <2>1 DEF NamesHeld, UndeclaredNew
    <3>2. CASE p \in names /\ q \in names
      BY <1>i, <3>2 DEF NamesUnambiguous
    <3>3. CASE p = <<p[1], moduleMap'[p[1]]>> /\ q = <<q[1], moduleMap'[q[1]]>>
      BY <3>3
    <3> QED
      BY <3>1, <3>2, <3>3
  <2> QED
    BY <2>2, <2>3, <2>4, <2>6, <2>7 DEF NamesInv
<1>3. ASSUME NEW k \in 1 .. Len(checkpoints), GoesBackTo(k) PROVE NamesInv'
  <2>1. /\ moduleMap' = checkpoints[k].moduleMap /\ qualNames' = checkpoints[k].qualNames
        /\ UNCHANGED <<names, nextVar>> /\ Undeclared' = {} /\ CheckpointsFrom
    BY <1>3 DEF GoesBackTo, RestoreEnvs
  <2>2. Resolve(moduleMap', qualNames')
    BY <1>i, <2>1 DEF SavedResolve
  <2>3. UndeclaredNew' /\ UndeclaredApart' /\ NamesBelow' /\ NamesUnambiguous'
    BY <1>i, <2>1 DEF UndeclaredNew, UndeclaredApart, NamesBelow, NamesUnambiguous, NamesHeld
  <2> QED
    BY <2>1, <2>2, <2>3, SavedResolveStep DEF NamesInv
<1> QED
  BY <1>i, <1>1, <1>2, <1>3, NameStep

(* A Name always keeps its declaration: no rollback reuses a VarIndex.     *)
THEOREM NamesForever == Spec => []NamesInv
<1>1. Init => NamesInv
  BY NamesInit
<1>2. WellFormed /\ NamesInv /\ [Next]_vars => NamesInv'
  BY NamesStep
<1> QED
  BY <1>1, <1>2, WellFormedForever, PTL DEF Spec

(* A Name that a client keeps, also across rollbacks, never comes to mean  *)
(* another declaration.                                                    *)
THEOREM NamesUnambiguousForever == Spec => []NamesUnambiguous
<1>1. NamesInv => NamesUnambiguous
  BY DEF NamesInv
<1> QED
  BY <1>1, NamesForever, PTL

(* Every definition can be reached by its name, however checkpoints are    *)
(* used and declarations fail.                                             *)
THEOREM NamesAgreeForever == Spec => []NamesAgree
<1>1. NamesInv => NamesAgree
  BY DEF NamesInv, Resolve, NamesAgree
<1> QED
  BY <1>1, NamesForever, PTL

-----------------------------------------------------------------------------
(* The declaration in progress, step by step.                              *)
StageInv ==
  /\ pc \in {"declared", "built"} =>
       decl.index \in DOMAIN moduleMap /\ moduleMap[decl.index].qn = decl.qn
  /\ pc = "built" => decl.qn \in Idents
  /\ pc \in {"dtInserted", "dtGlobal"} =>
       /\ decl.index \in DOMAIN moduleMap /\ moduleMap[decl.index].qn = decl.qn
       /\ decl.ctor \in DOMAIN moduleMap /\ moduleMap[decl.ctor].qn = decl.ctorQn
  /\ pc \in {"dtCtorNamed", "dtInserted"} => decl.qn # decl.ctorQn
  /\ pc \in {"built", "dtBuilt", "dtCtorNamed", "dtInserted"} =>
       decl.term \in DOMAIN heap /\ heap[decl.term].tf = ConstF(decl.index)

(* Terms are never changed.                                                *)
LEMMA HeapKept ==
  ASSUME WellFormed, [Next]_vars
  PROVE  /\ DOMAIN heap \subseteq DOMAIN heap'
         /\ \A t \in DOMAIN heap : heap'[t] = heap[t]
BY TermsShape, WellFormedTyped, AddedTerm DEF KeepsTerms, caches, RollsTo

LEMMA MadeTermIsThere ==
  ASSUME TypeOK, NEW tf, NEW vt, NEW ty, MakeTerm(tf, vt, ty)
  PROVE  MadeTerm(tf, ty) \in DOMAIN heap' /\ heap'[MadeTerm(tf, ty)].tf = tf
<1>1. CASE HashHits(tf, ty) = {}
  <2>1. Insert(Term(tf, vt, ty)) /\ MadeTerm(tf, ty) = nextTerm
    BY <1>1 DEF MakeTerm, MadeTerm
  <2> QED
    BY <2>1 DEF Insert, NewTerm, Extend, Term
<1>2. CASE HashHits(tf, ty) # {}
  <2>1. MadeTerm(tf, ty) \in HashHits(tf, ty)
    BY <1>2 DEF MadeTerm
  <2>2. UNCHANGED heap
    <3>1. ~Insert(Term(tf, vt, ty))
      BY <1>2 DEF Insert, Term
    <3> QED
      BY <3>1 DEF MakeTerm, caches
  <2> QED
    BY <2>1, <2>2 DEF HashHits, TypeOK
<1> QED
  BY <1>1, <1>2

LEMMA StageContinue ==
  ASSUME WellFormed, NamesInv, StageInv, [Next]_vars, ContinueDecl
  PROVE  StageInv'
<1>t. /\ decl \in Decls /\ TypeOK
      /\ DOMAIN heap \subseteq DOMAIN heap'
      /\ \A t \in DOMAIN heap : heap'[t] = heap[t]
  BY HeapKept, WellFormedTyped DEF WellFormed, NamesOK, ControlOK
<1>1. CASE InsDefInMap
  <2>1. /\ pc' = "declared" /\ decl' = decl
        /\ moduleMap' = Extend(moduleMap, decl.index, Definition(decl.qn, decl.ty, decl.body))
    BY <1>1 DEF InsDefInMap
  <2>2. decl.index \in DOMAIN moduleMap' /\ moduleMap'[decl.index].qn = decl.qn
    BY <2>1 DEF Extend, Definition
  <2> QED
    BY <2>1, <2>2 DEF StageInv
<1>2. CASE BuildConst
  <2>1. CASE Idle
    BY <2>1 DEF Idle, StageInv
  <2>2. CASE /\ decl.qn \in Idents /\ pc' = "built"
             /\ decl' = [decl EXCEPT !.term = MadeTerm(ConstF(decl.index), decl.ty)]
    <3>1. /\ decl'.index = decl.index /\ decl'.qn = decl.qn
          /\ decl'.term = MadeTerm(ConstF(decl.index), decl.ty)
      BY <1>t, <2>2 DEF Decls
    <3>2. pc = "declared" /\ moduleMap' = moduleMap
      BY <1>2 DEF BuildConst, envs
    <3>3. decl'.term \in DOMAIN heap' /\ heap'[decl'.term].tf = ConstF(decl'.index)
      BY <1>t, <1>2, <3>1, MadeTermIsThere DEF BuildConst
    <3> QED
      BY <2>2, <3>1, <3>2, <3>3 DEF StageInv
  <2> QED
    BY <1>2, <2>1, <2>2 DEF BuildConst
<1>3. CASE RegisterGlobal \/ RejectDataType
  BY <1>3 DEF RegisterGlobal, RejectDataType, Idle, StageInv
<1>4. CASE DataTypeSort
  BY <1>4 DEF DataTypeSort, StageInv
<1>5. CASE DataTypeTerm
  <2>1. /\ pc' = "dtBuilt" /\ decl'.index = decl.index
        /\ decl'.term = MadeTerm(ConstF(decl.index), NoTerm)
    BY <1>t, <1>5 DEF DataTypeTerm, Decls
  <2>2. decl'.term \in DOMAIN heap' /\ heap'[decl'.term].tf = ConstF(decl'.index)
    BY <1>t, <1>5, <2>1, MadeTermIsThere DEF DataTypeTerm
  <2> QED
    BY <2>1, <2>2 DEF StageInv
<1>6. CASE CtorName
  <2>1. CASE Idle
    BY <2>1 DEF Idle, StageInv
  <2>2. CASE /\ RegisterName(decl.ctorQn) /\ pc' = "dtCtorNamed"
             /\ decl' = [decl EXCEPT !.ctor = nextVar]
    <3>1. /\ decl'.index = decl.index /\ decl'.qn = decl.qn /\ decl'.term = decl.term
          /\ decl'.ctorQn = decl.ctorQn
      BY <1>t, <2>2 DEF Decls
    <3>2. pc = "dtBuilt"
      BY <1>6 DEF CtorName
    <3>3. <<decl.index, decl.qn>> \in Undeclared
      BY <3>2 DEF Undeclared
    <3>4. decl.qn \in DOMAIN qualNames /\ decl.ctorQn \notin DOMAIN qualNames
      BY <2>2, <3>3 DEF RegisterName, NamesInv, UndeclaredNew
    <3> QED
      BY <1>t, <2>2, <3>1, <3>2, <3>4 DEF StageInv
  <2> QED
    BY <1>6, <2>1, <2>2 DEF CtorName
<1>7. CASE InsTypeDeclInMap
  <2>1. /\ Undeclared = {<<decl.index, decl.qn>>, <<decl.ctor, decl.ctorQn>>}
        /\ pc = "dtCtorNamed" /\ pc' = "dtInserted" /\ decl' = decl
    BY <1>7 DEF InsTypeDeclInMap, Undeclared
  <2>2. decl.index # decl.ctor
    BY <2>1 DEF NamesInv, UndeclaredApart, StageInv
  <2>3. /\ decl.index \in DOMAIN moduleMap' /\ moduleMap'[decl.index].qn = decl.qn
        /\ decl.ctor \in DOMAIN moduleMap' /\ moduleMap'[decl.ctor].qn = decl.ctorQn
    BY <1>7, <2>2 DEF InsTypeDeclInMap, Extend, Definition
  <2> QED
    BY <1>t, <2>1, <2>3 DEF StageInv
<1>8. CASE DataTypeGlobal
  BY <1>8 DEF DataTypeGlobal, StageInv
<1>9. CASE CtorConst
  <2>1. /\ pc = "dtGlobal" /\ pc' = "declared" /\ moduleMap' = moduleMap
        /\ decl'.index = decl.ctor /\ decl'.qn = decl.ctorQn
    BY <1>t, <1>9 DEF CtorConst, envs, Decls
  <2> QED
    BY <2>1 DEF StageInv
<1> QED
  BY <1>1, <1>2, <1>3, <1>4, <1>5, <1>6, <1>7, <1>8, <1>9 DEF ContinueDecl

LEMMA StageStep ==
  ASSUME WellFormed, NamesInv, StageInv, [Next]_vars
  PROVE  StageInv'
<1>1. CASE pc' = "idle" \/ pc' = "named" \/ pc' = "dtNamed"
  BY <1>1 DEF StageInv
<1>2. BuildTerm => pc' = "idle"
  BY DEF BuildTerm, SortTerm, FreshVarName, Variable, Pi, Apply, Ascribe, ConstTerm,
         Builder, control
<1>3. StartDecl => pc' = "idle" \/ pc' = "named" \/ pc' = "dtNamed"
  BY DEF StartDecl, DefineConstant, FreshConstant, OpaqueConstant, Declare, DeclareOpen,
         DataType, control
<1>4. UseCheckpoint => pc' = "idle"
  BY DEF UseCheckpoint, Checkpoint, Rollback, Release, Interrupt, Restore, Idle, control
<1>5. CASE UNCHANGED vars
  BY <1>5 DEF vars, caches, envs, control, StageInv
<1> QED
  BY <1>1, <1>2, <1>3, <1>4, <1>5, StageContinue DEF Next

(* Between two IORef writes of a declaration, its environments are exactly *)
(* as far as the step that is about to run takes them to be.               *)
THEOREM StagesForever == Spec => []StageInv
<1>1. Init => StageInv
  BY DEF Init, StageInv
<1>2. WellFormed /\ NamesInv /\ StageInv /\ [Next]_vars => StageInv'
  BY StageStep
<1> QED
  BY <1>1, <1>2, WellFormedForever, NamesForever, PTL DEF Spec

-----------------------------------------------------------------------------
(* The global environment.  Missing are the names that the declaration in  *)
(* progress has put in the module map and not made global yet.             *)
Missing ==
  IF pc \in {"declared", "built"} THEN {decl.qn}
    ELSE IF pc = "dtInserted" THEN {decl.qn, decl.ctorQn}
      ELSE IF pc = "dtGlobal" THEN {decl.ctorQn} ELSE {}

GlobalsIn(h, mm, qns, ge, missing) ==
  /\ DOMAIN ge = (Idents \cap {mm[v].qn : v \in DOMAIN mm}) \ missing
  /\ \A n \in DOMAIN ge : ge[n] \in DOMAIN h /\ h[ge[n]].tf = ConstF(qns[n])

GlobalInv ==
  /\ GlobalsIn(heap, moduleMap, qualNames, globalEnv, Missing)
  /\ \A k \in 1 .. Len(checkpoints) :
       GlobalsIn(heap, checkpoints[k].moduleMap, checkpoints[k].qualNames,
                 checkpoints[k].globalEnv, {})

(* More terms and more names change nothing about the globals there are.   *)
LEMMA GlobalsGrow ==
  ASSUME NEW h, NEW h2, NEW mm, NEW qns, NEW qns2, NEW ge, NEW missing,
         GlobalsIn(h, mm, qns, ge, missing), Resolve(mm, qns),
         DOMAIN h \subseteq DOMAIN h2, \A t \in DOMAIN h : h2[t] = h[t],
         \A n \in DOMAIN qns : qns2[n] = qns[n]
  PROVE  GlobalsIn(h2, mm, qns2, ge, missing)
<1>1. DOMAIN ge \subseteq DOMAIN qns
  BY DEF GlobalsIn, Resolve
<1> QED
  BY <1>1 DEF GlobalsIn

(* Nothing but a declaration or a restore touches the global environment.  *)
LEMMA GlobalsKept ==
  ASSUME WellFormed, NamesInv, GlobalInv, [Next]_vars,
         UNCHANGED <<moduleMap, globalEnv>>, Missing' = Missing,
         \A n \in DOMAIN qualNames : qualNames'[n] = qualNames[n]
  PROVE  GlobalsIn(heap', moduleMap', qualNames', globalEnv', Missing')
BY HeapKept, GlobalsGrow DEF GlobalInv, NamesInv

(* One more global.                                                        *)
LEMMA GlobalAdded ==
  ASSUME NEW h, NEW mm, NEW qns, NEW ge, NEW missing, NEW n, NEW t,
         GlobalsIn(h, mm, qns, ge, missing \cup {n}), n \notin missing,
         n \in Idents, n \in {mm[v].qn : v \in DOMAIN mm},
         t \in DOMAIN h, h[t].tf = ConstF(qns[n])
  PROVE  GlobalsIn(h, mm, qns, Extend(ge, n, t), missing)
<1> DEFINE qnames == {mm[v].qn : v \in DOMAIN mm}
<1>1. /\ DOMAIN ge = (Idents \cap qnames) \ (missing \cup {n})
      /\ \A m \in DOMAIN ge : ge[m] \in DOMAIN h /\ h[ge[m]].tf = ConstF(qns[m])
  BY DEF GlobalsIn
<1>2. DOMAIN Extend(ge, n, t) = (Idents \cap qnames) \ missing
  <2>1. DOMAIN Extend(ge, n, t) = DOMAIN ge \cup {n}
    BY DEF Extend
  <2> HIDE DEF qnames
  <2> QED
    BY <1>1, <2>1 DEF qnames
<1>3. \A m \in DOMAIN Extend(ge, n, t) :
        /\ Extend(ge, n, t)[m] \in DOMAIN h
        /\ h[Extend(ge, n, t)[m]].tf = ConstF(qns[m])
  BY <1>1 DEF Extend
<1> QED
  BY <1>2, <1>3 DEF GlobalsIn

LEMMA GlobalsContinue ==
  ASSUME WellFormed, NamesInv, StageInv, GlobalInv, [Next]_vars, ContinueDecl
  PROVE  GlobalsIn(heap', moduleMap', qualNames', globalEnv', Missing')
<1>t. /\ decl \in Decls
      /\ DOMAIN heap \subseteq DOMAIN heap'
      /\ \A t \in DOMAIN heap : heap'[t] = heap[t]
      /\ GlobalsIn(heap, moduleMap, qualNames, globalEnv, Missing)
      /\ Resolve(moduleMap, qualNames)
  BY HeapKept DEF WellFormed, NamesOK, ControlOK, GlobalInv, NamesInv
<1>1. CASE RejectDataType \/ DataTypeSort \/ DataTypeTerm
  <2>1. UNCHANGED envs /\ Missing = {} /\ Missing' = {}
    BY <1>1 DEF RejectDataType, DataTypeSort, DataTypeTerm, Idle, Missing
  <2> QED
    BY <2>1, GlobalsKept DEF envs
<1>2. CASE CtorName
  <2>1. /\ UNCHANGED <<moduleMap, globalEnv>> /\ Missing = {} /\ Missing' = {}
        /\ \A n \in DOMAIN qualNames : qualNames'[n] = qualNames[n]
    BY <1>2 DEF CtorName, RegisterName, DuplicateName, Extend, Idle, Missing
  <2> QED
    BY <2>1, GlobalsKept
<1>3. CASE CtorConst
  <2>1. UNCHANGED envs /\ Missing = {decl.ctorQn} /\ Missing' = {decl'.qn}
    BY <1>3 DEF CtorConst, Missing
  <2>2. decl'.qn = decl.ctorQn
    BY <1>t, <1>3 DEF CtorConst, Decls
  <2> QED
    BY <2>1, <2>2, GlobalsKept DEF envs
<1>4. CASE InsDefInMap \/ InsTypeDeclInMap
  <2>1. Inserts
    <3>1. Registers \/ Inserts
      BY ContinueNames DEF NamesInv
    <3>2. moduleMap' # moduleMap
      BY <1>4 DEF InsDefInMap, InsTypeDeclInMap, Extend
    <3> QED
      BY <3>1, <3>2 DEF Registers
  <2>2. /\ UNCHANGED <<heap, qualNames, globalEnv>> /\ Missing = {}
        /\ Missing' = {p[2] : p \in Undeclared}
    <3>1. CASE InsDefInMap
      BY <3>1 DEF InsDefInMap, Undeclared, Missing, caches
    <3>2. CASE InsTypeDeclInMap
      BY <3>2 DEF InsTypeDeclInMap, Undeclared, Missing, caches
    <3> QED
      BY <1>4, <3>1, <3>2
  <2>3. {moduleMap'[v].qn : v \in DOMAIN moduleMap'}
          = {moduleMap[v].qn : v \in DOMAIN moduleMap} \cup {p[2] : p \in Undeclared}
    BY <2>1 DEF Inserts
  <2>4. {moduleMap[v].qn : v \in DOMAIN moduleMap} \cap {p[2] : p \in Undeclared} = {}
    BY <1>t, <2>1 DEF Inserts, Resolve, NamesInv, UndeclaredNew
  <2> QED
    BY <1>t, <2>2, <2>3, <2>4 DEF GlobalsIn
<1>5. CASE BuildConst
  <2>1. UNCHANGED envs /\ Missing = {decl.qn}
    BY <1>5 DEF BuildConst, Missing
  <2>2. CASE pc' = "built" /\ decl'.qn = decl.qn
    BY <2>1, <2>2, GlobalsKept DEF envs, Missing
  <2>3. CASE decl.qn \notin Idents /\ Idle
    <3>1. Missing' = {}
      BY <2>3 DEF Idle, Missing
    <3>2. GlobalsIn(heap, moduleMap, qualNames, globalEnv, {})
      BY <1>t, <2>1, <2>3 DEF GlobalsIn
    <3> QED
      BY <1>t, <2>1, <3>1, <3>2, GlobalsGrow DEF envs
  <2> QED
    BY <1>t, <1>5, <2>2, <2>3 DEF BuildConst, Decls
<1>6. CASE RegisterGlobal
  <2>1. /\ UNCHANGED <<heap, moduleMap, qualNames>>
        /\ globalEnv' = Extend(globalEnv, decl.qn, decl.term)
        /\ Missing = {decl.qn} /\ Missing' = {}
    BY <1>6 DEF RegisterGlobal, Idle, Missing, caches
  <2>2. /\ decl.index \in DOMAIN moduleMap /\ moduleMap[decl.index].qn = decl.qn
        /\ decl.qn \in Idents
        /\ decl.term \in DOMAIN heap /\ heap[decl.term].tf = ConstF(decl.index)
    BY <1>6 DEF RegisterGlobal, StageInv
  <2>3. heap[decl.term].tf = ConstF(qualNames[decl.qn])
    BY <1>t, <2>2 DEF Resolve
  <2>4. GlobalsIn(heap, moduleMap, qualNames, globalEnv, {} \cup {decl.qn})
    BY <1>t, <2>1
  <2> QED
    BY <2>1, <2>2, <2>3, <2>4, GlobalAdded
<1>7. CASE DataTypeGlobal
  <2>1. /\ UNCHANGED <<heap, moduleMap, qualNames>>
        /\ Missing = {decl.ctorQn} \cup {decl.qn} /\ Missing' = {decl.ctorQn}
    BY <1>7 DEF DataTypeGlobal, Missing, caches
  <2>2. /\ decl.index \in DOMAIN moduleMap /\ moduleMap[decl.index].qn = decl.qn
        /\ decl.qn \notin {decl.ctorQn}
        /\ decl.term \in DOMAIN heap /\ heap[decl.term].tf = ConstF(decl.index)
    BY <1>7 DEF DataTypeGlobal, StageInv
  <2>3. CASE decl.qn \in Idents /\ globalEnv' = Extend(globalEnv, decl.qn, decl.term)
    <3>1. heap[decl.term].tf = ConstF(qualNames[decl.qn])
      BY <1>t, <2>2 DEF Resolve
    <3> QED
      BY <1>t, <2>1, <2>2, <2>3, <3>1, GlobalAdded
  <2>4. CASE decl.qn \notin Idents /\ UNCHANGED globalEnv
    BY <1>t, <2>1, <2>4 DEF GlobalsIn
  <2> QED
    BY <1>7, <2>3, <2>4 DEF DataTypeGlobal
<1> QED
  BY <1>1, <1>2, <1>3, <1>4, <1>5, <1>6, <1>7 DEF ContinueDecl

LEMMA GlobalsStep ==
  ASSUME WellFormed, NamesInv, StageInv, GlobalInv, [Next]_vars,
         Handlers => CheckpointsUsable
  PROVE  GlobalInv'
<1>1. DOMAIN heap \subseteq DOMAIN heap' /\ \A t \in DOMAIN heap : heap'[t] = heap[t]
  BY HeapKept
<1>2. \A k \in 1 .. Len(checkpoints) :
        GlobalsIn(heap', checkpoints[k].moduleMap, checkpoints[k].qualNames,
                  checkpoints[k].globalEnv, {})
  BY <1>1, GlobalsGrow DEF GlobalInv, NamesInv, SavedResolve
<1>3. ASSUME NEW k \in 1 .. Len(checkpoints')
      PROVE  GlobalsIn(heap', checkpoints'[k].moduleMap, checkpoints'[k].qualNames,
                       checkpoints'[k].globalEnv, {})
  <2>1. CASE \E j \in 1 .. Len(checkpoints) : checkpoints'[k] = checkpoints[j]
    BY <1>2, <2>1
  <2>2. CASE pc = "idle" /\ checkpoints'[k] = Snapshot
    <3>1. GlobalsIn(heap, moduleMap, qualNames, globalEnv, {})
      BY <2>2 DEF GlobalInv, Missing
    <3> QED
      BY <1>1, <2>2, <3>1, GlobalsGrow DEF Snapshot, NamesInv
  <2>3. CheckpointsFrom
    BY NameStep, SameCheckpoints DEF NamesInv, Registers, Inserts, GoesBackTo
  <2> QED
    BY <2>1, <2>2, <2>3 DEF CheckpointsFrom
<1>4. CASE BuildTerm \/ Checkpoint \/ Release \/ UNCHANGED vars
  <2>1. UNCHANGED <<envs, control>>
    BY <1>4 DEF BuildTerm, SortTerm, FreshVarName, Variable, Pi, Apply, Ascribe, ConstTerm,
                Builder, Checkpoint, Release, vars
  <2> QED
    BY <1>3, <2>1, GlobalsKept DEF envs, control, Missing, GlobalInv
<1>5. CASE StartDecl
  <2>1. Registers /\ UNCHANGED globalEnv /\ Missing = {} /\ Missing' = {}
    <3>1. UNCHANGED globalEnv /\ pc = "idle" /\ pc' \in {"idle", "named", "dtNamed"}
      BY <1>5 DEF StartDecl, DefineConstant, FreshConstant, OpaqueConstant, Declare,
                  DeclareOpen, DataType, control
    <3> QED
      BY <1>5, <3>1, StartNames DEF Missing
  <2> QED
    BY <1>3, <2>1, GlobalsKept DEF Registers, GlobalInv
<1>6. CASE ContinueDecl
  BY <1>3, <1>6, GlobalsContinue DEF GlobalInv
<1>7. CASE Rollback \/ Interrupt \/ \E k \in 1 .. Len(checkpoints) : Restore(k)
  <2>1. \E k \in 1 .. Len(checkpoints) : RestoreEnvs(checkpoints[k]) /\ pc' = "idle"
    <3>1. CASE Rollback \/ Interrupt
      <4>1. DropTop /\ Len(checkpoints) \in 1 .. Len(checkpoints) /\ pc' = "idle"
        BY <3>1, DropTopFrom DEF Rollback, Interrupt, HandlerRestores, Idle, control
      <4>2. RestoreSharedContext(Top)
        BY <3>1, <4>1 DEF Rollback, Interrupt, HandlerRestores, Top, DropTop,
                          CheckpointsUsable
      <4> QED
        BY <4>1, <4>2 DEF RestoreSharedContext, Top
    <3>2. CASE \E k \in 1 .. Len(checkpoints) : Restore(k)
      BY <3>2 DEF Restore, RestoreSharedContext, control
    <3> QED
      BY <1>7, <3>1, <3>2
  <2> QED
    BY <1>2, <1>3, <2>1 DEF RestoreEnvs, Missing, GlobalInv
<1> QED
  BY <1>4, <1>5, <1>6, <1>7 DEF Next, UseCheckpoint

(* Between commands the global environment has one entry for each          *)
(* declaration under a ModuleIdentifier, its Constant, if every handler can*)
(* restore: whatever failed or was interrupted, and at which step.         *)
THEOREM GlobalEnvAgreesForever ==
  ASSUME Discipline # "nested"
  PROVE  Spec => []GlobalEnvAgrees
<1>1. Init => GlobalInv
  BY DEF Init, GlobalInv, GlobalsIn, Missing
<1>2. /\ WellFormed /\ NamesInv /\ StageInv /\ GlobalInv /\ (Handlers => CheckpointsUsable)
      /\ [Next]_vars
      => GlobalInv'
  BY GlobalsStep
<1>3. GlobalInv => GlobalEnvAgrees
  BY DEF GlobalInv, GlobalsIn, Missing, GlobalEnvAgrees
<1>4. Spec => [](Handlers => CheckpointsUsable)
  <2>1. CASE Discipline = "separated"
    <3>1. CheckpointsUsable => (Handlers => CheckpointsUsable)
      OBVIOUS
    <3> QED
      BY <2>1, <3>1, CheckpointsUsableForever, PTL
  <2>2. CASE Discipline = "script"
    <3>1. Handlers => CheckpointsUsable
      BY <2>2 DEF Handlers
    <3> QED
      BY <3>1, PTL
  <2> QED
    BY <2>1, <2>2, ContextAssumption DEF Disciplines
<1> QED
  BY <1>1, <1>2, <1>3, <1>4, WellFormedForever, NamesForever, StagesForever, PTL DEF Spec

-----------------------------------------------------------------------------
(* Constants.  A Constant's name is in the module map, or was registered   *)
(* for the declaration in progress, or never becomes a name that anyone    *)
(* holds; and a checkpoint has the definitions of the Constants older than *)
(* it.                                                                     *)
UndeclaredVars == {p[1] : p \in Undeclared}

IsConst(t) == heap[t].tf.op = "Constant"

KnownInv ==
  /\ DOMAIN moduleMap \subseteq NamesHeld
  /\ \A k \in 1 .. Len(checkpoints) : DOMAIN checkpoints[k].moduleMap \subseteq NamesHeld
  /\ \A t \in DOMAIN heap : IsConst(t) => heap[t].tf.var < nextVar

SavedConstants ==
  \A k \in 1 .. Len(checkpoints) : \A t \in Cached :
    IsConst(t) /\ ~heap[t].revived /\ t < checkpoints[k].termIndex
      /\ heap[t].tf.var \in NamesHeld \cup UndeclaredVars
      => heap[t].tf.var \in DOMAIN checkpoints[k].moduleMap

ConstInv == KnownInv /\ LiveConstantsDefined /\ SavedConstants

LEMMA MakeTermNew ==
  ASSUME WellFormed, NEW tf, NEW vt, NEW ty,
         MakeTerm(tf, vt, ty) \/ Insert(Term(tf, vt, ty)), nextTerm \in DOMAIN heap'
  PROVE  heap'[nextTerm].tf = tf
<1>1. nextTerm \notin DOMAIN heap
  BY ContextAssumption DEF WellFormed, TermsOK, Indexes
<1> QED
  BY <1>1 DEF MakeTerm, Insert, caches, NewTerm, Extend, Term

(* Whose Constants a step makes.                                           *)
Recalled == \E t \in DOMAIN heap : heap[t].tf = heap'[nextTerm].tf

LEMMA NewConstant ==
  ASSUME WellFormed, ExactInv, StageInv, LiveConstantsDefined,
         [Next]_vars, nextTerm \in DOMAIN heap', heap'[nextTerm].tf.op = "Constant"
  PROVE  \/ heap'[nextTerm].tf.var \in DOMAIN moduleMap \cup UndeclaredVars
         \/ heap'[nextTerm].revived /\ Recalled
<1>0. nextTerm \notin DOMAIN heap
  BY ContextAssumption DEF WellFormed, TermsOK, Indexes
<1>k. ASSUME UNCHANGED heap PROVE FALSE
  BY <1>0, <1>k
<1>1. CASE SortTerm \/ DataTypeSort
  BY <1>1, MakeTermNew DEF SortTerm, DataTypeSort, SortF
<1>2. CASE \E x, t : Variable(x, t)
  BY <1>2, MakeTermNew DEF Variable, VariableF
<1>3. CASE \E x, t, body : Pi(x, t, body)
  BY <1>3, MakeTermNew DEF Pi, PiF
<1>4. CASE \E f, a : Apply(f, a)
  BY <1>0, <1>4 DEF Apply, NewTerm, Extend, Term, AppF
<1>5. ASSUME NEW t \in Terms, NEW ty, Ascribe(t, ty)
      PROVE  \/ heap'[nextTerm].tf.var \in DOMAIN moduleMap
             \/ heap'[nextTerm].revived /\ Recalled
  <2>1. heap'[nextTerm] = Ascribed(t, ty)
    BY <1>0, <1>5 DEF Ascribe, Insert, NewTerm, Extend
  <2>2. /\ heap'[nextTerm].tf = heap[t].tf
        /\ heap'[nextTerm].revived = (heap[t].revived \/ ~(EnsureValid(t) /\ EnsureValid(ty)))
    BY <2>1 DEF Ascribed, Term
  <2>3. t \in DOMAIN heap /\ heap[t].tf.var \in NamesHeld
    BY <2>2 DEF Terms
  <2>4. CASE ~heap[t].revived /\ EnsureValid(t)
    <3>1. t \in Cached
      BY <2>3, <2>4 DEF ExactInv, CacheExact, EnsureValid
    <3> QED
      BY <2>2, <2>3, <2>4, <3>1 DEF LiveConstantsDefined
  <2> QED
    BY <2>2, <2>3, <2>4 DEF Recalled
<1>6. CASE \E v : ConstTerm(v)
  BY <1>6, MakeTermNew DEF ConstTerm, ConstF
<1>7. CASE BuildConst
  BY <1>7, MakeTermNew DEF BuildConst, ConstF, StageInv
<1>8. CASE DataTypeTerm
  <2>1. decl.index \in UndeclaredVars
    BY <1>8 DEF DataTypeTerm, UndeclaredVars, Undeclared
  <2> QED
    BY <1>8, <2>1, MakeTermNew DEF DataTypeTerm, ConstF
<1>9. StartDecl \/ UseCheckpoint \/ UNCHANGED vars => UNCHANGED heap
  BY DEF StartDecl, DefineConstant, FreshConstant, OpaqueConstant, Declare, DeclareOpen,
         DataType, UseCheckpoint, Checkpoint, Rollback, Release, Interrupt, Restore,
         HandlerRestores, RestoreSharedContext, caches, vars
<1>10. FreshVarName \/ InsDefInMap \/ RegisterGlobal \/ RejectDataType \/ CtorName
         \/ InsTypeDeclInMap \/ DataTypeGlobal \/ CtorConst => UNCHANGED heap
  BY DEF FreshVarName, InsDefInMap, RegisterGlobal, RejectDataType, CtorName,
         InsTypeDeclInMap, DataTypeGlobal, CtorConst, caches
<1> QED
  BY <1>k, <1>1, <1>2, <1>3, <1>4, <1>5, <1>6, <1>7, <1>8, <1>9, <1>10
     DEF Next, BuildTerm, ContinueDecl

(* What a step adds to the tables.                                         *)
LEMMA CachedShape ==
  ASSUME WellFormed, [Next]_vars
  PROVE  /\ Cached' \subseteq Cached \cup ({nextTerm} \cap DOMAIN heap')
         /\ DOMAIN heap' \subseteq DOMAIN heap \cup {nextTerm}
<1>1. CASE KeepsTerms
  BY <1>1 DEF KeepsTerms, caches, Cached
<1>2. CASE AddsTerm(DOMAIN heap)
  BY <1>2, WellFormedTyped, AddedTerm DEF AddsTerm, Cached
<1>3. CASE \E k \in 1 .. Len(checkpoints) : RollsTo(k)
  BY <1>3 DEF RollsTo, RestoreTerms, FilterTFM, Cached
<1> QED
  BY <1>1, <1>2, <1>3, TermsShape

(* How the VarIndexes that are held, registered or defined change.         *)
LEMMA VarsShape ==
  ASSUME WellFormed, NamesInv, [Next]_vars
  PROVE  /\ nextVar \in Int /\ nextVar' \in Int /\ nextVar' >= nextVar
         /\ NamesHeld \subseteq NamesHeld'
         /\ NamesHeld' \cup UndeclaredVars'
              \subseteq NamesHeld \cup UndeclaredVars \cup {nextVar}
         /\ CheckpointsFrom
<1>t. nextVar \in Int /\ nextVar' \in Int
  BY WellFormedStep, ContextAssumption DEF WellFormed, NamesOK, CountersOK
<1>1. CASE Registers
  <2>1. PICK qn : Undeclared' \subseteq Undeclared \cup {<<nextVar, qn>>}
    BY <1>1 DEF Registers
  <2>2. UndeclaredVars' \subseteq UndeclaredVars \cup {nextVar}
    BY <2>1 DEF UndeclaredVars
  <2> QED
    BY <1>t, <1>1, <2>2 DEF Registers, NamesHeld
<1>2. CASE Inserts
  <2>1. /\ names' = names \cup {<<p[1], moduleMap'[p[1]]>> : p \in Undeclared}
        /\ Undeclared' = {} /\ nextVar' = nextVar /\ CheckpointsFrom
    BY <1>2, SameCheckpoints DEF Inserts
  <2>2. \A q \in names' : q[1] \in NamesHeld \cup UndeclaredVars
    BY <2>1 DEF NamesHeld, UndeclaredVars
  <2>3. NamesHeld' \subseteq NamesHeld \cup UndeclaredVars
    BY <2>2 DEF NamesHeld
  <2>4. NamesHeld \subseteq NamesHeld' /\ UndeclaredVars' = {}
    BY <2>1 DEF NamesHeld, UndeclaredVars
  <2> QED
    BY <1>t, <2>1, <2>3, <2>4
<1>3. CASE \E k \in 1 .. Len(checkpoints) : GoesBackTo(k)
  BY <1>t, <1>3 DEF GoesBackTo, NamesHeld, UndeclaredVars
<1> QED
  BY <1>1, <1>2, <1>3, NameStep DEF NamesInv

LEMMA KnownStep ==
  ASSUME WellFormed, ExactInv, NamesInv, StageInv, ConstInv, [Next]_vars
  PROVE  KnownInv'
<1>1. /\ nextVar \in Int /\ nextVar' \in Int /\ nextVar' >= nextVar
      /\ NamesHeld \subseteq NamesHeld' /\ CheckpointsFrom
  BY VarsShape
<1>2. DOMAIN moduleMap' \subseteq NamesHeld'
  <2>1. CASE Inserts
    <3>1. \A p \in Undeclared : p[1] \in NamesHeld'
      <4> SUFFICES ASSUME NEW p \in Undeclared PROVE p[1] \in NamesHeld'
        OBVIOUS
      <4>1. <<p[1], moduleMap'[p[1]]>> \in names'
        BY <2>1 DEF Inserts
      <4>2. <<p[1], moduleMap'[p[1]]>>[1] = p[1]
        OBVIOUS
      <4> QED
        BY <4>1, <4>2 DEF NamesHeld
    <3> QED
      BY <1>1, <2>1, <3>1 DEF Inserts, ConstInv, KnownInv
  <2>2. CASE Registers
    BY <1>1, <2>2 DEF Registers, ConstInv, KnownInv
  <2>3. CASE \E k \in 1 .. Len(checkpoints) : GoesBackTo(k)
    BY <1>1, <2>3 DEF GoesBackTo, RestoreEnvs, ConstInv, KnownInv
  <2> QED
    BY <2>1, <2>2, <2>3, NameStep DEF NamesInv
<1>3. \A k \in 1 .. Len(checkpoints') : DOMAIN checkpoints'[k].moduleMap \subseteq NamesHeld'
  BY <1>1 DEF CheckpointsFrom, Snapshot, ConstInv, KnownInv
<1>4. ASSUME NEW t \in DOMAIN heap', heap'[t].tf.op = "Constant"
      PROVE  heap'[t].tf.var < nextVar'
  <2>1. CASE t \in DOMAIN heap
    <3>1. heap[t].tf.var < nextVar /\ heap'[t] = heap[t]
      BY <1>4, <2>1, HeapKept DEF ConstInv, KnownInv, IsConst
    <3>2. heap[t].tf.var \in Int
      BY <2>1, WellFormedTyped, HeapEntry, ContextAssumption DEF AnyVar
    <3> QED
      BY <1>1, <3>1, <3>2
  <2>2. CASE t = nextTerm
    <3>1. \/ heap'[t].tf.var \in DOMAIN moduleMap \cup UndeclaredVars
          \/ Recalled
      BY <1>4, <2>2, NewConstant DEF ConstInv
    <3>2. \/ heap'[t].tf.var \in NamesHeld \/ heap'[t].tf.var \in UndeclaredVars
          \/ Recalled
      BY <3>1 DEF ConstInv, KnownInv
    <3>5. Recalled => heap'[t].tf.var < nextVar
      BY <1>4, <2>2 DEF Recalled, ConstInv, KnownInv, IsConst
    <3>3. heap'[t].tf.var < nextVar
      BY <3>2, <3>5 DEF NamesInv, NamesBelow, UndeclaredNew, UndeclaredVars
    <3>4. heap'[t].tf.var \in Int
      <4>1. TermsOK'
        BY WellFormedStep DEF WellFormed
      <4>2. heap'[t] \in TermType
        BY <1>4, <4>1 DEF TermsOK
      <4> QED
        BY <4>2, ContextAssumption DEF TermType, TermF, AnyVar
    <3> QED
      BY <1>1, <3>3, <3>4
  <2> QED
    BY <1>4, <2>1, <2>2, CachedShape
<1> QED
  BY <1>2, <1>3, <1>4 DEF KnownInv, IsConst

LEMMA SavedConstantsStep ==
  ASSUME WellFormed, NamesInv, ConstInv, [Next]_vars
  PROVE  SavedConstants'
<1> SUFFICES ASSUME NEW k \in 1 .. Len(checkpoints'), NEW t \in Cached',
                    heap'[t].tf.op = "Constant", ~heap'[t].revived,
                    t < checkpoints'[k].termIndex,
                    heap'[t].tf.var \in NamesHeld' \cup UndeclaredVars'
             PROVE  heap'[t].tf.var \in DOMAIN checkpoints'[k].moduleMap
  BY DEF SavedConstants, IsConst
<1>1. checkpoints'[k].termIndex \in 0 .. nextTerm /\ nextTerm \in Int
  <2>1. nextTerm \in Nat
    BY ContextAssumption DEF WellFormed, TermsOK, Indexes
  <2>2. CheckpointsFrom
    BY VarsShape
  <2> QED
    BY <2>1, <2>2 DEF CheckpointsFrom, Snapshot, WellFormed, CheckpointsMade
<1>2. t \in Cached /\ t \in DOMAIN heap
  <2>1. t # nextTerm
    BY <1>1
  <2> QED
    BY <2>1, CachedShape DEF WellFormed, TermsOK, Cached
<1>3. heap'[t] = heap[t] /\ IsConst(t)
  BY <1>2, HeapKept DEF IsConst
<1>4. heap[t].tf.var \in NamesHeld \cup UndeclaredVars
  <2>1. heap[t].tf.var < nextVar
    BY <1>2, <1>3 DEF ConstInv, KnownInv
  <2>2. heap[t].tf.var # nextVar
    BY <2>1, VarsShape
  <2> QED
    BY <1>3, <2>2, VarsShape
<1>5. CASE \E j \in 1 .. Len(checkpoints) : checkpoints'[k] = checkpoints[j]
  BY <1>2, <1>3, <1>4, <1>5 DEF ConstInv, SavedConstants
<1>6. CASE pc = "idle" /\ checkpoints'[k] = Snapshot
  <2>1. heap[t].tf.var \in NamesHeld
    BY <1>4, <1>6 DEF UndeclaredVars, Undeclared
  <2> QED
    BY <1>2, <1>3, <1>6, <2>1 DEF ConstInv, LiveConstantsDefined, IsConst, Snapshot
<1> QED
  BY <1>5, <1>6, VarsShape DEF CheckpointsFrom

LEMMA LiveConstantsStep ==
  ASSUME WellFormed, ExactInv, NamesInv, StageInv, ConstInv, [Next]_vars
  PROVE  LiveConstantsDefined'
<1> SUFFICES ASSUME NEW t \in Cached', heap'[t].tf.op = "Constant",
                    heap'[t].tf.var \in NamesHeld', ~heap'[t].revived
             PROVE  heap'[t].tf.var \in DOMAIN moduleMap'
  BY DEF LiveConstantsDefined
<1>1. CASE \E k \in 1 .. Len(checkpoints) : GoesBackTo(k)
  <2>1. PICK k \in 1 .. Len(checkpoints) : GoesBackTo(k)
    BY <1>1
  <2>2. /\ moduleMap' = checkpoints[k].moduleMap /\ heap' = heap /\ names' = names
        /\ t \in Cached /\ t < checkpoints[k].termIndex
    BY <2>1 DEF GoesBackTo, RestoreEnvs, RestoreTerms, FilterTFM, Cached
  <2> QED
    BY <2>2 DEF ConstInv, SavedConstants, IsConst, NamesHeld
<1>2. CASE Registers \/ Inserts
  <2>1. DOMAIN moduleMap \subseteq DOMAIN moduleMap'
    BY <1>2 DEF Registers, Inserts
  <2>2. UndeclaredVars \cap NamesHeld' \subseteq DOMAIN moduleMap'
    <3>1. CASE Inserts
      BY <3>1 DEF Inserts, UndeclaredVars
    <3>2. CASE Registers
      BY <3>2 DEF Registers, NamesHeld, UndeclaredVars, NamesInv, UndeclaredNew
    <3> QED
      BY <1>2, <3>1, <3>2
  <2>3. CASE t \in Cached
    <3>1. t \in DOMAIN heap
      BY <2>3 DEF WellFormed, TermsOK, Cached
    <3>2. heap'[t] = heap[t]
      BY <3>1, HeapKept
    <3>3. heap[t].tf.var # nextVar
      BY <3>1, <3>2, VarsShape DEF ConstInv, KnownInv, IsConst
    <3>4. heap[t].tf.var \in NamesHeld \cup UndeclaredVars
      BY <3>2, <3>3, VarsShape
    <3>5. heap[t].tf.var \in NamesHeld => heap[t].tf.var \in DOMAIN moduleMap
      BY <2>3, <3>2 DEF ConstInv, LiveConstantsDefined
    <3> QED
      BY <2>1, <2>2, <3>2, <3>4, <3>5
  <2>4. CASE t = nextTerm /\ t \in DOMAIN heap'
    BY <2>1, <2>2, <2>4, NewConstant DEF ConstInv
  <2> QED
    BY <2>3, <2>4, CachedShape
<1> QED
  BY <1>1, <1>2, NameStep DEF NamesInv

(* A Constant that a client may use has its definition in the module map,  *)
(* where scmWhnf looks for it: no sequence of failed declarations and of   *)
(* checkpoints, restored in any order, makes it panic, unless scmAscribe   *)
(* revived the Constant after its declaration was rolled back.             *)
THEOREM LiveConstantsDefinedForever == Spec => []LiveConstantsDefined
<1>1. Init => ConstInv
  BY DEF Init, ConstInv, KnownInv, LiveConstantsDefined, SavedConstants, Cached
<1>2. WellFormed /\ ExactInv /\ NamesInv /\ StageInv /\ ConstInv /\ [Next]_vars => ConstInv'
  BY KnownStep, SavedConstantsStep, LiveConstantsStep DEF ConstInv
<1>3. ConstInv => LiveConstantsDefined
  BY DEF ConstInv
<1> QED
  BY <1>1, <1>2, <1>3, WellFormedForever, ExactForever, NamesForever, StagesForever, PTL
     DEF Spec
=============================================================================
