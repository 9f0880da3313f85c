------------------------ MODULE SharedContextProofs ------------------------
(***************************************************************************)
(* Theorems about SharedContext, for every value of its constants: its     *)
(* state is well typed, TermIndexes are never reused, the cache holds      *)
(* exactly the valid terms, a term that is not revived has valid subterms, *)
(* and separated handlers can always restore their checkpoints.            *)
(*                                                                         *)
(* A step changes the terms in one of three ways: it keeps them, it adds   *)
(* one, or it goes back to a checkpoint (StepShape).  The theorems follow  *)
(* from that and from which terms a new one is built of.                   *)
(***************************************************************************)
EXTENDS SharedContextProperties, SequenceTheorems, TLAPS

Partial(S, T) == UNION {[D -> T] : D \in SUBSET S}

Checkpoints == [moduleMap : Partial(AnyVar, Defs),
                qualNames : Partial(QualNames, AnyVar),
                globalEnv : Partial(QualNames, TypeCode),
                termIndex : Indexes]

(* The terms the declaration in progress is about.                         *)
DeclTerms == {decl.ty, decl.body, decl.term} \ {NoTerm}

(* The terms the environments and the declaration in progress refer to.    *)
EnvTerms(mm, ge) ==
  ({mm[v].ty : v \in DOMAIN mm} \cup {mm[v].body : v \in DOMAIN mm}
     \cup {ge[n] : n \in DOMAIN ge}) \ {NoTerm}

Mentioned == EnvTerms(moduleMap, globalEnv) \cup DeclTerms

CheckpointTerms(scc) == EnvTerms(scc.moduleMap, scc.globalEnv)

(* The type invariant in parts: the terms, and what is not about terms.    *)
TermsOK ==
  /\ nextTerm \in Indexes
  /\ heap \in [0 .. nextTerm - 1 -> TermType]
  /\ appCache \subseteq DOMAIN heap /\ hashCache \subseteq DOMAIN heap
  /\ validTerms \subseteq Indexes

Stages == {"idle", "named", "declared", "built", "dtNamed", "dtSorted",
           "dtBuilt", "dtCtorNamed", "dtInserted", "dtGlobal"}

CountersOK ==
  /\ nextVar \in 1 .. LastVar + 1
  /\ varNames \subseteq AnyVar
  /\ names \subseteq AnyVar \X Defs

EnvsOK ==
  /\ IsPartial(moduleMap, AnyVar, Defs)
  /\ IsPartial(qualNames, QualNames, AnyVar)
  /\ IsPartial(globalEnv, QualNames, TypeCode)

(* A data type's second name fits; no declaration lingers between commands.*)
RoomForCtor == pc \in {"dtNamed", "dtSorted", "dtBuilt"} => nextVar < LastVar

IdleIsClear == pc = "idle" => decl = NoDecl

ControlOK ==
  /\ pc \in Stages
  /\ decl \in Decls
  /\ RoomForCtor
  /\ IdleIsClear

NamesOK == CountersOK /\ EnvsOK /\ ControlOK

(* What has to be known of the state beyond its type.                      *)
Older == \A t \in DOMAIN heap : Parts(t) \subseteq 0 .. t - 1

CheckpointsMade ==
  /\ checkpoints \in Seq(Checkpoints)
  /\ \A k \in 1 .. Len(checkpoints) :
       /\ checkpoints[k].termIndex \in 0 .. nextTerm
       /\ CheckpointTerms(checkpoints[k]) \subseteq 0 .. checkpoints[k].termIndex - 1

WellFormed ==
  /\ TermsOK
  /\ NamesOK
  /\ Older
  /\ Mentioned \subseteq DOMAIN heap
  /\ CheckpointsMade

-----------------------------------------------------------------------------
(* How a step changes the terms.                                           *)
SubtermsOf(term) == {term.tf.fst, term.tf.snd} \ {NoTerm}
PartsOf(term) == {term.tf.fst, term.tf.snd, term.ty} \ {NoTerm}

KeepsTerms == UNCHANGED <<caches, validTerms>>

(* A new term: its subterms are from V, unless scmAscribe revived it.      *)
AddsTerm(V) ==
  /\ \E term \in TermType :
       /\ NewTerm(term)
       /\ PartsOf(term) \subseteq DOMAIN heap
       /\ ~term.revived => SubtermsOf(term) \subseteq V
  /\ \/ appCache' = appCache \cup {nextTerm} /\ UNCHANGED hashCache
     \/ hashCache' = hashCache \cup {nextTerm} /\ UNCHANGED appCache
  /\ UNCHANGED validTerms

(* Whatever a term is built from, and whatever is mentioned, was made.     *)
HeapClosed ==
  /\ Cached \subseteq DOMAIN heap
  /\ \A t \in DOMAIN heap : Parts(t) \subseteq DOMAIN heap
  /\ Mentioned \subseteq DOMAIN heap

(* V holds the usable terms and their subterms.                            *)
GroundsSubterms(V) ==
  /\ V \subseteq DOMAIN heap
  /\ DOMAIN heap \cap validTerms \subseteq V
  /\ \A t \in V : ~heap[t].revived => SubtermsOf(heap[t]) \subseteq V

LEMMA AsTypeIsTypeOrSort == \A t : AsType(t) \in {NoTerm, t}
BY DEF AsType

LEMMA PartialIsPartial ==
  ASSUME NEW S, NEW T, NEW f
  PROVE  f \in Partial(S, T) <=> IsPartial(f, S, T)
BY DEF Partial, IsPartial

LEMMA ExtendPartial ==
  ASSUME NEW S, NEW T, NEW f, NEW k \in S, NEW v \in T, IsPartial(f, S, T)
  PROVE  IsPartial(Extend(f, k, v), S, T)
BY DEF IsPartial, Extend

LEMMA ExtendEnvTerms ==
  ASSUME NEW mm, NEW ge, NEW v, NEW d
  PROVE  EnvTerms(Extend(mm, v, d), ge)
           \subseteq EnvTerms(mm, ge) \cup ({d.ty, d.body} \ {NoTerm})
BY DEF EnvTerms, Extend

LEMMA HeapEntry ==
  ASSUME TypeOK, NEW t \in DOMAIN heap
  PROVE  /\ t \in 0 .. nextTerm - 1
         /\ t \in Indexes /\ t # NoTerm
         /\ heap[t] \in TermType
         /\ heap[t].tf \in TermF
         /\ heap[t].tf.op \in {"Sort", "Constant", "Variable", "Pi", "App"}
         /\ heap[t].tf.var \in AnyVar
         /\ heap[t].tf.fst \in TypeCode
         /\ heap[t].tf.snd \in TypeCode
         /\ heap[t].vt \in SUBSET (AnyVar \X Indexes)
         /\ heap[t].ty \in TypeCode
<1>1. t \in 0 .. nextTerm - 1 /\ heap[t] \in TermType
  BY DEF TypeOK
<1>2. nextTerm \in 0 .. LastIndex /\ LastIndex \in Nat
  BY ContextAssumption DEF TypeOK, Indexes
<1>3. t \in Indexes /\ t # NoTerm
  BY <1>1, <1>2 DEF Indexes, NoTerm
<1> QED
  BY <1>1, <1>3 DEF TermType, TermF

(* What unfolding reaches from a term is in every set closed under it.     *)
LEMMA WhnfGrounded ==
  ASSUME NEW S, S \subseteq DOMAIN heap, UnfoldClosed(S), NEW t \in S
  PROVE  Whnf(t) \subseteq S
<1>1. S \in SUBSET DOMAIN heap
  OBVIOUS
<1> QED
  BY <1>1 DEF Whnf

LEMMA HeapUnfolds == HeapClosed => UnfoldClosed(DOMAIN heap)
<1> SUFFICES ASSUME HeapClosed, NEW u \in DOMAIN heap, Unfolds(u)
             PROVE  Unfolding(u) \in DOMAIN heap
  BY DEF UnfoldClosed
<1>1. heap[u].tf.var \in DOMAIN moduleMap /\ Unfolding(u) # NoTerm
  BY DEF Unfolds, Unfolding
<1>2. Unfolding(u) \in EnvTerms(moduleMap, globalEnv)
  BY <1>1 DEF EnvTerms, Unfolding
<1> QED
  BY <1>2 DEF HeapClosed, Mentioned

LEMMA MakeTermShape ==
  ASSUME TypeOK, NEW V,
         NEW tf \in TermF, NEW vt \in SUBSET (AnyVar \X Indexes), NEW ty \in TypeCode,
         {tf.fst, tf.snd, ty} \ {NoTerm} \subseteq DOMAIN heap,
         {tf.fst, tf.snd} \ {NoTerm} \subseteq V,
         MakeTerm(tf, vt, ty), UNCHANGED validTerms
  PROVE  KeepsTerms \/ AddsTerm(V)
<1>1. CASE UNCHANGED caches
  BY <1>1 DEF KeepsTerms
<1>2. CASE Insert(Term(tf, vt, ty))
  <2> DEFINE term == Term(tf, vt, ty)
  <2>1. term \in TermType /\ PartsOf(term) \subseteq DOMAIN heap /\ SubtermsOf(term) \subseteq V
    BY DEF Term, TermType, PartsOf, SubtermsOf
  <2> QED
    BY <1>2, <2>1 DEF Insert, AddsTerm
<1> QED
  BY <1>1, <1>2 DEF MakeTerm

(* What is valid is grounded.                                              *)
LEMMA GroundedEntry ==
  ASSUME TypeOK, NEW V, HeapClosed, GroundsSubterms(V),
         NEW t \in DOMAIN heap, EnsureValid(t)
  PROVE  /\ t \in V
         /\ heap[t].ty \in DOMAIN heap \cup {NoTerm}
         /\ {heap[t].tf.fst, heap[t].tf.snd} \ {NoTerm} \subseteq DOMAIN heap
         /\ ~heap[t].revived => {heap[t].tf.fst, heap[t].tf.snd} \ {NoTerm} \subseteq V
BY DEF EnsureValid, HeapClosed, GroundsSubterms, Parts, SubtermsOf

LEMMA VariableShape ==
  ASSUME TypeOK, NEW V, HeapClosed, GroundsSubterms(V),
         NEW x \in varNames, NEW t \in DOMAIN heap, Variable(x, t)
  PROVE  KeepsTerms \/ AddsTerm(V)
<1> DEFINE tf == VariableF(x, t)
           vt == {<<x, t>>} \cup heap[t].vt
<1>1. x \in AnyVar /\ t \in Indexes /\ t \in V
  BY HeapEntry, GroundedEntry DEF TypeOK, Variable
<1>2. tf \in TermF /\ tf.fst = t /\ tf.snd = NoTerm
  BY <1>1 DEF VariableF, TermF, TypeCode
<1>3. vt \in SUBSET (AnyVar \X Indexes)
  BY <1>1, HeapEntry
<1>4. AsType(t) \in TypeCode /\ AsType(t) \in {NoTerm, t}
  BY <1>1, AsTypeIsTypeOrSort DEF TypeCode
<1>5. MakeTerm(tf, vt, AsType(t)) /\ UNCHANGED validTerms
  BY DEF Variable, Builder, MakeTerm
<1> HIDE DEF tf, vt
<1> QED
  BY <1>1, <1>2, <1>3, <1>4, <1>5, MakeTermShape

LEMMA PiShape ==
  ASSUME TypeOK, NEW V, HeapClosed, GroundsSubterms(V),
         NEW x \in varNames \cup {0}, NEW t \in DOMAIN heap, NEW body \in DOMAIN heap,
         Pi(x, t, body)
  PROVE  KeepsTerms \/ AddsTerm(V)
<1> DEFINE tf == PiF(x, t, body)
           vt == heap[t].vt \cup Without(x, heap[body].vt)
<1>1. /\ x \in AnyVar
      /\ t \in Indexes /\ t \in V
      /\ body \in Indexes /\ body \in V
  <2>1. x \in AnyVar
    BY ContextAssumption DEF TypeOK, AnyVar
  <2>2. EnsureValid(t) /\ EnsureValid(body)
    BY DEF Pi
  <2> QED
    BY <2>1, <2>2, HeapEntry, GroundedEntry
<1>2. tf \in TermF /\ tf.fst = t /\ tf.snd = body
  BY <1>1 DEF PiF, TermF, TypeCode
<1>3. vt \in SUBSET (AnyVar \X Indexes)
  BY HeapEntry DEF Without
<1>4. NoTerm \in TypeCode
  BY DEF TypeCode
<1>5. MakeTerm(tf, vt, NoTerm) /\ UNCHANGED validTerms
  BY DEF Pi, Builder, MakeTerm
<1> HIDE DEF tf, vt
<1> QED
  BY <1>1, <1>2, <1>3, <1>4, <1>5, MakeTermShape

LEMMA ApplyShape ==
  ASSUME TypeOK, NEW V, HeapClosed, GroundsSubterms(V),
         NEW f \in DOMAIN heap, NEW a \in DOMAIN heap, Apply(f, a)
  PROVE  AddsTerm(V)
<1>1. PICK pi \in Whnf(heap[f].ty) :
        NewTerm(Term(AppF(f, a), heap[f].vt \cup heap[a].vt, AsType(heap[pi].tf.snd)))
  BY DEF Apply
<1> DEFINE tf == AppF(f, a)
           vt == heap[f].vt \cup heap[a].vt
           ty == AsType(heap[pi].tf.snd)
<1>2. f \in V /\ a \in V /\ heap[f].ty \in DOMAIN heap
  BY GroundedEntry DEF Apply
<1>3. pi \in DOMAIN heap
  BY <1>2, WhnfGrounded, HeapUnfolds
<1>4. ty \in TypeCode /\ ty \in DOMAIN heap \cup {NoTerm}
  <2>1. heap[pi].tf.snd \in TypeCode
    BY <1>3, HeapEntry
  <2>2. heap[pi].tf.snd \in DOMAIN heap \cup {NoTerm}
    BY <1>3 DEF HeapClosed, Parts
  <2> QED
    BY <2>1, <2>2, AsTypeIsTypeOrSort DEF TypeCode
<1>5. tf \in TermF /\ tf.fst = f /\ tf.snd = a
  BY HeapEntry, ContextAssumption DEF AppF, TermF, TypeCode, AnyVar
<1>6. vt \in SUBSET (AnyVar \X Indexes)
  BY HeapEntry
<1> HIDE DEF tf, vt, ty
<1>7. /\ Term(tf, vt, ty) \in TermType
      /\ PartsOf(Term(tf, vt, ty)) \subseteq DOMAIN heap
      /\ SubtermsOf(Term(tf, vt, ty)) \subseteq V
  BY <1>2, <1>4, <1>5, <1>6 DEF Term, TermType, PartsOf, SubtermsOf
<1>8. NewTerm(Term(tf, vt, ty))
  BY <1>1 DEF tf, vt, ty
<1> QED
  BY <1>7, <1>8 DEF AddsTerm, Apply, Builder

LEMMA AscribeShape ==
  ASSUME TypeOK, NEW V, HeapClosed, GroundsSubterms(V),
         NEW t \in DOMAIN heap, NEW ty \in DOMAIN heap, Ascribe(t, ty)
  PROVE  AddsTerm(V)
<1> DEFINE term == Ascribed(t, ty)
<1>1. AsType(ty) \in TypeCode /\ AsType(ty) \in {NoTerm, ty}
  BY HeapEntry, AsTypeIsTypeOrSort DEF TypeCode
<1>2. /\ heap[t].tf \in TermF /\ heap[t].vt \in SUBSET (AnyVar \X Indexes)
      /\ heap[t].revived \in BOOLEAN
  BY HeapEntry DEF TermType
<1>3. /\ term.tf = heap[t].tf /\ term.vt = heap[t].vt /\ term.ty = AsType(ty)
      /\ term.revived = (heap[t].revived \/ ~(EnsureValid(t) /\ EnsureValid(ty)))
      /\ term \in TermType
  BY <1>1, <1>2 DEF Ascribed, Term, TermType
<1>4. Insert(term) /\ UNCHANGED validTerms
  BY DEF Ascribe, Builder
<1> HIDE DEF term
<1>5. PartsOf(term) \subseteq DOMAIN heap
  BY <1>1, <1>3 DEF PartsOf, HeapClosed, Parts
<1>6. ~term.revived => SubtermsOf(term) \subseteq V
  BY <1>3, GroundedEntry DEF SubtermsOf
<1> QED
  BY <1>3, <1>4, <1>5, <1>6 DEF Insert, AddsTerm

LEMMA SortShape ==
  ASSUME TypeOK, NEW V, MakeTerm(SortF, {}, NoTerm), UNCHANGED validTerms
  PROVE  KeepsTerms \/ AddsTerm(V)
<1>1. SortF \in TermF /\ NoTerm \in TypeCode /\ SortF.fst = NoTerm /\ SortF.snd = NoTerm
  BY ContextAssumption DEF SortF, TermF, TypeCode, AnyVar
<1>2. {} \in SUBSET (AnyVar \X Indexes)
  OBVIOUS
<1> QED
  BY <1>1, <1>2, MakeTermShape

LEMMA ConstShape ==
  ASSUME TypeOK, NEW V, NEW v \in AnyVar, NEW ty \in TypeCode,
         ty \in DOMAIN heap \cup {NoTerm},
         MakeTerm(ConstF(v), {}, ty), UNCHANGED validTerms
  PROVE  KeepsTerms \/ AddsTerm(V)
<1>1. ConstF(v) \in TermF /\ ConstF(v).fst = NoTerm /\ ConstF(v).snd = NoTerm
  BY DEF ConstF, TermF, TypeCode
<1>2. {} \in SUBSET (AnyVar \X Indexes)
  OBVIOUS
<1> QED
  BY <1>1, <1>2, MakeTermShape

(* A definition's type and body are mentioned.                             *)
LEMMA DefinitionMentioned ==
  ASSUME TypeOK, Mentioned \subseteq DOMAIN heap, NEW v \in DOMAIN moduleMap
  PROVE  /\ v \in AnyVar /\ moduleMap[v] \in Defs
         /\ moduleMap[v].ty \in TypeCode /\ moduleMap[v].body \in TypeCode
         /\ moduleMap[v].ty \in DOMAIN heap \cup {NoTerm}
         /\ moduleMap[v].body \in DOMAIN heap \cup {NoTerm}
<1>1. v \in AnyVar /\ moduleMap[v] \in Defs
  BY DEF TypeOK, IsPartial
<1>2. {moduleMap[v].ty, moduleMap[v].body} \ {NoTerm} \subseteq DOMAIN heap
  BY DEF Mentioned, EnvTerms
<1> QED
  BY <1>1, <1>2 DEF Defs

LEMMA BuildShape ==
  ASSUME TypeOK, NEW V, HeapClosed, GroundsSubterms(V), BuildTerm
  PROVE  /\ KeepsTerms \/ AddsTerm(V)
         /\ UNCHANGED <<envs, checkpoints, control>>
<1>1. UNCHANGED <<envs, checkpoints, control>>
  BY DEF BuildTerm, SortTerm, FreshVarName, Variable, Pi, Apply, Ascribe, ConstTerm,
         Builder
<1> SUFFICES KeepsTerms \/ AddsTerm(V)
  BY <1>1
<1>2. CASE SortTerm
  BY <1>2, SortShape DEF SortTerm, Builder, MakeTerm
<1>3. CASE FreshVarName
  BY <1>3 DEF FreshVarName, Builder, KeepsTerms
<1>4. CASE \E x \in varNames, t \in Terms : Variable(x, t)
  BY <1>4, VariableShape DEF Terms
<1>5. CASE \E x \in varNames \cup {0}, t, body \in Terms : Pi(x, t, body)
  BY <1>5, PiShape DEF Terms
<1>6. CASE \E f, a \in Terms : Apply(f, a)
  BY <1>6, ApplyShape DEF Terms
<1>7. CASE \E t, ty \in Terms : Ascribe(t, ty)
  BY <1>7, AscribeShape DEF Terms
<1>8. CASE \E v \in NamesHeld : ConstTerm(v)
  <2>1. PICK v : ConstTerm(v)
    BY <1>8
  <2>2. v \in DOMAIN moduleMap /\ MakeTerm(ConstF(v), {}, moduleMap[v].ty)
        /\ UNCHANGED validTerms
    BY <2>1 DEF ConstTerm, Builder, MakeTerm
  <2> QED
    BY <2>2, DefinitionMentioned, ConstShape DEF HeapClosed
<1> QED
  BY <1>1, <1>2, <1>3, <1>4, <1>5, <1>6, <1>7, <1>8 DEF BuildTerm

-----------------------------------------------------------------------------
LEMMA NoDeclTyped == NoDecl \in Decls
<1>1. 0 \in AnyVar
  BY ContextAssumption DEF AnyVar
<1> QED
  BY <1>1 DEF NoDecl, Decls, QualNames, TypeCode

LEMMA RegisterShape ==
  ASSUME CountersOK, EnvsOK, NEW qn \in QualNames, nextVar <= LastVar,
         RegisterName(qn) \/ DuplicateName(qn)
  PROVE  /\ nextVar \in AnyVar /\ nextVar' = nextVar + 1
         /\ CountersOK'
         /\ IsPartial(qualNames', QualNames, AnyVar)
<1>1. nextVar \in AnyVar /\ nextVar' = nextVar + 1 /\ UNCHANGED <<varNames, names>>
  BY ContextAssumption DEF CountersOK, AnyVar, RegisterName, DuplicateName
<1>2. CountersOK'
  BY <1>1, ContextAssumption DEF CountersOK
<1>3. CASE RegisterName(qn)
  BY <1>1, <1>2, <1>3, ExtendPartial DEF EnvsOK, RegisterName
<1>4. CASE DuplicateName(qn)
  BY <1>1, <1>2, <1>4 DEF EnvsOK, DuplicateName
<1> QED
  BY <1>3, <1>4

LEMMA DeclareShape ==
  ASSUME TypeOK, NamesOK, Mentioned \subseteq DOMAIN heap,
         NEW qn \in QualNames, NEW ty \in TypeCode, NEW body \in TypeCode,
         {ty, body} \ {NoTerm} \subseteq DOMAIN heap,
         Declare(qn, ty, body)
  PROVE  KeepsTerms /\ UNCHANGED checkpoints /\ NamesOK' /\ Mentioned' \subseteq DOMAIN heap
<1>1. nextVar <= LastVar
  BY ContextAssumption DEF Declare, Room, NamesOK, CountersOK
<1>2. /\ nextVar \in AnyVar /\ CountersOK'
      /\ IsPartial(qualNames', QualNames, AnyVar)
  BY <1>1, RegisterShape DEF Declare, NamesOK
<1>3. KeepsTerms /\ UNCHANGED <<moduleMap, globalEnv, checkpoints>>
  BY DEF Declare, KeepsTerms
<1>4. EnvsOK'
  BY <1>2, <1>3 DEF NamesOK, EnvsOK
<1>5. ControlOK' /\ DeclTerms' \subseteq DOMAIN heap
  <2>1. CASE /\ pc' = "named"
             /\ decl' = [NoDecl EXCEPT !.index = nextVar, !.qn = qn,
                                       !.ty = ty, !.body = body]
    <3>1. decl' \in Decls
      BY <2>1, <1>2, NoDeclTyped DEF Decls, NoDecl
    <3>2. decl'.ty = ty /\ decl'.body = body /\ decl'.term = NoTerm
      BY <2>1 DEF NoDecl
    <3> QED
      BY <2>1, <3>1, <3>2 DEF ControlOK, Stages, RoomForCtor, IdleIsClear, DeclTerms
  <2>2. CASE UNCHANGED control
    <3>1. pc' = "idle" /\ pc = "idle" /\ decl' = decl
      BY <2>2 DEF control, Declare
    <3> QED
      BY <3>1 DEF NamesOK, ControlOK, RoomForCtor, IdleIsClear, DeclTerms, Mentioned
  <2> QED
    BY <2>1, <2>2 DEF Declare
<1>6. Mentioned' \subseteq DOMAIN heap
  BY <1>3, <1>5 DEF Mentioned
<1> QED
  BY <1>2, <1>3, <1>4, <1>5, <1>6 DEF NamesOK

LEMMA DefineShape ==
  ASSUME TypeOK, NamesOK, NEW V, HeapClosed, GroundsSubterms(V),
         NEW qn \in QualNames, NEW rhs \in DOMAIN heap, DefineConstant(qn, rhs)
  PROVE  KeepsTerms /\ UNCHANGED checkpoints /\ NamesOK' /\ Mentioned' \subseteq DOMAIN heap
<1>1. CASE Declare(qn, heap[rhs].ty, rhs)
  <2>1. rhs \in TypeCode /\ heap[rhs].ty \in TypeCode
    BY HeapEntry DEF TypeCode
  <2>2. {heap[rhs].ty, rhs} \ {NoTerm} \subseteq DOMAIN heap
    BY GroundedEntry DEF DefineConstant
  <2> QED
    BY <1>1, <2>1, <2>2, DeclareShape DEF HeapClosed
<1>2. CASE DeclareOpen(qn)
  <2>1. nextVar <= LastVar
    BY <1>2, ContextAssumption DEF DeclareOpen, Room, NamesOK, CountersOK
  <2>2. CountersOK' /\ IsPartial(qualNames', QualNames, AnyVar)
    BY <1>2, <2>1, RegisterShape DEF DeclareOpen, NamesOK
  <2>3. /\ KeepsTerms
        /\ UNCHANGED <<moduleMap, globalEnv, checkpoints, control>>
        /\ pc = "idle"
    BY <1>2 DEF DeclareOpen, KeepsTerms
  <2>4. EnvsOK' /\ ControlOK' /\ Mentioned' = Mentioned
    BY <2>2, <2>3 DEF NamesOK, EnvsOK, ControlOK, RoomForCtor, IdleIsClear, control,
                      Mentioned, DeclTerms
  <2> QED
    BY <2>2, <2>3, <2>4 DEF NamesOK, HeapClosed
<1> QED
  BY <1>1, <1>2 DEF DefineConstant

LEMMA StartShape ==
  ASSUME TypeOK, NamesOK, NEW V, HeapClosed, GroundsSubterms(V), StartDecl
  PROVE  KeepsTerms /\ UNCHANGED checkpoints /\ NamesOK' /\ Mentioned' \subseteq DOMAIN heap
<1>1. Names \subseteq QualNames
  BY DEF QualNames
<1>2. CASE \E qn \in Names, t \in Terms : DefineConstant(qn, t)
  BY <1>1, <1>2, DefineShape DEF Terms
<1>3. CASE \E t \in Terms : FreshConstant(t)
  <2>1. PICK t \in DOMAIN heap : DefineConstant(Fresh(nextVar), t)
    BY <1>3 DEF Terms, FreshConstant
  <2>2. nextVar \in AnyVar
    BY <2>1, ContextAssumption
       DEF DefineConstant, Declare, DeclareOpen, Room, NamesOK, CountersOK, AnyVar
  <2>3. Fresh(nextVar) \in QualNames
    BY <2>2 DEF QualNames
  <2> QED
    BY <2>1, <2>3, DefineShape
<1>4. CASE \E qn \in Names, t \in Terms : OpaqueConstant(qn, t)
  <2>1. PICK qn \in Names, t \in DOMAIN heap : OpaqueConstant(qn, t)
    BY <1>4 DEF Terms
  <2>2. t \in DOMAIN heap /\ t \in TypeCode /\ NoTerm \in TypeCode
    BY <2>1, HeapEntry, GroundedEntry DEF OpaqueConstant, TypeCode
  <2>3. AsType(t) \in TypeCode /\ {AsType(t), NoTerm} \ {NoTerm} \subseteq DOMAIN heap
    BY <2>2, AsTypeIsTypeOrSort
  <2>4. Declare(qn, AsType(t), NoTerm)
    BY <2>1 DEF OpaqueConstant
  <2> QED
    BY <1>1, <2>2, <2>3, <2>4, DeclareShape DEF HeapClosed
<1>5. CASE \E qn, ctorQn \in Names : DataType(qn, ctorQn)
  <2>1. PICK qn \in QualNames, ctorQn \in QualNames : DataType(qn, ctorQn)
    BY <1>1, <1>5
  <2>2. nextVar + 1 < LastVar /\ nextVar <= LastVar
    BY <2>1, ContextAssumption DEF DataType, NamesOK, CountersOK
  <2>3. /\ nextVar \in AnyVar /\ nextVar' = nextVar + 1 /\ CountersOK'
        /\ IsPartial(qualNames', QualNames, AnyVar)
    BY <2>1, <2>2, RegisterShape DEF DataType, NamesOK
  <2>4. KeepsTerms /\ UNCHANGED <<moduleMap, globalEnv, checkpoints>>
    BY <2>1 DEF DataType, KeepsTerms
  <2>5. EnvsOK'
    BY <2>3, <2>4 DEF NamesOK, EnvsOK
  <2>6. ControlOK' /\ DeclTerms' \subseteq DOMAIN heap
    <3>1. CASE /\ pc' = "dtNamed"
               /\ decl' = [NoDecl EXCEPT !.index = nextVar, !.qn = qn,
                                         !.ctorQn = ctorQn]
      <4>1. decl' \in Decls
        BY <3>1, <2>3, NoDeclTyped DEF Decls, NoDecl
      <4>2. decl'.ty = NoTerm /\ decl'.body = NoTerm /\ decl'.term = NoTerm
        BY <3>1 DEF NoDecl
      <4> QED
        BY <2>2, <2>3, <3>1, <4>1, <4>2
           DEF ControlOK, Stages, RoomForCtor, IdleIsClear, DeclTerms
    <3>2. CASE UNCHANGED control
      <4>1. pc' = "idle" /\ pc = "idle" /\ decl' = decl
        BY <2>1, <3>2 DEF control, DataType
      <4> QED
        BY <4>1 DEF NamesOK, ControlOK, RoomForCtor, IdleIsClear, DeclTerms, Mentioned,
                    HeapClosed
    <3> QED
      BY <2>1, <3>1, <3>2 DEF DataType
  <2>7. Mentioned' \subseteq DOMAIN heap
    BY <2>4, <2>6 DEF Mentioned, HeapClosed
  <2> QED
    BY <2>3, <2>4, <2>5, <2>6, <2>7 DEF NamesOK
<1> QED
  BY <1>2, <1>3, <1>4, <1>5 DEF StartDecl

(* What a step may mention: grounded terms and the one it has added.       *)
Reached == DOMAIN heap \cup ({nextTerm} \cap DOMAIN heap')

LEMMA MadeTermReached ==
  ASSUME TypeOK, HeapClosed, NEW tf, NEW vt, NEW ty, MakeTerm(tf, vt, ty)
  PROVE  MadeTerm(tf, ty) \in Reached /\ MadeTerm(tf, ty) \in TypeCode
<1>1. CASE HashHits(tf, ty) = {}
  <2>1. MadeTerm(tf, ty) = nextTerm /\ nextTerm \in Indexes
    BY <1>1 DEF MadeTerm, TypeOK
  <2>2. nextTerm \in DOMAIN heap'
    BY <1>1 DEF MakeTerm, Insert, NewTerm, Extend, Term
  <2> QED
    BY <2>1, <2>2 DEF Reached, TypeCode
<1>2. CASE HashHits(tf, ty) # {}
  <2>1. MadeTerm(tf, ty) \in hashCache
    BY <1>2 DEF MadeTerm, HashHits
  <2>2. MadeTerm(tf, ty) \in DOMAIN heap
    BY <2>1 DEF HeapClosed, Cached
  <2> QED
    BY <2>2, HeapEntry DEF Reached, TypeCode
<1> QED
  BY <1>1, <1>2

LEMMA ContinueShape ==
  ASSUME TypeOK, NamesOK, NEW V, HeapClosed, GroundsSubterms(V), ContinueDecl
  PROVE  /\ KeepsTerms \/ AddsTerm(V)
         /\ UNCHANGED checkpoints
         /\ NamesOK'
         /\ Mentioned' \subseteq Reached
<1> USE DEF NamesOK
<1>t. /\ decl \in Decls /\ decl.index \in AnyVar /\ decl.ctor \in AnyVar
      /\ decl.qn \in QualNames /\ decl.ctorQn \in QualNames
      /\ decl.ty \in TypeCode /\ decl.body \in TypeCode /\ decl.term \in TypeCode
      /\ NoTerm \in TypeCode /\ NoDecl \in Decls
      /\ NoDecl.ty = NoTerm /\ NoDecl.body = NoTerm /\ NoDecl.term = NoTerm
  BY NoDeclTyped DEF ControlOK, Decls, NoDecl, TypeCode
<1>s. /\ Mentioned \subseteq DOMAIN heap
      /\ {decl.ty, decl.body, decl.term} \ {NoTerm} \subseteq DOMAIN heap
      /\ DOMAIN heap \subseteq Reached
  BY DEF HeapClosed, Mentioned, DeclTerms, Reached
<1>1. CASE InsDefInMap
  <2>1. /\ KeepsTerms /\ UNCHANGED <<checkpoints, nextVar, varNames, qualNames, globalEnv, decl>>
        /\ pc' = "declared"
    BY <1>1 DEF InsDefInMap, KeepsTerms
  <2> DEFINE def == Definition(decl.qn, decl.ty, decl.body)
  <2>2. def \in Defs /\ def.ty = decl.ty /\ def.body = decl.body
    BY <1>t DEF Definition, Defs
  <2>3. moduleMap' = Extend(moduleMap, decl.index, def)
    BY <1>1 DEF InsDefInMap
  <2> HIDE DEF def
  <2>4. IsPartial(moduleMap', AnyVar, Defs) /\ moduleMap'[decl.index] = def
    <3>1. IsPartial(moduleMap', AnyVar, Defs)
      BY <2>2, <2>3, <1>t, ExtendPartial DEF EnvsOK
    <3>2. moduleMap'[decl.index] = def
      BY <2>3 DEF Extend
    <3> QED
      BY <3>1, <3>2
  <2>5. CountersOK'
    BY <1>1, <1>t, <2>1, <2>2, <2>4 DEF InsDefInMap, CountersOK
  <2>6. EnvTerms(moduleMap', globalEnv') \subseteq DOMAIN heap
    BY <1>s, <2>1, <2>2, <2>3 DEF EnvTerms, Mentioned, Extend
  <2>7. EnvsOK' /\ ControlOK'
    BY <2>1, <2>4 DEF EnvsOK, ControlOK, Stages, RoomForCtor, IdleIsClear
  <2> QED
    BY <1>s, <2>1, <2>5, <2>6, <2>7 DEF Mentioned, DeclTerms
<1>2. CASE BuildConst
  <2>1. /\ KeepsTerms \/ AddsTerm(V)
        /\ UNCHANGED <<counters, envs, checkpoints>>
    <3>1. decl.ty \in DOMAIN heap \cup {NoTerm}
      BY <1>s
    <3> QED
      BY <1>2, <1>t, <3>1, ConstShape DEF BuildConst
  <2>2. CASE /\ pc' = "built"
             /\ decl' = [decl EXCEPT !.term = MadeTerm(ConstF(decl.index), decl.ty)]
    <3>1. /\ MadeTerm(ConstF(decl.index), decl.ty) \in Reached
          /\ MadeTerm(ConstF(decl.index), decl.ty) \in TypeCode
      BY <1>2, MadeTermReached DEF BuildConst
    <3>2. decl' \in Decls /\ DeclTerms' \subseteq Reached
      BY <1>s, <1>t, <2>2, <3>1 DEF Decls, DeclTerms
    <3> QED
      BY <1>s, <2>1, <2>2, <3>2 DEF envs, counters, CountersOK, EnvsOK, ControlOK, Stages,
                               RoomForCtor, IdleIsClear, Mentioned
  <2>3. CASE Idle
    BY <1>s, <1>t, <2>1, <2>3 DEF Idle, envs, counters, CountersOK, EnvsOK, ControlOK,
                             Stages, RoomForCtor, IdleIsClear, Mentioned, DeclTerms
  <2> QED
    BY <1>2, <2>2, <2>3 DEF BuildConst
<1>3. CASE RegisterGlobal
  <2>1. /\ KeepsTerms /\ UNCHANGED <<checkpoints, counters, moduleMap, qualNames>>
        /\ globalEnv' = Extend(globalEnv, decl.qn, decl.term)
        /\ pc' = "idle" /\ decl' = NoDecl
    BY <1>3 DEF RegisterGlobal, KeepsTerms, Idle
  <2>2. EnvsOK' /\ CountersOK'
    BY <2>1, <1>t, ExtendPartial DEF EnvsOK, CountersOK, counters
  <2>3. ControlOK' /\ DeclTerms' = {}
    BY <2>1, <1>t DEF ControlOK, Stages, RoomForCtor, IdleIsClear, DeclTerms
  <2>4. EnvTerms(moduleMap', globalEnv') \subseteq DOMAIN heap
    BY <1>s, <2>1 DEF EnvTerms, Mentioned, Extend
  <2> QED
    BY <1>s, <2>1, <2>2, <2>3, <2>4 DEF Mentioned
<1>4. CASE RejectDataType
  <2>1. /\ KeepsTerms /\ UNCHANGED <<checkpoints, counters, envs>>
        /\ pc' = "idle" /\ decl' = NoDecl
    BY <1>4 DEF RejectDataType, KeepsTerms, Idle
  <2> QED
    BY <1>s, <1>t, <2>1 DEF envs, counters, CountersOK, EnvsOK, ControlOK, Stages,
                       RoomForCtor, IdleIsClear, Mentioned, DeclTerms
<1>5. CASE DataTypeSort
  <2>1. KeepsTerms \/ AddsTerm(V)
    BY <1>5, SortShape DEF DataTypeSort
  <2>2. /\ UNCHANGED <<checkpoints, counters, envs, decl>>
        /\ pc = "dtNamed" /\ pc' = "dtSorted"
    BY <1>5 DEF DataTypeSort
  <2> QED
    BY <1>s, <1>t, <2>1, <2>2 DEF envs, counters, CountersOK, EnvsOK, ControlOK, Stages,
                       RoomForCtor, IdleIsClear, Mentioned, DeclTerms
<1>6. CASE DataTypeTerm
  <2>1. KeepsTerms \/ AddsTerm(V)
    BY <1>6, <1>t, ConstShape DEF DataTypeTerm
  <2>2. /\ MadeTerm(ConstF(decl.index), NoTerm) \in Reached
        /\ MadeTerm(ConstF(decl.index), NoTerm) \in TypeCode
    BY <1>6, MadeTermReached DEF DataTypeTerm
  <2>3. /\ UNCHANGED <<checkpoints, counters, envs>>
        /\ pc = "dtSorted" /\ pc' = "dtBuilt"
        /\ decl' = [decl EXCEPT !.term = MadeTerm(ConstF(decl.index), NoTerm)]
    BY <1>6 DEF DataTypeTerm
  <2>4. decl' \in Decls /\ DeclTerms' \subseteq Reached
    BY <1>s, <1>t, <2>2, <2>3 DEF Decls, DeclTerms
  <2> QED
    BY <1>s, <2>1, <2>3, <2>4 DEF envs, counters, CountersOK, EnvsOK, ControlOK, Stages,
                       RoomForCtor, IdleIsClear, Mentioned
<1>7. CASE CtorName
  <2>1. nextVar \in 1 .. LastVar /\ nextVar <= LastVar
    BY <1>7, ContextAssumption DEF CtorName, ControlOK, RoomForCtor, CountersOK
  <2>2. /\ nextVar \in AnyVar /\ CountersOK'
        /\ IsPartial(qualNames', QualNames, AnyVar)
    BY <1>7, <1>t, <2>1, RegisterShape DEF CtorName
  <2>3. KeepsTerms /\ UNCHANGED <<moduleMap, globalEnv, checkpoints>>
    BY <1>7 DEF CtorName, KeepsTerms
  <2>4. ControlOK' /\ DeclTerms' \subseteq DOMAIN heap
    <3>1. CASE pc' = "dtCtorNamed" /\ decl' = [decl EXCEPT !.ctor = nextVar]
      <4>1. decl' \in Decls /\ DeclTerms' = DeclTerms
        BY <3>1, <1>t, <2>2 DEF Decls, DeclTerms
      <4> QED
        BY <3>1, <4>1, <1>s DEF ControlOK, Stages, RoomForCtor, IdleIsClear, Mentioned
    <3>2. CASE Idle
      BY <3>2, <1>t DEF Idle, ControlOK, Stages, RoomForCtor, IdleIsClear, DeclTerms
    <3> QED
      BY <1>7, <3>1, <3>2 DEF CtorName
  <2> QED
    BY <1>s, <2>2, <2>3, <2>4 DEF EnvsOK, Mentioned
<1>8. CASE InsTypeDeclInMap
  <2>1. /\ KeepsTerms /\ UNCHANGED <<checkpoints, nextVar, varNames, qualNames, globalEnv, decl>>
        /\ pc' = "dtInserted"
    BY <1>8 DEF InsTypeDeclInMap, KeepsTerms
  <2> DEFINE dt == Definition(decl.qn, NoTerm, NoTerm)
             ctor == Definition(decl.ctorQn, decl.term, NoTerm)
             mid == Extend(moduleMap, decl.index, dt)
  <2>2. /\ dt \in Defs /\ dt.ty = NoTerm /\ dt.body = NoTerm
        /\ ctor \in Defs /\ ctor.ty = decl.term /\ ctor.body = NoTerm
    BY <1>t DEF Definition, Defs
  <2>3. moduleMap' = Extend(mid, decl.ctor, ctor)
    BY <1>8 DEF InsTypeDeclInMap
  <2> HIDE DEF dt, ctor
  <2>4. IsPartial(mid, AnyVar, Defs)
    BY <2>2, <1>t, ExtendPartial DEF EnvsOK
  <2>5. IsPartial(moduleMap', AnyVar, Defs)
    BY <2>2, <2>3, <2>4, <1>t, ExtendPartial
  <2>6. moduleMap'[decl.index] \in Defs /\ moduleMap'[decl.ctor] \in Defs
    BY <2>3, <2>5 DEF IsPartial, Extend
  <2>7. CountersOK'
    BY <1>8, <1>t, <2>1, <2>6 DEF InsTypeDeclInMap, CountersOK
  <2>8. EnvTerms(moduleMap', globalEnv') \subseteq DOMAIN heap
    <3>1. EnvTerms(mid, globalEnv) \subseteq DOMAIN heap
      BY <1>s, <2>2, ExtendEnvTerms DEF Mentioned
    <3> QED
      BY <3>1, <1>s, <2>1, <2>2, <2>3, ExtendEnvTerms
  <2>9. EnvsOK' /\ ControlOK'
    BY <2>1, <2>5 DEF EnvsOK, ControlOK, Stages, RoomForCtor, IdleIsClear
  <2> QED
    BY <1>s, <2>1, <2>7, <2>8, <2>9 DEF Mentioned, DeclTerms
<1>9. CASE DataTypeGlobal
  <2>1. /\ KeepsTerms /\ UNCHANGED <<checkpoints, counters, moduleMap, qualNames, decl>>
        /\ pc' = "dtGlobal"
        /\ globalEnv' \in {globalEnv, Extend(globalEnv, decl.qn, decl.term)}
    BY <1>9 DEF DataTypeGlobal, KeepsTerms
  <2>2. EnvsOK' /\ CountersOK'
    BY <2>1, <1>t, ExtendPartial DEF EnvsOK, CountersOK, counters
  <2>3. ControlOK'
    BY <2>1 DEF ControlOK, Stages, RoomForCtor, IdleIsClear
  <2>4. EnvTerms(moduleMap', globalEnv') \subseteq DOMAIN heap
    BY <1>s, <2>1 DEF EnvTerms, Mentioned, Extend
  <2> QED
    BY <1>s, <2>1, <2>2, <2>3, <2>4 DEF Mentioned, DeclTerms
<1>10. CASE CtorConst
  <2>1. /\ KeepsTerms /\ UNCHANGED <<checkpoints, counters, envs>>
        /\ pc' = "declared"
        /\ decl' = [decl EXCEPT !.index = decl.ctor, !.qn = decl.ctorQn,
                                !.ty = decl.term]
    BY <1>10 DEF CtorConst, KeepsTerms
  <2>2. decl' \in Decls /\ DeclTerms' \subseteq DOMAIN heap
    BY <1>s, <1>t, <2>1 DEF Decls, DeclTerms
  <2> QED
    BY <1>s, <2>1, <2>2 DEF envs, counters, CountersOK, EnvsOK, ControlOK, Stages,
                       RoomForCtor, IdleIsClear, Mentioned
<1> QED
  BY <1>1, <1>2, <1>3, <1>4, <1>5, <1>6, <1>7, <1>8, <1>9, <1>10 DEF ContinueDecl

-----------------------------------------------------------------------------
(* Checkpoints.                                                            *)
KeepsAndSaves ==
  /\ KeepsTerms
  /\ Mentioned' = Mentioned
  /\ checkpoints' = Append(checkpoints, Snapshot)
  /\ Discipline = "separated" =>
       \A k \in 1 .. Len(checkpoints) : checkpoints[k].termIndex # nextTerm

KeepsAndDrops == KeepsTerms /\ DropTop /\ Mentioned' \subseteq Mentioned

RollsTo(k) ==
  /\ NotStale(checkpoints[k])
  /\ RestoreTerms(checkpoints[k])
  /\ UNCHANGED <<heap, nextTerm>>
  /\ Mentioned' \subseteq CheckpointTerms(checkpoints[k])
  /\ \/ ~Handlers /\ UNCHANGED checkpoints
     \/ DropTop /\ k = Len(checkpoints)

LEMMA DropTopShape ==
  ASSUME checkpoints \in Seq(Checkpoints), DropTop
  PROVE  /\ Len(checkpoints) \in 1 .. Len(checkpoints)
         /\ checkpoints' \in Seq(Checkpoints)
         /\ Len(checkpoints') = Len(checkpoints) - 1
         /\ \A k \in 1 .. Len(checkpoints') : checkpoints'[k] = checkpoints[k]
<1>1. Len(checkpoints) \in Nat /\ Len(checkpoints) # 0
  BY DEF DropTop
<1> DEFINE n == Len(checkpoints) - 1
<1>2. /\ checkpoints' = SubSeq(checkpoints, 1, n)
      /\ 1 \in Int /\ n \in Int
      /\ \A i \in 1 .. n : checkpoints[i] \in Checkpoints
      /\ (IF 1 <= n THEN n - 1 + 1 ELSE 0) = n
      /\ \A i \in 1 .. n : i \in 1 .. n - 1 + 1 /\ 1 + i - 1 = i
  <2>1. checkpoints' = SubSeq(checkpoints, 1, n)
    BY DEF DropTop
  <2>2. \A i \in 1 .. n : checkpoints[i] \in Checkpoints
    BY <1>1
  <2>3. n \in Nat
    BY <1>1
  <2> HIDE DEF n
  <2>4. (IF 1 <= n THEN n - 1 + 1 ELSE 0) = n
    BY <2>3
  <2>5. \A i \in 1 .. n : i \in 1 .. n - 1 + 1 /\ 1 + i - 1 = i
    BY <2>3
  <2> QED
    BY <2>1, <2>2, <2>3, <2>4, <2>5
<1> HIDE DEF n
<1>3. /\ SubSeq(checkpoints, 1, n) \in Seq(Checkpoints)
      /\ Len(SubSeq(checkpoints, 1, n)) = n
      /\ \A i \in 1 .. n : SubSeq(checkpoints, 1, n)[i] = checkpoints[i]
  BY <1>2, SubSeqProperties
<1> QED
  BY <1>1, <1>2, <1>3 DEF n

LEMMA SnapshotTyped ==
  ASSUME TypeOK, EnvsOK
  PROVE  Snapshot \in Checkpoints
BY PartialIsPartial DEF Snapshot, Checkpoints, EnvsOK, TypeOK

LEMMA CheckpointEntry ==
  ASSUME checkpoints \in Seq(Checkpoints), NEW k \in 1 .. Len(checkpoints)
  PROVE  /\ checkpoints[k] \in Checkpoints
         /\ IsCheckpoint(checkpoints[k])
         /\ IsPartial(checkpoints[k].moduleMap, AnyVar, Defs)
         /\ IsPartial(checkpoints[k].qualNames, QualNames, AnyVar)
         /\ IsPartial(checkpoints[k].globalEnv, QualNames, TypeCode)
         /\ checkpoints[k].termIndex \in Indexes
<1>1. checkpoints[k] \in Checkpoints
  OBVIOUS
<1>2. /\ checkpoints[k].moduleMap \in Partial(AnyVar, Defs)
      /\ checkpoints[k].qualNames \in Partial(QualNames, AnyVar)
      /\ checkpoints[k].globalEnv \in Partial(QualNames, TypeCode)
      /\ checkpoints[k].termIndex \in Indexes
      /\ DOMAIN checkpoints[k] = {"moduleMap", "qualNames", "globalEnv", "termIndex"}
  BY <1>1 DEF Checkpoints
<1> QED
  BY <1>1, <1>2, PartialIsPartial DEF IsCheckpoint

LEMMA RestoreShape ==
  ASSUME NamesOK, checkpoints \in Seq(Checkpoints),
         NEW k \in 1 .. Len(checkpoints),
         RestoreSharedContext(checkpoints[k]), Idle
  PROVE  /\ NamesOK'
         /\ NotStale(checkpoints[k])
         /\ RestoreTerms(checkpoints[k])
         /\ UNCHANGED <<heap, nextTerm>>
         /\ Mentioned' \subseteq CheckpointTerms(checkpoints[k])
<1>1. RestoreEnvs(checkpoints[k]) /\ UNCHANGED counters
  BY DEF RestoreSharedContext
<1>2. EnvsOK'
  BY <1>1, CheckpointEntry DEF RestoreEnvs, EnvsOK
<1>3. CountersOK'
  BY <1>1 DEF NamesOK, CountersOK, counters
<1>4. ControlOK' /\ DeclTerms' = {}
  BY NoDeclTyped DEF Idle, ControlOK, Stages, RoomForCtor, IdleIsClear, DeclTerms, NoDecl
<1>5. EnvTerms(moduleMap', globalEnv') = CheckpointTerms(checkpoints[k])
  BY <1>1 DEF RestoreEnvs, CheckpointTerms
<1> QED
  BY <1>2, <1>3, <1>4, <1>5 DEF NamesOK, Mentioned, RestoreSharedContext

LEMMA UseShape ==
  ASSUME NamesOK, checkpoints \in Seq(Checkpoints), UseCheckpoint
  PROVE  /\ NamesOK'
         /\ \/ KeepsAndSaves
            \/ KeepsAndDrops
            \/ \E k \in 1 .. Len(checkpoints) : RollsTo(k)
<1>i. /\ pc = "idle" /\ UNCHANGED control => Idle
      /\ UNCHANGED <<counters, envs, control>> => NamesOK' /\ Mentioned' = Mentioned
  <2>1. pc = "idle" /\ UNCHANGED control => Idle
    BY DEF control, Idle, NamesOK, ControlOK, IdleIsClear
  <2>2. ASSUME UNCHANGED <<counters, envs, control>>
        PROVE  NamesOK' /\ Mentioned' = Mentioned
    BY <2>2 DEF counters, envs, control, NamesOK, CountersOK, EnvsOK, ControlOK,
                RoomForCtor, IdleIsClear, Mentioned, DeclTerms
  <2> QED
    BY <2>1, <2>2
<1>1. CASE Checkpoint
  BY <1>1, <1>i DEF Checkpoint, KeepsAndSaves, KeepsTerms
<1>2. CASE Release
  BY <1>2, <1>i DEF Release, KeepsAndDrops, KeepsTerms
<1>3. CASE HandlerRestores /\ Idle
  <2>1. DropTop /\ Len(checkpoints) \in 1 .. Len(checkpoints)
    BY <1>3, DropTopShape DEF HandlerRestores
  <2>2. CASE RestoreSharedContext(Top)
    BY <1>3, <2>1, <2>2, RestoreShape DEF Top, RollsTo
  <2>3. CASE UNCHANGED <<caches, validTerms, counters, envs>>
    <3>1. ControlOK' /\ DeclTerms' = {}
      BY <1>3, NoDeclTyped
         DEF Idle, ControlOK, Stages, RoomForCtor, IdleIsClear, DeclTerms, NoDecl
    <3>2. NamesOK' /\ Mentioned' \subseteq Mentioned
      BY <2>3, <3>1 DEF NamesOK, CountersOK, EnvsOK, counters, envs, Mentioned
    <3> QED
      BY <2>1, <2>3, <3>2 DEF KeepsAndDrops, KeepsTerms
  <2> QED
    BY <1>3, <2>2, <2>3 DEF HandlerRestores
<1>4. CASE Rollback \/ Interrupt
  BY <1>3, <1>4, <1>i DEF Rollback, Interrupt
<1>5. ASSUME NEW k \in 1 .. Len(checkpoints), Restore(k)
      PROVE  NamesOK' /\ RollsTo(k)
  <2>1. Idle /\ RestoreSharedContext(checkpoints[k])
    BY <1>5, <1>i DEF Restore
  <2> QED
    BY <1>5, <2>1, RestoreShape DEF Restore, RollsTo
<1> QED
  BY <1>1, <1>2, <1>4, <1>5 DEF UseCheckpoint

-----------------------------------------------------------------------------
(* Every step, with any V that grounds the subterms.                       *)
Grows(V) ==
  /\ KeepsTerms \/ AddsTerm(V)
  /\ UNCHANGED checkpoints
  /\ Mentioned' \subseteq Reached

LEMMA StepShape ==
  ASSUME TypeOK, NamesOK, checkpoints \in Seq(Checkpoints), [Next]_vars,
         NEW V, HeapClosed, GroundsSubterms(V)
  PROVE  /\ NamesOK'
         /\ \/ Grows(V)
            \/ KeepsAndSaves
            \/ KeepsAndDrops
            \/ \E k \in 1 .. Len(checkpoints) : RollsTo(k)
<1>0. DOMAIN heap \subseteq Reached /\ Mentioned \subseteq DOMAIN heap
  BY DEF Reached, HeapClosed
<1>1. CASE BuildTerm
  <2>1. UNCHANGED <<envs, checkpoints, control>> /\ (KeepsTerms \/ AddsTerm(V))
    BY <1>1, BuildShape
  <2>2. CountersOK'
    <3>1. CASE UNCHANGED counters
      BY <3>1 DEF counters, NamesOK, CountersOK
    <3>2. CASE FreshVarName
      BY <3>2, ContextAssumption DEF FreshVarName, NamesOK, CountersOK, AnyVar
    <3> QED
      BY <1>1, <3>1, <3>2 DEF BuildTerm, SortTerm, Variable, Pi, Apply, Ascribe, ConstTerm
  <2>3. EnvsOK' /\ Mentioned' = Mentioned /\ UNCHANGED <<pc, decl>> /\ pc = "idle"
    <3>1. pc = "idle"
      BY <1>1 DEF BuildTerm, SortTerm, FreshVarName, Variable, Pi, Apply, Ascribe,
                  ConstTerm, Builder
    <3> QED
      BY <2>1, <3>1 DEF envs, control, NamesOK, EnvsOK, Mentioned, DeclTerms
  <2>4. ControlOK'
    BY <2>3 DEF NamesOK, ControlOK, RoomForCtor, IdleIsClear
  <2> QED
    BY <1>0, <2>1, <2>2, <2>3, <2>4 DEF NamesOK, Grows
<1>2. CASE StartDecl
  BY <1>0, <1>2, StartShape DEF Grows
<1>3. CASE ContinueDecl
  BY <1>0, <1>3, ContinueShape DEF Grows
<1>4. CASE UseCheckpoint
  BY <1>4, UseShape
<1>5. CASE UNCHANGED vars
  BY <1>0, <1>5 DEF vars, caches, counters, envs, control, NamesOK, CountersOK, EnvsOK,
                    ControlOK, RoomForCtor, IdleIsClear, Grows, KeepsTerms, Mentioned,
                    DeclTerms
<1> QED
  BY <1>1, <1>2, <1>3, <1>4, <1>5 DEF Next

-----------------------------------------------------------------------------
(* The type invariant and what it needs.                                   *)
LEMMA AddedTerm ==
  ASSUME TypeOK, NEW V, AddsTerm(V)
  PROVE  /\ nextTerm \in Indexes /\ nextTerm' = nextTerm + 1 /\ nextTerm' \in Indexes
         /\ nextTerm \notin DOMAIN heap
         /\ DOMAIN heap = 0 .. nextTerm - 1
         /\ DOMAIN heap' = DOMAIN heap \cup {nextTerm}
         /\ DOMAIN heap' = 0 .. nextTerm' - 1
         /\ \A t \in DOMAIN heap : heap'[t] = heap[t]
         /\ heap'[nextTerm] \in TermType
         /\ PartsOf(heap'[nextTerm]) \subseteq DOMAIN heap
         /\ ~heap'[nextTerm].revived => SubtermsOf(heap'[nextTerm]) \subseteq V
<1>1. PICK term \in TermType : NewTerm(term) /\ PartsOf(term) \subseteq DOMAIN heap
                               /\ (~term.revived => SubtermsOf(term) \subseteq V)
  BY DEF AddsTerm
<1>2. /\ nextTerm \in 0 .. LastIndex /\ LastIndex \in Nat
      /\ nextTerm < LastIndex /\ nextTerm' = nextTerm + 1
      /\ DOMAIN heap = 0 .. nextTerm - 1
  BY <1>1, ContextAssumption DEF NewTerm, TypeOK, Indexes
<1>3. /\ nextTerm' \in 0 .. LastIndex /\ nextTerm \notin DOMAIN heap
      /\ 0 .. nextTerm' - 1 = DOMAIN heap \cup {nextTerm}
  BY <1>2
<1>4. heap' = Extend(heap, nextTerm, term)
  BY <1>1 DEF NewTerm
<1>5. /\ DOMAIN heap' = DOMAIN heap \cup {nextTerm}
      /\ \A t \in DOMAIN heap : heap'[t] = heap[t]
      /\ heap'[nextTerm] = term
  BY <1>3, <1>4 DEF Extend
<1> QED
  BY <1>1, <1>2, <1>3, <1>5 DEF Indexes

LEMMA WellFormedTyped == WellFormed => TypeOK
<1>1. CheckpointsMade => \A k \in 1 .. Len(checkpoints) : IsCheckpoint(checkpoints[k])
  BY CheckpointEntry DEF CheckpointsMade
<1> QED
  BY <1>1 DEF WellFormed, TypeOK, TermsOK, NamesOK, CountersOK, EnvsOK, ControlOK, Stages

LEMMA HeapGrounds ==
  ASSUME WellFormed
  PROVE  HeapClosed /\ GroundsSubterms(DOMAIN heap)
<1>1. \A t \in DOMAIN heap : Parts(t) \subseteq DOMAIN heap
  <2> SUFFICES ASSUME NEW t \in DOMAIN heap
               PROVE  0 .. t - 1 \subseteq DOMAIN heap
    BY DEF WellFormed, Older
  <2>1. nextTerm \in Int /\ DOMAIN heap = 0 .. nextTerm - 1
    BY ContextAssumption DEF WellFormed, TermsOK, Indexes
  <2> QED
    BY <2>1
<1>2. Cached \subseteq DOMAIN heap
  BY DEF WellFormed, TermsOK, Cached
<1> QED
  BY <1>1, <1>2 DEF WellFormed, HeapClosed, GroundsSubterms, Parts, SubtermsOf

LEMMA SavedCheckpoint ==
  ASSUME WellFormed
  PROVE  /\ Snapshot \in Checkpoints
         /\ Snapshot.termIndex = nextTerm
         /\ CheckpointTerms(Snapshot) \subseteq Mentioned
<1>1. Snapshot \in Checkpoints
  BY WellFormedTyped, SnapshotTyped DEF WellFormed, NamesOK
<1> QED
  BY <1>1 DEF Snapshot, CheckpointTerms, Mentioned

LEMMA AppendShape ==
  ASSUME NEW s \in Seq(Checkpoints), NEW c \in Checkpoints
  PROVE  /\ Append(s, c) \in Seq(Checkpoints)
         /\ \A k \in 1 .. Len(Append(s, c)) :
              \/ k \in 1 .. Len(s) /\ Append(s, c)[k] = s[k]
              \/ k = Len(s) + 1 /\ Append(s, c)[k] = c
OBVIOUS

LEMMA WellFormedInit == Init => WellFormed
<1> SUFFICES ASSUME Init PROVE WellFormed
  OBVIOUS
<1> USE DEF Init
<1>1. TermsOK
  BY ContextAssumption DEF TermsOK, Indexes
<1>2. CountersOK
  BY ContextAssumption DEF CountersOK
<1>3. EnvsOK
  BY DEF EnvsOK, IsPartial
<1>4. ControlOK
  BY NoDeclTyped DEF ControlOK, Stages, RoomForCtor, IdleIsClear
<1>5. Mentioned = {}
  BY DEF Mentioned, EnvTerms, DeclTerms, NoDecl
<1>6. Older
  BY DEF Older
<1>7. CheckpointsMade
  BY DEF CheckpointsMade
<1> QED
  BY <1>1, <1>2, <1>3, <1>4, <1>5, <1>6, <1>7 DEF NamesOK, WellFormed

LEMMA WellFormedStep == WellFormed /\ [Next]_vars => WellFormed'
<1> SUFFICES ASSUME WellFormed, [Next]_vars PROVE WellFormed'
  OBVIOUS
<1> DEFINE D == DOMAIN heap
<1>1. /\ TypeOK /\ TermsOK /\ NamesOK /\ Older /\ Mentioned \subseteq D
      /\ CheckpointsMade /\ checkpoints \in Seq(Checkpoints)
  BY WellFormedTyped DEF WellFormed, CheckpointsMade
<1>2. /\ NamesOK'
      /\ \/ Grows(D) \/ KeepsAndSaves \/ KeepsAndDrops
         \/ \E k \in 1 .. Len(checkpoints) : RollsTo(k)
  BY <1>1, HeapGrounds, StepShape
<1>n. nextTerm \in Nat /\ D = 0 .. nextTerm - 1
  BY <1>1, ContextAssumption DEF TermsOK, Indexes
<1>k. ASSUME KeepsTerms PROVE TermsOK' /\ Older' /\ D' = D /\ nextTerm' = nextTerm
  BY <1>1, <1>k DEF KeepsTerms, caches, TermsOK, Older, Parts
<1>3. CASE Grows(D)
  <2>1. CASE KeepsTerms
    <3>1. Mentioned' \subseteq D'
      BY <1>3, <1>k, <2>1 DEF Grows, Reached
    <3>2. CheckpointsMade'
      BY <1>1, <1>3, <1>k, <2>1 DEF Grows, CheckpointsMade
    <3> QED
      BY <1>2, <1>k, <2>1, <3>1, <3>2 DEF WellFormed
  <2>2. CASE AddsTerm(D)
    <3>1. Mentioned' \subseteq D'
      BY <1>1, <1>3, <2>2, AddedTerm DEF Grows, Reached
    <3>2. CheckpointsMade'
      <4>1. nextTerm' = nextTerm + 1 /\ UNCHANGED checkpoints
        BY <1>1, <1>3, <2>2, AddedTerm DEF Grows
      <4> QED
        BY <1>1, <1>n, <4>1 DEF CheckpointsMade
    <3>3. TermsOK'
      <4>1. /\ appCache' \subseteq D' /\ hashCache' \subseteq D' /\ validTerms' = validTerms
        BY <1>1, <2>2, AddedTerm DEF AddsTerm, TermsOK
      <4>2. \A t \in D' : heap'[t] \in TermType
        BY <1>1, <2>2, AddedTerm DEF TermsOK
      <4>3. heap' = [t \in D' |-> heap'[t]]
        BY <2>2 DEF AddsTerm, NewTerm, Extend
      <4> QED
        BY <1>1, <2>2, <4>1, <4>2, <4>3, AddedTerm DEF TermsOK
    <3>4. Older'
      <4> SUFFICES ASSUME NEW t \in D' PROVE PartsOf(heap'[t]) \subseteq 0 .. t - 1
        BY DEF Older, Parts, PartsOf
      <4>1. CASE t \in D
        BY <1>1, <2>2, <4>1, AddedTerm DEF Older, Parts, PartsOf
      <4>2. CASE t = nextTerm
        BY <1>1, <2>2, <4>2, AddedTerm
      <4> QED
        BY <1>1, <2>2, <4>1, <4>2, AddedTerm
    <3> QED
      BY <1>2, <3>1, <3>2, <3>3, <3>4 DEF WellFormed
  <2> QED
    BY <1>3, <2>1, <2>2 DEF Grows
<1>4. CASE KeepsAndSaves
  <2>1. Mentioned' \subseteq D'
    BY <1>1, <1>4, <1>k DEF KeepsAndSaves
  <2>2. /\ Snapshot \in Checkpoints /\ Snapshot.termIndex \in 0 .. nextTerm
        /\ CheckpointTerms(Snapshot) \subseteq 0 .. Snapshot.termIndex - 1
    BY <1>1, <1>n, SavedCheckpoint
  <2>3. CheckpointsMade'
    BY <1>1, <1>4, <1>k, <2>2, AppendShape DEF KeepsAndSaves, CheckpointsMade
  <2> QED
    BY <1>2, <1>4, <1>k, <2>1, <2>3 DEF WellFormed, KeepsAndSaves
<1>d. ASSUME DropTop, nextTerm' = nextTerm PROVE CheckpointsMade'
  <2>1. /\ checkpoints' \in Seq(Checkpoints)
        /\ \A k \in 1 .. Len(checkpoints') :
             k \in 1 .. Len(checkpoints) /\ checkpoints'[k] = checkpoints[k]
    BY <1>1, <1>d, DropTopShape
  <2> QED
    BY <1>1, <1>d, <2>1 DEF CheckpointsMade
<1>5. CASE KeepsAndDrops
  <2>1. Mentioned' \subseteq D'
    BY <1>1, <1>5, <1>k DEF KeepsAndDrops
  <2> QED
    BY <1>2, <1>5, <1>k, <1>d, <2>1 DEF WellFormed, KeepsAndDrops
<1>6. ASSUME NEW k \in 1 .. Len(checkpoints), RollsTo(k)
      PROVE  WellFormed'
  <2>1. UNCHANGED <<heap, nextTerm>>
    BY <1>6 DEF RollsTo
  <2>2. TermsOK'
    BY <1>1, <1>6, <2>1 DEF RollsTo, RestoreTerms, FilterTFM, TermsOK
  <2>3. Older'
    BY <1>1, <2>1 DEF Older, Parts
  <2>4. CheckpointsMade'
    BY <1>1, <1>6, <1>d, <2>1 DEF RollsTo, CheckpointsMade
  <2>5. Mentioned' \subseteq D'
    <3>1. /\ checkpoints[k].termIndex \in 0 .. nextTerm
          /\ CheckpointTerms(checkpoints[k]) \subseteq 0 .. checkpoints[k].termIndex - 1
      BY <1>1 DEF CheckpointsMade
    <3>2. 0 .. checkpoints[k].termIndex - 1 \subseteq D
      BY <1>n, <3>1
    <3> QED
      BY <1>6, <2>1, <3>1, <3>2 DEF RollsTo
  <2> QED
    BY <1>2, <2>2, <2>3, <2>4, <2>5 DEF WellFormed
<1> QED
  BY <1>2, <1>3, <1>4, <1>5, <1>6

(* The invariant the others rest on.                                       *)
THEOREM WellFormedForever == Spec => []WellFormed
<1>1. Init => WellFormed
  BY WellFormedInit
<1>2. WellFormed /\ [Next]_vars => WellFormed'
  BY WellFormedStep
<1> QED
  BY <1>1, <1>2, PTL DEF Spec

(* The kernel state is always well typed.                                  *)
THEOREM TypeCorrect == Spec => []TypeOK
BY WellFormedForever, WellFormedTyped, PTL

-----------------------------------------------------------------------------
(* What every step does to the terms, whatever it is grounded in.          *)
LEMMA TermsShape ==
  ASSUME WellFormed, [Next]_vars
  PROVE  \/ KeepsTerms
         \/ AddsTerm(DOMAIN heap)
         \/ \E k \in 1 .. Len(checkpoints) : RollsTo(k)
BY WellFormedTyped, HeapGrounds, StepShape
   DEF WellFormed, CheckpointsMade, Grows, KeepsAndSaves, KeepsAndDrops

(* A TermIndex denotes one term, and a term that was rolled back stays     *)
(* invalid: restoreSharedContext does not reuse what it gives up.          *)
THEOREM StaleStaysStale == Spec => StaleForever
<1> DEFINE Fixed ==
      \A t \in DOMAIN heap :
        heap'[t] = heap[t] /\ (t \notin validTerms => t \notin validTerms')
<1>1. ASSUME WellFormed, [Next]_vars PROVE Fixed
  <2>1. CASE KeepsTerms
    BY <2>1 DEF KeepsTerms, caches
  <2>2. CASE AddsTerm(DOMAIN heap)
    BY <1>1, <2>2, WellFormedTyped, AddedTerm DEF AddsTerm
  <2>3. CASE \E k \in 1 .. Len(checkpoints) : RollsTo(k)
    BY <2>3 DEF RollsTo, RestoreTerms
  <2> QED
    BY <1>1, <2>1, <2>2, <2>3, TermsShape
<1>2. WellFormed /\ [Next]_vars => [Fixed]_vars
  BY <1>1
<1> QED
  BY <1>2, WellFormedForever, PTL DEF Spec, StaleForever

(* The TermIndexes not handed out yet are valid.                           *)
FutureValid == nextTerm .. LastIndex \subseteq validTerms

ExactInv == CacheExact /\ FutureValid

LEMMA ExactInit == Init => ExactInv
BY ContextAssumption DEF Init, ExactInv, CacheExact, FutureValid, Cached, Indexes

LEMMA ExactStep == WellFormed /\ ExactInv /\ [Next]_vars => ExactInv'
<1> SUFFICES ASSUME WellFormed, ExactInv, [Next]_vars PROVE ExactInv'
  OBVIOUS
<1>1. /\ Cached = DOMAIN heap \cap validTerms
      /\ nextTerm .. LastIndex \subseteq validTerms
      /\ nextTerm \in 0 .. LastIndex /\ LastIndex \in Nat
      /\ DOMAIN heap = 0 .. nextTerm - 1
  BY ContextAssumption DEF ExactInv, CacheExact, FutureValid, WellFormed, TermsOK, Indexes
<1>2. CASE KeepsTerms
  BY <1>2 DEF KeepsTerms, caches, ExactInv, CacheExact, FutureValid, Cached
<1>3. CASE AddsTerm(DOMAIN heap)
  <2>1. /\ DOMAIN heap' = DOMAIN heap \cup {nextTerm}
        /\ nextTerm' = nextTerm + 1
        /\ validTerms' = validTerms
    BY <1>3, WellFormedTyped, AddedTerm DEF AddsTerm
  <2>2. Cached' = Cached \cup {nextTerm}
    BY <1>3 DEF AddsTerm, Cached
  <2>3. nextTerm \in validTerms
    BY <1>1
  <2>4. nextTerm' .. LastIndex \subseteq validTerms
    BY <1>1, <2>1
  <2> QED
    BY <1>1, <2>1, <2>2, <2>3, <2>4 DEF ExactInv, CacheExact, FutureValid
<1>4. ASSUME NEW k \in 1 .. Len(checkpoints), RollsTo(k) PROVE ExactInv'
  <2> DEFINE i == checkpoints[k].termIndex
  <2>1. i \in 0 .. nextTerm
    BY DEF WellFormed, CheckpointsMade
  <2>2. /\ validTerms' = validTerms \ (i .. nextTerm - 1)
        /\ Cached' = {t \in Cached : t < i}
        /\ heap' = heap /\ nextTerm' = nextTerm
    BY <1>4 DEF RollsTo, RestoreTerms, Since, FilterTFM, Cached
  <2> HIDE DEF i
  <2>3. nextTerm .. LastIndex \subseteq validTerms'
    BY <1>1, <2>1, <2>2
  <2>4. \A t \in DOMAIN heap : t < i <=> t \notin i .. nextTerm - 1
    BY <1>1, <2>1
  <2>5. Cached' = DOMAIN heap \cap validTerms'
    BY <1>1, <2>2, <2>4
  <2> QED
    BY <2>2, <2>3, <2>5 DEF ExactInv, CacheExact, FutureValid
<1> QED
  BY <1>2, <1>3, <1>4, TermsShape

THEOREM ExactForever == Spec => []ExactInv
<1>1. Init => ExactInv
  BY ExactInit
<1>2. WellFormed /\ ExactInv /\ [Next]_vars => ExactInv'
  BY ExactStep
<1> QED
  BY <1>1, <1>2, WellFormedForever, PTL DEF Spec

(* The hash-consing tables hold the valid terms, no more and no fewer, also*)
(* after any sequence of checkpoints and restores.                         *)
THEOREM CacheExactForever == Spec => []CacheExact
<1>1. ExactInv => CacheExact
  BY DEF ExactInv
<1> QED
  BY <1>1, ExactForever, PTL

-----------------------------------------------------------------------------
(* The subterms of what is usable are usable, however checkpoints are used.*)
LEMMA CachedGroundsSubterms ==
  ASSUME WellFormed, ExactInv, CacheSubterms
  PROVE  GroundsSubterms(Cached)
<1>1. Cached = DOMAIN heap \cap validTerms
  BY DEF ExactInv, CacheExact
<1>2. \A t \in Cached : SubtermsOf(heap[t]) \subseteq DOMAIN heap
  BY <1>1, HeapGrounds DEF HeapClosed, Parts, SubtermsOf
<1> QED
  BY <1>1, <1>2 DEF GroundsSubterms, CacheSubterms, SubtermsOf

(* An earlier part of a term that stays before a checkpoint stays, too.    *)
LEMMA OlderStays ==
  ASSUME WellFormed, NEW k \in 1 .. Len(checkpoints), RollsTo(k),
         NEW t \in Cached', NEW u \in Parts(t), u \in validTerms
  PROVE  u \in validTerms'
<1> DEFINE i == checkpoints[k].termIndex
<1>1. /\ validTerms' = validTerms \ (i .. nextTerm - 1)
      /\ t \in Cached /\ t < i
  BY DEF RollsTo, RestoreTerms, Since, FilterTFM, Cached
<1>2. i \in Int
  BY CheckpointEntry, ContextAssumption DEF WellFormed, CheckpointsMade, Indexes
<1>3. t \in DOMAIN heap /\ DOMAIN heap = 0 .. nextTerm - 1 /\ nextTerm \in Int
  BY <1>1, ContextAssumption DEF WellFormed, TermsOK, Cached, Indexes
<1>4. u \in 0 .. t - 1
  BY <1>3 DEF WellFormed, Older
<1> HIDE DEF i
<1>5. u < i
  BY <1>1, <1>2, <1>3, <1>4
<1> QED
  BY <1>1, <1>2, <1>4, <1>5

LEMMA SubtermsStep == WellFormed /\ ExactInv /\ CacheSubterms /\ [Next]_vars => CacheSubterms'
<1> SUFFICES ASSUME WellFormed, ExactInv, CacheSubterms, [Next]_vars
             PROVE  CacheSubterms'
  OBVIOUS
<1>1. /\ Cached = DOMAIN heap \cap validTerms
      /\ TypeOK /\ HeapClosed /\ GroundsSubterms(Cached)
  BY CachedGroundsSubterms, HeapGrounds, WellFormedTyped DEF ExactInv, CacheExact
<1>2. \/ KeepsTerms
      \/ AddsTerm(Cached)
      \/ \E k \in 1 .. Len(checkpoints) : RollsTo(k)
  BY <1>1, StepShape
     DEF WellFormed, CheckpointsMade, Grows, KeepsAndSaves, KeepsAndDrops
<1>3. CASE KeepsTerms
  BY <1>3 DEF KeepsTerms, caches, CacheSubterms, Cached
<1>4. CASE AddsTerm(Cached)
  <2>1. /\ Cached' = Cached \cup {nextTerm} /\ validTerms' = validTerms
        /\ \A t \in Cached : heap'[t] = heap[t]
        /\ ~heap'[nextTerm].revived => SubtermsOf(heap'[nextTerm]) \subseteq validTerms
    BY <1>1, <1>4, AddedTerm DEF AddsTerm, Cached
  <2> QED
    BY <2>1 DEF CacheSubterms, SubtermsOf
<1>5. ASSUME NEW k \in 1 .. Len(checkpoints), RollsTo(k) PROVE CacheSubterms'
  <2>1. heap' = heap /\ Cached' \subseteq Cached
    BY <1>5 DEF RollsTo, RestoreTerms, FilterTFM, Cached
  <2> SUFFICES ASSUME NEW t \in Cached',
                      NEW u \in {heap[t].tf.fst, heap[t].tf.snd} \ {NoTerm},
                      ~heap[t].revived
               PROVE  u \in validTerms'
    BY <2>1 DEF CacheSubterms
  <2>2. u \in Parts(t) /\ u \in validTerms
    BY <2>1 DEF Parts, CacheSubterms
  <2> QED
    BY <1>5, <2>2, OlderStays
<1> QED
  BY <1>2, <1>3, <1>4, <1>5

(* A usable term has usable subterms, unless it was revived by an          *)
(* ascription, also when a script restores its checkpoints in any order.   *)
THEOREM CacheSubtermsForever == Spec => []CacheSubterms
<1>1. Init => CacheSubterms
  BY DEF Init, CacheSubterms, Cached
<1>2. WellFormed /\ ExactInv /\ CacheSubterms /\ [Next]_vars => CacheSubterms'
  BY SubtermsStep
<1> QED
  BY <1>1, <1>2, WellFormedForever, ExactForever, PTL DEF Spec

-----------------------------------------------------------------------------
(* Checkpoints held together have different TermIndexes: none spoils       *)
(* another.                                                                *)
SeparatedInv ==
  /\ CheckpointsUsable
  /\ \A k \in 1 .. Len(checkpoints) :
       \A l \in 1 .. k - 1 : checkpoints[l].termIndex < checkpoints[k].termIndex

LEMMA SeparatedSave ==
  ASSUME Discipline = "separated", WellFormed, ExactInv, SeparatedInv, KeepsAndSaves
  PROVE  SeparatedInv'
<1>1. /\ checkpoints \in Seq(Checkpoints) /\ Snapshot \in Checkpoints
      /\ Snapshot.termIndex = nextTerm
      /\ nextTerm \in validTerms
  BY SavedCheckpoint, ContextAssumption
     DEF WellFormed, CheckpointsMade, ExactInv, FutureValid, TermsOK, Indexes
<1>2. validTerms' = validTerms /\ checkpoints' = Append(checkpoints, Snapshot)
  BY DEF KeepsAndSaves, KeepsTerms
<1>3. \A k \in 1 .. Len(checkpoints) : checkpoints[k].termIndex < nextTerm
  <2>1. \A k \in 1 .. Len(checkpoints) :
          checkpoints[k].termIndex \in 0 .. nextTerm /\ checkpoints[k].termIndex # nextTerm
    BY DEF WellFormed, CheckpointsMade, KeepsAndSaves
  <2> QED
    BY <2>1, ContextAssumption DEF WellFormed, TermsOK, Indexes
<1>4. Len(checkpoints) \in Nat /\ Len(checkpoints') = Len(checkpoints) + 1
  BY <1>1, <1>2
<1> SUFFICES ASSUME NEW k \in 1 .. Len(checkpoints')
             PROVE  /\ checkpoints'[k].termIndex \in validTerms
                    /\ \A l \in 1 .. k - 1 :
                         checkpoints'[l].termIndex < checkpoints'[k].termIndex
  BY <1>2 DEF SeparatedInv, CheckpointsUsable, NotStale
<1>5. \A l \in 1 .. k - 1 : l \in 1 .. Len(checkpoints) /\ checkpoints'[l] = checkpoints[l]
  BY <1>1, <1>2, <1>4
<1>6. CASE k \in 1 .. Len(checkpoints) /\ checkpoints'[k] = checkpoints[k]
  BY <1>5, <1>6 DEF SeparatedInv, CheckpointsUsable, NotStale
<1>7. CASE checkpoints'[k] = Snapshot
  BY <1>1, <1>3, <1>5, <1>7
<1> QED
  BY <1>1, <1>2, <1>6, <1>7, AppendShape

LEMMA SeparatedDrop ==
  ASSUME WellFormed, SeparatedInv, DropTop,
         \A k \in 1 .. Len(checkpoints) - 1 : checkpoints[k].termIndex \in validTerms'
  PROVE  SeparatedInv'
<1>1. /\ Len(checkpoints') \in Nat
      /\ Len(checkpoints) = Len(checkpoints') + 1
      /\ \A k \in 1 .. Len(checkpoints') : checkpoints'[k] = checkpoints[k]
  BY DropTopShape DEF WellFormed, CheckpointsMade
<1>2. \A k \in 1 .. Len(checkpoints') :
        /\ k \in 1 .. Len(checkpoints) /\ k \in 1 .. Len(checkpoints) - 1
        /\ \A l \in 1 .. k - 1 : l \in 1 .. Len(checkpoints')
  BY <1>1
<1> QED
  BY <1>1, <1>2 DEF SeparatedInv, CheckpointsUsable, NotStale

LEMMA SeparatedStep ==
  ASSUME Discipline = "separated"
  PROVE  WellFormed /\ ExactInv /\ SeparatedInv /\ [Next]_vars => SeparatedInv'
<1> SUFFICES ASSUME WellFormed, ExactInv, SeparatedInv, [Next]_vars
             PROVE  SeparatedInv'
  OBVIOUS
<1> DEFINE D == DOMAIN heap
<1>1. \/ Grows(D) \/ KeepsAndSaves \/ KeepsAndDrops
      \/ \E k \in 1 .. Len(checkpoints) : RollsTo(k)
  BY WellFormedTyped, HeapGrounds, StepShape DEF WellFormed, CheckpointsMade
<1>2. CASE Grows(D)
  BY <1>2 DEF Grows, KeepsTerms, AddsTerm, SeparatedInv, CheckpointsUsable, NotStale
<1>3. CASE KeepsAndSaves
  BY <1>3, SeparatedSave
<1>4. CASE KeepsAndDrops
  <2>1. \A k \in 1 .. Len(checkpoints) - 1 :
          k \in 1 .. Len(checkpoints) /\ checkpoints[k].termIndex \in validTerms'
    BY <1>4 DEF KeepsAndDrops, KeepsTerms, SeparatedInv, CheckpointsUsable, NotStale,
                WellFormed, CheckpointsMade
  <2> QED
    BY <1>4, <2>1, SeparatedDrop DEF KeepsAndDrops
<1>5. ASSUME NEW k \in 1 .. Len(checkpoints), RollsTo(k) PROVE SeparatedInv'
  <2>1. /\ DropTop /\ k = Len(checkpoints)
        /\ validTerms' = validTerms \ (checkpoints[k].termIndex .. nextTerm - 1)
    BY <1>5 DEF RollsTo, Handlers, RestoreTerms, Since
  <2>2. ASSUME NEW l \in 1 .. Len(checkpoints) - 1
        PROVE  checkpoints[l].termIndex \in validTerms'
    <3>1. l \in 1 .. Len(checkpoints) /\ l \in 1 .. k - 1
      BY <1>5, <2>1
    <3>2. /\ checkpoints[l].termIndex \in validTerms
          /\ checkpoints[l].termIndex < checkpoints[k].termIndex
          /\ checkpoints[l].termIndex \in Int /\ checkpoints[k].termIndex \in Int
      BY <1>5, <3>1, CheckpointEntry, ContextAssumption
         DEF SeparatedInv, CheckpointsUsable, NotStale, WellFormed, CheckpointsMade, Indexes
    <3> QED
      BY <2>1, <3>2
  <2> QED
    BY <2>1, <2>2, SeparatedDrop
<1> QED
  BY <1>1, <1>2, <1>3, <1>4, <1>5

(* As long as a term is made between two checkpoints, none of those held   *)
(* can become stale: every handler can put its state back.                 *)
THEOREM CheckpointsUsableForever ==
  ASSUME Discipline = "separated"
  PROVE  Spec => []CheckpointsUsable
<1>1. Init => SeparatedInv
  BY DEF Init, SeparatedInv, CheckpointsUsable
<1>2. WellFormed /\ ExactInv /\ SeparatedInv /\ [Next]_vars => SeparatedInv'
  BY SeparatedStep
<1>3. SeparatedInv => CheckpointsUsable
  BY DEF SeparatedInv
<1> QED
  BY <1>1, <1>2, <1>3, WellFormedForever, ExactForever, PTL DEF Spec
=============================================================================
