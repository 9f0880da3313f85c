------------------------ MODULE SharedContextTables ------------------------
(***************************************************************************)
(* Theorems about the hash-consing tables of SharedContext, for every value*)
(* of its constants: equality of TermIndexes is equality of shape and type *)
(* over both tables together, what is defined is closed, rolling back by   *)
(* index range implements the nested transactions of Lineage, and, when    *)
(* checkpoints are used by bracketing, nothing usable refers to a term that*)
(* was rolled back, except what scmAscribe made of such terms.             *)
(***************************************************************************)
EXTENDS SharedContextNames

-----------------------------------------------------------------------------
(* Hash-consing.  An ascribed application stands in hashCache beside the   *)
(* entry of appCache with its shape, and is younger; a revived one may     *)
(* stand there alone.                                                      *)
AppsApart == \A t \in appCache : heap[t].tf.op = "App" /\ ~heap[t].revived

AscribedYounger ==
  \A u \in hashCache :
    heap[u].tf.op = "App" /\ ~heap[u].revived
      => \E t \in appCache : t < u /\ heap[t].tf = heap[u].tf

HashInv == AppsApart /\ AscribedYounger /\ HashConsed

(* What a step adds to the tables.                                         *)
AddsHashed(term) ==
  /\ Insert(term)
  /\ \A t \in appCache : heap[t].tf # term.tf \/ heap[t].ty # term.ty
  /\ term.tf.op = "App" /\ ~term.revived => \E t \in appCache : heap[t].tf = term.tf

AddsApplied(f, a, vt, ty) ==
  /\ AppHits(f, a) = {}
  /\ NewTerm(Term(AppF(f, a), vt, ty))
  /\ appCache' = appCache \cup {nextTerm}
  /\ hashCache' = hashCache

Adds ==
  \/ \E term : AddsHashed(term)
  \/ \E f, a, vt, ty : AddsApplied(f, a, vt, ty)

LEMMA InsertAdds ==
  ASSUME HashInv, NEW tf, NEW vt, NEW ty, Insert(Term(tf, vt, ty)), tf.op # "App"
  PROVE  Adds
<1> DEFINE term == Term(tf, vt, ty)
<1>1. term.tf = tf /\ Insert(term)
  BY DEF Term
<1> HIDE DEF term
<1> QED
  BY <1>1 DEF HashInv, AppsApart, Adds, AddsHashed

LEMMA MakeTermAdds ==
  ASSUME HashInv, NEW tf, NEW vt, NEW ty, MakeTerm(tf, vt, ty), tf.op # "App"
  PROVE  UNCHANGED caches \/ Adds
BY InsertAdds DEF MakeTerm

LEMMA ContinueAdds == HashInv /\ ContinueDecl => UNCHANGED caches \/ Adds
<1> SUFFICES ASSUME HashInv, ContinueDecl PROVE UNCHANGED caches \/ Adds
  OBVIOUS
<1>1. CASE DataTypeSort
  <2>1. MakeTerm(SortF, {}, NoTerm) /\ SortF.op # "App"
    BY <1>1 DEF DataTypeSort, SortF
  <2> QED
    BY <2>1, MakeTermAdds
<1>2. CASE BuildConst
  <2>1. MakeTerm(ConstF(decl.index), {}, decl.ty) /\ ConstF(decl.index).op # "App"
    BY <1>2 DEF BuildConst, ConstF
  <2> QED
    BY <2>1, MakeTermAdds
<1>3. CASE DataTypeTerm
  <2>1. MakeTerm(ConstF(decl.index), {}, NoTerm) /\ ConstF(decl.index).op # "App"
    BY <1>3 DEF DataTypeTerm, ConstF
  <2> QED
    BY <2>1, MakeTermAdds
<1>4. InsDefInMap \/ RegisterGlobal \/ RejectDataType \/ CtorName
         \/ InsTypeDeclInMap \/ DataTypeGlobal \/ CtorConst => UNCHANGED caches
  BY DEF InsDefInMap, RegisterGlobal, RejectDataType, CtorName, InsTypeDeclInMap,
         DataTypeGlobal, CtorConst
<1> QED
  BY <1>1, <1>2, <1>3, <1>4 DEF ContinueDecl

LEMMA AscribeAdds ==
  ASSUME ExactInv, HashInv, NEW t0 \in Terms, NEW ty \in Terms, Ascribe(t0, ty)
  PROVE  Adds
<1> DEFINE term == Ascribed(t0, ty)
<1>1. /\ term.tf = heap[t0].tf /\ term.ty = AsType(ty)
      /\ ~term.revived => ~heap[t0].revived /\ EnsureValid(t0)
  BY DEF Ascribed, Term
<1>2. /\ Insert(term)
      /\ \A t \in appCache : heap[t].tf # heap[t0].tf \/ heap[t].ty # AsType(ty)
  BY DEF Ascribe
<1> HIDE DEF term
<1>3. ASSUME heap[t0].tf.op = "App", ~heap[t0].revived, EnsureValid(t0)
      PROVE  \E t \in appCache : heap[t].tf = heap[t0].tf
  <2>1. t0 \in Cached
    BY <1>3 DEF EnsureValid, ExactInv, CacheExact, Terms
  <2> QED
    BY <1>3, <2>1 DEF Cached, HashInv, AscribedYounger
<1>4. AddsHashed(term)
  BY <1>1, <1>2, <1>3 DEF AddsHashed
<1> QED
  BY <1>4 DEF Adds

LEMMA BuildAdds ==
  ASSUME ExactInv, HashInv, BuildTerm
  PROVE  UNCHANGED caches \/ Adds
<1>1. CASE SortTerm
  BY <1>1, InsertAdds DEF SortTerm, SortF
<1>2. ASSUME NEW x, NEW t, Variable(x, t) PROVE Adds
  BY <1>2, InsertAdds DEF Variable, VariableF
<1>3. ASSUME NEW x, NEW t, NEW body, Pi(x, t, body) PROVE Adds
  BY <1>3, InsertAdds DEF Pi, PiF
<1>4. ASSUME NEW f, NEW a, Apply(f, a) PROVE Adds
  BY <1>4 DEF Apply, Adds, AddsApplied
<1>5. ASSUME NEW v, ConstTerm(v) PROVE Adds
  BY <1>5, InsertAdds DEF ConstTerm, ConstF
<1>6. FreshVarName => UNCHANGED caches
  BY DEF FreshVarName
<1> QED
  BY <1>1, <1>2, <1>3, <1>4, <1>5, <1>6, AscribeAdds DEF BuildTerm

LEMMA TablesShape ==
  ASSUME WellFormed, ExactInv, HashInv, [Next]_vars
  PROVE  \/ UNCHANGED caches
         \/ Adds
         \/ \E k \in 1 .. Len(checkpoints) : RollsTo(k)
<1>1. BuildTerm => UNCHANGED caches \/ Adds
  BY BuildAdds
<1>2. StartDecl => UNCHANGED caches
  BY DEF StartDecl, DefineConstant, FreshConstant, OpaqueConstant, Declare, DeclareOpen,
         DataType
<1>3. UseCheckpoint => UNCHANGED caches \/ \E k \in 1 .. Len(checkpoints) : RollsTo(k)
  BY UseShape DEF WellFormed, CheckpointsMade, KeepsAndSaves, KeepsAndDrops, KeepsTerms
<1>4. UNCHANGED vars => UNCHANGED caches
  BY DEF vars
<1> QED
  BY <1>1, <1>2, <1>3, <1>4, ContinueAdds DEF Next

(* A new term's number is above every term's.                              *)
LEMMA NewEntry ==
  ASSUME WellFormed, NEW term, NewTerm(term)
  PROVE  /\ \A t \in Cached : t \in DOMAIN heap /\ t < nextTerm /\ heap'[t] = heap[t]
         /\ heap'[nextTerm] = term
         /\ nextTerm \notin Cached
<1>1. nextTerm \in Int /\ DOMAIN heap = 0 .. nextTerm - 1 /\ Cached \subseteq DOMAIN heap
  BY ContextAssumption DEF WellFormed, TermsOK, Indexes, Cached
<1> QED
  BY <1>1 DEF NewTerm, Extend

LEMMA HashedStep ==
  ASSUME WellFormed, HashInv, NEW term, AddsHashed(term)
  PROVE  HashInv'
<1>1. /\ \A t \in Cached : t < nextTerm /\ heap'[t] = heap[t]
      /\ heap'[nextTerm] = term /\ nextTerm \notin Cached
  BY NewEntry DEF AddsHashed, Insert
<1>2. hashCache' = hashCache \cup {nextTerm} /\ appCache' = appCache
  BY DEF AddsHashed, Insert
<1>3. Cached' = Cached \cup {nextTerm}
  BY <1>2 DEF Cached
<1>4. AppsApart'
  BY <1>1, <1>2 DEF HashInv, AppsApart, Cached
<1>5. AscribedYounger'
  <2> SUFFICES ASSUME NEW u \in hashCache', heap'[u].tf.op = "App", ~heap'[u].revived
               PROVE  \E t \in appCache : t < u /\ heap'[t].tf = heap'[u].tf
    BY <1>2 DEF AscribedYounger
  <2>1. CASE u = nextTerm
    BY <1>1, <2>1 DEF AddsHashed, Cached
  <2>2. CASE u \in hashCache
    BY <1>1, <2>2 DEF HashInv, AscribedYounger, Cached
  <2> QED
    BY <1>2, <2>1, <2>2
<1>6. ASSUME NEW t \in Cached, heap[t].tf = term.tf, heap[t].ty = term.ty PROVE FALSE
  BY <1>6 DEF AddsHashed, Insert, HashHits, Cached
<1>7. HashConsed'
  BY <1>1, <1>3, <1>6 DEF HashInv, HashConsed
<1> QED
  BY <1>4, <1>5, <1>7 DEF HashInv

LEMMA AppliedStep ==
  ASSUME WellFormed, HashInv, NEW f, NEW a, NEW vt, NEW ty, AddsApplied(f, a, vt, ty)
  PROVE  HashInv'
<1> DEFINE tf == AppF(f, a)
           term == Term(tf, vt, ty)
<1>1. /\ \A t \in Cached : t < nextTerm /\ heap'[t] = heap[t]
      /\ heap'[nextTerm] = term /\ nextTerm \notin Cached
      /\ term.tf = tf /\ term.ty = ty /\ tf.op = "App" /\ ~term.revived
  BY NewEntry DEF AddsApplied, Term, AppF
<1>0. \A t \in appCache : heap[t].tf # tf
  BY DEF AddsApplied, AppHits
<1> HIDE DEF term, tf
<1>2. appCache' = appCache \cup {nextTerm} /\ hashCache' = hashCache
  BY DEF AddsApplied
<1>3. Cached' = Cached \cup {nextTerm}
  BY <1>2 DEF Cached
<1>4. AppsApart'
  BY <1>1, <1>2 DEF HashInv, AppsApart, Cached
<1>5. AscribedYounger'
  <2> SUFFICES ASSUME NEW u \in hashCache, heap[u].tf.op = "App", ~heap[u].revived
               PROVE  \E t \in appCache' : t < u /\ heap'[t].tf = heap'[u].tf
    BY <1>1, <1>2 DEF AscribedYounger, Cached
  <2>1. PICK t \in appCache : t < u /\ heap[t].tf = heap[u].tf
    BY DEF HashInv, AscribedYounger
  <2> QED
    BY <1>1, <1>2, <2>1 DEF Cached
<1>6. \A t \in Cached : heap[t].tf # tf \/ heap[t].revived
  BY <1>0, <1>1 DEF HashInv, AscribedYounger, Cached
<1>7. HashConsed'
  BY <1>1, <1>3, <1>6 DEF HashInv, HashConsed
<1> QED
  BY <1>4, <1>5, <1>7 DEF HashInv

LEMMA HashStep == WellFormed /\ ExactInv /\ HashInv /\ [Next]_vars => HashInv'
<1> SUFFICES ASSUME WellFormed, ExactInv, HashInv, [Next]_vars PROVE HashInv'
  OBVIOUS
<1>1. CASE UNCHANGED caches
  BY <1>1 DEF caches, HashInv, AppsApart, AscribedYounger, HashConsed, Cached
<1>2. CASE Adds
  BY <1>2, HashedStep, AppliedStep DEF Adds
<1>3. ASSUME NEW k \in 1 .. Len(checkpoints), RollsTo(k) PROVE HashInv'
  <2> DEFINE i == checkpoints[k].termIndex
  <2>1. /\ heap' = heap
        /\ appCache' = {t \in appCache : t < i} /\ hashCache' = {t \in hashCache : t < i}
    BY <1>3 DEF RollsTo, RestoreTerms, FilterTFM
  <2>2. i \in Int
    BY <1>3, CheckpointEntry, ContextAssumption DEF WellFormed, CheckpointsMade, Indexes
  <2>3. \A t \in Cached : t \in Int
    BY ContextAssumption DEF WellFormed, TermsOK, Indexes, Cached
  <2> HIDE DEF i
  <2>4. AppsApart' /\ HashConsed'
    BY <2>1 DEF HashInv, AppsApart, HashConsed, Cached
  <2>5. AscribedYounger'
    <3> SUFFICES ASSUME NEW u \in hashCache, u < i, heap[u].tf.op = "App",
                        ~heap[u].revived
                 PROVE  \E t \in appCache : t < i /\ t < u /\ heap[t].tf = heap[u].tf
      BY <2>1 DEF AscribedYounger
    <3>1. PICK t \in appCache : t < u /\ heap[t].tf = heap[u].tf
      BY DEF HashInv, AscribedYounger
    <3> QED
      BY <2>2, <2>3, <3>1 DEF Cached
  <2> QED
    BY <2>4, <2>5 DEF HashInv
<1> QED
  BY <1>1, <1>2, <1>3, TablesShape

(* Over both tables together, terms with the same shape and the same type  *)
(* are one term: scmAscribe never makes an application twice, whatever was *)
(* rolled back in between, except that one it revived from a rolled-back   *)
(* term is made again by scmApply.                                         *)
THEOREM HashConsedForever == Spec => []HashConsed
<1>1. Init => HashInv
  BY DEF Init, HashInv, AppsApart, AscribedYounger, HashConsed, Cached
<1>2. WellFormed /\ ExactInv /\ HashInv /\ [Next]_vars => HashInv'
  BY HashStep
<1>3. HashInv => HashConsed
  BY DEF HashInv
<1> QED
  BY <1>1, <1>2, <1>3, WellFormedForever, ExactForever, PTL DEF Spec

-----------------------------------------------------------------------------
(* Closed terms.  Unless the type of an opaque constant is open, a closed  *)
(* term has a closed type, and unfolding keeps a closed term closed.       *)
ClosedTerms == {t \in DOMAIN heap : Closed(t)}

Clear(t) == t = NoTerm \/ t \in ClosedTerms

ConstantsClosed == \A t \in DOMAIN heap : heap[t].tf.op = "Constant" => Closed(t)

BodiesBound ==
  \A t \in DOMAIN heap :
    heap[t].tf.op = "Pi" =>
      /\ heap[t].tf.snd \in DOMAIN heap
      /\ Without(heap[t].tf.var, heap[heap[t].tf.snd].vt) \subseteq heap[t].vt

TypesClosed == \A t \in ClosedTerms : Clear(heap[t].ty)

TermsClosed == ConstantsClosed /\ BodiesBound /\ TypesClosed

SavedClosed ==
  \A k \in 1 .. Len(checkpoints) : CheckpointTerms(checkpoints[k]) \subseteq ClosedTerms

ClosedInv == TermsClosed /\ Mentioned \subseteq ClosedTerms /\ SavedClosed

(* A new term whose variables account for those of its body and its type.  *)
IsClosing(term) ==
  /\ term.tf.op = "Constant" => term.vt = {}
  /\ term.tf.op = "Pi" =>
       /\ term.tf.snd \in DOMAIN heap
       /\ Without(term.tf.var, heap[term.tf.snd].vt) \subseteq term.vt
  /\ term.vt = {} => Clear(term.ty)

AddsClosed == \E term : NewTerm(term) /\ IsClosing(term)

LEMMA MakeTermClosed ==
  ASSUME NEW tf, NEW vt, NEW ty, MakeTerm(tf, vt, ty) \/ Insert(Term(tf, vt, ty)),
         tf.op = "Constant" => vt = {},
         tf.op = "Pi" => tf.snd \in DOMAIN heap /\ Without(tf.var, heap[tf.snd].vt) \subseteq vt,
         vt = {} => Clear(ty)
  PROVE  UNCHANGED heap \/ AddsClosed
<1> DEFINE term == Term(tf, vt, ty)
<1>1. term.tf = tf /\ term.vt = vt /\ term.ty = ty
  BY DEF Term
<1>2. UNCHANGED heap \/ Insert(term)
  BY DEF MakeTerm, caches
<1> HIDE DEF term
<1>3. IsClosing(term)
  BY <1>1 DEF IsClosing
<1> QED
  BY <1>2, <1>3 DEF AddsClosed, Insert

(* Unfolding a closed term ends in a closed term.                          *)
LEMMA WhnfClosed ==
  ASSUME ClosedInv, NEW t \in ClosedTerms
  PROVE  Whnf(t) \subseteq ClosedTerms
<1>1. UnfoldClosed(ClosedTerms)
  <2> SUFFICES ASSUME NEW u \in ClosedTerms, Unfolds(u)
               PROVE  Unfolding(u) \in ClosedTerms
    BY DEF UnfoldClosed
  <2>1. Unfolding(u) \in EnvTerms(moduleMap, globalEnv)
    BY DEF Unfolds, Unfolding, EnvTerms
  <2> QED
    BY <2>1 DEF ClosedInv, Mentioned
<1>2. ClosedTerms \in SUBSET DOMAIN heap
  BY DEF ClosedTerms
<1> QED
  BY <1>1, <1>2 DEF Whnf

(* scmSubtype relates an open type to itself only.                         *)
LEMMA ClosedSubtype ==
  ASSUME ClosedInv, NEW ty1, Clear(ty1), NEW ty2 \in DOMAIN heap, Subtype(ty1, AsType(ty2))
  PROVE  Clear(AsType(ty2))
<1>1. CASE AsType(ty2) = NoTerm
  BY <1>1 DEF Clear
<1>2. CASE AsType(ty2) = ty2 /\ ty2 # NoTerm /\ ~Closed(ty2)
  <2>1. ~Unfolds(ty2)
    BY <1>2 DEF Unfolds, ClosedInv, TermsClosed, ConstantsClosed
  <2>2. HeadTypes(ty2) \subseteq {ty2}
    BY <1>2, <2>1 DEF HeadTypes, Whnf
  <2>0. ty1 # ty2
    BY <1>2 DEF Clear, ClosedTerms
  <2>3. ty2 \in HeadTypes(ty1)
    BY <1>2, <2>0, <2>2 DEF Subtype
  <2>4. ty1 \in ClosedTerms
    BY <1>2, <2>3 DEF HeadTypes, Clear
  <2>5. ty1 # NoTerm
    BY <1>2, <2>3 DEF HeadTypes
  <2>6. PICK u \in Whnf(ty1) : ty2 = AsType(u)
    BY <2>3, <2>5 DEF HeadTypes
  <2>7. u \in ClosedTerms /\ ty2 = u
    BY <1>2, <2>4, <2>6, WhnfClosed, AsTypeIsTypeOrSort
  <2> QED
    BY <1>2, <2>7 DEF ClosedTerms
<1>3. CASE Closed(ty2)
  BY <1>3, AsTypeIsTypeOrSort DEF Clear, ClosedTerms
<1> QED
  BY <1>1, <1>2, <1>3, AsTypeIsTypeOrSort

LEMMA ApplyClosed ==
  ASSUME WellFormed, ClosedInv, NEW f \in DOMAIN heap, NEW a \in DOMAIN heap, Apply(f, a)
  PROVE  AddsClosed
<1>1. PICK pi \in Whnf(heap[f].ty) :
        /\ heap[pi].tf.op = "Pi"
        /\ \A p \in heap[heap[pi].tf.snd].vt : p[1] # heap[pi].tf.var
        /\ NewTerm(Term(AppF(f, a), heap[f].vt \cup heap[a].vt, AsType(heap[pi].tf.snd)))
  BY DEF Apply
<1> DEFINE tf == AppF(f, a)
           vt == heap[f].vt \cup heap[a].vt
           body == heap[pi].tf.snd
<1>2. ASSUME vt = {} PROVE Clear(AsType(body))
  <2>1. heap[f].ty \in ClosedTerms
    BY <1>2 DEF Apply, ClosedInv, TermsClosed, TypesClosed, ClosedTerms, Closed, Clear
  <2>2. pi \in ClosedTerms
    BY <1>1, <2>1, WhnfClosed
  <2>3. Without(heap[pi].tf.var, heap[body].vt) = heap[body].vt
    BY <1>1 DEF Without
  <2>4. heap[body].vt \subseteq heap[pi].vt
    BY <1>1, <2>2, <2>3 DEF ClosedInv, TermsClosed, BodiesBound, ClosedTerms
  <2>5. heap[body].vt = {}
    BY <2>2, <2>4 DEF ClosedTerms, Closed
  <2>6. body \in DOMAIN heap \cup {NoTerm}
    BY <2>2, HeapGrounds DEF HeapClosed, Parts, ClosedTerms
  <2> QED
    BY <2>5, <2>6, AsTypeIsTypeOrSort DEF Clear, ClosedTerms, Closed
<1>3. tf.op = "App"
  BY DEF AppF
<1>4. NewTerm(Term(tf, vt, AsType(body)))
  BY <1>1
<1> HIDE DEF tf, vt, body
<1> DEFINE term == Term(tf, vt, AsType(body))
<1>5. term.tf = tf /\ term.vt = vt /\ term.ty = AsType(body)
  BY DEF Term
<1> HIDE DEF term
<1>6. IsClosing(term)
  BY <1>2, <1>3, <1>5 DEF IsClosing
<1> QED
  BY <1>4, <1>6 DEF AddsClosed, term

LEMMA BuildClosed ==
  ASSUME WellFormed, ClosedInv, BuildTerm
  PROVE  UNCHANGED heap \/ AddsClosed
<1>0. Terms \subseteq DOMAIN heap /\ Clear(NoTerm)
  BY DEF Terms, Clear
<1>1. CASE SortTerm
  <2>1. Insert(Term(SortF, {}, NoTerm)) /\ SortF.op = "Sort"
    BY <1>1 DEF SortTerm, SortF
  <2> QED
    BY <1>0, <2>1, MakeTermClosed
<1>2. ASSUME NEW x, NEW t, Variable(x, t) PROVE UNCHANGED heap \/ AddsClosed
  <2>1. /\ Insert(Term(VariableF(x, t), {<<x, t>>} \cup heap[t].vt, AsType(t)))
        /\ VariableF(x, t).op = "Variable"
    BY <1>2 DEF Variable, VariableF
  <2>2. {<<x, t>>} \cup heap[t].vt # {}
    OBVIOUS
  <2> QED
    BY <2>1, <2>2, MakeTermClosed
<1>3. ASSUME NEW x, NEW t, NEW body \in DOMAIN heap, Pi(x, t, body)
      PROVE  UNCHANGED heap \/ AddsClosed
  <2>1. Insert(Term(PiF(x, t, body), heap[t].vt \cup Without(x, heap[body].vt), NoTerm))
    BY <1>3 DEF Pi
  <2>2. PiF(x, t, body).op = "Pi" /\ PiF(x, t, body).var = x /\ PiF(x, t, body).snd = body
    BY DEF PiF
  <2> QED
    BY <1>0, <2>1, <2>2, MakeTermClosed
<1>4. ASSUME NEW f \in Terms, NEW a \in Terms, Apply(f, a) PROVE AddsClosed
  BY <1>0, <1>4, ApplyClosed
<1>5. ASSUME NEW t \in Terms, NEW ty \in Terms, Ascribe(t, ty)
      PROVE  AddsClosed
  <2>1. Insert(Ascribed(t, ty)) /\ Subtype(heap[t].ty, AsType(ty))
    BY <1>5 DEF Ascribe
  <2>2. heap[t].vt = {} => Clear(AsType(ty))
    BY <1>0, <2>1, ClosedSubtype DEF ClosedInv, TermsClosed, TypesClosed, ClosedTerms, Closed
  <2>3. /\ heap[t].tf.op = "Constant" => heap[t].vt = {}
        /\ heap[t].tf.op = "Pi" =>
             /\ heap[t].tf.snd \in DOMAIN heap
             /\ Without(heap[t].tf.var, heap[heap[t].tf.snd].vt) \subseteq heap[t].vt
    BY <1>0 DEF ClosedInv, TermsClosed, ConstantsClosed, BodiesBound, Closed
  <2> DEFINE term == Ascribed(t, ty)
  <2>4. term.tf = heap[t].tf /\ term.vt = heap[t].vt /\ term.ty = AsType(ty)
    BY DEF Ascribed, Term
  <2>5. Insert(term)
    BY <2>1
  <2> HIDE DEF term
  <2>6. IsClosing(term)
    BY <2>2, <2>3, <2>4 DEF IsClosing
  <2> QED
    BY <2>5, <2>6 DEF AddsClosed, Insert
<1>6. ASSUME NEW v, ConstTerm(v) PROVE UNCHANGED heap \/ AddsClosed
  <2>1. /\ Insert(Term(ConstF(v), {}, moduleMap[v].ty)) /\ v \in DOMAIN moduleMap
        /\ ConstF(v).op = "Constant"
    BY <1>6 DEF ConstTerm, ConstF
  <2>2. Clear(moduleMap[v].ty)
    BY <2>1 DEF ClosedInv, Mentioned, EnvTerms, Clear
  <2> QED
    BY <2>1, <2>2, MakeTermClosed
<1>7. FreshVarName => UNCHANGED heap
  BY DEF FreshVarName, caches
<1> QED
  BY <1>0, <1>1, <1>2, <1>3, <1>4, <1>5, <1>6, <1>7 DEF BuildTerm

LEMMA StartClosed == StartDecl => UNCHANGED <<heap, checkpoints>>
BY DEF StartDecl, DefineConstant, FreshConstant, OpaqueConstant, Declare, DeclareOpen,
       DataType, caches

LEMMA ContinueClosed ==
  ASSUME ClosedInv, ContinueDecl
  PROVE  (UNCHANGED heap \/ AddsClosed) /\ UNCHANGED checkpoints
<1>0. Clear(NoTerm) /\ Clear(decl.ty)
  BY DEF Clear, ClosedInv, Mentioned, DeclTerms
<1>1. CASE DataTypeSort
  <2>1. MakeTerm(SortF, {}, NoTerm) /\ SortF.op = "Sort"
    BY <1>1 DEF DataTypeSort, SortF
  <2> QED
    BY <1>0, <1>1, <2>1, MakeTermClosed DEF DataTypeSort
<1>2. CASE BuildConst
  <2>1. MakeTerm(ConstF(decl.index), {}, decl.ty) /\ ConstF(decl.index).op = "Constant"
    BY <1>2 DEF BuildConst, ConstF
  <2> QED
    BY <1>0, <1>2, <2>1, MakeTermClosed DEF BuildConst
<1>3. CASE DataTypeTerm
  <2>1. MakeTerm(ConstF(decl.index), {}, NoTerm) /\ ConstF(decl.index).op = "Constant"
    BY <1>3 DEF DataTypeTerm, ConstF
  <2> QED
    BY <1>0, <1>3, <2>1, MakeTermClosed DEF DataTypeTerm
<1>4. InsDefInMap \/ RegisterGlobal \/ RejectDataType \/ CtorName
         \/ InsTypeDeclInMap \/ DataTypeGlobal \/ CtorConst => UNCHANGED <<heap, checkpoints>>
  BY DEF InsDefInMap, RegisterGlobal, RejectDataType, CtorName, InsTypeDeclInMap,
         DataTypeGlobal, CtorConst, caches
<1> QED
  BY <1>1, <1>2, <1>3, <1>4 DEF ContinueDecl

(* What is closed stays closed.                                            *)
LEMMA ClosedStay ==
  ASSUME WellFormed, [Next]_vars
  PROVE  ClosedTerms \subseteq ClosedTerms'
BY HeapKept DEF ClosedTerms, Closed

LEMMA TermsClosedStep ==
  ASSUME WellFormed, ClosedInv, [Next]_vars, UNCHANGED heap \/ AddsClosed
  PROVE  TermsClosed'
<1>1. CASE UNCHANGED heap
  BY <1>1 DEF ClosedInv, TermsClosed, ConstantsClosed, BodiesBound, TypesClosed,
              ClosedTerms, Clear, Closed
<1>2. CASE AddsClosed
  <2>1. PICK term : NewTerm(term) /\ IsClosing(term)
    BY <1>2 DEF AddsClosed
  <2>2. DOMAIN heap' = DOMAIN heap \cup {nextTerm}
    BY <2>1 DEF NewTerm, Extend
  <2>3. heap'[nextTerm] = term
    BY <2>1 DEF NewTerm, Extend
  <2>4. \A t \in DOMAIN heap : heap'[t] = heap[t]
    BY HeapKept
  <2>5. ConstantsClosed'
    BY <2>1, <2>2, <2>3, <2>4 DEF IsClosing, ClosedInv, TermsClosed, ConstantsClosed, Closed
  <2>6. BodiesBound'
    BY <2>1, <2>2, <2>3, <2>4 DEF IsClosing, ClosedInv, TermsClosed, BodiesBound
  <2>7. ASSUME NEW t \in ClosedTerms' PROVE Clear(heap'[t].ty)
    <3>1. CASE t = nextTerm
      BY <2>1, <2>3, <2>7, <3>1 DEF IsClosing, ClosedTerms, Closed
    <3>2. CASE t \in DOMAIN heap
      BY <2>4, <2>7, <3>2 DEF ClosedInv, TermsClosed, TypesClosed, ClosedTerms, Closed
    <3> QED
      BY <2>2, <2>7, <3>1, <3>2 DEF ClosedTerms
  <2>8. TypesClosed'
    BY <2>7, ClosedStay DEF TypesClosed, Clear
  <2> QED
    BY <2>5, <2>6, <2>8 DEF TermsClosed
<1> QED
  BY <1>1, <1>2

(* What is mentioned after a step, other than by going back.               *)
LEMMA DeclareClosed ==
  ASSUME WellFormed, ClosedInv, NEW qn, NEW ty, NEW body, Declare(qn, ty, body),
         Clear(ty), Clear(body)
  PROVE  Mentioned' \subseteq ClosedTerms
<1>1. UNCHANGED <<moduleMap, globalEnv>>
  BY DEF Declare
<1>2. CASE decl' = [NoDecl EXCEPT !.index = nextVar, !.qn = qn, !.ty = ty, !.body = body]
  <2>1. decl'.ty = ty /\ decl'.body = body /\ decl'.term = NoTerm
    BY <1>2 DEF NoDecl
  <2> QED
    BY <1>1, <2>1 DEF ClosedInv, Mentioned, DeclTerms, Clear
<1>3. CASE UNCHANGED control
  BY <1>1, <1>3 DEF ClosedInv, Mentioned, DeclTerms, control
<1> QED
  BY <1>2, <1>3 DEF Declare

LEMMA StartMentions ==
  ASSUME "opaque" \notin Kinds, WellFormed, ClosedInv, StartDecl
  PROVE  Mentioned' \subseteq ClosedTerms
<1>1. ASSUME NEW qn, NEW t \in Terms, DefineConstant(qn, t)
      PROVE  Mentioned' \subseteq ClosedTerms
  <2>1. CASE Closed(t) /\ Declare(qn, heap[t].ty, t)
    <3>1. t \in ClosedTerms
      BY <2>1 DEF ClosedTerms, Terms
    <3>2. Clear(t) /\ Clear(heap[t].ty)
      BY <3>1 DEF Clear, ClosedInv, TermsClosed, TypesClosed
    <3> QED
      BY <2>1, <3>2, DeclareClosed
  <2>2. CASE DeclareOpen(qn)
    BY <2>2 DEF DeclareOpen, ClosedInv, Mentioned, DeclTerms, control
  <2> QED
    BY <1>1, <2>1, <2>2 DEF DefineConstant
<1>2. ASSUME NEW qn, NEW ctorQn, DataType(qn, ctorQn)
      PROVE  Mentioned' \subseteq ClosedTerms
  <2>1. UNCHANGED <<moduleMap, globalEnv>>
    BY <1>2 DEF DataType
  <2>2. CASE decl' = [NoDecl EXCEPT !.index = nextVar, !.qn = qn, !.ctorQn = ctorQn]
    <3>1. decl'.ty = NoTerm /\ decl'.body = NoTerm /\ decl'.term = NoTerm
      BY <2>2 DEF NoDecl
    <3> QED
      BY <2>1, <3>1 DEF ClosedInv, Mentioned, DeclTerms
  <2>3. CASE UNCHANGED control
    BY <2>1, <2>3 DEF ClosedInv, Mentioned, DeclTerms, control
  <2> QED
    BY <1>2, <2>2, <2>3 DEF DataType
<1> QED
  BY <1>1, <1>2 DEF StartDecl, FreshConstant

LEMMA MadeConstantClosed ==
  ASSUME WellFormed, ClosedInv, [Next]_vars, TermsClosed',
         NEW v, NEW ty, MakeTerm(ConstF(v), {}, ty)
  PROVE  MadeTerm(ConstF(v), ty) \in ClosedTerms'
<1>1. /\ MadeTerm(ConstF(v), ty) \in DOMAIN heap'
      /\ heap'[MadeTerm(ConstF(v), ty)].tf = ConstF(v)
  BY WellFormedTyped, MadeTermIsThere
<1> QED
  BY <1>1 DEF ConstF, TermsClosed, ConstantsClosed, ClosedTerms

LEMMA ContinueMentions ==
  ASSUME WellFormed, ClosedInv, [Next]_vars, TermsClosed', ContinueDecl
  PROVE  Mentioned' \subseteq ClosedTerms'
<1>s. /\ Mentioned \subseteq ClosedTerms /\ ClosedTerms \subseteq ClosedTerms'
      /\ {decl.ty, decl.body, decl.term} \ {NoTerm} \subseteq Mentioned
      /\ NoDecl.ty = NoTerm /\ NoDecl.body = NoTerm /\ NoDecl.term = NoTerm
      /\ decl \in Decls
  BY ClosedStay DEF ClosedInv, Mentioned, DeclTerms, NoDecl, WellFormed, NamesOK, ControlOK
<1> SUFFICES Mentioned' \subseteq Mentioned \cup ClosedTerms'
  BY <1>s
<1>1. CASE InsDefInMap
  <2>1. /\ moduleMap' = Extend(moduleMap, decl.index,
                               Definition(decl.qn, decl.ty, decl.body))
        /\ globalEnv' = globalEnv /\ decl' = decl
    BY <1>1 DEF InsDefInMap
  <2>2. EnvTerms(moduleMap', globalEnv')
          \subseteq EnvTerms(moduleMap, globalEnv) \cup ({decl.ty, decl.body} \ {NoTerm})
    BY <2>1, ExtendEnvTerms DEF Definition
  <2> QED
    BY <1>s, <2>1, <2>2 DEF Mentioned, DeclTerms
<1>2. CASE BuildConst
  <2>1. UNCHANGED envs /\ MadeTerm(ConstF(decl.index), decl.ty) \in ClosedTerms'
    BY <1>2, MadeConstantClosed DEF BuildConst
  <2>2. CASE decl' = [decl EXCEPT !.term = MadeTerm(ConstF(decl.index), decl.ty)]
    <3>1. /\ decl'.ty = decl.ty /\ decl'.body = decl.body
          /\ decl'.term = MadeTerm(ConstF(decl.index), decl.ty)
      BY <1>s, <2>2 DEF Decls
    <3> QED
      BY <1>s, <2>1, <3>1 DEF envs, Mentioned, DeclTerms
  <2>3. CASE decl' = NoDecl
    BY <1>s, <2>1, <2>3 DEF envs, Mentioned, DeclTerms
  <2> QED
    BY <1>2, <2>2, <2>3 DEF BuildConst, Idle
<1>3. CASE RegisterGlobal
  <2>1. /\ globalEnv' = Extend(globalEnv, decl.qn, decl.term)
        /\ moduleMap' = moduleMap /\ decl' = NoDecl
    BY <1>3 DEF RegisterGlobal, Idle
  <2>2. EnvTerms(moduleMap', globalEnv')
          \subseteq EnvTerms(moduleMap, globalEnv) \cup ({decl.term} \ {NoTerm})
    BY <2>1 DEF EnvTerms, Extend
  <2> QED
    BY <1>s, <2>1, <2>2 DEF Mentioned, DeclTerms
<1>4. CASE RejectDataType
  BY <1>s, <1>4 DEF RejectDataType, Idle, envs, Mentioned, DeclTerms
<1>5. CASE DataTypeSort
  BY <1>5 DEF DataTypeSort, envs, Mentioned, DeclTerms
<1>6. CASE DataTypeTerm
  <2>1. /\ UNCHANGED envs /\ MadeTerm(ConstF(decl.index), NoTerm) \in ClosedTerms'
        /\ decl' = [decl EXCEPT !.term = MadeTerm(ConstF(decl.index), NoTerm)]
    BY <1>6, MadeConstantClosed DEF DataTypeTerm
  <2>2. /\ decl'.ty = decl.ty /\ decl'.body = decl.body
        /\ decl'.term = MadeTerm(ConstF(decl.index), NoTerm)
    BY <1>s, <2>1 DEF Decls
  <2> QED
    BY <1>s, <2>1, <2>2 DEF envs, Mentioned, DeclTerms
<1>7. CASE CtorName
  <2>1. UNCHANGED <<moduleMap, globalEnv>>
    BY <1>7 DEF CtorName
  <2>2. CASE decl' = [decl EXCEPT !.ctor = nextVar]
    <3>1. decl'.ty = decl.ty /\ decl'.body = decl.body /\ decl'.term = decl.term
      BY <1>s, <2>2 DEF Decls
    <3> QED
      BY <2>1, <3>1 DEF Mentioned, DeclTerms
  <2>3. CASE decl' = NoDecl
    BY <1>s, <2>1, <2>3 DEF Mentioned, DeclTerms
  <2> QED
    BY <1>7, <2>2, <2>3 DEF CtorName, Idle
<1>8. CASE InsTypeDeclInMap
  <2> DEFINE mid == Extend(moduleMap, decl.index, Definition(decl.qn, NoTerm, NoTerm))
  <2>1. /\ moduleMap' = Extend(mid, decl.ctor, Definition(decl.ctorQn, decl.term, NoTerm))
        /\ globalEnv' = globalEnv /\ decl' = decl
    BY <1>8 DEF InsTypeDeclInMap
  <2>2. EnvTerms(mid, globalEnv) \subseteq EnvTerms(moduleMap, globalEnv)
    BY ExtendEnvTerms DEF Definition
  <2> HIDE DEF mid
  <2>3. EnvTerms(moduleMap', globalEnv')
          \subseteq EnvTerms(mid, globalEnv) \cup ({decl.term} \ {NoTerm})
    BY <2>1, ExtendEnvTerms DEF Definition
  <2> QED
    BY <1>s, <2>1, <2>2, <2>3 DEF Mentioned, DeclTerms
<1>9. CASE DataTypeGlobal
  <2>1. moduleMap' = moduleMap /\ decl' = decl
    BY <1>9 DEF DataTypeGlobal
  <2>2. EnvTerms(moduleMap', globalEnv')
          \subseteq EnvTerms(moduleMap, globalEnv) \cup ({decl.term} \ {NoTerm})
    BY <1>9, <2>1 DEF DataTypeGlobal, EnvTerms, Extend
  <2> QED
    BY <1>s, <2>1, <2>2 DEF Mentioned, DeclTerms
<1>10. CASE CtorConst
  <2>1. /\ UNCHANGED envs
        /\ decl' = [decl EXCEPT !.index = decl.ctor, !.qn = decl.ctorQn, !.ty = decl.term]
    BY <1>10 DEF CtorConst
  <2>2. decl'.ty = decl.term /\ decl'.body = decl.body /\ decl'.term = decl.term
    BY <1>s, <2>1 DEF Decls
  <2> QED
    BY <2>1, <2>2 DEF envs, Mentioned, DeclTerms
<1> QED
  BY <1>1, <1>2, <1>3, <1>4, <1>5, <1>6, <1>7, <1>8, <1>9, <1>10 DEF ContinueDecl

LEMMA SaveClosed ==
  ASSUME WellFormed, ClosedInv, [Next]_vars, KeepsAndSaves
  PROVE  SavedClosed'
<1>1. /\ checkpoints \in Seq(Checkpoints) /\ Snapshot \in Checkpoints
      /\ CheckpointTerms(Snapshot) \subseteq ClosedTerms
      /\ checkpoints' = Append(checkpoints, Snapshot)
  BY SavedCheckpoint DEF WellFormed, CheckpointsMade, ClosedInv, KeepsAndSaves
<1>2. \A k \in 1 .. Len(checkpoints') : CheckpointTerms(checkpoints'[k]) \subseteq ClosedTerms
  BY <1>1, AppendShape DEF ClosedInv, SavedClosed
<1> QED
  BY <1>2, ClosedStay DEF SavedClosed, CheckpointTerms

LEMMA DropClosed ==
  ASSUME WellFormed, ClosedInv, [Next]_vars, DropTop
  PROVE  SavedClosed'
<1>1. /\ Len(checkpoints) \in Nat
      /\ \A k \in 1 .. Len(checkpoints') :
           k \in 1 .. Len(checkpoints) /\ checkpoints'[k] = checkpoints[k]
  BY DropTopShape DEF WellFormed, CheckpointsMade
<1>2. \A k \in 1 .. Len(checkpoints') : CheckpointTerms(checkpoints'[k]) \subseteq ClosedTerms
  BY <1>1 DEF ClosedInv, SavedClosed
<1> QED
  BY <1>2, ClosedStay DEF SavedClosed, CheckpointTerms

LEMMA SameClosed ==
  ASSUME WellFormed, ClosedInv, [Next]_vars, UNCHANGED checkpoints
  PROVE  SavedClosed'
BY ClosedStay DEF ClosedInv, SavedClosed, CheckpointTerms

LEMMA ClosedStep ==
  ASSUME "opaque" \notin Kinds
  PROVE  WellFormed /\ ClosedInv /\ [Next]_vars => ClosedInv'
<1> SUFFICES ASSUME WellFormed, ClosedInv, [Next]_vars PROVE ClosedInv'
  OBVIOUS
<1>0. ClosedTerms \subseteq ClosedTerms' /\ Mentioned \subseteq ClosedTerms
  BY ClosedStay DEF ClosedInv
<1>1. CASE BuildTerm
  <2>1. TermsClosed'
    BY <1>1, BuildClosed, TermsClosedStep
  <2>2. UNCHANGED <<envs, checkpoints, control>>
    BY <1>1 DEF BuildTerm, SortTerm, FreshVarName, Variable, Pi, Apply, Ascribe, ConstTerm,
                Builder
  <2>3. Mentioned' = Mentioned
    BY <2>2 DEF envs, control, Mentioned, DeclTerms
  <2> QED
    BY <1>0, <2>1, <2>2, <2>3, SameClosed DEF ClosedInv
<1>2. CASE StartDecl
  <2>1. UNCHANGED <<heap, checkpoints>> /\ Mentioned' \subseteq ClosedTerms
    BY <1>2, StartClosed, StartMentions
  <2> QED
    BY <1>0, <2>1, TermsClosedStep, SameClosed DEF ClosedInv
<1>3. CASE ContinueDecl
  <2>1. (UNCHANGED heap \/ AddsClosed) /\ UNCHANGED checkpoints
    BY <1>3, ContinueClosed
  <2>2. TermsClosed'
    BY <2>1, TermsClosedStep
  <2> QED
    BY <1>3, <2>1, <2>2, ContinueMentions, SameClosed DEF ClosedInv
<1>4. CASE UseCheckpoint
  <2>1. \/ KeepsAndSaves \/ KeepsAndDrops
        \/ \E k \in 1 .. Len(checkpoints) : RollsTo(k)
    BY <1>4, UseShape DEF WellFormed, CheckpointsMade
  <2>2. UNCHANGED heap
    BY <2>1 DEF KeepsAndSaves, KeepsAndDrops, KeepsTerms, caches, RollsTo
  <2>3. TermsClosed'
    BY <2>2, TermsClosedStep
  <2>4. Mentioned' \subseteq ClosedTerms
    BY <1>0, <2>1 DEF KeepsAndSaves, KeepsAndDrops, RollsTo, ClosedInv, SavedClosed
  <2>5. SavedClosed'
    BY <2>1, SaveClosed, DropClosed, SameClosed DEF KeepsAndDrops, RollsTo
  <2> QED
    BY <1>0, <2>3, <2>4, <2>5 DEF ClosedInv
<1>5. CASE UNCHANGED vars
  <2>1. UNCHANGED <<heap, checkpoints, moduleMap, globalEnv, decl>>
    BY <1>5 DEF vars, caches, envs, control
  <2>2. Mentioned' = Mentioned
    BY <2>1 DEF Mentioned, DeclTerms
  <2> QED
    BY <1>0, <2>1, <2>2, TermsClosedStep, SameClosed DEF ClosedInv
<1> QED
  BY <1>1, <1>2, <1>3, <1>4, <1>5 DEF Next

(* Definitions are closed terms of closed types: scmDefineConstant checks  *)
(* the term only, and its type is closed because application, ascription   *)
(* and unfolding keep closed terms' types closed.  The types of opaque     *)
(* constants and primitives are not checked at all.                        *)
THEOREM DefsClosedForever ==
  ASSUME "opaque" \notin Kinds
  PROVE  Spec => []DefsClosed
<1>1. Init => ClosedInv
  BY DEF Init, ClosedInv, TermsClosed, ConstantsClosed, BodiesBound, TypesClosed,
         ClosedTerms, Mentioned, EnvTerms, DeclTerms, NoDecl, SavedClosed
<1>2. WellFormed /\ ClosedInv /\ [Next]_vars => ClosedInv'
  BY ClosedStep
<1>3. ClosedInv => DefsClosed
  BY DEF ClosedInv, Mentioned, EnvTerms, ClosedTerms, DefsClosed
<1> QED
  BY <1>1, <1>2, <1>3, WellFormedForever, PTL DEF Spec

-----------------------------------------------------------------------------
(* Rolling back by index range implements nested transactions.             *)
SavedItem(cached, scc) ==
  [live |-> {t \in cached : t < scc.termIndex},
   env |-> EnvOf(scc.moduleMap, scc.qualNames, scc.globalEnv)]

SavedIn(cached, cks) == [k \in 1 .. Len(cks) |-> SavedItem(cached, cks[k])]

Items(cached) == {SavedItem(cached, scc) : scc \in Checkpoints}

Env == EnvOf(moduleMap, qualNames, globalEnv)

Saved == SavedIn(Cached, checkpoints)

LEMMA IntervalLength ==
  ASSUME NEW m \in Nat, NEW n \in Nat, 1 .. m = 1 .. n
  PROVE  m = n
<1>1. CASE m < n
  <2>1. n \in 1 .. n /\ n \notin 1 .. m
    BY <1>1
  <2> QED
    BY <2>1
<1>2. CASE n < m
  <2>1. m \in 1 .. m /\ m \notin 1 .. n
    BY <1>2
  <2> QED
    BY <2>1
<1> QED
  BY <1>1, <1>2

LEMMA SavedIsSeq ==
  ASSUME NEW cached, NEW cks \in Seq(Checkpoints)
  PROVE  /\ SavedIn(cached, cks) \in Seq(Items(cached))
         /\ Len(SavedIn(cached, cks)) = Len(cks)
         /\ Len(cks) \in Nat
         /\ \A k \in 1 .. Len(cks) : SavedIn(cached, cks)[k] = SavedItem(cached, cks[k])
<1>1. Len(cks) \in Nat /\ \A k \in 1 .. Len(cks) : cks[k] \in Checkpoints
  OBVIOUS
<1>2. SavedIn(cached, cks) \in [1 .. Len(cks) -> Items(cached)]
  BY <1>1 DEF SavedIn, Items
<1>3. SavedIn(cached, cks) \in Seq(Items(cached))
  BY <1>1, <1>2, SeqDef
<1> DEFINE f == SavedIn(cached, cks)
<1>4. Len(f) \in Nat /\ DOMAIN f = 1 .. Len(f)
  BY <1>3, LenProperties
<1>5. DOMAIN f = 1 .. Len(cks)
  BY DEF SavedIn
<1>6. Len(f) = Len(cks)
  BY <1>1, <1>4, <1>5, IntervalLength
<1> QED
  BY <1>1, <1>3, <1>6 DEF SavedIn

LEMMA SavedAppend ==
  ASSUME NEW cached, NEW cks \in Seq(Checkpoints), NEW scc \in Checkpoints
  PROVE  SavedIn(cached, Append(cks, scc)) = Append(SavedIn(cached, cks), SavedItem(cached, scc))
<1> DEFINE more == Append(cks, scc)
           f == SavedIn(cached, cks)
           g == SavedIn(cached, more)
           h == Append(f, SavedItem(cached, scc))
<1>1. /\ more \in Seq(Checkpoints) /\ Len(more) = Len(cks) + 1 /\ Len(cks) \in Nat
      /\ \A k \in 1 .. Len(cks) : more[k] = cks[k]
      /\ more[Len(cks) + 1] = scc
  OBVIOUS
<1>2. /\ f \in Seq(Items(cached)) /\ Len(f) = Len(cks)
      /\ \A k \in 1 .. Len(cks) : f[k] = SavedItem(cached, cks[k])
  BY SavedIsSeq
<1>3. /\ g \in Seq(Items(cached)) /\ Len(g) = Len(cks) + 1
      /\ \A k \in 1 .. Len(cks) + 1 : g[k] = SavedItem(cached, more[k])
  BY <1>1, SavedIsSeq
<1>4. SavedItem(cached, scc) \in Items(cached)
  BY DEF Items
<1> HIDE DEF f, g, more
<1>5. /\ h \in Seq(Items(cached)) /\ Len(h) = Len(cks) + 1
      /\ \A k \in 1 .. Len(cks) : h[k] = f[k]
      /\ h[Len(cks) + 1] = SavedItem(cached, scc)
  BY <1>1, <1>2, <1>4
<1> HIDE DEF h
<1>6. \A k \in 1 .. Len(g) : g[k] = h[k]
  <2> SUFFICES ASSUME NEW k \in 1 .. Len(cks) + 1 PROVE g[k] = h[k]
    BY <1>3
  <2>1. CASE k \in 1 .. Len(cks)
    BY <1>1, <1>2, <1>3, <1>5, <2>1
  <2>2. CASE k = Len(cks) + 1
    BY <1>1, <1>3, <1>5, <2>2
  <2> QED
    BY <1>1, <2>1, <2>2
<1>7. g = h
  BY <1>3, <1>5, <1>6, SeqEqual
<1> QED
  BY <1>7 DEF f, g, h, more

LEMMA SavedDrop ==
  ASSUME NEW cached, NEW cks \in Seq(Checkpoints), cks # <<>>
  PROVE  SavedIn(cached, SubSeq(cks, 1, Len(cks) - 1))
           = SubSeq(SavedIn(cached, cks), 1, Len(SavedIn(cached, cks)) - 1)
<1> DEFINE n == Len(cks) - 1
           less == SubSeq(cks, 1, n)
           f == SavedIn(cached, cks)
           g == SavedIn(cached, less)
           h == SubSeq(f, 1, n)
<1>1. /\ Len(cks) \in Nat /\ Len(cks) = n + 1 /\ n \in Nat
      /\ \A k \in 1 .. n : k \in 1 .. Len(cks)
  <2>1. Len(cks) \in Nat /\ Len(cks) # 0
    OBVIOUS
  <2> QED
    BY <2>1
<1>2. /\ f \in Seq(Items(cached)) /\ Len(f) = Len(cks)
      /\ \A k \in 1 .. Len(cks) : f[k] = SavedItem(cached, cks[k])
      /\ \A k \in 1 .. Len(cks) : cks[k] \in Checkpoints
  BY SavedIsSeq
<1> HIDE DEF n, f
<1>3. /\ 1 \in Int /\ n \in Int
      /\ (IF 1 <= n THEN n - 1 + 1 ELSE 0) = n
      /\ \A k \in 1 .. n : k \in 1 .. n - 1 + 1 /\ 1 + k - 1 = k
  BY <1>1
<1>4. /\ less \in Seq(Checkpoints) /\ Len(less) = n
      /\ \A k \in 1 .. n : less[k] = cks[k]
  BY <1>1, <1>2, <1>3, SubSeqProperties
<1>5. \A k \in 1 .. n : f[k] \in Items(cached)
  BY <1>1, <1>2 DEF Items
<1>6. /\ h \in Seq(Items(cached)) /\ Len(h) = n
      /\ \A k \in 1 .. n : h[k] = f[k]
  BY <1>3, <1>5, SubSeqProperties
<1> HIDE DEF less, h
<1>7. /\ g \in Seq(Items(cached)) /\ Len(g) = n
      /\ \A k \in 1 .. n : g[k] = SavedItem(cached, less[k])
  BY <1>4, SavedIsSeq
<1> HIDE DEF g
<1>8. \A k \in 1 .. Len(g) : g[k] = h[k]
  BY <1>1, <1>2, <1>4, <1>6, <1>7
<1>9. g = h
  BY <1>6, <1>7, <1>8, SeqEqual
<1>10. Len(f) - 1 = n
  BY <1>1, <1>2
<1> QED
  BY <1>9, <1>10 DEF n, f, g, h, less

LEMMA SavedSame ==
  ASSUME NEW cached, NEW other, NEW cks,
         \A k \in 1 .. Len(cks) :
           {t \in cached : t < cks[k].termIndex} = {t \in other : t < cks[k].termIndex}
  PROVE  SavedIn(cached, cks) = SavedIn(other, cks)
BY DEF SavedIn, SavedItem

(* Handlers hold their checkpoints in the order they were taken.           *)
Ordered ==
  \A k \in 1 .. Len(checkpoints) :
    \A l \in 1 .. k : checkpoints[l].termIndex <= checkpoints[k].termIndex

LEMMA OrderedDrop ==
  ASSUME WellFormed, Ordered, DropTop
  PROVE  Ordered'
<1>1. /\ Len(checkpoints') \in Nat
      /\ Len(checkpoints) = Len(checkpoints') + 1
      /\ \A k \in 1 .. Len(checkpoints') : checkpoints'[k] = checkpoints[k]
  BY DropTopShape DEF WellFormed, CheckpointsMade
<1>2. \A k \in 1 .. Len(checkpoints') :
        /\ k \in 1 .. Len(checkpoints)
        /\ \A l \in 1 .. k : l \in 1 .. Len(checkpoints')
  BY <1>1
<1> QED
  BY <1>1, <1>2 DEF Ordered

LEMMA OrderedSave ==
  ASSUME WellFormed, Ordered, KeepsAndSaves
  PROVE  Ordered'
<1>1. /\ checkpoints \in Seq(Checkpoints) /\ Snapshot \in Checkpoints
      /\ Snapshot.termIndex = nextTerm
      /\ checkpoints' = Append(checkpoints, Snapshot)
  BY SavedCheckpoint DEF WellFormed, CheckpointsMade, KeepsAndSaves
<1>2. \A k \in 1 .. Len(checkpoints) : checkpoints[k].termIndex <= nextTerm
  BY ContextAssumption DEF WellFormed, CheckpointsMade, TermsOK, Indexes
<1>3. nextTerm <= nextTerm /\ Len(checkpoints) \in Nat
  BY <1>1, ContextAssumption DEF WellFormed, TermsOK, Indexes
<1> SUFFICES ASSUME NEW k \in 1 .. Len(checkpoints'), NEW l \in 1 .. k
             PROVE  checkpoints'[l].termIndex <= checkpoints'[k].termIndex
  BY DEF Ordered
<1>4. l \in 1 .. Len(checkpoints')
  BY <1>1, <1>3
<1>5. CASE k \in 1 .. Len(checkpoints) /\ checkpoints'[k] = checkpoints[k]
  <2>1. l \in 1 .. Len(checkpoints) /\ checkpoints'[l] = checkpoints[l]
    BY <1>1, <1>3, <1>5
  <2> QED
    BY <1>5, <2>1 DEF Ordered
<1>6. CASE checkpoints'[k] = Snapshot
  <2>1. \/ l \in 1 .. Len(checkpoints) /\ checkpoints'[l] = checkpoints[l]
        \/ checkpoints'[l] = Snapshot
    BY <1>1, <1>4, AppendShape
  <2> QED
    BY <1>1, <1>2, <1>3, <1>6, <2>1
<1> QED
  BY <1>1, <1>5, <1>6, AppendShape

LEMMA OrderedStep ==
  ASSUME Handlers
  PROVE  WellFormed /\ Ordered /\ [Next]_vars => Ordered'
<1> SUFFICES ASSUME WellFormed, Ordered, [Next]_vars PROVE Ordered'
  OBVIOUS
<1> DEFINE D == DOMAIN heap
<1>1. \/ Grows(D) \/ KeepsAndSaves \/ KeepsAndDrops
      \/ \E k \in 1 .. Len(checkpoints) : RollsTo(k)
  BY WellFormedTyped, HeapGrounds, StepShape DEF WellFormed, CheckpointsMade
<1>2. Grows(D) => Ordered'
  BY DEF Grows, Ordered
<1> QED
  BY <1>1, <1>2, OrderedSave, OrderedDrop DEF KeepsAndDrops, RollsTo

(* Between checkpoints a step makes one term or adds to the environments.  *)
LEMMA EnvGrow ==
  ASSUME NEW mm, NEW qns, NEW ge, NEW mm2, NEW qns2, NEW ge2,
         DOMAIN mm \subseteq DOMAIN mm2 /\ \A v \in DOMAIN mm : mm2[v] = mm[v],
         DOMAIN qns \subseteq DOMAIN qns2 /\ \A n \in DOMAIN qns : qns2[n] = qns[n],
         DOMAIN ge \subseteq DOMAIN ge2 /\ \A n \in DOMAIN ge : ge2[n] = ge[n]
  PROVE  EnvOf(mm, qns, ge) \subseteq EnvOf(mm2, qns2, ge2)
<1>1. \A v \in DOMAIN mm : <<"def", v, mm[v]>> \in EnvOf(mm2, qns2, ge2)
  BY DEF EnvOf
<1>2. \A n \in DOMAIN qns : <<"name", n, qns[n]>> \in EnvOf(mm2, qns2, ge2)
  BY DEF EnvOf
<1>3. \A n \in DOMAIN ge : <<"global", n, ge[n]>> \in EnvOf(mm2, qns2, ge2)
  BY DEF EnvOf
<1> QED
  BY <1>1, <1>2, <1>3 DEF EnvOf

KeepsBindings ==
  /\ DOMAIN moduleMap \subseteq DOMAIN moduleMap'
  /\ \A v \in DOMAIN moduleMap : moduleMap'[v] = moduleMap[v]
  /\ DOMAIN qualNames \subseteq DOMAIN qualNames'
  /\ \A n \in DOMAIN qualNames : qualNames'[n] = qualNames[n]
  /\ DOMAIN globalEnv \subseteq DOMAIN globalEnv'
  /\ \A n \in DOMAIN globalEnv : globalEnv'[n] = globalEnv[n]

LEMMA BindingsGrow == KeepsBindings => Env \subseteq Env'
BY EnvGrow DEF KeepsBindings, Env

LEMMA SameBindings == UNCHANGED envs => Env' = Env
BY DEF envs, Env

LEMMA StartBinds ==
  StartDecl => UNCHANGED <<caches, checkpoints>> /\ KeepsBindings
BY DEF StartDecl, DefineConstant, FreshConstant, OpaqueConstant, Declare, DeclareOpen,
       DataType, RegisterName, DuplicateName, Extend, KeepsBindings

LEMMA ContinueBinds ==
  ContinueDecl =>
    /\ UNCHANGED checkpoints
    /\ UNCHANGED envs \/ (UNCHANGED caches /\ KeepsBindings)
<1>1. BuildConst \/ DataTypeSort \/ DataTypeTerm \/ RejectDataType \/ CtorConst
        => UNCHANGED <<envs, checkpoints>>
  BY DEF BuildConst, DataTypeSort, DataTypeTerm, RejectDataType, CtorConst
<1>2. InsDefInMap \/ RegisterGlobal \/ DataTypeGlobal
        => UNCHANGED <<caches, checkpoints>> /\ KeepsBindings
  BY DEF InsDefInMap, RegisterGlobal, DataTypeGlobal, Extend, KeepsBindings
<1>3. CtorName => UNCHANGED <<caches, checkpoints>> /\ KeepsBindings
  BY DEF CtorName, RegisterName, DuplicateName, Extend, KeepsBindings
<1>4. InsTypeDeclInMap => UNCHANGED <<caches, checkpoints>> /\ KeepsBindings
  BY DEF InsTypeDeclInMap, Extend, KeepsBindings
<1> QED
  BY <1>1, <1>2, <1>3, <1>4 DEF ContinueDecl

(* What the handlers go back to does not change as terms are made.         *)
LEMMA SavedAsTermsGrow ==
  ASSUME WellFormed, UNCHANGED checkpoints, KeepsTerms \/ AddsTerm(DOMAIN heap)
  PROVE  Saved' = Saved
<1>1. CASE KeepsTerms
  BY <1>1 DEF KeepsTerms, caches, Saved, SavedIn, SavedItem, Cached
<1>2. CASE AddsTerm(DOMAIN heap)
  <2>1. Cached' = Cached \cup {nextTerm}
    BY <1>2 DEF AddsTerm, Cached
  <2>2. \A k \in 1 .. Len(checkpoints) : ~(nextTerm < checkpoints[k].termIndex)
    BY ContextAssumption DEF WellFormed, CheckpointsMade, TermsOK, Indexes
  <2>3. \A k \in 1 .. Len(checkpoints) :
          {t \in Cached' : t < checkpoints[k].termIndex}
            = {t \in Cached : t < checkpoints[k].termIndex}
    BY <2>1, <2>2
  <2>4. SavedIn(Cached', checkpoints) = SavedIn(Cached, checkpoints)
    BY <2>3, SavedSame
  <2>5. Saved' = SavedIn(Cached', checkpoints)
    BY DEF Saved, SavedIn, SavedItem
  <2> QED
    BY <2>4, <2>5 DEF Saved
<1> QED
  BY <1>1, <1>2

LEMMA SavedMapped ==
  /\ Saved = [k \in 1 .. Len(checkpoints) |-> SavedBy(checkpoints[k])]
  /\ Saved' = [k \in 1 .. Len(checkpoints) |-> SavedBy(checkpoints[k])]'
BY DEF Saved, SavedIn, SavedItem, SavedBy

LEMMA GrowthMaps ==
  ASSUME WellFormed, UNCHANGED checkpoints,
         \/ UNCHANGED envs /\ (KeepsTerms \/ AddsTerm(DOMAIN heap))
         \/ KeepsTerms /\ KeepsBindings
  PROVE  [Transactions!Next]_(Transactions!lvars)
<1>1. Saved' = Saved
  BY SavedAsTermsGrow
<1>2. CASE KeepsTerms
  <2>1. Cached' = Cached /\ heap' = heap
    BY <1>2 DEF KeepsTerms, caches, Cached
  <2>2. Env \subseteq Env'
    BY <1>2, BindingsGrow, SameBindings DEF KeepsTerms, AddsTerm
  <2>3. Transactions!Bind
    BY <1>1, <2>1, <2>2, SavedMapped DEF Transactions!Bind, Env
  <2> QED
    BY <2>3 DEF Transactions!Next
<1>3. CASE UNCHANGED envs /\ AddsTerm(DOMAIN heap)
  <2>1. /\ Cached' = Cached \cup {nextTerm}
        /\ nextTerm \notin DOMAIN heap
        /\ DOMAIN heap' = DOMAIN heap \cup {nextTerm}
    BY <1>3, WellFormedTyped, AddedTerm DEF AddsTerm, Cached
  <2>2. Env' = Env
    BY <1>3, SameBindings
  <2>3. Transactions!Make(nextTerm)
    BY <1>1, <2>1, <2>2, SavedMapped DEF Transactions!Make, Env
  <2> QED
    BY <2>1, <2>3 DEF Transactions!Next
<1> QED
  BY <1>2, <1>3

LEMMA CheckpointMaps ==
  ASSUME WellFormed, Checkpoint
  PROVE  Transactions!Begin
<1>1. /\ checkpoints \in Seq(Checkpoints) /\ Snapshot \in Checkpoints
      /\ checkpoints' = Append(checkpoints, Snapshot)
      /\ UNCHANGED <<caches, envs>>
  BY SavedCheckpoint DEF WellFormed, CheckpointsMade, Checkpoint
<1>2. Cached' = Cached /\ heap' = heap /\ Env' = Env
  BY <1>1, SameBindings DEF caches, Cached
<1>3. Saved' = SavedIn(Cached, Append(checkpoints, Snapshot))
  BY <1>1, <1>2 DEF Saved, SavedIn, SavedItem
<1>4. {t \in Cached : t < nextTerm} = Cached
  <2>1. nextTerm \in Int /\ Cached \subseteq 0 .. nextTerm - 1
    BY ContextAssumption DEF WellFormed, TermsOK, Indexes, Cached
  <2>2. \A t \in Cached : t \in 0 .. nextTerm - 1
    BY <2>1
  <2>3. \A t \in Cached : t < nextTerm
    BY <2>1, <2>2
  <2> QED
    BY <2>3
<1>5. SavedItem(Cached, Snapshot) = [live |-> Cached, env |-> Env]
  BY <1>4 DEF SavedItem, Snapshot, Env
<1>6. Saved' = Append(Saved, [live |-> Cached, env |-> Env])
  BY <1>1, <1>3, <1>5, SavedAppend DEF Saved
<1> QED
  BY <1>2, <1>6, SavedMapped DEF Transactions!Begin, Env

(* Dropping the innermost checkpoint, of what is the same below it.        *)
LEMMA PopMaps ==
  ASSUME WellFormed, DropTop, heap' = heap,
         \A k \in 1 .. Len(checkpoints) :
           {t \in Cached' : t < checkpoints[k].termIndex}
             = {t \in Cached : t < checkpoints[k].termIndex}
  PROVE  Transactions!Pop
<1>1. checkpoints \in Seq(Checkpoints) /\ checkpoints # <<>>
  BY DEF WellFormed, CheckpointsMade, DropTop
<1> DEFINE less == SubSeq(checkpoints, 1, Len(checkpoints) - 1)
<1>2. SavedIn(Cached', less) = SubSeq(SavedIn(Cached', checkpoints), 1,
                                      Len(SavedIn(Cached', checkpoints)) - 1)
  BY <1>1, SavedDrop
<1>3. SavedIn(Cached', checkpoints) = Saved
  BY SavedSame DEF Saved
<1>4. Saved' = SavedIn(Cached', less)
  BY DEF Saved, SavedIn, SavedItem, DropTop
<1>5. Saved' = SubSeq(Saved, 1, Len(Saved) - 1)
  BY <1>2, <1>3, <1>4
<1>6. Len(Saved) # 0 /\ Len(Saved) = Len(checkpoints)
  BY <1>1, SavedIsSeq DEF Saved
<1>7. Saved # <<>>
  BY <1>6
<1> QED
  BY <1>5, <1>7, SavedMapped DEF Transactions!Pop

LEMMA CommitMaps ==
  ASSUME WellFormed, DropTop, UNCHANGED <<caches, envs>>
  PROVE  Transactions!Commit
<1>1. Cached' = Cached /\ heap' = heap /\ Env' = Env
  BY SameBindings DEF caches, Cached
<1>2. Transactions!Pop
  BY <1>1, PopMaps
<1> QED
  BY <1>1, <1>2 DEF Transactions!Commit, Env

LEMMA RollbackMaps ==
  ASSUME WellFormed, Ordered, DropTop, RestoreSharedContext(Top)
  PROVE  Transactions!Rollback
<1> DEFINE n == Len(checkpoints)
           i == checkpoints[n].termIndex
<1>1. checkpoints \in Seq(Checkpoints) /\ n \in 1 .. n
  BY DropTopShape DEF WellFormed, CheckpointsMade
<1>2. /\ heap' = heap
      /\ appCache' = {t \in appCache : t < i} /\ hashCache' = {t \in hashCache : t < i}
      /\ Env' = EnvOf(checkpoints[n].moduleMap, checkpoints[n].qualNames,
                      checkpoints[n].globalEnv)
  BY DEF RestoreSharedContext, RestoreTerms, RestoreEnvs, FilterTFM, Top, Env
<1>3. Cached' = {t \in Cached : t < i}
  BY <1>2 DEF Cached
<1>4. \A t \in Cached : t \in Int
  BY ContextAssumption DEF WellFormed, TermsOK, Indexes, Cached
<1>5. ASSUME NEW k \in 1 .. n
      PROVE  {t \in Cached' : t < checkpoints[k].termIndex}
               = {t \in Cached : t < checkpoints[k].termIndex}
  <2>1. k \in 1 .. n /\ checkpoints[k].termIndex \in Int /\ i \in Int
    BY <1>1, CheckpointEntry, ContextAssumption DEF Indexes
  <2>2. checkpoints[k].termIndex <= i
    BY <1>1 DEF Ordered
  <2> HIDE DEF i
  <2> QED
    BY <1>3, <1>4, <2>1, <2>2
<1>6. Transactions!Pop
  BY <1>2, <1>5, PopMaps
<1>7. Saved[Len(Saved)] = SavedItem(Cached, checkpoints[n])
  BY <1>1, SavedIsSeq DEF Saved
<1>8. Cached' = Saved[Len(Saved)].live /\ Env' = Saved[Len(Saved)].env
  BY <1>2, <1>3, <1>7 DEF SavedItem
<1> QED
  BY <1>6, <1>8, SavedMapped DEF Transactions!Rollback, Env

LEMMA TransactionStep ==
  ASSUME Handlers
  PROVE  WellFormed /\ Ordered /\ [Next]_vars => [Transactions!Next]_(Transactions!lvars)
<1> SUFFICES ASSUME WellFormed, Ordered, [Next]_vars
             PROVE  [Transactions!Next]_(Transactions!lvars)
  OBVIOUS
<1>0. TypeOK /\ NamesOK /\ HeapClosed /\ GroundsSubterms(DOMAIN heap)
  BY WellFormedTyped, HeapGrounds DEF WellFormed
<1>1. CASE BuildTerm
  <2>1. /\ KeepsTerms \/ AddsTerm(DOMAIN heap)
        /\ UNCHANGED <<envs, checkpoints>>
    BY <1>0, <1>1, BuildShape
  <2> QED
    BY <2>1, GrowthMaps
<1>2. CASE StartDecl
  <2>1. KeepsTerms /\ UNCHANGED checkpoints /\ KeepsBindings
    BY <1>0, <1>2, StartShape, StartBinds
  <2> QED
    BY <2>1, GrowthMaps
<1>3. CASE ContinueDecl
  <2>1. /\ KeepsTerms \/ AddsTerm(DOMAIN heap)
        /\ UNCHANGED checkpoints
        /\ UNCHANGED envs \/ (UNCHANGED caches /\ KeepsBindings)
    BY <1>0, <1>3, ContinueShape, ContinueBinds
  <2>2. UNCHANGED caches => KeepsTerms
    BY <1>0, <2>1, AddedTerm DEF caches
  <2> QED
    BY <2>1, <2>2, GrowthMaps
<1>4. CASE UseCheckpoint
  <2>1. CASE Checkpoint
    BY <2>1, CheckpointMaps DEF Transactions!Next
  <2>2. CASE Release
    BY <2>2, CommitMaps DEF Release, Transactions!Next
  <2>3. CASE HandlerRestores
    BY <2>3, CommitMaps, RollbackMaps DEF HandlerRestores, Transactions!Next
  <2> QED
    BY <1>4, <2>1, <2>2, <2>3 DEF UseCheckpoint, Rollback, Interrupt, Restore
<1>5. CASE UNCHANGED vars
  <2>1. UNCHANGED checkpoints /\ KeepsTerms /\ UNCHANGED envs
    BY <1>5 DEF vars, KeepsTerms
  <2> QED
    BY <2>1, GrowthMaps
<1> QED
  BY <1>1, <1>2, <1>3, <1>4, <1>5 DEF Next

(* Deleting a range of TermIndexes is restoring a snapshot: handlers that  *)
(* bracket what they run implement nested transactions, whichever of their *)
(* checkpoints are refused and wherever a declaration is interrupted.      *)
THEOREM BracketingImplementsTransactions ==
  ASSUME Handlers
  PROVE  Spec => ImplementsTransactions
<1>1. Init => Transactions!Init
  <2> SUFFICES ASSUME Init PROVE Transactions!Init
    OBVIOUS
  <2>1. Cached = {} /\ DOMAIN heap = {} /\ Env = {}
    BY DEF Init, Cached, Env, EnvOf
  <2>2. checkpoints = <<>> /\ Len(checkpoints) = 0
    BY DEF Init
  <2>3. Saved = <<>>
    BY <2>2 DEF Saved, SavedIn
  <2> QED
    BY <2>1, <2>3, SavedMapped DEF Transactions!Init, Env
<1>2. Init => Ordered
  BY DEF Init, Ordered
<1>3. WellFormed /\ Ordered /\ [Next]_vars => Ordered'
  BY OrderedStep
<1>4. WellFormed /\ Ordered /\ [Next]_vars => [Transactions!Next]_(Transactions!lvars)
  BY TransactionStep
<1> QED
  BY <1>1, <1>2, <1>3, <1>4, WellFormedForever, PTL
     DEF Spec, ImplementsTransactions, Transactions!Spec

-----------------------------------------------------------------------------
(* Bracketing and rolled-back terms.  What scmAscribe did not revive has   *)
(* not been built from it is clean, and clean terms only grow by new ones. *)
NamedDefs(mm) == \A v \in DOMAIN mm : <<v, mm[v]>> \in names

DefsKnown ==
  /\ \A p \in names : DefTerms(p[2]) \subseteq DOMAIN heap
  /\ NamedDefs(moduleMap)
  /\ \A k \in 1 .. Len(checkpoints) : NamedDefs(checkpoints[k].moduleMap)

LEMMA DefsKnownStep ==
  ASSUME WellFormed, NamesInv, DefsKnown, [Next]_vars
  PROVE  /\ DefsKnown'
         /\ names \subseteq names'
<1>1. names \subseteq names' /\ NamedDefs(moduleMap)'
  <2>1. CASE Registers
    BY <2>1 DEF Registers, DefsKnown, NamedDefs
  <2>2. CASE Inserts
    <3>1. ASSUME NEW p \in Undeclared PROVE <<p[1], moduleMap'[p[1]]>> \in names'
      BY <2>2 DEF Inserts
    <3>2. /\ names \subseteq names'
          /\ DOMAIN moduleMap' = DOMAIN moduleMap \cup {p[1] : p \in Undeclared}
          /\ \A v \in DOMAIN moduleMap : moduleMap'[v] = moduleMap[v]
      BY <2>2 DEF Inserts
    <3> QED
      BY <3>1, <3>2 DEF DefsKnown, NamedDefs
  <2>3. CASE \E k \in 1 .. Len(checkpoints) : GoesBackTo(k)
    BY <2>3 DEF GoesBackTo, RestoreEnvs, DefsKnown, NamedDefs
  <2> QED
    BY <2>1, <2>2, <2>3, NameStep DEF NamesInv
<1>2. ASSUME NEW k \in 1 .. Len(checkpoints')
      PROVE  \A v \in DOMAIN checkpoints'[k].moduleMap :
               <<v, checkpoints'[k].moduleMap[v]>> \in names'
  <2>1. CASE \E j \in 1 .. Len(checkpoints) : checkpoints'[k] = checkpoints[j]
    BY <1>1, <2>1 DEF DefsKnown, NamedDefs
  <2>2. CASE checkpoints'[k] = Snapshot
    <3>1. checkpoints'[k].moduleMap = moduleMap
      BY <2>2 DEF Snapshot
    <3> QED
      BY <1>1, <3>1 DEF DefsKnown, NamedDefs
  <2> QED
    BY <2>1, <2>2, VarsShape DEF CheckpointsFrom
<1>3. \A p \in names' : DefTerms(p[2]) \subseteq DOMAIN heap'
  <2>1. \A p \in names : DefTerms(p[2]) \subseteq DOMAIN heap'
    BY HeapKept DEF DefsKnown
  <2>2. \A v \in DOMAIN moduleMap' : DefTerms(moduleMap'[v]) \subseteq DOMAIN heap'
    <3>1. EnvTerms(moduleMap', globalEnv') \subseteq DOMAIN heap'
      BY WellFormedStep DEF WellFormed, Mentioned
    <3> QED
      BY <3>1 DEF EnvTerms, DefTerms
  <2>3. CASE Inserts
    <3>1. \A p \in Undeclared : p[1] \in DOMAIN moduleMap'
      BY <2>3 DEF Inserts
    <3>2. ASSUME NEW q \in names', q \notin names PROVE DefTerms(q[2]) \subseteq DOMAIN heap'
      <4>1. PICK p \in Undeclared : q = <<p[1], moduleMap'[p[1]]>>
        BY <2>3, <3>2 DEF Inserts
      <4> QED
        BY <2>2, <3>1, <4>1
    <3> QED
      BY <2>1, <3>2
  <2>4. CASE names' = names
    BY <2>1, <2>4
  <2> QED
    BY <2>3, <2>4, NameStep DEF NamesInv, Registers, GoesBackTo
<1> QED
  BY <1>1, <1>2, <1>3 DEF DefsKnown, NamedDefs

LEMMA CleanClosed ==
  \A t \in Clean : t \in DOMAIN heap /\ ~heap[t].revived /\ Sources(t) \subseteq Clean
<1> SUFFICES ASSUME NEW t \in Clean
             PROVE  t \in DOMAIN heap /\ ~heap[t].revived /\ Sources(t) \subseteq Clean
  OBVIOUS
<1>1. PICK S \in SUBSET DOMAIN heap : t \in S /\ AreClean(S)
  BY DEF Clean
<1>2. S \subseteq Clean
  BY <1>1 DEF Clean
<1> QED
  BY <1>1, <1>2 DEF AreClean

LEMMA CleanClosedNext ==
  ASSUME NEW t \in Clean'
  PROVE  /\ t \in DOMAIN heap' /\ ~heap'[t].revived
         /\ PartsOf(heap'[t]) \subseteq Clean'
         /\ \A p \in names' :
              heap'[t].tf.op = "Constant" /\ heap'[t].tf.var = p[1]
                => DefTerms(p[2]) \subseteq Clean'
<1>1. PICK S \in SUBSET DOMAIN heap' : t \in S /\ AreClean(S)'
  BY DEF Clean
<1>2. S \subseteq Clean'
  BY <1>1 DEF Clean
<1>3. ~heap'[t].revived /\ Sources(t)' \subseteq Clean'
  BY <1>1, <1>2 DEF AreClean
<1>4. PartsOf(heap'[t]) \subseteq Sources(t)'
  BY DEF PartsOf, Sources, Parts
<1>5. ASSUME NEW p \in names', heap'[t].tf.op = "Constant", heap'[t].tf.var = p[1]
      PROVE  DefTerms(p[2]) \subseteq Sources(t)'
  BY <1>5 DEF Sources, Denotes
<1> QED
  BY <1>1, <1>3, <1>4, <1>5

(* What a step makes does not clean what was there.                        *)
LEMMA CleanStep ==
  ASSUME WellFormed, NamesInv, DefsKnown, [Next]_vars
  PROVE  Clean' \cap DOMAIN heap \subseteq Clean
<1> DEFINE S == Clean' \cap DOMAIN heap
<1>1. ASSUME NEW t \in S PROVE ~heap[t].revived /\ Sources(t) \subseteq S
  <2>1. heap'[t] = heap[t] /\ names \subseteq names'
    BY HeapKept, DefsKnownStep
  <2>2. /\ ~heap[t].revived /\ PartsOf(heap[t]) \subseteq Clean'
        /\ \A p \in names :
             heap[t].tf.op = "Constant" /\ heap[t].tf.var = p[1]
               => DefTerms(p[2]) \subseteq Clean'
    BY <2>1, CleanClosedNext
  <2>3. Sources(t) \subseteq Clean'
    BY <2>2 DEF Sources, Parts, PartsOf, Denotes
  <2>4. Sources(t) \subseteq DOMAIN heap
    BY HeapGrounds DEF HeapClosed, Sources, DefsKnown
  <2> QED
    BY <2>1, <2>2, <2>3, <2>4
<1>2. S \in SUBSET DOMAIN heap
  OBVIOUS
<1> HIDE DEF S
<1>3. AreClean(S)
  BY <1>1 DEF AreClean
<1>4. S \subseteq Clean
  BY <1>2, <1>3 DEF Clean
<1> QED
  BY <1>4 DEF S

(* What a declaration has at each of its steps.                            *)
DeclLive ==
  /\ pc = "named" => LiveDef(decl)
  /\ decl.term \in validTerms \cup {NoTerm}
  /\ pc = "declared" => moduleMap[decl.index].ty = decl.ty
  /\ pc \in {"dtInserted", "dtGlobal"} => moduleMap[decl.ctor].ty = decl.term

SavedLive ==
  \A k \in 1 .. Len(checkpoints) :
    LiveEnv(checkpoints[k].moduleMap, checkpoints[k].globalEnv)

LiveInv == DefsKnown /\ CacheClosed /\ EnvValid /\ DeclLive /\ SavedLive

(* Unfolding a clean valid term ends in a clean valid term.                *)
LEMMA WhnfLive ==
  ASSUME WellFormed, DefsKnown, EnvValid, NEW t \in Clean \cap validTerms
  PROVE  Whnf(t) \subseteq Clean \cap validTerms
<1>1. Clean \subseteq DOMAIN heap
  BY CleanClosed
<1>2. UnfoldClosed(Clean \cap validTerms)
  <2> SUFFICES ASSUME NEW u \in Clean \cap validTerms, Unfolds(u)
               PROVE  Unfolding(u) \in Clean \cap validTerms
    BY DEF UnfoldClosed
  <2> DEFINE v == heap[u].tf.var
  <2>1. v \in DOMAIN moduleMap /\ Unfolding(u) = moduleMap[v].body /\ Unfolding(u) # NoTerm
    BY DEF Unfolds, Unfolding
  <2>2. <<v, moduleMap[v]>> \in names /\ Denotes(u, v)
    BY <2>1 DEF DefsKnown, NamedDefs, Unfolds, Denotes
  <2>3. DefTerms(moduleMap[v]) \subseteq Sources(u)
    BY <2>2 DEF Sources
  <2>4. DefTerms(moduleMap[v]) \subseteq Clean
    BY <2>3, CleanClosed
  <2>5. DefTerms(moduleMap[v]) \subseteq validTerms
    BY <2>1, <2>4 DEF EnvValid, LiveEnv, LiveDef
  <2> QED
    BY <2>1, <2>4, <2>5 DEF DefTerms
<1> QED
  BY <1>1, <1>2, WhnfGrounded

(* The type of a clean application is live, as its function's is.          *)
LEMMA AppliedTypeLive ==
  ASSUME WellFormed, ExactInv, DefsKnown, CacheClosed, EnvValid,
         NEW f \in Clean \cap validTerms, heap[f].ty # NoTerm,
         NEW pi \in Whnf(heap[f].ty)
  PROVE  heap[pi].tf.snd # NoTerm => heap[pi].tf.snd \in validTerms
<1>0. Clean \subseteq DOMAIN heap
  BY CleanClosed
<1>1. f \in Cached \cap Clean
  BY <1>0 DEF ExactInv, CacheExact
<1>2. heap[f].ty \in Parts(f) /\ Parts(f) \subseteq Sources(f)
  BY DEF Parts, Sources
<1>3. heap[f].ty \in Clean \cap validTerms
  BY <1>1, <1>2, CleanClosed DEF CacheClosed
<1>4. pi \in Clean \cap validTerms
  BY <1>3, WhnfLive
<1>5. pi \in Cached \cap Clean
  BY <1>0, <1>4 DEF ExactInv, CacheExact
<1>6. Parts(pi) \subseteq validTerms
  BY <1>5 DEF CacheClosed
<1> QED
  BY <1>6 DEF Parts

(* A new Constant's type is its declaration's.                             *)
LEMMA ConstTypeLive ==
  ASSUME DefsKnown, EnvValid, NEW v \in DOMAIN moduleMap,
         \A p \in names : p[1] = v => DefTerms(p[2]) \subseteq Clean,
         moduleMap[v].ty # NoTerm
  PROVE  moduleMap[v].ty \in validTerms
<1>1. <<v, moduleMap[v]>> \in names /\ <<v, moduleMap[v]>>[1] = v
  BY DEF DefsKnown, NamedDefs
<1>2. DefTerms(moduleMap[v]) \subseteq Clean
  BY <1>1
<1> QED
  BY <1>2 DEF EnvValid, LiveEnv, LiveDef, DefTerms

LEMMA InsertedTerm ==
  ASSUME WellFormed, NEW term, NewTerm(term)
  PROVE  heap'[nextTerm] = term
BY NewEntry

LEMMA MadeOrNot ==
  ASSUME WellFormed, NEW tf, NEW vt, NEW ty, MakeTerm(tf, vt, ty), nextTerm \in DOMAIN heap'
  PROVE  heap'[nextTerm] = Term(tf, vt, ty)
<1>1. nextTerm \notin DOMAIN heap
  BY ContextAssumption DEF WellFormed, TermsOK, Indexes
<1> QED
  BY <1>1, InsertedTerm DEF MakeTerm, caches, Insert

(* A new clean term is made of valid ones.                                 *)
LEMMA NewPartsLive ==
  ASSUME WellFormed, ExactInv, NamesInv, StageInv, CacheSubterms, LiveInv, [Next]_vars,
         nextTerm \in Clean'
  PROVE  PartsOf(heap'[nextTerm]) \subseteq validTerms
<1> DEFINE new == heap'[nextTerm]
<1>0. /\ nextTerm \notin DOMAIN heap /\ nextTerm \in DOMAIN heap'
      /\ DefsKnown /\ CacheClosed /\ EnvValid /\ DeclLive
  <2>1. nextTerm \notin DOMAIN heap
    BY ContextAssumption DEF WellFormed, TermsOK, Indexes
  <2> QED
    BY <2>1, CleanClosedNext DEF LiveInv
<1>k. ASSUME UNCHANGED heap PROVE FALSE
  BY <1>0, <1>k
<1>c. /\ ~new.revived
      /\ PartsOf(new) \subseteq Clean
      /\ \A p \in names :
           new.tf.op = "Constant" /\ new.tf.var = p[1] => DefTerms(p[2]) \subseteq Clean
  <2>1. /\ ~new.revived /\ PartsOf(new) \subseteq Clean'
        /\ \A p \in names' :
             new.tf.op = "Constant" /\ new.tf.var = p[1] => DefTerms(p[2]) \subseteq Clean'
    BY CleanClosedNext
  <2>3. PartsOf(new) \subseteq DOMAIN heap
    <3>1. AddsTerm(DOMAIN heap)
      BY <1>k, TermsShape DEF KeepsTerms, caches, RollsTo
    <3> QED
      BY <3>1, WellFormedTyped, AddedTerm
  <2>4. PartsOf(new) \subseteq Clean
    BY <2>1, <2>3, CleanStep, <1>0
  <2>5. ASSUME NEW p \in names, new.tf.op = "Constant", new.tf.var = p[1]
        PROVE  DefTerms(p[2]) \subseteq Clean
    <3>1. DefTerms(p[2]) \subseteq Clean'
      BY <1>0, <2>1, <2>5, DefsKnownStep
    <3> QED
      BY <1>0, <3>1, CleanStep DEF DefsKnown
  <2> QED
    BY <2>1, <2>4, <2>5
<1>1. CASE SortTerm \/ DataTypeSort
  <2>1. new = Term(SortF, {}, NoTerm)
    BY <1>0, <1>1, InsertedTerm, MadeOrNot DEF SortTerm, Insert, DataTypeSort
  <2> QED
    BY <2>1 DEF Term, SortF, PartsOf
<1>2. ASSUME NEW x, NEW t, Variable(x, t) PROVE PartsOf(new) \subseteq validTerms
  <2>1. EnsureValid(t) /\ new = Term(VariableF(x, t), {<<x, t>>} \cup heap[t].vt, AsType(t))
    BY <1>2, InsertedTerm DEF Variable, Insert
  <2> QED
    BY <2>1, AsTypeIsTypeOrSort DEF Term, VariableF, PartsOf, EnsureValid
<1>3. ASSUME NEW x, NEW t, NEW body, Pi(x, t, body) PROVE PartsOf(new) \subseteq validTerms
  <2>1. /\ EnsureValid(t) /\ EnsureValid(body)
        /\ new = Term(PiF(x, t, body), heap[t].vt \cup Without(x, heap[body].vt), NoTerm)
    BY <1>3, InsertedTerm DEF Pi, Insert
  <2> QED
    BY <2>1 DEF Term, PiF, PartsOf, EnsureValid
<1>4. ASSUME NEW f, NEW a, Apply(f, a), f # NoTerm PROVE PartsOf(new) \subseteq validTerms
  <2>1. f \in validTerms /\ a \in validTerms /\ heap[f].ty # NoTerm
    BY <1>4 DEF Apply, EnsureValid
  <2>2. PICK pi \in Whnf(heap[f].ty) :
          NewTerm(Term(AppF(f, a), heap[f].vt \cup heap[a].vt, AsType(heap[pi].tf.snd)))
    BY <1>4 DEF Apply
  <2>3. new = Term(AppF(f, a), heap[f].vt \cup heap[a].vt, AsType(heap[pi].tf.snd))
    BY <2>2, InsertedTerm
  <2>4. PartsOf(new) \subseteq {f, a, heap[pi].tf.snd} \ {NoTerm} /\ (f \in PartsOf(new))
    BY <1>4, <2>3, AsTypeIsTypeOrSort DEF Term, AppF, PartsOf
  <2>5. f \in Clean \cap validTerms
    BY <1>c, <2>1, <2>4
  <2>6. heap[pi].tf.snd # NoTerm => heap[pi].tf.snd \in validTerms
    BY <1>0, <2>1, <2>2, <2>5, AppliedTypeLive
  <2> QED
    BY <2>1, <2>4, <2>6
<1>5. ASSUME NEW t \in Terms, NEW ty, Ascribe(t, ty) PROVE PartsOf(new) \subseteq validTerms
  <2>1. new = Ascribed(t, ty)
    BY <1>5, InsertedTerm DEF Ascribe, Insert
  <2>2. /\ new.tf = heap[t].tf /\ new.ty = AsType(ty)
        /\ new.revived = (heap[t].revived \/ ~(EnsureValid(t) /\ EnsureValid(ty)))
    BY <2>1 DEF Ascribed, Term
  <2>3. ~heap[t].revived /\ t \in validTerms /\ ty \in validTerms
    BY <1>c, <2>2 DEF EnsureValid
  <2>4. t \in Cached
    BY <2>3 DEF ExactInv, CacheExact, Terms
  <2>5. {heap[t].tf.fst, heap[t].tf.snd} \ {NoTerm} \subseteq validTerms
    BY <2>3, <2>4 DEF CacheSubterms
  <2> QED
    BY <2>2, <2>3, <2>5, AsTypeIsTypeOrSort DEF PartsOf
<1>6. ASSUME NEW v, ConstTerm(v) PROVE PartsOf(new) \subseteq validTerms
  <2>1. v \in DOMAIN moduleMap /\ new = Term(ConstF(v), {}, moduleMap[v].ty)
    BY <1>6, InsertedTerm DEF ConstTerm, Insert
  <2>2. new.tf.op = "Constant" /\ new.tf.var = v /\ PartsOf(new) = {moduleMap[v].ty} \ {NoTerm}
    BY <2>1 DEF Term, ConstF, PartsOf
  <2> QED
    BY <1>0, <1>c, <2>1, <2>2, ConstTypeLive
<1>7. CASE BuildConst
  <2> DEFINE v == decl.index
  <2>1. v \in DOMAIN moduleMap /\ new = Term(ConstF(v), {}, moduleMap[v].ty)
    BY <1>0, <1>7, MadeOrNot DEF BuildConst, StageInv, DeclLive
  <2> HIDE DEF v
  <2>2. new.tf.op = "Constant" /\ new.tf.var = v /\ PartsOf(new) = {moduleMap[v].ty} \ {NoTerm}
    BY <2>1 DEF Term, ConstF, PartsOf
  <2> QED
    BY <1>0, <1>c, <2>1, <2>2, ConstTypeLive
<1>8. CASE DataTypeTerm
  <2>1. new = Term(ConstF(decl.index), {}, NoTerm)
    BY <1>0, <1>8, MadeOrNot DEF DataTypeTerm
  <2> QED
    BY <2>1 DEF Term, ConstF, PartsOf
<1>9. StartDecl \/ UseCheckpoint \/ UNCHANGED vars => UNCHANGED heap
  BY DEF StartDecl, DefineConstant, FreshConstant, OpaqueConstant, Declare, DeclareOpen,
         DataType, UseCheckpoint, Checkpoint, Rollback, Release, Interrupt, Restore,
         HandlerRestores, RestoreSharedContext, caches, vars
<1>10. FreshVarName \/ InsDefInMap \/ RegisterGlobal \/ RejectDataType \/ CtorName
         \/ InsTypeDeclInMap \/ DataTypeGlobal \/ CtorConst => UNCHANGED heap
  BY DEF FreshVarName, InsDefInMap, RegisterGlobal, RejectDataType, CtorName,
         InsTypeDeclInMap, DataTypeGlobal, CtorConst, caches
<1>11. \A t \in Terms : t # NoTerm
  BY WellFormedTyped, HeapEntry DEF Terms
<1> QED
  BY <1>k, <1>1, <1>2, <1>3, <1>4, <1>5, <1>6, <1>7, <1>8, <1>9, <1>10, <1>11
     DEF Next, BuildTerm, ContinueDecl

(* What was live stays live as terms are made.                             *)
LEMMA EnvKept ==
  ASSUME WellFormed, NamesInv, DefsKnown, [Next]_vars, validTerms' = validTerms,
         NEW mm, NEW ge, LiveEnv(mm, ge), EnvTerms(mm, ge) \subseteq DOMAIN heap
  PROVE  /\ \A v \in DOMAIN mm :
              DefTerms(mm[v]) \subseteq Clean' => DefTerms(mm[v]) \subseteq validTerms'
         /\ \A n \in DOMAIN ge : ge[n] \in validTerms'
<1> SUFFICES ASSUME NEW v \in DOMAIN mm, DefTerms(mm[v]) \subseteq Clean'
             PROVE  DefTerms(mm[v]) \subseteq validTerms
  BY DEF LiveEnv
<1>1. DefTerms(mm[v]) \subseteq DOMAIN heap
  BY DEF EnvTerms, DefTerms
<1>2. DefTerms(mm[v]) \subseteq Clean
  BY <1>1, CleanStep
<1> QED
  BY <1>2 DEF LiveEnv, LiveDef

LEMMA CacheKept ==
  ASSUME WellFormed, ExactInv, NamesInv, StageInv, CacheSubterms, LiveInv, [Next]_vars,
         KeepsTerms \/ AddsTerm(DOMAIN heap)
  PROVE  CacheClosed'
<1>1. validTerms' = validTerms /\ DefsKnown /\ CacheClosed /\ Cached \subseteq DOMAIN heap
  BY DEF KeepsTerms, AddsTerm, LiveInv, WellFormed, TermsOK, Cached
<1>2. ASSUME NEW t \in Cached' \cap Clean' PROVE PartsOf(heap'[t]) \subseteq validTerms'
  <2>1. CASE t \in Cached
    <3>1. t \in Clean /\ heap'[t] = heap[t]
      BY <1>1, <1>2, <2>1, CleanStep, HeapKept
    <3> QED
      BY <1>1, <2>1, <3>1 DEF CacheClosed, Parts, PartsOf
  <2>2. CASE t = nextTerm
    BY <1>1, <1>2, <2>2, NewPartsLive
  <2> QED
    BY <1>2, <2>1, <2>2, CachedShape
<1> QED
  BY <1>2 DEF CacheClosed, Parts, PartsOf

LEMMA MadeTermValid ==
  ASSUME WellFormed, ExactInv, NEW tf, NEW vt, NEW ty, MakeTerm(tf, vt, ty)
  PROVE  MadeTerm(tf, ty) \in validTerms
<1>1. CASE HashHits(tf, ty) # {}
  <2>1. MadeTerm(tf, ty) \in hashCache
    BY <1>1 DEF MadeTerm, HashHits
  <2> QED
    BY <2>1 DEF Cached, ExactInv, CacheExact
<1>2. CASE HashHits(tf, ty) = {}
  <2>1. MadeTerm(tf, ty) = nextTerm
    BY <1>2 DEF MadeTerm
  <2>2. nextTerm \in nextTerm .. LastIndex
    BY ContextAssumption DEF WellFormed, TermsOK, Indexes
  <2> QED
    BY <2>1, <2>2 DEF ExactInv, FutureValid
<1> QED
  BY <1>1, <1>2

(* What a declaration is of: a valid definition, with its type.            *)
LEMMA DeclareLive ==
  ASSUME WellFormed, LiveInv, NEW qn, NEW ty, NEW body, Declare(qn, ty, body),
         {ty, body} \ {NoTerm} \subseteq Clean' => {ty, body} \ {NoTerm} \subseteq validTerms
  PROVE  DeclLive'
<1>1. pc = "idle" /\ validTerms' = validTerms
  BY DEF Declare
<1>2. CASE /\ pc' = "named"
           /\ decl' = [NoDecl EXCEPT !.index = nextVar, !.qn = qn, !.ty = ty, !.body = body]
  <2>1. decl'.ty = ty /\ decl'.body = body /\ decl'.term = NoTerm
    BY <1>2 DEF NoDecl
  <2> QED
    BY <1>1, <1>2, <2>1 DEF DeclLive, LiveDef, DefTerms
<1>3. CASE UNCHANGED control
  BY <1>1, <1>3 DEF control, DeclLive, LiveInv
<1> QED
  BY <1>2, <1>3 DEF Declare

LEMMA StartLive ==
  ASSUME WellFormed, ExactInv, NamesInv, LiveInv, [Next]_vars, StartDecl
  PROVE  DeclLive'
<1>1. /\ NoTerm \notin validTerms /\ DefsKnown /\ CacheClosed
      /\ \A t \in Terms : t \in DOMAIN heap
  BY DEF WellFormed, TermsOK, Indexes, NoTerm, LiveInv, Terms
<1>2. ASSUME NEW qn, NEW t \in Terms, DefineConstant(qn, t) PROVE DeclLive'
  <2>1. CASE Declare(qn, heap[t].ty, t)
    <3>1. t \in validTerms /\ t # NoTerm
      BY <1>1, <1>2 DEF DefineConstant, EnsureValid
    <3>2. t \in Cached
      BY <1>1, <1>2, <3>1 DEF ExactInv, CacheExact
    <3>3. ASSUME {heap[t].ty, t} \ {NoTerm} \subseteq Clean'
          PROVE  {heap[t].ty, t} \ {NoTerm} \subseteq validTerms
      <4>1. t \in Clean
        BY <1>1, <1>2, <3>1, <3>3, CleanStep
      <4> QED
        BY <1>1, <3>1, <3>2, <4>1 DEF CacheClosed, Parts
    <3> QED
      BY <2>1, <3>3, DeclareLive
  <2>2. CASE DeclareOpen(qn)
    BY <2>2 DEF DeclareOpen, control, LiveInv, DeclLive
  <2> QED
    BY <1>2, <2>1, <2>2 DEF DefineConstant
<1>3. ASSUME NEW qn, NEW t \in Terms, OpaqueConstant(qn, t) PROVE DeclLive'
  <2>1. t \in validTerms /\ Declare(qn, AsType(t), NoTerm)
    BY <1>3 DEF OpaqueConstant, EnsureValid
  <2>2. {AsType(t), NoTerm} \ {NoTerm} \subseteq validTerms
    BY <2>1, AsTypeIsTypeOrSort
  <2> QED
    BY <2>1, <2>2, DeclareLive
<1>4. ASSUME NEW qn, NEW ctorQn, DataType(qn, ctorQn) PROVE DeclLive'
  <2>1. CASE /\ pc' = "dtNamed"
             /\ decl' = [NoDecl EXCEPT !.index = nextVar, !.qn = qn, !.ctorQn = ctorQn]
    <3>1. decl'.term = NoTerm
      BY <2>1 DEF NoDecl
    <3> QED
      BY <2>1, <3>1 DEF DeclLive
  <2>2. CASE UNCHANGED control
    BY <1>4, <2>2 DEF DataType, control, LiveInv, DeclLive
  <2> QED
    BY <1>4, <2>1, <2>2 DEF DataType
<1> QED
  BY <1>2, <1>3, <1>4 DEF StartDecl, FreshConstant

(* A declaration puts into the environments what is live.                  *)
LEMMA ContinueLive ==
  ASSUME WellFormed, ExactInv, NamesInv, StageInv, LiveInv, [Next]_vars, ContinueDecl
  PROVE  EnvValid' /\ DeclLive'
<1>0. /\ DeclLive /\ EnvValid /\ DefsKnown /\ decl \in Decls
      /\ NoDecl.term = NoTerm
      /\ EnvTerms(moduleMap, globalEnv) \subseteq DOMAIN heap
      /\ {decl.ty, decl.body} \ {NoTerm} \subseteq DOMAIN heap
  BY DEF LiveInv, WellFormed, NamesOK, ControlOK, NoDecl, Mentioned, DeclTerms
<1>v. validTerms' = validTerms
  BY DEF ContinueDecl, InsDefInMap, BuildConst, RegisterGlobal, RejectDataType,
         DataTypeSort, DataTypeTerm, CtorName, InsTypeDeclInMap, DataTypeGlobal, CtorConst
<1>e. /\ \A v \in DOMAIN moduleMap :
           DefTerms(moduleMap[v]) \subseteq Clean' => DefTerms(moduleMap[v]) \subseteq validTerms'
      /\ \A n \in DOMAIN globalEnv : globalEnv[n] \in validTerms'
  BY <1>0, <1>v, EnvKept DEF EnvValid
<1>m. ASSUME UNCHANGED <<moduleMap, globalEnv>> PROVE EnvValid'
  BY <1>e, <1>m DEF EnvValid, LiveEnv, LiveDef
<1>i. ASSUME Idle PROVE DeclLive'
  BY <1>0, <1>i DEF Idle, DeclLive
<1>1. CASE InsDefInMap
  <2> DEFINE def == Definition(decl.qn, decl.ty, decl.body)
  <2>1. /\ moduleMap' = Extend(moduleMap, decl.index, def)
        /\ globalEnv' = globalEnv /\ decl' = decl /\ pc = "named" /\ pc' = "declared"
    BY <1>1 DEF InsDefInMap
  <2>2. DefTerms(def) = DefTerms(decl) /\ def.ty = decl.ty
    BY DEF Definition, DefTerms
  <2>3. DefTerms(decl) \subseteq Clean' => DefTerms(decl) \subseteq validTerms'
    BY <1>0, <1>v, <2>1, CleanStep DEF DeclLive, LiveDef, DefTerms
  <2> HIDE DEF def
  <2>4. ASSUME NEW v \in DOMAIN moduleMap'
        PROVE  \/ v \in DOMAIN moduleMap /\ moduleMap'[v] = moduleMap[v]
               \/ moduleMap'[v] = def
    BY <2>1 DEF Extend
  <2>5. EnvValid'
    BY <1>e, <2>1, <2>2, <2>3, <2>4 DEF EnvValid, LiveEnv, LiveDef
  <2>6. moduleMap'[decl.index] = def
    BY <2>1 DEF Extend
  <2> QED
    BY <1>0, <1>v, <2>1, <2>2, <2>5, <2>6 DEF DeclLive
<1>2. CASE BuildConst
  <2>1. MadeTerm(ConstF(decl.index), decl.ty) \in validTerms
    BY <1>2, MadeTermValid DEF BuildConst
  <2>2. CASE /\ pc' = "built"
             /\ decl' = [decl EXCEPT !.term = MadeTerm(ConstF(decl.index), decl.ty)]
    <3>1. decl'.term = MadeTerm(ConstF(decl.index), decl.ty)
      BY <1>0, <2>2 DEF Decls
    <3> QED
      BY <1>v, <1>m, <1>2, <2>1, <2>2, <3>1 DEF BuildConst, envs, DeclLive
  <2> QED
    BY <1>m, <1>i, <1>2, <2>2 DEF BuildConst, envs
<1>3. CASE RegisterGlobal
  <2>1. /\ globalEnv' = Extend(globalEnv, decl.qn, decl.term) /\ moduleMap' = moduleMap
        /\ pc = "built" /\ Idle
    BY <1>3 DEF RegisterGlobal
  <2>2. decl.term \in validTerms
    BY <1>0, <2>1, WellFormedTyped, HeapEntry DEF StageInv, DeclLive
  <2>3. EnvValid'
    BY <1>e, <1>v, <2>1, <2>2 DEF EnvValid, LiveEnv, LiveDef, Extend
  <2> QED
    BY <1>i, <2>1, <2>3
<1>4. CASE RejectDataType
  BY <1>m, <1>i, <1>4 DEF RejectDataType, envs
<1>5. CASE DataTypeSort
  BY <1>0, <1>v, <1>m, <1>5 DEF DataTypeSort, envs, DeclLive
<1>6. CASE DataTypeTerm
  <2>1. MadeTerm(ConstF(decl.index), NoTerm) \in validTerms
    BY <1>6, MadeTermValid DEF DataTypeTerm
  <2>2. decl'.term = MadeTerm(ConstF(decl.index), NoTerm)
    BY <1>0, <1>6 DEF DataTypeTerm, Decls
  <2> QED
    BY <1>v, <1>m, <1>6, <2>1, <2>2 DEF DataTypeTerm, envs, DeclLive
<1>7. CASE CtorName
  <2>1. UNCHANGED <<moduleMap, globalEnv>>
    BY <1>7 DEF CtorName
  <2>2. CASE pc' = "dtCtorNamed" /\ decl' = [decl EXCEPT !.ctor = nextVar]
    <3>1. decl'.term = decl.term
      BY <1>0, <2>2 DEF Decls
    <3> QED
      BY <1>0, <1>v, <1>m, <2>1, <2>2, <3>1 DEF DeclLive
  <2> QED
    BY <1>m, <1>i, <1>7, <2>1, <2>2 DEF CtorName
<1>8. CASE InsTypeDeclInMap
  <2> DEFINE dt == Definition(decl.qn, NoTerm, NoTerm)
             ctor == Definition(decl.ctorQn, decl.term, NoTerm)
  <2>1. /\ moduleMap' = Extend(Extend(moduleMap, decl.index, dt), decl.ctor, ctor)
        /\ globalEnv' = globalEnv /\ decl' = decl /\ pc' = "dtInserted"
    BY <1>8 DEF InsTypeDeclInMap
  <2>2. /\ DefTerms(dt) = {} /\ DefTerms(ctor) = {decl.term} \ {NoTerm}
        /\ ctor.ty = decl.term
    BY DEF Definition, DefTerms
  <2>3. DefTerms(ctor) \subseteq validTerms
    BY <1>0, <2>2 DEF DeclLive
  <2> HIDE DEF dt, ctor
  <2>4. ASSUME NEW v \in DOMAIN moduleMap'
        PROVE  \/ v \in DOMAIN moduleMap /\ moduleMap'[v] = moduleMap[v]
               \/ moduleMap'[v] \in {dt, ctor}
    BY <2>1 DEF Extend
  <2>5. EnvValid'
    BY <1>e, <1>v, <2>1, <2>2, <2>3, <2>4 DEF EnvValid, LiveEnv, LiveDef
  <2>6. moduleMap'[decl.ctor] = ctor
    BY <2>1 DEF Extend
  <2> QED
    BY <1>0, <1>v, <2>1, <2>2, <2>5, <2>6 DEF DeclLive
<1>9. CASE DataTypeGlobal
  <2>1. /\ pc = "dtInserted" /\ pc' = "dtGlobal" /\ UNCHANGED <<moduleMap, decl>>
        /\ globalEnv' = globalEnv \/ globalEnv' = Extend(globalEnv, decl.qn, decl.term)
    BY <1>9 DEF DataTypeGlobal
  <2>2. decl.term \in validTerms
    BY <1>0, <2>1, WellFormedTyped, HeapEntry DEF StageInv, DeclLive
  <2>3. EnvValid'
    BY <1>e, <1>v, <2>1, <2>2 DEF EnvValid, LiveEnv, LiveDef, Extend
  <2> QED
    BY <1>0, <1>v, <2>1, <2>3 DEF DeclLive
<1>10. CASE CtorConst
  <2>1. /\ decl' = [decl EXCEPT !.index = decl.ctor, !.qn = decl.ctorQn, !.ty = decl.term]
        /\ pc = "dtGlobal" /\ pc' = "declared" /\ UNCHANGED <<moduleMap, globalEnv>>
    BY <1>10 DEF CtorConst, envs
  <2>2. decl'.index = decl.ctor /\ decl'.ty = decl.term /\ decl'.term = decl.term
    BY <1>0, <2>1 DEF Decls
  <2> QED
    BY <1>0, <1>v, <1>m, <2>1, <2>2 DEF DeclLive
<1> QED
  BY <1>1, <1>2, <1>3, <1>4, <1>5, <1>6, <1>7, <1>8, <1>9, <1>10 DEF ContinueDecl

(* What the checkpoints hold, after a step that rolls nothing back.        *)
LEMMA SavedKept ==
  ASSUME WellFormed, NamesInv, LiveInv, [Next]_vars, validTerms' = validTerms,
         CheckpointsFrom
  PROVE  SavedLive'
<1> SUFFICES ASSUME NEW k \in 1 .. Len(checkpoints'),
                    NEW mm, NEW ge,
                    mm = checkpoints'[k].moduleMap, ge = checkpoints'[k].globalEnv
             PROVE  /\ \A v \in DOMAIN mm :
                         DefTerms(mm[v]) \subseteq Clean'
                           => DefTerms(mm[v]) \subseteq validTerms'
                    /\ \A n \in DOMAIN ge : ge[n] \in validTerms'
  BY DEF SavedLive, LiveEnv, LiveDef
<1>1. LiveEnv(mm, ge) /\ EnvTerms(mm, ge) \subseteq DOMAIN heap
  <2>1. CASE checkpoints'[k] = Snapshot
    <3>1. mm = moduleMap /\ ge = globalEnv
      BY <2>1 DEF Snapshot
    <3> QED
      BY <3>1 DEF LiveInv, EnvValid, WellFormed, Mentioned
  <2>2. ASSUME NEW j \in 1 .. Len(checkpoints), checkpoints'[k] = checkpoints[j]
        PROVE  LiveEnv(mm, ge) /\ EnvTerms(mm, ge) \subseteq DOMAIN heap
    <3>1. LiveEnv(mm, ge)
      BY <2>2 DEF LiveInv, SavedLive
    <3>2. EnvTerms(mm, ge) \subseteq 0 .. checkpoints[j].termIndex - 1
      BY <2>2 DEF WellFormed, CheckpointsMade, CheckpointTerms
    <3>3. 0 .. checkpoints[j].termIndex - 1 \subseteq DOMAIN heap
      <4>1. checkpoints[j].termIndex \in 0 .. nextTerm /\ nextTerm \in Int
        BY ContextAssumption DEF WellFormed, CheckpointsMade, TermsOK, Indexes
      <4>2. DOMAIN heap = 0 .. nextTerm - 1
        BY DEF WellFormed, TermsOK
      <4> QED
        BY <4>1, <4>2
    <3> QED
      BY <3>1, <3>2, <3>3
  <2> QED
    BY <2>1, <2>2 DEF CheckpointsFrom
<1> QED
  BY <1>1, EnvKept DEF LiveInv

(* Going back to the innermost checkpoint: what is older than it stays.    *)
LEMMA RolledLive ==
  ASSUME Handlers, WellFormed, NamesInv, LiveInv, Ordered, [Next]_vars,
         NEW k \in 1 .. Len(checkpoints), RollsTo(k), GoesBackTo(k),
         pc' = "idle", decl' = NoDecl
  PROVE  CacheClosed' /\ EnvValid' /\ DeclLive' /\ SavedLive'
<1> DEFINE i == checkpoints[k].termIndex
<1>1. /\ DropTop /\ k = Len(checkpoints)
      /\ heap' = heap /\ nextTerm' = nextTerm
      /\ validTerms' = validTerms \ (i .. nextTerm - 1)
      /\ Cached' \subseteq Cached
      /\ moduleMap' = checkpoints[k].moduleMap /\ globalEnv' = checkpoints[k].globalEnv
  BY DEF RollsTo, GoesBackTo, RestoreTerms, RestoreEnvs, Since, FilterTFM, Cached
<1>2. Clean' \subseteq Clean
  BY <1>1, CleanStep, CleanClosedNext DEF LiveInv
<1>3. CacheClosed'
  <2> SUFFICES ASSUME NEW t \in Cached', t \in Clean, NEW u \in Parts(t)
               PROVE  u \in validTerms'
    BY <1>1, <1>2 DEF CacheClosed, Parts
  <2> QED
    BY <1>1, OlderStays DEF LiveInv, CacheClosed
<1>4. ASSUME NEW l \in 1 .. k, NEW mm, NEW ge,
             mm = checkpoints[l].moduleMap, ge = checkpoints[l].globalEnv
      PROVE  /\ \A v \in DOMAIN mm :
                  DefTerms(mm[v]) \subseteq Clean' => DefTerms(mm[v]) \subseteq validTerms'
             /\ \A n \in DOMAIN ge : ge[n] \in validTerms'
  <2>1. l \in 1 .. Len(checkpoints) /\ LiveEnv(mm, ge)
    BY <1>1, <1>4 DEF LiveInv, SavedLive
  <2>2. /\ checkpoints[l].termIndex \in Int /\ i \in Int
        /\ checkpoints[l].termIndex <= i
    BY <1>1, <2>1, CheckpointEntry, ContextAssumption
       DEF Ordered, WellFormed, CheckpointsMade, Indexes
  <2>3. EnvTerms(mm, ge) \subseteq 0 .. checkpoints[l].termIndex - 1
    BY <1>4, <2>1 DEF WellFormed, CheckpointsMade, CheckpointTerms
  <2> HIDE DEF i
  <2>4. \A u \in 0 .. checkpoints[l].termIndex - 1 : u \notin i .. nextTerm - 1
    BY <2>2
  <2>5. \A u \in EnvTerms(mm, ge) \cap validTerms : u \in validTerms'
    BY <1>1, <2>3, <2>4
  <2>6. \A n \in DOMAIN ge : ge[n] \in validTerms /\ ge[n] # NoTerm
    BY <2>1 DEF LiveEnv, WellFormed, TermsOK, Indexes, NoTerm
  <2>7. \A n \in DOMAIN ge : ge[n] \in EnvTerms(mm, ge)
    BY <2>6 DEF EnvTerms
  <2>8. \A v \in DOMAIN mm : DefTerms(mm[v]) \subseteq EnvTerms(mm, ge)
    BY DEF EnvTerms, DefTerms
  <2>9. \A v \in DOMAIN mm :
          DefTerms(mm[v]) \subseteq Clean => DefTerms(mm[v]) \subseteq validTerms
    BY <2>1 DEF LiveEnv, LiveDef
  <2> QED
    BY <1>2, <2>5, <2>6, <2>7, <2>8, <2>9
<1>5. k \in 1 .. k
  OBVIOUS
<1>6. EnvValid'
  BY <1>1, <1>4, <1>5 DEF EnvValid, LiveEnv, LiveDef
<1>7. DeclLive'
  BY DEF DeclLive, NoDecl
<1>8. SavedLive'
  <2>1. \A l \in 1 .. Len(checkpoints') : l \in 1 .. k /\ checkpoints'[l] = checkpoints[l]
    BY <1>1, DropTopShape DEF WellFormed, CheckpointsMade
  <2> SUFFICES ASSUME NEW l \in 1 .. Len(checkpoints'), NEW mm, NEW ge,
                      mm = checkpoints'[l].moduleMap, ge = checkpoints'[l].globalEnv
               PROVE  /\ \A v \in DOMAIN mm :
                           DefTerms(mm[v]) \subseteq Clean'
                             => DefTerms(mm[v]) \subseteq validTerms'
                      /\ \A n \in DOMAIN ge : ge[n] \in validTerms'
    BY DEF SavedLive, LiveEnv, LiveDef
  <2> QED
    BY <1>4, <2>1
<1> QED
  BY <1>3, <1>6, <1>7, <1>8

LEMMA LiveStep ==
  ASSUME Handlers, WellFormed, ExactInv, NamesInv, StageInv, CacheSubterms, Ordered,
         LiveInv, [Next]_vars
  PROVE  LiveInv'
<1>1. DefsKnown' /\ CheckpointsFrom
  BY DefsKnownStep, VarsShape DEF LiveInv
<1>2. pc' = "idle" => decl' = NoDecl
  BY WellFormedStep DEF WellFormed, NamesOK, ControlOK, IdleIsClear
<1>3. ASSUME KeepsTerms \/ AddsTerm(DOMAIN heap)
      PROVE  CacheClosed' /\ SavedLive' /\ validTerms' = validTerms
  <2>1. validTerms' = validTerms
    BY <1>3 DEF KeepsTerms, AddsTerm
  <2> QED
    BY <1>1, <1>3, <2>1, CacheKept, SavedKept
<1>4. ASSUME UNCHANGED <<moduleMap, globalEnv>>, validTerms' = validTerms
      PROVE  EnvValid'
  <2>1. LiveEnv(moduleMap, globalEnv) /\ EnvTerms(moduleMap, globalEnv) \subseteq DOMAIN heap
    BY DEF LiveInv, EnvValid, WellFormed, Mentioned
  <2>2. DefsKnown
    BY DEF LiveInv
  <2>3. /\ \A v \in DOMAIN moduleMap :
              DefTerms(moduleMap[v]) \subseteq Clean'
                => DefTerms(moduleMap[v]) \subseteq validTerms'
        /\ \A n \in DOMAIN globalEnv : globalEnv[n] \in validTerms'
    BY <1>4, <2>1, <2>2, EnvKept
  <2> QED
    BY <1>4, <2>3 DEF EnvValid, LiveEnv, LiveDef
<1>5. CASE BuildTerm
  <2>1. /\ UNCHANGED <<envs, checkpoints, control>> /\ pc = "idle"
        /\ KeepsTerms \/ AddsTerm(DOMAIN heap)
    <3>1. pc = "idle"
      BY <1>5 DEF BuildTerm, SortTerm, FreshVarName, Variable, Pi, Apply, Ascribe,
                  ConstTerm, Builder
    <3>2. UNCHANGED <<envs, checkpoints, control>>
      BY <1>5 DEF BuildTerm, SortTerm, FreshVarName, Variable, Pi, Apply, Ascribe,
                  ConstTerm, Builder
    <3>3. \A k \in 1 .. Len(checkpoints) : RollsTo(k) => FALSE
      <4>1. Handlers /\ checkpoints' = checkpoints
        BY <3>2
      <4> QED
        BY <4>1, DropTopShape DEF RollsTo, WellFormed, CheckpointsMade
    <3> QED
      BY <3>1, <3>2, <3>3, TermsShape
  <2>2. DeclLive'
    BY <1>2, <2>1 DEF control, DeclLive, NoDecl
  <2> QED
    BY <1>1, <1>3, <1>4, <2>1, <2>2 DEF LiveInv, envs
<1>6. CASE StartDecl
  <2>1. UNCHANGED <<caches, validTerms, moduleMap, globalEnv, checkpoints>>
    BY <1>6 DEF StartDecl, DefineConstant, FreshConstant, OpaqueConstant, Declare,
                DeclareOpen, DataType
  <2>2. KeepsTerms
    BY <2>1 DEF KeepsTerms
  <2>3. EnvValid'
    BY <1>4, <2>1
  <2> QED
    BY <1>1, <1>3, <1>6, <2>2, <2>3, StartLive DEF LiveInv
<1>7. CASE ContinueDecl
  <2>1. UNCHANGED checkpoints
    BY <1>7 DEF ContinueDecl, InsDefInMap, BuildConst, RegisterGlobal, RejectDataType,
                DataTypeSort, DataTypeTerm, CtorName, InsTypeDeclInMap, DataTypeGlobal,
                CtorConst
  <2>2. KeepsTerms \/ AddsTerm(DOMAIN heap)
    BY <2>1, TermsShape, DropTopShape DEF RollsTo, WellFormed, CheckpointsMade
  <2> QED
    BY <1>1, <1>3, <1>7, <2>2, ContinueLive DEF LiveInv
<1>8. CASE UseCheckpoint
  <2>1. CASE KeepsTerms /\ UNCHANGED envs /\ pc' = "idle"
    <3>1. DeclLive'
      BY <1>2, <2>1 DEF DeclLive, NoDecl
    <3> QED
      BY <1>1, <1>3, <1>4, <2>1, <3>1 DEF KeepsTerms, LiveInv, envs
  <2>2. CASE DropTop /\ RestoreSharedContext(Top) /\ pc' = "idle"
    <3> DEFINE k == Len(checkpoints)
    <3>1. k \in 1 .. Len(checkpoints) /\ decl' = NoDecl /\ Idle
      BY <1>2, <2>2, DropTopShape DEF WellFormed, CheckpointsMade, Idle
    <3>2. Undeclared' = {}
      BY <2>2 DEF Undeclared
    <3>3. GoesBackTo(k)
      BY <1>1, <2>2, <3>2 DEF GoesBackTo, RestoreSharedContext, Top, counters
    <3>4. RollsTo(k)
      BY <2>2, <3>1, RestoreShape DEF RollsTo, Top, WellFormed, CheckpointsMade
    <3> QED
      BY <1>1, <2>2, <3>1, <3>3, <3>4, RolledLive DEF LiveInv
  <2>3. Checkpoint \/ Release => KeepsTerms /\ UNCHANGED envs /\ pc' = "idle"
    BY DEF Checkpoint, Release, KeepsTerms, control
  <2>4. Rollback \/ Interrupt =>
          \/ KeepsTerms /\ UNCHANGED envs /\ pc' = "idle"
          \/ DropTop /\ RestoreSharedContext(Top) /\ pc' = "idle"
    BY DEF Rollback, Interrupt, HandlerRestores, KeepsTerms, control, Idle
  <2>5. \A k : ~Restore(k)
    BY DEF Restore
  <2> QED
    BY <1>8, <2>1, <2>2, <2>3, <2>4, <2>5 DEF UseCheckpoint
<1>9. CASE UNCHANGED vars
  <2>1. /\ UNCHANGED <<heap, names, validTerms, envs, pc, decl>> /\ KeepsTerms
    BY <1>9 DEF vars, caches, counters, envs, control, KeepsTerms
  <2>2. Clean' = Clean
    BY <2>1 DEF Clean, AreClean, Sources, Parts, Denotes
  <2>3. DeclLive'
    BY <2>1, <2>2 DEF LiveInv, DeclLive, LiveDef, envs
  <2> QED
    BY <1>1, <1>3, <1>4, <2>1, <2>3 DEF LiveInv, envs
<1> QED
  BY <1>5, <1>6, <1>7, <1>8, <1>9 DEF Next

THEOREM LiveForever ==
  ASSUME Handlers
  PROVE  Spec => []LiveInv
<1>1. Init => LiveInv /\ Ordered
  BY DEF Init, LiveInv, DefsKnown, NamedDefs, CacheClosed, Cached, EnvValid, LiveEnv,
         DeclLive, NoDecl, SavedLive, Ordered
<1>2. WellFormed /\ Ordered /\ [Next]_vars => Ordered'
  BY OrderedStep
<1>3. WellFormed /\ ExactInv /\ NamesInv /\ StageInv /\ CacheSubterms /\ Ordered /\ LiveInv
        /\ [Next]_vars => LiveInv'
  BY LiveStep
<1> QED
  BY <1>1, <1>2, <1>3, WellFormedForever, ExactForever, NamesForever, StagesForever,
     CacheSubtermsForever, PTL DEF Spec

(* Bracketing keeps the precondition of scmApply's early answer: all that a*)
(* cached term is built from, its type included, is valid, unless a term   *)
(* that scmAscribe revived went into it.                                   *)
THEOREM CacheClosedForever ==
  ASSUME Handlers
  PROVE  Spec => []CacheClosed
<1>1. LiveInv => CacheClosed
  BY DEF LiveInv
<1> QED
  BY <1>1, LiveForever, PTL

(* Bracketing keeps rolled-back terms out of the global environment, and   *)
(* out of the definitions that nothing revived went into.                  *)
THEOREM EnvValidForever ==
  ASSUME Handlers
  PROVE  Spec => []EnvValid
<1>1. LiveInv => EnvValid
  BY DEF LiveInv
<1> QED
  BY <1>1, LiveForever, PTL
============================================================================
