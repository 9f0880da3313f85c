---------------------- MODULE SharedContextProperties ----------------------
(***************************************************************************)
(* What the kernel state of SharedContext must guarantee.                  *)
(***************************************************************************)
EXTENDS SharedContext

TypeCode == Indexes \cup {NoTerm}

(* 0 is the wildcard's VarIndex, and marks the absence of a declaration.   *)
AnyVar == 0 .. LastVar

TermF == [op : {"Sort", "Constant", "Variable", "Pi", "App"},
          var : AnyVar, fst : TypeCode, snd : TypeCode]

TermType == [tf : TermF, vt : SUBSET (AnyVar \X Indexes), ty : TypeCode,
             revived : BOOLEAN]

QualNames == Names \cup {Fresh(v) : v \in AnyVar}

Defs == [qn : QualNames, ty : TypeCode, body : TypeCode]

IsPartial(f, S, T) == DOMAIN f \subseteq S /\ f \in [DOMAIN f -> T]

IsCheckpoint(scc) ==
  /\ DOMAIN scc = {"moduleMap", "qualNames", "globalEnv", "termIndex"}
  /\ IsPartial(scc.moduleMap, AnyVar, Defs)
  /\ IsPartial(scc.qualNames, QualNames, AnyVar)
  /\ IsPartial(scc.globalEnv, QualNames, TypeCode)
  /\ scc.termIndex \in Indexes

Decls == [index : AnyVar, qn : QualNames, ty : TypeCode, body : TypeCode,
          ctor : AnyVar, ctorQn : QualNames, term : TypeCode]

TypeOK ==
  /\ nextTerm \in Indexes
  /\ nextVar \in 1 .. LastVar + 1
  /\ heap \in [0 .. nextTerm - 1 -> TermType]
  /\ appCache \subseteq DOMAIN heap /\ hashCache \subseteq DOMAIN heap
  /\ validTerms \subseteq Indexes
  /\ varNames \subseteq AnyVar
  /\ names \subseteq AnyVar \X Defs
  /\ IsPartial(moduleMap, AnyVar, Defs)
  /\ IsPartial(qualNames, QualNames, AnyVar)
  /\ IsPartial(globalEnv, QualNames, TypeCode)
  /\ \A k \in 1 .. Len(checkpoints) : IsCheckpoint(checkpoints[k])
  /\ pc \in {"idle", "named", "declared", "built", "dtNamed", "dtSorted",
             "dtBuilt", "dtCtorNamed", "dtInserted", "dtGlobal"}
  /\ decl \in Decls

-----------------------------------------------------------------------------
(* The documented invariant of scAppCache, made exact: its entries are the *)
(* terms made so far that are still valid, no more and no fewer.  A lookup *)
(* therefore never returns a stale term, and never misses a usable one.    *)
CacheExact == Cached = DOMAIN heap \cap validTerms

(* The subterms of a cached term are valid, which scmMakeTerm asks of its  *)
(* callers, however scripts restore their checkpoints; a term that         *)
(* scmAscribe revived from a rolled-back one is the only exception.        *)
CacheSubterms ==
  \A t \in Cached :
    ~heap[t].revived => {heap[t].tf.fst, heap[t].tf.snd} \ {NoTerm} \subseteq validTerms

(* The terms nothing revived went into, as a part, a type or a definition. *)
DefTerms(d) == {d.ty, d.body} \ {NoTerm}

Denotes(t, v) == heap[t].tf.op = "Constant" /\ heap[t].tf.var = v

Sources(t) ==
  Parts(t) \cup UNION {DefTerms(p[2]) : p \in {q \in names : Denotes(t, q[1])}}

AreClean(S) == \A t \in S : ~heap[t].revived /\ Sources(t) \subseteq S

Clean == UNION {S \in SUBSET DOMAIN heap : AreClean(S)}

(* Everything a cached term is built from, its type included, is valid.    *)
(* scmApply relies on it: it answers from the table before it validates its*)
(* arguments.  What scmAscribe revives spoils no term it did not go into.  *)
CacheClosed == \A t \in Cached : Parts(t) \subseteq validTerms \/ t \notin Clean

(* Hash-consing: equality of TermIndexes is equality of shape and type over*)
(* both tables together, ascribed applications included.  An application   *)
(* that scmAscribe revived is not in appMapTFM, so scmApply can make it a  *)
(* second time; a third time it cannot be made.                            *)
HashConsed ==
  \A t, u \in Cached :
    /\ heap[t].tf = heap[u].tf /\ heap[t].ty = heap[u].ty
    /\ heap[t].tf.op = "App" => heap[t].revived = heap[u].revived
    => t = u

(* The documented invariant of scGlobalEnv: between commands it has one    *)
(* entry for each declaration whose name is a ModuleIdentifier, and the    *)
(* entry is the Constant of that declaration.                              *)
GlobalEnvAgrees ==
  pc = "idle" =>
    /\ DOMAIN globalEnv = Idents \cap {moduleMap[v].qn : v \in DOMAIN moduleMap}
    /\ \A n \in DOMAIN globalEnv : heap[globalEnv[n]].tf = ConstF(qualNames[n])

(* A definition's name resolves to that definition, also while one is being*)
(* made and after failures that left a name without a definition.          *)
NamesAgree ==
  \A v \in DOMAIN moduleMap :
    /\ moduleMap[v].qn \in DOMAIN qualNames
    /\ qualNames[moduleMap[v].qn] = v

(* A VarIndex stands for one declaration for ever: a Name kept across a    *)
(* rollback may become undefined but never means something else.           *)
NamesUnambiguous == \A p, q \in names : p[1] = q[1] => p = q

(* A usable Constant that a client was given has its definition in the     *)
(* module map, where scmWhnf looks it up with requireNameInMap (a panic),  *)
(* unless scmAscribe revived it after its declaration was rolled back.     *)
LiveConstantsDefined ==
  \A t \in Cached :
    heap[t].tf.op = "Constant" /\ heap[t].tf.var \in NamesHeld /\ ~heap[t].revived
      => heap[t].tf.var \in DOMAIN moduleMap

(* No environment mentions a rolled-back term: the global environment never*)
(* does, and a definition only if something revived went into it.          *)
LiveDef(d) == DefTerms(d) \subseteq validTerms \/ ~(DefTerms(d) \subseteq Clean)

LiveEnv(mm, ge) ==
  /\ \A v \in DOMAIN mm : LiveDef(mm[v])
  /\ \A n \in DOMAIN ge : ge[n] \in validTerms

EnvValid == LiveEnv(moduleMap, globalEnv)

(* A checkpoint that is still held can be restored: a handler that puts the*)
(* state back does not itself fail on "Stale checkpoint".                  *)
CheckpointsUsable == \A k \in 1 .. Len(checkpoints) : NotStale(checkpoints[k])

(* Definitions are closed terms of closed types.                           *)
DefsClosed ==
  \A v \in DOMAIN moduleMap :
    \A t \in {moduleMap[v].ty, moduleMap[v].body} \ {NoTerm} : Closed(t)

(* Stale is for ever, and a TermIndex never denotes a second term.         *)
StaleForever ==
  [][\A t \in DOMAIN heap :
       heap'[t] = heap[t] /\ (t \notin validTerms => t \notin validTerms')]_vars

-----------------------------------------------------------------------------
(* Deleting an index range on rollback is restoring a snapshot of the live *)
(* terms: the bracketing discipline implements nested transactions.        *)
EnvOf(mm, qns, ge) ==
  {<<"def", v, mm[v]>> : v \in DOMAIN mm}
    \cup {<<"name", n, qns[n]>> : n \in DOMAIN qns}
    \cup {<<"global", n, ge[n]>> : n \in DOMAIN ge}

SavedBy(scc) ==
  [live |-> {t \in Cached : t < scc.termIndex},
   env |-> EnvOf(scc.moduleMap, scc.qualNames, scc.globalEnv)]

Transactions == INSTANCE Lineage WITH
  live <- Cached,
  ever <- DOMAIN heap,
  env <- EnvOf(moduleMap, qualNames, globalEnv),
  saved <- [k \in 1 .. Len(checkpoints) |-> SavedBy(checkpoints[k])]

ImplementsTransactions == Transactions!Spec
=============================================================================
