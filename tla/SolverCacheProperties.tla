----------------------- MODULE SolverCacheProperties ------------------------
(* What the solver result cache guarantees the proofs that use it.         *)
EXTENDS SolverCache

Databases == [Keys -> Entries \cup {NoEntry}]

CacheStates == [path : Paths \cup {NoPath}, open : BOOLEAN]

Jobs == [key : Keys \cup {NoKey}, found : Answers \cup {NoAnswer},
         path : Paths \cup {NoPath}, carried : Databases, doomed : SUBSET Keys,
         wanted : Setups \cup {NoSetup}, saved : CacheStates]

Labels == {"idle", "looking", "touching", "solving", "inserting", "counting", "answering",
           "opening", "reading", "writing", "scanning", "deleting", "sizing"}

TypeOK ==
  /\ installed \in Setups
  /\ db \in [Paths -> Databases]
  /\ cache \in [Procs -> CacheStates]
  /\ stats \in [Procs -> [Stats -> Nat]]
  /\ pc \in [Procs -> Labels]
  /\ job \in [Procs -> Jobs]
  /\ timer \in [Procs -> {"off", "armed", "fired"}]
  /\ clock \in Nat
  /\ computed \in SUBSET (Keys \X Answers)
  /\ answer \in [Procs -> (Keys \X Answers) \cup {NoAnswer}]
  /\ kept \in [Procs -> SUBSET Keys]
  /\ ended \in [Procs -> Nat] /\ aborted \in [Procs -> Nat]

-----------------------------------------------------------------------------
Oracle == INSTANCE ProverOracle

(* A proof is told only what a solver computed for the same query and the  *)
(* same versions, through however many databases, copies and processes the *)
(* answer came (lookupInSolverCache, insertInSolverCache, setSolverCachePath*)
(* implement the abstract cache).                                          *)
ImplementsOracle == Oracle!Spec

Lost(path, k) == db[path][k] # NoEntry /\ db'[path][k] = NoEntry

Changed(path, k) == db'[path][k] # NoEntry /\
  (db[path][k] = NoEntry \/ db[path][k].answer # db'[path][k].answer)

(* An entry leaves a database only when a process cleans that database for *)
(* versions the entry does not match, and one that was cleaned away comes  *)
(* back only from a solver or from another database: marking an entry as   *)
(* used neither revives it nor changes its answer, whatever other processes*)
(* did since the lookup (lookupInSolverCache's second transaction).        *)
EntriesStable ==
  [][\A path \in Paths, k \in Keys :
       /\ Lost(path, k) =>
            \E p \in Procs : pc[p] = "deleting" /\ cache[p].path = path /\ Mismatched(job[p].wanted, k)
       /\ Changed(path, k) =>
            \E p \in Procs :
              \/ pc[p] = "inserting" /\ cache[p].path = path /\ job[p].key = k
              \/ pc[p] = "writing" /\ job[p].path = path]_vars

(* What was in a process's cache when one of its proofs ended stays in its *)
(* cache, also when the cache moves to another path or an operation is     *)
(* abandoned half way, until some process cleans it away.                  *)
Remembered ==
  \A p \in Procs : \A k \in kept[p] : Enabled(p) /\ db[cache[p].path][k] # NoEntry

Counted(p) == stats[p].lookups + stats[p].inserts + stats[p].failedInserts

(* What print_solver_cache_stats reports adds up: every proof that ended is*)
(* counted once, as a use of the cache, an insertion or a failed insertion,*)
(* and only operations that were abandoned are counted without ending.     *)
StatsBalance ==
  \A p \in Procs :
    /\ ended[p] <= Counted(p)
    /\ Counted(p) <= ended[p] + aborted[p]
                     + (IF pc[p] \in {"touching", "answering"} THEN 1 ELSE 0)

(* The cache never keeps a proof waiting: whatever fails or times out in   *)
(* it, a proof that was begun ends.                                        *)
ProofsEnd ==
  \A p \in Procs : pc[p] \in {"looking", "solving"} ~> pc[p] = "idle"

(* "If the action runs for longer than the given timeout, it is terminated *)
(* and the handler is executed instead" (timeout_handle, Interpreter.hs    *)
(* 2738): no solver is started for an action whose timeout has fired.      *)
TimeoutStops ==
  \A p \in Procs : timer[p] = "fired" => pc[p] # "solving"
=============================================================================
