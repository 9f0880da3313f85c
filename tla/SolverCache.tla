----------------------------- MODULE SolverCache ----------------------------
(***************************************************************************)
(* The solver result cache: saw-central/src/SAWCentral/SolverCache.hs, with*)
(* its one client, applyProverToGoal, and onSolverCache, which keeps the   *)
(* SolverCache in the TopLevel state.                                      *)
(*                                                                         *)
(* SAW processes that name the same path share an LMDB database there.  One*)
(* LMDB transaction is one step; an operation is up to three of them, and  *)
(* the other processes move in between.  A transaction may fail, and the   *)
(* cache's own timeout may stop it before or after it commits.             *)
(*                                                                         *)
(* The script can run any operation under `timeout_handle`, whose alarm is *)
(* an asynchronous exception: it abandons the action and brings back the   *)
(* TopLevel state from before it.                                          *)
(*                                                                         *)
(* Abstractions.  A query is a model value (with its solver options); its  *)
(* hash is the query itself.  Counterexamples are answers; SatQueries has  *)
(* how they are numbered.  An entry's versions are those hashed in its key,*)
(* since applyProverToGoal gives both the same.  The length of timeouts,   *)
(* and the LMDB map size, are covered by letting any transaction fail.     *)
(***************************************************************************)
EXTENDS Naturals, FiniteSets

CONSTANTS
  Procs,        \* SAW processes
  Paths,        \* where a database can be
  Queries,      \* SAT queries, each with the solver options it is run with
  Backends,     \* solver back ends
  Uses,         \* Queries -> the back ends a query is sent to
  Setups,       \* what may be installed: Backends -> version, or Unknown
  StartSetup,   \* what is installed at the start
  Unknown,      \* the version of a back end that does not tell
  AnswersTo,    \* Queries -> the answers a solver may give
  Cacheable,    \* the answers that mention no other variables than the query's
  OldDatabases, \* what earlier sessions may have left in the databases
  Hurried,      \* the processes whose scripts use timeouts
  StartPaths,   \* Procs -> $SAW_SOLVER_CACHE_PATH, or NoPath: what it may be
  NoPath, NoEntry, NoAnswer, NoKey, NoSetup,
  MaxOps        \* bound: operations started by all processes together

(* mkSolverCacheKey.                                                       *)
KeyOf(vs, q) == [query |-> q, versions |-> [b \in Uses[q] |-> vs[b]]]

Keys == {KeyOf(vs, q) : vs \in Setups, q \in Queries}

Answers == UNION {AnswersTo[q] : q \in Queries}

(* Of the time an entry was last used, only whether that was after it was  *)
(* stored.                                                                 *)
Entries == [answer : Answers, used : BOOLEAN]

ASSUME CacheAssumption ==
  /\ MaxOps \in Nat
  /\ NoPath \notin Paths
  /\ StartSetup \in Setups
  /\ StartPaths \subseteq [Procs -> Paths \cup {NoPath}]
  /\ NoKey \notin Keys /\ NoSetup \notin Setups
  /\ NoAnswer \notin Answers \cup Keys \X Answers
  /\ NoEntry \notin Entries
  /\ OldDatabases \subseteq [Paths -> [Keys -> Entries \cup {NoEntry}]]

(* toSolverCacheValue: nothing else was ever stored.                       *)
ASSUME OldAssumption ==
  \A old \in OldDatabases : \A f \in Paths : \A k \in Keys :
    old[f][k] # NoEntry => old[f][k].answer \in Cacheable

VARIABLES
  installed, \* the back ends on the machine: getSolverBackendVersions runs them
  db,        \* Paths -> Keys -> entry or NoEntry: the databases on disk
  cache,     \* rwSolverCache: the path, and whether its environment is open
  stats,     \* solverCacheStats: an IORef, shared by all versions of the cache
  pc, job,   \* the operation a process is in, and what it holds
  timer,     \* "off", "armed" or "fired": the script's timeout round it
  clock,     \* counts what was started
  computed,  \* history: what solvers answered
  answer,    \* history: what the last finished proof of each process was told
  kept,      \* history: the keys that were in the open cache after a proof
  ended, aborted   \* history: proofs counted as finished, operations abandoned

control == <<pc, job, timer, clock>>
history == <<computed, answer, kept, ended, aborted>>
vars == <<installed, db, cache, stats, control, history>>

EmptyDB == [k \in Keys |-> NoEntry]

NoJob == [key |-> NoKey, found |-> NoAnswer, path |-> NoPath,
          carried |-> EmptyDB, doomed |-> {}, wanted |-> NoSetup, saved |-> [path |-> NoPath, open |-> FALSE]]

Stats == {"lookups", "failedLookups", "inserts", "failedInserts"}

Enabled(p) == cache[p].path # NoPath

(* lazyOpenSolverCache: nothing is opened, or created, until it is used.   *)
Init ==
  /\ installed = StartSetup
  /\ db \in OldDatabases
  /\ \E start \in StartPaths :
       cache = [p \in Procs |-> [path |-> start[p], open |-> FALSE]]
  /\ stats = [p \in Procs |-> [s \in Stats |-> 0]]
  /\ pc = [p \in Procs |-> "idle"]
  /\ job = [p \in Procs |-> NoJob]
  /\ timer = [p \in Procs |-> "off"]
  /\ clock = 0
  /\ computed = {ka \in Keys \X Answers :
                   \E f \in Paths : db[f][ka[1]] # NoEntry /\ db[f][ka[1]].answer = ka[2]}
  /\ answer = [p \in Procs |-> NoAnswer]
  /\ kept = [p \in Procs |-> {}]
  /\ ended = [p \in Procs |-> 0]
  /\ aborted = [p \in Procs |-> 0]

-----------------------------------------------------------------------------
(* forceSolverCacheOpened succeeded.                                       *)
Opened(p) == [cache EXCEPT ![p].open = TRUE]

CountFailuresTogether(p, stat) ==   \* mutant: one counter for both failures
  stats' = [stats EXCEPT ![p][IF stat = "failedInserts" THEN "failedLookups" ELSE stat] = @ + 1]
CountOne(p, stat) == stats' = [stats EXCEPT ![p][stat] = @ + 1]

Goto(p, label) == pc' = [pc EXCEPT ![p] = label]

(* The script starts an operation, perhaps under a timeout.                *)
Begin(p, label, what) ==
  /\ pc[p] = "idle"
  /\ clock < MaxOps
  /\ clock' = clock + 1
  /\ \E t \in {"off"} \cup {"armed" : r \in {p} \cap Hurried} : timer' = [timer EXCEPT ![p] = t]
  /\ job' = [job EXCEPT ![p] = [what EXCEPT !.saved = cache[p]]]
  /\ Goto(p, label)

Return(p) ==
  /\ Goto(p, "idle")
  /\ job' = [job EXCEPT ![p] = NoJob]
  /\ timer' = [timer EXCEPT ![p] = "off"]

(* An exception leaves the operation: the TopLevel state is the one from   *)
(* before it; the database and the IORef of the statistics are not.        *)
Abort(p) ==
  /\ Return(p)
  /\ cache' = [cache EXCEPT ![p] = job[p].saved]
  /\ aborted' = [aborted EXCEPT ![p] = @ + 1]
  /\ UNCHANGED <<installed, stats, clock, computed, answer, kept, ended>>

(* tryWithTimeout wraps `try` at SomeException round the transaction.  The *)
(* exception it turns into Left may be LMDB's, its own timeout's, or the   *)
(* alarm of the script's timeout, which is then used up.                   *)
Caught(p) ==
  \/ UNCHANGED timer
  \/ timer[p] = "armed" /\ timer' = [timer EXCEPT ![p] = "fired"]

-----------------------------------------------------------------------------
(* applyProverToGoal.                                                      *)
Prove(p, q) ==
  /\ Begin(p, IF Enabled(p) THEN "looking" ELSE "solving",
           [NoJob EXCEPT !.key = KeyOf(installed, q)])
  /\ UNCHANGED <<installed, db, cache, stats, history>>

Current(p) == db[cache[p].path][job[p].key]

LookupTakesEntry(p) ==   \* mutant: fromSolverCacheValue is forgotten
  /\ pc[p] = "looking"
  /\ Current(p) # NoEntry
  /\ cache' = Opened(p)
  /\ CountOne(p, "lookups")
  /\ job' = [job EXCEPT ![p].found = Current(p)]
  /\ Goto(p, "touching")
  /\ UNCHANGED <<installed, db, timer, clock, history>>

(* lookupInSolverCache.                                                    *)
LookupHits(p) ==
  /\ pc[p] = "looking"
  /\ Current(p) # NoEntry
  /\ cache' = Opened(p)
  /\ CountOne(p, "lookups")
  /\ job' = [job EXCEPT ![p].found = Current(p).answer]
  /\ Goto(p, "touching")
  /\ UNCHANGED <<installed, db, timer, clock, history>>

LookupMisses(p) ==
  /\ pc[p] = "looking"
  /\ Current(p) = NoEntry
  /\ cache' = Opened(p)
  /\ Goto(p, "solving")
  /\ UNCHANGED <<installed, db, stats, job, timer, clock, history>>

LookupFails(p) ==
  /\ pc[p] = "looking"
  /\ cache' \in {cache, Opened(p)}
  /\ CountOne(p, "failedLookups")
  /\ Caught(p)
  /\ Goto(p, "solving")
  /\ UNCHANGED <<installed, db, job, clock, history>>

TouchedAnew(p) ==   \* mutant: the entry that was looked up is inserted again
  [db EXCEPT ![cache[p].path][job[p].key] = [answer |-> job[p].found, used |-> TRUE]]

(* The entry, if there still is one, is marked as used.  The result of     *)
(* this transaction is ignored.                                            *)
Touched(p) ==
  IF Current(p) = NoEntry THEN db
  ELSE [db EXCEPT ![cache[p].path][job[p].key].used = TRUE]

TouchPresent(p) ==   \* mutant: nothing is done for an entry that has gone
  /\ pc[p] = "touching"
  /\ Current(p) # NoEntry
  /\ db' \in {db, Touched(p)}
  /\ Caught(p)
  /\ Goto(p, "answering")
  /\ UNCHANGED <<installed, cache, stats, job, clock, history>>

Touch(p) ==
  /\ pc[p] = "touching"
  /\ db' \in {db, Touched(p)}
  /\ Caught(p)
  /\ Goto(p, "answering")
  /\ UNCHANGED <<installed, cache, stats, job, clock, history>>

(* The solver runs.  toSolverCacheValue gives nothing to store for a       *)
(* counterexample with other variables than the query's.                   *)
Solve(p) ==
  /\ pc[p] = "solving"
  /\ \E a \in AnswersTo[job[p].key.query] :
       /\ computed' = computed \cup {<<job[p].key, a>>}
       /\ job' = [job EXCEPT ![p].found = a]
       /\ Goto(p, IF Enabled(p) /\ a \in Cacheable THEN "inserting" ELSE "answering")
  /\ UNCHANGED <<installed, db, cache, stats, timer, clock, answer, kept, ended, aborted>>

SolverFails(p) ==
  /\ pc[p] = "solving"
  /\ Abort(p)
  /\ UNCHANGED db

(* insertInSolverCache.                                                    *)
InsertedNow(p) ==   \* mutant: the key is made again, after the solver ran
  [db EXCEPT ![cache[p].path][KeyOf(installed, job[p].key.query)] =
     [answer |-> job[p].found, used |-> FALSE]]
Inserted(p) ==
  [db EXCEPT ![cache[p].path][job[p].key] = [answer |-> job[p].found, used |-> FALSE]]

Insert(p) ==
  /\ pc[p] = "inserting"
  /\ db' = Inserted(p)
  /\ cache' = Opened(p)
  /\ Goto(p, "counting")
  /\ UNCHANGED <<installed, stats, job, timer, clock, history>>

InsertFails(p) ==
  /\ pc[p] = "inserting"
  /\ \/ cache' \in {cache, Opened(p)} /\ UNCHANGED db
     \/ cache' = Opened(p) /\ db' = Inserted(p)
  /\ CountOne(p, "failedInserts")
  /\ Caught(p)
  /\ Goto(p, "answering")
  /\ UNCHANGED <<installed, job, clock, history>>

CountInsert(p) ==
  /\ pc[p] = "counting"
  /\ CountOne(p, "inserts")
  /\ Goto(p, "answering")
  /\ UNCHANGED <<installed, db, cache, job, timer, clock, history>>

Answer(p) ==
  /\ pc[p] = "answering"
  /\ Return(p)
  /\ answer' = [answer EXCEPT ![p] = <<job[p].key, job[p].found>>]
  /\ IF Enabled(p) /\ job[p].found \in Cacheable
     THEN /\ ended' = [ended EXCEPT ![p] = @ + 1]
          /\ kept' = [kept EXCEPT ![p] =
                        @ \cup {k \in {job[p].key} : cache[p].open /\ Current(p) # NoEntry}]
     ELSE UNCHANGED <<ended, kept>>
  /\ UNCHANGED <<installed, db, cache, stats, clock, computed, aborted>>

-----------------------------------------------------------------------------
(* set_solver_cache_path, from the path it already has, or from no cache:  *)
(* open it and nothing else.                                               *)
OpenPath(p, path) ==
  /\ Begin(p, "opening", [NoJob EXCEPT !.path = path])
  /\ cache[p].path \in {path, NoPath}
  /\ UNCHANGED <<installed, db, cache, stats, history>>

(* setSolverCachePath to another path: open that, and when the old one is  *)
(* in use read all of it.                                                  *)
SetPath(p, path) ==
  /\ Begin(p, IF cache[p].open THEN "reading" ELSE "opening", [NoJob EXCEPT !.path = path])
  /\ cache[p].path \notin {path, NoPath}
  /\ UNCHANGED <<installed, db, cache, stats, history>>

Open(p) ==
  /\ pc[p] = "opening"
  /\ Return(p)
  /\ cache' = [cache EXCEPT ![p] = [path |-> job[p].path, open |-> TRUE]]
  /\ UNCHANGED <<installed, db, stats, clock, history>>

ReadNew(p) ==   \* mutant: the new path is read
  /\ pc[p] = "reading"
  /\ job' = [job EXCEPT ![p].carried = db[job[p].path]]
  /\ Goto(p, "writing")
  /\ UNCHANGED <<installed, db, cache, stats, timer, clock, history>>

ReadAll(p) ==
  /\ pc[p] = "reading"
  /\ job' = [job EXCEPT ![p].carried = db[cache[p].path]]
  /\ Goto(p, "writing")
  /\ UNCHANGED <<installed, db, cache, stats, timer, clock, history>>

Written(p) ==
  [db EXCEPT ![job[p].path] =
     [k \in Keys |-> IF job[p].carried[k] # NoEntry THEN job[p].carried[k] ELSE @[k]]]

WriteAll(p) ==
  /\ pc[p] = "writing"
  /\ Return(p)
  /\ db' = Written(p)
  /\ cache' = [cache EXCEPT ![p] = [path |-> job[p].path, open |-> TRUE]]
  /\ UNCHANGED <<installed, stats, clock, history>>

-----------------------------------------------------------------------------
(* cleanMismatchedVersionsSolverCache: a back end whose version is unknown *)
(* now condemns nothing; a back end that was unknown then is condemned by  *)
(* any version.                                                            *)
Mismatched(vs, k) ==
  \E b \in DOMAIN k.versions : vs[b] # Unknown /\ vs[b] # k.versions[b]

Clean(p) ==
  /\ Enabled(p)
  /\ Begin(p, "scanning", [NoJob EXCEPT !.wanted = installed])
  /\ UNCHANGED <<installed, db, cache, stats, history>>

Scan(p) ==
  /\ pc[p] = "scanning"
  /\ job' = [job EXCEPT ![p].doomed =
               {k \in Keys : db[cache[p].path][k] # NoEntry /\ Mismatched(job[p].wanted, k)}]
  /\ Goto(p, "deleting")
  /\ UNCHANGED <<installed, db, cache, stats, timer, clock, history>>

Deleted(p) ==
  [db EXCEPT ![cache[p].path] =
     [k \in Keys |-> IF k \in job[p].doomed THEN NoEntry ELSE @[k]]]

DeleteDoomed(p) ==
  /\ pc[p] = "deleting"
  /\ db' = Deleted(p)
  /\ kept' = [r \in Procs |-> IF cache[r].path = cache[p].path
                              THEN kept[r] \ job[p].doomed ELSE kept[r]]
  /\ Goto(p, "sizing")
  /\ UNCHANGED <<installed, cache, stats, job, timer, clock, computed, answer, ended, aborted>>

(* The last read of an operation that tells the size of the database: of   *)
(* cleaning, print_solver_cache_stats, test_solver_cache_stats.            *)
Size(p) ==
  /\ pc[p] = "sizing"
  /\ Return(p)
  /\ cache' = Opened(p)
  /\ UNCHANGED <<installed, db, stats, clock, history>>

ShowStats(p) ==
  /\ Enabled(p)
  /\ Begin(p, "sizing", NoJob)
  /\ UNCHANGED <<installed, db, cache, stats, history>>

-----------------------------------------------------------------------------
(* These operations use LMDB without tryWithTimeout: what it throws leaves *)
(* them, also after a commit.                                              *)
Throw(p) ==
  /\ \/ pc[p] \in {"opening", "reading", "writing", "scanning", "deleting", "sizing"} /\ UNCHANGED db
     \/ pc[p] = "writing" /\ db' = Written(p)
  /\ Abort(p)

(* The script's timeout outside tryWithTimeout: timeout_handle abandons the*)
(* action.                                                                 *)
Alarm(p) ==
  /\ pc[p] # "idle"
  /\ timer[p] = "armed"
  /\ Abort(p)
  /\ UNCHANGED db

(* Someone installs other versions.                                        *)
Upgrade(vs) ==
  /\ clock < MaxOps
  /\ clock' = clock + 1
  /\ installed' = vs
  /\ UNCHANGED <<db, cache, stats, pc, job, timer, history>>

ProofStep(p) ==
  \/ LookupHits(p) \/ LookupMisses(p) \/ LookupFails(p) \/ Touch(p)
  \/ Solve(p) \/ SolverFails(p)
  \/ Insert(p) \/ InsertFails(p) \/ CountInsert(p) \/ Answer(p)

UpkeepStep(p) ==
  \/ Open(p) \/ ReadAll(p) \/ WriteAll(p)
  \/ Scan(p) \/ DeleteDoomed(p) \/ Size(p)
  \/ Throw(p)

Next ==
  \/ \E vs \in Setups \ {installed} : Upgrade(vs)
  \/ \E p \in Procs :
       \/ \E q \in Queries : Prove(p, q)
       \/ \E path \in Paths : OpenPath(p, path) \/ SetPath(p, path)
       \/ Clean(p) \/ ShowStats(p)
       \/ ProofStep(p) \/ UpkeepStep(p)
       \/ Alarm(p)

Spec == Init /\ [][Next]_vars

(* Haskell runs what a script started; nothing obliges the script to start *)
(* anything, or a timeout to fire.  A solver answers, or fails, at last.   *)
FairSpec == Spec /\ \A p \in Procs : WF_vars(ProofStep(p)) /\ WF_vars(UpkeepStep(p))
=============================================================================
