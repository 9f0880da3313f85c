-------------------------- MODULE SolverCacheProofs -------------------------
(***************************************************************************)
(* For any number of processes, paths, queries and versions: the cache     *)
(* implements ProverOracle, and never loses what it was given.             *)
(***************************************************************************)
EXTENDS SolverCacheProperties, TLAPS

(* Every entry, wherever it is or is being carried, and every answer a     *)
(* proof has in hand, came from a solver for its key.                      *)
Holds(d, k) == d[k] # NoEntry => <<k, d[k].answer>> \in computed

EntriesComputed ==
  /\ \A f \in Paths, k \in Keys : Holds(db[f], k)
  /\ \A p \in Procs, k \in Keys : Holds(job[p].carried, k)

Answered == {"touching", "inserting", "counting", "answering"}

FoundComputed ==
  \A p \in Procs : pc[p] \in Answered => <<job[p].key, job[p].found>> \in computed

Keyed == \A p \in Procs : pc[p] \in Answered \cup {"looking", "solving"} => job[p].key \in Keys

(* The operation that uses the database has one.                           *)
HasPath ==
  \A p \in Procs :
    /\ pc[p] \in {"looking", "touching", "inserting", "counting", "reading", "writing",
                  "scanning", "deleting", "sizing"} => Enabled(p)
    /\ pc[p] \in {"opening", "reading", "writing"} => job[p].path \in Paths

(* What is doomed does not match the versions the cleaning started with.   *)
DoomedMismatched ==
  \A p \in Procs : \A k \in job[p].doomed : Mismatched(job[p].wanted, k)

(* A process that relies on entries has its cache open, and would again    *)
(* after an abort; while it moves to another path it carries them.         *)
KeptCarried ==
  \A p \in Procs :
    /\ kept[p] # {} => cache[p].open
    /\ pc[p] # "idle" =>
         /\ job[p].saved.path = cache[p].path
         /\ kept[p] # {} => job[p].saved.open
    /\ pc[p] = "opening" => kept[p] = {} \/ job[p].path = cache[p].path
    /\ pc[p] = "writing" => \A k \in kept[p] : job[p].carried[k] # NoEntry

CacheInv ==
  /\ TypeOK
  /\ EntriesComputed
  /\ FoundComputed
  /\ Keyed
  /\ HasPath
  /\ DoomedMismatched
  /\ KeptCarried
  /\ Remembered

-----------------------------------------------------------------------------
(* Types.                                                                  *)
LEMMA NoJobType == NoJob \in Jobs
<1>1. EmptyDB \in Databases
  BY DEF EmptyDB, Databases
<1>2. QED
  BY <1>1 DEF NoJob, Jobs, CacheStates

(* KeyOf builds keys.                                                      *)
LEMMA KeyType ==
  ASSUME NEW vs \in Setups, NEW q \in Queries
  PROVE  KeyOf(vs, q) \in Keys
BY DEF Keys

(* The answers to a key's query are answers.                               *)
LEMMA AnswerType ==
  ASSUME NEW k \in Keys, NEW a \in AnswersTo[k.query]
  PROVE  a \in Answers
<1>1. k.query \in Queries
  BY DEF Keys, KeyOf
<1>2. QED
  BY <1>1 DEF Answers

(* What an entry holds is an answer.                                       *)
LEMMA EntryType ==
  ASSUME TypeOK, NEW f \in Paths, NEW k \in Keys, db[f][k] # NoEntry
  PROVE  db[f][k] \in Entries /\ db[f][k].answer \in Answers
<1>1. db[f] \in Databases
  BY DEF TypeOK
<1>2. db[f][k] \in Entries
  BY <1>1 DEF Databases
<1>3. QED
  BY <1>2 DEF Entries

(* The three ways a transaction changes a database make databases.         *)
LEMMA TouchedType ==
  ASSUME TypeOK, NEW p \in Procs, job[p].key \in Keys, Enabled(p)
  PROVE  Touched(p) \in [Paths -> Databases]
<1> DEFINE f == cache[p].path
           k == job[p].key
           e == [db[f][k] EXCEPT !.used = TRUE]
<1>1. f \in Paths
  BY DEF TypeOK, CacheStates, Enabled
<1>2. CASE db[f][k] = NoEntry
  BY <1>2 DEF Touched, Current, TypeOK
<1>3. CASE db[f][k] # NoEntry
  <2>1. e \in Entries
    BY <1>1, <1>3, EntryType DEF Entries
  <2>2. db[f] \in Databases
    BY <1>1 DEF TypeOK
  <2>3. [db[f] EXCEPT ![k] = e] \in Databases
    BY <2>1, <2>2 DEF Databases
  <2>4. Touched(p) = [db EXCEPT ![f] = [db[f] EXCEPT ![k] = e]]
    BY <1>1, <1>3, <2>2 DEF Touched, Current, TypeOK
  <2>5. QED
    BY <2>3, <2>4 DEF TypeOK
<1>4. QED
  BY <1>2, <1>3

(* Inserting an entry.                                                     *)
LEMMA InsertedType ==
  ASSUME TypeOK, NEW p \in Procs, job[p].key \in Keys, job[p].found \in Answers, Enabled(p)
  PROVE  Inserted(p) \in [Paths -> Databases]
<1> DEFINE f == cache[p].path
           e == [answer |-> job[p].found, used |-> FALSE]
<1>1. f \in Paths
  BY DEF TypeOK, CacheStates, Enabled
<1>2. e \in Entries
  BY DEF Entries
<1>3. db[f] \in Databases
  BY <1>1 DEF TypeOK
<1>4. [db[f] EXCEPT ![job[p].key] = e] \in Databases
  BY <1>2, <1>3 DEF Databases
<1>5. QED
  BY <1>4 DEF Inserted, TypeOK

(* Copying the entries that were read.                                     *)
LEMMA WrittenType ==
  ASSUME TypeOK, NEW p \in Procs, job[p].path \in Paths
  PROVE  Written(p) \in [Paths -> Databases]
<1> DEFINE f == job[p].path
           d == [k \in Keys |-> IF job[p].carried[k] # NoEntry THEN job[p].carried[k] ELSE db[f][k]]
<1>1. db[f] \in Databases /\ job[p].carried \in Databases
  BY DEF TypeOK, Jobs
<1>2. d \in Databases
  BY <1>1 DEF Databases
<1>3. QED
  BY <1>2 DEF Written, TypeOK

(* Cleaning.                                                               *)
LEMMA DeletedType ==
  ASSUME TypeOK, NEW p \in Procs, Enabled(p)
  PROVE  Deleted(p) \in [Paths -> Databases]
<1> DEFINE f == cache[p].path
           d == [k \in Keys |-> IF k \in job[p].doomed THEN NoEntry ELSE db[f][k]]
<1>1. f \in Paths
  BY DEF TypeOK, CacheStates, Enabled
<1>2. db[f] \in Databases
  BY <1>1 DEF TypeOK
<1>3. d \in Databases
  BY <1>2 DEF Databases
<1>4. QED
  BY <1>3 DEF Deleted, TypeOK

(* What a transaction does to each entry.                                  *)
LEMMA TouchedEntry ==
  ASSUME TypeOK, NEW p \in Procs, job[p].key \in Keys, Enabled(p),
         NEW f \in Paths, NEW k \in Keys
  PROVE  /\ Touched(p)[f][k] = NoEntry <=> db[f][k] = NoEntry
         /\ db[f][k] # NoEntry => Touched(p)[f][k].answer = db[f][k].answer
<1> DEFINE g == cache[p].path
           e == [db[g][job[p].key] EXCEPT !.used = TRUE]
<1>1. g \in Paths
  BY DEF TypeOK, CacheStates, Enabled
<1>2. CASE db[g][job[p].key] = NoEntry
  BY <1>2 DEF Touched, Current
<1>3. CASE db[g][job[p].key] # NoEntry
  <2>1. db[g][job[p].key] \in Entries
    BY <1>1, <1>3, EntryType
  <2>2. e \in Entries /\ e.answer = db[g][job[p].key].answer
    BY <2>1 DEF Entries
  <2>3. e # NoEntry
    BY <2>2, CacheAssumption
  <2>4. db[f] \in Databases /\ db[g] \in Databases
    BY <1>1 DEF TypeOK
  <2>5. Touched(p)[f][k] = IF f = g /\ k = job[p].key THEN e ELSE db[f][k]
    BY <1>1, <1>3, <2>4 DEF Touched, Current, TypeOK, Databases
  <2>6. QED
    BY <1>3, <2>2, <2>3, <2>5
<1>4. QED
  BY <1>2, <1>3

(* Insertion replaces one entry, whatever it was.                          *)
LEMMA InsertedEntry ==
  ASSUME TypeOK, NEW p \in Procs, job[p].key \in Keys, job[p].found \in Answers, Enabled(p),
         NEW f \in Paths, NEW k \in Keys
  PROVE  /\ Inserted(p)[f][k] = IF f = cache[p].path /\ k = job[p].key
                                THEN [answer |-> job[p].found, used |-> FALSE]
                                ELSE db[f][k]
         /\ [answer |-> job[p].found, used |-> FALSE] # NoEntry
<1>1. cache[p].path \in Paths
  BY DEF TypeOK, CacheStates, Enabled
<1>2. db[f] \in Databases /\ db[cache[p].path] \in Databases
  BY <1>1 DEF TypeOK
<1>3. [answer |-> job[p].found, used |-> FALSE] \in Entries
  BY DEF Entries
<1>4. QED
  BY <1>1, <1>2, <1>3, CacheAssumption DEF Inserted, TypeOK, Databases

(* Copying keeps an entry unless another is carried under its key.         *)
LEMMA WrittenEntry ==
  ASSUME TypeOK, NEW p \in Procs, job[p].path \in Paths, NEW f \in Paths, NEW k \in Keys
  PROVE  Written(p)[f][k] = IF f = job[p].path /\ job[p].carried[k] # NoEntry
                            THEN job[p].carried[k] ELSE db[f][k]
BY DEF Written, TypeOK, Databases

(* Cleaning takes the doomed entries of one database.                      *)
LEMMA DeletedEntry ==
  ASSUME TypeOK, NEW p \in Procs, Enabled(p), NEW f \in Paths, NEW k \in Keys
  PROVE  Deleted(p)[f][k] = IF f = cache[p].path /\ k \in job[p].doomed
                            THEN NoEntry ELSE db[f][k]
BY DEF Deleted, TypeOK, Databases

(* A proof with an answer in hand has a key and an answer.                 *)
LEMMA HandType ==
  ASSUME CacheInv, NEW p \in Procs, pc[p] \in Answered
  PROVE  job[p].key \in Keys /\ job[p].found \in Answers
BY DEF CacheInv, TypeOK, FoundComputed

(* The transactions that change a database, and who does them.             *)
LEMMA DbStep ==
  ASSUME CacheInv, Next
  PROVE  \/ db' = db
         \/ \E p \in Procs :
              \/ pc[p] = "touching" /\ db' = Touched(p)
              \/ pc[p] = "inserting" /\ db' = Inserted(p)
              \/ pc[p] = "writing" /\ db' = Written(p)
              \/ DeleteDoomed(p)
BY DEF Next, ProofStep, UpkeepStep, Upgrade, Prove, OpenPath, SetPath, Clean, ShowStats,
       LookupHits, LookupMisses, LookupFails, Touch, Solve, SolverFails, Insert,
       InsertFails, CountInsert, Answer, Open, ReadAll, WriteAll, Scan, Size, Throw, Alarm

(* What becomes of an entry.                                               *)
Same(f, k) ==
  /\ db'[f][k] = NoEntry <=> db[f][k] = NoEntry
  /\ db[f][k] # NoEntry => db'[f][k].answer = db[f][k].answer

Stored(p, f, k) ==
  /\ pc[p] = "inserting" /\ cache[p].path = f /\ job[p].key = k
  /\ db'[f][k] # NoEntry /\ db'[f][k].answer = job[p].found

Copied(p, f, k) ==
  /\ pc[p] = "writing" /\ job[p].path = f
  /\ job[p].carried[k] # NoEntry /\ db'[f][k] = job[p].carried[k]

Cleaned(p, f, k) ==
  DeleteDoomed(p) /\ cache[p].path = f /\ k \in job[p].doomed

(* Every step leaves an entry, stores it, copies it or cleans it away.     *)
LEMMA EntryStep ==
  ASSUME CacheInv, Next, NEW f \in Paths, NEW k \in Keys
  PROVE  \/ Same(f, k)
         \/ \E p \in Procs : Stored(p, f, k) \/ Copied(p, f, k) \/ Cleaned(p, f, k)
<1> USE DEF CacheInv, HasPath
<1>1. CASE db' = db
  BY <1>1 DEF Same
<1>2. ASSUME NEW p \in Procs, pc[p] = "touching", db' = Touched(p)
      PROVE  Same(f, k)
  BY <1>2, TouchedEntry, HandType DEF Same, Answered
<1>3. ASSUME NEW p \in Procs, pc[p] = "inserting", db' = Inserted(p)
      PROVE  Same(f, k) \/ Stored(p, f, k)
  <2>1. /\ db'[f][k] = IF f = cache[p].path /\ k = job[p].key
                       THEN [answer |-> job[p].found, used |-> FALSE] ELSE db[f][k]
        /\ [answer |-> job[p].found, used |-> FALSE] # NoEntry
    BY <1>3, InsertedEntry, HandType DEF Answered
  <2>2. QED
    BY <1>3, <2>1 DEF Same, Stored
<1>4. ASSUME NEW p \in Procs, pc[p] = "writing", db' = Written(p)
      PROVE  Same(f, k) \/ Copied(p, f, k)
  BY <1>4, WrittenEntry DEF Same, Copied
<1>5. ASSUME NEW p \in Procs, DeleteDoomed(p)
      PROVE  Same(f, k) \/ Cleaned(p, f, k)
  BY <1>5, DeletedEntry DEF Same, Cleaned, DeleteDoomed
<1>6. QED
  BY <1>1, <1>2, <1>3, <1>4, <1>5, DbStep

(* Solvers' answers are never forgotten.                                   *)
LEMMA ComputedGrows ==
  ASSUME Next
  PROVE  computed \subseteq computed'
BY DEF Next, ProofStep, UpkeepStep, Upgrade, Prove, OpenPath, SetPath, Clean, ShowStats,
       LookupHits, LookupMisses, LookupFails, Touch, Solve, SolverFails, Insert, InsertFails,
       CountInsert, Answer, Open, ReadAll, WriteAll, Scan, DeleteDoomed, Size, Throw, Alarm,
       Abort, history

CarriedSame(r) == job'[r].carried = job[r].carried \/ job'[r].carried = EmptyDB \/ ReadAll(r)

(* A job carries nothing, or what it read.                                 *)
LEMMA CarriedStep ==
  ASSUME CacheInv, Next, NEW r \in Procs
  PROVE  CarriedSame(r)
<1> USE DEF CacheInv, TypeOK, Jobs, NoJob, CarriedSame, history, control
<1>1. CASE \E vs \in Setups \ {installed} : Upgrade(vs)
  BY <1>1 DEF Upgrade
<1>2. ASSUME NEW p \in Procs, NEW q \in Queries, Prove(p, q) PROVE CarriedSame(r)
  BY <1>2 DEF Prove, Begin, Goto
<1>3. ASSUME NEW p \in Procs, NEW path \in Paths, OpenPath(p, path) PROVE CarriedSame(r)
  BY <1>3 DEF OpenPath, Begin, Goto
<1>4. ASSUME NEW p \in Procs, NEW path \in Paths, SetPath(p, path) PROVE CarriedSame(r)
  BY <1>4 DEF SetPath, Begin, Goto
<1>5. ASSUME NEW p \in Procs, Clean(p) PROVE CarriedSame(r)
  BY <1>5 DEF Clean, Begin, Goto
<1>6. ASSUME NEW p \in Procs, ShowStats(p) PROVE CarriedSame(r)
  BY <1>6 DEF ShowStats, Begin, Goto
<1>7. ASSUME NEW p \in Procs, LookupHits(p) PROVE CarriedSame(r)
  BY <1>7 DEF LookupHits, Current, Opened, Goto
<1>8. ASSUME NEW p \in Procs, LookupMisses(p) PROVE CarriedSame(r)
  BY <1>8 DEF LookupMisses, Current, Opened, Goto
<1>9. ASSUME NEW p \in Procs, LookupFails(p) PROVE CarriedSame(r)
  BY <1>9 DEF LookupFails, Opened, Goto
<1>10. ASSUME NEW p \in Procs, Touch(p) PROVE CarriedSame(r)
  BY <1>10 DEF Touch, Current, Goto
<1>11. ASSUME NEW p \in Procs, Solve(p) PROVE CarriedSame(r)
  BY <1>11 DEF Solve, Goto
<1>12. ASSUME NEW p \in Procs, SolverFails(p) PROVE CarriedSame(r)
  BY <1>12 DEF SolverFails, Abort, Return, Goto
<1>13. ASSUME NEW p \in Procs, Insert(p) PROVE CarriedSame(r)
  BY <1>13 DEF Insert, Opened, Goto
<1>14. ASSUME NEW p \in Procs, InsertFails(p) PROVE CarriedSame(r)
  BY <1>14 DEF InsertFails, Opened, Goto
<1>15. ASSUME NEW p \in Procs, CountInsert(p) PROVE CarriedSame(r)
  BY <1>15 DEF CountInsert, Goto
<1>16. ASSUME NEW p \in Procs, Answer(p) PROVE CarriedSame(r)
  BY <1>16 DEF Answer, Return, Current, Goto
<1>17. ASSUME NEW p \in Procs, Open(p) PROVE CarriedSame(r)
  BY <1>17 DEF Open, Return, Goto
<1>18. ASSUME NEW p \in Procs, ReadAll(p) PROVE CarriedSame(r)
  BY <1>18 DEF ReadAll, Goto
<1>19. ASSUME NEW p \in Procs, WriteAll(p) PROVE CarriedSame(r)
  BY <1>19 DEF WriteAll, Return, Goto
<1>20. ASSUME NEW p \in Procs, Scan(p) PROVE CarriedSame(r)
  BY <1>20 DEF Scan, Goto
<1>21. ASSUME NEW p \in Procs, DeleteDoomed(p) PROVE CarriedSame(r)
  BY <1>21 DEF DeleteDoomed, Goto
<1>22. ASSUME NEW p \in Procs, Size(p) PROVE CarriedSame(r)
  BY <1>22 DEF Size, Return, Opened, Goto
<1>23. ASSUME NEW p \in Procs, Throw(p) PROVE CarriedSame(r)
  BY <1>23 DEF Throw, Abort, Return, Goto
<1>24. ASSUME NEW p \in Procs, Alarm(p) PROVE CarriedSame(r)
  BY <1>24 DEF Alarm, Abort, Return, Goto
<1>25. QED
  BY <1>1, <1>2, <1>3, <1>4, <1>5, <1>6, <1>7, <1>8, <1>9, <1>10, <1>11, <1>12, <1>13, <1>14,
     <1>15, <1>16, <1>17, <1>18, <1>19, <1>20, <1>21, <1>22, <1>23, <1>24 DEF Next, ProofStep,
     UpkeepStep

(* Every step keeps EntriesComputed: entries are inserted with the answer  *)
(* the solver gave, and copied.                                            *)
LEMMA EntriesStep ==
  ASSUME CacheInv, Next
  PROVE  EntriesComputed'
<1> USE DEF CacheInv, EntriesComputed, Holds
<1>1. ASSUME NEW f \in Paths, NEW k \in Keys, db'[f][k] # NoEntry
      PROVE  <<k, db'[f][k].answer>> \in computed
  BY <1>1, EntryStep, DeletedEntry
     DEF Same, Stored, Copied, Cleaned, DeleteDoomed, FoundComputed, Answered, HasPath
<1>2. ASSUME NEW p \in Procs, NEW k \in Keys, job'[p].carried[k] # NoEntry
      PROVE  <<k, job'[p].carried[k].answer>> \in computed
  <2>1. \/ job'[p].carried = job[p].carried
        \/ job'[p].carried = EmptyDB
        \/ ReadAll(p)
    BY CarriedStep DEF CarriedSame
  <2>2. CASE ReadAll(p)
    BY <1>2, <2>2 DEF ReadAll, TypeOK, HasPath, Enabled, CacheStates, Jobs
  <2>3. QED
    BY <1>2, <2>1, <2>2 DEF EmptyDB
<1>3. QED
  BY <1>1, <1>2, ComputedGrows

(* Opening a cache keeps its path.                                         *)
LEMMA OpenedPath ==
  ASSUME TypeOK, NEW p \in Procs, NEW r \in Procs
  PROVE  /\ Opened(p)[r].path = cache[r].path
         /\ cache[r].open => Opened(p)[r].open
         /\ Opened(p)[p].open
BY DEF TypeOK, CacheStates, Opened

PathSame(r) == cache'[r].path = cache[r].path \/ Open(r) \/ WriteAll(r)

(* A cache changes its path only when it has opened the other one, and     *)
(* copied what it had.                                                     *)
LEMMA PathStep ==
  ASSUME CacheInv, Next, NEW r \in Procs
  PROVE  PathSame(r)
<1> USE DEF CacheInv, TypeOK, CacheStates, Jobs, KeptCarried, PathSame, history, control
<1>1. CASE \E vs \in Setups \ {installed} : Upgrade(vs)
  BY <1>1 DEF Upgrade
<1>2. ASSUME NEW p \in Procs, NEW q \in Queries, Prove(p, q) PROVE PathSame(r)
  BY <1>2 DEF Prove, Begin, Goto
<1>3. ASSUME NEW p \in Procs, NEW path \in Paths, OpenPath(p, path) PROVE PathSame(r)
  BY <1>3 DEF OpenPath, Begin, Goto
<1>4. ASSUME NEW p \in Procs, NEW path \in Paths, SetPath(p, path) PROVE PathSame(r)
  BY <1>4 DEF SetPath, Begin, Goto
<1>5. ASSUME NEW p \in Procs, Clean(p) PROVE PathSame(r)
  BY <1>5 DEF Clean, Begin, Goto
<1>6. ASSUME NEW p \in Procs, ShowStats(p) PROVE PathSame(r)
  BY <1>6 DEF ShowStats, Begin, Goto
<1>7. ASSUME NEW p \in Procs, LookupHits(p) PROVE PathSame(r)
  BY <1>7 DEF LookupHits, Current, Opened, Goto
<1>8. ASSUME NEW p \in Procs, LookupMisses(p) PROVE PathSame(r)
  BY <1>8 DEF LookupMisses, Current, Opened, Goto
<1>9. ASSUME NEW p \in Procs, LookupFails(p) PROVE PathSame(r)
  BY <1>9, OpenedPath DEF LookupFails
<1>10. ASSUME NEW p \in Procs, Touch(p) PROVE PathSame(r)
  BY <1>10 DEF Touch, Current, Goto
<1>11. ASSUME NEW p \in Procs, Solve(p) PROVE PathSame(r)
  BY <1>11 DEF Solve, Goto
<1>12. ASSUME NEW p \in Procs, SolverFails(p) PROVE PathSame(r)
  BY <1>12 DEF SolverFails, Abort, Return, Goto
<1>13. ASSUME NEW p \in Procs, Insert(p) PROVE PathSame(r)
  BY <1>13 DEF Insert, Opened, Goto
<1>14. ASSUME NEW p \in Procs, InsertFails(p) PROVE PathSame(r)
  BY <1>14, OpenedPath DEF InsertFails
<1>15. ASSUME NEW p \in Procs, CountInsert(p) PROVE PathSame(r)
  BY <1>15 DEF CountInsert, Goto
<1>16. ASSUME NEW p \in Procs, Answer(p) PROVE PathSame(r)
  BY <1>16 DEF Answer, Return, Current, Goto
<1>17. ASSUME NEW p \in Procs, Open(p) PROVE PathSame(r)
  BY <1>17 DEF Open, Return, Goto
<1>18. ASSUME NEW p \in Procs, ReadAll(p) PROVE PathSame(r)
  BY <1>18 DEF ReadAll, Goto
<1>19. ASSUME NEW p \in Procs, WriteAll(p) PROVE PathSame(r)
  BY <1>19 DEF WriteAll, Return, Goto
<1>20. ASSUME NEW p \in Procs, Scan(p) PROVE PathSame(r)
  BY <1>20 DEF Scan, Goto
<1>21. ASSUME NEW p \in Procs, DeleteDoomed(p) PROVE PathSame(r)
  BY <1>21 DEF DeleteDoomed, Goto
<1>22. ASSUME NEW p \in Procs, Size(p) PROVE PathSame(r)
  BY <1>22 DEF Size, Return, Opened, Goto
<1>23. ASSUME NEW p \in Procs, Throw(p) PROVE PathSame(r)
  BY <1>23 DEF Throw, Abort, Return, Goto
<1>24. ASSUME NEW p \in Procs, Alarm(p) PROVE PathSame(r)
  BY <1>24 DEF Alarm, Abort, Return, Goto
<1>25. QED
  BY <1>1, <1>2, <1>3, <1>4, <1>5, <1>6, <1>7, <1>8, <1>9, <1>10, <1>11, <1>12, <1>13, <1>14,
     <1>15, <1>16, <1>17, <1>18, <1>19, <1>20, <1>21, <1>22, <1>23, <1>24 DEF Next, ProofStep,
     UpkeepStep

(* Only a proof that ends adds to what a process relies on.                *)
LEMMA ReliedOn ==
  ASSUME CacheInv, Next, NEW r \in Procs, NEW k \in kept'[r]
  PROVE  k \in kept[r] \/ Answer(r)
<1> USE DEF CacheInv, TypeOK, history, control
<1>1. CASE \E vs \in Setups \ {installed} : Upgrade(vs)
  BY <1>1 DEF Upgrade
<1>2. ASSUME NEW p \in Procs, NEW q \in Queries, Prove(p, q) PROVE k \in kept[r] \/ Answer(r)
  BY <1>2 DEF Prove, Begin, Goto
<1>3. ASSUME NEW p \in Procs, NEW path \in Paths, OpenPath(p, path)
      PROVE  k \in kept[r] \/ Answer(r)
  BY <1>3 DEF OpenPath, Begin, Goto
<1>4. ASSUME NEW p \in Procs, NEW path \in Paths, SetPath(p, path)
      PROVE  k \in kept[r] \/ Answer(r)
  BY <1>4 DEF SetPath, Begin, Goto
<1>5. ASSUME NEW p \in Procs, Clean(p) PROVE k \in kept[r] \/ Answer(r)
  BY <1>5 DEF Clean, Begin, Goto
<1>6. ASSUME NEW p \in Procs, ShowStats(p) PROVE k \in kept[r] \/ Answer(r)
  BY <1>6 DEF ShowStats, Begin, Goto
<1>7. ASSUME NEW p \in Procs, LookupHits(p) PROVE k \in kept[r] \/ Answer(r)
  BY <1>7 DEF LookupHits, Current, Opened, Goto
<1>8. ASSUME NEW p \in Procs, LookupMisses(p) PROVE k \in kept[r] \/ Answer(r)
  BY <1>8 DEF LookupMisses, Current, Opened, Goto
<1>9. ASSUME NEW p \in Procs, LookupFails(p) PROVE k \in kept[r] \/ Answer(r)
  BY <1>9 DEF LookupFails, Opened, Goto
<1>10. ASSUME NEW p \in Procs, Touch(p) PROVE k \in kept[r] \/ Answer(r)
  BY <1>10 DEF Touch, Current, Goto
<1>11. ASSUME NEW p \in Procs, Solve(p) PROVE k \in kept[r] \/ Answer(r)
  BY <1>11 DEF Solve, Goto
<1>12. ASSUME NEW p \in Procs, SolverFails(p) PROVE k \in kept[r] \/ Answer(r)
  BY <1>12 DEF SolverFails, Abort, Return, Goto
<1>13. ASSUME NEW p \in Procs, Insert(p) PROVE k \in kept[r] \/ Answer(r)
  BY <1>13 DEF Insert, Opened, Goto
<1>14. ASSUME NEW p \in Procs, InsertFails(p) PROVE k \in kept[r] \/ Answer(r)
  BY <1>14 DEF InsertFails, Opened, Goto
<1>15. ASSUME NEW p \in Procs, CountInsert(p) PROVE k \in kept[r] \/ Answer(r)
  BY <1>15 DEF CountInsert, Goto
<1>16. ASSUME NEW p \in Procs, Answer(p) PROVE k \in kept[r] \/ Answer(r)
  <2>1. CASE p # r
    <3>1. kept'[r] = kept[r]
      BY <1>16, <2>1 DEF Answer
    <3>2. QED
      BY <3>1
  <2>2. QED
    BY <1>16, <2>1
<1>17. ASSUME NEW p \in Procs, Open(p) PROVE k \in kept[r] \/ Answer(r)
  BY <1>17 DEF Open, Return, Goto
<1>18. ASSUME NEW p \in Procs, ReadAll(p) PROVE k \in kept[r] \/ Answer(r)
  BY <1>18 DEF ReadAll, Goto
<1>19. ASSUME NEW p \in Procs, WriteAll(p) PROVE k \in kept[r] \/ Answer(r)
  BY <1>19 DEF WriteAll, Return, Goto
<1>20. ASSUME NEW p \in Procs, Scan(p) PROVE k \in kept[r] \/ Answer(r)
  BY <1>20 DEF Scan, Goto
<1>21. ASSUME NEW p \in Procs, DeleteDoomed(p) PROVE k \in kept[r] \/ Answer(r)
  BY <1>21 DEF DeleteDoomed, Goto
<1>22. ASSUME NEW p \in Procs, Size(p) PROVE k \in kept[r] \/ Answer(r)
  BY <1>22 DEF Size, Return, Opened, Goto
<1>23. ASSUME NEW p \in Procs, Throw(p) PROVE k \in kept[r] \/ Answer(r)
  BY <1>23 DEF Throw, Abort, Return, Goto
<1>24. ASSUME NEW p \in Procs, Alarm(p) PROVE k \in kept[r] \/ Answer(r)
  BY <1>24 DEF Alarm, Abort, Return, Goto
<1>25. QED
  BY <1>1, <1>2, <1>3, <1>4, <1>5, <1>6, <1>7, <1>8, <1>9, <1>10, <1>11, <1>12, <1>13, <1>14,
     <1>15, <1>16, <1>17, <1>18, <1>19, <1>20, <1>21, <1>22, <1>23, <1>24 DEF Next, ProofStep,
     UpkeepStep


(* The helpers of the actions keep the types.                              *)
LEMMA GotoType ==
  ASSUME TypeOK, NEW p \in Procs, NEW label \in Labels, Goto(p, label)
  PROVE  pc' \in [Procs -> Labels]
BY DEF TypeOK, Goto

(* Opening a cache gives a cache.                                          *)
LEMMA OpenedType ==
  ASSUME TypeOK, NEW p \in Procs
  PROVE  Opened(p) \in [Procs -> CacheStates]
BY DEF TypeOK, Opened, CacheStates

(* Counting keeps the statistics natural numbers.                          *)
LEMMA CountType ==
  ASSUME TypeOK, NEW p \in Procs, NEW stat \in Stats, CountOne(p, stat)
  PROVE  stats' \in [Procs -> [Stats -> Nat]]
<1>1. stats[p] \in [Stats -> Nat]
  BY DEF TypeOK
<1>2. [stats[p] EXCEPT ![stat] = stats[p][stat] + 1] \in [Stats -> Nat]
  BY <1>1
<1>3. stats' = [stats EXCEPT ![p] = [stats[p] EXCEPT ![stat] = stats[p][stat] + 1]]
  BY <1>1 DEF CountOne, TypeOK
<1>4. QED
  BY <1>2, <1>3 DEF TypeOK

(* An exception that tryWithTimeout caught may use the timer up.           *)
LEMMA CaughtType ==
  ASSUME TypeOK, NEW p \in Procs, Caught(p)
  PROVE  timer' \in [Procs -> {"off", "armed", "fired"}]
BY DEF TypeOK, Caught

(* Starting an operation, under a timeout or not.                          *)
LEMMA BeginType ==
  ASSUME TypeOK, NEW p \in Procs, NEW label \in Labels, NEW what \in Jobs, Begin(p, label, what)
  PROVE  /\ pc' \in [Procs -> Labels]
         /\ job' \in [Procs -> Jobs]
         /\ timer' \in [Procs -> {"off", "armed", "fired"}]
         /\ clock' \in Nat
<1>1. [what EXCEPT !.saved = cache[p]] \in Jobs
  BY DEF TypeOK, Jobs
<1>2. job' \in [Procs -> Jobs]
  BY <1>1 DEF Begin, TypeOK
<1>3. timer' \in [Procs -> {"off", "armed", "fired"}]
  BY DEF Begin, TypeOK
<1>4. clock' \in Nat
  BY DEF Begin, TypeOK
<1>5. QED
  BY <1>2, <1>3, <1>4, GotoType DEF Begin

(* A field of the job in progress is filled in.                            *)
LEMMA JobFieldType ==
  ASSUME TypeOK, NEW p \in Procs
  PROVE  /\ \A a \in Answers : [job EXCEPT ![p].found = a] \in [Procs -> Jobs]
         /\ \A d \in Databases : [job EXCEPT ![p].carried = d] \in [Procs -> Jobs]
         /\ \A S \in SUBSET Keys : [job EXCEPT ![p].doomed = S] \in [Procs -> Jobs]
<1>1. job[p] \in Jobs
  BY DEF TypeOK
<1>2. ASSUME NEW a \in Answers PROVE [job EXCEPT ![p].found = a] \in [Procs -> Jobs]
  <2>1. [job[p] EXCEPT !.found = a] \in Jobs
    BY <1>1 DEF Jobs
  <2>2. QED
    BY <2>1 DEF TypeOK
<1>3. ASSUME NEW d \in Databases PROVE [job EXCEPT ![p].carried = d] \in [Procs -> Jobs]
  <2>1. [job[p] EXCEPT !.carried = d] \in Jobs
    BY <1>1 DEF Jobs
  <2>2. QED
    BY <2>1 DEF TypeOK
<1>4. ASSUME NEW S \in SUBSET Keys PROVE [job EXCEPT ![p].doomed = S] \in [Procs -> Jobs]
  <2>1. [job[p] EXCEPT !.doomed = S] \in Jobs
    BY <1>1 DEF Jobs
  <2>2. QED
    BY <2>1 DEF TypeOK
<1>5. QED
  BY <1>2, <1>3, <1>4

(* The end of an operation.                                                *)
LEMMA ReturnType ==
  ASSUME TypeOK, NEW p \in Procs, Return(p)
  PROVE  /\ pc' \in [Procs -> Labels]
         /\ job' \in [Procs -> Jobs]
         /\ timer' \in [Procs -> {"off", "armed", "fired"}]
BY NoJobType DEF Return, Goto, TypeOK, Labels

(* Abandoning an operation, with the database in any state.                *)
LEMMA AbortType ==
  ASSUME TypeOK, NEW p \in Procs, Abort(p), db' \in [Paths -> Databases]
  PROVE  TypeOK'
<1>1. job[p].saved \in CacheStates
  BY DEF TypeOK, Jobs
<1>2. cache' \in [Procs -> CacheStates]
  BY <1>1 DEF Abort, TypeOK
<1>3. aborted' \in [Procs -> Nat]
  BY DEF Abort, TypeOK
<1>4. QED
  BY <1>2, <1>3, ReturnType DEF Abort, TypeOK


(* Every step keeps the types.                                             *)
LEMMA TypeStep ==
  ASSUME CacheInv, Next
  PROVE  TypeOK'
<1> USE DEF CacheInv, Keyed, HasPath, Answered, Labels, control, history
<1>1. CASE \E vs \in Setups \ {installed} : Upgrade(vs)
  BY <1>1 DEF Upgrade, TypeOK
<1>2. ASSUME NEW p \in Procs, NEW q \in Queries, Prove(p, q) PROVE TypeOK'
  <2>1. [NoJob EXCEPT !.key = KeyOf(installed, q)] \in Jobs
    BY NoJobType, KeyType DEF Jobs, TypeOK
  <2>2. QED
    BY <1>2, <2>1, BeginType DEF Prove, TypeOK
<1>3. ASSUME NEW p \in Procs, NEW path \in Paths, OpenPath(p, path) PROVE TypeOK'
  <2>1. [NoJob EXCEPT !.path = path] \in Jobs
    BY NoJobType DEF Jobs, TypeOK
  <2>2. QED
    BY <1>3, <2>1, BeginType DEF OpenPath, TypeOK
<1>4. ASSUME NEW p \in Procs, NEW path \in Paths, SetPath(p, path) PROVE TypeOK'
  <2>1. [NoJob EXCEPT !.path = path] \in Jobs
    BY NoJobType DEF Jobs, TypeOK
  <2>2. QED
    BY <1>4, <2>1, BeginType DEF SetPath, TypeOK
<1>5. ASSUME NEW p \in Procs, Clean(p) PROVE TypeOK'
  <2>1. [NoJob EXCEPT !.wanted = installed] \in Jobs
    BY NoJobType DEF Jobs, TypeOK
  <2>2. QED
    BY <1>5, <2>1, BeginType DEF Clean, TypeOK
<1>6. ASSUME NEW p \in Procs, ShowStats(p) PROVE TypeOK'
  BY <1>6, NoJobType, BeginType DEF ShowStats, TypeOK
<1>7. ASSUME NEW p \in Procs, LookupHits(p) PROVE TypeOK'
  BY <1>7, EntryType, OpenedType, CountType, GotoType, JobFieldType DEF LookupHits, TypeOK,
     Current, Stats, Enabled, CacheStates
<1>8. ASSUME NEW p \in Procs, LookupMisses(p) PROVE TypeOK'
  BY <1>8, OpenedType, GotoType DEF LookupMisses, TypeOK
<1>9. ASSUME NEW p \in Procs, LookupFails(p) PROVE TypeOK'
  BY <1>9, OpenedType, CountType, GotoType, CaughtType DEF LookupFails, TypeOK, Stats
<1>10. ASSUME NEW p \in Procs, Touch(p) PROVE TypeOK'
  BY <1>10, TouchedType, HandType, GotoType, CaughtType DEF Touch, TypeOK
<1>11. ASSUME NEW p \in Procs, Solve(p) PROVE TypeOK'
  BY <1>11, AnswerType, JobFieldType, GotoType DEF Solve, TypeOK
<1>12. ASSUME NEW p \in Procs, SolverFails(p) PROVE TypeOK'
  BY <1>12, AbortType DEF SolverFails, TypeOK
<1>13. ASSUME NEW p \in Procs, Insert(p) PROVE TypeOK'
  BY <1>13, InsertedType, HandType, OpenedType, GotoType DEF Insert, TypeOK
<1>14. ASSUME NEW p \in Procs, InsertFails(p) PROVE TypeOK'
  BY <1>14, InsertedType, HandType, OpenedType, CountType, GotoType,
     CaughtType DEF InsertFails, TypeOK, Stats
<1>15. ASSUME NEW p \in Procs, CountInsert(p) PROVE TypeOK'
  BY <1>15, CountType, GotoType DEF CountInsert, TypeOK, Stats
<1>16. ASSUME NEW p \in Procs, Answer(p) PROVE TypeOK'
  <2>1. job[p].key \in Keys /\ job[p].found \in Answers
    BY <1>16, HandType DEF Answer
  <2>2. answer' \in [Procs -> (Keys \X Answers) \cup {NoAnswer}]
    BY <1>16, <2>1 DEF Answer, TypeOK
  <2>3. kept' \in [Procs -> SUBSET Keys]
    <3>1. kept[p] \cup {k \in {job[p].key} : cache[p].open /\ Current(p) # NoEntry} \in SUBSET Keys
      BY <2>1 DEF TypeOK
    <3>2. QED
      BY <1>16, <3>1 DEF Answer, TypeOK
  <2>4. ended' \in [Procs -> Nat]
    <3>1. ended' = ended \/ ended' = [ended EXCEPT ![p] = @ + 1]
      BY <1>16 DEF Answer
    <3>2. QED
      BY <3>1 DEF TypeOK
  <2>5. QED
    BY <1>16, <2>2, <2>3, <2>4, ReturnType DEF Answer, TypeOK
<1>17. ASSUME NEW p \in Procs, Open(p) PROVE TypeOK'
  BY <1>17, ReturnType DEF Open, TypeOK, CacheStates
<1>18. ASSUME NEW p \in Procs, ReadAll(p) PROVE TypeOK'
  BY <1>18, JobFieldType, GotoType DEF ReadAll, TypeOK, CacheStates, Enabled
<1>19. ASSUME NEW p \in Procs, WriteAll(p) PROVE TypeOK'
  BY <1>19, WrittenType, ReturnType DEF WriteAll, TypeOK, CacheStates
<1>20. ASSUME NEW p \in Procs, Scan(p) PROVE TypeOK'
  BY <1>20, JobFieldType, GotoType DEF Scan, TypeOK
<1>21. ASSUME NEW p \in Procs, DeleteDoomed(p) PROVE TypeOK'
  BY <1>21, DeletedType, GotoType DEF DeleteDoomed, TypeOK
<1>22. ASSUME NEW p \in Procs, Size(p) PROVE TypeOK'
  BY <1>22, OpenedType, ReturnType DEF Size, TypeOK
<1>23. ASSUME NEW p \in Procs, Throw(p) PROVE TypeOK'
  BY <1>23, WrittenType, AbortType DEF Throw, TypeOK
<1>24. ASSUME NEW p \in Procs, Alarm(p) PROVE TypeOK'
  BY <1>24, AbortType DEF Alarm, TypeOK
<1>25. QED
  BY <1>1, <1>2, <1>3, <1>4, <1>5, <1>6, <1>7, <1>8, <1>9, <1>10, <1>11, <1>12, <1>13, <1>14,
     <1>15, <1>16, <1>17, <1>18, <1>19, <1>20, <1>21, <1>22, <1>23, <1>24 DEF Next, ProofStep,
     UpkeepStep


(* What a process relies on stays, unless a process cleans it away; then   *)
(* nobody relies on it any more.                                           *)
LEMMA RememberedStep ==
  ASSUME CacheInv, Next
  PROVE  Remembered'
<1> SUFFICES ASSUME NEW r \in Procs, NEW k \in kept'[r]
             PROVE  cache'[r].path # NoPath /\ db'[cache'[r].path][k] # NoEntry
  BY DEF Remembered, Enabled
<1> USE DEF CacheInv
<1> DEFINE f == cache[r].path
<1>0. k \in Keys
  BY TypeStep DEF TypeOK
<1>1. CASE Answer(r)
  <2>1. cache' = cache /\ db' = db
    BY <1>1 DEF Answer
  <2>2. CASE k \in kept[r]
    BY <2>1, <2>2 DEF Remembered, Enabled
  <2>3. CASE k \notin kept[r]
    <3>1. /\ Enabled(r)
          /\ k \in {job[r].key} /\ Current(r) # NoEntry
      BY <1>1, <2>3 DEF Answer, TypeOK
    <3>2. QED
      BY <2>1, <3>1 DEF Current, Enabled
  <2>4. QED
    BY <2>2, <2>3
<1>2. ASSUME k \in kept[r], f # NoPath, f \in Paths, db[f][k] # NoEntry, cache'[r].path = f
      PROVE  db'[f][k] # NoEntry
  <2>1. ASSUME NEW p \in Procs, Cleaned(p, f, k) PROVE FALSE
    <3>1. kept'[r] = kept[r] \ job[p].doomed
      BY <2>1 DEF Cleaned, DeleteDoomed
    <3>2. QED
      BY <2>1, <3>1 DEF Cleaned
  <2>2. QED
    BY <1>0, <1>2, <2>1, EntryStep DEF Same, Stored, Copied
<1>3. ASSUME k \in kept[r], cache'[r].path # f
      PROVE  cache'[r].path # NoPath /\ db'[cache'[r].path][k] # NoEntry
  <2>1. CASE Open(r)
    BY <1>3, <2>1 DEF Open, KeptCarried, TypeOK
  <2>2. CASE WriteAll(r)
    <3>1. cache'[r].path = job[r].path /\ job[r].path \in Paths
      BY <2>2 DEF WriteAll, TypeOK, HasPath
    <3>2. job[r].carried[k] # NoEntry /\ pc[r] = "writing"
      BY <1>3, <2>2 DEF WriteAll, KeptCarried
    <3>3. db'[job[r].path][k] = job[r].carried[k]
      BY <1>0, <2>2, <3>1, <3>2, WrittenEntry DEF WriteAll
    <3>4. QED
      BY <3>1, <3>2, <3>3, CacheAssumption
  <2>3. QED
    BY <1>3, <2>1, <2>2, PathStep DEF PathSame
<1>4. k \in kept[r] => f # NoPath /\ f \in Paths /\ db[f][k] # NoEntry
  BY DEF Remembered, Enabled, TypeOK, CacheStates
<1>5. QED
  BY <1>1, <1>2, <1>3, <1>4, ReliedOn


(* An answer in hand came from the entry of its key, or from the solver.   *)
LEMMA FoundStep ==
  ASSUME CacheInv, Next
  PROVE  FoundComputed'
<1> USE DEF CacheInv, TypeOK, CacheStates, Jobs, EntriesComputed, Holds, FoundComputed,
            Answered, HasPath, Enabled, Keyed, history, control
<1>1. CASE \E vs \in Setups \ {installed} : Upgrade(vs)
  BY <1>1 DEF Upgrade
<1>2. ASSUME NEW p \in Procs, NEW q \in Queries, Prove(p, q) PROVE FoundComputed'
  BY <1>2, CacheAssumption DEF Prove, Begin, Goto
<1>3. ASSUME NEW p \in Procs, NEW path \in Paths, OpenPath(p, path) PROVE FoundComputed'
  BY <1>3, CacheAssumption DEF OpenPath, Begin, Goto
<1>4. ASSUME NEW p \in Procs, NEW path \in Paths, SetPath(p, path) PROVE FoundComputed'
  BY <1>4, CacheAssumption DEF SetPath, Begin, Goto
<1>5. ASSUME NEW p \in Procs, Clean(p) PROVE FoundComputed'
  BY <1>5, CacheAssumption DEF Clean, Begin, Goto
<1>6. ASSUME NEW p \in Procs, ShowStats(p) PROVE FoundComputed'
  BY <1>6, CacheAssumption DEF ShowStats, Begin, Goto
<1>7. ASSUME NEW p \in Procs, LookupHits(p) PROVE FoundComputed'
  BY <1>7, CacheAssumption DEF LookupHits, Current, Opened, CountOne, Goto
<1>8. ASSUME NEW p \in Procs, LookupMisses(p) PROVE FoundComputed'
  BY <1>8, CacheAssumption DEF LookupMisses, Current, Opened, Goto
<1>9. ASSUME NEW p \in Procs, LookupFails(p) PROVE FoundComputed'
  BY <1>9, CacheAssumption DEF LookupFails, Opened, CountOne, Caught, Goto
<1>10. ASSUME NEW p \in Procs, Touch(p) PROVE FoundComputed'
  BY <1>10, CacheAssumption, TouchedEntry, HandType DEF Touch, Current, Caught, Goto
<1>11. ASSUME NEW p \in Procs, Solve(p) PROVE FoundComputed'
  BY <1>11, CacheAssumption DEF Solve, Goto
<1>12. ASSUME NEW p \in Procs, SolverFails(p) PROVE FoundComputed'
  BY <1>12, CacheAssumption DEF SolverFails, Abort, Return, Goto
<1>13. ASSUME NEW p \in Procs, Insert(p) PROVE FoundComputed'
  BY <1>13, CacheAssumption, InsertedEntry, HandType DEF Insert, Opened, Goto
<1>14. ASSUME NEW p \in Procs, InsertFails(p) PROVE FoundComputed'
  BY <1>14, CacheAssumption, InsertedEntry, HandType DEF InsertFails, Opened, CountOne,
     Caught, Goto
<1>15. ASSUME NEW p \in Procs, CountInsert(p) PROVE FoundComputed'
  BY <1>15, CacheAssumption DEF CountInsert, CountOne, Goto
<1>16. ASSUME NEW p \in Procs, Answer(p) PROVE FoundComputed'
  BY <1>16, CacheAssumption, HandType DEF Answer, Return, Current, Goto
<1>17. ASSUME NEW p \in Procs, Open(p) PROVE FoundComputed'
  BY <1>17, CacheAssumption DEF Open, Return, Goto
<1>18. ASSUME NEW p \in Procs, ReadAll(p) PROVE FoundComputed'
  BY <1>18, CacheAssumption DEF ReadAll, Goto
<1>19. ASSUME NEW p \in Procs, WriteAll(p) PROVE FoundComputed'
  BY <1>19, CacheAssumption, WrittenEntry DEF WriteAll, Return, Goto
<1>20. ASSUME NEW p \in Procs, Scan(p) PROVE FoundComputed'
  BY <1>20, CacheAssumption DEF Scan, Goto
<1>21. ASSUME NEW p \in Procs, DeleteDoomed(p) PROVE FoundComputed'
  BY <1>21, CacheAssumption, DeletedEntry DEF DeleteDoomed, Goto
<1>22. ASSUME NEW p \in Procs, Size(p) PROVE FoundComputed'
  BY <1>22, CacheAssumption DEF Size, Return, Opened, Goto
<1>23. ASSUME NEW p \in Procs, Throw(p) PROVE FoundComputed'
  BY <1>23, CacheAssumption, WrittenEntry DEF Throw, Abort, Return, Goto
<1>24. ASSUME NEW p \in Procs, Alarm(p) PROVE FoundComputed'
  BY <1>24, CacheAssumption DEF Alarm, Abort, Return, Goto
<1>25. QED
  BY <1>1, <1>2, <1>3, <1>4, <1>5, <1>6, <1>7, <1>8, <1>9, <1>10, <1>11, <1>12, <1>13, <1>14,
     <1>15, <1>16, <1>17, <1>18, <1>19, <1>20, <1>21, <1>22, <1>23, <1>24 DEF Next, ProofStep,
     UpkeepStep


(* A proof keeps the key it was started with.                              *)
LEMMA KeyedStep ==
  ASSUME CacheInv, Next
  PROVE  Keyed'
<1> USE DEF CacheInv, TypeOK, Keyed, Answered, history, control
<1>1. CASE \E vs \in Setups \ {installed} : Upgrade(vs)
  BY <1>1 DEF Upgrade
<1>2. ASSUME NEW p \in Procs, NEW q \in Queries, Prove(p, q) PROVE Keyed'
  BY <1>2, CacheAssumption, KeyType DEF Prove, Begin, Goto
<1>3. ASSUME NEW p \in Procs, NEW path \in Paths, OpenPath(p, path) PROVE Keyed'
  BY <1>3, CacheAssumption, KeyType DEF OpenPath, Begin, Goto
<1>4. ASSUME NEW p \in Procs, NEW path \in Paths, SetPath(p, path) PROVE Keyed'
  BY <1>4, CacheAssumption, KeyType DEF SetPath, Begin, Goto
<1>5. ASSUME NEW p \in Procs, Clean(p) PROVE Keyed'
  BY <1>5, CacheAssumption, KeyType DEF Clean, Begin, Goto
<1>6. ASSUME NEW p \in Procs, ShowStats(p) PROVE Keyed'
  BY <1>6, CacheAssumption, KeyType DEF ShowStats, Begin, Goto
<1>7. ASSUME NEW p \in Procs, LookupHits(p) PROVE Keyed'
  BY <1>7, CacheAssumption, KeyType DEF LookupHits, Current, Opened, CountOne, Goto
<1>8. ASSUME NEW p \in Procs, LookupMisses(p) PROVE Keyed'
  BY <1>8, CacheAssumption, KeyType DEF LookupMisses, Current, Opened, Goto
<1>9. ASSUME NEW p \in Procs, LookupFails(p) PROVE Keyed'
  BY <1>9, CacheAssumption, KeyType DEF LookupFails, Opened, CountOne, Caught, Goto
<1>10. ASSUME NEW p \in Procs, Touch(p) PROVE Keyed'
  BY <1>10, CacheAssumption, KeyType, TouchedEntry, HandType DEF Touch, Current, Caught, Goto
<1>11. ASSUME NEW p \in Procs, Solve(p) PROVE Keyed'
  BY <1>11, CacheAssumption, KeyType DEF Solve, Goto
<1>12. ASSUME NEW p \in Procs, SolverFails(p) PROVE Keyed'
  BY <1>12, CacheAssumption, KeyType DEF SolverFails, Abort, Return, Goto
<1>13. ASSUME NEW p \in Procs, Insert(p) PROVE Keyed'
  BY <1>13, CacheAssumption, KeyType, InsertedEntry, HandType DEF Insert, Opened, Goto
<1>14. ASSUME NEW p \in Procs, InsertFails(p) PROVE Keyed'
  BY <1>14, CacheAssumption, KeyType, InsertedEntry, HandType DEF InsertFails, Opened,
     CountOne, Caught, Goto
<1>15. ASSUME NEW p \in Procs, CountInsert(p) PROVE Keyed'
  BY <1>15, CacheAssumption, KeyType DEF CountInsert, CountOne, Goto
<1>16. ASSUME NEW p \in Procs, Answer(p) PROVE Keyed'
  BY <1>16, CacheAssumption, KeyType, HandType DEF Answer, Return, Current, Goto
<1>17. ASSUME NEW p \in Procs, Open(p) PROVE Keyed'
  BY <1>17, CacheAssumption, KeyType DEF Open, Return, Goto
<1>18. ASSUME NEW p \in Procs, ReadAll(p) PROVE Keyed'
  BY <1>18, CacheAssumption, KeyType DEF ReadAll, Goto
<1>19. ASSUME NEW p \in Procs, WriteAll(p) PROVE Keyed'
  BY <1>19, CacheAssumption, KeyType, WrittenEntry DEF WriteAll, Return, Goto
<1>20. ASSUME NEW p \in Procs, Scan(p) PROVE Keyed'
  BY <1>20, CacheAssumption, KeyType DEF Scan, Goto
<1>21. ASSUME NEW p \in Procs, DeleteDoomed(p) PROVE Keyed'
  BY <1>21, CacheAssumption, KeyType, DeletedEntry DEF DeleteDoomed, Goto
<1>22. ASSUME NEW p \in Procs, Size(p) PROVE Keyed'
  BY <1>22, CacheAssumption, KeyType DEF Size, Return, Opened, Goto
<1>23. ASSUME NEW p \in Procs, Throw(p) PROVE Keyed'
  BY <1>23, CacheAssumption, KeyType, WrittenEntry DEF Throw, Abort, Return, Goto
<1>24. ASSUME NEW p \in Procs, Alarm(p) PROVE Keyed'
  BY <1>24, CacheAssumption, KeyType DEF Alarm, Abort, Return, Goto
<1>25. QED
  BY <1>1, <1>2, <1>3, <1>4, <1>5, <1>6, <1>7, <1>8, <1>9, <1>10, <1>11, <1>12, <1>13, <1>14,
     <1>15, <1>16, <1>17, <1>18, <1>19, <1>20, <1>21, <1>22, <1>23, <1>24 DEF Next, ProofStep,
     UpkeepStep


(* A path is set before the operations that use it, and kept by them.      *)
LEMMA HasPathStep ==
  ASSUME CacheInv, Next
  PROVE  HasPath'
<1> USE DEF CacheInv, TypeOK, CacheStates, Jobs, HasPath, Enabled, KeptCarried, history, control
<1>1. CASE \E vs \in Setups \ {installed} : Upgrade(vs)
  BY <1>1 DEF Upgrade
<1>2. ASSUME NEW p \in Procs, NEW q \in Queries, Prove(p, q) PROVE HasPath'
  BY <1>2, CacheAssumption DEF Prove, Begin, Goto
<1>3. ASSUME NEW p \in Procs, NEW path \in Paths, OpenPath(p, path) PROVE HasPath'
  BY <1>3, CacheAssumption DEF OpenPath, Begin, Goto
<1>4. ASSUME NEW p \in Procs, NEW path \in Paths, SetPath(p, path) PROVE HasPath'
  BY <1>4, CacheAssumption DEF SetPath, Begin, Goto
<1>5. ASSUME NEW p \in Procs, Clean(p) PROVE HasPath'
  BY <1>5, CacheAssumption DEF Clean, Begin, Goto
<1>6. ASSUME NEW p \in Procs, ShowStats(p) PROVE HasPath'
  BY <1>6, CacheAssumption DEF ShowStats, Begin, Goto
<1>7. ASSUME NEW p \in Procs, LookupHits(p) PROVE HasPath'
  BY <1>7, CacheAssumption DEF LookupHits, Current, Opened, CountOne, Goto
<1>8. ASSUME NEW p \in Procs, LookupMisses(p) PROVE HasPath'
  BY <1>8, CacheAssumption DEF LookupMisses, Current, Opened, Goto
<1>9. ASSUME NEW p \in Procs, LookupFails(p) PROVE HasPath'
  BY <1>9, CacheAssumption DEF LookupFails, Opened, CountOne, Caught, Goto
<1>10. ASSUME NEW p \in Procs, Touch(p) PROVE HasPath'
  BY <1>10, CacheAssumption, TouchedEntry, HandType DEF Touch, Current, Caught, Goto
<1>11. ASSUME NEW p \in Procs, Solve(p) PROVE HasPath'
  BY <1>11, CacheAssumption DEF Solve, Goto
<1>12. ASSUME NEW p \in Procs, SolverFails(p) PROVE HasPath'
  BY <1>12, CacheAssumption DEF SolverFails, Abort, Return, Goto
<1>13. ASSUME NEW p \in Procs, Insert(p) PROVE HasPath'
  BY <1>13, CacheAssumption, InsertedEntry, HandType DEF Insert, Opened, Goto
<1>14. ASSUME NEW p \in Procs, InsertFails(p) PROVE HasPath'
  BY <1>14, CacheAssumption, InsertedEntry, HandType DEF InsertFails, Opened, CountOne,
     Caught, Goto
<1>15. ASSUME NEW p \in Procs, CountInsert(p) PROVE HasPath'
  BY <1>15, CacheAssumption DEF CountInsert, CountOne, Goto
<1>16. ASSUME NEW p \in Procs, Answer(p) PROVE HasPath'
  BY <1>16, CacheAssumption, HandType DEF Answer, Return, Current, Goto
<1>17. ASSUME NEW p \in Procs, Open(p) PROVE HasPath'
  BY <1>17, CacheAssumption DEF Open, Return, Goto
<1>18. ASSUME NEW p \in Procs, ReadAll(p) PROVE HasPath'
  BY <1>18, CacheAssumption DEF ReadAll, Goto
<1>19. ASSUME NEW p \in Procs, WriteAll(p) PROVE HasPath'
  BY <1>19, CacheAssumption, WrittenEntry DEF WriteAll, Return, Goto
<1>20. ASSUME NEW p \in Procs, Scan(p) PROVE HasPath'
  BY <1>20, CacheAssumption DEF Scan, Goto
<1>21. ASSUME NEW p \in Procs, DeleteDoomed(p) PROVE HasPath'
  BY <1>21, CacheAssumption, DeletedEntry DEF DeleteDoomed, Goto
<1>22. ASSUME NEW p \in Procs, Size(p) PROVE HasPath'
  BY <1>22, CacheAssumption DEF Size, Return, Opened, Goto
<1>23. ASSUME NEW p \in Procs, Throw(p) PROVE HasPath'
  BY <1>23, CacheAssumption, WrittenEntry DEF Throw, Abort, Return, Goto
<1>24. ASSUME NEW p \in Procs, Alarm(p) PROVE HasPath'
  BY <1>24, CacheAssumption DEF Alarm, Abort, Return, Goto
<1>25. QED
  BY <1>1, <1>2, <1>3, <1>4, <1>5, <1>6, <1>7, <1>8, <1>9, <1>10, <1>11, <1>12, <1>13, <1>14,
     <1>15, <1>16, <1>17, <1>18, <1>19, <1>20, <1>21, <1>22, <1>23, <1>24 DEF Next, ProofStep,
     UpkeepStep


(* Scanning dooms only what does not match.                                *)
LEMMA DoomedStep ==
  ASSUME CacheInv, Next
  PROVE  DoomedMismatched'
<1> USE DEF CacheInv, TypeOK, Jobs, DoomedMismatched, NoJob, history, control
<1>1. CASE \E vs \in Setups \ {installed} : Upgrade(vs)
  BY <1>1 DEF Upgrade
<1>2. ASSUME NEW p \in Procs, NEW q \in Queries, Prove(p, q) PROVE DoomedMismatched'
  BY <1>2, CacheAssumption DEF Prove, Begin, Goto
<1>3. ASSUME NEW p \in Procs, NEW path \in Paths, OpenPath(p, path) PROVE DoomedMismatched'
  BY <1>3, CacheAssumption DEF OpenPath, Begin, Goto
<1>4. ASSUME NEW p \in Procs, NEW path \in Paths, SetPath(p, path) PROVE DoomedMismatched'
  BY <1>4, CacheAssumption DEF SetPath, Begin, Goto
<1>5. ASSUME NEW p \in Procs, Clean(p) PROVE DoomedMismatched'
  BY <1>5, CacheAssumption DEF Clean, Begin, Goto
<1>6. ASSUME NEW p \in Procs, ShowStats(p) PROVE DoomedMismatched'
  BY <1>6, CacheAssumption DEF ShowStats, Begin, Goto
<1>7. ASSUME NEW p \in Procs, LookupHits(p) PROVE DoomedMismatched'
  BY <1>7, CacheAssumption DEF LookupHits, Current, Opened, CountOne, Goto
<1>8. ASSUME NEW p \in Procs, LookupMisses(p) PROVE DoomedMismatched'
  BY <1>8, CacheAssumption DEF LookupMisses, Current, Opened, Goto
<1>9. ASSUME NEW p \in Procs, LookupFails(p) PROVE DoomedMismatched'
  BY <1>9, CacheAssumption DEF LookupFails, Opened, CountOne, Caught, Goto
<1>10. ASSUME NEW p \in Procs, Touch(p) PROVE DoomedMismatched'
  BY <1>10, CacheAssumption, TouchedEntry, HandType DEF Touch, Current, Caught, Goto
<1>11. ASSUME NEW p \in Procs, Solve(p) PROVE DoomedMismatched'
  BY <1>11, CacheAssumption DEF Solve, Goto
<1>12. ASSUME NEW p \in Procs, SolverFails(p) PROVE DoomedMismatched'
  BY <1>12, CacheAssumption DEF SolverFails, Abort, Return, Goto
<1>13. ASSUME NEW p \in Procs, Insert(p) PROVE DoomedMismatched'
  BY <1>13, CacheAssumption, InsertedEntry, HandType DEF Insert, Opened, Goto
<1>14. ASSUME NEW p \in Procs, InsertFails(p) PROVE DoomedMismatched'
  BY <1>14, CacheAssumption, InsertedEntry, HandType DEF InsertFails, Opened, CountOne,
     Caught, Goto
<1>15. ASSUME NEW p \in Procs, CountInsert(p) PROVE DoomedMismatched'
  BY <1>15, CacheAssumption DEF CountInsert, CountOne, Goto
<1>16. ASSUME NEW p \in Procs, Answer(p) PROVE DoomedMismatched'
  BY <1>16, CacheAssumption, HandType DEF Answer, Return, Current, Goto
<1>17. ASSUME NEW p \in Procs, Open(p) PROVE DoomedMismatched'
  BY <1>17, CacheAssumption DEF Open, Return, Goto
<1>18. ASSUME NEW p \in Procs, ReadAll(p) PROVE DoomedMismatched'
  BY <1>18, CacheAssumption DEF ReadAll, Goto
<1>19. ASSUME NEW p \in Procs, WriteAll(p) PROVE DoomedMismatched'
  BY <1>19, CacheAssumption, WrittenEntry DEF WriteAll, Return, Goto
<1>20. ASSUME NEW p \in Procs, Scan(p) PROVE DoomedMismatched'
  BY <1>20, CacheAssumption DEF Scan, Goto
<1>21. ASSUME NEW p \in Procs, DeleteDoomed(p) PROVE DoomedMismatched'
  BY <1>21, CacheAssumption, DeletedEntry DEF DeleteDoomed, Goto
<1>22. ASSUME NEW p \in Procs, Size(p) PROVE DoomedMismatched'
  BY <1>22, CacheAssumption DEF Size, Return, Opened, Goto
<1>23. ASSUME NEW p \in Procs, Throw(p) PROVE DoomedMismatched'
  BY <1>23, CacheAssumption, WrittenEntry DEF Throw, Abort, Return, Goto
<1>24. ASSUME NEW p \in Procs, Alarm(p) PROVE DoomedMismatched'
  BY <1>24, CacheAssumption DEF Alarm, Abort, Return, Goto
<1>25. QED
  BY <1>1, <1>2, <1>3, <1>4, <1>5, <1>6, <1>7, <1>8, <1>9, <1>10, <1>11, <1>12, <1>13, <1>14,
     <1>15, <1>16, <1>17, <1>18, <1>19, <1>20, <1>21, <1>22, <1>23, <1>24 DEF Next, ProofStep,
     UpkeepStep


(* Whoever relies on an entry carries it along when moving, and an abort   *)
(* leaves the cache where it was.                                          *)
LEMMA KeptStep ==
  ASSUME CacheInv, Next
  PROVE  KeptCarried'
<1> USE DEF CacheInv, TypeOK, CacheStates, Jobs, KeptCarried, Remembered, Enabled, HasPath,
            NoJob, history, control
<1>1. CASE \E vs \in Setups \ {installed} : Upgrade(vs)
  BY <1>1 DEF Upgrade
<1>2. ASSUME NEW p \in Procs, NEW q \in Queries, Prove(p, q) PROVE KeptCarried'
  BY <1>2, CacheAssumption DEF Prove, Begin, Goto
<1>3. ASSUME NEW p \in Procs, NEW path \in Paths, OpenPath(p, path) PROVE KeptCarried'
  BY <1>3, CacheAssumption DEF OpenPath, Begin, Goto
<1>4. ASSUME NEW p \in Procs, NEW path \in Paths, SetPath(p, path) PROVE KeptCarried'
  BY <1>4, CacheAssumption DEF SetPath, Begin, Goto
<1>5. ASSUME NEW p \in Procs, Clean(p) PROVE KeptCarried'
  BY <1>5, CacheAssumption DEF Clean, Begin, Goto
<1>6. ASSUME NEW p \in Procs, ShowStats(p) PROVE KeptCarried'
  BY <1>6, CacheAssumption DEF ShowStats, Begin, Goto
<1>7. ASSUME NEW p \in Procs, LookupHits(p) PROVE KeptCarried'
  BY <1>7, CacheAssumption DEF LookupHits, Current, Opened, CountOne, Goto
<1>8. ASSUME NEW p \in Procs, LookupMisses(p) PROVE KeptCarried'
  BY <1>8, CacheAssumption DEF LookupMisses, Current, Opened, Goto
<1>9. ASSUME NEW p \in Procs, LookupFails(p) PROVE KeptCarried'
  BY <1>9, CacheAssumption DEF LookupFails, Opened, CountOne, Caught, Goto
<1>10. ASSUME NEW p \in Procs, Touch(p) PROVE KeptCarried'
  BY <1>10, CacheAssumption, TouchedEntry, HandType DEF Touch, Current, Caught, Goto
<1>11. ASSUME NEW p \in Procs, Solve(p) PROVE KeptCarried'
  BY <1>11, CacheAssumption DEF Solve, Goto
<1>12. ASSUME NEW p \in Procs, SolverFails(p) PROVE KeptCarried'
  BY <1>12, CacheAssumption DEF SolverFails, Abort, Return, Goto
<1>13. ASSUME NEW p \in Procs, Insert(p) PROVE KeptCarried'
  BY <1>13, CacheAssumption, InsertedEntry, HandType DEF Insert, Opened, Goto
<1>14. ASSUME NEW p \in Procs, InsertFails(p) PROVE KeptCarried'
  BY <1>14, CacheAssumption, InsertedEntry, HandType DEF InsertFails, Opened, CountOne,
     Caught, Goto
<1>15. ASSUME NEW p \in Procs, CountInsert(p) PROVE KeptCarried'
  BY <1>15, CacheAssumption DEF CountInsert, CountOne, Goto
<1>16. ASSUME NEW p \in Procs, Answer(p) PROVE KeptCarried'
  BY <1>16, CacheAssumption, HandType DEF Answer, Return, Current, Goto
<1>17. ASSUME NEW p \in Procs, Open(p) PROVE KeptCarried'
  BY <1>17, CacheAssumption DEF Open, Return, Goto
<1>18. ASSUME NEW p \in Procs, ReadAll(p) PROVE KeptCarried'
  BY <1>18, CacheAssumption DEF ReadAll, Goto
<1>19. ASSUME NEW p \in Procs, WriteAll(p) PROVE KeptCarried'
  BY <1>19, CacheAssumption, WrittenEntry DEF WriteAll, Return, Goto
<1>20. ASSUME NEW p \in Procs, Scan(p) PROVE KeptCarried'
  BY <1>20, CacheAssumption DEF Scan, Goto
<1>21. ASSUME NEW p \in Procs, DeleteDoomed(p) PROVE KeptCarried'
  BY <1>21, CacheAssumption, DeletedEntry DEF DeleteDoomed, Goto
<1>22. ASSUME NEW p \in Procs, Size(p) PROVE KeptCarried'
  BY <1>22, CacheAssumption DEF Size, Return, Opened, Goto
<1>23. ASSUME NEW p \in Procs, Throw(p) PROVE KeptCarried'
  BY <1>23, CacheAssumption, WrittenEntry DEF Throw, Abort, Return, Goto
<1>24. ASSUME NEW p \in Procs, Alarm(p) PROVE KeptCarried'
  BY <1>24, CacheAssumption DEF Alarm, Abort, Return, Goto
<1>25. QED
  BY <1>1, <1>2, <1>3, <1>4, <1>5, <1>6, <1>7, <1>8, <1>9, <1>10, <1>11, <1>12, <1>13, <1>14,
     <1>15, <1>16, <1>17, <1>18, <1>19, <1>20, <1>21, <1>22, <1>23, <1>24 DEF Next, ProofStep,
     UpkeepStep


-----------------------------------------------------------------------------
(* At the start nothing is in hand, and every old entry counts as computed. *)
LEMMA InitInv == Init => CacheInv
<1> SUFFICES ASSUME Init PROVE CacheInv
  OBVIOUS
<1> USE CacheAssumption DEF Init
<1>1. TypeOK
  <2>1. db \in [Paths -> Databases]
    BY DEF Databases
  <2>2. cache \in [Procs -> CacheStates]
    BY DEF CacheStates
  <2>3. stats \in [Procs -> [Stats -> Nat]]
    OBVIOUS
  <2>4. computed \in SUBSET (Keys \X Answers)
    OBVIOUS
  <2>5. QED
    BY <2>1, <2>2, <2>3, <2>4, NoJobType DEF TypeOK, Labels
<1>2. EntriesComputed
  <2>1. ASSUME NEW f \in Paths, NEW k \in Keys, db[f][k] # NoEntry
        PROVE  <<k, db[f][k].answer>> \in computed
    BY <1>1, <2>1, EntryType
  <2>2. QED
    BY <2>1 DEF EntriesComputed, Holds, NoJob, EmptyDB
<1>3. FoundComputed /\ Keyed /\ HasPath /\ DoomedMismatched /\ KeptCarried /\ Remembered
  BY DEF FoundComputed, Answered, Keyed, HasPath, DoomedMismatched, NoJob, KeptCarried,
     Remembered
<1>4. QED
  BY <1>1, <1>2, <1>3 DEF CacheInv

(* The invariant is about the variables only.                              *)
LEMMA StutterInv ==
  ASSUME CacheInv, UNCHANGED vars
  PROVE  CacheInv'
BY DEF vars, control, history, CacheInv, TypeOK, EntriesComputed, Holds, FoundComputed, Keyed,
       HasPath, Enabled, DoomedMismatched, KeptCarried, Remembered

(* The inductive invariant: every entry, carried copy and answer in hand   *)
(* was computed for its key, and whoever relies on an entry can reach it.  *)
THEOREM CacheInvariant == Spec => []CacheInv
<1>1. CacheInv /\ [Next]_vars => CacheInv'
  BY TypeStep, EntriesStep, FoundStep, KeyedStep, HasPathStep, DoomedStep, KeptStep,
     RememberedStep, StutterInv DEF CacheInv
<1>2. QED
  BY InitInv, <1>1, PTL DEF Spec

(* Type correctness: the operations of SolverCache.hs never look up, insert*)
(* or copy anything but entries under keys, whatever fails between them.   *)
THEOREM TypeCorrect == Spec => []TypeOK
<1>1. CacheInv => TypeOK
  BY DEF CacheInv
<1>2. QED
  BY <1>1, CacheInvariant, PTL

(* What was in the cache when a proof ended stays there until it is cleaned*)
(* away (setSolverCachePath copies all of it before the path changes, and  *)
(* an abandoned action leaves the path).                                   *)
THEOREM NothingForgotten == Spec => []Remembered
<1>1. CacheInv => Remembered
  BY DEF CacheInv
<1>2. QED
  BY <1>1, CacheInvariant, PTL

(* Entries leave a database only by cleaning, and come, or change their    *)
(* answer, only by insertion or copying: the transaction after a lookup    *)
(* that marks the entry as used never revives or changes one.              *)
THEOREM EntriesAreStable == Spec => EntriesStable
<1> DEFINE Stable ==
      \A path \in Paths, k \in Keys :
       /\ Lost(path, k) =>
            \E p \in Procs : pc[p] = "deleting" /\ cache[p].path = path /\ Mismatched(job[p].wanted, k)
       /\ Changed(path, k) =>
            \E p \in Procs :
              \/ pc[p] = "inserting" /\ cache[p].path = path /\ job[p].key = k
              \/ pc[p] = "writing" /\ job[p].path = path
<1>1. ASSUME CacheInv, Next PROVE Stable
  <2> SUFFICES ASSUME NEW path \in Paths, NEW k \in Keys
               PROVE  /\ Lost(path, k) =>
                           \E p \in Procs : pc[p] = "deleting" /\ cache[p].path = path /\ Mismatched(job[p].wanted, k)
                      /\ Changed(path, k) =>
                           \E p \in Procs :
                             \/ pc[p] = "inserting" /\ cache[p].path = path /\ job[p].key = k
                             \/ pc[p] = "writing" /\ job[p].path = path
    OBVIOUS
  <2>1. CASE Same(path, k)
    BY <2>1 DEF Same, Lost, Changed
  <2>2. ASSUME NEW p \in Procs, Stored(p, path, k)
        PROVE  ~Lost(path, k) /\ pc[p] = "inserting" /\ cache[p].path = path /\ job[p].key = k
    BY <2>2 DEF Stored, Lost
  <2>3. ASSUME NEW p \in Procs, Copied(p, path, k)
        PROVE  ~Lost(path, k) /\ pc[p] = "writing" /\ job[p].path = path
    BY <2>3 DEF Copied, Lost
  <2>4. ASSUME NEW p \in Procs, Cleaned(p, path, k)
        PROVE  /\ ~Changed(path, k)
               /\ pc[p] = "deleting" /\ cache[p].path = path /\ Mismatched(job[p].wanted, k)
    BY <1>1, <2>4, DeletedEntry
       DEF Cleaned, DeleteDoomed, Changed, CacheInv, HasPath, DoomedMismatched
  <2>5. QED
    BY <1>1, <2>1, <2>2, <2>3, <2>4, EntryStep
<1>2. UNCHANGED vars => UNCHANGED vars
  OBVIOUS
<1>3. CacheInv /\ [Next]_vars => [Stable]_vars
  BY <1>1
<1>4. QED
  BY CacheInvariant, <1>3, PTL DEF Spec, EntriesStable

-----------------------------------------------------------------------------
(* What a step means to ProverOracle.                                      *)
LEMMA OracleStep ==
  ASSUME CacheInv, Next
  PROVE  \/ UNCHANGED <<computed, answer>>
         \/ \E p \in Procs : Solve(p) \/ Answer(p)
BY DEF Next, ProofStep, UpkeepStep, Upgrade, Prove, OpenPath, SetPath, Clean, ShowStats,
       LookupHits, LookupMisses, LookupFails, Touch, SolverFails, Insert, InsertFails,
       CountInsert, Open, ReadAll, WriteAll, Scan, DeleteDoomed, Size, Throw, Alarm,
       Abort, history

(* The cache implements ProverOracle: a proof is told only answers that a  *)
(* solver computed for its query and its versions (lookupInSolverCache and *)
(* insertInSolverCache, through databases shared, copied and cleaned by any*)
(* number of processes).                                                   *)
THEOREM CacheImplementsOracle == Spec => ImplementsOracle
<1>1. Init => Oracle!Init
  <2> SUFFICES ASSUME Init PROVE Oracle!Init
    OBVIOUS
  <2>1. CacheInv
    BY InitInv
  <2>2. QED
    BY <2>1 DEF Init, Oracle!Init, CacheInv, TypeOK
<1>2. CacheInv /\ [Next]_vars => [Oracle!Next]_<<computed, answer>>
  <2> SUFFICES ASSUME CacheInv, Next PROVE [Oracle!Next]_<<computed, answer>>
    BY DEF vars, history
  <2>1. ASSUME NEW p \in Procs, Solve(p) PROVE Oracle!Next
    <3>1. job[p].key \in Keys
      BY <2>1 DEF Solve, CacheInv, Keyed
    <3>2. PICK a \in AnswersTo[job[p].key.query] : computed' = computed \cup {<<job[p].key, a>>}
      BY <2>1 DEF Solve
    <3>3. a \in Answers
      BY <3>1, AnswerType
    <3>4. Oracle!Compute(job[p].key, a)
      BY <2>1, <3>2 DEF Oracle!Compute, Solve
    <3>5. QED
      BY <3>1, <3>3, <3>4 DEF Oracle!Next
  <2>2. ASSUME NEW p \in Procs, Answer(p) PROVE Oracle!Next
    <3>1. job[p].key \in Keys /\ job[p].found \in Answers
      BY <2>2, HandType DEF Answer, Answered
    <3>2. Oracle!Reply(p, job[p].key, job[p].found)
      BY <2>2 DEF Oracle!Reply, Answer, CacheInv, FoundComputed, Answered
    <3>3. QED
      BY <3>1, <3>2 DEF Oracle!Next
  <2>3. QED
    BY <2>1, <2>2, OracleStep
<1>3. QED
  BY <1>1, <1>2, CacheInvariant, PTL DEF Spec, ImplementsOracle, Oracle!Spec

-----------------------------------------------------------------------------
(* The statistics.  Only answers that can be stored are in databases, are  *)
(* carried to others, and are counted.                                     *)
OnlyCacheable ==
  /\ \A f \in Paths, k \in Keys : db[f][k] # NoEntry => db[f][k].answer \in Cacheable
  /\ \A p \in Procs, k \in Keys : job[p].carried[k] # NoEntry => job[p].carried[k].answer \in Cacheable

InHand == {"touching", "inserting", "counting"}
HandCacheable == \A p \in Procs : pc[p] \in InHand => job[p].found \in Cacheable

(* A proof that is counted and has not ended.                              *)
Pending(p) == pc[p] = "touching" \/ (pc[p] = "answering" /\ Enabled(p) /\ job[p].found \in Cacheable)

Balanced ==
  \A p \in Procs :
    /\ ended[p] + (IF Pending(p) THEN 1 ELSE 0) <= Counted(p)
    /\ Counted(p) <= ended[p] + aborted[p] + (IF Pending(p) THEN 1 ELSE 0)

StatsInv == OnlyCacheable /\ HandCacheable /\ Balanced

(* What a step is to the statistics of a process.                          *)
Still(r) ==
  Counted(r)' = Counted(r) /\ ended'[r] = ended[r] /\ aborted'[r] = aborted[r] /\ (Pending(r)' <=> Pending(r))
Counts(r) ==
  Counted(r)' = Counted(r) + 1 /\ ended'[r] = ended[r] /\ aborted'[r] = aborted[r] /\ ~ Pending(r) /\ Pending(r)'
Ends(r) ==
  Counted(r)' = Counted(r) /\ ended'[r] = ended[r] + 1 /\ aborted'[r] = aborted[r] /\ Pending(r) /\ ~ Pending(r)'
Abandons(r) ==
  Counted(r)' = Counted(r) /\ ended'[r] = ended[r] /\ aborted'[r] = aborted[r] + 1 /\ ~ Pending(r)'

Accounted(r) == Still(r) \/ Counts(r) \/ Ends(r) \/ Abandons(r)

(* The counters that make up Counted, one more of each.                    *)
LEMMA CountedStep ==
  ASSUME TypeOK, NEW p \in Procs, NEW r \in Procs, NEW stat \in Stats, CountOne(p, stat)
  PROVE  Counted(r)' = IF r = p /\ stat # "failedLookups" THEN Counted(r) + 1 ELSE Counted(r)
<1>1. stats \in [Procs -> [Stats -> Nat]] /\ stats' = [stats EXCEPT ![p] = [stats[p] EXCEPT ![stat] = @ + 1]]
  BY DEF TypeOK, CountOne
<1>2. CASE r # p
  BY <1>1, <1>2 DEF Counted
<1>3. CASE r = p
  <2>1. stats'[r] = [stats[r] EXCEPT ![stat] = @ + 1] /\ stats[r] \in [Stats -> Nat]
    BY <1>1, <1>3
  <2>2. \A s \in Stats : stats'[r][s] = (IF s = stat THEN stats[r][s] + 1 ELSE stats[r][s]) /\ stats[r][s] \in Nat
    BY <2>1
  <2>3. {"lookups", "inserts", "failedInserts"} \subseteq Stats
    BY DEF Stats
  <2>4. QED
    BY <1>3, <2>2, <2>3 DEF Counted, Stats
<1>4. QED
  BY <1>2, <1>3

(* Every step is one of the four, to every process.                        *)
LEMMA AccountStep ==
  ASSUME CacheInv, HandCacheable, Next, NEW r \in Procs
  PROVE  Accounted(r)
<1> USE DEF CacheInv, TypeOK, CacheStates, Jobs, HandCacheable, InHand, HasPath, Enabled,
            Accounted, Still, Counts, Ends, Abandons, Counted, Pending, history, control
<1>1. CASE \E vs \in Setups \ {installed} : Upgrade(vs)
  BY <1>1 DEF Upgrade
<1>2. ASSUME NEW p \in Procs, NEW q \in Queries, Prove(p, q) PROVE Accounted(r)
  BY <1>2 DEF Prove, Begin, Goto
<1>3. ASSUME NEW p \in Procs, NEW path \in Paths, OpenPath(p, path) PROVE Accounted(r)
  BY <1>3 DEF OpenPath, Begin, Goto
<1>4. ASSUME NEW p \in Procs, NEW path \in Paths, SetPath(p, path) PROVE Accounted(r)
  BY <1>4 DEF SetPath, Begin, Goto
<1>5. ASSUME NEW p \in Procs, Clean(p) PROVE Accounted(r)
  BY <1>5 DEF Clean, Begin, Goto
<1>6. ASSUME NEW p \in Procs, ShowStats(p) PROVE Accounted(r)
  BY <1>6 DEF ShowStats, Begin, Goto
<1>7. ASSUME NEW p \in Procs, LookupHits(p) PROVE Accounted(r)
  <2>1. Counted(r)' = IF r = p THEN Counted(r) + 1 ELSE Counted(r)
    BY <1>7, CountedStep DEF LookupHits, Stats
  <2> HIDE DEF Counted
  <2>2. QED
    BY <1>7, <2>1 DEF LookupHits, Current, Opened, Goto
<1>8. ASSUME NEW p \in Procs, LookupMisses(p) PROVE Accounted(r)
  BY <1>8 DEF LookupMisses, Current, Opened, Goto
<1>9. ASSUME NEW p \in Procs, LookupFails(p) PROVE Accounted(r)
  <2>1. Counted(r)' = Counted(r)
    BY <1>9, CountedStep DEF LookupFails, Stats
  <2> HIDE DEF Counted
  <2>2. QED
    BY <1>9, <2>1 DEF LookupFails, Opened, Goto
<1>10. ASSUME NEW p \in Procs, Touch(p) PROVE Accounted(r)
  BY <1>10 DEF Touch, Goto
<1>11. ASSUME NEW p \in Procs, Solve(p) PROVE Accounted(r)
  BY <1>11 DEF Solve, Goto
<1>12. ASSUME NEW p \in Procs, SolverFails(p) PROVE Accounted(r)
  BY <1>12 DEF SolverFails, Abort, Return, Goto
<1>13. ASSUME NEW p \in Procs, Insert(p) PROVE Accounted(r)
  BY <1>13 DEF Insert, Opened, Goto
<1>14. ASSUME NEW p \in Procs, InsertFails(p) PROVE Accounted(r)
  <2>1. Counted(r)' = IF r = p THEN Counted(r) + 1 ELSE Counted(r)
    BY <1>14, CountedStep DEF InsertFails, Stats
  <2> HIDE DEF Counted
  <2>2. QED
    BY <1>14, <2>1 DEF InsertFails, Opened, Goto
<1>15. ASSUME NEW p \in Procs, CountInsert(p) PROVE Accounted(r)
  <2>1. Counted(r)' = IF r = p THEN Counted(r) + 1 ELSE Counted(r)
    BY <1>15, CountedStep DEF CountInsert, Stats
  <2> HIDE DEF Counted
  <2>2. QED
    BY <1>15, <2>1 DEF CountInsert, Goto
<1>16. ASSUME NEW p \in Procs, Answer(p) PROVE Accounted(r)
  BY <1>16 DEF Answer, Return, Goto
<1>17. ASSUME NEW p \in Procs, Open(p) PROVE Accounted(r)
  BY <1>17 DEF Open, Return, Goto
<1>18. ASSUME NEW p \in Procs, ReadAll(p) PROVE Accounted(r)
  BY <1>18 DEF ReadAll, Goto
<1>19. ASSUME NEW p \in Procs, WriteAll(p) PROVE Accounted(r)
  BY <1>19 DEF WriteAll, Return, Goto
<1>20. ASSUME NEW p \in Procs, Scan(p) PROVE Accounted(r)
  BY <1>20 DEF Scan, Goto
<1>21. ASSUME NEW p \in Procs, DeleteDoomed(p) PROVE Accounted(r)
  BY <1>21 DEF DeleteDoomed, Goto
<1>22. ASSUME NEW p \in Procs, Size(p) PROVE Accounted(r)
  BY <1>22 DEF Size, Return, Opened, Goto
<1>23. ASSUME NEW p \in Procs, Throw(p) PROVE Accounted(r)
  BY <1>23 DEF Throw, Abort, Return, Goto
<1>24. ASSUME NEW p \in Procs, Alarm(p) PROVE Accounted(r)
  BY <1>24 DEF Alarm, Abort, Return, Goto
<1>25. QED
  BY <1>1, <1>2, <1>3, <1>4, <1>5, <1>6, <1>7, <1>8, <1>9, <1>10, <1>11, <1>12, <1>13, <1>14,
     <1>15, <1>16, <1>17, <1>18, <1>19, <1>20, <1>21, <1>22, <1>23, <1>24 DEF Next, ProofStep,
     UpkeepStep

(* What is inserted was in hand, and what is copied was in a database.     *)
LEMMA CacheableStep ==
  ASSUME CacheInv, OnlyCacheable, HandCacheable, Next
  PROVE  OnlyCacheable'
<1> USE DEF CacheInv
<1>1. ASSUME NEW f \in Paths, NEW k \in Keys, db'[f][k] # NoEntry
      PROVE  db'[f][k].answer \in Cacheable
  BY <1>1, EntryStep, DeletedEntry
     DEF Same, Stored, Copied, Cleaned, DeleteDoomed, OnlyCacheable, HandCacheable, InHand, HasPath
<1>2. ASSUME NEW p \in Procs, NEW k \in Keys, job'[p].carried[k] # NoEntry
      PROVE  job'[p].carried[k].answer \in Cacheable
  <2>1. CASE ReadAll(p)
    BY <1>2, <2>1 DEF ReadAll, TypeOK, HasPath, Enabled, CacheStates, Jobs, OnlyCacheable
  <2>2. QED
    BY <1>2, <2>1, CarriedStep DEF CarriedSame, EmptyDB, OnlyCacheable
<1>3. QED
  BY <1>1, <1>2 DEF OnlyCacheable

(* What is in hand came from a database, or a solver and can be stored.    *)
LEMMA HandStep ==
  ASSUME CacheInv, OnlyCacheable, HandCacheable, Next
  PROVE  HandCacheable'
<1> USE DEF CacheInv, TypeOK, CacheStates, Jobs, OnlyCacheable, HandCacheable, InHand, HasPath,
            Enabled, Keyed, Answered, history, control
<1>1. CASE \E vs \in Setups \ {installed} : Upgrade(vs)
  BY <1>1 DEF Upgrade
<1>2. ASSUME NEW p \in Procs, NEW q \in Queries, Prove(p, q) PROVE HandCacheable'
  BY <1>2 DEF Prove, Begin, Goto
<1>3. ASSUME NEW p \in Procs, NEW path \in Paths, OpenPath(p, path) PROVE HandCacheable'
  BY <1>3 DEF OpenPath, Begin, Goto
<1>4. ASSUME NEW p \in Procs, NEW path \in Paths, SetPath(p, path) PROVE HandCacheable'
  BY <1>4 DEF SetPath, Begin, Goto
<1>5. ASSUME NEW p \in Procs, Clean(p) PROVE HandCacheable'
  BY <1>5 DEF Clean, Begin, Goto
<1>6. ASSUME NEW p \in Procs, ShowStats(p) PROVE HandCacheable'
  BY <1>6 DEF ShowStats, Begin, Goto
<1>7. ASSUME NEW p \in Procs, LookupHits(p) PROVE HandCacheable'
  BY <1>7 DEF LookupHits, Current, Opened, CountOne, Goto
<1>8. ASSUME NEW p \in Procs, LookupMisses(p) PROVE HandCacheable'
  BY <1>8 DEF LookupMisses, Current, Opened, Goto
<1>9. ASSUME NEW p \in Procs, LookupFails(p) PROVE HandCacheable'
  BY <1>9 DEF LookupFails, Opened, CountOne, Goto
<1>10. ASSUME NEW p \in Procs, Touch(p) PROVE HandCacheable'
  BY <1>10 DEF Touch, Goto
<1>11. ASSUME NEW p \in Procs, Solve(p) PROVE HandCacheable'
  BY <1>11 DEF Solve, Goto
<1>12. ASSUME NEW p \in Procs, SolverFails(p) PROVE HandCacheable'
  BY <1>12 DEF SolverFails, Abort, Return, Goto
<1>13. ASSUME NEW p \in Procs, Insert(p) PROVE HandCacheable'
  BY <1>13 DEF Insert, Opened, Goto
<1>14. ASSUME NEW p \in Procs, InsertFails(p) PROVE HandCacheable'
  BY <1>14 DEF InsertFails, Opened, CountOne, Goto
<1>15. ASSUME NEW p \in Procs, CountInsert(p) PROVE HandCacheable'
  BY <1>15 DEF CountInsert, CountOne, Goto
<1>16. ASSUME NEW p \in Procs, Answer(p) PROVE HandCacheable'
  BY <1>16 DEF Answer, Return, Goto
<1>17. ASSUME NEW p \in Procs, Open(p) PROVE HandCacheable'
  BY <1>17 DEF Open, Return, Goto
<1>18. ASSUME NEW p \in Procs, ReadAll(p) PROVE HandCacheable'
  BY <1>18 DEF ReadAll, Goto
<1>19. ASSUME NEW p \in Procs, WriteAll(p) PROVE HandCacheable'
  BY <1>19 DEF WriteAll, Return, Goto
<1>20. ASSUME NEW p \in Procs, Scan(p) PROVE HandCacheable'
  BY <1>20 DEF Scan, Goto
<1>21. ASSUME NEW p \in Procs, DeleteDoomed(p) PROVE HandCacheable'
  BY <1>21 DEF DeleteDoomed, Goto
<1>22. ASSUME NEW p \in Procs, Size(p) PROVE HandCacheable'
  BY <1>22 DEF Size, Return, Opened, Goto
<1>23. ASSUME NEW p \in Procs, Throw(p) PROVE HandCacheable'
  BY <1>23 DEF Throw, Abort, Return, Goto
<1>24. ASSUME NEW p \in Procs, Alarm(p) PROVE HandCacheable'
  BY <1>24 DEF Alarm, Abort, Return, Goto
<1>25. QED
  BY <1>1, <1>2, <1>3, <1>4, <1>5, <1>6, <1>7, <1>8, <1>9, <1>10, <1>11, <1>12, <1>13, <1>14,
     <1>15, <1>16, <1>17, <1>18, <1>19, <1>20, <1>21, <1>22, <1>23, <1>24 DEF Next, ProofStep,
     UpkeepStep

(* The invariant of the statistics.                                        *)
LEMMA StatsStep ==
  ASSUME CacheInv, StatsInv, [Next]_vars
  PROVE  StatsInv'
<1>1. CASE Next
  <2>1. ASSUME NEW r \in Procs
        PROVE  /\ ended'[r] + (IF Pending(r)' THEN 1 ELSE 0) <= Counted(r)'
               /\ Counted(r)' <= ended'[r] + aborted'[r] + (IF Pending(r)' THEN 1 ELSE 0)
    <3>1. ended[r] \in Nat /\ aborted[r] \in Nat /\ Counted(r) \in Nat
      <4>1. stats[r] \in [Stats -> Nat] /\ {"lookups", "inserts", "failedInserts"} \subseteq Stats
        BY DEF CacheInv, TypeOK, Stats
      <4>2. QED
        BY <4>1 DEF CacheInv, TypeOK, Counted
    <3>2. Accounted(r)
      BY <1>1, AccountStep DEF StatsInv
    <3>3. /\ ended[r] + (IF Pending(r) THEN 1 ELSE 0) <= Counted(r)
          /\ Counted(r) <= ended[r] + aborted[r] + (IF Pending(r) THEN 1 ELSE 0)
      BY DEF StatsInv, Balanced
    <3>4. QED
      BY <3>1, <3>2, <3>3 DEF Accounted, Still, Counts, Ends, Abandons
  <2>2. QED
    BY <1>1, <2>1, CacheableStep, HandStep DEF StatsInv, Balanced
<1>2. CASE UNCHANGED vars
  BY <1>2 DEF vars, control, history, StatsInv, OnlyCacheable, HandCacheable, Balanced, Pending, Counted, Enabled
<1>3. QED
  BY <1>1, <1>2

(* The statistics account for every proof that ended, once; only abandoned *)
(* operations are counted without ending (SolverCacheStat is an IORef that *)
(* no rollback touches).                                                   *)
THEOREM StatisticsBalance == Spec => []StatsBalance
<1>1. Init => StatsInv
  <2> SUFFICES ASSUME Init PROVE StatsInv
    OBVIOUS
  <2>1. OnlyCacheable
    BY OldAssumption DEF Init, OnlyCacheable, NoJob, EmptyDB
  <2>2. HandCacheable
    BY DEF Init, HandCacheable, InHand
  <2>3. ASSUME NEW p \in Procs
        PROVE  Counted(p) = 0 /\ ended[p] = 0 /\ aborted[p] = 0 /\ ~ Pending(p)
    BY DEF Init, Counted, Pending, Stats
  <2>4. QED
    BY <2>1, <2>2, <2>3 DEF StatsInv, Balanced
<1>2. CacheInv /\ StatsInv => StatsBalance
  <2> SUFFICES ASSUME CacheInv, StatsInv, NEW p \in Procs
               PROVE  /\ ended[p] <= Counted(p)
                      /\ Counted(p) <= ended[p] + aborted[p]
                                       + (IF pc[p] \in {"touching", "answering"} THEN 1 ELSE 0)
    BY DEF StatsBalance
  <2>1. ended[p] \in Nat /\ aborted[p] \in Nat /\ Counted(p) \in Nat
    <3>1. stats[p] \in [Stats -> Nat] /\ {"lookups", "inserts", "failedInserts"} \subseteq Stats
      BY DEF CacheInv, TypeOK, Stats
    <3>2. QED
      BY <3>1 DEF CacheInv, TypeOK, Counted
  <2>2. QED
    BY <2>1 DEF StatsInv, Balanced, Pending
<1>3. QED
  BY CacheInvariant, StatsStep, <1>1, <1>2, PTL DEF Spec
=============================================================================
