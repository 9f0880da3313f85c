---------------------------- MODULE MCSolverCache ---------------------------
(* TLC instances of SolverCache: two processes that share databases.       *)
EXTENDS SolverCacheProperties

CONSTANTS here, there, f1, f2, q, sbv, z3, unsat, foreign

TwoProcs == {here, there}
TwoPaths == {f1, f2}
OneQuery == {q}
TwoBackends == {sbv, z3}

UsesBoth == [x \in OneQuery |-> TwoBackends]

(* z3 is updated, and then sbv does not tell its version.                  *)
Older == [b \in TwoBackends |-> "1"]
Versions == {Older, [Older EXCEPT ![z3] = "2", ![sbv] = Unknown]}

Outcomes == [x \in OneQuery |-> {unsat, foreign}]
Proper == {unsat}

(* Earlier sessions proved the query with every setup at one path, or not. *)
Fresh == [k \in Keys |-> NoEntry]
Used == [k \in Keys |-> [answer |-> unsat, used |-> FALSE]]
Left == {[f \in TwoPaths |-> IF f = g THEN Used ELSE Fresh] : g \in TwoPaths \cup {NoPath}}

JustHere == {here}

(* Both processes started with SAW_SOLVER_CACHE_PATH, or only one.         *)
Starts == {[p \in TwoProcs |-> f1], [p \in TwoProcs |-> IF p = here THEN f1 ELSE NoPath]}
=============================================================================
