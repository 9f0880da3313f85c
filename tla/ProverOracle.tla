---------------------------- MODULE ProverOracle ----------------------------
(***************************************************************************)
(* What the solver result cache promises to proofs: the answer a proof gets*)
(* is one that a solver computed, in this process or another, for the same *)
(* query with the same solver versions.  How it reached the proof, and how *)
(* often a solver ran for it, is left open.                                *)
(***************************************************************************)
CONSTANTS Procs, Keys, Answers, NoAnswer

VARIABLES
  computed,   \* what solvers have answered: pairs of a key and an answer
  answer      \* Procs -> the pair of the last proof that got one, or NoAnswer

Init ==
  /\ computed \subseteq Keys \X Answers   \* earlier sessions
  /\ answer = [p \in Procs |-> NoAnswer]

Compute(k, a) ==
  /\ computed' = computed \cup {<<k, a>>}
  /\ UNCHANGED answer

Reply(p, k, a) ==
  /\ <<k, a>> \in computed
  /\ answer' = [answer EXCEPT ![p] = <<k, a>>]
  /\ UNCHANGED computed

Next ==
  \E k \in Keys, a \in Answers :
    \/ Compute(k, a)
    \/ \E p \in Procs : Reply(p, k, a)

Spec == Init /\ [][Next]_<<computed, answer>>
=============================================================================
