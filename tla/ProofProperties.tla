-------------------------- MODULE ProofProperties ---------------------------
(***************************************************************************)
(* What proof states, evidence and the theorem database guarantee.         *)
(***************************************************************************)
EXTENDS Proof

(* Every state component has its type, and the focus of every sequent, in  *)
(* a goal, in evidence or being checked, is on something that is there     *)
(* (FocusedBranch, Proof.hs).                                              *)
TypeOK ==
  /\ thms \in Seq(Theorem) /\ Len(thms) <= MaxTheorems
  /\ db \subseteq DOMAIN thms
  /\ used \subseteq VarName
  /\ phase \in {"idle", "proving", "checking"}
  /\ phase = "idle" => job = NoJob
  /\ phase # "idle" => job \in Job
  /\ proof \in ProofState
  /\ saved \subseteq ProofState
  /\ check \in Check

(* A theorem can be false in these ways only: it, or one of those that      *)
(* reachableTheorems finds from it, is summarised as admitted or tested, or *)
(* its evidence has a goal that was only written to a file, a proof term    *)
(* that proves anything, a disjunction split under a quantifier, or was     *)
(* begun for another proposition.  No other tactic, no captured proof state *)
(* and no evidence makes a theorem of a false proposition.  (The last three *)
(* the code tells nobody, and the first of them as the name of a prover.    *)
(* Evidence begun for another proposition may be accepted wrongly, because  *)
(* rawSequentSubsumes compares conclusions the wrong way round.)            *)
Grounded(n) == thms[n].sum = "proved" /\ thms[n].unsaid = {}

TheoremsHold ==
  \A S \in SUBSET DOMAIN thms :
    (\A n \in S : Grounded(n) /\ thms[n].deps \subseteq S)
      => \A n \in S : Holds(thms[n].prop)

(* The evidence has only true leaves and relies only on true theorems.     *)
Honest(ev) ==
  \A i \in DOMAIN ev :
    /\ ev[i].k \in {"offline", "admitted", "tested"} => Valid(ev[i].s)
    /\ ev[i].k = "loose" => Holds(ev[i].p)
    /\ ev[i].k \in {"apply", "insert", "rewrite"} => Holds(thms[ev[i].thm].prop)

(* "If each subgoal is provable, that implies the ultimate conclusion"     *)
(* (ProofState): of the current proof state and of every saved one.        *)
Implies(ps) == Honest(ps.ev) /\ (\A i \in DOMAIN ps.goals : Valid(ps.goals[i])) => Valid(ps.concl)

GoalsImplyConclusion == \A ps \in saved \cup {proof} : phase = "idle" \/ Implies(ps)

(* The evidence that tactics leave is evidence for what the script set out *)
(* to prove: when no goal is left the check, which recomputes every step   *)
(* from the proposition down, accepts it to the last node.  (Scripts that  *)
(* delete conclusions are left out, for the same reason: the check refuses *)
(* their evidence, sound as it is.)                                        *)
OwnEvidenceAccepted ==
  phase = "checking" /\ proof.concl = job.concl /\ job.prop \notin Weakens =>
    /\ check.todo = <<>> <=> check.rest = <<>>
    /\ check.rest # <<>> => Accepts(Head(check.rest), Head(check.todo))

(* Whatever a theorem or a verification condition depends on is in the     *)
(* database: reachableTheorems, which the verification summary is made     *)
(* with, finds it and does not panic.                                      *)
DependenciesRecorded == \A n \in DOMAIN thms : thms[n].deps \subseteq db

(* What a node of evidence mentions.                                       *)
Mentions(s) == UNION {Free[p] : p \in Elems(s.hs) \cup Elems(s.gs)}

NodeFree(e) ==
  CASE e.k \in Terms \cup {"cut"} -> Free[e.p]
    [] e.k \in Leaves \cup {"structural", "normalize"} -> Mentions(e.s)
    [] e.k \in {"apply", "applyHyp", "insert", "specializeHyp"} -> Free[e.inst]
    [] e.k = "rewrite" -> Free[Eqn[e.rule].r]
    [] OTHER -> {}

FreshIn(ps) ==
  \A i \in DOMAIN ps.ev :
    ps.ev[i].k = "intro" =>
      /\ ps.ev[i].x \notin Mentions(ps.concl)
      /\ \A j \in 1..(i - 1) : ps.ev[j].k = "intro" => ps.ev[j].x # ps.ev[i].x
      /\ \A j \in 1..(i - 1) : ps.ev[i].x \notin NodeFree(ps.ev[j])

(* The variable that an intro step names occurs nowhere above that step in *)
(* the evidence, which checkEvidence does not check (its TODO).            *)
IntroducedFresh == \A ps \in saved \cup {proof} : FreshIn(ps)

-----------------------------------------------------------------------------
(* What the definition of Norm, by recursion over propositions, amounts    *)
(* to: a normal form is finite and true in the same models, and mentions   *)
(* nothing new.  (NormalFormsKeepMeaning of ProofSoundness.)               *)
Forms == {"hyp", "concl"} \X Prop

FormHolds(r, m) == (\A q \in r.hs : m \in Truth[q]) /\ (\A q \in r.gs : m \notin Truth[q])

NormSound ==
  /\ Norm \in [Forms -> [hs : SUBSET Prop, gs : SUBSET Prop]]
  /\ \A x \in Forms : IsFiniteSet(Norm[x].hs) /\ IsFiniteSet(Norm[x].gs)
  /\ \A p \in Prop, m \in Model :
       /\ m \in Truth[p] <=> FormHolds(Norm[<<"hyp", p>>], m)
       /\ m \notin Truth[p] <=> FormHolds(Norm[<<"concl", p>>], m)
  /\ \A x \in Forms : \A q \in Norm[x].hs \cup Norm[x].gs : Free[q] \subseteq Free[x[2]]

-----------------------------------------------------------------------------
(* The database implements TheoremBase: every theorem that is added names  *)
(* what it depends on, and holds whenever they do unless its summary says  *)
(* otherwise or its evidence rests on what no summary tells.               *)
Base == INSTANCE TheoremBase

ImplementsBase == Base!Spec
=============================================================================
