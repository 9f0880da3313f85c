------------------------------- MODULE Proof --------------------------------
(***************************************************************************)
(* Theorems, proof states and evidence (SAWCentral.Proof), with the proof  *)
(* commands of SAWCentral.Builtins that act on them.                       *)
(*                                                                         *)
(* A script transforms the first goal of a proof state one tactic at a     *)
(* time, and each tactic leaves a piece of evidence.  When no goal is left *)
(* the evidence is checked, from the proposition down, by code that shares *)
(* nothing with the tactics; only then is there a theorem.                 *)
(*                                                                         *)
(* The terms of the logic are abstract: a proposition is known by the      *)
(* models it is true in, by the variables that tactics introduced and that *)
(* are free in it, and by what the code can take it apart into.  Equality  *)
(* of propositions is convertibility.  Evidence is a tree; it is kept here *)
(* as the sequence of its nodes, each before its children, which is the    *)
(* order tactics produce them in (withFirstGoal works on the first goal,   *)
(* and its continuation puts the evidence of that goal's subgoals first)   *)
(* and the order checkEvidence visits them in.                             *)
(***************************************************************************)
EXTENDS Naturals, Sequences, FiniteSets

CONSTANTS
  Prop,       \* propositions
  Model,      \* interpretations of whatever is uninterpreted or free
  Truth,      \* the models each proposition is true in
  VarName,    \* names that the intro tactic may come to use
  Free,       \* those that occur free in each proposition
  \* How propositions come apart, each a function on those that do:
  Conj, Disj, Neg, Impl, Ite,   \* EqTrue of a Boolean connective, or P -> Q
  PiConj, PiDisj,   \* a quantified conjunction or disjunction, split under the quantifier
  Arrow,      \* the implications that are non-dependent function types
  Pi,         \* for each quantified proposition, its body at each variable
  Inst,       \* the propositions that applying each one to terms gives
  Eqn,        \* the equations, usable as rewrite rules
  Simp,       \* what evaluating, unfolding or normalising makes of each proposition
  \* What scripts do:
  Conclusions,   \* what they set out to prove
  CoreProps,     \* what they state in core_axiom and core_thm
  CutProps,      \* what they cut with
  Weakens,       \* those whose scripts drop conclusions (delete_concl, retain_concl)
  Foreign,       \* those whose scripts put back proof states of other proofs
  Exports,       \* those whose scripts write goals to files (offline_*)
  Loose,         \* what they have proof terms for that prove anything
  NoJob,      \* no script is running
  \* Bounds:
  MaxTheorems,
  MaxSteps,    \* on the evidence of one proof, for each theorem it may become
  SavedSteps   \* on the evidence of a proof state that proof_checkpoint captures

Parts(D) == [D -> [l : Prop, r : Prop]]

(* The types of the operations above.                                      *)
ASSUME ShapeAssumption ==
  /\ Truth \in [Prop -> SUBSET Model]
  /\ Free \in [Prop -> SUBSET VarName]
  /\ \A f \in {Conj, Disj, Impl, PiConj, PiDisj, Eqn} :
       DOMAIN f \subseteq Prop /\ f \in Parts(DOMAIN f)
  /\ DOMAIN Ite \subseteq Prop
  /\ Ite \in [DOMAIN Ite -> [b : Prop, x : Prop, nb : Prop, y : Prop]]
  /\ DOMAIN Neg \subseteq Prop /\ Neg \in [DOMAIN Neg -> Prop]
  /\ DOMAIN Ite \cap UNION {DOMAIN f : f \in {Conj, PiConj, Disj, PiDisj, Impl}} = {}
  /\ DOMAIN Neg \cap UNION {DOMAIN f : f \in {Conj, Disj, Impl}} = {}
  /\ \A p \in DOMAIN Disj \cap DOMAIN Impl :   \* or (not h) c, or c (not h)
       \E parts \in {<<Disj[p].l, Disj[p].r>>, <<Disj[p].r, Disj[p].l>>} :
         parts[1] \in DOMAIN Neg /\ Impl[p] = [l |-> Neg[parts[1]], r |-> parts[2]]
  /\ Arrow \subseteq DOMAIN Impl
  /\ DOMAIN Pi \subseteq Prop /\ Pi \in [DOMAIN Pi -> [VarName -> Prop]]
  /\ Inst \in [Prop -> SUBSET Prop]
  /\ Simp \in [Prop -> Prop]
  /\ Conclusions \subseteq Prop /\ CoreProps \subseteq Prop /\ CutProps \subseteq Prop
  /\ Weakens \subseteq Conclusions /\ Foreign \subseteq Conclusions
  /\ Exports \subseteq Conclusions /\ Loose \subseteq Prop
  /\ MaxTheorems \in Nat /\ MaxSteps \in [1..MaxTheorems -> Nat] /\ SavedSteps \in Nat

(* The connectives mean what they should.  A part mentions nothing that the *)
(* whole does not, nor an implication anything that its parts do not.       *)
(* Nothing is assumed of PiDisj: under a quantifier neither part of a       *)
(* disjunction need hold.                                                   *)
ASSUME LogicAssumption ==
  /\ \A f \in {Conj, PiConj} : \A p \in DOMAIN f :
       Truth[p] = Truth[f[p].l] \cap Truth[f[p].r]
  /\ \A p \in DOMAIN Disj : Truth[p] = Truth[Disj[p].l] \cup Truth[Disj[p].r]
  /\ \A p \in DOMAIN Impl : Truth[p] = (Model \ Truth[Impl[p].l]) \cup Truth[Impl[p].r]
  /\ \A p \in DOMAIN Neg : Truth[p] = Model \ Truth[Neg[p]]
  /\ \A p \in DOMAIN Ite :
       /\ Truth[Ite[p].nb] = Model \ Truth[Ite[p].b]
       /\ Truth[p] = (Truth[Ite[p].b] \cap Truth[Ite[p].x]) \cup (Truth[Ite[p].nb] \cap Truth[Ite[p].y])
  /\ \A p \in Prop : \A i \in Inst[p] : Truth[p] \subseteq Truth[i]
  /\ \A p \in DOMAIN Eqn : Truth[p] \cap Truth[Eqn[p].l] = Truth[p] \cap Truth[Eqn[p].r]
  /\ \A p \in Prop : Truth[Simp[p]] = Truth[p] /\ Free[Simp[p]] \subseteq Free[p]
  /\ \A f \in {Conj, Disj, Impl, PiConj, PiDisj, Eqn} : \A p \in DOMAIN f :
       Free[f[p].l] \cup Free[f[p].r] \subseteq Free[p]
  /\ \A p \in DOMAIN Impl : Free[p] \subseteq Free[Impl[p].l] \cup Free[Impl[p].r]
  /\ \A p \in DOMAIN Neg : Free[Neg[p]] \subseteq Free[p]
  /\ \A p \in DOMAIN Ite : \A q \in {Ite[p].b, Ite[p].x, Ite[p].nb, Ite[p].y} : Free[q] \subseteq Free[p]
  /\ \A p \in DOMAIN Pi : \A v \in VarName : Free[Pi[p][v]] \subseteq Free[p] \cup {v}

(* A quantified proposition that fails, fails at some value: giving that   *)
(* value to a variable the proposition does not mention changes nothing in *)
(* the propositions that do not mention it either.                         *)
ASSUME GenericAssumption ==
  \A p \in DOMAIN Pi : \A v \in VarName \ Free[p] : \A m \in Model \ Truth[p] :
    \E other \in Model \ Truth[Pi[p][v]] :
      \A q \in Prop : v \notin Free[q] => (m \in Truth[q] <=> other \in Truth[q])

(* Terms are finite: a proposition cannot be taken apart for ever.          *)
Apart(p) ==
  {q \in Prop : \/ p \in DOMAIN Neg /\ q = Neg[p]
               \/ \E f \in {Conj, Disj, Impl} : p \in DOMAIN f /\ q \in {f[p].l, f[p].r}}

ASSUME FinitenessAssumption ==
  \A S \in SUBSET Prop : S # {} => \E p \in S : Apart(p) \cap S = {}

-----------------------------------------------------------------------------
(* Sequents: hypotheses, conclusions, and at most one of them in focus.    *)

Sides == {"none", "hyp", "concl"}

WellFocused(s) ==
  /\ s.side = "hyp" => s.pos \in DOMAIN s.hs
  /\ s.side = "concl" => s.pos \in DOMAIN s.gs

Sequent == {s \in [hs : Seq(Prop), gs : Seq(Prop), side : Sides, pos : Nat] : WellFocused(s)}

Unfocused(hs, gs) == [hs |-> hs, gs |-> gs, side |-> "none", pos |-> 0]
OnHyp(hs, gs, i) == [hs |-> hs, gs |-> gs, side |-> "hyp", pos |-> i]
OnConcl(hs, gs, i) == [hs |-> hs, gs |-> gs, side |-> "concl", pos |-> i]

propToSequent(p) == OnConcl(<<>>, <<p>>, 1)

Elems(seq) == {seq[i] : i \in DOMAIN seq}

Focus(s) == IF s.side = "hyp" THEN s.hs[s.pos] ELSE s.gs[s.pos]

(* The sequent with another proposition in focus.                          *)
Refocus(s, p) ==
  IF s.side = "hyp" THEN [s EXCEPT !.hs[s.pos] = p] ELSE [s EXCEPT !.gs[s.pos] = p]

addHypothesis(p, s) == [s EXCEPT !.hs = Append(@, p)]
addNewFocusedConcl(p, s) == OnConcl(s.hs, Append(s.gs, p), Len(s.gs) + 1)

MapOn(f, seq) == [i \in DOMAIN seq |-> f[seq[i]]]

traverseSequentWithFocus(f, s) ==
  IF s.side = "none" THEN Unfocused(MapOn(f, s.hs), MapOn(f, s.gs)) ELSE Refocus(s, f[Focus(s)])

(* The focus, after the element at position i of its side is dropped.      *)
Without(seq, i) == SubSeq(seq, 1, i - 1) \o SubSeq(seq, i + 1, Len(seq))

FocusUnmoved(s, side, i) == s   \* mutant: the focus stays where it was
FocusWithout(s, side, i) ==
  CASE s.side # side \/ s.pos < i -> s
    [] s.side = side /\ s.pos = i -> [s EXCEPT !.side = "none", !.pos = 0]
    [] OTHER -> [s EXCEPT !.pos = @ - 1]

filterHyps(s, i) == [FocusWithout(s, "hyp", i) EXCEPT !.hs = Without(@, i)]
filterConcls(s, i) == [FocusWithout(s, "concl", i) EXCEPT !.gs = Without(@, i)]

(* The first sequent, if proved, proves the second.                        *)
sequentSubsumes(s1, s2) == Elems(s1.hs) \subseteq Elems(s2.hs) /\ Elems(s2.gs) \subseteq Elems(s1.gs)

-----------------------------------------------------------------------------
(* Normal forms: the reversible rules applied as far as they go, to a      *)
(* hypothesis or to a conclusion.  Only sets of propositions matter.       *)

Join(r1, r2) == [hs |-> r1.hs \cup r2.hs, gs |-> r1.gs \cup r2.gs]

Norm[x \in {"hyp", "concl"} \X Prop] ==
  LET p == x[2]
      Hyp(q) == Norm[<<"hyp", q>>]
      Concl(q) == Norm[<<"concl", q>>]
  IN IF x[1] = "hyp"
     THEN CASE p \in DOMAIN Neg -> Concl(Neg[p])
            [] p \in DOMAIN Conj -> Join(Hyp(Conj[p].l), Hyp(Conj[p].r))
            [] OTHER -> [hs |-> {p}, gs |-> {}]
     ELSE CASE p \in DOMAIN Neg -> Hyp(Neg[p])
            [] p \in DOMAIN Disj -> Join(Concl(Disj[p].l), Concl(Disj[p].r))
            [] p \in DOMAIN Impl \ DOMAIN Disj -> Join(Hyp(Impl[p].l), Concl(Impl[p].r))
            [] OTHER -> [hs |-> {}, gs |-> {p}]

normalizeSequent(s) ==
  LET forms == {Norm[<<"hyp", p>>] : p \in Elems(s.hs)} \cup {Norm[<<"concl", p>>] : p \in Elems(s.gs)}
  IN [hs |-> UNION {f.hs : f \in forms}, gs |-> UNION {f.gs : f \in forms}]

normalizeSequentSubsumes(s1, s2) ==
  /\ normalizeSequent(s1).hs \subseteq normalizeSequent(s2).hs
  /\ normalizeSequent(s2).gs \subseteq normalizeSequent(s1).gs

(* A list of the elements of a set, in some order.                         *)
Listing(S) == CHOOSE seq \in [1..Cardinality(S) -> S] : Elems(seq) = S

-----------------------------------------------------------------------------
(* Rules that take a proposition apart or apply one.                       *)

(* Mutant: the first part, twice.                                          *)
splitConjFirst ==
  [p \in DOMAIN Conj \cup DOMAIN PiConj |->
     LET c == IF p \in DOMAIN Conj THEN Conj[p] ELSE PiConj[p] IN [l |-> c.l, r |-> c.l]]

splitConj == [p \in DOMAIN Conj \cup DOMAIN PiConj |-> IF p \in DOMAIN Conj THEN Conj[p] ELSE PiConj[p]]
splitDisj == [p \in DOMAIN Disj \cup DOMAIN PiDisj |-> IF p \in DOMAIN Disj THEN Disj[p] ELSE PiDisj[p]]

(* The two subgoals of a sequent that splits, or no sequent at all.        *)
splitSequent(s) ==
  LET p == Focus(s)
      Add(h, q) == addHypothesis(h, Refocus(s, q))
  IN CASE s.side = "concl" /\ p \in DOMAIN splitConj ->
            <<Refocus(s, splitConj[p].l), Refocus(s, splitConj[p].r)>>
       [] s.side = "hyp" /\ p \in DOMAIN splitDisj ->
            <<Refocus(s, splitDisj[p].l), Refocus(s, splitDisj[p].r)>>
       [] s.side # "none" /\ p \in DOMAIN Ite ->
            <<Add(Ite[p].b, Ite[p].x), Add(Ite[p].nb, Ite[p].y)>>
       [] s.side = "hyp" /\ p \in DOMAIN Impl /\ p \notin DOMAIN splitDisj ->
            <<Refocus(s, Impl[p].r), addNewFocusedConcl(Impl[p].l, s)>>
       [] OTHER -> <<>>

(* What specializing a proposition with a list of terms can give: itself,  *)
(* for no terms, or an instance.                                           *)
specializeProp(p) == {p} \cup Inst[p]

(* p, specialized to inst, proves g: as it is or, with sub, once its       *)
(* premise is proved.                                                      *)
Applies(p, inst, sub, g) ==
  /\ inst \in specializeProp(p)
  /\ IF sub THEN inst \in Arrow /\ Impl[inst].r = g ELSE inst = g

Premises(s, inst, sub) == IF sub THEN <<Refocus(s, Impl[inst].l)>> ELSE <<>>

(* Rewriting with an equation.                                             *)
Rewrite(eqn) == [p \in Prop |-> IF p = Eqn[eqn].l THEN Eqn[eqn].r ELSE p]

simplifySequent(eqn, s) == traverseSequentWithFocus(Rewrite(eqn), s)
evalSequent(s) == traverseSequentWithFocus(Simp, s)

-----------------------------------------------------------------------------
(* Evidence.                                                               *)

Nonce == 1..MaxTheorems

(* The code has one SolverEvidence, for what a prover proved and for what   *)
(* was only written to a file ("offline"); one ProofTerm, for closed terms *)
(* of the logic and for those that prove anything ("loose": with a free    *)
(* variable, or made with fix, error or unsafeAssert of the Prelude); and  *)
(* one SplitEvidence, under a quantifier ("splitPi") or not.  They are told *)
(* apart here for the properties to speak of, and nothing else does.       *)
Leaves == {"solver", "offline", "admitted", "tested"}
Terms == {"term", "loose"}
Splits == {"split", "splitPi"}

Evidence ==
  [k : Terms \cup {"cut"}, p : Prop]
    \cup [k : Leaves \cup {"structural", "normalize"}, s : Sequent]
    \cup [k : Splits \cup {"eval"}]
    \cup [k : {"apply"}, thm : Nonce, inst : Prop, sub : BOOLEAN]
    \cup [k : {"applyHyp"}, n : Nat, inst : Prop, sub : BOOLEAN]
    \cup [k : {"intro"}, x : VarName]
    \cup [k : {"insert"}, thm : Nonce, inst : Prop]
    \cup [k : {"specializeHyp"}, n : Nat, inst : Prop]
    \cup [k : {"rewrite"}, thm : Nonce, rule : DOMAIN Eqn]

VARIABLES
  thms,    \* every theorem made, in the order of their nonces
  db,      \* the nonces of those in the TheoremDB
  used,    \* the names that intro has used: they are never issued again
  phase,   \* "idle", or a script is "proving", or its evidence is "checking"
  job,     \* the arguments of runProofScript
  proof,   \* the ProofState
  saved,   \* proof states that proof_checkpoint captured and scripts still hold
  check    \* where checkEvidence has got to

vars == <<thms, db, used, phase, job, proof, saved, check>>

(* A theorem's summary: the worst of what its evidence relies on.          *)
Summary == {"proved", "tested", "admitted"}
Worst(a, b) ==
  IF "admitted" \in {a, b} THEN "admitted" ELSE IF "tested" \in {a, b} THEN "tested" ELSE "proved"

(* What else a theorem rests on, which its summary does not say, is kept    *)
(* with it as "unsaid"; it stands for the evidence, which the code keeps.   *)
(* A theorem made of the proof state of another proof is "foreign".         *)
Unsaid == {"offline", "loose", "splitPi", "foreign"}

Theorem == [prop : Prop, deps : SUBSET Nonce, sum : Summary, unsaid : SUBSET Unsaid]
ProofState == [goals : Seq(Sequent), concl : Sequent, ev : Seq(Evidence)]
Job == [prop : Prop, concl : Sequent, record : BOOLEAN, sequent : BOOLEAN]
Check ==
  [todo : Seq(Sequent), rest : Seq(Evidence), deps : SUBSET Nonce, sum : Summary, unsaid : SUBSET Unsaid]

NoSequent == Unfocused(<<>>, <<>>)
NoProof == [goals |-> <<>>, concl |-> NoSequent, ev |-> <<>>]
NoCheck == [todo |-> <<>>, rest |-> <<>>, deps |-> {}, sum |-> "proved", unsaid |-> {}]
Jobs == Job \cup {NoJob}

Init ==
  /\ thms = <<>> /\ db = {} /\ used = {}
  /\ phase = "idle" /\ job = NoJob /\ proof = NoProof /\ saved = {} /\ check = NoCheck

-----------------------------------------------------------------------------
(* Theorems made without a script, from text that mentions no variable.    *)

(* Mutant: the database forgets what it held.                              *)
NewTheoremAlone(p, deps, sum, unsaid, record) ==
  /\ Len(thms) < MaxTheorems
  /\ thms' = Append(thms, [prop |-> p, deps |-> deps, sum |-> sum, unsaid |-> unsaid])
  /\ db' = IF record THEN {Len(thms) + 1} ELSE db

NewTheorem(p, deps, sum, unsaid, record) ==
  /\ Len(thms) < MaxTheorems
  /\ thms' = Append(thms, [prop |-> p, deps |-> deps, sum |-> sum, unsaid |-> unsaid])
  /\ db' = IF record THEN db \cup {Len(thms) + 1} ELSE db

Holds(p) == Truth[p] = Model

core_axiom(p) ==
  /\ phase = "idle"
  /\ Free[p] = {}
  /\ NewTheorem(p, {}, "admitted", {}, TRUE)
  /\ UNCHANGED <<used, phase, job, proof, saved, check>>

(* A proof term has a proposition as its type only when that is true,       *)
(* unless it is loose: the code looks at its type alone.                    *)
HasProofTerm(kind, p) == IF kind = "loose" THEN p \in Loose ELSE Holds(p)

core_thm(p) ==
  /\ phase = "idle"
  /\ Free[p] = {}
  /\ \E kind \in Terms :
       /\ HasProofTerm(kind, p)
       /\ NewTheorem(p, {}, "proved", {kind} \cap Unsaid, TRUE)
  /\ UNCHANGED <<used, phase, job, proof, saved, check>>

(* Checked as evidence that applies the theorem: no hypothesis is left.    *)
specialize_theorem(n, inst) ==
  /\ phase = "idle"
  /\ inst \in Inst[thms[n].prop]
  /\ Free[inst] \subseteq used
  /\ NewTheorem(inst, {n}, "proved", {}, TRUE)
  /\ UNCHANGED <<used, phase, job, proof, saved, check>>

-----------------------------------------------------------------------------
(* A proof script.                                                         *)

(* What is to be proved is a proposition, or an implication already taken  *)
(* apart (enable_sequent_goals, which only verification conditions heed).  *)
(* A script that puts back the proof state of another one loses what it    *)
(* had done by then, so it may as well begin with that.                    *)
StartProof(p, sequent, record) ==
  LET concl == IF sequent THEN OnConcl(<<Impl[p].l>>, <<Impl[p].r>>, 1) ELSE propToSequent(p) IN
  /\ phase = "idle"
  /\ Len(thms) < MaxTheorems
  /\ Free[p] \subseteq used
  /\ sequent => p \in DOMAIN Impl \ Arrow /\ ~ record
  /\ phase' = "proving"
  /\ job' = [prop |-> p, concl |-> concl, record |-> record, sequent |-> sequent]
  /\ proof' \in {[goals |-> <<concl>>, concl |-> concl, ev |-> <<>>]}
                  \cup (IF p \in Foreign THEN saved ELSE {})
  /\ saved' = {}
  /\ UNCHANGED <<thms, db, used, check>>

Goal == Head(proof.goals)

(* Mutant: the evidence of the first is left.                              *)
GrownOnce(ev, e) ==
  IF e.k = "structural" /\ ev # <<>> /\ ev[Len(ev)].k = "structural" THEN ev ELSE Append(ev, e)

(* Two structural steps in a row leave the evidence of the second alone.   *)
Grown(ev, e) ==
  IF e.k = "structural" /\ ev # <<>> /\ ev[Len(ev)].k = "structural"
  THEN [ev EXCEPT ![Len(ev)] = e]
  ELSE Append(ev, e)

(* A tactic that turns the first goal into new ones, for the evidence e.   *)
Tactic(new, e) ==
  /\ phase = "proving"
  /\ Len(proof.ev) < MaxSteps[Len(thms) + 1]
  /\ proof' = [proof EXCEPT !.goals = new \o Tail(@), !.ev = Grown(@, e)]
  /\ UNCHANGED <<thms, db, phase, job, saved, check>>

HasGoal == phase = "proving" /\ proof.goals # <<>>
OnConclusion == HasGoal /\ Goal.side = "concl"

Known(p) == Free[p] \subseteq used

freshVarAgain(issued) == CHOOSE x \in VarName : TRUE   \* mutant: one name for all
freshVar(issued) == CHOOSE x \in VarName : x \notin issued

tacticIntro ==
  /\ OnConclusion
  /\ Focus(Goal) \in DOMAIN Pi
  /\ VarName \ used # {}
  /\ LET x == freshVar(used) IN
       /\ Tactic(<<Refocus(Goal, Pi[Focus(Goal)][x])>>, [k |-> "intro", x |-> x])
       /\ used' = used \cup {x}

tacticIntroHyps ==
  /\ OnConclusion
  /\ Focus(Goal) \in DOMAIN Impl
  /\ LET new == addHypothesis(Impl[Focus(Goal)].l, Refocus(Goal, Impl[Focus(Goal)].r))
     IN Tactic(<<new>>, [k |-> "normalize", s |-> new])
  /\ UNCHANGED used

tacticRevertHyp ==
  /\ OnConclusion
  /\ \E i \in DOMAIN Goal.hs, p \in DOMAIN Impl \ Arrow :
       /\ Impl[p] = [l |-> Goal.hs[i], r |-> Focus(Goal)]
       /\ LET new == Refocus(Goal, p) IN Tactic(<<new>>, [k |-> "normalize", s |-> new])
  /\ UNCHANGED used

tacticApplyHyp ==
  /\ OnConclusion
  /\ \E i \in DOMAIN Goal.hs, inst \in Prop, sub \in BOOLEAN :
       /\ Known(inst)
       /\ Applies(Goal.hs[i], inst, sub, Focus(Goal))
       /\ Tactic(Premises(Goal, inst, sub), [k |-> "applyHyp", n |-> i, inst |-> inst, sub |-> sub])
  /\ UNCHANGED used

tacticApply ==
  /\ OnConclusion
  /\ \E n \in db, inst \in Prop, sub \in BOOLEAN :
       /\ Known(inst)
       /\ Applies(thms[n].prop, inst, sub, Focus(Goal))
       /\ Tactic(Premises(Goal, inst, sub), [k |-> "apply", thm |-> n, inst |-> inst, sub |-> sub])
  /\ UNCHANGED used

UnderQuantifier(s) == s.side = "hyp" /\ Focus(s) \in DOMAIN PiDisj \ DOMAIN Disj

tacticSplit ==
  /\ HasGoal
  /\ splitSequent(Goal) # <<>>
  /\ Tactic(splitSequent(Goal), [k |-> IF UnderQuantifier(Goal) THEN "splitPi" ELSE "split"])
  /\ UNCHANGED used

tacticSpecializeHyp ==
  /\ HasGoal
  /\ Goal.side = "hyp"
  /\ \E inst \in Inst[Focus(Goal)] :
       /\ Known(inst)
       /\ Tactic(<<addHypothesis(inst, Goal)>>, [k |-> "specializeHyp", n |-> Goal.pos, inst |-> inst])
  /\ UNCHANGED used

tacticInsert ==
  /\ HasGoal
  /\ \E n \in db : \E inst \in specializeProp(thms[n].prop) :
       /\ Known(inst)
       /\ Tactic(<<addHypothesis(inst, Goal)>>, [k |-> "insert", thm |-> n, inst |-> inst])
  /\ UNCHANGED used

tacticCut ==
  /\ HasGoal
  /\ \E p \in CutProps :
       /\ Known(p)
       /\ Tactic(<<addHypothesis(p, Goal), addNewFocusedConcl(p, Goal)>>, [k |-> "cut", p |-> p])
  /\ UNCHANGED used

(* trivial and goal_exact: a proof term for the focused conclusion.        *)
tacticExact ==
  /\ OnConclusion
  /\ \E kind \in Terms :
       /\ HasProofTerm(kind, Focus(Goal))
       /\ Tactic(<<>>, [k |-> kind, p |-> Focus(Goal)])
  /\ UNCHANGED used

Valid(s) ==
  \A m \in Model :
    (\A i \in DOMAIN s.hs : m \in Truth[s.hs[i]]) => \E i \in DOMAIN s.gs : m \in Truth[s.gs[i]]

Leaf(kind) == Tactic(<<>>, [k |-> kind, s |-> Goal]) /\ UNCHANGED used

(* A prover's answer is trusted, and so is none: the offline_* tactics      *)
(* write the goal to a file and call it solved.  (A counterexample ends the *)
(* proof, and an unknown leaves it as it is.)                               *)
tacticSolve ==
  /\ HasGoal
  /\ \/ Valid(Goal) /\ Leaf("solver")
     \/ job.prop \in Exports /\ Leaf("offline")

(* assume_valid, assume_unsat and admit, and quickcheck.                   *)
admitProof == HasGoal /\ Leaf("admitted")
quickcheckGoal == HasGoal /\ Leaf("tested")

Structural(s) == Tactic(<<s>>, [k |-> "structural", s |-> s]) /\ UNCHANGED used

unfocus == HasGoal /\ Structural(Unfocused(Goal.hs, Goal.gs))
focus_concl == HasGoal /\ \E i \in DOMAIN Goal.gs : Structural(OnConcl(Goal.hs, Goal.gs, i))
focus_hyp == HasGoal /\ \E i \in DOMAIN Goal.hs : Structural(OnHyp(Goal.hs, Goal.gs, i))
delete_hyps == HasGoal /\ \E i \in DOMAIN Goal.hs : Structural(filterHyps(Goal, i))
delete_concl == HasGoal /\ job.prop \in Weakens /\ \E i \in DOMAIN Goal.gs : Structural(filterConcls(Goal, i))

normalize_sequent ==
  LET form == normalizeSequent(Goal)
      new == Unfocused(Listing(form.hs), Listing(form.gs))
  IN HasGoal /\ Tactic(<<new>>, [k |-> "normalize", s |-> new]) /\ UNCHANGED used

(* goal_eval, unfolding, goal_normalize, hoisting: computed again, in the  *)
(* same way, when the evidence is checked.                                 *)
goal_eval == HasGoal /\ Tactic(<<evalSequent(Goal)>>, [k |-> "eval"]) /\ UNCHANGED used

(* Only the rules that were used become dependencies, so a step that       *)
(* rewrites nothing is left out.                                           *)
simplifyGoal ==
  /\ HasGoal
  /\ \E n \in db :
       /\ thms[n].prop \in DOMAIN Eqn
       /\ simplifySequent(thms[n].prop, Goal) # Goal
       /\ Known(Eqn[thms[n].prop].r)
       /\ Tactic(<<simplifySequent(thms[n].prop, Goal)>>, [k |-> "rewrite", thm |-> n, rule |-> thms[n].prop])
  /\ UNCHANGED used

(* The whole proof state, to be put back at any time by whoever holds it:  *)
(* the rest of the script or, with a conclusion in Foreign, the script of  *)
(* another proof, one run inside this one or after it, which found the     *)
(* proof state in a rebindable variable (StartProof).                      *)
proof_checkpoint ==
  /\ phase = "proving"
  /\ Len(proof.ev) <= SavedSteps
  /\ saved' = {proof}
  /\ UNCHANGED <<thms, db, used, phase, job, proof, check>>

RestoreProof ==
  /\ phase = "proving"
  /\ \E ps \in saved : proof' = ps
  /\ UNCHANGED <<thms, db, used, phase, job, saved, check>>

(* A counterexample, an error, or a script that ends with goals left.      *)
EndWithoutTheorem ==
  /\ phase = "proving"
  /\ phase' = "idle" /\ job' = NoJob /\ proof' = NoProof
  /\ UNCHANGED <<thms, db, used, saved, check>>

-----------------------------------------------------------------------------
(* finishProof, and the check it ends with.                                *)

finishProof ==
  /\ phase = "proving"
  /\ proof.goals = <<>>
  /\ phase' = "checking"
  /\ check' = [todo |-> <<propToSequent(job.prop)>>,
               rest |-> IF job.sequent THEN <<[k |-> "normalize", s |-> proof.concl]>> \o proof.ev
                                       ELSE proof.ev,
               deps |-> {}, sum |-> "proved",
               unsaid |-> IF proof.concl = job.concl THEN {} ELSE {"foreign"}]
  /\ UNCHANGED <<thms, db, used, job, proof, saved>>

Onward(s) == s.side = "concl"

(* Whether a node of evidence is of any use for a sequent.                 *)
Accepts(e, s) ==
  CASE e.k \in Terms -> Onward(s) /\ Focus(s) = e.p
    [] e.k \in Leaves \cup {"structural"} -> sequentSubsumes(e.s, s)
    [] e.k = "normalize" -> normalizeSequentSubsumes(e.s, s)
    [] e.k \in Splits -> splitSequent(s) # <<>>
    [] e.k = "apply" -> Onward(s) /\ Applies(thms[e.thm].prop, e.inst, e.sub, Focus(s))
    [] e.k = "applyHyp" -> Onward(s) /\ e.n \in DOMAIN s.hs /\ Applies(s.hs[e.n], e.inst, e.sub, Focus(s))
    [] e.k = "intro" -> Onward(s) /\ Focus(s) \in DOMAIN Pi
    [] e.k = "insert" -> e.inst \in specializeProp(thms[e.thm].prop)
    [] e.k = "specializeHyp" -> e.n \in DOMAIN s.hs /\ e.inst \in specializeProp(s.hs[e.n])
    [] e.k \in {"cut", "eval", "rewrite"} -> TRUE

(* The sequents that the evidence below the node must be for.              *)
Subgoals(e, s) ==
  CASE e.k \in Leaves \cup Terms -> <<>>
    [] e.k \in {"structural", "normalize"} -> <<e.s>>
    [] e.k \in Splits -> splitSequent(s)
    [] e.k \in {"apply", "applyHyp"} -> Premises(s, e.inst, e.sub)
    [] e.k = "intro" -> <<Refocus(s, Pi[Focus(s)][e.x])>>
    [] e.k = "cut" -> <<addHypothesis(e.p, s), addNewFocusedConcl(e.p, s)>>
    [] e.k \in {"insert", "specializeHyp"} -> <<addHypothesis(e.inst, s)>>
    [] e.k = "eval" -> <<evalSequent(s)>>
    [] e.k = "rewrite" -> <<simplifySequent(e.rule, s)>>

(* The theorems the node relies on.                                        *)
DependsOnRules(e) == IF e.k \in {"apply", "rewrite"} THEN {e.thm} ELSE {}   \* mutant: not on insertions
DependsOn(e) == IF e.k \in {"apply", "insert", "rewrite"} THEN {e.thm} ELSE {}

SummaryOfAdmission(e) == IF e.k = "admitted" THEN e.k ELSE "proved"   \* mutant: tests are proofs
SummaryOf(e) == IF e.k \in {"admitted", "tested"} THEN e.k ELSE "proved"

(* One node, and its sequent.                                              *)
checkEvidence ==
  /\ phase = "checking"
  /\ check.rest # <<>> /\ check.todo # <<>>
  /\ LET e == Head(check.rest)
         s == Head(check.todo)
     IN /\ Accepts(e, s)
        /\ check' = [todo |-> Subgoals(e, s) \o Tail(check.todo),
                     rest |-> Tail(check.rest),
                     deps |-> check.deps \cup DependsOn(e),
                     sum |-> Worst(check.sum, SummaryOf(e)),
                     unsaid |-> check.unsaid \cup ({e.k} \cap Unsaid)]
  /\ UNCHANGED <<thms, db, used, phase, job, proof, saved>>

BackToIdle ==
  /\ phase' = "idle" /\ job' = NoJob /\ proof' = NoProof /\ check' = NoCheck
  /\ UNCHANGED <<used, saved>>

(* The evidence does not fit: an error, and no theorem.                    *)
CheckFails ==
  /\ phase = "checking"
  /\ check.rest # <<>> /\ check.todo # <<>>
  /\ ~ Accepts(Head(check.rest), Head(check.todo))
  /\ BackToIdle
  /\ UNCHANGED <<thms, db>>

MakeTheorem ==
  /\ phase = "checking"
  /\ check.rest = <<>> /\ check.todo = <<>>
  /\ NewTheorem(job.prop, check.deps, check.sum, check.unsaid, job.record)
  /\ BackToIdle

-----------------------------------------------------------------------------
Checking == checkEvidence \/ CheckFails \/ MakeTheorem

Next ==
  \/ \E p \in CoreProps : core_axiom(p) \/ core_thm(p)
  \/ \E n \in db, inst \in Prop : specialize_theorem(n, inst)
  \/ \E p \in Conclusions, sequent, record \in BOOLEAN : StartProof(p, sequent, record)
  \/ tacticIntro \/ tacticIntroHyps \/ tacticRevertHyp
  \/ tacticApplyHyp \/ tacticApply \/ tacticSplit
  \/ tacticSpecializeHyp \/ tacticInsert \/ tacticCut \/ tacticExact
  \/ tacticSolve \/ admitProof \/ quickcheckGoal
  \/ unfocus \/ focus_concl \/ focus_hyp \/ delete_hyps \/ delete_concl
  \/ normalize_sequent \/ goal_eval \/ simplifyGoal
  \/ proof_checkpoint \/ RestoreProof
  \/ EndWithoutTheorem \/ finishProof \/ Checking

Spec == Init /\ [][Next]_vars
=============================================================================
