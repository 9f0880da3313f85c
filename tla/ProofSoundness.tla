--------------------------- MODULE ProofSoundness ---------------------------
(***************************************************************************)
(* Proofs about Proof: types, scoping of variables, that every tactic is   *)
(* sound, that the summaries of theorems disclose what they rest on, that  *)
(* the theorem database implements TheoremBase, and that the check accepts *)
(* the evidence that tactics leave.                                        *)
(*                                                                         *)
(* The tactics are taken one at a time: a lemma for each says what its     *)
(* step does to the first goal (Step), and every invariant is then proved  *)
(* of such steps in general.                                               *)
(***************************************************************************)
EXTENDS ProofProperties, FiniteSetTheorems, SequenceTheorems, TLAPS

-----------------------------------------------------------------------------
(* Sequents.                                                               *)

(* The model is a counterexample to the sequent.                           *)
Fails(m, s) ==
  /\ \A i \in DOMAIN s.hs : m \in Truth[s.hs[i]]
  /\ \A i \in DOMAIN s.gs : m \notin Truth[s.gs[i]]

(* Every counterexample to s gives one to one of the sequents in new.      *)
Reduces(new, s) ==
  \A m \in Model : Fails(m, s) => \E i \in DOMAIN new, o \in Model : Fails(o, new[i])

InScope(s, U) ==
  /\ \A i \in DOMAIN s.hs : Free[s.hs[i]] \subseteq U
  /\ \A i \in DOMAIN s.gs : Free[s.gs[i]] \subseteq U

(* A sequent's fields.                                                     *)
LEMMA SequentFields ==
  ASSUME NEW s \in Sequent
  PROVE  /\ s.hs \in Seq(Prop) /\ s.gs \in Seq(Prop) /\ s.side \in Sides /\ s.pos \in Nat
         /\ s.side = "hyp" => s.pos \in DOMAIN s.hs
         /\ s.side = "concl" => s.pos \in DOMAIN s.gs
  BY DEF Sequent, WellFocused

(* Sequents written out are sequents.                                      *)
LEMMA SequentOf ==
  ASSUME NEW hs \in Seq(Prop), NEW gs \in Seq(Prop)
  PROVE  /\ Unfocused(hs, gs) \in Sequent
         /\ \A i \in DOMAIN hs : OnHyp(hs, gs, i) \in Sequent
         /\ \A i \in DOMAIN gs : OnConcl(hs, gs, i) \in Sequent
  BY DEF Sequent, WellFocused, Unfocused, OnHyp, OnConcl, Sides

(* A sequent with a proposition in focus has one.                          *)
LEMMA FocusIsProp ==
  ASSUME NEW s \in Sequent, s.side # "none"
  PROVE  /\ Focus(s) \in Prop
         /\ s.side = "hyp" => Focus(s) = s.hs[s.pos]
         /\ s.side = "concl" => Focus(s) = s.gs[s.pos]
  <1>1. s.side \in {"hyp", "concl"} BY SequentFields DEF Sides
  <1> QED BY <1>1, SequentFields DEF Focus

(* What Refocus changes.                                                   *)
LEMMA RefocusFields ==
  ASSUME NEW s \in Sequent, s.side # "none", NEW p \in Prop
  PROVE  /\ Refocus(s, p) \in Sequent
         /\ s.side = "hyp" => Refocus(s, p).hs = [s.hs EXCEPT ![s.pos] = p] /\ Refocus(s, p).gs = s.gs
         /\ s.side = "concl" => Refocus(s, p).gs = [s.gs EXCEPT ![s.pos] = p] /\ Refocus(s, p).hs = s.hs
         /\ Refocus(s, p).side = s.side /\ Refocus(s, p).pos = s.pos
  <1> DEFINE hs == [s.hs EXCEPT ![s.pos] = p]
             gs == [s.gs EXCEPT ![s.pos] = p]
  <1>1. s.hs \in Seq(Prop) /\ s.gs \in Seq(Prop) BY SequentFields
  <1>4. CASE s.side = "hyp"
    <2>0. s.pos \in 1..Len(s.hs) BY <1>1, <1>4, SequentFields
    <2>4. hs \in Seq(Prop) /\ DOMAIN hs = DOMAIN s.hs BY <1>1, <2>0, ExceptSeq
    <2>1. Refocus(s, p) = [s EXCEPT !.hs = hs] BY <1>4 DEF Refocus
    <2>2. s \in [hs : Seq(Prop), gs : Seq(Prop), side : Sides, pos : Nat] BY DEF Sequent
    <2>3. /\ [s EXCEPT !.hs = hs] \in [hs : Seq(Prop), gs : Seq(Prop), side : Sides, pos : Nat]
          /\ [s EXCEPT !.hs = hs].hs = hs /\ [s EXCEPT !.hs = hs].gs = s.gs
          /\ [s EXCEPT !.hs = hs].side = s.side /\ [s EXCEPT !.hs = hs].pos = s.pos
      BY <2>4, <2>2
    <2> QED BY <2>4, <1>4, <2>1, <2>3, SequentFields DEF Sequent, WellFocused
  <1>5. CASE s.side = "concl"
    <2>0. s.pos \in 1..Len(s.gs) BY <1>1, <1>5, SequentFields
    <2>4. gs \in Seq(Prop) /\ DOMAIN gs = DOMAIN s.gs BY <1>1, <2>0, ExceptSeq
    <2>1. Refocus(s, p) = [s EXCEPT !.gs = gs] BY <1>5 DEF Refocus
    <2>2. s \in [hs : Seq(Prop), gs : Seq(Prop), side : Sides, pos : Nat] BY DEF Sequent
    <2>3. /\ [s EXCEPT !.gs = gs] \in [hs : Seq(Prop), gs : Seq(Prop), side : Sides, pos : Nat]
          /\ [s EXCEPT !.gs = gs].gs = gs /\ [s EXCEPT !.gs = gs].hs = s.hs
          /\ [s EXCEPT !.gs = gs].side = s.side /\ [s EXCEPT !.gs = gs].pos = s.pos
      BY <2>4, <2>2
    <2> QED BY <2>4, <1>5, <2>1, <2>3, SequentFields DEF Sequent, WellFocused
  <1> QED BY <1>4, <1>5, SequentFields DEF Sides

(* What addHypothesis and addNewFocusedConcl change.                       *)
LEMMA AddFields ==
  ASSUME NEW s \in Sequent, NEW p \in Prop
  PROVE  /\ addHypothesis(p, s) \in Sequent
         /\ addHypothesis(p, s).hs = Append(s.hs, p) /\ addHypothesis(p, s).gs = s.gs
         /\ addHypothesis(p, s).side = s.side /\ addHypothesis(p, s).pos = s.pos
         /\ addNewFocusedConcl(p, s) \in Sequent
         /\ addNewFocusedConcl(p, s).hs = s.hs /\ addNewFocusedConcl(p, s).gs = Append(s.gs, p)
  <1>1. s.hs \in Seq(Prop) /\ s.gs \in Seq(Prop) BY SequentFields
  <1>2. s \in [hs : Seq(Prop), gs : Seq(Prop), side : Sides, pos : Nat] BY DEF Sequent
  <1>3. Append(s.hs, p) \in Seq(Prop) /\ DOMAIN s.hs \subseteq DOMAIN Append(s.hs, p) BY <1>1
  <1>4. /\ addHypothesis(p, s) \in [hs : Seq(Prop), gs : Seq(Prop), side : Sides, pos : Nat]
        /\ addHypothesis(p, s).hs = Append(s.hs, p) /\ addHypothesis(p, s).gs = s.gs
        /\ addHypothesis(p, s).side = s.side /\ addHypothesis(p, s).pos = s.pos
    BY <1>2, <1>3 DEF addHypothesis
  <1>5. addHypothesis(p, s) \in Sequent
    BY <1>3, <1>4, SequentFields DEF Sequent, WellFocused
  <1>6. Append(s.gs, p) \in Seq(Prop) /\ Len(s.gs) + 1 \in DOMAIN Append(s.gs, p) BY <1>1
  <1>7. addNewFocusedConcl(p, s) \in Sequent
    BY <1>1, <1>6, SequentOf DEF addNewFocusedConcl
  <1> QED BY <1>4, <1>5, <1>7 DEF addNewFocusedConcl, OnConcl

(* The proposition in focus, put in scope and refuted.                     *)
LEMMA FocusOfFailure ==
  ASSUME NEW s \in Sequent, s.side # "none", NEW U
  PROVE  /\ InScope(s, U) => Free[Focus(s)] \subseteq U
         /\ \A m : Fails(m, s) => (m \in Truth[Focus(s)] <=> s.side = "hyp")
  BY SequentFields, FocusIsProp DEF InScope, Fails, Sides

(* Another focus fails in a model that refutes it and agrees on the rest.  *)
LEMMA RefocusFails ==
  ASSUME NEW s \in Sequent, s.side # "none", NEW p \in Prop, NEW m, NEW o, Fails(m, s),
         o \in Truth[p] <=> s.side = "hyp",
         \A i \in DOMAIN s.hs : m \in Truth[s.hs[i]] => o \in Truth[s.hs[i]],
         \A i \in DOMAIN s.gs : m \notin Truth[s.gs[i]] => o \notin Truth[s.gs[i]]
  PROVE  Fails(o, Refocus(s, p))
  <1> DEFINE r == Refocus(s, p)
  <1>0. s.hs \in Seq(Prop) /\ s.gs \in Seq(Prop) BY SequentFields
  <1>1. CASE s.side = "hyp"
    <2>1. r.hs = [s.hs EXCEPT ![s.pos] = p] /\ r.gs = s.gs BY <1>1, RefocusFields
    <2>2. \A i \in DOMAIN r.hs : i \in DOMAIN s.hs /\ r.hs[i] = IF i = s.pos THEN p ELSE s.hs[i] BY <2>1, <1>0
    <2> QED BY <1>1, <2>1, <2>2 DEF Fails
  <1>2. CASE s.side = "concl"
    <2>1. r.gs = [s.gs EXCEPT ![s.pos] = p] /\ r.hs = s.hs BY <1>2, RefocusFields
    <2>2. \A i \in DOMAIN r.gs : i \in DOMAIN s.gs /\ r.gs[i] = IF i = s.pos THEN p ELSE s.gs[i] BY <2>1, <1>0
    <2> QED BY <1>2, <2>1, <2>2 DEF Fails
  <1> QED BY <1>1, <1>2, SequentFields DEF Sides

(* What is in a sequence after Append.                                     *)
LEMMA AppendElements ==
  ASSUME NEW S, NEW seq \in Seq(S), NEW e \in S
  PROVE  \A i \in DOMAIN Append(seq, e) :
           Append(seq, e)[i] = e \/ (i \in DOMAIN seq /\ Append(seq, e)[i] = seq[i])
  <1>1. DOMAIN Append(seq, e) = 1..Len(seq) + 1 /\ DOMAIN seq = 1..Len(seq) /\ Len(seq) \in Nat
    BY AppendProperties, LenProperties
  <1> QED BY <1>1, AppendProperties

LEMMA AppendElems ==
  ASSUME NEW S, NEW seq \in Seq(S), NEW e \in S
  PROVE  Elems(Append(seq, e)) = Elems(seq) \cup {e}
  <1>1. DOMAIN Append(seq, e) = 1..Len(seq) + 1 /\ DOMAIN seq = 1..Len(seq) /\ Len(seq) \in Nat
    BY AppendProperties, LenProperties
  <1>2. Append(seq, e)[Len(seq) + 1] = e /\ \A i \in 1..Len(seq) : Append(seq, e)[i] = seq[i]
    BY AppendProperties
  <1>3. \A i \in 1..Len(seq) + 1 : i \in 1..Len(seq) \/ i = Len(seq) + 1 BY <1>1
  <1>4. Len(seq) + 1 \in 1..Len(seq) + 1 /\ \A i \in 1..Len(seq) : i \in 1..Len(seq) + 1 BY <1>1
  <1> QED BY <1>1, <1>2, <1>3, <1>4 DEF Elems

(* A hypothesis or conclusion is added that the model satisfies or refutes.*)
LEMMA AddFails ==
  ASSUME NEW s \in Sequent, NEW p \in Prop, NEW m, Fails(m, s)
  PROVE  /\ m \in Truth[p] => Fails(m, addHypothesis(p, s))
         /\ m \notin Truth[p] => Fails(m, addNewFocusedConcl(p, s))
  <1>1. s.hs \in Seq(Prop) /\ s.gs \in Seq(Prop) BY SequentFields
  <1>2. \A i \in DOMAIN Append(s.hs, p) : Append(s.hs, p)[i] = p \/ (i \in DOMAIN s.hs /\ Append(s.hs, p)[i] = s.hs[i])
    BY <1>1, AppendElements
  <1>3. \A i \in DOMAIN Append(s.gs, p) : Append(s.gs, p)[i] = p \/ (i \in DOMAIN s.gs /\ Append(s.gs, p)[i] = s.gs[i])
    BY <1>1, AppendElements
  <1>6. ASSUME NEW r, r.hs = Append(s.hs, p), r.gs = s.gs, m \in Truth[p] PROVE Fails(m, r)
    BY <1>2, <1>6 DEF Fails
  <1>7. ASSUME NEW r, r.gs = Append(s.gs, p), r.hs = s.hs, m \notin Truth[p] PROVE Fails(m, r)
    BY <1>3, <1>7 DEF Fails
  <1>4. m \in Truth[p] => Fails(m, addHypothesis(p, s)) BY <1>6, AddFields
  <1>5. m \notin Truth[p] => Fails(m, addNewFocusedConcl(p, s)) BY <1>7, AddFields
  <1> QED BY <1>4, <1>5

(* Scopes of sequents that are changed.                                    *)
LEMMA ChangedScope ==
  ASSUME NEW s \in Sequent, NEW p \in Prop, NEW U, InScope(s, U), Free[p] \subseteq U
  PROVE  /\ s.side # "none" => InScope(Refocus(s, p), U)
         /\ InScope(addHypothesis(p, s), U)
         /\ InScope(addNewFocusedConcl(p, s), U)
  <1>1. s.hs \in Seq(Prop) /\ s.gs \in Seq(Prop) BY SequentFields
  <1>2. \A i \in DOMAIN Append(s.hs, p) : Append(s.hs, p)[i] = p \/ (i \in DOMAIN s.hs /\ Append(s.hs, p)[i] = s.hs[i])
    BY <1>1, AppendElements
  <1>3. \A i \in DOMAIN Append(s.gs, p) : Append(s.gs, p)[i] = p \/ (i \in DOMAIN s.gs /\ Append(s.gs, p)[i] = s.gs[i])
    BY <1>1, AppendElements
  <1>4. ASSUME s.side # "none" PROVE InScope(Refocus(s, p), U)
    <2> DEFINE r == Refocus(s, p)
    <2>1. CASE s.side = "hyp"
      <3>1. r.hs = [s.hs EXCEPT ![s.pos] = p] /\ r.gs = s.gs BY <2>1, RefocusFields
      <3>2. \A i \in DOMAIN r.hs : i \in DOMAIN s.hs /\ r.hs[i] = IF i = s.pos THEN p ELSE s.hs[i] BY <3>1, <1>1
      <3> QED BY <3>1, <3>2 DEF InScope
    <2>2. CASE s.side = "concl"
      <3>1. r.gs = [s.gs EXCEPT ![s.pos] = p] /\ r.hs = s.hs BY <2>2, RefocusFields
      <3>2. \A i \in DOMAIN r.gs : i \in DOMAIN s.gs /\ r.gs[i] = IF i = s.pos THEN p ELSE s.gs[i] BY <3>1, <1>1
      <3> QED BY <3>1, <3>2 DEF InScope
    <2> QED BY <1>4, <2>1, <2>2, SequentFields DEF Sides
  <1>5. InScope(addHypothesis(p, s), U) BY <1>2, AddFields DEF InScope
  <1>6. InScope(addNewFocusedConcl(p, s), U) BY <1>3, AddFields DEF InScope
  <1> QED BY <1>4, <1>5, <1>6

(* A larger scope.                                                         *)
LEMMA ScopeGrows ==
  ASSUME NEW s, NEW U, NEW V, InScope(s, U), U \subseteq V
  PROVE  InScope(s, V)
  BY DEF InScope

(* What a sequent mentions is its scope.                                   *)
LEMMA MentionsScope ==
  ASSUME NEW s, NEW U
  PROVE  Mentions(s) \subseteq U <=> InScope(s, U)
  BY DEF Mentions, InScope, Elems

(* A sequence without one of its elements.                                 *)
LEMMA WithoutFields ==
  ASSUME NEW seq \in Seq(Prop), NEW i \in DOMAIN seq
  PROVE  /\ Without(seq, i) \in Seq(Prop)
         /\ Len(Without(seq, i)) = Len(seq) - 1
         /\ \A k \in DOMAIN Without(seq, i) : \E j \in DOMAIN seq : Without(seq, i)[k] = seq[j]
  <1> DEFINE a == SubSeq(seq, 1, i - 1)
             b == SubSeq(seq, i + 1, Len(seq))
  <1>1. Len(seq) \in Nat /\ DOMAIN seq = 1..Len(seq) /\ i \in 1..Len(seq) BY LenProperties
  <1>2. a \in Seq(Prop) /\ Len(a) = i - 1 /\ \A k \in 1..i - 1 : a[k] = seq[k]
    BY <1>1, SubSeqProperties
  <1>3. b \in Seq(Prop) /\ Len(b) = Len(seq) - i /\ \A k \in 1..Len(seq) - i : b[k] = seq[i + k]
    BY <1>1, SubSeqProperties
  <1>0. Without(seq, i) = a \o b BY DEF Without
  <1> HIDE DEF a, b
  <1>4. a \o b \in Seq(Prop) /\ Len(a \o b) = Len(seq) - 1
    <2>1. a \o b \in Seq(Prop) /\ Len(a \o b) = Len(a) + Len(b) BY <1>2, <1>3, ConcatProperties
    <2> QED BY <1>1, <1>2, <1>3, <2>1
  <1>5. ASSUME NEW k \in DOMAIN (a \o b) PROVE \E j \in DOMAIN seq : (a \o b)[k] = seq[j]
    <2>1. k \in 1..Len(seq) - 1 BY <1>4, LenProperties
    <2>2. CASE k <= i - 1
      <3>1. (a \o b)[k] = seq[k] /\ k \in DOMAIN seq
        <4>1. k \in 1..Len(a) + Len(b) /\ k <= Len(a) /\ k \in 1..i - 1 BY <1>1, <1>2, <1>3, <2>1, <2>2
        <4> QED BY <1>1, <1>2, <1>3, <4>1, ConcatProperties
      <3> QED BY <3>1
    <2>3. CASE k > i - 1
      <3>1. (a \o b)[k] = b[k - (i - 1)]
        <4>1. k \in 1..Len(a) + Len(b) /\ ~ (k <= Len(a)) BY <1>1, <1>2, <1>3, <2>1, <2>3
        <4> QED BY <1>1, <1>2, <1>3, <4>1, ConcatProperties
      <3>2. k - (i - 1) \in 1..Len(seq) - i BY <1>1, <2>1, <2>3
      <3>3. b[k - (i - 1)] = seq[k + 1] /\ k + 1 \in DOMAIN seq BY <1>1, <1>3, <2>1, <3>2
      <3> QED BY <3>1, <3>3
    <2> QED BY <1>1, <2>1, <2>2, <2>3
  <1> QED BY <1>0, <1>4, <1>5

(* filterHyps and filterConcls give sequents with fewer propositions.      *)
LEMMA FilterFields ==
  ASSUME NEW s \in Sequent
  PROVE  /\ \A i \in DOMAIN s.hs : /\ filterHyps(s, i) \in Sequent
                                   /\ filterHyps(s, i).hs = Without(s.hs, i)
                                   /\ filterHyps(s, i).gs = s.gs
         /\ \A i \in DOMAIN s.gs : /\ filterConcls(s, i) \in Sequent
                                   /\ filterConcls(s, i).gs = Without(s.gs, i)
                                   /\ filterConcls(s, i).hs = s.hs
  <1> DEFINE R == [hs : Seq(Prop), gs : Seq(Prop), side : Sides, pos : Nat]
  <1>1. s \in R BY DEF Sequent
  <1>2. s.hs \in Seq(Prop) /\ s.gs \in Seq(Prop) BY SequentFields
  <1>3. ASSUME NEW i \in DOMAIN s.hs
        PROVE  /\ filterHyps(s, i) \in Sequent
               /\ filterHyps(s, i).hs = Without(s.hs, i)
               /\ filterHyps(s, i).gs = s.gs
    <2> DEFINE r == FocusWithout(s, "hyp", i)
    <2>7. r = FocusWithout(s, "hyp", i) OBVIOUS
    <2> HIDE DEF r
    <2>0. i \in 1..Len(s.hs) /\ Len(s.hs) \in Nat BY <1>2
    <2>1. /\ r \in R /\ r.hs = s.hs /\ r.gs = s.gs
          /\ r.side = "hyp" => r.pos \in 1..Len(s.hs) - 1
          /\ r.side = "concl" => r.pos \in DOMAIN s.gs
      <3>1. CASE s.side # "hyp" \/ s.pos < i
        <4>1. r = s BY <1>1, <2>0, <2>7, <3>1 DEF FocusWithout
        <4> QED BY <1>1, <1>2, <2>0, <3>1, <4>1, SequentFields
      <3>2. CASE s.side = "hyp" /\ s.pos = i
        <4>1. r = [s EXCEPT !.side = "none", !.pos = 0] BY <1>1, <2>0, <3>2, <2>7 DEF FocusWithout
        <4>2. r \in R /\ r.hs = s.hs /\ r.gs = s.gs /\ r.side = "none" BY <1>1, <4>1 DEF Sides
        <4> QED BY <4>2
      <3>3. CASE s.side = "hyp" /\ s.pos > i
        <4>0. s.pos \in 1..Len(s.hs) BY <1>2, <3>3, SequentFields
        <4>1. r = [s EXCEPT !.pos = s.pos - 1] BY <1>1, <2>0, <3>3, <4>0, <2>7 DEF FocusWithout
        <4>2. s.pos - 1 \in 1..Len(s.hs) - 1 /\ s.pos - 1 \in Nat BY <2>0, <3>3, <4>0
        <4>3. /\ r \in R /\ r.hs = s.hs /\ r.gs = s.gs
              /\ r.side = "hyp" /\ r.pos = s.pos - 1 BY <1>1, <3>3, <4>1, <4>2
        <4> QED BY <4>2, <4>3
      <3> QED BY <2>0, <3>1, <3>2, <3>3, SequentFields
    <2>4. Without(s.hs, i) \in Seq(Prop) /\ DOMAIN Without(s.hs, i) = 1..Len(s.hs) - 1
      BY <1>2, WithoutFields, LenProperties
    <2>5. [r EXCEPT !.hs = Without(s.hs, i)] \in R BY <2>1, <2>4
    <2>6. filterHyps(s, i) = [r EXCEPT !.hs = Without(s.hs, i)] BY <2>1, <2>7 DEF filterHyps
    <2>8. WellFocused(filterHyps(s, i)) BY <2>1, <2>4, <2>6 DEF WellFocused
    <2> QED BY <2>1, <2>5, <2>6, <2>8 DEF Sequent
  <1>4. ASSUME NEW i \in DOMAIN s.gs
        PROVE  /\ filterConcls(s, i) \in Sequent
               /\ filterConcls(s, i).gs = Without(s.gs, i)
               /\ filterConcls(s, i).hs = s.hs
    <2> DEFINE r == FocusWithout(s, "concl", i)
    <2>7. r = FocusWithout(s, "concl", i) OBVIOUS
    <2> HIDE DEF r
    <2>0. i \in 1..Len(s.gs) /\ Len(s.gs) \in Nat BY <1>2
    <2>1. /\ r \in R /\ r.hs = s.hs /\ r.gs = s.gs
          /\ r.side = "concl" => r.pos \in 1..Len(s.gs) - 1
          /\ r.side = "hyp" => r.pos \in DOMAIN s.hs
      <3>1. CASE s.side # "concl" \/ s.pos < i
        <4>1. r = s BY <1>1, <2>0, <2>7, <3>1 DEF FocusWithout
        <4> QED BY <1>1, <1>2, <2>0, <3>1, <4>1, SequentFields
      <3>2. CASE s.side = "concl" /\ s.pos = i
        <4>1. r = [s EXCEPT !.side = "none", !.pos = 0] BY <1>1, <2>0, <3>2, <2>7 DEF FocusWithout
        <4>2. r \in R /\ r.hs = s.hs /\ r.gs = s.gs /\ r.side = "none" BY <1>1, <4>1 DEF Sides
        <4> QED BY <4>2
      <3>3. CASE s.side = "concl" /\ s.pos > i
        <4>0. s.pos \in 1..Len(s.gs) BY <1>2, <3>3, SequentFields
        <4>1. r = [s EXCEPT !.pos = s.pos - 1] BY <1>1, <2>0, <3>3, <4>0, <2>7 DEF FocusWithout
        <4>2. s.pos - 1 \in 1..Len(s.gs) - 1 /\ s.pos - 1 \in Nat BY <2>0, <3>3, <4>0
        <4>3. /\ r \in R /\ r.hs = s.hs /\ r.gs = s.gs
              /\ r.side = "concl" /\ r.pos = s.pos - 1 BY <1>1, <3>3, <4>1, <4>2
        <4> QED BY <4>2, <4>3
      <3> QED BY <2>0, <3>1, <3>2, <3>3, SequentFields
    <2>4. Without(s.gs, i) \in Seq(Prop) /\ DOMAIN Without(s.gs, i) = 1..Len(s.gs) - 1
      BY <1>2, WithoutFields, LenProperties
    <2>5. [r EXCEPT !.gs = Without(s.gs, i)] \in R BY <2>1, <2>4
    <2>6. filterConcls(s, i) = [r EXCEPT !.gs = Without(s.gs, i)] BY <2>1, <2>7 DEF filterConcls
    <2>8. WellFocused(filterConcls(s, i)) BY <2>1, <2>4, <2>6 DEF WellFocused
    <2> QED BY <2>1, <2>5, <2>6, <2>8 DEF Sequent
  <1> QED BY <1>3, <1>4

-----------------------------------------------------------------------------
(* What the rules make of a sequent: sequents, in the same scope, that one *)
(* of fails whenever the old one does.                                     *)

(* One new goal.                                                           *)
LEMMA OneGoal ==
  ASSUME NEW s, NEW a \in Sequent
  PROVE  /\ <<a>> \in Seq(Sequent)
         /\ \A U : InScope(a, U) => \A i \in DOMAIN <<a>> : InScope(<<a>>[i], U)
         /\ (\A m \in Model : Fails(m, s) => Fails(m, a)) => Reduces(<<a>>, s)
  <1>1. <<a>> \in Seq(Sequent) /\ DOMAIN <<a>> = {1} /\ <<a>>[1] = a OBVIOUS
  <1> QED BY <1>1 DEF Reduces

(* The same for two.                                                       *)
LEMMA TwoGoals ==
  ASSUME NEW s, NEW a \in Sequent, NEW b \in Sequent
  PROVE  /\ <<a, b>> \in Seq(Sequent)
         /\ \A U : InScope(a, U) /\ InScope(b, U) => \A i \in DOMAIN <<a, b>> : InScope(<<a, b>>[i], U)
         /\ (\A m \in Model : Fails(m, s) => Fails(m, a) \/ Fails(m, b)) => Reduces(<<a, b>>, s)
  <1>1. <<a, b>> \in Seq(Sequent) /\ DOMAIN <<a, b>> = {1, 2} /\ <<a, b>>[1] = a /\ <<a, b>>[2] = b
    OBVIOUS
  <1> QED BY <1>1 DEF Reduces

(* No subgoal is needed for a sequent that holds.                          *)
LEMMA NoGoal ==
  ASSUME NEW s, Valid(s)
  PROVE  Reduces(<<>>, s)
  BY DEF Valid, Reduces, Fails

(* Goals that all hold leave no counterexample.                            *)
LEMMA ReducesValid ==
  ASSUME NEW s, NEW new, Reduces(new, s), \A i \in DOMAIN new : Valid(new[i])
  PROVE  Valid(s)
  BY DEF Reduces, Valid, Fails

(* The parts of conjunctions and disjunctions, also under a quantifier.    *)
LEMMA SplitParts ==
  /\ \A p \in DOMAIN splitConj :
       /\ p \in Prop /\ splitConj[p].l \in Prop /\ splitConj[p].r \in Prop
       /\ Free[splitConj[p].l] \subseteq Free[p] /\ Free[splitConj[p].r] \subseteq Free[p]
       /\ Truth[p] = Truth[splitConj[p].l] \cap Truth[splitConj[p].r]
  /\ \A p \in DOMAIN splitDisj :
       /\ p \in Prop /\ splitDisj[p].l \in Prop /\ splitDisj[p].r \in Prop
       /\ Free[splitDisj[p].l] \subseteq Free[p] /\ Free[splitDisj[p].r] \subseteq Free[p]
       /\ p \notin DOMAIN PiDisj \ DOMAIN Disj => Truth[p] = Truth[splitDisj[p].l] \cup Truth[splitDisj[p].r]
  <1>1. \A f \in {Conj, Disj, PiConj, PiDisj} : \A p \in DOMAIN f :
          /\ p \in Prop /\ f[p].l \in Prop /\ f[p].r \in Prop
          /\ Free[f[p].l] \subseteq Free[p] /\ Free[f[p].r] \subseteq Free[p]
    BY ShapeAssumption, LogicAssumption DEF Parts
  <1>2. \A p \in DOMAIN splitConj :
          \E f \in {Conj, PiConj} : p \in DOMAIN f /\ splitConj[p] = f[p]
    BY DEF splitConj
  <1>3. \A p \in DOMAIN splitDisj :
          \/ p \in DOMAIN Disj /\ splitDisj[p] = Disj[p]
          \/ p \in DOMAIN PiDisj \ DOMAIN Disj /\ splitDisj[p] = PiDisj[p]
    BY DEF splitDisj
  <1>4. \A f \in {Conj, PiConj} : \A p \in DOMAIN f : Truth[p] = Truth[f[p].l] \cap Truth[f[p].r]
    BY LogicAssumption
  <1>5. \A p \in DOMAIN Disj : Truth[p] = Truth[Disj[p].l] \cup Truth[Disj[p].r]
    BY LogicAssumption
  <1> QED BY <1>1, <1>2, <1>3, <1>4, <1>5

(* The parts of an implication.                                            *)
LEMMA ImplParts ==
  ASSUME NEW p \in DOMAIN Impl
  PROVE  /\ p \in Prop /\ Impl[p].l \in Prop /\ Impl[p].r \in Prop
         /\ Free[Impl[p].l] \subseteq Free[p] /\ Free[Impl[p].r] \subseteq Free[p]
         /\ \A m \in Model : m \in Truth[p] <=> (m \in Truth[Impl[p].l] => m \in Truth[Impl[p].r])
  <1>1. Impl \in Parts(DOMAIN Impl) /\ DOMAIN Impl \subseteq Prop BY ShapeAssumption
  <1>2. Truth[p] = (Model \ Truth[Impl[p].l]) \cup Truth[Impl[p].r] BY LogicAssumption
  <1>3. Free[Impl[p].l] \cup Free[Impl[p].r] \subseteq Free[p] BY LogicAssumption
  <1> QED BY <1>1, <1>2, <1>3 DEF Parts

(* The parts of a conditional.                                             *)
LEMMA IteParts ==
  ASSUME NEW p \in DOMAIN Ite
  PROVE  /\ p \in Prop /\ Ite[p].b \in Prop /\ Ite[p].x \in Prop /\ Ite[p].nb \in Prop /\ Ite[p].y \in Prop
         /\ Free[Ite[p].b] \subseteq Free[p] /\ Free[Ite[p].x] \subseteq Free[p]
         /\ Free[Ite[p].nb] \subseteq Free[p] /\ Free[Ite[p].y] \subseteq Free[p]
         /\ \A m \in Model :
              /\ m \in Truth[Ite[p].nb] <=> m \notin Truth[Ite[p].b]
              /\ m \in Truth[Ite[p].b] => (m \in Truth[p] <=> m \in Truth[Ite[p].x])
              /\ m \in Truth[Ite[p].nb] => (m \in Truth[p] <=> m \in Truth[Ite[p].y])
  <1>1. Ite \in [DOMAIN Ite -> [b : Prop, x : Prop, nb : Prop, y : Prop]] /\ DOMAIN Ite \subseteq Prop
    BY ShapeAssumption
  <1>2. /\ Truth[Ite[p].nb] = Model \ Truth[Ite[p].b]
        /\ Truth[p] = (Truth[Ite[p].b] \cap Truth[Ite[p].x]) \cup (Truth[Ite[p].nb] \cap Truth[Ite[p].y])
    BY LogicAssumption
  <1>3. \A q \in {Ite[p].b, Ite[p].x, Ite[p].nb, Ite[p].y} : Free[q] \subseteq Free[p]
    BY LogicAssumption
  <1> QED BY <1>1, <1>2, <1>3

(* splitSequent.                                                           *)
LEMMA SplitGoals ==
  ASSUME NEW s \in Sequent
  PROVE  /\ splitSequent(s) \in Seq(Sequent)
         /\ \A U : InScope(s, U) => \A i \in DOMAIN splitSequent(s) : InScope(splitSequent(s)[i], U)
         /\ splitSequent(s) # <<>> /\ ~ UnderQuantifier(s) => Reduces(splitSequent(s), s)
  <1> DEFINE p == Focus(s)
             Good(new) == /\ new \in Seq(Sequent)
                          /\ \A U : InScope(s, U) => \A i \in DOMAIN new : InScope(new[i], U)
                          /\ ~ UnderQuantifier(s) => Reduces(new, s)
  <1>0. s.side # "none" => p \in Prop /\ (\A U : InScope(s, U) => Free[p] \subseteq U)
    BY FocusIsProp, FocusOfFailure
  <1>6. DOMAIN Ite \cap (DOMAIN splitConj \cup DOMAIN splitDisj \cup DOMAIN Impl) = {}
    BY ShapeAssumption DEF splitConj, splitDisj
  <1>1. CASE s.side = "concl" /\ p \in DOMAIN splitConj
    <2> DEFINE a == Refocus(s, splitConj[p].l)
               b == Refocus(s, splitConj[p].r)
    <2>1. a \in Sequent /\ b \in Sequent BY <1>1, SplitParts, RefocusFields
    <2>2. ASSUME NEW U, InScope(s, U) PROVE InScope(a, U) /\ InScope(b, U)
      BY <1>0, <1>1, <2>2, SplitParts, ChangedScope
    <2>3. ASSUME NEW m, Fails(m, s) PROVE Fails(m, a) \/ Fails(m, b)
      <3>1. m \notin Truth[p] BY <1>1, <2>3, FocusOfFailure
      <3>2. m \notin Truth[splitConj[p].l] \/ m \notin Truth[splitConj[p].r] BY <1>1, <3>1, SplitParts
      <3> QED BY <1>1, <2>3, <3>2, SplitParts, RefocusFails
    <2>4. splitSequent(s) = <<a, b>> BY <1>6, <1>1 DEF splitSequent
    <2> HIDE DEF a, b
    <2>5. Good(<<a, b>>) BY <2>1, <2>2, <2>3, TwoGoals
    <2> QED BY <2>4, <2>5
  <1>2. CASE s.side = "hyp" /\ p \in DOMAIN splitDisj
    <2> DEFINE a == Refocus(s, splitDisj[p].l)
               b == Refocus(s, splitDisj[p].r)
    <2>1. a \in Sequent /\ b \in Sequent BY <1>2, SplitParts, RefocusFields
    <2>2. ASSUME NEW U, InScope(s, U) PROVE InScope(a, U) /\ InScope(b, U)
      BY <1>0, <1>2, <2>2, SplitParts, ChangedScope
    <2>3. ASSUME ~ UnderQuantifier(s), NEW m, Fails(m, s) PROVE Fails(m, a) \/ Fails(m, b)
      <3>1. m \in Truth[p] BY <1>2, <2>3, FocusOfFailure
      <3>3. p \notin DOMAIN PiDisj \ DOMAIN Disj BY <1>2, <2>3 DEF UnderQuantifier
      <3>2. m \in Truth[splitDisj[p].l] \/ m \in Truth[splitDisj[p].r] BY <1>2, <3>1, <3>3, SplitParts
      <3> QED BY <1>2, <2>3, <3>2, SplitParts, RefocusFails
    <2>4. splitSequent(s) = <<a, b>> BY <1>6, <1>2 DEF splitSequent
    <2> HIDE DEF a, b
    <2>5. Good(<<a, b>>) BY <2>1, <2>2, <2>3, TwoGoals
    <2> QED BY <2>4, <2>5
  <1>3. CASE /\ s.side # "none" /\ p \in DOMAIN Ite
             /\ ~ (s.side = "concl" /\ p \in DOMAIN splitConj)
             /\ ~ (s.side = "hyp" /\ p \in DOMAIN splitDisj)
    <2> DEFINE a == addHypothesis(Ite[p].b, Refocus(s, Ite[p].x))
               b == addHypothesis(Ite[p].nb, Refocus(s, Ite[p].y))
    <2>1. a \in Sequent /\ b \in Sequent BY <1>3, IteParts, RefocusFields, AddFields
    <2>2. ASSUME NEW U, InScope(s, U) PROVE InScope(a, U) /\ InScope(b, U)
      <3>1. Free[p] \subseteq U BY <1>0, <1>3, <2>2
      <3>2. InScope(Refocus(s, Ite[p].x), U) /\ InScope(Refocus(s, Ite[p].y), U)
        BY <1>3, <2>2, <3>1, IteParts, ChangedScope
      <3> QED BY <1>3, <3>1, <3>2, IteParts, ChangedScope, RefocusFields
    <2>3. ASSUME NEW m \in Model, Fails(m, s) PROVE Fails(m, a) \/ Fails(m, b)
      <3>1. m \in Truth[p] <=> s.side = "hyp" BY <1>3, <2>3, FocusOfFailure
      <3>2. CASE m \in Truth[Ite[p].b]
        <4>1. Fails(m, Refocus(s, Ite[p].x)) BY <1>3, <2>3, <3>1, <3>2, IteParts, RefocusFails
        <4> QED BY <1>3, <3>2, <4>1, IteParts, AddFails, RefocusFields
      <3>3. CASE m \notin Truth[Ite[p].b]
        <4>0. m \in Truth[Ite[p].nb] BY <1>3, <3>3, IteParts
        <4>1. Fails(m, Refocus(s, Ite[p].y)) BY <1>3, <2>3, <3>1, <4>0, IteParts, RefocusFails
        <4> QED BY <1>3, <4>0, <4>1, IteParts, AddFails, RefocusFields
      <3> QED BY <3>2, <3>3
    <2>4. splitSequent(s) = <<a, b>> BY <1>6, <1>3 DEF splitSequent
    <2> HIDE DEF a, b
    <2>5. Good(<<a, b>>) BY <2>1, <2>2, <2>3, TwoGoals
    <2> QED BY <2>4, <2>5
  <1>4. CASE s.side = "hyp" /\ p \in DOMAIN Impl /\ p \notin DOMAIN splitDisj /\ p \notin DOMAIN Ite
    <2> DEFINE a == Refocus(s, Impl[p].r)
               b == addNewFocusedConcl(Impl[p].l, s)
    <2>1. a \in Sequent /\ b \in Sequent BY <1>4, ImplParts, RefocusFields, AddFields
    <2>2. ASSUME NEW U, InScope(s, U) PROVE InScope(a, U) /\ InScope(b, U)
      BY <1>0, <1>4, <2>2, ImplParts, ChangedScope
    <2>3. ASSUME NEW m \in Model, Fails(m, s) PROVE Fails(m, a) \/ Fails(m, b)
      <3>1. m \in Truth[p] BY <1>4, <2>3, FocusOfFailure
      <3>2. m \notin Truth[Impl[p].l] \/ m \in Truth[Impl[p].r] BY <1>4, <3>1, ImplParts
      <3>3. m \notin Truth[Impl[p].l] => Fails(m, b) BY <1>4, <2>3, ImplParts, AddFails
      <3>4. m \in Truth[Impl[p].r] => Fails(m, a) BY <1>4, <2>3, ImplParts, RefocusFails
      <3> QED BY <3>2, <3>3, <3>4
    <2>4. splitSequent(s) = <<a, b>> BY <1>4 DEF splitSequent
    <2> HIDE DEF a, b
    <2>5. Good(<<a, b>>) BY <2>1, <2>2, <2>3, TwoGoals
    <2> QED BY <2>4, <2>5
  <1>5. CASE /\ ~ (s.side = "concl" /\ p \in DOMAIN splitConj)
             /\ ~ (s.side = "hyp" /\ p \in DOMAIN splitDisj)
             /\ ~ (s.side # "none" /\ p \in DOMAIN Ite)
             /\ ~ (s.side = "hyp" /\ p \in DOMAIN Impl /\ p \notin DOMAIN splitDisj)
    <2>1. splitSequent(s) = <<>> BY <1>5 DEF splitSequent
    <2> QED BY <2>1
  <1> QED BY <1>1, <1>2, <1>3, <1>4, <1>5

(* traverseSequentWithFocus.                                               *)
LEMMA TraverseGoal ==
  ASSUME NEW s \in Sequent, NEW f \in [Prop -> Prop]
  PROVE  /\ traverseSequentWithFocus(f, s) \in Sequent
         /\ \A U : InScope(s, U) /\ (\A p \in Prop : Free[p] \subseteq U => Free[f[p]] \subseteq U)
                 => InScope(traverseSequentWithFocus(f, s), U)
         /\ (\A p \in Prop : Truth[f[p]] = Truth[p])
              => \A m : Fails(m, s) => Fails(m, traverseSequentWithFocus(f, s))
  <1> DEFINE r == traverseSequentWithFocus(f, s)
  <1>0. s.hs \in Seq(Prop) /\ s.gs \in Seq(Prop) BY SequentFields
  <1>1. CASE s.side = "none"
    <2> DEFINE hs == MapOn(f, s.hs)
               gs == MapOn(f, s.gs)
    <2>1. hs \in Seq(Prop) /\ DOMAIN hs = DOMAIN s.hs /\ \A i \in DOMAIN hs : hs[i] = f[s.hs[i]]
      <3>1. hs \in [1..Len(s.hs) -> Prop] /\ Len(s.hs) \in Nat BY <1>0, LenProperties DEF MapOn
      <3> QED BY <1>0, <3>1, SeqDef DEF MapOn
    <2>2. gs \in Seq(Prop) /\ DOMAIN gs = DOMAIN s.gs /\ \A i \in DOMAIN gs : gs[i] = f[s.gs[i]]
      <3>1. gs \in [1..Len(s.gs) -> Prop] /\ Len(s.gs) \in Nat BY <1>0, LenProperties DEF MapOn
      <3> QED BY <1>0, <3>1, SeqDef DEF MapOn
    <2>3. r = Unfocused(hs, gs) BY <1>1 DEF traverseSequentWithFocus
    <2> HIDE DEF hs, gs
    <2>4. r \in Sequent /\ r.hs = hs /\ r.gs = gs BY <2>1, <2>2, <2>3, SequentOf DEF Unfocused
    <2>5. \A i \in DOMAIN s.hs : s.hs[i] \in Prop BY <1>0
    <2>6. \A i \in DOMAIN s.gs : s.gs[i] \in Prop BY <1>0
    <2> HIDE DEF r
    <2> QED BY <2>1, <2>2, <2>4, <2>5, <2>6 DEF InScope, Fails, r
  <1>2. CASE s.side # "none"
    <2>1. r = Refocus(s, f[Focus(s)]) BY <1>2 DEF traverseSequentWithFocus
    <2>2. Focus(s) \in Prop /\ f[Focus(s)] \in Prop BY <1>2, FocusIsProp
    <2>3. r \in Sequent BY <1>2, <2>1, <2>2, RefocusFields
    <2>4. ASSUME NEW U, InScope(s, U), \A p \in Prop : Free[p] \subseteq U => Free[f[p]] \subseteq U
          PROVE  InScope(r, U)
      <3>1. Free[f[Focus(s)]] \subseteq U BY <1>2, <2>2, <2>4, FocusOfFailure
      <3> QED BY <1>2, <2>1, <2>2, <2>4, <3>1, ChangedScope
    <2>5. ASSUME \A p \in Prop : Truth[f[p]] = Truth[p], NEW m, Fails(m, s) PROVE Fails(m, r)
      <3>1. m \in Truth[f[Focus(s)]] <=> s.side = "hyp" BY <1>2, <2>2, <2>5, FocusOfFailure
      <3> QED BY <1>2, <2>1, <2>2, <2>5, <3>1, RefocusFails
    <2> QED BY <2>3, <2>4, <2>5
  <1> QED BY <1>1, <1>2

(* goal_eval and what is like it.                                          *)
LEMMA EvalGoal ==
  ASSUME NEW s \in Sequent
  PROVE  /\ evalSequent(s) \in Sequent
         /\ \A U : InScope(s, U) => InScope(evalSequent(s), U)
         /\ Reduces(<<evalSequent(s)>>, s)
  <1>1. Simp \in [Prop -> Prop] BY ShapeAssumption
  <1>2. \A p \in Prop : Truth[Simp[p]] = Truth[p] /\ Free[Simp[p]] \subseteq Free[p] BY LogicAssumption
  <1>3. evalSequent(s) \in Sequent BY <1>1, TraverseGoal DEF evalSequent
  <1>4. \A U : InScope(s, U) => InScope(evalSequent(s), U) BY <1>1, <1>2, TraverseGoal DEF evalSequent
  <1>5. \A m : Fails(m, s) => Fails(m, evalSequent(s)) BY <1>1, <1>2, TraverseGoal DEF evalSequent
  <1> QED BY <1>3, <1>4, <1>5, OneGoal

(* Rewriting with an equation, which is sound when the equation is true.   *)
LEMMA RewriteGoal ==
  ASSUME NEW s \in Sequent, NEW q \in DOMAIN Eqn
  PROVE  /\ simplifySequent(q, s) \in Sequent
         /\ \A U : InScope(s, U) /\ Free[Eqn[q].r] \subseteq U => InScope(simplifySequent(q, s), U)
         /\ Holds(q) => Reduces(<<simplifySequent(q, s)>>, s)
  <1> DEFINE f == Rewrite(q)
  <1>1. q \in Prop /\ Eqn[q].l \in Prop /\ Eqn[q].r \in Prop BY ShapeAssumption DEF Parts
  <1>2. f \in [Prop -> Prop] /\ \A p \in Prop : f[p] = IF p = Eqn[q].l THEN Eqn[q].r ELSE p
    BY <1>1 DEF Rewrite
  <1>3. ASSUME Holds(q) PROVE \A p \in Prop : Truth[f[p]] = Truth[p]
    <2>1. Truth[q] \cap Truth[Eqn[q].l] = Truth[q] \cap Truth[Eqn[q].r] BY LogicAssumption
    <2>2. Truth[q] = Model BY <1>3 DEF Holds
    <2>3. Truth[Eqn[q].l] \subseteq Model /\ Truth[Eqn[q].r] \subseteq Model BY <1>1, ShapeAssumption
    <2>4. Truth[Eqn[q].l] = Truth[Eqn[q].r] BY <2>1, <2>2, <2>3
    <2> HIDE DEF f
    <2> QED BY <1>2, <2>4
  <1> HIDE DEF f
  <1>4. simplifySequent(q, s) = traverseSequentWithFocus(f, s) BY DEF simplifySequent, f
  <1>5. simplifySequent(q, s) \in Sequent BY <1>2, <1>4, TraverseGoal
  <1>6. \A U : InScope(s, U) /\ Free[Eqn[q].r] \subseteq U => InScope(simplifySequent(q, s), U)
    BY <1>2, <1>4, TraverseGoal
  <1>7. Holds(q) => \A m : Fails(m, s) => Fails(m, simplifySequent(q, s)) BY <1>2, <1>3, <1>4, TraverseGoal
  <1> QED BY <1>5, <1>6, <1>7, OneGoal

(* A list of the elements of a finite set.                                 *)
LEMMA ListingElements ==
  ASSUME NEW S, IsFiniteSet(S)
  PROVE  Listing(S) \in Seq(S) /\ Elems(Listing(S)) = S
  <1> DEFINE n == Cardinality(S)
  <1>1. n \in Nat /\ ExistsBijection(1..n, S) BY FS_CardinalityType
  <1>2. PICK f \in [1..n -> S] : \A x \in S : \E i \in 1..n : f[i] = x
    BY <1>1 DEF ExistsBijection, Bijection, Surjection
  <1>3. Elems(f) = S BY <1>2 DEF Elems
  <1>4. Listing(S) \in [1..n -> S] /\ Elems(Listing(S)) = S BY <1>3 DEF Listing
  <1> QED BY <1>1, <1>4, SeqDef

(* Sets of things, one for each element of a sequence.                     *)
LEMMA FiniteImage ==
  ASSUME NEW seq \in Seq(Prop), NEW f
  PROVE  IsFiniteSet({f[seq[i]] : i \in DOMAIN seq})
  <1> DEFINE T == {f[seq[i]] : i \in DOMAIN seq}
             g == [i \in 1..Len(seq) |-> f[seq[i]]]
  <1>1. Len(seq) \in Nat /\ DOMAIN seq = 1..Len(seq) BY LenProperties
  <1>2. g \in Surjection(1..Len(seq), T) BY <1>1 DEF Surjection
  <1>3. IsFiniteSet(1..Len(seq)) BY <1>1, FS_Interval
  <1> QED BY <1>2, <1>3, FS_Surjection

-----------------------------------------------------------------------------
(* Normal forms.  Norm is a recursive function: that there is one, and what *)
(* it computes, follow from FinitenessAssumption.                          *)

(* The right-hand side of the definition of Norm.                          *)
NormStep(g, x) ==
  LET p == x[2]
      Hyp(q) == g[<<"hyp", q>>]
      Concl(q) == g[<<"concl", q>>]
  IN IF x[1] = "hyp"
     THEN CASE p \in DOMAIN Neg -> Concl(Neg[p])
            [] p \in DOMAIN Conj -> Join(Hyp(Conj[p].l), Hyp(Conj[p].r))
            [] OTHER -> [hs |-> {p}, gs |-> {}]
     ELSE CASE p \in DOMAIN Neg -> Hyp(Neg[p])
            [] p \in DOMAIN Disj -> Join(Concl(Disj[p].l), Concl(Disj[p].r))
            [] p \in DOMAIN Impl \ DOMAIN Disj -> Join(Hyp(Impl[p].l), Concl(Impl[p].r))
            [] OTHER -> [hs |-> {}, gs |-> {p}]

Under(x) == {y \in Forms : y[2] \in Apart(x[2])}

(* How a proposition comes apart.                                          *)
LEMMA ApartParts ==
  ASSUME NEW p \in Prop
  PROVE  /\ p \in DOMAIN Neg => Neg[p] \in Apart(p) /\ p \notin DOMAIN Conj \cup DOMAIN Disj \cup DOMAIN Impl
         /\ p \in DOMAIN Conj => Conj[p].l \in Apart(p) /\ Conj[p].r \in Apart(p)
         /\ p \in DOMAIN Disj => Disj[p].l \in Apart(p) /\ Disj[p].r \in Apart(p)
         /\ p \in DOMAIN Impl => Impl[p].l \in Apart(p) /\ Impl[p].r \in Apart(p)
         /\ Apart(p) \subseteq Prop
  <1>1. \A f \in {Conj, Disj, Impl} : f \in Parts(DOMAIN f) BY ShapeAssumption
  <1>2. \A f \in {Conj, Disj, Impl} : p \in DOMAIN f => f[p].l \in Prop /\ f[p].r \in Prop
    BY <1>1 DEF Parts
  <1>3. p \in DOMAIN Neg => Neg[p] \in Prop /\ p \notin DOMAIN Conj \cup DOMAIN Disj \cup DOMAIN Impl
    BY ShapeAssumption
  <1> QED BY <1>2, <1>3 DEF Apart

LEMMA UnderForms ==
  ASSUME NEW p \in Prop, NEW q \in Apart(p), NEW a \in {"hyp", "concl"}, NEW b \in {"hyp", "concl"}
  PROVE  <<a, p>> \in Forms /\ <<b, q>> \in Under(<<a, p>>)
  BY ApartParts DEF Under, Forms

(* A form is one side or the other of a proposition.                       *)
LEMMA FormParts ==
  ASSUME NEW x \in Forms
  PROVE  x = <<x[1], x[2]>> /\ x[1] \in {"hyp", "concl"} /\ x[2] \in Prop
  BY DEF Forms

(* One step looks at the function at forms of parts only.                  *)
LEMMA StepLocal ==
  ASSUME NEW x \in Forms, NEW g, NEW h, \A y \in Under(x) : g[y] = h[y]
  PROVE  NormStep(g, x) = NormStep(h, x)
  <1> DEFINE p == x[2]
  <1>1. x = <<x[1], p>> /\ x[1] \in {"hyp", "concl"} /\ p \in Prop BY FormParts
  <1>2. ASSUME NEW q \in Apart(p) PROVE g[<<"hyp", q>>] = h[<<"hyp", q>>] /\ g[<<"concl", q>>] = h[<<"concl", q>>]
    BY <1>1, <1>2, UnderForms
  <1>3. /\ p \in DOMAIN Neg => Neg[p] \in Apart(p)
        /\ p \in DOMAIN Conj => Conj[p].l \in Apart(p) /\ Conj[p].r \in Apart(p)
        /\ p \in DOMAIN Disj => Disj[p].l \in Apart(p) /\ Disj[p].r \in Apart(p)
        /\ p \in DOMAIN Impl => Impl[p].l \in Apart(p) /\ Impl[p].r \in Apart(p)
    BY <1>1, ApartParts
  <1>4. CASE x[1] = "hyp"
    <2> HIDE DEF p
    <2>1. /\ p \in DOMAIN Neg => g[<<"concl", Neg[p]>>] = h[<<"concl", Neg[p]>>]
          /\ p \in DOMAIN Conj => /\ g[<<"hyp", Conj[p].l>>] = h[<<"hyp", Conj[p].l>>]
                                 /\ g[<<"hyp", Conj[p].r>>] = h[<<"hyp", Conj[p].r>>]
      BY <1>2, <1>3
    <2>2. ASSUME NEW f
          PROVE NormStep(f, x) = CASE p \in DOMAIN Neg -> f[<<"concl", Neg[p]>>]
                                   [] p \in DOMAIN Conj -> Join(f[<<"hyp", Conj[p].l>>], f[<<"hyp", Conj[p].r>>])
                                   [] OTHER -> [hs |-> {p}, gs |-> {}]
      BY <1>4 DEF NormStep, p
    <2> QED BY <2>1, <2>2
  <1>5. CASE x[1] = "concl"
    <2> HIDE DEF p
    <2>1. /\ p \in DOMAIN Neg => g[<<"hyp", Neg[p]>>] = h[<<"hyp", Neg[p]>>]
          /\ p \in DOMAIN Disj => /\ g[<<"concl", Disj[p].l>>] = h[<<"concl", Disj[p].l>>]
                                 /\ g[<<"concl", Disj[p].r>>] = h[<<"concl", Disj[p].r>>]
          /\ p \in DOMAIN Impl => /\ g[<<"hyp", Impl[p].l>>] = h[<<"hyp", Impl[p].l>>]
                                 /\ g[<<"concl", Impl[p].r>>] = h[<<"concl", Impl[p].r>>]
      BY <1>2, <1>3
    <2>2. ASSUME p \in DOMAIN Neg PROVE NormStep(g, x) = NormStep(h, x)
      <3>1. \A f : NormStep(f, x) = f[<<"hyp", Neg[p]>>]
        <4>1. p \notin DOMAIN Disj \cup DOMAIN Impl BY <1>1, <2>2, ApartParts
        <4> QED BY <1>5, <2>2, <4>1 DEF NormStep, p
      <3> QED BY <2>1, <2>2, <3>1
    <2>3. ASSUME p \notin DOMAIN Neg, p \in DOMAIN Disj PROVE NormStep(g, x) = NormStep(h, x)
      <3>1. \A f : NormStep(f, x) = Join(f[<<"concl", Disj[p].l>>], f[<<"concl", Disj[p].r>>])
        BY <1>5, <2>3 DEF NormStep, p
      <3> QED BY <2>1, <2>3, <3>1
    <2>4. ASSUME p \notin DOMAIN Neg, p \notin DOMAIN Disj, p \in DOMAIN Impl
          PROVE  NormStep(g, x) = NormStep(h, x)
      <3>1. \A f : NormStep(f, x) = Join(f[<<"hyp", Impl[p].l>>], f[<<"concl", Impl[p].r>>])
        BY <1>5, <2>4 DEF NormStep, p
      <3> QED BY <2>1, <2>4, <3>1
    <2>5. ASSUME p \notin DOMAIN Neg, p \notin DOMAIN Disj, p \notin DOMAIN Impl
          PROVE  NormStep(g, x) = NormStep(h, x)
      BY <1>5, <2>5 DEF NormStep, p
    <2> QED BY <2>2, <2>3, <2>4, <2>5
  <1> QED BY <1>1, <1>4, <1>5

Closed(D) == D \subseteq Forms /\ \A x \in D : Under(x) \subseteq D
Solves(g, D) == \A x \in D : g[x] = NormStep(g, x)

(* A form of a proposition that comes apart into none of the others.       *)
LEMMA LeastForm ==
  ASSUME NEW S \in SUBSET Forms, S # {}
  PROVE  \E x \in S : \A y \in Under(x) : y \notin S
  <1> DEFINE T == {x[2] : x \in S}
  <1>1. T \in SUBSET Prop /\ T # {} BY FormParts
  <1>2. PICK p \in T : Apart(p) \cap T = {} BY <1>1, FinitenessAssumption
  <1>3. PICK x \in S : x[2] = p BY <1>2
  <1>4. ASSUME NEW y \in Under(x) PROVE y \notin S BY <1>2, <1>3 DEF Under
  <1> QED BY <1>4

(* Solutions agree where both are defined.                                 *)
LEMMA SolutionsAgree ==
  ASSUME NEW D, NEW E, NEW g, NEW h, Closed(D), Closed(E), Solves(g, D), Solves(h, E)
  PROVE  \A x \in D \cap E : g[x] = h[x]
  <1> DEFINE S == {x \in D \cap E : g[x] # h[x]}
  <1> SUFFICES ASSUME S # {} PROVE FALSE OBVIOUS
  <1>1. S \in SUBSET Forms BY DEF Closed
  <1>2. PICK x \in S : \A y \in Under(x) : y \notin S BY <1>1, LeastForm
  <1>3. \A y \in Under(x) : g[y] = h[y] BY <1>2 DEF Closed
  <1>4. x \in Forms /\ x \in D /\ x \in E BY <1>1
  <1>5. NormStep(g, x) = NormStep(h, x) BY <1>3, <1>4, StepLocal
  <1> QED BY <1>4, <1>5 DEF Solves

Solution(x, D, g) == Closed(D) /\ Solves(g, D) /\ x \in D
Reached == {x \in Forms : \E D, g : Solution(x, D, g)}
Solved == [x \in Reached |-> CHOOSE r : \E D, g : Solution(x, D, g) /\ r = g[x]]

LEMMA SolvedIs ==
  ASSUME NEW x, NEW D, NEW g, Solution(x, D, g)
  PROVE  x \in Reached /\ Solved[x] = g[x]
  <1>1. x \in Reached BY DEF Reached, Solution, Closed
  <1> DEFINE P(r) == \E E, h : Solution(x, E, h) /\ r = h[x]
  <1>2. P(g[x]) OBVIOUS
  <1>3. Solved[x] = CHOOSE r : P(r) BY <1>1 DEF Solved
  <1>4. P(Solved[x]) BY <1>2, <1>3
  <1>5. PICK E, h : Solution(x, E, h) /\ Solved[x] = h[x] BY <1>4
  <1>6. g[x] = h[x] BY <1>5, SolutionsAgree DEF Solution
  <1> QED BY <1>1, <1>5, <1>6

LEMMA ReachedSolved == Closed(Reached) /\ Solves(Solved, Reached)
  <1>1. ASSUME NEW x \in Reached PROVE Under(x) \subseteq Reached /\ Solved[x] = NormStep(Solved, x)
    <2>1. PICK D, g : Solution(x, D, g) BY DEF Reached
    <2>2. \A y \in Under(x) : Solution(y, D, g) BY <2>1 DEF Solution, Closed
    <2>3. \A y \in Under(x) : y \in Reached /\ Solved[y] = g[y] BY <2>2, SolvedIs
    <2>4. Solved[x] = g[x] /\ x \in Forms /\ g[x] = NormStep(g, x)
      BY <2>1, SolvedIs DEF Solution, Closed, Solves
    <2>5. NormStep(Solved, x) = NormStep(g, x) BY <2>3, <2>4, StepLocal
    <2> QED BY <2>3, <2>4, <2>5
  <1> QED BY <1>1 DEF Closed, Solves, Reached

LEMMA AllReached == Reached = Forms
  <1> DEFINE S == Forms \ Reached
  <1> SUFFICES ASSUME S # {} PROVE FALSE BY DEF Reached
  <1>1. S \in SUBSET Forms OBVIOUS
  <1>2. PICK x \in S : \A y \in Under(x) : y \notin S BY <1>1, LeastForm
  <1>3. Under(x) \subseteq Reached /\ x \in Forms /\ x \notin Reached BY <1>2 DEF Under
  <1> DEFINE D == Reached \cup {x}
             g == [y \in D |-> IF y \in Reached THEN Solved[y] ELSE NormStep(Solved, y)]
  <1>4. \A y \in Reached : Under(y) \subseteq Reached /\ y \in Forms /\ Solved[y] = NormStep(Solved, y)
    BY ReachedSolved DEF Closed, Solves
  <1>5. \A y \in Reached : g[y] = Solved[y] OBVIOUS
  <1>6. g[x] = NormStep(Solved, x) BY <1>3
  <1> HIDE DEF g
  <1>7. Closed(D) BY <1>3, <1>4 DEF Closed
  <1>8. ASSUME NEW y \in D PROVE g[y] = NormStep(g, y)
    <2>1. y \in Forms /\ Under(y) \subseteq Reached BY <1>3, <1>4
    <2>2. \A z \in Under(y) : g[z] = Solved[z] BY <1>5, <2>1
    <2>3. NormStep(g, y) = NormStep(Solved, y) BY <2>1, <2>2, StepLocal
    <2> QED BY <1>4, <1>5, <1>6, <2>3
  <1>9. Solves(g, D) BY <1>8 DEF Solves
  <1> QED BY <1>3, <1>7, <1>9 DEF Reached, Solution

(* Norm is what its definition says.                                       *)
LEMMA NormUnfolds == Norm = [x \in Forms |-> NormStep(Norm, x)]
  <1>1. Solved = [x \in Forms |-> NormStep(Solved, x)]
    <2>1. \A x \in Forms : Solved[x] = NormStep(Solved, x) BY ReachedSolved, AllReached DEF Solves
    <2>2. Solved = [x \in Forms |-> Solved[x]] BY AllReached DEF Solved
    <2> HIDE DEF Solved
    <2> QED BY <2>1, <2>2
  <1>2. Norm = CHOOSE g : g = [x \in Forms |-> NormStep(g, x)]
    BY DEF Norm, NormStep, Forms
  <1> HIDE DEF Norm
  <1>3. \E g : g = [x \in Forms |-> NormStep(g, x)] BY <1>1
  <1> QED BY <1>2, <1>3

LEMMA NormIsFunction == Norm = [x \in Forms |-> Norm[x]]
  <1>1. ASSUME NEW f, f = [x \in Forms |-> NormStep(Norm, x)] PROVE f = [x \in Forms |-> f[x]] BY <1>1
  <1> HIDE DEF Norm
  <1> QED BY <1>1, NormUnfolds

(* The rules, for each side of a proposition.                              *)
LEMMA NormRules ==
  ASSUME NEW p \in Prop
  PROVE  /\ p \in DOMAIN Neg => /\ Norm[<<"hyp", p>>] = Norm[<<"concl", Neg[p]>>]
                                /\ Norm[<<"concl", p>>] = Norm[<<"hyp", Neg[p]>>]
         /\ p \in DOMAIN Conj => Norm[<<"hyp", p>>] = Join(Norm[<<"hyp", Conj[p].l>>], Norm[<<"hyp", Conj[p].r>>])
         /\ p \notin DOMAIN Neg \cup DOMAIN Conj => Norm[<<"hyp", p>>] = [hs |-> {p}, gs |-> {}]
         /\ p \in DOMAIN Disj =>
              Norm[<<"concl", p>>] = Join(Norm[<<"concl", Disj[p].l>>], Norm[<<"concl", Disj[p].r>>])
         /\ p \in DOMAIN Impl \ DOMAIN Disj =>
              Norm[<<"concl", p>>] = Join(Norm[<<"hyp", Impl[p].l>>], Norm[<<"concl", Impl[p].r>>])
         /\ p \notin DOMAIN Neg \cup DOMAIN Disj \cup DOMAIN Impl => Norm[<<"concl", p>>] = [hs |-> {}, gs |-> {p}]
  <1>1. /\ Norm[<<"hyp", p>>] = NormStep(Norm, <<"hyp", p>>)
        /\ Norm[<<"concl", p>>] = NormStep(Norm, <<"concl", p>>)
    BY NormUnfolds DEF Forms
  <1>2. p \in DOMAIN Neg => p \notin DOMAIN Conj /\ p \notin DOMAIN Disj /\ p \notin DOMAIN Impl BY ApartParts
  <1>3. ASSUME NEW f
        PROVE  /\ p \in DOMAIN Neg => /\ NormStep(f, <<"hyp", p>>) = f[<<"concl", Neg[p]>>]
                                      /\ NormStep(f, <<"concl", p>>) = f[<<"hyp", Neg[p]>>]
               /\ p \in DOMAIN Conj =>
                    NormStep(f, <<"hyp", p>>) = Join(f[<<"hyp", Conj[p].l>>], f[<<"hyp", Conj[p].r>>])
    BY <1>2 DEF NormStep
  <1>4. ASSUME NEW f
        PROVE  /\ p \notin DOMAIN Neg \cup DOMAIN Conj => NormStep(f, <<"hyp", p>>) = [hs |-> {p}, gs |-> {}]
               /\ p \notin DOMAIN Neg \cup DOMAIN Disj \cup DOMAIN Impl =>
                    NormStep(f, <<"concl", p>>) = [hs |-> {}, gs |-> {p}]
    BY <1>2 DEF NormStep
  <1>5. ASSUME NEW f
        PROVE  /\ p \in DOMAIN Disj =>
                    NormStep(f, <<"concl", p>>) = Join(f[<<"concl", Disj[p].l>>], f[<<"concl", Disj[p].r>>])
               /\ p \in DOMAIN Impl \ DOMAIN Disj =>
                    NormStep(f, <<"concl", p>>) = Join(f[<<"hyp", Impl[p].l>>], f[<<"concl", Impl[p].r>>])
    BY <1>2 DEF NormStep
  <1> QED BY <1>1, <1>3, <1>4, <1>5

-----------------------------------------------------------------------------
(* What holds of a normal form.                                            *)
FormTrue(x, m) == IF x[1] = "hyp" THEN m \in Truth[x[2]] ELSE m \notin Truth[x[2]]
IsForm(r) == r.hs \in SUBSET Prop /\ r.gs \in SUBSET Prop /\ IsFiniteSet(r.hs) /\ IsFiniteSet(r.gs)
Same(x, r) == \A m \in Model : FormTrue(x, m) <=> FormHolds(r, m)
FormInScope(r, U) == \A q \in r.hs \cup r.gs : Free[q] \subseteq U
Normal(r) ==
  /\ \A q \in r.hs : Norm[<<"hyp", q>>] = [hs |-> {q}, gs |-> {}]
  /\ \A q \in r.gs : Norm[<<"concl", q>>] = [hs |-> {}, gs |-> {q}]
Record(r) == r = [hs |-> r.hs, gs |-> r.gs]

FormSound(x) ==
  /\ Record(Norm[x]) /\ IsForm(Norm[x])
  /\ Same(x, Norm[x]) /\ FormInScope(Norm[x], Free[x[2]]) /\ Normal(Norm[x])

LEMMA JoinSound ==
  ASSUME NEW r1, NEW r2, NEW U, IsForm(r1), IsForm(r2), FormInScope(r1, U), FormInScope(r2, U), Normal(r1), Normal(r2)
  PROVE  LET r == Join(r1, r2) IN
         /\ Record(r) /\ IsForm(r) /\ FormInScope(r, U) /\ Normal(r)
         /\ \A m : FormHolds(r, m) <=> FormHolds(r1, m) /\ FormHolds(r2, m)
  <1> DEFINE r == Join(r1, r2)
  <1>1. r.hs = r1.hs \cup r2.hs /\ r.gs = r1.gs \cup r2.gs /\ Record(r) BY DEF Join, Record
  <1> HIDE DEF r
  <1>2. IsFiniteSet(r.hs) /\ IsFiniteSet(r.gs)
    <2>1. /\ IsFiniteSet(r1.hs) /\ IsFiniteSet(r2.hs)
          /\ IsFiniteSet(r1.gs) /\ IsFiniteSet(r2.gs)
      BY DEF IsForm
    <2>2. IsFiniteSet(r1.hs \cup r2.hs) /\ IsFiniteSet(r1.gs \cup r2.gs) BY <2>1, FS_Union
    <2> QED BY <1>1, <2>2
  <1>3. IsForm(r) BY <1>1, <1>2 DEF IsForm
  <1>4. FormInScope(r, U) BY <1>1 DEF FormInScope
  <1>5. Normal(r) BY <1>1 DEF Normal
  <1>6. \A m : FormHolds(r, m) <=> FormHolds(r1, m) /\ FormHolds(r2, m) BY <1>1 DEF FormHolds
  <1> QED BY <1>1, <1>3, <1>4, <1>5, <1>6 DEF r

LEMMA WiderScope ==
  ASSUME NEW r, NEW U, NEW V, FormInScope(r, U), U \subseteq V
  PROVE  FormInScope(r, V)
  BY DEF FormInScope

(* A form whose normal form is that of another side of another proposition. *)
LEMMA NegSound ==
  ASSUME NEW p \in DOMAIN Neg, NEW a \in {"hyp", "concl"}, NEW b \in {"hyp", "concl"}, a # b,
         FormSound(<<b, Neg[p]>>), Norm[<<a, p>>] = Norm[<<b, Neg[p]>>]
  PROVE  FormSound(<<a, p>>)
  <1>1. Truth[p] = Model \ Truth[Neg[p]] /\ Free[Neg[p]] \subseteq Free[p] BY LogicAssumption
  <1>2. \A m \in Model : FormTrue(<<a, p>>, m) <=> FormTrue(<<b, Neg[p]>>, m) BY <1>1 DEF FormTrue
  <1>3. Same(<<a, p>>, Norm[<<a, p>>]) BY <1>2 DEF Same, FormSound
  <1>4. FormInScope(Norm[<<a, p>>], Free[p]) BY <1>1, WiderScope DEF FormSound
  <1> QED BY <1>3, <1>4 DEF FormSound

LEMMA TwoSound ==
  ASSUME NEW p \in Prop, NEW q1 \in Prop, NEW q2 \in Prop,
         NEW a \in {"hyp", "concl"}, NEW b \in {"hyp", "concl"},
         FormSound(<<b, q1>>), FormSound(<<a, q2>>),
         Norm[<<a, p>>] = Join(Norm[<<b, q1>>], Norm[<<a, q2>>]),
         Free[q1] \cup Free[q2] \subseteq Free[p],
         \A m \in Model : FormTrue(<<a, p>>, m) <=> FormTrue(<<b, q1>>, m) /\ FormTrue(<<a, q2>>, m)
  PROVE  FormSound(<<a, p>>)
  <1> DEFINE r1 == Norm[<<b, q1>>]
             r2 == Norm[<<a, q2>>]
  <1>1. IsForm(r1) /\ Normal(r1) /\ FormInScope(r1, Free[p]) /\ Same(<<b, q1>>, r1) BY WiderScope DEF FormSound
  <1>2. IsForm(r2) /\ Normal(r2) /\ FormInScope(r2, Free[p]) /\ Same(<<a, q2>>, r2) BY WiderScope DEF FormSound
  <1>3. Norm[<<a, p>>] = Join(r1, r2) OBVIOUS
  <1> HIDE DEF r1, r2
  <1>4. /\ Record(Join(r1, r2)) /\ IsForm(Join(r1, r2)) /\ FormInScope(Join(r1, r2), Free[p]) /\ Normal(Join(r1, r2))
        /\ \A m : FormHolds(Join(r1, r2), m) <=> FormHolds(r1, m) /\ FormHolds(r2, m)
    BY <1>1, <1>2, JoinSound
  <1>5. Same(<<a, p>>, Join(r1, r2)) BY <1>1, <1>2, <1>4 DEF Same
  <1> QED BY <1>3, <1>4, <1>5 DEF FormSound

LEMMA LeafSound ==
  ASSUME NEW p \in Prop
  PROVE  /\ Norm[<<"hyp", p>>] = [hs |-> {p}, gs |-> {}] => FormSound(<<"hyp", p>>)
         /\ Norm[<<"concl", p>>] = [hs |-> {}, gs |-> {p}] => FormSound(<<"concl", p>>)
  <1>1. ASSUME NEW r, r = [hs |-> {p}, gs |-> {}], Norm[<<"hyp", p>>] = r PROVE FormSound(<<"hyp", p>>)
    <2>1. r.hs = {p} /\ r.gs = {} /\ Record(r) BY <1>1 DEF Record
    <2>2. IsFiniteSet(r.hs) /\ IsFiniteSet(r.gs) /\ IsForm(r)
      <3>1. IsFiniteSet({}) /\ IsFiniteSet({p}) BY FS_Singleton, FS_EmptySet
      <3> QED BY <2>1, <3>1 DEF IsForm
    <2>3. Same(<<"hyp", p>>, r) BY <2>1 DEF Same, FormTrue, FormHolds
    <2>4. FormInScope(r, Free[p]) BY <2>1 DEF FormInScope
    <2>5. Normal(r) BY <1>1, <2>1 DEF Normal
    <2> QED BY <1>1, <2>1, <2>2, <2>3, <2>4, <2>5 DEF FormSound
  <1>2. ASSUME NEW r, r = [hs |-> {}, gs |-> {p}], Norm[<<"concl", p>>] = r PROVE FormSound(<<"concl", p>>)
    <2>1. r.hs = {} /\ r.gs = {p} /\ Record(r) BY <1>2 DEF Record
    <2>2. IsFiniteSet(r.hs) /\ IsFiniteSet(r.gs) /\ IsForm(r)
      <3>1. IsFiniteSet({}) /\ IsFiniteSet({p}) BY FS_Singleton, FS_EmptySet
      <3> QED BY <2>1, <3>1 DEF IsForm
    <2>3. Same(<<"concl", p>>, r) BY <2>1 DEF Same, FormTrue, FormHolds
    <2>4. FormInScope(r, Free[p]) BY <2>1 DEF FormInScope
    <2>5. Normal(r) BY <1>2, <2>1 DEF Normal
    <2> QED BY <1>2, <2>1, <2>2, <2>3, <2>4, <2>5 DEF FormSound
  <1> QED BY <1>1, <1>2

(* A form is sound if those under it are.                                  *)
LEMMA FormSoundStep ==
  ASSUME NEW p \in Prop, \A q \in Apart(p) : FormSound(<<"hyp", q>>) /\ FormSound(<<"concl", q>>)
  PROVE  FormSound(<<"hyp", p>>) /\ FormSound(<<"concl", p>>)
  <1>1. CASE p \in DOMAIN Neg
    <2>1. FormSound(<<"hyp", Neg[p]>>) /\ FormSound(<<"concl", Neg[p]>>) BY <1>1, ApartParts
    <2>2. Norm[<<"hyp", p>>] = Norm[<<"concl", Neg[p]>>] /\ Norm[<<"concl", p>>] = Norm[<<"hyp", Neg[p]>>]
      BY <1>1, NormRules
    <2> QED BY <1>1, <2>1, <2>2, NegSound
  <1>2. ASSUME p \in DOMAIN Conj PROVE FormSound(<<"hyp", p>>)
    <2> DEFINE l == Conj[p].l
               r == Conj[p].r
    <2>1. FormSound(<<"hyp", l>>) /\ FormSound(<<"hyp", r>>) /\ l \in Prop /\ r \in Prop BY <1>2, ApartParts
    <2>2. Norm[<<"hyp", p>>] = Join(Norm[<<"hyp", l>>], Norm[<<"hyp", r>>]) BY <1>2, NormRules
    <2>3. Truth[p] = Truth[l] \cap Truth[r] /\ Free[l] \cup Free[r] \subseteq Free[p] BY <1>2, LogicAssumption
    <2> HIDE DEF l, r
    <2>4. \A m \in Model : FormTrue(<<"hyp", p>>, m) <=> FormTrue(<<"hyp", l>>, m) /\ FormTrue(<<"hyp", r>>, m)
      BY <2>3 DEF FormTrue
    <2> QED BY <2>1, <2>2, <2>3, <2>4, TwoSound
  <1>3. ASSUME p \in DOMAIN Disj PROVE FormSound(<<"concl", p>>)
    <2> DEFINE l == Disj[p].l
               r == Disj[p].r
    <2>1. FormSound(<<"concl", l>>) /\ FormSound(<<"concl", r>>) /\ l \in Prop /\ r \in Prop BY <1>3, ApartParts
    <2>2. Norm[<<"concl", p>>] = Join(Norm[<<"concl", l>>], Norm[<<"concl", r>>]) BY <1>3, NormRules
    <2>3. Truth[p] = Truth[l] \cup Truth[r] /\ Free[l] \cup Free[r] \subseteq Free[p] BY <1>3, LogicAssumption
    <2> HIDE DEF l, r
    <2>4. \A m \in Model : FormTrue(<<"concl", p>>, m) <=> FormTrue(<<"concl", l>>, m) /\ FormTrue(<<"concl", r>>, m)
      BY <2>3 DEF FormTrue
    <2> QED BY <2>1, <2>2, <2>3, <2>4, TwoSound
  <1>4. ASSUME p \in DOMAIN Impl \ DOMAIN Disj PROVE FormSound(<<"concl", p>>)
    <2> DEFINE l == Impl[p].l
               r == Impl[p].r
    <2>1. FormSound(<<"hyp", l>>) /\ FormSound(<<"concl", r>>) /\ l \in Prop /\ r \in Prop BY <1>4, ApartParts
    <2>2. Norm[<<"concl", p>>] = Join(Norm[<<"hyp", l>>], Norm[<<"concl", r>>]) BY <1>4, NormRules
    <2>3. Truth[p] = (Model \ Truth[l]) \cup Truth[r] /\ Free[l] \cup Free[r] \subseteq Free[p]
      BY <1>4, LogicAssumption
    <2> HIDE DEF l, r
    <2>4. \A m \in Model : FormTrue(<<"concl", p>>, m) <=> FormTrue(<<"hyp", l>>, m) /\ FormTrue(<<"concl", r>>, m)
      BY <2>3 DEF FormTrue
    <2> QED BY <2>1, <2>2, <2>3, <2>4, TwoSound
  <1>5. p \notin DOMAIN Neg /\ p \notin DOMAIN Conj => FormSound(<<"hyp", p>>) BY NormRules, LeafSound
  <1>6. p \notin DOMAIN Neg /\ p \notin DOMAIN Disj /\ p \notin DOMAIN Impl => FormSound(<<"concl", p>>)
    BY NormRules, LeafSound
  <1>7. p \in DOMAIN Neg \/ p \in DOMAIN Conj \/ (p \notin DOMAIN Neg /\ p \notin DOMAIN Conj) OBVIOUS
  <1>8. FormSound(<<"hyp", p>>) BY <1>1, <1>2, <1>5
  <1>9. FormSound(<<"concl", p>>) BY <1>1, <1>3, <1>4, <1>6
  <1> QED BY <1>8, <1>9

LEMMA FormsSound == \A p \in Prop : FormSound(<<"hyp", p>>) /\ FormSound(<<"concl", p>>)
  <1> DEFINE Good(p) == FormSound(<<"hyp", p>>) /\ FormSound(<<"concl", p>>)
             S == {p \in Prop : ~ Good(p)}
  <1> SUFFICES ASSUME S # {} PROVE FALSE OBVIOUS
  <1>1. PICK p \in S : Apart(p) \cap S = {} BY FinitenessAssumption
  <1>2. p \in Prop /\ ~ Good(p) OBVIOUS
  <1>3. \A q \in Apart(p) : Good(q) BY <1>1, <1>2, ApartParts
  <1> QED BY <1>2, <1>3, FormSoundStep

LEMMA FormIsSound == \A x \in Forms : FormSound(x)
  <1> TAKE x \in Forms
  <1>1. x = <<x[1], x[2]>> /\ x[1] \in {"hyp", "concl"} /\ x[2] \in Prop BY FormParts
  <1>2. x = <<"hyp", x[2]>> \/ x = <<"concl", x[2]>> BY <1>1
  <1> QED BY <1>1, <1>2, FormsSound

(* normalizeSequent: its recursion ends, and a normal form is finite, true *)
(* in the same models and mentions nothing new.                            *)
THEOREM NormalFormsKeepMeaning == NormSound
  <1>1. \A x \in Forms : FormSound(x) BY FormIsSound
  <1>2. \A x \in Forms : Norm[x] \in [hs : SUBSET Prop, gs : SUBSET Prop]
    <2> TAKE x \in Forms
    <2> DEFINE r == Norm[x]
    <2>1. r = [hs |-> r.hs, gs |-> r.gs] /\ r.hs \in SUBSET Prop /\ r.gs \in SUBSET Prop
      BY <1>1 DEF FormSound, Record, IsForm
    <2> HIDE DEF r
    <2>2. r \in [hs : SUBSET Prop, gs : SUBSET Prop] BY <2>1
    <2> QED BY <2>2 DEF r
  <1>3. Norm \in [Forms -> [hs : SUBSET Prop, gs : SUBSET Prop]] BY <1>2, NormIsFunction
  <1>4. \A x \in Forms : IsFiniteSet(Norm[x].hs) /\ IsFiniteSet(Norm[x].gs) BY <1>1 DEF FormSound, IsForm
  <1>5. ASSUME NEW p \in Prop, NEW m \in Model
        PROVE  /\ m \in Truth[p] <=> FormHolds(Norm[<<"hyp", p>>], m)
               /\ m \notin Truth[p] <=> FormHolds(Norm[<<"concl", p>>], m)
    <2>1. Same(<<"hyp", p>>, Norm[<<"hyp", p>>]) /\ Same(<<"concl", p>>, Norm[<<"concl", p>>])
      BY FormsSound DEF FormSound
    <2>2. FormTrue(<<"hyp", p>>, m) <=> m \in Truth[p] BY DEF FormTrue
    <2>3. FormTrue(<<"concl", p>>, m) <=> m \notin Truth[p] BY DEF FormTrue
    <2> QED BY <2>1, <2>2, <2>3 DEF Same
  <1>6. \A x \in Forms : \A q \in Norm[x].hs \cup Norm[x].gs : Free[q] \subseteq Free[x[2]]
    BY <1>1 DEF FormSound, FormInScope
  <1> QED BY <1>3, <1>4, <1>5, <1>6 DEF NormSound

(* What the proofs use of normal forms.                                    *)
LEMMA NormParts ==
  /\ \A x \in Forms : /\ Norm[x].hs \in SUBSET Prop /\ Norm[x].gs \in SUBSET Prop
                      /\ IsFiniteSet(Norm[x].hs) /\ IsFiniteSet(Norm[x].gs)
  /\ \A p \in Prop, m \in Model :
       /\ m \in Truth[p] <=> FormHolds(Norm[<<"hyp", p>>], m)
       /\ m \notin Truth[p] <=> FormHolds(Norm[<<"concl", p>>], m)
  /\ \A p \in Prop :
       /\ \A q \in Norm[<<"hyp", p>>].hs \cup Norm[<<"hyp", p>>].gs : Free[q] \subseteq Free[p]
       /\ \A q \in Norm[<<"concl", p>>].hs \cup Norm[<<"concl", p>>].gs : Free[q] \subseteq Free[p]
  <1>1. \A x \in Forms : Norm[x] \in [hs : SUBSET Prop, gs : SUBSET Prop] BY NormalFormsKeepMeaning DEF NormSound
  <1>2. \A x \in Forms : Norm[x].hs \in SUBSET Prop /\ Norm[x].gs \in SUBSET Prop BY <1>1
  <1>3. \A x \in Forms : IsFiniteSet(Norm[x].hs) /\ IsFiniteSet(Norm[x].gs) BY NormalFormsKeepMeaning DEF NormSound
  <1>4. \A p \in Prop, m \in Model :
          /\ m \in Truth[p] <=> FormHolds(Norm[<<"hyp", p>>], m)
          /\ m \notin Truth[p] <=> FormHolds(Norm[<<"concl", p>>], m)
    BY Zenon, NormalFormsKeepMeaning DEF NormSound
  <1>5. \A x \in Forms : \A q \in Norm[x].hs \cup Norm[x].gs : Free[q] \subseteq Free[x[2]] BY NormalFormsKeepMeaning DEF NormSound
  <1>6. ASSUME NEW p \in Prop
        PROVE  /\ <<"hyp", p>> \in Forms /\ <<"hyp", p>>[2] = p
               /\ <<"concl", p>> \in Forms /\ <<"concl", p>>[2] = p
    BY DEF Forms
  <1>7. \A p \in Prop :
          /\ \A q \in Norm[<<"hyp", p>>].hs \cup Norm[<<"hyp", p>>].gs : Free[q] \subseteq Free[p]
          /\ \A q \in Norm[<<"concl", p>>].hs \cup Norm[<<"concl", p>>].gs : Free[q] \subseteq Free[p]
    BY <1>5, <1>6
  <1> QED BY <1>2, <1>3, <1>4, <1>7

(* Normal forms.  A counterexample to a sequent is one to its normal form. *)
LEMMA NormalGoal ==
  ASSUME NEW s \in Sequent
  PROVE  LET form == normalizeSequent(s)
             new == Unfocused(Listing(form.hs), Listing(form.gs))
         IN /\ new \in Sequent
            /\ \A U : InScope(s, U) => InScope(new, U)
            /\ Reduces(<<new>>, s)
            /\ Elems(new.hs) = form.hs /\ Elems(new.gs) = form.gs
  <1> DEFINE form == normalizeSequent(s)
             hyp == [p \in Prop |-> Norm[<<"hyp", p>>]]
             concl == [p \in Prop |-> Norm[<<"concl", p>>]]
             A == {hyp[s.hs[i]] : i \in DOMAIN s.hs}
             B == {concl[s.gs[i]] : i \in DOMAIN s.gs}
             hs == Listing(form.hs)
             gs == Listing(form.gs)
             new == Unfocused(hs, gs)
  <1>1. s.hs \in Seq(Prop) /\ s.gs \in Seq(Prop) BY SequentFields
  <1>2. /\ \A i \in DOMAIN s.hs : s.hs[i] \in Prop
        /\ \A i \in DOMAIN s.gs : s.gs[i] \in Prop
    BY <1>1
  <1>3. form = [hs |-> UNION {f.hs : f \in A \cup B}, gs |-> UNION {f.gs : f \in A \cup B}]
    BY <1>2 DEF normalizeSequent, Elems
  <1>4. /\ \A f \in A \cup B : f.hs \in SUBSET Prop /\ f.gs \in SUBSET Prop
        /\ \A f \in A \cup B : IsFiniteSet(f.hs) /\ IsFiniteSet(f.gs)
    <2>1. \A x \in Forms : /\ Norm[x].hs \in SUBSET Prop /\ Norm[x].gs \in SUBSET Prop
                           /\ IsFiniteSet(Norm[x].hs) /\ IsFiniteSet(Norm[x].gs)
      BY NormParts
    <2>2. \A p \in Prop : <<"hyp", p>> \in Forms /\ <<"concl", p>> \in Forms BY DEF Forms
    <2>3. \A f \in A : \E p \in Prop : f = Norm[<<"hyp", p>>] BY <1>2
    <2>4. \A f \in B : \E p \in Prop : f = Norm[<<"concl", p>>] BY <1>2
    <2>5. \A f \in A : \E x \in Forms : f = Norm[x] BY <2>2, <2>3
    <2>6. \A f \in B : \E x \in Forms : f = Norm[x] BY <2>2, <2>4
    <2> HIDE DEF A, B
    <2> QED BY <2>1, <2>5, <2>6
  <1>5. IsFiniteSet(form.hs) /\ IsFiniteSet(form.gs)
    <2> DEFINE hh == [p \in Prop |-> Norm[<<"hyp", p>>].hs]
               ch == [p \in Prop |-> Norm[<<"concl", p>>].hs]
               hg == [p \in Prop |-> Norm[<<"hyp", p>>].gs]
               cg == [p \in Prop |-> Norm[<<"concl", p>>].gs]
               HS == {hh[s.hs[i]] : i \in DOMAIN s.hs} \cup {ch[s.gs[i]] : i \in DOMAIN s.gs}
               GS == {hg[s.hs[i]] : i \in DOMAIN s.hs} \cup {cg[s.gs[i]] : i \in DOMAIN s.gs}
    <2>1. IsFiniteSet(HS) /\ IsFiniteSet(GS) BY <1>1, FiniteImage, FS_Union
    <2>2. {f.hs : f \in A \cup B} = HS
      <3>1. \A i \in DOMAIN s.hs : hyp[s.hs[i]].hs = hh[s.hs[i]] BY <1>2
      <3>2. \A i \in DOMAIN s.gs : concl[s.gs[i]].hs = ch[s.gs[i]] BY <1>2
      <3> HIDE DEF hyp, concl, hh, ch
      <3> QED BY <3>1, <3>2
    <2>3. {f.gs : f \in A \cup B} = GS
      <3>1. \A i \in DOMAIN s.hs : hyp[s.hs[i]].gs = hg[s.hs[i]] BY <1>2
      <3>2. \A i \in DOMAIN s.gs : concl[s.gs[i]].gs = cg[s.gs[i]] BY <1>2
      <3> HIDE DEF hyp, concl, hg, cg
      <3> QED BY <3>1, <3>2
    <2> HIDE DEF A, B, HS, GS
    <2>4. form.hs = UNION HS /\ form.gs = UNION GS BY <1>3, <2>2, <2>3
    <2>5. (\A h \in HS : IsFiniteSet(h)) /\ (\A h \in GS : IsFiniteSet(h)) BY <1>4, <2>2, <2>3
    <2> HIDE DEF form
    <2> QED BY <2>1, <2>4, <2>5, FS_UNION
  <1> HIDE DEF form
  <1>6. /\ hs \in Seq(form.hs) /\ Elems(hs) = form.hs
        /\ gs \in Seq(form.gs) /\ Elems(gs) = form.gs
    BY <1>5, ListingElements
  <1>7. form.hs \subseteq Prop /\ form.gs \subseteq Prop BY <1>3, <1>4
  <1>8. hs \in Seq(Prop) /\ gs \in Seq(Prop) BY <1>6, <1>7, SeqMonotonic
  <1> HIDE DEF hs, gs
  <1>9. new \in Sequent /\ new.hs = hs /\ new.gs = gs BY <1>8, SequentOf DEF Unfocused
  <1>10. /\ \A i \in DOMAIN hs : \E f \in A \cup B : hs[i] \in f.hs
         /\ \A i \in DOMAIN gs : \E f \in A \cup B : gs[i] \in f.gs
    <2>1. \A i \in DOMAIN hs : hs[i] \in form.hs BY <1>6 DEF Elems
    <2>2. \A i \in DOMAIN gs : gs[i] \in form.gs BY <1>6 DEF Elems
    <2> HIDE DEF A, B
    <2> QED BY <1>3, <2>1, <2>2
  <1> HIDE DEF new
  <1>11. ASSUME NEW U, InScope(s, U) PROVE InScope(new, U)
    <2>1. \A f \in A \cup B : \A q \in f.hs \cup f.gs : Free[q] \subseteq U
      <3>1. \A f \in A : \E p \in Prop : f = Norm[<<"hyp", p>>] /\ Free[p] \subseteq U
        BY <1>2, <1>11 DEF InScope
      <3>2. \A f \in B : \E p \in Prop : f = Norm[<<"concl", p>>] /\ Free[p] \subseteq U
        BY <1>2, <1>11 DEF InScope
      <3> HIDE DEF A, B
      <3> QED BY <3>1, <3>2, NormParts
    <2> QED BY <1>9, <1>10, <2>1 DEF InScope
  <1>12. ASSUME NEW m \in Model, Fails(m, s) PROVE Fails(m, new)
    <2>1. \A f \in A \cup B : FormHolds(f, m)
      <3>1. \A p \in Prop : /\ m \in Truth[p] <=> FormHolds(Norm[<<"hyp", p>>], m)
                            /\ m \notin Truth[p] <=> FormHolds(Norm[<<"concl", p>>], m)
        BY <1>12, NormParts
      <3>2. ASSUME NEW f \in A PROVE FormHolds(f, m)
        <4>1. PICK i \in DOMAIN s.hs : f = Norm[<<"hyp", s.hs[i]>>] BY <1>2, <3>2
        <4>2. s.hs[i] \in Prop /\ m \in Truth[s.hs[i]] BY <1>2, <1>12 DEF Fails
        <4> QED BY <3>1, <4>1, <4>2
      <3>3. ASSUME NEW f \in B PROVE FormHolds(f, m)
        <4>1. PICK i \in DOMAIN s.gs : f = Norm[<<"concl", s.gs[i]>>] BY <1>2, <3>3
        <4>2. s.gs[i] \in Prop /\ m \notin Truth[s.gs[i]] BY <1>2, <1>12 DEF Fails
        <4> QED BY <3>1, <4>1, <4>2
      <3> HIDE DEF A, B
      <3> QED BY <3>2, <3>3
    <2> HIDE DEF A, B
    <2> QED BY <1>9, <1>10, <2>1 DEF Fails, FormHolds
  <1>13. Reduces(<<new>>, s) BY <1>9, <1>12, OneGoal
  <1>14. Elems(new.hs) = form.hs /\ Elems(new.gs) = form.gs BY <1>6, <1>9
  <1> QED BY <1>9, <1>11, <1>13, <1>14 DEF form, hs, gs, new

(* What a sequent's normal form is made of.                                *)
FormsOf(s) == {<<"hyp", p>> : p \in Elems(s.hs)} \cup {<<"concl", p>> : p \in Elems(s.gs)}

LEMMA NormalElements ==
  ASSUME NEW s
  PROVE  /\ \A q : q \in normalizeSequent(s).hs <=> \E x \in FormsOf(s) : q \in Norm[x].hs
         /\ \A q : q \in normalizeSequent(s).gs <=> \E x \in FormsOf(s) : q \in Norm[x].gs
  BY DEF normalizeSequent, FormsOf

(* To subsume another is to have its conclusions, and no more hypotheses.  *)
LEMMA FormsSubsume ==
  ASSUME NEW s1, NEW s2,
         \A x \in FormsOf(s1) : Norm[x].hs \subseteq normalizeSequent(s2).hs,
         \A x \in FormsOf(s2) : Norm[x].gs \subseteq normalizeSequent(s1).gs
  PROVE  normalizeSequentSubsumes(s1, s2)
  BY NormalElements DEF normalizeSequentSubsumes

(* An implication as a conclusion has the normal form of its parts, also   *)
(* when it is a disjunction as well.                                       *)
LEMMA ImplForm ==
  ASSUME NEW p \in DOMAIN Impl
  PROVE  LET l == Norm[<<"hyp", Impl[p].l>>]
             r == Norm[<<"concl", Impl[p].r>>]
         IN /\ Norm[<<"concl", p>>].hs = l.hs \cup r.hs
            /\ Norm[<<"concl", p>>].gs = l.gs \cup r.gs
  <1>0. p \in Prop BY ImplParts
  <1>1. CASE p \notin DOMAIN Disj
    <2>1. Norm[<<"concl", p>>] = Join(Norm[<<"hyp", Impl[p].l>>], Norm[<<"concl", Impl[p].r>>])
      BY <1>0, <1>1, NormRules
    <2> QED BY <2>1 DEF Join
  <1>2. CASE p \in DOMAIN Disj
    <2> DEFINE a == Disj[p].l
               b == Disj[p].r
    <2>1. a \in Prop /\ b \in Prop BY <1>0, <1>2, ApartParts
    <2>2. Norm[<<"concl", p>>] = Join(Norm[<<"concl", a>>], Norm[<<"concl", b>>]) BY <1>0, <1>2, NormRules
    <2>3. \/ a \in DOMAIN Neg /\ Impl[p] = [l |-> Neg[a], r |-> b]
          \/ b \in DOMAIN Neg /\ Impl[p] = [l |-> Neg[b], r |-> a]
      <3>1. PICK parts \in {<<a, b>>, <<b, a>>} :
              parts[1] \in DOMAIN Neg /\ Impl[p] = [l |-> Neg[parts[1]], r |-> parts[2]]
        BY <1>2, ShapeAssumption
      <3> HIDE DEF a, b
      <3> QED BY <3>1
    <2> HIDE DEF a, b
    <2>4. CASE a \in DOMAIN Neg /\ Impl[p] = [l |-> Neg[a], r |-> b]
      <3>1. Impl[p].l = Neg[a] /\ Impl[p].r = b BY <2>4
      <3>2. Norm[<<"concl", a>>] = Norm[<<"hyp", Neg[a]>>] BY <2>1, <2>4, NormRules
      <3> QED BY <2>2, <3>1, <3>2 DEF Join
    <2>5. CASE b \in DOMAIN Neg /\ Impl[p] = [l |-> Neg[b], r |-> a]
      <3>1. Impl[p].l = Neg[b] /\ Impl[p].r = a BY <2>5
      <3>2. Norm[<<"concl", b>>] = Norm[<<"hyp", Neg[b]>>] BY <2>1, <2>5, NormRules
      <3> QED BY <2>2, <3>1, <3>2 DEF Join
    <2> QED BY <2>3, <2>4, <2>5
  <1> QED BY <1>1, <1>2

(* The forms of a sequent with another conclusion in focus.                *)
LEMMA RefocusForms ==
  ASSUME NEW s \in Sequent, s.side = "concl", NEW p \in Prop
  PROVE  /\ FormsOf(Refocus(s, p)) \subseteq FormsOf(s) \cup {<<"concl", p>>}
         /\ FormsOf(s) \subseteq FormsOf(Refocus(s, p)) \cup {<<"concl", Focus(s)>>}
         /\ <<"concl", p>> \in FormsOf(Refocus(s, p))
         /\ <<"concl", Focus(s)>> \in FormsOf(s)
  <1> DEFINE r == Refocus(s, p)
  <1>1. s.hs \in Seq(Prop) /\ s.gs \in Seq(Prop) /\ s.pos \in DOMAIN s.gs BY SequentFields
  <1>2. r.gs = [s.gs EXCEPT ![s.pos] = p] /\ r.hs = s.hs BY RefocusFields
  <1>3. Focus(s) = s.gs[s.pos] BY FocusIsProp
  <1> HIDE DEF r
  <1>4. DOMAIN r.gs = DOMAIN s.gs /\ \A i \in DOMAIN s.gs : r.gs[i] = IF i = s.pos THEN p ELSE s.gs[i]
    BY <1>1, <1>2
  <1>5. Elems(r.gs) \subseteq Elems(s.gs) \cup {p} /\ Elems(s.gs) \subseteq Elems(r.gs) \cup {Focus(s)}
    BY <1>3, <1>4 DEF Elems
  <1>6. p \in Elems(r.gs) /\ Focus(s) \in Elems(s.gs) BY <1>1, <1>3, <1>4 DEF Elems
  <1> QED BY <1>2, <1>5, <1>6 DEF FormsOf, r

(* intro_hyps and goal_revert_hyp leave normal forms that fit.             *)
LEMMA IntroSubsumes ==
  ASSUME NEW s \in Sequent, s.side = "concl", Focus(s) \in DOMAIN Impl
  PROVE  normalizeSequentSubsumes(addHypothesis(Impl[Focus(s)].l, Refocus(s, Impl[Focus(s)].r)), s)
  <1> DEFINE p == Focus(s)
             r == Refocus(s, Impl[p].r)
             a == addHypothesis(Impl[p].l, r)
  <1>1. p \in Prop /\ Impl[p].l \in Prop /\ Impl[p].r \in Prop BY ImplParts
  <1>2. /\ FormsOf(r) \subseteq FormsOf(s) \cup {<<"concl", Impl[p].r>>}
        /\ FormsOf(s) \subseteq FormsOf(r) \cup {<<"concl", p>>}
        /\ <<"concl", Impl[p].r>> \in FormsOf(r) /\ <<"concl", p>> \in FormsOf(s)
    BY <1>1, RefocusForms
  <1>3. r \in Sequent BY <1>1, RefocusFields
  <1>4. FormsOf(a) = FormsOf(r) \cup {<<"hyp", Impl[p].l>>}
    <2>1. a.hs = Append(r.hs, Impl[p].l) /\ a.gs = r.gs BY <1>1, <1>3, AddFields
    <2>2. r.hs \in Seq(Prop) BY <1>3, SequentFields
    <2>3. Elems(a.hs) = Elems(r.hs) \cup {Impl[p].l} BY <1>1, <2>1, <2>2, AppendElems
    <2> QED BY <2>1, <2>3 DEF FormsOf
  <1>5. /\ Norm[<<"concl", p>>].hs = Norm[<<"hyp", Impl[p].l>>].hs \cup Norm[<<"concl", Impl[p].r>>].hs
        /\ Norm[<<"concl", p>>].gs = Norm[<<"hyp", Impl[p].l>>].gs \cup Norm[<<"concl", Impl[p].r>>].gs
    BY ImplForm
  <1> HIDE DEF p, r, a
  <1>6. \A x \in FormsOf(a) : Norm[x].hs \subseteq normalizeSequent(s).hs
    BY <1>2, <1>4, <1>5, NormalElements
  <1>7. \A x \in FormsOf(s) : Norm[x].gs \subseteq normalizeSequent(a).gs
    BY <1>2, <1>4, <1>5, NormalElements
  <1> QED BY <1>6, <1>7, FormsSubsume DEF a, r, p

LEMMA RevertSubsumes ==
  ASSUME NEW s \in Sequent, s.side = "concl", NEW p \in DOMAIN Impl, NEW i \in DOMAIN s.hs,
         Impl[p].l = s.hs[i], Impl[p].r = Focus(s)
  PROVE  normalizeSequentSubsumes(Refocus(s, p), s)
  <1> DEFINE q == Focus(s)
             r == Refocus(s, p)
  <1>1. p \in Prop BY ImplParts
  <1>2. /\ FormsOf(r) \subseteq FormsOf(s) \cup {<<"concl", p>>}
        /\ FormsOf(s) \subseteq FormsOf(r) \cup {<<"concl", q>>}
        /\ <<"concl", p>> \in FormsOf(r) /\ <<"concl", q>> \in FormsOf(s)
    BY <1>1, RefocusForms
  <1>3. <<"hyp", s.hs[i]>> \in FormsOf(s) BY DEF FormsOf, Elems
  <1>4. /\ Norm[<<"concl", p>>].hs = Norm[<<"hyp", s.hs[i]>>].hs \cup Norm[<<"concl", q>>].hs
        /\ Norm[<<"concl", p>>].gs = Norm[<<"hyp", s.hs[i]>>].gs \cup Norm[<<"concl", q>>].gs
    BY ImplForm
  <1> HIDE DEF q, r
  <1>5. \A x \in FormsOf(r) : Norm[x].hs \subseteq normalizeSequent(s).hs
    BY <1>2, <1>3, <1>4, NormalElements
  <1>6. \A x \in FormsOf(s) : Norm[x].gs \subseteq normalizeSequent(r).gs
    BY <1>2, <1>4, NormalElements
  <1> QED BY <1>5, <1>6, FormsSubsume DEF r

(* A normal form is its own, so that the evidence of normalize_sequent fits*)
(* the goal it is for.                                                     *)
LEMMA NormalSubsumes ==
  ASSUME NEW s \in Sequent
  PROVE  LET form == normalizeSequent(s)
         IN normalizeSequentSubsumes(Unfocused(Listing(form.hs), Listing(form.gs)), s)
  <1> DEFINE form == normalizeSequent(s)
             new == Unfocused(Listing(form.hs), Listing(form.gs))
  <1>1. Elems(new.hs) = form.hs /\ Elems(new.gs) = form.gs BY NormalGoal
  <1>2. \A x \in FormsOf(s) : x \in Forms
    <2>1. s.hs \in Seq(Prop) /\ s.gs \in Seq(Prop) BY SequentFields
    <2> QED BY <2>1 DEF FormsOf, Elems, Forms
  <1>3. \A x \in Forms : Normal(Norm[x]) BY FormIsSound DEF FormSound
  <1> HIDE DEF new
  <1>4. /\ \A q \in form.hs : Norm[<<"hyp", q>>] = [hs |-> {q}, gs |-> {}]
        /\ \A q \in form.gs : Norm[<<"concl", q>>] = [hs |-> {}, gs |-> {q}]
    BY <1>2, <1>3, NormalElements DEF Normal
  <1>9. /\ \A q \in form.hs : Norm[<<"hyp", q>>].hs = {q} /\ Norm[<<"hyp", q>>].gs = {}
        /\ \A q \in form.gs : Norm[<<"concl", q>>].hs = {} /\ Norm[<<"concl", q>>].gs = {q}
    <2> HIDE DEF form
    <2>1. ASSUME NEW q \in form.hs PROVE Norm[<<"hyp", q>>].hs = {q} /\ Norm[<<"hyp", q>>].gs = {}
      <3>1. Norm[<<"hyp", q>>] = [hs |-> {q}, gs |-> {}] BY <1>4
      <3> QED BY <3>1
    <2>2. ASSUME NEW q \in form.gs PROVE Norm[<<"concl", q>>].hs = {} /\ Norm[<<"concl", q>>].gs = {q}
      <3>1. Norm[<<"concl", q>>] = [hs |-> {}, gs |-> {q}] BY <1>4
      <3> QED BY <3>1
    <2> QED BY <2>1, <2>2
  <1>5. FormsOf(new) = {<<"hyp", q>> : q \in form.hs} \cup {<<"concl", q>> : q \in form.gs}
    BY <1>1 DEF FormsOf
  <1> HIDE DEF form
  <1>6. \A x \in FormsOf(new) : Norm[x].hs \subseteq form.hs BY <1>9, <1>5
  <1>7. form.gs \subseteq normalizeSequent(new).gs
    <2>1. \A q \in form.gs : <<"concl", q>> \in FormsOf(new) /\ q \in Norm[<<"concl", q>>].gs BY <1>9, <1>5
    <2> QED BY <2>1, NormalElements
  <1>8. \A x \in FormsOf(s) : Norm[x].gs \subseteq form.gs BY NormalElements DEF form
  <1> QED BY <1>6, <1>7, <1>8, FormsSubsume DEF form, new

(* Instances of a proposition hold where it does.                          *)
LEMMA InstanceTruth ==
  ASSUME NEW p \in Prop, NEW inst \in specializeProp(p)
  PROVE  inst \in Prop /\ Truth[p] \subseteq Truth[inst]
  BY ShapeAssumption, LogicAssumption DEF specializeProp

(* Applying a proposition to a conclusion.                                 *)
LEMMA ApplyGoal ==
  ASSUME NEW s \in Sequent, s.side = "concl", NEW p \in Prop, NEW inst \in Prop, NEW sub \in BOOLEAN,
         Applies(p, inst, sub, Focus(s))
  PROVE  /\ Premises(s, inst, sub) \in Seq(Sequent)
         /\ \A U : InScope(s, U) /\ Free[inst] \subseteq U
                 => \A i \in DOMAIN Premises(s, inst, sub) : InScope(Premises(s, inst, sub)[i], U)
         /\ (\A m \in Model : Fails(m, s) => m \in Truth[p]) => Reduces(Premises(s, inst, sub), s)
  <1>1. inst \in specializeProp(p) BY DEF Applies
  <1>2. Truth[p] \subseteq Truth[inst] BY <1>1, InstanceTruth
  <1>3. CASE sub
    <2>1. inst \in DOMAIN Impl /\ Impl[inst].r = Focus(s) BY <1>3, ShapeAssumption DEF Applies
    <2> DEFINE a == Refocus(s, Impl[inst].l)
    <2>2. Premises(s, inst, sub) = <<a>> BY <1>3 DEF Premises
    <2>3. a \in Sequent BY <2>1, ImplParts, RefocusFields
    <2>4. \A U : InScope(s, U) /\ Free[inst] \subseteq U => InScope(a, U)
      BY <2>1, ImplParts, ChangedScope
    <2>5. ASSUME NEW m \in Model, Fails(m, s), m \in Truth[p] PROVE Fails(m, a)
      <3>1. m \notin Truth[Impl[inst].r] BY <2>1, <2>5, FocusOfFailure
      <3>2. m \notin Truth[Impl[inst].l] BY <1>2, <2>1, <2>5, <3>1, ImplParts
      <3> QED BY <2>1, <2>5, <3>2, ImplParts, RefocusFails
    <2> HIDE DEF a
    <2> QED BY <2>2, <2>3, <2>4, <2>5, OneGoal
  <1>4. CASE ~ sub
    <2>1. Premises(s, inst, sub) = <<>> /\ inst = Focus(s) BY <1>4 DEF Premises, Applies
    <2>2. ASSUME NEW m \in Model, Fails(m, s), m \in Truth[p] PROVE FALSE
      BY <1>2, <2>1, <2>2, FocusOfFailure
    <2> QED BY <2>1, <2>2 DEF Reduces
  <1> QED BY <1>3, <1>4

-----------------------------------------------------------------------------
(* Steps of tactics.                                                       *)

HonestNode(e) ==
  /\ e.k \in {"offline", "admitted", "tested"} => Valid(e.s)
  /\ e.k = "loose" => Holds(e.p)
  /\ e.k \in {"apply", "insert", "rewrite"} => Holds(thms[e.thm].prop)

(* The node is accepted for the goal, and evidence for the new goals is    *)
(* what it then needs.  (Scripts in Weakens may have dropped a conclusion.)*)
Follows(new, e) ==
  job.prop \notin Weakens => Accepts(e, Goal) /\ Subgoals(e, Goal) = new

(* What every tactic does: the new goals prove the old one if the evidence *)
(* is honest, what is new is in scope, and the check can follow.           *)
Step(new, e) ==
  /\ HasGoal /\ Tactic(new, e)
  /\ new \in Seq(Sequent) /\ e \in Evidence
  /\ used \subseteq used' /\ used' \subseteq VarName
  /\ e.k \in {"apply", "insert", "rewrite"} => e.thm \in db
  /\ e.k = "intro" => e.x \in used' \ used
  /\ InScope(Goal, used) =>
       /\ \A i \in DOMAIN new : InScope(new[i], used')
       /\ NodeFree(e) \subseteq used'
       /\ e.k # "splitPi" /\ HonestNode(e) => Reduces(new, Goal)
  /\ e.k = "splitPi" => DOMAIN PiDisj # {}
  /\ Follows(new, e)

AnyTactic ==
  \/ tacticIntro \/ tacticIntroHyps \/ tacticRevertHyp
  \/ tacticApplyHyp \/ tacticApply \/ tacticSplit
  \/ tacticSpecializeHyp \/ tacticInsert \/ tacticCut \/ tacticExact
  \/ tacticSolve \/ admitProof \/ quickcheckGoal
  \/ unfocus \/ focus_concl \/ focus_hyp \/ delete_hyps \/ delete_concl
  \/ normalize_sequent \/ goal_eval \/ simplifyGoal

(* The first goal is a sequent.                                            *)
LEMMA GoalType ==
  ASSUME TypeOK, HasGoal
  PROVE  Goal \in Sequent /\ used \subseteq VarName
  <1>1. proof.goals \in Seq(Sequent) /\ proof.goals # <<>> BY DEF TypeOK, ProofState, HasGoal
  <1> QED BY <1>1 DEF Goal, TypeOK

(* A theorem of the database is one.                                       *)
LEMMA TheoremType ==
  ASSUME TypeOK, NEW n \in DOMAIN thms
  PROVE  n \in Nonce /\ thms[n] \in Theorem /\ thms[n].prop \in Prop /\ thms[n].sum \in Summary
         /\ thms[n].deps \subseteq Nonce
  <1>1. thms \in Seq(Theorem) /\ Len(thms) <= MaxTheorems /\ MaxTheorems \in Nat
    BY ShapeAssumption DEF TypeOK
  <1>2. n \in 1..Len(thms) BY <1>1
  <1>3. thms[n] \in Theorem BY <1>1, <1>2
  <1> QED BY <1>1, <1>2, <1>3 DEF Nonce, Theorem

(* The tactics that keep the goal, in substance, and leave a sequent as    *)
(* evidence.                                                               *)
LEMMA SequentStep ==
  ASSUME TypeOK, HasGoal, NEW new \in Sequent, NEW k \in {"structural", "normalize"},
         Tactic(<<new>>, [k |-> k, s |-> new]), UNCHANGED used,
         InScope(Goal, used) => InScope(new, used),
         \A m \in Model : Fails(m, Goal) => Fails(m, new),
         job.prop \notin Weakens =>
           IF k = "structural" THEN sequentSubsumes(new, Goal) ELSE normalizeSequentSubsumes(new, Goal)
  PROVE  \E seq, e : Step(seq, e)
  <1> DEFINE e == [k |-> k, s |-> new]
  <1>1. e \in Evidence BY DEF Evidence
  <1>2. Goal \in Sequent /\ used \subseteq VarName BY GoalType
  <1>3. e.k \in {"structural", "normalize"} /\ e.s = new OBVIOUS
  <1>4. NodeFree(e) = Mentions(new) BY <1>3 DEF NodeFree, Leaves, Terms, Splits
  <1>5. Tactic(<<new>>, e) OBVIOUS
  <1>10. Follows(<<new>>, e) BY <1>3 DEF Follows, Accepts, Subgoals, Leaves, Terms, Splits
  <1> HIDE DEF e
  <1>6. InScope(Goal, used) => NodeFree(e) \subseteq used BY <1>4, MentionsScope
  <1>7. Reduces(<<new>>, Goal) BY <1>2, OneGoal
  <1>8. <<new>> \in Seq(Sequent) /\ (InScope(Goal, used) => \A i \in DOMAIN <<new>> : InScope(<<new>>[i], used))
    BY OneGoal
  <1>9. Step(<<new>>, e) BY <1>1, <1>2, <1>3, <1>5, <1>6, <1>7, <1>8, <1>10 DEF Step
  <1> QED BY <1>9

(* intro.  The new variable is free in nothing the goal mentions.          *)
LEMMA IntroStep ==
  ASSUME TypeOK, tacticIntro
  PROVE  \E new, e : Step(new, e)
  <1> DEFINE p == Focus(Goal)
             x == freshVar(used)
             a == Refocus(Goal, Pi[p][x])
             e == [k |-> "intro", x |-> x]
  <1>1. HasGoal /\ Goal.side = "concl" /\ p \in DOMAIN Pi /\ Tactic(<<a>>, e) /\ used' = used \cup {x}
    BY DEF tacticIntro, OnConclusion
  <1>2. Goal \in Sequent /\ used \subseteq VarName BY <1>1, GoalType
  <1>3. x \in VarName /\ x \notin used BY DEF tacticIntro, freshVar
  <1>4. p \in Prop /\ Pi[p][x] \in Prop /\ Free[Pi[p][x]] \subseteq Free[p] \cup {x}
    BY <1>1, <1>3, ShapeAssumption, LogicAssumption
  <1>5. a \in Sequent BY <1>1, <1>2, <1>4, RefocusFields
  <1>6. e \in Evidence /\ e.k = "intro" /\ e.x = x BY <1>3 DEF Evidence
  <1>7. NodeFree(e) = {} BY <1>6 DEF NodeFree, Leaves, Terms, Splits
  <1>13. Follows(<<a>>, e) BY <1>1, <1>6 DEF Follows, Accepts, Subgoals, Leaves, Terms, Splits, Onward
  <1> HIDE DEF e, x
  <1>8. ASSUME InScope(Goal, used)
        PROVE  InScope(a, used') /\ Reduces(<<a>>, Goal)
    <2>1. Free[p] \subseteq used BY <1>1, <1>2, <1>8, FocusOfFailure
    <2>2. InScope(Goal, used') BY <1>1, <1>8, ScopeGrows
    <2>3. InScope(a, used') BY <1>1, <1>2, <1>4, <2>1, <2>2, ChangedScope
    <2>4. ASSUME NEW m \in Model, Fails(m, Goal) PROVE \E o \in Model : Fails(o, a)
      <3>1. m \in Model \ Truth[p] BY <1>1, <1>2, <2>4, FocusOfFailure
      <3>2. x \in VarName \ Free[p] BY <1>3, <2>1
      <3>3. PICK o \in Model \ Truth[Pi[p][x]] :
              \A q \in Prop : x \notin Free[q] => (m \in Truth[q] <=> o \in Truth[q])
        BY <1>1, <3>1, <3>2, GenericAssumption
      <3>4. /\ \A i \in DOMAIN Goal.hs : Goal.hs[i] \in Prop /\ x \notin Free[Goal.hs[i]]
            /\ \A i \in DOMAIN Goal.gs : Goal.gs[i] \in Prop /\ x \notin Free[Goal.gs[i]]
        <4>1. Goal.hs \in Seq(Prop) /\ Goal.gs \in Seq(Prop) BY <1>2, SequentFields
        <4> QED BY <1>3, <1>8, <4>1 DEF InScope
      <3>5. /\ \A i \in DOMAIN Goal.hs : m \in Truth[Goal.hs[i]] => o \in Truth[Goal.hs[i]]
            /\ \A i \in DOMAIN Goal.gs : m \notin Truth[Goal.gs[i]] => o \notin Truth[Goal.gs[i]]
        BY <3>3, <3>4
      <3>6. Fails(o, a) BY <1>1, <1>2, <1>4, <2>4, <3>3, <3>5, RefocusFails
      <3> QED BY <3>3, <3>6
    <2> HIDE DEF a
    <2>5. DOMAIN <<a>> = {1} /\ <<a>>[1] = a OBVIOUS
    <2> QED BY <2>3, <2>4, <2>5 DEF Reduces
  <1> HIDE DEF a
  <1>9. <<a>> \in Seq(Sequent) BY <1>5
  <1>10. used' \subseteq VarName /\ used \subseteq used' /\ e.x \in used' \ used BY <1>1, <1>2, <1>3, <1>6
  <1>11. InScope(a, used') => \A i \in DOMAIN <<a>> : InScope(<<a>>[i], used') BY <1>5, OneGoal
  <1>12. Step(<<a>>, e) BY <1>1, <1>6, <1>7, <1>8, <1>9, <1>10, <1>11, <1>13 DEF Step
  <1> QED BY <1>12

(* intro_hyps: an implication's hypothesis becomes one of the sequent.     *)
LEMMA IntroHypsStep ==
  ASSUME TypeOK, tacticIntroHyps
  PROVE  \E new, e : Step(new, e)
  <1> DEFINE p == Focus(Goal)
             r == Refocus(Goal, Impl[p].r)
             a == addHypothesis(Impl[p].l, r)
  <1>1. /\ HasGoal /\ Goal.side = "concl" /\ p \in DOMAIN Impl
        /\ Tactic(<<a>>, [k |-> "normalize", s |-> a]) /\ UNCHANGED used
    BY DEF tacticIntroHyps, OnConclusion
  <1>2. Goal \in Sequent BY <1>1, GoalType
  <1>3. r \in Sequent BY <1>1, <1>2, ImplParts, RefocusFields
  <1>4. a \in Sequent BY <1>1, <1>3, ImplParts, AddFields
  <1>5. ASSUME InScope(Goal, used) PROVE InScope(a, used)
    <2>1. Free[p] \subseteq used BY <1>1, <1>2, <1>5, FocusOfFailure
    <2>2. InScope(r, used) BY <1>1, <1>2, <1>5, <2>1, ImplParts, ChangedScope
    <2> QED BY <1>1, <1>3, <2>1, <2>2, ImplParts, ChangedScope
  <1>6. ASSUME NEW m \in Model, Fails(m, Goal) PROVE Fails(m, a)
    <2>1. m \notin Truth[p] BY <1>1, <1>2, <1>6, FocusOfFailure
    <2>2. m \in Truth[Impl[p].l] /\ m \notin Truth[Impl[p].r] BY <1>1, <1>6, <2>1, ImplParts
    <2>3. Fails(m, r) BY <1>1, <1>2, <1>6, <2>2, ImplParts, RefocusFails
    <2> QED BY <1>1, <1>3, <2>2, <2>3, ImplParts, AddFails
  <1>7. normalizeSequentSubsumes(a, Goal) BY <1>1, <1>2, IntroSubsumes
  <1> HIDE DEF a
  <1> QED BY <1>1, <1>4, <1>5, <1>6, <1>7, SequentStep

(* goal_revert_hyp: the conclusion, under one of the hypotheses.           *)
LEMMA RevertHypStep ==
  ASSUME TypeOK, tacticRevertHyp
  PROVE  \E new, e : Step(new, e)
  <1>1. HasGoal /\ Goal.side = "concl" /\ UNCHANGED used BY DEF tacticRevertHyp, OnConclusion
  <1>2. PICK i \in DOMAIN Goal.hs, p \in DOMAIN Impl :
          /\ Impl[p] = [l |-> Goal.hs[i], r |-> Focus(Goal)]
          /\ Tactic(<<Refocus(Goal, p)>>, [k |-> "normalize", s |-> Refocus(Goal, p)])
    BY DEF tacticRevertHyp
  <1> DEFINE a == Refocus(Goal, p)
  <1>3. Goal \in Sequent BY <1>1, GoalType
  <1>4. p \in Prop /\ Impl[p].l = Goal.hs[i] /\ Impl[p].r = Focus(Goal) BY <1>2, ImplParts
  <1>5. a \in Sequent BY <1>1, <1>3, <1>4, RefocusFields
  <1>6. ASSUME NEW m \in Model, Fails(m, Goal) PROVE Fails(m, a)
    <2>1. m \in Truth[Goal.hs[i]] /\ m \notin Truth[Focus(Goal)]
      BY <1>1, <1>3, <1>6, FocusOfFailure DEF Fails
    <2>2. m \notin Truth[p] BY <1>4, <1>6, <2>1, ImplParts
    <2> QED BY <1>1, <1>3, <1>4, <1>6, <2>2, RefocusFails
  <1>7. ASSUME InScope(Goal, used) PROVE InScope(a, used)
    <2>1. Free[p] \subseteq used
      <3>1. Free[Goal.hs[i]] \subseteq used /\ Free[Focus(Goal)] \subseteq used
        BY <1>1, <1>3, <1>7, FocusOfFailure DEF InScope
      <3> QED BY <1>4, <3>1, LogicAssumption
    <2> QED BY <1>1, <1>3, <1>4, <1>7, <2>1, ChangedScope
  <1>8. normalizeSequentSubsumes(a, Goal) BY <1>1, <1>3, <1>4, RevertSubsumes
  <1> HIDE DEF a
  <1> QED BY <1>1, <1>2, <1>5, <1>6, <1>7, <1>8, SequentStep DEF a

(* goal_apply_hyp.                                                         *)
LEMMA ApplyHypStep ==
  ASSUME TypeOK, tacticApplyHyp
  PROVE  \E new, e : Step(new, e)
  <1>1. HasGoal /\ Goal.side = "concl" /\ UNCHANGED used BY DEF tacticApplyHyp, OnConclusion
  <1>2. PICK i \in DOMAIN Goal.hs, inst \in Prop, sub \in BOOLEAN :
          /\ Known(inst)
          /\ Applies(Goal.hs[i], inst, sub, Focus(Goal))
          /\ Tactic(Premises(Goal, inst, sub), [k |-> "applyHyp", n |-> i, inst |-> inst, sub |-> sub])
    BY DEF tacticApplyHyp
  <1> DEFINE e == [k |-> "applyHyp", n |-> i, inst |-> inst, sub |-> sub]
             new == Premises(Goal, inst, sub)
  <1>3. Goal \in Sequent /\ used \subseteq VarName BY <1>1, GoalType
  <1>4. Goal.hs \in Seq(Prop) BY <1>3, SequentFields
  <1>5. Goal.hs[i] \in Prop /\ i \in Nat BY <1>4
  <1>6. e \in Evidence /\ e.k = "applyHyp" /\ e.inst = inst /\ e.n = i /\ e.sub = sub BY <1>5 DEF Evidence
  <1>7. NodeFree(e) = Free[inst] BY <1>6 DEF NodeFree, Leaves, Terms, Splits
  <1>8. Tactic(new, e) BY <1>2
  <1>9. \A m \in Model : Fails(m, Goal) => m \in Truth[Goal.hs[i]] BY DEF Fails
  <1>10. new \in Seq(Sequent) /\ Reduces(new, Goal)
    BY <1>1, <1>2, <1>3, <1>5, <1>9, ApplyGoal
  <1>11. InScope(Goal, used) => \A k \in DOMAIN new : InScope(new[k], used)
    BY <1>1, <1>2, <1>3, <1>5, ApplyGoal DEF Known
  <1>12. Free[inst] \subseteq used BY <1>2 DEF Known
  <1> HIDE DEF e
  <1>14. Follows(new, e) BY <1>1, <1>2, <1>6 DEF Follows, Accepts, Subgoals, Leaves, Terms, Splits, Onward
  <1> HIDE DEF new
  <1>13. Step(new, e) BY <1>1, <1>3, <1>6, <1>7, <1>8, <1>10, <1>11, <1>12, <1>14 DEF Step
  <1> QED BY <1>13

(* goal_apply: sound if the theorem is true.                               *)
LEMMA ApplyStep ==
  ASSUME TypeOK, tacticApply
  PROVE  \E new, e : Step(new, e)
  <1>1. HasGoal /\ Goal.side = "concl" /\ UNCHANGED used BY DEF tacticApply, OnConclusion
  <1>2. PICK n \in db, inst \in Prop, sub \in BOOLEAN :
          /\ Known(inst)
          /\ Applies(thms[n].prop, inst, sub, Focus(Goal))
          /\ Tactic(Premises(Goal, inst, sub), [k |-> "apply", thm |-> n, inst |-> inst, sub |-> sub])
    BY DEF tacticApply
  <1> DEFINE e == [k |-> "apply", thm |-> n, inst |-> inst, sub |-> sub]
             new == Premises(Goal, inst, sub)
  <1>3. Goal \in Sequent /\ used \subseteq VarName BY <1>1, GoalType
  <1>5. n \in Nonce /\ thms[n].prop \in Prop BY TheoremType DEF TypeOK
  <1>6. e \in Evidence /\ e.k = "apply" /\ e.inst = inst /\ e.thm = n /\ e.sub = sub BY <1>5 DEF Evidence
  <1>7. NodeFree(e) = Free[inst] BY <1>6 DEF NodeFree, Leaves, Terms, Splits
  <1>8. Tactic(new, e) BY <1>2
  <1>9. HonestNode(e) => \A m \in Model : Fails(m, Goal) => m \in Truth[thms[n].prop]
    BY <1>6 DEF HonestNode, Holds
  <1>10. new \in Seq(Sequent) /\ (HonestNode(e) => Reduces(new, Goal))
    BY <1>1, <1>2, <1>3, <1>5, <1>9, ApplyGoal
  <1>11. InScope(Goal, used) => \A k \in DOMAIN new : InScope(new[k], used)
    BY <1>1, <1>2, <1>3, <1>5, ApplyGoal DEF Known
  <1>12. Free[inst] \subseteq used BY <1>2 DEF Known
  <1> HIDE DEF e
  <1>14. Follows(new, e) BY <1>1, <1>2, <1>6 DEF Follows, Accepts, Subgoals, Leaves, Terms, Splits, Onward
  <1> HIDE DEF new
  <1>13. Step(new, e) BY <1>1, <1>3, <1>6, <1>7, <1>8, <1>10, <1>11, <1>12, <1>14 DEF Step
  <1> QED BY <1>13

(* split, evaluation: no more is said in the evidence than which it was.   *)
LEMMA SplitStep ==
  ASSUME TypeOK, tacticSplit \/ goal_eval
  PROVE  \E new, e : Step(new, e)
  <1>1. HasGoal /\ UNCHANGED used BY DEF tacticSplit, goal_eval
  <1>2. Goal \in Sequent /\ used \subseteq VarName BY <1>1, GoalType
  <1>3. ASSUME NEW k \in {"split", "splitPi", "eval"}
        PROVE  /\ [k |-> k] \in Evidence /\ [k |-> k].k = k
               /\ NodeFree([k |-> k]) = {}
    BY DEF Evidence, NodeFree, Leaves, Terms, Splits
  <1>4. CASE tacticSplit
    <2> DEFINE kind == IF UnderQuantifier(Goal) THEN "splitPi" ELSE "split"
               e == [k |-> kind]
    <2>1. Tactic(splitSequent(Goal), e) /\ splitSequent(Goal) # <<>> BY <1>4 DEF tacticSplit
    <2>4. kind \in Splits /\ (kind = "splitPi" => UnderQuantifier(Goal)) /\ (kind # "splitPi" => ~ UnderQuantifier(Goal))
      BY DEF Splits
    <2>5. UnderQuantifier(Goal) => DOMAIN PiDisj # {} BY DEF UnderQuantifier
    <2> HIDE DEF kind
    <2>6. e \in Evidence /\ e.k = kind /\ NodeFree(e) = {} BY <1>3, <2>4 DEF Splits
    <2> HIDE DEF e
    <2>3. Follows(splitSequent(Goal), e) BY <2>1, <2>4, <2>6 DEF Follows, Accepts, Subgoals, Leaves, Terms, Splits
    <2>7. e.k \in Splits BY <2>4, <2>6
    <2>2. Step(splitSequent(Goal), e)
      BY <1>1, <1>2, <2>1, <2>3, <2>4, <2>5, <2>6, <2>7, SplitGoals DEF Step, Splits
    <2> QED BY <2>2
  <1>5. CASE goal_eval
    <2>1. Tactic(<<evalSequent(Goal)>>, [k |-> "eval"]) BY <1>5 DEF goal_eval
    <2>2. <<evalSequent(Goal)>> \in Seq(Sequent) /\ Reduces(<<evalSequent(Goal)>>, Goal)
      BY <1>2, EvalGoal, OneGoal
    <2>3. InScope(Goal, used) =>
            \A i \in DOMAIN <<evalSequent(Goal)>> : InScope(<<evalSequent(Goal)>>[i], used)
      BY <1>2, EvalGoal, OneGoal
    <2>5. Follows(<<evalSequent(Goal)>>, [k |-> "eval"]) BY DEF Follows, Accepts, Subgoals, Leaves, Terms, Splits
    <2>4. Step(<<evalSequent(Goal)>>, [k |-> "eval"])
      BY <1>1, <1>2, <1>3, <2>1, <2>2, <2>3, <2>5 DEF Step
    <2> QED BY <2>4
  <1> QED BY <1>4, <1>5

(* A hypothesis is added that follows from what evidence of this kind      *)
(* relies on.                                                              *)
LEMMA HypothesisStep ==
  ASSUME TypeOK, HasGoal, UNCHANGED used, NEW inst \in Prop, NEW e \in Evidence,
         Free[inst] \subseteq used, NodeFree(e) = Free[inst], e.k \in {"insert", "specializeHyp"},
         e.k = "insert" => e.thm \in db,
         Tactic(<<addHypothesis(inst, Goal)>>, e),
         HonestNode(e) => \A m \in Model : Fails(m, Goal) => m \in Truth[inst],
         e.inst = inst, Accepts(e, Goal)
  PROVE  \E new, ev : Step(new, ev)
  <1> DEFINE a == addHypothesis(inst, Goal)
  <1>1. Goal \in Sequent /\ used \subseteq VarName BY GoalType
  <1>2. a \in Sequent BY <1>1, AddFields
  <1>3. InScope(Goal, used) => InScope(a, used) BY <1>1, ChangedScope
  <1>4. HonestNode(e) => \A m \in Model : Fails(m, Goal) => Fails(m, a) BY <1>1, AddFails
  <1>5. Tactic(<<a>>, e) OBVIOUS
  <1>9. Follows(<<a>>, e) BY DEF Follows, Subgoals, Leaves, Terms, Splits
  <1> HIDE DEF a
  <1>6. <<a>> \in Seq(Sequent) /\ (HonestNode(e) => Reduces(<<a>>, Goal)) BY <1>2, <1>4, OneGoal
  <1>7. InScope(Goal, used) => \A i \in DOMAIN <<a>> : InScope(<<a>>[i], used) BY <1>2, <1>3, OneGoal
  <1>8. Step(<<a>>, e) BY <1>1, <1>5, <1>6, <1>7, <1>9 DEF Step
  <1> QED BY <1>8

(* goal_specialize_hyp.                                                    *)
LEMMA SpecializeHypStep ==
  ASSUME TypeOK, tacticSpecializeHyp
  PROVE  \E new, e : Step(new, e)
  <1>1. HasGoal /\ Goal.side = "hyp" /\ UNCHANGED used BY DEF tacticSpecializeHyp
  <1>2. Goal \in Sequent /\ Focus(Goal) \in Prop /\ Goal.pos \in Nat
    BY <1>1, GoalType, FocusIsProp, SequentFields
  <1>3. PICK inst \in Inst[Focus(Goal)] :
          /\ Known(inst)
          /\ Tactic(<<addHypothesis(inst, Goal)>>, [k |-> "specializeHyp", n |-> Goal.pos, inst |-> inst])
    BY DEF tacticSpecializeHyp
  <1> DEFINE e == [k |-> "specializeHyp", n |-> Goal.pos, inst |-> inst]
  <1>4. inst \in Prop /\ Truth[Focus(Goal)] \subseteq Truth[inst]
    BY <1>2, InstanceTruth DEF specializeProp
  <1>5. e \in Evidence /\ e.k = "specializeHyp" /\ e.inst = inst BY <1>2, <1>4 DEF Evidence
  <1>6. NodeFree(e) = Free[inst] BY <1>5 DEF NodeFree, Leaves, Terms, Splits
  <1>7. \A m \in Model : Fails(m, Goal) => m \in Truth[inst] BY <1>1, <1>2, <1>4, FocusOfFailure
  <1>8. Tactic(<<addHypothesis(inst, Goal)>>, e) BY <1>3
  <1>9. Free[inst] \subseteq used BY <1>3 DEF Known
  <1>10. e.n = Goal.pos /\ Goal.pos \in DOMAIN Goal.hs /\ inst \in specializeProp(Goal.hs[Goal.pos])
    BY <1>1, <1>2, FocusIsProp, SequentFields, GoalType DEF specializeProp
  <1> HIDE DEF e
  <1>11. Accepts(e, Goal) BY <1>5, <1>10 DEF Accepts, Leaves, Terms, Splits
  <1> QED BY <1>1, <1>4, <1>5, <1>6, <1>7, <1>8, <1>9, <1>11, HypothesisStep

(* goal_insert: sound if the theorem is true.                              *)
LEMMA InsertStep ==
  ASSUME TypeOK, tacticInsert
  PROVE  \E new, e : Step(new, e)
  <1>1. HasGoal /\ UNCHANGED used BY DEF tacticInsert
  <1>2. PICK n \in db : \E inst \in specializeProp(thms[n].prop) :
          /\ Known(inst)
          /\ Tactic(<<addHypothesis(inst, Goal)>>, [k |-> "insert", thm |-> n, inst |-> inst])
    BY DEF tacticInsert
  <1>3. PICK inst \in specializeProp(thms[n].prop) :
          /\ Known(inst)
          /\ Tactic(<<addHypothesis(inst, Goal)>>, [k |-> "insert", thm |-> n, inst |-> inst])
    BY <1>2
  <1> DEFINE e == [k |-> "insert", thm |-> n, inst |-> inst]
  <1>4. n \in Nonce /\ thms[n].prop \in Prop BY TheoremType DEF TypeOK
  <1>5. inst \in Prop /\ Truth[thms[n].prop] \subseteq Truth[inst] BY <1>4, InstanceTruth
  <1>6. e \in Evidence /\ e.k = "insert" /\ e.inst = inst /\ e.thm = n BY <1>4, <1>5 DEF Evidence
  <1>7. NodeFree(e) = Free[inst] BY <1>6 DEF NodeFree, Leaves, Terms, Splits
  <1>8. HonestNode(e) => \A m \in Model : m \in Truth[inst] BY <1>5, <1>6 DEF HonestNode, Holds
  <1>9. Tactic(<<addHypothesis(inst, Goal)>>, e) BY <1>3
  <1>10. Free[inst] \subseteq used BY <1>3 DEF Known
  <1> HIDE DEF e
  <1>11. Accepts(e, Goal) BY <1>3, <1>6 DEF Accepts, Leaves, Terms, Splits
  <1> QED BY <1>1, <1>5, <1>6, <1>7, <1>8, <1>9, <1>10, <1>11, HypothesisStep

(* goal_cut.                                                               *)
LEMMA CutStep ==
  ASSUME TypeOK, tacticCut
  PROVE  \E new, e : Step(new, e)
  <1>1. HasGoal /\ UNCHANGED used BY DEF tacticCut
  <1>2. PICK p \in CutProps :
          /\ Known(p)
          /\ Tactic(<<addHypothesis(p, Goal), addNewFocusedConcl(p, Goal)>>, [k |-> "cut", p |-> p])
    BY DEF tacticCut
  <1> DEFINE e == [k |-> "cut", p |-> p]
             a == addHypothesis(p, Goal)
             b == addNewFocusedConcl(p, Goal)
  <1>3. p \in Prop BY ShapeAssumption
  <1>4. Goal \in Sequent /\ used \subseteq VarName BY <1>1, GoalType
  <1>5. e \in Evidence /\ e.k = "cut" /\ e.p = p BY <1>3 DEF Evidence
  <1>6. NodeFree(e) = Free[p] BY <1>5 DEF NodeFree, Leaves, Terms, Splits
  <1>7. a \in Sequent /\ b \in Sequent BY <1>3, <1>4, AddFields
  <1>8. Free[p] \subseteq used BY <1>2 DEF Known
  <1>9. InScope(Goal, used) => InScope(a, used) /\ InScope(b, used)
    BY <1>3, <1>4, <1>8, ChangedScope
  <1>10. \A m : Fails(m, Goal) => Fails(m, a) \/ Fails(m, b) BY <1>3, <1>4, AddFails
  <1>11. Tactic(<<a, b>>, e) BY <1>2
  <1> HIDE DEF e
  <1>15. Follows(<<a, b>>, e) BY <1>5 DEF Follows, Accepts, Subgoals, Leaves, Terms, Splits
  <1> HIDE DEF a, b
  <1>12. <<a, b>> \in Seq(Sequent) /\ Reduces(<<a, b>>, Goal) BY <1>7, <1>10, TwoGoals
  <1>13. InScope(Goal, used) => \A i \in DOMAIN <<a, b>> : InScope(<<a, b>>[i], used)
    BY <1>7, <1>9, TwoGoals
  <1>14. Step(<<a, b>>, e) BY <1>1, <1>4, <1>5, <1>6, <1>8, <1>11, <1>12, <1>13, <1>15 DEF Step
  <1> QED BY <1>14

(* goal_exact and trivial: what a proof term proves is true, or the term is *)
(* loose.                                                                  *)
LEMMA ExactStep ==
  ASSUME TypeOK, tacticExact
  PROVE  \E new, e : Step(new, e)
  <1>0. PICK kind \in Terms : HasProofTerm(kind, Focus(Goal)) /\ Tactic(<<>>, [k |-> kind, p |-> Focus(Goal)])
    BY DEF tacticExact
  <1> DEFINE e == [k |-> kind, p |-> Focus(Goal)]
  <1>1. /\ HasGoal /\ Goal.side = "concl" /\ Tactic(<<>>, e) /\ UNCHANGED used
        /\ kind = "term" => Holds(Focus(Goal))
    BY <1>0 DEF tacticExact, OnConclusion, HasProofTerm
  <1>2. Goal \in Sequent /\ used \subseteq VarName BY <1>1, GoalType
  <1>3. Focus(Goal) \in Prop BY <1>1, <1>2, FocusIsProp
  <1>4. e \in Evidence /\ e.k \in {"term", "loose"} /\ e.k = kind /\ e.p = Focus(Goal)
    BY <1>3 DEF Evidence, Terms
  <1>5. NodeFree(e) = Free[Focus(Goal)] BY <1>4 DEF NodeFree, Leaves, Terms, Splits
  <1>6. InScope(Goal, used) => Free[Focus(Goal)] \subseteq used BY <1>1, <1>2, FocusOfFailure
  <1>7. Holds(Focus(Goal)) => \A m \in Model : ~ Fails(m, Goal) BY <1>1, <1>2, FocusOfFailure DEF Holds
  <1>11. HonestNode(e) => Holds(Focus(Goal)) BY <1>1, <1>4 DEF HonestNode
  <1>8. HonestNode(e) => Reduces(<<>>, Goal) BY <1>7, <1>11 DEF Reduces
  <1> HIDE DEF e
  <1>10. Follows(<<>>, e) BY <1>1, <1>4 DEF Follows, Accepts, Subgoals, Leaves, Terms, Splits, Onward
  <1>9. Step(<<>>, e) BY <1>1, <1>2, <1>4, <1>5, <1>6, <1>8, <1>10 DEF Step
  <1> QED BY <1>9

(* Tactics that finish a goal: sound if it is valid, which admissions,     *)
(* tests and files do not show and provers do.                             *)
LEMMA LeafStep ==
  ASSUME TypeOK, HasGoal, NEW k \in Leaves, Leaf(k), k = "solver" => Valid(Goal)
  PROVE  \E new, e : Step(new, e)
  <1> DEFINE e == [k |-> k, s |-> Goal]
  <1>1. Goal \in Sequent /\ used \subseteq VarName BY GoalType
  <1>2. e \in Evidence /\ e.k = k /\ e.s = Goal BY <1>1 DEF Evidence
  <1>3. e.k \in Leaves BY <1>2
  <1>4. NodeFree(e) = Mentions(Goal) BY <1>2, <1>3 DEF NodeFree, Leaves, Terms, Splits
  <1>5. InScope(Goal, used) => NodeFree(e) \subseteq used BY <1>4, MentionsScope
  <1>6. HonestNode(e) => Valid(Goal) BY <1>2 DEF HonestNode, Leaves, Terms, Splits
  <1>7. Tactic(<<>>, e) /\ UNCHANGED used BY DEF Leaf
  <1> HIDE DEF e
  <1>8. HonestNode(e) => Reduces(<<>>, Goal) BY <1>6, NoGoal
  <1>10. Follows(<<>>, e) BY <1>2, <1>3 DEF Follows, Accepts, Subgoals, Leaves, Terms, Splits, sequentSubsumes
  <1>9. Step(<<>>, e) BY <1>1, <1>2, <1>3, <1>5, <1>7, <1>8, <1>10 DEF Step, Leaves, Terms, Splits
  <1> QED BY <1>9

(* Removing a hypothesis or a conclusion keeps scopes, and counterexamples.*)
LEMMA FilterGoal ==
  ASSUME NEW s \in Sequent
  PROVE  /\ \A i \in DOMAIN s.hs : /\ \A m : Fails(m, s) => Fails(m, filterHyps(s, i))
                                   /\ \A U : InScope(s, U) => InScope(filterHyps(s, i), U)
         /\ \A i \in DOMAIN s.gs : /\ \A m : Fails(m, s) => Fails(m, filterConcls(s, i))
                                   /\ \A U : InScope(s, U) => InScope(filterConcls(s, i), U)
  <1>1. s.hs \in Seq(Prop) /\ s.gs \in Seq(Prop) BY SequentFields
  <1>2. ASSUME NEW i \in DOMAIN s.hs
        PROVE  /\ \A m : Fails(m, s) => Fails(m, filterHyps(s, i))
               /\ \A U : InScope(s, U) => InScope(filterHyps(s, i), U)
    <2> DEFINE r == filterHyps(s, i)
    <2>1. r.hs = Without(s.hs, i) /\ r.gs = s.gs BY FilterFields
    <2>2. \A k \in DOMAIN r.hs : \E j \in DOMAIN s.hs : r.hs[k] = s.hs[j] BY <1>1, <2>1, WithoutFields
    <2> HIDE DEF r
    <2>3. \A m : Fails(m, s) => Fails(m, r) BY <2>1, <2>2 DEF Fails
    <2>4. \A U : InScope(s, U) => InScope(r, U) BY <2>1, <2>2 DEF InScope
    <2> QED BY <2>3, <2>4 DEF r
  <1>3. ASSUME NEW i \in DOMAIN s.gs
        PROVE  /\ \A m : Fails(m, s) => Fails(m, filterConcls(s, i))
               /\ \A U : InScope(s, U) => InScope(filterConcls(s, i), U)
    <2> DEFINE r == filterConcls(s, i)
    <2>1. r.gs = Without(s.gs, i) /\ r.hs = s.hs BY FilterFields
    <2>2. \A k \in DOMAIN r.gs : \E j \in DOMAIN s.gs : r.gs[k] = s.gs[j] BY <1>1, <2>1, WithoutFields
    <2> HIDE DEF r
    <2>3. \A m : Fails(m, s) => Fails(m, r) BY <2>1, <2>2 DEF Fails
    <2>4. \A U : InScope(s, U) => InScope(r, U) BY <2>1, <2>2 DEF InScope
    <2> QED BY <2>3, <2>4 DEF r
  <1> QED BY <1>2, <1>3

(* unfocus, focus_concl, focus_hyp, delete_hyps and delete_concl.          *)
LEMMA StructuralStep ==
  ASSUME TypeOK, unfocus \/ focus_concl \/ focus_hyp \/ delete_hyps \/ delete_concl
  PROVE  \E new, e : Step(new, e)
  <1>1. HasGoal BY DEF unfocus, focus_concl, focus_hyp, delete_hyps, delete_concl
  <1>2. Goal \in Sequent BY <1>1, GoalType
  <1>3. Goal.hs \in Seq(Prop) /\ Goal.gs \in Seq(Prop) BY <1>2, SequentFields
  <1>4. ASSUME NEW new \in Sequent, Structural(new),
               \A U : InScope(Goal, U) => InScope(new, U), \A m : Fails(m, Goal) => Fails(m, new),
               job.prop \notin Weakens => sequentSubsumes(new, Goal)
        PROVE  \E seq, e : Step(seq, e)
    <2>1. Tactic(<<new>>, [k |-> "structural", s |-> new]) /\ UNCHANGED used BY <1>4 DEF Structural
    <2> QED BY <1>1, <1>4, <2>1, SequentStep
  <1>5. ASSUME NEW new \in Sequent, Structural(new), new.hs = Goal.hs, new.gs = Goal.gs
        PROVE  \E seq, e : Step(seq, e)
    <2>1. \A U : InScope(Goal, U) => InScope(new, U) BY <1>5 DEF InScope
    <2>2. \A m : Fails(m, Goal) => Fails(m, new) BY <1>5 DEF Fails
    <2>3. sequentSubsumes(new, Goal) BY <1>5 DEF sequentSubsumes
    <2> QED BY <1>4, <1>5, <2>1, <2>2, <2>3
  <1>6. CASE unfocus
    <2> DEFINE new == Unfocused(Goal.hs, Goal.gs)
    <2>1. Structural(new) BY <1>6 DEF unfocus
    <2>2. new \in Sequent /\ new.hs = Goal.hs /\ new.gs = Goal.gs BY <1>3, SequentOf DEF Unfocused
    <2> HIDE DEF new
    <2> QED BY <1>5, <2>1, <2>2
  <1>7. CASE focus_concl
    <2>1. PICK i \in DOMAIN Goal.gs : Structural(OnConcl(Goal.hs, Goal.gs, i)) BY <1>7 DEF focus_concl
    <2> DEFINE new == OnConcl(Goal.hs, Goal.gs, i)
    <2>2. new \in Sequent /\ new.hs = Goal.hs /\ new.gs = Goal.gs BY <1>3, SequentOf DEF OnConcl
    <2>3. Structural(new) BY <2>1
    <2> HIDE DEF new
    <2> QED BY <1>5, <2>2, <2>3
  <1>8. CASE focus_hyp
    <2>1. PICK i \in DOMAIN Goal.hs : Structural(OnHyp(Goal.hs, Goal.gs, i)) BY <1>8 DEF focus_hyp
    <2> DEFINE new == OnHyp(Goal.hs, Goal.gs, i)
    <2>2. new \in Sequent /\ new.hs = Goal.hs /\ new.gs = Goal.gs BY <1>3, SequentOf DEF OnHyp
    <2>3. Structural(new) BY <2>1
    <2> HIDE DEF new
    <2> QED BY <1>5, <2>2, <2>3
  <1>9. CASE delete_hyps
    <2>1. PICK i \in DOMAIN Goal.hs : Structural(filterHyps(Goal, i)) BY <1>9 DEF delete_hyps
    <2>2. sequentSubsumes(filterHyps(Goal, i), Goal)
      <3>1. filterHyps(Goal, i).hs = Without(Goal.hs, i) /\ filterHyps(Goal, i).gs = Goal.gs BY <1>2, FilterFields
      <3>2. Elems(Without(Goal.hs, i)) \subseteq Elems(Goal.hs) BY <1>3, WithoutFields DEF Elems
      <3> QED BY <3>1, <3>2 DEF sequentSubsumes
    <2> QED BY <1>2, <1>4, <2>1, <2>2, FilterFields, FilterGoal
  <1>10. CASE delete_concl
    <2>1. PICK i \in DOMAIN Goal.gs : Structural(filterConcls(Goal, i)) BY <1>10 DEF delete_concl
    <2>2. job.prop \in Weakens BY <1>10 DEF delete_concl
    <2> QED BY <1>2, <1>4, <2>1, <2>2, FilterFields, FilterGoal
  <1> QED BY <1>6, <1>7, <1>8, <1>9, <1>10

(* normalize_sequent.                                                      *)
LEMMA NormalizeStep ==
  ASSUME TypeOK, normalize_sequent
  PROVE  \E new, e : Step(new, e)
  <1> DEFINE form == normalizeSequent(Goal)
             new == Unfocused(Listing(form.hs), Listing(form.gs))
  <1>1. HasGoal /\ Tactic(<<new>>, [k |-> "normalize", s |-> new]) /\ UNCHANGED used
    BY DEF normalize_sequent
  <1>2. Goal \in Sequent BY <1>1, GoalType
  <1>3. new \in Sequent /\ (\A U : InScope(Goal, U) => InScope(new, U)) /\ Reduces(<<new>>, Goal)
    BY <1>2, NormalGoal
  <1> DEFINE e == [k |-> "normalize", s |-> new]
  <1> HIDE DEF new
  <1>11. normalizeSequentSubsumes(new, Goal) BY <1>2, NormalSubsumes DEF new
  <1>4. e \in Evidence /\ e.k = "normalize" /\ e.s = new BY <1>3 DEF Evidence
  <1>5. NodeFree(e) = Mentions(new) BY <1>4 DEF NodeFree, Leaves, Terms, Splits
  <1>6. InScope(Goal, used) => NodeFree(e) \subseteq used BY <1>3, <1>5, MentionsScope
  <1>7. Tactic(<<new>>, e) BY <1>1
  <1> HIDE DEF e
  <1>8. <<new>> \in Seq(Sequent) /\ (InScope(Goal, used) => \A i \in DOMAIN <<new>> : InScope(<<new>>[i], used))
    BY <1>3, OneGoal
  <1>9. used \subseteq VarName BY <1>1, GoalType
  <1>12. Follows(<<new>>, e) BY <1>4, <1>11 DEF Follows, Accepts, Subgoals, Leaves, Terms, Splits
  <1>10. Step(<<new>>, e) BY <1>1, <1>3, <1>4, <1>6, <1>7, <1>8, <1>9, <1>12 DEF Step
  <1> QED BY <1>10

(* Rewriting with a theorem: sound if it is true.                          *)
LEMMA SimplifyStep ==
  ASSUME TypeOK, simplifyGoal
  PROVE  \E new, e : Step(new, e)
  <1>1. HasGoal /\ UNCHANGED used BY DEF simplifyGoal
  <1>2. PICK n \in db :
          /\ thms[n].prop \in DOMAIN Eqn
          /\ Known(Eqn[thms[n].prop].r)
          /\ Tactic(<<simplifySequent(thms[n].prop, Goal)>>, [k |-> "rewrite", thm |-> n, rule |-> thms[n].prop])
    BY DEF simplifyGoal
  <1> DEFINE q == thms[n].prop
             a == simplifySequent(q, Goal)
             e == [k |-> "rewrite", thm |-> n, rule |-> q]
  <1>3. Goal \in Sequent /\ used \subseteq VarName BY <1>1, GoalType
  <1>4. n \in Nonce /\ q \in Prop BY TheoremType DEF TypeOK
  <1>5. e \in Evidence /\ e.k = "rewrite" /\ e.thm = n /\ e.rule = q BY <1>2, <1>4 DEF Evidence
  <1>6. NodeFree(e) = Free[Eqn[q].r] BY <1>5 DEF NodeFree, Leaves, Terms, Splits
  <1>7. Free[Eqn[q].r] \subseteq used BY <1>2 DEF Known
  <1>8. a \in Sequent /\ (InScope(Goal, used) => InScope(a, used)) BY <1>2, <1>3, <1>7, RewriteGoal
  <1>9. HonestNode(e) => Reduces(<<a>>, Goal)
    <2>1. HonestNode(e) => Holds(q)
      <3>1. e.k \in {"apply", "insert", "rewrite"} /\ thms[e.thm].prop = q BY <1>5
      <3> HIDE DEF e, q
      <3> QED BY <3>1 DEF HonestNode
    <2>2. Holds(q) => Reduces(<<a>>, Goal) BY <1>2, <1>3, RewriteGoal
    <2> QED BY <2>1, <2>2
  <1>10. Tactic(<<a>>, e) BY <1>2
  <1> HIDE DEF e
  <1>13. Follows(<<a>>, e) BY <1>5 DEF Follows, Accepts, Subgoals, Leaves, Terms, Splits
  <1> HIDE DEF a
  <1>11. <<a>> \in Seq(Sequent) /\ (InScope(Goal, used) => \A i \in DOMAIN <<a>> : InScope(<<a>>[i], used))
    BY <1>8, OneGoal
  <1>12. Step(<<a>>, e) BY <1>1, <1>3, <1>5, <1>6, <1>7, <1>9, <1>10, <1>11, <1>13 DEF Step
  <1> QED BY <1>12

(* Every tactic makes such a step.                                         *)
LEMMA TacticStep ==
  ASSUME TypeOK, AnyTactic
  PROVE  \E new, e : Step(new, e)
  <1>1. ASSUME tacticSolve \/ admitProof \/ quickcheckGoal PROVE \E new, e : Step(new, e)
    BY <1>1, LeafStep DEF tacticSolve, admitProof, quickcheckGoal, Leaves, Terms, Splits
  <1>2. ASSUME tacticSplit \/ goal_eval PROVE \E new, e : Step(new, e) BY <1>2, SplitStep
  <1>3. ASSUME unfocus \/ focus_concl \/ focus_hyp \/ delete_hyps \/ delete_concl
        PROVE  \E new, e : Step(new, e)
    BY <1>3, StructuralStep
  <1> QED BY <1>1, <1>2, <1>3, IntroStep, IntroHypsStep, RevertHypStep, ApplyHypStep, ApplyStep,
             SpecializeHypStep, InsertStep, CutStep, ExactStep, NormalizeStep, SimplifyStep
          DEF AnyTactic

-----------------------------------------------------------------------------
(* Types.                                                                  *)

(* The evidence after a tactic: all but the last of it was there before,   *)
(* and nothing is lost but a structural step.                              *)
LEMMA GrownElements ==
  ASSUME NEW ev \in Seq(Evidence), NEW e \in Evidence
  PROVE  LET ev2 == Grown(ev, e) IN
         /\ ev2 \in Seq(Evidence) /\ Len(ev2) \in 1..Len(ev) + 1 /\ ev2[Len(ev2)] = e
         /\ \A i \in 1..Len(ev2) - 1 : i \in DOMAIN ev /\ ev2[i] = ev[i]
         /\ \A i \in DOMAIN ev : ev[i].k = "structural" \/ (i \in 1..Len(ev2) - 1 /\ ev2[i] = ev[i])
  <1> DEFINE both == e.k = "structural" /\ ev # <<>> /\ ev[Len(ev)].k = "structural"
  <1>0. Len(ev) \in Nat /\ DOMAIN ev = 1..Len(ev) BY LenProperties
  <1>1. CASE both
    <2> DEFINE ev2 == [ev EXCEPT ![Len(ev)] = e]
    <2>1. Grown(ev, e) = ev2 BY <1>1 DEF Grown
    <2>2. PICK n \in Nat : n = Len(ev) BY <1>0
    <2>3. n \in 1..Len(ev) /\ DOMAIN ev = 1..n /\ ev[n].k = "structural" BY <1>0, <1>1, <2>2
    <2>4. /\ ev2 \in Seq(Evidence) /\ Len(ev2) = n
          /\ \A i \in 1..n : ev2[i] = IF i = n THEN e ELSE ev[i]
      BY <2>2, <2>3, ExceptSeq
    <2> HIDE DEF ev2, both
    <2>5. n \in 1..n + 1 /\ ev2[n] = e BY <2>3, <2>4
    <2>6. \A i \in 1..n - 1 : i \in DOMAIN ev /\ ev2[i] = ev[i] BY <2>3, <2>4
    <2>7. \A i \in DOMAIN ev : ev[i].k = "structural" \/ (i \in 1..n - 1 /\ ev2[i] = ev[i])
      BY <2>3, <2>4
    <2>8. n + 1 = Len(ev) + 1 BY <2>2
    <2> QED BY <2>1, <2>4, <2>5, <2>6, <2>7, <2>8
  <1>2. CASE ~ both
    <2> DEFINE ev2 == Append(ev, e)
    <2>1. Grown(ev, e) = ev2 BY <1>2 DEF Grown
    <2>2. /\ ev2 \in Seq(Evidence) /\ Len(ev2) = Len(ev) + 1 /\ ev2[Len(ev) + 1] = e
          /\ \A i \in 1..Len(ev) : ev2[i] = ev[i]
      BY AppendProperties
    <2> HIDE DEF ev2
    <2> QED BY <1>0, <2>1, <2>2
  <1> QED BY <1>1, <1>2

(* The goals after a tactic: its own, then those that were left.           *)
LEMMA NewGoals ==
  ASSUME TypeOK, NEW new, NEW e, Step(new, e)
  PROVE  LET goals == new \o Tail(proof.goals) IN
         /\ proof' = [goals |-> goals, concl |-> proof.concl, ev |-> Grown(proof.ev, e)]
         /\ goals \in Seq(Sequent)
         /\ \A i \in DOMAIN goals : \/ \E j \in DOMAIN new : goals[i] = new[j]
                                    \/ \E j \in DOMAIN proof.goals : goals[i] = proof.goals[j]
         /\ \A j \in DOMAIN new : \E i \in DOMAIN goals : goals[i] = new[j]
         /\ \A j \in DOMAIN proof.goals : j = 1 \/ \E i \in DOMAIN goals : goals[i] = proof.goals[j]
  <1> DEFINE old == proof.goals
             rest == Tail(old)
             goals == new \o rest
  <1>1. proof \in ProofState /\ old \in Seq(Sequent) /\ old # <<>> /\ new \in Seq(Sequent)
    BY DEF TypeOK, ProofState, Step, HasGoal
  <1>2. proof' = [goals |-> goals, concl |-> proof.concl, ev |-> Grown(proof.ev, e)]
    BY <1>1 DEF Step, Tactic, ProofState
  <1>3. /\ rest \in Seq(Sequent) /\ Len(rest) = Len(old) - 1 /\ Len(old) \in Nat /\ Len(old) > 0
        /\ \A i \in 1..Len(rest) : rest[i] = old[i + 1]
    BY <1>1, HeadTailProperties, EmptySeq, LenProperties
  <1> HIDE DEF old, rest
  <1>4. /\ goals \in Seq(Sequent) /\ Len(goals) = Len(new) + Len(rest) /\ Len(new) \in Nat
        /\ \A i \in 1..Len(new) + Len(rest) : goals[i] = IF i <= Len(new) THEN new[i] ELSE rest[i - Len(new)]
    BY <1>1, <1>3, ConcatProperties, LenProperties
  <1> HIDE DEF goals
  <1>5. DOMAIN goals = 1..Len(goals) /\ DOMAIN new = 1..Len(new) /\ DOMAIN old = 1..Len(old)
    BY <1>1, <1>4, LenProperties
  <1>6. ASSUME NEW i \in DOMAIN goals
        PROVE  (\E j \in DOMAIN new : goals[i] = new[j]) \/ (\E j \in DOMAIN old : goals[i] = old[j])
    <2>1. CASE i <= Len(new) BY <1>4, <1>5, <2>1
    <2>2. CASE i > Len(new)
      <3>1. i - Len(new) \in 1..Len(rest) /\ i - Len(new) + 1 \in 1..Len(old) BY <1>3, <1>4, <1>5, <2>2
      <3>2. goals[i] = rest[i - Len(new)]
        <4>1. i \in 1..Len(new) + Len(rest) /\ ~ (i <= Len(new)) BY <1>3, <1>4, <1>5, <2>2
        <4> QED BY <1>4, <4>1
      <3>3. rest[i - Len(new)] = old[i - Len(new) + 1] BY <1>3, <3>1
      <3> QED BY <1>5, <3>1, <3>2, <3>3
    <2> QED BY <1>4, <1>5, <2>1, <2>2
  <1>7. ASSUME NEW j \in DOMAIN new PROVE \E i \in DOMAIN goals : goals[i] = new[j]
    BY <1>3, <1>4, <1>5
  <1>8. ASSUME NEW j \in DOMAIN old, j # 1 PROVE \E i \in DOMAIN goals : goals[i] = old[j]
    <2>1. j - 1 \in 1..Len(rest) /\ j - 1 + Len(new) \in 1..Len(goals) /\ ~ (j - 1 + Len(new) <= Len(new))
      BY <1>3, <1>4, <1>5, <1>8
    <2>2. goals[j - 1 + Len(new)] = rest[j - 1] BY <1>4, <2>1
    <2>3. rest[j - 1] = old[j] BY <1>3, <1>5, <1>8, <2>1
    <2> QED BY <1>5, <2>1, <2>2, <2>3
  <1> QED BY <1>2, <1>4, <1>6, <1>7, <1>8 DEF goals, rest, old

(* A theorem is added to the others, and perhaps to the database.          *)
LEMMA TheoremAdded ==
  ASSUME TypeOK, NEW p \in Prop, NEW deps \in SUBSET Nonce, NEW sum \in Summary,
         NEW unsaid \in SUBSET Unsaid, NEW record, NewTheorem(p, deps, sum, unsaid, record)
  PROVE  LET n == Len(thms) + 1 IN
         /\ thms' \in Seq(Theorem) /\ Len(thms') = n /\ Len(thms') <= MaxTheorems
         /\ DOMAIN thms' = DOMAIN thms \cup {n} /\ n \notin DOMAIN thms
         /\ \A k \in DOMAIN thms : thms'[k] = thms[k]
         /\ thms'[n] = [prop |-> p, deps |-> deps, sum |-> sum, unsaid |-> unsaid]
         /\ db \subseteq db' /\ db' \subseteq DOMAIN thms'
  <1> DEFINE thm == [prop |-> p, deps |-> deps, sum |-> sum, unsaid |-> unsaid]
  <1>1. thms \in Seq(Theorem) /\ MaxTheorems \in Nat /\ Len(thms) \in Nat /\ DOMAIN thms = 1..Len(thms)
    BY ShapeAssumption, LenProperties DEF TypeOK
  <1>2. thm \in Theorem BY DEF Theorem
  <1>3. thms' = Append(thms, thm) /\ Len(thms) < MaxTheorems
    BY DEF NewTheorem
  <1>4. db' = IF record THEN db \cup {Len(thms) + 1} ELSE db BY DEF NewTheorem
  <1>5. db \subseteq DOMAIN thms BY DEF TypeOK
  <1> HIDE DEF thm
  <1>6. /\ thms' \in Seq(Theorem) /\ Len(thms') = Len(thms) + 1
        /\ \A k \in 1..Len(thms) : thms'[k] = thms[k]
        /\ thms'[Len(thms) + 1] = thm
    BY <1>1, <1>2, <1>3, AppendProperties
  <1>7. DOMAIN thms' = 1..Len(thms) + 1 BY <1>6, LenProperties
  <1>8. DOMAIN thms' = DOMAIN thms \cup {Len(thms) + 1} /\ Len(thms) + 1 \notin DOMAIN thms
    BY <1>1, <1>7
  <1>9. Len(thms) + 1 <= MaxTheorems BY <1>1, <1>3
  <1> QED BY <1>1, <1>4, <1>5, <1>6, <1>8, <1>9 DEF thm

(* The theorems that are made without a script.                            *)
Outright(p, deps, sum, unsaid) ==
  /\ NewTheorem(p, deps, sum, unsaid, TRUE)
  /\ p \in Prop /\ deps \subseteq db /\ sum \in Summary /\ unsaid \subseteq Unsaid
  /\ sum = "proved" /\ unsaid = {} /\ (\A n \in deps : Holds(thms[n].prop)) => Holds(p)
  /\ phase = "idle"
  /\ UNCHANGED <<used, phase, job, proof, saved, check>>

OutrightStep ==
  \/ \E p \in CoreProps : core_axiom(p) \/ core_thm(p)
  \/ \E n \in db, inst \in Prop : specialize_theorem(n, inst)

(* Each of them is such a step.                                            *)
LEMMA OutrightTheorem ==
  ASSUME TypeOK, OutrightStep
  PROVE  \E p, deps, sum, unsaid : Outright(p, deps, sum, unsaid)
  <1>1. ASSUME NEW p \in CoreProps, core_axiom(p) PROVE Outright(p, {}, "admitted", {})
    <2>1. p \in Prop BY ShapeAssumption
    <2> QED BY <1>1, <2>1 DEF core_axiom, Outright, Summary
  <1>2. ASSUME NEW p \in CoreProps, core_thm(p) PROVE \E unsaid : Outright(p, {}, "proved", unsaid)
    <2>1. p \in Prop BY ShapeAssumption
    <2>2. PICK kind \in Terms : HasProofTerm(kind, p) /\ NewTheorem(p, {}, "proved", {kind} \cap Unsaid, TRUE)
      BY <1>2 DEF core_thm
    <2>3. {kind} \cap Unsaid = {} => Holds(p) BY <2>2 DEF Terms, Unsaid, HasProofTerm
    <2>4. Outright(p, {}, "proved", {kind} \cap Unsaid) BY <1>2, <2>1, <2>2, <2>3 DEF core_thm, Outright, Summary
    <2> QED BY <2>4
  <1>3. ASSUME NEW n \in db, NEW inst \in Prop, specialize_theorem(n, inst)
        PROVE  Outright(inst, {n}, "proved", {})
    <2>1. thms[n].prop \in Prop BY TheoremType DEF TypeOK
    <2>2. Truth[thms[n].prop] \subseteq Truth[inst] /\ Truth[inst] \subseteq Model
      BY <1>3, <2>1, ShapeAssumption, LogicAssumption DEF specialize_theorem
    <2>3. Holds(thms[n].prop) => Holds(inst) BY <2>2 DEF Holds
    <2> QED BY <1>3, <2>3 DEF specialize_theorem, Outright, Summary
  <1> QED BY <1>1, <1>2, <1>3 DEF OutrightStep

(* The sequents that the children of a node must be evidence for.          *)
LEMMA SubgoalTypes ==
  ASSUME NEW e \in Evidence, NEW s \in Sequent, Accepts(e, s)
  PROVE  Subgoals(e, s) \in Seq(Sequent)
  <1>1. CASE e.k \in Leaves \cup Terms BY <1>1 DEF Subgoals, Leaves, Terms, Splits
  <1>2. CASE e.k \in {"structural", "normalize"}
    <2>1. e.s \in Sequent BY <1>2 DEF Evidence, Leaves, Terms, Splits
    <2>2. Subgoals(e, s) = <<e.s>> BY <1>2 DEF Subgoals, Leaves, Terms, Splits
    <2> QED BY <2>1, <2>2
  <1>3. CASE e.k \in Splits
    <2>1. Subgoals(e, s) = splitSequent(s) BY <1>3 DEF Subgoals, Leaves, Terms, Splits
    <2> QED BY <2>1, SplitGoals
  <1>4. CASE e.k \in {"apply", "applyHyp"}
    <2>1. e.inst \in Prop /\ e.sub \in BOOLEAN BY <1>4 DEF Evidence, Leaves, Terms, Splits
    <2>2. Subgoals(e, s) = Premises(s, e.inst, e.sub) BY <1>4 DEF Subgoals, Leaves, Terms, Splits
    <2>3. s.side = "concl" /\ (e.sub => e.inst \in DOMAIN Impl)
      BY <1>4, ShapeAssumption DEF Accepts, Applies, Leaves, Terms, Splits, Onward
    <2>4. CASE e.sub
      <3>1. Refocus(s, Impl[e.inst].l) \in Sequent BY <2>3, <2>4, ImplParts, RefocusFields
      <3> QED BY <2>2, <2>4, <3>1 DEF Premises
    <2> QED BY <2>1, <2>2, <2>4 DEF Premises
  <1>5. CASE e.k = "intro"
    <2>1. e.x \in VarName BY <1>5 DEF Evidence, Leaves, Terms, Splits
    <2>2. Subgoals(e, s) = <<Refocus(s, Pi[Focus(s)][e.x])>> BY <1>5 DEF Subgoals, Leaves, Terms, Splits
    <2>3. s.side = "concl" /\ Focus(s) \in DOMAIN Pi BY <1>5 DEF Accepts, Leaves, Terms, Splits, Onward
    <2>4. Pi[Focus(s)][e.x] \in Prop BY <2>1, <2>3, ShapeAssumption
    <2>5. Refocus(s, Pi[Focus(s)][e.x]) \in Sequent BY <2>3, <2>4, RefocusFields
    <2> QED BY <2>2, <2>5
  <1>6. CASE e.k = "cut"
    <2>1. e.p \in Prop BY <1>6 DEF Evidence, Leaves, Terms, Splits
    <2>2. Subgoals(e, s) = <<addHypothesis(e.p, s), addNewFocusedConcl(e.p, s)>>
      BY <1>6 DEF Subgoals, Leaves, Terms, Splits
    <2>3. addHypothesis(e.p, s) \in Sequent /\ addNewFocusedConcl(e.p, s) \in Sequent
      BY <2>1, AddFields
    <2> QED BY <2>2, <2>3, TwoGoals
  <1>7. CASE e.k \in {"insert", "specializeHyp"}
    <2>1. e.inst \in Prop BY <1>7 DEF Evidence, Leaves, Terms, Splits
    <2>2. Subgoals(e, s) = <<addHypothesis(e.inst, s)>> BY <1>7 DEF Subgoals, Leaves, Terms, Splits
    <2>3. addHypothesis(e.inst, s) \in Sequent BY <2>1, AddFields
    <2> QED BY <2>2, <2>3, OneGoal
  <1>8. CASE e.k = "eval"
    <2>1. Subgoals(e, s) = <<evalSequent(s)>> BY <1>8 DEF Subgoals, Leaves, Terms, Splits
    <2> QED BY <2>1, EvalGoal, OneGoal
  <1>9. CASE e.k = "rewrite"
    <2>1. e.rule \in DOMAIN Eqn BY <1>9 DEF Evidence, Leaves, Terms, Splits
    <2>2. Subgoals(e, s) = <<simplifySequent(e.rule, s)>> BY <1>9 DEF Subgoals, Leaves, Terms, Splits
    <2> QED BY <2>1, <2>2, RewriteGoal, OneGoal
  <1>10. e.k \in Leaves \cup Terms \cup Splits
                  \cup {"structural", "normalize", "apply", "applyHyp", "intro",
                        "cut", "insert", "specializeHyp", "eval", "rewrite"}
    BY DEF Evidence
  <1> QED BY <1>1, <1>2, <1>3, <1>4, <1>5, <1>6, <1>7, <1>8, <1>9, <1>10

(* What a node adds to a theorem's dependencies and to its summary.        *)
LEMMA NodeSummary ==
  ASSUME NEW e \in Evidence, NEW sum \in Summary
  PROVE  /\ DependsOn(e) = IF e.k \in {"apply", "insert", "rewrite"} THEN {e.thm} ELSE {}
         /\ DependsOn(e) \subseteq Nonce
         /\ Worst(sum, SummaryOf(e)) \in Summary
         /\ sum # "proved" => Worst(sum, SummaryOf(e)) # "proved"
         /\ e.k \in {"admitted", "tested"} => Worst(sum, SummaryOf(e)) # "proved"
  <1>1. e.k \in {"apply", "insert", "rewrite"} => e.thm \in Nonce BY DEF Evidence, Leaves, Terms, Splits
  <1>2. SummaryOf(e) \in Summary /\ (e.k \in {"admitted", "tested"} => SummaryOf(e) # "proved")
    BY DEF SummaryOf, Summary
  <1>3. \A t \in Summary : /\ Worst(sum, t) \in Summary
                           /\ sum # "proved" \/ t # "proved" => Worst(sum, t) # "proved"
    BY DEF Worst, Summary
  <1> QED BY <1>1, <1>2, <1>3 DEF DependsOn

(* A script begins with its conclusion, or with a proof state that is held.*)
LEMMA Started ==
  ASSUME TypeOK, NEW p \in Conclusions, NEW sequent \in BOOLEAN, NEW record \in BOOLEAN,
         StartProof(p, sequent, record)
  PROVE  /\ p \in Prop /\ job' \in Job /\ job'.prop = p /\ job'.concl \in Sequent
         /\ InScope(job'.concl, used)
         /\ Valid(job'.concl) => Holds(p)
         /\ \/ proof' = [goals |-> <<job'.concl>>, concl |-> job'.concl, ev |-> <<>>]
            \/ p \in Foreign /\ proof' \in saved
         /\ proof' \in ProofState
  <1> DEFINE concl == IF sequent THEN OnConcl(<<Impl[p].l>>, <<Impl[p].r>>, 1) ELSE propToSequent(p)
             own == [goals |-> <<concl>>, concl |-> concl, ev |-> <<>>]
  <1>1. p \in Prop BY ShapeAssumption
  <1>2. /\ job' = [prop |-> p, concl |-> concl, record |-> record, sequent |-> sequent]
        /\ proof' \in {own} \cup (IF p \in Foreign THEN saved ELSE {})
        /\ Free[p] \subseteq used
        /\ sequent => p \in DOMAIN Impl
    BY DEF StartProof
  <1>3. ASSUME sequent PROVE concl \in Sequent /\ InScope(concl, used) /\ (Valid(concl) => Holds(p))
    <2> DEFINE hs == <<Impl[p].l>>
               gs == <<Impl[p].r>>
    <2>1. Impl[p].l \in Prop /\ Impl[p].r \in Prop BY <1>2, <1>3, ImplParts
    <2>2. /\ hs \in Seq(Prop) /\ gs \in Seq(Prop) /\ DOMAIN hs = {1} /\ DOMAIN gs = {1}
          /\ hs[1] = Impl[p].l /\ gs[1] = Impl[p].r
      BY <2>1
    <2>3. concl = OnConcl(hs, gs, 1) BY <1>3
    <2> HIDE DEF hs, gs, concl
    <2>4. concl \in Sequent /\ concl.hs = hs /\ concl.gs = gs BY <2>2, <2>3, SequentOf DEF OnConcl
    <2>5. InScope(concl, used) BY <1>2, <1>3, <2>2, <2>4, ImplParts DEF InScope
    <2>6. ASSUME Valid(concl) PROVE Holds(p)
      <3>1. \A m \in Model : m \in Truth[p] BY <1>2, <1>3, <2>2, <2>4, <2>6, ImplParts DEF Valid
      <3> QED BY <1>1, <3>1, ShapeAssumption DEF Holds
    <2> QED BY <2>4, <2>5, <2>6
  <1>4. ASSUME ~ sequent PROVE concl \in Sequent /\ InScope(concl, used) /\ (Valid(concl) => Holds(p))
    <2> DEFINE gs == <<p>>
    <2>1. <<>> \in Seq(Prop) /\ gs \in Seq(Prop) /\ DOMAIN gs = {1} /\ gs[1] = p BY <1>1
    <2>2. concl = OnConcl(<<>>, gs, 1) BY <1>4 DEF propToSequent
    <2> HIDE DEF gs, concl
    <2>3. concl \in Sequent /\ concl.hs = <<>> /\ concl.gs = gs BY <2>1, <2>2, SequentOf DEF OnConcl
    <2>4. InScope(concl, used) BY <1>2, <2>1, <2>3 DEF InScope
    <2>5. ASSUME Valid(concl) PROVE Holds(p)
      <3>1. \A m \in Model : m \in Truth[p] BY <2>1, <2>3, <2>5 DEF Valid
      <3> QED BY <1>1, <3>1, ShapeAssumption DEF Holds
    <2> QED BY <2>3, <2>4, <2>5
  <1>5. concl \in Sequent /\ InScope(concl, used) /\ (Valid(concl) => Holds(p)) BY <1>3, <1>4
  <1> HIDE DEF concl
  <1>6. job' \in Job /\ job'.concl = concl /\ job'.prop = p BY <1>1, <1>2, <1>5 DEF Job
  <1>7. own \in ProofState BY <1>5 DEF ProofState
  <1>8. saved \subseteq ProofState BY DEF TypeOK
  <1> QED BY <1>1, <1>2, <1>5, <1>6, <1>7, <1>8

(* Every state component has its type.                                     *)
THEOREM ProofTypes == Spec => []TypeOK
  <1>0. NoProof \in ProofState /\ NoCheck \in Check
    <2>0. <<>> \in Seq(Prop) OBVIOUS
    <2>1. NoSequent \in Sequent BY <2>0, SequentOf DEF NoSequent
    <2> QED BY <2>1 DEF NoProof, NoCheck, ProofState, Check, Summary
  <1>1. Init => TypeOK
    BY <1>0, ShapeAssumption DEF Init, TypeOK
  <1>2. TypeOK /\ [Next]_vars => TypeOK'
    <2> SUFFICES ASSUME TypeOK, [Next]_vars PROVE TypeOK' OBVIOUS
    <2>0. /\ proof \in ProofState /\ saved \subseteq ProofState /\ check \in Check /\ used \subseteq VarName
          /\ thms \in Seq(Theorem) /\ Len(thms) <= MaxTheorems /\ db \subseteq DOMAIN thms
      BY DEF TypeOK
    <2>1. ASSUME OutrightStep PROVE TypeOK'
      <3>1. PICK p, deps, sum, unsaid : Outright(p, deps, sum, unsaid) BY <2>1, OutrightTheorem
      <3>2. deps \in SUBSET Nonce BY <3>1, TheoremType DEF Outright, TypeOK
      <3>3. p \in Prop /\ sum \in Summary /\ unsaid \in SUBSET Unsaid /\ NewTheorem(p, deps, sum, unsaid, TRUE)
        BY <3>1 DEF Outright
      <3>4. thms' \in Seq(Theorem) /\ Len(thms') <= MaxTheorems /\ db' \subseteq DOMAIN thms'
        BY <3>2, <3>3, TheoremAdded
      <3>5. UNCHANGED <<used, phase, job, proof, saved, check>> BY <3>1 DEF Outright
      <3> QED BY <3>4, <3>5 DEF TypeOK
    <2>2. ASSUME NEW p \in Conclusions, NEW sequent \in BOOLEAN, NEW record \in BOOLEAN,
                 StartProof(p, sequent, record)
          PROVE  TypeOK'
      <3>1. /\ phase' = "proving" /\ saved' = {} /\ UNCHANGED <<thms, db, used, check>>
        BY <2>2 DEF StartProof
      <3> QED BY <2>0, <2>2, <3>1, Started DEF TypeOK
    <2>3. ASSUME AnyTactic PROVE TypeOK'
      <3>1. PICK new, e : Step(new, e) BY <2>3, TacticStep
      <3>2. Grown(proof.ev, e) \in Seq(Evidence) BY <2>0, <3>1, GrownElements DEF ProofState, Step
      <3>3. proof' = [goals |-> new \o Tail(proof.goals), concl |-> proof.concl, ev |-> Grown(proof.ev, e)]
            /\ new \o Tail(proof.goals) \in Seq(Sequent)
        BY <3>1, NewGoals
      <3>4. proof.concl \in Sequent BY <2>0 DEF ProofState
      <3>5. proof' \in ProofState BY <3>2, <3>3, <3>4 DEF ProofState
      <3>6. used' \subseteq VarName /\ UNCHANGED <<thms, db, phase, job, saved, check>>
        BY <3>1 DEF Step, Tactic
      <3> QED BY <2>0, <3>5, <3>6 DEF TypeOK
    <2>4. ASSUME proof_checkpoint \/ RestoreProof PROVE TypeOK'
      <3>1. proof' \in ProofState /\ saved' \subseteq ProofState BY <2>0, <2>4 DEF proof_checkpoint, RestoreProof
      <3>2. UNCHANGED <<thms, db, used, phase, job, check>> BY <2>4 DEF proof_checkpoint, RestoreProof
      <3> QED BY <2>0, <3>1, <3>2 DEF TypeOK
    <2>5. ASSUME EndWithoutTheorem \/ CheckFails PROVE TypeOK'
      <3>1. /\ UNCHANGED <<thms, db, used, saved>> /\ phase' = "idle" /\ job' = NoJob /\ proof' = NoProof
            /\ check' \in {check, NoCheck}
        BY <2>5 DEF EndWithoutTheorem, CheckFails, BackToIdle
      <3> QED BY <1>0, <2>0, <3>1 DEF TypeOK
    <2>6. ASSUME finishProof PROVE TypeOK'
      <3> DEFINE rest == IF job.sequent THEN <<[k |-> "normalize", s |-> proof.concl]>> \o proof.ev
                                        ELSE proof.ev
                 unsaid == IF proof.concl = job.concl THEN {} ELSE {"foreign"}
      <3>1. /\ UNCHANGED <<thms, db, used, job, proof, saved>> /\ phase = "proving" /\ phase' = "checking"
            /\ check' = [todo |-> <<propToSequent(job.prop)>>, rest |-> rest, deps |-> {}, sum |-> "proved",
                         unsaid |-> unsaid]
        BY <2>6 DEF finishProof
      <3>6. unsaid \subseteq Unsaid BY DEF Unsaid
      <3>2. job \in Job BY <3>1 DEF TypeOK
      <3>3. rest \in Seq(Evidence)
        <4>1. proof.ev \in Seq(Evidence) /\ proof.concl \in Sequent BY <2>0 DEF ProofState
        <4>2. [k |-> "normalize", s |-> proof.concl] \in Evidence BY <4>1 DEF Evidence
        <4>3. <<[k |-> "normalize", s |-> proof.concl]>> \in Seq(Evidence) BY <4>2
        <4> HIDE DEF Evidence
        <4> QED BY <4>1, <4>3, ConcatProperties
      <3> HIDE DEF rest, unsaid
      <3>4. propToSequent(job.prop) \in Sequent
        <4>1. job.prop \in Prop BY <3>2 DEF Job
        <4>2. <<>> \in Seq(Prop) /\ <<job.prop>> \in Seq(Prop) /\ 1 \in DOMAIN <<job.prop>> BY <4>1
        <4> QED BY <4>2, SequentOf DEF propToSequent
      <3>5. check' \in Check BY <3>1, <3>3, <3>4, <3>6 DEF Check, Summary
      <3> QED BY <2>0, <3>1, <3>2, <3>5 DEF TypeOK
    <2>7. ASSUME checkEvidence PROVE TypeOK'
      <3> DEFINE e == Head(check.rest)
                 s == Head(check.todo)
      <3>1. /\ UNCHANGED <<thms, db, used, phase, job, proof, saved>>
            /\ check.rest # <<>> /\ check.todo # <<>> /\ Accepts(e, s)
            /\ check' = [todo |-> Subgoals(e, s) \o Tail(check.todo), rest |-> Tail(check.rest),
                         deps |-> check.deps \cup DependsOn(e), sum |-> Worst(check.sum, SummaryOf(e)),
                         unsaid |-> check.unsaid \cup ({e.k} \cap Unsaid)]
        BY <2>7 DEF checkEvidence
      <3>2. check.rest \in Seq(Evidence) /\ check.todo \in Seq(Sequent) /\ check.deps \subseteq Nonce /\ check.sum \in Summary
            /\ check.unsaid \subseteq Unsaid
        BY <2>0 DEF Check
      <3>3. /\ e \in Evidence /\ Tail(check.rest) \in Seq(Evidence)
            /\ s \in Sequent /\ Tail(check.todo) \in Seq(Sequent)
        BY <3>1, <3>2, HeadTailProperties
      <3> HIDE DEF e, s
      <3>4. Subgoals(e, s) \o Tail(check.todo) \in Seq(Sequent)
        BY <3>1, <3>3, SubgoalTypes, ConcatProperties
      <3>5. DependsOn(e) \subseteq Nonce /\ Worst(check.sum, SummaryOf(e)) \in Summary
        BY <3>2, <3>3, NodeSummary
      <3>6. check' \in Check BY <3>1, <3>2, <3>3, <3>4, <3>5 DEF Check
      <3> QED BY <2>0, <3>1, <3>6 DEF TypeOK
    <2>8. ASSUME MakeTheorem PROVE TypeOK'
      <3>1. /\ phase = "checking" /\ NewTheorem(job.prop, check.deps, check.sum, check.unsaid, job.record)
            /\ phase' = "idle" /\ job' = NoJob /\ proof' = NoProof /\ check' = NoCheck
            /\ UNCHANGED <<used, saved>>
        BY <2>8 DEF MakeTheorem, BackToIdle
      <3>2. /\ job.prop \in Prop /\ check.deps \in SUBSET Nonce /\ check.sum \in Summary
            /\ check.unsaid \in SUBSET Unsaid
        BY <2>0, <3>1 DEF TypeOK, Job, Check
      <3>3. thms' \in Seq(Theorem) /\ Len(thms') <= MaxTheorems /\ db' \subseteq DOMAIN thms'
        BY <3>1, <3>2, TheoremAdded
      <3> QED BY <1>0, <2>0, <3>1, <3>3 DEF TypeOK
    <2>9. ASSUME UNCHANGED vars PROVE TypeOK' BY <2>9 DEF TypeOK, vars
    <2> QED BY <2>1, <2>2, <2>3, <2>4, <2>5, <2>6, <2>7, <2>8, <2>9 DEF Next, OutrightStep, AnyTactic, Checking
  <1> QED BY <1>1, <1>2, PTL DEF Spec

-----------------------------------------------------------------------------
(* The steps that other invariants distinguish.                            *)

(* A tactic's new proof state, node by node.                               *)
LEMMA StepEvidence ==
  ASSUME TypeOK, NEW new, NEW e, Step(new, e)
  PROVE  /\ proof'.ev \in Seq(Evidence) /\ proof'.concl = proof.concl
         /\ \A i \in DOMAIN proof'.ev :
              \/ i = Len(proof'.ev) /\ proof'.ev[i] = e
              \/ i < Len(proof'.ev) /\ i \in DOMAIN proof.ev /\ proof'.ev[i] = proof.ev[i]
         /\ \E i \in DOMAIN proof'.ev : proof'.ev[i] = e
         /\ \A i \in DOMAIN proof.ev :
              proof.ev[i].k = "structural" \/ (i \in DOMAIN proof'.ev /\ proof'.ev[i] = proof.ev[i])
         /\ DOMAIN proof'.ev \subseteq Nat /\ DOMAIN proof.ev \subseteq Nat
         /\ UNCHANGED <<thms, db, phase, job, saved, check>> /\ phase = "proving"
  <1> DEFINE ev2 == Grown(proof.ev, e)
  <1>1. proof.ev \in Seq(Evidence) /\ e \in Evidence BY DEF TypeOK, ProofState, Step
  <1>2. /\ ev2 \in Seq(Evidence) /\ Len(ev2) \in 1..Len(proof.ev) + 1 /\ ev2[Len(ev2)] = e
        /\ \A i \in 1..Len(ev2) - 1 : i \in DOMAIN proof.ev /\ ev2[i] = proof.ev[i]
        /\ \A i \in DOMAIN proof.ev :
             proof.ev[i].k = "structural" \/ (i \in 1..Len(ev2) - 1 /\ ev2[i] = proof.ev[i])
    BY <1>1, GrownElements
  <1>3. proof'.ev = ev2 /\ proof'.concl = proof.concl BY NewGoals
  <1> HIDE DEF ev2
  <1>4. Len(ev2) \in Nat /\ DOMAIN ev2 = 1..Len(ev2) /\ DOMAIN proof.ev \subseteq Nat
    BY <1>1, <1>2, LenProperties
  <1>5. Len(ev2) > 0 BY <1>1, <1>2, LenProperties
  <1>6. UNCHANGED <<thms, db, phase, job, saved, check>> /\ phase = "proving"
    BY DEF Step, Tactic
  <1>7. ASSUME NEW i \in DOMAIN ev2
        PROVE  \/ i = Len(ev2) /\ ev2[i] = e
               \/ i < Len(ev2) /\ i \in DOMAIN proof.ev /\ ev2[i] = proof.ev[i]
    <2>1. CASE i = Len(ev2) BY <1>2, <2>1
    <2>2. CASE i # Len(ev2)
      <3>1. i \in 1..Len(ev2) - 1 /\ i < Len(ev2) BY <1>4, <2>2
      <3> QED BY <1>2, <3>1
    <2> QED BY <2>1, <2>2
  <1>8. \A i \in DOMAIN proof.ev : proof.ev[i].k = "structural" \/ (i \in DOMAIN ev2 /\ ev2[i] = proof.ev[i])
    BY <1>2, <1>4
  <1>9. \E i \in DOMAIN ev2 : ev2[i] = e BY <1>2, <1>4, <1>5
  <1> QED BY <1>2, <1>3, <1>4, <1>6, <1>7, <1>8, <1>9

(* The theorems that exist stay as they are.                               *)
LEMMA TheoremsKept ==
  ASSUME TypeOK, TypeOK', [Next]_vars
  PROVE  /\ db \subseteq db'
         /\ \A n \in DOMAIN thms : n \in DOMAIN thms' /\ thms'[n] = thms[n]
         /\ used \subseteq used'
  <1>1. ASSUME NEW p \in Prop, NEW deps \in SUBSET Nonce, NEW sum \in Summary,
               NEW unsaid \in SUBSET Unsaid, NEW record, NewTheorem(p, deps, sum, unsaid, record), UNCHANGED used
        PROVE  /\ db \subseteq db'
               /\ \A n \in DOMAIN thms : n \in DOMAIN thms' /\ thms'[n] = thms[n]
               /\ used \subseteq used'
    BY <1>1, TheoremAdded
  <1>2. CASE OutrightStep
    <2>1. PICK p, deps, sum, unsaid : Outright(p, deps, sum, unsaid) BY <1>2, OutrightTheorem
    <2>2. p \in Prop /\ deps \in SUBSET Nonce /\ sum \in Summary /\ unsaid \in SUBSET Unsaid BY <2>1, TheoremType DEF Outright, TypeOK
    <2> QED BY <1>1, <2>1, <2>2 DEF Outright
  <1>3. CASE MakeTheorem
    <2>1. phase = "checking" /\ NewTheorem(job.prop, check.deps, check.sum, check.unsaid, job.record) /\ UNCHANGED used
      BY <1>3 DEF MakeTheorem, BackToIdle
    <2>2. /\ job.prop \in Prop /\ check.deps \in SUBSET Nonce /\ check.sum \in Summary
          /\ check.unsaid \in SUBSET Unsaid
      BY <2>1 DEF TypeOK, Job, Check
    <2> QED BY <1>1, <2>1, <2>2
  <1>4. CASE AnyTactic
    <2>1. UNCHANGED <<thms, db>>
      BY <1>4 DEF AnyTactic, tacticIntro, tacticIntroHyps, tacticRevertHyp, tacticApplyHyp, tacticApply,
           tacticSplit, tacticSpecializeHyp, tacticInsert, tacticCut, tacticExact, tacticSolve, admitProof,
           quickcheckGoal, unfocus, focus_concl, focus_hyp, delete_hyps, delete_concl, normalize_sequent,
           goal_eval, simplifyGoal, Structural, Leaf, Tactic
    <2>2. used \subseteq used'
      BY <1>4 DEF AnyTactic, tacticIntro, tacticIntroHyps, tacticRevertHyp, tacticApplyHyp, tacticApply,
           tacticSplit, tacticSpecializeHyp, tacticInsert, tacticCut, tacticExact, tacticSolve, admitProof,
           quickcheckGoal, unfocus, focus_concl, focus_hyp, delete_hyps, delete_concl, normalize_sequent,
           goal_eval, simplifyGoal, Structural, Leaf
    <2> QED BY <2>1, <2>2
  <1>5. CASE \/ \E p \in Conclusions, sequent, record \in BOOLEAN : StartProof(p, sequent, record)
             \/ proof_checkpoint \/ RestoreProof \/ EndWithoutTheorem \/ finishProof
             \/ checkEvidence \/ CheckFails \/ UNCHANGED vars
    BY <1>5 DEF StartProof, proof_checkpoint, RestoreProof, EndWithoutTheorem, finishProof, checkEvidence,
         CheckFails, BackToIdle, vars
  <1> QED BY <1>2, <1>3, <1>4, <1>5 DEF Next, OutrightStep, AnyTactic, Checking

(* Where a new proof state comes from.                                     *)
LEMMA ProofStates ==
  ASSUME TypeOK, [Next]_vars
  PROVE  /\ \A ps \in saved' : ps \in saved \cup {proof}
         /\ \/ proof' \in saved \cup {proof, NoProof}
            \/ proof' = [goals |-> <<job'.concl>>, concl |-> job'.concl, ev |-> <<>>]
                 /\ InScope(job'.concl, used) /\ used' = used
            \/ \E new, e : Step(new, e)
  <1>1. CASE OutrightStep
    <2>1. UNCHANGED <<proof, saved>> BY <1>1, OutrightTheorem DEF Outright
    <2> QED BY <2>1
  <1>2. ASSUME NEW p \in Conclusions, NEW sequent \in BOOLEAN, NEW record \in BOOLEAN,
               StartProof(p, sequent, record)
        PROVE  /\ saved' = {}
               /\ \/ proof' \in saved
                  \/ proof' = [goals |-> <<job'.concl>>, concl |-> job'.concl, ev |-> <<>>]
                       /\ InScope(job'.concl, used) /\ used' = used
    <2>1. saved' = {} /\ used' = used BY <1>2 DEF StartProof
    <2> QED BY <1>2, <2>1, Started
  <1>3. CASE AnyTactic
    <2>1. PICK new, e : Step(new, e) BY <1>3, TacticStep
    <2>2. saved' = saved BY <2>1 DEF Step, Tactic
    <2> QED BY <2>1, <2>2
  <1>4. CASE \/ proof_checkpoint \/ RestoreProof \/ EndWithoutTheorem \/ finishProof
             \/ checkEvidence \/ CheckFails \/ MakeTheorem \/ UNCHANGED vars
    BY <1>4 DEF proof_checkpoint, RestoreProof, EndWithoutTheorem, finishProof, checkEvidence,
         CheckFails, MakeTheorem, BackToIdle, vars
  <1> QED BY <1>1, <1>2, <1>3, <1>4 DEF Next, OutrightStep, AnyTactic, Checking

-----------------------------------------------------------------------------
(* What evidence relies on is in the database, so that dependencies are.   *)

InDatabase(ev) ==
  \A i \in DOMAIN ev : ev[i].k \in {"apply", "insert", "rewrite"} => ev[i].thm \in db

EvidenceInDatabase == \A ps \in saved \cup {proof} : InDatabase(ps.ev)

(* Tactics apply, insert and rewrite with theorems of the database only.   *)
LEMMA EvidenceStaysInDatabase ==
  ASSUME TypeOK, TypeOK', [Next]_vars, EvidenceInDatabase
  PROVE  EvidenceInDatabase'
  <1>1. db \subseteq db' BY TheoremsKept
  <1>2. ASSUME NEW ps \in saved \cup {proof} PROVE InDatabase(ps.ev)'
    BY <1>1 DEF EvidenceInDatabase, InDatabase
  <1>3. ASSUME NEW ps, ps.ev = <<>> PROVE InDatabase(ps.ev)'
    BY <1>3 DEF InDatabase
  <1>4. ASSUME NEW new, NEW e, Step(new, e) PROVE InDatabase(proof.ev)'
    <2>1. e.k \in {"apply", "insert", "rewrite"} => e.thm \in db BY <1>4 DEF Step
    <2>2. InDatabase(proof.ev) BY DEF EvidenceInDatabase
    <2> QED BY <1>1, <1>4, <2>1, <2>2, StepEvidence DEF InDatabase
  <1>5. InDatabase(proof.ev)'
    <2>1. CASE proof' \in saved \cup {proof} BY <1>2, <2>1 DEF InDatabase
    <2>2. CASE proof' = NoProof \/ proof' = [goals |-> <<job'.concl>>, concl |-> job'.concl, ev |-> <<>>]
      <3>1. proof'.ev = <<>> BY <2>2 DEF NoProof
      <3> QED BY <3>1 DEF InDatabase
    <2> QED BY <1>4, <2>1, <2>2, ProofStates
  <1>6. \A ps \in saved' : InDatabase(ps.ev)' BY <1>2, ProofStates
  <1> QED BY <1>5, <1>6 DEF EvidenceInDatabase, InDatabase

(* So is what the check has met, and what is before it.                    *)
DependenciesKnown ==
  /\ DependenciesRecorded
  /\ check.deps \subseteq db
  /\ InDatabase(check.rest)

(* A theorem's dependencies are those of its evidence.                     *)
LEMMA DependenciesStayKnown ==
  ASSUME TypeOK, TypeOK', [Next]_vars, EvidenceInDatabase, DependenciesKnown
  PROVE  DependenciesKnown'
  <1>0. db \subseteq db' /\ check \in Check BY TheoremsKept DEF TypeOK
  <1>1. ASSUME NEW p \in Prop, NEW deps \in SUBSET db, NEW sum \in Summary,
               NEW unsaid \in SUBSET Unsaid, NEW record, NewTheorem(p, deps, sum, unsaid, record)
        PROVE  DependenciesRecorded'
    <2>1. deps \in SUBSET Nonce BY TheoremType DEF TypeOK
    <2>2. /\ DOMAIN thms' = DOMAIN thms \cup {Len(thms) + 1}
          /\ \A k \in DOMAIN thms : thms'[k] = thms[k]
          /\ thms'[Len(thms) + 1] = [prop |-> p, deps |-> deps, sum |-> sum, unsaid |-> unsaid]
      BY <1>1, <2>1, TheoremAdded
    <2>3. thms'[Len(thms) + 1].deps = deps BY <2>2
    <2> QED BY <1>0, <2>2, <2>3 DEF DependenciesKnown, DependenciesRecorded
  <1>2. ASSUME UNCHANGED thms PROVE DependenciesRecorded'
    BY <1>0, <1>2 DEF DependenciesKnown, DependenciesRecorded
  <1>3. ASSUME check' \in {check, NoCheck} PROVE check'.deps \subseteq db' /\ InDatabase(check.rest)'
    BY <1>0, <1>3 DEF DependenciesKnown, InDatabase, NoCheck
  <1>4. CASE OutrightStep
    <2>1. PICK p, deps, sum, unsaid : Outright(p, deps, sum, unsaid) BY <1>4, OutrightTheorem
    <2>2. DependenciesRecorded' /\ check' = check BY <1>1, <2>1 DEF Outright
    <2> QED BY <1>3, <2>2 DEF DependenciesKnown
  <1>5. CASE AnyTactic
    <2>1. PICK new, e : Step(new, e) BY <1>5, TacticStep
    <2>2. UNCHANGED <<thms, check>> BY <2>1 DEF Step, Tactic
    <2> QED BY <1>2, <1>3, <2>2 DEF DependenciesKnown
  <1>6. CASE \/ \E p \in Conclusions, sequent, record \in BOOLEAN : StartProof(p, sequent, record)
             \/ proof_checkpoint \/ RestoreProof \/ EndWithoutTheorem \/ CheckFails \/ UNCHANGED vars
    <2>1. UNCHANGED thms /\ check' \in {check, NoCheck}
      BY <1>6 DEF StartProof, proof_checkpoint, RestoreProof, EndWithoutTheorem, CheckFails, BackToIdle, vars
    <2> QED BY <1>2, <1>3, <2>1 DEF DependenciesKnown
  <1>7. CASE finishProof
    <2> DEFINE first == [k |-> "normalize", s |-> proof.concl]
               rest == IF job.sequent THEN <<first>> \o proof.ev ELSE proof.ev
    <2>1. /\ UNCHANGED <<thms, db>>
          /\ check'.deps = {} /\ check'.rest = rest
      BY <1>7 DEF finishProof
    <2>2. InDatabase(rest)
      <3>1. InDatabase(proof.ev) BY DEF EvidenceInDatabase
      <3>2. proof.ev \in Seq(Evidence) /\ first \in Evidence BY DEF TypeOK, ProofState, Evidence
      <3>3. first.k = "normalize" OBVIOUS
      <3> HIDE DEF first
      <3>4. <<first>> \in Seq(Evidence) /\ Len(<<first>>) = 1 /\ <<first>>[1] = first BY <3>2
      <3>5. /\ <<first>> \o proof.ev \in Seq(Evidence) /\ Len(proof.ev) \in Nat
            /\ Len(<<first>> \o proof.ev) = 1 + Len(proof.ev)
            /\ \A i \in 1..1 + Len(proof.ev) :
                 (<<first>> \o proof.ev)[i] = IF i <= 1 THEN <<first>>[i] ELSE proof.ev[i - 1]
        BY <3>2, <3>4, ConcatProperties, LenProperties
      <3>6. /\ DOMAIN (<<first>> \o proof.ev) = 1..1 + Len(proof.ev)
            /\ DOMAIN proof.ev = 1..Len(proof.ev)
        BY <3>2, <3>5, LenProperties
      <3> DEFINE all == <<first>> \o proof.ev
      <3>7. ASSUME NEW i \in DOMAIN all PROVE all[i] = first \/ \E j \in DOMAIN proof.ev : all[i] = proof.ev[j]
        <4>1. CASE i = 1 BY <3>4, <3>5, <3>6, <4>1
        <4>2. CASE i # 1
          <5>1. i - 1 \in DOMAIN proof.ev /\ ~ (i <= 1) BY <3>5, <3>6, <4>2
          <5>2. all[i] = proof.ev[i - 1] BY <3>5, <3>6, <5>1
          <5> QED BY <5>1, <5>2
        <4> QED BY <4>1, <4>2
      <3> HIDE DEF all
      <3>8. InDatabase(all)
        <4> SUFFICES ASSUME NEW i \in DOMAIN all, all[i].k \in {"apply", "insert", "rewrite"}
                     PROVE  all[i].thm \in db
          BY DEF InDatabase
        <4>1. all[i] # first BY <3>3
        <4>2. PICK j \in DOMAIN proof.ev : all[i] = proof.ev[j] BY <3>7, <4>1
        <4> QED BY <3>1, <4>2 DEF InDatabase
      <3> QED BY <3>1, <3>8 DEF all
    <2> HIDE DEF rest
    <2>3. check'.deps = {} /\ check'.rest = rest BY <2>1
    <2>4. InDatabase(check.rest)' BY <2>1, <2>2, <2>3 DEF InDatabase
    <2> QED BY <1>2, <2>1, <2>3, <2>4 DEF DependenciesKnown
  <1>8. CASE checkEvidence
    <2> DEFINE e == Head(check.rest)
               rest == Tail(check.rest)
    <2>1. /\ UNCHANGED <<thms, db>> /\ check.rest # <<>>
          /\ check'.rest = rest /\ check'.deps = check.deps \cup DependsOn(e)
      BY <1>8 DEF checkEvidence
    <2>2. check.rest \in Seq(Evidence) /\ check.rest # <<>> BY <1>0, <2>1 DEF Check
    <2>3. e = check.rest[1] /\ 1 \in DOMAIN check.rest BY <2>2, LenProperties, EmptySeq
    <2>4. \A i \in DOMAIN rest : i + 1 \in DOMAIN check.rest /\ rest[i] = check.rest[i + 1]
      BY <2>2, HeadTailProperties, LenProperties
    <2> HIDE DEF e, rest
    <2>5. DependsOn(e) \subseteq db BY <2>3 DEF DependsOn, DependenciesKnown, InDatabase
    <2>6. InDatabase(rest) BY <2>4 DEF DependenciesKnown, InDatabase
    <2>7. InDatabase(check.rest)' BY <2>1, <2>6 DEF InDatabase
    <2> QED BY <1>2, <2>1, <2>5, <2>7 DEF DependenciesKnown
  <1>9. CASE MakeTheorem
    <2>1. phase = "checking" /\ NewTheorem(job.prop, check.deps, check.sum, check.unsaid, job.record) /\ check' = NoCheck
      BY <1>9 DEF MakeTheorem, BackToIdle
    <2>2. /\ job.prop \in Prop /\ check.deps \in SUBSET db /\ check.sum \in Summary
          /\ check.unsaid \in SUBSET Unsaid
      BY <2>1 DEF TypeOK, Job, Check, DependenciesKnown
    <2> QED BY <1>1, <1>3, <2>1, <2>2 DEF DependenciesKnown
  <1> QED BY <1>4, <1>5, <1>6, <1>7, <1>8, <1>9 DEF Next, OutrightStep, AnyTactic, Checking

(* Whatever a theorem depends on is in the database.                       *)
THEOREM DependenciesAreRecorded == Spec => []DependenciesRecorded
  <1>1. Init => EvidenceInDatabase /\ DependenciesKnown
    BY DEF Init, EvidenceInDatabase, InDatabase, DependenciesKnown, DependenciesRecorded, NoProof, NoCheck
  <1>2. TypeOK /\ TypeOK' /\ [Next]_vars /\ EvidenceInDatabase /\ DependenciesKnown
          => EvidenceInDatabase' /\ DependenciesKnown'
    BY EvidenceStaysInDatabase, DependenciesStayKnown
  <1>3. DependenciesKnown => DependenciesRecorded BY DEF DependenciesKnown
  <1>4. Spec => []TypeOK BY ProofTypes
  <1> QED BY <1>1, <1>2, <1>3, <1>4, PTL DEF Spec

-----------------------------------------------------------------------------
(* Scopes: what goals, conclusions and evidence mention has been used, and *)
(* intro uses what has not been.                                           *)

Scoped(ps) ==
  /\ InScope(ps.concl, used)
  /\ \A i \in DOMAIN ps.goals : InScope(ps.goals[i], used)
  /\ \A i \in DOMAIN ps.ev :
       NodeFree(ps.ev[i]) \subseteq used /\ (ps.ev[i].k = "intro" => ps.ev[i].x \in used)

ScopeInvariant == \A ps \in saved \cup {proof} : Scoped(ps) /\ FreshIn(ps)

(* Every step keeps it.                                                    *)
LEMMA ScopeStays ==
  ASSUME TypeOK, TypeOK', [Next]_vars, ScopeInvariant
  PROVE  ScopeInvariant'
  <1>1. used \subseteq used' BY TheoremsKept
  <1>2. ASSUME NEW ps \in saved \cup {proof} PROVE Scoped(ps)' /\ FreshIn(ps)
    <2>1. Scoped(ps) /\ FreshIn(ps) BY DEF ScopeInvariant
    <2>2. \A s : InScope(s, used) => InScope(s, used') BY <1>1, ScopeGrows
    <2> QED BY <1>1, <2>1, <2>2 DEF Scoped
  <1>3. \A ps \in saved' : Scoped(ps)' /\ FreshIn(ps) BY <1>2, ProofStates
  <1>4. Scoped(proof)' /\ FreshIn(proof)'
    <2>1. CASE proof' \in saved \cup {proof}
      <3>1. PICK ps \in saved \cup {proof} : proof' = ps BY <2>1
      <3>2. Scoped(ps)' /\ FreshIn(ps) BY <1>2
      <3> QED BY <3>1, <3>2 DEF Scoped, FreshIn
    <2>2. CASE proof' = NoProof
      <3>1. proof'.goals = <<>> /\ proof'.ev = <<>> /\ proof'.concl.hs = <<>> /\ proof'.concl.gs = <<>>
        BY <2>2 DEF NoProof, NoSequent, Unfocused
      <3> QED BY <3>1 DEF Scoped, FreshIn, InScope
    <2>3. CASE /\ proof' = [goals |-> <<job'.concl>>, concl |-> job'.concl, ev |-> <<>>]
               /\ InScope(job'.concl, used) /\ used' = used
      <3> DEFINE c == job'.concl
      <3>1. proof'.goals = <<c>> /\ proof'.ev = <<>> /\ proof'.concl = c BY <2>3
      <3>2. DOMAIN <<c>> = {1} /\ <<c>>[1] = c OBVIOUS
      <3> QED BY <2>3, <3>1, <3>2 DEF Scoped, FreshIn
    <2>4. ASSUME NEW new, NEW e, Step(new, e) PROVE Scoped(proof)' /\ FreshIn(proof)'
      <3>1. Scoped(proof) /\ FreshIn(proof) BY DEF ScopeInvariant
      <3>2. InScope(Goal, used)
        <4>1. proof.goals \in Seq(Sequent) /\ proof.goals # <<>> BY <2>4 DEF TypeOK, ProofState, Step, HasGoal
        <4>2. Goal = proof.goals[1] /\ 1 \in DOMAIN proof.goals BY <4>1, LenProperties, EmptySeq DEF Goal
        <4> QED BY <3>1, <4>2 DEF Scoped
      <3>3. /\ \A i \in DOMAIN new : InScope(new[i], used')
            /\ NodeFree(e) \subseteq used' /\ (e.k = "intro" => e.x \in used' \ used)
        BY <2>4, <3>2 DEF Step
      <3>4. /\ proof'.concl = proof.concl
            /\ \A i \in DOMAIN proof'.goals : \/ \E j \in DOMAIN new : proof'.goals[i] = new[j]
                                              \/ \E j \in DOMAIN proof.goals : proof'.goals[i] = proof.goals[j]
        <4> DEFINE goals == new \o Tail(proof.goals)
        <4>1. /\ proof' = [goals |-> goals, concl |-> proof.concl, ev |-> Grown(proof.ev, e)]
              /\ \A i \in DOMAIN goals : \/ \E j \in DOMAIN new : goals[i] = new[j]
                                         \/ \E j \in DOMAIN proof.goals : goals[i] = proof.goals[j]
          BY <2>4, NewGoals
        <4> HIDE DEF goals
        <4>2. proof'.goals = goals /\ proof'.concl = proof.concl BY <4>1
        <4> QED BY <4>1, <4>2
      <3>5. \A s : InScope(s, used) => InScope(s, used') BY <1>1, ScopeGrows
      <3>6. InScope(proof'.concl, used') BY <3>1, <3>4, <3>5 DEF Scoped
      <3>7. \A i \in DOMAIN proof'.goals : InScope(proof'.goals[i], used')
        BY <3>1, <3>3, <3>4, <3>5 DEF Scoped
      <3>8. /\ DOMAIN proof'.ev \subseteq Nat
            /\ \A i \in DOMAIN proof'.ev :
                 \/ i = Len(proof'.ev) /\ proof'.ev[i] = e
                 \/ i < Len(proof'.ev) /\ i \in DOMAIN proof.ev /\ proof'.ev[i] = proof.ev[i]
            /\ DOMAIN proof'.ev = 1..Len(proof'.ev) /\ Len(proof'.ev) \in Nat
        BY <2>4, StepEvidence, LenProperties
      <3>9. \A i \in DOMAIN proof'.ev :
              NodeFree(proof'.ev[i]) \subseteq used' /\ (proof'.ev[i].k = "intro" => proof'.ev[i].x \in used')
        BY <1>1, <3>1, <3>3, <3>8 DEF Scoped
      <3>10. ASSUME NEW i \in DOMAIN proof'.ev, proof'.ev[i].k = "intro"
             PROVE  /\ proof'.ev[i].x \notin Mentions(proof'.concl)
                    /\ \A j \in 1..(i - 1) : proof'.ev[j].k = "intro" => proof'.ev[j].x # proof'.ev[i].x
                    /\ \A j \in 1..(i - 1) : proof'.ev[i].x \notin NodeFree(proof'.ev[j])
        <4>1. \A j \in 1..(i - 1) : j \in DOMAIN proof.ev /\ proof'.ev[j] = proof.ev[j]
          <5>1. \A j \in 1..(i - 1) : j \in DOMAIN proof'.ev /\ j < Len(proof'.ev) /\ j # Len(proof'.ev) BY <3>8
          <5> QED BY <3>8, <5>1
        <4>2. CASE proof'.ev[i] = e
          <5>1. e.x \notin used BY <3>3, <3>10, <4>2
          <5>2. e.x \notin Mentions(proof'.concl) BY <3>1, <3>4, <5>1, MentionsScope DEF Scoped
          <5>3. \A j \in 1..(i - 1) : (proof'.ev[j].k = "intro" => proof'.ev[j].x \in used)
                                        /\ NodeFree(proof'.ev[j]) \subseteq used
            BY <3>1, <4>1 DEF Scoped
          <5> QED BY <4>2, <5>1, <5>2, <5>3
        <4>3. CASE i \in DOMAIN proof.ev /\ proof'.ev[i] = proof.ev[i]
          BY <3>1, <3>4, <3>10, <4>1, <4>3 DEF FreshIn
        <4> QED BY <3>8, <4>2, <4>3
      <3> QED BY <3>6, <3>7, <3>9, <3>10 DEF Scoped, FreshIn
    <2> QED BY <2>1, <2>2, <2>3, <2>4, ProofStates
  <1>5. ASSUME NEW ps, ps = proof' PROVE Scoped(ps)' /\ FreshIn(ps)'
    BY <1>4, <1>5 DEF Scoped, FreshIn
  <1>6. \A ps \in saved' : Scoped(ps)' /\ FreshIn(ps)' BY <1>3 DEF FreshIn
  <1> QED BY <1>5, <1>6 DEF ScopeInvariant

(* The variable of an intro step occurs nowhere above it in the evidence.  *)
THEOREM VariablesAreFresh == Spec => []IntroducedFresh
  <1>1. Init => ScopeInvariant
    <2> SUFFICES ASSUME Init PROVE ScopeInvariant OBVIOUS
    <2>1. saved = {} /\ proof = NoProof BY DEF Init
    <2>2. proof.goals = <<>> /\ proof.ev = <<>> /\ proof.concl.hs = <<>> /\ proof.concl.gs = <<>>
      BY <2>1 DEF NoProof, NoSequent, Unfocused
    <2> QED BY <2>1, <2>2 DEF ScopeInvariant, Scoped, FreshIn, InScope
  <1>2. TypeOK /\ TypeOK' /\ [Next]_vars /\ ScopeInvariant => ScopeInvariant'
    BY ScopeStays
  <1>3. ScopeInvariant => IntroducedFresh BY DEF ScopeInvariant, IntroducedFresh
  <1>4. Spec => []TypeOK BY ProofTypes
  <1> QED BY <1>1, <1>2, <1>3, <1>4, PTL DEF Spec

-----------------------------------------------------------------------------
(* Soundness of tactics.                                                   *)

(* No disjunction was split under a quantifier.                            *)
Plain(ev) == \A i \in DOMAIN ev : ev[i].k # "splitPi"

(* What is kept of a proof state: it is sound if it has no such split.     *)
Kept(ps) ==
  /\ Plain(ps.ev) => Implies(ps)
  /\ DOMAIN PiDisj = {} => Plain(ps.ev)

SoundStates ==
  /\ \A ps \in saved : Kept(ps)
  /\ phase # "idle" => Kept(proof)

(* Evidence does not become honest by new theorems.                        *)
LEMMA HonestBefore ==
  ASSUME TypeOK, TypeOK', [Next]_vars, NEW ev, InDatabase(ev), Honest(ev)'
  PROVE  Honest(ev)
  <1>1. \A n \in db : thms'[n] = thms[n] BY TheoremsKept DEF TypeOK
  <1>2. \A i \in DOMAIN ev : ev[i].k \in {"apply", "insert", "rewrite"} => thms'[ev[i].thm] = thms[ev[i].thm]
    BY <1>1 DEF InDatabase
  <1> QED BY <1>2 DEF Honest, Holds

(* A tactic's new goals imply the conclusion if the old ones did.          *)
LEMMA StepImplies ==
  ASSUME TypeOK, ScopeInvariant, NEW new, NEW e, Step(new, e), Kept(proof)
  PROVE  Kept(proof')
  <1> DEFINE goals == new \o Tail(proof.goals)
             ev2 == Grown(proof.ev, e)
  <1>1. /\ proof' = [goals |-> goals, concl |-> proof.concl, ev |-> ev2]
        /\ \A j \in DOMAIN new : \E i \in DOMAIN goals : goals[i] = new[j]
        /\ \A j \in DOMAIN proof.goals : j = 1 \/ \E i \in DOMAIN goals : goals[i] = proof.goals[j]
    BY NewGoals
  <1> HIDE DEF goals, ev2
  <1>2. proof'.goals = goals /\ proof'.concl = proof.concl /\ proof'.ev = ev2 BY <1>1
  <1>3. /\ \E i \in DOMAIN ev2 : ev2[i] = e
        /\ \A i \in DOMAIN proof.ev : proof.ev[i].k = "structural" \/ (i \in DOMAIN ev2 /\ ev2[i] = proof.ev[i])
    BY <1>2, StepEvidence
  <1>4. proof.goals \in Seq(Sequent) /\ proof.goals # <<>> BY DEF TypeOK, ProofState, Step, HasGoal
  <1>5. Goal = proof.goals[1] /\ 1 \in DOMAIN proof.goals BY <1>4, LenProperties, EmptySeq DEF Goal
  <1>6. InScope(Goal, used) BY <1>5 DEF ScopeInvariant, Scoped
  <1>7. e.k # "splitPi" /\ HonestNode(e) => Reduces(new, Goal) BY <1>6 DEF Step
  <1>9. Plain(ev2) => Plain(proof.ev) /\ e.k # "splitPi"
    <2> SUFFICES ASSUME Plain(ev2) PROVE Plain(proof.ev) /\ e.k # "splitPi" OBVIOUS
    <2>1. \A i \in DOMAIN ev2 : ev2[i].k # "splitPi" BY DEF Plain
    <2>2. ASSUME NEW i \in DOMAIN proof.ev PROVE proof.ev[i].k # "splitPi"
      <3>1. CASE proof.ev[i].k = "structural" BY <3>1
      <3>2. CASE i \in DOMAIN ev2 /\ ev2[i] = proof.ev[i] BY <2>1, <3>2
      <3> QED BY <1>3, <3>1, <3>2
    <2> QED BY <1>3, <2>1, <2>2 DEF Plain
  <1>10. DOMAIN PiDisj = {} => Plain(ev2)
    <2> SUFFICES ASSUME DOMAIN PiDisj = {} PROVE Plain(ev2) OBVIOUS
    <2>1. \A i \in DOMAIN proof.ev : proof.ev[i].k # "splitPi" BY DEF Kept, Plain
    <2>2. e.k # "splitPi" BY DEF Step
    <2>3. \A i \in DOMAIN ev2 : ev2[i] = e \/ (i \in DOMAIN proof.ev /\ ev2[i] = proof.ev[i])
      BY <1>2, StepEvidence
    <2> QED BY <2>1, <2>2, <2>3 DEF Plain
  <1>8. ASSUME Plain(ev2), Honest(ev2), \A i \in DOMAIN goals : Valid(goals[i]) PROVE Valid(proof.concl)
    <2>1. HonestNode(e) BY <1>3, <1>8 DEF Honest, HonestNode
    <2>2. \A j \in DOMAIN new : Valid(new[j]) BY <1>1, <1>8
    <2>3. Valid(Goal) BY <1>7, <1>8, <1>9, <2>1, <2>2, ReducesValid
    <2>4. \A j \in DOMAIN proof.goals : Valid(proof.goals[j])
      <3> SUFFICES ASSUME NEW j \in DOMAIN proof.goals PROVE Valid(proof.goals[j]) OBVIOUS
      <3>1. CASE j = 1 BY <1>5, <2>3, <3>1
      <3>2. CASE j # 1
        <4>1. PICK i \in DOMAIN goals : goals[i] = proof.goals[j] BY <1>1, <3>2
        <4>2. Valid(goals[i]) BY <1>8
        <4> QED BY <4>1, <4>2
      <3> QED BY <3>1, <3>2
    <2>5. Honest(proof.ev)
      <3> SUFFICES ASSUME NEW i \in DOMAIN proof.ev PROVE HonestNode(proof.ev[i])
        BY DEF Honest, HonestNode
      <3>1. CASE proof.ev[i].k = "structural" BY <3>1 DEF HonestNode
      <3>2. CASE i \in DOMAIN ev2 /\ ev2[i] = proof.ev[i]
        <4>1. HonestNode(ev2[i]) BY <1>8, <3>2 DEF Honest, HonestNode
        <4> QED BY <3>2, <4>1
      <3> QED BY <1>3, <3>1, <3>2
    <2> QED BY <1>8, <1>9, <2>4, <2>5 DEF Implies, Kept
  <1>11. Plain(proof'.ev) => Implies(proof') BY <1>2, <1>8 DEF Implies
  <1> QED BY <1>2, <1>10, <1>11 DEF Kept

(* Every step keeps it.                                                    *)
LEMMA SoundStay ==
  ASSUME TypeOK, TypeOK', [Next]_vars,
         ScopeInvariant, EvidenceInDatabase, SoundStates
  PROVE  SoundStates'
  <1>1. ASSUME NEW ps \in saved \cup {proof}, Kept(ps) PROVE Kept(ps)'
    <2>1. InDatabase(ps.ev) BY DEF EvidenceInDatabase
    <2>2. Honest(ps.ev)' => Honest(ps.ev) BY <2>1, HonestBefore
    <2>3. ASSUME NEW s PROVE Valid(s)' <=> Valid(s) BY DEF Valid
    <2> QED BY <1>1, <2>2, <2>3 DEF Kept, Implies, Plain
  <1>2. ASSUME NEW ps, ps = proof', Kept(ps)' PROVE Kept(proof)'
    BY <1>2 DEF Kept, Plain, Implies, Honest, Valid
  <1>3. ASSUME saved' \subseteq saved, proof' = proof \/ proof' \in saved, phase # "idle" \/ phase' = "idle"
        PROVE  SoundStates'
    <2>1. \A ps \in saved' : Kept(ps)' BY <1>1, <1>3 DEF SoundStates
    <2>2. phase' # "idle" => Kept(proof)'
      <3> SUFFICES ASSUME phase' # "idle" PROVE Kept(proof)' OBVIOUS
      <3>1. PICK ps \in saved \cup {proof} : ps = proof' BY <1>3
      <3>2. Kept(ps) BY <1>3, <3>1 DEF SoundStates
      <3> QED BY <1>1, <1>2, <3>1, <3>2
    <2> QED BY <2>1, <2>2 DEF SoundStates
  <1>4. ASSUME saved' = saved, phase' = "idle" PROVE SoundStates'
    <2>1. \A ps \in saved' : Kept(ps)' BY <1>1, <1>4 DEF SoundStates
    <2> QED BY <1>4, <2>1 DEF SoundStates
  <1>5. CASE OutrightStep
    <2>1. PICK p, deps, sum, unsaid : Outright(p, deps, sum, unsaid) BY <1>5, OutrightTheorem
    <2> QED BY <1>4, <2>1 DEF Outright
  <1>6. ASSUME NEW p \in Conclusions, NEW sequent \in BOOLEAN, NEW record \in BOOLEAN,
               StartProof(p, sequent, record)
        PROVE  SoundStates'
    <2>1. saved' = {} /\ phase' = "proving" BY <1>6 DEF StartProof
    <2>2. CASE proof' \in saved
      <3>1. PICK ps \in saved : ps = proof' BY <2>2
      <3>2. Kept(ps) BY DEF SoundStates
      <3>3. Kept(proof)' BY <1>1, <1>2, <3>1, <3>2
      <3> QED BY <2>1, <3>3 DEF SoundStates
    <2>3. CASE proof' = [goals |-> <<job'.concl>>, concl |-> job'.concl, ev |-> <<>>]
      <3> DEFINE c == job'.concl
      <3>1. proof'.goals = <<c>> /\ proof'.concl = c BY <2>3
      <3>2. 1 \in DOMAIN <<c>> /\ <<c>>[1] = c OBVIOUS
      <3>4. proof'.ev = <<>> BY <2>3
      <3>3. Kept(proof)' BY <3>1, <3>2, <3>4 DEF Kept, Plain, Implies, Valid
      <3> QED BY <2>1, <3>3 DEF SoundStates
    <2> QED BY <1>6, <2>2, <2>3, Started
  <1>7. CASE AnyTactic
    <2>1. PICK new, e : Step(new, e) BY <1>7, TacticStep
    <2>2. saved' = saved /\ thms' = thms /\ phase = "proving" BY <2>1 DEF Step, Tactic
    <2>3. Kept(proof) BY <2>2 DEF SoundStates
    <2>4. Kept(proof') BY <2>1, <2>3, StepImplies
    <2>5. Kept(proof)' BY <2>2, <2>4 DEF Kept, Plain, Implies, Honest, Holds, Valid
    <2>6. \A ps \in saved' : Kept(ps)' BY <1>1, <2>2 DEF SoundStates
    <2> QED BY <2>5, <2>6 DEF SoundStates
  <1>8. CASE proof_checkpoint
    <2>1. saved' = {proof} /\ proof' = proof /\ phase = "proving" BY <1>8 DEF proof_checkpoint
    <2>2. Kept(proof) BY <2>1 DEF SoundStates
    <2>3. ASSUME NEW ps, ps = proof' PROVE Kept(ps)' BY <1>1, <2>1, <2>2, <2>3
    <2>4. Kept(proof)' BY <1>2, <2>3
    <2> QED BY <2>1, <2>3, <2>4 DEF SoundStates
  <1>9. CASE RestoreProof BY <1>3, <1>9 DEF RestoreProof
  <1>10. CASE EndWithoutTheorem \/ CheckFails \/ MakeTheorem
    BY <1>4, <1>10 DEF EndWithoutTheorem, CheckFails, MakeTheorem, BackToIdle
  <1>11. CASE finishProof \/ checkEvidence \/ UNCHANGED vars
    <2>1. saved' = saved /\ proof' = proof /\ (phase # "idle" \/ phase' = "idle")
      BY <1>11 DEF finishProof, checkEvidence, vars
    <2> QED BY <1>3, <2>1
  <1> QED BY <1>5, <1>6, <1>7, <1>8, <1>9, <1>10, <1>11 DEF Next, OutrightStep, AnyTactic, Checking

(* If the goals that are left are valid, so is the conclusion: no tactic   *)
(* gives away too much.  Splitting a quantified disjunction does, so there *)
(* must be none.                                                           *)
THEOREM TacticsAreSound ==
  ASSUME DOMAIN PiDisj = {}
  PROVE  Spec => []GoalsImplyConclusion
  <1>1. Init => ScopeInvariant /\ EvidenceInDatabase /\ SoundStates
    <2> SUFFICES ASSUME Init PROVE ScopeInvariant /\ EvidenceInDatabase /\ SoundStates OBVIOUS
    <2>1. saved = {} /\ proof = NoProof /\ phase = "idle" BY DEF Init
    <2>2. proof.goals = <<>> /\ proof.ev = <<>> /\ proof.concl.hs = <<>> /\ proof.concl.gs = <<>>
      BY <2>1 DEF NoProof, NoSequent, Unfocused
    <2>3. ScopeInvariant BY <2>1, <2>2 DEF ScopeInvariant, Scoped, FreshIn, InScope
    <2>4. EvidenceInDatabase BY <2>1, <2>2 DEF EvidenceInDatabase, InDatabase
    <2> QED BY <2>1, <2>3, <2>4 DEF SoundStates
  <1>2. TypeOK /\ TypeOK' /\ [Next]_vars /\ ScopeInvariant /\ EvidenceInDatabase /\ SoundStates
          => ScopeInvariant' /\ EvidenceInDatabase' /\ SoundStates'
    BY ScopeStays, EvidenceStaysInDatabase, SoundStay
  <1>3. SoundStates => GoalsImplyConclusion BY DEF SoundStates, Kept, GoalsImplyConclusion
  <1>4. Spec => []TypeOK BY ProofTypes
  <1> QED BY <1>1, <1>2, <1>3, <1>4, PTL DEF Spec

-----------------------------------------------------------------------------
(* Theorems: what a script set out to prove is what its proof state        *)
(* concludes, and the check takes account of all of its evidence.          *)

JobInvariant ==
  phase # "idle" =>
    /\ Valid(job.concl) => Holds(job.prop)
    /\ job.prop \notin Foreign => \A ps \in saved \cup {proof} : ps.concl = job.concl

Accounted(e) ==
  /\ DependsOn(e) \subseteq check.deps
  /\ {e.k} \cap Unsaid \subseteq check.unsaid
  /\ e.k \in {"admitted", "tested"} => check.sum # "proved"

CheckInvariant ==
  phase = "checking" =>
    /\ proof.goals = <<>>
    /\ proof.concl = job.concl \/ check.unsaid # {}
    /\ \A i \in DOMAIN proof.ev :
         (\E j \in DOMAIN check.rest : check.rest[j] = proof.ev[i]) \/ Accounted(proof.ev[i])

(* Every step keeps the first.                                             *)
LEMMA JobStays ==
  ASSUME TypeOK, [Next]_vars, JobInvariant
  PROVE  JobInvariant'
  <1>1. ASSUME phase' = "idle" PROVE JobInvariant' BY <1>1 DEF JobInvariant
  <1>2. ASSUME phase # "idle", job' = job, \A ps \in saved' \cup {proof'} : \E old \in saved \cup {proof} : ps.concl = old.concl
        PROVE  JobInvariant'
    <2>1. Valid(job.concl)' <=> Valid(job.concl) BY <1>2 DEF Valid
    <2>2. Holds(job.prop)' <=> Holds(job.prop) BY <1>2 DEF Holds
    <2> QED BY <1>2, <2>1, <2>2 DEF JobInvariant
  <1>3. CASE OutrightStep
    <2>1. phase' = "idle" BY <1>3, OutrightTheorem DEF Outright
    <2> QED BY <1>1, <2>1
  <1>4. ASSUME NEW p \in Conclusions, NEW sequent \in BOOLEAN, NEW record \in BOOLEAN,
               StartProof(p, sequent, record)
        PROVE  JobInvariant'
    <2>1. saved' = {} BY <1>4 DEF StartProof
    <2>2. job'.prop = p /\ (Valid(job'.concl) => Holds(job'.prop)) BY <1>4, Started
    <2>3. p \notin Foreign => proof'.concl = job'.concl BY <1>4, Started
    <2>4. (Valid(job.concl) => Holds(job.prop))' BY <2>2 DEF Valid, Holds
    <2> QED BY <2>1, <2>2, <2>3, <2>4 DEF JobInvariant
  <1>5. CASE AnyTactic
    <2>1. PICK new, e : Step(new, e) BY <1>5, TacticStep
    <2>2. proof'.concl = proof.concl /\ saved' = saved /\ job' = job /\ phase = "proving" BY <2>1, StepEvidence
    <2> QED BY <1>2, <2>2
  <1>6. CASE proof_checkpoint \/ RestoreProof \/ finishProof \/ checkEvidence
    BY <1>2, <1>6 DEF proof_checkpoint, RestoreProof, finishProof, checkEvidence
  <1>7. CASE EndWithoutTheorem \/ CheckFails \/ MakeTheorem
    BY <1>1, <1>7 DEF EndWithoutTheorem, CheckFails, MakeTheorem, BackToIdle
  <1>8. CASE UNCHANGED vars
    <2>1. CASE phase = "idle" BY <1>1, <1>8, <2>1 DEF vars
    <2>2. CASE phase # "idle" BY <1>2, <1>8, <2>2 DEF vars
    <2> QED BY <2>1, <2>2
  <1> QED BY <1>3, <1>4, <1>5, <1>6, <1>7, <1>8 DEF Next, OutrightStep, AnyTactic, Checking

(* Every step keeps the second.                                            *)
LEMMA CheckStays ==
  ASSUME TypeOK, [Next]_vars, CheckInvariant
  PROVE  CheckInvariant'
  <1>1. ASSUME phase' # "checking" PROVE CheckInvariant' BY <1>1 DEF CheckInvariant
  <1>2. CASE OutrightStep
    <2>1. phase' = "idle" BY <1>2, OutrightTheorem DEF Outright
    <2> QED BY <1>1, <2>1
  <1>3. CASE AnyTactic
    <2>1. phase' = "proving" BY <1>3, TacticStep, StepEvidence
    <2> QED BY <1>1, <2>1
  <1>4. CASE \/ \E p \in Conclusions, sequent, record \in BOOLEAN : StartProof(p, sequent, record)
             \/ proof_checkpoint \/ RestoreProof \/ EndWithoutTheorem \/ CheckFails \/ MakeTheorem
    BY <1>1, <1>4 DEF StartProof, proof_checkpoint, RestoreProof, EndWithoutTheorem, CheckFails, MakeTheorem, BackToIdle
  <1>5. CASE finishProof
    <2> DEFINE first == [k |-> "normalize", s |-> proof.concl]
               all == <<first>> \o proof.ev
    <2>1. /\ proof.goals = <<>> /\ proof' = proof
          /\ check'.rest = IF job.sequent THEN all ELSE proof.ev
          /\ job' = job /\ (proof.concl = job.concl \/ check'.unsaid # {})
      BY <1>5 DEF finishProof
    <2>2. \A i \in DOMAIN proof.ev : \E j \in DOMAIN all : all[j] = proof.ev[i]
      <3>1. proof.ev \in Seq(Evidence) /\ first \in Evidence BY DEF TypeOK, ProofState, Evidence
      <3> HIDE DEF first
      <3>2. <<first>> \in Seq(Evidence) /\ Len(<<first>>) = 1 BY <3>1
      <3>3. /\ all \in Seq(Evidence) /\ Len(proof.ev) \in Nat /\ Len(all) = 1 + Len(proof.ev)
            /\ \A i \in 1..1 + Len(proof.ev) : all[i] = IF i <= 1 THEN <<first>>[i] ELSE proof.ev[i - 1]
        BY <3>1, <3>2, ConcatProperties, LenProperties
      <3> HIDE DEF all
      <3>4. DOMAIN all = 1..1 + Len(proof.ev) /\ DOMAIN proof.ev = 1..Len(proof.ev)
        BY <3>1, <3>3, LenProperties
      <3> SUFFICES ASSUME NEW i \in DOMAIN proof.ev PROVE \E j \in DOMAIN all : all[j] = proof.ev[i] OBVIOUS
      <3>5. i + 1 \in DOMAIN all /\ ~ (i + 1 <= 1) /\ i + 1 - 1 = i BY <3>3, <3>4
      <3>6. all[i + 1] = proof.ev[i] BY <3>3, <3>4, <3>5
      <3> QED BY <3>5, <3>6
    <2> HIDE DEF all
    <2>3. \A i \in DOMAIN proof.ev : \E j \in DOMAIN check'.rest : check'.rest[j] = proof.ev[i]
      <3>1. CASE job.sequent
        <4>1. check'.rest = all BY <2>1, <3>1
        <4> QED BY <2>2, <4>1
      <3>2. CASE ~ job.sequent
        <4>1. check'.rest = proof.ev BY <2>1, <3>2
        <4> QED BY <4>1
      <3> QED BY <3>1, <3>2
    <2> QED BY <2>1, <2>3 DEF CheckInvariant
  <1>6. CASE checkEvidence
    <2> DEFINE e == Head(check.rest)
               rest == Tail(check.rest)
    <2>1. /\ phase = "checking" /\ proof' = proof /\ check.rest # <<>>
          /\ check'.rest = rest /\ check'.deps = check.deps \cup DependsOn(e)
          /\ check'.sum = Worst(check.sum, SummaryOf(e)) /\ job' = job
          /\ check'.unsaid = check.unsaid \cup ({e.k} \cap Unsaid)
      BY <1>6 DEF checkEvidence
    <2>2. check.rest \in Seq(Evidence) /\ check.sum \in Summary BY DEF TypeOK, Check
    <2>3. e = check.rest[1] /\ e \in Evidence BY <2>1, <2>2, HeadTailProperties
    <2>4. \A j \in DOMAIN check.rest : j = 1 \/ \E k \in DOMAIN rest : rest[k] = check.rest[j]
      <3>1. /\ rest \in Seq(Evidence) /\ Len(rest) = Len(check.rest) - 1 /\ Len(check.rest) \in Nat
            /\ \A k \in 1..Len(rest) : rest[k] = check.rest[k + 1]
        BY <2>1, <2>2, HeadTailProperties, LenProperties
      <3> HIDE DEF rest
      <3>2. DOMAIN rest = 1..Len(rest) /\ DOMAIN check.rest = 1..Len(check.rest) BY <2>2, <3>1, LenProperties
      <3> SUFFICES ASSUME NEW j \in DOMAIN check.rest, j # 1
                   PROVE  \E k \in DOMAIN rest : rest[k] = check.rest[j]
        OBVIOUS
      <3>3. j - 1 \in DOMAIN rest /\ j - 1 + 1 = j BY <3>1, <3>2
      <3> QED BY <3>1, <3>2, <3>3
    <2> HIDE DEF e, rest
    <2>5. ASSUME NEW node, node = e PROVE Accounted(node)'
      <3>1. DependsOn(node) \subseteq check'.deps BY <2>1, <2>5
      <3>2. e.k \in {"admitted", "tested"} => check'.sum # "proved" BY <2>1, <2>2, <2>3, NodeSummary
      <3>3. DependsOn(node)' = DependsOn(node) BY DEF DependsOn
      <3>4. {node.k} \cap Unsaid \subseteq check'.unsaid BY <2>1, <2>5
      <3> QED BY <2>5, <3>1, <3>2, <3>3, <3>4 DEF Accounted
    <2>6. ASSUME NEW node, Accounted(node) PROVE Accounted(node)'
      BY <2>1, <2>2, <2>3, <2>6, NodeSummary DEF Accounted
    <2>7. ASSUME NEW i \in DOMAIN proof.ev
          PROVE  (\E j \in DOMAIN rest : rest[j] = proof.ev[i]) \/ Accounted(proof.ev[i])'
      <3>1. CASE Accounted(proof.ev[i])
        <4>1. ASSUME NEW node, node = proof.ev[i] PROVE Accounted(node)' BY <2>6, <3>1, <4>1
        <4> QED BY <2>1, <4>1 DEF Accounted, DependsOn
      <3>2. CASE \E j \in DOMAIN check.rest : check.rest[j] = proof.ev[i]
        <4>1. PICK j \in DOMAIN check.rest : check.rest[j] = proof.ev[i] BY <3>2
        <4>2. CASE j = 1
          <5>1. e = proof.ev[i] BY <2>3, <4>1, <4>2
          <5>2. ASSUME NEW node, node = proof.ev[i] PROVE Accounted(node)' BY <2>5, <5>1, <5>2
          <5> QED BY <2>1, <5>2 DEF Accounted, DependsOn
        <4>3. CASE j # 1 BY <2>4, <4>1, <4>3
        <4> QED BY <4>2, <4>3
      <3> QED BY <2>1, <3>1, <3>2 DEF CheckInvariant
    <2>8. proof.goals = <<>> /\ (proof.concl = job.concl \/ check'.unsaid # {}) BY <2>1 DEF CheckInvariant
    <2> QED BY <2>1, <2>7, <2>8 DEF CheckInvariant, Accounted
  <1>7. CASE UNCHANGED vars BY <1>7 DEF vars, CheckInvariant, Accounted
  <1> QED BY <1>2, <1>3, <1>4, <1>5, <1>6, <1>7 DEF Next, OutrightStep, AnyTactic, Checking

(* All that is known of every state.                                       *)
ProofInvariant ==
  /\ EvidenceInDatabase /\ DependenciesKnown /\ ScopeInvariant
  /\ SoundStates /\ JobInvariant /\ CheckInvariant

(* It holds initially, and every step keeps it.                            *)
LEMMA InvariantInit ==
  ASSUME Init
  PROVE  ProofInvariant
  <1>1. saved = {} /\ proof = NoProof /\ phase = "idle" /\ thms = <<>> /\ check = NoCheck BY DEF Init
  <1>2. proof.goals = <<>> /\ proof.ev = <<>> /\ proof.concl.hs = <<>> /\ proof.concl.gs = <<>>
    BY <1>1 DEF NoProof, NoSequent, Unfocused
  <1>3. ScopeInvariant BY <1>1, <1>2 DEF ScopeInvariant, Scoped, FreshIn, InScope
  <1>4. EvidenceInDatabase BY <1>1, <1>2 DEF EvidenceInDatabase, InDatabase
  <1>5. DependenciesKnown BY <1>1 DEF DependenciesKnown, DependenciesRecorded, InDatabase, NoCheck
  <1>6. SoundStates /\ JobInvariant /\ CheckInvariant BY <1>1 DEF SoundStates, JobInvariant, CheckInvariant
  <1> QED BY <1>3, <1>4, <1>5, <1>6 DEF ProofInvariant

(* Every step keeps it.                                                    *)
LEMMA InvariantStays ==
  ASSUME TypeOK, TypeOK', [Next]_vars, ProofInvariant
  PROVE  ProofInvariant'
  BY EvidenceStaysInDatabase, DependenciesStayKnown, ScopeStays, SoundStay, JobStays, CheckStays
  DEF ProofInvariant

(* The theorem that a checked script makes is true, if it says it is       *)
(* proved, rests on nothing unsaid, and those it depends on are true.      *)
LEMMA MadeTheoremHolds ==
  ASSUME TypeOK, ProofInvariant, phase = "checking", check.rest = <<>>, check.sum = "proved",
         check.unsaid = {}, \A n \in check.deps : Holds(thms[n].prop)
  PROVE  Holds(job.prop)
  <1>1. proof.concl = job.concl /\ (Valid(job.concl) => Holds(job.prop))
    BY DEF ProofInvariant, JobInvariant, CheckInvariant
  <1>2. Kept(proof) BY DEF ProofInvariant, SoundStates
  <1>3. proof.goals = <<>> BY DEF ProofInvariant, CheckInvariant
  <1>4. \A i \in DOMAIN proof.ev : Accounted(proof.ev[i]) BY DEF ProofInvariant, CheckInvariant
  <1>5. Honest(proof.ev)
    <2> SUFFICES ASSUME NEW i \in DOMAIN proof.ev PROVE HonestNode(proof.ev[i])
      BY DEF Honest, HonestNode
    <2> DEFINE e == proof.ev[i]
    <2>1. DependsOn(e) \subseteq check.deps /\ e.k \notin {"admitted", "tested", "offline", "loose"}
      BY <1>4 DEF Accounted, Unsaid
    <2>2. e.k \in {"apply", "insert", "rewrite"} => e.thm \in check.deps BY <2>1 DEF DependsOn
    <2> HIDE DEF e
    <2>3. HonestNode(e) BY <2>1, <2>2 DEF HonestNode
    <2> QED BY <2>3 DEF e
  <1>6. Plain(proof.ev)
    <2>1. \A i \in DOMAIN proof.ev : {proof.ev[i].k} \cap Unsaid = {} BY <1>4 DEF Accounted
    <2> QED BY <2>1 DEF Plain, Unsaid
  <1> QED BY <1>1, <1>2, <1>3, <1>5, <1>6 DEF Kept, Implies

(* A step that adds a theorem.                                             *)
LEMMA AddedHolds ==
  ASSUME TypeOK, ProofInvariant, [Next]_vars, thms' # thms
  PROVE  \E p \in Prop, deps \in SUBSET db, sum \in Summary, unsaid \in SUBSET Unsaid, record \in BOOLEAN :
           /\ NewTheorem(p, deps, sum, unsaid, record)
           /\ sum = "proved" /\ unsaid = {} /\ (\A n \in deps : Holds(thms[n].prop)) => Holds(p)
  <1>1. CASE OutrightStep
    <2>1. PICK p, deps, sum, unsaid : Outright(p, deps, sum, unsaid) BY <1>1, OutrightTheorem
    <2> QED BY <2>1 DEF Outright
  <1>2. CASE MakeTheorem
    <2>1. /\ phase = "checking" /\ check.rest = <<>>
          /\ NewTheorem(job.prop, check.deps, check.sum, check.unsaid, job.record)
      BY <1>2 DEF MakeTheorem
    <2>2. /\ job.prop \in Prop /\ check.deps \in SUBSET db /\ check.sum \in Summary
          /\ check.unsaid \in SUBSET Unsaid
      BY <2>1 DEF TypeOK, Job, Check, ProofInvariant, DependenciesKnown
    <2>3. job.record \in BOOLEAN BY <2>1 DEF TypeOK, Job
    <2>4. check.sum = "proved" /\ check.unsaid = {} /\ (\A n \in check.deps : Holds(thms[n].prop))
            => Holds(job.prop)
      BY <2>1, MadeTheoremHolds
    <2> DEFINE p == job.prop
               deps == check.deps
               sum == check.sum
               unsaid == check.unsaid
               record == job.record
    <2>5. /\ p \in Prop /\ deps \in SUBSET db /\ sum \in Summary /\ unsaid \in SUBSET Unsaid
          /\ record \in BOOLEAN /\ NewTheorem(p, deps, sum, unsaid, record)
          /\ sum = "proved" /\ unsaid = {} /\ (\A n \in deps : Holds(thms[n].prop)) => Holds(p)
      BY <2>1, <2>2, <2>3, <2>4
    <2> HIDE DEF p, deps, sum, unsaid, record
    <2> QED BY <2>5
  <1>3. CASE AnyTactic
    BY <1>3 DEF AnyTactic, tacticIntro, tacticIntroHyps, tacticRevertHyp, tacticApplyHyp, tacticApply,
         tacticSplit, tacticSpecializeHyp, tacticInsert, tacticCut, tacticExact, tacticSolve, admitProof,
         quickcheckGoal, unfocus, focus_concl, focus_hyp, delete_hyps, delete_concl, normalize_sequent,
         goal_eval, simplifyGoal, Structural, Leaf, Tactic
  <1>4. CASE \/ \E p \in Conclusions, sequent, record \in BOOLEAN : StartProof(p, sequent, record)
             \/ proof_checkpoint \/ RestoreProof \/ EndWithoutTheorem \/ finishProof
             \/ checkEvidence \/ CheckFails \/ UNCHANGED vars
    BY <1>4 DEF StartProof, proof_checkpoint, RestoreProof, EndWithoutTheorem, finishProof, checkEvidence,
         CheckFails, BackToIdle, vars
  <1> QED BY <1>1, <1>2, <1>3, <1>4 DEF Next, OutrightStep, AnyTactic, Checking

(* Theorems that are well grounded stay true, and new ones are.             *)
LEMMA TruthStays ==
  ASSUME TypeOK, TypeOK', ProofInvariant, [Next]_vars, TheoremsHold
  PROVE  TheoremsHold'
  <1>1. CASE thms' = thms BY <1>1 DEF TheoremsHold, Grounded, Holds
  <1>2. CASE thms' # thms
    <2>1. PICK p \in Prop, deps \in SUBSET db, sum \in Summary, unsaid \in SUBSET Unsaid, record \in BOOLEAN :
            /\ NewTheorem(p, deps, sum, unsaid, record)
            /\ sum = "proved" /\ unsaid = {} /\ (\A n \in deps : Holds(thms[n].prop)) => Holds(p)
      BY <1>2, AddedHolds
    <2> DEFINE new == Len(thms) + 1
    <2>2. deps \in SUBSET Nonce BY TheoremType DEF TypeOK
    <2>3. /\ DOMAIN thms' = DOMAIN thms \cup {new} /\ new \notin DOMAIN thms
          /\ \A k \in DOMAIN thms : thms'[k] = thms[k]
          /\ thms'[new] = [prop |-> p, deps |-> deps, sum |-> sum, unsaid |-> unsaid]
      BY <2>1, <2>2, TheoremAdded
    <2> HIDE DEF new
    <2>4. thms'[new].prop = p /\ thms'[new].deps = deps /\ thms'[new].sum = sum /\ thms'[new].unsaid = unsaid
      BY <2>3
    <2>5. \A k \in DOMAIN thms : thms[k].deps \subseteq DOMAIN thms
      BY DEF ProofInvariant, DependenciesKnown, DependenciesRecorded, TypeOK
    <2> SUFFICES ASSUME NEW S \in SUBSET DOMAIN thms',
                        \A n \in S : Grounded(n)' /\ thms'[n].deps \subseteq S,
                        NEW n \in S
                 PROVE  Holds(thms'[n].prop)
      BY DEF TheoremsHold, Holds
    <2> DEFINE old == S \ {new}
    <2>6. old \in SUBSET DOMAIN thms BY <2>3
    <2>7. \A k \in old : Grounded(k) /\ thms[k].deps \subseteq old
      <3> SUFFICES ASSUME NEW k \in old PROVE Grounded(k) /\ thms[k].deps \subseteq old OBVIOUS
      <3>1. k \in DOMAIN thms /\ thms'[k] = thms[k] BY <2>3, <2>6
      <3>2. Grounded(k) BY <3>1 DEF Grounded
      <3>3. thms[k].deps \subseteq S /\ new \notin thms[k].deps BY <2>3, <2>5, <3>1
      <3> QED BY <3>2, <3>3
    <2>8. \A k \in old : Holds(thms[k].prop) BY <2>6, <2>7 DEF TheoremsHold
    <2>9. CASE n = new
      <3>1. sum = "proved" /\ unsaid = {} /\ deps \subseteq S BY <2>4, <2>9 DEF Grounded
      <3>2. deps \subseteq DOMAIN thms BY DEF TypeOK
      <3>3. deps \subseteq old BY <2>3, <3>1, <3>2
      <3>4. Holds(p) BY <2>1, <2>8, <3>1, <3>3
      <3> QED BY <2>4, <2>9, <3>4
    <2>10. CASE n # new
      <3>1. n \in old /\ thms'[n] = thms[n] BY <2>3, <2>6, <2>10
      <3> QED BY <2>8, <3>1
    <2> QED BY <2>9, <2>10
  <1> QED BY <1>1, <1>2

(* A theorem that says it is proved, whose evidence has no offline goal, no *)
(* loose proof term, no split under a quantifier and was begun for it, and  *)
(* which depends only on such theorems, is true.                            *)
THEOREM TheoremsAreTrue == Spec => []TheoremsHold
  <1>1. Init => ProofInvariant /\ TheoremsHold
    <2>1. Init => TheoremsHold BY DEF Init, TheoremsHold
    <2> QED BY <2>1, InvariantInit
  <1>2. TypeOK /\ TypeOK' /\ [Next]_vars /\ ProofInvariant /\ TheoremsHold
          => ProofInvariant' /\ TheoremsHold'
    BY InvariantStays, TruthStays
  <1>3. Spec => []TypeOK BY ProofTypes
  <1> QED BY <1>1, <1>2, <1>3, PTL DEF Spec

(* The database implements TheoremBase.                                    *)
THEOREM DatabaseImplementsBase == Spec => ImplementsBase
  <1>1. Init => ProofInvariant /\ Base!Init
    <2>1. Init => Base!Init BY DEF Init, Base!Init
    <2> QED BY <2>1, InvariantInit
  <1>2. TypeOK /\ TypeOK' /\ [Next]_vars /\ ProofInvariant => ProofInvariant' /\ [Base!Next]_thms
    <2> SUFFICES ASSUME TypeOK, TypeOK', [Next]_vars, ProofInvariant, thms' # thms PROVE Base!Next
      BY InvariantStays
    <2>1. PICK p \in Prop, deps \in SUBSET db, sum \in Summary, unsaid \in SUBSET Unsaid, record \in BOOLEAN :
            /\ NewTheorem(p, deps, sum, unsaid, record)
            /\ sum = "proved" /\ unsaid = {} /\ (\A n \in deps : Holds(thms[n].prop)) => Holds(p)
      BY AddedHolds
    <2>2. deps \in SUBSET Nonce /\ deps \subseteq DOMAIN thms BY TheoremType DEF TypeOK
    <2> DEFINE thm == [prop |-> p, deps |-> deps, sum |-> sum, unsaid |-> unsaid]
    <2>3. Len(thms') = Len(thms) + 1 /\ thms'[Len(thms) + 1] = thm /\ thms' = Append(thms, thm)
      BY <2>1, <2>2, TheoremAdded DEF NewTheorem
    <2>4. thms'[Len(thms')] = thm BY <2>3
    <2>5. thm.prop = p /\ thm.deps = deps /\ thm.sum = sum /\ thm.unsaid = unsaid OBVIOUS
    <2> HIDE DEF thm
    <2>6. sum = "proved" /\ unsaid = {} /\ (\A n \in deps : Truth[thms[n].prop] = Model) => Truth[p] = Model
      BY <2>1 DEF Holds
    <2>7. Base!Accept(p, deps, sum, unsaid) BY <2>2, <2>3, <2>6 DEF Base!Accept, Base!True, thm
    <2> QED BY <2>3, <2>4, <2>5, <2>7 DEF Base!Next
  <1>3. Spec => []TypeOK BY ProofTypes
  <1> QED BY <1>1, <1>2, <1>3, PTL DEF Spec, ImplementsBase, Base!Spec

-----------------------------------------------------------------------------
(* The check retraces the tactics.                                         *)

(* A node of evidence takes what is to be proved, and leaves what its      *)
(* children are to prove before the rest.                                  *)
Takes(e, from, to) ==
  /\ from # <<>> /\ Accepts(e, Head(from))
  /\ to = Subgoals(e, Head(from)) \o Tail(from)

(* The evidence, node by node, leads from some sequents to others.         *)
Retraces(from, ev, to) ==
  \E run \in [1..Len(ev) + 1 -> Seq(Sequent)] :
    /\ run[1] = from /\ run[Len(ev) + 1] = to
    /\ \A i \in 1..Len(ev) : Takes(ev[i], run[i], run[i + 1])

LEMMA RetracesNothing ==
  ASSUME NEW from \in Seq(Sequent)
  PROVE  /\ Retraces(from, <<>>, from)
         /\ \A to : Retraces(from, <<>>, to) => to = from
  <1> DEFINE run == [i \in 1..1 |-> from]
  <1>1. Len(<<>>) = 0 /\ 0 + 1 = 1 /\ 1..0 = {} OBVIOUS
  <1>2. run \in [1..1 -> Seq(Sequent)] /\ run[1] = from OBVIOUS
  <1> HIDE DEF run
  <1>3. Retraces(from, <<>>, from) BY <1>1, <1>2 DEF Retraces
  <1>4. ASSUME NEW to, Retraces(from, <<>>, to) PROVE to = from BY <1>1, <1>4 DEF Retraces
  <1> QED BY <1>3, <1>4

(* Sequents that nodes take, and what is left, are sequents.               *)
LEMMA TakesType ==
  ASSUME NEW e \in Evidence, NEW from \in Seq(Sequent), NEW to, Takes(e, from, to)
  PROVE  to \in Seq(Sequent)
  <1>1. Head(from) \in Sequent /\ Tail(from) \in Seq(Sequent) BY HeadTailProperties DEF Takes
  <1>2. Subgoals(e, Head(from)) \in Seq(Sequent) BY <1>1, SubgoalTypes DEF Takes
  <1> QED BY <1>1, <1>2, ConcatProperties DEF Takes

(* One more node.                                                          *)
LEMMA RetracesAppended ==
  ASSUME NEW from, NEW ev \in Seq(Evidence), NEW to, NEW e \in Evidence, NEW next,
         Retraces(from, ev, to), Takes(e, to, next)
  PROVE  Retraces(from, Append(ev, e), next)
  <1>1. PICK n \in Nat : n = Len(ev) BY LenProperties
  <1>2. PICK run \in [1..n + 1 -> Seq(Sequent)] :
          /\ run[1] = from /\ run[n + 1] = to
          /\ \A i \in 1..n : Takes(ev[i], run[i], run[i + 1])
    BY <1>1 DEF Retraces
  <1> DEFINE more == [i \in 1..n + 2 |-> IF i <= n + 1 THEN run[i] ELSE next]
             ev2 == Append(ev, e)
  <1>3. /\ ev2 \in Seq(Evidence) /\ Len(ev2) = n + 1 /\ ev2[n + 1] = e
        /\ \A i \in 1..n : ev2[i] = ev[i]
    BY <1>1, AppendProperties
  <1>4. next \in Seq(Sequent) BY <1>2, TakesType
  <1>5. /\ more \in [1..n + 2 -> Seq(Sequent)] /\ more[1] = from /\ more[n + 2] = next
        /\ \A i \in 1..n + 1 : more[i] = run[i]
    BY <1>2, <1>4
  <1> HIDE DEF more, ev2
  <1>6. ASSUME NEW i \in 1..n + 1 PROVE Takes(ev2[i], more[i], more[i + 1])
    <2>1. CASE i \in 1..n
      <3>1. i + 1 \in 1..n + 1 BY <2>1
      <3> QED BY <1>2, <1>3, <1>5, <2>1, <3>1
    <2>2. CASE i = n + 1
      <3>1. i + 1 = n + 2 /\ more[i] = to BY <1>2, <1>5, <2>2
      <3> QED BY <1>3, <1>5, <2>2, <3>1
    <2> QED BY <2>1, <2>2
  <1>7. Len(ev2) + 1 = n + 2 BY <1>3
  <1>8. Retraces(from, ev2, next) BY <1>3, <1>5, <1>6, <1>7 DEF Retraces
  <1> QED BY <1>8 DEF ev2

(* A sequent before others.                                                *)
LEMMA ConsHeadTail ==
  ASSUME NEW s \in Sequent, NEW t \in Seq(Sequent)
  PROVE  Head(<<s>> \o t) = s /\ Tail(<<s>> \o t) = t
  <1> HIDE DEF Sequent
  <1> DEFINE all == <<s>> \o t
  <1>1. /\ all \in Seq(Sequent) /\ Len(all) = 1 + Len(t) /\ all[1] = s
        /\ \A i \in 1..Len(t) : all[i + 1] = t[i]
    OBVIOUS
  <1>2. Len(t) \in Nat /\ all # <<>> BY <1>1
  <1> HIDE DEF all
  <1>3. /\ Head(all) = s /\ Tail(all) \in Seq(Sequent) /\ Len(Tail(all)) = Len(t)
        /\ \A i \in 1..Len(t) : Tail(all)[i] = t[i]
    BY <1>1, <1>2, HeadTailProperties
  <1>4. Tail(all) = t BY <1>3, SeqEqual
  <1> QED BY <1>3, <1>4 DEF all

(* A structural node in place of another.                                  *)
LEMMA RetracesReplaced ==
  ASSUME NEW from, NEW ev \in Seq(Evidence), NEW to, NEW e \in Evidence, NEW next,
         Retraces(from, ev, to), Takes(e, to, next),
         e.k = "structural", ev # <<>>, ev[Len(ev)].k = "structural"
  PROVE  Retraces(from, [ev EXCEPT ![Len(ev)] = e], next)
  <1>1. PICK n \in Nat : n = Len(ev) BY LenProperties
  <1>2. PICK run \in [1..n + 1 -> Seq(Sequent)] :
          /\ run[1] = from /\ run[n + 1] = to
          /\ \A i \in 1..n : Takes(ev[i], run[i], run[i + 1])
    BY <1>1 DEF Retraces
  <1>3. n \in 1..n /\ n # 0 BY <1>1, EmptySeq
  <1> DEFINE last == ev[n]
             old == run[n]
             more == [i \in 1..n + 1 |-> IF i <= n THEN run[i] ELSE next]
             ev2 == [ev EXCEPT ![n] = e]
  <1>4. /\ ev2 \in Seq(Evidence) /\ Len(ev2) = n
        /\ \A i \in 1..n : ev2[i] = IF i = n THEN e ELSE ev[i]
    BY <1>1, <1>3, ExceptSeq
  <1>5. next \in Seq(Sequent) BY <1>2, TakesType
  <1>6. /\ more \in [1..n + 1 -> Seq(Sequent)] /\ more[1] = from /\ more[n + 1] = next
        /\ \A i \in 1..n : more[i] = run[i]
    BY <1>2, <1>3, <1>5
  <1>7. Takes(e, old, next)
    <2>1. Takes(last, old, to) /\ old \in Seq(Sequent) BY <1>2, <1>3
    <2>2. last \in Evidence /\ last.k = "structural" BY <1>1, <1>3
    <2>3. e.s \in Sequent /\ last.s \in Sequent BY <2>2 DEF Evidence, Leaves, Terms, Splits
    <2> HIDE DEF last, old
    <2>4. ASSUME NEW s, NEW d, d.k = "structural"
          PROVE (Accepts(d, s) <=> sequentSubsumes(d.s, s)) /\ Subgoals(d, s) = <<d.s>>
      BY <2>4 DEF Accepts, Subgoals, Leaves, Terms, Splits
    <2>5. /\ old # <<>> /\ sequentSubsumes(last.s, Head(old)) /\ to = <<last.s>> \o Tail(old)
      BY <2>1, <2>2, <2>4 DEF Takes
    <2>6. Tail(old) \in Seq(Sequent) BY <2>1, <2>5, HeadTailProperties
    <2>7. Head(to) = last.s /\ Tail(to) = Tail(old) BY <2>3, <2>5, <2>6, ConsHeadTail
    <2>8. sequentSubsumes(e.s, last.s) /\ next = <<e.s>> \o Tail(old) BY <2>4, <2>7 DEF Takes
    <2>9. sequentSubsumes(e.s, Head(old)) BY <2>5, <2>8 DEF sequentSubsumes
    <2> QED BY <2>4, <2>5, <2>8, <2>9 DEF Takes
  <1> HIDE DEF last, more, ev2
  <1>8. ASSUME NEW i \in 1..n PROVE Takes(ev2[i], more[i], more[i + 1])
    <2>1. CASE i = n BY <1>3, <1>4, <1>6, <1>7, <2>1
    <2>2. CASE i # n
      <3>1. i + 1 \in 1..n BY <2>2
      <3> QED BY <1>2, <1>4, <1>6, <2>2, <3>1
    <2> QED BY <2>1, <2>2
  <1>9. Retraces(from, ev2, next) BY <1>4, <1>6, <1>8 DEF Retraces
  <1> QED BY <1>1, <1>9 DEF ev2

(* One more node, as tactics leave it.                                     *)
LEMMA RetracesGrown ==
  ASSUME NEW from, NEW ev \in Seq(Evidence), NEW to, NEW e \in Evidence, NEW next,
         Retraces(from, ev, to), Takes(e, to, next)
  PROVE  Retraces(from, Grown(ev, e), next)
  <1>1. CASE e.k = "structural" /\ ev # <<>> /\ ev[Len(ev)].k = "structural"
    <2>1. Grown(ev, e) = [ev EXCEPT ![Len(ev)] = e] BY <1>1 DEF Grown
    <2>2. Retraces(from, [ev EXCEPT ![Len(ev)] = e], next) BY <1>1, RetracesReplaced, Zenon
    <2> QED BY <2>1, <2>2
  <1>2. CASE ~ (e.k = "structural" /\ ev # <<>> /\ ev[Len(ev)].k = "structural")
    <2>1. Grown(ev, e) = Append(ev, e) BY <1>2 DEF Grown
    <2> QED BY <2>1, RetracesAppended
  <1> QED BY <1>1, <1>2

(* The first node, and the others.                                         *)
LEMMA RetracesFirst ==
  ASSUME NEW from, NEW ev \in Seq(Evidence), NEW to, Retraces(from, ev, to), ev # <<>>
  PROVE  \E next : Takes(Head(ev), from, next) /\ Retraces(next, Tail(ev), to)
  <1>1. PICK n \in Nat : n + 1 = Len(ev)
    <2>1. Len(ev) \in Nat /\ Len(ev) # 0 BY LenProperties, EmptySeq
    <2> DEFINE k == Len(ev) - 1
    <2>2. k \in Nat /\ k + 1 = Len(ev) BY <2>1
    <2> HIDE DEF k
    <2> QED BY <2>2
  <1>2. PICK run \in [1..n + 2 -> Seq(Sequent)] :
          /\ run[1] = from /\ run[n + 2] = to
          /\ \A i \in 1..n + 1 : Takes(ev[i], run[i], run[i + 1])
    <2>1. PICK run \in [1..Len(ev) + 1 -> Seq(Sequent)] :
            /\ run[1] = from /\ run[Len(ev) + 1] = to
            /\ \A i \in 1..Len(ev) : Takes(ev[i], run[i], run[i + 1])
      BY DEF Retraces
    <2>2. Len(ev) + 1 = n + 2 /\ Len(ev) = n + 1 BY <1>1
    <2> QED BY <2>1, <2>2
  <1> DEFINE rest == Tail(ev)
             less == [i \in 1..n + 1 |-> run[i + 1]]
  <1>3. /\ Head(ev) = ev[1] /\ rest \in Seq(Evidence) /\ Len(rest) = n
        /\ \A i \in 1..n : rest[i] = ev[i + 1]
    <2>1. /\ Head(ev) = ev[1] /\ rest \in Seq(Evidence) /\ Len(rest) = Len(ev) - 1
          /\ \A i \in 1..Len(rest) : rest[i] = ev[i + 1]
      BY HeadTailProperties
    <2>2. Len(ev) - 1 = n BY <1>1
    <2> HIDE DEF rest
    <2> QED BY <2>1, <2>2
  <1>4. /\ less \in [1..n + 1 -> Seq(Sequent)] /\ less[1] = run[2] /\ less[n + 1] = to
        /\ \A i \in 1..n + 1 : less[i] = run[i + 1]
    BY <1>2
  <1> HIDE DEF rest, less
  <1>5. Takes(Head(ev), from, run[2])
    <2>1. 1 \in 1..n + 1 /\ 1 + 1 = 2 OBVIOUS
    <2> QED BY <1>2, <1>3, <2>1
  <1>6. ASSUME NEW i \in 1..n PROVE Takes(rest[i], less[i], less[i + 1])
    <2>1. i \in 1..n + 1 /\ i + 1 \in 1..n + 1 OBVIOUS
    <2> QED BY <1>2, <1>3, <1>4, <2>1
  <1>7. Retraces(run[2], rest, to) BY <1>3, <1>4, <1>6 DEF Retraces
  <1> QED BY <1>5, <1>7 DEF rest

(* A node before the others.                                               *)
LEMMA RetracesAfter ==
  ASSUME NEW from \in Seq(Sequent), NEW e \in Evidence, NEW next, NEW ev \in Seq(Evidence), NEW to,
         Takes(e, from, next), Retraces(next, ev, to)
  PROVE  Retraces(from, <<e>> \o ev, to)
  <1>1. PICK n \in Nat : n = Len(ev) BY LenProperties
  <1>2. PICK run \in [1..n + 1 -> Seq(Sequent)] :
          /\ run[1] = next /\ run[n + 1] = to
          /\ \A i \in 1..n : Takes(ev[i], run[i], run[i + 1])
    BY <1>1 DEF Retraces
  <1> DEFINE all == <<e>> \o ev
             more == [i \in 1..n + 2 |-> IF i = 1 THEN from ELSE run[i - 1]]
  <1>3. /\ all \in Seq(Evidence) /\ Len(all) = n + 1 /\ all[1] = e
        /\ \A i \in 2..n + 1 : all[i] = ev[i - 1]
    <2> DEFINE one == <<e>>
    <2>1. one \in Seq(Evidence) /\ Len(one) = 1 /\ one[1] = e
      <3> HIDE DEF Evidence
      <3> QED OBVIOUS
    <2>4. all = one \o ev OBVIOUS
    <2> HIDE DEF one, all
    <2>2. /\ one \o ev \in Seq(Evidence) /\ Len(one \o ev) = Len(one) + Len(ev)
          /\ \A i \in 1..Len(one) + Len(ev) : (one \o ev)[i] = IF i <= Len(one) THEN one[i] ELSE ev[i - Len(one)]
      BY <2>1, ConcatProperties
    <2>3. \A i \in 2..n + 1 : i \in 1..1 + n /\ ~ (i <= 1) OBVIOUS
    <2>5. 1 \in 1..1 + n /\ 1 + n = n + 1 OBVIOUS
    <2> QED BY <1>1, <2>1, <2>2, <2>3, <2>4, <2>5
  <1>4. /\ more \in [1..n + 2 -> Seq(Sequent)] /\ more[1] = from /\ more[n + 2] = to
        /\ \A i \in 2..n + 2 : more[i] = run[i - 1]
    <2>1. \A i \in 1..n + 2 : i # 1 => i - 1 \in 1..n + 1 OBVIOUS
    <2>2. n + 2 # 1 /\ n + 2 - 1 = n + 1 /\ n + 2 \in 1..n + 2 /\ 1 \in 1..n + 2 OBVIOUS
    <2>3. \A i \in 2..n + 2 : i # 1 /\ i \in 1..n + 2 OBVIOUS
    <2> QED BY <1>2, <2>1, <2>2, <2>3
  <1> HIDE DEF all, more
  <1>5. ASSUME NEW i \in 1..n + 1 PROVE Takes(all[i], more[i], more[i + 1])
    <2>1. CASE i = 1
      <3>1. i + 1 \in 2..n + 2 /\ i + 1 - 1 = 1 BY <2>1
      <3>2. more[i + 1] = next BY <1>2, <1>4, <3>1
      <3> QED BY <1>3, <1>4, <2>1, <3>2
    <2>2. CASE i # 1
      <3>1. i \in 2..n + 1 /\ i \in 2..n + 2 /\ i + 1 \in 2..n + 2 /\ i + 1 - 1 = i /\ i - 1 \in 1..n /\ i - 1 + 1 = i
        BY <2>2
      <3>2. Takes(ev[i - 1], run[i - 1], run[i]) BY <1>2, <3>1
      <3> QED BY <1>3, <1>4, <3>1, <3>2
    <2> QED BY <2>1, <2>2
  <1>6. Len(all) + 1 = n + 2 BY <1>3
  <1>7. Retraces(from, all, to) BY <1>3, <1>4, <1>5, <1>6 DEF Retraces
  <1> QED BY <1>7 DEF all

(* A proof state's evidence leads from its conclusion to its goals, and    *)
(* what is left of the evidence to nothing.                                *)
Retraced(ps) == Retraces(<<ps.concl>>, ps.ev, ps.goals)
Completes(c) == Retraces(c.todo, c.rest, <<>>)

(* That depends on nothing but the theorems.                               *)
LEMMA RetracesKept ==
  ASSUME thms' = thms
  PROVE  /\ \A ps : Retraced(ps) => Retraced(ps)'
         /\ \A c : Completes(c) => Completes(c)'
  <1>1. ASSUME NEW e, NEW s PROVE Accepts(e, s) <=> Accepts(e, s)' BY DEF Accepts
  <1>2. ASSUME NEW e, NEW from, NEW to PROVE Takes(e, from, to) <=> Takes(e, from, to)'
    BY <1>1 DEF Takes
  <1>3. ASSUME NEW from, NEW ev, NEW to PROVE Retraces(from, ev, to) => Retraces(from, ev, to)'
    BY <1>2 DEF Retraces
  <1>4. ASSUME NEW ps, Retraced(ps) PROVE Retraced(ps)' BY <1>3, <1>4 DEF Retraced
  <1>5. ASSUME NEW c, Completes(c) PROVE Completes(c)' BY <1>3, <1>5 DEF Completes
  <1> QED BY <1>4, <1>5

(* What a script sets out to prove.                                        *)
SetOut(p, sequent) ==
  IF sequent THEN OnConcl(<<Impl[p].l>>, <<Impl[p].r>>, 1) ELSE propToSequent(p)

(* Every proof state at hand is retraced and, from then on, so is the check.*)
OwnInvariant ==
  /\ phase # "idle" /\ job.prop \notin Weakens =>
       /\ \A ps \in saved \cup {proof} : Retraced(ps)
       /\ job.concl = SetOut(job.prop, job.sequent)
       /\ job.sequent => job.prop \in DOMAIN Impl
  /\ phase = "checking" /\ job.prop \notin Weakens /\ proof.concl = job.concl =>
       \A c \in {check} : Completes(c)

(* A tactic's step is one that the check can take.                         *)
LEMMA TacticRetraced ==
  ASSUME TypeOK, NEW new, NEW e, Step(new, e), job.prop \notin Weakens, Retraced(proof),
         NEW ps, ps = proof'
  PROVE  Retraced(ps)
  <1> DEFINE goals == new \o Tail(proof.goals)
  <1>1. /\ proof.ev \in Seq(Evidence) /\ e \in Evidence /\ proof.goals # <<>>
    BY DEF TypeOK, ProofState, Step, HasGoal
  <1>2. Takes(e, proof.goals, goals) BY <1>1 DEF Takes, Step, Follows, Goal
  <1>3. ps = [goals |-> goals, concl |-> proof.concl, ev |-> Grown(proof.ev, e)] BY NewGoals
  <1> HIDE DEF goals
  <1>4. ps.goals = goals /\ ps.concl = proof.concl /\ ps.ev = Grown(proof.ev, e) BY <1>3
  <1>5. Retraces(<<proof.concl>>, Grown(proof.ev, e), goals) BY <1>1, <1>2, RetracesGrown DEF Retraced
  <1> QED BY <1>4, <1>5 DEF Retraced

(* The first node of a verification condition's evidence: the sequent is a *)
(* normal form of the proposition.                                         *)
LEMMA SequentTaken ==
  ASSUME NEW p \in DOMAIN Impl, NEW s, s = SetOut(p, TRUE)
  PROVE  /\ propToSequent(p) \in Sequent /\ s \in Sequent
         /\ Takes([k |-> "normalize", s |-> s], <<propToSequent(p)>>, <<s>>)
  <1> DEFINE hs == <<Impl[p].l>>
             gs == <<Impl[p].r>>
             none == <<>>
             one == <<p>>
             from == propToSequent(p)
             e == [k |-> "normalize", s |-> s]
  <1>1. p \in Prop /\ Impl[p].l \in Prop /\ Impl[p].r \in Prop BY ImplParts
  <1>2. /\ hs \in Seq(Prop) /\ gs \in Seq(Prop) /\ one \in Seq(Prop) /\ none \in Seq(Prop)
        /\ 1 \in DOMAIN gs /\ 1 \in DOMAIN one
        /\ Elems(hs) = {Impl[p].l} /\ Elems(gs) = {Impl[p].r} /\ Elems(one) = {p} /\ Elems(none) = {}
    BY <1>1 DEF Elems
  <1>3. s = OnConcl(hs, gs, 1) /\ from = OnConcl(none, one, 1) BY DEF SetOut, propToSequent
  <1> HIDE DEF hs, gs, none, one, from
  <1>4. s \in Sequent /\ s.hs = hs /\ s.gs = gs /\ from \in Sequent /\ from.hs = none /\ from.gs = one
    <2>1. OnConcl(hs, gs, 1) \in Sequent /\ OnConcl(none, one, 1) \in Sequent BY <1>2, SequentOf
    <2>2. ASSUME NEW h, NEW g PROVE OnConcl(h, g, 1).hs = h /\ OnConcl(h, g, 1).gs = g
      BY DEF OnConcl
    <2>3. s \in Sequent BY <1>3, <2>1
    <2>4. s.hs = hs BY <1>3, <2>2
    <2>5. s.gs = gs BY <1>3, <2>2
    <2>6. from \in Sequent BY <1>3, <2>1
    <2>7. from.hs = none BY <1>3, <2>2
    <2>8. from.gs = one BY <1>3, <2>2
    <2> QED BY <2>3, <2>4, <2>5, <2>6, <2>7, <2>8
  <1>5. FormsOf(s) = {<<"hyp", Impl[p].l>>, <<"concl", Impl[p].r>>} /\ FormsOf(from) = {<<"concl", p>>}
    BY <1>2, <1>4 DEF FormsOf
  <1>6. /\ Norm[<<"concl", p>>].hs = Norm[<<"hyp", Impl[p].l>>].hs \cup Norm[<<"concl", Impl[p].r>>].hs
        /\ Norm[<<"concl", p>>].gs = Norm[<<"hyp", Impl[p].l>>].gs \cup Norm[<<"concl", Impl[p].r>>].gs
    BY ImplForm
  <1>7. \A x \in FormsOf(s) : Norm[x].hs \subseteq normalizeSequent(from).hs BY <1>5, <1>6, NormalElements
  <1>8. \A x \in FormsOf(from) : Norm[x].gs \subseteq normalizeSequent(s).gs BY <1>5, <1>6, NormalElements
  <1>9. normalizeSequentSubsumes(s, from) BY <1>7, <1>8, FormsSubsume
  <1>10. e.k = "normalize" /\ e.s = s OBVIOUS
  <1> HIDE DEF e
  <1>11. Accepts(e, from) /\ Subgoals(e, from) = <<s>> BY <1>9, <1>10 DEF Accepts, Subgoals, Leaves, Terms, Splits
  <1>12. <<from>> # <<>> /\ Head(<<from>>) = from /\ <<s>> \o Tail(<<from>>) = <<s>>
    <2>1. from \in Sequent /\ s \in Sequent BY <1>4
    <2>2. ASSUME NEW t \in Sequent
          PROVE  <<t>> \in Seq(Sequent) /\ <<t>> # <<>> /\ Head(<<t>>) = t /\ Tail(<<t>>) = <<>>
      OBVIOUS
    <2> QED BY <2>1, <2>2, ConcatEmptySeq
  <1>13. Takes(e, <<from>>, <<s>>) BY <1>11, <1>12 DEF Takes
  <1> QED BY <1>4, <1>13 DEF e, from

(* A proof state that begins with what it is to conclude is retraced.      *)
LEMMA OwnRetraced ==
  ASSUME NEW c \in Sequent, NEW ps, ps = [goals |-> <<c>>, concl |-> c, ev |-> <<>>]
  PROVE  Retraced(ps)
  <1>1. ps.goals = <<c>> /\ ps.concl = c /\ ps.ev = <<>> OBVIOUS
  <1>2. <<c>> \in Seq(Sequent) OBVIOUS
  <1>3. Retraces(<<c>>, <<>>, <<c>>) BY <1>2, RetracesNothing
  <1> QED BY <1>1, <1>3 DEF Retraced

(* What finishProof makes the check begin with leads to nothing.           *)
LEMMA FinishedCompletes ==
  ASSUME TypeOK, finishProof, OwnInvariant, job.prop \notin Weakens, proof.concl = job.concl,
         NEW c, c = check'
  PROVE  Completes(c)
  <1> DEFINE from == propToSequent(job.prop)
             first == [k |-> "normalize", s |-> proof.concl]
  <1>1. phase = "proving" /\ proof.goals = <<>> BY DEF finishProof
  <1>2. /\ proof.ev \in Seq(Evidence) /\ job.prop \in Prop /\ job.sequent \in BOOLEAN
        /\ proof.concl \in Sequent
    BY <1>1 DEF TypeOK, ProofState, Job
  <1>3. /\ Retraced(proof) /\ job.concl = SetOut(job.prop, job.sequent)
        /\ (job.sequent => job.prop \in DOMAIN Impl)
    BY <1>1 DEF OwnInvariant
  <1>4. Retraces(<<job.concl>>, proof.ev, <<>>) BY <1>1, <1>3 DEF Retraced
  <1>5. /\ c.todo = <<from>>
        /\ c.rest = IF job.sequent THEN <<first>> \o proof.ev ELSE proof.ev
    BY DEF finishProof
  <1> HIDE DEF from, first
  <1>6. CASE ~ job.sequent
    <2>1. job.concl = from BY <1>3, <1>6 DEF SetOut, from
    <2> QED BY <1>4, <1>5, <1>6, <2>1 DEF Completes
  <1>7. CASE job.sequent
    <2>1. job.concl = SetOut(job.prop, TRUE) BY <1>2, <1>3, <1>7
    <2>2. /\ from \in Sequent /\ job.concl \in Sequent
          /\ Takes([k |-> "normalize", s |-> job.concl], <<from>>, <<job.concl>>)
      BY <1>3, <1>7, <2>1, SequentTaken DEF from
    <2>3. Takes(first, <<from>>, <<job.concl>>) BY <2>2 DEF first
    <2>4. first \in Evidence BY <1>2 DEF first, Evidence
    <2>5. <<from>> \in Seq(Sequent) BY <2>2
    <2>6. Retraces(<<from>>, <<first>> \o proof.ev, <<>>) BY <1>2, <1>4, <2>3, <2>4, <2>5, RetracesAfter
    <2> QED BY <1>5, <1>7, <2>6 DEF Completes
  <1> QED BY <1>2, <1>6, <1>7

(* One node of the check: what is left still leads to nothing.             *)
LEMMA CheckedCompletes ==
  ASSUME TypeOK, checkEvidence, Completes(check), NEW c, c = check'
  PROVE  Completes(c)
  <1> DEFINE e == Head(check.rest)
             next == Subgoals(e, Head(check.todo)) \o Tail(check.todo)
  <1>1. check.rest # <<>> /\ c.todo = next /\ c.rest = Tail(check.rest) BY DEF checkEvidence
  <1>2. check.rest \in Seq(Evidence) BY DEF TypeOK, Check
  <1>3. PICK to : Takes(e, check.todo, to) /\ Retraces(to, Tail(check.rest), <<>>)
    BY <1>1, <1>2, RetracesFirst DEF Completes
  <1>4. to = next BY <1>3 DEF Takes
  <1> QED BY <1>1, <1>3, <1>4 DEF Completes

(* Every step keeps that.                                                  *)
LEMMA OwnStays ==
  ASSUME Foreign \subseteq Weakens, TypeOK, TypeOK', [Next]_vars, OwnInvariant
  PROVE  OwnInvariant'
  <1>1. ASSUME phase' = "idle" PROVE OwnInvariant' BY <1>1 DEF OwnInvariant
  <1>2. ASSUME thms' = thms, NEW ps, Retraced(ps) PROVE Retraced(ps)' BY <1>2, RetracesKept
  <1>3. ASSUME thms' = thms, NEW c, Completes(c) PROVE Completes(c)' BY <1>3, RetracesKept
  (* The proof states, while the script and the theorems are the same.     *)
  <1>4. ASSUME thms' = thms, job' = job, phase # "idle",
               \A ps \in saved' \cup {proof'} : job.prop \notin Weakens => Retraced(ps)
        PROVE  (phase # "idle" /\ job.prop \notin Weakens =>
                  /\ \A ps \in saved \cup {proof} : Retraced(ps)
                  /\ job.concl = SetOut(job.prop, job.sequent)
                  /\ job.sequent => job.prop \in DOMAIN Impl)'
    <2>1. ASSUME job.prop \notin Weakens, NEW ps \in saved' \cup {proof'} PROVE Retraced(ps)'
      BY <1>2, <1>4, <2>1
    <2>2. job.prop \notin Weakens =>
            /\ job.concl = SetOut(job.prop, job.sequent)
            /\ job.sequent => job.prop \in DOMAIN Impl
      BY <1>4 DEF OwnInvariant
    <2>3. SetOut(job.prop, job.sequent)' = SetOut(job.prop, job.sequent) BY <1>4 DEF SetOut
    <2> QED BY <1>4, <2>1, <2>2, <2>3
  <1>5. ASSUME thms' = thms, job' = job, phase # "idle", saved' \cup {proof'} \subseteq saved \cup {proof}
        PROVE  \A ps \in saved' \cup {proof'} : job.prop \notin Weakens => Retraced(ps)
    BY <1>5 DEF OwnInvariant
  <1>6. CASE OutrightStep
    <2>1. phase' = "idle" BY <1>6, OutrightTheorem DEF Outright
    <2> QED BY <1>1, <2>1
  <1>7. ASSUME NEW p \in Conclusions, NEW sequent \in BOOLEAN, NEW record \in BOOLEAN,
               StartProof(p, sequent, record)
        PROVE  OwnInvariant'
    <2>1. /\ phase' = "proving" /\ saved' = {} /\ thms' = thms
          /\ job' = [prop |-> p, concl |-> SetOut(p, sequent), record |-> record, sequent |-> sequent]
          /\ sequent => p \in DOMAIN Impl
      BY <1>7 DEF StartProof, SetOut
    <2>2. job'.prop = p /\ job'.concl = SetOut(p, sequent) /\ job'.sequent = sequent BY <2>1
    <2>3. ASSUME p \notin Weakens, NEW ps, ps = proof' PROVE Retraced(ps)'
      <3>1. proof' = [goals |-> <<job'.concl>>, concl |-> job'.concl, ev |-> <<>>] /\ job'.concl \in Sequent
        BY <1>7, <2>3, Started
      <3>2. Retraced(ps) BY <2>3, <3>1, OwnRetraced
      <3> QED BY <1>2, <2>1, <3>2
    <2>4. \A ps \in saved' \cup {proof'} : p \notin Weakens => Retraced(ps)' BY <2>1, <2>3
    <2>5. (job.concl = SetOut(job.prop, job.sequent))' BY <2>2 DEF SetOut
    <2> QED BY <2>1, <2>2, <2>4, <2>5 DEF OwnInvariant
  <1>8. CASE AnyTactic
    <2>1. PICK new, e : Step(new, e) BY <1>8, TacticStep
    <2>2. thms' = thms /\ job' = job /\ saved' = saved /\ phase = "proving" /\ phase' = "proving"
      BY <2>1, StepEvidence
    <2>3. ASSUME job.prop \notin Weakens, NEW ps \in saved' \cup {proof'} PROVE Retraced(ps)
      <3>1. \A old \in saved \cup {proof} : Retraced(old) BY <2>2, <2>3 DEF OwnInvariant
      <3>2. CASE ps = proof' BY <2>1, <2>3, <3>1, <3>2, TacticRetraced
      <3>3. CASE ps \in saved BY <3>1, <3>3
      <3> QED BY <2>2, <2>3, <3>2, <3>3
    <2> QED BY <1>4, <2>2, <2>3 DEF OwnInvariant
  <1>9. CASE proof_checkpoint \/ RestoreProof
    <2>1. /\ thms' = thms /\ job' = job /\ phase = "proving" /\ phase' = "proving"
          /\ saved' \cup {proof'} \subseteq saved \cup {proof}
      BY <1>9 DEF proof_checkpoint, RestoreProof
    <2> QED BY <1>4, <1>5, <2>1 DEF OwnInvariant
  <1>10. CASE finishProof
    <2>1. /\ thms' = thms /\ job' = job /\ phase = "proving" /\ phase' = "checking"
          /\ saved' = saved /\ proof' = proof
      BY <1>10 DEF finishProof
    <2>2. ASSUME job.prop \notin Weakens, proof.concl = job.concl, NEW c, c = check' PROVE Completes(c)'
      <3>1. Completes(c) BY <1>10, <2>2, FinishedCompletes
      <3> QED BY <1>3, <2>1, <3>1
    <2> QED BY <1>4, <1>5, <2>1, <2>2 DEF OwnInvariant
  <1>11. CASE checkEvidence \/ UNCHANGED vars
    <2>1. CASE phase = "idle" BY <1>1, <1>11, <2>1 DEF checkEvidence, vars
    <2>2. ASSUME phase # "idle" PROVE OwnInvariant'
      <3>1. /\ thms' = thms /\ job' = job /\ phase' = phase /\ saved' = saved /\ proof' = proof
        BY <1>11 DEF checkEvidence, vars
      <3>2. ASSUME phase = "checking", job.prop \notin Weakens, proof.concl = job.concl,
                   NEW c, c = check'
            PROVE  Completes(c)'
        <4>1. Completes(check) BY <3>2 DEF OwnInvariant
        <4>2. CASE checkEvidence
          <5>1. Completes(c) BY <3>2, <4>1, <4>2, CheckedCompletes
          <5> QED BY <1>3, <3>1, <5>1
        <4>3. CASE UNCHANGED vars
          <5>1. c = check BY <3>2, <4>3 DEF vars
          <5> QED BY <1>3, <3>1, <4>1, <5>1
        <4> QED BY <1>11, <4>2, <4>3
      <3> QED BY <1>4, <1>5, <2>2, <3>1, <3>2 DEF OwnInvariant
    <2> QED BY <2>1, <2>2
  <1>12. CASE EndWithoutTheorem \/ CheckFails \/ MakeTheorem
    BY <1>1, <1>12 DEF EndWithoutTheorem, CheckFails, MakeTheorem, BackToIdle
  <1> QED BY <1>6, <1>7, <1>8, <1>9, <1>10, <1>11, <1>12 DEF Next, OutrightStep, AnyTactic, Checking

(* Evidence that leads to nothing is used up just when nothing is left to  *)
(* prove, and its first node is accepted.                                  *)
LEMMA CompletesAccepts ==
  ASSUME TypeOK, Completes(check)
  PROVE  /\ check.todo = <<>> <=> check.rest = <<>>
         /\ check.rest # <<>> => Accepts(Head(check.rest), Head(check.todo))
  <1>1. check.rest \in Seq(Evidence) /\ check.todo \in Seq(Sequent) BY DEF TypeOK, Check
  <1>2. CASE check.rest = <<>>
    <2>1. Retraces(check.todo, <<>>, <<>>) BY <1>2 DEF Completes
    <2>2. <<>> = check.todo BY <1>1, <2>1, RetracesNothing
    <2> QED BY <1>2, <2>2
  <1>3. CASE check.rest # <<>>
    <2>1. PICK to : Takes(Head(check.rest), check.todo, to)
      BY <1>1, <1>3, RetracesFirst DEF Completes
    <2> QED BY <1>3, <2>1 DEF Takes
  <1> QED BY <1>2, <1>3

(* The evidence that a proof's own tactics leave is accepted by the check  *)
(* to its last node.  Scripts that drop a conclusion are left out, as in   *)
(* the property; a script that brings in the proof state of another one    *)
(* may bring in what that one dropped, and must count among them.          *)
THEOREM OwnEvidenceIsAccepted ==
  ASSUME Foreign \subseteq Weakens
  PROVE  Spec => []OwnEvidenceAccepted
  <1>1. Init => OwnInvariant BY DEF Init, OwnInvariant
  <1>2. TypeOK /\ TypeOK' /\ [Next]_vars /\ OwnInvariant => OwnInvariant' BY OwnStays
  <1>3. TypeOK /\ OwnInvariant => OwnEvidenceAccepted
    <2> SUFFICES ASSUME TypeOK, OwnInvariant, phase = "checking", proof.concl = job.concl,
                        job.prop \notin Weakens
                 PROVE  /\ check.todo = <<>> <=> check.rest = <<>>
                        /\ check.rest # <<>> => Accepts(Head(check.rest), Head(check.todo))
      BY DEF OwnEvidenceAccepted
    <2>1. Completes(check) BY DEF OwnInvariant
    <2> QED BY <2>1, CompletesAccepts
  <1>4. Spec => []TypeOK BY ProofTypes
  <1> QED BY <1>1, <1>2, <1>3, <1>4, PTL DEF Spec
=============================================================================
