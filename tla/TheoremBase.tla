---------------------------- MODULE TheoremBase ----------------------------
(***************************************************************************)
(* What a theorem database promises.  Theorems are only ever added, each   *)
(* names the earlier ones it rests on, and one that is summarised as       *)
(* proved, and rests on nothing its summary leaves unsaid, is true whenever *)
(* those are.                                                              *)
(***************************************************************************)
EXTENDS Naturals, Sequences

CONSTANTS Prop, Model, Truth

VARIABLE thms

True(n) == Truth[thms[n].prop] = Model

Init == thms = <<>>

Accept(p, deps, sum, unsaid) ==
  /\ deps \subseteq DOMAIN thms
  /\ sum = "proved" /\ unsaid = {} /\ (\A n \in deps : True(n)) => Truth[p] = Model
  /\ thms' = Append(thms, [prop |-> p, deps |-> deps, sum |-> sum, unsaid |-> unsaid])

Next ==
  LET new == thms'[Len(thms')] IN
  Len(thms') = Len(thms) + 1 /\ Accept(new.prop, new.deps, new.sum, new.unsaid)

Spec == Init /\ [][Next]_thms
=============================================================================
