------------------------------ MODULE MCProof -------------------------------
(***************************************************************************)
(* A small logic: an uninterpreted Boolean a, variables v and w, and some  *)
(* propositions about them, which stand for themselves as strings.         *)
(***************************************************************************)
EXTENDS ProofProperties, TLC

TwoVars == {"v", "w"}
Models == [a : BOOLEAN, v : BOOLEAN, w : BOOLEAN]

HoldsIn(m, p) ==
  CASE p \in {"tt", "a or na", "a -> a", "if a", "v -> v", "w -> w", "all x -> x", "(all x) => a",
              "v = v", "w = w", "all x = x", "v or nv", "w or nw", "all x or nx", "tt or a"} -> TRUE
    [] p \in {"ff", "all x", "all nx", "all x = v", "(all x or nx) => ff"} -> FALSE
    [] p \in {"a", "a = tt", "tt and a"} -> m.a
    [] p = "na" -> ~ m.a
    [] p = "v" -> m.v
    [] p = "w" -> m.w
    [] p = "nv" -> ~ m.v
    [] p = "nw" -> ~ m.w
    [] p \in {"w = v"} -> m.w = m.v

FreeOf(p) ==
  CASE p \in {"v", "nv", "v -> v", "v = v", "v or nv", "all x = v"} -> {"v"}
    [] p \in {"w", "nw", "w -> w", "w = w", "w or nw"} -> {"w"}
    [] p = "w = v" -> {"v", "w"}
    [] OTHER -> {}

Pair(l, r) == [l |-> l, r |-> r]
AtVars(pv, pw) == [x \in TwoVars |-> IF x = "v" THEN pv ELSE pw]

AllPis ==
  "all x" :> AtVars("v", "w") @@ "all nx" :> AtVars("nv", "nw")
    @@ "all x -> x" :> AtVars("v -> v", "w -> w") @@ "all x = x" :> AtVars("v = v", "w = w")
    @@ "all x or nx" :> AtVars("v or nv", "w or nw") @@ "all x = v" :> AtVars("v = v", "w = v")

AllImpls ==
  "a -> a" :> Pair("a", "a") @@ "v -> v" :> Pair("v", "v") @@ "w -> w" :> Pair("w", "w")
    @@ "(all x) => a" :> Pair("all x", "a") @@ "(all x or nx) => ff" :> Pair("all x or nx", "ff")

AllDisjs ==
  "a or na" :> Pair("a", "na") @@ "tt or a" :> Pair("tt", "a") @@ "v or nv" :> Pair("v", "nv") @@ "w or nw" :> Pair("w", "nw")

AllNegs == "na" :> "a" @@ "nv" :> "v" @@ "nw" :> "w"

(* What of a table is about the propositions of the run.                   *)
Within(table) == [p \in Prop \cap DOMAIN table |-> table[p]]

TruthIn == [p \in Prop |-> {m \in Models : HoldsIn(m, p)}]
FreeIn == [p \in Prop |-> FreeOf(p)]
PisIn == Within(AllPis)
ImplsIn == Within(AllImpls)
DisjsIn == Within(AllDisjs)
NegsIn == Within(AllNegs)
ConjsIn == Within("tt and a" :> Pair("tt", "a"))
ItesIn == Within("if a" :> [b |-> "a", x |-> "a", nb |-> "na", y |-> "na"])
PiDisjsIn == Within("all x or nx" :> Pair("all x", "all nx"))
EqnsIn == Within("a = tt" :> Pair("a", "tt"))
ArrowsIn == Prop \cap {"(all x) => a", "(all x or nx) => ff"}
SimpIn == [p \in Prop |-> IF p \in {"v -> v", "w -> w"} THEN "tt" ELSE p]
InstIn ==
  [p \in Prop |->
     (IF p \in DOMAIN PisIn THEN {PisIn[p]["v"], PisIn[p]["w"]} ELSE {})
       \cup (IF p = "all x" THEN Prop \cap {"ff"} ELSE {})]
Nothing == <<>>
Empty == {}

(* The run of whole proofs: true and false conclusions of every shape, and *)
(* theorems to prove them from, one of them false and admitted.            *)
Sound == {"tt", "ff", "a", "na", "a or na", "tt and a", "if a", "a -> a", "all x", "v", "w",
          "all x -> x", "v -> v", "w -> w", "(all x) => a", "a = tt"}
SoundConclusions == {"tt and a", "a -> a", "all x -> x", "(all x) => a"}
SoundCuts == {"v"}
SoundCore == {"a or na", "if a", "all x", "a = tt"}
SoundSteps == <<3, 2>>
Odd == {"(all x) => a"}   \* conclusions are dropped, and proof states brought in
Exported == {"tt and a"}  \* goals are written to files
LooseTerms == {"a", "all x"}

(* A hypothesis that is a quantified disjunction.                          *)
Quantified == {"ff", "all x or nx", "all x", "all nx", "(all x or nx) => ff",
               "v", "w", "nv", "nw", "v or nv", "w or nw"}
QuantifiedConclusions == {"(all x or nx) => ff"}

ThreeSteps == <<3>>

(* Norm keeps the meaning of every sequent of the instance.                *)
ASSUME NormSoundHere == NormSound
=============================================================================
