---------------------------- MODULE IntRangeSet ----------------------------
(***************************************************************************)
(* The pure data structure of saw-support/src/SAWSupport/IntRangeSet.hs: a *)
(* set of Ints kept as disjoint contiguous intervals.  The newtype's       *)
(* IntMap Int is a function whose domain is the lower ends of the          *)
(* intervals and whose values are their upper ends.                        *)
(*                                                                         *)
(* The kernel keeps the TermIndexes that are still usable in such a set    *)
(* (scValidTerms, see SharedContext).                                      *)
(***************************************************************************)
EXTENDS Integers

(* IntMap.lookupLE: the lower ends at or below x, and the greatest one.    *)
AtMost(x, m) == {k \in DOMAIN m : k <= x}
Floor(x, m) == CHOOSE k \in AtMost(x, m) : \A l \in AtMost(x, m) : l <= k

Empty == [k \in {} |-> 0]

Singleton(i, j) == IF i <= j THEN [k \in {i} |-> j] ELSE Empty

(* Mutant: an interval that ends at i - 1 is not joined.                   *)
InsertApart(i, j, m) ==
  LET lo == IF AtMost(i, m) # {} /\ i <= m[Floor(i, m)] THEN Floor(i, m) ELSE i
      hi == IF AtMost(j + 1, m) # {} /\ m[Floor(j + 1, m)] > j
              THEN m[Floor(j + 1, m)] ELSE j
      kept == {k \in DOMAIN m : k < i \/ k > j + 1}
  IN  IF i > j THEN m
      ELSE [k \in kept \cup {lo} |-> IF k = lo THEN hi ELSE m[k]]

(* Mutant: the interval that reaches over i is cut at i.                   *)
DeleteShort(i, j, m) ==
  LET cutLo == AtMost(i - 1, m) # {} /\ i <= m[Floor(i - 1, m)]
      cutHi == AtMost(j, m) # {} /\ j < m[Floor(j, m)]
      kept == {k \in DOMAIN m : k < i \/ k > j}
  IN  IF i > j THEN m
      ELSE [k \in kept \cup (IF cutHi THEN {j + 1} ELSE {}) |->
              IF cutHi /\ k = j + 1 THEN m[Floor(j, m)]
              ELSE IF cutLo /\ k = Floor(i - 1, m) THEN i
              ELSE m[k]]

(* Mutant: the upper end is exclusive.                                     *)
InsertPast(i, j, m) == [k \in DOMAIN m \cup {i} |-> IF k = i THEN j + 1 ELSE m[k]]

(* insert (i, j): intervals that start in i..j+1 are absorbed, and so is   *)
(* the interval at or below i when it reaches i - 1.                       *)
Insert(i, j, m) ==
  LET lo == IF AtMost(i, m) # {} /\ i <= m[Floor(i, m)] + 1
              THEN Floor(i, m) ELSE i
      hi == IF AtMost(j + 1, m) # {} /\ m[Floor(j + 1, m)] > j
              THEN m[Floor(j + 1, m)] ELSE j
      kept == {k \in DOMAIN m : k < i \/ k > j + 1}
  IN  IF i > j THEN m
      ELSE [k \in kept \cup {lo} |-> IF k = lo THEN hi ELSE m[k]]

(* delete (i, j): intervals that start in i..j go, the one that reaches    *)
(* over i is cut at i - 1, the one that reaches over j restarts at j + 1.  *)
Delete(i, j, m) ==
  LET cutLo == AtMost(i - 1, m) # {} /\ i <= m[Floor(i - 1, m)]
      cutHi == AtMost(j, m) # {} /\ j < m[Floor(j, m)]
      kept == {k \in DOMAIN m : k < i \/ k > j}
  IN  IF i > j THEN m
      ELSE [k \in kept \cup (IF cutHi THEN {j + 1} ELSE {}) |->
              IF cutHi /\ k = j + 1 THEN m[Floor(j, m)]
              ELSE IF cutLo /\ k = Floor(i - 1, m) THEN i - 1
              ELSE m[k]]

MemberBelow(x, m) ==   \* mutant: off by one
  AtMost(x, m) # {} /\ x < m[Floor(x, m)]

Member(x, m) == AtMost(x, m) # {} /\ x <= m[Floor(x, m)]

-----------------------------------------------------------------------------
(* What a map stands for, and when it is one the module may hold: every    *)
(* interval is nonempty and no two of them touch, so that the derived Eq   *)
(* on maps is equality of sets.                                            *)
Elements(m) == UNION {k .. m[k] : k \in DOMAIN m}

Canonical(m) ==
  /\ \A k \in DOMAIN m : k <= m[k]
  /\ \A k, l \in DOMAIN m : k < l => m[k] + 1 < l
=============================================================================
