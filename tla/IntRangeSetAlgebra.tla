------------------------- MODULE IntRangeSetAlgebra -------------------------
(***************************************************************************)
(* The operations of IntRangeSet that combine two sets: union, difference, *)
(* fromList and toList, each a right fold of insert or delete over a list  *)
(* of intervals.  A client mixes them freely with insert and delete.       *)
(***************************************************************************)
EXTENDS IntRangeSetMachine, Sequences, SequencesExt

CONSTANT MaxPairs   \* longest list of intervals a client writes

ASSUME MaxPairsAssumption == MaxPairs \in Nat

InsertPair(p, m) == Insert(p[1], p[2], m)
DeletePair(p, m) == Delete(p[1], p[2], m)

(* The lower end of the interval that has i - 1 others below it.           *)
LowerEnd(i, m) == CHOOSE k \in DOMAIN m : Cardinality({l \in DOMAIN m : l < k}) = i - 1

(* Mutant: the last interval is dropped.                                   *)
ToListShort(m) == [i \in 1 .. Cardinality(DOMAIN m) - 1 |-> <<LowerEnd(i, m), m[LowerEnd(i, m)]>>]

(* IntMap.toList: the intervals in ascending order.                        *)
ToList(m) == [i \in 1 .. Cardinality(DOMAIN m) |-> <<LowerEnd(i, m), m[LowerEnd(i, m)]>>]

UnionOf(s1, s2) == FoldRight(InsertPair, ToList(s2), s1)

DifferenceOf(s1, s2) == FoldRight(DeletePair, ToList(s2), s1)

FromList(pairs) == FoldRight(InsertPair, pairs, Empty)

-----------------------------------------------------------------------------
Lists == UNION {[1 .. n -> (Lo .. Hi) \X (Lo .. Hi)] : n \in 0 .. MaxPairs}

UnionWith(pairs) == ranges' = UnionOf(ranges, FromList(pairs))

DifferenceWith(pairs) == ranges' = DifferenceOf(ranges, FromList(pairs))

AlgebraNext ==
  \/ Next
  \/ \E pairs \in Lists : UnionWith(pairs) \/ DifferenceWith(pairs)

AlgebraSpec == Init /\ [][AlgebraNext]_ranges

-----------------------------------------------------------------------------
(* fromList, union and difference, which fold insert and delete over lists *)
(* of intervals, compute the sets they are named for, and union commutes as*)
(* equality of the maps that the derived Eq compares.                      *)
CombinesExact ==
  \A pairs \in Lists :
    LET s == FromList(pairs)
        S == UNION {p[1] .. p[2] : p \in ToSet(pairs)}
    IN  /\ Elements(s) = S
        /\ Elements(UnionOf(ranges, s)) = Elements(ranges) \cup S
        /\ Elements(DifferenceOf(ranges, s)) = Elements(ranges) \ S
        /\ UnionOf(ranges, s) = UnionOf(s, ranges)

(* toList and fromList are inverse on whatever the operations built.       *)
ListRoundTrip == FromList(ToList(ranges)) = ranges
=============================================================================
