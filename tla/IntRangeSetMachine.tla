------------------------- MODULE IntRangeSetMachine -------------------------
(***************************************************************************)
(* A client that changes one IntRangeSet by insert and delete, in any order*)
(* and with any end points, empty intervals (i > j) included.              *)
(***************************************************************************)
EXTENDS IntRangeSet

CONSTANTS Lo, Hi   \* the end points a client uses lie in Lo .. Hi

ASSUME LoHiAssumption == Lo \in Int /\ Hi \in Int

VARIABLE ranges

Init == ranges = Empty

InsertRange(i, j) == ranges' = Insert(i, j, ranges)

DeleteRange(i, j) == ranges' = Delete(i, j, ranges)

Next == \E i, j \in Lo .. Hi : InsertRange(i, j) \/ DeleteRange(i, j)

Spec == Init /\ [][Next]_ranges

-----------------------------------------------------------------------------
(* Every lower end and every upper end is a named integer.                 *)
TypeOK ==
  /\ ranges = [k \in DOMAIN ranges |-> ranges[k]]
  /\ DOMAIN ranges \subseteq Lo .. Hi
  /\ \A k \in DOMAIN ranges : ranges[k] \in Lo .. Hi

(* The representation stays canonical whatever sequence of calls built it  *)
(* (IntRangeSet derives Eq from its map, so two equal sets must have equal *)
(* maps).                                                                  *)
RangesCanonical == Canonical(ranges)

(* member answers exactly the elements of the intervals, although it looks *)
(* at one interval only.                                                   *)
MemberExact ==
  \A x \in Lo - 1 .. Hi + 1 : Member(x, ranges) <=> x \in Elements(ranges)

(* insert and delete are union and difference with the interval's integers,*)
(* whatever they join, absorb, cut or split.                               *)
ElementsExact ==
  \A i, j \in Lo .. Hi :
    /\ Elements(Insert(i, j, ranges)) = Elements(ranges) \cup (i .. j)
    /\ Elements(Delete(i, j, ranges)) = Elements(ranges) \ (i .. j)
=============================================================================
