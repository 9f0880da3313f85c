-------------------------- MODULE IntRangeSetProofs -------------------------
(***************************************************************************)
(* For every Lo, Hi and MaxPairs: the operations of IntRangeSet keep the   *)
(* intervals canonical, insert and delete are union and difference with an *)
(* interval's integers, union, difference and fromList compute the sets    *)
(* that they are named for, member looks at the right interval, and toList *)
(* and fromList are inverse.                                               *)
(*                                                                         *)
(* An IntMap is finite, so the lower ends at or below a number have a      *)
(* greatest one.  That is all that insert, delete and member need of       *)
(* finiteness, and HasFloor says it.  The operations that fold insert or   *)
(* delete over a list need the list's positions to be finitely many: the   *)
(* sets of positions are then well founded under strict inclusion.         *)
(***************************************************************************)
EXTENDS IntRangeSetAlgebra, FiniteSetTheorems, TLAPS

(* A map from integers to integers.                                        *)
IsMap(m) ==
  /\ m = [k \in DOMAIN m |-> m[k]]
  /\ DOMAIN m \subseteq Int
  /\ \A k \in DOMAIN m : m[k] \in Int

(* Where there is a lower end at or below x, there is a greatest one.      *)
HasFloor(m) ==
  \A x \in Int : AtMost(x, m) # {} =>
    \E k \in AtMost(x, m) : \A l \in AtMost(x, m) : l <= k

(* What every operation takes and gives.                                   *)
Good(m) == IsMap(m) /\ HasFloor(m) /\ Canonical(m)

-----------------------------------------------------------------------------
(* What IntMap.lookupLE finds.                                             *)
LEMMA FloorIsGreatest ==
  ASSUME NEW m, Good(m), NEW x \in Int, AtMost(x, m) # {}
  PROVE  /\ Floor(x, m) \in DOMAIN m
         /\ Floor(x, m) <= x
         /\ \A l \in DOMAIN m : l <= x => l <= Floor(x, m)
<1>1. \E k \in AtMost(x, m) : \A l \in AtMost(x, m) : l <= k
  BY DEF Good, HasFloor
<1>2. Floor(x, m) \in AtMost(x, m) /\ \A l \in AtMost(x, m) : l <= Floor(x, m)
  BY <1>1 DEF Floor
<1> QED
  BY <1>2 DEF AtMost

(* The integers a map stands for, interval by interval.                    *)
LEMMA InElements ==
  ASSUME NEW m, IsMap(m), NEW x
  PROVE  x \in Elements(m) <=> x \in Int /\ \E k \in DOMAIN m : k <= x /\ x <= m[k]
BY DEF Elements, IsMap

(* One interval is enough to decide membership.                            *)
LEMMA MemberOfElements ==
  ASSUME NEW m, Good(m), NEW x \in Int
  PROVE  Member(x, m) <=> x \in Elements(m)
<1>1. IsMap(m) /\ Canonical(m)
  BY DEF Good
<1>2. ASSUME Member(x, m) PROVE x \in Elements(m)
  <2>1. AtMost(x, m) # {} /\ x <= m[Floor(x, m)]
    BY <1>2 DEF Member
  <2> QED
    BY <1>1, <2>1, FloorIsGreatest, InElements
<1>3. ASSUME x \in Elements(m) PROVE Member(x, m)
  <2>1. PICK k \in DOMAIN m : k <= x /\ x <= m[k]
    BY <1>1, <1>3, InElements
  <2>2. AtMost(x, m) # {}
    BY <2>1 DEF AtMost
  <2>3. Floor(x, m) \in DOMAIN m /\ Floor(x, m) <= x /\ k <= Floor(x, m)
    BY <2>1, <2>2, FloorIsGreatest
  <2>4. Floor(x, m) = k
    BY <1>1, <2>1, <2>3 DEF Canonical, IsMap
  <2> QED
    BY <2>1, <2>2, <2>4 DEF Member
<1> QED
  BY <1>2, <1>3

-----------------------------------------------------------------------------
(* The map insert builds, without the names of its parts: the new interval *)
(* lo .. hi covers i .. j and absorbs what it touches.                     *)
LEMMA InsertShape ==
  ASSUME NEW m, Good(m), NEW i \in Int, NEW j \in Int, i <= j
  PROVE  \E lo, hi \in Int :
           /\ DOMAIN Insert(i, j, m) = {k \in DOMAIN m : k < i \/ k > j + 1} \cup {lo}
           /\ Insert(i, j, m) = [k \in DOMAIN Insert(i, j, m) |-> IF k = lo THEN hi ELSE m[k]]
           /\ lo <= i /\ j <= hi
           /\ \/ lo = i /\ \A k \in DOMAIN m : k <= i => m[k] + 1 < i
              \/ /\ lo \in DOMAIN m /\ i <= m[lo] + 1
                 /\ \A k \in DOMAIN m : k <= i => k <= lo
           /\ \/ hi = j /\ \A k \in DOMAIN m : k <= j + 1 => m[k] <= j
              \/ \E u \in DOMAIN m :
                   /\ u <= j + 1 /\ hi = m[u] /\ m[u] > j
                   /\ \A k \in DOMAIN m : k <= j + 1 => k <= u
<1> DEFINE lo == IF AtMost(i, m) # {} /\ i <= m[Floor(i, m)] + 1 THEN Floor(i, m) ELSE i
           hi == IF AtMost(j + 1, m) # {} /\ m[Floor(j + 1, m)] > j
                   THEN m[Floor(j + 1, m)] ELSE j
           kept == {k \in DOMAIN m : k < i \/ k > j + 1}
<1>1. Insert(i, j, m) = [k \in kept \cup {lo} |-> IF k = lo THEN hi ELSE m[k]]
  BY DEF Insert
<1>2. IsMap(m) /\ Canonical(m)
  BY DEF Good
<1>3. lo \in Int /\ lo <= i
  BY <1>2, FloorIsGreatest DEF IsMap
<1>4. hi \in Int /\ j <= hi
  BY <1>2, FloorIsGreatest DEF IsMap
<1>5. \/ lo = i /\ \A k \in DOMAIN m : k <= i => m[k] + 1 < i
      \/ /\ lo \in DOMAIN m /\ i <= m[lo] + 1
         /\ \A k \in DOMAIN m : k <= i => k <= lo
  <2>1. CASE AtMost(i, m) = {}
    BY <2>1 DEF AtMost
  <2>2. CASE AtMost(i, m) # {} /\ i <= m[Floor(i, m)] + 1
    BY <2>2, FloorIsGreatest
  <2>3. CASE AtMost(i, m) # {} /\ ~(i <= m[Floor(i, m)] + 1)
    <3> DEFINE f == Floor(i, m)
    <3>1. f \in DOMAIN m /\ m[f] \in Int /\ f \in Int /\ m[f] + 1 < i
      BY <1>2, <2>3, FloorIsGreatest DEF IsMap
    <3>2. ASSUME NEW k \in DOMAIN m, k <= i PROVE m[k] + 1 < i
      <4>1. k <= f /\ k \in Int /\ m[k] \in Int
        BY <1>2, <2>3, <3>2, FloorIsGreatest DEF IsMap
      <4>2. k = f \/ m[k] + 1 < f
        BY <1>2, <3>1, <4>1 DEF Canonical
      <4>3. f <= m[f]
        BY <1>2, <3>1 DEF Canonical
      <4> QED
        BY <3>1, <4>1, <4>2, <4>3
    <3> QED
      BY <2>3, <3>2
  <2> QED
    BY <2>1, <2>2, <2>3
<1>6. \/ hi = j /\ \A k \in DOMAIN m : k <= j + 1 => m[k] <= j
      \/ \E u \in DOMAIN m :
           /\ u <= j + 1 /\ hi = m[u] /\ m[u] > j
           /\ \A k \in DOMAIN m : k <= j + 1 => k <= u
  <2> j + 1 \in Int
    OBVIOUS
  <2>1. CASE AtMost(j + 1, m) = {}
    BY <2>1 DEF AtMost
  <2>2. CASE AtMost(j + 1, m) # {} /\ m[Floor(j + 1, m)] > j
    BY <2>2, FloorIsGreatest
  <2>3. CASE AtMost(j + 1, m) # {} /\ ~(m[Floor(j + 1, m)] > j)
    <3> DEFINE f == Floor(j + 1, m)
    <3>1. f \in DOMAIN m /\ m[f] \in Int /\ f \in Int /\ m[f] <= j
      BY <1>2, <2>3, FloorIsGreatest DEF IsMap
    <3>2. ASSUME NEW k \in DOMAIN m, k <= j + 1 PROVE m[k] <= j
      <4>1. k <= f /\ k \in Int /\ m[k] \in Int
        BY <1>2, <2>3, <3>2, FloorIsGreatest DEF IsMap
      <4>2. k = f \/ m[k] + 1 < f
        BY <1>2, <3>1, <4>1 DEF Canonical
      <4>3. f <= m[f]
        BY <1>2, <3>1 DEF Canonical
      <4> QED
        BY <3>1, <4>1, <4>2, <4>3
    <3> QED
      BY <2>3, <3>2
  <2> QED
    BY <2>1, <2>2, <2>3
<1>7. DOMAIN Insert(i, j, m) = kept \cup {lo}
  BY <1>1
<1> HIDE DEF lo, hi
<1> QED
  BY <1>1, <1>3, <1>4, <1>5, <1>6, <1>7

(* insert keeps a map good.                                                *)
LEMMA InsertGood ==
  ASSUME NEW m, Good(m), NEW i \in Int, NEW j \in Int
  PROVE  Good(Insert(i, j, m))
<1>1. CASE i > j
  BY <1>1 DEF Insert
<1>2. CASE i <= j
  <2> DEFINE r == Insert(i, j, m)
             kept == {k \in DOMAIN m : k < i \/ k > j + 1}
  <2>0. IsMap(m) /\ HasFloor(m) /\ Canonical(m)
    BY DEF Good
  <2>1. PICK lo, hi \in Int :
           /\ DOMAIN r = kept \cup {lo}
           /\ r = [k \in DOMAIN r |-> IF k = lo THEN hi ELSE m[k]]
           /\ lo <= i /\ j <= hi
           /\ \/ lo = i /\ \A k \in DOMAIN m : k <= i => m[k] + 1 < i
              \/ /\ lo \in DOMAIN m /\ i <= m[lo] + 1
                 /\ \A k \in DOMAIN m : k <= i => k <= lo
           /\ \/ hi = j /\ \A k \in DOMAIN m : k <= j + 1 => m[k] <= j
              \/ \E u \in DOMAIN m :
                   /\ u <= j + 1 /\ hi = m[u] /\ m[u] > j
                   /\ \A k \in DOMAIN m : k <= j + 1 => k <= u
    BY <1>2, InsertShape
  <2> HIDE DEF r
  <2>2. \A k \in kept : k \in Int /\ m[k] \in Int /\ k <= m[k]
    BY <2>0 DEF IsMap, Canonical
  <2>3. r[lo] = hi /\ \A k \in kept : k # lo => r[k] = m[k]
    BY <2>1
  <2>4. IsMap(r)
    BY <2>1, <2>2 DEF IsMap
  <2>5. \A k \in kept : k < lo => m[k] + 1 < lo
    BY <2>0, <2>1 DEF IsMap, Canonical
  <2>6. \A k \in kept : k > lo => hi + 1 < k
    <3> SUFFICES ASSUME NEW k \in kept, k > lo PROVE hi + 1 < k
      OBVIOUS
    <3>1. k > j + 1
      BY <2>0, <2>1, <2>2 DEF IsMap
    <3>2. CASE hi = j
      BY <2>2, <3>1, <3>2
    <3>3. CASE \E u \in DOMAIN m : u <= j + 1 /\ hi = m[u]
      BY <2>0, <2>2, <3>1, <3>3 DEF IsMap, Canonical
    <3> QED
      BY <2>1, <3>2, <3>3
  <2>7. Canonical(r)
    <3>1. \A k \in DOMAIN r : k <= r[k]
      BY <1>2, <2>1, <2>2, <2>3
    <3>2. ASSUME NEW k \in DOMAIN r, NEW l \in DOMAIN r, k < l
          PROVE  r[k] + 1 < l
      <4>1. CASE k = lo
        BY <2>1, <2>3, <2>6, <3>2, <4>1
      <4>2. CASE l = lo
        BY <2>1, <2>3, <2>5, <3>2, <4>2
      <4>3. CASE k # lo /\ l # lo
        BY <2>0, <2>1, <2>3, <3>2, <4>3 DEF Canonical
      <4> QED
        BY <4>1, <4>2, <4>3
    <3> QED
      BY <3>1, <3>2 DEF Canonical
  <2>8. HasFloor(r)
    <3> SUFFICES ASSUME NEW x \in Int, AtMost(x, r) # {}
                 PROVE  \E k \in AtMost(x, r) : \A l \in AtMost(x, r) : l <= k
      BY DEF HasFloor
    <3>1. CASE \E k \in kept : k <= x /\ k > lo
      <4>1. AtMost(x, m) # {}
        BY <3>1 DEF AtMost
      <4>2. PICK f \in DOMAIN m : f <= x /\ \A l \in DOMAIN m : l <= x => l <= f
        BY <2>0, <4>1 DEF HasFloor, AtMost
      <4>3. f \in kept /\ f > lo
        BY <2>0, <2>1, <2>2, <3>1, <4>2 DEF IsMap
      <4> QED
        BY <2>1, <2>2, <4>2, <4>3 DEF AtMost
    <3>2. CASE lo <= x /\ ~ \E k \in kept : k <= x /\ k > lo
      BY <2>1, <2>2, <3>2 DEF AtMost
    <3>3. CASE lo > x
      <4>1. AtMost(x, m) # {}
        BY <2>1, <3>3 DEF AtMost
      <4>2. PICK f \in DOMAIN m : f <= x /\ \A l \in DOMAIN m : l <= x => l <= f
        BY <2>0, <4>1 DEF HasFloor, AtMost
      <4>3. f \in kept
        BY <2>0, <2>1, <3>3, <4>2 DEF IsMap
      <4> QED
        BY <2>1, <3>3, <4>2, <4>3 DEF AtMost
    <3> QED
      BY <2>2, <3>1, <3>2, <3>3
  <2> QED
    BY <2>4, <2>7, <2>8 DEF Good, r
<1> QED
  BY <1>1, <1>2

(* insert is union with i .. j.                                            *)
LEMMA InsertElements ==
  ASSUME NEW m, Good(m), NEW i \in Int, NEW j \in Int
  PROVE  Elements(Insert(i, j, m)) = Elements(m) \cup (i .. j)
<1>0. IsMap(m) /\ Canonical(m)
  BY DEF Good
<1>1. CASE i > j
  BY <1>1 DEF Insert
<1>2. CASE i <= j
  <2> DEFINE r == Insert(i, j, m)
             kept == {k \in DOMAIN m : k < i \/ k > j + 1}
  <2>1. PICK lo, hi \in Int :
           /\ DOMAIN r = kept \cup {lo}
           /\ r = [k \in DOMAIN r |-> IF k = lo THEN hi ELSE m[k]]
           /\ lo <= i /\ j <= hi
           /\ \/ lo = i /\ \A k \in DOMAIN m : k <= i => m[k] + 1 < i
              \/ /\ lo \in DOMAIN m /\ i <= m[lo] + 1
                 /\ \A k \in DOMAIN m : k <= i => k <= lo
           /\ \/ hi = j /\ \A k \in DOMAIN m : k <= j + 1 => m[k] <= j
              \/ \E u \in DOMAIN m :
                   /\ u <= j + 1 /\ hi = m[u] /\ m[u] > j
                   /\ \A k \in DOMAIN m : k <= j + 1 => k <= u
    BY <1>2, InsertShape
  <2>2. IsMap(r)
    BY InsertGood DEF Good
  <2> HIDE DEF r
  <2>3. r[lo] = hi /\ \A k \in kept : k # lo => r[k] = m[k]
    BY <2>1
  <2>4. ASSUME NEW x \in Int, NEW k \in DOMAIN m, k <= x, x <= m[k]
        PROVE  \E l \in DOMAIN r : l <= x /\ x <= r[l]
    <3>0. k \in Int /\ m[k] \in Int
      BY <1>0 DEF IsMap
    <3>1. CASE k \in kept /\ k # lo
      BY <2>1, <2>3, <2>4, <3>1
    <3>2. CASE k = lo
      <4>1. m[k] <= hi
        BY <1>0, <1>2, <2>1, <3>0, <3>2 DEF IsMap, Canonical
      <4> QED
        BY <2>1, <2>3, <2>4, <3>0, <3>2, <4>1
    <3>3. CASE k \notin kept
      <4>1. i <= k /\ k <= j + 1
        BY <3>0, <3>3
      <4>2. m[k] <= hi
        BY <1>0, <2>1, <3>0, <4>1 DEF IsMap, Canonical
      <4> QED
        BY <2>1, <2>3, <2>4, <3>0, <4>1, <4>2
    <3> QED
      BY <3>1, <3>2, <3>3
  <2>5. ASSUME NEW x \in i .. j
        PROVE  \E l \in DOMAIN r : l <= x /\ x <= r[l]
    BY <2>1, <2>3, <2>5
  <2>6. ASSUME NEW x \in Int, NEW l \in DOMAIN r, l <= x, x <= r[l]
        PROVE  x \in i .. j \/ \E k \in DOMAIN m : k <= x /\ x <= m[k]
    <3>1. CASE l # lo
      BY <2>1, <2>3, <2>6, <3>1
    <3>2. CASE l = lo /\ x < i
      <4>1. lo \in DOMAIN m /\ i <= m[lo] + 1 /\ m[lo] \in Int
        BY <1>0, <2>1, <2>6, <3>2 DEF IsMap
      <4> QED
        BY <2>6, <3>2, <4>1
    <3>3. CASE l = lo /\ x > j
      <4>1. PICK u \in DOMAIN m : u <= j + 1 /\ hi = m[u]
        BY <2>1, <2>3, <2>6, <3>3
      <4> QED
        BY <1>0, <2>3, <2>6, <3>3, <4>1 DEF IsMap
    <3> QED
      BY <2>6, <3>1, <3>2, <3>3
  <2>7. \A x : x \in Elements(r) <=> x \in Elements(m) \/ x \in i .. j
    BY <1>0, <2>2, <2>4, <2>5, <2>6, InElements
  <2> QED
    BY <2>7 DEF r
<1> QED
  BY <1>1, <1>2

-----------------------------------------------------------------------------
(* The map delete builds: what starts in i .. j is gone, the interval that *)
(* reaches over i ends at i - 1, and what reaches over j restarts at j + 1.*)
LEMMA DeleteShape ==
  ASSUME NEW m, Good(m), NEW i \in Int, NEW j \in Int, i <= j
  PROVE  LET r == Delete(i, j, m)
             kept == {k \in DOMAIN m : k < i \/ k > j}
             over == {u \in DOMAIN m : u <= j /\ j < m[u]}
         IN  /\ DOMAIN r = kept \cup {j + 1 : u \in over}
             /\ r = [k \in DOMAIN r |-> r[k]]
             /\ \A k \in kept : k # j + 1 =>
                  r[k] = IF k < i /\ i <= m[k] THEN i - 1 ELSE m[k]
             /\ \A u \in over : r[j + 1] = m[u] /\ \A k \in DOMAIN m : k <= j => k <= u
             /\ over # {} => j + 1 \notin DOMAIN m
             /\ over = {} => \A k \in kept : k = j + 1 => r[k] = m[k]
<1> DEFINE r == Delete(i, j, m)
           kept == {k \in DOMAIN m : k < i \/ k > j}
           over == {u \in DOMAIN m : u <= j /\ j < m[u]}
           cutLo == AtMost(i - 1, m) # {} /\ i <= m[Floor(i - 1, m)]
           cutHi == AtMost(j, m) # {} /\ j < m[Floor(j, m)]
<1>0. IsMap(m) /\ Canonical(m)
  BY DEF Good
<1>1. r = [k \in kept \cup (IF cutHi THEN {j + 1} ELSE {}) |->
              IF cutHi /\ k = j + 1 THEN m[Floor(j, m)]
              ELSE IF cutLo /\ k = Floor(i - 1, m) THEN i - 1
              ELSE m[k]]
  BY DEF Delete
<1>2. ASSUME NEW u \in over PROVE cutHi /\ u = Floor(j, m)
  <2>1. AtMost(j, m) # {}
    BY DEF AtMost
  <2>2. Floor(j, m) \in DOMAIN m /\ Floor(j, m) <= j /\ u <= Floor(j, m)
    BY <2>1, FloorIsGreatest
  <2>3. u = Floor(j, m)
    BY <1>0, <2>2 DEF IsMap, Canonical
  <2> QED
    BY <2>1, <2>3
<1>3. ASSUME cutHi PROVE Floor(j, m) \in over
  BY <1>3, FloorIsGreatest
<1>4. ASSUME NEW k \in DOMAIN m, k < i, i <= m[k]
      PROVE  cutLo /\ k = Floor(i - 1, m)
  <2> i - 1 \in Int /\ k \in Int /\ k <= i - 1
    BY <1>0, <1>4 DEF IsMap
  <2>1. AtMost(i - 1, m) # {}
    BY DEF AtMost
  <2>2. Floor(i - 1, m) \in DOMAIN m /\ Floor(i - 1, m) <= i - 1 /\ k <= Floor(i - 1, m)
    BY <2>1, FloorIsGreatest
  <2>3. k = Floor(i - 1, m)
    BY <1>0, <1>4, <2>2 DEF IsMap, Canonical
  <2> QED
    BY <1>4, <2>1, <2>3
<1>5. ASSUME cutLo
      PROVE  Floor(i - 1, m) \in DOMAIN m /\ Floor(i - 1, m) < i /\ i <= m[Floor(i - 1, m)]
  <2> i - 1 \in Int
    OBVIOUS
  <2>1. Floor(i - 1, m) \in DOMAIN m /\ Floor(i - 1, m) <= i - 1
    BY <1>5, FloorIsGreatest
  <2> QED
    BY <1>0, <1>5, <2>1 DEF IsMap
<1>6. ASSUME NEW u \in over
      PROVE  j + 1 \notin DOMAIN m /\ \A k \in DOMAIN m : k <= j => k <= u
  BY <1>0 DEF IsMap, Canonical
<1>7. DOMAIN r = kept \cup {j + 1 : u \in over}
  BY <1>1, <1>2, <1>3
<1>8. ASSUME NEW u \in over PROVE r[j + 1] = m[u]
  BY <1>1, <1>2
<1>9. ASSUME NEW k \in kept, k # j + 1
      PROVE  r[k] = IF k < i /\ i <= m[k] THEN i - 1 ELSE m[k]
  <2>1. r[k] = IF cutLo /\ k = Floor(i - 1, m) THEN i - 1 ELSE m[k]
    BY <1>1, <1>9
  <2> QED
    BY <1>4, <1>5, <2>1
<1>10. ASSUME over = {}, NEW k \in kept, k = j + 1 PROVE r[k] = m[k]
  <2>1. ~cutHi
    BY <1>3, <1>10
  <2>2. ~(cutLo /\ k = Floor(i - 1, m))
    BY <1>5, <1>10
  <2>3. r[k] = IF cutHi /\ k = j + 1 THEN m[Floor(j, m)]
              ELSE IF cutLo /\ k = Floor(i - 1, m) THEN i - 1
              ELSE m[k]
    BY <1>1
  <2> QED
    BY <2>1, <2>2, <2>3
<1>11. r = [k \in DOMAIN r |-> r[k]]
  BY <1>1
<1> HIDE DEF r
<1>12. over # {} => j + 1 \notin DOMAIN m
  BY <1>6
<1> QED
  BY <1>6, <1>7, <1>8, <1>9, <1>10, <1>11, <1>12 DEF r

(* delete keeps a map good.                                                *)
LEMMA DeleteGood ==
  ASSUME NEW m, Good(m), NEW i \in Int, NEW j \in Int
  PROVE  Good(Delete(i, j, m))
<1>0. IsMap(m) /\ HasFloor(m) /\ Canonical(m)
  BY DEF Good
<1>1. CASE i > j
  BY <1>1 DEF Delete
<1>2. CASE i <= j
  <2> DEFINE r == Delete(i, j, m)
             kept == {k \in DOMAIN m : k < i \/ k > j}
             over == {u \in DOMAIN m : u <= j /\ j < m[u]}
  <2>1. /\ DOMAIN r = kept \cup {j + 1 : u \in over}
        /\ r = [k \in DOMAIN r |-> r[k]]
        /\ \A k \in kept : k # j + 1 =>
             r[k] = IF k < i /\ i <= m[k] THEN i - 1 ELSE m[k]
        /\ \A u \in over : r[j + 1] = m[u] /\ \A k \in DOMAIN m : k <= j => k <= u
        /\ over # {} => j + 1 \notin DOMAIN m
        /\ over = {} => \A k \in kept : k = j + 1 => r[k] = m[k]
    BY <1>2, DeleteShape
  <2> HIDE DEF r
  <2>2. \A k \in kept : k \in Int /\ m[k] \in Int /\ k <= m[k]
    BY <1>0 DEF IsMap, Canonical
  <2>3. \A k \in kept : r[k] \in Int /\ k <= r[k] /\ r[k] <= m[k] /\ (k < i => r[k] < i)
    <3> SUFFICES ASSUME NEW k \in kept
                 PROVE  r[k] \in Int /\ k <= r[k] /\ r[k] <= m[k] /\ (k < i => r[k] < i)
      OBVIOUS
    <3>1. CASE k = j + 1
      BY <1>2, <2>1, <2>2, <3>1
    <3>2. CASE k # j + 1
      <4>1. r[k] = IF k < i /\ i <= m[k] THEN i - 1 ELSE m[k]
        BY <2>1, <3>2
      <4> QED
        BY <2>2, <4>1
    <3> QED
      BY <3>1, <3>2
  <2>4. ASSUME NEW u \in over
        PROVE  /\ r[j + 1] = m[u] /\ r[j + 1] \in Int /\ j + 1 <= r[j + 1]
               /\ \A k \in kept : k > j => r[j + 1] + 1 < k
    <3>1. r[j + 1] = m[u] /\ m[u] \in Int /\ u \in Int
      BY <1>0, <2>1 DEF IsMap
    <3>2. ASSUME NEW k \in kept, k > j PROVE m[u] + 1 < k
      BY <1>0, <2>2, <3>1, <3>2 DEF Canonical
    <3> QED
      BY <3>1, <3>2
  <2>5. IsMap(r)
    BY <2>1, <2>2, <2>3, <2>4 DEF IsMap
  <2>6. Canonical(r)
    <3>1. \A k \in DOMAIN r : k <= r[k]
      BY <2>1, <2>3, <2>4
    <3>2. ASSUME NEW k \in DOMAIN r, NEW l \in DOMAIN r, k < l
          PROVE  r[k] + 1 < l
      <4>1. CASE k \in kept /\ l \in kept
        <5>1. m[k] + 1 < l
          BY <1>0, <3>2, <4>1 DEF Canonical
        <5> QED
          BY <2>2, <2>3, <4>1, <5>1
      <4>2. CASE k \in kept /\ l \notin kept
        <5>1. l = j + 1 /\ k \in Int
          BY <2>1, <2>2, <4>2
        <5>2. k < i
          BY <3>2, <4>2, <5>1
        <5> QED
          BY <1>2, <2>3, <4>2, <5>1, <5>2
      <4>3. CASE k \notin kept
        <5>1. PICK u \in over : k = j + 1
          BY <2>1, <4>3
        <5>2. l \in kept
          BY <2>1, <3>2, <5>1
        <5> QED
          BY <2>2, <2>4, <3>2, <5>1, <5>2
      <4> QED
        BY <4>1, <4>2, <4>3
    <3> QED
      BY <3>1, <3>2 DEF Canonical
  <2>7. HasFloor(r)
    <3> SUFFICES ASSUME NEW x \in Int, AtMost(x, r) # {}
                 PROVE  \E k \in AtMost(x, r) : \A l \in AtMost(x, r) : l <= k
      BY DEF HasFloor
    <3>1. ASSUME NEW y \in Int, y <= x, NEW k0 \in kept, k0 <= y,
                 y < i \/ \E k \in kept : k <= y /\ k > j
          PROVE  \E f \in kept : f <= y /\ \A l \in kept : l <= y => l <= f
      <4>1. AtMost(y, m) # {}
        BY <3>1 DEF AtMost
      <4>2. PICK f \in DOMAIN m : f <= y /\ \A l \in DOMAIN m : l <= y => l <= f
        BY <1>0, <4>1 DEF HasFloor, AtMost
      <4>3. f \in kept
        BY <1>0, <2>2, <3>1, <4>2 DEF IsMap
      <4> QED
        BY <4>2, <4>3
    <3>2. CASE \E k \in kept : k <= x /\ k > j
      <4>1. PICK f \in kept : f <= x /\ \A l \in kept : l <= x => l <= f
        BY <3>1, <3>2
      <4>2. f > j
        BY <2>2, <3>2, <4>1
      <4>3. j + 1 <= f
        BY <2>2, <4>2
      <4> QED
        BY <2>1, <2>2, <4>1, <4>3 DEF AtMost
    <3>3. CASE ~(\E k \in kept : k <= x /\ k > j) /\ over # {} /\ j + 1 <= x
      <4>1. j + 1 \in DOMAIN r
        BY <2>1, <3>3
      <4>2. \A l \in kept : l <= x => l <= j + 1
        BY <2>2, <3>3
      <4> QED
        BY <2>1, <3>3, <4>1, <4>2 DEF AtMost
    <3>4. CASE ~(\E k \in kept : k <= x /\ k > j) /\ ~(over # {} /\ j + 1 <= x)
      <4> DEFINE y == IF x < i THEN x ELSE i - 1
      <4>1. \A l \in DOMAIN r : l <= x => l \in kept /\ l <= y
        BY <1>2, <2>1, <2>2, <3>4
      <4>2. \E k0 \in kept : k0 <= y
        BY <4>1 DEF AtMost
      <4>3. y \in Int /\ y <= x /\ y < i
        OBVIOUS
      <4>4. PICK f \in kept : f <= y /\ \A l \in kept : l <= y => l <= f
        BY <3>1, <4>2, <4>3
      <4>5. f \in DOMAIN r /\ f <= x
        BY <2>1, <2>2, <4>3, <4>4
      <4> QED
        BY <4>1, <4>4, <4>5 DEF AtMost
    <3> QED
      BY <3>2, <3>3, <3>4
  <2> QED
    BY <2>5, <2>6, <2>7 DEF Good, r
<1> QED
  BY <1>1, <1>2

(* delete is difference with i .. j.                                       *)
LEMMA DeleteElements ==
  ASSUME NEW m, Good(m), NEW i \in Int, NEW j \in Int
  PROVE  Elements(Delete(i, j, m)) = Elements(m) \ (i .. j)
<1>0. IsMap(m) /\ Canonical(m)
  BY DEF Good
<1>1. CASE i > j
  BY <1>1 DEF Delete
<1>2. CASE i <= j
  <2> DEFINE r == Delete(i, j, m)
             kept == {k \in DOMAIN m : k < i \/ k > j}
             over == {u \in DOMAIN m : u <= j /\ j < m[u]}
  <2>1. /\ DOMAIN r = kept \cup {j + 1 : u \in over}
        /\ \A k \in kept : k # j + 1 =>
             r[k] = IF k < i /\ i <= m[k] THEN i - 1 ELSE m[k]
        /\ \A u \in over : r[j + 1] = m[u] /\ \A k \in DOMAIN m : k <= j => k <= u
        /\ over # {} => j + 1 \notin DOMAIN m
        /\ over = {} => \A k \in kept : k = j + 1 => r[k] = m[k]
    BY <1>2, DeleteShape
  <2>2. IsMap(r)
    BY DeleteGood DEF Good
  <2> HIDE DEF r
  <2>3. \A k \in DOMAIN m : k \in Int /\ m[k] \in Int /\ k <= m[k]
    BY <1>0 DEF IsMap, Canonical
  <2>4. \A k \in kept : r[k] = IF k < i /\ i <= m[k] THEN i - 1 ELSE m[k]
    <3> SUFFICES ASSUME NEW k \in kept
                 PROVE  r[k] = IF k < i /\ i <= m[k] THEN i - 1 ELSE m[k]
      OBVIOUS
    <3>1. CASE k = j + 1
      BY <1>2, <2>1, <3>1
    <3> QED
      BY <2>1, <3>1
  <2>5. ASSUME NEW x \in Int, x \notin i .. j, NEW k \in DOMAIN m, k <= x, x <= m[k]
        PROVE  \E l \in DOMAIN r : l <= x /\ x <= r[l]
    <3>1. CASE x < i
      <4>1. k \in kept /\ x <= r[k]
        BY <2>3, <2>4, <2>5, <3>1
      <4> QED
        BY <2>1, <2>5, <4>1
    <3>2. CASE x > j /\ k > j
      <4>1. k \in kept /\ r[k] = m[k]
        BY <1>2, <2>3, <2>4, <3>2
      <4> QED
        BY <2>1, <2>5, <4>1
    <3>3. CASE x > j /\ k <= j
      <4>1. k \in over
        BY <2>3, <2>5, <3>3
      <4> QED
        BY <2>1, <2>5, <3>3, <4>1
    <3> QED
      BY <2>3, <2>5, <3>1, <3>2, <3>3
  <2>6. ASSUME NEW x \in Int, NEW l \in DOMAIN r, l <= x, x <= r[l]
        PROVE  x \notin i .. j /\ \E k \in DOMAIN m : k <= x /\ x <= m[k]
    <3>1. CASE l \in kept
      <4>1. r[l] <= m[l] /\ (l < i => r[l] < i) /\ r[l] \in Int
        BY <2>3, <2>4, <3>1
      <4> QED
        BY <1>2, <2>3, <2>6, <3>1, <4>1
    <3>2. CASE l \notin kept
      <4>1. PICK u \in over : l = j + 1 /\ r[l] = m[u]
        BY <2>1, <3>2
      <4> QED
        BY <2>3, <2>6, <4>1
    <3> QED
      BY <3>1, <3>2
  <2>7. \A x : x \in Elements(r) <=> x \in Elements(m) /\ x \notin i .. j
    BY <1>0, <2>2, <2>5, <2>6, InElements
  <2> QED
    BY <2>7 DEF r
<1> QED
  BY <1>1, <1>2

-----------------------------------------------------------------------------
(* The derived Eq compares the maps.                                       *)
LEMMA EndsFound ==
  ASSUME NEW m, NEW n, Good(m), Good(n), Elements(m) = Elements(n), NEW k \in DOMAIN m
  PROVE  k \in DOMAIN n /\ n[k] <= m[k]
<1>0. /\ IsMap(m) /\ Canonical(m) /\ IsMap(n) /\ Canonical(n)
      /\ k \in Int /\ m[k] \in Int /\ k <= m[k]
  BY DEF Good, IsMap, Canonical
<1>1. k \in DOMAIN n
  <2>1. k \in Elements(m)
    BY <1>0, InElements
  <2>2. PICK l \in DOMAIN n : l <= k /\ k <= n[l]
    BY <1>0, <2>1, InElements
  <2>3. l \in Int /\ n[l] \in Int
    BY <1>0 DEF IsMap
  <2>4. ASSUME l < k PROVE FALSE
    <3>1. k - 1 \in Elements(n)
      BY <1>0, <2>2, <2>3, <2>4, InElements
    <3>2. PICK p \in DOMAIN m : p <= k - 1 /\ k - 1 <= m[p]
      BY <1>0, <3>1, InElements
    <3>3. p \in Int /\ m[p] \in Int /\ p < k
      BY <1>0, <3>2 DEF IsMap
    <3>4. m[p] + 1 < k
      BY <1>0, <3>3 DEF Canonical
    <3> QED
      BY <1>0, <3>2, <3>3, <3>4
  <2> QED
    BY <1>0, <2>2, <2>3, <2>4
<1>2. ASSUME m[k] < n[k] PROVE FALSE
  <2>1. n[k] \in Int
    BY <1>0, <1>1 DEF IsMap
  <2>2. m[k] + 1 \in Elements(n)
    BY <1>0, <1>1, <1>2, <2>1, InElements
  <2>3. PICK p \in DOMAIN m : p <= m[k] + 1 /\ m[k] + 1 <= m[p]
    BY <1>0, <2>2, InElements
  <2>4. p \in Int /\ m[p] \in Int
    BY <1>0 DEF IsMap
  <2>5. p < k => m[p] + 1 < k
    BY <1>0, <2>4 DEF Canonical
  <2>6. k < p => m[k] + 1 < p
    BY <1>0, <2>4 DEF Canonical
  <2> QED
    BY <1>0, <2>3, <2>4, <2>5, <2>6
<1> QED
  BY <1>0, <1>1, <1>2 DEF IsMap

(* IntRangeSet derives Eq from its map: sets that the operations built and *)
(* that have the same elements are equal as maps.                          *)
THEOREM EqualSetsEqualMaps ==
  ASSUME NEW m, NEW n, Good(m), Good(n), Elements(m) = Elements(n)
  PROVE  m = n
<1>1. DOMAIN m = DOMAIN n /\ \A k \in DOMAIN m : n[k] <= m[k] /\ m[k] <= n[k]
  BY EndsFound
<1>2. /\ m = [k \in DOMAIN m |-> m[k]] /\ n = [k \in DOMAIN n |-> n[k]]
      /\ \A k \in DOMAIN m : m[k] \in Int /\ n[k] \in Int
  BY <1>1 DEF Good, IsMap
<1>3. \A k \in DOMAIN m : m[k] = n[k]
  BY <1>1, <1>2
<1> QED
  BY <1>1, <1>2, <1>3

-----------------------------------------------------------------------------
(* Folds.  FoldRight is a recursive function on the sets of positions of a *)
(* list: that there is one, and what it computes, follow from the strict   *)
(* subsets of a finite set being well-founded.                             *)

(* A family of subsets of a finite set has a member none of whose strict   *)
(* subsets is in the family.                                               *)
LEMMA LeastSet ==
  ASSUME NEW D \in SUBSET Int, IsFiniteSet(D), NEW T \in SUBSET SUBSET D, T # {}
  PROVE  \E s \in T : \A r \in T : r \subseteq s => r = s
<1>1. FiniteSubsetsOf(D) = SUBSET D
  BY FS_FiniteSubsetsOfFinite
<1>2. IsWellFoundedOn(StrictSubsetOrdering(D), SUBSET D)
  BY <1>1, FS_StrictSubsetOrderingWellFounded
<1>3. T \subseteq SUBSET D
  OBVIOUS
<1>4. PICK s \in T : \A r \in T : ~ (<<r, s>> \in StrictSubsetOrdering(D))
  BY <1>2, <1>3, WFMin
<1>5. ASSUME NEW r \in T, r \subseteq s, r # s PROVE FALSE
  BY <1>3, <1>4, <1>5 DEF StrictSubsetOrdering
<1> QED
  BY <1>5

(* The position that the fold's CHOOSE takes.                              *)
LEMMA LeastPosition ==
  ASSUME NEW D \in SUBSET Int, IsFiniteSet(D), NEW s \in SUBSET D, s # {}
  PROVE  Min(s) \in s
<1> DEFINE HasMin(r) == \E x \in r : \A y \in r : x <= y
           T == {r \in SUBSET D : r # {} /\ ~ HasMin(r)}
<1>1. ASSUME T # {} PROVE FALSE
  <2>1. PICK r \in T : \A q \in T : q \subseteq r => q = r
    <3>1. T \in SUBSET SUBSET D
      OBVIOUS
    <3> HIDE DEF T
    <3> QED
      BY <1>1, <3>1, LeastSet
  <2>2. PICK a \in r : TRUE
    OBVIOUS
  <2> DEFINE q == r \ {a}
  <2>3. q \notin T /\ q \in SUBSET D
    BY <2>1, <2>2
  <2>4. CASE q = {}
    <3>1. \A y \in r : y = a
      BY <2>4
    <3>2. a \in Int
      OBVIOUS
    <3> QED
      BY <2>1, <3>1, <3>2
  <2>5. CASE HasMin(q)
    <3>1. PICK b \in q : \A y \in q : b <= y
      BY <2>5
    <3>2. a \in Int /\ b \in Int /\ b \in r /\ r \subseteq Int
      OBVIOUS
    <3>3. \A y \in r : y = a \/ b <= y
      BY <3>1
    <3>4. CASE a <= b
      <4>1. \A y \in r : a <= y
        BY <3>2, <3>3, <3>4
      <4> QED
        BY <2>1, <4>1
    <3>5. CASE b <= a
      <4>1. \A y \in r : b <= y
        BY <3>2, <3>3, <3>5
      <4> QED
        BY <2>1, <3>2, <4>1
    <3> QED
      BY <3>2, <3>4, <3>5
  <2> QED
    BY <2>3, <2>4, <2>5
<1>2. HasMin(s)
  BY <1>1
<1> QED
  BY <1>2 DEF Min

(* Insert or delete one interval of a list.                                *)
Apply(k, p, m) == IF k = "insert" THEN InsertPair(p, m) ELSE DeletePair(p, m)

(* The equation of the fold at the set s of positions: apply the interval  *)
(* at one of them to what g gives for the rest.                            *)
FoldStep(k, seq, base, g, s) ==
  IF s = {} THEN base ELSE Apply(k, seq[Min(s)], g[s \ {Min(s)}])

(* What satisfies the equation of the fold up to the set t of positions.   *)
Solves(k, seq, base, g, t) == \A s \in SUBSET t : g[s] = FoldStep(k, seq, base, g, s)

(* The equation has at most one solution up to any finite set of positions.*)
LEMMA SolutionsAgree ==
  ASSUME NEW D \in SUBSET Int, IsFiniteSet(D), NEW k, NEW seq, NEW base, NEW g, NEW h,
         NEW t \in SUBSET D, NEW u \in SUBSET D,
         Solves(k, seq, base, g, t), Solves(k, seq, base, h, u)
  PROVE  \A s \in SUBSET (t \cap u) : g[s] = h[s]
<1> DEFINE T == {s \in SUBSET (t \cap u) : g[s] # h[s]}
<1>1. ASSUME T # {} PROVE FALSE
  <2>1. PICK s \in T : \A r \in T : r \subseteq s => r = s
    <3>1. T \in SUBSET SUBSET D
      OBVIOUS
    <3> HIDE DEF T
    <3> QED
      BY <1>1, <3>1, LeastSet
  <2>2. s \in SUBSET t /\ s \in SUBSET u /\ s \in SUBSET D
    OBVIOUS
  <2>3. g[s] = FoldStep(k, seq, base, g, s) /\ h[s] = FoldStep(k, seq, base, h, s)
    BY <2>2 DEF Solves
  <2>4. CASE s = {}
    BY <2>1, <2>3, <2>4 DEF FoldStep
  <2>5. CASE s # {}
    <3> DEFINE r == s \ {Min(s)}
    <3>1. Min(s) \in s
      BY <2>2, <2>5, LeastPosition
    <3>2. r \subseteq s /\ r # s /\ r \in SUBSET (t \cap u)
      BY <3>1
    <3>3. g[r] = h[r]
      BY <2>1, <3>2
    <3> QED
      BY <2>1, <2>3, <2>5, <3>3 DEF FoldStep
  <2> QED
    BY <2>4, <2>5
<1> QED
  BY <1>1

(* It has one: otherwise some least set of positions has none, and the     *)
(* solution for what is left of it extends to it.                          *)
LEMMA SolutionExists ==
  ASSUME NEW D \in SUBSET Int, IsFiniteSet(D), NEW k, NEW seq, NEW base, NEW t \in SUBSET D
  PROVE  \E g : Solves(k, seq, base, g, t)
<1> DEFINE Solvable(u) == \E g : Solves(k, seq, base, g, u)
           T == {u \in SUBSET D : ~ Solvable(u)}
<1>1. ASSUME T # {} PROVE FALSE
  <2>1. PICK u \in T : \A s \in T : s \subseteq u => s = u
    <3>1. T \in SUBSET SUBSET D
      OBVIOUS
    <3> HIDE DEF T
    <3> QED
      BY <1>1, <3>1, LeastSet
  <2>2. u \in SUBSET D /\ ~ Solvable(u)
    BY <2>1
  <2> DEFINE Own(s) == CHOOSE g : Solves(k, seq, base, g, s)
             Value(s) == Own(s)[s]
             Rest(s) == s \ {Min(s)}
             all == [s \in SUBSET u |-> IF s = {} THEN base ELSE Apply(k, seq[Min(s)], Value(Rest(s)))]
  <2>3. ASSUME NEW s \in SUBSET u, s # u PROVE Solves(k, seq, base, Own(s), s)
    <3>1. Solvable(s)
      BY <2>1, <2>2, <2>3
    <3> QED
      BY <3>1
  <2>4. ASSUME NEW s \in SUBSET u, s # {} PROVE Rest(s) \in SUBSET u /\ Rest(s) # u /\ Rest(s) \subseteq s
    <3>1. Min(s) \in s
      BY <2>2, <2>4, LeastPosition
    <3> QED
      BY <2>4, <3>1
  <2>5. ASSUME NEW s \in SUBSET u, s # u PROVE all[s] = Value(s)
    <3>1. Solves(k, seq, base, Own(s), s) /\ s \in SUBSET D
      BY <2>2, <2>3, <2>5
    <3>2. Value(s) = FoldStep(k, seq, base, Own(s), s)
      BY <3>1 DEF Solves
    <3>3. CASE s = {}
      BY <3>2, <3>3 DEF FoldStep
    <3>4. CASE s # {}
      <4>1. Rest(s) \in SUBSET u /\ Rest(s) # u /\ Rest(s) \subseteq s /\ Rest(s) \in SUBSET D
        BY <2>2, <2>4, <3>4
      <4>2. Solves(k, seq, base, Own(Rest(s)), Rest(s))
        BY <2>3, <4>1
      <4> HIDE DEF Own
      <4>3. Own(s)[Rest(s)] = Own(Rest(s))[Rest(s)]
        <5> DEFINE q == Rest(s)
        <5>1. q \in SUBSET (s \cap q)
          BY <4>1
        <5> HIDE DEF q
        <5> QED
          BY <3>1, <4>1, <4>2, <5>1, SolutionsAgree DEF q
      <4>4. Value(s) = Apply(k, seq[Min(s)], Own(s)[Rest(s)])
        BY <3>2, <3>4 DEF FoldStep
      <4>5. all[s] = Apply(k, seq[Min(s)], Value(Rest(s)))
        BY <3>4
      <4> QED
        BY <4>3, <4>4, <4>5
    <3> QED
      BY <3>3, <3>4
  <2>6. Solves(k, seq, base, all, u)
    <3> SUFFICES ASSUME NEW s \in SUBSET u PROVE all[s] = FoldStep(k, seq, base, all, s)
      BY DEF Solves
    <3>1. CASE s = {}
      BY <3>1 DEF FoldStep
    <3>2. CASE s # {}
      <4>1. all[Rest(s)] = Value(Rest(s))
        BY <2>4, <2>5, <3>2
      <4>2. all[s] = Apply(k, seq[Min(s)], Value(Rest(s)))
        BY <3>2
      <4> HIDE DEF all, Value
      <4> QED
        BY <3>2, <4>1, <4>2 DEF FoldStep
    <3> QED
      BY <3>1, <3>2
  <2> HIDE DEF all
  <2> QED
    BY <2>2, <2>6
<1> QED
  BY <1>1

(* FoldRight of insert, and of delete, is such a solution.                 *)
LEMMA InsertsFolded ==
  ASSUME NEW seq, DOMAIN seq \in SUBSET Int, IsFiniteSet(DOMAIN seq), NEW base
  PROVE  \E g : /\ Solves("insert", seq, base, g, DOMAIN seq)
                /\ FoldRight(InsertPair, seq, base) = g[DOMAIN seq]
<1> DEFINE D == DOMAIN seq
           Body(g) == [s \in SUBSET D |->
                         IF s = {} THEN base ELSE InsertPair(seq[Min(s)], g[s \ {Min(s)}])]
           iter == CHOOSE g : g = Body(g)
<1>1. FoldRight(InsertPair, seq, base) = iter[D]
  BY DEF FoldRight, MapThenFoldSet
<1>2. PICK g : Solves("insert", seq, base, g, D)
  BY SolutionExists
<1> DEFINE h == [s \in SUBSET D |-> g[s]]
<1>3. h = Body(h)
  <2>1. ASSUME NEW s \in SUBSET D
        PROVE  h[s] = IF s = {} THEN base ELSE InsertPair(seq[Min(s)], h[s \ {Min(s)}])
    <3>1. g[s] = FoldStep("insert", seq, base, g, s)
      BY <1>2 DEF Solves
    <3>2. s \ {Min(s)} \in SUBSET D
      OBVIOUS
    <3> HIDE DEF D
    <3> QED
      BY <3>1, <3>2 DEF FoldStep, Apply
  <2> HIDE DEF D
  <2>2. h = [s \in SUBSET D |-> h[s]]
    OBVIOUS
  <2> HIDE DEF h
  <2> QED
    BY <2>1, <2>2
<1> HIDE DEF h, Body
<1>4. iter = Body(iter)
  BY <1>3
<1> HIDE DEF iter
<1>5. Solves("insert", seq, base, iter, D)
  <2> SUFFICES ASSUME NEW s \in SUBSET D PROVE iter[s] = FoldStep("insert", seq, base, iter, s)
    BY DEF Solves
  <2> HIDE DEF D
  <2> QED
    BY <1>4 DEF Body, FoldStep, Apply
<1> QED
  BY <1>1, <1>5

(* The same of delete.                                                     *)
LEMMA DeletesFolded ==
  ASSUME NEW seq, DOMAIN seq \in SUBSET Int, IsFiniteSet(DOMAIN seq), NEW base
  PROVE  \E g : /\ Solves("delete", seq, base, g, DOMAIN seq)
                /\ FoldRight(DeletePair, seq, base) = g[DOMAIN seq]
<1> DEFINE D == DOMAIN seq
           Body(g) == [s \in SUBSET D |->
                         IF s = {} THEN base ELSE DeletePair(seq[Min(s)], g[s \ {Min(s)}])]
           iter == CHOOSE g : g = Body(g)
<1>1. FoldRight(DeletePair, seq, base) = iter[D]
  BY DEF FoldRight, MapThenFoldSet
<1>2. PICK g : Solves("delete", seq, base, g, D)
  BY SolutionExists
<1> DEFINE h == [s \in SUBSET D |-> g[s]]
<1>3. h = Body(h)
  <2>1. ASSUME NEW s \in SUBSET D
        PROVE  h[s] = IF s = {} THEN base ELSE DeletePair(seq[Min(s)], h[s \ {Min(s)}])
    <3>1. g[s] = FoldStep("delete", seq, base, g, s)
      BY <1>2 DEF Solves
    <3>2. s \ {Min(s)} \in SUBSET D
      OBVIOUS
    <3> HIDE DEF D
    <3> QED
      BY <3>1, <3>2 DEF FoldStep, Apply
  <2> HIDE DEF D
  <2>2. h = [s \in SUBSET D |-> h[s]]
    OBVIOUS
  <2> HIDE DEF h
  <2> QED
    BY <2>1, <2>2
<1> HIDE DEF h, Body
<1>4. iter = Body(iter)
  BY <1>3
<1> HIDE DEF iter
<1>5. Solves("delete", seq, base, iter, D)
  <2> SUFFICES ASSUME NEW s \in SUBSET D PROVE iter[s] = FoldStep("delete", seq, base, iter, s)
    BY DEF Solves
  <2> HIDE DEF D
  <2> QED
    BY <1>4 DEF Body, FoldStep, Apply
<1> QED
  BY <1>1, <1>5

-----------------------------------------------------------------------------
(* What the folds compute.                                                 *)

(* A list of intervals, and the integers that those at some positions hold.*)
IsList(seq) ==
  /\ DOMAIN seq \in SUBSET Int /\ IsFiniteSet(DOMAIN seq)
  /\ \A i \in DOMAIN seq : seq[i][1] \in Int /\ seq[i][2] \in Int

Covers(seq, s) == UNION {seq[i][1] .. seq[i][2] : i \in s}

(* What the two operations do to the set of integers.                      *)
Effect(k, S, T) == IF k = "insert" THEN S \cup T ELSE S \ T

(* One interval: insert adds its integers, delete removes them.            *)
LEMMA ApplyExact ==
  ASSUME NEW k, NEW p, p[1] \in Int, p[2] \in Int, NEW m, Good(m)
  PROVE  /\ Good(Apply(k, p, m))
         /\ Elements(Apply(k, p, m)) = Effect(k, Elements(m), p[1] .. p[2])
BY InsertGood, InsertElements, DeleteGood, DeleteElements DEF Apply, Effect, InsertPair, DeletePair

(* All intervals at the positions s: a least set for which the fold went   *)
(* wrong is not empty, and one interval less makes it right.               *)
LEMMA FoldExact ==
  ASSUME NEW k, NEW seq, IsList(seq), NEW base, Good(base), NEW g,
         Solves(k, seq, base, g, DOMAIN seq)
  PROVE  /\ Good(g[DOMAIN seq])
         /\ Elements(g[DOMAIN seq]) = Effect(k, Elements(base), Covers(seq, DOMAIN seq))
<1> DEFINE D == DOMAIN seq
           Exact(s) == Good(g[s]) /\ Elements(g[s]) = Effect(k, Elements(base), Covers(seq, s))
           T == {s \in SUBSET D : ~ Exact(s)}
<1>0. D \in SUBSET Int /\ IsFiniteSet(D) /\ \A i \in D : seq[i][1] \in Int /\ seq[i][2] \in Int
  BY DEF IsList
<1>1. ASSUME T # {} PROVE FALSE
  <2>1. PICK s \in T : \A r \in T : r \subseteq s => r = s
    <3>1. T \in SUBSET SUBSET D
      OBVIOUS
    <3> HIDE DEF T, D
    <3> QED
      BY <1>0, <1>1, <3>1, LeastSet
  <2>2. s \in SUBSET D /\ ~ Exact(s)
    BY <2>1
  <2>3. g[s] = FoldStep(k, seq, base, g, s)
    BY <2>2 DEF Solves
  <2>4. CASE s = {}
    <3>1. g[s] = base /\ Covers(seq, s) = {}
      BY <2>3, <2>4 DEF FoldStep, Covers
    <3> QED
      BY <2>2, <3>1 DEF Effect
  <2>5. CASE s # {}
    <3> DEFINE i == Min(s)
               r == s \ {i}
               here == seq[i][1] .. seq[i][2]
    <3> HIDE DEF D
    <3>1. i \in s
      BY <1>0, <2>2, <2>5, LeastPosition
    <3>2. r \in SUBSET D /\ r \subseteq s /\ r # s
      BY <2>2, <3>1
    <3>3. Exact(r)
      BY <2>1, <3>2
    <3>4. g[s] = Apply(k, seq[i], g[r])
      BY <2>3, <2>5 DEF FoldStep
    <3> HIDE DEF i, r
    <3>5. i \in D
      BY <2>2, <3>1
    <3>6. Good(g[s]) /\ Elements(g[s]) = Effect(k, Elements(g[r]), here)
      BY <1>0, <3>3, <3>4, <3>5, ApplyExact
    <3>7. Covers(seq, s) = Covers(seq, r) \cup here
      <4>1. s = r \cup {i}
        BY <3>1 DEF r
      <4> QED
        BY <4>1 DEF Covers
    <3> HIDE DEF here
    <3>8. Effect(k, Effect(k, Elements(base), Covers(seq, r)), here)
            = Effect(k, Elements(base), Covers(seq, r) \cup here)
      BY DEF Effect
    <3> QED
      BY <2>2, <3>3, <3>6, <3>7, <3>8
  <2> QED
    BY <2>4, <2>5
<1>2. D \in SUBSET D
  OBVIOUS
<1> QED
  BY <1>1, <1>2

(* Inserting a list of intervals adds what they cover.                     *)
LEMMA InsertsExact ==
  ASSUME NEW seq, IsList(seq), NEW base, Good(base)
  PROVE  /\ Good(FoldRight(InsertPair, seq, base))
         /\ Elements(FoldRight(InsertPair, seq, base)) = Elements(base) \cup Covers(seq, DOMAIN seq)
<1>1. PICK g : /\ Solves("insert", seq, base, g, DOMAIN seq)
               /\ FoldRight(InsertPair, seq, base) = g[DOMAIN seq]
  BY InsertsFolded DEF IsList
<1> DEFINE all == FoldRight(InsertPair, seq, base)
<1>2. all = g[DOMAIN seq]
  BY <1>1
<1> HIDE DEF all
<1>3. Good(all) /\ Elements(all) = Effect("insert", Elements(base), Covers(seq, DOMAIN seq))
  BY <1>1, <1>2, FoldExact
<1>4. Good(all) /\ Elements(all) = Elements(base) \cup Covers(seq, DOMAIN seq)
  BY <1>3 DEF Effect
<1> QED
  BY <1>4 DEF all

(* Deleting a list of intervals removes what they cover.                   *)
LEMMA DeletesExact ==
  ASSUME NEW seq, IsList(seq), NEW base, Good(base)
  PROVE  /\ Good(FoldRight(DeletePair, seq, base))
         /\ Elements(FoldRight(DeletePair, seq, base)) = Elements(base) \ Covers(seq, DOMAIN seq)
<1>1. PICK g : /\ Solves("delete", seq, base, g, DOMAIN seq)
               /\ FoldRight(DeletePair, seq, base) = g[DOMAIN seq]
  BY DeletesFolded DEF IsList
<1> DEFINE all == FoldRight(DeletePair, seq, base)
<1>2. all = g[DOMAIN seq]
  BY <1>1
<1> HIDE DEF all
<1>3. Good(all) /\ Elements(all) = Effect("delete", Elements(base), Covers(seq, DOMAIN seq))
  BY <1>1, <1>2, FoldExact
<1>4. Good(all) /\ Elements(all) = Elements(base) \ Covers(seq, DOMAIN seq)
  BY <1>3 DEF Effect
<1> QED
  BY <1>4 DEF all

(* toList lists every interval.  The numbers of lower ends below each one  *)
(* tell the lower ends apart, so there is one for every position.          *)
LEMMA ToListExact ==
  ASSUME NEW m, Good(m), IsFiniteSet(DOMAIN m)
  PROVE  IsList(ToList(m)) /\ Covers(ToList(m), DOMAIN ToList(m)) = Elements(m)
<1> DEFINE D == DOMAIN m
           n == Cardinality(D)
           Below(k) == {l \in D : l < k}
           Rank(k) == Cardinality(Below(k))
           rank == [k \in D |-> Rank(k)]
           list == ToList(m)
<1>1. D \subseteq Int /\ IsFiniteSet(D) /\ \A k \in D : m[k] \in Int
  BY DEF Good, IsMap
<1> HIDE DEF D
<1>2. n \in Nat
  BY <1>1, FS_CardinalityType
<1>3. ASSUME NEW k \in D PROVE IsFiniteSet(Below(k)) /\ Rank(k) \in 0 .. n - 1
  <2>1. Below(k) \in SUBSET D /\ Below(k) # D /\ k \in Int
    BY <1>1
  <2>2. IsFiniteSet(Below(k)) /\ Rank(k) <= n /\ Rank(k) # n
    BY <1>1, <2>1, FS_Subset
  <2>3. Rank(k) \in Nat
    BY <2>2, FS_CardinalityType
  <2> HIDE DEF Rank, n
  <2> QED
    BY <1>2, <2>2, <2>3
<1>4. ASSUME NEW k \in D, NEW l \in D, k < l PROVE Rank(k) # Rank(l)
  <2>1. k \in Int /\ l \in Int /\ \A x \in D : x \in Int
    BY <1>1
  <2>2. k \in Below(l) /\ k \notin Below(k)
    BY <1>4, <2>1
  <2>3. ASSUME NEW x \in Below(k) PROVE x \in Below(l)
    BY <1>4, <2>1
  <2>4. Below(k) \in SUBSET Below(l) /\ Below(k) # Below(l)
    <3> HIDE DEF Below
    <3> QED
      BY <2>2, <2>3
  <2>5. IsFiniteSet(Below(l))
    BY <1>3
  <2> QED
    BY <2>4, <2>5, FS_Subset
<1>5. \A k, l \in D : Rank(k) = Rank(l) => k = l
  <2> SUFFICES ASSUME NEW k \in D, NEW l \in D, Rank(k) = Rank(l), k # l PROVE FALSE
    OBVIOUS
  <2>1. k < l \/ l < k
    BY <1>1
  <2> HIDE DEF Rank
  <2> QED
    BY <1>4, <2>1
<1> HIDE DEF Rank, n
<1>6. rank \in Surjection(D, 0 .. n - 1)
  <2> DEFINE R == 0 .. n - 1
  <2>1. IsFiniteSet(R) /\ Cardinality(R) = n
    BY <1>2, FS_Interval
  <2> HIDE DEF R
  <2>2. rank \in [D -> R] /\ \A k \in D : rank[k] = Rank(k)
    BY <1>3 DEF R
  <2> HIDE DEF rank
  <2>3. rank \in Injection(D, R)
    BY <1>5, <2>2 DEF Injection, IsInjective
  <2>4. Cardinality(D) = Cardinality(R)
    BY <2>1 DEF n
  <2> QED
    BY <2>1, <2>3, <2>4, FS_Injection DEF R
<1>7. ASSUME NEW i \in 1 .. n PROVE LowerEnd(i, m) \in D /\ Rank(LowerEnd(i, m)) = i - 1
  <2>1. i - 1 \in 0 .. n - 1
    BY <1>2
  <2>2. PICK k \in D : rank[k] = i - 1
    BY <1>6, <2>1 DEF Surjection
  <2>3. Rank(k) = i - 1
    BY <2>2
  <2> QED
    BY <2>3 DEF LowerEnd, Rank, D
<1>8. ASSUME NEW k \in D PROVE \E i \in 1 .. n : LowerEnd(i, m) = k
  <2>1. Rank(k) \in 0 .. n - 1
    BY <1>3
  <2>2. ASSUME NEW r \in 0 .. n - 1 PROVE r + 1 \in 1 .. n /\ r + 1 - 1 = r
    BY <1>2
  <2>3. PICK i \in 1 .. n : i - 1 = Rank(k)
    BY <2>1, <2>2
  <2>4. LowerEnd(i, m) = k
    BY <1>5, <1>7, <2>3
  <2> QED
    BY <2>4
<1>9. DOMAIN list = 1 .. n /\ \A i \in 1 .. n : list[i] = <<LowerEnd(i, m), m[LowerEnd(i, m)]>>
  BY DEF ToList, n, D
<1> HIDE DEF list
<1>10. \A i \in 1 .. n : list[i][1] = LowerEnd(i, m) /\ list[i][2] = m[LowerEnd(i, m)]
  BY <1>9
<1>11. IsList(list)
  <2>1. IsFiniteSet(1 .. n) /\ 1 .. n \in SUBSET Int
    BY <1>2, FS_Interval
  <2> QED
    BY <1>1, <1>7, <1>9, <1>10, <2>1 DEF IsList
<1>12. Covers(list, DOMAIN list) = Elements(m)
  <2>1. Covers(list, DOMAIN list) = UNION {LowerEnd(i, m) .. m[LowerEnd(i, m)] : i \in 1 .. n}
    BY <1>9, <1>10 DEF Covers
  <2>2. {LowerEnd(i, m) .. m[LowerEnd(i, m)] : i \in 1 .. n} = {k .. m[k] : k \in D}
    BY <1>7, <1>8
  <2>3. Elements(m) = UNION {k .. m[k] : k \in D}
    BY DEF Elements, D
  <2> QED
    BY <2>1, <2>2, <2>3
<1> QED
  BY <1>11, <1>12 DEF list

-----------------------------------------------------------------------------
(* The operations that combine two sets.                                   *)

(* A good map of integers in Lo .. Hi has its ends there, so it has finitely*)
(* many intervals.                                                         *)
LEMMA FiniteWithin ==
  ASSUME NEW m, Good(m), Elements(m) \subseteq Lo .. Hi
  PROVE  /\ DOMAIN m \subseteq Lo .. Hi /\ \A k \in DOMAIN m : m[k] \in Lo .. Hi
         /\ IsFiniteSet(DOMAIN m)
<1>1. IsMap(m) /\ Canonical(m)
  BY DEF Good
<1>2. ASSUME NEW k \in DOMAIN m PROVE k \in Elements(m) /\ m[k] \in Elements(m)
  <2>1. k \in Int /\ m[k] \in Int /\ k <= m[k]
    BY <1>1 DEF IsMap, Canonical
  <2> QED
    BY <1>1, <2>1, InElements
<1>3. DOMAIN m \in SUBSET (Lo .. Hi)
  BY <1>2
<1>4. IsFiniteSet(Lo .. Hi)
  BY LoHiAssumption, FS_Interval
<1> QED
  BY <1>2, <1>3, <1>4, FS_Subset

(* The union of two sets, and their difference.                            *)
LEMMA CombinedExact ==
  ASSUME NEW s1, Good(s1), NEW s2, Good(s2), Elements(s2) \subseteq Lo .. Hi
  PROVE  /\ Good(UnionOf(s1, s2)) /\ Good(DifferenceOf(s1, s2))
         /\ Elements(UnionOf(s1, s2)) = Elements(s1) \cup Elements(s2)
         /\ Elements(DifferenceOf(s1, s2)) = Elements(s1) \ Elements(s2)
<1>1. IsList(ToList(s2)) /\ Covers(ToList(s2), DOMAIN ToList(s2)) = Elements(s2)
  BY FiniteWithin, ToListExact
<1> DEFINE list == ToList(s2)
<1> HIDE DEF list
<1>2. IsList(list) /\ Covers(list, DOMAIN list) = Elements(s2)
  BY <1>1 DEF list
<1>3. /\ Good(FoldRight(InsertPair, list, s1))
      /\ Elements(FoldRight(InsertPair, list, s1)) = Elements(s1) \cup Elements(s2)
  BY <1>2, InsertsExact
<1>4. /\ Good(FoldRight(DeletePair, list, s1))
      /\ Elements(FoldRight(DeletePair, list, s1)) = Elements(s1) \ Elements(s2)
  BY <1>2, DeletesExact
<1> QED
  BY <1>3, <1>4 DEF UnionOf, DifferenceOf, list

(* The set of a list, for lists that a client writes and for those that    *)
(* toList gives.                                                           *)
LEMMA EmptyGood == Good(Empty) /\ Elements(Empty) = {}
BY DEF Good, IsMap, HasFloor, Canonical, Empty, AtMost, Elements

LEMMA FromListExact ==
  ASSUME NEW seq, IsList(seq)
  PROVE  Good(FromList(seq)) /\ Elements(FromList(seq)) = Covers(seq, DOMAIN seq)
<1>1. /\ Good(FoldRight(InsertPair, seq, Empty))
      /\ Elements(FoldRight(InsertPair, seq, Empty)) = Elements(Empty) \cup Covers(seq, DOMAIN seq)
  BY EmptyGood, InsertsExact
<1>2. Elements(Empty) \cup Covers(seq, DOMAIN seq) = Covers(seq, DOMAIN seq)
  BY EmptyGood
<1> QED
  BY <1>1, <1>2 DEF FromList

(* The lists a client writes are lists of intervals within Lo .. Hi.       *)
LEMMA WrittenLists ==
  ASSUME NEW pairs \in Lists
  PROVE  /\ IsList(pairs) /\ Covers(pairs, DOMAIN pairs) \subseteq Lo .. Hi
         /\ Covers(pairs, DOMAIN pairs) = UNION {p[1] .. p[2] : p \in ToSet(pairs)}
<1>1. PICK n \in 0 .. MaxPairs : pairs \in [1 .. n -> (Lo .. Hi) \X (Lo .. Hi)]
  BY DEF Lists
<1>2. n \in Int
  BY MaxPairsAssumption
<1>3. /\ DOMAIN pairs = 1 .. n /\ 1 .. n \in SUBSET Int /\ IsFiniteSet(1 .. n)
      /\ \A i \in 1 .. n : pairs[i][1] \in Lo .. Hi /\ pairs[i][2] \in Lo .. Hi
  BY <1>1, <1>2, FS_Interval
<1>4. Lo .. Hi \subseteq Int /\ \A a, b \in Lo .. Hi : a .. b \subseteq Lo .. Hi
  BY LoHiAssumption
<1>5. IsList(pairs)
  BY <1>3, <1>4 DEF IsList
<1>6. Covers(pairs, DOMAIN pairs) \subseteq Lo .. Hi
  <2>1. \A i \in DOMAIN pairs : pairs[i][1] .. pairs[i][2] \subseteq Lo .. Hi
    BY <1>3, <1>4
  <2> QED
    BY <2>1 DEF Covers
<1>7. {pairs[i][1] .. pairs[i][2] : i \in DOMAIN pairs} = {p[1] .. p[2] : p \in ToSet(pairs)}
  BY DEF ToSet
<1> QED
  BY <1>5, <1>6, <1>7 DEF Covers

-----------------------------------------------------------------------------
(* The client.                                                             *)

(* Whatever it does, its set is one the module may hold, of integers that  *)
(* it has used.                                                            *)
Held(m) == Good(m) /\ Elements(m) \subseteq Lo .. Hi

(* Every call leaves such a set.                                           *)
LEMMA StepHeld ==
  ASSUME Held(ranges), AlgebraNext
  PROVE  Held(ranges')
<1>1. CASE Next
  <2>1. PICK i, j \in Lo .. Hi : InsertRange(i, j) \/ DeleteRange(i, j)
    BY <1>1 DEF Next
  <2>2. i \in Int /\ j \in Int /\ i .. j \subseteq Lo .. Hi
    BY LoHiAssumption
  <2>3. Held(Insert(i, j, ranges))
    BY <2>2, InsertGood, InsertElements DEF Held
  <2>4. Held(Delete(i, j, ranges))
    BY <2>2, DeleteGood, DeleteElements DEF Held
  <2> QED
    BY <2>1, <2>3, <2>4 DEF InsertRange, DeleteRange
<1>2. ASSUME NEW pairs \in Lists, UnionWith(pairs) \/ DifferenceWith(pairs) PROVE Held(ranges')
  <2>1. Held(FromList(pairs))
    BY WrittenLists, FromListExact DEF Held
  <2> DEFINE s == FromList(pairs)
  <2> HIDE DEF s
  <2>2. Held(UnionOf(ranges, s)) /\ Held(DifferenceOf(ranges, s))
    BY <2>1, CombinedExact DEF Held, s
  <2> QED
    BY <1>2, <2>2 DEF UnionWith, DifferenceWith, s
<1> QED
  BY <1>1, <1>2 DEF AlgebraNext

(* The inductive invariant.                                                *)
LEMMA HeldForever == AlgebraSpec => []Held(ranges)
<1>1. Init => Held(ranges)
  BY EmptyGood DEF Init, Held
<1>2. Held(ranges) /\ [AlgebraNext]_ranges => Held(ranges)'
  <2>1. ASSUME Held(ranges), AlgebraNext PROVE Held(ranges')
    BY <2>1, StepHeld
  <2> QED
    BY <2>1
<1> QED
  BY <1>1, <1>2, PTL DEF AlgebraSpec

(* The intervals' ends stay within those that the client uses: cutting at  *)
(* i - 1 and restarting at j + 1 never leave them.                         *)
THEOREM TypeCorrect == AlgebraSpec => []TypeOK
<1>1. Held(ranges) => TypeOK
  BY FiniteWithin DEF Held, Good, IsMap, TypeOK
<1> QED
  BY <1>1, HeldForever, PTL

(* Whatever sequence of calls built it, the representation is canonical:   *)
(* disjoint, nonempty intervals that do not touch.                         *)
THEOREM RangesCanonicalForever == AlgebraSpec => []RangesCanonical
<1>1. Held(ranges) => RangesCanonical
  BY DEF Held, Good, RangesCanonical
<1> QED
  BY <1>1, HeldForever, PTL

(* member, which looks at one interval, answers for the whole set.         *)
THEOREM MemberExactForever == AlgebraSpec => []MemberExact
<1>1. Held(ranges) => MemberExact
  <2> SUFFICES ASSUME Held(ranges), NEW x \in Lo - 1 .. Hi + 1
               PROVE  Member(x, ranges) <=> x \in Elements(ranges)
    BY DEF MemberExact
  <2>1. x \in Int
    BY LoHiAssumption
  <2> QED
    BY <2>1, MemberOfElements DEF Held
<1> QED
  BY <1>1, HeldForever, PTL

(* insert and delete are union and difference with an interval's integers  *)
(* for every set that calls can build.                                     *)
THEOREM ElementsExactForever == AlgebraSpec => []ElementsExact
<1>1. Held(ranges) => ElementsExact
  <2> SUFFICES ASSUME Held(ranges), NEW i \in Lo .. Hi, NEW j \in Lo .. Hi
               PROVE  /\ Elements(Insert(i, j, ranges)) = Elements(ranges) \cup (i .. j)
                      /\ Elements(Delete(i, j, ranges)) = Elements(ranges) \ (i .. j)
    BY DEF ElementsExact
  <2>1. i \in Int /\ j \in Int
    BY LoHiAssumption
  <2> QED
    BY <2>1, InsertElements, DeleteElements DEF Held
<1> QED
  BY <1>1, HeldForever, PTL

(* fromList, union and difference compute the sets they are named for, and *)
(* union commutes as equality of maps.                                     *)
THEOREM CombinesExactForever == AlgebraSpec => []CombinesExact
<1>1. Held(ranges) => CombinesExact
  <2> SUFFICES ASSUME Held(ranges), NEW pairs \in Lists
               PROVE  LET s == FromList(pairs)
                          S == UNION {p[1] .. p[2] : p \in ToSet(pairs)}
                      IN  /\ Elements(s) = S
                          /\ Elements(UnionOf(ranges, s)) = Elements(ranges) \cup S
                          /\ Elements(DifferenceOf(ranges, s)) = Elements(ranges) \ S
                          /\ UnionOf(ranges, s) = UnionOf(s, ranges)
    BY DEF CombinesExact
  <2> DEFINE s == FromList(pairs)
             S == UNION {p[1] .. p[2] : p \in ToSet(pairs)}
  <2>1. Good(s) /\ Elements(s) = S /\ S \subseteq Lo .. Hi
    BY WrittenLists, FromListExact
  <2> HIDE DEF s, S
  <2>2. /\ Good(UnionOf(ranges, s)) /\ Elements(UnionOf(ranges, s)) = Elements(ranges) \cup S
        /\ Elements(DifferenceOf(ranges, s)) = Elements(ranges) \ S
    BY <2>1, CombinedExact DEF Held
  <2>3. Good(UnionOf(s, ranges)) /\ Elements(UnionOf(s, ranges)) = S \cup Elements(ranges)
    BY <2>1, CombinedExact DEF Held
  <2>4. UnionOf(ranges, s) = UnionOf(s, ranges)
    <3>1. Elements(UnionOf(ranges, s)) = Elements(UnionOf(s, ranges))
      BY <2>2, <2>3
    <3> QED
      BY <2>2, <2>3, <3>1, EqualSetsEqualMaps
  <2> QED
    BY <2>1, <2>2, <2>4 DEF s, S
<1> QED
  BY <1>1, HeldForever, PTL

(* toList and fromList are inverse on every set that calls can build.      *)
THEOREM ListRoundTripForever == AlgebraSpec => []ListRoundTrip
<1>1. Held(ranges) => ListRoundTrip
  <2> SUFFICES ASSUME Held(ranges) PROVE FromList(ToList(ranges)) = ranges
    BY DEF ListRoundTrip
  <2>1. Good(ranges) /\ IsFiniteSet(DOMAIN ranges)
    BY FiniteWithin DEF Held
  <2>2. IsList(ToList(ranges)) /\ Covers(ToList(ranges), DOMAIN ToList(ranges)) = Elements(ranges)
    BY <2>1, ToListExact
  <2>3. /\ Good(FromList(ToList(ranges)))
        /\ Elements(FromList(ToList(ranges))) = Elements(ranges)
    BY <2>2, FromListExact
  <2> QED
    BY <2>1, <2>3, EqualSetsEqualMaps
<1> QED
  BY <1>1, HeldForever, PTL
=============================================================================
