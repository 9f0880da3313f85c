--------------------------- MODULE TopLevelProofs ---------------------------
(***************************************************************************)
(* For scripts that keep to the scopes of their checkpoints, and any       *)
(* numbers of terms, checkpoints and nested calls: all that is required of *)
(* the interpreter's state.                                                *)
(*                                                                         *)
(* The state is copied: by handlers, blocks, checkpoints and restores.     *)
(* Each copy fits the calls below the one that holds it (StateOK), and was *)
(* live when it was made (StateLive).  What is left to prove of a step     *)
(* is that the copy it puts in force is live still.                        *)
(*                                                                         *)
(* All operators take the checkpoints, cs, as a parameter.                 *)
(***************************************************************************)
EXTENDS TopLevelProperties, FiniteSetTheorems, SequenceTheorems, TLAPS

(* What a kernel takes for valid.                                          *)
Live(k) == (0..(k.next - 1)) \ k.stale

KernelOK(k) == k \in Kernel /\ k.stale \subseteq 0..(k.next - 1) /\ k.globals \subseteq Live(k)

(* Since a checkpoint was taken, nothing older than it became stale.       *)
Continues(chk, k) ==
  /\ chk.next <= k.next
  /\ chk.stale \subseteq k.stale
  /\ \A t \in k.stale \ chk.stale : chk.next <= t

Point == [rw : RW, chk : Kernel, calls : Seq(Frame)]

(* The shells but for an outermost one, as far as the innermost block, each *)
(* have a scope; includes each have a directory.                           *)
InnerShells(frames) ==
  {i \in 1..Len(frames) :
     frames[i].k = "shell" /\ i < Len(frames) /\ \A j \in 1..(i - 1) : frames[j].k # "block"}
Includes(frames) == {i \in 1..Len(frames) : frames[i].k = "include"}

Mirrored(env, cry) ==
  /\ Len(env) = Len(cry)
  /\ \A i, j \in 1..Len(env) : i <= j => env[j].terms \cup cry[j] \subseteq cry[i]

(* A checkpoint that a scope binds was taken with the scopes from that one *)
(* outwards.                                                               *)
EnvOK(cs, env, cry) ==
  /\ env \in Seq(Scope) /\ cry \in Seq(SUBSET Term)
  /\ Mirrored(env, cry)
  /\ \A i \in 1..Len(env) : \A c \in env[i].chks :
       c \in DOMAIN cs /\ Len(cs[c].rw.env) = Len(env) - i + 1

Room(env, rest) == Len(env) > Cardinality(InnerShells(rest))

EnvLive(cs, env, cry, k) ==
  /\ cry[1] \subseteq Live(k)
  /\ \A i \in 1..Len(env) : \A c \in env[i].chks : c \in DOMAIN cs /\ Continues(cs[c].chk, k)

StateOK(cs, st, rest) ==
  /\ st \in RW
  /\ EnvOK(cs, st.env, st.cry) /\ Room(st.env, rest)
  /\ Len(st.dirs) = Cardinality(Includes(rest))
StateLive(cs, st, k) == EnvLive(cs, st.env, st.cry, k) /\ st.theorems \subseteq Live(k)

Catches(f) == f.k \in {"command", "timeout"}

(* What a frame will put in force is live in k; a handler is not overtaken. *)
FrameLive(cs, f, k) ==
  /\ f.k = "block" => EnvLive(cs, f.env, f.cry, k)
  /\ f.k = "fails" => StateLive(cs, f.rw, k)
  /\ Catches(f) => Continues(f.chk, k) /\ f.chk.next \notin k.stale

CallsLive(cs, frames, k) == \A q \in 1..Len(frames) : FrameLive(cs, frames[q], k)

(* A copy of everything, made in some calls.                               *)
PointOK(cs, s, calls) ==
  /\ StateOK(cs, s.rw, calls) /\ StateLive(cs, s.rw, s.chk)
  /\ KernelOK(s.chk)
  /\ CallsLive(cs, calls, s.chk)
  /\ \A q \in 1..Len(calls) : Catches(calls[q]) => calls[q].chk.next < s.chk.next

FrameOK(cs, k, f, rest) ==
  /\ f.k = "block" => EnvOK(cs, f.env, f.cry) /\ Room(f.env, rest)
  /\ f.k = "fails" => StateOK(cs, f.rw, rest)
  /\ Catches(f) => PointOK(cs, f, rest) /\ f.chk.next <= k.next /\ f.chk.stale \subseteq k.stale

Drop(frames, p) == SubSeq(frames, p + 1, Len(frames))
FramesOK(cs, k, frames) == \A p \in 1..Len(frames) : FrameOK(cs, k, frames[p], Drop(frames, p))

(* The calls of a command, as of those after it.                           *)
CallsOf(frames) == IF frames # <<>> /\ Head(frames).k = "command" THEN Tail(frames) ELSE frames

-----------------------------------------------------------------------------
(* The inductive invariant.                                                *)
NoRestoring(frames) == \A p \in 1..Len(frames) : frames[p].k # "restoring"

(* A script's checkpoint may go back past that of the command that invoked *)
(* it, which then cannot fail any more; past no other.                     *)
Waiting(frames, ex) ==
  IF ex # NoException THEN frames
  ELSE IF frames # <<>> /\ Head(frames).k = "restoring" THEN CallsOf(Tail(frames))
  ELSE CallsOf(frames)

Restoring(cs, k, st, f, rest) ==
  /\ PointOK(cs, f, CallsOf(rest))
  /\ Continues(f.chk, k)
  /\ Len(f.rw.env) <= Len(st.env)
  /\ f.todo = "terms" => k.globals = f.chk.globals

Going(cs, k, st, frames) ==
  IF Head(frames).k = "restoring" THEN Restoring(cs, k, st, Head(frames), Tail(frames))
  ELSE StateOK(cs, st, frames) /\ StateLive(cs, st, k)

PointsOK(cs) == cs \in Seq(Point) /\ \A c \in 1..Len(cs) : PointOK(cs, cs[c], cs[c].calls)
RWOK(st) == st \in RW /\ Mirrored(st.env, st.cry)
StackOK(cs, k, frames) ==
  /\ frames \in Seq(Frame)
  /\ FramesOK(cs, k, frames)
  /\ frames # <<>> => NoRestoring(Tail(frames))

Consistent(cs, k, st, frames, ex) ==
  /\ PointsOK(cs) /\ KernelOK(k) /\ RWOK(st) /\ StackOK(cs, k, frames) /\ ex \in Exception
  /\ CallsLive(cs, Waiting(frames, ex), k)
  /\ ex = NoException /\ frames # <<>> => Going(cs, k, st, frames)

Inv == Consistent(chks, kernel, rw, stack, raised) /\ cwd \in Dir \cup {Orig}

-----------------------------------------------------------------------------
(* Sequences: one element more in front, and one less.                     *)
LEMMA ConsElements ==
  ASSUME NEW S, NEW x \in S, NEW s \in Seq(S)
  PROVE  /\ <<x>> \o s \in Seq(S)
         /\ Len(<<x>> \o s) = Len(s) + 1 /\ Len(s) \in Nat
         /\ (<<x>> \o s)[1] = x /\ Head(<<x>> \o s) = x /\ Tail(<<x>> \o s) = s
         /\ \A i \in 2..(Len(s) + 1) : (<<x>> \o s)[i] = s[i - 1]
         /\ <<x>> \o s # <<>>
  <1>1. <<x>> \in Seq(S) /\ Len(<<x>>) = 1 /\ <<x>>[1] = x OBVIOUS
  <1>2. /\ <<x>> \o s \in Seq(S) /\ Len(<<x>> \o s) = Len(s) + 1
        /\ \A i \in 1..(Len(s) + 1) : (<<x>> \o s)[i] = IF i <= 1 THEN <<x>>[i] ELSE s[i - 1]
    BY <1>1, ConcatProperties
  <1>3. <<x>> \o s # <<>> /\ Head(<<x>> \o s) = x /\ Len(s) \in Nat BY <1>1, <1>2
  <1>4. Tail(<<x>> \o s) = s
    <2> DEFINE t == Tail(<<x>> \o s)
    <2>1. t \in Seq(S) /\ Len(t) = Len(s) /\ \A i \in 1..Len(s) : t[i] = (<<x>> \o s)[i + 1]
      BY <1>2, <1>3, HeadTailProperties
    <2>2. \A i \in 1..Len(s) : t[i] = s[i] BY <1>2, <1>3, <2>1
    <2> HIDE DEF t
    <2> QED BY <2>1, <2>2, SeqEqual DEF t
  <1> QED BY <1>1, <1>2, <1>3, <1>4

LEMMA TailElements ==
  ASSUME NEW S, NEW s \in Seq(S), s # <<>>
  PROVE  /\ Tail(s) \in Seq(S)
         /\ Len(Tail(s)) = Len(s) - 1 /\ Len(s) \in Nat \ {0}
         /\ \A i \in 1..(Len(s) - 1) : Tail(s)[i] = s[i + 1]
         /\ Head(s) = s[1] /\ s[1] \in S
         /\ s = <<s[1]>> \o Tail(s)
  <1>1. /\ Tail(s) \in Seq(S) /\ Len(Tail(s)) = Len(s) - 1 /\ Len(s) \in Nat \ {0}
        /\ \A i \in 1..(Len(s) - 1) : Tail(s)[i] = s[i + 1]
        /\ Head(s) = s[1] /\ s[1] \in S
    BY HeadTailProperties, LenProperties, EmptySeq
  <1> DEFINE t == <<s[1]>> \o Tail(s)
  <1>2. t \in Seq(S) /\ Len(t) = Len(s) /\ \A i \in 1..Len(s) : t[i] = s[i]
    BY <1>1, ConsElements
  <1> HIDE DEF t
  <1>3. t = s BY <1>2, SeqEqual
  <1> QED BY <1>1, <1>3 DEF t

LEMMA DropCons ==
  ASSUME NEW S, NEW x \in S, NEW s \in Seq(S)
  PROVE  /\ Drop(<<x>> \o s, 1) = s
         /\ \A p \in 1..Len(s) : Drop(<<x>> \o s, p + 1) = Drop(s, p) /\ Drop(s, p) \in Seq(S)
  <1> DEFINE t == <<x>> \o s
  <1>1. /\ t \in Seq(S) /\ Len(t) = Len(s) + 1 /\ Len(s) \in Nat /\ Tail(t) = s /\ t # <<>>
        /\ \A i \in 2..(Len(s) + 1) : t[i] = s[i - 1]
    BY ConsElements
  <1> HIDE DEF t
  <1>2. Drop(t, 1) = s BY <1>1, TailIsSubSeq DEF Drop
  <1>3. ASSUME NEW p \in 1..Len(s) PROVE Drop(t, p + 1) = Drop(s, p) /\ Drop(s, p) \in Seq(S)
    <2>1. \A i \in (p + 1)..Len(s) : s[i] \in S BY <1>3, ElementOfSeq, <1>1
    <2>2. \A i \in (p + 2)..Len(t) : t[i] \in S BY <1>1, <1>3, ElementOfSeq
    <2>3. /\ Drop(s, p) \in Seq(S) /\ Len(Drop(s, p)) = Len(s) - p
          /\ \A i \in 1..(Len(s) - p) : Drop(s, p)[i] = s[p + i]
      BY <1>1, <2>1, SubSeqProperties DEF Drop
    <2>4. /\ Drop(t, p + 1) \in Seq(S) /\ Len(Drop(t, p + 1)) = Len(s) - p
          /\ \A i \in 1..(Len(s) - p) : Drop(t, p + 1)[i] = t[p + 1 + i]
      BY <1>1, <2>2, SubSeqProperties DEF Drop
    <2>5. ASSUME NEW i \in 1..(Len(s) - p) PROVE Drop(t, p + 1)[i] = Drop(s, p)[i]
      <3>1. p + 1 + i \in 2..(Len(s) + 1) /\ (p + 1 + i) - 1 = p + i BY <1>1
      <3>2. t[p + 1 + i] = s[p + i] BY <1>1, <3>1
      <3> QED BY <2>3, <2>4, <3>2
    <2> QED BY <2>3, <2>4, <2>5, SeqEqual
  <1> QED BY <1>2, <1>3 DEF t

-----------------------------------------------------------------------------
(* Counting shells and includes.                                           *)
Shifted(S) == {i + 1 : i \in S}

LEMMA ShiftCounts ==
  ASSUME NEW n \in Nat, NEW S \in SUBSET (1..n)
  PROVE  /\ IsFiniteSet(S) /\ IsFiniteSet(Shifted(S))
         /\ Cardinality(S) \in Nat /\ Cardinality(Shifted(S)) = Cardinality(S)
  <1>0. IsFiniteSet(1..n) BY FS_Interval
  <1>1. IsFiniteSet(S) BY <1>0, FS_Subset
  <1>2. Cardinality(S) \in Nat BY <1>1, FS_CardinalityType
  <1> DEFINE f == [i \in S |-> i + 1]
  <1>3. f \in Bijection(S, Shifted(S)) BY DEF Shifted, Bijection, Injection, Surjection, IsInjective
  <1>4. ExistsBijection(S, Shifted(S)) BY <1>3 DEF ExistsBijection
  <1> QED BY <1>1, <1>2, <1>4, FS_Bijection

LEMMA CountPush ==
  ASSUME NEW s \in Seq(Frame), NEW f \in Frame
  PROVE  LET t == <<f>> \o s IN
         /\ Cardinality(Includes(t)) = IF f.k = "include" THEN Cardinality(Includes(s)) + 1
                                       ELSE Cardinality(Includes(s))
         /\ Cardinality(InnerShells(t)) = IF f.k = "block" \/ s = <<>> THEN 0
                                          ELSE IF f.k = "shell" THEN Cardinality(InnerShells(s)) + 1
                                          ELSE Cardinality(InnerShells(s))
         /\ Cardinality(Includes(s)) \in Nat /\ Cardinality(InnerShells(s)) \in Nat
  <1> DEFINE t == <<f>> \o s
  <1>1. /\ Len(t) = Len(s) + 1 /\ Len(s) \in Nat /\ t[1] = f
        /\ \A i \in 2..(Len(s) + 1) : t[i] = s[i - 1]
        /\ s = <<>> <=> Len(s) = 0
    BY ConsElements, EmptySeq
  <1> HIDE DEF t
  <1>2. \A i \in 1..Len(s) : i + 1 \in 2..(Len(s) + 1) /\ t[i + 1] = s[i] BY <1>1
  <1>3. Includes(s) \in SUBSET (1..Len(s)) /\ InnerShells(s) \in SUBSET (1..Len(s))
    BY DEF Includes, InnerShells
  <1>4. /\ IsFiniteSet(Shifted(Includes(s))) /\ IsFiniteSet(Shifted(InnerShells(s)))
        /\ Cardinality(Shifted(Includes(s))) = Cardinality(Includes(s))
        /\ Cardinality(Shifted(InnerShells(s))) = Cardinality(InnerShells(s))
        /\ Cardinality(Includes(s)) \in Nat /\ Cardinality(InnerShells(s)) \in Nat
    BY <1>1, <1>3, ShiftCounts
  <1>5. 1 \notin Shifted(Includes(s)) /\ 1 \notin Shifted(InnerShells(s)) BY <1>3 DEF Shifted
  <1>6. Cardinality(Includes(t)) = IF f.k = "include" THEN Cardinality(Includes(s)) + 1
                                   ELSE Cardinality(Includes(s))
    <2>1. Includes(t) = Shifted(Includes(s)) \cup (IF f.k = "include" THEN {1} ELSE {})
      <3>1. ASSUME NEW i \in Includes(t), i # 1 PROVE i \in Shifted(Includes(s))
        <4>1. i \in 2..(Len(s) + 1) /\ i - 1 \in 1..Len(s) /\ t[i].k = "include" /\ t[i] = s[i - 1]
          BY <1>1, <3>1 DEF Includes
        <4>2. i - 1 \in Includes(s) /\ i = (i - 1) + 1 BY <4>1 DEF Includes
        <4> QED BY <4>2 DEF Shifted
      <3>2. ASSUME NEW i \in Includes(s) PROVE i + 1 \in Includes(t)
        BY <1>1, <1>2 DEF Includes
      <3>3. 1 \in Includes(t) <=> f.k = "include" BY <1>1 DEF Includes
      <3> QED BY <3>1, <3>2, <3>3 DEF Shifted
    <2> QED BY <1>4, <1>5, <2>1, FS_AddElement
  <1>7. Cardinality(InnerShells(t)) = IF f.k = "block" \/ s = <<>> THEN 0
                                      ELSE IF f.k = "shell" THEN Cardinality(InnerShells(s)) + 1
                                      ELSE Cardinality(InnerShells(s))
    <2>1. CASE s = <<>>
      <3>1. InnerShells(t) = {} BY <1>1, <2>1 DEF InnerShells
      <3> QED BY <2>1, <3>1, FS_EmptySet
    <2>2. CASE f.k = "block"
      <3>1. InnerShells(t) = {}
        <4>1. ASSUME NEW i \in InnerShells(t) PROVE FALSE
          <5>1. i # 1 /\ i \in 1..Len(t) BY <1>1, <2>2 DEF InnerShells
          <5>2. 1 \in 1..(i - 1) BY <1>1, <5>1
          <5> QED BY <1>1, <2>2, <5>2 DEF InnerShells
        <4> QED BY <4>1
      <3> QED BY <2>2, <3>1, FS_EmptySet
    <2>3. CASE s # <<>> /\ f.k # "block"
      <3>1. InnerShells(t) = Shifted(InnerShells(s)) \cup (IF f.k = "shell" THEN {1} ELSE {})
        <4>1. ASSUME NEW i \in InnerShells(t), i # 1 PROVE i \in Shifted(InnerShells(s))
          <5>1. i \in 2..(Len(s) + 1) /\ i - 1 \in 1..Len(s) /\ s[i - 1].k = "shell" /\ i - 1 < Len(s)
            BY <1>1, <4>1 DEF InnerShells
          <5>2. ASSUME NEW j \in 1..((i - 1) - 1) PROVE s[j].k # "block"
            <6>1. j + 1 \in 1..(i - 1) /\ j \in 1..Len(s) BY <5>1
            <6> QED BY <1>2, <4>1, <6>1 DEF InnerShells
          <5>3. i - 1 \in InnerShells(s) /\ i = (i - 1) + 1 BY <5>1, <5>2 DEF InnerShells
          <5> QED BY <5>3 DEF Shifted
        <4>2. ASSUME NEW i \in InnerShells(s) PROVE i + 1 \in InnerShells(t)
          <5>1. i \in 1..Len(s) /\ s[i].k = "shell" /\ i < Len(s) BY DEF InnerShells
          <5>2. i + 1 \in 1..Len(t) /\ t[i + 1].k = "shell" /\ i + 1 < Len(t) BY <1>1, <1>2, <5>1
          <5>3. ASSUME NEW j \in 1..((i + 1) - 1) PROVE t[j].k # "block"
            <6>1. CASE j = 1 BY <1>1, <2>3, <6>1
            <6>2. CASE j # 1
              <7>1. j - 1 \in 1..(i - 1) /\ t[j] = s[j - 1] BY <1>1, <5>1, <6>2
              <7> QED BY <4>2, <7>1 DEF InnerShells
            <6> QED BY <6>1, <6>2
          <5> QED BY <5>2, <5>3 DEF InnerShells
        <4>3. 1 \in InnerShells(t) <=> f.k = "shell" BY <1>1, <2>3 DEF InnerShells
        <4> QED BY <4>1, <4>2, <4>3 DEF Shifted
      <3> QED BY <1>4, <1>5, <2>3, <3>1, FS_AddElement
    <2> QED BY <2>1, <2>2, <2>3
  <1> QED BY <1>4, <1>6, <1>7 DEF t

-----------------------------------------------------------------------------
(* The parts of frames and states.                                         *)
LEMMA FrameTypes ==
  ASSUME NEW f \in Frame
  PROVE  /\ f.k = "block" => f.env \in Seq(Scope) /\ f.cry \in Seq(SUBSET Term)
         /\ f.k = "fails" => f.rw \in RW
         /\ Catches(f) => f.rw \in RW /\ f.chk \in Kernel
         /\ f.k = "restoring" => f.rw \in RW /\ f.chk \in Kernel /\ f.todo \in {"terms", "rw"}
         /\ f.k = "file" => f.cwd \in Dir \cup {Orig}
         /\ f.k \in {"shell", "include", "file", "command", "timeout", "fails", "block", "restoring"}
  BY DEF Frame, Catches

LEMMA StateTypes ==
  ASSUME NEW st \in RW
  PROVE  /\ st.env \in Seq(Scope) /\ st.cry \in Seq(SUBSET Term)
         /\ st.theorems \in SUBSET Term /\ st.dirs \in Seq(Dir)
  BY DEF RW

LEMMA PointTypes ==
  ASSUME NEW cs \in Seq(Point), NEW c \in DOMAIN cs
  PROVE  cs[c].rw \in RW /\ cs[c].chk \in Kernel /\ cs[c].calls \in Seq(Frame) /\ DOMAIN cs = 1..Len(cs)
  <1>1. DOMAIN cs = 1..Len(cs) /\ cs[c] \in Point BY LenProperties, ElementOfSeq
  <1> QED BY <1>1 DEF Point

-----------------------------------------------------------------------------
(* Kernels.                                                                *)
LEMMA KernelTypes ==
  ASSUME NEW k \in Kernel
  PROVE  k.next \in Nat /\ k.next <= MaxTerms /\ k.stale \subseteq Term /\ Term \subseteq Nat
  BY TopLevelAssumption DEF Kernel, Term

LEMMA ContinuesItself ==
  ASSUME NEW k, KernelOK(k)
  PROVE  Continues(k, k) /\ k.next \notin k.stale
  BY KernelTypes DEF KernelOK, Continues

LEMMA ContinuesTransitive ==
  ASSUME NEW a \in Kernel, NEW b \in Kernel, NEW c \in Kernel, Continues(a, b), Continues(b, c)
  PROVE  Continues(a, c)
  <1>1. a.next \in Nat /\ b.next \in Nat /\ c.next \in Nat /\ c.stale \subseteq Nat BY KernelTypes
  <1>2. ASSUME NEW t \in c.stale \ a.stale PROVE a.next <= t
    <2>1. CASE t \in b.stale BY <1>2, <2>1 DEF Continues
    <2>2. CASE t \notin b.stale BY <1>1, <1>2, <2>2 DEF Continues
    <2> QED BY <2>1, <2>2
  <1> QED BY <1>1, <1>2 DEF Continues

LEMMA LiveContinues ==
  ASSUME NEW a \in Kernel, NEW b \in Kernel, Continues(a, b)
  PROVE  Live(a) \subseteq Live(b)
  <1>1. a.next \in Nat /\ b.next \in Nat BY KernelTypes
  <1> QED BY <1>1 DEF Continues, Live

LEMMA SameTerms ==
  ASSUME NEW a \in Kernel, NEW b \in Kernel, a.stale = b.stale, a.next <= b.next
  PROVE  Continues(a, b)
  BY DEF Continues

(* One term more.                                                          *)
LEMMA MoreTerms ==
  ASSUME NEW k, KernelOK(k), k.next < MaxTerms, NEW g \in SUBSET {k.next},
         NEW l, l = [k EXCEPT !.next = @ + 1, !.globals = @ \cup g]
  PROVE  /\ KernelOK(l) /\ Continues(k, l) /\ l.stale = k.stale /\ k.next <= l.next
         /\ k.next \in Live(l) /\ k.next \in Term
  <1>1. k \in Kernel /\ k.next \in Nat /\ k.stale \subseteq 0..(k.next - 1) /\ k.globals \subseteq Live(k)
    BY KernelTypes DEF KernelOK
  <1>2. l.next = k.next + 1 /\ l.stale = k.stale /\ l.globals = k.globals \cup g BY <1>1 DEF Kernel
  <1>3. k.next \in Term BY <1>1, TopLevelAssumption DEF Term
  <1>4. l \in Kernel
    <2>1. k.next + 1 \in 0..MaxTerms /\ g \in SUBSET Term BY <1>1, <1>3, TopLevelAssumption
    <2> QED BY <1>1, <2>1 DEF Kernel
  <1>5. Continues(k, l)
    <2>1. k.next <= l.next BY <1>1, <1>2
    <2> QED BY <1>1, <1>2, <1>4, <2>1, SameTerms
  <1>6. Live(k) \subseteq Live(l) BY <1>1, <1>4, <1>5, LiveContinues
  <1>7. k.next \in Live(l) BY <1>1, <1>2 DEF Live
  <1> QED BY <1>1, <1>2, <1>3, <1>4, <1>5, <1>6, <1>7 DEF KernelOK

(* The two halves of restoreSharedContext.                                 *)
LEMMA EnvsRestored ==
  ASSUME NEW k, KernelOK(k), NEW chk, KernelOK(chk), Continues(chk, k),
         NEW l, l = [k EXCEPT !.globals = chk.globals]
  PROVE  /\ KernelOK(l) /\ Continues(k, l) /\ Continues(chk, l)
         /\ l.stale = k.stale /\ l.next = k.next /\ l.globals = chk.globals
  <1>1. /\ k \in Kernel /\ k.next \in Nat /\ k.stale \subseteq 0..(k.next - 1)
        /\ chk \in Kernel /\ chk.globals \subseteq Live(chk)
    BY KernelTypes DEF KernelOK
  <1>0. chk.globals \in SUBSET Term BY <1>1 DEF Kernel
  <1>2. l \in Kernel /\ l.next = k.next /\ l.stale = k.stale /\ l.globals = chk.globals
    BY <1>0, <1>1 DEF Kernel
  <1>3. Continues(k, l)
    <2>1. k.next <= l.next BY <1>1, <1>2
    <2> QED BY <1>1, <1>2, <2>1, SameTerms
  <1>4. Continues(chk, l) BY <1>1, <1>2, <1>3, ContinuesTransitive
  <1>5. Live(chk) \subseteq Live(l) BY <1>1, <1>2, <1>4, LiveContinues
  <1> QED BY <1>1, <1>2, <1>3, <1>4, <1>5 DEF KernelOK

LEMMA TermsRestored ==
  ASSUME NEW k, KernelOK(k), NEW chk, KernelOK(chk), Continues(chk, k), k.globals = chk.globals
  PROVE  LET l == RestoreTerms(k, chk) IN
         /\ KernelOK(l) /\ Continues(chk, l)
         /\ k.stale \subseteq l.stale /\ l.next = k.next /\ l.globals = chk.globals
         /\ l.stale = chk.stale \cup (chk.next..(k.next - 1))
  <1> DEFINE l == RestoreTerms(k, chk)
  <1>1. /\ k \in Kernel /\ k.next \in Nat /\ k.next <= MaxTerms /\ k.stale \subseteq 0..(k.next - 1)
        /\ chk \in Kernel /\ chk.next \in Nat /\ chk.globals \subseteq Live(chk)
        /\ k.stale \subseteq Term
    BY KernelTypes DEF KernelOK
  <1>2. l.next = k.next /\ l.stale = k.stale \cup (chk.next..(k.next - 1)) /\ l.globals = chk.globals
    BY <1>1 DEF Kernel, RestoreTerms
  <1>3. l \in Kernel
    <2>1. chk.next..(k.next - 1) \subseteq Term BY <1>1, TopLevelAssumption DEF Term
    <2>2. k.stale \cup (chk.next..(k.next - 1)) \in SUBSET Term BY <1>1, <2>1
    <2> QED BY <1>1, <2>2 DEF Kernel, RestoreTerms
  <1> HIDE DEF l
  <1>4. Continues(chk, l) BY <1>1, <1>2 DEF Continues
  <1>5. Live(chk) \subseteq Live(l) BY <1>1, <1>3, <1>4, LiveContinues
  <1>6. l.stale \subseteq 0..(l.next - 1) BY <1>1, <1>2
  <1>7. l.stale = chk.stale \cup (chk.next..(k.next - 1))
    <2>1. ASSUME NEW t \in k.stale, t \notin chk.stale PROVE t \in chk.next..(k.next - 1)
      BY <1>1, <2>1 DEF Continues
    <2> QED BY <1>2, <2>1 DEF Continues
  <1>8. KernelOK(l) BY <1>2, <1>3, <1>5, <1>6 DEF KernelOK
  <1> QED BY <1>2, <1>4, <1>7, <1>8 DEF l

-----------------------------------------------------------------------------
(* What is live stays live until the kernel goes back past it.             *)
LEMMA EnvLiveMoves ==
  ASSUME NEW cs \in Seq(Point), NEW env, NEW cry, NEW a \in Kernel, NEW b \in Kernel,
         Continues(a, b), EnvLive(cs, env, cry, a)
  PROVE  EnvLive(cs, env, cry, b)
  <1>1. Live(a) \subseteq Live(b) BY LiveContinues
  <1>2. ASSUME NEW i \in 1..Len(env), NEW c \in env[i].chks
        PROVE  c \in DOMAIN cs /\ Continues(cs[c].chk, b)
    <2>1. c \in DOMAIN cs /\ Continues(cs[c].chk, a) BY DEF EnvLive
    <2>2. cs[c].chk \in Kernel BY <2>1, PointTypes
    <2> QED BY <2>1, <2>2, ContinuesTransitive
  <1> QED BY <1>1, <1>2 DEF EnvLive

LEMMA StateLiveMoves ==
  ASSUME NEW cs \in Seq(Point), NEW st, NEW a \in Kernel, NEW b \in Kernel,
         Continues(a, b), StateLive(cs, st, a)
  PROVE  StateLive(cs, st, b)
  BY EnvLiveMoves, LiveContinues DEF StateLive

LEMMA FrameLiveMoves ==
  ASSUME NEW cs \in Seq(Point), NEW f \in Frame, NEW a \in Kernel, NEW b \in Kernel,
         Continues(a, b), FrameLive(cs, f, a),
         a.stale = b.stale \/ (Catches(f) => f.chk.next < a.next)
  PROVE  FrameLive(cs, f, b)
  <1>1. f.k = "block" => EnvLive(cs, f.env, f.cry, b) BY EnvLiveMoves DEF FrameLive
  <1>2. f.k = "fails" => StateLive(cs, f.rw, b) BY StateLiveMoves DEF FrameLive
  <1>3. ASSUME Catches(f) PROVE Continues(f.chk, b) /\ f.chk.next \notin b.stale
    <2>1. f.chk \in Kernel /\ f.chk.next \in Nat /\ a.next \in Nat BY <1>3, FrameTypes, KernelTypes
    <2>2. Continues(f.chk, a) /\ f.chk.next \notin a.stale BY <1>3 DEF FrameLive
    <2>3. Continues(f.chk, b) BY <2>1, <2>2, ContinuesTransitive
    <2>4. f.chk.next \notin b.stale BY <1>3, <2>1, <2>2 DEF Continues
    <2> QED BY <2>3, <2>4
  <1> QED BY <1>1, <1>2, <1>3 DEF FrameLive

LEMMA PointMoves ==
  ASSUME NEW cs \in Seq(Point), NEW s, NEW calls \in Seq(Frame), PointOK(cs, s, calls),
         NEW k \in Kernel, Continues(s.chk, k)
  PROVE  StateLive(cs, s.rw, k) /\ CallsLive(cs, calls, k)
  <1>1. s.chk \in Kernel BY DEF PointOK, KernelOK
  <1>2. StateLive(cs, s.rw, k) BY <1>1, StateLiveMoves DEF PointOK
  <1>3. ASSUME NEW q \in 1..Len(calls) PROVE FrameLive(cs, calls[q], k)
    <2>1. calls[q] \in Frame /\ FrameLive(cs, calls[q], s.chk) /\ (Catches(calls[q]) => calls[q].chk.next < s.chk.next)
      BY ElementOfSeq DEF PointOK, CallsLive
    <2> QED BY <1>1, <2>1, FrameLiveMoves
  <1> QED BY <1>2, <1>3 DEF CallsLive

-----------------------------------------------------------------------------
(* Changes to environments.                                                *)
Bound(env, cry, new, X, env2, cry2) ==
  env2 = [env EXCEPT ![1] = new] /\ cry2 = [cry EXCEPT ![1] = @ \cup X]

LEMMA EnvBind ==
  ASSUME NEW cs \in Seq(Point), NEW env, NEW cry, NEW k \in Kernel, NEW l \in Kernel,
         EnvOK(cs, env, cry), Len(env) > 0, EnvLive(cs, env, cry, k), Continues(k, l),
         NEW X \in SUBSET Term, X \subseteq Live(l), NEW new \in Scope,
         new.terms \subseteq env[1].terms \cup X, new.chks = env[1].chks,
         NEW env2, NEW cry2, Bound(env, cry, new, X, env2, cry2)
  PROVE  EnvOK(cs, env2, cry2) /\ EnvLive(cs, env2, cry2, l) /\ Len(env2) = Len(env)
  <1>1. /\ env \in Seq(Scope) /\ cry \in Seq(SUBSET Term) /\ Len(cry) = Len(env) /\ Len(env) \in Nat
        /\ \A i, j \in 1..Len(env) : i <= j => env[j].terms \cup cry[j] \subseteq cry[i]
    BY LenProperties DEF EnvOK, Mirrored
  <1>2. 1 \in 1..Len(env) /\ 1 \in 1..Len(cry) /\ cry[1] \in SUBSET Term
    BY <1>1, ElementOfSeq
  <1>3. /\ env2 \in Seq(Scope) /\ Len(env2) = Len(env)
        /\ \A i \in 1..Len(env) : env2[i] = IF i = 1 THEN new ELSE env[i]
    BY <1>1, <1>2, ExceptSeq DEF Bound
  <1>4. /\ cry2 \in Seq(SUBSET Term) /\ Len(cry2) = Len(env)
        /\ \A i \in 1..Len(env) : cry2[i] = IF i = 1 THEN cry[1] \cup X ELSE cry[i]
    <2>1. cry[1] \cup X \in SUBSET Term /\ cry2 = [cry EXCEPT ![1] = cry[1] \cup X] BY <1>2 DEF Bound
    <2> QED BY <1>1, <1>2, <2>1, ExceptSeq
  <1>5. Mirrored(env2, cry2)
    <2>1. ASSUME NEW i \in 1..Len(env), NEW j \in 1..Len(env), i <= j
          PROVE  env2[j].terms \cup cry2[j] \subseteq cry2[i]
      <3>1. CASE i = 1 /\ j = 1
        <4>1. env[1].terms \cup cry[1] \subseteq cry[1] BY <1>1, <1>2
        <4>2. env2[j].terms \subseteq env[1].terms \cup X /\ cry2[j] = cry[1] \cup X /\ cry2[i] = cry[1] \cup X
          BY <1>3, <1>4, <3>1
        <4> QED BY <4>1, <4>2
      <3>2. CASE i = 1 /\ j # 1
        <4>1. env[j].terms \cup cry[j] \subseteq cry[1] BY <1>1, <1>2, <2>1, <3>2
        <4>2. env2[j] = env[j] /\ cry2[j] = cry[j] /\ cry2[i] = cry[1] \cup X BY <1>3, <1>4, <3>2
        <4> QED BY <4>1, <4>2
      <3>3. CASE i # 1
        <4>1. j # 1 BY <1>1, <2>1, <3>3
        <4> QED BY <1>1, <1>3, <1>4, <2>1, <3>3, <4>1
      <3> QED BY <3>1, <3>2, <3>3
    <2> QED BY <1>3, <1>4, <2>1 DEF Mirrored
  <1>6. \A i \in 1..Len(env) : env2[i].chks = env[i].chks BY <1>3
  <1>7. EnvLive(cs, env, cry, l) BY EnvLiveMoves
  <1>8. EnvLive(cs, env2, cry2, l) BY <1>2, <1>3, <1>4, <1>6, <1>7 DEF EnvLive
  <1>9. EnvOK(cs, env2, cry2) BY <1>3, <1>4, <1>5, <1>6 DEF EnvOK
  <1> QED BY <1>3, <1>8, <1>9

LEMMA ScopePushed ==
  ASSUME NEW cs \in Seq(Point), NEW env, NEW cry, NEW k,
         EnvOK(cs, env, cry), Len(env) > 0, EnvLive(cs, env, cry, k),
         NEW env2, env2 = <<[terms |-> {}, chks |-> {}]>> \o env,
         NEW cry2, cry2 = <<Head(cry)>> \o cry
  PROVE  EnvOK(cs, env2, cry2) /\ EnvLive(cs, env2, cry2, k) /\ Len(env2) = Len(env) + 1
  <1>1. /\ env \in Seq(Scope) /\ cry \in Seq(SUBSET Term) /\ Len(cry) = Len(env) /\ Len(env) \in Nat
        /\ \A i, j \in 1..Len(env) : i <= j => env[j].terms \cup cry[j] \subseteq cry[i]
    BY LenProperties DEF EnvOK, Mirrored
  <1>2. Head(cry) = cry[1] /\ cry[1] \in SUBSET Term BY <1>1, TailElements, EmptySeq
  <1>3. /\ env2 \in Seq(Scope) /\ Len(env2) = Len(env) + 1 /\ env2[1] = [terms |-> {}, chks |-> {}]
        /\ \A i \in 2..(Len(env) + 1) : env2[i] = env[i - 1]
    <2>1. [terms |-> {}, chks |-> {}] \in Scope BY DEF Scope
    <2> QED BY <1>1, <2>1, ConsElements
  <1>4. /\ cry2 \in Seq(SUBSET Term) /\ Len(cry2) = Len(env) + 1 /\ cry2[1] = cry[1]
        /\ \A i \in 2..(Len(env) + 1) : cry2[i] = cry[i - 1]
    BY <1>1, <1>2, ConsElements
  <1>5. Mirrored(env2, cry2)
    <2>1. ASSUME NEW i \in 1..(Len(env) + 1), NEW j \in 1..(Len(env) + 1), i <= j
          PROVE  env2[j].terms \cup cry2[j] \subseteq cry2[i]
      <3>1. CASE j = 1
        <4>1. i = 1 BY <1>1, <2>1, <3>1
        <4> QED BY <1>3, <1>4, <3>1, <4>1
      <3>2. CASE j # 1
        <4>1. j \in 2..(Len(env) + 1) /\ j - 1 \in 1..Len(env) BY <1>1, <3>2
        <4>2. CASE i = 1
          <5>1. 1 \in 1..Len(env) /\ 1 <= j - 1 BY <1>1, <4>1
          <5> QED BY <1>1, <1>3, <1>4, <4>1, <4>2, <5>1
        <4>3. CASE i # 1
          <5>1. i \in 2..(Len(env) + 1) /\ i - 1 \in 1..Len(env) /\ i - 1 <= j - 1 BY <1>1, <2>1, <4>3
          <5> QED BY <1>1, <1>3, <1>4, <4>1, <5>1
        <4> QED BY <4>2, <4>3
      <3> QED BY <3>1, <3>2
    <2> QED BY <1>3, <1>4, <2>1 DEF Mirrored
  <1>6. ASSUME NEW i \in 1..(Len(env) + 1), NEW c \in env2[i].chks
        PROVE  i - 1 \in 1..Len(env) /\ c \in env[i - 1].chks
    <2>1. i # 1 BY <1>3, <1>6
    <2> QED BY <1>1, <1>3, <1>6, <2>1
  <1>7. EnvLive(cs, env2, cry2, k) BY <1>3, <1>4, <1>6 DEF EnvLive
  <1>8. ASSUME NEW i \in 1..Len(env2), NEW c \in env2[i].chks
        PROVE  c \in DOMAIN cs /\ Len(cs[c].rw.env) = Len(env2) - i + 1
    <2>1. i - 1 \in 1..Len(env) /\ c \in env[i - 1].chks BY <1>3, <1>6, <1>8
    <2>2. c \in DOMAIN cs /\ Len(cs[c].rw.env) = Len(env) - (i - 1) + 1 BY <2>1 DEF EnvOK
    <2> QED BY <1>1, <1>3, <2>2
  <1>9. EnvOK(cs, env2, cry2) BY <1>3, <1>4, <1>5, <1>8 DEF EnvOK
  <1> QED BY <1>3, <1>7, <1>9

(* A block may be written in an outer scope; a subshell's scope is popped. *)
LEMMA ScopesCut ==
  ASSUME NEW cs \in Seq(Point), NEW env, NEW cry, NEW k,
         EnvOK(cs, env, cry), EnvLive(cs, env, cry, k), NEW n \in 1..Len(env),
         NEW env2, env2 = SubSeq(env, n, Len(env)), NEW cry2, cry2 = SubSeq(cry, n, Len(cry))
  PROVE  EnvOK(cs, env2, cry2) /\ EnvLive(cs, env2, cry2, k) /\ Len(env2) = Len(env) - n + 1
  <1>1. /\ env \in Seq(Scope) /\ cry \in Seq(SUBSET Term) /\ Len(cry) = Len(env) /\ Len(env) \in Nat
        /\ \A i, j \in 1..Len(env) : i <= j => env[j].terms \cup cry[j] \subseteq cry[i]
    BY LenProperties DEF EnvOK, Mirrored
  <1>2. /\ \A i \in n..Len(env) : env[i] \in Scope /\ cry[i] \in SUBSET Term
        /\ n \in Int /\ n <= Len(env)
    BY <1>1, ElementOfSeq
  <1> DEFINE m == Len(env) - n + 1
  <1>3. /\ env2 \in Seq(Scope) /\ Len(env2) = m /\ \A i \in 1..m : env2[i] = env[n + i - 1]
    BY <1>1, <1>2, SubSeqProperties
  <1>4. /\ cry2 \in Seq(SUBSET Term) /\ Len(cry2) = m /\ \A i \in 1..m : cry2[i] = cry[n + i - 1]
    BY <1>1, <1>2, SubSeqProperties
  <1>5. m \in Nat /\ 1 \in 1..m /\ \A i \in 1..m : n + i - 1 \in 1..Len(env) BY <1>1, <1>2
  <1> HIDE DEF m
  <1>6. Mirrored(env2, cry2)
    <2>1. ASSUME NEW i \in 1..m, NEW j \in 1..m, i <= j
          PROVE  env2[j].terms \cup cry2[j] \subseteq cry2[i]
      <3>1. n + i - 1 <= n + j - 1 BY <1>2, <1>5, <2>1
      <3> QED BY <1>1, <1>3, <1>4, <1>5, <3>1
    <2> QED BY <1>3, <1>4, <2>1 DEF Mirrored
  <1>7. cry2[1] \subseteq cry[1]
    <2>1. 1 \in 1..Len(env) /\ 1 <= n + 1 - 1 BY <1>1, <1>2
    <2> QED BY <1>1, <1>4, <1>5, <2>1
  <1>8. EnvLive(cs, env2, cry2, k) BY <1>3, <1>5, <1>7 DEF EnvLive
  <1>9. ASSUME NEW i \in 1..m, NEW c \in env2[i].chks
        PROVE  c \in DOMAIN cs /\ Len(cs[c].rw.env) = m - i + 1
    <2>1. c \in DOMAIN cs /\ Len(cs[c].rw.env) = Len(env) - (n + i - 1) + 1
      BY <1>3, <1>5, <1>9 DEF EnvOK
    <2> QED BY <1>1, <1>2, <2>1 DEF m
  <1>10. EnvOK(cs, env2, cry2) BY <1>3, <1>4, <1>6, <1>9 DEF EnvOK
  <1> QED BY <1>3, <1>8, <1>10 DEF m

(* Scopes pushed on an environment, after cutting it.                      *)
Cut(st, n) == [st EXCEPT !.env = SubSeq(@, n, Len(@)), !.cry = SubSeq(@, n, Len(@))]

LEMMA PushedScope ==
  ASSUME NEW cs \in Seq(Point), NEW st \in RW, NEW k, EnvOK(cs, st.env, st.cry), StateLive(cs, st, k),
         NEW n \in 1..Len(st.env),
         NEW cut, cut = Cut(st, n), NEW new, new = pushScope(cut)
  PROVE  /\ new \in RW /\ EnvOK(cs, new.env, new.cry) /\ StateLive(cs, new, k)
         /\ Len(new.env) = Len(st.env) - n + 2
         /\ new.dirs = st.dirs
  <1> DEFINE e == st.env
             c == st.cry
             env == SubSeq(e, n, Len(e))
             cry == SubSeq(c, n, Len(c))
             env2 == <<[terms |-> {}, chks |-> {}]>> \o env
             cry2 == <<Head(cry)>> \o cry
  <1>1. cs \in Seq(Point) /\ EnvOK(cs, e, c) /\ EnvLive(cs, e, c, k) /\ n \in 1..Len(e) /\ Len(e) \in Nat
    BY StateTypes, LenProperties DEF StateLive
  <1>2. env = SubSeq(e, n, Len(e)) /\ cry = SubSeq(c, n, Len(c)) OBVIOUS
  <1>3. env2 = <<[terms |-> {}, chks |-> {}]>> \o env /\ cry2 = <<Head(cry)>> \o cry OBVIOUS
  <1>4. cut = [st EXCEPT !.env = env, !.cry = cry]
    <2>1. st = [env |-> st.env, cry |-> st.cry, theorems |-> st.theorems, dirs |-> st.dirs] BY DEF RW
    <2> QED BY <2>1 DEF Cut
  <1>5. e = st.env OBVIOUS
  <1> HIDE DEF e, c, env, cry, env2, cry2
  <1>6. EnvOK(cs, env, cry) /\ EnvLive(cs, env, cry, k) /\ Len(env) = Len(e) - n + 1
    <2>1. EnvOK(cs, env, cry) /\ EnvLive(cs, env, cry, k) BY <1>1, <1>2, ScopesCut
    <2>2. Len(env) = Len(e) - n + 1
      <3>1. e \in Seq(Scope) /\ \A i \in n..Len(e) : e[i] \in Scope BY <1>1, ElementOfSeq DEF EnvOK
      <3> QED BY <1>1, <1>2, <3>1, SubSeqProperties
    <2> QED BY <2>1, <2>2
  <1>7. EnvOK(cs, env2, cry2) /\ EnvLive(cs, env2, cry2, k) /\ Len(env2) = Len(env) + 1
    <2>1. Len(env) > 0 BY <1>1, <1>6
    <2>2. EnvOK(cs, env2, cry2) /\ EnvLive(cs, env2, cry2, k) BY <1>1, <1>3, <1>6, <2>1, ScopePushed
    <2>3. Len(env2) = Len(env) + 1
      <3>1. env \in Seq(Scope) /\ [terms |-> {}, chks |-> {}] \in Scope BY <1>6 DEF EnvOK, Scope
      <3> QED BY <1>3, <3>1, ConsElements
    <2> QED BY <2>2, <2>3
  <1>8. env \in Seq(Scope) /\ cry \in Seq(SUBSET Term) BY <1>6 DEF EnvOK
  <1>9. env2 \in Seq(Scope) /\ cry2 \in Seq(SUBSET Term) BY <1>7 DEF EnvOK
  <1>10. cut \in RW /\ cut.env = env /\ cut.cry = cry /\ cut.theorems = st.theorems /\ cut.dirs = st.dirs
    BY <1>4, <1>8 DEF RW
  <1>11. new = [cut EXCEPT !.env = env2, !.cry = cry2]
    <2>1. cut = [env |-> env, cry |-> cry, theorems |-> cut.theorems, dirs |-> cut.dirs] BY <1>10 DEF RW
    <2> QED BY <2>1, <1>3, <1>10 DEF pushScope
  <1>12. /\ new \in RW /\ new.env = env2 /\ new.cry = cry2
         /\ new.theorems = cut.theorems /\ new.dirs = cut.dirs
    BY <1>9, <1>10, <1>11 DEF RW
  <1> QED BY <1>1, <1>5, <1>6, <1>7, <1>10, <1>12 DEF StateLive

LEMMA PoppedScope ==
  ASSUME NEW cs \in Seq(Point), NEW st \in RW, NEW k, EnvOK(cs, st.env, st.cry), StateLive(cs, st, k),
         Len(st.env) > 1, NEW new, new = popScope(st)
  PROVE  /\ new \in RW /\ EnvOK(cs, new.env, new.cry) /\ StateLive(cs, new, k)
         /\ Len(new.env) = Len(st.env) - 1
         /\ new.dirs = st.dirs
  <1> DEFINE e == st.env
             c == st.cry
             env == Tail(e)
             cry == Tail(c)
  <1>0. cs \in Seq(Point) /\ EnvOK(cs, e, c) /\ EnvLive(cs, e, c, k) BY DEF StateLive
  <1>1. /\ e \in Seq(Scope) /\ c \in Seq(SUBSET Term)
        /\ Len(e) \in Nat /\ Len(c) = Len(e) /\ Len(e) > 1
    BY StateTypes, LenProperties DEF EnvOK, Mirrored
  <1>2. new = [st EXCEPT !.env = env, !.cry = cry]
    <2>1. st = [env |-> st.env, cry |-> st.cry, theorems |-> st.theorems, dirs |-> st.dirs] BY DEF RW
    <2> QED BY <2>1 DEF popScope
  <1>3. env = SubSeq(e, 2, Len(e)) /\ cry = SubSeq(c, 2, Len(c)) /\ Len(env) = Len(e) - 1 /\ 2 \in 1..Len(e)
    <2>1. e # <<>> /\ c # <<>> BY <1>1, EmptySeq
    <2> QED BY <1>1, <2>1, TailIsSubSeq, TailElements
  <1>4. e = st.env OBVIOUS
  <1> HIDE DEF e, c, env, cry
  <1>5. EnvOK(cs, env, cry) /\ EnvLive(cs, env, cry, k) /\ Len(env) = Len(e) - 1
    <2>1. PICK n : n \in 1..Len(e) /\ env = SubSeq(e, n, Len(e)) /\ cry = SubSeq(c, n, Len(c)) BY <1>3
    <2>2. EnvOK(cs, env, cry) /\ EnvLive(cs, env, cry, k) BY <1>0, <2>1, ScopesCut
    <2> QED BY <1>3, <2>2
  <1>6. env \in Seq(Scope) /\ cry \in Seq(SUBSET Term) BY <1>5 DEF EnvOK
  <1>7. /\ new \in RW /\ new.env = env /\ new.cry = cry
        /\ new.theorems = st.theorems /\ new.dirs = st.dirs
    BY <1>2, <1>6 DEF RW
  <1> QED BY <1>0, <1>4, <1>5, <1>7 DEF StateLive

-----------------------------------------------------------------------------
(* Frames, one more and one less.                                          *)
LEMMA FrameMoves ==
  ASSUME NEW cs, NEW f \in Frame, NEW rest, NEW k \in Kernel, NEW l \in Kernel,
         FrameOK(cs, k, f, rest), k.next <= l.next, k.stale \subseteq l.stale
  PROVE  FrameOK(cs, l, f, rest)
  <1>1. k.next \in Nat /\ l.next \in Nat BY KernelTypes
  <1>2. ASSUME Catches(f) PROVE f.chk.next <= l.next /\ f.chk.stale \subseteq l.stale
    <2>1. f.chk.next \in Nat BY <1>2, FrameTypes, KernelTypes
    <2> QED BY <1>1, <1>2, <2>1 DEF FrameOK
  <1> QED BY <1>2 DEF FrameOK

LEMMA FramesMove ==
  ASSUME NEW cs, NEW frames \in Seq(Frame), NEW k \in Kernel, NEW l \in Kernel,
         FramesOK(cs, k, frames), k.next <= l.next, k.stale \subseteq l.stale
  PROVE  FramesOK(cs, l, frames)
  <1>1. \A p \in 1..Len(frames) : frames[p] \in Frame BY ElementOfSeq
  <1>2. \A p \in 1..Len(frames) : FrameOK(cs, k, frames[p], Drop(frames, p)) BY DEF FramesOK
  <1>3. \A p \in 1..Len(frames) : FrameOK(cs, l, frames[p], Drop(frames, p)) BY <1>1, <1>2, FrameMoves
  <1> QED BY <1>3 DEF FramesOK

LEMMA FramesCons ==
  ASSUME NEW cs, NEW k, NEW f \in Frame, NEW rest \in Seq(Frame), NEW frames, frames = <<f>> \o rest
  PROVE  /\ FramesOK(cs, k, frames) <=> FrameOK(cs, k, f, rest) /\ FramesOK(cs, k, rest)
         /\ CallsLive(cs, frames, k) <=> FrameLive(cs, f, k) /\ CallsLive(cs, rest, k)
         /\ NoRestoring(frames) <=> f.k # "restoring" /\ NoRestoring(rest)
  <1>1. /\ Len(frames) = Len(rest) + 1 /\ Len(rest) \in Nat /\ frames[1] = f
        /\ \A i \in 2..(Len(rest) + 1) : frames[i] = rest[i - 1]
    BY ConsElements
  <1>2. Drop(frames, 1) = rest /\ \A p \in 1..Len(rest) : Drop(frames, p + 1) = Drop(rest, p)
    BY DropCons
  <1>3. \A p \in 1..Len(rest) : p + 1 \in 1..Len(frames) /\ frames[p + 1] = rest[p] BY <1>1
  <1>4. 1 \in 1..Len(frames) BY <1>1
  <1>5. ASSUME NEW p \in 1..Len(frames), p # 1
        PROVE  p - 1 \in 1..Len(rest) /\ frames[p] = rest[p - 1] /\ Drop(frames, p) = Drop(rest, p - 1)
    <2>1. p - 1 \in 1..Len(rest) /\ p = (p - 1) + 1 BY <1>1, <1>5
    <2> QED BY <1>2, <1>3, <2>1
  <1>6. FramesOK(cs, k, frames) => FrameOK(cs, k, f, rest) /\ FramesOK(cs, k, rest)
    <2>1. ASSUME FramesOK(cs, k, frames) PROVE FrameOK(cs, k, f, rest) BY <1>1, <1>2, <1>4, <2>1 DEF FramesOK
    <2>2. ASSUME FramesOK(cs, k, frames), NEW p \in 1..Len(rest) PROVE FrameOK(cs, k, rest[p], Drop(rest, p))
      <3>1. FrameOK(cs, k, frames[p + 1], Drop(frames, p + 1)) BY <1>3, <2>2 DEF FramesOK
      <3> QED BY <1>2, <1>3, <3>1
    <2> QED BY <2>1, <2>2 DEF FramesOK
  <1>7. FrameOK(cs, k, f, rest) /\ FramesOK(cs, k, rest) => FramesOK(cs, k, frames)
    <2>1. ASSUME FrameOK(cs, k, f, rest), FramesOK(cs, k, rest), NEW p \in 1..Len(frames)
          PROVE  FrameOK(cs, k, frames[p], Drop(frames, p))
      <3>1. CASE p = 1 BY <1>1, <1>2, <2>1, <3>1
      <3>2. CASE p # 1
        <4>1. FrameOK(cs, k, rest[p - 1], Drop(rest, p - 1)) BY <1>5, <2>1, <3>2 DEF FramesOK
        <4> QED BY <1>5, <3>2, <4>1
      <3> QED BY <3>1, <3>2
    <2> QED BY <2>1 DEF FramesOK
  <1>8. CallsLive(cs, frames, k) => FrameLive(cs, f, k) /\ CallsLive(cs, rest, k)
    BY <1>1, <1>3, <1>4 DEF CallsLive
  <1>9. FrameLive(cs, f, k) /\ CallsLive(cs, rest, k) => CallsLive(cs, frames, k)
    <2>1. ASSUME FrameLive(cs, f, k), CallsLive(cs, rest, k), NEW p \in 1..Len(frames)
          PROVE  FrameLive(cs, frames[p], k)
      <3>1. CASE p = 1 BY <1>1, <2>1, <3>1
      <3>2. CASE p # 1 BY <1>5, <2>1, <3>2 DEF CallsLive
      <3> QED BY <3>1, <3>2
    <2> QED BY <2>1 DEF CallsLive
  <1>10. NoRestoring(frames) => f.k # "restoring" /\ NoRestoring(rest)
    BY <1>1, <1>3, <1>4 DEF NoRestoring
  <1>11. f.k # "restoring" /\ NoRestoring(rest) => NoRestoring(frames)
    <2>1. ASSUME f.k # "restoring", NoRestoring(rest), NEW p \in 1..Len(frames) PROVE frames[p].k # "restoring"
      <3>1. CASE p = 1 BY <1>1, <2>1, <3>1
      <3>2. CASE p # 1 BY <1>5, <2>1, <3>2 DEF NoRestoring
      <3> QED BY <3>1, <3>2
    <2> QED BY <2>1 DEF NoRestoring
  <1> QED BY <1>6, <1>7, <1>8, <1>9, <1>10, <1>11

(* The frame of a command counts for nothing.                              *)
LEMMA StateOKCons ==
  ASSUME NEW cs, NEW st, NEW f \in Frame, f.k \notin {"shell", "include", "block"},
         NEW rest \in Seq(Frame), NEW frames, frames = <<f>> \o rest
  PROVE  StateOK(cs, st, frames) <=> StateOK(cs, st, rest)
  <1>1. /\ Cardinality(Includes(frames)) = Cardinality(Includes(rest))
        /\ Cardinality(InnerShells(frames)) = IF rest = <<>> THEN 0 ELSE Cardinality(InnerShells(rest))
    BY CountPush
  <1>2. ASSUME rest = <<>> PROVE Cardinality(InnerShells(rest)) = 0
    <2>1. Len(rest) = 0 BY <1>2
    <2>2. InnerShells(rest) = {} BY <2>1 DEF InnerShells
    <2> QED BY <2>2, FS_EmptySet
  <1> QED BY <1>1, <1>2 DEF StateOK, Room

LEMMA CallsOfCommand ==
  ASSUME NEW frames \in Seq(Frame)
  PROVE  /\ CallsOf(frames) \in Seq(Frame)
         /\ \A cs, st : StateOK(cs, st, frames) <=> StateOK(cs, st, CallsOf(frames))
         /\ \A cs, k : CallsLive(cs, frames, k) => CallsLive(cs, CallsOf(frames), k)
         /\ \A cs, s : PointOK(cs, s, frames) => PointOK(cs, s, CallsOf(frames))
  <1>1. CASE ~ (frames # <<>> /\ Head(frames).k = "command") BY <1>1 DEF CallsOf
  <1>2. CASE frames # <<>> /\ Head(frames).k = "command"
    <2> DEFINE f == Head(frames)
               rest == Tail(frames)
    <2>1. /\ f \in Frame /\ rest \in Seq(Frame) /\ frames = <<f>> \o rest /\ f.k = "command"
          /\ f.k \notin {"shell", "include", "block"} /\ CallsOf(frames) = rest
      BY <1>2, TailElements DEF CallsOf
    <2> HIDE DEF f, rest
    <2>2. \A cs, st : StateOK(cs, st, frames) <=> StateOK(cs, st, rest) BY <2>1, StateOKCons
    <2>3. \A cs, k : CallsLive(cs, frames, k) => CallsLive(cs, rest, k) BY <2>1, FramesCons
    <2>4. ASSUME NEW cs, NEW s, PointOK(cs, s, frames) PROVE PointOK(cs, s, rest)
      <3>1. StateOK(cs, s.rw, rest) /\ CallsLive(cs, rest, s.chk) BY <2>2, <2>3, <2>4 DEF PointOK
      <3>2. \A q \in 1..Len(rest) : Catches(rest[q]) => rest[q].chk.next < s.chk.next
        <4>1. \A q \in 1..Len(rest) : q + 1 \in 1..Len(frames) /\ frames[q + 1] = rest[q]
          BY <2>1, ConsElements
        <4> QED BY <2>4, <4>1 DEF PointOK
      <3> QED BY <2>4, <3>1, <3>2 DEF PointOK
    <2> QED BY <2>1, <2>2, <2>3, <2>4
  <1> QED BY <1>1, <1>2

-----------------------------------------------------------------------------
(* One checkpoint more.                                                    *)
Extends(cs, ds) == DOMAIN cs \subseteq DOMAIN ds /\ \A c \in DOMAIN cs : ds[c] = cs[c]

LEMMA StatesGrow ==
  ASSUME NEW cs, NEW ds, Extends(cs, ds)
  PROVE  /\ \A env, cry : EnvOK(cs, env, cry) => EnvOK(ds, env, cry)
         /\ \A env, cry, k : EnvLive(cs, env, cry, k) => EnvLive(ds, env, cry, k)
         /\ \A st, rest : StateOK(cs, st, rest) => StateOK(ds, st, rest)
         /\ \A st, k : StateLive(cs, st, k) => StateLive(ds, st, k)
  <1>1. \A env, cry : EnvOK(cs, env, cry) => EnvOK(ds, env, cry) BY DEF Extends, EnvOK
  <1>2. \A env, cry, k : EnvLive(cs, env, cry, k) => EnvLive(ds, env, cry, k) BY DEF Extends, EnvLive
  <1>3. \A st, rest : StateOK(cs, st, rest) => StateOK(ds, st, rest) BY <1>1 DEF StateOK
  <1>4. \A st, k : StateLive(cs, st, k) => StateLive(ds, st, k) BY <1>2 DEF StateLive
  <1> QED BY <1>1, <1>2, <1>3, <1>4

LEMMA FramesGrow ==
  ASSUME NEW cs, NEW ds, Extends(cs, ds)
  PROVE  /\ \A frames, k : CallsLive(cs, frames, k) => CallsLive(ds, frames, k)
         /\ \A s, calls : PointOK(cs, s, calls) => PointOK(ds, s, calls)
         /\ \A frames, k : FramesOK(cs, k, frames) => FramesOK(ds, k, frames)
  <1>1. \A f, k : FrameLive(cs, f, k) => FrameLive(ds, f, k) BY StatesGrow DEF FrameLive
  <1>2. \A frames, k : CallsLive(cs, frames, k) => CallsLive(ds, frames, k) BY <1>1 DEF CallsLive
  <1>3. \A s, calls : PointOK(cs, s, calls) => PointOK(ds, s, calls) BY <1>2, StatesGrow DEF PointOK
  <1>4. \A f, k, rest : FrameOK(cs, k, f, rest) => FrameOK(ds, k, f, rest)
    BY <1>3, StatesGrow DEF FrameOK
  <1>5. \A frames, k : FramesOK(cs, k, frames) => FramesOK(ds, k, frames) BY <1>4 DEF FramesOK
  <1> QED BY <1>2, <1>3, <1>5

LEMMA AppendGrows ==
  ASSUME NEW cs \in Seq(Point), NEW x \in Point, NEW ds, ds = Append(cs, x)
  PROVE  /\ Extends(cs, ds) /\ ds \in Seq(Point) /\ Len(ds) = Len(cs) + 1 /\ Len(cs) \in Nat
         /\ ds[Len(cs) + 1] = x /\ Len(cs) + 1 \in DOMAIN ds
         /\ \A c \in 1..Len(ds) : (c \in 1..Len(cs) /\ ds[c] = cs[c]) \/ c = Len(cs) + 1
  <1>1. /\ ds \in Seq(Point) /\ Len(ds) = Len(cs) + 1 /\ Len(cs) \in Nat
        /\ \A c \in 1..Len(cs) : ds[c] = cs[c]
        /\ ds[Len(cs) + 1] = x
    BY AppendProperties, LenProperties
  <1>2. DOMAIN cs = 1..Len(cs) /\ DOMAIN ds = 1..Len(ds) BY <1>1, LenProperties
  <1> QED BY <1>1, <1>2 DEF Extends

(* What a point is made of, whatever else its record has.                  *)
LEMMA PointFields ==
  ASSUME NEW cs, NEW s, NEW t, NEW calls, PointOK(cs, s, calls), t.rw = s.rw, t.chk = s.chk
  PROVE  PointOK(cs, t, calls)
  BY DEF PointOK

-----------------------------------------------------------------------------
(* What the invariant says of the calls and of the state in force.         *)
LEMMA TermsKept ==
  ASSUME NEW cs \in Seq(Point), NEW frames \in Seq(Frame), NEW k \in Kernel, NEW l \in Kernel,
         k.stale = l.stale, k.next <= l.next, CallsLive(cs, frames, k)
  PROVE  CallsLive(cs, frames, l)
  <1>1. Continues(k, l) BY SameTerms
  <1>2. ASSUME NEW q \in 1..Len(frames) PROVE FrameLive(cs, frames[q], l)
    <2>1. frames[q] \in Frame /\ FrameLive(cs, frames[q], k) BY ElementOfSeq DEF CallsLive
    <2> QED BY <1>1, <2>1, FrameLiveMoves
  <1> QED BY <1>2 DEF CallsLive

LEMMA ConsistentParts ==
  ASSUME NEW cs, NEW k, NEW st, NEW frames, NEW ex, Consistent(cs, k, st, frames, ex)
  PROVE  /\ cs \in Seq(Point) /\ PointsOK(cs) /\ KernelOK(k) /\ k \in Kernel
         /\ RWOK(st) /\ st \in RW /\ StackOK(cs, k, frames)
         /\ frames \in Seq(Frame) /\ FramesOK(cs, k, frames) /\ ex \in Exception
  BY DEF Consistent, PointsOK, RWOK, StackOK, KernelOK

(* The innermost call and those below it.                                  *)
LEMMA Innermost ==
  ASSUME NEW cs, NEW k, NEW frames, StackOK(cs, k, frames), frames # <<>>,
         NEW f, f = Head(frames), NEW rest, rest = Tail(frames)
  PROVE  /\ f \in Frame /\ rest \in Seq(Frame) /\ frames = <<f>> \o rest /\ f = frames[1]
         /\ FrameOK(cs, k, f, rest) /\ FramesOK(cs, k, rest) /\ NoRestoring(rest)
         /\ StackOK(cs, k, rest)
         /\ rest # <<>> => Head(rest).k # "restoring"
  <1>1. f \in Frame /\ rest \in Seq(Frame) /\ frames = <<f>> \o rest /\ f = frames[1]
    BY TailElements DEF StackOK
  <1>2. FrameOK(cs, k, f, rest) /\ FramesOK(cs, k, rest) /\ NoRestoring(rest)
    BY <1>1, FramesCons DEF StackOK
  <1>3. ASSUME rest # <<>> PROVE Head(rest).k # "restoring" /\ NoRestoring(Tail(rest))
    <2> DEFINE g == Head(rest)
               tail == Tail(rest)
    <2>1. g \in Frame /\ tail \in Seq(Frame) /\ rest = <<g>> \o tail BY <1>1, <1>3, TailElements
    <2> HIDE DEF g, tail
    <2>2. g.k # "restoring" /\ NoRestoring(tail) BY <1>2, <2>1, FramesCons
    <2> QED BY <2>2 DEF g, tail
  <1> QED BY <1>1, <1>2, <1>3 DEF StackOK

(* Who waits, by what the innermost call is.                               *)
LEMMA WhoWaits ==
  ASSUME NEW frames, NEW ex
  PROVE  /\ ex # NoException => Waiting(frames, ex) = frames
         /\ frames = <<>> => Waiting(frames, ex) = frames
         /\ frames # <<>> /\ Head(frames).k \notin {"restoring", "command"} => Waiting(frames, ex) = frames
         /\ frames # <<>> /\ ex = NoException /\ Head(frames).k = "command" => Waiting(frames, ex) = Tail(frames)
         /\ frames # <<>> /\ ex = NoException /\ Head(frames).k = "restoring" =>
              Waiting(frames, ex) = CallsOf(Tail(frames))
         /\ (frames # <<>> => Head(frames).k # "restoring") /\ ex = NoException =>
              Waiting(frames, ex) = CallsOf(frames)
  BY DEF Waiting, CallsOf

LEMMA CommandToo ==
  ASSUME NEW cs, NEW k, NEW frames \in Seq(Frame), CallsLive(cs, CallsOf(frames), k),
         frames # <<>> /\ Head(frames).k = "command" => FrameLive(cs, Head(frames), k)
  PROVE  CallsLive(cs, frames, k)
  <1>1. CASE ~ (frames # <<>> /\ Head(frames).k = "command") BY <1>1 DEF CallsOf
  <1>2. CASE frames # <<>> /\ Head(frames).k = "command"
    <2> DEFINE f == Head(frames)
               rest == Tail(frames)
    <2>1. f \in Frame /\ rest \in Seq(Frame) /\ frames = <<f>> \o rest /\ CallsOf(frames) = rest
      BY <1>2, TailElements DEF CallsOf
    <2>2. FrameLive(cs, f, k) BY <1>2
    <2> HIDE DEF f, rest
    <2> QED BY <2>1, <2>2, FramesCons
  <1> QED BY <1>1, <1>2

(* Under scripts that keep to scopes, every call can fail.                 *)
LEMMA ScopedCalls ==
  ASSUME Scoped, InScope, Inv
  PROVE  CallsLive(chks, stack, kernel)
  <1>1. /\ chks \in Seq(Point) /\ kernel \in Kernel /\ stack \in Seq(Frame)
        /\ FramesOK(chks, kernel, stack) /\ StackOK(chks, kernel, stack)
        /\ CallsLive(chks, Waiting(stack, raised), kernel)
    BY ConsistentParts DEF Inv, Consistent
  <1>2. ASSUME NEW q \in 1..Len(stack), Catches(stack[q]) PROVE FrameLive(chks, stack[q], kernel)
    <2> DEFINE f == stack[q]
    <2>1. f \in Frame /\ q \in DOMAIN stack BY <1>1, <1>2, ElementOfSeq, LenProperties
    <2>2. FrameOK(chks, kernel, f, Drop(stack, q)) BY <1>1 DEF FramesOK
    <2>3. f \in Handlers BY <1>2, <2>1 DEF Handlers, Catches
    <2>4. ~ Overtaken(f) BY <2>3 DEF InScope
    <2>5. f.chk.next \in Nat /\ kernel.stale \subseteq Nat BY <1>1, <1>2, <2>1, FrameTypes, KernelTypes
    <2> HIDE DEF f
    <2>6. f.chk.next <= kernel.next /\ f.chk.stale \subseteq kernel.stale BY <1>2, <2>2 DEF FrameOK, f
    <2>7. f.chk.next \notin kernel.stale /\ Continues(f.chk, kernel)
      BY <2>4, <2>5, <2>6 DEF Overtaken, Continues
    <2>8. f.k \in {"command", "timeout"} BY <1>2 DEF Catches, f
    <2>9. FrameLive(chks, f, kernel) BY <2>7, <2>8 DEF FrameLive
    <2> QED BY <2>9 DEF f
  <1>3. CASE stack = <<>> BY <1>1, <1>3, WhoWaits
  <1>4. CASE stack # <<>>
    <2> DEFINE f == Head(stack)
               rest == Tail(stack)
    <2>1. /\ f \in Frame /\ rest \in Seq(Frame) /\ stack = <<f>> \o rest /\ f = stack[1]
          /\ 1 \in 1..Len(stack)
      BY <1>1, <1>4, Innermost, TailElements
    <2>2. Catches(f) => FrameLive(chks, f, kernel) BY <1>2, <2>1
    <2>3. CASE Waiting(stack, raised) = stack BY <1>1, <2>3
    <2>4. CASE f.k = "command" /\ Waiting(stack, raised) = rest
      <3>1. FrameLive(chks, f, kernel) BY <2>2, <2>4 DEF Catches
      <3>2. CallsLive(chks, rest, kernel) BY <1>1, <2>4
      <3> HIDE DEF f, rest
      <3> QED BY <2>1, <3>1, <3>2, FramesCons
    <2>5. CASE f.k = "restoring" /\ Waiting(stack, raised) = CallsOf(rest)
      <3>1. CallsLive(chks, CallsOf(rest), kernel) BY <1>1, <2>5
      <3>2. ASSUME rest # <<>>, Head(rest).k = "command" PROVE FrameLive(chks, Head(rest), kernel)
        <4>1. 2 \in 1..Len(stack) /\ Head(rest) = stack[2]
          <5>1. Len(rest) = Len(stack) - 1 BY <1>1, <1>4, TailElements
          <5>2. 1 \in 1..(Len(stack) - 1) /\ Head(rest) = rest[1]
            <6> HIDE DEF rest
            <6> QED BY <2>1, <3>2, <5>1, TailElements
          <5>3. rest[1] = stack[1 + 1] BY <1>1, <1>4, <5>2, TailElements
          <5> QED BY <5>2, <5>3
        <4> QED BY <1>2, <3>2, <4>1 DEF Catches
      <3>3. CallsLive(chks, rest, kernel) BY <2>1, <3>1, <3>2, CommandToo
      <3>4. FrameLive(chks, f, kernel) BY <2>5 DEF FrameLive, Catches
      <3> HIDE DEF f, rest
      <3> QED BY <2>1, <3>3, <3>4, FramesCons
    <2> QED BY <1>4, <2>3, <2>4, <2>5, WhoWaits
  <1> QED BY <1>3, <1>4

LEMMA ExceptionTypes == NoException \in Exception /\ \A kind \in {"error", "exit"} : Raise(kind) \in Exception /\ Raise(kind) # NoException
  BY DEF NoException, Exception, Raise

-----------------------------------------------------------------------------
(* The shapes of steps: a statement, a call, a return.                     *)
LEMMA StatementKeeps ==
  ASSUME NEW cs, NEW k, NEW l, NEW su, NEW frames, NEW ey \in Exception,
         PointsOK(cs), KernelOK(k), KernelOK(l), StackOK(cs, k, frames), RWOK(su),
         CallsLive(cs, frames, k), k.stale = l.stale, k.next <= l.next,
         \/ ey # NoException
         \/ /\ frames # <<>> /\ Head(frames).k # "restoring"
            /\ StateOK(cs, su, frames) /\ StateLive(cs, su, l)
  PROVE  Consistent(cs, l, su, frames, ey)
  <1>1. cs \in Seq(Point) /\ k \in Kernel /\ l \in Kernel /\ frames \in Seq(Frame)
    BY DEF PointsOK, KernelOK, StackOK
  <1>2. CallsLive(cs, frames, l) BY <1>1, TermsKept
  <1>3. StackOK(cs, l, frames) BY <1>1, FramesMove DEF StackOK
  <1>4. CallsLive(cs, CallsOf(frames), l) BY <1>1, <1>2, CallsOfCommand
  <1>5. CallsLive(cs, Waiting(frames, ey), l)
    <2>1. CASE ey # NoException BY <1>2, <2>1, WhoWaits
    <2>2. CASE ey = NoException BY <1>4, <2>2, WhoWaits
    <2> QED BY <2>1, <2>2
  <1> QED BY <1>3, <1>5 DEF Consistent, Going

LEMMA CallKeeps ==
  ASSUME NEW cs, NEW k, NEW su, NEW f \in Frame, NEW rest, NEW frames, frames = <<f>> \o rest,
         PointsOK(cs), KernelOK(k), StackOK(cs, k, rest), rest # <<>> => Head(rest).k # "restoring",
         CallsLive(cs, rest, k), FrameOK(cs, k, f, rest), FrameLive(cs, f, k), RWOK(su),
         \/ f.k # "restoring" /\ StateOK(cs, su, frames) /\ StateLive(cs, su, k)
         \/ f.k = "restoring" /\ Restoring(cs, k, su, f, rest)
  PROVE  Consistent(cs, k, su, frames, NoException)
  <1>1. rest \in Seq(Frame) /\ FramesOK(cs, k, rest) BY DEF StackOK
  <1>2. frames \in Seq(Frame) /\ frames # <<>> /\ Head(frames) = f /\ Tail(frames) = rest BY <1>1, ConsElements
  <1>3. NoRestoring(rest)
    <2>1. CASE rest = <<>> BY <2>1 DEF NoRestoring
    <2>2. CASE rest # <<>>
      <3> DEFINE g == Head(rest)
                 tail == Tail(rest)
      <3>1. g \in Frame /\ tail \in Seq(Frame) /\ rest = <<g>> \o tail BY <1>1, <2>2, TailElements
      <3>2. g.k # "restoring" /\ NoRestoring(tail) BY <2>2 DEF StackOK
      <3> HIDE DEF g, tail
      <3> QED BY <3>1, <3>2, FramesCons
    <2> QED BY <2>1, <2>2
  <1>4. FramesOK(cs, k, frames) BY <1>1, FramesCons
  <1>5. StackOK(cs, k, frames) BY <1>2, <1>3, <1>4 DEF StackOK
  <1>6. CallsLive(cs, frames, k) BY <1>1, FramesCons
  <1>7. CallsLive(cs, CallsOf(rest), k) /\ CallsLive(cs, CallsOf(frames), k)
    BY <1>1, <1>2, <1>6, CallsOfCommand
  <1>8. CallsLive(cs, Waiting(frames, NoException), k) BY <1>2, <1>7, WhoWaits
  <1>9. Going(cs, k, su, frames) BY <1>2 DEF Going
  <1>10. NoException \in Exception BY DEF NoException, Exception
  <1> QED BY <1>5, <1>8, <1>9, <1>10 DEF Consistent

LEMMA ReturnKeeps ==
  ASSUME NEW cs, NEW k, NEW su, NEW rest,
         PointsOK(cs), KernelOK(k), StackOK(cs, k, rest), rest # <<>> => Head(rest).k # "restoring", RWOK(su),
         CallsLive(cs, CallsOf(rest), k),
         rest # <<>> => StateOK(cs, su, rest) /\ StateLive(cs, su, k)
  PROVE  Consistent(cs, k, su, rest, NoException)
  <1>1. CallsLive(cs, Waiting(rest, NoException), k) BY WhoWaits
  <1> QED BY <1>1, ExceptionTypes DEF Consistent, Going

LEMMA RaiseKeeps ==
  ASSUME NEW cs, NEW k, NEW su, NEW rest, NEW ey \in Exception, ey # NoException,
         PointsOK(cs), KernelOK(k), StackOK(cs, k, rest), RWOK(su), CallsLive(cs, rest, k)
  PROVE  Consistent(cs, k, su, rest, ey)
  <1>1. CallsLive(cs, Waiting(rest, ey), k) BY WhoWaits
  <1> QED BY <1>1 DEF Consistent

-----------------------------------------------------------------------------
LEMMA StateEnv ==
  ASSUME NEW cs, NEW st, NEW rest \in Seq(Frame), StateOK(cs, st, rest)
  PROVE  /\ RWOK(st) /\ st \in RW /\ EnvOK(cs, st.env, st.cry)
         /\ Len(st.env) \in Nat /\ Len(st.env) > 0
         /\ Cardinality(InnerShells(rest)) \in Nat /\ Cardinality(Includes(rest)) \in Nat
         /\ Len(st.env) > Cardinality(InnerShells(rest))
  <1>1. st \in RW /\ EnvOK(cs, st.env, st.cry) /\ Len(st.env) > Cardinality(InnerShells(rest))
    BY DEF StateOK, Room
  <1>2. Len(st.env) \in Nat BY <1>1, StateTypes, LenProperties
  <1>3. InnerShells(rest) \in SUBSET (1..Len(rest)) /\ Includes(rest) \in SUBSET (1..Len(rest)) /\ Len(rest) \in Nat
    BY LenProperties DEF InnerShells, Includes
  <1>4. Cardinality(InnerShells(rest)) \in Nat /\ Cardinality(Includes(rest)) \in Nat BY <1>3, ShiftCounts
  <1> QED BY <1>1, <1>2, <1>4 DEF RWOK, EnvOK

(* Statements that bind a term.                                            *)
LEMMA StateBinds ==
  ASSUME NEW cs \in Seq(Point), NEW st, NEW rest \in Seq(Frame), NEW k \in Kernel, NEW l \in Kernel, Continues(k, l),
         StateOK(cs, st, rest), StateLive(cs, st, k),
         NEW X \in SUBSET Term, X \subseteq Live(l), NEW new \in Scope,
         new.terms \subseteq st.env[1].terms \cup X, new.chks = st.env[1].chks,
         NEW su \in RW, Bound(st.env, st.cry, new, X, su.env, su.cry),
         su.theorems = st.theorems, su.dirs = st.dirs
  PROVE  StateOK(cs, su, rest) /\ StateLive(cs, su, l) /\ RWOK(su)
  <1> DEFINE env == st.env
             cry == st.cry
             env2 == su.env
             cry2 == su.cry
  <1>1. /\ EnvOK(cs, env, cry) /\ EnvLive(cs, env, cry, k)
        /\ Len(env) > 0
    BY StateEnv DEF StateLive
  <1>2. Bound(env, cry, new, X, env2, cry2) /\ new.chks = env[1].chks /\ new.terms \subseteq env[1].terms \cup X
    OBVIOUS
  <1>3. st.theorems \subseteq Live(l) BY LiveContinues DEF StateLive
  <1> HIDE DEF env, cry, env2, cry2
  <1>5. EnvOK(cs, env2, cry2) /\ EnvLive(cs, env2, cry2, l) BY <1>1, <1>2, EnvBind
  <1>6. Len(env2) = Len(env) BY <1>1, <1>2, EnvBind
  <1>7. StateLive(cs, su, l) BY <1>3, <1>5 DEF StateLive, env2, cry2
  <1>8. StateOK(cs, su, rest) BY <1>5, <1>6 DEF StateOK, Room, env, env2, cry2
  <1> QED BY <1>7, <1>8, StateEnv

LEMMA WhileRunning ==
  ASSUME Scoped, Inv, Running
  PROVE  /\ PointsOK(chks) /\ chks \in Seq(Point)
         /\ KernelOK(kernel) /\ kernel \in Kernel
         /\ RWOK(rw) /\ rw \in RW
         /\ StackOK(chks, kernel, stack) /\ stack \in Seq(Frame)
         /\ CallsLive(chks, stack, kernel)
         /\ raised = NoException /\ stack # <<>> /\ Head(stack).k \notin {"restoring", "shell"}
         /\ StateOK(chks, rw, stack) /\ StateLive(chks, rw, kernel)
         /\ cwd \in Dir \cup {Orig}
  <1>1. CallsLive(chks, stack, kernel) BY ScopedCalls DEF Running
  <1>2. raised = NoException /\ stack # <<>> /\ Head(stack).k \notin {"restoring", "shell"}
    BY DEF Running, Top
  <1>3. StateOK(chks, rw, stack) /\ StateLive(chks, rw, kernel)
    BY <1>2 DEF Inv, Consistent, Going
  <1> QED BY <1>1, <1>2, <1>3, ConsistentParts DEF Inv

LEMMA NewTermMade ==
  ASSUME NEW g \in SUBSET {kernel.next}, Inv, NewTerm(g)
  PROVE  /\ KernelOK(kernel') /\ kernel' \in Kernel /\ Continues(kernel, kernel')
         /\ kernel'.stale = kernel.stale /\ kernel.next <= kernel'.next
         /\ {kernel.next} \in SUBSET Term /\ {kernel.next} \subseteq Live(kernel')
  <1>1. KernelOK(kernel) BY ConsistentParts DEF Inv
  <1>2. kernel.next < MaxTerms /\ kernel' = [kernel EXCEPT !.next = @ + 1, !.globals = @ \cup g] BY DEF NewTerm
  <1>3. /\ KernelOK(kernel') /\ Continues(kernel, kernel') /\ kernel'.stale = kernel.stale
        /\ kernel.next <= kernel'.next /\ kernel.next \in Live(kernel') /\ kernel.next \in Term
    BY <1>1, <1>2, MoreTerms
  <1> QED BY <1>3 DEF KernelOK

(* The innermost scopes, as a statement finds them.                        *)
LEMMA FirstScope ==
  ASSUME NEW cs, NEW st, NEW rest \in Seq(Frame), StateOK(cs, st, rest)
  PROVE  /\ st \in RW /\ 1 \in DOMAIN st.env /\ 1 \in DOMAIN st.cry
         /\ st.env \in Seq(Scope) /\ st.cry \in Seq(SUBSET Term)
         /\ st.env[1] \in Scope /\ st.cry[1] \in SUBSET Term
  <1> DEFINE env == st.env
             cry == st.cry
  <1>1. st \in RW /\ EnvOK(cs, env, cry) /\ Len(env) \in Nat /\ Len(env) > 0 BY StateEnv
  <1> HIDE DEF env, cry
  <1>2. env \in Seq(Scope) /\ cry \in Seq(SUBSET Term) /\ Len(cry) = Len(env) BY <1>1 DEF EnvOK, Mirrored
  <1>3. 1 \in 1..Len(env) /\ 1 \in 1..Len(cry) BY <1>1, <1>2
  <1>4. env[1] \in Scope /\ cry[1] \in SUBSET Term BY <1>2, <1>3, ElementOfSeq
  <1>5. 1 \in DOMAIN env /\ 1 \in DOMAIN cry BY <1>2, <1>3, LenProperties
  <1> QED BY <1>1, <1>2, <1>4, <1>5 DEF env, cry

LEMMA ExtendEnvKeeps ==
  ASSUME Scoped, Inv, ExtendEnv
  PROVE  Inv'
  <1>1. Running /\ NewTerm({}) /\ UNCHANGED <<cwd, stack, raised, chks>> BY DEF ExtendEnv
  <1> DEFINE X == {kernel.next}
             new == [rw.env[1] EXCEPT !.terms = @ \cup X]
  <1>2. /\ KernelOK(kernel') /\ kernel' \in Kernel /\ Continues(kernel, kernel')
        /\ kernel'.stale = kernel.stale /\ kernel.next <= kernel'.next
        /\ X \in SUBSET Term /\ X \subseteq Live(kernel')
    BY <1>1, NewTermMade
  <1>3. /\ chks \in Seq(Point) /\ stack \in Seq(Frame) /\ kernel \in Kernel
        /\ StateOK(chks, rw, stack) /\ StateLive(chks, rw, kernel)
    BY <1>1, WhileRunning
  <1>4. /\ rw \in RW /\ 1 \in DOMAIN rw.env /\ 1 \in DOMAIN rw.cry
        /\ rw.env \in Seq(Scope) /\ rw.cry \in Seq(SUBSET Term)
        /\ rw.env[1] \in Scope /\ rw.cry[1] \in SUBSET Term
    BY <1>3, FirstScope
  <1>5. new \in Scope /\ new.terms = rw.env[1].terms \cup X /\ new.chks = rw.env[1].chks
    BY <1>2, <1>4 DEF Scope
  <1>6. /\ rw'.env = [rw.env EXCEPT ![1] = new] /\ rw'.cry = [rw.cry EXCEPT ![1] = @ \cup X]
        /\ rw'.theorems = rw.theorems /\ rw'.dirs = rw.dirs
        /\ rw' = [rw EXCEPT !.env = rw'.env, !.cry = rw'.cry]
    BY <1>4 DEF ExtendEnv, RW
  <1>7. rw' \in RW
    <2>1. rw'.env \in Seq(Scope) BY <1>4, <1>5, <1>6, ExceptSeq, LenProperties
    <2>2. rw.cry[1] \cup X \in SUBSET Term BY <1>2, <1>4
    <2>3. rw'.cry \in Seq(SUBSET Term) BY <1>4, <1>6, <2>2, ExceptSeq, LenProperties
    <2> QED BY <1>4, <1>6, <2>1, <2>3 DEF RW
  <1>8. Bound(rw.env, rw.cry, new, X, rw'.env, rw'.cry) BY <1>6 DEF Bound
  <1> HIDE DEF new, X
  <1>9. StateOK(chks, rw', stack) /\ StateLive(chks, rw', kernel') /\ RWOK(rw')
    BY <1>2, <1>3, <1>5, <1>6, <1>7, <1>8, StateBinds
  <1>10. Consistent(chks, kernel', rw', stack, raised)
    BY <1>1, <1>2, <1>9, WhileRunning, StatementKeeps, ExceptionTypes
  <1> QED BY <1>1, <1>10, WhileRunning DEF Inv

LEMMA ParseDeclsKeeps ==
  ASSUME Scoped, Inv, ParseDecls
  PROVE  Inv'
  <1>1. Running /\ NewTerm({kernel.next}) /\ UNCHANGED <<cwd, stack, chks>> BY DEF ParseDecls
  <1> DEFINE X == {kernel.next}
             new == rw.env[1]
  <1>2. /\ KernelOK(kernel') /\ kernel' \in Kernel /\ Continues(kernel, kernel')
        /\ kernel'.stale = kernel.stale /\ kernel.next <= kernel'.next
        /\ X \in SUBSET Term /\ X \subseteq Live(kernel')
    BY <1>1, NewTermMade
  <1>3. /\ chks \in Seq(Point) /\ stack \in Seq(Frame) /\ kernel \in Kernel
        /\ StateOK(chks, rw, stack) /\ StateLive(chks, rw, kernel)
    BY <1>1, WhileRunning
  <1>4. CASE raised' = Raise("error") /\ UNCHANGED rw
    <2>1. Consistent(chks, kernel', rw, stack, raised')
      BY <1>1, <1>2, <1>4, WhileRunning, StatementKeeps, ExceptionTypes
    <2> QED BY <1>1, <1>4, <2>1, WhileRunning DEF Inv
  <1>5. CASE rw' = [rw EXCEPT !.cry[1] = @ \cup {kernel.next}] /\ UNCHANGED raised
    <2>1. /\ rw \in RW /\ 1 \in DOMAIN rw.env /\ 1 \in DOMAIN rw.cry
          /\ rw.env \in Seq(Scope) /\ rw.cry \in Seq(SUBSET Term)
          /\ rw.env[1] \in Scope /\ rw.cry[1] \in SUBSET Term
      BY <1>3, FirstScope
    <2>2. new \in Scope /\ new.terms \subseteq rw.env[1].terms \cup X /\ new.chks = rw.env[1].chks
      BY <2>1
    <2>3. /\ rw'.env = rw.env /\ rw'.cry = [rw.cry EXCEPT ![1] = @ \cup X]
          /\ rw'.theorems = rw.theorems /\ rw'.dirs = rw.dirs
          /\ rw' = [rw EXCEPT !.cry = rw'.cry]
      BY <1>5, <2>1 DEF RW
    <2>4. rw' \in RW
      <3>1. rw.cry[1] \cup X \in SUBSET Term BY <1>2, <2>1
      <3>2. rw'.cry \in Seq(SUBSET Term) BY <2>1, <2>3, <3>1, ExceptSeq, LenProperties
      <3> QED BY <2>1, <2>3, <3>2 DEF RW
    <2>5. Bound(rw.env, rw.cry, new, X, rw'.env, rw'.cry)
      <3>1. rw.env = [rw.env EXCEPT ![1] = new] BY <2>1, IsASeq
      <3> QED BY <2>3, <3>1 DEF Bound
    <2> HIDE DEF new, X
    <2>6. StateOK(chks, rw', stack) /\ StateLive(chks, rw', kernel') /\ RWOK(rw')
      BY <1>2, <1>3, <2>2, <2>3, <2>4, <2>5, StateBinds
    <2>7. Consistent(chks, kernel', rw', stack, raised)
      BY <1>1, <1>2, <2>6, WhileRunning, StatementKeeps, ExceptionTypes
    <2> QED BY <1>1, <1>5, <2>7, WhileRunning DEF Inv
  <1> QED BY <1>4, <1>5 DEF ParseDecls

LEMMA ProveKeeps ==
  ASSUME Scoped, Inv, Prove
  PROVE  Inv'
  <1>1. Running /\ NewTerm({}) /\ UNCHANGED <<cwd, stack, raised, chks>> BY DEF Prove
  <1>2. /\ KernelOK(kernel') /\ kernel' \in Kernel /\ Continues(kernel, kernel')
        /\ kernel'.stale = kernel.stale /\ kernel.next <= kernel'.next
        /\ {kernel.next} \in SUBSET Term /\ {kernel.next} \subseteq Live(kernel')
    BY <1>1, NewTermMade
  <1>3. /\ chks \in Seq(Point) /\ stack \in Seq(Frame) /\ kernel \in Kernel
        /\ StateOK(chks, rw, stack) /\ StateLive(chks, rw, kernel) /\ rw \in RW
    BY <1>1, WhileRunning
  <1>4. /\ rw'.env = rw.env /\ rw'.cry = rw.cry /\ rw'.dirs = rw.dirs
        /\ rw'.theorems = rw.theorems \cup {kernel.next} /\ rw' \in RW
    BY <1>2, <1>3 DEF Prove, RW
  <1>5. StateLive(chks, rw, kernel') BY <1>2, <1>3, StateLiveMoves
  <1>6. StateLive(chks, rw', kernel') BY <1>2, <1>4, <1>5 DEF StateLive
  <1>7. StateOK(chks, rw', stack) BY <1>3, <1>4 DEF StateOK
  <1>8. RWOK(rw') BY <1>3, <1>7, StateEnv
  <1>9. Consistent(chks, kernel', rw', stack, raised)
    BY <1>1, <1>2, <1>6, <1>7, <1>8, WhileRunning, StatementKeeps, ExceptionTypes
  <1> QED BY <1>1, <1>9, WhileRunning DEF Inv

LEMMA FailKeeps ==
  ASSUME Scoped, Inv, Fail
  PROVE  Inv'
  <1>1. /\ Running /\ UNCHANGED <<kernel, rw, cwd, stack, chks>>
        /\ raised' \in Exception /\ raised' # NoException
    BY ExceptionTypes DEF Fail
  <1>2. kernel.next <= kernel.next BY <1>1, WhileRunning, KernelTypes
  <1>3. Consistent(chks, kernel, rw, stack, raised') BY <1>1, <1>2, WhileRunning, StatementKeeps
  <1> QED BY <1>1, <1>3, WhileRunning DEF Inv

LEMMA AlarmKeeps ==
  ASSUME Scoped, Inv, Alarm
  PROVE  Inv'
  <1>1. InScope /\ UNCHANGED <<kernel, rw, cwd, stack, chks>> BY DEF Alarm
  <1>2. /\ PointsOK(chks) /\ KernelOK(kernel) /\ kernel \in Kernel /\ RWOK(rw)
        /\ StackOK(chks, kernel, stack) /\ stack \in Seq(Frame)
    BY ConsistentParts DEF Inv
  <1>3. CallsLive(chks, stack, kernel) BY <1>1, ScopedCalls
  <1>4. raised' \in Exception /\ raised' # NoException
    <2>1. PICK i \in DOMAIN stack : raised' = [k |-> "timeout", at |-> Len(stack) - i + 1] BY DEF Alarm
    <2>2. Len(stack) - i + 1 \in Nat \ {0} BY <1>2, <2>1, LenProperties
    <2> QED BY <2>1, <2>2 DEF Exception, NoException
  <1>5. kernel.next <= kernel.next BY <1>2, KernelTypes
  <1>6. Consistent(chks, kernel, rw, stack, raised') BY <1>2, <1>3, <1>4, <1>5, StatementKeeps
  <1> QED BY <1>1, <1>6 DEF Inv

(* A checkpoint is a point in the calls it was taken in, and is bound in   *)
(* the scope it was taken in.                                              *)
LEMMA CheckpointKeeps ==
  ASSUME Scoped, Inv, Checkpoint
  PROVE  Inv'
  <1> DEFINE x == [rw |-> rw, chk |-> kernel, calls |-> Calls]
             n == Len(chks) + 1
  <1>1. /\ Running /\ Apart /\ chks' = Append(chks, x) /\ n \in CheckpointId
        /\ rw' = [rw EXCEPT !.env[1].chks = @ \cup {n}]
        /\ UNCHANGED <<kernel, cwd, stack, raised>>
    <2>1. Len(chks) \in Nat BY WhileRunning, LenProperties DEF Checkpoint
    <2> QED BY <2>1, TopLevelAssumption DEF Checkpoint, CheckpointId
  <1>2. /\ PointsOK(chks) /\ chks \in Seq(Point) /\ KernelOK(kernel) /\ kernel \in Kernel /\ rw \in RW
        /\ StackOK(chks, kernel, stack) /\ stack \in Seq(Frame) /\ CallsLive(chks, stack, kernel)
        /\ raised = NoException /\ stack # <<>> /\ Head(stack).k \notin {"restoring", "shell"}
        /\ StateOK(chks, rw, stack) /\ StateLive(chks, rw, kernel) /\ cwd \in Dir \cup {Orig}
    BY <1>1, WhileRunning
  <1>3. Calls = CallsOf(stack) BY DEF Calls, CallsOf, Is, Top
  <1>4. x \in Point /\ x.rw = rw /\ x.chk = kernel /\ x.calls = CallsOf(stack)
    BY <1>2, <1>3, CallsOfCommand DEF Point
  <1>5. PointOK(chks, x, stack)
    <2>1. ASSUME NEW q \in 1..Len(stack), Catches(stack[q]) PROVE stack[q].chk.next < kernel.next
      <3>1. stack[q] \in Handlers BY <1>2, <2>1, LenProperties DEF Handlers, Catches
      <3> QED BY <1>1, <3>1 DEF Apart
    <2> QED BY <1>2, <1>4, <2>1 DEF PointOK
  <1>6. PointOK(chks, x, CallsOf(stack)) BY <1>2, <1>5, CallsOfCommand
  <1>7. chks' = Append(chks, x) /\ chks' \in Seq(Point) BY <1>1, <1>2, <1>4, AppendGrows
  <1> HIDE DEF x
  <1>8. /\ Extends(chks, chks') /\ Len(chks') = n /\ chks'[n] = x /\ n \in DOMAIN chks'
        /\ \A c \in 1..Len(chks') : (c \in 1..Len(chks) /\ chks'[c] = chks[c]) \/ c = n
    BY <1>2, <1>4, <1>7, AppendGrows
  <1>9. PointsOK(chks')
    <2>1. ASSUME NEW c \in 1..Len(chks') PROVE PointOK(chks', chks'[c], chks'[c].calls)
      <3>1. CASE c = n BY <1>4, <1>6, <1>8, <3>1, FramesGrow
      <3>2. CASE c # n
        <4>1. c \in 1..Len(chks) /\ chks'[c] = chks[c] BY <1>8, <3>2
        <4>2. PointOK(chks, chks[c], chks[c].calls) BY <1>2, <4>1 DEF PointsOK
        <4> QED BY <1>8, <4>1, <4>2, FramesGrow
      <3> QED BY <3>1, <3>2
    <2> QED BY <1>7, <2>1 DEF PointsOK
  <1> DEFINE new == [rw.env[1] EXCEPT !.chks = @ \cup {n}]
  <1>10. /\ 1 \in DOMAIN rw.env /\ rw.env \in Seq(Scope) /\ rw.cry \in Seq(SUBSET Term) /\ rw.env[1] \in Scope
    BY <1>2, FirstScope
  <1>11. /\ new \in Scope /\ new.terms = rw.env[1].terms /\ new.chks = rw.env[1].chks \cup {n}
    BY <1>1, <1>10 DEF Scope
  <1>12. /\ rw'.env = [rw.env EXCEPT ![1] = new] /\ rw'.cry = rw.cry
         /\ rw'.theorems = rw.theorems /\ rw'.dirs = rw.dirs
         /\ rw' = [rw EXCEPT !.env = rw'.env]
    BY <1>1, <1>2, <1>10 DEF RW
  <1> HIDE DEF new
  <1>13. /\ rw'.env \in Seq(Scope) /\ Len(rw'.env) = Len(rw.env)
         /\ \A i \in 1..Len(rw.env) : rw'.env[i] = IF i = 1 THEN new ELSE rw.env[i]
    BY <1>10, <1>11, <1>12, ExceptSeq, LenProperties
  <1>14. rw' \in RW BY <1>2, <1>12, <1>13 DEF RW
  <1>15. StateOK(chks', rw, stack) /\ StateLive(chks', rw, kernel) BY <1>2, <1>8, StatesGrow
  <1>16. EnvOK(chks', rw'.env, rw'.cry)
    <2>1. EnvOK(chks', rw.env, rw.cry) BY <1>15 DEF StateOK
    <2>2. Mirrored(rw'.env, rw'.cry)
      <3>1. \A i \in 1..Len(rw.env) : rw'.env[i].terms = rw.env[i].terms BY <1>11, <1>13
      <3> QED BY <1>12, <1>13, <2>1, <3>1 DEF EnvOK, Mirrored
    <2>3. ASSUME NEW i \in 1..Len(rw'.env), NEW c \in rw'.env[i].chks
          PROVE  c \in DOMAIN chks' /\ Len(chks'[c].rw.env) = Len(rw'.env) - i + 1
      <3>1. CASE c \in rw.env[i].chks BY <1>13, <2>1, <3>1 DEF EnvOK
      <3>2. CASE c \notin rw.env[i].chks
        <4>1. i = 1 /\ c = n BY <1>11, <1>13, <2>3, <3>2
        <4>2. Len(rw.env) \in Nat BY <1>10, LenProperties
        <4> QED BY <1>4, <1>8, <1>13, <4>1, <4>2
      <3> QED BY <3>1, <3>2
    <2> QED BY <1>10, <1>12, <1>13, <2>2, <2>3 DEF EnvOK
  <1>17. StateOK(chks', rw', stack)
    BY <1>12, <1>13, <1>14, <1>15, <1>16 DEF StateOK, Room
  <1>18. StateLive(chks', rw', kernel)
    <2>1. EnvLive(chks', rw.env, rw.cry, kernel) BY <1>15 DEF StateLive
    <2>2. ASSUME NEW i \in 1..Len(rw'.env), NEW c \in rw'.env[i].chks
          PROVE  c \in DOMAIN chks' /\ Continues(chks'[c].chk, kernel)
      <3>1. CASE c \in rw.env[i].chks BY <1>13, <2>1, <3>1 DEF EnvLive
      <3>2. CASE c \notin rw.env[i].chks
        <4>1. c = n BY <1>11, <1>13, <2>2, <3>2
        <4> QED BY <1>2, <1>4, <1>8, <4>1, ContinuesItself
      <3> QED BY <3>1, <3>2
    <2>3. EnvLive(chks', rw'.env, rw'.cry, kernel) BY <1>12, <2>1, <2>2 DEF EnvLive
    <2> QED BY <1>12, <1>15, <2>3 DEF StateLive
  <1>19. StackOK(chks', kernel, stack) /\ CallsLive(chks', stack, kernel) BY <1>2, <1>8, FramesGrow DEF StackOK
  <1>20. RWOK(rw') /\ kernel.next <= kernel.next BY <1>2, <1>17, StateEnv, KernelTypes
  <1>21. Consistent(chks', kernel, rw', stack, raised)
    BY <1>2, <1>9, <1>17, <1>18, <1>19, <1>20, StatementKeeps, ExceptionTypes
  <1> QED BY <1>1, <1>2, <1>21 DEF Inv

-----------------------------------------------------------------------------
(* Calls.                                                                  *)
LEMMA CutNothing ==
  ASSUME NEW st \in RW
  PROVE  Cut(st, 1) = st
  <1>1. /\ SubSeq(st.env, 1, Len(st.env)) = st.env /\ SubSeq(st.cry, 1, Len(st.cry)) = st.cry
    BY StateTypes, SubSeqFull
  <1> QED BY <1>1 DEF Cut, RW

LEMMA EnterBlockKeeps ==
  ASSUME Scoped, Inv, EnterBlock
  PROVE  Inv'
  <1> DEFINE f == [k |-> "block", env |-> rw.env, cry |-> rw.cry]
  <1>1. Running /\ stack' = <<f>> \o stack /\ UNCHANGED <<kernel, cwd, raised, chks>> BY DEF EnterBlock, Push
  <1>2. PICK n \in DOMAIN rw.env : rw' = pushScope(Cut(rw, n)) BY DEF EnterBlock, Cut
  <1>3. /\ PointsOK(chks) /\ chks \in Seq(Point) /\ KernelOK(kernel) /\ rw \in RW
        /\ StackOK(chks, kernel, stack) /\ stack \in Seq(Frame) /\ CallsLive(chks, stack, kernel)
        /\ raised = NoException /\ stack # <<>> /\ Head(stack).k \notin {"restoring", "shell"}
        /\ StateOK(chks, rw, stack) /\ StateLive(chks, rw, kernel) /\ cwd \in Dir \cup {Orig}
    BY <1>1, WhileRunning
  <1>4. /\ f \in Frame /\ f.k = "block" /\ f.env = rw.env /\ f.cry = rw.cry
    BY <1>3, StateTypes DEF Frame
  <1> HIDE DEF f
  <1>5. FrameOK(chks, kernel, f, stack) /\ FrameLive(chks, f, kernel)
    <2>1. EnvOK(chks, f.env, f.cry) /\ Room(f.env, stack) BY <1>3, <1>4 DEF StateOK
    <2>2. EnvLive(chks, f.env, f.cry, kernel) BY <1>3, <1>4 DEF StateLive
    <2> QED BY <1>4, <2>1, <2>2 DEF FrameOK, FrameLive, Catches
  <1>6. EnvOK(chks, rw.env, rw.cry) /\ n \in 1..Len(rw.env) /\ Len(rw.env) \in Nat
    BY <1>2, <1>3, StateEnv, StateTypes, LenProperties
  <1>7. rw' \in RW /\ EnvOK(chks, rw'.env, rw'.cry) /\ StateLive(chks, rw', kernel)
    BY <1>2, <1>3, <1>6, PushedScope
  <1>8. Len(rw'.env) = Len(rw.env) - n + 2 /\ rw'.dirs = rw.dirs BY <1>2, <1>3, <1>6, PushedScope
  <1>9. StateOK(chks, rw', stack')
    <2>1. Cardinality(Includes(stack')) = Cardinality(Includes(stack)) /\ Cardinality(InnerShells(stack')) = 0
      BY <1>1, <1>3, <1>4, CountPush
    <2>2. Len(rw'.env) > 0 BY <1>6, <1>8
    <2> QED BY <1>3, <1>7, <1>8, <2>1, <2>2 DEF StateOK, Room
  <1>10. RWOK(rw') BY <1>7 DEF RWOK, EnvOK
  <1>11. Consistent(chks, kernel, rw', stack', NoException)
    BY <1>1, <1>3, <1>4, <1>5, <1>7, <1>9, <1>10, CallKeeps
  <1> QED BY <1>1, <1>3, <1>11 DEF Inv

LEMMA SubshellKeeps ==
  ASSUME Scoped, Inv, Subshell
  PROVE  Inv'
  <1> DEFINE f == [k |-> "shell"]
  <1>1. Running /\ stack' = <<f>> \o stack /\ UNCHANGED <<kernel, cwd, raised, chks>> BY DEF Subshell, Push
  <1>3. /\ PointsOK(chks) /\ chks \in Seq(Point) /\ KernelOK(kernel) /\ rw \in RW
        /\ StackOK(chks, kernel, stack) /\ stack \in Seq(Frame) /\ CallsLive(chks, stack, kernel)
        /\ raised = NoException /\ stack # <<>> /\ Head(stack).k \notin {"restoring", "shell"}
        /\ StateOK(chks, rw, stack) /\ StateLive(chks, rw, kernel) /\ cwd \in Dir \cup {Orig}
    BY <1>1, WhileRunning
  <1>4. f \in Frame /\ f.k = "shell" BY DEF Frame
  <1> HIDE DEF f
  <1>5. FrameOK(chks, kernel, f, stack) /\ FrameLive(chks, f, kernel)
    BY <1>4 DEF FrameOK, FrameLive, Catches
  <1>6. EnvOK(chks, rw.env, rw.cry) /\ 1 \in 1..Len(rw.env) /\ Len(rw.env) \in Nat
        /\ Len(rw.env) > Cardinality(InnerShells(stack)) /\ Cardinality(InnerShells(stack)) \in Nat
    BY <1>3, StateEnv
  <1>2. PICK n \in 1..Len(rw.env) : n = 1 /\ rw' = pushScope(Cut(rw, n))
    BY <1>3, <1>6, CutNothing DEF Subshell
  <1>7. rw' \in RW /\ EnvOK(chks, rw'.env, rw'.cry) /\ StateLive(chks, rw', kernel)
    BY <1>2, <1>3, <1>6, PushedScope
  <1>8. Len(rw'.env) = Len(rw.env) - n + 2 /\ rw'.dirs = rw.dirs BY <1>2, <1>3, <1>6, PushedScope
  <1>9. StateOK(chks, rw', stack')
    <2>1. /\ Cardinality(Includes(stack')) = Cardinality(Includes(stack))
          /\ Cardinality(InnerShells(stack')) = Cardinality(InnerShells(stack)) + 1
      BY <1>1, <1>3, <1>4, CountPush
    <2>2. Len(rw'.env) > Cardinality(InnerShells(stack')) BY <1>2, <1>6, <1>8, <2>1
    <2> QED BY <1>3, <1>7, <1>8, <2>1, <2>2 DEF StateOK, Room
  <1>10. RWOK(rw') BY <1>7 DEF RWOK, EnvOK
  <1>11. Consistent(chks, kernel, rw', stack', NoException)
    BY <1>1, <1>3, <1>4, <1>5, <1>7, <1>9, <1>10, CallKeeps
  <1> QED BY <1>1, <1>3, <1>11 DEF Inv

LEMMA IncludeKeeps ==
  ASSUME Scoped, Inv, NEW d \in Dir, Include(d)
  PROVE  Inv'
  <1> DEFINE f == [k |-> "include"]
  <1>1. /\ Running /\ stack' = <<f>> \o stack /\ UNCHANGED <<kernel, raised, chks>>
        /\ rw' = [rw EXCEPT !.dirs = <<d>> \o @] /\ cwd' = d
    BY DEF Include, Push
  <1>3. /\ PointsOK(chks) /\ chks \in Seq(Point) /\ KernelOK(kernel) /\ rw \in RW
        /\ StackOK(chks, kernel, stack) /\ stack \in Seq(Frame) /\ CallsLive(chks, stack, kernel)
        /\ raised = NoException /\ stack # <<>> /\ Head(stack).k \notin {"restoring", "shell"}
        /\ StateOK(chks, rw, stack) /\ StateLive(chks, rw, kernel) /\ cwd \in Dir \cup {Orig}
    BY <1>1, WhileRunning
  <1>4. f \in Frame /\ f.k = "include" BY DEF Frame
  <1> HIDE DEF f
  <1>5. FrameOK(chks, kernel, f, stack) /\ FrameLive(chks, f, kernel)
    BY <1>4 DEF FrameOK, FrameLive, Catches
  <1>6. <<d>> \o rw.dirs \in Seq(Dir) /\ Len(<<d>> \o rw.dirs) = Len(rw.dirs) + 1
    BY <1>3, StateTypes, ConsElements
  <1>7. /\ rw' \in RW /\ rw'.env = rw.env /\ rw'.cry = rw.cry /\ rw'.theorems = rw.theorems
        /\ rw'.dirs = <<d>> \o rw.dirs
    BY <1>1, <1>3, <1>6 DEF RW
  <1>8. StateLive(chks, rw', kernel) BY <1>3, <1>7 DEF StateLive
  <1>9. StateOK(chks, rw', stack')
    <2>1. /\ Cardinality(Includes(stack')) = Cardinality(Includes(stack)) + 1
          /\ Cardinality(InnerShells(stack')) = Cardinality(InnerShells(stack))
      BY <1>1, <1>3, <1>4, CountPush
    <2> QED BY <1>3, <1>6, <1>7, <2>1 DEF StateOK, Room
  <1>10. RWOK(rw') BY <1>7, <1>9 DEF RWOK, StateOK, EnvOK
  <1>11. Consistent(chks, kernel, rw', stack', NoException)
    BY <1>1, <1>3, <1>4, <1>5, <1>8, <1>9, <1>10, CallKeeps
  <1> QED BY <1>1, <1>3, <1>11 DEF Inv

LEMMA EnterFailsKeeps ==
  ASSUME Scoped, Inv, EnterFails
  PROVE  Inv'
  <1> DEFINE f == [k |-> "fails", rw |-> rw]
  <1>1. Running /\ stack' = <<f>> \o stack /\ UNCHANGED <<kernel, rw, cwd, raised, chks>>
    BY DEF EnterFails, Push
  <1>3. /\ PointsOK(chks) /\ chks \in Seq(Point) /\ KernelOK(kernel) /\ rw \in RW /\ RWOK(rw)
        /\ StackOK(chks, kernel, stack) /\ stack \in Seq(Frame) /\ CallsLive(chks, stack, kernel)
        /\ raised = NoException /\ stack # <<>> /\ Head(stack).k \notin {"restoring", "shell"}
        /\ StateOK(chks, rw, stack) /\ StateLive(chks, rw, kernel) /\ cwd \in Dir \cup {Orig}
    BY <1>1, WhileRunning
  <1>4. f \in Frame /\ f.k = "fails" /\ f.rw = rw BY <1>3 DEF Frame
  <1> HIDE DEF f
  <1>5. FrameOK(chks, kernel, f, stack) /\ FrameLive(chks, f, kernel)
    BY <1>3, <1>4 DEF FrameOK, FrameLive, Catches
  <1>6. StateOK(chks, rw, stack') BY <1>1, <1>3, <1>4, StateOKCons
  <1>7. Consistent(chks, kernel, rw, stack', NoException)
    BY <1>1, <1>3, <1>4, <1>5, <1>6, CallKeeps
  <1> QED BY <1>1, <1>3, <1>7 DEF Inv

(* The point that a handler holds, and the handler.                        *)
LEMMA HandlerPoint ==
  ASSUME StateOK(chks, rw, stack), StateLive(chks, rw, kernel), KernelOK(kernel), stack \in Seq(Frame),
         CallsLive(chks, stack, kernel), Scoped, Apart,
         NEW f \in Frame, Catches(f), f.rw = rw, f.chk = kernel
  PROVE  FrameOK(chks, kernel, f, stack) /\ FrameLive(chks, f, kernel)
  <1>1. ASSUME NEW q \in 1..Len(stack), Catches(stack[q]) PROVE stack[q].chk.next < kernel.next
    <2>1. stack[q] \in Handlers BY <1>1, LenProperties DEF Handlers, Catches
    <2> QED BY <2>1 DEF Apart
  <1>2. PointOK(chks, f, stack) BY <1>1 DEF PointOK
  <1>3. Continues(kernel, kernel) /\ kernel.next \notin kernel.stale BY ContinuesItself
  <1>4. kernel.next <= kernel.next BY KernelTypes DEF KernelOK
  <1> QED BY <1>2, <1>3, <1>4 DEF FrameOK, FrameLive, Catches

LEMMA EnterTimeoutKeeps ==
  ASSUME Scoped, Inv, EnterTimeout
  PROVE  Inv'
  <1> DEFINE f == [k |-> "timeout", rw |-> rw, chk |-> kernel]
  <1>1. Running /\ Apart /\ stack' = <<f>> \o stack /\ UNCHANGED <<kernel, rw, cwd, raised, chks>>
    BY DEF EnterTimeout, Push
  <1>3. /\ PointsOK(chks) /\ chks \in Seq(Point) /\ KernelOK(kernel) /\ kernel \in Kernel /\ rw \in RW /\ RWOK(rw)
        /\ StackOK(chks, kernel, stack) /\ stack \in Seq(Frame) /\ CallsLive(chks, stack, kernel)
        /\ raised = NoException /\ stack # <<>> /\ Head(stack).k \notin {"restoring", "shell"}
        /\ StateOK(chks, rw, stack) /\ StateLive(chks, rw, kernel) /\ cwd \in Dir \cup {Orig}
    BY <1>1, WhileRunning
  <1>4. f \in Frame /\ f.k = "timeout" /\ f.rw = rw /\ f.chk = kernel BY <1>3 DEF Frame
  <1> HIDE DEF f
  <1>5. FrameOK(chks, kernel, f, stack) /\ FrameLive(chks, f, kernel)
    BY <1>1, <1>3, <1>4, HandlerPoint DEF Catches
  <1>6. StateOK(chks, rw, stack') BY <1>1, <1>3, <1>4, StateOKCons
  <1>7. Consistent(chks, kernel, rw, stack', NoException)
    BY <1>1, <1>3, <1>4, <1>5, <1>6, CallKeeps
  <1> QED BY <1>1, <1>3, <1>7 DEF Inv

(* A state with no command on top and no exception: every call can fail.   *)
LEMMA WhileGoing ==
  ASSUME Inv, stack # <<>>, Head(stack).k \notin {"restoring", "command"} \/ raised # NoException
  PROVE  /\ CallsLive(chks, stack, kernel)
         /\ raised = NoException => StateOK(chks, rw, stack) /\ StateLive(chks, rw, kernel)
  <1>1. Waiting(stack, raised) = stack BY WhoWaits
  <1> QED BY <1>1 DEF Inv, Consistent, Going

LEMMA StartCommandKeeps ==
  ASSUME Scoped, Inv, StartCommand
  PROVE  Inv'
  <1> DEFINE f == [k |-> "command", rw |-> rw, chk |-> kernel]
  <1>1. /\ Apart /\ stack' = <<f>> \o stack /\ UNCHANGED <<kernel, rw, cwd, raised, chks>>
        /\ raised = NoException /\ stack # <<>> /\ Head(stack).k = "shell"
    BY DEF StartCommand, Push, AtPrompt, Is, Top
  <1>2. /\ PointsOK(chks) /\ KernelOK(kernel) /\ kernel \in Kernel /\ rw \in RW /\ RWOK(rw)
        /\ StackOK(chks, kernel, stack) /\ stack \in Seq(Frame)
    BY ConsistentParts DEF Inv
  <1>3. CallsLive(chks, stack, kernel) /\ StateOK(chks, rw, stack) /\ StateLive(chks, rw, kernel)
    BY <1>1, WhileGoing
  <1>4. f \in Frame /\ f.k = "command" /\ f.rw = rw /\ f.chk = kernel BY <1>2 DEF Frame
  <1> HIDE DEF f
  <1>5. FrameOK(chks, kernel, f, stack) /\ FrameLive(chks, f, kernel)
    BY <1>1, <1>2, <1>3, <1>4, HandlerPoint DEF Catches
  <1>6. StateOK(chks, rw, stack') BY <1>1, <1>2, <1>3, <1>4, StateOKCons
  <1>7. Consistent(chks, kernel, rw, stack', NoException)
    BY <1>1, <1>2, <1>3, <1>4, <1>5, <1>6, CallKeeps
  <1> QED BY <1>1, <1>7 DEF Inv

-----------------------------------------------------------------------------
(* Returns, and exceptions on their way.                                   *)
LEMMA Returning ==
  ASSUME Inv, stack # <<>>, NEW f, f = Head(stack), NEW rest, rest = Tail(stack)
  PROVE  /\ PointsOK(chks) /\ chks \in Seq(Point) /\ KernelOK(kernel) /\ kernel \in Kernel
         /\ RWOK(rw) /\ rw \in RW /\ cwd \in Dir \cup {Orig} /\ raised \in Exception
         /\ stack \in Seq(Frame) /\ f \in Frame /\ rest \in Seq(Frame) /\ stack = <<f>> \o rest
         /\ FrameOK(chks, kernel, f, rest) /\ StackOK(chks, kernel, rest)
         /\ rest # <<>> => Head(rest).k # "restoring"
         /\ f.k # "restoring" \/ raised # NoException =>
              CallsLive(chks, rest, kernel) /\ CallsLive(chks, CallsOf(rest), kernel)
         /\ f.k \notin {"restoring", "command"} \/ raised # NoException => FrameLive(chks, f, kernel)
         /\ f.k # "restoring" /\ raised = NoException => StateOK(chks, rw, stack) /\ StateLive(chks, rw, kernel)
  <1>1. /\ PointsOK(chks) /\ chks \in Seq(Point) /\ KernelOK(kernel) /\ kernel \in Kernel
        /\ RWOK(rw) /\ rw \in RW /\ cwd \in Dir \cup {Orig} /\ raised \in Exception
        /\ stack \in Seq(Frame) /\ StackOK(chks, kernel, stack)
    BY ConsistentParts DEF Inv
  <1>2. /\ f \in Frame /\ rest \in Seq(Frame) /\ stack = <<f>> \o rest
        /\ FrameOK(chks, kernel, f, rest) /\ StackOK(chks, kernel, rest)
        /\ rest # <<>> => Head(rest).k # "restoring"
    <2>1. f \in Frame /\ rest \in Seq(Frame) /\ stack = <<f>> \o rest BY <1>1, Innermost
    <2>2. FrameOK(chks, kernel, f, rest) /\ StackOK(chks, kernel, rest) BY <1>1, Innermost
    <2>3. rest # <<>> => Head(rest).k # "restoring" BY <1>1, Innermost
    <2> QED BY <2>1, <2>2, <2>3
  <1>3. ASSUME f.k \notin {"restoring", "command"} \/ raised # NoException
        PROVE  CallsLive(chks, rest, kernel) /\ FrameLive(chks, f, kernel)
    <2>1. CallsLive(chks, stack, kernel) BY <1>3, WhileGoing
    <2> QED BY <1>2, <2>1, FramesCons
  <1>4. ASSUME f.k = "command", raised = NoException PROVE CallsLive(chks, rest, kernel)
    <2>1. Waiting(stack, raised) = rest BY <1>4, WhoWaits
    <2> QED BY <2>1 DEF Inv, Consistent
  <1>5. f.k # "restoring" /\ raised = NoException => StateOK(chks, rw, stack) /\ StateLive(chks, rw, kernel)
    BY DEF Inv, Consistent, Going
  <1>6. CallsLive(chks, rest, kernel) => CallsLive(chks, CallsOf(rest), kernel) BY <1>2, CallsOfCommand
  <1> QED BY <1>1, <1>2, <1>3, <1>4, <1>5, <1>6

LEMMA LeaveBlockKeeps ==
  ASSUME Inv, LeaveBlock
  PROVE  Inv'
  <1>1. PICK f, rest : /\ f = Head(stack) /\ rest = Tail(stack) /\ f.k = "block" /\ raised = NoException
                       /\ stack # <<>> /\ stack' = rest
                       /\ rw' = [rw EXCEPT !.env = f.env, !.cry = f.cry]
                       /\ UNCHANGED <<kernel, cwd, raised, chks>>
    BY DEF LeaveBlock, Is, Top, Pop
  <1>2. /\ PointsOK(chks) /\ KernelOK(kernel) /\ rw \in RW /\ cwd \in Dir \cup {Orig}
        /\ f \in Frame /\ rest \in Seq(Frame) /\ stack = <<f>> \o rest
        /\ FrameOK(chks, kernel, f, rest) /\ StackOK(chks, kernel, rest)
        /\ rest # <<>> => Head(rest).k # "restoring"
        /\ CallsLive(chks, rest, kernel) /\ CallsLive(chks, CallsOf(rest), kernel)
        /\ FrameLive(chks, f, kernel)
        /\ StateOK(chks, rw, stack) /\ StateLive(chks, rw, kernel)
    BY <1>1, Returning
  <1>3. EnvOK(chks, f.env, f.cry) /\ Room(f.env, rest) /\ EnvLive(chks, f.env, f.cry, kernel)
    BY <1>1, <1>2 DEF FrameOK, FrameLive
  <1>4. /\ rw' \in RW /\ rw'.env = f.env /\ rw'.cry = f.cry /\ rw'.theorems = rw.theorems /\ rw'.dirs = rw.dirs
    BY <1>1, <1>2, FrameTypes DEF RW
  <1>5. Cardinality(Includes(stack)) = Cardinality(Includes(rest)) BY <1>1, <1>2, CountPush
  <1>6. StateOK(chks, rw', rest) /\ StateLive(chks, rw', kernel)
    BY <1>2, <1>3, <1>4, <1>5 DEF StateOK, StateLive
  <1>7. RWOK(rw') BY <1>3, <1>4 DEF RWOK, EnvOK
  <1>8. Consistent(chks, kernel, rw', rest, NoException)
    BY <1>2, <1>6, <1>7, ReturnKeeps
  <1> QED BY <1>1, <1>2, <1>8 DEF Inv

LEMMA EndIncludeKeeps ==
  ASSUME Inv, EndInclude
  PROVE  Inv'
  <1>1. PICK f, rest : /\ f = Head(stack) /\ rest = Tail(stack) /\ f.k = "include" /\ raised = NoException
                       /\ stack # <<>> /\ stack' = rest
                       /\ rw' = [rw EXCEPT !.dirs = Tail(@)] /\ cwd' = DirOf(rw')
                       /\ UNCHANGED <<kernel, raised, chks>>
    BY DEF EndInclude, Is, Top, Pop
  <1>2. /\ PointsOK(chks) /\ KernelOK(kernel) /\ rw \in RW
        /\ f \in Frame /\ rest \in Seq(Frame) /\ stack = <<f>> \o rest
        /\ StackOK(chks, kernel, rest)
        /\ rest # <<>> => Head(rest).k # "restoring"
        /\ CallsLive(chks, rest, kernel) /\ CallsLive(chks, CallsOf(rest), kernel)
        /\ StateOK(chks, rw, stack) /\ StateLive(chks, rw, kernel)
    BY <1>1, Returning
  <1>3. /\ Cardinality(Includes(stack)) = Cardinality(Includes(rest)) + 1 /\ Cardinality(Includes(rest)) \in Nat
        /\ Cardinality(InnerShells(stack)) = IF rest = <<>> THEN 0 ELSE Cardinality(InnerShells(rest))
    BY <1>1, <1>2, CountPush
  <1>4. rw.dirs \in Seq(Dir) /\ rw.dirs # <<>>
    <2>1. Len(rw.dirs) = Cardinality(Includes(rest)) + 1 BY <1>2, <1>3 DEF StateOK
    <2> QED BY <1>2, <1>3, <2>1, StateTypes, EmptySeq
  <1>5. Tail(rw.dirs) \in Seq(Dir) /\ Len(Tail(rw.dirs)) = Len(rw.dirs) - 1 /\ Len(rw.dirs) \in Nat
    BY <1>4, TailElements
  <1>6. /\ rw' \in RW /\ rw'.env = rw.env /\ rw'.cry = rw.cry /\ rw'.theorems = rw.theorems
        /\ rw'.dirs = Tail(rw.dirs)
    BY <1>1, <1>2, <1>5 DEF RW
  <1>7. StateLive(chks, rw', kernel) BY <1>2, <1>6 DEF StateLive
  <1>8. ASSUME rest # <<>> PROVE StateOK(chks, rw', rest)
    BY <1>2, <1>3, <1>5, <1>6, <1>8 DEF StateOK, Room
  <1>9. RWOK(rw') BY <1>2, <1>6 DEF RWOK, StateOK, EnvOK
  <1>10. Consistent(chks, kernel, rw', rest, NoException)
    BY <1>2, <1>7, <1>8, <1>9, ReturnKeeps
  <1>11. cwd' \in Dir \cup {Orig}
    <2>1. rw'.dirs \in Seq(Dir) BY <1>5, <1>6
    <2> QED BY <1>1, <2>1, HeadTailProperties DEF DirOf
  <1> QED BY <1>1, <1>10, <1>11 DEF Inv

LEMMA EndFailsKeeps ==
  ASSUME Inv, EndFails
  PROVE  Inv'
  <1>1. PICK f, rest : /\ f = Head(stack) /\ rest = Tail(stack) /\ f.k = "fails" /\ raised = NoException
                       /\ stack # <<>> /\ stack' = rest /\ rw' = f.rw /\ raised' = Raise("error")
                       /\ UNCHANGED <<kernel, cwd, chks>>
    BY DEF EndFails, Is, Top, Pop
  <1>2. /\ PointsOK(chks) /\ KernelOK(kernel) /\ cwd \in Dir \cup {Orig}
        /\ f \in Frame /\ rest \in Seq(Frame)
        /\ FrameOK(chks, kernel, f, rest) /\ StackOK(chks, kernel, rest)
        /\ rest # <<>> => Head(rest).k # "restoring"
        /\ CallsLive(chks, rest, kernel) /\ CallsLive(chks, CallsOf(rest), kernel)
    BY <1>1, Returning
  <1>3. StateOK(chks, f.rw, rest) BY <1>1, <1>2 DEF FrameOK
  <1>4. RWOK(rw') BY <1>1, <1>2, <1>3, StateEnv
  <1>5. raised' \in Exception /\ raised' # NoException BY <1>1, ExceptionTypes
  <1>6. Consistent(chks, kernel, rw', rest, raised') BY <1>2, <1>4, <1>5, RaiseKeeps
  <1> QED BY <1>1, <1>2, <1>6 DEF Inv

(* A return that leaves the state as it is.                                *)
LEMMA PlainReturn ==
  ASSUME Inv, stack # <<>>, Head(stack).k \notin {"restoring", "shell", "include", "block"}, raised = NoException,
         Pop, UNCHANGED <<kernel, rw, raised, chks>>
  PROVE  Consistent(chks, kernel, rw, stack, raised)'
  <1>1. PICK f, rest : /\ f = Head(stack) /\ rest = Tail(stack) /\ stack' = rest
                       /\ f.k \notin {"restoring", "shell", "include", "block"}
    BY DEF Pop
  <1>2. /\ PointsOK(chks) /\ KernelOK(kernel) /\ RWOK(rw)
        /\ f \in Frame /\ rest \in Seq(Frame) /\ stack = <<f>> \o rest /\ StackOK(chks, kernel, rest)
        /\ rest # <<>> => Head(rest).k # "restoring"
        /\ CallsLive(chks, rest, kernel) /\ CallsLive(chks, CallsOf(rest), kernel)
        /\ StateOK(chks, rw, stack) /\ StateLive(chks, rw, kernel)
    BY <1>1, Returning
  <1>3. StateOK(chks, rw, rest) BY <1>1, <1>2, StateOKCons
  <1>4. Consistent(chks, kernel, rw, rest, NoException) BY <1>2, <1>3, ReturnKeeps
  <1> QED BY <1>1, <1>4

LEMMA EndTimeoutKeeps ==
  ASSUME Inv, EndTimeout
  PROVE  Inv'
  <1>1. /\ stack # <<>> /\ Head(stack).k = "timeout" /\ raised = NoException
        /\ Pop /\ UNCHANGED <<kernel, rw, cwd, raised, chks>>
    BY DEF EndTimeout, Is, Top
  <1>2. Consistent(chks, kernel, rw, stack, raised)' BY <1>1, PlainReturn
  <1> QED BY <1>1, <1>2 DEF Inv

LEMMA EndCommandKeeps ==
  ASSUME Inv, EndCommand
  PROVE  Inv'
  <1>1. /\ stack # <<>> /\ Head(stack).k = "command" /\ raised = NoException
        /\ Pop /\ UNCHANGED <<kernel, rw, cwd, raised, chks>>
    BY DEF EndCommand, Is, Top
  <1>2. Consistent(chks, kernel, rw, stack, raised)' BY <1>1, PlainReturn
  <1> QED BY <1>1, <1>2 DEF Inv

LEMMA EndFileKeeps ==
  ASSUME Inv, EndFile
  PROVE  Inv'
  <1>1. /\ stack # <<>> /\ Head(stack).k = "file" /\ raised = NoException
        /\ Pop /\ UNCHANGED <<kernel, rw, raised, chks>> /\ cwd' = Head(stack).cwd
    BY DEF EndFile, Is, Top
  <1>2. Consistent(chks, kernel, rw, stack, raised)' BY <1>1, PlainReturn
  <1>3. Head(stack) \in Frame BY <1>1, Returning
  <1>4. cwd' \in Dir \cup {Orig} BY <1>1, <1>3, FrameTypes
  <1> QED BY <1>2, <1>4 DEF Inv

LEMMA EndShellKeeps ==
  ASSUME Inv, EndShell
  PROVE  Inv'
  <1>1. PICK f, rest : /\ f = Head(stack) /\ rest = Tail(stack) /\ f.k = "shell" /\ raised = NoException
                       /\ stack # <<>> /\ stack' = rest
                       /\ rw' = (IF Len(stack) = 1 THEN rw ELSE popScope(rw))
                       /\ UNCHANGED <<kernel, cwd, raised, chks>>
    BY DEF EndShell, AtPrompt, Is, Top, Pop
  <1>2. /\ PointsOK(chks) /\ chks \in Seq(Point) /\ KernelOK(kernel) /\ RWOK(rw) /\ rw \in RW /\ cwd \in Dir \cup {Orig}
        /\ stack \in Seq(Frame) /\ f \in Frame /\ rest \in Seq(Frame) /\ stack = <<f>> \o rest
        /\ StackOK(chks, kernel, rest)
        /\ rest # <<>> => Head(rest).k # "restoring"
        /\ CallsLive(chks, rest, kernel) /\ CallsLive(chks, CallsOf(rest), kernel)
        /\ StateOK(chks, rw, stack) /\ StateLive(chks, rw, kernel)
    BY <1>1, Returning
  <1>3. rest = <<>> <=> Len(stack) = 1
    <2>1. Len(stack) = Len(rest) + 1 /\ Len(rest) \in Nat BY <1>2, ConsElements
    <2> QED BY <1>2, <2>1, EmptySeq
  <1>4. CASE rest = <<>>
    <2>1. Consistent(chks, kernel, rw, rest, NoException) BY <1>2, <1>4, ReturnKeeps
    <2> QED BY <1>1, <1>2, <1>3, <1>4, <2>1 DEF Inv
  <1>5. CASE rest # <<>>
    <2>1. /\ Cardinality(Includes(stack)) = Cardinality(Includes(rest))
          /\ Cardinality(InnerShells(stack)) = Cardinality(InnerShells(rest)) + 1
          /\ Cardinality(InnerShells(rest)) \in Nat
      BY <1>1, <1>2, <1>5, CountPush
    <2>2. /\ EnvOK(chks, rw.env, rw.cry) /\ Len(rw.env) \in Nat
          /\ Len(rw.env) > Cardinality(InnerShells(rest)) + 1 /\ Len(rw.env) > 1
      <3>1. EnvOK(chks, rw.env, rw.cry) BY <1>2, StateEnv
      <3>2. Len(rw.env) \in Nat /\ Len(rw.env) > Cardinality(InnerShells(stack)) BY <1>2, StateEnv
      <3> QED BY <2>1, <3>1, <3>2
    <2>3. rw' = popScope(rw) BY <1>1, <1>3, <1>5
    <2>4. /\ rw' \in RW /\ EnvOK(chks, rw'.env, rw'.cry) /\ StateLive(chks, rw', kernel)
          /\ Len(rw'.env) = Len(rw.env) - 1 /\ rw'.dirs = rw.dirs
      BY <1>2, <2>2, <2>3, PoppedScope
    <2>5. Len(rw'.env) > Cardinality(InnerShells(rest)) BY <2>1, <2>2, <2>4
    <2>6. StateOK(chks, rw', rest) BY <1>2, <2>1, <2>4, <2>5 DEF StateOK, Room
    <2>7. RWOK(rw') BY <2>4 DEF RWOK, EnvOK
    <2>8. Consistent(chks, kernel, rw', rest, NoException)
      BY <1>2, <2>4, <2>6, <2>7, ReturnKeeps
    <2> QED BY <1>1, <1>2, <2>8 DEF Inv
  <1> QED BY <1>4, <1>5

LEMMA Unwinding ==
  ASSUME Inv, Raised, Pop, UNCHANGED <<kernel, rw, raised, chks>>
  PROVE  Consistent(chks, kernel, rw, stack, raised)'
  <1>1. PICK f, rest : f = Head(stack) /\ rest = Tail(stack) /\ stack' = rest /\ raised # NoException /\ stack # <<>>
    BY DEF Pop, Raised
  <1>2. /\ PointsOK(chks) /\ KernelOK(kernel) /\ RWOK(rw) /\ raised \in Exception
        /\ rest \in Seq(Frame) /\ StackOK(chks, kernel, rest)
        /\ rest # <<>> => Head(rest).k # "restoring"
        /\ CallsLive(chks, rest, kernel) /\ CallsLive(chks, CallsOf(rest), kernel)
    BY <1>1, Returning
  <1>3. Consistent(chks, kernel, rw, rest, raised) BY <1>1, <1>2, RaiseKeeps
  <1> QED BY <1>1, <1>3

LEMMA UnwindKeeps ==
  ASSUME Inv, Unwind \/ UnwindFile
  PROVE  Inv'
  <1>1. Raised /\ Pop /\ UNCHANGED <<kernel, rw, raised, chks>> BY DEF Unwind, UnwindFile
  <1>2. Consistent(chks, kernel, rw, stack, raised)' BY <1>1, Unwinding
  <1>3. cwd' \in Dir \cup {Orig}
    <2>1. CASE Unwind BY <2>1 DEF Unwind, Inv
    <2>2. CASE UnwindFile
      <3>1. Head(stack) \in Frame BY <1>1, Returning DEF Raised
      <3> QED BY <2>2, <3>1, FrameTypes DEF UnwindFile, Top
    <2> QED BY <2>1, <2>2
  <1> QED BY <1>2, <1>3 DEF Inv

LEMMA FailsCatchesKeeps ==
  ASSUME Inv, FailsCatches
  PROVE  Inv'
  <1>1. PICK f, rest : /\ f = Head(stack) /\ rest = Tail(stack) /\ f.k = "fails" /\ raised # NoException
                       /\ stack # <<>> /\ stack' = rest /\ rw' = f.rw /\ raised' = NoException
                       /\ UNCHANGED <<kernel, cwd, chks>>
    BY DEF FailsCatches, Raised, Top, Pop
  <1>2. /\ PointsOK(chks) /\ KernelOK(kernel) /\ cwd \in Dir \cup {Orig}
        /\ f \in Frame /\ rest \in Seq(Frame)
        /\ FrameOK(chks, kernel, f, rest) /\ StackOK(chks, kernel, rest)
        /\ rest # <<>> => Head(rest).k # "restoring"
        /\ CallsLive(chks, rest, kernel) /\ CallsLive(chks, CallsOf(rest), kernel)
        /\ FrameLive(chks, f, kernel)
    BY <1>1, Returning
  <1>3. StateOK(chks, rw', rest) /\ StateLive(chks, rw', kernel) BY <1>1, <1>2 DEF FrameOK, FrameLive
  <1>4. RWOK(rw') BY <1>2, <1>3, StateEnv
  <1>5. Consistent(chks, kernel, rw', rest, NoException) BY <1>2, <1>3, <1>4, ReturnKeeps
  <1> QED BY <1>1, <1>2, <1>5 DEF Inv

-----------------------------------------------------------------------------
(* Restores.                                                               *)
Later(k, l) == k \in Kernel /\ l \in Kernel /\ k.next <= l.next /\ k.stale \subseteq l.stale

LEMMA KernelChanges ==
  ASSUME NEW cs, NEW frames, NEW k, NEW l, StackOK(cs, k, frames), Later(k, l)
  PROVE  StackOK(cs, l, frames)
  BY FramesMove DEF StackOK, Later

LEMMA InvokeCheckpointKeeps ==
  ASSUME Scoped, Inv, InvokeCheckpoint
  PROVE  Inv'
  <1>1. Running /\ UNCHANGED <<rw, cwd, chks>> BY DEF InvokeCheckpoint
  <1>2. /\ PointsOK(chks) /\ chks \in Seq(Point) /\ KernelOK(kernel) /\ kernel \in Kernel /\ RWOK(rw) /\ rw \in RW
        /\ StackOK(chks, kernel, stack) /\ stack \in Seq(Frame) /\ CallsLive(chks, stack, kernel)
        /\ raised = NoException /\ stack # <<>> /\ Head(stack).k \notin {"restoring", "shell"}
        /\ StateOK(chks, rw, stack) /\ StateLive(chks, rw, kernel) /\ cwd \in Dir \cup {Orig}
    BY <1>1, WhileRunning
  <1>3. PICK c \in Visible :
          /\ chks[c].calls = Calls
          /\ \/ /\ kernel' = RestoreEnvs(chks[c].chk)
                /\ Push([k |-> "restoring", rw |-> chks[c].rw, chk |-> chks[c].chk, todo |-> "terms"])
                /\ UNCHANGED raised
             \/ raised' = Raise("error") /\ UNCHANGED <<kernel, stack>>
    BY DEF InvokeCheckpoint
  <1>4. /\ c \in DOMAIN chks /\ Continues(chks[c].chk, kernel)
        /\ Len(chks[c].rw.env) <= Len(rw.env)
    <2>1. PICK i \in DOMAIN rw.env : c \in rw.env[i].chks BY <1>3 DEF Visible
    <2>2. i \in 1..Len(rw.env) /\ Len(rw.env) \in Nat BY <1>2, <2>1, StateTypes, LenProperties
    <2>3. EnvOK(chks, rw.env, rw.cry) /\ EnvLive(chks, rw.env, rw.cry, kernel)
      BY <1>2 DEF StateOK, StateLive
    <2>4. c \in DOMAIN chks /\ Continues(chks[c].chk, kernel) BY <2>1, <2>2, <2>3 DEF EnvLive
    <2>5. Len(chks[c].rw.env) = Len(rw.env) - i + 1 BY <2>1, <2>2, <2>3 DEF EnvOK
    <2> QED BY <2>2, <2>4, <2>5
  <1>5. /\ chks[c].rw \in RW /\ chks[c].chk \in Kernel /\ c \in 1..Len(chks)
    BY <1>2, <1>4, PointTypes
  <1>6. Calls = CallsOf(stack) BY DEF Calls, CallsOf, Is, Top
  <1>7. PointOK(chks, chks[c], CallsOf(stack)) BY <1>2, <1>3, <1>5, <1>6 DEF PointsOK
  <1>8. CASE raised' = Raise("error") /\ UNCHANGED <<kernel, stack>>
    <2>1. raised' \in Exception /\ raised' # NoException BY <1>8, ExceptionTypes
    <2>2. Consistent(chks, kernel, rw, stack, raised') BY <1>2, <2>1, RaiseKeeps
    <2> QED BY <1>1, <1>2, <1>8, <2>2 DEF Inv
  <1>9. CASE /\ kernel' = RestoreEnvs(chks[c].chk)
             /\ Push([k |-> "restoring", rw |-> chks[c].rw, chk |-> chks[c].chk, todo |-> "terms"])
             /\ UNCHANGED raised
    <2> DEFINE f == [k |-> "restoring", rw |-> chks[c].rw, chk |-> chks[c].chk, todo |-> "terms"]
    <2>1. /\ f \in Frame /\ f.k = "restoring" /\ f.rw = chks[c].rw /\ f.chk = chks[c].chk /\ f.todo = "terms"
      BY <1>5 DEF Frame
    <2>2. stack' = <<f>> \o stack BY <1>9 DEF Push
    <2> HIDE DEF f
    <2>3. kernel' = [kernel EXCEPT !.globals = f.chk.globals] BY <1>9, <2>1 DEF RestoreEnvs
    <2>4. PointOK(chks, f, CallsOf(stack)) BY <1>7, <2>1, PointFields
    <2>5. KernelOK(f.chk) /\ Continues(f.chk, kernel) BY <1>4, <2>1, <2>4 DEF PointOK
    <2>6. /\ KernelOK(kernel') /\ Continues(f.chk, kernel') /\ kernel'.globals = f.chk.globals
          /\ kernel'.stale = kernel.stale /\ kernel'.next = kernel.next
      BY <1>2, <2>3, <2>5, EnvsRestored
    <2>7. kernel' \in Kernel /\ kernel.next <= kernel'.next
      BY <1>2, <2>6, KernelTypes DEF KernelOK
    <2>8. StackOK(chks, kernel', stack)
      <3>1. Later(kernel, kernel') BY <1>2, <2>6, <2>7 DEF Later
      <3> QED BY <1>2, <3>1, KernelChanges
    <2>9. CallsLive(chks, stack, kernel') BY <1>2, <2>6, <2>7, TermsKept
    <2>10. FrameOK(chks, kernel', f, stack) /\ FrameLive(chks, f, kernel')
      BY <2>1 DEF FrameOK, FrameLive, Catches
    <2>11. Restoring(chks, kernel', rw, f, stack)
      BY <1>4, <2>1, <2>4, <2>6 DEF Restoring
    <2>12. Consistent(chks, kernel', rw, stack', NoException)
      BY <1>2, <2>1, <2>2, <2>6, <2>8, <2>9, <2>10, <2>11, CallKeeps
    <2> QED BY <1>1, <1>2, <1>9, <2>12 DEF Inv
  <1> QED BY <1>3, <1>8, <1>9

(* What a restore in progress knows.                                       *)
LEMMA WhileRestoring ==
  ASSUME Inv, raised = NoException, stack # <<>>, NEW f, f = Head(stack), f.k = "restoring",
         NEW rest, rest = Tail(stack)
  PROVE  /\ Restoring(chks, kernel, rw, f, rest)
         /\ CallsLive(chks, CallsOf(rest), kernel)
         /\ CallsOf(rest) \in Seq(Frame)
  <1>1. Restoring(chks, kernel, rw, f, rest) BY DEF Inv, Consistent, Going
  <1>2. CallsLive(chks, CallsOf(rest), kernel) BY WhoWaits DEF Inv, Consistent
  <1>3. rest \in Seq(Frame) BY Returning
  <1> QED BY <1>1, <1>2, <1>3, CallsOfCommand

LEMMA InvalidateTermsKeeps ==
  ASSUME Inv, InvalidateTerms
  PROVE  Inv'
  <1>1. PICK f, rest : /\ f = Head(stack) /\ rest = Tail(stack) /\ f.k = "restoring" /\ f.todo = "terms"
                       /\ raised = NoException /\ stack # <<>>
                       /\ kernel' = RestoreTerms(kernel, f.chk)
                       /\ stack' = [stack EXCEPT ![1].todo = "rw"]
                       /\ UNCHANGED <<rw, cwd, raised, chks>>
    BY DEF InvalidateTerms, Is, Top
  <1>2. /\ PointsOK(chks) /\ chks \in Seq(Point) /\ KernelOK(kernel) /\ kernel \in Kernel
        /\ RWOK(rw) /\ cwd \in Dir \cup {Orig} /\ stack \in Seq(Frame)
        /\ f \in Frame /\ rest \in Seq(Frame) /\ stack = <<f>> \o rest
        /\ StackOK(chks, kernel, rest)
        /\ rest # <<>> => Head(rest).k # "restoring"
    BY <1>1, Returning
  <1>3. Restoring(chks, kernel, rw, f, rest) /\ CallsOf(rest) \in Seq(Frame) BY <1>1, WhileRestoring
  <1> DEFINE g == [f EXCEPT !.todo = "rw"]
  <1>4. /\ g \in Frame /\ g.k = "restoring" /\ g.rw = f.rw /\ g.chk = f.chk /\ g.todo = "rw"
    BY <1>1, <1>2 DEF Frame
  <1>5. stack' = <<g>> \o rest
    <2> DEFINE s == [stack EXCEPT ![1] = g]
    <2>1. /\ Len(stack) = Len(rest) + 1 /\ Len(rest) \in Nat /\ stack[1] = f
          /\ \A i \in 2..(Len(rest) + 1) : stack[i] = rest[i - 1]
      BY <1>2, ConsElements
    <2>2. stack' = s BY <1>1, <2>1
    <2> HIDE DEF g
    <2>3. 1 \in 1..Len(stack) BY <2>1
    <2>4. /\ s \in Seq(Frame) /\ Len(s) = Len(stack)
          /\ \A i \in 1..Len(stack) : s[i] = IF i = 1 THEN g ELSE stack[i]
      <3>1. stack \in Seq(Frame) /\ g \in Frame BY <1>2, <1>4
      <3> QED BY <2>3, <3>1, ExceptSeq
    <2> DEFINE t == <<g>> \o rest
    <2>5. /\ t \in Seq(Frame) /\ Len(t) = Len(rest) + 1 /\ t[1] = g
          /\ \A i \in 2..(Len(rest) + 1) : t[i] = rest[i - 1]
      BY <1>2, <1>4, ConsElements
    <2> HIDE DEF s, t
    <2>6. ASSUME NEW i \in 1..Len(s) PROVE s[i] = t[i]
      <3>1. CASE i = 1 BY <2>1, <2>4, <2>5, <3>1
      <3>2. CASE i # 1
        <4>1. i \in 2..(Len(rest) + 1) /\ i \in 1..Len(stack) BY <2>1, <2>4, <3>2
        <4> QED BY <2>1, <2>4, <2>5, <3>2, <4>1
      <3> QED BY <3>1, <3>2
    <2>7. s = t BY <2>1, <2>4, <2>5, <2>6, SeqEqual
    <2> QED BY <2>2, <2>7 DEF t
  <1> HIDE DEF g
  <1>6. /\ PointOK(chks, f, CallsOf(rest)) /\ KernelOK(f.chk) /\ Continues(f.chk, kernel)
        /\ kernel.globals = f.chk.globals /\ Len(f.rw.env) <= Len(rw.env)
    BY <1>1, <1>3 DEF Restoring, PointOK
  <1>7. /\ KernelOK(kernel') /\ Continues(f.chk, kernel') /\ kernel.stale \subseteq kernel'.stale
        /\ kernel'.next = kernel.next
    BY <1>1, <1>2, <1>6, TermsRestored
  <1>8. kernel' \in Kernel /\ kernel.next <= kernel'.next BY <1>2, <1>7, KernelTypes DEF KernelOK
  <1>9. CallsLive(chks, CallsOf(rest), kernel') BY <1>2, <1>3, <1>6, <1>7, <1>8, PointMoves
  <1>10. PointOK(chks, g, CallsOf(rest)) BY <1>4, <1>6, PointFields
  <1>11. Restoring(chks, kernel', rw, g, rest) BY <1>4, <1>6, <1>7, <1>10 DEF Restoring
  <1>12. StackOK(chks, kernel', rest)
    <2>1. Later(kernel, kernel') BY <1>2, <1>7, <1>8 DEF Later
    <2> QED BY <1>2, <2>1, KernelChanges
  <1>13. /\ stack' \in Seq(Frame) /\ Head(stack') = g /\ Tail(stack') = rest /\ stack' # <<>>
    BY <1>2, <1>4, <1>5, ConsElements
  <1>14. StackOK(chks, kernel', stack')
    <2>1. FrameOK(chks, kernel', g, rest) BY <1>4 DEF FrameOK, Catches
    <2>2. FramesOK(chks, kernel', stack') BY <1>2, <1>4, <1>5, <1>12, <2>1, FramesCons DEF StackOK
    <2>3. NoRestoring(rest) BY <1>1, <1>2, ConsistentParts, Innermost DEF Inv
    <2> QED BY <1>13, <2>2, <2>3 DEF StackOK
  <1>15. CallsLive(chks, Waiting(stack', NoException), kernel') BY <1>4, <1>9, <1>13, WhoWaits
  <1>16. Consistent(chks, kernel', rw, stack', NoException)
    BY <1>2, <1>4, <1>7, <1>11, <1>13, <1>14, <1>15, ExceptionTypes DEF Consistent, Going
  <1> QED BY <1>1, <1>2, <1>16 DEF Inv

(* The name supply of the current Cryptol environment has a scope for each *)
(* of the checkpoint's, so that none is lost.                              *)
LEMMA MergedWhole ==
  ASSUME NEW st \in RW, NEW now \in RW, Mirrored(st.env, st.cry), Mirrored(now.env, now.cry),
         Len(st.env) <= Len(now.env)
  PROVE  MergeCryptol(st, now) = st
  <1>1. /\ st.cry \in Seq(SUBSET Term) /\ Len(st.cry) = Len(st.env) /\ Len(now.cry) = Len(now.env)
        /\ Len(st.cry) \in Nat /\ Len(now.cry) \in Nat
    BY StateTypes, LenProperties DEF Mirrored
  <1>2. SubSeq(st.cry, 1, Len(st.cry)) = st.cry BY <1>1, SubSeqFull
  <1>3. (IF Len(st.cry) < Len(now.cry) THEN Len(st.cry) ELSE Len(now.cry)) = Len(st.cry) BY <1>1
  <1> QED BY <1>2, <1>3 DEF MergeCryptol, RW

LEMMA PutTopLevelRWKeeps ==
  ASSUME Inv, PutTopLevelRW
  PROVE  Inv'
  <1>1. PICK f, rest : /\ f = Head(stack) /\ rest = Tail(stack) /\ f.k = "restoring"
                       /\ raised = NoException /\ stack # <<>>
                       /\ rw' = MergeCryptol(f.rw, rw) /\ stack' = rest
                       /\ UNCHANGED <<kernel, cwd, raised, chks>>
    BY DEF PutTopLevelRW, Is, Top, Pop
  <1>2. /\ PointsOK(chks) /\ chks \in Seq(Point) /\ KernelOK(kernel) /\ kernel \in Kernel
        /\ RWOK(rw) /\ cwd \in Dir \cup {Orig}
        /\ f \in Frame /\ rest \in Seq(Frame)
        /\ StackOK(chks, kernel, rest)
        /\ rest # <<>> => Head(rest).k # "restoring"
    BY <1>1, Returning
  <1>3. /\ Restoring(chks, kernel, rw, f, rest) /\ CallsLive(chks, CallsOf(rest), kernel)
        /\ CallsOf(rest) \in Seq(Frame)
    BY <1>1, WhileRestoring
  <1>4. /\ PointOK(chks, f, CallsOf(rest)) /\ Continues(f.chk, kernel) /\ Len(f.rw.env) <= Len(rw.env)
    BY <1>3 DEF Restoring
  <1>5. StateOK(chks, f.rw, CallsOf(rest)) BY <1>4 DEF PointOK
  <1>6. StateOK(chks, f.rw, rest) BY <1>2, <1>5, CallsOfCommand
  <1>7. StateLive(chks, f.rw, kernel) BY <1>2, <1>3, <1>4, PointMoves
  <1>8. RWOK(f.rw) /\ f.rw \in RW BY <1>2, <1>6, StateEnv
  <1>9. rw' = f.rw BY <1>1, <1>2, <1>4, <1>8, MergedWhole DEF RWOK
  <1>10. StateOK(chks, rw', rest) /\ StateLive(chks, rw', kernel) /\ RWOK(rw') BY <1>6, <1>7, <1>8, <1>9
  <1>11. CallsLive(chks, CallsOf(rest), kernel) BY <1>3
  <1>12. Consistent(chks, kernel, rw', rest, NoException) BY <1>2, <1>10, <1>11, ReturnKeeps
  <1> QED BY <1>1, <1>2, <1>12 DEF Inv

-----------------------------------------------------------------------------
(* Handlers.                                                               *)
LEMMA Handling ==
  ASSUME Inv, Raised, NEW f, f = Head(stack), Catches(f), NEW rest, rest = Tail(stack)
  PROVE  /\ NotStale(f.chk)
         /\ PointOK(chks, f, rest) /\ Continues(f.chk, kernel) /\ KernelOK(f.chk)
         /\ StateOK(chks, f.rw, rest) /\ RWOK(f.rw) /\ f.rw \in RW
  <1>1. raised # NoException /\ stack # <<>> BY DEF Raised
  <1>2. FrameOK(chks, kernel, f, rest) /\ FrameLive(chks, f, kernel) /\ rest \in Seq(Frame) BY <1>1, Returning
  <1>3. PointOK(chks, f, rest) /\ Continues(f.chk, kernel) /\ f.chk.next \notin kernel.stale
    BY <1>2 DEF FrameOK, FrameLive
  <1>4. StateOK(chks, f.rw, rest) /\ KernelOK(f.chk) BY <1>3 DEF PointOK
  <1>5. RWOK(f.rw) /\ f.rw \in RW BY <1>2, <1>4, StateEnv
  <1> QED BY <1>3, <1>4, <1>5 DEF NotStale

LEMMA TimeoutHandleKeeps ==
  ASSUME Inv, TimeoutHandle
  PROVE  Inv'
  <1>1. PICK f, rest : /\ f = Head(stack) /\ rest = Tail(stack) /\ f.k = "timeout"
                       /\ raised # NoException /\ stack # <<>> /\ Raised /\ rw' = f.rw
                       /\ UNCHANGED <<cwd, chks>>
                       /\ NotStale(f.chk) =>
                            /\ kernel' = RestoreEnvs(f.chk)
                            /\ stack' = <<[k |-> "restoring", rw |-> f.rw, chk |-> f.chk, todo |-> "terms"]>> \o rest
                            /\ raised' = NoException
    BY DEF TimeoutHandle, Raised, Top
  <1>2. /\ PointsOK(chks) /\ chks \in Seq(Point) /\ KernelOK(kernel) /\ kernel \in Kernel
        /\ cwd \in Dir \cup {Orig}
        /\ f \in Frame /\ rest \in Seq(Frame)
        /\ StackOK(chks, kernel, rest)
        /\ rest # <<>> => Head(rest).k # "restoring"
        /\ CallsLive(chks, rest, kernel)
    BY <1>1, Returning
  <1>3. /\ NotStale(f.chk)
        /\ PointOK(chks, f, rest) /\ Continues(f.chk, kernel) /\ KernelOK(f.chk)
        /\ StateOK(chks, f.rw, rest) /\ RWOK(f.rw) /\ f.rw \in RW
    BY <1>1, Handling DEF Catches
  <1> DEFINE g == [k |-> "restoring", rw |-> f.rw, chk |-> f.chk, todo |-> "terms"]
  <1>4. /\ g \in Frame /\ g.k = "restoring" /\ g.rw = f.rw /\ g.chk = f.chk
    BY <1>1, <1>2, FrameTypes DEF Frame, Catches
  <1>5. stack' = <<g>> \o rest /\ kernel' = [kernel EXCEPT !.globals = g.chk.globals] /\ raised' = NoException
    BY <1>1, <1>3 DEF RestoreEnvs
  <1> HIDE DEF g
  <1>6. PointOK(chks, g, CallsOf(rest))
    <2>1. PointOK(chks, g, rest) BY <1>3, <1>4, PointFields
    <2> QED BY <1>2, <2>1, CallsOfCommand
  <1>7. /\ KernelOK(kernel') /\ Continues(g.chk, kernel') /\ kernel'.globals = g.chk.globals
        /\ kernel'.stale = kernel.stale /\ kernel'.next = kernel.next
    BY <1>2, <1>3, <1>4, <1>5, EnvsRestored
  <1>8. kernel' \in Kernel /\ kernel.next <= kernel'.next BY <1>2, <1>7, KernelTypes DEF KernelOK
  <1>9. StackOK(chks, kernel', rest)
    <2>1. Later(kernel, kernel') BY <1>2, <1>7, <1>8 DEF Later
    <2> QED BY <1>2, <2>1, KernelChanges
  <1>10. CallsLive(chks, rest, kernel') BY <1>2, <1>7, <1>8, TermsKept
  <1>11. FrameOK(chks, kernel', g, rest) /\ FrameLive(chks, g, kernel')
    BY <1>4 DEF FrameOK, FrameLive, Catches
  <1>12. Restoring(chks, kernel', rw', g, rest)
    <2>1. Len(f.rw.env) <= Len(rw'.env) BY <1>1, <1>3, StateTypes, LenProperties
    <2> QED BY <1>4, <1>6, <1>7, <2>1 DEF Restoring
  <1>13. RWOK(rw') BY <1>1, <1>3
  <1>14. Consistent(chks, kernel', rw', stack', NoException)
    <2>1. stack' = <<g>> \o rest /\ g \in Frame /\ g.k = "restoring" /\ KernelOK(kernel') BY <1>4, <1>5, <1>7
    <2> QED BY <1>2, <1>9, <1>10, <1>11, <1>12, <1>13, <2>1, CallKeeps
  <1> QED BY <1>1, <1>2, <1>5, <1>14 DEF Inv

(* exceptionProtect puts everything back.                                  *)
LEMMA CommandUndone ==
  ASSUME Inv, ExceptionProtect, NEW f, f = Head(stack)
  PROVE  /\ raised' = NoException
         /\ rw' = f.rw
         /\ kernel' = RestoreTerms(RestoreEnvs(f.chk), f.chk)
  <1>1. Raised /\ Catches(f) /\ CaptureError(f) BY DEF ExceptionProtect, Top, Catches
  <1>2. NotStale(f.chk) /\ RWOK(f.rw) /\ f.rw \in RW BY <1>1, Handling
  <1>3. MergeCryptol(f.rw, f.rw) = f.rw
    <2>1. Len(f.rw.env) <= Len(f.rw.env) BY <1>2, StateTypes, LenProperties
    <2> QED BY <1>2, <2>1, MergedWhole DEF RWOK
  <1> QED BY <1>1, <1>2, <1>3 DEF CaptureError

LEMMA KernelUndone ==
  ASSUME NEW chk, KernelOK(chk), KernelOK(kernel), Continues(chk, kernel),
         NEW l, l = RestoreTerms(RestoreEnvs(chk), chk)
  PROVE  /\ KernelOK(l) /\ l \in Kernel /\ Continues(chk, l) /\ kernel.stale \subseteq l.stale /\ kernel.next <= l.next
         /\ l.globals = chk.globals
         /\ l.stale = chk.stale \cup (chk.next..(kernel.next - 1))
  <1> DEFINE m == RestoreEnvs(chk)
  <1>1. m = [kernel EXCEPT !.globals = chk.globals] BY DEF RestoreEnvs
  <1> HIDE DEF m
  <1>2. /\ KernelOK(m) /\ Continues(chk, m) /\ m.globals = chk.globals
        /\ m.stale = kernel.stale /\ m.next = kernel.next
    BY <1>1, EnvsRestored
  <1>3. l = RestoreTerms(m, chk) BY DEF m
  <1>4. /\ KernelOK(l) /\ Continues(chk, l) /\ m.stale \subseteq l.stale /\ l.next = m.next
        /\ l.globals = chk.globals /\ l.stale = chk.stale \cup (chk.next..(m.next - 1))
    BY <1>2, <1>3, TermsRestored
  <1>5. kernel.next \in Nat BY KernelTypes DEF KernelOK
  <1> QED BY <1>2, <1>4, <1>5 DEF KernelOK

LEMMA ExceptionProtectKeeps ==
  ASSUME Inv, ExceptionProtect
  PROVE  Inv'
  <1>1. PICK f, rest : /\ f = Head(stack) /\ rest = Tail(stack) /\ f.k = "command"
                       /\ stack # <<>> /\ raised # NoException /\ Raised
                       /\ stack' = rest /\ UNCHANGED <<cwd, chks>>
    BY DEF ExceptionProtect, Raised, Top, Pop
  <1>2. /\ PointsOK(chks) /\ chks \in Seq(Point) /\ KernelOK(kernel) /\ kernel \in Kernel
        /\ cwd \in Dir \cup {Orig} /\ rest \in Seq(Frame)
        /\ StackOK(chks, kernel, rest)
        /\ rest # <<>> => Head(rest).k # "restoring"
    BY <1>1, Returning
  <1>3. /\ PointOK(chks, f, rest) /\ Continues(f.chk, kernel) /\ KernelOK(f.chk)
        /\ StateOK(chks, f.rw, rest) /\ RWOK(f.rw)
    BY <1>1, Handling DEF Catches
  <1>4. raised' = NoException /\ rw' = f.rw /\ kernel' = RestoreTerms(RestoreEnvs(f.chk), f.chk)
    BY <1>1, CommandUndone
  <1>5. /\ KernelOK(kernel') /\ kernel' \in Kernel /\ Continues(f.chk, kernel')
        /\ kernel.stale \subseteq kernel'.stale /\ kernel.next <= kernel'.next
    BY <1>2, <1>3, <1>4, KernelUndone
  <1>6. StateLive(chks, f.rw, kernel') /\ CallsLive(chks, rest, kernel') BY <1>2, <1>3, <1>5, PointMoves
  <1>7. StackOK(chks, kernel', rest)
    <2>1. Later(kernel, kernel') BY <1>2, <1>5 DEF Later
    <2> QED BY <1>2, <2>1, KernelChanges
  <1>8. CallsLive(chks, CallsOf(rest), kernel') BY <1>2, <1>6, CallsOfCommand
  <1>9. Consistent(chks, kernel', rw', rest, NoException)
    <2>1. StateOK(chks, rw', rest) /\ StateLive(chks, rw', kernel') /\ RWOK(rw') BY <1>3, <1>4, <1>6
    <2>2. KernelOK(kernel') BY <1>5
    <2> QED BY <1>2, <1>7, <1>8, <2>1, <2>2, ReturnKeeps
  <1> QED BY <1>1, <1>2, <1>4, <1>9 DEF Inv

-----------------------------------------------------------------------------
LEMMA EmptyStack ==
  /\ <<>> \in Seq(Frame) /\ Cardinality(Includes(<<>>)) = 0
  /\ \A cs, k : StackOK(cs, k, <<>>) /\ CallsLive(cs, <<>>, k)
  <1> DEFINE s == <<>>
  <1>1. s \in Seq(Frame) /\ Len(s) = 0 /\ s = <<>> BY EmptySeq
  <1> HIDE DEF s
  <1>2. Includes(s) = {} BY <1>1 DEF Includes
  <1>3. Cardinality(Includes(s)) = 0 BY <1>2, FS_EmptySet
  <1>4. \A cs, k : StackOK(cs, k, s) /\ CallsLive(cs, s, k)
    BY <1>1 DEF StackOK, FramesOK, CallsLive
  <1> QED BY <1>1, <1>3, <1>4

LEMMA InitInv == Init => Inv
  <1> SUFFICES ASSUME Init PROVE Inv OBVIOUS
  <1>1. PICK f : f \in {[k |-> "shell"], [k |-> "file", cwd |-> Orig]} /\ stack = <<f>> BY DEF Init
  <1>2. f \in Frame /\ f.k \in {"shell", "file"} BY <1>1 DEF Frame
  <1>3. stack = <<f>> \o <<>>
    BY <1>1, <1>2, ConcatEmptySeq
  <1>4. /\ stack \in Seq(Frame) /\ stack # <<>> /\ Head(stack) = f /\ Tail(stack) = <<>>
    BY <1>2, <1>3, EmptyStack, ConsElements
  <1>5. /\ PointsOK(chks) /\ chks = <<>> /\ Len(chks) = 0
    <2>1. chks = <<>> /\ chks \in Seq(Point) /\ Len(chks) = 0 BY EmptySeq DEF Init
    <2> QED BY <2>1 DEF PointsOK
  <1>6. KernelOK(kernel) /\ kernel.next = 0 /\ kernel.stale = {}
    BY TopLevelAssumption DEF Init, KernelOK, Kernel, Live
  <1>7. /\ rw \in RW /\ Len(rw.env) = 1 /\ Len(rw.cry) = 1 /\ Len(rw.dirs) = 0 /\ rw.theorems = {}
        /\ rw.env[1] = [terms |-> {}, chks |-> {}] /\ rw.cry[1] = {}
    <2>1. [terms |-> {}, chks |-> {}] \in Scope BY DEF Scope
    <2>2. <<[terms |-> {}, chks |-> {}]>> \in Seq(Scope) /\ <<{}>> \in Seq(SUBSET Term) /\ <<>> \in Seq(Dir)
      BY <2>1
    <2> QED BY <2>2 DEF Init, RW
  <1>8. EnvOK(chks, rw.env, rw.cry) /\ RWOK(rw)
    <2>1. \A i \in 1..Len(rw.env) : i = 1 /\ rw.env[i].terms = {} /\ rw.env[i].chks = {} /\ rw.cry[i] = {} BY <1>7
    <2>2. Mirrored(rw.env, rw.cry) BY <1>7, <2>1 DEF Mirrored
    <2> QED BY <1>7, <2>1, <2>2, StateTypes DEF EnvOK, RWOK
  <1>9. StateOK(chks, rw, stack)
    <2>1. Cardinality(Includes(stack)) = 0 /\ Cardinality(InnerShells(stack)) = 0
      BY <1>2, <1>3, CountPush, EmptyStack
    <2> QED BY <1>7, <1>8, <2>1 DEF StateOK, Room
  <1>10. StateLive(chks, rw, kernel)
    <2>1. \A i \in 1..Len(rw.env) : i = 1 /\ rw.env[i].chks = {} BY <1>7
    <2> QED BY <1>7, <2>1 DEF StateLive, EnvLive
  <1>11. FrameOK(chks, kernel, f, <<>>) /\ FrameLive(chks, f, kernel)
    BY <1>2 DEF FrameOK, FrameLive, Catches
  <1>12. raised = NoException BY DEF Init
  <1>13. Consistent(chks, kernel, rw, stack, raised)
    <2> DEFINE rest == <<>>
    <2>1. /\ StackOK(chks, kernel, rest) /\ CallsLive(chks, rest, kernel) /\ rest = <<>>
          /\ stack = <<f>> \o rest /\ FrameOK(chks, kernel, f, rest)
      BY <1>3, <1>11, EmptyStack
    <2> HIDE DEF rest
    <2>2. f.k # "restoring" /\ FrameLive(chks, f, kernel) BY <1>2, <1>11
    <2> QED BY <1>2, <1>5, <1>6, <1>8, <1>9, <1>10, <1>12, <2>1, <2>2, CallKeeps
  <1> QED BY <1>13 DEF Inv, Init

(* Scripts that keep to the scopes of their checkpoints.                   *)
LEMMA NextInv == Scoped /\ Inv /\ [Next]_vars => Inv'
  <1> SUFFICES ASSUME Scoped, Inv, [Next]_vars PROVE Inv' OBVIOUS
  <1>1. CASE ExtendEnv BY <1>1, ExtendEnvKeeps
  <1>2. CASE ParseDecls BY <1>2, ParseDeclsKeeps
  <1>3. CASE Prove BY <1>3, ProveKeeps
  <1>4. CASE Checkpoint BY <1>4, CheckpointKeeps
  <1>5. CASE EnterBlock BY <1>5, EnterBlockKeeps
  <1>6. CASE LeaveBlock BY <1>6, LeaveBlockKeeps
  <1>7. CASE \E d \in Dir : Include(d) BY <1>7, IncludeKeeps
  <1>8. CASE EndInclude BY <1>8, EndIncludeKeeps
  <1>9. CASE Fail BY <1>9, FailKeeps
  <1>10. CASE EnterFails BY <1>10, EnterFailsKeeps
  <1>11. CASE EndFails BY <1>11, EndFailsKeeps
  <1>12. CASE EnterTimeout BY <1>12, EnterTimeoutKeeps
  <1>13. CASE EndTimeout BY <1>13, EndTimeoutKeeps
  <1>14. CASE Alarm BY <1>14, AlarmKeeps
  <1>15. CASE InvokeCheckpoint BY <1>15, InvokeCheckpointKeeps
  <1>16. CASE InvalidateTerms BY <1>16, InvalidateTermsKeeps
  <1>17. CASE PutTopLevelRW BY <1>17, PutTopLevelRWKeeps
  <1>18. CASE StartCommand BY <1>18, StartCommandKeeps
  <1>19. CASE EndCommand BY <1>19, EndCommandKeeps
  <1>20. CASE Subshell BY <1>20, SubshellKeeps
  <1>21. CASE EndShell BY <1>21, EndShellKeeps
  <1>22. CASE EndFile BY <1>22, EndFileKeeps
  <1>23. CASE Unwind \/ UnwindFile BY <1>23, UnwindKeeps
  <1>24. CASE FailsCatches BY <1>24, FailsCatchesKeeps
  <1>25. CASE TimeoutHandle BY <1>25, TimeoutHandleKeeps
  <1>26. CASE ExceptionProtect BY <1>26, ExceptionProtectKeeps
  <1>27. CASE UNCHANGED vars BY <1>27 DEF vars, Inv
  <1> QED
    BY <1>1, <1>2, <1>3, <1>4, <1>5, <1>6, <1>7, <1>8, <1>9, <1>10, <1>11, <1>12, <1>13, <1>14,
       <1>15, <1>16, <1>17, <1>18, <1>19, <1>20, <1>21, <1>22, <1>23, <1>24, <1>25, <1>26, <1>27
    DEF Next

LEMMA Invariance == ASSUME Scoped PROVE Spec => []Inv
  <1>1. Scoped OBVIOUS
  <1>2. Inv /\ [Next]_vars => Inv' BY <1>1, NextInv
  <1> QED BY <1>2, InitInv, PTL DEF Spec

-----------------------------------------------------------------------------
(* What the invariant gives.                                               *)

(* What is visible in any scope is visible in the innermost.               *)
LEMMA AllLive ==
  ASSUME NEW cs, NEW st, NEW rest \in Seq(Frame), NEW k, StateOK(cs, st, rest), StateLive(cs, st, k)
  PROVE  Held(st) \cap k.stale = {}
  <1>1. /\ EnvOK(cs, st.env, st.cry) /\ st \in RW /\ Len(st.env) \in Nat /\ Len(st.env) > 0
    BY StateEnv
  <1>2. /\ Len(st.cry) = Len(st.env) /\ 1 \in 1..Len(st.env)
        /\ \A i, j \in 1..Len(st.env) : i <= j => st.env[j].terms \cup st.cry[j] \subseteq st.cry[i]
    BY <1>1 DEF EnvOK, Mirrored
  <1>3. st.cry[1] \subseteq Live(k) /\ st.theorems \subseteq Live(k) BY DEF StateLive, EnvLive
  <1>4. DOMAIN st.env = 1..Len(st.env) /\ DOMAIN st.cry = 1..Len(st.env)
    BY <1>1, <1>2, StateTypes, LenProperties
  <1>5. ASSUME NEW i \in 1..Len(st.env) PROVE st.env[i].terms \cup st.cry[i] \subseteq Live(k)
    <2>1. 1 <= i OBVIOUS
    <2>2. st.env[i].terms \cup st.cry[i] \subseteq st.cry[1] BY <1>2, <2>1
    <2> QED BY <1>3, <2>2
  <1>6. ASSUME NEW t \in Held(st) PROVE t \in Live(k)
    <2>1. CASE t \in st.theorems BY <2>1, <1>3
    <2>2. CASE t \in UNION {st.env[i].terms : i \in DOMAIN st.env}
      <3>1. PICK i \in 1..Len(st.env) : t \in st.env[i].terms BY <2>2, <1>4
      <3> QED BY <3>1, <1>5
    <2>3. CASE t \in UNION {st.cry[i] : i \in DOMAIN st.cry}
      <3>1. PICK i \in 1..Len(st.env) : t \in st.cry[i] BY <2>3, <1>4
      <3> QED BY <3>1, <1>5
    <2> QED BY <1>6, <2>1, <2>2, <2>3 DEF Held
  <1> QED BY <1>6 DEF Live

LEMMA InvEnvironmentLive == Inv => EnvironmentLive
  <1> SUFFICES ASSUME Inv PROVE EnvironmentLive OBVIOUS
  <1>1. stack \in Seq(Frame) /\ KernelOK(kernel) BY ConsistentParts DEF Inv
  <1>2. ASSUME raised = NoException, stack # <<>>, Top.k # "restoring"
        PROVE  Held(rw) \cap kernel.stale = {}
    <2>1. StateOK(chks, rw, stack) /\ StateLive(chks, rw, kernel)
      BY <1>2 DEF Inv, Consistent, Going, Top
    <2> QED BY <1>1, <2>1, AllLive
  <1>3. kernel.globals \cap kernel.stale = {} BY <1>1 DEF KernelOK, Live
  <1> QED BY <1>2, <1>3 DEF EnvironmentLive

LEMMA InvMirrorAgrees == Inv => MirrorAgrees
  <1> SUFFICES ASSUME Inv PROVE MirrorAgrees OBVIOUS
  <1>1. rw \in RW /\ Mirrored(rw.env, rw.cry) BY ConsistentParts DEF Inv, RWOK
  <1>2. DOMAIN rw.env = 1..Len(rw.env) BY <1>1, StateTypes, LenProperties
  <1> QED BY <1>1, <1>2 DEF Mirrored, MirrorAgrees

LEMMA InvIncludesBalanced == Inv => IncludesBalanced
  <1> SUFFICES ASSUME Inv, raised = NoException, stack # <<>>, Top.k # "restoring"
               PROVE  Len(rw.dirs) = Cardinality({i \in DOMAIN stack : stack[i].k = "include"})
    BY DEF IncludesBalanced
  <1>1. StateOK(chks, rw, stack) BY DEF Inv, Consistent, Going, Top
  <1>2. stack \in Seq(Frame) BY ConsistentParts DEF Inv
  <1>3. {i \in DOMAIN stack : stack[i].k = "include"} = Includes(stack) BY <1>2, LenProperties DEF Includes
  <1> QED BY <1>1, <1>3 DEF StateOK

LEMMA InvTypeOK == Inv => TypeOK
  <1> SUFFICES ASSUME Inv PROVE TypeOK OBVIOUS
  <1>1. /\ chks \in Seq(Point) /\ kernel \in Kernel /\ rw \in RW /\ stack \in Seq(Frame)
        /\ raised \in Exception /\ cwd \in Dir \cup {Orig}
    BY ConsistentParts DEF Inv
  <1>2. \A c \in DOMAIN chks : chks[c].rw \in RW /\ chks[c].chk \in Kernel /\ chks[c].calls \in Seq(Frame)
    BY <1>1, PointTypes
  <1> QED BY <1>1, <1>2 DEF TypeOK

(* A command that failed is undone by the handler, the only step there is. *)
Undone(f) ==
  /\ raised' = NoException
  /\ rw' = f.rw
  /\ kernel'.globals = f.chk.globals
  /\ kernel'.stale = f.chk.stale \cup (f.chk.next..(kernel.next - 1))

LEMMA FailureStep ==
  ASSUME Inv, Next, NEW f, f = Head(stack), f.k = "command", raised.k \in {"error", "timeout"}, stack # <<>>
  PROVE  Undone(f)
  <1>1. raised # NoException /\ raised.k # "exit" BY DEF NoException
  <1>2. ExceptionProtect
    <2>1. ~ Running /\ ~ AtPrompt BY <1>1 DEF Running, AtPrompt
    <2>2. /\ ~ ExtendEnv /\ ~ ParseDecls /\ ~ Prove /\ ~ Checkpoint /\ ~ EnterBlock /\ ~ Fail
          /\ ~ EnterFails /\ ~ EnterTimeout /\ ~ InvokeCheckpoint /\ ~ Subshell
          /\ \A d \in Dir : ~ Include(d)
      BY <2>1 DEF ExtendEnv, ParseDecls, Prove, Checkpoint, EnterBlock, Fail, EnterFails, EnterTimeout,
                  InvokeCheckpoint, Subshell, Include
    <2>3. ~ StartCommand /\ ~ EndShell BY <2>1 DEF StartCommand, EndShell
    <2>4. /\ ~ LeaveBlock /\ ~ EndInclude /\ ~ EndFails /\ ~ EndTimeout /\ ~ Alarm /\ ~ InvalidateTerms
          /\ ~ PutTopLevelRW /\ ~ EndCommand /\ ~ EndFile
      BY <1>1 DEF LeaveBlock, EndInclude, EndFails, EndTimeout, Alarm, InvalidateTerms, PutTopLevelRW,
                  EndCommand, EndFile
    <2>5. ~ Unwind /\ ~ UnwindFile /\ ~ FailsCatches /\ ~ TimeoutHandle
      BY <1>1 DEF Unwind, UnwindFile, FailsCatches, TimeoutHandle, Top
    <2> QED BY <2>2, <2>3, <2>4, <2>5 DEF Next
  <1>3. raised' = NoException /\ rw' = f.rw /\ kernel' = RestoreTerms(RestoreEnvs(f.chk), f.chk)
    BY <1>2, CommandUndone
  <1>4. KernelOK(f.chk) /\ Continues(f.chk, kernel) /\ KernelOK(kernel)
    <2>1. Raised /\ Catches(f) BY <1>2 DEF ExceptionProtect, Catches
    <2>2. \E rest : rest = Tail(stack) OBVIOUS
    <2> QED BY <2>1, <2>2, Handling, ConsistentParts DEF Inv
  <1>5. kernel'.globals = f.chk.globals /\ kernel'.stale = f.chk.stale \cup (f.chk.next..(kernel.next - 1))
    BY <1>3, <1>4, KernelUndone
  <1> QED BY <1>3, <1>5 DEF Undone

LEMMA StepUndone ==
  ASSUME Inv, [Next]_vars
  PROVE  [\A f \in {stack[i] : i \in DOMAIN stack} :
            /\ raised.k \in {"error", "timeout"} /\ f = Head(stack) /\ f.k = "command" /\ Len(stack') < Len(stack)
            => /\ raised' = NoException
               /\ rw' = f.rw
               /\ kernel'.globals = f.chk.globals
               /\ kernel'.stale = f.chk.stale \cup (f.chk.next..(kernel.next - 1))]_vars
  <1>1. CASE UNCHANGED vars BY <1>1
  <1>2. CASE Next
    <2>1. ASSUME NEW f \in {stack[i] : i \in DOMAIN stack}, raised.k \in {"error", "timeout"},
                 f = Head(stack), f.k = "command"
          PROVE  Undone(f)
      <3>1. stack # <<>>
        <4>1. stack \in Seq(Frame) BY ConsistentParts DEF Inv
        <4>2. PICK i \in DOMAIN stack : f = stack[i] BY <2>1
        <4>3. i \in 1..Len(stack) BY <4>1, <4>2, LenProperties
        <4> QED BY <4>1, <4>3, EmptySeq
      <3> QED BY <1>2, <2>1, <3>1, FailureStep
    <2> QED BY <2>1 DEF Undone
  <1> QED BY <1>1, <1>2

-----------------------------------------------------------------------------
(* Every state component has its type.                                     *)
THEOREM TypeCorrect == ASSUME Scoped PROVE Spec => []TypeOK
  BY Invariance, InvTypeOK, PTL

(* No statement of a script comes upon a term that was rolled back, whether *)
(* by exceptionProtect, timeout_handle or a checkpoint of its own.         *)
THEOREM EnvironmentStaysLive == ASSUME Scoped PROVE Spec => []EnvironmentLive
  BY Invariance, InvEnvironmentLive, PTL

(* pushScope, popScope, blocks, restores and errors keep the SAWScript and *)
(* the Cryptol scopes in step.                                             *)
THEOREM MirrorStaysAgreeing == ASSUME Scoped PROVE Spec => []MirrorAgrees
  BY Invariance, InvMirrorAgrees, PTL

(* popdir never finds the directory stack empty.                           *)
THEOREM IncludesStayBalanced == ASSUME Scoped PROVE Spec => []IncludesBalanced
  BY Invariance, InvIncludesBalanced, PTL

(* A command of the REPL that fails leaves the interpreter and the kernel  *)
(* as they were, and exceptionProtect's own restore is never refused.      *)
THEOREM FailuresAreUndone == ASSUME Scoped PROVE Spec => FailuresUndone
  BY Invariance, StepUndone, PTL DEF FailuresUndone, Spec
=============================================================================
