------------------------ MODULE ExceptionLowerProofs ------------------------
(***************************************************************************)
(* For any exceptions and any depth of calls and regions: programs without *)
(* hard features are lowered faithfully.                                   *)
(***************************************************************************)
EXTENDS ExceptionLowerProperties, SequenceTheorems, TLAPS

(* Frame f of the stack is in a landing pad.                               *)
PadAt(frames, f) == frames[f].regions # <<>> /\ Head(frames[f].regions).k = "pad"

(* Pads and functions catch all or nothing.                                *)
AllOrNothing == \A f \in DOMAIN stack : stack[f].catches \in {{}, Exc}

(* Only the innermost region can be a pad.                                 *)
PadsInnermost ==
  \A f \in DOMAIN stack : \A i \in DOMAIN stack[f].regions : i # 1 => stack[f].regions[i].k = "handler"

(* While a pad is executed the flag is set, the exception is the one that  *)
(* the pad was given, and what it calls has no pads.                       *)
PadsCurrent ==
  \A f \in DOMAIN stack : PadAt(stack, f) =>
    /\ flag
    /\ Head(stack[f].regions).e = thrown
    /\ Head(stack[f].regions).catches \in {{}, Exc}
    /\ \A g \in DOMAIN stack : g < f => ~ stack[g].invoked /\ stack[g].regions = <<>>

FlagHasException == flag => thrown \in Exc

(* Nobody called the outermost function.                                   *)
OutermostPlain == stack # <<>> => ~ stack[Len(stack)].invoked

Lowered ==
  TypeOK /\ AllOrNothing /\ PadsInnermost /\ PadsCurrent /\ FlagHasException /\ OutermostPlain

-----------------------------------------------------------------------------
(* Sequences: one element more in front, and one less.                     *)
LEMMA ConsElements ==
  ASSUME NEW S, NEW x \in S, NEW s \in Seq(S)
  PROVE  /\ <<x>> \o s \in Seq(S)
         /\ Len(<<x>> \o s) = Len(s) + 1
         /\ (<<x>> \o s)[1] = x /\ Head(<<x>> \o s) = x
         /\ \A i \in 2..(Len(s) + 1) : (<<x>> \o s)[i] = s[i - 1]
         /\ <<x>> \o s # <<>>
  <1>1. <<x>> \in Seq(S) /\ Len(<<x>>) = 1 /\ <<x>>[1] = x OBVIOUS
  <1>2. /\ <<x>> \o s \in Seq(S) /\ Len(<<x>> \o s) = Len(s) + 1
        /\ \A i \in 1..(Len(s) + 1) : (<<x>> \o s)[i] = IF i <= 1 THEN <<x>>[i] ELSE s[i - 1]
    BY <1>1, ConcatProperties
  <1> QED BY <1>1, <1>2

LEMMA TailElements ==
  ASSUME NEW S, NEW s \in Seq(S), s # <<>>
  PROVE  /\ Tail(s) \in Seq(S)
         /\ Len(Tail(s)) = Len(s) - 1 /\ Len(s) \in Nat \ {0}
         /\ \A i \in 1..(Len(s) - 1) : Tail(s)[i] = s[i + 1]
         /\ Head(s) = s[1] /\ s[1] \in S
         /\ DOMAIN s = 1..Len(s) /\ DOMAIN Tail(s) = 1..(Len(s) - 1)
  BY HeadTailProperties, LenProperties

(* The regions of the innermost function are replaced.                     *)
LEMMA SetRegionsElements ==
  ASSUME NEW frames \in Seq(Function), frames # <<>>, NEW regions \in Seq(Region)
  PROVE  /\ SetRegions(frames, regions) \in Seq(Function)
         /\ Len(SetRegions(frames, regions)) = Len(frames)
         /\ SetRegions(frames, regions)[1].invoked = frames[1].invoked
         /\ SetRegions(frames, regions)[1].catches = frames[1].catches
         /\ SetRegions(frames, regions)[1].regions = regions
         /\ \A i \in 2..Len(frames) : SetRegions(frames, regions)[i] = frames[i]
         /\ SetRegions(frames, regions) # <<>>
  <1> DEFINE new == [frames[1] EXCEPT !.regions = regions]
  <1>1. frames[1] \in Function /\ 1 \in DOMAIN frames /\ 1 \in 1..Len(frames) BY TailElements
  <1>2. new \in Function /\ new.invoked = frames[1].invoked /\ new.catches = frames[1].catches /\ new.regions = regions
    BY <1>1 DEF Function
  <1>3. SetRegions(frames, regions) = [frames EXCEPT ![1] = new] BY DEF SetRegions
  <1> HIDE DEF new
  <1>4. [frames EXCEPT ![1] = new] \in Seq(Function) /\ Len([frames EXCEPT ![1] = new]) = Len(frames)
    BY <1>1, <1>2, ExceptSeq
  <1>5. [frames EXCEPT ![1] = new][1] = new /\ \A i \in 2..Len(frames) : [frames EXCEPT ![1] = new][i] = frames[i]
    BY <1>1, LenProperties
  <1>6. [frames EXCEPT ![1] = new] # <<>> BY <1>4, <1>1, LenProperties
  <1> QED BY <1>2, <1>3, <1>4, <1>5, <1>6

(* A region in front of others, and the regions inside it gone.            *)
LEMMA PadFields ==
  ASSUME NEW e \in Exc, NEW catches \in SUBSET Exc
  PROVE  /\ [k |-> "pad", e |-> e, catches |-> catches] \in Region
         /\ [k |-> "handler", e |-> e] \in Region
  BY DEF Region

-----------------------------------------------------------------------------
(* The exception e leaves the innermost function, and no other function is *)
(* in a pad.  This is what throw, rethrow, resume and the return of a      *)
(* function that was left without a pad have in common.                    *)
LEMMA Leaving ==
  ASSUME Lowered, stack # <<>>, NEW e \in Exc, ErrorReturn(e),
         \A f \in 2..Len(stack) : ~ PadAt(stack, f)
  PROVE  Lowered' /\ Source!Leave(e)
  <1> DEFINE rest == Tail(stack)
             function == Head(stack)
  <1>0. e # None /\ None \notin Exc BY ExceptionLowerAssumption
  <1>1. stack \in Seq(Function) BY DEF Lowered, TypeOK
  <1>2. /\ rest \in Seq(Function) /\ Len(rest) = Len(stack) - 1 /\ Len(stack) \in Nat \ {0}
        /\ \A i \in 1..(Len(stack) - 1) : rest[i] = stack[i + 1]
        /\ function = stack[1] /\ stack[1] \in Function
        /\ DOMAIN stack = 1..Len(stack) /\ DOMAIN rest = 1..(Len(stack) - 1)
    BY <1>1, TailElements
  <1> HIDE DEF rest, function
  <1>3. /\ stack' = Checked(rest, function, TRUE, e) /\ flag' = TRUE /\ thrown' = e
    BY DEF ErrorReturn, Returned, rest, function
  <1>4. \A f \in DOMAIN rest : ~ PadAt(rest, f)
    BY <1>2 DEF PadAt
  <1>5. CASE ~ function.invoked
    <2>1. stack' = rest BY <1>3, <1>5 DEF Checked
    <2>2. TypeOK' BY <1>2, <1>3, <2>1 DEF TypeOK
    <2>3. AllOrNothing' BY <1>2, <2>1 DEF AllOrNothing, Lowered
    <2>4. PadsInnermost' BY <1>2, <2>1 DEF PadsInnermost, Lowered
    <2>5. PadsCurrent' BY <1>4, <2>1 DEF PadsCurrent, PadAt
    <2>6. FlagHasException' BY <1>3 DEF FlagHasException
    <2>7. OutermostPlain'
      <3>1. SUFFICES ASSUME rest # <<>> PROVE ~ rest[Len(rest)].invoked BY <2>1 DEF OutermostPlain
      <3>2. Len(rest) \in Nat \ {0} BY <1>2, <3>1, TailElements
      <3> QED BY <1>2, <3>2 DEF OutermostPlain, Lowered
    <2>8. ~ InCleanup' BY <1>4, <2>1 DEF InCleanup, PadAt
    <2>9. Flying' = e BY <1>3, <2>8 DEF Flying
    <2> QED BY <1>5, <2>1, <2>2, <2>3, <2>4, <2>5, <2>6, <2>7, <2>9 DEF Source!Leave, Lowered, rest, function
  <1>6. CASE function.invoked
    <2> DEFINE pad == [k |-> "pad", e |-> e, catches |-> function.catches]
               new == <<pad>> \o Head(rest).regions
    <2>1. Len(stack) # 1 BY <1>2, <1>6 DEF OutermostPlain, Lowered
    <2>2. rest # <<>> /\ Len(rest) \in Nat \ {0}
      <3>1. PICK n \in Nat \ {0} : Len(stack) = n BY <1>2
      <3>2. Len(rest) = n - 1 /\ n # 1 BY <1>2, <2>1, <3>1
      <3>3. Len(rest) \in Nat \ {0} BY <3>2
      <3>4. Len(rest) # 0 BY <3>3
      <3>5. rest # <<>> BY ONLY <3>4, Len(<<>>) = 0
      <3> QED BY <3>3, <3>5
    <2>3. /\ Head(rest) = rest[1] /\ rest[1] \in Function /\ rest[1].regions \in Seq(Region)
          /\ 1 \in DOMAIN rest /\ 2 \in DOMAIN stack /\ rest[1] = stack[2]
      <3>1. Head(rest) = rest[1] /\ rest[1] \in Function /\ DOMAIN rest = 1..Len(rest) BY <1>2, <2>2, TailElements
      <3>2. rest[1].regions \in Seq(Region) BY <3>1 DEF Function
      <3>3. 1 \in 1..Len(rest) BY <2>2
      <3>4. 1 \in 1..(Len(stack) - 1) /\ 2 \in 1..Len(stack)
        <4>1. PICK n \in Nat \ {0} : Len(stack) = n BY <1>2
        <4>2. n # 1 BY <2>1, <4>1
        <4>3. 1 \in 1..(n - 1) /\ 2 \in 1..n BY <4>2
        <4> QED BY <4>1, <4>3
      <3>5. rest[1] = stack[2] BY <1>2, <3>4
      <3> QED BY <1>2, <3>1, <3>2, <3>3, <3>4, <3>5
    <2>4. function.catches \in SUBSET Exc /\ function.catches \in {{}, Exc}
      <3>1. function \in Function BY <1>2
      <3>2. function.catches \in SUBSET Exc BY <3>1 DEF Function
      <3>3. 1 \in DOMAIN stack BY <1>2
      <3> QED BY <1>2, <3>2, <3>3 DEF AllOrNothing, Lowered
    <2>5. pad \in Region BY <2>4, PadFields
    <2>6. pad.k = "pad" /\ pad.e = e /\ pad.catches = function.catches OBVIOUS
    <2> HIDE DEF pad
    <2>7. /\ new \in Seq(Region) /\ Len(new) = Len(rest[1].regions) + 1 /\ new[1] = pad /\ Head(new) = pad /\ new # <<>>
          /\ \A i \in 2..(Len(rest[1].regions) + 1) : new[i] = rest[1].regions[i - 1]
      BY <2>3, <2>5, ConsElements
    <2> HIDE DEF new
    <2>8. stack' = SetRegions(rest, new) BY <1>3, <1>6, <2>3 DEF Checked, new, pad
    <2>9. /\ stack' \in Seq(Function) /\ Len(stack') = Len(rest)
          /\ stack'[1].invoked = rest[1].invoked /\ stack'[1].catches = rest[1].catches /\ stack'[1].regions = new
          /\ \A i \in 2..Len(rest) : stack'[i] = rest[i]
          /\ DOMAIN stack' = 1..Len(rest)
      BY <1>2, <2>2, <2>7, <2>8, SetRegionsElements, LenProperties
    <2>10. TypeOK' BY <1>3, <2>9 DEF TypeOK
    <2>11. AllOrNothing'
      <3>1. SUFFICES ASSUME NEW f \in DOMAIN stack' PROVE stack'[f].catches \in {{}, Exc} BY DEF AllOrNothing
      <3>2. f \in DOMAIN rest /\ stack'[f].catches = rest[f].catches BY <1>2, <2>9
      <3> QED BY <1>2, <3>2 DEF AllOrNothing, Lowered
    <2>12. PadsInnermost'
      <3>1. SUFFICES ASSUME NEW f \in DOMAIN stack', NEW i \in DOMAIN stack'[f].regions, i # 1
                     PROVE  stack'[f].regions[i].k = "handler"
        BY DEF PadsInnermost
      <3>2. CASE f = 1
        <4>1. i \in 2..(Len(rest[1].regions) + 1) BY <2>3, <2>7, <2>9, <3>1, <3>2, LenProperties
        <4>2. stack'[f].regions[i] = stack[2].regions[i - 1] /\ i - 1 \in DOMAIN stack[2].regions
          BY <2>3, <2>7, <2>9, <3>2, <4>1, LenProperties
        <4>3. CASE i - 1 # 1 BY <2>3, <4>2, <4>3 DEF PadsInnermost, Lowered
        <4>4. CASE i - 1 = 1
          <5>1. stack[2].regions # <<>> /\ Head(stack[2].regions) = stack[2].regions[1] /\ stack[2].regions[1] \in Region
            BY <2>3, <4>2, <4>4, TailElements
          <5>2. stack[2].regions[1].k # "pad" BY <1>2, <2>3, <5>1 DEF PadAt
          <5> QED BY <4>2, <4>4, <5>1, <5>2 DEF Region
        <4> QED BY <4>3, <4>4
      <3>3. CASE f # 1
        <4>1. f \in 2..Len(rest) /\ stack'[f] = stack[f + 1] /\ f + 1 \in DOMAIN stack BY <1>2, <2>9, <3>3
        <4> QED BY <3>1, <4>1 DEF PadsInnermost, Lowered
      <3> QED BY <3>2, <3>3
    <2>13. PadsCurrent'
      <3>1. SUFFICES ASSUME NEW f \in DOMAIN stack', PadAt(stack', f)
                     PROVE  /\ flag' /\ Head(stack'[f].regions).e = thrown' /\ Head(stack'[f].regions).catches \in {{}, Exc}
                            /\ \A g \in DOMAIN stack' : g < f => ~ stack'[g].invoked /\ stack'[g].regions = <<>>
        BY DEF PadsCurrent, PadAt
      <3>2. f = 1
        <4>1. SUFFICES ASSUME f # 1 PROVE FALSE OBVIOUS
        <4>2. f \in DOMAIN rest /\ stack'[f] = rest[f] BY <1>2, <2>9, <4>1
        <4> QED BY <1>4, <3>1, <4>2 DEF PadAt
      <3>3. \A g \in DOMAIN stack' : ~ (g < f) BY <2>9, <3>2
      <3>4. Head(stack'[f].regions) = pad BY <2>7, <2>9, <3>2
      <3> QED BY <1>3, <2>4, <2>6, <3>3, <3>4
    <2>14. FlagHasException' BY <1>3 DEF FlagHasException
    <2>15. OutermostPlain'
      <3>1. stack'[Len(rest)].invoked = rest[Len(rest)].invoked BY <2>2, <2>9
      <3>2. rest[Len(rest)] = stack[Len(stack)] BY <1>2, <2>2
      <3> QED BY <2>9, <3>1, <3>2 DEF OutermostPlain, Lowered
    <2>16. InCleanup'
      <3>1. 1 \in DOMAIN stack' /\ stack'[1].regions # <<>> /\ Head(stack'[1].regions).k = "pad" BY <2>2, <2>6, <2>7, <2>9
      <3> QED BY <3>1 DEF InCleanup
    <2>17. Flying' = None BY <2>16 DEF Flying
    <2>18. stack' = Source!Landed(rest, function, e)
      BY <2>8 DEF Source!Landed, Source!SetRegions, SetRegions, new, pad
    <2> QED BY <1>6, <2>10, <2>11, <2>12, <2>13, <2>14, <2>15, <2>17, <2>18 DEF Source!Leave, Lowered, rest, function
  <1> QED BY <1>5, <1>6

(* No two functions are in pads.                                           *)
LEMMA OnePad ==
  ASSUME Lowered, NEW f \in DOMAIN stack, PadAt(stack, f), NEW g \in DOMAIN stack, PadAt(stack, g)
  PROVE  f = g
  <1>1. f \in Nat /\ g \in Nat BY LenProperties DEF Lowered, TypeOK
  <1>2. ~ (f < g) /\ ~ (g < f) BY DEF Lowered, PadsCurrent, PadAt
  <1> QED BY <1>1, <1>2

(* A function is entered.                                                  *)
LEMMA Entering ==
  ASSUME Lowered, stack # <<>>, ~ flag \/ InCleanup,
         NEW invoked \in BOOLEAN, InCleanup => ~ invoked,
         NEW catches \in {{}, Exc},
         stack' = <<[invoked |-> invoked, catches |-> catches, regions |-> <<>>]>> \o stack,
         UNCHANGED <<flag, thrown>>
  PROVE  Lowered' /\ Flying = None /\ Flying' = None
  <1> DEFINE function == [invoked |-> invoked, catches |-> catches, regions |-> <<>>]
  <1>1. function \in Function BY DEF Function
  <1>2. function.invoked = invoked /\ function.catches = catches /\ function.regions = <<>> OBVIOUS
  <1> HIDE DEF function
  <1>3. stack \in Seq(Function) /\ DOMAIN stack = 1..Len(stack) /\ Len(stack) \in Nat \ {0}
    BY LenProperties, TailElements DEF Lowered, TypeOK
  <1>4. /\ stack' \in Seq(Function) /\ Len(stack') = Len(stack) + 1 /\ stack'[1] = function
        /\ \A i \in 2..(Len(stack) + 1) : stack'[i] = stack[i - 1]
    BY <1>1, <1>3, ConsElements DEF function
  <1>5. \A f \in DOMAIN stack' : f = 1 \/ (f - 1 \in DOMAIN stack /\ stack'[f] = stack[f - 1])
    BY <1>3, <1>4, LenProperties
  <1>6. \A f \in DOMAIN stack : f + 1 \in DOMAIN stack' /\ stack'[f + 1] = stack[f]
    BY <1>3, <1>4, LenProperties
  <1>7. TypeOK' BY <1>4 DEF TypeOK, Lowered
  <1>8. AllOrNothing' BY <1>2, <1>4, <1>5 DEF AllOrNothing, Lowered
  <1>9. PadsInnermost'
    <2>1. SUFFICES ASSUME NEW f \in DOMAIN stack', NEW i \in DOMAIN stack'[f].regions, i # 1
                   PROVE  stack'[f].regions[i].k = "handler"
      BY DEF PadsInnermost
    <2>2. f # 1 BY <1>2, <1>4, <2>1
    <2> QED BY <1>5, <2>1, <2>2 DEF PadsInnermost, Lowered
  <1>10. PadsCurrent'
    <2>1. SUFFICES ASSUME NEW f \in DOMAIN stack', PadAt(stack', f)
                   PROVE  /\ flag' /\ Head(stack'[f].regions).e = thrown' /\ Head(stack'[f].regions).catches \in {{}, Exc}
                          /\ \A g \in DOMAIN stack' : g < f => ~ stack'[g].invoked /\ stack'[g].regions = <<>>
      BY DEF PadsCurrent, PadAt
    <2>2. f # 1 BY <1>2, <1>4, <2>1 DEF PadAt
    <2>3. f - 1 \in DOMAIN stack /\ stack'[f] = stack[f - 1] BY <1>5, <2>1, <2>2
    <2>4. PadAt(stack, f - 1) BY <2>1, <2>3 DEF PadAt
    <2>5. InCleanup BY <2>3, <2>4 DEF InCleanup, PadAt
    <2>6. /\ flag /\ Head(stack[f - 1].regions).e = thrown /\ Head(stack[f - 1].regions).catches \in {{}, Exc}
          /\ \A g \in DOMAIN stack : g < f - 1 => ~ stack[g].invoked /\ stack[g].regions = <<>>
      BY <2>3, <2>4 DEF PadsCurrent, Lowered
    <2>7. ASSUME NEW g \in DOMAIN stack', g < f
          PROVE  ~ stack'[g].invoked /\ stack'[g].regions = <<>>
      <3>1. CASE g = 1 BY <1>2, <1>4, <2>5, <3>1
      <3>2. CASE g # 1
        <4>1. g - 1 \in DOMAIN stack /\ stack'[g] = stack[g - 1] BY <1>5, <2>7, <3>2
        <4>2. f \in Nat /\ g \in Nat BY <1>4, <2>1, <2>7, LenProperties
        <4> QED BY <2>6, <2>7, <4>1, <4>2
      <3> QED BY <3>1, <3>2
    <2> QED BY <2>3, <2>6, <2>7
  <1>11. FlagHasException' BY DEF FlagHasException, Lowered
  <1>12. OutermostPlain'
    <2>1. stack'[Len(stack')] = stack[Len(stack)] BY <1>3, <1>4
    <2> QED BY <2>1 DEF OutermostPlain, Lowered
  <1>13. InCleanup => InCleanup' BY <1>6 DEF InCleanup
  <1>14. Flying = None /\ Flying' = None BY <1>13 DEF Flying
  <1> QED BY <1>7, <1>8, <1>9, <1>10, <1>11, <1>12, <1>14 DEF Lowered

(* A function returns to one that goes on.                                 *)
LEMMA Returning ==
  ASSUME Lowered, stack # <<>>, ~ flag \/ InCleanup, Regions = <<>>, Returned(flag, thrown)
  PROVE  Lowered' /\ stack' = Tail(stack) /\ Flying = None /\ Flying' = None
  <1>1. /\ Tail(stack) \in Seq(Function) /\ Len(Tail(stack)) = Len(stack) - 1 /\ Len(stack) \in Nat \ {0}
        /\ \A i \in 1..(Len(stack) - 1) : Tail(stack)[i] = stack[i + 1]
        /\ Head(stack) = stack[1]
        /\ DOMAIN stack = 1..Len(stack) /\ DOMAIN Tail(stack) = 1..(Len(stack) - 1)
    BY TailElements DEF Lowered, TypeOK
  <1>2. InCleanup => \E f \in DOMAIN stack : PadAt(stack, f) /\ f # 1
    <2>1. stack[1].regions = <<>> BY <1>1 DEF Regions
    <2> QED BY <2>1 DEF InCleanup, PadAt
  <1>3. InCleanup => ~ Head(stack).invoked
    <2>1. SUFFICES ASSUME InCleanup PROVE ~ stack[1].invoked BY <1>1
    <2>2. PICK f \in DOMAIN stack : PadAt(stack, f) /\ f # 1 BY <1>2, <2>1
    <2>3. 1 \in DOMAIN stack /\ 1 < f BY <1>1, <2>2
    <2> QED BY <2>2, <2>3 DEF PadsCurrent, Lowered
  <1>4. stack' = Tail(stack) /\ flag' = flag /\ thrown' = thrown
    BY <1>3 DEF Returned, Checked, Lowered, TypeOK
  <1>5. \A f \in DOMAIN stack' : f + 1 \in DOMAIN stack /\ stack'[f] = stack[f + 1] /\ f \in Nat
    BY <1>1, <1>4
  <1>6. TypeOK' BY <1>1, <1>4 DEF TypeOK, Lowered
  <1>7. AllOrNothing' BY <1>5 DEF AllOrNothing, Lowered
  <1>8. PadsInnermost' BY <1>5 DEF PadsInnermost, Lowered
  <1>9. PadsCurrent'
    <2>1. SUFFICES ASSUME NEW f \in DOMAIN stack', PadAt(stack', f)
                   PROVE  /\ flag' /\ Head(stack'[f].regions).e = thrown' /\ Head(stack'[f].regions).catches \in {{}, Exc}
                          /\ \A g \in DOMAIN stack' : g < f => ~ stack'[g].invoked /\ stack'[g].regions = <<>>
      BY DEF PadsCurrent, PadAt
    <2>2. PadAt(stack, f + 1) BY <1>5, <2>1 DEF PadAt
    <2>3. /\ flag /\ Head(stack[f + 1].regions).e = thrown /\ Head(stack[f + 1].regions).catches \in {{}, Exc}
          /\ \A g \in DOMAIN stack : g < f + 1 => ~ stack[g].invoked /\ stack[g].regions = <<>>
      BY <1>5, <2>2 DEF PadsCurrent, Lowered
    <2>4. \A g \in DOMAIN stack' : g < f => g + 1 \in DOMAIN stack /\ g + 1 < f + 1 /\ stack'[g] = stack[g + 1]
      BY <1>5
    <2> QED BY <1>4, <1>5, <2>3, <2>4
  <1>10. FlagHasException' BY <1>4 DEF FlagHasException, Lowered
  <1>11. OutermostPlain'
    <2>1. SUFFICES ASSUME stack' # <<>> PROVE ~ stack'[Len(stack')].invoked BY DEF OutermostPlain
    <2>2. Len(stack') \in Nat \ {0} BY <1>1, <1>4, <2>1, TailElements
    <2> QED BY <1>1, <1>4, <2>2 DEF OutermostPlain, Lowered
  <1>12. InCleanup => InCleanup'
    <2>1. SUFFICES ASSUME InCleanup PROVE InCleanup' OBVIOUS
    <2>2. PICK f \in DOMAIN stack : PadAt(stack, f) /\ f # 1 BY <1>2, <2>1
    <2>3. f - 1 \in DOMAIN stack' /\ stack'[f - 1] = stack[f] BY <1>1, <1>4, <2>2
    <2> QED BY <2>2, <2>3 DEF InCleanup, PadAt
  <1>13. Flying = None /\ Flying' = None BY <1>4, <1>12 DEF Flying
  <1> QED BY <1>4, <1>6, <1>7, <1>8, <1>9, <1>10, <1>11, <1>13 DEF Lowered

(* The innermost function goes to other regions, none of them a pad.       *)
LEMMA InHandlers ==
  ASSUME Lowered, stack # <<>>, ~ flag', thrown' = thrown,
         NEW regions \in Seq(Region), \A i \in DOMAIN regions : regions[i].k = "handler",
         stack' = SetRegions(stack, regions),
         \A f \in 2..Len(stack) : ~ PadAt(stack, f),
         flag' \in BOOLEAN
  PROVE  Lowered' /\ Flying' = None
  <1>1. stack \in Seq(Function) /\ DOMAIN stack = 1..Len(stack) /\ Len(stack) \in Nat \ {0}
    BY LenProperties, TailElements DEF Lowered, TypeOK
  <1>2. /\ stack' \in Seq(Function) /\ Len(stack') = Len(stack)
        /\ stack'[1].invoked = stack[1].invoked /\ stack'[1].catches = stack[1].catches /\ stack'[1].regions = regions
        /\ \A i \in 2..Len(stack) : stack'[i] = stack[i]
    BY <1>1, SetRegionsElements
  <1>3. \A f \in DOMAIN stack' : f = 1 \/ (f \in 2..Len(stack) /\ f \in DOMAIN stack /\ stack'[f] = stack[f])
    BY <1>1, <1>2, LenProperties
  <1>4. 1 \in DOMAIN stack BY <1>1
  <1>5. ~ PadAt(stack', 1)
    <2>1. SUFFICES ASSUME regions # <<>> PROVE Head(regions).k # "pad" BY <1>2 DEF PadAt
    <2>2. Head(regions) = regions[1] /\ 1 \in DOMAIN regions BY <2>1, TailElements
    <2> QED BY <2>2
  <1>6. \A f \in DOMAIN stack' : ~ PadAt(stack', f) BY <1>3, <1>5 DEF PadAt
  <1>7. TypeOK' BY <1>2 DEF TypeOK, Lowered
  <1>8. AllOrNothing' BY <1>2, <1>3, <1>4 DEF AllOrNothing, Lowered
  <1>9. PadsInnermost' BY <1>2, <1>3 DEF PadsInnermost, Lowered
  <1>10. PadsCurrent' BY <1>6 DEF PadsCurrent, PadAt
  <1>11. FlagHasException' BY DEF FlagHasException
  <1>12. OutermostPlain' BY <1>1, <1>2, <1>3 DEF OutermostPlain, Lowered
  <1>13. Flying' = None BY DEF Flying
  <1> QED BY <1>7, <1>8, <1>9, <1>10, <1>11, <1>12, <1>13 DEF Lowered

-----------------------------------------------------------------------------
(* At first nothing is in flight.                                          *)
LEMMA StartsLowered == Init => Lowered /\ Source!Init
  <1>1. SUFFICES ASSUME Init PROVE Lowered /\ Source!Init OBVIOUS
  <1> DEFINE function == [invoked |-> FALSE, catches |-> {}, regions |-> <<>>]
  <1>2. function \in Function /\ ~ function.invoked /\ function.catches = {} /\ function.regions = <<>>
    <2>1. <<>> \in Seq(Region) OBVIOUS
    <2> QED BY <2>1 DEF Function
  <1> HIDE DEF function
  <1>3. stack = <<function>> /\ flag = FALSE /\ thrown = None /\ did = [op |-> "call", e |-> None]
    BY <1>1 DEF Init, function
  <1>4. stack \in Seq(Function) /\ Len(stack) = 1 /\ DOMAIN stack = {1} /\ stack[1] = function BY <1>2, <1>3
  <1>5. Lowered
    <2>1. \A f \in DOMAIN stack : stack[f] = function BY <1>4
    <2>2. TypeOK BY <1>3, <1>4 DEF TypeOK
    <2>3. AllOrNothing BY <1>2, <2>1 DEF AllOrNothing
    <2>4. PadsInnermost BY <1>2, <2>1 DEF PadsInnermost
    <2>5. PadsCurrent BY <1>2, <2>1 DEF PadsCurrent, PadAt
    <2>6. FlagHasException /\ OutermostPlain BY <1>2, <1>3, <1>4 DEF FlagHasException, OutermostPlain
    <2> QED BY <2>2, <2>3, <2>4, <2>5, <2>6 DEF Lowered
  <1>6. Flying = None BY <1>3 DEF Flying
  <1>7. Source!Init BY <1>3, <1>6 DEF Source!Init, Source!Entered, function
  <1> QED BY <1>5, <1>7

(* Every step keeps the invariant and is a step of the program that was    *)
(* lowered.                                                                *)
LEMMA StepLowered ==
  ASSUME Features = {}, Lowered, [Next]_vars
  PROVE  Lowered' /\ [Source!Next]_<<stack, Flying, did>>
  <1>0. None \notin Exc BY ExceptionLowerAssumption
  <1>1. stack \in Seq(Function) /\ flag \in BOOLEAN BY DEF Lowered, TypeOK
  <1>2. stack # <<>> =>
          /\ Head(stack) = stack[1] /\ stack[1] \in Function /\ Regions \in Seq(Region) /\ Regions = stack[1].regions
          /\ DOMAIN stack = 1..Len(stack) /\ 1 \in DOMAIN stack /\ Len(stack) \in Nat \ {0}
    <2>1. SUFFICES ASSUME stack # <<>>
                   PROVE  /\ Head(stack) = stack[1] /\ stack[1] \in Function /\ Regions \in Seq(Region) /\ Regions = stack[1].regions
                          /\ DOMAIN stack = 1..Len(stack) /\ 1 \in DOMAIN stack /\ Len(stack) \in Nat \ {0}
      OBVIOUS
    <2>2. Head(stack) = stack[1] /\ stack[1] \in Function /\ DOMAIN stack = 1..Len(stack) /\ Len(stack) \in Nat \ {0}
      BY <1>1, <2>1, TailElements
    <2>3. Head(stack).regions \in Seq(Region) BY <2>2 DEF Function
    <2> QED BY <2>2, <2>3 DEF Regions
  <1>3. ~ InCleanup => \A f \in 2..Len(stack) : ~ PadAt(stack, f) BY <1>1, LenProperties DEF InCleanup, PadAt
  <1>4. In("pad") /\ stack # <<>> =>
          /\ PadAt(stack, 1) /\ \A f \in 2..Len(stack) : ~ PadAt(stack, f)
          /\ InCleanup /\ flag /\ thrown \in Exc
          /\ Head(Regions).e = thrown /\ Head(Regions).catches \in {{}, Exc}
    <2>1. SUFFICES ASSUME In("pad"), stack # <<>>
                   PROVE  /\ PadAt(stack, 1) /\ \A f \in 2..Len(stack) : ~ PadAt(stack, f)
                          /\ InCleanup /\ flag /\ thrown \in Exc
                          /\ Head(Regions).e = thrown /\ Head(Regions).catches \in {{}, Exc}
      OBVIOUS
    <2>2. PadAt(stack, 1) /\ 1 \in DOMAIN stack BY <1>2, <2>1 DEF In, PadAt
    <2>3. \A f \in 2..Len(stack) : ~ PadAt(stack, f)
      <3>1. \A f \in 2..Len(stack) : f \in DOMAIN stack /\ f # 1 BY <1>2, <2>1
      <3> QED BY <2>2, <3>1, OnePad
    <2>4. InCleanup BY <2>2 DEF InCleanup, PadAt
    <2>5. flag /\ Head(Regions).e = thrown /\ Head(Regions).catches \in {{}, Exc}
      BY <1>2, <2>1, <2>2 DEF PadsCurrent, Lowered
    <2> QED BY <2>2, <2>3, <2>4, <2>5 DEF FlagHasException, Lowered
  <1>5. CASE Call
    <2>1. stack # <<>> /\ (~ flag \/ InCleanup) BY <1>5 DEF Call, GoesOn, Running
    <2>2. Lowered' /\ Flying = None /\ Flying' = None BY <1>5, <2>1, Entering DEF Call
    <2>3. Source!Call(FALSE, {})
      BY <1>5, <2>1, <2>2 DEF Call, Source!Call, Source!Running, Source!Entered, Do, Source!Do
    <2> QED BY <2>2, <2>3 DEF Source!Next
  <1>6. ASSUME NEW catches \in Handlers, Invoke(catches)
        PROVE  Lowered' /\ Source!Next
    <2>1. catches \in {{}, Exc} /\ catches \in SUBSET Exc BY <1>6 DEF Handlers
    <2>2. stack # <<>> /\ ~ flag /\ ~ InCleanup BY <1>6 DEF Invoke, MayThrow, GoesOn, Running
    <2>3. Lowered' /\ Flying = None /\ Flying' = None BY <1>6, <2>1, <2>2, Entering DEF Invoke
    <2>4. Source!Call(TRUE, catches)
      BY <1>6, <2>2, <2>3 DEF Invoke, Source!Call, Source!Running, Source!Entered, Do, Source!Do
    <2> QED BY <2>1, <2>3, <2>4 DEF Source!Next
  <1>7. CASE Return
    <2>1. stack # <<>> /\ Regions = <<>> /\ Returned(flag, thrown) BY <1>7 DEF Return, Running
    <2>2. CASE ~ flag \/ InCleanup
      <3>1. Lowered' /\ stack' = Tail(stack) /\ Flying = None /\ Flying' = None BY <2>1, <2>2, Returning
      <3>2. Source!Return BY <1>7, <2>1, <3>1 DEF Return, Source!Return, Source!Running, Source!Regions, Regions, Do, Source!Do
      <3> QED BY <3>1, <3>2 DEF Source!Next
    <2>3. CASE flag /\ ~ InCleanup
      <3>1. thrown \in Exc BY <2>3 DEF FlagHasException, Lowered
      <3>2. ErrorReturn(thrown) BY <2>1, <2>3 DEF ErrorReturn, Lowered, TypeOK
      <3>3. Lowered' /\ Source!Leave(thrown) BY <1>3, <2>1, <2>3, <3>1, <3>2, Leaving
      <3>4. Flying = thrown /\ thrown # None BY <1>0, <2>3, <3>1 DEF Flying
      <3>5. Source!Unwind BY <1>7, <2>1, <3>3, <3>4 DEF Return, Source!Unwind, Do, Source!Do
      <3> QED BY <3>3, <3>5 DEF Source!Next
    <2> QED BY <2>2, <2>3
  <1>8. ASSUME NEW e \in Exc, Throw(e)
        PROVE  Lowered' /\ Source!Next
    <2>1. stack # <<>> /\ ~ flag /\ ~ InCleanup /\ ErrorReturn(e) BY <1>8 DEF Throw, MayThrow, GoesOn, Running
    <2>2. Lowered' /\ Source!Leave(e) BY <1>3, <2>1, Leaving
    <2>3. Flying = None BY <2>1 DEF Flying
    <2>4. Source!Throw(e) BY <1>8, <2>1, <2>2, <2>3 DEF Throw, Source!Throw, Source!Running
    <2> QED BY <2>2, <2>4 DEF Source!Next
  <1>9. CASE Rethrow
    <2>1. stack # <<>> /\ ~ flag /\ ~ InCleanup /\ ErrorReturn(thrown) BY <1>9 DEF Rethrow, MayThrow, GoesOn, Running
    <2>2. thrown \in Exc /\ HandledLast(thrown) BY <1>9 DEF Rethrow
    <2>3. Lowered' /\ Source!Leave(thrown) BY <1>3, <2>1, <2>2, Leaving
    <2>4. Flying = None BY <2>1 DEF Flying
    <2>5. Source!Handled(thrown) BY <2>2 DEF HandledLast, Source!Handled, Handles, Source!Handles
    <2>6. Source!Rethrow BY <1>9, <2>1, <2>2, <2>3, <2>4, <2>5 DEF Rethrow, Source!Rethrow, Source!Running, Do, Source!Do
    <2> QED BY <2>3, <2>6 DEF Source!Next
  <1>10. CASE Resume
    <2>1. stack # <<>> /\ In("pad") /\ Head(Regions).catches # Exc /\ ErrorReturn(thrown) BY <1>10 DEF Resume, Running
    <2>2. /\ \A f \in 2..Len(stack) : ~ PadAt(stack, f)
          /\ InCleanup /\ thrown \in Exc /\ Head(Regions).e = thrown /\ Head(Regions).catches = {}
      BY <1>4, <2>1
    <2>3. Lowered' /\ Source!Leave(thrown) BY <2>1, <2>2, Leaving
    <2>4. Flying = None BY <2>2 DEF Flying
    <2>5. Source!Resume
      BY <1>10, <2>1, <2>2, <2>3, <2>4 DEF Resume, Source!Resume, Source!Running, Source!In, Source!Regions, In, Regions, Do, Source!Do
    <2> QED BY <2>3, <2>5 DEF Source!Next
  <1>11. CASE BeginCatch
    <2> DEFINE handler == [k |-> "handler", e |-> thrown]
               regions == <<handler>> \o Tail(Regions)
    <2>1. stack # <<>> /\ In("pad") /\ Head(Regions).catches = Exc /\ Regions # <<>> BY <1>11 DEF BeginCatch, Running, In
    <2>2. /\ \A f \in 2..Len(stack) : ~ PadAt(stack, f)
          /\ InCleanup /\ thrown \in Exc /\ Head(Regions).e = thrown
      BY <1>4, <2>1
    <2>3. handler \in Region /\ handler.k = "handler"
      <3>1. handler \in Region BY <2>2, PadFields, {} \in SUBSET Exc
      <3> QED BY <3>1
    <2> HIDE DEF handler
    <2>4. /\ Tail(Regions) \in Seq(Region) /\ Len(Tail(Regions)) = Len(Regions) - 1 /\ Len(Regions) \in Nat \ {0}
          /\ \A i \in 1..(Len(Regions) - 1) : Tail(Regions)[i] = Regions[i + 1]
          /\ DOMAIN Regions = 1..Len(Regions)
      BY <1>2, <2>1, TailElements
    <2>5. /\ regions \in Seq(Region) /\ Len(regions) = Len(Tail(Regions)) + 1 /\ regions[1] = handler
          /\ \A i \in 2..(Len(Tail(Regions)) + 1) : regions[i] = Tail(Regions)[i - 1]
      BY <2>3, <2>4, ConsElements
    <2> HIDE DEF regions
    <2>6. \A i \in DOMAIN regions : regions[i].k = "handler"
      <3>1. SUFFICES ASSUME NEW i \in DOMAIN regions, i # 1 PROVE regions[i].k = "handler" BY <2>3, <2>5
      <3>2. i \in 2..Len(Regions) /\ i \in DOMAIN Regions /\ regions[i] = Regions[i] BY <2>4, <2>5, <3>1, LenProperties
      <3> QED BY <1>2, <2>1, <3>2 DEF PadsInnermost, Lowered
    <2>7. stack' = SetRegions(stack, regions) /\ flag' = FALSE /\ thrown' = thrown
      BY <1>11 DEF BeginCatch, regions, handler
    <2>8. Lowered' /\ Flying' = None BY <2>1, <2>2, <2>5, <2>6, <2>7, InHandlers
    <2>9. Flying = None BY <2>2 DEF Flying
    <2>10. stack' = Source!SetRegions(stack, <<[k |-> "handler", e |-> Head(Regions).e]>> \o Tail(Regions))
      BY <2>2, <2>7 DEF Source!SetRegions, SetRegions, regions, handler
    <2>11. Source!BeginCatch
      BY <1>11, <2>1, <2>2, <2>8, <2>9, <2>10 DEF BeginCatch, Source!BeginCatch, Source!Running, Source!In, Source!Regions, In, Regions, Do, Source!Do
    <2> QED BY <2>8, <2>11 DEF Source!Next
  <1>12. CASE EndCatch
    <2>1. stack # <<>> /\ (~ flag \/ InCleanup) /\ In("handler") /\ Regions # <<>> /\ Head(Regions).k = "handler"
      BY <1>12 DEF EndCatch, GoesOn, Running, In
    <2>2. \A f \in DOMAIN stack : ~ PadAt(stack, f)
      <3>1. SUFFICES ASSUME NEW f \in DOMAIN stack, PadAt(stack, f) PROVE FALSE OBVIOUS
      <3>2. f # 1 BY <1>2, <2>1, <3>1 DEF PadAt
      <3>3. 1 < f /\ 1 \in DOMAIN stack BY <1>2, <2>1, <3>2
      <3>4. stack[1].regions = <<>> BY <3>1, <3>3 DEF PadsCurrent, Lowered
      <3> QED BY <1>2, <2>1, <3>4
    <2>3. ~ InCleanup BY <2>2 DEF InCleanup, PadAt
    <2>4. /\ Tail(Regions) \in Seq(Region) /\ Len(Tail(Regions)) = Len(Regions) - 1 /\ Len(Regions) \in Nat \ {0}
          /\ \A i \in 1..(Len(Regions) - 1) : Tail(Regions)[i] = Regions[i + 1]
          /\ DOMAIN Tail(Regions) = 1..(Len(Regions) - 1) /\ DOMAIN Regions = 1..Len(Regions)
      BY <1>2, <2>1, TailElements
    <2>5. \A i \in DOMAIN Tail(Regions) : Tail(Regions)[i].k = "handler"
      <3>1. SUFFICES ASSUME NEW i \in DOMAIN Tail(Regions) PROVE Tail(Regions)[i].k = "handler" OBVIOUS
      <3>2. i + 1 \in DOMAIN Regions /\ i + 1 # 1 /\ Tail(Regions)[i] = Regions[i + 1] BY <2>4, <3>1
      <3> QED BY <1>2, <2>1, <3>2 DEF PadsInnermost, Lowered
    <2>6. ~ flag' /\ flag' \in BOOLEAN /\ thrown' = thrown /\ stack' = SetRegions(stack, Tail(Regions))
      BY <1>1, <1>12, <2>1, <2>3 DEF EndCatch
    <2>7. \A f \in 2..Len(stack) : ~ PadAt(stack, f) BY <1>2, <2>1, <2>2
    <2>8. Lowered' /\ Flying' = None BY <2>1, <2>4, <2>5, <2>6, <2>7, InHandlers
    <2>9. Flying = None BY <2>1, <2>3 DEF Flying
    <2>10. Source!EndCatch
      BY <1>12, <2>1, <2>6, <2>8, <2>9 DEF EndCatch, Source!EndCatch, Source!Running, Source!In, Source!Regions, In, Regions, Do, Source!Do, SetRegions, Source!SetRegions
    <2> QED BY <2>8, <2>10 DEF Source!Next
  <1>13. CASE UNCHANGED vars
    <2>1. UNCHANGED <<stack, flag, thrown, did>> BY <1>13 DEF vars
    <2>2. Lowered'
      BY <2>1 DEF Lowered, TypeOK, AllOrNothing, PadsInnermost, PadsCurrent, PadAt, FlagHasException, OutermostPlain
    <2>3. Flying' = Flying BY <2>1 DEF Flying, InCleanup
    <2> QED BY <2>1, <2>2, <2>3
  <1> QED BY <1>5, <1>6, <1>7, <1>8, <1>9, <1>10, <1>11, <1>12, <1>13 DEF Next

(* A program that has none of the features that the pass gets wrong does,  *)
(* once it is lowered, what it did before, whatever it throws and however  *)
(* deep its calls and handlers are nested.                                 *)
THEOREM LoweringIsFaithful == Features = {} => (Spec => ImplementsUnwinder)
  <1>1. SUFFICES ASSUME Features = {} PROVE Spec => ImplementsUnwinder OBVIOUS
  <1>2. Init => Lowered /\ Source!Init BY StartsLowered
  <1>3. Lowered /\ [Next]_vars => Lowered' /\ [Source!Next]_<<stack, Flying, did>> BY <1>1, StepLowered
  <1> QED BY <1>2, <1>3, PTL DEF Spec, ImplementsUnwinder, Source!Spec

(* Lowered programs are well typed: a pad or a handler has an exception.   *)
THEOREM LoweredTypes == Features = {} => (Spec => []TypeOK)
  <1>1. SUFFICES ASSUME Features = {} PROVE Spec => []TypeOK OBVIOUS
  <1>2. Init => Lowered BY StartsLowered
  <1>3. Lowered /\ [Next]_vars => Lowered' BY <1>1, StepLowered
  <1>4. Lowered => TypeOK BY DEF Lowered
  <1> QED BY <1>2, <1>3, <1>4, PTL DEF Spec
=============================================================================
