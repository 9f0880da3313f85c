--------------------------- MODULE ExceptionLower ---------------------------
(***************************************************************************)
(* Programs after the exception-lower pass.  A throw is a store to two     *)
(* thread-local variables, the flag and the exception, and a return; after *)
(* a call that had a landing pad the flag is looked at, and after another  *)
(* call it is not.                                                         *)
(*                                                                         *)
(* The program is left open: whenever control is in some function, that    *)
(* function may do next whatever a function can do.  Some programs the     *)
(* pass gets wrong; Features says which of those there are.                *)
(***************************************************************************)
EXTENDS Naturals, Sequences, FiniteSets

CONSTANTS
  Exc, None,
  Features,   \* of Hard, those that the program has
  \* Bounds:
  MaxStack, MaxRegions

(* plain    code goes on after a call without a landing pad that can throw *)
(* cleanup  a cleanup makes calls with landing pads, or throws             *)
(* typed    a landing pad has handlers for some types only                 *)
(* late     a handler throws again after more was thrown                   *)
Hard == {"plain", "cleanup", "typed", "late"}

ASSUME ExceptionLowerAssumption ==
  /\ None \notin Exc
  /\ Features \subseteq Hard
  /\ MaxStack \in Nat \ {0} /\ MaxRegions \in Nat

VARIABLES
  stack,    \* the functions that are being executed, innermost first
  flag,     \* __exclow_error_flag
  thrown,   \* __exclow_error_typeinfo and __exclow_error_value
  did       \* the instruction of the original program that was executed last

vars == <<stack, flag, thrown, did>>

Region == [k : {"pad"}, e : Exc, catches : SUBSET Exc] \cup [k : {"handler"}, e : Exc]
Function == [invoked : BOOLEAN, catches : SUBSET Exc, regions : Seq(Region)]

Init ==
  /\ stack = <<[invoked |-> FALSE, catches |-> {}, regions |-> <<>>]>>
  /\ flag = FALSE
  /\ thrown = None
  /\ did = [op |-> "call", e |-> None]

Running == stack # <<>>
Regions == Head(stack).regions
In(kind) == Regions # <<>> /\ Head(Regions).k = kind
InCleanup == \E f \in DOMAIN stack : stack[f].regions # <<>> /\ Head(stack[f].regions).k = "pad"

Do(op) == did' = [op |-> op, e |-> None]
SetRegions(frames, regions) == [frames EXCEPT ![1].regions = regions]

(* What the program may do, by its features.                               *)
GoesOn == Running /\ ("plain" \in Features \/ ~ flag \/ InCleanup)
MayThrow == GoesOn /\ ("cleanup" \in Features \/ ~ InCleanup)
Handlers == IF "typed" \in Features THEN SUBSET Exc ELSE {{}, Exc}

-----------------------------------------------------------------------------
(* lowerInvoke: after the call comes a block that looks at the flag.       *)
(* lowerLandingPadInPlace: the pad starts with what was thrown last.       *)

Checked(frames, function, raised, e) ==
  IF function.invoked /\ raised
  THEN SetRegions(frames, <<[k |-> "pad", e |-> e, catches |-> function.catches]>> \o Head(frames).regions)
  ELSE frames

Returned(raised, e) ==
  /\ stack' = Checked(Tail(stack), Head(stack), raised, e)
  /\ stack' # <<>> => Len(Head(stack').regions) <= MaxRegions
  /\ flag' = raised
  /\ thrown' = e

(* emitErrorReturn.                                                        *)
ErrorReturn(e) == Returned(TRUE, e)

-----------------------------------------------------------------------------
(* A function in a handler makes all its calls with landing pads.          *)
Call ==
  /\ GoesOn /\ ~ In("handler")
  /\ Len(stack) < MaxStack
  /\ stack' = <<[invoked |-> FALSE, catches |-> {}, regions |-> <<>>]>> \o stack
  /\ Do("call") /\ UNCHANGED <<flag, thrown>>

Invoke(catches) ==
  /\ MayThrow
  /\ Len(stack) < MaxStack
  /\ stack' = <<[invoked |-> TRUE, catches |-> catches, regions |-> <<>>]>> \o stack
  /\ Do("call") /\ UNCHANGED <<flag, thrown>>

Return ==
  /\ Running /\ Regions = <<>>
  /\ Returned(flag, thrown)
  /\ Do("return")

\* Mutant: the exception is not stored.
ThrowFlagOnly(e) ==
  /\ MayThrow /\ Regions = <<>>
  /\ ErrorReturn(thrown)
  /\ did' = [op |-> "throw", e |-> e]

(* __cxa_throw.  Where a function has handlers or cleanups of its own to   *)
(* run, it throws by an invoke of __cxa_throw, which is not lowered.       *)
Throw(e) ==
  /\ MayThrow /\ Regions = <<>>
  /\ ErrorReturn(e)
  /\ did' = [op |-> "throw", e |-> e]

(* __cxa_rethrow, which throws what was thrown last.                       *)
Handles(frame) == {i \in DOMAIN frame.regions : frame.regions[i].k = "handler"}
HandledLast(e) ==
  \E f \in DOMAIN stack : \E r \in Handles(stack[f]) :
    /\ e = stack[f].regions[r].e
    /\ \A g \in 1..(f - 1) : Handles(stack[g]) = {}
    /\ \A q \in Handles(stack[f]) : r <= q

Rethrow ==
  /\ MayThrow /\ Regions = <<>>
  /\ \E e \in Exc : HandledLast(e) /\ ("late" \in Features \/ e = thrown)
  /\ ErrorReturn(thrown)
  /\ Do("rethrow")

(* resume, where the pad's handlers were compared with the selector, 0,    *)
(* that the lowered pad gives: no handler for a type is ever chosen.       *)
Resume ==
  /\ Running /\ In("pad") /\ Head(Regions).catches # Exc
  /\ ErrorReturn(thrown)
  /\ Do("resume")

\* Mutant: the flag stays set.
BeginCatchSet ==
  /\ Running /\ In("pad") /\ Head(Regions).catches = Exc
  /\ stack' = SetRegions(stack, <<[k |-> "handler", e |-> thrown]>> \o Tail(Regions))
  /\ Do("begin_catch") /\ UNCHANGED <<flag, thrown>>

(* __cxa_begin_catch.                                                      *)
BeginCatch ==
  /\ Running /\ In("pad") /\ Head(Regions).catches = Exc
  /\ stack' = SetRegions(stack, <<[k |-> "handler", e |-> thrown]>> \o Tail(Regions))
  /\ flag' = FALSE
  /\ Do("begin_catch") /\ UNCHANGED thrown

(* __cxa_end_catch is removed.                                             *)
EndCatch ==
  /\ GoesOn /\ In("handler")
  /\ stack' = SetRegions(stack, Tail(Regions))
  /\ Do("end_catch") /\ UNCHANGED <<flag, thrown>>

Next ==
  \/ Call \/ (\E catches \in Handlers : Invoke(catches)) \/ Return
  \/ (\E e \in Exc : Throw(e)) \/ Rethrow \/ Resume \/ BeginCatch \/ EndCatch

Spec == Init /\ [][Next]_vars
=============================================================================
