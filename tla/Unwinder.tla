------------------------------ MODULE Unwinder ------------------------------
(***************************************************************************)
(* C++ exceptions as a program that has not been lowered sees them: an     *)
(* exception leaves one function after the other until it comes to a call  *)
(* with a landing pad.  The pad catches what it has a handler for; else it *)
(* cleans up and the exception goes on.                                    *)
(***************************************************************************)
EXTENDS Naturals, Sequences

CONSTANTS
  Exc,    \* exceptions, by type
  None    \* none of them

VARIABLES
  stack,    \* the functions that are being executed, innermost first
  flying,   \* the exception that is leaving the innermost of them
  did       \* the instruction of the program that was executed last

(* A function knows whether it was called with a landing pad (invoke) and  *)
(* what that pad catches; and it is inside pads and handlers of its own.   *)
Region == [k : {"pad"}, e : Exc, catches : SUBSET Exc] \cup [k : {"handler"}, e : Exc]
Function == [invoked : BOOLEAN, catches : SUBSET Exc, regions : Seq(Region)]

Entered(invoked, catches) == [invoked |-> invoked, catches |-> catches, regions |-> <<>>]

(* An instruction, and the exception that a throw names.                   *)
Do(op) == did' = [op |-> op, e |-> None]

Init == stack = <<Entered(FALSE, {})>> /\ flying = None /\ did = [op |-> "call", e |-> None]

Running == stack # <<>> /\ flying = None
Regions == Head(stack).regions
In(kind) == Regions # <<>> /\ Head(Regions).k = kind

(* The innermost function's regions become these.                          *)
SetRegions(frames, regions) == [frames EXCEPT ![1].regions = regions]

Landed(frames, function, e) ==
  SetRegions(frames, <<[k |-> "pad", e |-> e, catches |-> function.catches]>> \o Head(frames).regions)

Leave(e) ==
  IF Head(stack).invoked
  THEN stack' = Landed(Tail(stack), Head(stack), e) /\ flying' = None
  ELSE stack' = Tail(stack) /\ flying' = e

Call(invoked, catches) ==
  /\ Running
  /\ stack' = <<Entered(invoked, catches)>> \o stack
  /\ Do("call") /\ UNCHANGED flying

Return == Running /\ Regions = <<>> /\ stack' = Tail(stack) /\ Do("return") /\ UNCHANGED flying

Throw(e) == Running /\ Leave(e) /\ did' = [op |-> "throw", e |-> e]

(* The rest of the function is not executed.                               *)
Unwind == stack # <<>> /\ flying # None /\ Leave(flying) /\ Do("return")

BeginCatch ==
  /\ Running /\ In("pad") /\ Head(Regions).e \in Head(Regions).catches
  /\ stack' = SetRegions(stack, <<[k |-> "handler", e |-> Head(Regions).e]>> \o Tail(Regions))
  /\ Do("begin_catch") /\ UNCHANGED flying

EndCatch ==
  /\ Running /\ In("handler")
  /\ stack' = SetRegions(stack, Tail(Regions))
  /\ Do("end_catch") /\ UNCHANGED flying

Resume ==
  /\ Running /\ In("pad") /\ Head(Regions).e \notin Head(Regions).catches
  /\ Leave(Head(Regions).e)
  /\ Do("resume")

(* Throws the exception of the handler that was entered last, in whatever  *)
(* function.                                                               *)
Handles(frame) == {i \in DOMAIN frame.regions : frame.regions[i].k = "handler"}
Handled(e) ==
  \E f \in DOMAIN stack : \E r \in Handles(stack[f]) :
    /\ e = stack[f].regions[r].e
    /\ \A g \in 1..(f - 1) : Handles(stack[g]) = {}
    /\ \A q \in Handles(stack[f]) : r <= q

Rethrow ==
  /\ Running
  /\ \E e \in Exc : Handled(e) /\ Leave(e)
  /\ Do("rethrow")

Next ==
  \/ \E invoked \in BOOLEAN, catches \in SUBSET Exc : Call(invoked, catches)
  \/ (\E e \in Exc : Throw(e))
  \/ Return \/ Unwind \/ BeginCatch \/ EndCatch \/ Resume \/ Rethrow

Spec == Init /\ [][Next]_<<stack, flying, did>>
=============================================================================
