---------------------- MODULE ExceptionLowerProperties ----------------------
(***************************************************************************)
(* What lowered programs promise to those who verify them.                 *)
(***************************************************************************)
EXTENDS ExceptionLower

(* Every state component has its type: a landing pad or a handler always   *)
(* has an exception, which has been stored before.                         *)
TypeOK ==
  /\ stack \in Seq(Function)
  /\ flag \in BOOLEAN
  /\ thrown \in Exc \cup {None}

(* The exception that is leaving a function is the last one that was       *)
(* thrown.  The flag is also set in cleanups, which have taken it in.      *)
Flying == IF flag /\ ~ InCleanup THEN thrown ELSE None

Source == INSTANCE Unwinder WITH flying <- Flying

(* A lowered program does what the program did that was lowered: it leaves *)
(* the same functions, enters the same pads and handlers with the same     *)
(* exceptions, and ends with the same one or without.                      *)
ImplementsUnwinder == Source!Spec

(* "__exclow_error_flag: 0 = normal, 1 = exception in flight"              *)
(* (exception-spec-commands-design.md): but for cleanups, no function is   *)
(* called, normally, with the flag set.                                    *)
FlagClear == [][Len(stack') > Len(stack) /\ ~ InCleanup => ~ flag]_vars
=============================================================================
