-------------------------- MODULE MCExceptionLower --------------------------
(***************************************************************************)
(* Two types of exceptions.                                                *)
(***************************************************************************)
EXTENDS ExceptionLowerProperties

Types == {"int", "runtime_error"}
NoFeature == {}
PlainCalls == {"plain"}
Cleanups == {"cleanup"}
TypedHandlers == {"typed"}
LateRethrows == {"late"}
=============================================================================
