----------------------------- MODULE MCTopLevel -----------------------------
(***************************************************************************)
(* One included directory; Orig is where SAW was started.                  *)
(***************************************************************************)
EXTENDS TopLevelProperties

OneDir == {"sub"}
=============================================================================
