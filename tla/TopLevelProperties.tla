------------------------- MODULE TopLevelProperties -------------------------
(***************************************************************************)
(* What the interpreter's state must satisfy, whatever failed before.      *)
(***************************************************************************)
EXTENDS TopLevel

(* Every state component has its type.                                     *)
TypeOK ==
  /\ kernel \in Kernel
  /\ rw \in RW
  /\ cwd \in Dir \cup {Orig}
  /\ stack \in Seq(Frame)
  /\ raised \in Exception
  /\ \A c \in DOMAIN chks : chks[c].rw \in RW /\ chks[c].chk \in Kernel /\ chks[c].calls \in Seq(Frame)

(* No statement of a script can come upon a term that was rolled back: not *)
(* in a SAWScript scope, not in Cryptol's, not in a theorem, and not in    *)
(* the SharedContext's own environments.                                   *)
Held(state) == state.theorems \cup (UNION {state.env[i].terms : i \in DOMAIN state.env})
                              \cup (UNION {state.cry[i] : i \in DOMAIN state.cry})

EnvironmentLive ==
  /\ raised = NoException /\ stack # <<>> /\ Top.k # "restoring" =>
       Held(rw) \cap kernel.stale = {}
  /\ kernel.globals \cap kernel.stale = {}

(* The two stacks of scopes stay in step: every name bound in a SAWScript  *)
(* scope is visible in the Cryptol scope that mirrors it, and what is      *)
(* visible in a scope is visible in the scopes inside it.                  *)
MirrorAgrees ==
  /\ Len(rw.env) = Len(rw.cry)
  /\ \A i, j \in DOMAIN rw.env : i <= j => rw.env[j].terms \cup rw.cry[j] \subseteq rw.cry[i]

(* A command of the REPL that fails is undone: whatever handlers, blocks   *)
(* and checkpoints it went through, and wherever it was stopped, the REPL  *)
(* goes on with the interpreter state, the kernel environments and the     *)
(* valid terms that it had before.                                         *)
FailuresUndone ==
  [][\A f \in {stack[i] : i \in DOMAIN stack} :
       /\ raised.k \in {"error", "timeout"} /\ f = Head(stack) /\ f.k = "command" /\ Len(stack') < Len(stack)
       => /\ raised' = NoException
          /\ rw' = f.rw
          /\ kernel'.globals = f.chk.globals
          /\ kernel'.stale = f.chk.stale \cup (f.chk.next..(kernel.next - 1))]_vars

(* "Directory stack ran out" (popdir): the directory stack has an entry    *)
(* for each include that is being executed, whichever of them failures,    *)
(* handlers and checkpoints gave up or brought back.                       *)
IncludesBalanced ==
  raised = NoException /\ stack # <<>> /\ Top.k # "restoring" =>
    Len(rw.dirs) = Cardinality({i \in DOMAIN stack : stack[i].k = "include"})
=============================================================================
