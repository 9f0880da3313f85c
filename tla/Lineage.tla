------------------------------ MODULE Lineage ------------------------------
(***************************************************************************)
(* What bracketing a command with a kernel checkpoint promises: nested     *)
(* transactions over a set of live terms and a set of bindings.  A rollback*)
(* puts both back to what they were when the transaction began, and a term *)
(* that was rolled back is never live again.                               *)
(***************************************************************************)
EXTENDS Integers, Sequences

VARIABLES live,   \* the terms that may be used
          ever,   \* the terms that were ever made
          env,    \* the bindings in force
          saved   \* what each open transaction goes back to

lvars == <<live, ever, env, saved>>

Init == live = {} /\ ever = {} /\ env = {} /\ saved = <<>>

Make(t) ==
  /\ t \notin ever
  /\ live' = live \cup {t}
  /\ ever' = ever \cup {t}
  /\ UNCHANGED <<env, saved>>

Bind ==
  /\ env \subseteq env'
  /\ UNCHANGED <<live, ever, saved>>

Begin ==
  /\ saved' = Append(saved, [live |-> live, env |-> env])
  /\ UNCHANGED <<live, ever, env>>

Pop ==
  /\ saved # <<>>
  /\ saved' = SubSeq(saved, 1, Len(saved) - 1)
  /\ UNCHANGED ever

Commit == Pop /\ UNCHANGED <<live, env>>

Rollback ==
  /\ Pop
  /\ live' = saved[Len(saved)].live
  /\ env' = saved[Len(saved)].env

Next ==
  \/ \E t \in ever' : Make(t)
  \/ Bind \/ Begin \/ Commit \/ Rollback

Spec == Init /\ [][Next]_lvars
=============================================================================
