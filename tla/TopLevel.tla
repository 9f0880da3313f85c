------------------------------ MODULE TopLevel ------------------------------
(***************************************************************************)
(* The state of the SAWScript interpreter (TopLevelRW) and the ways back   *)
(* from a failure: the REPL's error handler, fails, timeout_handle and     *)
(* scripts' own checkpoints, over blocks, included files and subshells.    *)
(*                                                                         *)
(* A Haskell exception forgets whatever the StateT layer inside a handler  *)
(* had done, because handlers run their action on a copy of TopLevelRW     *)
(* (runTopLevel).  It does not touch what is behind IORefs, the            *)
(* SharedContext, nor the process's working directory.  Of the             *)
(* SharedContext, which has a module of its own, there is here what        *)
(* matters to its users: which terms it takes for valid, and which of them *)
(* its environments hold.                                                  *)
(***************************************************************************)
EXTENDS Naturals, Sequences, FiniteSets

CONSTANTS
  Dir,        \* directories of included files
  Orig,       \* the directory SAW was started in
  Scoped,     \* whether scripts keep to the scopes of their checkpoints
  \* Bounds:
  MaxTerms, MaxCheckpoints, MaxDepth

ASSUME TopLevelAssumption ==
  /\ Orig \notin Dir
  /\ Scoped \in BOOLEAN
  /\ MaxTerms \in Nat /\ MaxCheckpoints \in Nat /\ MaxDepth \in Nat

VARIABLES
  kernel,   \* the SharedContext: the next term, the terms that are stale, those in its environments
  rw,       \* the TopLevelRW
  cwd,      \* the working directory of the process
  stack,    \* what is being executed, innermost first
  raised,   \* the exception on its way to a handler
  chks      \* the checkpoints that scripts have taken

vars == <<kernel, rw, cwd, stack, raised, chks>>

Term == 0..(MaxTerms - 1)
CheckpointId == 1..MaxCheckpoints

(* Scopes are innermost first.  One of the variable environment binds      *)
(* names to terms and to checkpoints; one of the Cryptol environment has   *)
(* everything that is visible in it.                                       *)
Scope == [terms : SUBSET Term, chks : SUBSET CheckpointId]
RW == [env : Seq(Scope), cry : Seq(SUBSET Term), theorems : SUBSET Term, dirs : Seq(Dir)]
Kernel == [next : 0..MaxTerms, stale : SUBSET Term, globals : SUBSET Term]

(* Of a SharedContextCheckpoint the code keeps next and globals; stale is  *)
(* for the properties only.                                                *)
Frame ==
  [k : {"shell", "include"}]
    \cup [k : {"file"}, cwd : Dir \cup {Orig}]
    \cup [k : {"command", "timeout"}, rw : RW, chk : Kernel]
    \cup [k : {"fails"}, rw : RW]
    \cup [k : {"block"}, env : Seq(Scope), cry : Seq(SUBSET Term)]
    \cup [k : {"restoring"}, rw : RW, chk : Kernel, todo : {"terms", "rw"}]

Exception ==
  [k : {"none", "error", "exit"}, at : {0}] \cup [k : {"timeout"}, at : Nat \ {0}]

NoException == [k |-> "none", at |-> 0]
Raise(kind) == [k |-> kind, at |-> 0]

Init ==
  /\ kernel = [next |-> 0, stale |-> {}, globals |-> {}]
  /\ rw = [env |-> <<[terms |-> {}, chks |-> {}]>>, cry |-> <<{}>>, theorems |-> {}, dirs |-> <<>>]
  /\ cwd = Orig
  /\ stack \in {<<[k |-> "shell"]>>, <<[k |-> "file", cwd |-> Orig]>>}
  /\ raised = NoException
  /\ chks = <<>>

-----------------------------------------------------------------------------
Top == Head(stack)
Is(kind) == stack # <<>> /\ Top.k = kind
AtPrompt == raised = NoException /\ Is("shell")

Handlers == {f \in {stack[i] : i \in DOMAIN stack} : f.k \in {"command", "timeout"}}

(* A script's checkpoint has gone back past the one that a handler holds.  *)
(* Scripts that keep to scopes do nothing more under such a handler.       *)
Overtaken(f) ==
  \/ f.chk.next \in kernel.stale
  \/ \E t \in kernel.stale \ f.chk.stale : t < f.chk.next
InScope == Scoped => \A f \in Handlers : ~ Overtaken(f)

(* Statements are being executed.                                          *)
Running == raised = NoException /\ stack # <<>> /\ Top.k \notin {"shell", "restoring"} /\ InScope

(* The bound is on what is nested in what: the one command in a shell and  *)
(* the one restore in a statement do not count.                            *)
Nested(frames) == Len(SelectSeq(frames, LAMBDA f : f.k \notin {"command", "restoring"}))
Push(frame) == stack' = <<frame>> \o stack /\ Nested(stack') <= MaxDepth
Pop == stack' = Tail(stack)

\* Mutant: the Cryptol scope starts empty.
pushScopeEmpty(state) ==
  [state EXCEPT !.env = <<[terms |-> {}, chks |-> {}]>> \o @, !.cry = <<{}>> \o @]

pushScope(state) ==
  [state EXCEPT !.env = <<[terms |-> {}, chks |-> {}]>> \o @, !.cry = <<Head(@)>> \o @]
popScope(state) == [state EXCEPT !.env = Tail(@), !.cry = Tail(@)]

-----------------------------------------------------------------------------
(* Statements.                                                             *)

NewTerm(globals) ==
  /\ kernel.next < MaxTerms
  /\ kernel' = [kernel EXCEPT !.next = @ + 1, !.globals = @ \cup globals]

(* A term is bound to a name, in SAWScript and in Cryptol.                 *)
ExtendEnv ==
  /\ Running
  /\ NewTerm({})
  /\ rw' = [rw EXCEPT !.env[1].terms = @ \cup {kernel.next}, !.cry[1] = @ \cup {kernel.next}]
  /\ UNCHANGED <<cwd, stack, raised, chks>>

(* Cryptol declarations become constants of the SharedContext; an error    *)
(* may strike when some already are.                                       *)
ParseDecls ==
  /\ Running
  /\ NewTerm({kernel.next})
  /\ \/ rw' = [rw EXCEPT !.cry[1] = @ \cup {kernel.next}] /\ UNCHANGED raised
     \/ raised' = Raise("error") /\ UNCHANGED rw
  /\ UNCHANGED <<cwd, stack, chks>>

Prove ==
  /\ Running
  /\ NewTerm({})
  /\ rw' = [rw EXCEPT !.theorems = @ \cup {kernel.next}]
  /\ UNCHANGED <<cwd, stack, raised, chks>>

(* Handlers that keep apart have a term made between their checkpoints and *)
(* those of the handlers round them.                                       *)
Apart == Scoped => \A f \in Handlers : f.chk.next < kernel.next

(* The calls that a checkpoint is taken in: scripts that keep to scopes    *)
(* invoke it in the same ones, in the same command of a REPL or a later.   *)
Calls == IF Is("command") THEN Tail(stack) ELSE stack

(* Taken before its value is bound.                                        *)
Checkpoint ==
  /\ Running
  /\ Apart
  /\ Len(chks) < MaxCheckpoints
  /\ chks' = Append(chks, [rw |-> rw, chk |-> kernel, calls |-> Calls])
  /\ rw' = [rw EXCEPT !.env[1].chks = @ \cup {Len(chks) + 1}]
  /\ UNCHANGED <<kernel, cwd, stack, raised>>

EnterBlock ==
  /\ Running
  /\ Push([k |-> "block", env |-> rw.env, cry |-> rw.cry])
  /\ \E n \in DOMAIN rw.env :   \* the block or function may have been written in an outer scope
       rw' = pushScope([rw EXCEPT !.env = SubSeq(@, n, Len(@)), !.cry = SubSeq(@, n, Len(@))])
  /\ UNCHANGED <<kernel, cwd, raised, chks>>

(* popScope, whose result is then replaced.                                *)
LeaveBlock ==
  /\ raised = NoException /\ Is("block")
  /\ Pop
  /\ rw' = [rw EXCEPT !.env = Top.env, !.cry = Top.cry]
  /\ UNCHANGED <<kernel, cwd, raised, chks>>

Include(d) ==
  /\ Running
  /\ Push([k |-> "include"])
  /\ rw' = [rw EXCEPT !.dirs = <<d>> \o @]
  /\ cwd' = d
  /\ UNCHANGED <<kernel, raised, chks>>

DirOf(state) == IF state.dirs = <<>> THEN Orig ELSE Head(state.dirs)

EndInclude ==
  /\ raised = NoException /\ Is("include")
  /\ Pop
  /\ rw' = [rw EXCEPT !.dirs = Tail(@)]
  /\ cwd' = DirOf(rw')
  /\ UNCHANGED <<kernel, raised, chks>>

(* An error, or exit.  Exceptions that no handler takes, panics for one,   *)
(* end the process and are left out.                                       *)
Fail ==
  /\ Running
  /\ raised' \in {Raise("error"), Raise("exit")}
  /\ UNCHANGED <<kernel, rw, cwd, stack, chks>>

-----------------------------------------------------------------------------
(* fails and timeout_handle, on a copy of the state.                       *)

EnterFails ==
  /\ Running
  /\ Push([k |-> "fails", rw |-> rw])
  /\ UNCHANGED <<kernel, rw, cwd, raised, chks>>

(* "Expected failure, but succeeded instead!"                              *)
EndFails ==
  /\ raised = NoException /\ Is("fails")
  /\ Pop
  /\ rw' = Top.rw
  /\ raised' = Raise("error")
  /\ UNCHANGED <<kernel, cwd, chks>>

EnterTimeout ==
  /\ Running
  /\ Apart
  /\ Push([k |-> "timeout", rw |-> rw, chk |-> kernel])
  /\ UNCHANGED <<kernel, rw, cwd, raised, chks>>

EndTimeout ==
  /\ raised = NoException /\ Is("timeout")
  /\ Pop
  /\ UNCHANGED <<kernel, rw, cwd, raised, chks>>

(* The time is up, whatever is being executed, a restore included.         *)
Alarm ==
  /\ raised = NoException
  /\ InScope
  /\ \E i \in DOMAIN stack :
       /\ stack[i].k = "timeout"
       /\ raised' = [k |-> "timeout", at |-> Len(stack) - i + 1]
  /\ UNCHANGED <<kernel, rw, cwd, stack, chks>>

-----------------------------------------------------------------------------
(* Restoring a checkpoint: the environments of the SharedContext, then its *)
(* terms, then the TopLevelRW, each step apart from the next.              *)

NotStale(chk) == chk.next \notin kernel.stale

RestoreEnvs(chk) == [kernel EXCEPT !.globals = chk.globals]

\* Mutant: the next term too.
RestoreTermsPast(k, chk) == [k EXCEPT !.stale = @ \cup (chk.next..k.next)]
RestoreTerms(k, chk) == [k EXCEPT !.stale = @ \cup (chk.next..(k.next - 1))]

(* The whole state that a checkpoint captured, with the current Cryptol    *)
(* environment's name supply: the stacks of scopes are zipped.             *)
\* Mutant: the current Cryptol environments are kept.
MergeNothing(chkrw, now) == [chkrw EXCEPT !.cry = now.cry]

MergeCryptol(chkrw, now) ==
  [chkrw EXCEPT !.cry = SubSeq(@, 1, IF Len(@) < Len(now.cry) THEN Len(@) ELSE Len(now.cry))]

Visible == UNION {rw.env[i].chks : i \in DOMAIN rw.env}

InvokeCheckpoint ==
  /\ Running
  /\ \E c \in Visible :
       /\ Scoped => chks[c].calls = Calls
       /\ IF NotStale(chks[c].chk)
          THEN /\ kernel' = RestoreEnvs(chks[c].chk)
               /\ Push([k |-> "restoring", rw |-> chks[c].rw, chk |-> chks[c].chk, todo |-> "terms"])
               /\ UNCHANGED raised
          ELSE /\ raised' = Raise("error")
               /\ UNCHANGED <<kernel, stack>>
  /\ UNCHANGED <<rw, cwd, chks>>

InvalidateTerms ==
  /\ raised = NoException /\ Is("restoring") /\ Top.todo = "terms"
  /\ kernel' = RestoreTerms(kernel, Top.chk)
  /\ stack' = [stack EXCEPT ![1].todo = "rw"]
  /\ UNCHANGED <<rw, cwd, raised, chks>>

PutTopLevelRW ==
  /\ raised = NoException /\ Is("restoring") /\ Top.todo = "rw"
  /\ rw' = MergeCryptol(Top.rw, rw)
  /\ Pop
  /\ UNCHANGED <<kernel, cwd, raised, chks>>

-----------------------------------------------------------------------------
(* The REPL.                                                               *)

StartCommand ==
  /\ AtPrompt
  /\ Apart
  /\ Push([k |-> "command", rw |-> rw, chk |-> kernel])
  /\ UNCHANGED <<kernel, rw, cwd, raised, chks>>

EndCommand ==
  /\ raised = NoException /\ Is("command")
  /\ Pop
  /\ UNCHANGED <<kernel, rw, cwd, raised, chks>>

Subshell ==
  /\ Running
  /\ Push([k |-> "shell"])
  /\ rw' = pushScope(rw)
  /\ UNCHANGED <<kernel, cwd, raised, chks>>

(* At the end of its input.                                                *)
EndShell ==
  /\ AtPrompt
  /\ Pop
  /\ rw' = IF Len(stack) = 1 THEN rw ELSE popScope(rw)
  /\ UNCHANGED <<kernel, cwd, raised, chks>>

EndFile ==
  /\ raised = NoException /\ Is("file")
  /\ Pop
  /\ cwd' = Top.cwd
  /\ UNCHANGED <<kernel, rw, raised, chks>>

-----------------------------------------------------------------------------
(* An exception meets the innermost frame.                                 *)

Raised == raised # NoException /\ stack # <<>>

Unwind ==
  /\ Raised
  /\ \/ Top.k \in {"block", "include", "restoring", "shell"}
     \/ Top.k = "fails" /\ raised.k = "timeout"
     \/ Top.k = "timeout" /\ raised # [k |-> "timeout", at |-> Len(stack)]
     \/ Top.k = "command" /\ raised.k = "exit"
  /\ Pop
  /\ UNCHANGED <<kernel, rw, cwd, raised, chks>>

UnwindFile ==
  /\ Raised /\ Top.k = "file"
  /\ Pop
  /\ cwd' = Top.cwd
  /\ UNCHANGED <<kernel, rw, raised, chks>>

\* Mutant: what the failed action did to the state stays.
FailsKeeps ==
  /\ Raised /\ Top.k = "fails"
  /\ raised.k \in {"error", "exit"}
  /\ Pop
  /\ raised' = NoException
  /\ UNCHANGED <<kernel, rw, cwd, chks>>

FailsCatches ==
  /\ Raised /\ Top.k = "fails"
  /\ raised.k \in {"error", "exit"}
  /\ Pop
  /\ rw' = Top.rw
  /\ raised' = NoException
  /\ UNCHANGED <<kernel, cwd, chks>>

(* Then the handler, which is more statements, is executed.                *)
TimeoutHandle ==
  /\ Raised /\ Top.k = "timeout"
  /\ raised = [k |-> "timeout", at |-> Len(stack)]
  /\ rw' = Top.rw
  /\ IF NotStale(Top.chk)
     THEN /\ kernel' = RestoreEnvs(Top.chk)
          /\ stack' = <<[k |-> "restoring", rw |-> Top.rw, chk |-> Top.chk, todo |-> "terms"]>> \o Tail(stack)
          /\ raised' = NoException
     ELSE /\ raised' = Raise("error")
          /\ Pop
          /\ UNCHANGED kernel
  /\ UNCHANGED <<cwd, chks>>

(* Mutant: the REPL state is put back and the kernel's terms are not.      *)
CaptureEnvs(f) ==
  IF NotStale(f.chk)
  THEN /\ kernel' = RestoreEnvs(f.chk)
       /\ rw' = MergeCryptol(f.rw, f.rw)
       /\ raised' = NoException
  ELSE UNCHANGED <<kernel, rw>> /\ raised' = Raise("error")

CaptureError(f) ==
  IF NotStale(f.chk)
  THEN /\ kernel' = RestoreTerms(RestoreEnvs(f.chk), f.chk)
       /\ rw' = MergeCryptol(f.rw, f.rw)
       /\ raised' = NoException
  ELSE UNCHANGED <<kernel, rw>> /\ raised' = Raise("error")

(* exceptionProtect, which takes a Timeout for one more kind of error.     *)
ExceptionProtect ==
  /\ Raised /\ Top.k = "command"
  /\ raised.k \in {"error", "timeout"}
  /\ CaptureError(Top)
  /\ Pop
  /\ UNCHANGED <<cwd, chks>>

-----------------------------------------------------------------------------
Next ==
  \/ ExtendEnv \/ ParseDecls \/ Prove \/ Checkpoint
  \/ EnterBlock \/ LeaveBlock \/ (\E d \in Dir : Include(d)) \/ EndInclude \/ Fail
  \/ EnterFails \/ EndFails \/ EnterTimeout \/ EndTimeout \/ Alarm
  \/ InvokeCheckpoint \/ InvalidateTerms \/ PutTopLevelRW
  \/ StartCommand \/ EndCommand \/ Subshell \/ EndShell \/ EndFile
  \/ Unwind \/ UnwindFile \/ FailsCatches \/ TimeoutHandle \/ ExceptionProtect

Spec == Init /\ [][Next]_vars
=============================================================================
