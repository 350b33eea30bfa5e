-------------------------------- MODULE Builds --------------------------------
(***************************************************************************)
(* What tool calls do to the workspace: the scratch directory of a call    *)
(* (workspace.rs, TempScope) and the proving keys in the target directory  *)
(* that `compile` calls share (toolchain/compile.rs, keys_present).        *)
(*                                                                         *)
(* This is ToolCall with the files.  `compile` with inline source and      *)
(* `witness_scaffold` make their scratch directory before they ask for a   *)
(* permit and drop it after the permit; `format` makes and drops that of   *)
(* its copy while it owns the permit.  Scratch names are random, so each   *)
(* call has its own.  What the subprocess does to the files is the         *)
(* compiler's, and a step of its own as long as a process of the group     *)
(* lives.                                                                  *)
(***************************************************************************)
EXTENDS ToolCall

\* build      compile of a path, skip_zk: false
\* quick      compile of a path, skip_zk: true
\* inline     compile of inline source, skip_zk: true
\* scaffold   witness_scaffold, of a path or of inline source
\* format     format or fixup with write: false
\* rewrite    format or fixup with write: true
Jobs == {"build", "quick", "inline", "scaffold", "format", "rewrite"}

EarlyScratch == {"inline", "scaffold"}
UsesScratch == EarlyScratch \cup {"format"}
\* Those who build into the shared target directory.
Compiles == {"build", "quick", "inline"}

VARIABLES
  job,      \* what each call was asked for, or "none"
  scratch,  \* its scratch directory, see ScratchStates
  keys,     \* whether <target_dir>/keys has an entry
  said      \* the proving_keys each call reported: "yes", "no" or "none"

fileVars == <<job, scratch, keys, said>>
buildVars == <<running, line, pc, fired, runs, alive, reap, job, scratch, keys, said>>

\* none, there, removed, or left behind after its removal
ScratchStates == {"none", "kept", "removed", "litter"}

BuildsInit ==
  /\ CallInit
  /\ job = [c \in Calls |-> "none"]
  /\ scratch = [c \in Calls |-> "none"]
  /\ keys = FALSE
  /\ said = [c \in Calls |-> "none"]

-----------------------------------------------------------------------------
(* Before the gate *)

\* The handler up to acquire_gate.
Prepare(c, j) ==
  /\ pc[c] = "idle" /\ job[c] = "none"
  /\ job' = [job EXCEPT ![c] = j]
  /\ scratch' = [scratch EXCEPT ![c] = IF j \in EarlyScratch THEN "kept" ELSE "none"]
  /\ UNCHANGED <<keys, said>> /\ UNCHANGED callVars

\* Seeded fault: the scope is bound in the match arm that makes it.
Enter_Unscoped(c) ==
  /\ job[c] # "none"
  /\ Ask(c)
  /\ scratch' = [scratch EXCEPT ![c] = IF @ = "kept" THEN "removed" ELSE @]
  /\ UNCHANGED <<job, keys, said>>

Enter(c) == job[c] # "none" /\ Ask(c) /\ UNCHANGED fileVars

\* Seeded fault: a rejected call leaves its scratch directory.
Turned_Leaves(c) ==
  /\ pc[c] = "idle" /\ job[c] # "none"
  /\ job' = [job EXCEPT ![c] = "none"]
  /\ UNCHANGED <<scratch, keys, said>> /\ UNCHANGED callVars

\* Rejected by a full queue or a token that has fired; the scope drops on the
\* way out.
Turned(c) ==
  /\ pc[c] = "idle" /\ job[c] # "none"
  /\ job' = [job EXCEPT ![c] = "none"]
  /\ scratch' = [scratch EXCEPT ![c] = IF @ = "kept" THEN "removed" ELSE @]
  /\ UNCHANGED <<keys, said>> /\ UNCHANGED callVars

-----------------------------------------------------------------------------
(* With the permit *)

\* One subprocess per call; `format` copies the file before its run looks at
\* the token.
Check(c) ==
  /\ PassCheck(c)
  /\ runs[c] = 0
  /\ scratch' = [scratch EXCEPT ![c] = IF job[c] = "format" THEN "kept" ELSE @]
  /\ UNCHANGED <<job, keys, said>>

Begin(c) == Launch(c) /\ UNCHANGED fileVars

\* A removal beside a live process may fail half way, and is only logged.
Removals(c) == IF alive[c] = {} THEN {"removed"} ELSE {"removed", "litter"}

\* The scope of `format` drops before the permit, in the step that ends the call.
FormatScopeDrops(c) ==
  IF job[c] = "format" /\ scratch[c] = "kept"
  THEN \E s \in Removals(c) : scratch' = [scratch EXCEPT ![c] = s]
  ELSE UNCHANGED scratch

\* The call returns without an outcome: the spawn failed, or it was refused.
Fail(c) ==
  /\ GiveUp(c)
  /\ runs[c] = 0
  /\ FormatScopeDrops(c)
  /\ UNCHANGED <<job, keys, said>>

\* The proving_keys that may be reported: exit status zero makes `compile` look
\* at the target directory, 255 is a diagnostic, any other code an error.
Answers(c) ==
  IF job[c] \notin Compiles THEN {"none"}
  ELSE {"none", "no"} \cup (IF keys THEN {"yes"} ELSE {})

\* The subprocess's output was taken, and its exit status decides.
Conclude(c) ==
  /\ GiveUp(c)
  /\ runs[c] = 1
  /\ \E answer \in Answers(c) : said' = [said EXCEPT ![c] = answer]
  /\ FormatScopeDrops(c)
  /\ UNCHANGED <<job, keys>>

\* Cancelled, timed out, or dropped.
Abort(c) ==
  /\ Reaped(c) \/ CancelQueued(c) \/ DropQueued(c) \/ DropSelecting(c) \/ DropReaping(c)
  /\ FormatScopeDrops(c)
  /\ UNCHANGED <<job, keys, said>>

\* The scope of the others drops after the permit: TempScope::drop.
Clean(c) ==
  /\ pc[c] \in {"returned", "dropped"}
  /\ scratch[c] = "kept"
  /\ \E s \in Removals(c) : scratch' = [scratch EXCEPT ![c] = s]
  /\ UNCHANGED <<job, keys, said>> /\ UNCHANGED callVars

\* What leaves the files alone.
Quiet(c) ==
  /\ \/ Served(c) \/ Fire(c) \/ Arm(c) \/ Pool(c) \/ Fork(c) \/ Exit(c)
  /\ UNCHANGED fileVars

-----------------------------------------------------------------------------
(* The compiler *)

\* A full build puts keys into the target directory; a skip_zk build never
\* does, and may or may not remove those it finds.  A scaffold's build creates
\* its target in the scratch directory, also after that was removed.
Touch(c) ==
  /\ alive[c] # {}
  /\ \/ job[c] = "build" /\ keys' = TRUE /\ UNCHANGED scratch
     \/ job[c] \in {"quick", "inline"} /\ keys' = FALSE /\ UNCHANGED scratch
     \/ /\ job[c] = "scaffold" /\ scratch[c] = "removed"
        /\ scratch' = [scratch EXCEPT ![c] = "litter"]
        /\ UNCHANGED keys
  /\ UNCHANGED <<job, said>> /\ UNCHANGED callVars

\* The call was answered; what it left is on record, and its id is free.
Close(c) ==
  /\ Forget(c)
  /\ pc[c] = "idle" => job[c] = "none"
  /\ scratch[c] # "kept"
  /\ job' = [job EXCEPT ![c] = "none"]
  /\ scratch' = [scratch EXCEPT ![c] = "none"]
  /\ said' = [said EXCEPT ![c] = "none"]
  /\ UNCHANGED keys

BuildsNext ==
  \E c \in Calls :
    \/ \E j \in Jobs : Prepare(c, j)
    \/ Enter(c) \/ Turned(c) \/ Check(c) \/ Begin(c) \/ Fail(c) \/ Conclude(c)
    \/ Abort(c) \/ Clean(c) \/ Quiet(c) \/ Touch(c) \/ Close(c)

BuildsSpec == BuildsInit /\ [][BuildsNext]_buildVars

\* As TimedSpec: the runtime polls, timeouts and the pool's kills happen.
BuildsTimedSpec ==
  /\ BuildsSpec
  /\ \A c \in Calls :
       /\ WF_buildVars(Enter(c) \/ Turned(c))
       /\ WF_buildVars(Check(c) \/ Begin(c) \/ Fail(c) \/ Conclude(c))
       /\ WF_buildVars((Served(c) /\ UNCHANGED fileVars) \/ (CancelQueued(c) /\ Abort(c)))
       /\ WF_buildVars(Arm(c) /\ UNCHANGED fileVars)
       /\ WF_buildVars(Pool(c) /\ UNCHANGED fileVars)
       /\ WF_buildVars(Reaped(c) /\ Abort(c))
       /\ WF_buildVars(Clean(c))

-----------------------------------------------------------------------------
(* Properties *)

\* The scratch directory is there for as long as the call may read it: from the
\* check before its subprocess, while that runs and until its outcome is taken.
InputInPlace ==
  \A c \in Calls :
    /\ job[c] \in UsesScratch
    /\ \/ pc[c] \in {"spawning", "selecting", "reaping"}
       \/ pc[c] = "holding" /\ runs[c] > 0
    => scratch[c] = "kept"

\* A call that returns leaves nothing in the workspace, whatever way it ends:
\* its scratch directory goes after the last process that could write into it.
NothingLeft == \A c \in Calls : pc[c] = "returned" => scratch[c] # "litter"

\* Every scratch directory goes, the ones of rejected and dropped calls too.
ScratchGoes == \A c \in Calls : scratch[c] = "kept" ~> scratch[c] # "kept"

\* compile.rs:24, proving_keys is "Always reported so a `skip_zk` build is
\* never mistaken for a deployable one".
SkipZkHasNoKeys == \A c \in Calls : said[c] = "yes" => job[c] = "build"
=============================================================================
