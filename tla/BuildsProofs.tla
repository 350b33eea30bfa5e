---------------------------- MODULE BuildsProofs ----------------------------
(***************************************************************************)
(* Proofs about Builds, for any finite set of calls, any number of permits *)
(* and places: the files do not change what a tool call does, so what      *)
(* ToolCallProofs proves holds here, and with it that a call which returns *)
(* leaves no scratch directory behind and that one which runs has its own. *)
(***************************************************************************)
EXTENDS Builds, ToolCallProofs

\* One call: what it was asked for, its scratch directory, its place, and the
\* number of subprocesses it has spawned.  The copy of `format` is there from the
\* check on, when nothing is spawned yet.
Neat(j, s, p, n) ==
  /\ j \in Jobs \cup {"none"} /\ s \in ScratchStates
  /\ p \in {"idle", "queued"} => n = 0
  /\ s = "litter" => p = "dropped"
  /\ j \in EarlyScratch /\ p \notin {"returned", "dropped"} => s = "kept"
  /\ j = "format" /\ p \in {"spawning", "selecting", "reaping"} => s = "kept"
  /\ j = "format" /\ p = "holding" /\ n > 0 => s = "kept"

FilesTyped ==
  DOMAIN job = Calls /\ DOMAIN scratch = Calls
  /\ job = [c \in Calls |-> job[c]] /\ scratch = [c \in Calls |-> scratch[c]]

AllNeat == \A c \in Calls : Neat(job[c], scratch[c], pc[c], runs[c])

BInv == IInv /\ FilesTyped /\ AllNeat

\* What a step that concerns the call c leaves of the others.
SparesFiles(c) ==
  \A d \in Calls \ {c} :
    job'[d] = job[d] /\ scratch'[d] = scratch[d] /\ pc'[d] = pc[d] /\ runs'[d] = runs[d]

\* What such a step must establish.
KeepsNeat(c) ==
  /\ FilesTyped'
  /\ SparesFiles(c)
  /\ Neat(job'[c], scratch'[c], pc'[c], runs'[c])

LEMMA NeatElsewhere ==
  ASSUME AllNeat, NEW c \in Calls, KeepsNeat(c)
  PROVE  AllNeat'
<1> SUFFICES ASSUME NEW d \in Calls
             PROVE  Neat(job'[d], scratch'[d], pc'[d], runs'[d])
  BY DEF AllNeat
<1>1. CASE d = c
  BY <1>1 DEF KeepsNeat
<1>2. CASE d # c
  BY <1>2 DEF KeepsNeat, SparesFiles, AllNeat
<1> QED
  BY <1>1, <1>2

-----------------------------------------------------------------------------
(* Builds is ToolCall with files *)

LEMMA StepIsCallStep == BuildsNext => [CallNext]_callVars
<1> SUFFICES ASSUME NEW c \in Calls,
                    \/ \E j \in Jobs : Prepare(c, j)
                    \/ Enter(c) \/ Turned(c) \/ Check(c) \/ Begin(c) \/ Fail(c)
                    \/ Conclude(c) \/ Abort(c) \/ Clean(c) \/ Quiet(c) \/ Touch(c) \/ Close(c)
             PROVE  [CallNext]_callVars
  BY DEF BuildsNext
<1>1. CASE \E j \in Jobs : Prepare(c, j)
  BY <1>1 DEF Prepare
<1>2. CASE Enter(c)
  BY <1>2 DEF Enter, CallNext
<1>3. CASE Turned(c) \/ Clean(c) \/ Touch(c)
  BY <1>3 DEF Turned, Clean, Touch
<1>4. CASE Check(c) \/ Begin(c) \/ Fail(c) \/ Conclude(c)
  BY <1>4 DEF Check, Begin, Fail, Conclude, CallNext, Proceed
<1>5. CASE Abort(c)
  BY <1>5 DEF Abort, CallNext, Proceed
<1>6. CASE Quiet(c)
  BY <1>6 DEF Quiet, CallNext, Proceed
<1>7. CASE Close(c)
  BY <1>7 DEF Close, CallNext
<1> QED
  BY <1>1, <1>2, <1>3, <1>4, <1>5, <1>6, <1>7

\* What a call does to the files changes nothing for the gate, the process
\* groups and the kills: everything proved of ToolCall holds of Builds.
THEOREM BuildsImplementsCalls == BuildsSpec => CallSpec
<1>1. BuildsInit => CallInit
  BY DEF BuildsInit
<1>2. [BuildsNext]_buildVars => [CallNext]_callVars
  BY StepIsCallStep DEF buildVars, callVars
<1> QED
  BY <1>1, <1>2, PTL DEF BuildsSpec, CallSpec

-----------------------------------------------------------------------------
(* The steps *)

\* What IInv says of a group: it ends with its call, or the call was dropped.
LEMMA QuietEnd ==
  ASSUME IInv, NEW c \in Calls,
         pc[c] \in {"idle", "queued", "holding", "spawning", "returned"}
  PROVE  alive[c] = {} /\ reap[c] = "none"
  BY DEF IInv, AllSound, Sound

LEMMA EarlySteps ==
  ASSUME BInv, NEW c \in Calls,
         (\E j \in Jobs : Prepare(c, j)) \/ Enter(c) \/ Turned(c)
  PROVE  KeepsNeat(c)
<1>1. CallTypeOK /\ FilesTyped /\ Neat(job[c], scratch[c], pc[c], runs[c])
  BY DEF BInv, IInv, AllNeat
<1>2. ASSUME NEW j \in Jobs, Prepare(c, j)
      PROVE  KeepsNeat(c)
  BY <1>1, <1>2
  DEF Prepare, callVars, KeepsNeat, FilesTyped, SparesFiles, Neat, CallTypeOK,
      ScratchStates, Jobs, EarlyScratch
<1>3. CASE Enter(c)
  <2>1. /\ pc' = [pc EXCEPT ![c] = "holding"] \/ pc' = [pc EXCEPT ![c] = "queued"]
        /\ pc[c] = "idle" /\ runs' = runs /\ UNCHANGED fileVars
    BY <1>3 DEF Enter, Ask, Goto
  <2> QED
    BY <1>1, <2>1
    DEF fileVars, KeepsNeat, FilesTyped, SparesFiles, Neat, CallTypeOK
<1>4. CASE Turned(c)
  BY <1>1, <1>4
  DEF Turned, callVars, KeepsNeat, FilesTyped, SparesFiles, Neat, CallTypeOK,
      ScratchStates, EarlyScratch, Jobs
<1> QED
  BY <1>2, <1>3, <1>4

LEMMA RunSteps ==
  ASSUME BInv, NEW c \in Calls, Check(c) \/ Begin(c) \/ Fail(c) \/ Conclude(c)
  PROVE  KeepsNeat(c)
<1>1. CallTypeOK /\ FilesTyped /\ Neat(job[c], scratch[c], pc[c], runs[c])
  BY DEF BInv, IInv, AllNeat
<1>2. CASE Check(c)
  BY <1>1, <1>2
  DEF Check, PassCheck, Goto, KeepsNeat, FilesTyped, SparesFiles, Neat, CallTypeOK,
      ScratchStates, EarlyScratch
<1>3. CASE Begin(c)
  BY <1>1, <1>3
  DEF Begin, Launch, Goto, fileVars, KeepsNeat, FilesTyped, SparesFiles, Neat,
      CallTypeOK, EarlyScratch
<1>4. CASE Fail(c) \/ Conclude(c)
  <2>1. pc[c] \in {"holding", "spawning"} /\ pc' = [pc EXCEPT ![c] = "returned"]
        /\ runs' = runs /\ job' = job /\ FormatScopeDrops(c)
    BY <1>4 DEF Fail, Conclude, GiveUp, Return, Goto
  <2>2. Removals(c) = {"removed"}
    BY <2>1, QuietEnd DEF BInv, Removals
  <2> QED
    BY <1>1, <2>1, <2>2
    DEF FormatScopeDrops, KeepsNeat, FilesTyped, SparesFiles, Neat, CallTypeOK,
        ScratchStates, EarlyScratch
<1> QED
  BY <1>2, <1>3, <1>4

LEMMA EndSteps ==
  ASSUME BInv, NEW c \in Calls, Abort(c) \/ Clean(c) \/ Close(c)
  PROVE  KeepsNeat(c)
<1>1. CallTypeOK /\ FilesTyped /\ Neat(job[c], scratch[c], pc[c], runs[c])
  BY DEF BInv, IInv, AllNeat
<1>2. CASE Abort(c)
  <2>1. /\ pc[c] \in {"queued", "selecting", "reaping"}
        /\ \/ pc' = [pc EXCEPT ![c] = "dropped"]
           \/ pc' = [pc EXCEPT ![c] = "returned"] /\ alive[c] = {}
        /\ runs' = runs /\ job' = job /\ FormatScopeDrops(c)
    <3>1. CASE Reaped(c)
      BY <1>2, <3>1 DEF Abort, Reaped, Return, Goto, BInv, IInv, AllSound, Sound
    <3>2. CASE CancelQueued(c)
      BY <1>2, <3>2, QuietEnd DEF Abort, CancelQueued, LeaveQueue, Goto, BInv
    <3>3. CASE DropQueued(c) \/ DropSelecting(c) \/ DropReaping(c)
      BY <1>2, <3>3
      DEF Abort, DropQueued, LeaveQueue, DropSelecting, DropReaping, Goto
    <3> QED
      BY <1>2, <3>1, <3>2, <3>3 DEF Abort
  <2> QED
    BY <1>1, <2>1
    DEF FormatScopeDrops, Removals, KeepsNeat, FilesTyped, SparesFiles, Neat, CallTypeOK,
        ScratchStates, EarlyScratch
<1>3. CASE Clean(c)
  <2>1. pc[c] = "returned" => Removals(c) = {"removed"}
    BY QuietEnd DEF BInv, Removals
  <2>2. Removals(c) \subseteq {"removed", "litter"}
    BY DEF Removals
  <2> QED
    BY <1>1, <1>3, <2>1, <2>2
    DEF Clean, callVars, KeepsNeat, FilesTyped, SparesFiles, Neat, CallTypeOK,
        ScratchStates, EarlyScratch
<1>4. CASE Close(c)
  BY <1>1, <1>4
  DEF Close, Forget, Goto, KeepsNeat, FilesTyped, SparesFiles, Neat, CallTypeOK,
      ScratchStates, EarlyScratch, Jobs
<1> QED
  BY <1>2, <1>3, <1>4

LEMMA QuietSteps ==
  ASSUME BInv, NEW c \in Calls, Quiet(c) \/ Touch(c)
  PROVE  KeepsNeat(c)
<1>1. CallTypeOK /\ FilesTyped /\ Neat(job[c], scratch[c], pc[c], runs[c])
  BY DEF BInv, IInv, AllNeat
<1>2. CASE Quiet(c)
  <2>1. /\ \/ pc' = pc
           \/ pc[c] = "queued" /\ pc' = [pc EXCEPT ![c] = "holding"]
           \/ pc[c] = "selecting" /\ pc' = [pc EXCEPT ![c] = "reaping"]
           \/ pc[c] = "selecting" /\ pc' = [pc EXCEPT ![c] = "holding"]
        /\ runs' = runs /\ UNCHANGED fileVars
    <3>1. CASE Served(c) \/ Fire(c)
      BY <1>2, <3>1 DEF Quiet, Served, Fire, Goto
    <3>2. CASE Arm(c)
      BY <1>2, <3>2 DEF Quiet, Arm, CancelArm, TimeoutArm, KillArm, OutputArm, Goto
    <3>3. CASE Pool(c) \/ Fork(c) \/ Exit(c)
      BY <1>2, <3>3 DEF Quiet, Pool, Term, Kill, Fork, Exit, CallKept
    <3> QED
      BY <1>2, <3>1, <3>2, <3>3 DEF Quiet
  <2> QED
    BY <1>1, <2>1
    DEF fileVars, KeepsNeat, FilesTyped, SparesFiles, Neat, CallTypeOK, EarlyScratch
<1>3. CASE Touch(c)
  <2>1. job[c] = "scaffold" /\ scratch[c] = "removed" => pc[c] = "dropped"
    <3>1. alive[c] # {} => pc[c] \in {"selecting", "reaping", "dropped"}
      BY DEF BInv, IInv, AllSound, Sound
    <3> QED
      BY <1>1, <1>3, <3>1 DEF Touch, Neat, EarlyScratch
  <2> QED
    BY <1>1, <1>3, <2>1
    DEF Touch, callVars, KeepsNeat, FilesTyped, SparesFiles, Neat, CallTypeOK,
        ScratchStates, EarlyScratch
<1> QED
  BY <1>2, <1>3

-----------------------------------------------------------------------------
LEMMA InitBInv == BuildsInit => BInv
<1> SUFFICES ASSUME BuildsInit PROVE BInv
  OBVIOUS
<1>1. IInv
  BY InitIInv DEF BuildsInit
<1>2. FilesTyped /\ AllNeat
  BY DEF BuildsInit, CallInit, FilesTyped, AllNeat, Neat, ScratchStates, EarlyScratch
<1> QED
  BY <1>1, <1>2 DEF BInv

LEMMA NextBInv == BInv /\ [BuildsNext]_buildVars => BInv'
<1> SUFFICES ASSUME BInv, [BuildsNext]_buildVars PROVE BInv'
  OBVIOUS
<1>1. IInv'
  BY StepIsCallStep, NextIInv DEF BInv, buildVars, callVars
<1>2. CASE BuildsNext
  <2>1. PICK c \in Calls : KeepsNeat(c)
    BY <1>2, EarlySteps, RunSteps, EndSteps, QuietSteps DEF BuildsNext
  <2> QED
    BY <1>1, <2>1, NeatElsewhere DEF BInv, KeepsNeat
<1>3. CASE UNCHANGED buildVars
  BY <1>1, <1>3 DEF buildVars, BInv, FilesTyped, AllNeat
<1> QED
  BY <1>2, <1>3

THEOREM BuildsInvariant == BuildsSpec => []BInv
<1> QED
  BY InitBInv, NextBInv, PTL DEF BuildsSpec

\* tools/compile.rs, "`_scope` must stay alive": a call that runs or reads its
\* outcome has its scratch directory.
THEOREM InputStaysInPlace == BuildsSpec => []InputInPlace
<1>1. BInv => InputInPlace
  BY DEF BInv, AllNeat, Neat, UsesScratch, InputInPlace
<1> QED
  BY <1>1, BuildsInvariant, PTL

\* tools/artifacts.rs, "nothing is left in the caller's workspace": true of
\* every call that returns.
THEOREM NothingIsLeft == BuildsSpec => []NothingLeft
<1>1. BInv => NothingLeft
  BY DEF BInv, AllNeat, Neat, NothingLeft
<1> QED
  BY <1>1, BuildsInvariant, PTL
=============================================================================
