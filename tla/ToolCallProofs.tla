---------------------------- MODULE ToolCallProofs ----------------------------
(***************************************************************************)
(* Proofs about ToolCall, for any finite set of calls, any number of       *)
(* permits, places and subprocesses per call: no process is orphaned, no   *)
(* kill is stray, and a call that was not dropped owns a permit as long as *)
(* a process of its group lives.  The invariant says of each call by       *)
(* itself how its place, its permit, its group and its kill fit together;  *)
(* the calls meet only in the gate, where Finish takes the permit of one   *)
(* call and of no other.                                                   *)
(***************************************************************************)
EXTENDS ToolCall, FiniteSetTheorems, SequenceTheorems, TLAPS

\* One call at the place p, owning a permit or not, with n runs begun, the live
\* processes a and the kill k.
Sound(p, owns, n, a, k) ==
  /\ p \in {"holding", "spawning", "selecting", "reaping"} => owns
  /\ p = "spawning" => n < MaxRuns
  /\ a # {} => p = "selecting" \/ k # "none"
  /\ k # "none" => p \in {"reaping", "dropped"}

AllSound == \A c \in Calls : Sound(pc[c], c \in running, runs[c], alive[c], reap[c])

IInv == CallTypeOK /\ AllSound

\* A step of the call c leaves the other calls alone: their places, groups and
\* kills as they are, and their permits with them.
OnlyMoves(c) ==
  \A d \in Calls \ {c} :
    /\ pc'[d] = pc[d] /\ runs'[d] = runs[d]
    /\ alive'[d] = alive[d] /\ reap'[d] = reap[d]
    /\ d \in running => d \in running'

LEMMA MoveKeeps ==
  ASSUME AllSound, NEW c \in Calls, OnlyMoves(c),
         Sound(pc'[c], c \in running', runs'[c], alive'[c], reap'[c])
  PROVE  AllSound'
<1> SUFFICES ASSUME NEW d \in Calls
             PROVE  Sound(pc'[d], d \in running', runs'[d], alive'[d], reap'[d])
  BY DEF AllSound
<1>1. CASE d = c
  BY <1>1
<1>2. CASE d # c
  <2>1. Sound(pc[d], d \in running, runs[d], alive[d], reap[d])
    BY DEF AllSound
  <2>2. /\ pc'[d] = pc[d] /\ runs'[d] = runs[d] /\ alive'[d] = alive[d] /\ reap'[d] = reap[d]
        /\ d \in running => d \in running'
    BY <1>2 DEF OnlyMoves
  <2> QED
    BY <2>1, <2>2 DEF Sound
<1> QED
  BY <1>1, <1>2

-----------------------------------------------------------------------------
(* The gate *)

\* RemoveAt takes out one element and closes the gap.
LEMMA RemoveAtProperties ==
  ASSUME NEW S, NEW s \in Seq(S), NEW i \in 1..Len(s)
  PROVE  /\ RemoveAt(s, i) \in Seq(S)
         /\ Len(RemoveAt(s, i)) = Len(s) - 1
         /\ \A j \in 1..(Len(s) - 1) :
              RemoveAt(s, i)[j] = IF j < i THEN s[j] ELSE s[j + 1]
<1> DEFINE a == SubSeq(s, 1, i - 1)
           b == SubSeq(s, i + 1, Len(s))
<1>0. Len(s) \in Nat /\ \A k \in 1..Len(s) : s[k] \in S
  BY LenProperties, ElementOfSeq
<1>1. /\ a \in Seq(S) /\ Len(a) = i - 1
      /\ \A j \in 1..(i - 1) : a[j] = s[j]
  BY <1>0, SubSeqProperties
<1>2. /\ b \in Seq(S) /\ Len(b) = Len(s) - i
      /\ \A j \in 1..(Len(s) - i) : b[j] = s[j + i]
  BY <1>0, SubSeqProperties
<1>3. RemoveAt(s, i) = a \o b
  BY DEF RemoveAt
<1>4. /\ a \o b \in Seq(S)
      /\ Len(a \o b) = Len(a) + Len(b)
      /\ \A j \in 1..(Len(a) + Len(b)) :
           (a \o b)[j] = IF j <= Len(a) THEN a[j] ELSE b[j - Len(a)]
  BY <1>1, <1>2, ConcatProperties
<1> HIDE DEF a, b
<1>5. Len(a) + Len(b) = Len(s) - 1
  BY <1>0, <1>1, <1>2
<1>6. ASSUME NEW j \in 1..(Len(s) - 1)
      PROVE  (a \o b)[j] = IF j < i THEN s[j] ELSE s[j + 1]
  <2>1. CASE j < i
    <3>1. j \in 1..(i - 1) /\ j <= Len(a)
      BY <1>0, <1>1, <2>1
    <3> QED
      BY <1>1, <1>4, <1>5, <2>1, <3>1
  <2>2. CASE ~(j < i)
    <3>1. /\ ~(j <= Len(a))
          /\ j - Len(a) = j - i + 1
          /\ j - i + 1 \in 1..(Len(s) - i)
          /\ (j - i + 1) + i = j + 1
      BY <1>0, <1>1, <2>2
    <3>2. (a \o b)[j] = b[j - i + 1]
      BY <1>4, <1>5, <3>1
    <3> QED
      BY <1>2, <2>2, <3>1, <3>2
  <2> QED
    BY <2>1, <2>2
<1> QED
  BY <1>3, <1>4, <1>5, <1>6

LEMMA StartKeeps ==
  ASSUME CallTypeOK, NEW c \in Calls, Start(c)
  PROVE  /\ running' \in SUBSET Calls /\ line' \in Seq(Calls)
         /\ running' = running \cup {c}
  BY DEF Start, CallTypeOK

LEMMA JoinKeeps ==
  ASSUME CallTypeOK, NEW c \in Calls, Join(c)
  PROVE  /\ running' \in SUBSET Calls /\ line' \in Seq(Calls) /\ running' = running
  BY AppendProperties DEF Join, CallTypeOK

LEMMA QuitKeeps ==
  ASSUME CallTypeOK, NEW c \in Calls, Quit(c)
  PROVE  /\ running' \in SUBSET Calls /\ line' \in Seq(Calls) /\ running' = running
  BY RemoveAtProperties DEF Quit, CallTypeOK

LEMMA FinishKeeps ==
  ASSUME CallTypeOK, NEW c \in Calls, Finish(c)
  PROVE  /\ running' \in SUBSET Calls /\ line' \in Seq(Calls)
         /\ \A d \in running : d # c => d \in running'
<1>1. CASE line = <<>>
  BY <1>1 DEF Finish, CallTypeOK
<1>2. CASE line # <<>>
  <2>1. Head(line) \in Calls /\ Tail(line) \in Seq(Calls)
    BY <1>2, HeadTailProperties DEF CallTypeOK
  <2> QED
    BY <1>2, <2>1 DEF Finish, CallTypeOK
<1> QED
  BY <1>1, <1>2

-----------------------------------------------------------------------------
(* The steps of a call *)

\* What a step that moves only the call c must establish.
Fits(c) ==
  /\ CallTypeOK'
  /\ OnlyMoves(c)
  /\ Sound(pc'[c], c \in running', runs'[c], alive'[c], reap'[c])

LEMMA AskFits ==
  ASSUME IInv, NEW c \in Calls, Ask(c)
  PROVE  Fits(c)
<1>1. CallTypeOK /\ Sound(pc[c], c \in running, runs[c], alive[c], reap[c])
  BY DEF IInv, AllSound
<1>2. CASE Goto(c, {"idle"}, "holding") /\ Start(c)
  <2>1. running' \in SUBSET Calls /\ line' \in Seq(Calls) /\ running' = running \cup {c}
    BY <1>1, <1>2, StartKeeps
  <2> QED
    BY <1>1, <1>2, <2>1 DEF Ask, Goto, Fits, CallTypeOK, CallPcs, OnlyMoves, Sound
<1>3. CASE Goto(c, {"idle"}, "queued") /\ Join(c)
  <2>1. running' \in SUBSET Calls /\ line' \in Seq(Calls) /\ running' = running
    BY <1>1, <1>3, JoinKeeps
  <2> QED
    BY <1>1, <1>3, <2>1 DEF Ask, Goto, Fits, CallTypeOK, CallPcs, OnlyMoves, Sound
<1> QED
  BY <1>2, <1>3 DEF Ask

LEMMA LeaveQueueFits ==
  ASSUME IInv, NEW c \in Calls, NEW to \in {"returned", "dropped"}, LeaveQueue(c, to)
  PROVE  Fits(c)
<1>1. CallTypeOK /\ Sound(pc[c], c \in running, runs[c], alive[c], reap[c])
  BY DEF IInv, AllSound
<1>2. running' \in SUBSET Calls /\ line' \in Seq(Calls)
      /\ \A d \in running : d # c => d \in running'
  BY <1>1, QuitKeeps, FinishKeeps DEF LeaveQueue
<1> QED
  BY <1>1, <1>2 DEF LeaveQueue, Goto, Fits, CallTypeOK, CallPcs, OnlyMoves, Sound

\* Returning is sound where nothing of the call lives and no kill is pending.
LEMMA ReturnFits ==
  ASSUME IInv, NEW c \in Calls, NEW from, Return(c, from),
         alive[c] = {}, reap[c] = "none"
  PROVE  Fits(c)
<1>1. CallTypeOK
  BY DEF IInv
<1>2. running' \in SUBSET Calls /\ line' \in Seq(Calls)
      /\ \A d \in running : d # c => d \in running'
  BY <1>1, FinishKeeps DEF Return
<1> QED
  BY <1>1, <1>2 DEF Return, Goto, Fits, CallTypeOK, CallPcs, OnlyMoves, Sound

LEMMA DropSelectingFits ==
  ASSUME IInv, NEW c \in Calls, DropSelecting(c)
  PROVE  Fits(c)
<1>1. CallTypeOK
  BY DEF IInv
<1>2. running' \in SUBSET Calls /\ line' \in Seq(Calls)
      /\ \A d \in running : d # c => d \in running'
  BY <1>1, FinishKeeps DEF DropSelecting
<1> QED
  BY <1>1, <1>2
  DEF DropSelecting, Goto, Fits, CallTypeOK, CallPcs, ReapPcs, OnlyMoves, Sound

LEMMA DropReapingFits ==
  ASSUME IInv, NEW c \in Calls, DropReaping(c)
  PROVE  Fits(c)
<1>1. CallTypeOK /\ Sound(pc[c], c \in running, runs[c], alive[c], reap[c])
  BY DEF IInv, AllSound
<1>2. running' \in SUBSET Calls /\ line' \in Seq(Calls)
      /\ \A d \in running : d # c => d \in running'
  BY <1>1, FinishKeeps DEF DropReaping
<1> QED
  BY <1>1, <1>2 DEF DropReaping, Goto, Fits, CallTypeOK, CallPcs, OnlyMoves, Sound

\* The steps of a call that leave the gate alone.
LEMMA InsideFits ==
  ASSUME IInv, NEW c \in Calls,
         \/ Served(c) \/ Fire(c) \/ PassCheck(c) \/ Launch(c)
         \/ KillArm(c) \/ OutputArm(c) \/ Forget(c)
  PROVE  Fits(c)
<1>1. CallTypeOK /\ Sound(pc[c], c \in running, runs[c], alive[c], reap[c])
  BY DEF IInv, AllSound
<1>2. CASE Served(c)
  BY <1>1, <1>2 DEF Served, Goto, Fits, CallTypeOK, CallPcs, OnlyMoves, Sound
<1>3. CASE Fire(c)
  BY <1>1, <1>3 DEF Fire, Fits, CallTypeOK, OnlyMoves, Sound
<1>4. CASE Launch(c)
  BY <1>1, <1>4, CallAssumption
  DEF Launch, Goto, Fits, CallTypeOK, CallPcs, Procs, OnlyMoves, Sound
<1>5. CASE KillArm(c)
  BY <1>1, <1>5 DEF KillArm, Goto, Fits, CallTypeOK, CallPcs, ReapPcs, OnlyMoves, Sound
<1>6. CASE OutputArm(c)
  BY <1>1, <1>6 DEF OutputArm, Goto, Fits, CallTypeOK, CallPcs, OnlyMoves, Sound
<1>7. CASE Forget(c)
  BY <1>1, <1>7, CallAssumption
  DEF Forget, Goto, Fits, CallTypeOK, CallPcs, OnlyMoves, Sound
<1>8. CASE PassCheck(c)
  BY <1>1, <1>8 DEF PassCheck, Goto, Fits, CallTypeOK, CallPcs, OnlyMoves, Sound
<1> QED
  BY <1>2, <1>3, <1>4, <1>5, <1>6, <1>7, <1>8

\* The steps of the pool and of the processes.
LEMMA ProcessFits ==
  ASSUME IInv, NEW c \in Calls, Term(c) \/ Kill(c) \/ Fork(c) \/ Exit(c)
  PROVE  Fits(c)
<1>1. CallTypeOK /\ Sound(pc[c], c \in running, runs[c], alive[c], reap[c])
  BY DEF IInv, AllSound
<1>2. CASE Term(c)
  BY <1>1, <1>2 DEF Term, CallKept, Fits, CallTypeOK, ReapPcs, OnlyMoves, Sound
<1>3. CASE Kill(c)
  BY <1>1, <1>3 DEF Kill, CallKept, Fits, CallTypeOK, ReapPcs, OnlyMoves, Sound
<1>4. CASE Fork(c)
  BY <1>1, <1>4 DEF Fork, CallKept, Fits, CallTypeOK, OnlyMoves, Sound
<1>5. CASE Exit(c)
  BY <1>1, <1>5 DEF Exit, CallKept, Fits, CallTypeOK, OnlyMoves, Sound
<1> QED
  BY <1>2, <1>3, <1>4, <1>5

-----------------------------------------------------------------------------
LEMMA InitIInv == CallInit => IInv
<1> SUFFICES ASSUME CallInit PROVE IInv
  OBVIOUS
<1>1. line \in Seq(Calls)
  BY EmptySeq DEF CallInit, Init
<1>2. CallTypeOK
  BY <1>1, CallAssumption DEF CallInit, Init, CallTypeOK, CallPcs, ReapPcs
<1>3. AllSound
  BY DEF CallInit, AllSound, Sound
<1> QED
  BY <1>2, <1>3 DEF IInv

LEMMA NextIInv == IInv /\ [CallNext]_callVars => IInv'
<1> SUFFICES ASSUME IInv, [CallNext]_callVars PROVE IInv'
  OBVIOUS
<1>1. ASSUME NEW c \in Calls, GiveUp(c)
      PROVE  Fits(c)
  <2>1. Sound(pc[c], c \in running, runs[c], alive[c], reap[c])
        /\ pc[c] \in {"holding", "spawning"}
    BY <1>1 DEF IInv, AllSound, GiveUp, Return, Goto
  <2> QED
    BY <1>1, <2>1, ReturnFits DEF GiveUp, Sound
<1>2. ASSUME NEW c \in Calls, Reaped(c)
      PROVE  Fits(c)
  <2>1. Sound(pc[c], c \in running, runs[c], alive[c], reap[c]) /\ pc[c] = "reaping"
        /\ reap[c] = "none"
    BY <1>2 DEF IInv, AllSound, Reaped, Return, Goto
  <2> QED
    BY <1>2, <2>1, ReturnFits DEF Reaped, Sound
<1>3. ASSUME NEW c \in Calls, Proceed(c)
      PROVE  Fits(c)
  BY <1>1, <1>2, <1>3, InsideFits, LeaveQueueFits DEF Proceed, CancelQueued
<1>4. ASSUME NEW c \in Calls, Arm(c)
      PROVE  Fits(c)
  BY <1>4, InsideFits DEF Arm, CancelArm, TimeoutArm
<1>5. ASSUME NEW c \in Calls, DropQueued(c) \/ DropSelecting(c) \/ DropReaping(c)
      PROVE  Fits(c)
  BY <1>5, LeaveQueueFits, DropSelectingFits, DropReapingFits DEF DropQueued
<1>6. CASE CallNext
  <2>1. PICK c \in Calls : Fits(c)
    BY <1>3, <1>4, <1>5, <1>6, AskFits, InsideFits, ProcessFits DEF CallNext, Pool
  <2> QED
    BY <2>1, MoveKeeps DEF IInv, Fits
<1>7. CASE UNCHANGED callVars
  BY <1>7 DEF callVars, IInv, CallTypeOK, AllSound, Sound
<1> QED
  BY <1>6, <1>7

\* Each call's place, permit, process group and pending kill fit together.
THEOREM Invariant == CallSpec => []IInv
<1> QED
  BY InitIInv, NextIInv, PTL DEF CallSpec

\* The variables of a tool call have their types.
THEOREM TypeCorrect == CallSpec => []CallTypeOK
<1>1. IInv => CallTypeOK
  BY DEF IInv
<1> QED
  BY <1>1, Invariant, PTL

\* No way out of a call, dropped futures included, leaves an orphan process.
THEOREM NothingIsOrphaned == CallSpec => []NoOrphan
<1>1. IInv => NoOrphan
  BY DEF IInv, AllSound, Sound, NoOrphan
<1> QED
  BY <1>1, Invariant, PTL

\* A kill is pending only for the group of a call that killed or was dropped.
THEOREM NoKillIsStray == CallSpec => []NoStrayKill
<1>1. IInv => NoStrayKill
  BY DEF IInv, AllSound, Sound, NoStrayKill
<1> QED
  BY <1>1, Invariant, PTL

\* The permit of a call that was not dropped covers its group's whole life.
THEOREM PermitsCoverGroups == CallSpec => []PermitCoversGroup
<1>1. IInv => PermitCoversGroup
  BY DEF IInv, AllSound, Sound, PermitCoversGroup
<1> QED
  BY <1>1, Invariant, PTL
=============================================================================
