---------------------------- MODULE VersionsProofs ----------------------------
(***************************************************************************)
(* Proofs about Versions, for any finite set of calls, any set of          *)
(* compilers and any number of subprocesses of a report: with one permit   *)
(* only a dropped call changes the installation under a report, and the    *)
(* verdict of every other report is right for the compiler it names.       *)
(***************************************************************************)
EXTENDS Versions, ToolCallProofs

\* A single permit has a single owner.
Alone == Slots = 1 => \A c, d \in running : c = d

InstallTyped ==
  /\ asked \in [Calls -> Tools \cup {"none"}]
  /\ installed \in Compilers \cup {NoCompiler}
  /\ heard \in [Calls -> Seq(Compilers \cup {NoCompiler})]
  /\ DOMAIN told = Calls /\ told = [c \in Calls |-> told[c]]

\* One call at the place p that has heard h: it asks before it hears.
Blank(p, h) == p \in {"idle", "queued"} => h = <<>>

\* One call that is not spoilt, asked for a, at the place p, having heard h and
\* told t, while the compiler k is installed.
Trusty(a, p, h, t, k) ==
  /\ a = "report" /\ p \in {"holding", "spawning", "selecting"} =>
       \A i \in 2..Len(h) : h[i] = k /\ k \in Compilers
  /\ t # Silent => t.compiler \in Compilers /\ t.skew = SkewFor(t.compiler)

AllTrusty ==
  \A c \in Calls :
    /\ Blank(pc[c], heard[c])
    /\ Slots = 1 /\ c \notin spoilt =>
         Trusty(asked[c], pc[c], heard[c], told[c], installed)

VInv == IInv /\ Alone /\ InstallTyped /\ AllTrusty

-----------------------------------------------------------------------------
(* Versions is ToolCall with an installation *)

LEMMA StepIsCallStep == [VersionsNext]_versionVars => [CallNext]_callVars
<1> SUFFICES ASSUME [VersionsNext]_versionVars PROVE [CallNext]_callVars
  OBVIOUS
<1>1. ASSUME NEW c \in Calls,
             \/ \E tool \in Tools : Prepare(c, tool)
             \/ Turned(c) \/ Reply(c) \/ Change(c)
      PROVE  UNCHANGED callVars
  BY <1>1 DEF Prepare, Turned, Reply, Change
<1>2. ASSUME NEW c \in Calls, Enter(c) \/ Begin(c) \/ Conclude(c) \/ Quiet(c) \/ Close(c)
      PROVE  CallNext
  BY <1>2 DEF Enter, Begin, Conclude, Quiet, Close, CallNext, Proceed, Arm
<1>3. CASE UNCHANGED versionVars
  BY <1>3 DEF versionVars, callVars
<1> QED
  BY <1>1, <1>2, <1>3 DEF VersionsNext

\* What is installed changes nothing for permits and process groups: everything
\* proved of ToolCall holds of reports, updates and removals.
THEOREM VersionsImplementsCalls == VersionsSpec => CallSpec
<1>1. VersionsInit => CallInit
  BY DEF VersionsInit
<1> QED
  BY <1>1, StepIsCallStep, PTL DEF VersionsSpec, CallSpec

-----------------------------------------------------------------------------
(* The single permit *)

LEMMA FinishAlone ==
  ASSUME Alone, NEW c \in Calls, Finish(c)
  PROVE  Alone'
  BY DEF Alone, Finish

LEMMA StartAlone ==
  ASSUME CallTypeOK, NEW c \in Calls, Start(c)
  PROVE  Alone'
<1> SUFFICES ASSUME Slots = 1 PROVE \A d, e \in running' : d = e
  BY DEF Alone
<1>1. IsFiniteSet(running)
  BY CallAssumption, FS_Subset DEF CallTypeOK
<1>2. Cardinality(running) = 0
  BY <1>1, FS_CardinalityType DEF Start
<1>3. running = {}
  BY <1>1, <1>2, FS_EmptySet
<1> QED
  BY <1>3 DEF Start

LEMMA CallStepAlone == IInv /\ Alone /\ [CallNext]_callVars => Alone'
<1> SUFFICES ASSUME IInv, Alone, [CallNext]_callVars PROVE Alone'
  OBVIOUS
<1>1. ASSUME NEW c \in Calls, Ask(c)
      PROVE  Alone'
  BY <1>1, StartAlone DEF Ask, Join, Alone, IInv
<1>2. ASSUME NEW c \in Calls,
             \/ Proceed(c) \/ Arm(c) \/ DropQueued(c) \/ DropSelecting(c) \/ DropReaping(c)
      PROVE  Alone'
  <2>1. running' = running \/ Finish(c)
    BY <1>2
    DEF Proceed, Served, CancelQueued, LeaveQueue, Quit, GiveUp, PassCheck, Launch,
        Reaped, Return, Arm, CancelArm, TimeoutArm, KillArm, OutputArm, DropQueued, DropSelecting,
        DropReaping
  <2> QED
    BY <2>1, FinishAlone DEF Alone
<1>3. ASSUME NEW c \in Calls, Fire(c) \/ Pool(c) \/ Fork(c) \/ Exit(c) \/ Forget(c)
      PROVE  Alone'
  BY <1>3 DEF Fire, Pool, Term, Kill, Fork, Exit, Forget, CallKept, Alone
<1>4. CASE UNCHANGED callVars
  BY <1>4 DEF callVars, Alone
<1> QED
  BY <1>1, <1>2, <1>3, <1>4 DEF CallNext

\* With one permit, what changes under a report is not the work of a call that
\* has not been dropped.
LEMMA OnlyDroppedChanges ==
  ASSUME VInv, Slots = 1, NEW c \in Calls, NEW d \in Calls, Change(d),
         asked[c] = "report", pc[c] \in {"holding", "spawning", "selecting"}
  PROVE  pc[d] = "dropped"
<1> SUFFICES ASSUME pc[d] # "dropped" PROVE FALSE
  OBVIOUS
<1>1. /\ Sound(pc[c], c \in running, runs[c], alive[c], reap[c])
      /\ Sound(pc[d], d \in running, runs[d], alive[d], reap[d])
  BY DEF VInv, IInv, AllSound
<1>2. asked[d] \in Changes /\ alive[d] # {}
  BY DEF Change
<1>3. c \in running /\ d \in running
  BY <1>1, <1>2 DEF Sound
<1>4. c = d
  BY <1>3 DEF VInv, Alone
<1> QED
  BY <1>2, <1>4 DEF Changes

-----------------------------------------------------------------------------
(* The steps *)

\* What a step of the call c leaves of the others.
SparesOthers(c) ==
  \A d \in Calls \ {c} :
    /\ asked'[d] = asked[d] /\ pc'[d] = pc[d] /\ heard'[d] = heard[d] /\ told'[d] = told[d]
    /\ d \in spoilt => d \in spoilt'

\* What such a step must establish.
KeepsTrust(c) ==
  /\ InstallTyped'
  /\ installed' = installed
  /\ SparesOthers(c)
  /\ Blank(pc'[c], heard'[c])
  /\ Slots = 1 /\ c \notin spoilt' =>
       Trusty(asked'[c], pc'[c], heard'[c], told'[c], installed')

LEMMA TrustElsewhere ==
  ASSUME AllTrusty, NEW c \in Calls, KeepsTrust(c)
  PROVE  AllTrusty'
<1> SUFFICES ASSUME NEW d \in Calls
             PROVE  /\ Blank(pc'[d], heard'[d])
                    /\ Slots = 1 /\ d \notin spoilt' =>
                         Trusty(asked'[d], pc'[d], heard'[d], told'[d], installed')
  BY DEF AllTrusty
<1>1. CASE d = c
  BY <1>1 DEF KeepsTrust
<1>2. CASE d # c
  <2>1. /\ asked'[d] = asked[d] /\ pc'[d] = pc[d] /\ heard'[d] = heard[d]
        /\ told'[d] = told[d] /\ (d \in spoilt => d \in spoilt') /\ installed' = installed
    BY <1>2 DEF KeepsTrust, SparesOthers
  <2>2. /\ Blank(pc[d], heard[d])
        /\ Slots = 1 /\ d \notin spoilt =>
             Trusty(asked[d], pc[d], heard[d], told[d], installed)
    BY DEF AllTrusty
  <2> QED
    BY <2>1, <2>2
<1> QED
  BY <1>1, <1>2

\* A step that moves the call c and leaves what it was asked, heard and told.
LEMMA MoveTrusts ==
  ASSUME VInv, NEW c \in Calls, UNCHANGED installVars,
         \/ pc' = pc
         \/ \E p \in CallPcs :
              /\ pc' = [pc EXCEPT ![c] = p]
              /\ \/ pc[c] \in {"idle", "queued"} /\ p \in {"idle", "queued", "holding"}
                 \/ p \in {"returned", "dropped", "reaping"}
                 \/ pc[c] \in {"holding", "spawning", "selecting"} /\ p \in {"holding", "spawning", "selecting"}
  PROVE  KeepsTrust(c)
<1>1. /\ CallTypeOK /\ InstallTyped
      /\ Blank(pc[c], heard[c])
      /\ Slots = 1 /\ c \notin spoilt =>
           Trusty(asked[c], pc[c], heard[c], told[c], installed)
  BY DEF VInv, IInv, AllTrusty
<1>2. CASE pc' = pc
  BY <1>1, <1>2 DEF installVars, KeepsTrust, SparesOthers, InstallTyped
<1>3. ASSUME NEW p \in CallPcs, pc' = [pc EXCEPT ![c] = p],
             p \in {"idle", "queued", "holding"} /\ pc[c] \in {"idle", "queued"}
      PROVE  KeepsTrust(c)
  <2>1. heard[c] = <<>> /\ pc'[c] = p /\ Len(heard[c]) = 0
    BY <1>1, <1>3, EmptySeq DEF Blank, CallTypeOK
  <2> QED
    BY <1>1, <1>3, <2>1
    DEF installVars, KeepsTrust, SparesOthers, InstallTyped, CallTypeOK, Blank, Trusty
<1>4. ASSUME NEW p \in CallPcs, pc' = [pc EXCEPT ![c] = p],
             \/ p \in {"returned", "dropped", "reaping"}
             \/ p \in {"holding", "spawning", "selecting"} /\ pc[c] \in {"holding", "spawning", "selecting"}
      PROVE  KeepsTrust(c)
  BY <1>1, <1>4
  DEF installVars, KeepsTrust, SparesOthers, InstallTyped, CallTypeOK, Blank, Trusty
<1> QED
  BY <1>2, <1>3, <1>4

LEMMA CallStepsTrust ==
  ASSUME VInv, NEW c \in Calls, Enter(c) \/ Begin(c) \/ Quiet(c)
  PROVE  KeepsTrust(c)
<1>1. UNCHANGED installVars
  BY DEF Enter, Begin, Quiet
<1>2. CASE Enter(c)
  BY <1>1, <1>2, MoveTrusts DEF Enter, Ask, Goto, CallPcs
<1>3. CASE Begin(c)
  BY <1>1, <1>3, MoveTrusts DEF Begin, PassCheck, Goto, CallPcs
<1>4. CASE Quiet(c)
  BY <1>1, <1>4, MoveTrusts
  DEF Quiet, Served, Launch, TimeoutArm, KillArm, OutputArm, Reaped, Return,
      DropQueued, LeaveQueue, DropSelecting, DropReaping, Pool, Term, Kill, Fork, Exit, CallKept,
      Goto, CallPcs
<1> QED
  BY <1>2, <1>3, <1>4

\* A call that begins anew has nothing behind it.
LEMMA RenewTrusts ==
  ASSUME VInv, NEW c \in Calls, Turned(c) \/ Close(c)
  PROVE  KeepsTrust(c)
<1>1. CallTypeOK /\ InstallTyped
  BY DEF VInv, IInv
<1>2. Renew(c) /\ (pc' = pc \/ pc' = [pc EXCEPT ![c] = "idle"])
  BY DEF Turned, Close, Forget, Goto, callVars
<1>3. <<>> \in Seq(Compilers \cup {NoCompiler})
  BY EmptySeq
<1> QED
  BY <1>1, <1>2, <1>3
  DEF Renew, KeepsTrust, SparesOthers, InstallTyped, CallTypeOK, Blank, Trusty, Tools

LEMMA PrepareTrusts ==
  ASSUME VInv, NEW c \in Calls, NEW tool \in Tools, Prepare(c, tool)
  PROVE  KeepsTrust(c)
<1>1. /\ InstallTyped /\ Blank(pc[c], heard[c])
      /\ Slots = 1 /\ c \notin spoilt =>
           Trusty(asked[c], pc[c], heard[c], told[c], installed)
  BY DEF VInv, AllTrusty
<1> QED
  BY <1>1
  DEF Prepare, callVars, KeepsTrust, SparesOthers, InstallTyped, Blank, Trusty

\* An answer is the compiler that is installed.
LEMMA ReplyTrusts ==
  ASSUME VInv, NEW c \in Calls, Reply(c)
  PROVE  KeepsTrust(c)
<1> DEFINE K == Compilers \cup {NoCompiler}
           Adds(k) == heard' = [heard EXCEPT ![c] = Append(heard[c], k)]
<1>1. /\ InstallTyped /\ heard[c] \in Seq(K) /\ installed \in K /\ NoCompiler \in K
      /\ Slots = 1 /\ c \notin spoilt =>
           Trusty(asked[c], pc[c], heard[c], told[c], installed)
      /\ CallTypeOK
  BY DEF VInv, IInv, InstallTyped, AllTrusty
<1>2. UNCHANGED <<asked, installed, told, spoilt, pc>>
      /\ pc[c] = "selecting" /\ Len(heard[c]) < runs[c] /\ runs[c] \in Nat
  BY <1>1 DEF Reply, callVars, CallTypeOK
<1>3. ASSUME NEW k \in K, Adds(k),
             (k = installed /\ k # NoCompiler) \/ runs[c] = 1
      PROVE  KeepsTrust(c)
  <2>1. /\ heard'[c] \in Seq(K) /\ Len(heard'[c]) = Len(heard[c]) + 1
        /\ \A i \in 1..Len(heard[c]) : heard'[c][i] = heard[c][i]
        /\ heard'[c][Len(heard[c]) + 1] = k
        /\ Len(heard[c]) \in Nat
    BY <1>1, <1>3, AppendProperties, LenProperties DEF InstallTyped
  <2>2. heard' \in [Calls -> Seq(K)] /\ \A d \in Calls \ {c} : heard'[d] = heard[d]
    BY <1>1, <1>3, <2>1 DEF InstallTyped
  <2>3. ASSUME Slots = 1, c \notin spoilt, asked[c] = "report", NEW i \in 2..Len(heard'[c])
        PROVE  heard'[c][i] = installed /\ installed \in Compilers
    <3>1. CASE i \in 1..Len(heard[c])
      BY <1>1, <1>2, <2>1, <2>3, <3>1 DEF Trusty
    <3>2. CASE i = Len(heard[c]) + 1
      BY <1>1, <1>2, <1>3, <2>1, <2>3, <3>2
    <3> QED
      BY <2>1, <3>1, <3>2
  <2> HIDE DEF K, Adds
  <2> QED
    BY <1>1, <1>2, <2>2, <2>3
    DEF KeepsTrust, SparesOthers, InstallTyped, Blank, Trusty, K
<1>4. (runs[c] = 1 /\ Adds(NoCompiler)) \/ (installed # NoCompiler /\ Adds(installed))
  BY Zenon DEF Reply
<1> QED
  BY <1>1, <1>3, <1>4

LEMMA ConcludeTrusts ==
  ASSUME VInv, NEW c \in Calls, Conclude(c)
  PROVE  KeepsTrust(c)
<1>1. /\ CallTypeOK /\ InstallTyped
      /\ Slots = 1 /\ c \notin spoilt =>
           Trusty(asked[c], pc[c], heard[c], told[c], installed)
  BY DEF VInv, IInv, AllTrusty
<1>2. /\ pc[c] \in {"holding", "spawning"} /\ pc' = [pc EXCEPT ![c] = "returned"]
      /\ UNCHANGED <<asked, installed, heard, spoilt>>
  BY DEF Conclude, GiveUp, Return, Goto
<1>3. CASE asked[c] = "report" /\ Len(heard[c]) = MaxRuns
            /\ told' = [told EXCEPT ![c] = Report(c)]
  <2>1. /\ told'[c].compiler = heard[c][2] /\ told'[c].skew = SkewFor(heard[c][3])
        /\ \A d \in Calls \ {c} : told'[d] = told[d]
        /\ DOMAIN told' = Calls /\ told' = [d \in Calls |-> told'[d]]
    BY <1>1, <1>3 DEF Report, InstallTyped
  <2>2. 2 \in 2..Len(heard[c]) /\ 3 \in 2..Len(heard[c])
    BY <1>3, VersionsAssumption, CallAssumption
  <2>3. ASSUME Slots = 1, c \notin spoilt
        PROVE  told'[c].compiler \in Compilers /\ told'[c].skew = SkewFor(told'[c].compiler)
    BY <1>1, <1>2, <1>3, <2>1, <2>2, <2>3 DEF Trusty
  <2> QED
    BY <1>1, <1>2, <2>1, <2>3
    DEF KeepsTrust, SparesOthers, InstallTyped, CallTypeOK, Blank, Trusty
<1>4. CASE UNCHANGED told
  BY <1>1, <1>2, <1>4
  DEF KeepsTrust, SparesOthers, InstallTyped, CallTypeOK, Blank, Trusty
<1> QED
  BY <1>3, <1>4 DEF Conclude

\* The installation changes, and spoils what it must.
LEMMA ChangeTrusts ==
  ASSUME VInv, NEW d \in Calls, Change(d)
  PROVE  InstallTyped' /\ AllTrusty'
<1>1. UNCHANGED <<asked, heard, told, pc>> /\ spoilt \subseteq spoilt'
  BY DEF Change, callVars
<1>2. InstallTyped'
  BY <1>1 DEF VInv, InstallTyped, Change
<1>3. ASSUME NEW c \in Calls, Slots = 1, c \notin spoilt'
      PROVE  Trusty(asked'[c], pc'[c], heard'[c], told'[c], installed')
  <2>1. Trusty(asked[c], pc[c], heard[c], told[c], installed)
    BY <1>1, <1>3 DEF VInv, AllTrusty
  <2>2. ~(asked[c] = "report" /\ pc[c] \in {"holding", "spawning", "selecting"})
    BY <1>3, OnlyDroppedChanges DEF Change
  <2> QED
    BY <1>1, <2>1, <2>2 DEF Trusty
<1> QED
  BY <1>1, <1>2, <1>3 DEF VInv, AllTrusty

-----------------------------------------------------------------------------
(* The invariant *)

LEMMA InitVInv == VersionsInit => VInv
<1> SUFFICES ASSUME VersionsInit PROVE VInv
  OBVIOUS
<1>1. IInv
  BY InitIInv DEF VersionsInit
<1>2. Alone
  BY DEF VersionsInit, CallInit, Init, Alone
<1>3. InstallTyped
  BY EmptySeq DEF VersionsInit, InstallTyped
<1>4. AllTrusty
  BY DEF VersionsInit, CallInit, AllTrusty, Blank, Trusty
<1> QED
  BY <1>1, <1>2, <1>3, <1>4 DEF VInv

LEMMA NextVInv == VInv /\ [VersionsNext]_versionVars => VInv'
<1> SUFFICES ASSUME VInv, [VersionsNext]_versionVars PROVE VInv'
  OBVIOUS
<1>1. IInv' /\ Alone'
  BY StepIsCallStep, NextIInv, CallStepAlone DEF VInv
<1>2. ASSUME NEW c \in Calls, KeepsTrust(c)
      PROVE  InstallTyped' /\ AllTrusty'
  BY <1>2, TrustElsewhere DEF KeepsTrust, VInv
<1>3. ASSUME NEW c \in Calls, KeepsTrust(c) \/ Change(c)
      PROVE  VInv'
  BY <1>1, <1>2, <1>3, ChangeTrusts DEF VInv
<1>4. CASE VersionsNext
  BY <1>3, <1>4, CallStepsTrust, RenewTrusts, PrepareTrusts, ReplyTrusts, ConcludeTrusts
  DEF VersionsNext
<1>5. CASE UNCHANGED versionVars
  BY <1>1, <1>5 DEF versionVars, VInv, InstallTyped, AllTrusty
<1> QED
  BY <1>4, <1>5

\* The permit, the answers and the verdict of each report fit together.
THEOREM ReportInvariant == VersionsSpec => []VInv
<1> QED
  BY InitVInv, NextVInv, PTL DEF VersionsSpec

\* Under a report that has begun, only a dropped call changes the installation.
THEOREM InstallationIsStable == VersionsSpec => StableUnderReport
<1> DEFINE Stable ==
      \A c \in Calls :
        /\ Slots = 1
        /\ asked[c] = "report" /\ pc[c] \in {"holding", "spawning", "selecting"}
        /\ installed' # installed
        => \E d \in Calls : pc[d] = "dropped" /\ asked[d] \in Changes
<1>1. ASSUME VInv, [VersionsNext]_versionVars
      PROVE  Stable
  <2>1. installed' = installed \/ \E d \in Calls : Change(d)
    BY <1>1
    DEF VersionsNext, Prepare, Enter, Turned, Renew, Begin, Conclude, Quiet, Close, Reply,
        installVars, versionVars
  <2> QED
    BY <1>1, <2>1, OnlyDroppedChanges DEF Change
<1> QED
  BY <1>1, ReportInvariant, PTL DEF VersionsSpec, StableUnderReport

\* The verdict of a report that was not spoilt fits the compiler it names.
THEOREM VerdictIsRight == VersionsSpec => []VerdictFits
<1>1. ASSUME VInv PROVE VerdictFits
  <2> SUFFICES ASSUME NEW c \in Calls, Slots = 1, told[c] # Silent, c \notin spoilt
               PROVE  LET supported == {n \in Compilers \ {Odd} : Minimum <= n}
                      IN  /\ told[c].skew = "incompatible" <=> told[c].compiler \notin supported
                          /\ told[c].skew = "quiet" <=>
                               told[c].compiler \in {n \in supported : n <= Tested}
    BY DEF VerdictFits
  <2>1. told[c].compiler \in Compilers /\ told[c].skew = SkewFor(told[c].compiler)
    BY <1>1 DEF VInv, AllTrusty, Trusty
  <2>2. CASE told[c].compiler = Odd
    BY <2>1, <2>2 DEF SkewFor
  <2>3. CASE told[c].compiler # Odd
    <3>1. told[c].compiler \in Nat
      BY <2>1, <2>3, VersionsAssumption
    <3> QED
      BY <2>1, <2>3, <3>1, VersionsAssumption DEF SkewFor
  <2> QED
    BY <2>2, <2>3
<1> QED
  BY <1>1, ReportInvariant, PTL
=============================================================================
