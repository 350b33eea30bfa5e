------------------------------- MODULE Versions -------------------------------
(***************************************************************************)
(* The version report (toolchain/versions.rs) beside the tools that change *)
(* what is installed (toolchain_update and toolchain_clean).  This is      *)
(* ToolCall with the installed compiler.  A report asks one subprocess     *)
(* after the other, so it describes one compiler only if none is installed *)
(* or removed between its first answer and its last: that rests on the one *)
(* permit it holds throughout.                                             *)
(*                                                                         *)
(* A compiler stands for its language version, which is what the verdict   *)
(* on the linked parser is about.  The configuration is the one without    *)
(* --compiler-version: with it every answer is the pinned compiler's.      *)
(* None of these tools can be a task, so no token fires; their futures can *)
(* be dropped.  Nobody else installs or removes compilers here.            *)
(***************************************************************************)
EXTENDS ToolCall

CONSTANTS
  Compilers,   \* what may be installed, each by its language version ...
  Odd,         \* ... or this, if that does not parse
  NoCompiler,  \* the absence of one
  Minimum,     \* COMPACTP_MIN_LANGUAGE
  Tested,      \* COMPACTP_TESTED_LANGUAGE
  Silent       \* the absence of a report

ASSUME VersionsAssumption ==
  /\ Compilers \subseteq Nat \cup {Odd}
  /\ Odd \notin Nat /\ NoCompiler \notin Compilers
  /\ Minimum \in Nat /\ Tested \in Nat
  /\ MaxRuns >= 3

Tools == {"report", "update", "clean"}
Changes == {"update", "clean"}

VARIABLES
  asked,      \* the tool of each call, or "none"
  installed,  \* the default compiler, or NoCompiler
  heard,      \* the answers each report has had, see Reply
  told,       \* the report each call returned, or Silent
  spoilt      \* history: reports beside which a dropped call changed `installed`

installVars == <<asked, installed, heard, told, spoilt>>
versionVars ==
  <<running, line, pc, fired, runs, alive, reap, asked, installed, heard, told, spoilt>>

VersionsInit ==
  /\ CallInit
  /\ asked = [c \in Calls |-> "none"]
  /\ installed \in Compilers \cup {NoCompiler}
  /\ heard = [c \in Calls |-> <<>>]
  /\ told = [c \in Calls |-> Silent]
  /\ spoilt = {}

\* Seeded fault: the lowest language itself is refused.
SkewFor_OffByOne(lang) ==
  IF lang = Odd \/ lang <= Minimum THEN "incompatible"
  ELSE IF lang > Tested THEN "warned" ELSE "quiet"

\* skew_for: incompatible, compatible with a warning, or without.
SkewFor(lang) ==
  IF lang = Odd \/ lang < Minimum THEN "incompatible"
  ELSE IF lang > Tested THEN "warned" ELSE "quiet"

-----------------------------------------------------------------------------
(* The handlers *)

Prepare(c, tool) ==
  /\ pc[c] = "idle" /\ asked[c] = "none"
  /\ asked' = [asked EXCEPT ![c] = tool]
  /\ UNCHANGED <<installed, heard, told, spoilt>> /\ UNCHANGED callVars

\* Seeded fault: a tool that changes the installation spawns without a permit.
Enter_Ungated(c) ==
  /\ asked[c] # "none"
  /\ \/ asked[c] = "report" /\ Ask(c)
     \/ /\ asked[c] # "report" /\ Goto(c, {"idle"}, "holding")
        /\ UNCHANGED <<running, line, fired, runs, alive, reap>>
  /\ UNCHANGED installVars

\* Every tool takes one permit of the gate first.
Enter(c) == asked[c] # "none" /\ Ask(c) /\ UNCHANGED installVars

Renew(c) ==
  /\ asked' = [asked EXCEPT ![c] = "none"]
  /\ heard' = [heard EXCEPT ![c] = <<>>]
  /\ told' = [told EXCEPT ![c] = Silent]
  /\ spoilt' = spoilt \ {c}
  /\ UNCHANGED installed

\* The queue is full.
Turned(c) == pc[c] = "idle" /\ asked[c] # "none" /\ Renew(c) /\ UNCHANGED callVars

\* The next subprocess: a report's, if the last one answered; the others have
\* only one.
Begin(c) == PassCheck(c) /\ Len(heard[c]) = runs[c] /\ UNCHANGED installVars

\* What `versions` makes of its answers.
Report(c) ==
  [compiler |-> heard[c][2], language |-> heard[c][3], skew |-> SkewFor(heard[c][3])]

\* The tool returns: the report, if all its subprocesses answered; else an error
\* or what an update or a removal printed.
Conclude(c) ==
  /\ GiveUp(c)
  /\ \/ /\ asked[c] = "report" /\ Len(heard[c]) = MaxRuns
        /\ told' = [told EXCEPT ![c] = Report(c)]
     \/ ~(asked[c] = "report" /\ Len(heard[c]) = MaxRuns) /\ UNCHANGED told
  /\ UNCHANGED <<asked, installed, heard, spoilt>>

\* The steps of ToolCall that have nothing to do with what is installed.
Quiet(c) ==
  /\ \/ Served(c) \/ Launch(c) \/ TimeoutArm(c) \/ OutputArm(c) \/ Reaped(c)
     \/ DropQueued(c) \/ DropSelecting(c) \/ DropReaping(c)
     \/ Pool(c) \/ Fork(c) \/ Exit(c)
  /\ UNCHANGED installVars

Close(c) == Forget(c) /\ Renew(c)

-----------------------------------------------------------------------------
(* The subprocesses *)

\* `compact` answers: with its own version first, then for the compiler that is
\* installed, which fails if there is none.
Reply(c) ==
  /\ asked[c] = "report" /\ alive[c] # {} /\ pc[c] = "selecting"
  /\ Len(heard[c]) < runs[c]
  /\ \/ runs[c] = 1 /\ heard' = [heard EXCEPT ![c] = Append(@, NoCompiler)]
     \/ /\ runs[c] > 1 /\ installed # NoCompiler
        /\ heard' = [heard EXCEPT ![c] = Append(@, installed)]
  /\ UNCHANGED <<asked, installed, told, spoilt>> /\ UNCHANGED callVars

\* An update or a removal takes effect, at any time while its group lives.
Change(c) ==
  /\ asked[c] \in Changes /\ alive[c] # {}
  /\ \/ asked[c] = "update" /\ installed' \in Compilers
     \/ asked[c] = "clean" /\ installed' = NoCompiler
  /\ spoilt' = IF pc[c] = "dropped" THEN spoilt \cup {d \in Calls : asked[d] = "report"}
               ELSE spoilt
  /\ UNCHANGED <<asked, heard, told>> /\ UNCHANGED callVars

VersionsNext ==
  \E c \in Calls :
    \/ \E tool \in Tools : Prepare(c, tool)
    \/ Enter(c) \/ Turned(c) \/ Begin(c) \/ Conclude(c) \/ Quiet(c) \/ Close(c)
    \/ Reply(c) \/ Change(c)

VersionsSpec == VersionsInit /\ [][VersionsNext]_versionVars

-----------------------------------------------------------------------------
(* Properties *)

\* With one permit, the installation does not change under a report that has
\* begun, except by the process group of a call whose future was dropped.
StableUnderReport ==
  [][\A c \in Calls :
       /\ Slots = 1
       /\ asked[c] = "report" /\ pc[c] \in {"holding", "spawning", "selecting"}
       /\ installed' # installed
       => \E d \in Calls : pc[d] = "dropped" /\ asked[d] \in Changes]_versionVars

\* With one permit, the verdict of a report that no dropped call spoilt is the
\* right one for the compiler that the same report names.
VerdictFits ==
  \A c \in Calls : Slots = 1 /\ told[c] # Silent /\ c \notin spoilt =>
    LET supported == {n \in Compilers \ {Odd} : Minimum <= n}
    IN  /\ told[c].skew = "incompatible" <=> told[c].compiler \notin supported
        /\ told[c].skew = "quiet" <=> told[c].compiler \in {n \in supported : n <= Tested}
=============================================================================
