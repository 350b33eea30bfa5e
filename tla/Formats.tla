------------------------------- MODULE Formats -------------------------------
(***************************************************************************)
(* `format` and `fixup` (tools/fmt.rs, toolchain/fmt.rs, rewrite) on one   *)
(* source file: the text the handler read before it ran the formatter is   *)
(* compared with the text it reads afterwards.  The permit is what keeps   *)
(* two formatters apart; a dropped call gives it back while its process    *)
(* group still writes, and an editor writes whenever it likes.             *)
(*                                                                         *)
(* A text is one of a few kinds.  How a call waits for its permit and how  *)
(* its subprocess is timed out and killed is in ToolCall; here waiting is  *)
(* one step, and so is each way a call can end.                            *)
(***************************************************************************)
EXTENDS Naturals, FiniteSets

CONSTANTS
  Calls,
  Slots,     \* permits of the gate
  Broken,    \* does not parse
  Messy,     \* parses, and the formatter changes it
  Clean,     \* what the formatter makes of Messy
  Half,      \* a file a formatter has emptied and not yet written again
  None

Texts == {Broken, Messy, Clean, Half}
Editor == "editor"

ASSUME FormatsAssumption ==
  /\ IsFiniteSet(Calls) /\ Editor \notin Calls
  /\ Slots \in Nat \ {0}
  /\ Broken \notin {Messy, Clean, Half} /\ Messy \notin {Clean, Half} /\ Clean # Half
  /\ None \notin Texts

\* What is left of a text may parse.
Parses(t) == t # Broken
Fmt(t) == IF t = Messy THEN Clean ELSE t

VARIABLES
  text,    \* the file in the workspace
  copy,    \* per call: its scratch copy, or None
  stage,   \* per call: where the handler is, see Stages
  job,     \* per call: view (write: false), rewrite (write: true), inline or none
  before,  \* per call: the text it read, or was given
  group,   \* per call: the formatter's process, see Groups
  mem,     \* per call: the text the formatter has read
  told,    \* per call: the outcome, or None
  mixed    \* history: who else changed the file since the call read it

fmtVars == <<text, copy, stage, job, before, group, mem, told, mixed>>

\* idle, waiting for a permit, holding it, read the input, parsed it, running the
\* formatter, done, and dropped
Stages == {"idle", "waiting", "holding", "read", "parsed", "running", "done", "dropped"}

\* none, spawned, loaded its file, emptied it, exited with 0 or 1, killed
Groups == {"none", "spawned", "loaded", "emptied", "zero", "one", "killed"}

Live(c) == group[c] \in {"spawned", "loaded", "emptied"}
Holders == {c \in Calls : stage[c] \in {"holding", "read", "parsed", "running"}}

FmtInit ==
  /\ text \in {Broken, Messy, Clean}
  /\ copy = [c \in Calls |-> None]
  /\ stage = [c \in Calls |-> "idle"]
  /\ job = [c \in Calls |-> "none"]
  /\ before = [c \in Calls |-> None]
  /\ group = [c \in Calls |-> "none"]
  /\ mem = [c \in Calls |-> None]
  /\ told = [c \in Calls |-> None]
  /\ mixed = [c \in Calls |-> {}]

Goto(c, from, to) == stage[c] = from /\ stage' = [stage EXCEPT ![c] = to]

\* The file changed, by one of the calls or the editor.
Wrote(who, t) ==
  /\ text' = t
  /\ mixed' = [c \in Calls |->
       IF stage[c] \in {"read", "parsed", "running"} /\ c # who
       THEN mixed[c] \cup {who} ELSE mixed[c]]

Still == UNCHANGED <<text, mixed>>

-----------------------------------------------------------------------------
(* The handlers *)

\* A request.  One to rewrite inline source fails as soon as it has its permit.
Ask(c, j) ==
  /\ Goto(c, "idle", "waiting")
  /\ job' = [job EXCEPT ![c] = j]
  /\ UNCHANGED <<copy, before, group, mem, told>> /\ Still

\* Seeded fault: fixup is not gated.
Enter_Ungated(c) ==
  /\ Goto(c, "waiting", "holding")
  /\ UNCHANGED <<copy, job, before, group, mem, told>> /\ Still

\* acquire_gate
Enter(c) ==
  /\ Cardinality(Holders) < Slots
  /\ Goto(c, "waiting", "holding")
  /\ UNCHANGED <<copy, job, before, group, mem, told>> /\ Still

\* rewrite reads its input: the file as it is now, or the source it was given.
Read(c) ==
  /\ Goto(c, "holding", "read")
  /\ \E t \in IF job[c] = "inline" THEN {Broken, Messy, Clean} ELSE {text} :
       before' = [before EXCEPT ![c] = t]
  /\ UNCHANGED <<copy, job, group, mem, told>> /\ Still

End(c, outcome) ==
  /\ stage' = [stage EXCEPT ![c] = "done"]
  /\ told' = [told EXCEPT ![c] = outcome]
  /\ copy' = [copy EXCEPT ![c] = None]

\* "Gate: never let the formatter answer a parse question."
Refuse(c) ==
  /\ stage[c] = "read" /\ ~Parses(before[c])
  /\ End(c, [ok |-> FALSE, changed |-> FALSE, formatted |-> None])
  /\ UNCHANGED <<job, before, group, mem>> /\ Still

\* The non-destructive way works on a copy of what was read.
Copy(c) ==
  /\ Parses(before[c]) /\ Goto(c, "read", "parsed")
  /\ copy' = [copy EXCEPT ![c] = IF job[c] = "rewrite" THEN None ELSE before[c]]
  /\ UNCHANGED <<job, before, group, mem, told>> /\ Still

\* run
Spawn(c) ==
  /\ Goto(c, "parsed", "running")
  /\ group' = [group EXCEPT ![c] = "spawned"]
  /\ UNCHANGED <<copy, job, before, mem, told>> /\ Still

\* The file the formatter was pointed at.
Target(c) == IF job[c] = "rewrite" THEN text ELSE copy[c]

\* Seeded fault: `changed` is asked of the text that was parsed only.
Outcome_Guessed(c) ==
  [ok |-> TRUE, changed |-> before[c] = Messy,
   formatted |-> IF job[c] = "rewrite" THEN None ELSE text]

Outcome(c) ==
  [ok |-> TRUE, changed |-> Target(c) # before[c],
   formatted |-> IF job[c] = "rewrite" THEN None ELSE Target(c)]

\* Exit status zero: the text is read back, and the scratch scope drops.
Compare(c) ==
  /\ stage[c] = "running" /\ group[c] = "zero"
  /\ End(c, Outcome(c))
  /\ UNCHANGED <<job, before, group, mem>> /\ Still

\* An error: of the input, of the scratch copy or the spawn, any other status, or
\* when the text is read back.
Fail(c) ==
  /\ \/ stage[c] \in {"holding", "parsed"}
     \/ stage[c] = "running" /\ group[c] \in {"one", "zero"}
  /\ End(c, None)
  /\ UNCHANGED <<job, before, group, mem>> /\ Still

\* The timeout, or the token: the group is killed before the call returns.
Abort(c) ==
  /\ stage[c] = "running" /\ Live(c)
  /\ group' = [group EXCEPT ![c] = "killed"]
  /\ End(c, None)
  /\ UNCHANGED <<job, before, mem>> /\ Still

\* The future is dropped: permit and scope go now, the group is killed later.
Drop(c) ==
  /\ stage[c] \in {"waiting", "running"}
  /\ stage' = [stage EXCEPT ![c] = "dropped"]
  /\ copy' = [copy EXCEPT ![c] = None]
  /\ before' = [before EXCEPT ![c] = None]
  /\ UNCHANGED <<job, group, mem, told>> /\ Still

\* The kill that the drop had queued.
Reap(c) ==
  /\ stage[c] = "dropped" /\ Live(c)
  /\ group' = [group EXCEPT ![c] = "killed"]
  /\ UNCHANGED <<copy, stage, job, before, mem, told>> /\ Still

Forget(c) ==
  /\ stage[c] \in {"done", "dropped"} /\ ~Live(c)
  /\ stage' = [stage EXCEPT ![c] = "idle"]
  /\ job' = [job EXCEPT ![c] = "none"]
  /\ before' = [before EXCEPT ![c] = None]
  /\ group' = [group EXCEPT ![c] = "none"]
  /\ mem' = [mem EXCEPT ![c] = None]
  /\ told' = [told EXCEPT ![c] = None]
  /\ mixed' = [mixed EXCEPT ![c] = {}]
  /\ UNCHANGED <<text, copy>>

-----------------------------------------------------------------------------
(* The formatter, and the editor *)

Put(c, t) ==
  IF job[c] = "rewrite" THEN Wrote(c, t) /\ UNCHANGED copy
  ELSE copy' = [copy EXCEPT ![c] = IF @ = None THEN None ELSE t] /\ Still

GroupGoto(c, from, to) == group[c] = from /\ group' = [group EXCEPT ![c] = to]

\* It reads its file: one that is gone or does not parse is an error, and one
\* with nothing to change may be left alone.
Load(c) ==
  /\ \/ Target(c) \in {None, Broken} /\ GroupGoto(c, "spawned", "one") /\ UNCHANGED mem
     \/ Target(c) \in {Clean, Half} /\ GroupGoto(c, "spawned", "zero") /\ UNCHANGED mem
     \/ /\ Target(c) \notin {None, Broken} /\ GroupGoto(c, "spawned", "loaded")
        /\ mem' = [mem EXCEPT ![c] = Target(c)]
  /\ UNCHANGED copy /\ Still

Empty(c) == GroupGoto(c, "loaded", "emptied") /\ Put(c, Half) /\ UNCHANGED mem

\* Writes it again, and exits.
Store(c) ==
  /\ GroupGoto(c, "emptied", "zero") /\ Put(c, Fmt(mem[c]))
  /\ mem' = [mem EXCEPT ![c] = None]

Formatter(c) ==
  /\ Load(c) \/ Empty(c) \/ Store(c)
  /\ UNCHANGED <<stage, job, before, told>>

\* Somebody saves the file.
Edit(t) ==
  /\ t # text /\ Wrote(Editor, t)
  /\ UNCHANGED <<copy, stage, job, before, group, mem, told>>

FmtNext ==
  \/ \E c \in Calls :
       \/ \E j \in {"view", "rewrite", "inline"} : Ask(c, j)
       \/ Enter(c) \/ Read(c) \/ Refuse(c) \/ Copy(c) \/ Spawn(c) \/ Compare(c)
       \/ Fail(c) \/ Abort(c) \/ Drop(c) \/ Reap(c) \/ Forget(c) \/ Formatter(c)
  \/ \E t \in {Broken, Messy, Clean} : Edit(t)

FmtSpec == FmtInit /\ [][FmtNext]_fmtVars

-----------------------------------------------------------------------------
(* Properties *)

\* `changed` and `formatted` are right whenever they can be: a call that works on
\* a copy answers for a text the file had while it held its permit, whoever
\* writes meanwhile; one that rewrites in place answers for the file unless
\* somebody else wrote it since it was read.
OutcomeIsTrue ==
  \A c \in Calls : told[c] # None /\ told[c].ok =>
    /\ (job[c] = "rewrite" => mixed[c] = {}) => told[c].changed = (Fmt(before[c]) # before[c])
    /\ job[c] # "rewrite" => told[c].formatted = Fmt(before[c])

\* With one permit nothing but an editor or the group of a dropped call changes
\* the file between the two reads of a call.
OnlyStrangersMix ==
  [][Slots = 1 =>
       \A c, d \in Calls : d \in mixed'[c] \ mixed[c] => stage[d] = "dropped"]_fmtVars
=============================================================================
