---------------------------- MODULE ReadersProofs ----------------------------
(***************************************************************************)
(* Proofs about three of the five modules whose instances MCReaders checks *)
(* together: the formatter beside editors and dropped calls, the           *)
(* heartbeat, and the artifact readers beside compilers that write, each   *)
(* for any values of its constants.  They share no state.                  *)
(***************************************************************************)
EXTENDS Formats, Heartbeat, Artifacts, FiniteSetTheorems, SequenceTheorems, TLAPS

-----------------------------------------------------------------------------
(* Formats *)

FmtTypeOK ==
  /\ text \in Texts
  /\ copy \in [Calls -> Texts \cup {None}]
  /\ stage \in [Calls -> Stages]
  /\ job \in [Calls -> {"none", "view", "rewrite", "inline"}]
  /\ before \in [Calls -> Texts \cup {None}]
  /\ group \in [Calls -> Groups]
  /\ mem \in [Calls -> Texts \cup {None}]
  /\ told \in [Calls -> {None} \cup [ok : BOOLEAN, changed : BOOLEAN,
                                     formatted : Texts \cup {None}]]
  /\ mixed \in [Calls -> SUBSET (Calls \cup {Editor})]

\* Nobody else wrote the file that the call works on.
Untouched(c) == job[c] = "rewrite" => mixed[c] = {}

\* What OutcomeIsTrue says of one call.
Told(c) ==
  told[c] # None /\ told[c].ok =>
    /\ Untouched(c) => told[c].changed = (Fmt(before[c]) # before[c])
    /\ job[c] # "rewrite" => told[c].formatted = Fmt(before[c])

\* How far the formatter has brought the file it was pointed at.
OnItsWay(c) ==
  /\ group[c] \in {"none", "spawned", "loaded"} => Target(c) = before[c]
  /\ group[c] \in {"loaded", "emptied"} => mem[c] = before[c]
  /\ group[c] = "zero" => Target(c) = Fmt(before[c])

FmtSound(c) ==
  /\ group[c] # "none" => stage[c] \in {"running", "done", "dropped"}
  /\ group[c] \in {"loaded", "emptied"} => mem[c] \in Texts
  /\ stage[c] = "done" => ~Live(c)
  /\ stage[c] \in {"idle", "waiting", "holding"} => mixed[c] = {}
  /\ stage[c] \in {"read", "parsed", "running"} => before[c] \in Texts
  /\ stage[c] \in {"parsed", "running"} => Parses(before[c])
  /\ stage[c] \in {"parsed", "running"} /\ job[c] # "rewrite" => copy[c] # None
  /\ stage[c] = "read" /\ job[c] = "rewrite" /\ Untouched(c) => text = before[c]
  /\ stage[c] \in {"parsed", "running"} /\ Untouched(c) => OnItsWay(c)
  /\ told[c] # None => stage[c] = "done"
  /\ Told(c)

\* A single permit has a single holder.
FmtAlone == Slots = 1 => \A c, d \in Holders : c = d

FmtInv == FmtTypeOK /\ FmtAlone /\ \A c \in Calls : FmtSound(c)

\* A step of c that leaves the file alone.
FmtOnly(c) ==
  /\ Still
  /\ \A d \in Calls : d # c =>
       /\ copy'[d] = copy[d] /\ stage'[d] = stage[d] /\ job'[d] = job[d]
       /\ before'[d] = before[d] /\ group'[d] = group[d] /\ mem'[d] = mem[d]
       /\ told'[d] = told[d]

LEMMA FmtOthers ==
  ASSUME FmtInv, NEW c \in Calls, FmtOnly(c), FmtTypeOK', FmtSound(c)',
         stage'[c] \in {"holding", "read", "parsed", "running"} => c \in Holders
  PROVE  FmtInv'
<1>1. ASSUME NEW d \in Calls, d # c PROVE FmtSound(d)'
  BY <1>1 DEF FmtInv, FmtOnly, Still, FmtSound, Live, Untouched, OnItsWay, Told, Target
<1>2. Holders' \subseteq Holders
  BY DEF Holders, FmtOnly
<1> QED
  BY <1>1, <1>2 DEF FmtInv, FmtAlone

\* Steps of the handler before the formatter runs.
LEMMA FmtBegins ==
  ASSUME FmtInv, NEW c \in Calls,
         \/ \E j \in {"view", "rewrite", "inline"} : Ask(c, j)
         \/ Read(c) \/ Copy(c) \/ Spawn(c)
  PROVE  FmtInv'
<1>1. FmtTypeOK /\ FmtSound(c)
  BY DEF FmtInv
<1>2. FmtTypeOK'
  <2>1. CASE \E j \in {"view", "rewrite", "inline"} : Ask(c, j)
    BY <1>1, <2>1 DEF Ask, Goto, Still, FmtTypeOK, Stages
  <2>2. CASE Read(c)
    BY <1>1, <2>2 DEF Read, Goto, Still, FmtTypeOK, Stages, Texts
  <2>3. CASE Copy(c)
    BY <1>1, <2>3 DEF Copy, Goto, Still, FmtTypeOK, Stages
  <2>4. CASE Spawn(c)
    BY <1>1, <2>4 DEF Spawn, Goto, Still, FmtTypeOK, Stages, Groups
  <2> QED
    BY <2>1, <2>2, <2>3, <2>4
<1>3. FmtOnly(c)
  BY <1>1 DEF Ask, Read, Copy, Spawn, Goto, FmtOnly, FmtTypeOK
<1>4. FmtSound(c)'
  <2>1. CASE \E j \in {"view", "rewrite", "inline"} : Ask(c, j)
    BY <1>1, <2>1 DEF Ask, Goto, Still, FmtTypeOK, FmtSound, Live, Untouched, Told
  <2>2. CASE Read(c)
    BY <1>1, <2>2, FormatsAssumption
       DEF Read, Goto, Still, FmtTypeOK, FmtSound, Live, Untouched, Told, Texts
  <2>3. CASE Copy(c)
    BY <1>1, <2>3, FormatsAssumption
       DEF Copy, Goto, Still, FmtTypeOK, FmtSound, Live, Untouched, OnItsWay, Told, Target
  <2>4. CASE Spawn(c)
    BY <1>1, <2>4
       DEF Spawn, Goto, Still, FmtTypeOK, FmtSound, Live, Untouched, OnItsWay, Told, Target
  <2> QED
    BY <2>1, <2>2, <2>3, <2>4
<1>5. stage'[c] \in {"holding", "read", "parsed", "running"} => c \in Holders
  BY <1>1 DEF Ask, Read, Copy, Spawn, Goto, FmtTypeOK, Holders
<1> QED
  BY <1>2, <1>3, <1>4, <1>5, FmtOthers

\* Its ways out.
LEMMA FmtEnds ==
  ASSUME FmtInv, NEW c \in Calls,
         Refuse(c) \/ Compare(c) \/ Fail(c) \/ Abort(c) \/ Drop(c) \/ Reap(c)
  PROVE  FmtInv'
<1>1. FmtTypeOK /\ FmtSound(c)
  BY DEF FmtInv
<1>2. Target(c) \in Texts \cup {None}
  BY <1>1 DEF Target, FmtTypeOK
<1>3. FmtTypeOK'
  <2>1. CASE Refuse(c)
    BY <1>1, <2>1 DEF Refuse, End, Still, FmtTypeOK, Stages
  <2>2. CASE Compare(c)
    <3>1. Outcome(c) \in [ok : BOOLEAN, changed : BOOLEAN, formatted : Texts \cup {None}]
      BY <1>2 DEF Outcome
    <3> QED
      BY <1>1, <2>2, <3>1 DEF Compare, End, Still, FmtTypeOK, Stages
  <2>3. CASE Fail(c)
    BY <1>1, <2>3 DEF Fail, End, Still, FmtTypeOK, Stages
  <2>4. CASE Abort(c) \/ Drop(c) \/ Reap(c)
    BY <1>1, <2>4 DEF Abort, Drop, Reap, End, Still, FmtTypeOK, Stages, Groups
  <2> QED
    BY <2>1, <2>2, <2>3, <2>4
<1>4. FmtOnly(c)
  BY <1>1 DEF Refuse, Compare, Fail, Abort, Drop, Reap, End, FmtOnly, FmtTypeOK
<1>5. stage'[c] \in {"done", "dropped"}
  BY <1>1 DEF Refuse, Compare, Fail, Abort, Drop, Reap, End, FmtTypeOK
<1>6. FmtSound(c)'
  <2>1. CASE Refuse(c)
    BY <1>1, <2>1 DEF Refuse, End, Still, FmtTypeOK, FmtSound, Live, Told
  <2>2. CASE Compare(c)
    <3>1. told'[c] = Outcome(c) /\ job' = job /\ mixed' = mixed /\ before' = before
          /\ group' = group /\ stage'[c] = "done" /\ group[c] = "zero" /\ stage[c] = "running"
      BY <1>1, <2>2 DEF Compare, End, Still, FmtTypeOK
    <3>2. Untouched(c) => Target(c) = Fmt(before[c])
      BY <1>1, <3>1 DEF FmtSound, OnItsWay
    <3>3. Told(c)'
      BY <3>1, <3>2 DEF Told, Untouched, Outcome
    <3> QED
      BY <1>1, <3>1, <3>3 DEF FmtSound, Live
  <2>3. CASE Fail(c)
    BY <1>1, <2>3 DEF Fail, End, Still, FmtTypeOK, FmtSound, Live, Told
  <2>4. CASE Abort(c)
    BY <1>1, <2>4 DEF Abort, End, Still, FmtTypeOK, FmtSound, Live, Told
  <2>5. CASE Drop(c)
    BY <1>1, <2>5 DEF Drop, Still, FmtTypeOK, FmtSound, Live, Told
  <2>6. CASE Reap(c)
    BY <1>1, <2>6 DEF Reap, Still, FmtTypeOK, FmtSound, Live, Told
  <2> QED
    BY <2>1, <2>2, <2>3, <2>4, <2>5, <2>6
<1> QED
  BY <1>3, <1>4, <1>5, <1>6, FmtOthers

\* A permit is taken, and a call that left nothing behind is forgotten.
LEMMA FmtTurns ==
  ASSUME FmtInv, NEW c \in Calls, Enter(c) \/ Forget(c)
  PROVE  FmtInv'
<1>1. FmtTypeOK /\ FmtAlone /\ \A d \in Calls : FmtSound(d)
  BY DEF FmtInv
<1>2. CASE Enter(c)
  <2>1. FmtTypeOK'
    BY <1>1, <1>2 DEF Enter, Goto, Still, FmtTypeOK, Stages
  <2>2. \A d \in Calls : FmtSound(d)'
    BY <1>1, <1>2 DEF Enter, Goto, Still, FmtTypeOK, FmtSound, Live, Untouched, OnItsWay,
       Told, Target
  <2>3. FmtAlone'
    <3> SUFFICES ASSUME Slots = 1 PROVE Holders' \subseteq {c}
      BY DEF FmtAlone
    <3>1. IsFiniteSet(Holders) /\ Cardinality(Holders) < 1
      BY <1>2, FormatsAssumption, FS_Subset DEF Enter, Holders
    <3>2. Holders = {}
      BY <3>1, FS_CardinalityType, FS_EmptySet
    <3> QED
      BY <1>1, <1>2, <3>2 DEF Enter, Goto, Holders, FmtTypeOK
  <2> QED
    BY <2>1, <2>2, <2>3 DEF FmtInv
<1>3. CASE Forget(c)
  <2>1. FmtTypeOK'
    BY <1>1, <1>3 DEF Forget, FmtTypeOK, Stages, Groups
  <2>2. ASSUME NEW d \in Calls PROVE FmtSound(d)'
    <3>1. CASE d = c
      BY <1>1, <1>3, <3>1 DEF Forget, FmtTypeOK, FmtSound, Live, Told
    <3>2. CASE d # c
      BY <1>1, <1>3, <3>2 DEF Forget, FmtTypeOK, FmtSound, Live, Untouched, OnItsWay, Told, Target
    <3> QED
      BY <3>1, <3>2
  <2>3. Holders' \subseteq Holders
    BY <1>1, <1>3 DEF Forget, Holders, FmtTypeOK
  <2> QED
    BY <1>1, <2>1, <2>2, <2>3 DEF FmtInv, FmtAlone
<1> QED
  BY <1>2, <1>3

\* Somebody else writes the file: a call that rewrites it is touched.
LEMMA FmtWrites ==
  ASSUME FmtInv, NEW who, NEW t \in Texts, Wrote(who, t), NEW d \in Calls, d # who,
         UNCHANGED <<stage, job, before, told>>, copy'[d] = copy[d],
         group'[d] = group[d], mem'[d] = mem[d]
  PROVE  FmtSound(d)'
<1>1. FmtTypeOK /\ FmtSound(d)
  BY DEF FmtInv
<1>2. /\ text' = t
      /\ mixed'[d] = IF stage[d] \in {"read", "parsed", "running"}
                     THEN mixed[d] \cup {who} ELSE mixed[d]
  BY DEF Wrote
<1>3. CASE stage[d] \in {"read", "parsed", "running"}
  <2>1. job[d] = "rewrite" => ~Untouched(d)'
    BY <1>2, <1>3 DEF Untouched
  <2>2. told[d] = None
    BY <1>1, <1>3 DEF FmtSound
  <2>3. job[d] # "rewrite" => Untouched(d) /\ Target(d)' = Target(d)
    BY DEF Untouched, Target
  <2>4. stage[d] # "read" /\ job[d] # "rewrite" => OnItsWay(d)'
    BY <1>1, <1>3, <2>3 DEF FmtSound, OnItsWay
  <2> QED
    BY <1>1, <1>3, <2>1, <2>2, <2>4 DEF FmtSound, Live, Told
<1>4. CASE stage[d] \notin {"read", "parsed", "running"}
  BY <1>1, <1>2, <1>4 DEF FmtSound, Live, Told, Untouched
<1> QED
  BY <1>3, <1>4

LEMMA FmtLoads ==
  ASSUME FmtInv, NEW c \in Calls, Load(c), UNCHANGED <<stage, job, before, told>>
  PROVE  FmtInv'
<1>1. FmtTypeOK /\ FmtSound(c)
  BY DEF FmtInv
<1>2. Target(c) \in Texts \cup {None} /\ Target(c)' = Target(c)
  BY <1>1 DEF Target, FmtTypeOK, Load, Still
<1>3. FmtTypeOK'
  BY <1>1, <1>2 DEF Load, GroupGoto, Still, FmtTypeOK, Groups, Texts
<1>4. FmtOnly(c)
  BY <1>1 DEF Load, GroupGoto, FmtOnly, FmtTypeOK
<1>5. group[c] = "spawned" /\ group'[c] \in {"one", "zero", "loaded"}
      /\ (group'[c] = "loaded" => mem'[c] \in Texts)
      /\ Untouched(c)' = Untouched(c)
  BY <1>1, <1>2 DEF Load, GroupGoto, Still, FmtTypeOK, Untouched
<1>6. ASSUME stage[c] \in {"parsed", "running"}, Untouched(c) PROVE OnItsWay(c)'
  <2>1. Target(c) = before[c]
    BY <1>1, <1>5, <1>6 DEF FmtSound, OnItsWay
  <2>2. group'[c] = "zero" => Target(c) \in {Clean, Half}
    BY <1>1 DEF Load, GroupGoto, FmtTypeOK
  <2>3. group'[c] = "loaded" => mem'[c] = Target(c)
    BY <1>1 DEF Load, GroupGoto, FmtTypeOK
  <2>4. Target(c) \in {Clean, Half} => Fmt(Target(c)) = Target(c)
    BY FormatsAssumption DEF Fmt
  <2> QED
    BY <1>2, <1>5, <2>1, <2>2, <2>3, <2>4 DEF OnItsWay
<1>7. FmtSound(c)'
  BY <1>1, <1>5, <1>6 DEF FmtSound, Live, Told, Load, Still
<1> QED
  BY <1>3, <1>4, <1>7, FmtOthers DEF Holders

\* The formatter empties its file, or writes it again.
LEMMA FmtStores ==
  ASSUME FmtInv, NEW c \in Calls, Empty(c) \/ Store(c),
         UNCHANGED <<stage, job, before, told>>
  PROVE  FmtInv'
<1>1. FmtTypeOK /\ FmtSound(c)
  BY DEF FmtInv
<1> DEFINE t == IF group[c] = "loaded" THEN Half ELSE Fmt(mem[c])
<1>2. /\ Put(c, t)
      /\ \/ group[c] = "loaded" /\ group' = [group EXCEPT ![c] = "emptied"] /\ mem' = mem
         \/ /\ group[c] = "emptied" /\ group' = [group EXCEPT ![c] = "zero"]
            /\ mem' = [mem EXCEPT ![c] = None]
  BY DEF Empty, Store, GroupGoto
<1>3. \/ group'[c] = "emptied" /\ mem'[c] = mem[c]
      \/ group'[c] = "zero" /\ t = Fmt(mem[c])
  BY <1>1, <1>2 DEF FmtTypeOK
<1>4. \A d \in Calls : d # c => group'[d] = group[d] /\ mem'[d] = mem[d]
  BY <1>1, <1>2 DEF FmtTypeOK
<1>5. Live(c) /\ told[c] = None /\ stage[c] \in {"running", "dropped"} /\ mem[c] \in Texts
  BY <1>1, <1>2 DEF Live, FmtSound
<1>6. Holders' = Holders
  BY DEF Holders
<1>7. CASE t \in Texts
  <2>1. FmtTypeOK'
    <3>1. CASE job[c] = "rewrite"
      <4>1. mixed' \in [Calls -> SUBSET (Calls \cup {Editor})] /\ text' = t /\ copy' = copy
        BY <1>1, <1>2, <3>1 DEF Put, Wrote, FmtTypeOK
      <4> HIDE DEF t
      <4> QED
        BY <1>1, <1>2, <1>7, <4>1 DEF FmtTypeOK, Groups
    <3>2. CASE job[c] # "rewrite"
      <4>1. copy' \in [Calls -> Texts \cup {None}] /\ Still
        BY <1>1, <1>2, <1>7, <3>2 DEF Put, FmtTypeOK
      <4> HIDE DEF t
      <4> QED
        BY <1>1, <1>2, <1>7, <4>1 DEF FmtTypeOK, Groups, Still
    <3> QED
      BY <3>1, <3>2
  <2>2. ASSUME stage[c] = "running", Untouched(c)' PROVE OnItsWay(c)'
    <3>1. Untouched(c)
      BY <1>2, <2>2 DEF Put, Wrote, Still, Untouched
    <3>2. mem[c] = before[c] /\ (job[c] # "rewrite" => copy[c] # None)
      BY <1>1, <1>2, <2>2, <3>1 DEF FmtSound, OnItsWay
    <3>3. Target(c)' = t
      BY <1>1, <1>2, <3>2 DEF Put, Wrote, Target, FmtTypeOK
    <3> HIDE DEF t
    <3> QED
      BY <1>3, <3>2, <3>3 DEF OnItsWay
  <2>3. stage[c] = "running" /\ job[c] # "rewrite" => copy'[c] # None
    BY <1>1, <1>2, <1>7, FormatsAssumption DEF Put, FmtSound, FmtTypeOK
  <2>4. FmtSound(c)'
    <3> HIDE DEF t
    <3> QED
      BY <1>1, <1>3, <1>5, <2>2, <2>3 DEF FmtSound, Told, Live
  <2>5. CASE job[c] = "rewrite"
    <3>1. Wrote(c, t) /\ copy' = copy
      BY <1>2, <2>5 DEF Put
    <3> HIDE DEF t
    <3>2. \A d \in Calls : d # c => FmtSound(d)'
      BY <1>4, <1>7, <3>1, FmtWrites
    <3> QED
      BY <1>6, <2>1, <2>4, <3>2 DEF FmtInv, FmtAlone
  <2>6. CASE job[c] # "rewrite"
    <3>1. FmtOnly(c)
      BY <1>1, <1>2, <1>4, <2>6 DEF FmtOnly, Put, FmtTypeOK
    <3> QED
      BY <2>1, <2>4, <3>1, FmtOthers DEF Holders
  <2> QED
    BY <2>5, <2>6
<1>8. t \in Texts
  BY <1>1, <1>2 DEF FmtSound, Texts, Fmt
<1> QED
  BY <1>7, <1>8

LEMMA FmtEdits ==
  ASSUME FmtInv, NEW t \in {Broken, Messy, Clean}, Edit(t)
  PROVE  FmtInv'
<1>1. FmtTypeOK'
  BY DEF FmtInv, Edit, Wrote, FmtTypeOK, Texts
<1>2. \A d \in Calls : FmtSound(d)'
  BY FmtWrites, FormatsAssumption DEF Edit, Texts
<1> QED
  BY <1>1, <1>2 DEF FmtInv, FmtAlone, Holders, Edit

LEMMA FmtKeeps ==
  ASSUME FmtInv, [FmtNext]_fmtVars
  PROVE  FmtInv'
<1>1. CASE FmtNext
  BY <1>1, FmtBegins, FmtEnds, FmtTurns, FmtLoads, FmtStores, FmtEdits DEF FmtNext, Formatter
<1>2. CASE UNCHANGED fmtVars
  BY <1>2 DEF fmtVars, FmtInv, FmtTypeOK, FmtAlone, Holders, FmtSound, Live, Untouched, OnItsWay,
     Told, Target
<1> QED
  BY <1>1, <1>2

LEMMA FmtInitInv == FmtInit => FmtInv
<1> SUFFICES ASSUME FmtInit PROVE FmtInv
  OBVIOUS
<1>1. FmtTypeOK
  BY DEF FmtInit, FmtTypeOK, Texts, Stages, Groups
<1>2. Holders = {} /\ \A c \in Calls : FmtSound(c)
  BY DEF FmtInit, Holders, FmtSound, Told, Live
<1> QED
  BY <1>1, <1>2 DEF FmtInv, FmtAlone

LEMMA FmtInvariant == FmtSpec => []FmtInv
<1>1. FmtInv /\ [FmtNext]_fmtVars => FmtInv'
  BY FmtKeeps
<1> QED
  BY <1>1, FmtInitInv, PTL DEF FmtSpec

\* `changed` and `formatted` are right for a call on a copy whoever writes the
\* file, and for one in place unless somebody else wrote it.
THEOREM FormatterTellsTheTruth == FmtSpec => []OutcomeIsTrue
<1>1. FmtInv => OutcomeIsTrue
  BY DEF FmtInv, FmtSound, Told, Untouched, OutcomeIsTrue
<1> QED
  BY <1>1, FmtInvariant, PTL

\* With one permit, only an editor or a dropped call's group comes between the
\* two reads of a call.
THEOREM OnlyStrangersInterfere == FmtSpec => OnlyStrangersMix
<1> DEFINE P == Slots = 1 =>
                  \A c, d \in Calls : d \in mixed'[c] \ mixed[c] => stage[d] = "dropped"
<1>1. FmtInv /\ [FmtNext]_fmtVars => [P]_fmtVars
  <2> SUFFICES ASSUME FmtInv, FmtNext, Slots = 1, NEW c \in Calls, NEW d \in Calls,
                      d \in mixed'[c] \ mixed[c]
               PROVE  stage[d] = "dropped"
    OBVIOUS
  <2>1. mixed \in [Calls -> SUBSET (Calls \cup {Editor})]
    BY DEF FmtInv, FmtTypeOK
  <2>2. Formatter(d) /\ ~Load(d) /\ stage[c] \in {"read", "parsed", "running"} /\ c # d
    BY <2>1, FormatsAssumption
       DEF FmtNext, Ask, Enter, Read, Refuse, Copy, Spawn, Compare, Fail, Abort, Drop, Reap,
           Forget, Formatter, Load, Empty, Store, Put, Wrote, Edit, Still
  <2>3. stage[d] \in {"running", "dropped"}
    BY <2>2 DEF Formatter, Empty, Store, GroupGoto, Live, FmtInv, FmtSound
  <2> QED
    BY <2>2, <2>3 DEF FmtInv, FmtAlone, Holders
<1> QED
  BY <1>1, FmtInvariant, PTL DEF FmtSpec, OnlyStrangersMix, P

-----------------------------------------------------------------------------
(* Heartbeat *)

\* Once it was aborted the task is doomed, and on a thread only if it was then.
BeatInv ==
  /\ NoStrayBeat
  /\ handler # "answered" => late = 0
  /\ handler \in {"aborted", "answered"} /\ Alive => doomed
  /\ handler \in {"aborted", "answered"} /\ beat = "polled" => caught
  /\ handler \in {"idle", "refused"} => ~Alive

LEMMA BeatKeeps ==
  ASSUME BeatInv, [BeatNext]_beatVars
  PROVE  BeatInv'
<1> USE DEF BeatInv, NoStrayBeat, Alive, Task, Handler
<1>1. CASE NextCall \/ Refused \/ (\E token \in BOOLEAN : Begin(token))
  BY <1>1 DEF NextCall, Refused, Begin
<1>2. CASE Built \/ AnswerCall \/ (\E how \in {"dropped", "panicked"} : Lose(how))
  BY <1>2 DEF Built, AnswerCall, Lose
<1>3. CASE AbortBeat
  <2>1. /\ handler = "built" /\ handler' = "aborted"
        /\ beat' = beat /\ late' = late /\ (doomed' <=> Alive) /\ (caught' <=> beat = "polled")
    BY <1>3 DEF AbortBeat, StopBeat
  <2>2. late' = 0 /\ ~(late' > 0)
    BY <2>1
  <2> QED
    BY <2>1, <2>2, Zenon
<1>4. CASE Tick \/ Wake \/ Break \/ Sleep \/ ReapBeat \/ Hangup
  BY <1>4 DEF Tick, Wake, Break, Sleep, ReapBeat, Hangup
<1>5. CASE Notify
  BY <1>5 DEF Notify
<1>6. CASE UNCHANGED beatVars
  BY <1>6 DEF beatVars
<1> QED
  BY <1>1, <1>2, <1>3, <1>4, <1>5, <1>6 DEF BeatNext

\* A caller that was answered hears of the call only from a poll that was under
\* way at the abort; a heartbeat that nobody aborted belongs to a call that
\* still builds or was lost.
THEOREM AnsweredIsQuiet == BeatSpec => []NoStrayBeat
<1>1. BeatInit => BeatInv
  BY DEF BeatInit, BeatInv, NoStrayBeat, Alive
<1>2. BeatInv /\ [BeatNext]_beatVars => BeatInv'
  BY BeatKeeps
<1>3. BeatInv => NoStrayBeat
  BY DEF BeatInv
<1> QED
  BY <1>1, <1>2, <1>3, PTL DEF BeatSpec

-----------------------------------------------------------------------------
(* Artifacts *)

Units == Builds \cup {Hole}

\* What is in the directory, and where the compilers are in it.
DiskOK ==
  /\ \A f \in DOMAIN tree : tree[f] \in Seq(Units)
  /\ DOMAIN offset = Builds
  /\ \A b \in Builds : \A f \in DOMAIN offset[b] : offset[b][f] \in Nat

\* The history has what is there now.
Sees ==
  /\ DOMAIN tree \subseteq seen
  /\ Readable \ DOMAIN tree \subseteq missed
  /\ ~place => Nil \in missed

Fields == {"pc", "file", "buf", "lost", "info", "dirs", "files", "found",
           "rooted", "todo", "kind", "stats", "absent", "answer"}

\* What the reader holds.
Holds ==
  /\ DOMAIN rd = Fields
  /\ rd.buf \in Seq(Units) /\ Len(rd.buf) <= Cap + 1
  /\ rd.lost # Nil => rd.lost \in Seq(Units)
  /\ rd.todo \in Seq(Circuits)

\* What it has learnt by the time it reads a file, or goes on with the scan.
Reading == rd.pc \in {"stat", "open", "read"}
Knows ==
  /\ Reading => rd.file \in Readable
  /\ Reading /\ rd.file # Info => rd.info \in Builds /\ rd.todo # <<>>
  /\ rd.pc \in {"open", "read"} => rd.file \in seen
  /\ rd.pc = "read" /\ rd.lost = Nil => rd.file \in DOMAIN tree
  /\ rd.pc \in {"root", "list", "canon", "probe", "next"} => rd.info \in Builds

ArtInv ==
  /\ DiskOK /\ Holds /\ Knows
  /\ rd.pc \notin {"idle", "told"} => Sees
  /\ HonestAnswer /\ NothingInvented

\* The history of a call only grows.
LEMMA WatchGrows ==
  ASSUME Watch, rd.pc # "told"
  PROVE  Sees' /\ (rd.pc # "idle" => seen \subseteq seen' /\ missed \subseteq missed')
BY DEF Watch, Sees

LEMMA DiskKeeps ==
  ASSUME ArtInv, Disk, Watch
  PROVE  ArtInv'
<1>1. DiskOK'
  <2>1. ASSUME NEW b \in Builds, NEW f \in Files, Truncate(b, f)
        PROVE  DiskOK'
    <3>1. /\ tree' = [x \in DOMAIN tree \cup {f} |-> IF x = f THEN <<>> ELSE tree[x]]
          /\ offset' = [offset EXCEPT ![b] =
                [x \in DOMAIN offset[b] \cup {f} |-> IF x = f THEN 0 ELSE offset[b][x]]]
      BY <2>1 DEF Truncate, Extend
    <3>2. <<>> \in Seq(Units)
      OBVIOUS
    <3> QED
      BY <3>1, <3>2 DEF ArtInv, DiskOK
  <2>2. ASSUME NEW b \in Builds, NEW f \in Files, Write(b, f)
        PROVE  DiskOK'
    <3> DEFINE at == offset[b][f] + 1
               was == tree[f]
               end == IF at > Len(was) THEN at ELSE Len(was)
               new == [i \in 1..end |-> IF i = at THEN b
                                        ELSE IF i <= Len(was) THEN was[i] ELSE Hole]
    <3>1. /\ tree' = [tree EXCEPT ![f] = new]
          /\ offset' = [offset EXCEPT ![b] = [offset[b] EXCEPT ![f] = at]]
          /\ f \in DOMAIN offset[b]
      BY <2>2 DEF Write
    <3>2. at \in Nat
      BY <3>1 DEF ArtInv, DiskOK
    <3>3. f \in DOMAIN tree => new \in Seq(Units)
      <4> SUFFICES ASSUME f \in DOMAIN tree PROVE new \in Seq(Units)
        OBVIOUS
      <4>1. was \in Seq(Units)
        BY DEF ArtInv, DiskOK
      <4> HIDE DEF at, was
      <4>2. end \in Nat
        BY <3>2, <4>1
      <4> HIDE DEF end
      <4>3. \A i \in 1..end : new[i] \in Units
        BY <4>1 DEF Units
      <4> QED
        BY <4>2, <4>3
    <3> HIDE DEF new, at
    <3> QED
      BY <3>1, <3>2, <3>3 DEF ArtInv, DiskOK
  <2>3. CASE Delete
    BY <2>3 DEF Delete, ArtInv, DiskOK
  <2> QED
    BY <2>1, <2>2, <2>3 DEF Disk
<1>2. /\ \/ rd' = rd /\ ~(rd.pc = "read" /\ rd.lost = Nil /\ rd.file \notin DOMAIN tree')
         \/ /\ rd.pc = "read" /\ rd.lost = Nil
            /\ rd' = [rd EXCEPT !.lost = tree[rd.file]]
      /\ UNCHANGED call
  BY DEF Disk
<1>3. rd.pc = "read" /\ rd.lost = Nil => tree[rd.file] \in Seq(Units) /\ tree[rd.file] # Nil
  BY ArtifactsAssumption DEF ArtInv, DiskOK, Knows, Units
<1>4. /\ DOMAIN rd' = Fields
      /\ rd'.pc = rd.pc /\ rd'.file = rd.file /\ rd'.buf = rd.buf /\ rd'.info = rd.info
      /\ rd'.todo = rd.todo /\ rd'.files = rd.files /\ rd'.found = rd.found
      /\ rd'.answer = rd.answer
      /\ \/ rd'.lost = rd.lost
         \/ rd.pc = "read" /\ rd.lost = Nil /\ rd'.lost = tree[rd.file]
  <2>1. CASE rd' = rd
    <3>1. DOMAIN rd' = Fields
      BY <2>1 DEF ArtInv, Holds
    <3> QED
      BY <2>1, <3>1
  <2>2. CASE /\ rd.pc = "read" /\ rd.lost = Nil
             /\ rd' = [rd EXCEPT !.lost = tree[rd.file]]
    <3>1. \A x \in Fields : x # "lost" => rd'[x] = rd[x]
      BY <2>2 DEF ArtInv, Holds
    <3>2. DOMAIN rd' = Fields /\ rd'.lost = tree[rd.file]
      BY <2>2 DEF ArtInv, Holds, Fields
    <3> QED
      BY <2>2, <3>1, <3>2 DEF Fields
  <2> QED
    BY <1>2, <2>1, <2>2
<1>5. Holds'
  BY <1>3, <1>4 DEF ArtInv, Holds
<1>6. CASE rd.pc \in {"idle", "told"}
  <2>1. rd.pc = "told" => seen' = seen /\ missed' = missed
    BY DEF Watch
  <2> QED
    BY <1>1, <1>4, <1>5, <1>6, <2>1 DEF ArtInv, Knows, Reading, HonestAnswer, NothingInvented
<1>7. CASE rd.pc \notin {"idle", "told"}
  <2>1. Sees' /\ seen \subseteq seen' /\ missed \subseteq missed'
    BY <1>7, WatchGrows
  <2>2. rd'.pc = "read" /\ rd'.lost = Nil => rd'.file \in DOMAIN tree'
    <3>1. CASE rd' = rd /\ ~(rd.pc = "read" /\ rd.lost = Nil /\ rd.file \notin DOMAIN tree')
      BY <3>1
    <3>2. CASE /\ rd.pc = "read" /\ rd.lost = Nil
               /\ rd' = [rd EXCEPT !.lost = tree[rd.file]]
      <4>1. rd'.lost = tree[rd.file]
        BY <3>2 DEF ArtInv, Holds, Fields
      <4> QED
        BY <1>3, <3>2, <4>1
    <3> QED
      BY <1>2, <3>1, <3>2
  <2>3. Knows'
    BY <1>4, <2>1, <2>2 DEF ArtInv, Knows, Reading
  <2> QED
    BY <1>1, <1>4, <1>5, <1>7, <2>1, <2>3 DEF ArtInv, HonestAnswer, NothingInvented
<1> QED
  BY <1>6, <1>7

\* The steps of the reader between its request and its answer.
LEMMA ReaderKeeps ==
  ASSUME ArtInv, ReaderStep, UNCHANGED diskVars, Watch
  PROVE  ArtInv'
<1>1. /\ place' = place /\ tree' = tree /\ DiskOK' /\ DOMAIN rd = Fields
      /\ Holds /\ Knows /\ HonestAnswer /\ NothingInvented
  BY DEF ArtInv, DiskOK, diskVars, Holds
<1> DEFINE Busy == rd.pc \notin {"idle", "told"}
<1>2. Busy => /\ Sees /\ Sees' /\ seen \subseteq seen' /\ missed \subseteq missed'
  BY WatchGrows DEF ArtInv
<1>3. <<>> \in Seq(Units) /\ <<>> \in Seq(Circuits) /\ Len(<<>>) = 0 /\ Cap \in Nat
  BY ArtifactsAssumption
<1>4. ASSUME Busy, NEW w, NEW f, Tell(w, f),
             w = "missing" => f \in missed',
             w \in {"malformed", "io"} => f \in seen' \cup {Nil}
      PROVE  ArtInv'
  <2>1. rd' = [rd EXCEPT !.pc = "told", !.answer = <<w, f>>]
    BY <1>4 DEF Tell
  <2>2. /\ DOMAIN rd' = Fields /\ rd'.pc = "told" /\ rd'.answer = <<w, f>>
        /\ rd'.buf = rd.buf /\ rd'.lost = rd.lost /\ rd'.todo = rd.todo
        /\ rd'.files = rd.files /\ rd'.found = rd.found
    BY <1>1, <2>1 DEF Fields
  <2>3. Holds' /\ Knows' /\ HonestAnswer'
    BY <1>1, <1>4, <2>2 DEF Holds, Knows, Reading, HonestAnswer
  <2> QED
    BY <1>1, <1>2, <1>4, <2>2, <2>3 DEF ArtInv, NothingInvented
<1>5. ASSUME Busy, rd'.pc \notin {"idle", "told"}, Holds', Knows',
             rd'.files \cup rd'.found \subseteq seen'
      PROVE  ArtInv'
  BY <1>1, <1>2, <1>5 DEF ArtInv, HonestAnswer, NothingInvented
<1>6. CASE Stat
  <2>1. Busy
    BY <1>6 DEF Stat
  <2>2. CASE ~Here(rd.file) /\ Tell("missing", rd.file)
    BY <1>1, <1>2, <1>4, <1>6, <2>1, <2>2 DEF Stat, Knows, Reading, Sees, Here
  <2>3. CASE Here(rd.file) /\ Tell("malformed", rd.file)
    BY <1>1, <1>2, <1>4, <2>1, <2>3 DEF Sees, Here
  <2>4. CASE Here(rd.file) /\ rd' = [rd EXCEPT !.pc = "open"]
    <3>1. /\ rd'.pc = "open" /\ DOMAIN rd' = Fields
          /\ \A x \in Fields \ {"pc"} : rd'[x] = rd[x]
      BY <1>1, <2>4 DEF Fields
    <3>2. rd.pc = "stat" /\ rd.file \in seen'
      BY <1>1, <1>2, <1>6, <2>1, <2>4 DEF Stat, Here, Sees
    <3> QED
      BY <1>1, <1>2, <1>5, <2>1, <3>1, <3>2 DEF Fields, Holds, Knows, Reading, NothingInvented
  <2> QED
    BY <1>6, <2>2, <2>3, <2>4 DEF Stat
<1>7. CASE Open
  <2>1. Busy
    BY <1>7 DEF Open
  <2>2. CASE ~Here(rd.file) /\ Tell("missing", rd.file)
    BY <1>1, <1>2, <1>4, <1>7, <2>1, <2>2 DEF Open, Knows, Reading, Sees, Here
  <2>3. CASE Here(rd.file) /\ rd' = [rd EXCEPT !.pc = "read", !.buf = <<>>]
    <3>1. /\ rd'.pc = "read" /\ rd'.buf = <<>> /\ DOMAIN rd' = Fields
          /\ \A x \in Fields \ {"pc", "buf"} : rd'[x] = rd[x]
      BY <1>1, <2>3 DEF Fields
    <3>2. rd.pc = "open" /\ rd.file \in DOMAIN tree'
      BY <1>1, <1>7, <2>3 DEF Open, Here
    <3> QED
      BY <1>1, <1>2, <1>3, <1>5, <2>1, <3>1, <3>2 DEF Fields, Holds, Knows, Reading, NothingInvented
  <2> QED
    BY <1>7, <2>2, <2>3 DEF Open
<1>8. CASE ReadOn
  <2>1. rd.pc = "read" /\ More /\ rd' = [rd EXCEPT !.buf = Append(rd.buf, Behind[Len(rd.buf) + 1])]
    BY <1>8 DEF ReadOn
  <2>2. Behind \in Seq(Units)
    BY <1>1, <2>1 DEF Behind, Holds, Knows, ArtInv, DiskOK
  <2>3. /\ Append(rd.buf, Behind[Len(rd.buf) + 1]) \in Seq(Units)
        /\ Len(Append(rd.buf, Behind[Len(rd.buf) + 1])) <= Cap + 1
    <3>1. rd.buf \in Seq(Units) /\ Len(rd.buf) \in Nat
      BY <1>1 DEF Holds
    <3>2. Len(rd.buf) < Len(Behind) /\ Len(rd.buf) < Cap + 1
      BY <2>1 DEF More
    <3>3. Behind[Len(rd.buf) + 1] \in Units
      BY <2>2, <3>1, <3>2
    <3> QED
      BY <1>3, <3>1, <3>2, <3>3, AppendProperties
  <2>4. /\ DOMAIN rd' = Fields /\ rd'.buf = Append(rd.buf, Behind[Len(rd.buf) + 1])
        /\ \A x \in Fields \ {"buf"} : rd'[x] = rd[x]
    BY <1>1, <2>1 DEF Fields
  <2> QED
    BY <1>1, <1>2, <1>5, <2>1, <2>3, <2>4 DEF Fields, Holds, Knows, Reading, NothingInvented
<1>9. CASE Unreadable
  <2>1. Busy /\ rd.file \in seen'
    BY <1>1, <1>2, <1>9 DEF Unreadable, Knows
  <2>2. \E w \in {"malformed", "io"} : Tell(w, rd.file)
    BY <1>9 DEF Unreadable
  <2> QED
    BY <1>4, <2>1, <2>2
<1>10. CASE IsDir
  <2>1. Busy
    BY <1>10 DEF IsDir
  <2>2. CASE ~place /\ Tell("missing", Nil)
    BY <1>1, <1>2, <1>4, <2>1, <2>2 DEF Sees
  <2>3. CASE place /\ rd' = [rd EXCEPT !.pc = "stat", !.file = Info]
    <3>1. /\ rd'.pc = "stat" /\ rd'.file = Info /\ DOMAIN rd' = Fields
          /\ \A x \in Fields \ {"pc", "file"} : rd'[x] = rd[x]
      BY <1>1, <2>3 DEF Fields
    <3> QED
      BY <1>1, <1>2, <1>5, <2>1, <3>1 DEF Fields, Holds, Knows, Reading, Readable, NothingInvented
  <2> QED
    BY <1>10, <2>2, <2>3 DEF IsDir
<1>11. CASE ListRoot
  <2>1. Busy /\ rd.info \in Builds
    BY <1>1, <1>11 DEF ListRoot, Knows
  <2>2. CASE ~place /\ Tell("io", Nil)
    BY <1>4, <2>1, <2>2
  <2>3. CASE rd' = [rd EXCEPT !.pc = "list", !.dirs = Dirs]
    <3>1. /\ rd'.pc = "list" /\ DOMAIN rd' = Fields
          /\ \A x \in Fields \ {"pc", "dirs"} : rd'[x] = rd[x]
      BY <1>1, <2>3 DEF Fields
    <3> QED
      BY <1>1, <1>2, <1>5, <2>1, <3>1 DEF Fields, Holds, Knows, Reading, NothingInvented
  <2> QED
    BY <1>11, <2>2, <2>3 DEF ListRoot
<1>12. CASE List
  <2>1. Busy /\ rd.info \in Builds /\ rd.pc = "list"
    BY <1>1, <1>12 DEF List, Knows
  <2>2. CASE Tell("io", Nil)
    BY <1>4, <2>1, <2>2
  <2>3. ASSUME NEW d \in rd.dirs,
               rd' = [rd EXCEPT !.dirs = @ \ {d},
                                !.files = @ \cup {f \in DOMAIN tree : DirOf(f) = d}]
        PROVE  ArtInv'
    <3>1. /\ DOMAIN rd' = Fields /\ rd'.files = rd.files \cup {f \in DOMAIN tree : DirOf(f) = d}
          /\ \A x \in Fields \ {"dirs", "files"} : rd'[x] = rd[x]
      BY <1>1, <2>3 DEF Fields
    <3>2. rd'.files \cup rd'.found \subseteq seen'
      BY <1>1, <1>2, <2>1, <3>1 DEF Fields, NothingInvented, Sees
    <3> QED
      BY <1>1, <1>2, <1>5, <2>1, <3>1, <3>2 DEF Fields, Holds, Knows, Reading
  <2>4. CASE rd' = [rd EXCEPT !.pc = "canon"]
    <3>1. /\ rd'.pc = "canon" /\ DOMAIN rd' = Fields
          /\ \A x \in Fields \ {"pc"} : rd'[x] = rd[x]
      BY <1>1, <2>4 DEF Fields
    <3> QED
      BY <1>1, <1>2, <1>5, <2>1, <3>1 DEF Fields, Holds, Knows, Reading, NothingInvented
  <2> QED
    BY <1>12, <2>2, <2>3, <2>4 DEF List
<1>13. CASE Canonicalize
  <2>1. Busy /\ rd.info \in Builds
    BY <1>1, <1>13 DEF Canonicalize, Knows
  <2>2. /\ rd'.pc = "probe" /\ DOMAIN rd' = Fields /\ rd'.todo = Listed[rd.info]
        /\ \A x \in Fields \ {"pc", "rooted", "todo"} : rd'[x] = rd[x]
    BY <1>1, <1>13 DEF Canonicalize, Fields
  <2>3. rd'.todo \in Seq(Circuits)
    BY <2>1, <2>2, ArtifactsAssumption
  <2> QED
    BY <1>1, <1>2, <1>5, <2>1, <2>2, <2>3 DEF Fields, Holds, Knows, Reading, NothingInvented
<1>14. CASE Probe
  <2> DEFINE f == <<Kinds[rd.kind], Head(rd.todo)>>
             last == rd.kind = Len(Kinds)
  <2>1. Busy /\ rd.info \in Builds /\ rd.pc = "probe" /\ rd.todo # <<>>
    BY <1>1, <1>14 DEF Probe, Knows
  <2>2. /\ DOMAIN rd' = Fields
        /\ rd'.found = IF Exists(f) THEN rd.found \cup {f} ELSE rd.found
        /\ rd'.todo = IF last THEN Tail(rd.todo) ELSE rd.todo
        /\ \A x \in Fields \ {"found", "kind", "todo"} : rd'[x] = rd[x]
    BY <1>1, <1>14 DEF Probe, Fields
  <2>3. Exists(f) => f \in seen'
    BY <1>1, <1>2, <2>1 DEF Exists, Here, Sees
  <2> HIDE DEF f, last
  <2>4. rd'.todo \in Seq(Circuits)
    BY <1>1, <2>1, <2>2, HeadTailProperties DEF Holds
  <2>5. rd'.files \cup rd'.found \subseteq seen'
    BY <1>1, <1>2, <2>1, <2>2, <2>3 DEF Fields, NothingInvented
  <2> QED
    BY <1>1, <1>2, <1>5, <2>1, <2>2, <2>4, <2>5 DEF Fields, Holds, Knows, Reading
<1>15. CASE Unknown
  BY <1>4, <1>15 DEF Unknown
<1>16. CASE NextCircuit
  <2>1. Busy /\ rd.info \in Builds /\ rd.pc = "next"
    BY <1>1, <1>16 DEF NextCircuit, Knows
  <2>2. CASE rd.todo = <<>>
    BY <1>4, <1>16, <2>1, <2>2 DEF NextCircuit
  <2>3. CASE rd.todo # <<>>
    <3> DEFINE c == Head(rd.todo)
    <3>1. c \in Circuits /\ Tail(rd.todo) \in Seq(Circuits)
      BY <1>1, <2>3, HeadTailProperties DEF Holds
    <3>2. CASE rd' = [rd EXCEPT !.pc = "stat", !.file = <<"zkir", c>>] /\ <<"zkir", c>> \in rd.found
      <4>1. /\ rd'.pc = "stat" /\ rd'.file = <<"zkir", c>> /\ DOMAIN rd' = Fields
            /\ \A x \in Fields \ {"pc", "file"} : rd'[x] = rd[x]
        BY <1>1, <3>2 DEF Fields
      <4>2. rd'.file \in Readable
        BY <3>1, <4>1 DEF Readable
      <4> HIDE DEF c
      <4> QED
        BY <1>1, <1>2, <1>5, <2>1, <2>3, <4>1, <4>2 DEF Fields, Holds, Knows, Reading, NothingInvented
    <3>3. CASE rd' = [rd EXCEPT !.todo = Tail(rd.todo)] \/ Missing(c)
      <4>1. /\ rd'.todo = Tail(rd.todo) /\ DOMAIN rd' = Fields
            /\ \A x \in Fields \ {"todo", "absent"} : rd'[x] = rd[x]
        <5>1. CASE rd' = [rd EXCEPT !.todo = Tail(rd.todo)]
          BY <1>1, <5>1 DEF Fields
        <5>2. CASE Missing(c)
          BY <1>1, <5>2 DEF Fields, Missing
        <5> QED
          BY <3>3, <5>1, <5>2
      <4> HIDE DEF c
      <4> QED
        BY <1>1, <1>2, <1>5, <2>1, <3>1, <4>1 DEF Fields, Holds, Knows, Reading, NothingInvented
    <3> QED
      BY <1>16, <2>3, <3>2, <3>3 DEF NextCircuit
  <2> QED
    BY <2>2, <2>3
<1>17. CASE Stats
  <2>1. rd.pc = "read" /\ rd.file # Info
    BY <1>17 DEF Stats, Accepted
  <2>2. Busy /\ rd.info \in Builds /\ rd.todo # <<>>
    BY <1>1, <2>1 DEF Knows, Reading
  <2>3. /\ rd'.pc = "next" /\ rd'.buf = <<>> /\ rd'.lost = Nil /\ rd'.todo = Tail(rd.todo)
        /\ DOMAIN rd' = Fields
        /\ \A x \in Fields \ {"pc", "file", "buf", "lost", "todo", "stats"} : rd'[x] = rd[x]
    BY <1>1, <1>17 DEF Stats, Fields
  <2>4. rd'.todo \in Seq(Circuits)
    BY <1>1, <2>2, <2>3, HeadTailProperties DEF Holds
  <2> QED
    BY <1>1, <1>2, <1>3, <1>5, <2>2, <2>3, <2>4 DEF Fields, Holds, Knows, Reading, NothingInvented
<1>18. ASSUME NEW b \in Builds, LoadInfo(b)
       PROVE  ArtInv'
  <2>1. Busy
    BY <1>18 DEF LoadInfo, Accepted
  <2>2. /\ rd'.pc = "root" /\ rd'.buf = <<>> /\ rd'.lost = Nil /\ rd'.info = b
        /\ DOMAIN rd' = Fields
        /\ \A x \in Fields \ {"pc", "file", "buf", "lost", "info"} : rd'[x] = rd[x]
    BY <1>1, <1>18 DEF LoadInfo, Fields
  <2> QED
    BY <1>1, <1>2, <1>3, <1>5, <2>1, <2>2 DEF Fields, Holds, Knows, Reading, NothingInvented
<1>19. CASE AskReader
  <2>1. rd.pc = "idle" /\ Sees'
    BY <1>19, WatchGrows DEF AskReader
  <2>2. /\ rd'.pc = "isdir" /\ rd'.buf = <<>> /\ rd'.lost = Nil /\ rd'.todo = <<>>
        /\ rd'.files = {} /\ rd'.found = {} /\ DOMAIN rd' = Fields
    BY <1>19 DEF AskReader, Fresh, Fields
  <2> QED
    BY <1>1, <1>3, <2>1, <2>2 DEF ArtInv, Holds, Knows, Reading, HonestAnswer, NothingInvented
<1>20. CASE Inspected
  BY <1>4, <1>20 DEF Inspected
<1>21. CASE ForgetAnswer
  <2>1. /\ rd'.pc = "idle" /\ rd'.buf = <<>> /\ rd'.lost = Nil /\ rd'.todo = <<>>
        /\ DOMAIN rd' = Fields
    BY <1>21 DEF ForgetAnswer, Fresh, Fields
  <2> QED
    BY <1>1, <1>3, <2>1 DEF ArtInv, Holds, Knows, Reading, HonestAnswer, NothingInvented
<1>22. ASSUME NEW w \in Circuits \cup {Nil}, Scanned(w)
       PROVE  ArtInv'
  <2>1. Busy /\ rd.info \in Builds
    BY <1>1, <1>22 DEF Scanned, Knows
  <2>2. /\ rd'.pc = "next" /\ rd'.todo = Listed[rd.info] /\ DOMAIN rd' = Fields
        /\ \A x \in Fields \ {"pc", "todo"} : rd'[x] = rd[x]
    BY <1>1, <1>22 DEF Scanned, Fields
  <2>3. rd'.todo \in Seq(Circuits)
    BY <2>1, <2>2, ArtifactsAssumption
  <2> QED
    BY <1>1, <1>2, <1>5, <2>1, <2>2, <2>3 DEF Fields, Holds, Knows, Reading, NothingInvented
<1> QED
  BY <1>6, <1>7, <1>8, <1>9, <1>10, <1>11, <1>12, <1>13, <1>14, <1>15, <1>16, <1>17,
     <1>18, <1>19, <1>20, <1>21, <1>22 DEF ReaderStep

LEMMA ArtInvariant == ArtSpec => []ArtInv
<1>1. ArtInit => ArtInv
  <2> SUFFICES ASSUME ArtInit PROVE ArtInv
    OBVIOUS
  <2>1. DOMAIN tree = {} /\ DOMAIN offset = Builds /\ \A b \in Builds : DOMAIN offset[b] = {}
    BY DEF ArtInit
  <2>2. /\ rd.pc = "idle" /\ rd.buf = <<>> /\ rd.lost = Nil /\ rd.todo = <<>>
        /\ DOMAIN rd = Fields
    BY DEF ArtInit, Fresh, Fields
  <2>3. DiskOK
    BY <2>1 DEF DiskOK
  <2>4. Holds /\ Knows
    BY <2>2, ArtifactsAssumption DEF Holds, Knows, Reading
  <2> QED
    BY <2>2, <2>3, <2>4 DEF ArtInv, HonestAnswer, NothingInvented
<1>2. ArtInv /\ [ArtNext]_artVars => ArtInv'
  <2> SUFFICES ASSUME ArtInv, [ArtNext]_artVars PROVE ArtInv'
    OBVIOUS
  <2>1. CASE ArtNext
    BY <2>1, DiskKeeps, ReaderKeeps DEF ArtNext, ArtStep
  <2>2. CASE UNCHANGED artVars
    BY <2>2 DEF artVars, ArtInv, DiskOK, Holds, Knows, Reading, Sees, HonestAnswer, NothingInvented
  <2> QED
    BY <2>1, <2>2
<1> QED
  BY <1>1, <1>2, PTL DEF ArtSpec

\* Whatever any number of compilers write, truncate, interleave or lose to a
\* deletion while it reads, a call holds at most one unit above the cap, reports
\* missing or unreadable only what was so at some moment of the call, and names
\* no file that was not there.
THEOREM ReportsWhatWas == ArtSpec => []ToldWasSo
<1>1. ArtInv => ToldWasSo
  BY DEF ArtInv, Holds, ToldWasSo, CapHolds
<1> QED
  BY <1>1, ArtInvariant, PTL

-----------------------------------------------------------------------------
(* Artifacts: a directory that does not change *)

OnInfo == Reading /\ rd.file = Info
OnZkir == Reading /\ rd.file # Info

\* The circuits of the contract info that was loaded, and how many of them the
\* scan, or the loop after it, is through with.
Listing == Listed[rd.info]
Done == Len(Listing) - Len(rd.todo)
IsRest(left, all) ==
  /\ Len(left) <= Len(all)
  /\ \A j \in DOMAIN left : left[j] = all[Len(all) - Len(left) + j]
Rest == IsRest(rd.todo, Listing)

Bare == rd.found = {} /\ rd.stats = <<>> /\ rd.absent = <<>> /\ rd.kind = 1

Loaded == Here(Info) /\ Len(tree[Info]) <= Cap /\ rd.info \in Passes(Info, tree[Info])

\* The candidates that are there, among those looked up so far and among all.
Looked ==
  {f \in DOMAIN tree : \E j \in DOMAIN Listing, i \in DOMAIN Kinds :
     /\ f = <<Kinds[i], Listing[j]>>
     /\ j <= Done \/ (j = Done + 1 /\ i < rd.kind)}
Candidates == {f \in DOMAIN tree : f # Info /\ f[2] \in ToSet(Listing)}

\* The wanted circuits among those done, and what has been reported of them.
Zkir(j) == <<"zkir", Listing[j]>>
Counted == {j \in 1..Done : call.circuit \in {Nil, Listing[j]}}
Stated == {j \in Counted : Here(Zkir(j))}
Verdict(j) == <<Listing[j], Listing[j] \in Proved[rd.info]>>
Account ==
  /\ rd.stats \in Seq(Circuits) /\ rd.absent \in Seq(Circuits \X BOOLEAN)
  /\ ToSet(rd.stats) = {Listing[j] : j \in Stated}
  /\ ToSet(rd.absent) = {Verdict(j) : j \in Counted \ Stated}
  /\ Len(rd.stats) + Len(rd.absent) = Cardinality(Counted)
  /\ \A j \in Stated : Len(tree[Zkir(j)]) <= Cap /\ Passes(Zkir(j), tree[Zkir(j)]) # {}

\* What the reader holds at each stage of a call during which nothing changed.
Snapshot ==
  /\ rd.lost = Nil
  /\ rd.pc \notin {"isdir", "told"} => place
  /\ rd.pc \in {"open", "read"} => Here(rd.file) /\ Len(tree[rd.file]) <= Cap
  /\ rd.pc = "read" =>
       /\ Len(rd.buf) <= Len(tree[rd.file])
       /\ \A i \in DOMAIN rd.buf : rd.buf[i] = tree[rd.file][i]
  /\ rd.pc \in {"isdir", "root"} \/ OnInfo => Bare /\ rd.files = {}
  /\ rd.pc \in {"root", "list", "canon", "probe", "next"} \/ OnZkir => Loaded
  /\ rd.pc = "list" =>
       Bare /\ rd.dirs \subseteq Dirs /\ rd.files = {f \in DOMAIN tree : DirOf(f) \notin rd.dirs}
  /\ rd.pc = "canon" => Bare /\ rd.files = DOMAIN tree
  /\ rd.pc = "probe" =>
       /\ rd.files = DOMAIN tree /\ rd.found = Looked
       /\ rd.stats = <<>> /\ rd.absent = <<>>
       /\ rd.rooted /\ rd.kind \in DOMAIN Kinds /\ Rest
  /\ rd.pc = "next" \/ OnZkir =>
       /\ rd.files = DOMAIN tree /\ rd.found = Candidates
       /\ call.tool = "zkir_stats" /\ Rest /\ Account
  /\ OnZkir =>
       /\ rd.todo # <<>> /\ rd.file = <<"zkir", Head(rd.todo)>> /\ Here(rd.file)
       /\ Wanted /\ call.circuit \in {Nil, Head(rd.todo)}
  /\ rd.pc = "told" => Expected

SnapInv ==
  /\ DOMAIN tree \subseteq Files
  /\ rd.pc # "idle" /\ ~moved => Snapshot

LEMMA ToSetAppend ==
  ASSUME NEW S, NEW s \in Seq(S), NEW e \in S
  PROVE  ToSet(Append(s, e)) = ToSet(s) \cup {e}
<1>1. /\ DOMAIN Append(s, e) = 1..Len(s) + 1
      /\ \A i \in 1..Len(s) + 1 : Append(s, e)[i] = IF i = Len(s) + 1 THEN e ELSE s[i]
  BY AppendProperties
<1>2. DOMAIN s = 1..Len(s) /\ Len(s) \in Nat
  OBVIOUS
<1> QED
  BY <1>1, <1>2 DEF ToSet

\* The head of what is left of a sequence is its next element.
LEMMA RestOfTail ==
  ASSUME NEW S, NEW all \in Seq(S), NEW left \in Seq(S), left # <<>>, IsRest(left, all)
  PROVE  /\ Tail(left) \in Seq(S) /\ Len(Tail(left)) = Len(left) - 1 /\ Len(left) > 0
         /\ Len(all) - Len(left) + 1 \in DOMAIN all
         /\ Head(left) = all[Len(all) - Len(left) + 1]
         /\ IsRest(Tail(left), all)
<1>1. /\ Head(left) = left[1] /\ Tail(left) \in Seq(S) /\ Len(Tail(left)) = Len(left) - 1
      /\ \A i \in 1..Len(Tail(left)) : Tail(left)[i] = left[i + 1]
  BY HeadTailProperties
<1>2. Len(left) \in Nat /\ Len(all) \in Nat /\ Len(left) > 0
  BY EmptySeq
<1>3. DOMAIN left = 1..Len(left) /\ DOMAIN all = 1..Len(all) /\ DOMAIN Tail(left) = 1..Len(left) - 1
  BY <1>1
<1>4. ASSUME NEW j \in DOMAIN Tail(left)
      PROVE  Tail(left)[j] = all[Len(all) - Len(Tail(left)) + j]
  <2>1. j + 1 \in DOMAIN left /\ j \in 1..Len(Tail(left)) /\ j \in Nat
    BY <1>1, <1>2, <1>3
  <2>2. Len(all) - Len(Tail(left)) + j = Len(all) - Len(left) + (j + 1)
    BY <1>1, <1>2, <2>1
  <2> QED
    BY <1>1, <2>1, <2>2 DEF IsRest
<1> QED
  BY <1>1, <1>2, <1>3, <1>4 DEF IsRest

\* A scan that is complete, and right about the statistics, is the expected answer.
ReportDone ==
  /\ DOMAIN tree \subseteq Files /\ place /\ Loaded
  /\ rd.files = DOMAIN tree /\ rd.found = Candidates
  /\ StatsRight(rd.info)

LEMMA ReportIsExpected == ReportDone => Expected
<1> SUFFICES ASSUME ReportDone PROVE Expected
  OBVIOUS
<1>1. ASSUME NEW f \in Candidates PROVE f = <<f[1], f[2]>>
  BY <1>1 DEF ReportDone, Files, Candidates
<1>2. ProvingKeys <=> \E c \in ToSet(Listed[rd.info]) : <<"prover", c>> \in DOMAIN tree
  <2>1. ASSUME ProvingKeys
        PROVE  \E c \in ToSet(Listed[rd.info]) : <<"prover", c>> \in DOMAIN tree
    <3>1. PICK f \in Candidates : f[1] = "prover"
      BY <2>1 DEF ProvingKeys, ReportDone
    <3>2. f = <<"prover", f[2]>> /\ f \in DOMAIN tree /\ f[2] \in ToSet(Listed[rd.info])
      BY <1>1, <3>1 DEF Candidates, Listing
    <3> QED
      BY <3>2
  <2>2. ASSUME NEW c \in ToSet(Listed[rd.info]), <<"prover", c>> \in DOMAIN tree
        PROVE  ProvingKeys
    <3>1. <<"prover", c>> \in Candidates
      BY <2>2 DEF Candidates, Listing, Info
    <3> QED
      BY <3>1 DEF ProvingKeys, ReportDone
  <2> QED
    BY <2>1, <2>2
<1>3. ScanRight(rd.info)
  BY <1>2 DEF ScanRight, ReportDone, Candidates, Listing
<1> QED
  BY <1>3 DEF Expected, ReportDone, Loaded

\* A text that was read to its end is the text of the file.
LEMMA ReadToItsEnd ==
  ASSUME DiskOK, Holds, Snapshot, rd.pc = "read", ~More
  PROVE  rd.buf = tree[rd.file] /\ Len(rd.buf) <= Cap
<1>1. /\ rd.file \in DOMAIN tree /\ Len(tree[rd.file]) <= Cap
      /\ Len(rd.buf) <= Len(tree[rd.file])
      /\ \A i \in DOMAIN rd.buf : rd.buf[i] = tree[rd.file][i]
      /\ Behind = tree[rd.file]
  BY DEF Snapshot, Here, Behind
<1>2. rd.buf \in Seq(Units) /\ tree[rd.file] \in Seq(Units)
  BY <1>1 DEF Holds, DiskOK
<1>3. Len(rd.buf) \in Nat /\ Len(tree[rd.file]) \in Nat /\ Cap \in Nat
  BY <1>2, ArtifactsAssumption
<1>4. Len(rd.buf) = Len(tree[rd.file]) /\ Len(rd.buf) <= Cap
  BY <1>1, <1>3 DEF More
<1> QED
  BY <1>1, <1>2, <1>4, SeqEqual

\* What a step leaves alone if it leaves these.
Beside ==
  /\ tree' = tree /\ place' = place /\ call' = call
  /\ \A x \in {"info", "todo", "found", "stats", "absent", "kind", "files", "lost"} : rd'[x] = rd[x]

LEMMA BesideKeeps ==
  ASSUME Beside
  PROVE  /\ Listing' = Listing /\ Done' = Done /\ Candidates' = Candidates /\ Dirs' = Dirs
         /\ (Bare' <=> Bare) /\ (Loaded' <=> Loaded) /\ (Rest' <=> Rest)
         /\ (Account' <=> Account) /\ (Wanted' <=> Wanted)
<1>1. Listing' = Listing /\ Done' = Done /\ Dirs' = Dirs
  BY DEF Beside, Listing, Done, Dirs
<1>2. Candidates' = Candidates /\ (Rest' <=> Rest)
  BY <1>1 DEF Beside, Candidates, Rest
<1>3. (Bare' <=> Bare) /\ (Loaded' <=> Loaded) /\ (Wanted' <=> Wanted)
  BY DEF Beside, Bare, Loaded, Here, Wanted
<1>4. Counted' = Counted
  BY <1>1 DEF Beside, Counted
<1>5. Stated' = Stated
  BY <1>1, <1>4 DEF Beside, Stated, Zkir, Here
<1>6. ASSUME NEW j PROVE Zkir(j)' = Zkir(j)
  BY <1>1 DEF Zkir
<1>7. Account' <=> Account
  <2>1. /\ (ToSet(rd.stats) = {Listing[j] : j \in Stated})'
             <=> ToSet(rd.stats) = {Listing[j] : j \in Stated}
        /\ (ToSet(rd.absent) = {Verdict(j) : j \in Counted \ Stated})'
             <=> ToSet(rd.absent) = {Verdict(j) : j \in Counted \ Stated}
    BY <1>1, <1>4, <1>5 DEF Beside, Verdict
  <2>2. (\A j \in Stated : Len(tree[Zkir(j)]) <= Cap /\ Passes(Zkir(j), tree[Zkir(j)]) # {})'
             <=> \A j \in Stated : Len(tree[Zkir(j)]) <= Cap /\ Passes(Zkir(j), tree[Zkir(j)]) # {}
    BY <1>5, <1>6 DEF Beside
  <2> QED
    BY <1>4, <2>1, <2>2 DEF Beside, Account
<1> QED
  BY <1>1, <1>2, <1>3, <1>7

\* The circuit that is next in line.
LEMMA NextInLine ==
  ASSUME Holds, rd.info \in Builds, rd.todo # <<>>, Rest
  PROVE  /\ Listing \in Seq(Circuits) /\ Len(Listing) \in Nat
         /\ Done \in Nat /\ Done + 1 \in DOMAIN Listing /\ Head(rd.todo) = Listing[Done + 1]
         /\ Tail(rd.todo) \in Seq(Circuits) /\ IsRest(Tail(rd.todo), Listing)
         /\ Len(Listing) - Len(Tail(rd.todo)) = Done + 1
<1>1. Listing \in Seq(Circuits) /\ Len(Listing) \in Nat
  BY ArtifactsAssumption DEF Listing
<1>2. rd.todo \in Seq(Circuits) /\ IsRest(rd.todo, Listing) /\ Len(rd.todo) \in Nat
  BY DEF Holds, Rest
<1>3. /\ Tail(rd.todo) \in Seq(Circuits) /\ Len(Tail(rd.todo)) = Len(rd.todo) - 1
      /\ Len(Listing) - Len(rd.todo) + 1 \in DOMAIN Listing
      /\ Head(rd.todo) = Listing[Len(Listing) - Len(rd.todo) + 1]
      /\ IsRest(Tail(rd.todo), Listing)
  BY <1>1, <1>2, RestOfTail
<1>4. Len(rd.todo) <= Len(Listing) /\ Done = Len(Listing) - Len(rd.todo)
  BY <1>2 DEF IsRest, Done
<1> DEFINE n == Len(Listing)
           m == Len(rd.todo)
           t == Len(Tail(rd.todo))
<1>5. Done \in Nat /\ n - t = Done + 1
  <2>1. n \in Nat /\ m \in Nat /\ t = m - 1 /\ m <= n /\ Done = n - m
    BY <1>1, <1>2, <1>3, <1>4
  <2> HIDE DEF n, m, t
  <2> QED
    BY <2>1
<1> QED
  BY <1>1, <1>3, <1>4, <1>5

LEMMA SnapSame ==
  ASSUME Snapshot, rd' = rd, call' = call, tree' = tree, place' = place
  PROVE  Snapshot'
<1>1. Beside
  BY DEF Beside
<1>2. Looked' = Looked
  BY DEF Looked, Done, Listing
<1>3. Expected' <=> Expected
  <2>1. ASSUME NEW b
        PROVE  (ScanRight(b)' <=> ScanRight(b)) /\ (StatsRight(b)' <=> StatsRight(b))
    BY DEF ScanRight, StatsRight, ProvingKeys
  <2>2. InfoRefused' <=> InfoRefused
    BY DEF InfoRefused, Whole
  <2> QED
    BY <2>1, <2>2 DEF Expected, Here
<1> QED
  BY <1>1, <1>2, <1>3, BesideKeeps DEF Snapshot, OnInfo, OnZkir, Reading, Here

\* A compiler or a deletion that changes anything is a change during the call.
LEMMA SnapDisk ==
  ASSUME ArtInv, SnapInv, Disk, Watch
  PROVE  SnapInv'
<1>1. DOMAIN tree' \subseteq Files
  <2>1. ASSUME NEW b \in Builds, NEW f \in Files, Truncate(b, f) PROVE DOMAIN tree' \subseteq Files
    BY <2>1 DEF Truncate, Extend, SnapInv
  <2>2. ASSUME NEW b \in Builds, NEW f \in Files, Write(b, f) PROVE DOMAIN tree' \subseteq Files
    BY <2>2 DEF Write, SnapInv
  <2>3. CASE Delete
    BY <2>3 DEF Delete
  <2> QED
    BY <2>1, <2>2, <2>3 DEF Disk
<1>2. ASSUME rd'.pc # "idle", ~moved' PROVE Snapshot'
  <2>1. rd'.pc = rd.pc
    BY DEF Disk, ArtInv, Holds, Fields
  <2>2. tree' = tree /\ place' = place /\ ~moved
    BY <1>2, <2>1 DEF Watch
  <2>3. rd' = rd /\ call' = call
    BY <2>2 DEF Disk, ArtInv, Knows
  <2>4. Snapshot
    BY <1>2, <2>1, <2>2 DEF SnapInv
  <2> QED
    BY <2>2, <2>3, <2>4, SnapSame
<1> QED
  BY <1>1, <1>2 DEF SnapInv

\* A step of the reader, seen from a call during which nothing changed.
Calm ==
  /\ tree' = tree /\ place' = place
  /\ DiskOK /\ Holds /\ Knows /\ Snapshot /\ DOMAIN tree \subseteq Files

\* An error about the contract info.
LEMMA TellsOfInfo ==
  ASSUME Calm, OnInfo, call' = call, NEW w \in {"malformed", "io"}, Tell(w, Info), Here(Info),
         Len(tree[Info]) > Cap \/ ~Whole(Info, tree[Info])
  PROVE  Snapshot'
<1>1. /\ rd'.pc = "told" /\ rd'.answer = <<w, Info>> /\ rd'.lost = rd.lost
  BY DEF Calm, Tell, Holds, Fields
<1>2. place /\ rd.lost = Nil
  BY DEF Calm, Snapshot, OnInfo, Reading
<1>3. Expected'
  BY <1>1, <1>2 DEF Calm, Expected, InfoRefused, Here, Whole
<1> QED
  BY <1>1, <1>2, <1>3 DEF Snapshot, OnInfo, OnZkir, Reading

\* The end of a call that knows everything about the scan.
LEMMA TellsTheReport ==
  ASSUME Calm, NEW w, NEW f, Tell(w, f), rd.lost = Nil, place, Loaded,
         rd.files = DOMAIN tree, rd.found = Candidates, StatsRight(rd.info)'
  PROVE  Snapshot'
<1>1. /\ rd'.pc = "told" /\ \A x \in Fields \ {"pc", "answer"} : rd'[x] = rd[x]
  BY DEF Calm, Tell, Holds, Fields
<1>2. Loaded' /\ Candidates' = Candidates
  BY <1>1 DEF Calm, Loaded, Here, Candidates, Listing, Fields
<1>3. ReportDone'
  BY <1>1, <1>2 DEF ReportDone, Calm, Fields
<1>4. (ReportDone => Expected)'
  BY ReportIsExpected, PTL
<1> QED
  BY <1>1, <1>3, <1>4 DEF Snapshot, OnInfo, OnZkir, Reading, Fields

\* An error about a circuit's .zkir.
LEMMA TellsOfZkir ==
  ASSUME Calm, OnZkir, call' = call, NEW w \in {"malformed", "io"}, Tell(w, rd.file)
  PROVE  Snapshot'
<1>1. /\ rd'.answer = <<w, rd.file>> /\ \A x \in Fields \ {"pc", "answer"} : rd'[x] = rd[x]
  BY DEF Calm, Tell, Holds, Fields
<1>2. /\ rd.file = <<"zkir", Head(rd.todo)>> /\ Here(rd.file) /\ rd.todo # <<>>
      /\ Wanted /\ call.circuit \in {Nil, Head(rd.todo)} /\ Rest /\ Loaded
      /\ rd.files = DOMAIN tree /\ rd.found = Candidates /\ rd.lost = Nil /\ place
  BY DEF Calm, Snapshot, OnZkir, Reading
<1>3. Holds /\ rd.info \in Builds
  BY DEF Calm, Knows, OnZkir
<1>4. Head(rd.todo) \in ToSet(Listed[rd.info])
  BY <1>2, <1>3, NextInLine DEF ToSet, Listing
<1>5. StatsRight(rd.info)'
  <2>1. call.circuit \in ToSet(Listed[rd.info]) \cup {Nil}
    BY <1>2 DEF Wanted
  <2>2. rd'.info = rd.info /\ rd'.answer[1] = w /\ rd'.answer[2][2] = Head(rd.todo)
    BY <1>1, <1>2 DEF Fields
  <2>3. Head(rd.todo) \in IF call.circuit = Nil THEN ToSet(Listed[rd.info]) ELSE {call.circuit}
    BY <1>2, <1>4
  <2>4. <<"zkir", Head(rd.todo)>> \in DOMAIN tree'
    BY <1>2 DEF Calm, Here
  <2> QED
    BY <2>1, <2>2, <2>3, <2>4 DEF StatsRight
<1> QED
  BY <1>2, <1>5, TellsTheReport

\* Reading a file to its end, of the contract info and of a .zkir.
LEMMA SnapRead ==
  ASSUME Calm, UNCHANGED call, Stat \/ Open \/ ReadOn \/ Unreadable
  PROVE  Snapshot'
<1>1. /\ tree' = tree /\ place' = place /\ call' = call
      /\ DiskOK /\ Holds /\ Knows /\ Snapshot /\ DOMAIN rd = Fields
  BY DEF Calm, Holds
<1>2. Reading /\ place /\ rd.lost = Nil /\ (OnZkir => Here(rd.file)) /\ (OnInfo \/ OnZkir)
      /\ (OnInfo => rd.file = Info)
  BY <1>1 DEF Snapshot, OnInfo, OnZkir, Reading, Stat, Open, ReadOn, Unreadable
<1>3. ASSUME rd'.pc \in {"open", "read"}, Here(rd.file), Len(tree[rd.file]) <= Cap,
             \A x \in Fields \ {"pc", "buf"} : rd'[x] = rd[x],
             rd'.pc = "read" =>
               /\ Len(rd'.buf) <= Len(tree[rd.file])
               /\ \A i \in DOMAIN rd'.buf : rd'.buf[i] = tree[rd.file][i]
      PROVE  Snapshot'
  <2>1. rd'.file = rd.file /\ rd'.files = rd.files /\ rd'.todo = rd.todo /\ rd'.found = rd.found
        /\ rd'.lost = rd.lost
    BY <1>3 DEF Fields
  <2>2. Beside
    BY <1>1, <1>3 DEF Beside, Fields
  <2>3. (OnInfo' <=> OnInfo) /\ (OnZkir' <=> OnZkir)
    BY <1>2, <1>3, <2>1 DEF OnInfo, OnZkir, Reading
  <2> QED
    BY <1>1, <1>2, <1>3, <2>1, <2>2, <2>3, BesideKeeps DEF Snapshot, Here
<1>4. CASE Stat
  <2>1. CASE ~Here(rd.file) /\ Tell("missing", rd.file)
    <3>1. ~Here(Info) /\ rd.file = Info
      BY <1>2, <2>1
    <3>2. /\ rd'.pc = "told" /\ rd'.answer = <<"missing", Info>> /\ rd'.lost = rd.lost
      BY <1>1, <2>1, <3>1 DEF Tell, Fields
    <3>3. Expected'
      BY <1>1, <1>2, <3>1, <3>2 DEF Expected, Here
    <3> QED
      BY <1>2, <3>2, <3>3 DEF Snapshot, OnInfo, OnZkir, Reading
  <2>2. CASE Here(rd.file) /\ Len(tree[rd.file]) > Cap /\ Tell("malformed", rd.file)
    <3>1. CASE OnInfo
      BY <1>1, <1>2, <2>2, <3>1, TellsOfInfo
    <3>2. CASE OnZkir
      BY <1>1, <2>2, <3>2, TellsOfZkir
    <3> QED
      BY <1>2, <3>1, <3>2
  <2>3. CASE Here(rd.file) /\ Len(tree[rd.file]) <= Cap /\ rd' = [rd EXCEPT !.pc = "open"]
    <3>1. rd'.pc = "open" /\ \A x \in Fields \ {"pc"} : rd'[x] = rd[x]
      BY <1>1, <2>3 DEF Fields
    <3> QED
      BY <1>3, <2>3, <3>1
  <2> QED
    BY <1>4, <2>1, <2>2, <2>3 DEF Stat
<1>5. CASE Open
  <2>1. Here(rd.file) /\ Len(tree[rd.file]) <= Cap /\ rd' = [rd EXCEPT !.pc = "read", !.buf = <<>>]
    BY <1>1, <1>5 DEF Open, Snapshot
  <2>2. /\ rd'.pc = "read" /\ rd'.buf = <<>>
        /\ \A x \in Fields \ {"pc", "buf"} : rd'[x] = rd[x]
    BY <1>1, <2>1 DEF Fields
  <2>3. tree[rd.file] \in Seq(Units)
    BY <1>1, <2>1 DEF DiskOK, Here
  <2> QED
    BY <1>3, <2>1, <2>2, <2>3
<1>6. CASE ReadOn
  <2>1. /\ rd.pc = "read" /\ More /\ rd' = [rd EXCEPT !.buf = Append(rd.buf, Behind[Len(rd.buf) + 1])]
        /\ Behind = tree[rd.file] /\ Here(rd.file) /\ Len(tree[rd.file]) <= Cap
        /\ Len(rd.buf) <= Len(tree[rd.file])
        /\ \A i \in DOMAIN rd.buf : rd.buf[i] = tree[rd.file][i]
    BY <1>1, <1>2, <1>6 DEF ReadOn, Snapshot, Behind
  <2>2. /\ rd'.pc = "read" /\ rd'.buf = Append(rd.buf, tree[rd.file][Len(rd.buf) + 1])
        /\ \A x \in Fields \ {"pc", "buf"} : rd'[x] = rd[x]
    BY <1>1, <2>1 DEF Fields
  <2>3. tree[rd.file] \in Seq(Units) /\ rd.buf \in Seq(Units) /\ Len(rd.buf) < Len(tree[rd.file])
    BY <1>1, <2>1 DEF DiskOK, Here, Holds, More
  <2>4. tree[rd.file][Len(rd.buf) + 1] \in Units
    BY <2>3
  <2>5. /\ Len(rd'.buf) <= Len(tree[rd.file])
        /\ \A i \in DOMAIN rd'.buf : rd'.buf[i] = tree[rd.file][i]
    BY <2>1, <2>2, <2>3, <2>4, AppendProperties
  <2> QED
    BY <1>3, <2>1, <2>2, <2>5
<1>7. CASE Unreadable
  <2>1. rd.pc = "read" /\ ~More
    BY <1>7 DEF Unreadable
  <2>2. rd.buf = tree[rd.file] /\ Len(rd.buf) <= Cap /\ Here(rd.file)
    BY <1>1, <2>1, ReadToItsEnd DEF Snapshot
  <2>3. Len(rd.buf) \in Nat /\ Cap \in Nat
    BY <1>1, ArtifactsAssumption DEF Holds
  <2>4. ~Whole(rd.file, tree[rd.file]) /\ \E w \in {"malformed", "io"} : Tell(w, rd.file)
    BY <1>7, <2>2, <2>3 DEF Unreadable
  <2>5. CASE OnInfo
    BY <1>1, <1>2, <2>2, <2>4, <2>5, TellsOfInfo
  <2>6. CASE OnZkir
    BY <1>1, <2>4, <2>6, TellsOfZkir
  <2> QED
    BY <1>2, <2>5, <2>6
<1> QED
  BY <1>4, <1>5, <1>6, <1>7

\* The scan, up to the last candidate.
LEMMA SnapScan ==
  ASSUME Calm, UNCHANGED call,
         \/ IsDir \/ ListRoot \/ List \/ Canonicalize \/ Probe
         \/ \E b \in Builds : LoadInfo(b)
  PROVE  Snapshot'
<1>1. /\ tree' = tree /\ place' = place /\ call' = call
      /\ DiskOK /\ Holds /\ Knows /\ Snapshot /\ DOMAIN rd = Fields
  BY DEF Calm, Holds
<1>2. CASE IsDir
  <2>1. rd.pc = "isdir" /\ Bare /\ rd.files = {} /\ rd.lost = Nil
    BY <1>1, <1>2 DEF IsDir, Snapshot
  <2>2. CASE ~place /\ Tell("missing", Nil)
    <3>1. rd'.pc = "told" /\ rd'.answer = <<"missing", Nil>> /\ rd'.lost = rd.lost
      BY <1>1, <2>2 DEF Tell, Fields
    <3>2. Expected'
      BY <1>1, <2>2, <3>1 DEF Expected
    <3> QED
      BY <2>1, <3>1, <3>2 DEF Snapshot, OnInfo, OnZkir, Reading
  <2>3. CASE place /\ rd' = [rd EXCEPT !.pc = "stat", !.file = Info]
    <3>1. /\ rd'.pc = "stat" /\ rd'.file = Info
          /\ \A x \in Fields \ {"pc", "file"} : rd'[x] = rd[x]
      BY <1>1, <2>3 DEF Fields
    <3>2. Beside
      BY <1>1, <3>1 DEF Beside, Fields
    <3> QED
      BY <1>1, <2>1, <2>3, <3>1, <3>2, BesideKeeps DEF Snapshot, OnInfo, OnZkir, Reading, Fields
  <2> QED
    BY <1>2, <2>2, <2>3 DEF IsDir
<1>3. ASSUME NEW b \in Builds, LoadInfo(b)
      PROVE  Snapshot'
  <2>1. rd.pc = "read" /\ ~More /\ rd.file = Info /\ b \in Passes(Info, rd.buf)
    BY <1>3 DEF LoadInfo, Accepted
  <2>2. rd.buf = tree[Info] /\ Len(tree[Info]) <= Cap /\ Here(Info)
    BY <1>1, <2>1, ReadToItsEnd DEF Snapshot
  <2>3. Bare /\ rd.files = {} /\ place
    BY <1>1, <2>1 DEF Snapshot, OnInfo, Reading
  <2>4. /\ rd'.pc = "root" /\ rd'.info = b /\ rd'.lost = Nil
        /\ \A x \in Fields \ {"pc", "info", "file", "buf", "lost"} : rd'[x] = rd[x]
    BY <1>1, <1>3 DEF LoadInfo, Fields
  <2>5. Loaded'
    BY <1>1, <2>1, <2>2, <2>4 DEF Loaded, Here
  <2>6. Bare' /\ rd'.files = {}
    BY <2>3, <2>4 DEF Bare, Fields
  <2> QED
    BY <1>1, <2>3, <2>4, <2>5, <2>6 DEF Snapshot, OnInfo, OnZkir, Reading
<1>4. CASE ListRoot
  <2>1. rd.pc = "root" /\ place /\ Bare /\ rd.files = {} /\ rd.lost = Nil /\ Loaded
        /\ rd' = [rd EXCEPT !.pc = "list", !.dirs = Dirs]
    BY <1>1, <1>4 DEF ListRoot, Snapshot
  <2>2. /\ rd'.pc = "list" /\ rd'.dirs = Dirs
        /\ \A x \in Fields \ {"pc", "dirs"} : rd'[x] = rd[x]
    BY <1>1, <2>1 DEF Fields
  <2>3. Beside
    BY <1>1, <2>2 DEF Beside, Fields
  <2>4. {f \in DOMAIN tree : DirOf(f) \notin Dirs} = {}
    BY DEF Dirs
  <2> QED
    BY <1>1, <2>1, <2>2, <2>3, <2>4, BesideKeeps DEF Snapshot, OnInfo, OnZkir, Reading, Fields
<1>5. CASE List
  <2>1. /\ rd.pc = "list" /\ place /\ Bare /\ rd.lost = Nil /\ Loaded /\ rd.dirs \subseteq Dirs
        /\ rd.files = {f \in DOMAIN tree : DirOf(f) \notin rd.dirs}
    BY <1>1, <1>5 DEF List, Snapshot
  <2>2. ASSUME NEW d \in rd.dirs,
               rd' = [rd EXCEPT !.dirs = @ \ {d},
                                !.files = @ \cup {f \in DOMAIN tree : DirOf(f) = d}]
        PROVE  Snapshot'
    <3>1. /\ rd'.dirs = rd.dirs \ {d} /\ rd'.files = rd.files \cup {f \in DOMAIN tree : DirOf(f) = d}
          /\ \A x \in Fields \ {"files", "dirs"} : rd'[x] = rd[x]
      BY <1>1, <2>2 DEF Fields
    <3>2. rd'.files = {f \in DOMAIN tree : DirOf(f) \notin rd'.dirs}
      BY <2>1, <2>2, <3>1
    <3>3. rd'.pc = "list" /\ Loaded' /\ Bare' /\ Dirs' = Dirs /\ rd'.lost = Nil
      BY <1>1, <2>1, <3>1 DEF Fields, Loaded, Here, Bare, Dirs
    <3> QED
      BY <1>1, <2>1, <3>1, <3>2, <3>3 DEF Snapshot, OnInfo, OnZkir, Reading
  <2>3. CASE rd.dirs = {} /\ rd' = [rd EXCEPT !.pc = "canon"]
    <3>1. rd'.pc = "canon" /\ \A x \in Fields \ {"pc"} : rd'[x] = rd[x]
      BY <1>1, <2>3 DEF Fields
    <3>2. Beside
      BY <1>1, <3>1 DEF Beside, Fields
    <3>3. rd'.files = DOMAIN tree
      BY <2>1, <2>3, <3>1 DEF Fields
    <3> QED
      BY <1>1, <2>1, <3>1, <3>2, <3>3, BesideKeeps DEF Snapshot, OnInfo, OnZkir, Reading, Fields
  <2> QED
    BY <1>5, <2>1, <2>2, <2>3 DEF List
<1>6. CASE Canonicalize
  <2>1. /\ rd.pc = "canon" /\ place /\ Bare /\ rd.lost = Nil /\ Loaded
        /\ rd.files = DOMAIN tree /\ rd.info \in Builds
    BY <1>1, <1>6 DEF Canonicalize, Snapshot, Knows
  <2>2. /\ rd'.pc = "probe" /\ rd'.rooted = place /\ rd'.todo = Listing
        /\ \A x \in Fields \ {"pc", "rooted", "todo"} : rd'[x] = rd[x]
    BY <1>1, <1>6 DEF Canonicalize, Fields, Listing
  <2>3. Listing \in Seq(Circuits) /\ Len(Listing) \in Nat
    BY <2>1, ArtifactsAssumption DEF Listing
  <2>4. Listing' = Listing /\ Done' = 0 /\ Rest'
    <3>1. Listing' = Listing /\ Done' = 0
      BY <2>2, <2>3 DEF Done, Listing, Fields
    <3>2. \A j \in DOMAIN Listing : Len(Listing) - Len(Listing) + j = j
      BY <2>3
    <3>3. IsRest(Listing, Listing)
      BY <2>3, <3>2 DEF IsRest
    <3> QED
      BY <2>2, <3>1, <3>3 DEF Rest
  <2>5. rd'.kind = 1 /\ rd'.found = {} /\ rd'.stats = <<>> /\ rd'.absent = <<>> /\ rd'.lost = Nil
        /\ rd'.files = DOMAIN tree
    BY <2>1, <2>2 DEF Bare, Fields
  <2>6. rd'.kind \in DOMAIN Kinds /\ \A i \in DOMAIN Kinds : ~(i < 1)
    BY <2>5, ArtifactsAssumption, EmptySeq
  <2>7. Looked' = {}
    BY <2>3, <2>4, <2>5, <2>6 DEF Looked
  <2>8. Loaded'
    BY <1>1, <2>1, <2>2 DEF Loaded, Here, Fields
  <2> QED
    BY <1>1, <2>1, <2>2, <2>4, <2>5, <2>6, <2>7, <2>8 DEF Snapshot, OnInfo, OnZkir, Reading
<1>7. CASE Probe
  <2> DEFINE c == Head(rd.todo)
             f == <<Kinds[rd.kind], c>>
             last == rd.kind = Len(Kinds)
  <2>1. /\ rd.pc = "probe" /\ place /\ rd.lost = Nil /\ Loaded /\ rd.files = DOMAIN tree
        /\ rd.found = Looked /\ rd.stats = <<>> /\ rd.absent = <<>> /\ rd.rooted
        /\ rd.kind \in DOMAIN Kinds /\ Rest /\ rd.info \in Builds
        /\ rd.todo # <<>> /\ rd.todo \in Seq(Circuits)
    BY <1>1, <1>7 DEF Probe, Snapshot, Knows, Holds
  <2>2. /\ rd'.found = IF Exists(f) THEN rd.found \cup {f} ELSE rd.found
        /\ rd'.todo = IF last THEN Tail(rd.todo) ELSE rd.todo
        /\ rd'.kind = IF last THEN 1 ELSE rd.kind + 1
        /\ \A x \in Fields \ {"found", "kind", "todo"} : rd'[x] = rd[x]
    BY <1>1, <1>7 DEF Probe, Fields
  <2>3. Listing' = Listing /\ Listing \in Seq(Circuits) /\ Len(Listing) \in Nat
    <3>1. rd'.info = rd.info
      BY <2>2 DEF Fields
    <3>2. Listing' = Listing
      BY <3>1 DEF Listing
    <3> QED
      BY <1>1, <2>1, <3>2, NextInLine
  <2>4. /\ Done \in Nat /\ Done + 1 \in DOMAIN Listing /\ c = Listing[Done + 1]
        /\ IsRest(Tail(rd.todo), Listing) /\ Len(Listing) - Len(Tail(rd.todo)) = Done + 1
    BY <1>1, <2>1, NextInLine
  <2>5. /\ Done \in Int /\ Len(Kinds) \in Nat /\ DOMAIN Kinds = 1..Len(Kinds)
        /\ rd.kind \in 1..Len(Kinds) /\ DOMAIN Listing \subseteq Nat
    <3>1. Kinds \in Seq(STRING)
      BY ArtifactsAssumption
    <3>2. Len(Kinds) \in Nat /\ DOMAIN Kinds = 1..Len(Kinds)
      BY <3>1
    <3>3. DOMAIN Listing \subseteq Nat
      BY <2>3
    <3>4. Done \in Int
      BY <2>4
    <3> QED
      BY <2>1, <3>2, <3>3, <3>4
  <2>6. Rest' /\ Done' = IF last THEN Done + 1 ELSE Done
    BY <2>1, <2>2, <2>3, <2>4 DEF Rest, Done
  <2>7. rd'.kind \in DOMAIN Kinds
    BY <2>2, <2>5
  <2>8. ASSUME NEW j \in DOMAIN Listing, NEW i \in DOMAIN Kinds
        PROVE  (j <= Done' \/ (j = Done' + 1 /\ i < rd'.kind))
                 <=> \/ j <= Done \/ (j = Done + 1 /\ i < rd.kind)
                     \/ j = Done + 1 /\ i = rd.kind
    BY <2>2, <2>5, <2>6
  <2> HIDE DEF last
  <2>9. rd'.found = Looked \cup {g \in DOMAIN tree : g = f}
    BY <2>1, <2>2 DEF Exists, Here
  <2>10. Looked' = rd'.found
    <3>1. ASSUME NEW g \in DOMAIN tree
          PROVE  g \in Looked' <=> g \in Looked \/ g = f
      <4>1. g \in Looked' <=> \E j \in DOMAIN Listing, i \in DOMAIN Kinds :
                /\ g = <<Kinds[i], Listing[j]>>
                /\ \/ j <= Done \/ (j = Done + 1 /\ i < rd.kind)
                   \/ j = Done + 1 /\ i = rd.kind
        BY <1>1, <2>3, <2>8 DEF Looked
      <4> QED
        BY <2>1, <2>4, <4>1 DEF Looked
    <3>2. Looked' \subseteq DOMAIN tree /\ Looked \subseteq DOMAIN tree
      BY <1>1 DEF Looked
    <3> QED
      BY <2>9, <3>1, <3>2
  <2>11. Loaded' /\ rd'.pc = "probe" /\ rd'.lost = Nil /\ rd'.files = DOMAIN tree
         /\ rd'.stats = <<>> /\ rd'.absent = <<>> /\ rd'.rooted
    BY <1>1, <2>1, <2>2 DEF Loaded, Here, Fields
  <2> QED
    BY <1>1, <2>1, <2>6, <2>7, <2>10, <2>11 DEF Snapshot, OnInfo, OnZkir, Reading
<1> QED
  BY <1>2, <1>3, <1>4, <1>5, <1>6, <1>7

\* The loop over the circuits gets by one: one that is not wanted, one that has
\* no .zkir and one that has.
GetsBy ==
  LET c == Head(rd.todo)
      f == <<"zkir", c>>
      same == rd'.stats = rd.stats /\ rd'.absent = rd.absent
  IN  \/ call.circuit \notin {Nil, c} /\ same
      \/ /\ call.circuit \in {Nil, c} /\ f \notin rd.found
         /\ rd'.stats = rd.stats
         /\ rd'.absent = Append(rd.absent, <<c, c \in Proved[rd.info]>>)
      \/ /\ call.circuit \in {Nil, c} /\ Here(f)
         /\ Len(tree[f]) <= Cap /\ Passes(f, tree[f]) # {}
         /\ rd'.stats = Append(rd.stats, c) /\ rd'.absent = rd.absent

LEMMA AccountGrows ==
  ASSUME Calm, call' = call, Rest, Account, Loaded, rd.found = Candidates,
         rd.info \in Builds, rd.todo # <<>>, rd'.info = rd.info, rd'.todo = Tail(rd.todo), GetsBy
  PROVE  Rest' /\ Account'
<1> DEFINE c == Head(rd.todo)
           f == <<"zkir", c>>
           k == Done + 1
<1>1. /\ tree' = tree /\ Holds /\ DOMAIN tree \subseteq Files
  BY DEF Calm
<1>2. /\ Listing \in Seq(Circuits) /\ Len(Listing) \in Nat /\ Done \in Nat /\ k \in DOMAIN Listing
      /\ c = Listing[k] /\ IsRest(Tail(rd.todo), Listing)
  BY <1>1, NextInLine
<1>3. Listing' = Listing
  BY DEF Listing
<1>4. Done' = k /\ Rest'
  BY <1>1, <1>2, <1>3, NextInLine DEF Rest, Done
<1>5. 1..k = 1..Done \cup {k} /\ k \notin 1..Done
  BY <1>2
<1>6. c \in Circuits /\ f = Zkir(k) /\ f # Info /\ (Here(f) <=> f \in rd.found)
  BY <1>2, ArtifactsAssumption DEF Zkir, Info, Candidates, Here, ToSet
<1>7. Counted' = Counted \cup {j \in {k} : call.circuit \in {Nil, c}}
  BY <1>2, <1>3, <1>4, <1>5 DEF Counted
<1>8. Stated' = Stated \cup {j \in {k} : call.circuit \in {Nil, c} /\ Here(f)}
  BY <1>1, <1>3, <1>6, <1>7 DEF Stated, Zkir, Here
<1>9. /\ rd.stats \in Seq(Circuits) /\ rd.absent \in Seq(Circuits \X BOOLEAN)
      /\ ToSet(rd.stats) = {Listing[j] : j \in Stated}
      /\ ToSet(rd.absent) = {Verdict(j) : j \in Counted \ Stated}
      /\ Len(rd.stats) + Len(rd.absent) = Cardinality(Counted)
      /\ \A j \in Stated : Len(tree[Zkir(j)]) <= Cap /\ Passes(Zkir(j), tree[Zkir(j)]) # {}
  BY DEF Account
<1>10. /\ Stated \subseteq Counted /\ Counted \subseteq 1..Done /\ k \notin Counted
       /\ IsFiniteSet(Counted) /\ Cardinality(Counted \cup {k}) = Cardinality(Counted) + 1
  <2>1. Counted \subseteq 1..Done /\ Stated \subseteq Counted
    BY DEF Counted, Stated
  <2>2. IsFiniteSet(Counted)
    <3>1. IsFiniteSet(1..Done)
      BY <1>2, FS_Interval
    <3> QED
      BY <2>1, <3>1, FS_Subset
  <2> QED
    BY <1>5, <2>1, <2>2, FS_AddElement
<1>11. ASSUME NEW j PROVE Zkir(j)' = Zkir(j) /\ Verdict(j)' = Verdict(j)
  BY <1>3 DEF Zkir, Verdict
<1> DEFINE e == <<c, c \in Proved[rd.info]>>
<1>12. e \in Circuits \X BOOLEAN /\ e = Verdict(k)
  <2>1. (c \in Proved[rd.info]) \in BOOLEAN
    OBVIOUS
  <2>2. e = Verdict(k)
    BY <1>2 DEF Verdict
  <2> QED
    BY <1>6, <2>1, <2>2
<1> HIDE DEF c, e, f, k
<1>13. /\ Len(rd.stats) \in Nat /\ Len(rd.absent) \in Nat /\ Cardinality(Counted) \in Nat
       /\ Append(rd.stats, c) \in Seq(Circuits) /\ Append(rd.absent, e) \in Seq(Circuits \X BOOLEAN)
       /\ Len(Append(rd.stats, c)) = Len(rd.stats) + 1
       /\ Len(Append(rd.absent, e)) = Len(rd.absent) + 1
       /\ ToSet(Append(rd.stats, c)) = ToSet(rd.stats) \cup {c}
       /\ ToSet(Append(rd.absent, e)) = ToSet(rd.absent) \cup {e}
  <2>1. c \in Circuits /\ e \in Circuits \X BOOLEAN
    BY <1>6, <1>12
  <2>2. Cardinality(Counted) \in Nat
    BY <1>10, FS_CardinalityType
  <2>3. /\ Append(rd.stats, c) \in Seq(Circuits) /\ Len(Append(rd.stats, c)) = Len(rd.stats) + 1
        /\ ToSet(Append(rd.stats, c)) = ToSet(rd.stats) \cup {c}
    BY <1>9, <2>1, AppendProperties, ToSetAppend
  <2>4. /\ Append(rd.absent, e) \in Seq(Circuits \X BOOLEAN)
        /\ Len(Append(rd.absent, e)) = Len(rd.absent) + 1
        /\ ToSet(Append(rd.absent, e)) = ToSet(rd.absent) \cup {e}
    BY <1>9, <2>1, AppendProperties, ToSetAppend
  <2>5. Len(rd.stats) \in Nat /\ Len(rd.absent) \in Nat
    BY <1>9
  <2> QED
    BY <2>2, <2>3, <2>4, <2>5
<1>14. CASE call.circuit \notin {Nil, c} /\ rd'.stats = rd.stats /\ rd'.absent = rd.absent
  <2>1. Counted' = Counted /\ Stated' = Stated
    BY <1>7, <1>8, <1>14
  <2>2. /\ {Listing[j] : j \in Stated}' = {Listing[j] : j \in Stated}
        /\ {Verdict(j) : j \in Counted \ Stated}' = {Verdict(j) : j \in Counted \ Stated}
    BY <1>3, <1>11, <2>1
  <2> QED
    BY <1>1, <1>4, <1>9, <1>11, <1>14, <2>1, <2>2 DEF Account
<1>15. CASE /\ call.circuit \in {Nil, c} /\ f \notin rd.found
            /\ rd'.stats = rd.stats /\ rd'.absent = Append(rd.absent, e)
  <2>1. Counted' = Counted \cup {k} /\ Stated' = Stated
    BY <1>6, <1>7, <1>8, <1>15
  <2>2. Counted' \ Stated' = (Counted \ Stated) \cup {k}
    BY <1>10, <2>1
  <2>3. ToSet(rd'.absent) =
          {Verdict(j) : j \in Counted' \ Stated'}
    <3>1. {Verdict(j) : j \in (Counted \ Stated) \cup {k}}
            = {Verdict(j) : j \in Counted \ Stated} \cup {Verdict(k)}
      OBVIOUS
    <3> QED
      BY <1>9, <1>12, <1>13, <1>15, <2>2, <3>1
  <2>4. Len(rd'.stats) + Len(rd'.absent) = Cardinality(Counted')
    <3>1. Cardinality(Counted') = Cardinality(Counted) + 1
      BY <1>10, <2>1
    <3>2. Len(rd'.stats) = Len(rd.stats) /\ Len(rd'.absent) = Len(rd.absent) + 1
      BY <1>13, <1>15
    <3>3. /\ Len(rd.stats) \in Nat /\ Len(rd.absent) \in Nat /\ Cardinality(Counted) \in Nat
          /\ Len(rd.stats) + Len(rd.absent) = Cardinality(Counted)
      BY <1>9, <1>13
    <3> DEFINE i == Len(rd.stats)
               j == Len(rd.absent)
               n == Cardinality(Counted)
               ii == Len(rd'.stats)
               jj == Len(rd'.absent)
               nn == Cardinality(Counted')
    <3>4. i \in Nat /\ j \in Nat /\ i + j = n /\ ((ii = i + 1 /\ jj = j) \/ (ii = i /\ jj = j + 1))
      BY <3>2, <3>3
    <3>5. nn = n + 1
      BY <3>1
    <3> HIDE DEF i, j, n, ii, jj, nn
    <3>6. ii + jj = nn
      BY <3>4, <3>5
    <3> QED
      BY <3>6 DEF ii, jj, nn
  <2>5. rd'.stats \in Seq(Circuits) /\ rd'.absent \in Seq(Circuits \X BOOLEAN)
    BY <1>9, <1>13, <1>15
  <2> QED
    <3>1. {Verdict(j) : j \in Counted \ Stated}' = {Verdict(j) : j \in Counted' \ Stated'}
      BY <1>11
    <3>2. {Listing[j] : j \in Stated}' = {Listing[j] : j \in Stated}
      BY <1>3, <2>1
    <3> QED
      BY <1>1, <1>4, <1>9, <1>11, <1>15, <2>1, <2>3, <2>4, <2>5, <3>1, <3>2 DEF Account
<1>16. CASE /\ call.circuit \in {Nil, c} /\ Here(f)
            /\ Len(tree[f]) <= Cap /\ Passes(f, tree[f]) # {}
            /\ rd'.stats = Append(rd.stats, c) /\ rd'.absent = rd.absent
  <2>1. Counted' = Counted \cup {k} /\ Stated' = Stated \cup {k}
    BY <1>7, <1>8, <1>16
  <2>2. Counted' \ Stated' = Counted \ Stated
    BY <1>10, <2>1
  <2>3. ToSet(rd'.stats) = {Listing[j] : j \in Stated'}
    BY <1>2, <1>9, <1>13, <1>16, <2>1
  <2>4. Len(rd'.stats) + Len(rd'.absent) = Cardinality(Counted')
    <3>1. Cardinality(Counted') = Cardinality(Counted) + 1
      BY <1>10, <2>1
    <3>2. Len(rd'.stats) = Len(rd.stats) + 1 /\ Len(rd'.absent) = Len(rd.absent)
      BY <1>13, <1>16
    <3>3. /\ Len(rd.stats) \in Nat /\ Len(rd.absent) \in Nat /\ Cardinality(Counted) \in Nat
          /\ Len(rd.stats) + Len(rd.absent) = Cardinality(Counted)
      BY <1>9, <1>13
    <3> DEFINE i == Len(rd.stats)
               j == Len(rd.absent)
               n == Cardinality(Counted)
               ii == Len(rd'.stats)
               jj == Len(rd'.absent)
               nn == Cardinality(Counted')
    <3>4. i \in Nat /\ j \in Nat /\ i + j = n /\ ((ii = i + 1 /\ jj = j) \/ (ii = i /\ jj = j + 1))
      BY <3>2, <3>3
    <3>5. nn = n + 1
      BY <3>1
    <3> HIDE DEF i, j, n, ii, jj, nn
    <3>6. ii + jj = nn
      BY <3>4, <3>5
    <3> QED
      BY <3>6 DEF ii, jj, nn
  <2>5. \A j \in Stated' : Len(tree[Zkir(j)]) <= Cap /\ Passes(Zkir(j), tree[Zkir(j)]) # {}
    BY <1>6, <1>9, <1>16, <2>1
  <2>6. rd'.stats \in Seq(Circuits) /\ rd'.absent \in Seq(Circuits \X BOOLEAN)
    BY <1>9, <1>13, <1>16
  <2> QED
    BY <1>1, <1>3, <1>4, <1>9, <1>11, <1>16, <2>2, <2>3, <2>4, <2>5, <2>6 DEF Account
<1> QED
  BY <1>14, <1>15, <1>16 DEF GetsBy, c, e, f

\* What is made of the scan.
LEMMA SnapReport ==
  ASSUME Calm,
         \/ (Unknown \/ NextCircuit \/ Stats) /\ UNCHANGED call
         \/ Inspected \/ \E w \in Circuits \cup {Nil} : Scanned(w)
  PROVE  Snapshot'
<1>1. /\ tree' = tree /\ place' = place
      /\ DiskOK /\ Holds /\ Knows /\ Snapshot /\ DOMAIN rd = Fields /\ DOMAIN tree \subseteq Files
  BY DEF Calm, Holds
\* From probing all candidates to what is known of the scan.
<1>2. ASSUME rd.pc = "probe", rd.todo = <<>>
      PROVE  /\ rd.lost = Nil /\ place /\ Loaded /\ rd.files = DOMAIN tree /\ rd.found = Candidates
             /\ rd.stats = <<>> /\ rd.absent = <<>> /\ rd.info \in Builds
             /\ Listing \in Seq(Circuits)
  <2>1. /\ rd.lost = Nil /\ place /\ Loaded /\ rd.files = DOMAIN tree /\ rd.found = Looked
        /\ rd.stats = <<>> /\ rd.absent = <<>> /\ rd.info \in Builds
    BY <1>1, <1>2 DEF Snapshot, Knows
  <2>2. Listing \in Seq(Circuits) /\ Done = Len(Listing)
    BY <1>2, <2>1, ArtifactsAssumption DEF Done, Listing
  <2>3. DOMAIN Listing = 1..Len(Listing) /\ \A j \in DOMAIN Listing : j <= Done
    BY <2>2
  <2>4. ASSUME NEW f \in Candidates PROVE f \in Looked
    <3>1. f \in DOMAIN tree /\ f # Info /\ f[2] \in ToSet(Listing) /\ f \in Files
      BY <1>1, <2>4 DEF Candidates
    <3>2. f \in ToSet(Kinds) \X Circuits
      BY <3>1 DEF Files
    <3>3. PICK i \in DOMAIN Kinds : f[1] = Kinds[i]
      BY <3>2 DEF ToSet
    <3>4. PICK j \in DOMAIN Listing : f[2] = Listing[j]
      BY <3>1 DEF ToSet
    <3>5. f = <<Kinds[i], Listing[j]>>
      BY <3>2, <3>3, <3>4
    <3> QED
      BY <2>3, <3>1, <3>5 DEF Looked
  <2>5. ASSUME NEW f \in Looked PROVE f \in Candidates
    <3>1. PICK j \in DOMAIN Listing, i \in DOMAIN Kinds : f = <<Kinds[i], Listing[j]>>
      BY <2>5 DEF Looked
    <3>2. Listing[j] \in Circuits /\ Listing[j] \in ToSet(Listing) /\ f[2] = Listing[j]
      BY <2>2, <3>1 DEF ToSet
    <3>3. f # Info
      BY <3>1, <3>2, ArtifactsAssumption DEF Info
    <3> QED
      BY <2>5, <3>2, <3>3 DEF Looked, Candidates
  <2>6. Looked = Candidates
    BY <2>4, <2>5
  <2> QED
    BY <2>1, <2>2, <2>6
<1>3. CASE Inspected
  <2>1. rd.pc = "probe" /\ rd.todo = <<>> /\ Tell("ok", Nil)
        /\ call' = [tool |-> "artifacts", circuit |-> Nil]
    BY <1>3 DEF Inspected
  <2>2. rd'.answer = <<"ok", Nil>>
    BY <1>1, <2>1 DEF Tell, Fields
  <2>3. StatsRight(rd.info)'
    BY <2>1, <2>2 DEF StatsRight
  <2> QED
    BY <1>2, <2>1, <2>3, TellsTheReport
<1>4. ASSUME NEW w \in Circuits \cup {Nil}, Scanned(w)
      PROVE  Snapshot'
  <2>1. rd.pc = "probe" /\ rd.todo = <<>> /\ call' = [tool |-> "zkir_stats", circuit |-> w]
    BY <1>4 DEF Scanned
  <2>2. /\ rd'.pc = "next" /\ rd'.todo = Listing
        /\ \A x \in Fields \ {"pc", "todo"} : rd'[x] = rd[x]
    BY <1>1, <1>4 DEF Scanned, Fields, Listing
  <2>3. /\ rd.lost = Nil /\ place /\ Loaded /\ rd.files = DOMAIN tree /\ rd.found = Candidates
        /\ rd.stats = <<>> /\ rd.absent = <<>> /\ rd.info \in Builds
        /\ Listing \in Seq(Circuits)
    BY <1>2, <2>1
  <2>4. Listing' = Listing /\ Done' = 0
    BY <2>2, <2>3 DEF Listing, Done, Fields
  <2>5. IsRest(Listing, Listing)
    <3>1. \A j \in DOMAIN Listing : Len(Listing) - Len(Listing) + j = j
      BY <2>3
    <3> QED
      BY <2>3, <3>1 DEF IsRest
  <2>6. Counted' = {} /\ Stated' = {}
    BY <2>4 DEF Counted, Stated
  <2>7. Account'
    <3>1. rd'.stats = <<>> /\ rd'.absent = <<>>
      BY <2>2, <2>3 DEF Fields
    <3>2. ToSet(rd'.stats) = {} /\ ToSet(rd'.absent) = {} /\ Len(rd'.stats) + Len(rd'.absent) = 0
      BY <3>1 DEF ToSet
    <3>3. Cardinality(Counted') = 0
      BY <2>6, FS_EmptySet
    <3> QED
      BY <2>6, <3>1, <3>2, <3>3 DEF Account
  <2>8. Loaded' /\ Candidates' = Candidates /\ Rest' /\ rd'.lost = Nil /\ rd'.files = rd.files
        /\ rd'.found = rd.found /\ call'.tool = "zkir_stats"
    BY <1>1, <2>1, <2>2, <2>3, <2>4, <2>5 DEF Loaded, Candidates, Here, Rest, Fields
  <2> QED
    BY <1>1, <2>2, <2>3, <2>7, <2>8 DEF Snapshot, OnInfo, OnZkir, Reading
<1>5. ASSUME rd.pc = "next", call' = call
      PROVE  /\ rd.lost = Nil /\ place /\ Loaded /\ rd.files = DOMAIN tree /\ rd.found = Candidates
             /\ call.tool = "zkir_stats" /\ Rest /\ Account /\ rd.info \in Builds
  BY <1>1, <1>5 DEF Snapshot, Knows
<1>6. CASE Unknown /\ call' = call
  <2>1. /\ rd.pc = "next" /\ Tell("unknown", Nil)
        /\ call.circuit # Nil /\ call.circuit \notin ToSet(Listed[rd.info])
    BY <1>6 DEF Unknown
  <2>2. rd'.answer = <<"unknown", Nil>> /\ rd'.info = rd.info
    BY <1>1, <2>1 DEF Tell, Fields
  <2>3. StatsRight(rd.info)'
    BY <1>6, <2>1, <2>2 DEF StatsRight
  <2> QED
    BY <1>5, <1>6, <2>1, <2>3, TellsTheReport
<1>7. ASSUME call' = call, rd'.pc = "next", rd'.todo = Tail(rd.todo), Loaded, place, Rest', Account',
             rd.lost = Nil \/ rd'.lost = Nil, rd.files = DOMAIN tree, rd.found = Candidates,
             call.tool = "zkir_stats",
             \A x \in Fields \ {"pc", "file", "buf", "lost", "todo", "stats", "absent"} : rd'[x] = rd[x],
             rd'.lost \in {rd.lost, Nil}
      PROVE  Snapshot'
  <2>1. Loaded' /\ Candidates' = Candidates /\ rd'.lost = Nil /\ rd'.files = rd.files
        /\ rd'.found = rd.found
    BY <1>1, <1>7 DEF Loaded, Candidates, Listing, Here, Fields
  <2> QED
    BY <1>1, <1>7, <2>1 DEF Snapshot, OnInfo, OnZkir, Reading
<1>8. CASE NextCircuit /\ call' = call
  <2>1. rd.pc = "next" /\ Wanted
    BY <1>8 DEF NextCircuit
  <2>2. CASE rd.todo = <<>>
    <3>1. Tell("ok", Nil)
      BY <1>8, <2>2 DEF NextCircuit
    <3>2. /\ rd'.answer = <<"ok", Nil>>
          /\ \A x \in Fields \ {"pc", "answer"} : rd'[x] = rd[x]
      BY <1>1, <3>1 DEF Tell, Fields
    <3>3. StatsRight(rd.info)'
      <4> DEFINE L == Listed[rd.info]
                 wanted == IF call.circuit = Nil THEN ToSet(L) ELSE {call.circuit}
                 has == {c \in wanted : <<"zkir", c>> \in DOMAIN tree}
      <4>1. L = Listing /\ L \in Seq(Circuits) /\ Len(L) \in Nat /\ Done = Len(L)
        BY <1>5, <1>8, <2>1, <2>2, ArtifactsAssumption DEF Done, Listing
      <4>2. call.circuit \in ToSet(L) \cup {Nil}
        BY <2>1 DEF Wanted
      <4>3. ASSUME NEW j \in DOMAIN L
            PROVE  /\ call.circuit \in {Nil, L[j]} <=> L[j] \in wanted
                   /\ L[j] # Nil
        BY <4>1, ArtifactsAssumption DEF ToSet
      <4>4. Counted = {j \in DOMAIN L : L[j] \in wanted}
        BY <4>1, <4>3 DEF Counted
      <4>5. Stated = {j \in DOMAIN L : L[j] \in has}
        BY <4>1, <4>4 DEF Stated, Zkir, Here
      <4>6. wanted \subseteq ToSet(L)
        BY <4>2
      <4>7. has = {L[j] : j \in Stated}
        BY <4>5, <4>6 DEF ToSet
      <4>8. {<<c, c \in Proved[rd.info]>> : c \in wanted \ has} = {Verdict(j) : j \in Counted \ Stated}
        <5> DEFINE v(c) == <<c, c \in Proved[rd.info]>>
        <5>1. wanted \ has = {L[j] : j \in Counted \ Stated}
          BY <4>4, <4>5, <4>6 DEF ToSet
        <5>2. \A j : Verdict(j) = v(L[j])
          BY <4>1 DEF Verdict
        <5> HIDE DEF v, wanted, has, L
        <5>3. {v(c) : c \in wanted \ has} = {Verdict(j) : j \in Counted \ Stated}
          BY <5>1, <5>2
        <5> QED
          BY <5>3 DEF v
      <4>9. \A c \in has : Len(tree[<<"zkir", c>>]) <= Cap /\ Passes(<<"zkir", c>>, tree[<<"zkir", c>>]) # {}
        BY <1>5, <1>8, <2>1, <4>1, <4>7 DEF Account, Zkir
      <4>10. /\ ToSet(rd.stats) = has
             /\ ToSet(rd.absent) = {<<c, c \in Proved[rd.info]>> : c \in wanted \ has}
             /\ Len(rd.stats) + Len(rd.absent) = Cardinality({j \in DOMAIN L : L[j] \in wanted})
        BY <1>5, <1>8, <2>1, <4>1, <4>4, <4>7, <4>8 DEF Account
      <4>11. rd'.stats = rd.stats /\ rd'.absent = rd.absent /\ rd'.info = rd.info
        BY <3>2 DEF Fields
      <4>12. rd'.answer[1] = "ok" /\ tree' = tree /\ call' = call
        BY <1>1, <1>8, <3>2
      <4> DEFINE W == IF call'.circuit = Nil THEN ToSet(Listed[rd'.info]) ELSE {call'.circuit}
                 H == {c \in W : <<"zkir", c>> \in DOMAIN tree'}
      <4>13. W = wanted /\ H = has /\ Listed[rd'.info] = L
        BY <4>11, <4>12
      <4> HIDE DEF wanted, has, L
      <4>14. /\ ToSet(rd'.stats) = H
             /\ ToSet(rd'.absent) = {<<c, c \in Proved[rd'.info]>> : c \in W \ H}
             /\ call'.circuit \in ToSet(Listed[rd'.info]) \cup {Nil}
        <5> DEFINE v(c) == <<c, c \in Proved[rd.info]>>
                   u(c) == <<c, c \in Proved[rd'.info]>>
        <5>1. \A c : u(c) = v(c)
          BY <4>11
        <5>2. ToSet(rd'.absent) = {v(c) : c \in W \ H}
          BY <4>10, <4>11, <4>13
        <5> HIDE DEF u, v, W, H
        <5>3. ToSet(rd'.absent) = {u(c) : c \in W \ H}
          BY <5>1, <5>2
        <5> QED
          BY <4>2, <4>10, <4>11, <4>12, <4>13, <5>3 DEF u
      <4>15. Len(rd'.stats) + Len(rd'.absent) =
               Cardinality({j \in DOMAIN Listed[rd'.info] : Listed[rd'.info][j] \in W})
        BY <4>10, <4>11, <4>13
      <4>16. \A c \in H : /\ Len(tree'[<<"zkir", c>>]) <= Cap
                          /\ Passes(<<"zkir", c>>, tree'[<<"zkir", c>>]) # {}
        BY <4>9, <4>12, <4>13
      <4> QED
        BY <4>12, <4>14, <4>15, <4>16 DEF StatsRight
    <3> QED
      BY <1>5, <1>8, <2>1, <3>1, <3>3, TellsTheReport
  <2>3. CASE rd.todo # <<>>
    <3> DEFINE c == Head(rd.todo)
    <3>1. CASE call.circuit \notin {Nil, c} /\ rd' = [rd EXCEPT !.todo = Tail(@)]
      <4>1. rd'.todo = Tail(rd.todo) /\ \A x \in Fields \ {"todo"} : rd'[x] = rd[x]
        BY <1>1, <3>1 DEF Fields
      <4>2. Rest' /\ Account'
        BY <1>5, <1>8, <2>1, <2>3, <3>1, <4>1, AccountGrows DEF GetsBy, Fields
      <4> QED
        BY <1>5, <1>7, <1>8, <2>1, <4>1, <4>2 DEF Fields
    <3>2. CASE /\ call.circuit \in {Nil, c} /\ <<"zkir", c>> \in rd.found
               /\ rd' = [rd EXCEPT !.pc = "stat", !.file = <<"zkir", c>>]
      <4>1. /\ rd'.pc = "stat" /\ rd'.file = <<"zkir", c>>
            /\ \A x \in Fields \ {"pc", "file"} : rd'[x] = rd[x]
        BY <1>1, <3>2 DEF Fields
      <4>2. Beside
        BY <1>1, <1>8, <4>1 DEF Beside, Fields
      <4>3. rd'.file # Info /\ Here(rd'.file)
        BY <1>5, <1>8, <2>1, <3>2, <4>1 DEF Candidates, Here, Info
      <4>4. OnZkir' /\ ~OnInfo'
        BY <4>1, <4>3 DEF OnZkir, OnInfo, Reading, Info
      <4>5. rd'.todo = rd.todo /\ rd'.lost = rd.lost /\ rd'.files = rd.files /\ rd'.found = rd.found
        BY <4>1 DEF Fields
      <4> QED
        BY <1>1, <1>5, <1>8, <2>1, <2>3, <3>2, <4>1, <4>2, <4>3, <4>4, <4>5, BesideKeeps
           DEF Snapshot, Here
    <3>3. CASE call.circuit \in {Nil, c} /\ <<"zkir", c>> \notin rd.found /\ Missing(c)
      <4>1. /\ rd'.todo = Tail(rd.todo)
            /\ rd'.absent = Append(rd.absent, <<c, c \in Proved[rd.info]>>)
            /\ \A x \in Fields \ {"todo", "absent"} : rd'[x] = rd[x]
        BY <1>1, <3>3 DEF Missing, Fields
      <4>2. Rest' /\ Account'
        BY <1>5, <1>8, <2>1, <2>3, <3>3, <4>1, AccountGrows DEF GetsBy, Fields
      <4> QED
        BY <1>5, <1>7, <1>8, <2>1, <4>1, <4>2 DEF Fields
    <3> QED
      BY <1>8, <2>3, <3>1, <3>2, <3>3 DEF NextCircuit
  <2> QED
    BY <2>2, <2>3
<1>9. CASE Stats /\ call' = call
  <2>1. PICK b \in Builds : Accepted(b)
    BY <1>9 DEF Stats
  <2>2. rd.file # Info /\ rd.pc = "read" /\ ~More /\ b \in Passes(rd.file, rd.buf)
    BY <1>9, <2>1 DEF Stats, Accepted
  <2>3. OnZkir
    BY <2>2 DEF OnZkir, Reading
  <2>4. /\ rd.todo # <<>> /\ rd.file = <<"zkir", Head(rd.todo)>> /\ Here(rd.file) /\ Wanted
        /\ call.circuit \in {Nil, Head(rd.todo)} /\ Loaded /\ place /\ rd.files = DOMAIN tree
        /\ rd.found = Candidates /\ call.tool = "zkir_stats" /\ Rest /\ Account /\ rd.lost = Nil
        /\ rd.info \in Builds
    BY <1>1, <2>2, <2>3 DEF Snapshot, Knows, Reading
  <2>5. rd.buf = tree[rd.file] /\ Len(tree[rd.file]) <= Cap
    BY <1>1, <2>2, ReadToItsEnd
  <2>6. /\ rd'.pc = "next" /\ rd'.lost = Nil /\ rd'.todo = Tail(rd.todo)
        /\ rd'.stats = Append(rd.stats, Head(rd.todo))
        /\ \A x \in Fields \ {"pc", "file", "buf", "lost", "todo", "stats"} : rd'[x] = rd[x]
    BY <1>1, <1>9 DEF Stats, Fields
  <2>7. Rest' /\ Account'
    BY <1>9, <2>2, <2>4, <2>5, <2>6, AccountGrows DEF GetsBy, Fields
  <2> QED
    BY <1>7, <1>9, <2>4, <2>6, <2>7 DEF Fields
<1> QED
  BY <1>3, <1>4, <1>6, <1>8, <1>9

LEMMA SnapReader ==
  ASSUME ArtInv, SnapInv, ReaderStep, UNCHANGED diskVars, Watch
  PROVE  SnapInv'
<1>1. DOMAIN tree' \subseteq Files
  BY DEF SnapInv, diskVars
<1>2. ASSUME rd'.pc # "idle", ~moved' PROVE Snapshot'
  <2>1. CASE AskReader
    <3>1. /\ rd'.pc = "isdir" /\ rd'.lost = Nil /\ Bare' /\ rd'.files = {}
      BY <2>1 DEF AskReader, Fresh, Bare
    <3> QED
      BY <3>1 DEF Snapshot, OnInfo, OnZkir, Reading
  <2>2. CASE rd.pc # "idle"
    <3>1. Calm
      BY <1>2, <2>2 DEF Watch, Calm, SnapInv, ArtInv, diskVars
    <3>2. CASE ForgetAnswer
      BY <1>2, <3>2 DEF ForgetAnswer, Fresh
    <3> QED
      BY <2>1, <3>1, <3>2, SnapRead, SnapScan, SnapReport DEF ReaderStep
  <2>3. rd.pc = "idle" => AskReader
    BY DEF ReaderStep, Stat, Open, ReadOn, Unreadable, IsDir, ListRoot, List, Canonicalize, Probe,
           Unknown, NextCircuit, Stats, Accepted, LoadInfo, AskReader, Inspected, ForgetAnswer, Scanned
  <2> QED
    BY <2>1, <2>2, <2>3
<1> QED
  BY <1>1, <1>2 DEF SnapInv

LEMMA SnapInvariant == ArtSpec => []SnapInv
<1>1. ArtInit => SnapInv
  BY DEF ArtInit, Fresh, SnapInv
<1>2. ArtInv /\ SnapInv /\ [ArtNext]_artVars => SnapInv'
  <2> SUFFICES ASSUME ArtInv, SnapInv, [ArtNext]_artVars PROVE SnapInv'
    OBVIOUS
  <2>1. CASE ArtNext
    BY <2>1, SnapDisk, SnapReader DEF ArtNext, ArtStep
  <2>2. CASE UNCHANGED artVars
    <3>1. ASSUME Snapshot, rd' = rd, tree' = tree, place' = place, call' = call PROVE Snapshot'
      BY <3>1, SnapSame
    <3> QED
      BY <2>2, <3>1 DEF artVars, SnapInv
  <2> QED
    BY <2>1, <2>2
<1> QED
  BY <1>1, <1>2, ArtInvariant, PTL DEF ArtSpec

\* A call during which no compiler writes and nobody deletes answers as of the one
\* directory there was, although it takes its file, its listing and its lookups in
\* many steps: for any listing, any number of circuits and any candidates, every
\* wanted circuit is stated or absent once, and an error names what was wrong.
THEOREM AnswersAreSnapshots == ArtSpec => []StillIsSnapshot
<1>1. SnapInv => StillIsSnapshot
  BY DEF SnapInv, Snapshot, StillIsSnapshot
<1> QED
  BY <1>1, SnapInvariant, PTL
=============================================================================
