------------------------------ MODULE Artifacts ------------------------------
(***************************************************************************)
(* The readers of a compiler output directory: `artifacts` and             *)
(* `zkir_stats` (tools/artifacts.rs) over `scan` and the capped read of    *)
(* core/src/artifacts.  They take no build permit, so they read while      *)
(* compilers write: every system call is a step of its own.  Two compilers *)
(* write into one directory at once if the gate has two permits, or if one *)
(* of them belongs to a dropped call.                                      *)
(*                                                                         *)
(* A file's text is a sequence of units, each the build that wrote it.  A  *)
(* compiler truncates a file when it opens it and writes at its own        *)
(* offset; it may be killed at any point.  One reader is enough: readers   *)
(* do not see each other.                                                  *)
(***************************************************************************)
EXTENDS Naturals, Sequences, SequencesExt, FiniteSets

CONSTANTS
  Builds,   \* the compiler runs
  Listed,   \* [Builds -> Seq(circuit)] the circuits its contract-info.json lists
  Proved,   \* [Builds -> SUBSET circuit] those with proof: true
  Length,   \* [Builds -> [file -> Nat]] what each writes, and how long it gets
  Kinds,    \* the candidates looked up per circuit, in order: zkir, bzkir, ...
  Cap,      \* MAX_ARTIFACT_BYTES, in units
  Hole,     \* a unit nobody wrote, left by two writers of one file
  Nil

Circuits == UNION {ToSet(Listed[b]) : b \in Builds}
Info == <<"info", Nil>>

ASSUME ArtifactsAssumption ==
  /\ Cap \in Nat
  /\ \A b \in Builds : Listed[b] \in Seq(Circuits)
  /\ Kinds \in Seq(STRING) \ {<<>>}
  /\ Nil \notin Builds /\ Hole \notin Builds /\ Nil # Hole
  /\ Nil \notin Circuits /\ Nil # Info
  /\ Nil \notin Seq(Builds \cup {Hole})
  /\ \A b \in Builds : \A f \in DOMAIN Length[b] : Length[b][f] \in Nat \ {0}

\* What is read and not only looked up.
Readable == {Info} \cup ({"zkir"} \X Circuits)
Files == {Info} \cup (ToSet(Kinds) \X Circuits)
\* The subdirectory a file lies in.
DirOf(f) == CASE f[1] = "info" -> "compiler"
              [] f[1] \in {"zkir", "bzkir"} -> "zkir"
              [] OTHER -> "keys"

VARIABLES
  place,   \* whether the target directory exists
  tree,    \* a function from the files in it to their text
  offset,  \* per build: a function from the files it has opened to its offset
  over,    \* the builds that ended before the directory was last deleted
  call,    \* the reader's request: the tool and, for zkir_stats, the circuit
  rd,      \* the reader, see Reader
  seen,    \* history: the files that were there at some moment of the call
  missed,  \* history: of those it reads, and Nil for the directory, those not there
  moved    \* history: the directory changed during the call

diskVars == <<place, tree, offset, over>>
artVars == <<place, tree, offset, over, call, rd, seen, missed, moved>>

\* pc      idle, isdir, stat, open, read, root, list, canon, probe, next, told
\* file    the artifact being read, and buf its text so far
\* lost    its text if it was unlinked since it was opened, or Nil
\* info    the build whose contract-info was loaded, or Nil
\* dirs    the subdirectories collect has still to list
\* files   what collect found
\* found   the candidate artifacts that canonicalize found
\* rooted  whether the target directory itself canonicalized
\* todo    the circuits still to be reported, kind the next candidate
\* stats, absent   the two lists of zkir_stats
\* answer  what the caller is told: ok, or an error with its file
Fresh == [pc |-> "idle", file |-> Nil, buf |-> <<>>, lost |-> Nil,
          info |-> Nil, dirs |-> {}, files |-> {}, found |-> {},
          rooted |-> FALSE, todo |-> <<>>, kind |-> 1,
          stats |-> <<>>, absent |-> <<>>, answer |-> <<"none", Nil>>]

NoCall == [tool |-> "none", circuit |-> Nil]

Here(f) == f \in DOMAIN tree
Dirs == {DirOf(f) : f \in DOMAIN tree}

ArtInit ==
  /\ place = FALSE
  /\ tree = <<>>
  /\ offset = [b \in Builds |-> <<>>]
  /\ over = {}
  /\ call = NoCall
  /\ rd = Fresh
  /\ seen = {} /\ missed = Readable \cup {Nil} /\ moved = FALSE

-----------------------------------------------------------------------------
(* The compilers, and whoever cleans up between builds *)

Extend(fn, key, val) == [x \in DOMAIN fn \cup {key} |-> IF x = key THEN val ELSE fn[x]]

\* Opens a file for writing, and so empties it.
Truncate(b, f) ==
  /\ b \notin over
  /\ f \in DOMAIN Length[b] \ DOMAIN offset[b]
  /\ place' = TRUE
  /\ tree' = Extend(tree, f, <<>>)
  /\ offset' = [offset EXCEPT ![b] = Extend(@, f, 0)]
  /\ UNCHANGED over

\* Writes its next unit, past the end if the file was emptied under it.
Write(b, f) ==
  /\ b \notin over
  /\ f \in DOMAIN offset[b] /\ offset[b][f] < Length[b][f]
  /\ LET at == offset[b][f] + 1
         text == tree[f]
         end == IF at > Len(text) THEN at ELSE Len(text)
     IN  tree' = [tree EXCEPT ![f] =
           [i \in 1..end |-> IF i = at THEN b
                             ELSE IF i <= Len(text) THEN text[i] ELSE Hole]]
  /\ offset' = [offset EXCEPT ![b][f] = @ + 1]
  /\ UNCHANGED <<place, over>>

\* Somebody deletes the directory while nothing builds into it: what had begun
\* has ended or was killed where it was.
Delete ==
  /\ place
  /\ place' = FALSE
  /\ tree' = <<>>
  /\ over' = {b \in Builds : DOMAIN offset[b] # {}}
  /\ UNCHANGED offset

Disk ==
  /\ \/ \E b \in Builds, f \in Files : Truncate(b, f) \/ Write(b, f)
     \/ Delete
  /\ rd' = IF rd.pc = "read" /\ rd.lost = Nil /\ rd.file \notin DOMAIN tree'
           THEN [rd EXCEPT !.lost = tree[rd.file]] ELSE rd
  /\ UNCHANGED call

-----------------------------------------------------------------------------
(* read_to_string_capped *)

\* The caller is told what came of it, and of which file: the call ends.
Tell(what, f) == rd' = [rd EXCEPT !.pc = "told", !.answer = <<what, f>>]

\* metadata, the early reject.
Stat ==
  /\ rd.pc = "stat"
  /\ \/ ~Here(rd.file) /\ Tell("missing", rd.file)
     \/ Here(rd.file) /\ Len(tree[rd.file]) > Cap /\ Tell("malformed", rd.file)
     \/ Here(rd.file) /\ Len(tree[rd.file]) <= Cap /\ rd' = [rd EXCEPT !.pc = "open"]

Open ==
  /\ rd.pc = "open"
  /\ \/ ~Here(rd.file) /\ Tell("missing", rd.file)
     \/ Here(rd.file) /\ rd' = [rd EXCEPT !.pc = "read", !.buf = <<>>]

\* The text behind the open file.
Behind == IF rd.lost # Nil THEN rd.lost ELSE tree[rd.file]

\* Seeded fault: the size that was seen is trusted, the read is not bounded.
More_Trusting == Len(rd.buf) < Len(Behind)

\* take(MAX_ARTIFACT_BYTES + 1)
More == Len(rd.buf) < Len(Behind) /\ Len(rd.buf) < Cap + 1

ReadOn ==
  /\ rd.pc = "read"
  /\ More
  /\ rd' = [rd EXCEPT !.buf = Append(@, Behind[Len(@) + 1])]

\* The builds whose text this may pass for: whole and of one build, or pieced
\* together from two that are alike enough.
Passes(f, text) ==
  {b \in Builds : b \in ToSet(text) /\ f \in DOMAIN Length[b] /\ Len(text) = Length[b][f]}
Whole(f, text) == \E b \in Passes(f, text) : ToSet(text) = {b}

\* The end of the read: the bound is on what was read.  A text that stops in the
\* middle of a character is not UTF-8 (an Io error), any other part is not JSON.
Unreadable ==
  /\ rd.pc = "read" /\ ~More
  /\ \/ Len(rd.buf) > Cap /\ Tell("malformed", rd.file)
     \/ /\ Len(rd.buf) <= Cap /\ ~Whole(rd.file, rd.buf)
        /\ \E why \in {"malformed", "io"} : Tell(why, rd.file)

\* from_utf8 and from_str accept it.
Accepted(b) ==
  /\ rd.pc = "read" /\ ~More
  /\ Len(rd.buf) <= Cap
  /\ b \in Passes(rd.file, rd.buf) /\ Hole \notin ToSet(rd.buf)

-----------------------------------------------------------------------------
(* scan *)

\* The handler is called, and resolves the directory.
AskReader ==
  /\ rd.pc = "idle"
  /\ rd' = [Fresh EXCEPT !.pc = "isdir"]
  /\ UNCHANGED call

IsDir ==
  /\ rd.pc = "isdir"
  /\ \/ ~place /\ Tell("missing", Nil)
     \/ place /\ rd' = [rd EXCEPT !.pc = "stat", !.file = Info]

\* ContractInfo::load
LoadInfo(b) ==
  /\ rd.file = Info /\ Accepted(b)
  /\ rd' = [rd EXCEPT !.pc = "root", !.info = b, !.file = Nil, !.buf = <<>>,
                      !.lost = Nil]

\* collect, of the directory itself.
ListRoot ==
  /\ rd.pc = "root"
  /\ \/ ~place /\ Tell("io", Nil)
     \/ place /\ rd' = [rd EXCEPT !.pc = "list", !.dirs = Dirs]

\* collect, of a subdirectory, in the order read_dir has.
List ==
  /\ rd.pc = "list"
  /\ \/ \E d \in rd.dirs :
          \/ d \notin Dirs /\ Tell("io", Nil)
          \/ /\ d \in Dirs
             /\ rd' = [rd EXCEPT !.dirs = @ \ {d},
                                 !.files = @ \cup {f \in DOMAIN tree : DirOf(f) = d}]
     \/ rd.dirs = {} /\ rd' = [rd EXCEPT !.pc = "canon"]

Canonicalize ==
  /\ rd.pc = "canon"
  /\ rd' = [rd EXCEPT !.pc = "probe", !.rooted = place, !.todo = Listed[rd.info]]

\* rel: the candidate canonicalizes, and so does the directory.
Exists(f) == rd.rooted /\ Here(f)

\* art, one candidate at a time.
Probe ==
  /\ rd.pc = "probe" /\ rd.todo # <<>>
  /\ LET f == <<Kinds[rd.kind], Head(rd.todo)>>
         last == rd.kind = Len(Kinds)
     IN  rd' = [rd EXCEPT !.found = IF Exists(f) THEN @ \cup {f} ELSE @,
                          !.kind = IF last THEN 1 ELSE @ + 1,
                          !.todo = IF last THEN Tail(@) ELSE @]

\* proving_keys of the report.
ProvingKeys == \E f \in rd.found : f[1] = "prover"

-----------------------------------------------------------------------------
(* What is made of the scan *)

\* The scan is the same for both tools, so which one asked shows here only:
\* artifacts returns it,
Inspected ==
  /\ rd.pc = "probe" /\ rd.todo = <<>>
  /\ call' = [tool |-> "artifacts", circuit |-> Nil]
  /\ Tell("ok", Nil)

\* zkir_stats goes on, for all circuits or for one.
Scanned(w) ==
  /\ rd.pc = "probe" /\ rd.todo = <<>>
  /\ call' = [tool |-> "zkir_stats", circuit |-> w]
  /\ rd' = [rd EXCEPT !.pc = "next", !.todo = Listed[rd.info]]

Unknown ==
  /\ rd.pc = "next"
  /\ call.circuit # Nil /\ call.circuit \notin ToSet(Listed[rd.info])
  /\ Tell("unknown", Nil)

\* Seeded fault: a circuit without a .zkir is passed over.
Missing_Silent(c) == rd' = [rd EXCEPT !.todo = Tail(@)]

\* Reported as absent, with its proof flag for the reason.
Missing(c) ==
  rd' = [rd EXCEPT !.todo = Tail(@), !.absent = Append(@, <<c, c \in Proved[rd.info]>>)]

Wanted == call.circuit = Nil \/ call.circuit \in ToSet(Listed[rd.info])

\* The loop over the wanted circuits.
NextCircuit ==
  /\ rd.pc = "next" /\ Wanted
  /\ IF rd.todo = <<>> THEN Tell("ok", Nil)
     ELSE LET c == Head(rd.todo)
          IN  \/ /\ call.circuit \notin {Nil, c}
                 /\ rd' = [rd EXCEPT !.todo = Tail(@)]
              \/ /\ call.circuit \in {Nil, c}
                 /\ IF <<"zkir", c>> \in rd.found
                    THEN rd' = [rd EXCEPT !.pc = "stat", !.file = <<"zkir", c>>]
                    ELSE Missing(c)

\* zkir::stats of a file that parses; `?` ends the call on one that does not.
Stats ==
  /\ rd.file \notin {Nil, Info}
  /\ \E b \in Builds : Accepted(b)
  /\ rd' = [rd EXCEPT !.pc = "next", !.file = Nil, !.buf = <<>>, !.lost = Nil,
                      !.todo = Tail(@), !.stats = Append(@, Head(rd.todo))]

ForgetAnswer ==
  /\ rd.pc = "told"
  /\ rd' = Fresh /\ call' = NoCall

ReaderStep ==
  \/ /\ \/ Stat \/ Open \/ ReadOn \/ Unreadable \/ IsDir \/ ListRoot \/ List
        \/ Canonicalize \/ Probe \/ Unknown \/ NextCircuit \/ Stats
        \/ \E b \in Builds : LoadInfo(b)
     /\ UNCHANGED call
  \/ AskReader \/ Inspected \/ ForgetAnswer
  \/ \E w \in Circuits \cup {Nil} : Scanned(w)

ArtStep == Disk \/ (ReaderStep /\ UNCHANGED diskVars)

\* The history of the call.  While there is none it is that of the directory now.
Watch ==
  LET now == DOMAIN tree'
      gone == (Readable \ now) \cup (IF place' THEN {} ELSE {Nil})
      begins == rd.pc = "idle"
      told == rd.pc = "told"
  IN  /\ seen' = IF begins THEN now ELSE IF told THEN seen ELSE seen \cup now
      /\ missed' = IF begins THEN gone ELSE IF told THEN missed ELSE missed \cup gone
      /\ moved' = (~begins /\ (moved \/ tree' # tree \/ place' # place))

ArtNext == ArtStep /\ Watch

ArtSpec == ArtInit /\ [][ArtNext]_artVars

-----------------------------------------------------------------------------
(* Properties *)

\* artifacts/mod.rs:33, the bound is on the bytes read and not on the size that
\* was seen: no growth after the stat makes a call hold more than one unit above
\* the cap.
CapHolds == Len(rd.buf) <= Cap + 1

\* artifacts/mod.rs:38-40, an error tells the truth: a file is reported missing
\* only if it was missing at some moment of the call, and reported unreadable
\* only if it was there.
HonestAnswer ==
  rd.pc = "told" =>
    /\ rd.answer[1] = "missing" => rd.answer[2] \in missed
    /\ rd.answer[1] \in {"malformed", "io"} => rd.answer[2] \in seen \cup {Nil}

\* "We DISCOVER rather than assume" (artifacts/mod.rs:106): whatever writes
\* meanwhile, a report names no file, and claims no key, that was not there at
\* some moment of the call.
NothingInvented == rd.pc # "idle" => rd.files \cup rd.found \subseteq seen

\* Whatever is written, deleted or half there meanwhile.
ToldWasSo == CapHolds /\ HonestAnswer /\ NothingInvented

\* What a call has to answer about a directory that does not change, said of the
\* directory as a whole.  The scan,
ScanRight(b) ==
  /\ rd.files = DOMAIN tree
  /\ rd.found = {f \in DOMAIN tree : f # Info /\ f[2] \in ToSet(Listed[b])}
  /\ ProvingKeys <=> \E c \in ToSet(Listed[b]) : <<"prover", c>> \in DOMAIN tree

\* the statistics, where every listed circuit that is wanted counts once,
StatsRight(b) ==
  LET wanted == IF call.circuit = Nil THEN ToSet(Listed[b]) ELSE {call.circuit}
      has == {c \in wanted : <<"zkir", c>> \in DOMAIN tree}
      good(f) == Len(tree[f]) <= Cap /\ Passes(f, tree[f]) # {}
  IN  /\ rd.answer[1] \in {"ok", "unknown", "malformed", "io"}
      /\ rd.answer[1] = "unknown" <=> call.circuit \notin ToSet(Listed[b]) \cup {Nil}
      /\ rd.answer[1] = "ok" /\ call.tool = "zkir_stats" =>
           /\ ToSet(rd.stats) = has
           /\ \A c \in has : good(<<"zkir", c>>)
           /\ ToSet(rd.absent) = {<<c, c \in Proved[b]>> : c \in wanted \ has}
           /\ Len(rd.stats) + Len(rd.absent) =
                Cardinality({i \in DOMAIN Listed[b] : Listed[b][i] \in wanted})
      /\ rd.answer[1] \in {"malformed", "io"} => rd.answer[2][2] \in has

\* and the file that both begin with.
InfoRefused ==
  /\ rd.answer \in {"malformed", "io"} \X {Info}
  /\ Len(tree[Info]) > Cap \/ ~Whole(Info, tree[Info])

Expected ==
  IF ~place THEN rd.answer = <<"missing", Nil>>
  ELSE IF ~Here(Info) THEN rd.answer = <<"missing", Info>>
  ELSE \/ InfoRefused
       \/ \E b \in Passes(Info, tree[Info]) :
            Len(tree[Info]) <= Cap /\ ScanRight(b) /\ StatsRight(b)

\* A call during which nobody writes answers as of the directory at that time,
\* although it reads it in many steps: every wanted circuit is accounted for
\* once, with the artifacts that are there.
StillIsSnapshot == rd.pc = "told" /\ ~moved => Expected
=============================================================================
