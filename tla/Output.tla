------------------------------- MODULE Output -------------------------------
(***************************************************************************)
(* What a subprocess prints, from its pipes to the caller: both streams    *)
(* are drained while it runs and kept up to a cap (proc.rs), a stream that *)
(* was cut gets a marker line, and the text becomes diagnostics            *)
(* (parse_diag.rs), a list of versions (tools/toolchain.rs) or is passed   *)
(* on.  That the call ends by its timeout or token instead is in ToolCall. *)
(*                                                                         *)
(* A stream is a sequence of tokens; the cap counts tokens and may fall    *)
(* inside a line.                                                          *)
(*   ex1 ex2   "Exception: F line L " and "char C:", the halves of what    *)
(*             stands before a message                                     *)
(*   arrow ver sep   the arrow, 0.31.1 and " - ", with its two blanks, of  *)
(*             a listed version                                            *)
(*   word      anything else that is not blank, gap a blank, nl a line end *)
(*   mark      the marker line's text                                      *)
(***************************************************************************)
EXTENDS Integers, Sequences, SequencesExt, FiniteSets

CONSTANTS
  Printed,   \* what the subprocess may print: a set of [out, err]
  Limit,     \* output_limit, in tokens
  Chunk,     \* the buffer of one read
  Pipe       \* capacity of a pipe

Streams == {"out", "err"}
Glyphs == {"ex1", "ex2", "arrow", "sep", "ver", "word", "gap", "nl", "mark"}

ASSUME OutputAssumption ==
  /\ Limit \in Nat /\ {Chunk, Pipe} \subseteq Nat \ {0}
  /\ \A p \in Printed : p \in [Streams -> Seq(Glyphs)]

Running == 256   \* no exit code

VARIABLES
  tool,     \* compile, list, joined (check, update and clean), or line
  prints,   \* what is still to be printed, per stream
  wrote,    \* history: what was written, per stream
  pipe,     \* what was written and not read, per stream
  kept,     \* retained, per stream
  cut,      \* truncated, per stream
  eof,      \* the streams that were read to their end, or failed
  failed,   \* a read failed
  status,   \* Running, or the exit code: 0, 255, 1, and -1 for a signal
  said      \* what the caller is told

outVars == <<tool, prints, wrote, pipe, kept, cut, eof, failed, status, said>>

Nothing == [what |-> "nothing"]
Tools == {"compile", "list", "joined", "line"}
Unread == [s \in Streams |-> <<>>]

OutInit ==
  /\ tool \in Tools /\ prints \in Printed
  /\ wrote = Unread /\ pipe = Unread /\ kept = Unread
  /\ cut = [s \in Streams |-> FALSE]
  /\ eof = {} /\ failed = FALSE
  /\ status = Running
  /\ said = Nothing

-----------------------------------------------------------------------------
(* The subprocess *)

\* It blocks on a full pipe.
Emit(s) ==
  /\ status = Running /\ prints[s] # <<>> /\ Len(pipe[s]) < Pipe
  /\ prints' = [prints EXCEPT ![s] = Tail(@)]
  /\ wrote' = [wrote EXCEPT ![s] = Append(@, Head(prints[s]))]
  /\ pipe' = [pipe EXCEPT ![s] = Append(@, Head(prints[s]))]
  /\ UNCHANGED <<tool, kept, cut, eof, failed, status, said>>

\* When all is printed; or by a signal, anywhere.
Quit(code) ==
  /\ status = Running
  /\ \/ code = -1
     \/ prints["out"] = <<>> /\ prints["err"] = <<>>
  /\ status' = code
  /\ UNCHANGED <<tool, prints, wrote, pipe, kept, cut, eof, failed, said>>

-----------------------------------------------------------------------------
(* read_capped, of each stream *)

Least(a, b) == IF a < b THEN a ELSE b

\* Seeded fault: a stream of exactly the cap counts as cut.
Takes_Full(have, n) ==
  LET take == IF have < Limit THEN Least(Limit - have, n) ELSE 0
  IN  <<take, have + n >= Limit>>

\* How many of n more tokens are retained, and whether that cuts the stream.
Takes(have, n) ==
  IF have < Limit
  THEN LET take == Least(Limit - have, n) IN <<take, take < n>>
  ELSE <<0, TRUE>>

ReadSome(s, n) ==
  /\ s \notin eof /\ n <= Len(pipe[s])
  /\ LET takes == Takes(Len(kept[s]), n)
     IN  /\ kept' = [kept EXCEPT ![s] = @ \o SubSeq(pipe[s], 1, takes[1])]
         /\ cut' = [cut EXCEPT ![s] = @ \/ takes[2]]
  /\ pipe' = [pipe EXCEPT ![s] = SubSeq(@, n + 1, Len(@))]
  /\ UNCHANGED <<tool, prints, wrote, eof, failed, status, said>>

\* The end of the stream comes with the end of who writes it.
ReadEnd(s) ==
  /\ s \notin eof
  /\ \/ status # Running /\ pipe[s] = <<>> /\ UNCHANGED failed
     \/ failed' = TRUE
  /\ eof' = eof \cup {s}
  /\ UNCHANGED <<tool, prints, wrote, pipe, kept, cut, status, said>>

-----------------------------------------------------------------------------
(* What is made of the text *)

\* lossy_with_marker
Text(s) == kept[s] \o (IF cut[s] THEN <<"nl", "mark">> ELSE <<>>)

\* The first position from there on that holds none of ts, or the one past the end.
Past(text, from, ts) ==
  Min({i \in from..Len(text) + 1 : i = Len(text) + 1 \/ text[i] \notin ts})

\* lines: each begins after a line end, or at the start.
Breaks(text) == {0} \cup {i \in DOMAIN text : text[i] = "nl"}
Line(text, b) == SubSeq(text, b + 1, Past(text, b + 1, Glyphs \ {"nl"}) - 1)

\* The members of a set of numbers in their order.
Ordered(S) ==
  [k \in 1..Cardinality(S) |-> CHOOSE i \in S : Cardinality({j \in S : j <= i}) = k]
LinesAt(text, breaks) ==
  [k \in 1..Cardinality(breaks) |-> Line(text, Ordered(breaks)[k])]

Blank(line) == ToSet(line) \subseteq {"gap"}

\* VSCODE_LINE, of the line without its trailing blanks: the name of the file may
\* be anything up to a second "line L char C:", and that takes a blank and a
\* message behind it.
Structured(line) ==
  /\ Len(line) >= 1 /\ line[1] = "ex1"
  /\ \E i \in 1..Len(line) - 2 :
       /\ line[i] = "ex1" /\ line[i + 1] = "ex2" /\ line[i + 2] \in {"gap", "sep"}
       /\ \E k \in i + 2..Len(line) : line[k] # "gap"

\* parse_compactc_output: a diagnostic per structured line, and what else there
\* is in one more.
Parse(text) ==
  LET known == {b \in Breaks(text) : Structured(Line(text, b))}
      rest == {b \in Breaks(text) \ known : ~Blank(Line(text, b))}
  IN  [i \in 1..Cardinality(known) |-> [raw |-> FALSE, lines |-> <<LinesAt(text, known)[i]>>]]
      \o (IF rest = {} THEN <<>> ELSE <<[raw |-> TRUE, lines |-> LinesAt(text, rest)]>>)

\* Behind the arrow there is a version (trim_start, trim_start_matches, trim), and
\* behind that nothing, or a separator: one that ends the line has lost its last
\* blank to the trim, and does not split.
Versioned(line) ==
  LET at == Past(line, Past(line, Past(line, 1, {"gap"}), {"arrow"}), {"gap"})
  IN  /\ at <= Len(line) /\ line[at] = "ver"
      /\ LET after == Past(line, at + 1, {"gap"})
         IN  \/ after > Len(line)
             \/ /\ line[after] = "sep"
                /\ \E k \in after + 1..Len(line) : line[k] # "gap"

\* parse_list, with what is marked.
ParseList(text) ==
  LET lines == LinesAt(text, {b \in Breaks(text) : Versioned(Line(text, b))})
  IN  [i \in DOMAIN lines |-> lines[i][Past(lines[i], 1, {"gap"})] = "arrow"]

\* joined_output
Joined ==
  IF Text("out") # <<>> /\ Text("err") # <<>>
  THEN Text("out") \o <<"nl">> \o Text("err")
  ELSE Text("out") \o Text("err")

\* Toolchain::compile
Compiled ==
  CASE status = 0 -> [what |-> "outcome", ok |-> TRUE, diagnostics |-> <<>>]
    [] status = 255 -> [what |-> "outcome", ok |-> FALSE,
                        diagnostics |-> Parse(Text("err") \o Text("out"))]
    [] OTHER -> [what |-> "failed", stderr |-> Text("err") \o Text("out")]

\* run_checked, line: anything but zero is an error.
Checked(answer) ==
  IF status = 0 THEN answer ELSE [what |-> "failed", stderr |-> Text("err")]

Reported ==
  CASE tool = "compile" -> Compiled
    [] tool = "list" ->
         Checked([what |-> "versions", marked |-> ParseList(Text("out")), raw |-> Text("out")])
    [] tool = "joined" -> Checked([what |-> "text", raw |-> Joined])
    [] OTHER -> Checked([what |-> "text", raw |-> Text("out")])

\* The join of the two readers and the wait.
Take ==
  /\ eof = Streams /\ status # Running /\ said = Nothing
  /\ said' = IF failed THEN [what |-> "io"] ELSE Reported
  /\ UNCHANGED <<tool, prints, wrote, pipe, kept, cut, eof, failed, status>>

\* The next subprocess.
Anew ==
  /\ said # Nothing
  /\ tool' \in Tools /\ prints' \in Printed
  /\ wrote' = Unread /\ pipe' = Unread /\ kept' = Unread
  /\ cut' = [s \in Streams |-> FALSE]
  /\ eof' = {} /\ failed' = FALSE
  /\ status' = Running
  /\ said' = Nothing

OutNext ==
  \/ \E s \in Streams :
       \/ Emit(s) \/ ReadEnd(s)
       \/ \E n \in 1..Chunk : ReadSome(s, n)
  \/ \E code \in {0, 255, 1, -1} : Quit(code)
  \/ Take \/ Anew

OutSpec == OutInit /\ [][OutNext]_outVars

-----------------------------------------------------------------------------
(* Properties *)

\* Where lines begin in a text, and which of them are structured or name a
\* version, said by positions.
Starts(text) == {i \in DOMAIN text : i = 1 \/ text[i - 1] = "nl"}
OnLine(text, i, m) == m \in i..Len(text) /\ \A k \in i..m : text[k] # "nl"
Exceptions(text) ==
  {i \in Starts(text) :
     /\ text[i] = "ex1"
     /\ \E j, m \in DOMAIN text :
          /\ i <= j /\ j + 2 <= m /\ OnLine(text, i, m)
          /\ text[j] = "ex1" /\ text[j + 1] = "ex2" /\ text[j + 2] \in {"gap", "sep"}
          /\ text[m] # "gap"}
VersionsIn(text) ==
  {i \in DOMAIN text :
     /\ text[i] = "ver"
     /\ \E j \in Starts(text) :
          /\ j <= i /\ \A k \in j..i - 1 : text[k] \in {"gap", "arrow"}
          /\ ~\E a, b, c \in j..i : a < b /\ b < c /\ text[a] = "arrow"
                                /\ text[b] = "gap" /\ text[c] = "arrow"
     /\ \A k \in i + 1..Len(text) :
          (\A m \in i + 1..k - 1 : text[m] = "gap") =>
            \/ text[k] \in {"gap", "nl"}
            \/ text[k] = "sep" /\ \E m \in k + 1..Len(text) :
                                   OnLine(text, k, m) /\ text[m] # "gap"}

Count(token, text) == Cardinality({i \in DOMAIN text : text[i] = token})

\* Where a token is in diagnostics: in which one, in which line of it, at which place.
Shown(token, ds) ==
  UNION {UNION {{<<d, l, k>> : k \in {k \in DOMAIN ds[d].lines[l] : ds[d].lines[l][k] = token}} :
                  l \in DOMAIN ds[d].lines} : d \in DOMAIN ds}

\* The cap: what is kept of a stream is its beginning, all of it unless it was
\* longer than the cap, and only then is it marked.
Captured ==
  said # Nothing /\ ~failed =>
    \A s \in Streams :
      /\ kept[s] = SubSeq(wrote[s], 1, Least(Limit, Len(wrote[s])))
      /\ cut[s] <=> Len(wrote[s]) > Limit

\* "we never silently drop compiler output": every token that is no blank is in
\* a diagnostic, or the marker is; a structured line has a diagnostic of its own
\* unless it is glued to the end of the other stream, and the rest comes last.
NothingDropped ==
  said # Nothing /\ tool = "compile" /\ status = 255 /\ ~failed =>
    /\ \A t \in {"ex1", "ex2", "word"} :
         Cardinality(Shown(t, said.diagnostics)) = Count(t, kept["err"]) + Count(t, kept["out"])
    /\ Cardinality(Shown("mark", said.diagnostics)) =
         Count("mark", kept["err"]) + Count("mark", kept["out"]) + Cardinality({s \in Streams : cut[s]})
    /\ \A i \in DOMAIN said.diagnostics : said.diagnostics[i].raw => i = Len(said.diagnostics)
    /\ Text("err") = <<>> \/ Last(Text("err")) = "nl" =>
         Cardinality({i \in DOMAIN said.diagnostics : ~said.diagnostics[i].raw}) =
           Cardinality(Exceptions(kept["err"])) + Cardinality(Exceptions(kept["out"]))

\* tools/toolchain.rs:21-25, every version line is reported and no other; what
\* an error status prints is never reported as a list or as up to date.
ListIsTrue ==
  said # Nothing /\ tool # "compile" /\ ~failed =>
    /\ said.what = "failed" <=> status # 0
    /\ said.what = "versions" => Len(said.marked) = Cardinality(VersionsIn(Text("out")))
    /\ said.what # "failed" /\ ~cut["out"] =>
         \A t \in {"ver", "word", "ex1"} : Count(t, said.raw) >= Count(t, wrote["out"])

OutputRight == Captured /\ NothingDropped /\ ListIsTrue
=============================================================================
