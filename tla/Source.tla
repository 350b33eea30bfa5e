------------------------------- MODULE Source -------------------------------
(***************************************************************************)
(* The four tools that look at source text without a compiler              *)
(* (tools/analysis.rs, core/src/analyze): a scan over the tokens refuses   *)
(* what is nested too deep, then `diagnostics` reports the parser's errors *)
(* up to a maximum, `stats` counts, and `ast` and `symbols` walk the       *)
(* declarations scope by scope.  The lexer and the parser are libraries:   *)
(* tokens, errors and declarations come as they may.                       *)
(***************************************************************************)
EXTENDS Naturals, Sequences, SequencesExt, FiniteSets

CONSTANTS
  Names,      \* of declarations and modules
  MaxDepth,   \* MAX_STRUCTURAL_DEPTH
  MaxTokens,  \* bound: tokens of a text
  MaxItems,   \* bound: items of a text
  MaxErrors,  \* bound: errors of a text
  Absent

ASSUME SourceAssumption ==
  MaxDepth \in Nat \ {0} /\ MaxErrors \in Nat /\ Absent \notin Names

\* ( or [, {, ) or ], }, ;, a chain operator, what ends a value, and the rest
Openers == {"open", "block"}
Closers == {"close", "end"}
Tokens == Openers \cup Closers \cup {"semi", "op", "value", "other"}

VARIABLES
  phase,   \* idle, scan, parsed, walk, told
  toks,    \* history: the tokens that were scanned
  levels,  \* per open bracket and the text itself: [ops, postfix]
  sum,     \* sum_ops
  peak,
  ended,   \* prev_value_ender
  items,   \* history: the items that were walked
  frames,  \* the scopes that are open: [path, exports, local]
  symbols, \* what collect_scope has put out
  answer   \* what the caller is told

srcVars == <<phase, toks, levels, sum, peak, ended, items, frames, symbols, answer>>
scanVars == <<toks, levels, sum, peak, ended>>
walkVars == <<items, frames, symbols>>

Ground == [ops |-> 0, postfix |-> FALSE]
Scope(path) == [path |-> path, exports |-> {}, local |-> {}]
Silent == [what |-> "nothing"]

SrcInit ==
  /\ phase = "idle" /\ answer = Silent
  /\ toks = <<>> /\ levels = <<Ground>> /\ sum = 0 /\ peak = 1 /\ ended = FALSE
  /\ items = <<>> /\ frames = <<Scope(<<>>)>> /\ symbols = <<>>

\* read_input hands over a text, or refuses: no file, a directory, too long.
\* Which tool asked shows only when the scan is over.
AskText ==
  /\ phase = "idle"
  /\ \/ phase' = "scan" /\ UNCHANGED answer
     \/ phase' = "told" /\ answer' = [what |-> "invalid_params"]
  /\ UNCHANGED scanVars /\ UNCHANGED walkVars

-----------------------------------------------------------------------------
(* structural_depth *)

Minus(a, b) == IF a < b THEN 0 ELSE a - b
Charge(ls) == [ls EXCEPT ![Len(ls)].ops = @ + 1]
Cleared(ls) == [ls EXCEPT ![Len(ls)].ops = 0]

\* Each gives the levels and the sum after a token.
Opened(t) == <<Append(levels, [ops |-> 0, postfix |-> t = "open" /\ ended]), sum>>

\* A bracket closes: its charges go, and a call or an index is charged to what
\* it belongs to.  The last level is never missing, however many closers come.
Popped ==
  LET top == Last(levels)
      below == IF Len(levels) = 1 THEN <<Ground>> ELSE Front(levels)
      less == Minus(sum, top.ops)
  IN  IF ~top.postfix THEN <<below, less>>
      ELSE <<IF Len(levels) = 1 THEN below ELSE Charge(below), less + 1>>

\* Seeded fault: the levels forget the charges, the sum keeps them.
Reset_LevelOnly(ls, s) == <<Cleared(ls), s>>

\* The end of a statement, or of a block.
Reset(ls, s) == <<Cleared(ls), Minus(s, Last(ls).ops)>>

After(t) ==
  CASE t \in Openers -> Opened(t)
    [] t = "close" -> Popped
    [] t = "end" -> Reset(Popped[1], Popped[2])
    [] t = "semi" -> Reset(levels, sum)
    [] t = "op" -> <<Charge(levels), sum + 1>>
    [] OTHER -> <<levels, sum>>

Depth == Len(levels) + sum

\* The next token, unless the scan has given up.
Scan(t) ==
  /\ phase = "scan" /\ Depth <= MaxDepth /\ Len(toks) < MaxTokens
  /\ toks' = Append(toks, t)
  /\ levels' = After(t)[1]
  /\ sum' = After(t)[2]
  /\ ended' = (t \in {"value"} \cup Closers)
  /\ LET cur == Len(levels') + sum'
     IN  peak' = IF cur > peak THEN cur ELSE peak
  /\ UNCHANGED <<phase, answer>> /\ UNCHANGED walkVars

\* is_over_max_depth: refused by all four, by diagnostics as a diagnostic.
RefuseDeep ==
  /\ phase = "scan" /\ peak > MaxDepth
  /\ phase' = "told"
  /\ \/ answer' = [what |-> "diagnostics", success |-> FALSE, errors |-> 1,
                 truncated |-> FALSE, listed |-> <<"refusal">>]
     \/ answer' = [what |-> "refused"]
  /\ UNCHANGED scanVars /\ UNCHANGED walkVars

\* The text is over, and is parsed.
ParseText ==
  /\ phase = "scan" /\ peak <= MaxDepth
  /\ phase' \in {"walk", "parsed"}
  /\ toks' = <<>> /\ levels' = <<Ground>> /\ sum' = 0 /\ peak' = 1 /\ ended' = FALSE
  /\ UNCHANGED answer /\ UNCHANGED walkVars

-----------------------------------------------------------------------------
(* diagnostics and stats *)

\* What the renderer may write of an error, and what is made of it
\* (from_render_json): a position without its line is none, and a severity
\* that nobody knows is an error.
Rendered == [severity : {"error", "warning", "note", "odd"}, start : {"whole", Absent},
             end : {"whole", Absent}]
FromRender(v) ==
  [severity |-> IF v.severity \in {"warning", "note"} THEN v.severity ELSE "error",
   start |-> v.start, end |-> IF v.start = Absent THEN Absent ELSE v.end]

\* The parser found n errors, and the caller wants at most max.
Diagnose(n, max, v) ==
  /\ phase = "parsed"
  /\ LET listed == IF max = Absent \/ n <= max THEN n ELSE max
     IN  answer' = [what |-> "diagnostics", success |-> n = 0, errors |-> n,
                  truncated |-> max # Absent /\ n > max,
                  listed |-> [i \in 1..listed |-> FromRender(v)]]
  /\ phase' = "told"
  /\ UNCHANGED scanVars /\ UNCHANGED walkVars

Tally(n, recovered) ==
  /\ phase = "parsed"
  /\ answer' = [what |-> "stats", errors |-> n, recovered |-> recovered]
  /\ phase' = "told"
  /\ UNCHANGED scanVars /\ UNCHANGED walkVars

-----------------------------------------------------------------------------
(* collect_scope, for `ast` and `symbols` *)

Inner == Last(frames)
Walking == phase = "walk" /\ Len(items) < MaxItems
Saw(item) == items' = Append(items, item)
PutOut(name, exported) ==
  symbols' = Append(symbols, [name |-> name, exported |-> exported, module |-> Inner.path,
                              at |-> Len(items) + 1])
Mine == Inner.local \cup {Len(symbols) + 1}
Walk == UNCHANGED <<phase, answer>> /\ UNCHANGED scanVars

\* A declaration; a constructor has its own name and is never exported.
Declare(name, exported) ==
  /\ Walking
  /\ Saw([kind |-> "decl", name |-> name, exported |-> exported])
  /\ PutOut(name, exported)
  /\ frames' = [frames EXCEPT ![Len(frames)].local = Mine]
  /\ Walk

\* A module is put out before its members, and belongs to the scope it is in.
EnterModule(name, exported) ==
  /\ Walking
  /\ Saw([kind |-> "module", name |-> name, exported |-> exported])
  /\ PutOut(name, exported)
  /\ frames' = Append([frames EXCEPT ![Len(frames)].local = Mine],
                      Scope(Append(Inner.path, name)))
  /\ Walk

\* export { ... }
Export(names) ==
  /\ Walking
  /\ Saw([kind |-> "export", names |-> names])
  /\ frames' = [frames EXCEPT ![Len(frames)].exports = @ \cup names]
  /\ UNCHANGED symbols /\ Walk

\* Seeded fault: a list marks whatever has its name so far.
Marked_Everywhere ==
  [i \in DOMAIN symbols |->
     IF symbols[i].name \in Inner.exports THEN [symbols[i] EXCEPT !.exported = TRUE]
     ELSE symbols[i]]

\* The end of a scope: its lists mark its declarations, and no others.
Marked ==
  [i \in DOMAIN symbols |->
     IF i \in Inner.local /\ symbols[i].name \in Inner.exports
     THEN [symbols[i] EXCEPT !.exported = TRUE] ELSE symbols[i]]

Leave ==
  /\ phase = "walk" /\ Len(frames) > 1
  /\ Saw([kind |-> "leave"])
  /\ symbols' = Marked
  /\ frames' = Front(frames)
  /\ Walk

Finish ==
  /\ phase = "walk" /\ Len(frames) = 1
  /\ symbols' = Marked
  /\ phase' = "told" /\ answer' = [what |-> "symbols"]
  /\ UNCHANGED <<items, frames>> /\ UNCHANGED scanVars

\* The next request.
ForgetText ==
  /\ phase = "told"
  /\ phase' = "idle" /\ answer' = Silent
  /\ toks' = <<>> /\ levels' = <<Ground>> /\ sum' = 0 /\ peak' = 1 /\ ended' = FALSE
  /\ items' = <<>> /\ frames' = <<Scope(<<>>)>> /\ symbols' = <<>>

SrcNext ==
  \/ AskText
  \/ \E t \in Tokens : Scan(t)
  \/ RefuseDeep \/ ParseText
  \/ \E n \in 0..MaxErrors :
       \/ \E max \in 0..MaxErrors \cup {Absent}, v \in Rendered : Diagnose(n, max, v)
       \/ \E recovered \in 0..n : Tally(n, recovered)
  \/ \E name \in Names, exported \in BOOLEAN : Declare(name, exported) \/ EnterModule(name, exported)
  \/ \E names \in SUBSET Names \ {{}} : Export(names)
  \/ Leave \/ Finish \/ ForgetText

SrcSpec == SrcInit /\ [][SrcNext]_srcVars

-----------------------------------------------------------------------------
(* Properties *)

\* The level a bracket leads to, said of the text alone.
LevelIn(ts) ==
  LET f[n \in 0..Len(ts)] ==
        IF n = 0 THEN 1
        ELSE IF ts[n] \in Openers THEN f[n - 1] + 1
        ELSE IF ts[n] \in Closers /\ f[n - 1] > 1 THEN f[n - 1] - 1
        ELSE f[n - 1]
  IN  f

\* The bracket that a closer closes: the last that led to the level before it.
Opens(ts, i, j) ==
  /\ i \in 1..j - 1 /\ ts[i] \in Openers /\ LevelIn(ts)[i] = LevelIn(ts)[j - 1]
  /\ \A k \in i + 1..j - 1 : ~(ts[k] \in Openers /\ LevelIn(ts)[k] = LevelIn(ts)[i])

\* A closer of a call or an index: its bracket came right after what it belongs to.
ClosesCall(ts, j) ==
  /\ ts[j] \in Closers /\ LevelIn(ts)[j - 1] > 1
  /\ \E i \in 2..j - 1 :
       /\ Opens(ts, i, j)
       /\ ts[i] = "open" /\ ts[i - 1] \in {"value"} \cup Closers

\* What is still charged after n tokens.
Charged(ts, n) ==
  LET lev == LevelIn(ts)
  IN  {i \in 1..n :
         /\ ts[i] = "op" \/ ClosesCall(ts, i)
         /\ ~\E j \in i + 1..n : ts[j] \in Closers /\ lev[j - 1] = lev[i]
         /\ ~\E j \in i..n : ts[j] \in {"semi", "end"} /\ lev[j] = lev[i]}

DepthAt(n) == LevelIn(toks)[n] + Cardinality(Charged(toks, n))

\* analyze/mod.rs:28-32, the estimate is the most there ever is of open brackets
\* and of chain operators and calls since the last statement of their level; no
\* run of closers makes a level, or the sum of all, forget or double any of them.
DepthRight ==
  phase = "scan" =>
    /\ Depth = DepthAt(Len(toks))
    /\ \A n \in DOMAIN toks : DepthAt(n) <= peak
    /\ \E n \in 0..Len(toks) : DepthAt(n) = peak
    /\ \A k \in DOMAIN levels :
         levels[k].ops =
           Cardinality({i \in Charged(toks, Len(toks)) : LevelIn(toks)[i] = k})
    /\ sum = Cardinality(Charged(toks, Len(toks)))

\* The modules around the item at a position: those since which, wherever one
\* looks, no more modules were left than entered.
Between(its, kind, m, n) == Cardinality({k \in m + 1..n - 1 : its[k].kind = kind})
Around(its, at) ==
  {m \in 1..at - 1 :
     /\ its[m].kind = "module"
     /\ \A n \in m + 1..at : Between(its, "leave", m, n) <= Between(its, "module", m, n)}

\* The scope an item is in: the position of the innermost of them, or 0.
ScopeIn(its, at) ==
  LET inner == Around(its, at)
  IN  IF inner = {} THEN 0 ELSE CHOOSE m \in inner : \A k \in inner : k <= m
ScopeOf(at) == ScopeIn(items, at)

\* symbols.rs:52-63, in source order and once each; exported by its own keyword
\* or by a list of the same scope wherever in it, and by no other scope's.
SymbolsRight ==
  answer.what = "symbols" =>
    LET declared == {i \in DOMAIN items : items[i].kind \in {"decl", "module"}}
    IN  /\ Len(symbols) = Cardinality(declared)
        /\ \A i \in DOMAIN symbols :
             LET at == symbols[i].at
             IN  /\ at \in declared
                 /\ i > 1 => symbols[i - 1].at < at
                 /\ Len(symbols[i].module) > 0 <=> ScopeOf(at) # 0
                 /\ ScopeOf(at) # 0 => Last(symbols[i].module) = items[ScopeOf(at)].name
                 /\ symbols[i].exported <=>
                      \/ items[at].exported
                      \/ \E k \in DOMAIN items :
                           /\ items[k].kind = "export" /\ ScopeOf(k) = ScopeOf(at)
                           /\ items[at].name \in items[k].names

\* "The count BEFORE `max` is applied.  Never erase the signal."
SignalKept ==
  answer.what = "diagnostics" =>
    /\ answer.success <=> answer.errors = 0
    /\ answer.truncated <=> Len(answer.listed) < answer.errors
    /\ Len(answer.listed) <= answer.errors

\* What the four tools say of a text that was not too deep.
AnalysisRight == SymbolsRight /\ SignalKept
=============================================================================
