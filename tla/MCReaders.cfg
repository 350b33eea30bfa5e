\* Two builds write, with a cap of two units; two calls format under one permit;
\* streams of up to seven tokens under a cap of five and pipes of three; texts of
\* up to five tokens under a depth of four, and of up to four declarations.
CONSTANTS
  b1 = b1
  b2 = b2
  c1 = c1
  c2 = c2
  c3 = c3
  Builds = {b1, b2}
  Listed <- MCListed
  Proved <- MCProved
  Length <- MCLength
  Kinds <- MCKinds
  Cap = 2
  Hole = Hole
  Nil = Nil
  Calls = {a, b}
  Slots = 1
  Broken = Broken
  Messy = Messy
  Clean = Clean
  Half = Half
  None = None
  MaxDue = 2
  MaxBeats = 4
  Printed <- MCPrinted
  Limit = 5
  Chunk = 3
  Pipe = 3
  Names = {x, y}
  MaxDepth = 4
  MaxTokens = 5
  MaxItems = 4
  MaxErrors = 2
  Absent = Absent
SPECIFICATION Spec
SYMMETRY CallSymmetry
INVARIANT ToldWasSo
INVARIANT StillIsSnapshot
INVARIANT OutcomeIsTrue
PROPERTY OnlyStrangersMix
INVARIANT NoStrayBeat
INVARIANT OutputRight
INVARIANT DepthRight
INVARIANT AnalysisRight
