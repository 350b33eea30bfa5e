\* Two calls for one permit; compilers below, at and above the language the parser
\* is tested with, and one whose language version does not parse.
CONSTANTS
  Calls = {c1, c2}
  Slots = 1
  Places = 1
  MaxRuns = 3
  Compilers = {22, 23, 24, Odd}
  Odd = Odd
  NoCompiler = NoCompiler
  Minimum = 23
  Tested = 23
  Silent = Silent
SPECIFICATION VersionsSpec
SYMMETRY CallSymmetry
INVARIANT VerdictFits
PROPERTY StableUnderReport
