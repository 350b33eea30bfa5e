\* Two calls for one permit.
CONSTANTS
  Calls = {c1, c2}
  Slots = 1
  Places = 1
  MaxRuns = 1
SPECIFICATION CallSpec
INVARIANT GlobalCeiling
