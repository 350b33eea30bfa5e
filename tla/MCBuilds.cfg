\* Two calls for one permit, one place.
CONSTANTS
  Calls = {c1, c2}
  Slots = 1
  Places = 1
  MaxRuns = 1
SPECIFICATION BuildsTimedSpec
INVARIANT InputInPlace
INVARIANT NothingLeft
PROPERTY ScratchGoes
