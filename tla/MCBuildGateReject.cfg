\* One permit, one place, four calls: one runs, one waits, one is turned away,
\* and one is turned away only because of the other.
CONSTANTS
  Calls = {c1, c2, c3, c4}
  MaxConcurrent = 1
  MaxQueued = 1
SPECIFICATION Spec
SYMMETRY CallSymmetry
PROPERTY OnlyFullQueueRejects
