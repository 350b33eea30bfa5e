\* Three calls for one permit and one place, two subprocesses each.
CONSTANTS
  Calls = {c1, c2, c3}
  Slots = 1
  Places = 1
  MaxRuns = 2
SPECIFICATION TimedSpec
INVARIANT PermitCoversGroup
INVARIANT NoOrphan
INVARIANT NoStrayKill
PROPERTY GroupEnds
PROPERTY PermitReturns
