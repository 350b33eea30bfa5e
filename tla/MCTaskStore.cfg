\* Three ids for two places, a ttl of zero, one below and one above the cap.
CONSTANTS
  TaskIds = {t1, t2, t3}
  Ttls = {0, 3}
  Unset = Unset
  DefaultTtl = 1
  MaxTtl = 2
  MaxTasks = 2
  Payloads = {p}
  NoResult = NoResult
  NoTask = NoTask
  MaxTime = 2
SPECIFICATION Spec
SYMMETRY TaskSymmetry
INVARIANT StoreTypeOK
INVARIANT RecordCoherent
PROPERTY TerminalFrozen
PROPERTY ImplementsTaskLife
