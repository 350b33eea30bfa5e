\* Two tasks for one place, a ttl of zero.
CONSTANTS
  TaskIds = {t1, t2}
  Waiters = {w1}
  Ttls = {0}
  Unset = Unset
  DefaultTtl = 3
  MaxTtl = 1
  MaxTasks = 0
  Payloads = {"ok", "error", "unfinished"}
  NoResult = NoResult
  NoTask = NoTask
  MaxTime = 2
SPECIFICATION RunnerSpec
SYMMETRY TaskSymmetry
CHECK_DEADLOCK FALSE
INVARIANT EnqueueReports
