\* Two tasks for one place in the registry, and one plain call, under one permit
\* with one place in the queue.  Results are retained for no time at all, so a
\* settled task may be evicted at once.
CONSTANTS
  Calls = {t1, t2, c1}
  Tasks = {t1, t2}
  Slots = 1
  Places = 1
  MaxRuns = 1
  Ttls = {}
  Unset = Unset
  DefaultTtl = 3
  MaxTtl = 0
  MaxTasks = 0
  NoResult = NoResult
  NoTask = NoTask
  MaxTime = 1
SPECIFICATION ServerTimedSpec
INVARIANT EndedHoldsNothing
PROPERTY CancelledBeginsNothing
PROPERTY TasksSettle
