\* Two tasks for one place, one tasks/result request.
CONSTANTS
  TaskIds = {t1, t2}
  Waiters = {w1}
  Ttls = {0}
  Unset = Unset
  DefaultTtl = 3
  MaxTtl = 1
  MaxTasks = 0
  Payloads = {"ok", "error", "unfinished"}
  NoResult = NoResult
  NoTask = NoTask
  MaxTime = 1
SPECIFICATION ScheduledSpec
CHECK_DEADLOCK FALSE
INVARIANT RunnerTypeOK
INVARIANT WorkingHasWorker
INVARIANT AnswersAreFinal
PROPERTY RetentionKept
PROPERTY RefusedOnlyWhenFull
PROPERTY WaiterReturns
