\* One task, two publishers that list the same events, one worker failure.
SPECIFICATION Spec
CONSTANTS
  e1 = e1  w1 = w1  w2 = w2  p1 = p1  p2 = p2  a = a  b = b
  NoTask = NoTask
  Executions = {e1}
  TaskNames = {a}
  EntryTask = a
  NextTask <- MCSingleNext
  MaxAttempts <- MCSingleMax
  Registered <- MCSingleRegistered
  Workers = {w1, w2}
  Publishers = {p1, p2}
  SlowWorkers = FALSE
  AttemptCap = 4
  ReplayCap = 0
  ReclaimCount = 2
  PublishLimit = 20
  WorkerFaultCap = 1
  PublisherFaultCap = 0
SYMMETRY Symmetry
CHECK_DEADLOCK FALSE
INVARIANT AttemptOwnership
PROPERTY AttemptHistoryKept
