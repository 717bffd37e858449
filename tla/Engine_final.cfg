\* One worker failure, no publisher failure.
SPECIFICATION Spec
CONSTANTS
  e1 = e1  w1 = w1  w2 = w2  p1 = p1  p2 = p2  a = a  b = b
  NoTask = NoTask
  Executions = {e1}
  TaskNames = {a, b}
  EntryTask = a
  NextTask <- MCNextTask
  MaxAttempts <- MCMaxAttempts
  Registered <- MCRegistered
  Workers = {w1, w2}
  Publishers = {p1}
  SlowWorkers = FALSE
  AttemptCap = 3
  ReplayCap = 0
  ReclaimCount = 2
  PublishLimit = 20
  WorkerFaultCap = 1
  PublisherFaultCap = 0
CHECK_DEADLOCK FALSE
PROPERTY SucceededIsFinal
