\* One worker, one failure of the worker and one of the publisher; fairness.
SPECIFICATION LiveSpec
CONSTANTS
  e1 = e1  w1 = w1  w2 = w2  p1 = p1  p2 = p2  a = a  b = b
  NoTask = NoTask
  Executions = {e1}
  TaskNames = {a, b}
  EntryTask = a
  NextTask <- MCNextTask
  MaxAttempts <- MCMaxAttempts
  Registered <- MCRegistered
  Workers = {w1}
  Publishers = {p1}
  SlowWorkers = TRUE
  AttemptCap = 9
  ReplayCap = 1
  ReclaimCount = 2
  PublishLimit = 20
  WorkerFaultCap = 1
  PublisherFaultCap = 1
CHECK_DEADLOCK FALSE
INVARIANT AttemptsBounded
PROPERTIES ImplementsLifecycle ExecutionFinishes QueueDrains
