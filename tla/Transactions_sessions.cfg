\* Two sessions over a chain of two tasks.
SPECIFICATION TransactionsSpec
CONSTANTS
  e1 = e1  s1 = s1  s2 = s2  s3 = s3  a = a  b = b
  NoTask = NoTask
  Executions = {e1}
  TaskNames = {a, b}
  EntryTask = a
  NextTask <- MCNextTask
  AttemptCap = 2
  ReplayCap = 1
  RetryLimit = 20
  Sessions = {s1, s2}
SYMMETRY SessionSymmetry
CHECK_DEADLOCK FALSE
INVARIANTS AttemptNumbersDistinct NoLockCycle
PROPERTY ImplementsStore
