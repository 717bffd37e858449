SPECIFICATION LiveSpec
CONSTANTS
  api = api  worker = worker  old = old
  Processes = {api, worker, old}
  Apis = {api}
  Release <- MCRelease
  StartCap = 2
  OutageCap = 1
  DispatchCap = 2
CHECK_DEADLOCK FALSE
INVARIANTS MigrationsOnceInOrder ServesOnItsSchema GroupReadsEachOnce
PROPERTY StartupEnds
