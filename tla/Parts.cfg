SPECIFICATION PartsSpec
CONSTANTS
  a = a  b = b  h1 = h1  h2 = h2
  Blank = Blank
  Omitted = Omitted
  NoFlags = NoFlags
  Definitions <- MCDefinitions
  Sample <- MCSample
  Flags <- MCFlags
  Numbers <- MCNumbers
  EditCap = 3
  RunCount = 4
  Concurrency = 2
  Repeat = 2
  RunLists <- MCRunLists
  PublishLimit = 2
  Backlog = 6
  LateCap = 2
CHECK_DEADLOCK FALSE
INVARIANTS
  RowFindsItsTask OneRowPerTask ScenarioRunsWholeChain
  RunsOnItsSettings
  ReturnIsComplete
  StatisticsMatchDefinition
PROPERTIES PoolEnds RetryIsPublished
