SPECIFICATION ConsoleLiveSpec
CONSTANTS
  e1 = e1
  e2 = e2
  Nothing = Nothing
  Executions = {e1, e2}
  Slots = {1, 2}
  VersionCap = 2
  ActionCap = 3
CHECK_DEADLOCK FALSE
PROPERTIES LastActionIsShown ConsoleCatchesUp
