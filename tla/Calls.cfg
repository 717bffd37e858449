SPECIFICATION CallsSpec
CONSTANTS
  c1 = c1  c2 = c2
  a = a  b = b  e1 = e1
  r1 = r1  r2 = r2  r3 = r3  r4 = r4  r5 = r5
  t1 = t1  t2 = t2
  NoTask = NoTask
  Executions = {e1}
  TaskNames = {a, b}
  EntryTask = a
  NextTask <- MCNextTask
  AttemptCap = 2
  ReplayCap = 2
  Clients = {c1, c2}
  Names = {"w"}
  RequestCap = 4
  ApiFaultCap = 1
  Runs = {r1, r2, r3, r4, r5}
  Owner <- MCOwner
  Decodable = {t1}
  None = None
  FaultCap = 3
SYMMETRY Symmetry
INVARIANTS
  ReplyTellsTheEffect ReplayedOncePerDeadLetter
  ReturnedIsStored SameResponse
PROPERTY StoredIsKept
CHECK_DEADLOCK FALSE
