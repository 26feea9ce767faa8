SPECIFICATION DesktopSpec
CONSTANTS
  Names = {a, b}
  NoName = NoName
  Sessions = {s1, s2}
  Stops = {x1, x2}
  None = None
  MaxSessions = 1
  MaxStopped = 1
  N = 5
  Concurrency = 3
  Tasks = {1, 2}
  OnceTasks = {1}
  Ticks = {k1, k2}
  MaxEdits = 2
  Transfers = {f1}
  Queries = {h1}
  Pids = {p1, p2}
  NoOne = NoOne
CHECK_DEADLOCK FALSE
INVARIANTS
  DesktopBooks
  
PROPERTIES
  SlotIsReturned
  BatchIsAnswered
  DueTasksAreRun
  StopsAreTruthful
  CancelsAreExact
