SPECIFICATION Spec
CONSTANTS
  Threads = {t1, t2, t3}
  Vms = {v1, v2}
  Instances = {i1, i2}
  ParallelSettings = {0, 2}
  NoRequest = NoRequest
SYMMETRY Symmetry
INVARIANTS
  TypeOK
  BudgetCountsStarts
  OneStartPerVm
  TrackedRequestsAreOwned
  QueueNeverStranded
PROPERTIES
  ImplementsStartGate
  NewStartsWithinBudget
  UnknownPressureStartsAlone
