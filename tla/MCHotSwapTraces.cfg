SPECIFICATION ProfileSpec
CONSTANTS
  Builtins = {k1, k2}
  Born = k1
  Phones = {ph1}
  Callers = {y1}
  Absent = Absent
  Torn = Torn
  MaxCalls = 1
  MaxStops = 1
CHECK_DEADLOCK FALSE
INVARIANTS
  MountsFollowTheSwitch
