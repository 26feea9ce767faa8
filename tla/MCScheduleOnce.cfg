SPECIFICATION ScheduleSpec
CONSTANTS
  Tasks = {1, 2}
  OnceTasks = {1}
  Ticks = {k1, k2}
  MaxEdits = 2
CHECK_DEADLOCK FALSE
INVARIANT OnceTasksRunOnce
