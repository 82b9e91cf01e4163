CONSTANTS
  Jobs = {"a", "b", "c", "d"}
  DueAt <- Schedule
  LastMinute = 3
  MaxEntries = 2
  MaxTries = 2
SPECIFICATION Spec
INVARIANTS OncePerMinute ServedMinuteIsComplete
CHECK_DEADLOCK FALSE
