\* Two days of two hours: last_yday, midnight, saves, restarts and lost rows.
SPECIFICATION Spec
CONSTANTS
  Hours = 2
  Minutes = 2
  Slots = 4
  Sleep = 2
  Late = 1
  BootTime = 1
  DbMayFail = TRUE
  MaxSaves = 1
  MaxDay = 1
INVARIANTS TypeOK RebootsAreBounded
PROPERTIES PlannedMinuteIsNotMissed RebootsByPlan
CHECK_DEADLOCK FALSE
