\* A reboot in the middle of an AT command.
SPECIFICATION Spec
CONSTANTS
  Hours = 1
  Minutes = 2
  Slots = 4
  Sleep = 2
  Late = 1
  BootTime = 1
  DbMayFail = FALSE
  MaxSaves = 1
  MaxDay = 0
INVARIANT DangerousOpsSerial
CHECK_DEADLOCK FALSE
