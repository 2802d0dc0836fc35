\* Any text, any server that follows the protocol, and webhooks with faults.
SPECIFICATION FairSpec
CONSTANTS
  Modes = {"disabled", "webhook", "smtp"}
  Lines = {1, 5}
  Bodies = {"whole", "leading", "dotted", "cut"}
  HangsUp = TRUE
  HttpFaults = TRUE
INVARIANTS TypeOK RetryIsSafe
PROPERTY ReportsWhatHappened
CHECK_DEADLOCK FALSE
