SPECIFICATION FairSpec
CONSTANTS
  MaxSignals = 3
  PipeSize = 2
  MaxCrashes = 2
  MaxDeaths = 2
INVARIANTS DbusTypeOK
PROPERTIES PrintedIsStored MonitorComesBack
