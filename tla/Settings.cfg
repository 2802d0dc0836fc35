SPECIFICATION FairSpec
CONSTANTS
  Hosts = {1, 2}
  Paths = {1, 2}
  Timeouts = {0, 2000}
  Users = {1}
  Passes = {1, 2}
  Listings <- MCListings
  Edits = {"host", "timeout", "pass"}
  MaxChanges = 2
  MaxFails = 1
  MaxCrashes = 2
INVARIANTS TypeOK AnsweredIsSaved
PROPERTIES RestartIsOldOrNew StartsUp
