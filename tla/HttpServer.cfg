SPECIFICATION FairSpec
CONSTANTS
  Clients = {"a", "b"}
  Ops = {"query", "test", "plan", "settings", "login", "password"}
  Editors = {"a"}
  Words = {"old", "new"}
  Segments = TRUE
  HangUps = TRUE
  Auth = TRUE
  Backlog = 1
  MaxBoots = 2
INVARIANT TypeOK
PROPERTIES ConnectedIsServed OnlyThisSession
\* After the last start the daemon may stay dead.
CHECK_DEADLOCK FALSE
