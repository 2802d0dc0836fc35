SPECIFICATION Spec
CONSTANTS
  Slots = 2
  Messages <- MCMessages
  Text <- MCText
  OfonoCap = 23
  AtCap = 13
  Room = 2
  Sources = {"ofono", "at"}
  Escapes = {TRUE, FALSE}
  Confirms = {"1", "true"}
  Others = TRUE
INVARIANTS TypeOK DeleteHitsShown ReadShowsPicked
 
