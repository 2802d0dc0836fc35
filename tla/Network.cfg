SPECIFICATION NetSpec
CONSTANTS
  Names <- MCNames
  Numbers = {103, 501, 5041}
  MaxBands = 2
  Typed <- MCTyped
  SeenSize = 1
  Lines <- MCLines
  MaxLines = 2
  Docs <- MCDocs
  Fits = 1
  Long <- MCLong
INVARIANTS NetTypeOK RowsAreTheReply LocksWhatIsPicked CommandIsOwn
\* Without a command in the profile every request of the band panel is refused.
CHECK_DEADLOCK FALSE
