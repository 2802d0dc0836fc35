\* A call with a timeout, with more output than the limit keeps, while the wall
\* clock is set and other threads fork, which keeps write ends open and hands the
\* child's number from one call to another.
SPECIFICATION FairSpec
CONSTANTS
  MaxOutput = 1
  Timeout = 1
  TicksPerSec = 2
  ReadSize = 2
  PipeSize = 1
  MaxTotal = 2
  MaxTicks = 4
  MaxSkew = 1
  OtherForks = TRUE
INVARIANTS TypeOK AnswerIsTruthful CompleteUnlessLate NotKilledEarly NoDescriptorLeft
PROPERTY Returns
CHECK_DEADLOCK FALSE
