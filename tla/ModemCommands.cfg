SPECIFICATION Spec
CONSTANTS
  Forms <- MCForms
  RadioParts = 2
  MaxRequests = 2
  MaxFails = 1
  MaxCrashes = 1
INVARIANTS TypeOK OkIsSettled AnsweredIsRecorded
\* Once MaxRequests are answered nothing is left to do.
CHECK_DEADLOCK FALSE
