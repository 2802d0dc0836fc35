SPECIFICATION Spec
CONSTANTS
  Forms <- MCForms
  RadioParts = 2
  MaxRequests = 1
  MaxFails = 1
  MaxCrashes = 1
INVARIANT ConfirmTrueIsEnough
\* Once MaxRequests are answered nothing is left to do.
CHECK_DEADLOCK FALSE
