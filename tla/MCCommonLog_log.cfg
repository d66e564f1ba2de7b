CONSTANTS
  Capacity = 2
  Files = {"none", "log"}
  MaxMsgs = 5
SPECIFICATION Spec
INVARIANT TypeOK
PROPERTIES Implements PauseReturns
