CONSTANTS
  NThreads = 3
  Requests = {2}
  WideRequests = {3, 4}
  NNodes = 2
  MaxGraphs = 2
SPECIFICATION CallersSpec
INVARIANTS TypeOK Quiescent NodeOrder AbortAgreement SameShares
PROPERTIES GraphReturns FreeReturns PauseSleeps
