CONSTANTS
  NThreads = 2
  Requests = {1, 2}
  NNodes = 1
  MaxGraphs = 3
SPECIFICATION Spec
INVARIANT
  Quiescent
