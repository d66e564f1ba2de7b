CONSTANTS
  NLeafs = 1
  NNodes = 3
  MaxN = 2
SPECIFICATION Spec
INVARIANTS TypeOK BlocksExact ValuesKept
