CONSTANTS
  Seqs = {0, 1}
  NCells = 3
  Unified = TRUE
  SwaType = "none"
  NSwa = 1
  PrefixWindow = 0
  PrefixCap = 0
  NUbatch = 1
  MaxBatch = 2
  Toks = {"a"}
  MaxPos = 2
  Shifts <- Back
  Divs = {}
  MaxCopies = 1
  CopyOnto = FALSE
  SharedFails = FALSE
  PrefixFails = FALSE
  AnyRm = FALSE
  LoadPending = FALSE
SPECIFICATION Spec
INVARIANTS TypeOK CountsExact KeysFollow NoGarbage PrepareRestores
PROPERTY Implements
