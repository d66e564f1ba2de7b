CONSTANTS
  Seqs = {0, 1}
  NCells = 3
  Unified = TRUE
  SwaType = "standard"
  NSwa = 2
  PrefixWindow = 0
  PrefixCap = 0
  NUbatch = 1
  MaxBatch = 3
  Toks = {"a"}
  MaxPos = 5
  Shifts = {}
  Divs = {}
  MaxCopies = 1
  CopyOnto = FALSE
  SharedFails = FALSE
  PrefixFails = FALSE
  AnyRm = FALSE
  LoadPending = FALSE
SPECIFICATION Spec
INVARIANT PrepareRestores
