CONSTANTS
  TwoSeqs = {0, 1}
  Toks = {"a"}
  CopyOnto = FALSE
  SharedFails = FALSE
  PrefixFails = FALSE
  AnyRm = FALSE
  LoadPending = FALSE
  PastWindow = FALSE
  LoadFails = FALSE
SPECIFICATION Spec
INVARIANTS CellsSound InStep RoomBehindPrefix
PROPERTIES PrefixWhole NoGaps SetupsImplement
