CONSTANTS
  Size = 3
  NUbatch = 2
  Shapes <- PlainShapes
  TokOf <- Toks
  EmbdModes = {FALSE, TRUE}
  MaxPos = 1
  MaxText = 2
  Shifts <- Moves
  Divs = {2}
  AnyRmAll = FALSE
  AnyFailure = TRUE
SPECIFICATION Spec
INVARIANT OnlyProcessed
