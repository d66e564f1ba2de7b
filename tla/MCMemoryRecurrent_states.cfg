CONSTANTS
  Size = 3
  NUbatch = 2
  Shapes <- SomeShapes
  TokOf <- Toks
  EmbdModes = {FALSE, TRUE}
  MaxPos = 1
  MaxText = 2
  Shifts <- Moves
  Divs = {2}
  AnyRmAll = FALSE
  AnyFailure = FALSE
SPECIFICATION Spec
INVARIANTS TypeOK SlotsSound SplitsWhole OutputsInPlace
PROPERTY Implements
