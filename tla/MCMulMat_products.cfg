CONSTANTS
  NThreads = 2
  Products <- AllWays
  ChunkSize = 2
  VectorChunk = 4
  Tile = 2
  DotRows = 2
  RowGroup = 1
  PanelTokens = 4
  Numa = FALSE
  OneQuantizes = FALSE
  Racing = FALSE
SPECIFICATION Spec
INVARIANTS TypeOK InputReady SameWay ComputedOnce
