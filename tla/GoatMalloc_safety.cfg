CONSTANTS
  PageSize = 8
  StructSize = 2
  InitSizes = {8, 9}
  RequestSizes = {0, 1, 2, 3, 5}
  MaxArena = 16
  MiddleSplits = FALSE
SPECIFICATION FairSpec
INVARIANTS TypeOK ArenaTiled LiveChunksKept Coalesced
PROPERTIES FirstFit SearchEnds
