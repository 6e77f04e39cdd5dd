\* The real MIN_WORK_PER_THREAD, and an image of four tiles.
CONSTANTS
  MinWork = 16
  Jobs <- MCJobs
  Base <- MCBase
  World <- MCWorld
  McBound <- MCMcBound
  LonBound <- MCLonBound
  LatBound <- MCLatBound
  MercX <- MCMercX
  MercY <- MCMercY
  MaxScaleLevel = 3
  Corners <- OneCorner
  Points <- LatLonPoints
  Levels <- OneLevel
  TileSizes <- OneSize
  ThreadCounts <- OneThread
  Environments <- NoFault

SPECIFICATION TileSpec

INVARIANT TilingFillsEverySlot
