\* A cut may fail, and tiling is called again.
CONSTANTS
  MinWork = 2
  Jobs <- MCJobs
  Base <- MCBase
  World <- MCWorld
  McBound <- MCMcBound
  LonBound <- MCLonBound
  LatBound <- MCLatBound
  MercX <- MCMercX
  MercY <- MCMercY
  MaxScaleLevel = 3
  Corners <- OneCorner
  Points <- LatLonPoints
  Levels <- OneLevel
  TileSizes <- OneSize
  ThreadCounts <- OneThread
  Environments <- FailedCut

SPECIFICATION TileSpec

INVARIANT NoWildAccess
