\* An image of one row.
CONSTANTS
  MinWork = 2
  Jobs <- MCJobs
  Base <- MCBase
  World <- MCWorld
  McBound <- MCMcBound
  LonBound <- MCLonBound
  LatBound <- MCLatBound
  MercX <- MCMercX
  MercY <- MCMercY
  MaxScaleLevel = 3
  Corners <- OneCorner
  Points <- LatLonPoints
  Levels <- RowLevel
  TileSizes <- OneSize
  ThreadCounts <- OneThread
  Environments <- NoFault

SPECIFICATION TileSpec

INVARIANT LatLonIsConverted
