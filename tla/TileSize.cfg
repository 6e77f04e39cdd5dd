\* A tile size other than the size of a grid cell.
CONSTANTS
  MinWork = 2
  Jobs <- MCJobs
  Base <- MCBase
  World <- MCWorld
  McBound <- MCMcBound
  LonBound <- MCLonBound
  LatBound <- MCLatBound
  MercX <- MCMercX
  MercY <- MCMercY
  MaxScaleLevel = 3
  Corners <- OneCorner
  Points <- LatLonPoints
  Levels <- OneLevel
  TileSizes <- OtherSizes
  ThreadCounts <- OneThread
  Environments <- NoFault

SPECIFICATION TileSpec

INVARIANT TileShowsItsCell
