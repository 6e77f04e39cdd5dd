CONSTANTS
  MinWork = 2
  Jobs <- MCJobs
  Base <- MCBase
  World <- MCWorld
  McBound <- MCMcBound
  LonBound <- MCLonBound
  LatBound <- MCLatBound
  MercX <- MCMercX
  MercY <- MCMercY
  MaxScaleLevel = 3
  Corners <- TilesCorners
  Points <- TilesPoints
  Levels <- TilesLevels
  TileSizes <- TilesSizes
  ThreadCounts <- TilesThreads
  Environments <- TilesEnvironments

SPECIFICATION TileSpec

INVARIANTS
  TileTypeOK
  BitmapsAreOwned
  NoWildAccess
  TilingFillsEverySlot
  TileShowsItsCell
  SaveWorkIsCurrent
  FilesShowTheirCell
  AnswersWhatWasAsked

PROPERTIES
  TilesStay
  TileCallsReturn
