---------------------------- MODULE MCTileImages ----------------------------
(***************************************************************************)
(* Bounds for TileImages: a map of six units to the half, cells of four    *)
(* pixels.  At level 0 the image at Wide makes two tiles in one row and    *)
(* Narrow has no width; at level 2 Wide makes 2 by 2 tiles, and starts in  *)
(* the middle of a cell, and Narrow makes one column of two.               *)
(***************************************************************************)
EXTENDS TileImages

MCBase    == 4
MCWorld   == 6
MCMcBound == 12

(* Longitudes are linear; a latitude at the bound maps beyond McBound, as   *)
(* the pole does.                                                           *)
MCLonBound == 3
MCLatBound == 3
MCMercX == [lon \in -3 .. 3 |-> 2 * lon]
MCMercY == [lat \in -3 .. 3 |->
              CASE lat = 0 -> 0
                [] lat = 1 -> 3
                [] lat = 2 -> 5
                [] lat = 3 -> 40
                [] OTHER -> -3]

From(x0, y0, x1, y1) == [x0 |-> x0, y0 |-> y0, x1 |-> x1, y1 |-> y1]

Wide   == From(2, 2, 3, 0)
Narrow == From(0, 1, 1, 0)
Swapped == From(3, 0, 2, 2)      \* what the fast constructor asks for
South  == From(2, 1, 3, -1)      \* its second corner has no cell
West   == From(-1, 1, 1, 0)

Point(x, y) == [x |-> x, y |-> y]

(* The calls the images above can make. *)
MCJobs ==
  {CutJob(n, t) : n \in {1, 2, 4}, t \in 1 .. 3}
    \union {SaveJob(n, t) : n \in {1, 2, 4}, t \in 0 .. 3}

Allow(faults, tilings, saves) ==
  [mayFail |-> faults, tilings |-> tilings, saves |-> saves]

(* ---- run tiles ---- *)
TilesCorners == {Wide, Narrow, Swapped, South}
TilesPoints  == {Point(2, 3)}
TilesLevels  == {-1, 0, 2}
TilesSizes   == {0, 4}
TilesThreads == {1, 2}
(* An attempt that may fail in its cut is not repeated: see run retry.      *)
TilesEnvironments ==
  {Allow({"open", "rescale", "fill"}, 2, 0),
   Allow({"copy"}, 1, 0),
   Allow({"save"}, 1, 1),
   Allow({}, 1, 2)}

(* ---- the runs that end in a violation, each on one image ---- *)
OneCorner    == {Wide}
OneLevel     == {2}
RowLevel     == {0}
OneSize      == {4}
OneThread    == {2}
LatLonPoints == {Point(3, 2)}
NoFault      == {Allow({}, 1, 0)}
FailedCut    == {Allow({"copy"}, 2, 0)}
OtherSizes   == {4, 5}
=============================================================================
