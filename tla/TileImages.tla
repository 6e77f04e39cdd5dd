----------------------------- MODULE TileImages -----------------------------
(***************************************************************************)
(* image_helper::TileImages: an object that is configured by setters, cuts *)
(* a source image into the tiles of a map grid (tiling), hands the tiles   *)
(* out and saves them.  One client thread calls it; tiling and             *)
(* saveAllTiles run the worker loop of module WorkerPool inside.           *)
(*                                                                         *)
(* A bitmap is a record that says what it is and, for a tile, which part   *)
(* of the map it shows; `live` is the set of bitmaps that FreeImage has    *)
(* handed out and not taken back.  FreeImage itself is external: its calls *)
(* fail when their arguments are unusable, and otherwise only where the    *)
(* object's `env` says that they may.                                      *)
(***************************************************************************)
EXTENDS WorkerPool, TileGeometry, SequencesExt

CONSTANTS
  Corners,        \* arguments of setImageCoord: lat-lon of two corners
  Points,         \* arguments of the look-ups by coordinate; their y is an int
  MercX, MercY,   \* latlon2Mercator: degrees -> map coordinate
  LonBound, LatBound,
  Levels,         \* arguments of setScaleLevel
  MaxScaleLevel,  \* MAX_SCALE_LEVEL
  TileSizes,      \* arguments of setTileSize
  ThreadCounts,   \* arguments of setThreadNumber
  Environments    \* what may fail, and how often tiling and saving are called

Faults == {"open", "rescale", "fill", "copy", "save"}
EnvironmentTypes == [mayFail : SUBSET Faults, tilings : Nat, saves : Nat]

(* The arguments are numbers, and a level is a power of two.                *)
ASSUME TileAssumption ==
  /\ MaxScaleLevel \in Nat
  /\ Levels \subseteq Int /\ TileSizes \subseteq Int /\ ThreadCounts \subseteq Int
  /\ Corners \subseteq [x0 : Int, y0 : Int, x1 : Int, y1 : Int]
  /\ Points \subseteq [x : Int, y : Int]
  /\ LonBound \in Int /\ \A lon \in -LonBound .. LonBound : MercX[lon] \in Int
  /\ LatBound \in Int /\ \A lat \in -LatBound .. LatBound : MercY[lat] \in Int
  /\ Environments \subseteq EnvironmentTypes
  /\ \A level \in 0 .. MaxScaleLevel : 2 ^ level \in Nat \ {0}

VARIABLES
  stage,          \* where the client's call is; "idle" between calls
  coord,          \* x0_, y0_, x1_, y1_
  scaleLevel, tileSize, threadNum,
  grid,           \* gridX0_ ...
  pixel,          \* pixelX0_ ...
  canvas,         \* gridPixelWidth_, gridPixelHeight_
  images,         \* images_: slot <<row, column>> -> bitmap; <<>> when empty
  tileWorkList,   \* tileWorkList_: a slot and the pixel its tile starts at
  saveWorkList,   \* saveWorkList_: a bitmap and its cell
  srcImage,       \* the local srcImage of tiling
  live,           \* the bitmaps allocated and not unloaded
  misuse,         \* memory errors committed: a write through a dangling
                  \* pointer, an index out of range, a double unload
  files,          \* cell -> the tile saved for it
  last,           \* the last call that returned, and what it answered
  env             \* what may fail in this object's life

configVars == <<coord, scaleLevel, tileSize, threadNum>>
gridVars   == <<grid, pixel, canvas>>
tileVars   == <<images, tileWorkList, srcImage>>
heapVars   == <<live, misuse>>
saveVars   == <<saveWorkList, files>>
objVars    == <<stage, configVars, gridVars, tileVars, heapVars, saveVars,
                last, env>>
allVars    == <<objVars, poolVars>>

-----------------------------------------------------------------------------
Null == [kind |-> "null"]
Unset == [x0 |-> -1, y0 |-> -1, x1 |-> -1, y1 |-> -1]
NoImages == <<>>

Bitmap(kind)     == [kind |-> kind, try |-> env.tilings]
TileBitmap(area) == [kind |-> "tile", try |-> env.tilings, area |-> area,
                     level |-> scaleLevel]

MayFail(what) == what \in env.mayFail

(* A call returns: its name, what it was asked for, whether it succeeded    *)
(* and the bitmap it handed out.                                            *)
Answer(op, asked, ok, image) ==
  [op |-> op, asked |-> asked, ok |-> ok, image |-> image]
Says(op, ok) == last' = Answer(op, <<>>, ok, Null)

Zoom == 2 ^ scaleLevel

Columns == grid.x1 - grid.x0 + 1
Rows    == grid.y0 - grid.y1 + 1
Total   == Columns * Rows
Slots   == (0 .. Rows - 1) \X (0 .. Columns - 1)

(* The i-th slot, from 0, in the row by row order of both work lists.       *)
SlotNo(i) == <<i \div Columns, i % Columns>>

(* images_[gridY0_ - gridY][gridX - gridX0_], and back. *)
BadSlotOf(gx, gy) == <<gy - grid.y1, gx - grid.x0>>
SlotOf(gx, gy) == <<grid.y0 - gy, gx - grid.x0>>

BadCellAt(slot) == <<grid.x0 + slot[2], grid.y1 + slot[1]>>
CellAt(slot)   == <<grid.x0 + slot[2], grid.y0 - slot[1]>>
InGrid(gx, gy) == SlotOf(gx, gy) \in Slots

Tiled == images # NoImages
Tiles == {images[s] : s \in DOMAIN images} \ {Null}

(* images_ is indexed by some slots, unchecked; the program would read what  *)
(* lies beyond the vector, the model reads nothing.                         *)
ImageAt(slot) == IF slot \in DOMAIN images THEN images[slot] ELSE Null

Index(slots) ==
  misuse' = IF slots \subseteq DOMAIN images THEN misuse
                                             ELSE misuse \union {"out of range"}

(* FreeImage_Unload of some bitmaps: one that is not there is freed twice.  *)
Unload(bitmaps) ==
  /\ live' = live \ bitmaps
  /\ misuse' = IF bitmaps \subseteq live THEN misuse
                                         ELSE misuse \union {"double unload"}

-----------------------------------------------------------------------------
TileInit ==
  /\ PoolInit
  /\ stage = "none"
  /\ coord = Unset
  /\ scaleLevel = -1
  /\ tileSize = [w |-> Base, h |-> Base]
  /\ threadNum = 0
  /\ grid = Unset /\ pixel = Unset /\ canvas = [w |-> 0, h |-> 0]
  /\ images = NoImages
  /\ tileWorkList = <<>>
  /\ saveWorkList = <<>>
  /\ srcImage = Null
  /\ live = {}
  /\ misuse = {}
  /\ files = <<>>
  /\ last = Answer("none", <<>>, TRUE, Null)
  /\ env = [mayFail |-> {}, tilings |-> 0, saves |-> 0]

(* The members a constructor sets, the others having their initial values.  *)
Construct(threads, c, level) ==
  /\ stage = "none"
  /\ threads > 0
  /\ env' \in Environments
  /\ stage' = "idle"
  /\ threadNum' = threads
  /\ coord' = c
  /\ scaleLevel' = level
  /\ Says("construct", TRUE)
  /\ UNCHANGED <<tileSize, gridVars, tileVars, heapVars, saveVars, poolVars>>

(* latlon2Mercator of two corners. *)
Mercator(c) ==
  [x0 |-> MercX[c.x0], y0 |-> MercY[c.y0],
   x1 |-> MercX[c.x1], y1 |-> MercY[c.y1]]

InWorld(c) ==
  /\ -LonBound <= c.x0 /\ c.x0 <= LonBound
  /\ -LonBound <= c.x1 /\ c.x1 <= LonBound
  /\ -LatBound <= c.y0 /\ c.y0 <= LatBound
  /\ -LatBound <= c.y1 /\ c.y1 <= LatBound

(* The constructors without and with the position of the image.  The second *)
(* throws unless its corners run from south-east to north-west.             *)
Create(threads) == Construct(threads, Unset, -1)

CreateFast(threads, c, level) ==
  /\ InWorld(c)
  /\ c.x1 < c.x0 /\ c.y1 > c.y0
  /\ level \in 0 .. MaxScaleLevel
  /\ Construct(threads, Mercator(c), level)

(* The object and what it holds are gone. *)
ObjectEnds ==
  /\ stage = "idle"
  /\ stage' = "none"
  /\ images' = NoImages
  /\ coord' = Unset
  /\ scaleLevel' = -1
  /\ tileSize' = [w |-> Base, h |-> Base]
  /\ threadNum' = 0
  /\ grid' = Unset /\ pixel' = Unset /\ canvas' = [w |-> 0, h |-> 0]
  /\ tileWorkList' = <<>>
  /\ saveWorkList' = <<>>
  /\ files' = <<>>
  /\ Says("none", TRUE)
  /\ env' = [mayFail |-> {}, tilings |-> 0, saves |-> 0]
  /\ UNCHANGED <<srcImage, poolVars>>

(* TileImages::~TileImages *)
Destroy == ObjectEnds /\ Unload(Tiles)

-----------------------------------------------------------------------------
(* The setters: each refuses an illegal argument and changes nothing.       *)
Setter(legal) ==
  /\ stage = "idle"
  /\ Says("set", legal)
  /\ UNCHANGED <<stage, gridVars, tileVars, heapVars, saveVars, env, poolVars>>

SetImageCoord(c) ==
  LET legal == InWorld(c) /\ c.x1 > c.x0 /\ c.y1 < c.y0
  IN  /\ Setter(legal)
      /\ coord' = IF legal THEN Mercator(c) ELSE coord
      /\ UNCHANGED <<scaleLevel, tileSize, threadNum>>

SetScaleLevel(level) ==
  LET legal == level >= 0 /\ level < MaxScaleLevel
  IN  /\ Setter(legal)
      /\ scaleLevel' = IF legal THEN level ELSE scaleLevel
      /\ UNCHANGED <<coord, tileSize, threadNum>>

BadLegalSize(w, h) == w > 0
LegalSize(w, h)    == w > 0 /\ h > 0

SetTileSize(w, h) ==
  LET legal == LegalSize(w, h)
  IN  /\ Setter(legal)
      /\ tileSize' = IF legal THEN [w |-> w, h |-> h] ELSE tileSize
      /\ UNCHANGED <<coord, scaleLevel, threadNum>>

SetThreadNumber(n) ==
  LET legal == n > 0
  IN  /\ Setter(legal)
      /\ threadNum' = IF legal THEN n ELSE threadNum
      /\ UNCHANGED <<coord, scaleLevel, tileSize>>

-----------------------------------------------------------------------------
(* tiling: what it asks of the object before it opens the source image.     *)
BadNotYetTiled == TRUE
NotYetTiled    == ~Tiled

CanTile ==
  /\ NotYetTiled
  /\ coord.x0 < McBound /\ coord.x0 > -1
  /\ coord.x1 > coord.x0 /\ coord.y1 < coord.y0
  /\ scaleLevel > -1

Tiling ==
  /\ stage = "idle"
  /\ CanTile
  /\ env.tilings > 0
  /\ env' = [env EXCEPT !.tilings = @ - 1]
  /\ stage' = "open"
  /\ UNCHANGED <<configVars, gridVars, tileVars, heapVars, saveVars, last,
                 poolVars>>

(* The source image may also be unreadable.                                 *)
TilingRefused ==
  /\ stage = "idle"
  /\ ~CanTile \/ MayFail("open")
  /\ Says("tiling", FALSE)
  /\ UNCHANGED <<stage, configVars, gridVars, tileVars, heapVars, saveVars,
                 env, poolVars>>

(* openSrcImage; when it fails tiling has nothing to unload.                *)
OpenSrcImage ==
  /\ stage = "open"
  /\ \/ /\ srcImage' = Bitmap("src")
        /\ live' = live \union {srcImage'}
        /\ stage' = "scale"
        /\ UNCHANGED last
     \/ /\ MayFail("open")
        /\ stage' = "idle"
        /\ Says("tiling", FALSE)
        /\ UNCHANGED <<srcImage, live>>
  /\ UNCHANGED <<configVars, gridVars, images, tileWorkList, misuse, saveVars,
                 env, poolVars>>

(* tiling gives up after one of its steps failed. *)
Abandon ==
  /\ Unload({srcImage})
  /\ srcImage' = Null
  /\ stage' = "idle"
  /\ Says("tiling", FALSE)

(* A step of tiling puts a bitmap made from the source image in its place   *)
(* and unloads the old one.                                                 *)
BadAfterExchange(bitmap) == live \union {bitmap}      \* the old one leaks
AfterExchange(bitmap)    == (live \ {srcImage}) \union {bitmap}

Exchange(bitmap) ==
  /\ srcImage' = bitmap
  /\ live' = AfterExchange(bitmap)
  /\ UNCHANGED <<last, misuse>>

(* scaleSrcImage: the cells of the corners.  getGridCoord leaves the first  *)
(* corner in place when only the second is illegal.                         *)
FirstLegal  == LegalMc(coord.x0) /\ LegalMc(coord.y0)
SecondLegal == LegalMc(coord.x1) /\ LegalMc(coord.y1)

GridX(x) == GridOf(Zoom, x)
GridY(y) == GridOf(Zoom, y)

Located ==
  LET first == [grid EXCEPT !.x0 = GridX(coord.x0), !.y0 = GridY(coord.y0)]
  IN  IF ~FirstLegal THEN grid
      ELSE IF ~SecondLegal THEN first
      ELSE [first EXCEPT !.x1 = GridX(coord.x1), !.y1 = GridY(coord.y1)]

Ordered(g) == g.x1 >= g.x0 /\ g.y1 <= g.y0

LocateFails ==
  /\ stage = "scale"
  /\ ~(FirstLegal /\ SecondLegal /\ Ordered(Located))
  /\ grid' = Located
  /\ Abandon
  /\ UNCHANGED <<configVars, pixel, canvas, images, tileWorkList, saveVars,
                 env, poolVars>>

(* The canvas in tiles and the image in pixels of the map.                  *)
ScaleSrcImage ==
  /\ stage = "scale"
  /\ FirstLegal /\ SecondLegal /\ Ordered(Located)
  /\ grid' = Located
  /\ canvas' = [w |-> (grid'.x1 - grid'.x0 + 1) * tileSize.w,
                h |-> (grid'.y0 - grid'.y1 + 1) * tileSize.h]
  /\ pixel' = [x0 |-> ToPixel(Zoom, coord.x0), y0 |-> ToPixel(Zoom, coord.y0),
               x1 |-> ToPixel(Zoom, coord.x1), y1 |-> ToPixel(Zoom, coord.y1)]
  /\ LET empty == pixel'.x1 = pixel'.x0 \/ pixel'.y0 = pixel'.y1
     IN  \/ /\ ~empty
            /\ Exchange(Bitmap("scaled"))
            /\ stage' = "fill"
         \/ /\ empty \/ MayFail("rescale")
            /\ Abandon
  /\ UNCHANGED <<configVars, images, tileWorkList, saveVars, env, poolVars>>

(* fillSrcImage: the image is pasted on an empty canvas of whole tiles.     *)
Pasteable ==
  Fits(canvas, PasteLeft(pixel.x0), PasteTop(pixel.y0),
       pixel.x1 - pixel.x0, pixel.y0 - pixel.y1)

FillSrcImage ==
  /\ stage = "fill"
  /\ \/ /\ Pasteable
        /\ Exchange([kind |-> "canvas", try |-> env.tilings,
                     area |-> CanvasArea(pixel.x0, pixel.y0, canvas)])
        /\ stage' = "cut"
     \/ /\ ~Pasteable \/ MayFail("fill")
        /\ Abandon
  /\ UNCHANGED <<configVars, gridVars, images, tileWorkList, saveVars, env,
                 poolVars>>

-----------------------------------------------------------------------------
(* cutSrcImage up to its first thread.  The work list is appended to, and   *)
(* the number of threads is adjusted for good.                              *)
NewTileWork ==
  [i \in 1 .. Total |->
     [try |-> env.tilings, slot |-> SlotNo(i - 1),
      x |-> SlotNo(i - 1)[2] * tileSize.w, y |-> SlotNo(i - 1)[1] * tileSize.h]]

CutSrcImage ==
  /\ stage = "cut"
  /\ images' = [s \in Slots |-> Null]
  /\ tileWorkList' = tileWorkList \o NewTileWork
  /\ threadNum' = CutThreads(Total, threadNum)
  /\ Begin(CutJob(Total, threadNum))
  /\ stage' = "cutting"
  /\ UNCHANGED <<coord, scaleLevel, tileSize, gridVars, srcImage, heapVars,
                 saveVars, last, env>>

(* tilingWorker, one item: *(work.tileImage) = FreeImage_Copy(...).  The    *)
(* slot of a work entry of an earlier attempt is gone with that attempt's   *)
(* images.                                                                  *)
TileWork(t) == tileWorkList[worker[t].next + 1]

StoreTile(work, bitmap) ==
  IF work.try = env.tilings
  THEN images' = [images EXCEPT ![work.slot] = bitmap] /\ UNCHANGED misuse
  ELSE misuse' = misuse \union {"stale write"} /\ UNCHANGED images

CutOut(work) ==
  TileBitmap(CutArea(srcImage.area, work.x, work.y, tileSize.w, tileSize.h))

Inside(work) == Fits(srcImage.area, work.x, work.y, tileSize.w, tileSize.h)

CutTile(t) ==
  /\ stage = "cutting"
  /\ HandleItem(t)
  /\ Inside(TileWork(t))
  /\ live' = live \union {CutOut(TileWork(t))}
  /\ StoreTile(TileWork(t), CutOut(TileWork(t)))
  /\ UNCHANGED <<stage, configVars, gridVars, tileWorkList, srcImage, saveVars,
                 last, env>>

CutTileFails(t) ==
  /\ stage = "cutting"
  /\ FailItem(t)
  /\ ~Inside(TileWork(t)) \/ MayFail("copy")
  /\ StoreTile(TileWork(t), Null)
  /\ UNCHANGED <<stage, configVars, gridVars, tileWorkList, srcImage, live,
                 saveVars, last, env>>

(* The locals of a parallel call end with it. *)
LeavePool == NewCall(NoJob) /\ UNCHANGED running

BadAfterFailure == images          \* images_.clear() is missing
ImagesAfterFailure == NoImages

(* tiling after cutSrcImage: the source image is unloaded either way, and   *)
(* after a failure so is every tile.                                        *)
TilingReturns ==
  /\ stage = "cutting"
  /\ ~running
  /\ Says("tiling", outcome = "ok")
  /\ IF outcome = "ok" THEN Unload({srcImage}) /\ UNCHANGED images
                       ELSE Unload({srcImage} \union Tiles)
                            /\ images' = ImagesAfterFailure
  /\ srcImage' = Null
  /\ stage' = "idle"
  /\ LeavePool
  /\ UNCHANGED <<configVars, gridVars, tileWorkList, saveVars, env>>

-----------------------------------------------------------------------------
(* saveAllTiles up to its first thread; its work list too is appended to.   *)
NewSaveWork ==
  [i \in 1 .. Total |-> [image |-> ImageAt(SlotNo(i - 1)),
                         cell |-> CellAt(SlotNo(i - 1))]]

SaveAllTiles ==
  /\ stage = "idle"
  /\ Tiled
  /\ env.saves > 0
  /\ env' = [env EXCEPT !.saves = @ - 1]
  /\ saveWorkList' = saveWorkList \o NewSaveWork
  /\ Index(Slots)
  /\ Begin(SaveJob(Total, threadNum))
  /\ stage' = "saving"
  /\ UNCHANGED <<configVars, gridVars, tileVars, live, files, last>>

(* savingWorker, one item. *)
SaveWork(t) == saveWorkList[worker[t].next + 1]

WriteFile(cell, image) ==
  files' = [c \in DOMAIN files \union {cell} |->
              IF c = cell THEN image ELSE files[c]]

SaveItem(t) ==
  /\ stage = "saving"
  /\ HandleItem(t)
  /\ SaveWork(t).image # Null
  /\ WriteFile(SaveWork(t).cell, SaveWork(t).image)
  /\ UNCHANGED <<stage, configVars, gridVars, tileVars, heapVars, saveWorkList,
                 last, env>>

(* An empty image, a suffix of no known format, or FreeImage_Save fails.    *)
SaveItemFails(t) ==
  /\ stage = "saving"
  /\ FailItem(t)
  /\ SaveWork(t).image = Null \/ MayFail("save")
  /\ UNCHANGED objVars

SaveAllReturns ==
  /\ stage = "saving"
  /\ ~running
  /\ Says("saveAllTiles", outcome = "ok")
  /\ stage' = "idle"
  /\ LeavePool
  /\ UNCHANGED <<configVars, gridVars, tileVars, heapVars, saveVars, env>>

(* The steps of a parallel call that touch nothing but the call. *)
CallSteps    == (CallerStep) /\ UNCHANGED objVars
OtherStep(t) == (Report(t) \/ Finish(t)) /\ UNCHANGED objVars

-----------------------------------------------------------------------------
(* Look-ups.  getTile counts its rows from gridY0_ upwards.                 *)
Served(gx, gy) ==
  /\ Tiled
  /\ gx >= grid.x0 /\ gx <= grid.x1
  /\ gy >= grid.y0 /\ gy <= grid.y1

BadRowSlot(gx, gy) == <<gy - grid.y0, grid.x1 - gx>>
RowSlot(gx, gy)    == <<gy - grid.y0, gx - grid.x0>>

Lookup(op, asked, found, gx, gy) ==
  /\ stage = "idle"
  /\ LET ok == found /\ Served(gx, gy)
     IN  IF ok THEN /\ Index({RowSlot(gx, gy)})
                    /\ last' = Answer(op, asked, TRUE, ImageAt(RowSlot(gx, gy)))
               ELSE /\ last' = Answer(op, asked, FALSE, Null)
                    /\ UNCHANGED misuse
  /\ UNCHANGED <<stage, configVars, gridVars, tileVars, live, saveVars,
                 env, poolVars>>

(* The cell of a point, if getGridCoord accepts it.                         *)
Findable(p) == Tiled /\ LegalMc(p.x) /\ LegalMc(p.y)

GetTile(gx, gy) == Lookup("getTile", <<gx, gy>>, TRUE, gx, gy)

GetTileAt(op, asked, p) ==
  IF Findable(p) THEN Lookup(op, asked, TRUE, GridX(p.x), GridY(p.y))
                 ELSE Lookup(op, asked, FALSE, 0, 0)

GetTileMercator(p) == GetTileAt("getTileMercator", p, p)

(* The point is converted, but the unconverted one is looked up.            *)
GetTileWithLatLon(p) == GetTileAt("getTileWithLatLon", p, p)

(* saveTile: the same, with the bounds of the rows in their order.          *)
Saveable(gx, gy) == Tiled /\ InGrid(gx, gy)

Save(op, asked, found, gx, gy) ==
  LET image == ImageAt(SlotOf(gx, gy))
      legal == found /\ Saveable(gx, gy)
      able  == legal /\ image # Null
  IN  /\ stage = "idle"
      /\ Index(IF legal THEN {SlotOf(gx, gy)} ELSE {})
      /\ \/ /\ able
            /\ env.saves > 0
            /\ env' = [env EXCEPT !.saves = @ - 1]
            /\ WriteFile(<<gx, gy>>, image)
            /\ last' = Answer(op, asked, TRUE, image)
         \/ /\ ~able \/ MayFail("save")
            /\ last' = Answer(op, asked, FALSE, Null)
            /\ UNCHANGED <<files, env>>
      /\ UNCHANGED <<stage, configVars, gridVars, tileVars, live,
                     saveWorkList, poolVars>>

SaveTile(gx, gy) == Save("saveTile", <<gx, gy>>, TRUE, gx, gy)

SaveTileAt(op, asked, p) ==
  IF Findable(p) THEN Save(op, asked, TRUE, GridX(p.x), GridY(p.y))
                 ELSE Save(op, asked, FALSE, 0, 0)

SaveTileMercator(p)   == SaveTileAt("saveTileMercator", p, p)
SaveTileWithLatLon(p) == SaveTileAt("saveTileWithLatLon", p, p)

-----------------------------------------------------------------------------
(* The client, and the call it is in. *)
WindowX == grid.x0 .. grid.x1 + 1
WindowY == grid.y1 - 1 .. grid.y0

(* The messages of refused look-ups have their arguments out of order: a    *)
(* row or a coordinate is printed as if it were the address of a text.      *)
(* Where nothing can be read the process ends, and the next one is another. *)
RefusalAborts ==
  /\ Tiled
  /\ \/ \E gx \in WindowX, gy \in WindowY : ~Served(gx, gy) \/ ~Saveable(gx, gy)
     \/ \E p \in Points : ~Findable(p)
  /\ ObjectEnds
  /\ live' = {} /\ misuse' = {}

Configure ==
  \/ \E n \in ThreadCounts : Create(n)
  \/ \E n \in ThreadCounts, c \in Corners, level \in Levels :
       CreateFast(n, c, level)
  \/ \E c \in Corners : SetImageCoord(c)
  \/ \E level \in Levels : SetScaleLevel(level)
  \/ \E w, h \in TileSizes : SetTileSize(w, h)
  \/ \E n \in ThreadCounts : SetThreadNumber(n)
  \/ Destroy \/ RefusalAborts

Use ==
  \/ Tiling
  \/ TilingRefused
  \/ SaveAllTiles
  \/ \E gx \in WindowX, gy \in WindowY : GetTile(gx, gy) \/ SaveTile(gx, gy)
  \/ \E p \in Points :
       \/ GetTileMercator(p) \/ GetTileWithLatLon(p)
       \/ SaveTileMercator(p) \/ SaveTileWithLatLon(p)

Proceed ==
  \/ OpenSrcImage
  \/ LocateFails \/ ScaleSrcImage
  \/ FillSrcImage
  \/ CutSrcImage
  \/ CallSteps
  \/ TilingReturns
  \/ SaveAllReturns

Work(t) ==
  CutTile(t) \/ CutTileFails(t) \/ SaveItem(t) \/ SaveItemFails(t) \/ OtherStep(t)

TileNext == Configure \/ Use \/ Proceed \/ \E t \in Threads : Work(t)

(* A call that was made runs; the client need not make one.                 *)
TileSpec ==
  /\ TileInit
  /\ [][TileNext]_allVars
  /\ WF_allVars(Proceed)
  /\ \A t \in Threads : WF_allVars(Work(t))

-----------------------------------------------------------------------------
Between == stage \in {"none", "idle"}      \* no call is in progress

(* Every variable of the object stays within its type, and the tiles kept   *)
(* are as many as the cells of the grid.                                    *)
TileTypeOK ==
  /\ PoolTypeOK
  /\ stage \in {"none", "idle", "open", "scale", "fill", "cut", "cutting",
                "saving"}
  /\ scaleLevel \in -1 .. MaxScaleLevel
  /\ threadNum \in Nat
  /\ tileSize.w > 0 /\ tileSize.h > 0
  /\ Tiled => DOMAIN images = Slots
  /\ tileWorkList \in Seq([try : Nat, slot : Nat \X Nat, x : Nat, y : Nat])
  /\ stage \in {"cutting", "saving"} \/ ~running

(* Every bitmap has exactly one owner.  Between calls it is the slot of a   *)
(* tile: no path of tiling loses a bitmap, and none is unloaded twice.      *)
BitmapsAreOwned ==
  /\ Tiles \union ({srcImage} \ {Null}) \subseteq live
  /\ Between => live = Tiles /\ srcImage = Null
  /\ "double unload" \notin misuse
  /\ \A a, b \in DOMAIN images : a # b /\ images[a] # Null => images[a] # images[b]

(* A worker writes its tile into the images of its own call, never into a   *)
(* vector that an earlier call has released, and the grid the look-ups and  *)
(* saves compute an index from is the one the vector was made for.          *)
NoWildAccess == {"stale write", "out of range"} \cap misuse = {}

(* Success of tiling means a tile in every slot; failure leaves none.       *)
TilingFillsEverySlot ==
  Between /\ Tiled => \A s \in Slots : images[s] # Null

(* The tile in a slot shows the cell of the grid the slot stands for.       *)
TileShowsItsCell ==
  \A s \in DOMAIN images :
    images[s] # Null =>
      images[s].area = CellArea(CellAt(s)[1], CellAt(s)[2])

(* The work list of saveAllTiles, which only grows, never names a bitmap    *)
(* that is gone or that belongs to another cell.                            *)
SaveWorkIsCurrent ==
  \A i \in DOMAIN saveWorkList :
    LET work == saveWorkList[i]
    IN  /\ work.image \in live
        /\ work.image.area = CellArea(work.cell[1], work.cell[2])

(* A file written for a cell holds the tile of that cell, and when          *)
(* saveAllTiles has succeeded no cell is without a file.                    *)
FilesShowTheirCell ==
  /\ \A cell \in DOMAIN files :
       files[cell].area = CellArea(cell[1], cell[2])
  /\ last.op = "saveAllTiles" /\ last.ok =>
       {CellAt(s) : s \in Slots} \subseteq DOMAIN files

(* The tiles of a successful tiling are read-only for as long as the object *)
(* lives: no later call replaces or drops one, and only a cut fills them.   *)
TilesStay ==
  [][Tiled /\ stage # "cutting" /\ stage' # "none" => images' = images]_allVars

(* What a look-up by cell or by map coordinate hands out shows what was     *)
(* asked for, unless the scale level was changed after tiling.              *)
Shows(area, px, py) ==
  /\ area.left <= px /\ px < area.left + area.w
  /\ area.top - area.h <= py /\ py < area.top

AnswersWhatWasAsked ==
  last.image # Null =>
    /\ last.op \in {"getTile", "saveTile"} =>
         last.image.area = CellArea(last.asked[1], last.asked[2])
    /\ last.op \in {"getTileMercator", "saveTileMercator"}
         /\ last.image.level = scaleLevel =>
         Shows(last.image.area, ToPixel(Zoom, last.asked.x),
                                ToPixel(Zoom, last.asked.y))

(* tiling and saveAllTiles return, whatever fails inside.                   *)
TileCallsReturn == ~Between ~> Between

-----------------------------------------------------------------------------
(* The parallel calls an object makes follow from what its client may ask   *)
(* of it: the grids its corners have at its levels, and the numbers of      *)
(* threads it is given or that a cut settles on.                            *)
GridAt(z, m) ==
  [x0 |-> GridOf(z, m.x0), y0 |-> GridOf(z, m.y0),
   x1 |-> GridOf(z, m.x1), y1 |-> GridOf(z, m.y1)]

CellCount(g) == (g.x1 - g.x0 + 1) * (g.y0 - g.y1 + 1)

Placeable(c, level) ==
  LET m == Mercator(c)
      z == 2 ^ level
  IN  /\ InWorld(c)
      /\ LegalMc(m.x0) /\ LegalMc(m.y0) /\ LegalMc(m.x1) /\ LegalMc(m.y1)
      /\ Ordered(GridAt(z, m))
      /\ ToPixel(z, m.x1) # ToPixel(z, m.x0) /\ ToPixel(z, m.y1) # ToPixel(z, m.y0)

LegalLevels == Levels \cap (0 .. MaxScaleLevel)

CutTotals ==
  {CellCount(GridAt(2 ^ p[2], Mercator(p[1]))) :
     p \in {q \in Corners \X LegalLevels : Placeable(q[1], q[2])}}

ThreadsInUse ==
  {k \in ThreadCounts : k > 0}
    \union {RoundTenths((10 * n) \div MinWork) : n \in CutTotals}

ASSUME JobsAreEnough ==
  \A n \in CutTotals, k \in ThreadsInUse :
    SaveJob(n, k) \in Jobs /\ (k > 0 => CutJob(n, k) \in Jobs)

-----------------------------------------------------------------------------
(* What the comments of image_helper.h promise and the code does not keep.  *)

(* A cell of the tiled grid is handed out.                                  *)
GetTileServesTheGrid ==
  last.op = "getTile" /\ InGrid(last.asked[1], last.asked[2]) /\ Tiled => last.ok

(* A look-up by latitude and longitude hands out the tile that shows the    *)
(* point.                                                                   *)
LatLonIsConverted ==
  last.op = "getTileWithLatLon" /\ last.ok /\ last.image.level = scaleLevel =>
    Shows(last.image.area, ToPixel(Zoom, MercX[last.asked.x]),
                           ToPixel(Zoom, MercY[last.asked.y]))
=============================================================================
