-------------------------- MODULE TileImagesProofs --------------------------
(***************************************************************************)
(* The object of module TileImages, for every map, every client and every  *)
(* environment.  Some properties hold of the code as it is; the others are *)
(* stated with the proviso under which they hold, each of which a run that *)
(* ends in a violation shows to be needed.                                 *)
(***************************************************************************)
EXTENDS TileImages, WorkerPoolProofs, SequenceTheorems

(* The inductive invariant behind the properties of TileImages, in layers.  *)
(* First what holds of every object: how it is configured, which grid its   *)
(* tiles were cut for, and which call its workers are in.                   *)
Configured ==
  /\ tileSize \in [w : Nat \ {0}, h : Nat \ {0}]
  /\ coord = Unset \/ \E c \in Corners : InWorld(c) /\ coord = Mercator(c)
  /\ scaleLevel = -1 \/ scaleLevel \in LegalLevels
  /\ grid \in [x0 : Int, y0 : Int, x1 : Int, y1 : Int]
  /\ env \in EnvironmentTypes
  /\ IF stage = "none" THEN threadNum = 0 ELSE threadNum \in ThreadsInUse
  /\ stage # "none" /\ ~Tiled => threadNum > 0

GridIsPlaced ==
  /\ grid \in [x0 : Nat, y0 : Nat, x1 : Nat, y1 : Nat]
  /\ Ordered(grid)
  /\ Total \in CutTotals

StageFollows ==
  /\ stage = "none" => ~Tiled
  /\ stage \in {"open", "scale", "fill", "cut"} =>
       ~Tiled /\ coord.x0 > -1
  /\ Tiled \/ stage \in {"open", "scale", "fill", "cut"} => scaleLevel > -1
  /\ stage \in {"cutting", "saving"} => Tiled
  /\ Tiled \/ stage \in {"fill", "cut"} => GridIsPlaced
  /\ stage \in {"cutting", "saving"} =>
       job.total = Total /\ job.threads = threadNum
  /\ "out of range" \notin misuse

OutcomeFollows ==
  /\ running => outcome = "none"
  /\ outcome = "none" => running \/ job = NoJob
  /\ outcome = "ok" => AllSucceeded
  /\ outcome = "error" => ~AllSucceeded

ObjectInv == PoolInv /\ Configured /\ StageFollows /\ OutcomeFollows

(* Then what tiling does to the bitmaps, as long as no attempt follows one  *)
(* that failed in its cut: the canvas is the grid in tiles, a slot holds    *)
(* its tile once its item is handled, and every bitmap is accounted for.    *)
NoRetryAfterFailedCut ==
  \A e \in Environments : "copy" \in e.mayFail => e.tilings <= 1

CanvasFollows ==
  /\ stage \in {"fill", "cut", "cutting"} =>
       /\ canvas = [w |-> Columns * tileSize.w, h |-> Rows * tileSize.h]
       /\ pixel.x0 \in Nat /\ CellOf(pixel.x0) = grid.x0
       /\ pixel.y0 \in Nat /\ CellOf(pixel.y0) = grid.y0
  /\ stage \in {"cut", "cutting"} =>
       srcImage.area = CanvasArea(pixel.x0, pixel.y0, canvas)

WorkIsFresh ==
  /\ stage \in {"none", "open", "scale", "fill", "cut"} => tileWorkList = <<>>
  /\ stage = "cutting" => tileWorkList = NewTileWork
  /\ stage = "idle" /\ ~Tiled /\ tileWorkList # <<>> => env.tilings = 0
  /\ MayFail("copy") =>
       env.tilings <= IF stage \in {"none", "idle", "saving"} THEN 1 ELSE 0
  /\ stage = "cutting" /\ ~MayFail("copy") => failed = {}

TileFor(slot) ==
  TileBitmap(CutArea(srcImage.area, slot[2] * tileSize.w, slot[1] * tileSize.h,
                     tileSize.w, tileSize.h))

SlotsFollow ==
  /\ \A s \in DOMAIN images : images[s] = Null \/ images[s].kind = "tile"
  /\ stage = "cutting" =>
       \A i \in Items(job) :
         images[SlotNo(i)] = IF i \in Handled THEN TileFor(SlotNo(i)) ELSE Null

BitmapsAccounted ==
  /\ live = Tiles \union ({srcImage} \ {Null})
  /\ IF stage \in {"scale", "fill", "cut", "cutting"}
     THEN srcImage.kind \in {"src", "scaled", "canvas"}
     ELSE srcImage = Null
  /\ \A a, b \in DOMAIN images :
       a # b /\ images[a] # Null => images[a] # images[b]
  /\ misuse = {}

BitmapInv == CanvasFollows /\ WorkIsFresh /\ SlotsFollow /\ BitmapsAccounted

(* The work of saveAllTiles names the tiles there are, in the order of the  *)
(* slots as far as the workers of one call read it.                         *)
SaveEntry(slot) == [image |-> images[slot], cell |-> CellAt(slot)]

SavesFollow ==
  /\ saveWorkList \in Seq({SaveEntry(s) : s \in DOMAIN images})
  /\ stage = "saving" => saveWorkList # <<>>
  /\ saveWorkList # <<>> =>
       /\ Tiled /\ stage # "cutting" /\ Len(saveWorkList) >= Total
       /\ \A i \in 1 .. Total : saveWorkList[i] = SaveEntry(SlotNo(i - 1))

(* Then what the tiles, the files and the answers show, with tiles as large *)
(* as the cells.                                                            *)
TilesAreCells == \A size \in TileSizes : size > 0 => size = Base

ContentInv ==
  /\ tileSize = [w |-> Base, h |-> Base]
  /\ TileShowsItsCell
  /\ \A cell \in DOMAIN files : files[cell].area = CellArea(cell[1], cell[2])
  /\ AnswersWhatWasAsked

(* Last, with a thread for every cut, that a call which succeeds leaves     *)
(* nothing undone.                                                          *)
EveryCutHasThreads ==
  \A n \in CutTotals, k \in ThreadsInUse : k > 0 => CutThreads(n, k) > 0

FilledInv ==
  /\ stage # "none" => threadNum > 0
  /\ Tiled /\ stage # "cutting" => \A s \in Slots : images[s] # Null
  /\ stage = "saving" => \A i \in Handled : CellAt(SlotNo(i)) \in DOMAIN files
  /\ last.op = "saveAllTiles" /\ last.ok =>
       Tiled /\ {CellAt(s) : s \in Slots} \subseteq DOMAIN files

-----------------------------------------------------------------------------

(* What division with a rest returns. *)
LEMMA DivMod ==
  ASSUME NEW i \in Nat, NEW n \in Nat \ {0}
  PROVE  /\ i \div n \in Nat /\ i % n \in 0 .. n - 1
         /\ i = n * (i \div n) + (i % n)
  OBVIOUS

LEMMA ProductGrowsToo ==
  ASSUME NEW a \in Nat, NEW b \in Nat, NEW c \in Nat, a <= b
  PROVE  /\ c * a \in Nat /\ c * b \in Nat /\ c * a <= c * b
         /\ c * (a + 1) = c * a + c /\ c * a = a * c
  OBVIOUS

LEMMA ProductsCancel ==
  ASSUME NEW a \in Nat, NEW b \in Nat, NEW c \in Nat \ {0}, a * c = b * c
  PROVE  a = b
<1>1. CASE a + 1 <= b
  <2>1. c * (a + 1) <= c * b /\ c * (a + 1) = c * a + c
    BY <1>1, ProductGrowsToo
  <2> QED BY <2>1, ProductGrowsToo
<1>2. CASE b + 1 <= a
  <2>1. c * (b + 1) <= c * a /\ c * (b + 1) = c * b + c
    BY <1>2, ProductGrowsToo
  <2> QED BY <2>1, ProductGrowsToo
<1> QED BY <1>1, <1>2

(* A quotient and a rest are found again.                                   *)
LEMMA QuotientIsUnique ==
  ASSUME NEW n \in Nat \ {0}, NEW q \in Nat, NEW r \in 0 .. n - 1
  PROVE  (n * q + r) \div n = q /\ (n * q + r) % n = r
<1> DEFINE i == n * q + r
           d == i \div n
           m == i % n
<1>1. i \in Nat
  OBVIOUS
<1>2. d \in Nat /\ m \in 0 .. n - 1 /\ i = n * d + m
  BY <1>1, DivMod
<1>3. n * q + r = n * d + m
  BY <1>2
<1> HIDE DEF i, d, m
<1>4. d = q
  <2>1. CASE d + 1 <= q
    <3>1. n * (d + 1) <= n * q /\ n * (d + 1) = n * d + n
      BY <1>2, <2>1, ProductGrowsToo
    <3> QED BY <1>2, <1>3, <3>1, ProductGrowsToo
  <2>2. CASE q + 1 <= d
    <3>1. n * (q + 1) <= n * d /\ n * (q + 1) = n * q + n
      BY <1>2, <2>2, ProductGrowsToo
    <3> QED BY <1>2, <1>3, <3>1, ProductGrowsToo
  <2> QED BY <1>2, <2>1, <2>2
<1>5. m = r
  BY <1>2, <1>3, <1>4, ProductGrowsToo
<1> QED BY <1>4, <1>5 DEF d, m, i

-----------------------------------------------------------------------------
(* A grid with its corners in order has a row and a column at least. *)
LEMMA GridFacts ==
  ASSUME GridIsPlaced
  PROVE  /\ Rows \in Nat \ {0} /\ Columns \in Nat \ {0}
         /\ Total = Columns * Rows /\ Total \in Nat \ {0}
         /\ grid.x0 \in Nat /\ grid.y0 \in Nat /\ grid.x1 \in Nat
         /\ grid.y1 \in Nat /\ grid.x0 <= grid.x1 /\ grid.y1 <= grid.y0
         /\ Slots # {}
<1>1. /\ grid.x0 \in Nat /\ grid.y0 \in Nat /\ grid.x1 \in Nat
      /\ grid.y1 \in Nat /\ grid.x0 <= grid.x1 /\ grid.y1 <= grid.y0
  BY DEF GridIsPlaced, Ordered
<1>2. Rows \in Nat \ {0} /\ Columns \in Nat \ {0}
  BY <1>1 DEF Rows, Columns
<1>3. Total = Columns * Rows /\ Total \in Nat \ {0}
  BY <1>2 DEF Total
<1>4. <<0, 0>> \in Slots
  BY <1>2 DEF Slots
<1> QED BY <1>1, <1>2, <1>3, <1>4

(* The work lists visit every slot once: the position in the list and the   *)
(* slot determine each other.                                               *)
LEMMA SlotNoIsSlot ==
  ASSUME GridIsPlaced, NEW i \in 0 .. Total - 1
  PROVE  /\ SlotNo(i) \in Slots
         /\ SlotNo(i)[1] \in 0 .. Rows - 1 /\ SlotNo(i)[2] \in 0 .. Columns - 1
         /\ i = Columns * SlotNo(i)[1] + SlotNo(i)[2]
<1> DEFINE q == i \div Columns
           r == i % Columns
<1>1. /\ Rows \in Nat \ {0} /\ Columns \in Nat \ {0} /\ Total = Columns * Rows
      /\ Total \in Nat
  BY GridFacts
<1>2. q \in Nat /\ r \in 0 .. Columns - 1 /\ i = Columns * q + r
  <2>1. i \in Nat
    BY <1>1
  <2> QED BY <1>1, <2>1, DivMod
<1>3. SlotNo(i) = <<q, r>>
  BY DEF SlotNo
<1> HIDE DEF q, r
<1>4. q < Rows
  <2>1. SUFFICES ASSUME Rows <= q PROVE FALSE
    BY <1>1, <1>2
  <2>2. Columns * Rows <= Columns * q
    BY <1>1, <1>2, <2>1, ProductGrowsToo
  <2> QED BY <1>1, <1>2, <2>2, ProductGrowsToo
<1> QED BY <1>1, <1>2, <1>3, <1>4 DEF Slots

LEMMA EverySlotHasANumber ==
  ASSUME GridIsPlaced, NEW s \in Slots
  PROVE  \E i \in 0 .. Total - 1 : SlotNo(i) = s
<1> DEFINE i == Columns * s[1] + s[2]
<1>1. /\ Rows \in Nat \ {0} /\ Columns \in Nat \ {0} /\ Total = Columns * Rows
      /\ Total \in Nat
  BY GridFacts
<1>2. /\ s[1] \in Nat /\ s[1] + 1 <= Rows /\ s[2] \in 0 .. Columns - 1
      /\ s = <<s[1], s[2]>>
  BY <1>1 DEF Slots
<1>3. i \div Columns = s[1] /\ i % Columns = s[2]
  BY <1>1, <1>2, QuotientIsUnique
<1>4. i \in 0 .. Total - 1
  <2>1. /\ Columns * (s[1] + 1) <= Columns * Rows
        /\ Columns * (s[1] + 1) = Columns * s[1] + Columns
        /\ Columns * s[1] \in Nat
    BY <1>1, <1>2, ProductGrowsToo
  <2> QED BY <1>1, <1>2, <2>1
<1>5. SlotNo(i) = s
  BY <1>2, <1>3 DEF SlotNo
<1> QED BY <1>4, <1>5

(* A coordinate the grid accepts has a pixel and a cell.                    *)
LEMMA PixelIsNat ==
  ASSUME NEW z \in Nat \ {0}, NEW c \in Nat
  PROVE  ToPixel(z, c) \in Nat /\ GridOf(z, c) \in Nat
<1>1. Base \in Nat \ {0} /\ 2 * World \in Nat \ {0}
  BY GeometryAssumption
<1>2. c * Base * z \in Nat /\ Base * z \in Nat
  <2>1. c * Base \in Nat
    BY <1>1, ProductGrowsToo
  <2> QED BY <1>1, <2>1, ProductGrowsToo
<1>3. (c * Base * z) \div (2 * World) \in Nat
  BY <1>1, <1>2, DivMod
<1>4. (Base * z) \div 2 \in Nat
  BY <1>2, DivMod
<1>5. ToPixel(z, c) \in Nat
  BY <1>3, <1>4 DEF ToPixel
<1> QED BY <1>1, <1>5, DivMod DEF GridOf, CellOf

-----------------------------------------------------------------------------
(* What a step leaves alone, what is computed from it stays as it is. *)
LEMMA GridStays ==
  ASSUME grid' = grid
  PROVE  /\ Rows' = Rows /\ Columns' = Columns /\ Total' = Total
         /\ Slots' = Slots /\ (GridIsPlaced' <=> GridIsPlaced)
BY DEF Rows, Columns, Total, Slots, GridIsPlaced, Ordered

LEMMA ImagesStay ==
  ASSUME images' = images
  PROVE  /\ Tiled' <=> Tiled
         /\ Tiles' = Tiles
BY DEF Tiled, Tiles

(* The settings of the object are its own while a call of tiling runs.      *)
LEMMA ConfigStays ==
  ASSUME Configured, configVars' = configVars, env' = env, grid' = grid,
         Tiled' <=> Tiled, stage' = "none" <=> stage = "none"
  PROVE  Configured'
BY DEF Configured, configVars

-----------------------------------------------------------------------------
(* The worker loop inside tiling and saveAllTiles.  The object's steps are  *)
(* steps of the loop, or the loop is left, or they leave it alone.          *)
PoolStep == [PoolNext]_poolVars \/ (~running /\ LeavePool)

(* A call that was left is one without items.                               *)
LEMMA LeaveKeepsPool ==
  ASSUME PoolTypeOK, ~running, LeavePool
  PROVE  PoolTypeOK' /\ PoolInv' /\ OutcomeFollows'
<1>1. /\ job' = NoJob /\ running' = running /\ started' = 0 /\ startIndex' = 0
      /\ joined' = 0 /\ worker' = [t \in Callee(NoJob) |-> NotStarted]
      /\ progress' = 0 /\ handledBy' = {} /\ failed' = {} /\ outcome' = "none"
  BY DEF LeavePool, NewCall
<1>2. /\ NoJob \in AllJobs /\ NoJob.threads = 0 /\ NoJob.total = 0
      /\ Callee(NoJob) = {}
  BY DEF AllJobs, NoJob, Callee
<1>3. PoolTypeOK'
  <2>1. worker' \in [Callee(job') -> WorkerStates(job')]
    BY <1>1, <1>2
  <2>2. running' \in BOOLEAN
    BY <1>1 DEF PoolTypeOK
  <2> QED BY <1>1, <1>2, <2>1, <2>2 DEF PoolTypeOK
<1>4. PoolInv'
  BY <1>1, <1>2 DEF PoolInv, WorkersFollowTheSplit, HandledIsBeforeNext,
                    FailedIsWhereStopped, JoinedAreDone, Items
<1>5. OutcomeFollows'
  BY <1>1 DEF OutcomeFollows
<1> QED BY <1>3, <1>4, <1>5

(* A worker that has something to do is inside a call that still runs.      *)
LEMMA WorkerStepsInCall ==
  ASSUME PoolTypeOK, PoolInv, NEW t, WorkerStep(t)
  PROVE  running /\ t \in Callee(job) /\ UNCHANGED callVars
<1>1. t \in Callee(job) /\ worker[t].pc \in {"item", "report"}
      /\ UNCHANGED callVars
  BY JobFacts DEF WorkerStep, HandleItem, FailItem, Report, Finish, HasItem
<1>2. running
  <2>1. SUFFICES ASSUME ~running PROVE FALSE
    OBVIOUS
  <2>2. joined = job.threads
    BY <2>1 DEF PoolInv, JoinedAreDone
  <2> QED BY <1>1, <2>2, AllDoneAtEnd
<1> QED BY <1>1, <1>2

(* The answer of a call is that of its workers.                             *)
LEMMA OutcomeKept ==
  ASSUME PoolTypeOK, PoolInv, OutcomeFollows, [PoolNext]_poolVars
  PROVE  OutcomeFollows'
<1>1. ASSUME NEW j \in Jobs, Begin(j)
      PROVE  OutcomeFollows'
  BY <1>1 DEF Begin, NewCall, OutcomeFollows
<1>2. CASE Spawn
  <2>1. running /\ outcome = "none" /\ running' = running /\ outcome' = outcome
    BY <1>2 DEF Spawn, OutcomeFollows
  <2> QED BY <2>1 DEF OutcomeFollows
<1>3. CASE Join
  BY <1>3 DEF Join, OutcomeFollows, AllSucceeded
<1>4. CASE Return
  <2>1. /\ running' = FALSE /\ outcome' = IF AllSucceeded THEN "ok" ELSE "error"
        /\ job' = job /\ worker' = worker
    BY <1>4 DEF Return
  <2>2. AllSucceeded' <=> AllSucceeded
    BY <2>1 DEF AllSucceeded
  <2> QED BY <2>1, <2>2 DEF OutcomeFollows
<1>5. ASSUME NEW t \in Threads, WorkerStep(t)
      PROVE  OutcomeFollows'
  <2>1. running /\ outcome = "none"
    BY <1>5, WorkerStepsInCall DEF OutcomeFollows
  <2>2. running' = running /\ outcome' = outcome
    BY <1>5, WorkerStepsInCall DEF callVars
  <2> QED BY <2>1, <2>2 DEF OutcomeFollows
<1>6. CASE UNCHANGED poolVars
  BY <1>6 DEF poolVars, callVars, OutcomeFollows, AllSucceeded
<1> QED BY <1>1, <1>2, <1>3, <1>4, <1>5, <1>6 DEF PoolNext, CallerStep

(* So the loop's invariant holds in the object.                             *)
LEMMA PoolKept ==
  ASSUME PoolTypeOK, PoolInv, OutcomeFollows, PoolStep
  PROVE  PoolTypeOK' /\ PoolInv' /\ OutcomeFollows'
<1>1. CASE [PoolNext]_poolVars
  BY <1>1, NextKeepsInv, OutcomeKept
<1>2. CASE ~running /\ LeavePool
  BY <1>2, LeaveKeepsPool
<1> QED BY <1>1, <1>2 DEF PoolStep

(* The threads of a call are among those of the jobs.                       *)
LEMMA CalleeIsThread ==
  ASSUME PoolTypeOK, NEW t \in Callee(job)
  PROVE  t \in Threads
<1>1. job.threads > 0
  BY JobFacts DEF Callee
<1>2. job \in Jobs
  <2>1. job # NoJob
    BY <1>1 DEF NoJob
  <2> QED BY <2>1, JobFacts DEF AllJobs
<1> QED BY <1>2 DEF Threads, Callee

LEMMA WorkerStepIsPoolStep ==
  ASSUME PoolTypeOK, PoolInv, NEW t, WorkerStep(t)
  PROVE  PoolStep
BY WorkerStepsInCall, CalleeIsThread DEF PoolStep, PoolNext

(* The end of a call that succeeded: every item was handled.                *)
LEMMA SuccessHandlesAll ==
  ASSUME PoolTypeOK, PoolInv, OutcomeFollows, ~running, outcome = "ok",
         job.threads > 0, NEW x \in Items(job)
  PROVE  x \in Handled
<1>1. AllSucceeded /\ joined = job.threads
  BY DEF OutcomeFollows, PoolInv, JoinedAreDone
<1>2. PICK t \in Callee(job) : First(job, t) <= x /\ x < End(job, t)
  BY JobFacts, RangesCover DEF Items, Callee
<1>3. x \in Owned(t)
  BY <1>2, RangeFacts, JobFacts DEF Owned, Items
<1>4. worker[t].status = 0
  BY <1>1 DEF AllSucceeded
<1>5. FailureStaysInItsRange
  BY InvGivesContainedFailure
<1> QED BY <1>3, <1>4, <1>5 DEF FailureStaysInItsRange

(* The end of a call that did not: an item failed.                          *)
LEMMA ErrorMeansFailure ==
  ASSUME PoolTypeOK, PoolInv, OutcomeFollows, ~running, outcome = "error"
  PROVE  failed # {} /\ job.threads > 0
<1>1. joined = job.threads
  BY DEF PoolInv, JoinedAreDone
<1>2. PICK t \in Callee(job) : worker[t].status # 0
  BY DEF OutcomeFollows, AllSucceeded
<1>3. worker[t].pc = "done" /\ t < started /\ SpawnedWorker(t)
  BY <1>1, AllDoneAtEnd
<1>4. HasFailedOn(t, worker[t].next)
  BY <1>2, <1>3, WorkerType DEF HasFailedOn
<1>5. worker[t].next \in Items(job)
  BY <1>4, FailedInRange, RangeFacts, WorkerType, JobFacts DEF Items
<1>6. worker[t].next \in failed
  BY <1>4, <1>5 DEF PoolInv, FailedIsWhereStopped
<1> QED BY <1>6, RangeFacts, JobFacts

-----------------------------------------------------------------------------
(* The first layer: the type invariant and what holds of every object.      *)
ObjectTypes ==
  /\ stage \in {"none", "idle", "open", "scale", "fill", "cut", "cutting",
                "saving"}
  /\ Tiled => DOMAIN images = Slots
  /\ tileWorkList \in Seq([try : Nat, slot : Nat \X Nat, x : Nat, y : Nat])
  /\ stage \in {"cutting", "saving"} \/ ~running

LoopInv == PoolTypeOK /\ PoolInv /\ OutcomeFollows
Inv1    == LoopInv /\ ObjectTypes /\ Configured /\ StageFollows

LEMMA ThreadsAreNat == ThreadsInUse \subseteq Nat
<1>1. CutTotals \subseteq Nat
  <2>1. SUFFICES ASSUME NEW c \in Corners, NEW l \in LegalLevels, Placeable(c, l)
                 PROVE  CellCount(GridAt(2 ^ l, Mercator(c))) \in Nat
    BY DEF CutTotals
  <2> DEFINE g == GridAt(2 ^ l, Mercator(c))
             m == Mercator(c)
  <2>2. /\ InWorld(c) /\ Ordered(g)
        /\ LegalMc(m.x0) /\ LegalMc(m.y0) /\ LegalMc(m.x1) /\ LegalMc(m.y1)
    BY <2>1 DEF Placeable
  <2>3. 2 ^ l \in Nat \ {0}
    BY TileAssumption DEF LegalLevels
  <2>4. m.x0 \in Nat /\ m.y0 \in Nat /\ m.x1 \in Nat /\ m.y1 \in Nat
    <3>1. m.x0 \in Int /\ m.y0 \in Int /\ m.x1 \in Int /\ m.y1 \in Int
      BY <2>2, TileAssumption DEF InWorld, Mercator
    <3> QED BY <2>2, <3>1 DEF LegalMc
  <2> HIDE DEF m
  <2>5. g.x0 \in Nat /\ g.y0 \in Nat /\ g.x1 \in Nat /\ g.y1 \in Nat
    <3>1. g = GridAt(2 ^ l, m)
      BY DEF m
    <3> HIDE DEF g
    <3> QED BY <2>3, <2>4, <3>1, PixelIsNat DEF GridAt
  <2> HIDE DEF g
  <2>6. g.x1 - g.x0 + 1 \in Nat /\ g.y0 - g.y1 + 1 \in Nat
    BY <2>2, <2>5 DEF Ordered
  <2>7. CellCount(g) \in Nat
    BY <2>6, ProductGrowsToo DEF CellCount
  <2> QED BY <2>7 DEF g
<1>2. \A n \in CutTotals : RoundTenths((10 * n) \div MinWork) \in Nat
  <2>1. SUFFICES ASSUME NEW n \in CutTotals
                 PROVE  RoundTenths((10 * n) \div MinWork) \in Nat
    OBVIOUS
  <2> DEFINE d == (10 * n) \div MinWork
  <2>2. 10 * n \in Nat /\ MinWork \in Nat \ {0}
    BY <1>1, MinWorkAssumption
  <2>3. d \in Nat
    BY <2>2, DivMod
  <2> HIDE DEF d
  <2>4. RoundTenths(d) \in Nat
    BY <2>3 DEF RoundTenths
  <2> QED BY <2>4 DEF d
<1>3. \A k \in ThreadCounts : k > 0 => k \in Nat
  BY TileAssumption
<1>4. \A k \in ThreadsInUse :
        \/ k \in ThreadCounts /\ k > 0
        \/ \E n \in CutTotals : k = RoundTenths((10 * n) \div MinWork)
  BY DEF ThreadsInUse
<1> QED BY <1>2, <1>3, <1>4

LEMMA NoImagesIsEmpty == DOMAIN NoImages = {}
<1>1. <<>> \in [{} -> {}]
  OBVIOUS
<1> QED BY <1>1 DEF NoImages

LEMMA UnsetFacts ==
  /\ Unset \in [x0 : Int, y0 : Int, x1 : Int, y1 : Int]
  /\ ~(Unset.x0 > -1)
BY DEF Unset

(* The type invariant follows from what the object's settings are.          *)
LEMMA Inv1GivesTypes == Inv1 => TileTypeOK /\ ObjectInv
<1> SUFFICES ASSUME Inv1 PROVE TileTypeOK /\ ObjectInv
  OBVIOUS
<1>1. scaleLevel \in -1 .. MaxScaleLevel
  BY TileAssumption DEF Inv1, Configured, LegalLevels
<1>2. threadNum \in Nat
  <2>1. threadNum = 0 \/ threadNum \in ThreadsInUse
    BY DEF Inv1, Configured
  <2>2. 0 \in Nat
    OBVIOUS
  <2> QED BY <2>1, <2>2, ThreadsAreNat
<1>3. tileSize.w > 0 /\ tileSize.h > 0
  BY DEF Inv1, Configured
<1> QED BY <1>1, <1>2, <1>3
        DEF Inv1, LoopInv, ObjectTypes, TileTypeOK, ObjectInv

LEMMA Inv1Loop ==
  ASSUME Inv1, PoolStep
  PROVE  LoopInv'
BY PoolKept DEF Inv1, LoopInv

LEMMA InitInv1 == TileInit => Inv1
<1> SUFFICES ASSUME TileInit PROVE Inv1
  OBVIOUS
<1>1. PoolInit /\ stage = "none" /\ images = <<>> /\ tileWorkList = <<>>
  BY DEF TileInit, NoImages
<1>2. ~Tiled
  BY <1>1 DEF Tiled, NoImages
<1>3. LoopInv
  <2>1. OutcomeFollows
    BY <1>1 DEF PoolInit, OutcomeFollows
  <2> QED BY <1>1, <2>1, InitTypeOK, InitInv DEF LoopInv
<1>4. ObjectTypes
  BY <1>1, <1>2 DEF PoolInit, ObjectTypes
<1>5. Configured
  <2>1. tileSize \in [w : Nat \ {0}, h : Nat \ {0}]
    BY GeometryAssumption DEF TileInit
  <2>2. env \in EnvironmentTypes
    BY DEF TileInit, EnvironmentTypes
  <2> QED BY <2>1, <2>2, <1>1 DEF TileInit, Configured, Unset
<1>6. StageFollows
  BY <1>1, <1>2 DEF TileInit, StageFollows
<1> QED BY <1>3, <1>4, <1>5, <1>6 DEF Inv1

(* Calls that change nothing but settings and answers, and leave no trace   *)
(* in a running call, because there is none.                                *)
LEMMA QuietStep ==
  ASSUME Inv1, Configured', stage \in {"none", "idle"}, stage' \in {stage, "idle"},
         UNCHANGED <<grid, images, tileWorkList, poolVars>>,
         "out of range" \notin misuse', scaleLevel > -1 => scaleLevel' > -1
  PROVE  Inv1'
<1>1. LoopInv'
  BY Inv1Loop DEF PoolStep
<1>2. (Tiled' <=> Tiled) /\ Slots' = Slots /\ (GridIsPlaced' <=> GridIsPlaced)
  BY GridStays, ImagesStay
<1>3. running' = running /\ stage' \in {"none", "idle"}
  BY DEF poolVars, callVars
<1>4. ObjectTypes'
  BY <1>2, <1>3 DEF Inv1, ObjectTypes
<1>5. StageFollows'
  BY <1>2, <1>3 DEF Inv1, StageFollows
<1> QED BY <1>1, <1>4, <1>5 DEF Inv1

-----------------------------------------------------------------------------
(* The constructors. *)
LEMMA ConstructKeepsInv1 ==
  ASSUME Inv1, NEW threads \in ThreadCounts, NEW c, NEW level,
         Construct(threads, c, level),
         c = Unset \/ \E d \in Corners : InWorld(d) /\ c = Mercator(d),
         level = -1 \/ level \in LegalLevels
  PROVE  Inv1'
<1>1. /\ stage = "none" /\ stage' = "idle" /\ threads > 0 /\ env' \in Environments
      /\ threadNum' = threads /\ coord' = c /\ scaleLevel' = level
      /\ UNCHANGED <<tileSize, grid, images, tileWorkList, misuse, poolVars>>
  BY DEF Construct, gridVars, tileVars, heapVars
<1>2. threadNum' \in ThreadsInUse /\ threadNum' > 0
  BY <1>1 DEF ThreadsInUse
<1>3. env' \in EnvironmentTypes
  BY <1>1, TileAssumption
<1>4. Configured'
  BY <1>1, <1>2, <1>3 DEF Inv1, Configured
<1>5. LoopInv'
  BY <1>1, Inv1Loop DEF PoolStep
<1>6. (Tiled' <=> Tiled) /\ ~Tiled /\ running' = running
  BY <1>1, ImagesStay DEF Inv1, StageFollows, poolVars, callVars
<1>7. ObjectTypes'
  BY <1>1, <1>6 DEF Inv1, ObjectTypes
<1>8. StageFollows'
  BY <1>1, <1>6 DEF Inv1, StageFollows
<1> QED BY <1>4, <1>5, <1>7, <1>8 DEF Inv1

LEMMA CreateFastKeepsInv1 ==
  ASSUME Inv1, NEW threads \in ThreadCounts, NEW c \in Corners,
         NEW level \in Levels, CreateFast(threads, c, level)
  PROVE  Inv1'
<1>1. /\ InWorld(c) /\ level \in LegalLevels
      /\ Construct(threads, Mercator(c), level)
  BY DEF CreateFast, LegalLevels
<1>2. \E d \in Corners : InWorld(d) /\ Mercator(c) = Mercator(d)
  BY <1>1
<1> HIDE DEF Construct
<1> QED BY <1>1, <1>2, ConstructKeepsInv1

(* A setter that keeps the settings legal. *)
LEMMA SetterKeepsInv1 ==
  ASSUME Inv1, NEW legal, Setter(legal),
         tileSize' \in [w : Nat \ {0}, h : Nat \ {0}],
         coord' = Unset \/ \E c \in Corners : InWorld(c) /\ coord' = Mercator(c),
         scaleLevel' = -1 \/ scaleLevel' \in LegalLevels,
         threadNum' \in ThreadsInUse, threadNum > 0 => threadNum' > 0,
         scaleLevel > -1 => scaleLevel' > -1
  PROVE  Inv1'
<1>1. /\ stage = "idle" /\ stage' = stage
      /\ UNCHANGED <<grid, images, misuse, env, tileWorkList, poolVars>>
  BY DEF Setter, gridVars, tileVars, heapVars
<1>2. Tiled' <=> Tiled
  BY <1>1, ImagesStay
<1>3. Configured'
  BY <1>1, <1>2 DEF Inv1, Configured
<1>4. "out of range" \notin misuse'
  BY <1>1 DEF Inv1, StageFollows
<1> QED BY <1>1, <1>3, <1>4, QuietStep

LEMMA SettersKeepInv1 ==
  ASSUME Inv1,
         \/ \E c \in Corners : SetImageCoord(c)
         \/ \E level \in Levels : SetScaleLevel(level)
         \/ \E w, h \in TileSizes : SetTileSize(w, h)
         \/ \E n \in ThreadCounts : SetThreadNumber(n)
  PROVE  Inv1'
<1>1. /\ tileSize \in [w : Nat \ {0}, h : Nat \ {0}]
      /\ coord = Unset \/ \E c \in Corners : InWorld(c) /\ coord = Mercator(c)
      /\ scaleLevel = -1 \/ scaleLevel \in LegalLevels
      /\ stage = "idle" => threadNum \in ThreadsInUse
  BY DEF Inv1, Configured
<1>2. ASSUME NEW c \in Corners, SetImageCoord(c)
      PROVE  Inv1'
  <2>1. /\ Setter(InWorld(c) /\ c.x1 > c.x0 /\ c.y1 < c.y0)
        /\ coord' = coord \/ (InWorld(c) /\ coord' = Mercator(c))
        /\ UNCHANGED <<scaleLevel, tileSize, threadNum>>
    BY <1>2 DEF SetImageCoord
  <2>2. coord' = Unset \/ \E d \in Corners : InWorld(d) /\ coord' = Mercator(d)
    BY <1>1, <2>1
  <2>3. threadNum' \in ThreadsInUse
    BY <1>1, <2>1 DEF Setter
  <2> QED BY <1>1, <2>1, <2>2, <2>3, SetterKeepsInv1
<1>3. ASSUME NEW level \in Levels, SetScaleLevel(level)
      PROVE  Inv1'
  <2>1. /\ Setter(level >= 0 /\ level < MaxScaleLevel)
        /\ scaleLevel' = scaleLevel
           \/ (level >= 0 /\ level < MaxScaleLevel /\ scaleLevel' = level)
        /\ UNCHANGED <<coord, tileSize, threadNum>>
    BY <1>3 DEF SetScaleLevel
  <2>2. level \in Int /\ MaxScaleLevel \in Nat
    BY TileAssumption
  <2>3. scaleLevel' = scaleLevel \/ scaleLevel' \in LegalLevels
    BY <2>1, <2>2 DEF LegalLevels
  <2>4. scaleLevel > -1 => scaleLevel' > -1
    BY <2>1, <2>2
  <2>5. threadNum' \in ThreadsInUse
    BY <1>1, <2>1 DEF Setter
  <2> QED BY <1>1, <2>1, <2>3, <2>4, <2>5, SetterKeepsInv1
<1>4. ASSUME NEW w \in TileSizes, NEW h \in TileSizes, SetTileSize(w, h)
      PROVE  Inv1'
  <2>1. /\ Setter(LegalSize(w, h))
        /\ tileSize' = tileSize
           \/ (w > 0 /\ h > 0 /\ tileSize' = [w |-> w, h |-> h])
        /\ UNCHANGED <<coord, scaleLevel, threadNum>>
    BY <1>4 DEF SetTileSize, LegalSize
  <2>2. tileSize' \in [w : Nat \ {0}, h : Nat \ {0}]
    BY <1>1, <2>1, TileAssumption
  <2>3. threadNum' \in ThreadsInUse
    BY <1>1, <2>1 DEF Setter
  <2> QED BY <1>1, <2>1, <2>2, <2>3, SetterKeepsInv1
<1>5. ASSUME NEW n \in ThreadCounts, SetThreadNumber(n)
      PROVE  Inv1'
  <2>1. /\ Setter(n > 0)
        /\ threadNum' = threadNum \/ (n > 0 /\ threadNum' = n)
        /\ UNCHANGED <<coord, scaleLevel, tileSize>>
    BY <1>5 DEF SetThreadNumber
  <2>2. threadNum' \in ThreadsInUse
    BY <1>1, <2>1 DEF Setter, ThreadsInUse
  <2> QED BY <1>1, <2>1, <2>2, SetterKeepsInv1
<1> QED BY <1>2, <1>3, <1>4, <1>5

(* The end of an object.                                                    *)
LEMMA EndKeepsInv1 ==
  ASSUME Inv1, Destroy \/ RefusalAborts
  PROVE  Inv1'
<1>1. /\ stage = "idle" /\ stage' = "none" /\ images' = <<>> /\ coord' = Unset
      /\ scaleLevel' = -1 /\ tileSize' = [w |-> Base, h |-> Base]
      /\ threadNum' = 0 /\ grid' = Unset /\ tileWorkList' = <<>>
      /\ env' = [mayFail |-> {}, tilings |-> 0, saves |-> 0]
      /\ UNCHANGED poolVars
      /\ \/ misuse' = misuse \/ misuse' = misuse \union {"double unload"}
         \/ misuse' = {}
  BY DEF Destroy, RefusalAborts, ObjectEnds, Unload, NoImages
<1>2. ~Tiled'
  BY <1>1 DEF Tiled, NoImages
<1>3. LoopInv'
  BY <1>1, Inv1Loop DEF PoolStep
<1>4. ObjectTypes'
  <2>1. ~running /\ running' = running
    BY <1>1 DEF Inv1, ObjectTypes, poolVars, callVars
  <2>2. <<>> \in Seq([try : Nat, slot : Nat \X Nat, x : Nat, y : Nat])
    OBVIOUS
  <2>3. tileWorkList' \in Seq([try : Nat, slot : Nat \X Nat, x : Nat, y : Nat])
    BY <1>1, <2>2
  <2> QED BY <1>1, <1>2, <2>1, <2>3 DEF ObjectTypes
<1>5. Configured'
  <2>1. tileSize' \in [w : Nat \ {0}, h : Nat \ {0}]
    BY <1>1, GeometryAssumption
  <2>2. env' \in EnvironmentTypes
    BY <1>1 DEF EnvironmentTypes
  <2>3. grid' \in [x0 : Int, y0 : Int, x1 : Int, y1 : Int]
    BY <1>1, UnsetFacts
  <2> QED BY <2>1, <2>2, <2>3, <1>1 DEF Configured
<1>6. StageFollows'
  BY <1>1, <1>2 DEF Inv1, StageFollows
<1> QED BY <1>3, <1>4, <1>5, <1>6 DEF Inv1

-----------------------------------------------------------------------------
(* The look-ups: an index they compute lies inside the vector of the tiles. *)
LEMMA TiledFacts ==
  ASSUME Inv1, Tiled
  PROVE  /\ DOMAIN images = Slots /\ GridIsPlaced
         /\ Zoom \in Nat \ {0}
<1>1. /\ DOMAIN images = Slots /\ GridIsPlaced /\ scaleLevel > -1
      /\ scaleLevel = -1 \/ scaleLevel \in LegalLevels
  BY DEF Inv1, ObjectTypes, StageFollows, Configured
<1>2. scaleLevel \in 0 .. MaxScaleLevel
  BY <1>1 DEF LegalLevels
<1>3. 2 ^ scaleLevel \in Nat \ {0}
  BY <1>2, TileAssumption
<1> QED BY <1>1, <1>3 DEF Zoom

LEMMA ServedIsFirstRow ==
  ASSUME Inv1, NEW gx \in Int, NEW gy \in Int, Served(gx, gy)
  PROVE  /\ RowSlot(gx, gy) \in Slots /\ gy = grid.y0
         /\ RowSlot(gx, gy) = SlotOf(gx, gy)
<1>1. Tiled /\ GridIsPlaced
  BY TiledFacts DEF Served
<1>2. gy = grid.y0 /\ gy - grid.y0 = 0 /\ gx - grid.x0 \in 0 .. Columns - 1
  BY <1>1, GridFacts DEF Served, Columns
<1>3. Rows \in Nat \ {0}
  BY <1>1, GridFacts
<1> QED BY <1>2, <1>3 DEF RowSlot, SlotOf, Slots

LEMMA LookupKeepsInv1 ==
  ASSUME Inv1, NEW op, NEW asked, NEW found, NEW gx \in Int, NEW gy \in Int,
         Lookup(op, asked, found, gx, gy)
  PROVE  Inv1'
<1>1. /\ stage = "idle" /\ stage' = stage /\ configVars' = configVars
      /\ env' = env
      /\ UNCHANGED <<grid, images, tileWorkList, poolVars, scaleLevel>>
  BY DEF Lookup, gridVars, tileVars, configVars
<1>2. Configured'
  <2>1. Tiled' <=> Tiled
    BY <1>1, ImagesStay
  <2> QED BY <1>1, <2>1, ConfigStays DEF Inv1
<1>3. misuse' = misuse
  <2>1. CASE found /\ Served(gx, gy)
    <3>1. RowSlot(gx, gy) \in DOMAIN images
      BY <2>1, ServedIsFirstRow, TiledFacts DEF Served
    <3> QED BY <2>1, <3>1 DEF Lookup, Index
  <2>2. CASE ~(found /\ Served(gx, gy))
    BY <2>2 DEF Lookup
  <2> QED BY <2>1, <2>2
<1> QED BY <1>1, <1>2, <1>3, QuietStep DEF Inv1, StageFollows

LEMMA SaveKeepsInv1 ==
  ASSUME Inv1, NEW op, NEW asked, NEW found, NEW gx, NEW gy,
         Save(op, asked, found, gx, gy)
  PROVE  Inv1'
<1>1. /\ stage = "idle" /\ stage' = stage /\ configVars' = configVars
      /\ UNCHANGED <<grid, images, tileWorkList, poolVars, scaleLevel>>
      /\ env' = env \/ (env.saves > 0 /\ env' = [env EXCEPT !.saves = @ - 1])
      /\ Index(IF found /\ Saveable(gx, gy) THEN {SlotOf(gx, gy)} ELSE {})
  BY DEF Save, gridVars, tileVars, configVars
<1>2. env' \in EnvironmentTypes
  BY <1>1 DEF Inv1, Configured, EnvironmentTypes
<1>3. Configured'
  <2>1. Tiled' <=> Tiled
    BY <1>1, ImagesStay
  <2> QED BY <1>1, <1>2, <2>1 DEF Inv1, Configured, configVars
<1>4. misuse' = misuse
  BY <1>1, TiledFacts DEF Index, Saveable, InGrid
<1> QED BY <1>1, <1>3, <1>4, QuietStep DEF Inv1, StageFollows

(* A point that getGridCoord accepts has a cell.                            *)
LEMMA FoundCell ==
  ASSUME Inv1, NEW p \in Points, Findable(p)
  PROVE  GridX(p.x) \in Int /\ GridY(p.y) \in Int
<1>1. p.x \in Nat /\ p.y \in Nat
  BY TileAssumption DEF Findable, LegalMc
<1> QED BY <1>1, TiledFacts, PixelIsNat DEF Findable, GridX, GridY

LEMMA GetTileAtKeepsInv1 ==
  ASSUME Inv1, NEW p \in Points, NEW op, NEW asked, GetTileAt(op, asked, p)
  PROVE  Inv1'
<1>1. CASE Findable(p)
  <2>1. Lookup(op, asked, TRUE, GridX(p.x), GridY(p.y))
    BY <1>1 DEF GetTileAt
  <2> QED BY <1>1, <2>1, FoundCell, LookupKeepsInv1
<1>2. CASE ~Findable(p)
  <2>1. Lookup(op, asked, FALSE, 0, 0)
    BY <1>2 DEF GetTileAt
  <2>2. 0 \in Int
    OBVIOUS
  <2> QED BY <2>1, <2>2, LookupKeepsInv1
<1> QED BY <1>1, <1>2

LEMMA SaveTileAtKeepsInv1 ==
  ASSUME Inv1, NEW p \in Points, NEW op, NEW asked, SaveTileAt(op, asked, p)
  PROVE  Inv1'
<1>1. CASE Findable(p)
  <2>1. Save(op, asked, TRUE, GridX(p.x), GridY(p.y))
    BY <1>1 DEF SaveTileAt
  <2> QED BY <2>1, SaveKeepsInv1
<1>2. CASE ~Findable(p)
  <2>1. Save(op, asked, FALSE, 0, 0)
    BY <1>2 DEF SaveTileAt
  <2> QED BY <2>1, SaveKeepsInv1
<1> QED BY <1>1, <1>2

(* The cells a client asks for. *)
LEMMA WindowIsInt ==
  ASSUME NEW gx \in WindowX, NEW gy \in WindowY
  PROVE  gx \in Int /\ gy \in Int
BY DEF WindowX, WindowY

-----------------------------------------------------------------------------
(* The steps of tiling up to the cut.                                       *)
LEMMA TilingKeepsInv1 ==
  ASSUME Inv1, Tiling
  PROVE  Inv1'
<1>1. /\ stage = "idle" /\ stage' = "open" /\ ~Tiled /\ coord.x0 > -1
      /\ scaleLevel > -1 /\ env.tilings > 0
      /\ env' = [env EXCEPT !.tilings = @ - 1]
      /\ UNCHANGED <<configVars, grid, images, tileWorkList, misuse, poolVars>>
  BY DEF Tiling, CanTile, NotYetTiled, gridVars, tileVars, heapVars
<1>2. env' \in EnvironmentTypes
  BY <1>1 DEF Inv1, Configured, EnvironmentTypes
<1>3. Tiled' <=> Tiled
  BY <1>1, ImagesStay
<1>4. Configured'
  BY <1>1, <1>2, <1>3 DEF Inv1, Configured, configVars
<1>5. LoopInv'
  BY <1>1, Inv1Loop DEF PoolStep
<1>6. ObjectTypes'
  BY <1>1, <1>3 DEF Inv1, ObjectTypes, poolVars, callVars
<1>7. StageFollows'
  BY <1>1, <1>3 DEF Inv1, StageFollows, configVars
<1> QED BY <1>4, <1>5, <1>6, <1>7 DEF Inv1

(* A step that fails returns to the caller with nothing cut.                *)
LEMMA AbandonKeepsInv1 ==
  ASSUME Inv1, Abandon, stage \in {"scale", "fill"},
         UNCHANGED <<configVars, images, tileWorkList, env, poolVars>>,
         grid' \in [x0 : Int, y0 : Int, x1 : Int, y1 : Int]
  PROVE  Inv1'
<1>1. /\ stage' = "idle" /\ ~Tiled
      /\ misuse' = misuse \/ misuse' = misuse \union {"double unload"}
  BY DEF Abandon, Unload, Inv1, StageFollows
<1>2. Tiled' <=> Tiled
  BY ImagesStay
<1>3. Configured'
  BY <1>1, <1>2 DEF Inv1, Configured, configVars
<1>4. LoopInv'
  BY Inv1Loop DEF PoolStep
<1>5. ObjectTypes'
  BY <1>1, <1>2 DEF Inv1, ObjectTypes, poolVars, callVars
<1>6. StageFollows'
  BY <1>1, <1>2 DEF Inv1, StageFollows
<1> QED BY <1>3, <1>4, <1>5, <1>6 DEF Inv1

(* A step of tiling that goes on to the next.                               *)
LEMMA AdvanceKeepsInv1 ==
  ASSUME Inv1, stage \in {"open", "scale", "fill"},
         stage' \in {"scale", "fill", "cut"},
         UNCHANGED <<configVars, images, tileWorkList, misuse, env, poolVars>>,
         grid' \in [x0 : Int, y0 : Int, x1 : Int, y1 : Int],
         stage' \in {"fill", "cut"} => GridIsPlaced'
  PROVE  Inv1'
<1>1. ~Tiled /\ (Tiled' <=> Tiled) /\ coord.x0 > -1 /\ scaleLevel > -1
  BY ImagesStay DEF Inv1, StageFollows
<1>2. Configured'
  BY <1>1 DEF Inv1, Configured, configVars
<1>3. LoopInv'
  BY Inv1Loop DEF PoolStep
<1>4. ObjectTypes'
  BY <1>1 DEF Inv1, ObjectTypes, poolVars, callVars
<1>5. StageFollows'
  BY <1>1 DEF Inv1, StageFollows, configVars
<1> QED BY <1>2, <1>3, <1>4, <1>5 DEF Inv1

LEMMA OpenSrcImageKeepsInv1 ==
  ASSUME Inv1, OpenSrcImage
  PROVE  Inv1'
<1>1. /\ stage = "open" /\ stage' \in {"scale", "idle"}
      /\ configVars' = configVars /\ env' = env
      /\ UNCHANGED <<configVars, grid, images, tileWorkList, misuse, env, poolVars>>
  BY DEF OpenSrcImage, gridVars
<1>2. /\ ~Tiled /\ (Tiled' <=> Tiled)
      /\ grid' \in [x0 : Int, y0 : Int, x1 : Int, y1 : Int]
  BY <1>1, ImagesStay DEF Inv1, StageFollows, Configured
<1>3. CASE stage' = "scale"
  BY <1>1, <1>2, <1>3, AdvanceKeepsInv1
<1>4. CASE stage' = "idle"
  <2>1. Configured'
    BY <1>1, <1>2 DEF Inv1, Configured, configVars
  <2>2. LoopInv'
    BY <1>1, Inv1Loop DEF PoolStep
  <2>3. ObjectTypes'
    BY <1>1, <1>2, <1>4 DEF Inv1, ObjectTypes, poolVars, callVars
  <2>4. StageFollows'
    BY <1>1, <1>2, <1>4 DEF Inv1, StageFollows
  <2> QED BY <2>1, <2>2, <2>3, <2>4 DEF Inv1
<1> QED BY <1>1, <1>3, <1>4

(* Two fields of a grid are replaced. *)
LEMMA FirstReplaced ==
  ASSUME NEW g \in [x0 : Int, y0 : Int, x1 : Int, y1 : Int],
         NEW a \in Int, NEW b \in Int, NEW h, h = [g EXCEPT !.x0 = a, !.y0 = b]
  PROVE  /\ h \in [x0 : Int, y0 : Int, x1 : Int, y1 : Int]
         /\ h.x0 = a /\ h.y0 = b /\ h.x1 = g.x1 /\ h.y1 = g.y1
  OBVIOUS

LEMMA SecondReplaced ==
  ASSUME NEW g \in [x0 : Int, y0 : Int, x1 : Int, y1 : Int],
         NEW a \in Int, NEW b \in Int, NEW h, h = [g EXCEPT !.x1 = a, !.y1 = b]
  PROVE  /\ h \in [x0 : Int, y0 : Int, x1 : Int, y1 : Int]
         /\ h.x1 = a /\ h.y1 = b /\ h.x0 = g.x0 /\ h.y0 = g.y0
  OBVIOUS

LEMMA NatGrid ==
  ASSUME NEW g \in [x0 : Int, y0 : Int, x1 : Int, y1 : Int],
         g.x0 \in Nat, g.y0 \in Nat, g.x1 \in Nat, g.y1 \in Nat
  PROVE  g \in [x0 : Nat, y0 : Nat, x1 : Nat, y1 : Nat]
  OBVIOUS

(* scaleSrcImage works with coordinates of the map and a zoom.              *)
LEMMA ScaleArguments ==
  ASSUME Inv1, stage = "scale"
  PROVE  /\ \E c \in Corners : InWorld(c) /\ coord = Mercator(c)
         /\ scaleLevel \in LegalLevels /\ Zoom \in Nat \ {0}
         /\ coord.x0 \in Int /\ coord.y0 \in Int /\ coord.x1 \in Int
         /\ coord.y1 \in Int
         /\ FirstLegal => coord.x0 \in Nat /\ coord.y0 \in Nat
         /\ SecondLegal => coord.x1 \in Nat /\ coord.y1 \in Nat
<1>1. PICK c \in Corners : InWorld(c) /\ coord = Mercator(c)
  <2>1. coord.x0 > -1
    BY DEF Inv1, StageFollows
  <2> QED BY <2>1, UnsetFacts DEF Inv1, Configured
<1>2. scaleLevel \in LegalLevels /\ Zoom \in Nat \ {0}
  <2>1. scaleLevel > -1
    BY DEF Inv1, StageFollows
  <2>2. scaleLevel = -1 \/ scaleLevel \in LegalLevels
    BY DEF Inv1, Configured
  <2>3. scaleLevel \in LegalLevels
    BY <2>1, <2>2
  <2> QED BY <2>3, TileAssumption DEF LegalLevels, Zoom
<1>3. /\ coord.x0 \in Int /\ coord.y0 \in Int /\ coord.x1 \in Int
      /\ coord.y1 \in Int
  BY <1>1, TileAssumption DEF InWorld, Mercator
<1>4. /\ FirstLegal => coord.x0 \in Nat /\ coord.y0 \in Nat
      /\ SecondLegal => coord.x1 \in Nat /\ coord.y1 \in Nat
  BY <1>3 DEF FirstLegal, SecondLegal, LegalMc
<1> QED BY <1>1, <1>2, <1>3, <1>4

(* What scaleSrcImage makes of the corners, if getGridCoord accepts them.   *)
LEMMA LocatedFacts ==
  ASSUME Inv1, stage = "scale"
  PROVE  /\ Located \in [x0 : Int, y0 : Int, x1 : Int, y1 : Int]
         /\ FirstLegal /\ SecondLegal =>
              /\ Located.x0 = GridX(coord.x0) /\ Located.y0 = GridY(coord.y0)
              /\ Located \in [x0 : Nat, y0 : Nat, x1 : Nat, y1 : Nat]
              /\ Ordered(Located)
                   /\ ToPixel(Zoom, coord.x1) # ToPixel(Zoom, coord.x0)
                   /\ ToPixel(Zoom, coord.y1) # ToPixel(Zoom, coord.y0)
                   => CellCount(Located) \in CutTotals
<1>1. PICK c \in Corners : InWorld(c) /\ coord = Mercator(c)
  BY ScaleArguments
<1>2. scaleLevel \in LegalLevels /\ Zoom \in Nat \ {0}
  BY ScaleArguments
<1>3. /\ FirstLegal => coord.x0 \in Nat /\ coord.y0 \in Nat
      /\ SecondLegal => coord.x1 \in Nat /\ coord.y1 \in Nat
  BY ScaleArguments
<1> DEFINE a == GridX(coord.x0)
           b == GridY(coord.y0)
           u == GridX(coord.x1)
           v == GridY(coord.y1)
           first == [grid EXCEPT !.x0 = a, !.y0 = b]
           both  == [first EXCEPT !.x1 = u, !.y1 = v]
<1>4. /\ FirstLegal => a \in Nat /\ b \in Nat
      /\ SecondLegal => u \in Nat /\ v \in Nat
  BY <1>2, <1>3, PixelIsNat DEF GridX, GridY
<1>5. Located = IF ~FirstLegal THEN grid ELSE IF ~SecondLegal THEN first ELSE both
  BY DEF Located
<1> HIDE DEF a, b, u, v
<1>6. grid \in [x0 : Int, y0 : Int, x1 : Int, y1 : Int]
  BY DEF Inv1, Configured
<1>7. first = [grid EXCEPT !.x0 = a, !.y0 = b]
  OBVIOUS
<1>8. both = [first EXCEPT !.x1 = u, !.y1 = v]
  OBVIOUS
<1> HIDE DEF first, both
<1>9. ASSUME FirstLegal
       PROVE  /\ first \in [x0 : Int, y0 : Int, x1 : Int, y1 : Int]
              /\ first.x0 = a /\ first.y0 = b
  <2>1. a \in Int /\ b \in Int
    BY <1>4, <1>9
  <2> QED BY <1>6, <1>7, <2>1, FirstReplaced
<1>10. ASSUME FirstLegal, SecondLegal
       PROVE  /\ both \in [x0 : Int, y0 : Int, x1 : Int, y1 : Int]
              /\ both.x0 = a /\ both.y0 = b /\ both.x1 = u /\ both.y1 = v
  <2>1. u \in Int /\ v \in Int
    BY <1>4, <1>10
  <2> QED BY <1>8, <1>9, <1>10, <2>1, SecondReplaced
<1>11. Located \in [x0 : Int, y0 : Int, x1 : Int, y1 : Int]
  BY <1>5, <1>6, <1>9, <1>10
<1>12. ASSUME FirstLegal, SecondLegal
       PROVE  /\ Located.x0 = a /\ Located.y0 = b
              /\ Located.x1 = u /\ Located.y1 = v
              /\ Located \in [x0 : Nat, y0 : Nat, x1 : Nat, y1 : Nat]
  <2>1. Located = both
    BY <1>5, <1>12
  <2> QED BY <1>4, <1>10, <1>12, <2>1, NatGrid
<1>13. ASSUME FirstLegal, SecondLegal, Ordered(Located),
              ToPixel(Zoom, coord.x1) # ToPixel(Zoom, coord.x0),
              ToPixel(Zoom, coord.y1) # ToPixel(Zoom, coord.y0)
       PROVE  CellCount(Located) \in CutTotals
  <2> DEFINE g == GridAt(2 ^ scaleLevel, Mercator(c))
             p == <<c, scaleLevel>>
  <2>1. g.x0 = a /\ g.y0 = b /\ g.x1 = u /\ g.y1 = v
    BY <1>1 DEF GridAt, GridX, GridY, Zoom, a, b, u, v
  <2>2. Ordered(g) /\ CellCount(Located) = CellCount(g)
    BY <1>12, <1>13, <2>1 DEF Ordered, CellCount
  <2>3. Placeable(c, scaleLevel)
    BY <1>1, <1>13, <2>2 DEF Placeable, FirstLegal, SecondLegal, Zoom
  <2>4. p \in {q \in Corners \X LegalLevels : Placeable(q[1], q[2])}
    BY <1>2, <2>3
  <2>5. CellCount(Located) = CellCount(GridAt(2 ^ p[2], Mercator(p[1])))
    BY <2>2
  <2> HIDE DEF p
  <2> QED BY <2>4, <2>5 DEF CutTotals
<1> QED BY <1>11, <1>12, <1>13 DEF a, b

LEMMA LocateFailsKeepsInv1 ==
  ASSUME Inv1, LocateFails
  PROVE  Inv1'
<1>1. /\ stage = "scale" /\ grid' = Located /\ Abandon
      /\ UNCHANGED <<configVars, images, tileWorkList, env, poolVars>>
  BY DEF LocateFails
<1> QED BY <1>1, LocatedFacts, AbandonKeepsInv1

LEMMA ScaleSrcImageKeepsInv1 ==
  ASSUME Inv1, ScaleSrcImage
  PROVE  Inv1'
<1>1. /\ stage = "scale" /\ FirstLegal /\ SecondLegal /\ Ordered(Located)
      /\ grid' = Located
      /\ UNCHANGED <<configVars, images, tileWorkList, env, poolVars>>
      /\ pixel' = [x0 |-> ToPixel(Zoom, coord.x0), y0 |-> ToPixel(Zoom, coord.y0),
                   x1 |-> ToPixel(Zoom, coord.x1), y1 |-> ToPixel(Zoom, coord.y1)]
  BY DEF ScaleSrcImage
<1>2. \/ Abandon
      \/ /\ stage' = "fill" /\ misuse' = misuse
         /\ pixel'.x1 # pixel'.x0 /\ pixel'.y0 # pixel'.y1
  BY DEF ScaleSrcImage, Exchange
<1>3. grid' \in [x0 : Int, y0 : Int, x1 : Int, y1 : Int]
  BY <1>1, LocatedFacts
<1>4. CASE Abandon
  BY <1>1, <1>3, <1>4, AbandonKeepsInv1
<1>5. CASE /\ stage' = "fill" /\ misuse' = misuse
           /\ pixel'.x1 # pixel'.x0 /\ pixel'.y0 # pixel'.y1
  <2>1. /\ ToPixel(Zoom, coord.x1) # ToPixel(Zoom, coord.x0)
        /\ ToPixel(Zoom, coord.y1) # ToPixel(Zoom, coord.y0)
    BY <1>1, <1>5
  <2>2. /\ grid' \in [x0 : Nat, y0 : Nat, x1 : Nat, y1 : Nat]
        /\ Ordered(grid') /\ CellCount(grid') \in CutTotals
    BY <1>1, <2>1, LocatedFacts
  <2>3. Total' = CellCount(grid')
    BY DEF Total, Columns, Rows, CellCount
  <2>4. GridIsPlaced'
    BY <2>2, <2>3 DEF GridIsPlaced, Ordered
  <2> QED BY <1>1, <1>3, <1>5, <2>4, AdvanceKeepsInv1
<1> QED BY <1>2, <1>4, <1>5

LEMMA FillSrcImageKeepsInv1 ==
  ASSUME Inv1, FillSrcImage
  PROVE  Inv1'
<1>1. /\ stage = "fill" /\ grid' = grid
      /\ UNCHANGED <<configVars, images, tileWorkList, env, poolVars>>
      /\ Abandon \/ (stage' = "cut" /\ misuse' = misuse)
  BY DEF FillSrcImage, Exchange, gridVars
<1>2. /\ grid' \in [x0 : Int, y0 : Int, x1 : Int, y1 : Int]
      /\ GridIsPlaced'
  BY <1>1, GridStays DEF Inv1, Configured, StageFollows
<1> QED BY <1>1, <1>2, AbandonKeepsInv1, AdvanceKeepsInv1

-----------------------------------------------------------------------------
(* The cut. *)
TileWorkTypes == [try : Nat, slot : Nat \X Nat, x : Nat, y : Nat]

LEMMA NewTileWorkType ==
  ASSUME Inv1, GridIsPlaced
  PROVE  NewTileWork \in [1 .. Total -> TileWorkTypes]
<1>1. SUFFICES ASSUME NEW i \in 1 .. Total
               PROVE  [try |-> env.tilings, slot |-> SlotNo(i - 1),
                       x |-> SlotNo(i - 1)[2] * tileSize.w,
                       y |-> SlotNo(i - 1)[1] * tileSize.h] \in TileWorkTypes
  BY DEF NewTileWork
<1>2. i - 1 \in 0 .. Total - 1
  BY GridFacts
<1> DEFINE s == SlotNo(i - 1)
<1>3. s \in Slots /\ s[1] \in 0 .. Rows - 1 /\ s[2] \in 0 .. Columns - 1
  BY <1>2, SlotNoIsSlot
<1> HIDE DEF s
<1>4. s[1] \in Nat /\ s[2] \in Nat /\ s \in Nat \X Nat
  BY <1>3 DEF Slots
<1>5. tileSize.w \in Nat /\ tileSize.h \in Nat /\ env.tilings \in Nat
  BY DEF Inv1, Configured, EnvironmentTypes
<1>6. s[2] * tileSize.w \in Nat /\ s[1] * tileSize.h \in Nat
  BY <1>4, <1>5, ProductGrowsToo
<1>7. [try |-> env.tilings, slot |-> s, x |-> s[2] * tileSize.w,
       y |-> s[1] * tileSize.h] \in TileWorkTypes
  BY <1>4, <1>5, <1>6 DEF TileWorkTypes
<1> QED BY <1>7 DEF s

(* Appending to a work list. *)
LEMMA WorkAppended ==
  ASSUME NEW S, NEW n \in Nat, NEW old \in Seq(S), NEW new \in [1 .. n -> S]
  PROVE  /\ old \o new \in Seq(S) /\ Len(old \o new) = Len(old) + n
         /\ \A i \in 1 .. Len(old) : (old \o new)[i] = old[i]
         /\ \A i \in 1 .. n : (old \o new)[Len(old) + i] = new[i]
<1>1. new \in Seq(S) /\ Len(new) = n
  OBVIOUS
<1>2. old \o new \in Seq(S) /\ Len(old \o new) = Len(old) + n
  BY <1>1
<1>3. \A i \in 1 .. Len(old) : (old \o new)[i] = old[i]
  BY <1>1
<1>4. \A i \in 1 .. n : (old \o new)[Len(old) + i] = new[i]
  BY <1>1
<1> QED BY <1>2, <1>3, <1>4

LEMMA CutSrcImageKeepsInv1 ==
  ASSUME Inv1, CutSrcImage
  PROVE  Inv1' /\ GridIsPlaced
<1>1. /\ stage = "cut" /\ stage' = "cutting" /\ images' = [s \in Slots |-> Null]
      /\ tileWorkList' = tileWorkList \o NewTileWork
      /\ threadNum' = CutThreads(Total, threadNum)
      /\ Begin(CutJob(Total, threadNum))
      /\ UNCHANGED <<coord, scaleLevel, tileSize, grid, misuse, env>>
  BY DEF CutSrcImage, gridVars, heapVars
<1>2. GridIsPlaced /\ ~Tiled /\ scaleLevel > -1 /\ Total \in CutTotals
  BY <1>1 DEF Inv1, StageFollows, GridIsPlaced
<1>3. threadNum \in ThreadsInUse /\ threadNum > 0
  BY <1>1, <1>2 DEF Inv1, Configured
<1>4. CutJob(Total, threadNum) \in Jobs
  BY <1>2, <1>3, JobsAreEnough
<1>5. LoopInv'
  BY <1>1, <1>4, Inv1Loop DEF PoolStep, PoolNext
<1>6. /\ job' = CutJob(Total, threadNum) /\ job'.total = Total
      /\ job'.threads = CutThreads(Total, threadNum)
  BY <1>1 DEF Begin, NewCall, CutJob
<1>7. threadNum' \in ThreadsInUse
  <2>1. CASE TooManyThreads(Total, threadNum)
    BY <2>1, <1>1, <1>2 DEF CutThreads, ThreadsInUse
  <2>2. CASE ~TooManyThreads(Total, threadNum)
    BY <2>2, <1>1, <1>3 DEF CutThreads
  <2> QED BY <2>1, <2>2
<1>8. /\ Rows' = Rows /\ Columns' = Columns /\ Total' = Total
      /\ Slots' = Slots /\ (GridIsPlaced' <=> GridIsPlaced)
  BY <1>1, GridStays
<1>9. DOMAIN images' = Slots /\ Tiled'
  <2>1. DOMAIN images' = Slots /\ Slots # {}
    BY <1>1, <1>2, GridFacts
  <2> QED BY <2>1, NoImagesIsEmpty DEF Tiled
<1>10. Configured'
  BY <1>1, <1>7, <1>9 DEF Inv1, Configured
<1>11. ObjectTypes'
  <2>1. Total \in Nat /\ tileWorkList \in Seq(TileWorkTypes)
    BY <1>2, GridFacts DEF Inv1, ObjectTypes, TileWorkTypes
  <2>2. tileWorkList' \in Seq(TileWorkTypes)
    BY <1>1, <1>2, <2>1, NewTileWorkType, WorkAppended
  <2> QED BY <1>1, <1>8, <1>9, <2>2 DEF ObjectTypes, TileWorkTypes
<1>12. StageFollows'
  BY <1>1, <1>2, <1>6, <1>8, <1>9 DEF Inv1, StageFollows
<1> QED BY <1>2, <1>5, <1>10, <1>11, <1>12 DEF Inv1

(* A step inside a parallel call touches the call, a slot or a file.        *)
LEMMA InCallKeepsInv1 ==
  ASSUME Inv1, PoolStep, job' = job, stage \in {"cutting", "saving"},
         UNCHANGED <<stage, configVars, grid, tileWorkList, env>>,
         DOMAIN images' = DOMAIN images,
         "out of range" \notin misuse'
  PROVE  Inv1'
<1>1. Tiled /\ GridIsPlaced /\ DOMAIN images = Slots
  <2>1. Tiled
    BY DEF Inv1, StageFollows
  <2> QED BY <2>1, TiledFacts
<1>2. Slots # {}
  BY <1>1, GridFacts
<1>3. Tiled'
  BY <1>1, <1>2, NoImagesIsEmpty DEF Tiled
<1>4. Slots' = Slots /\ Total' = Total /\ GridIsPlaced'
  BY <1>1, GridStays
<1>5. LoopInv'
  BY Inv1Loop
<1>6. Configured'
  BY <1>1, <1>3 DEF Inv1, Configured, configVars
<1>7. ObjectTypes'
  BY <1>1, <1>4 DEF Inv1, ObjectTypes
<1>8. StageFollows'
  BY <1>1, <1>3, <1>4 DEF Inv1, StageFollows, configVars
<1> QED BY <1>5, <1>6, <1>7, <1>8 DEF Inv1

(* Another misuse is not this one. *)
LEMMA MisuseGrows ==
  ASSUME NEW S, NEW what \in {"stale write", "double unload"},
         "out of range" \notin S
  PROVE  "out of range" \notin S \union {what}
  OBVIOUS

(* Storing a tile writes one slot of the vector, or is a stale write.       *)
LEMMA StoreKeepsSlots ==
  ASSUME NEW work, NEW bitmap, StoreTile(work, bitmap),
         "out of range" \notin misuse
  PROVE  DOMAIN images' = DOMAIN images /\ "out of range" \notin misuse'
<1>1. CASE work.try = env.tilings
  <2>1. images' = [images EXCEPT ![work.slot] = bitmap] /\ misuse' = misuse
    BY <1>1 DEF StoreTile
  <2>2. DOMAIN [images EXCEPT ![work.slot] = bitmap] = DOMAIN images
    OBVIOUS
  <2> QED BY <2>1, <2>2
<1>2. CASE work.try # env.tilings
  BY <1>2, MisuseGrows DEF StoreTile
<1> QED BY <1>1, <1>2

LEMMA WorkKeepsInv1 ==
  ASSUME Inv1, NEW t, Work(t)
  PROVE  Inv1' /\ WorkerStep(t) /\ PoolStep
<1>1. PoolTypeOK /\ PoolInv /\ "out of range" \notin misuse
  BY DEF Inv1, LoopInv, StageFollows
<1>2. ASSUME WorkerStep(t)
      PROVE  PoolStep /\ job' = job /\ running
  BY <1>1, <1>2, WorkerStepIsPoolStep, WorkerStepsInCall DEF callVars
<1>3. CASE CutTile(t)
  <2>1. /\ WorkerStep(t) /\ stage = "cutting"
        /\ StoreTile(TileWork(t), CutOut(TileWork(t)))
        /\ UNCHANGED <<stage, configVars, grid, tileWorkList, env>>
    BY <1>3 DEF CutTile, WorkerStep, gridVars
  <2> QED BY <1>1, <1>2, <2>1, StoreKeepsSlots, InCallKeepsInv1
<1>4. CASE CutTileFails(t)
  <2>1. /\ WorkerStep(t) /\ stage = "cutting" /\ StoreTile(TileWork(t), Null)
        /\ UNCHANGED <<stage, configVars, grid, tileWorkList, env>>
    BY <1>4 DEF CutTileFails, WorkerStep, gridVars
  <2> QED BY <1>1, <1>2, <2>1, StoreKeepsSlots, InCallKeepsInv1
<1>5. CASE SaveItem(t)
  <2>1. /\ WorkerStep(t) /\ stage = "saving"
        /\ UNCHANGED <<stage, configVars, grid, tileWorkList, env, images, misuse>>
    BY <1>5 DEF SaveItem, WorkerStep, gridVars, tileVars, heapVars
  <2> QED BY <1>1, <1>2, <2>1, InCallKeepsInv1
<1>6. CASE SaveItemFails(t)
  <2>1. /\ WorkerStep(t) /\ stage = "saving"
        /\ UNCHANGED <<stage, configVars, grid, tileWorkList, env, images, misuse>>
    BY <1>6 DEF SaveItemFails, WorkerStep, objVars, gridVars, tileVars, heapVars
  <2> QED BY <1>1, <1>2, <2>1, InCallKeepsInv1
<1>7. CASE OtherStep(t)
  <2>1. /\ WorkerStep(t)
        /\ UNCHANGED <<stage, configVars, grid, tileWorkList, env, images, misuse>>
    BY <1>7 DEF OtherStep, WorkerStep, objVars, gridVars, tileVars, heapVars
  <2>2. stage \in {"cutting", "saving"}
    BY <1>2, <2>1 DEF Inv1, ObjectTypes
  <2> QED BY <1>1, <1>2, <2>1, <2>2, InCallKeepsInv1
<1> QED BY <1>3, <1>4, <1>5, <1>6, <1>7 DEF Work

(* The calling thread of a parallel call.                                   *)
LEMMA CallStepsKeepInv1 ==
  ASSUME Inv1, CallSteps
  PROVE  Inv1'
<1>1. /\ CallerStep
      /\ UNCHANGED <<stage, configVars, grid, tileWorkList, env, images, misuse>>
  BY DEF CallSteps, objVars, gridVars, tileVars, heapVars
<1>2. running /\ job' = job
  BY <1>1 DEF CallerStep, Spawn, Join, Return
<1>3. PoolStep
  BY <1>1 DEF PoolStep, PoolNext
<1>4. stage \in {"cutting", "saving"} /\ "out of range" \notin misuse
  BY <1>2 DEF Inv1, ObjectTypes, StageFollows
<1> QED BY <1>1, <1>2, <1>3, <1>4, InCallKeepsInv1

(* A call that returns leaves an object that can be called again: tiling    *)
(* that failed had a thread that failed.                                    *)
LEMMA TilingReturnsKeepsInv1 ==
  ASSUME Inv1, TilingReturns
  PROVE  Inv1'
<1>1. /\ stage = "cutting" /\ ~running /\ stage' = "idle" /\ LeavePool
      /\ UNCHANGED <<configVars, grid, tileWorkList, env>>
      /\ IF outcome = "ok" THEN Unload({srcImage}) /\ UNCHANGED images
                           ELSE Unload({srcImage} \union Tiles)
                                /\ images' = NoImages
  BY DEF TilingReturns, ImagesAfterFailure, gridVars
<1>2. PoolStep /\ LoopInv'
  BY <1>1, Inv1Loop DEF PoolStep
<1>3. /\ Tiled /\ GridIsPlaced /\ Zoom \in Nat \ {0} /\ job.total = Total
      /\ job.threads = threadNum /\ "out of range" \notin misuse
  BY <1>1, TiledFacts DEF Inv1, StageFollows
<1>4. GridIsPlaced' /\ Slots' = Slots /\ running' = running
  BY <1>1, <1>3, GridStays DEF LeavePool
<1>5. "out of range" \notin misuse'
  <2>1. misuse' = misuse \/ misuse' = misuse \union {"double unload"}
    BY <1>1 DEF Unload
  <2>2. "out of range" \notin misuse
    BY <1>3
  <2> QED BY <2>1, <2>2, MisuseGrows
<1>6. scaleLevel > -1
  BY <1>3 DEF Inv1, StageFollows
<1>7. CASE outcome = "ok"
  <2>1. images' = images /\ (Tiled' <=> Tiled)
    BY <1>1, <1>7, ImagesStay
  <2>2. Configured'
    BY <1>1, <1>3, <2>1 DEF Inv1, Configured, configVars
  <2>3. ObjectTypes'
    BY <1>1, <1>4, <2>1 DEF Inv1, ObjectTypes
  <2>4. StageFollows'
    BY <1>1, <1>3, <1>4, <1>5, <1>6, <2>1 DEF StageFollows, configVars
  <2> QED BY <1>2, <2>2, <2>3, <2>4 DEF Inv1
<1>8. CASE outcome # "ok"
  <2>1. ~Tiled'
    BY <1>1, <1>8 DEF Tiled
  <2>2. outcome = "error"
    <3>1. outcome \in {"none", "ok", "error"} /\ (outcome = "none" => job = NoJob)
      BY <1>1 DEF Inv1, LoopInv, PoolTypeOK, OutcomeFollows
    <3>2. job # NoJob
      <4>1. NoJob.total = 0 /\ job.total # 0
        BY <1>3, GridFacts DEF NoJob
      <4> QED BY <4>1
    <3> QED BY <1>8, <3>1, <3>2
  <2>3. threadNum > 0
    BY <1>1, <1>3, <2>2, ErrorMeansFailure DEF Inv1, LoopInv
  <2>4. Configured'
    BY <1>1, <2>1, <2>3 DEF Inv1, Configured, configVars
  <2>5. ObjectTypes'
    BY <1>1, <1>4, <2>1 DEF Inv1, ObjectTypes
  <2>6. StageFollows'
    BY <1>1, <1>5, <2>1 DEF StageFollows
  <2> QED BY <1>2, <2>4, <2>5, <2>6 DEF Inv1
<1> QED BY <1>7, <1>8

LEMMA SaveAllTilesKeepsInv1 ==
  ASSUME Inv1, SaveAllTiles
  PROVE  Inv1'
<1>1. /\ stage = "idle" /\ stage' = "saving" /\ Tiled /\ env.saves > 0
      /\ env' = [env EXCEPT !.saves = @ - 1]
      /\ Index(Slots) /\ Begin(SaveJob(Total, threadNum))
      /\ UNCHANGED <<configVars, grid, images, tileWorkList>>
  BY DEF SaveAllTiles, gridVars, tileVars
<1>2. /\ DOMAIN images = Slots /\ GridIsPlaced /\ Total \in CutTotals
      /\ scaleLevel > -1 /\ "out of range" \notin misuse
  BY <1>1, TiledFacts DEF Inv1, StageFollows, GridIsPlaced
<1>3. misuse' = misuse
  BY <1>1, <1>2 DEF Index
<1>4. threadNum \in ThreadsInUse
  BY <1>1 DEF Inv1, Configured, StageFollows
<1>5. SaveJob(Total, threadNum) \in Jobs
  BY <1>2, <1>4, JobsAreEnough
<1>6. LoopInv'
  BY <1>1, <1>5, Inv1Loop DEF PoolStep, PoolNext
<1>7. job'.total = Total /\ job'.threads = threadNum
  BY <1>1 DEF Begin, NewCall, SaveJob
<1>8. /\ Tiled' /\ Slots' = Slots /\ Total' = Total /\ GridIsPlaced'
  BY <1>1, <1>2, ImagesStay, GridStays
<1>9. env' \in EnvironmentTypes
  BY <1>1 DEF Inv1, Configured, EnvironmentTypes
<1>10. Configured'
  BY <1>1, <1>8, <1>9 DEF Inv1, Configured, configVars
<1>11. ObjectTypes'
  BY <1>1, <1>8 DEF Inv1, ObjectTypes
<1>12. StageFollows'
  BY <1>1, <1>2, <1>3, <1>7, <1>8 DEF StageFollows, configVars
<1> QED BY <1>6, <1>10, <1>11, <1>12 DEF Inv1

LEMMA SaveAllReturnsKeepsInv1 ==
  ASSUME Inv1, SaveAllReturns
  PROVE  Inv1'
<1>1. /\ stage = "saving" /\ ~running /\ stage' = "idle" /\ LeavePool
      /\ UNCHANGED <<configVars, grid, images, misuse, tileWorkList, env>>
  BY DEF SaveAllReturns, gridVars, tileVars, heapVars
<1>2. LoopInv'
  BY <1>1, Inv1Loop DEF PoolStep
<1>3. Tiled /\ GridIsPlaced /\ scaleLevel > -1 /\ "out of range" \notin misuse
  BY <1>1 DEF Inv1, StageFollows
<1>4. (Tiled' <=> Tiled) /\ Slots' = Slots /\ GridIsPlaced' /\ running' = running
  BY <1>1, <1>3, ImagesStay, GridStays DEF LeavePool
<1>5. Configured'
  BY <1>1, <1>3, <1>4 DEF Inv1, Configured, configVars
<1>6. ObjectTypes'
  BY <1>1, <1>4 DEF Inv1, ObjectTypes
<1>7. StageFollows'
  BY <1>1, <1>3, <1>4 DEF StageFollows, configVars
<1> QED BY <1>2, <1>5, <1>6, <1>7 DEF Inv1

LEMMA TilingRefusedKeepsInv1 ==
  ASSUME Inv1, TilingRefused
  PROVE  Inv1'
<1>1. /\ stage = "idle" /\ stage' = stage
      /\ UNCHANGED <<configVars, scaleLevel, grid, images, misuse, tileWorkList,
                     env, poolVars>>
  BY DEF TilingRefused, configVars, gridVars, tileVars, heapVars
<1>2. Tiled' <=> Tiled
  BY <1>1, ImagesStay
<1>3. Configured'
  BY <1>1, <1>2 DEF Inv1, Configured, configVars
<1> QED BY <1>1, <1>3, QuietStep DEF Inv1, StageFollows

LEMMA StutterKeepsInv1 ==
  ASSUME Inv1, UNCHANGED allVars
  PROVE  Inv1'
<1>1. UNCHANGED <<stage, configVars, grid, images, tileWorkList, misuse, env,
                  poolVars>>
  BY DEF allVars, objVars, gridVars, tileVars, heapVars
<1>2. LoopInv'
  BY <1>1, Inv1Loop DEF PoolStep
<1>3. /\ (Tiled' <=> Tiled) /\ Slots' = Slots /\ Total' = Total
      /\ (GridIsPlaced' <=> GridIsPlaced) /\ running' = running /\ job' = job
  BY <1>1, ImagesStay, GridStays DEF poolVars, callVars
<1>4. Configured'
  BY <1>1, <1>3 DEF Inv1, Configured, configVars
<1>5. ObjectTypes'
  BY <1>1, <1>3 DEF Inv1, ObjectTypes
<1>6. StageFollows'
  BY <1>1, <1>3 DEF Inv1, StageFollows, configVars
<1> QED BY <1>2, <1>4, <1>5, <1>6 DEF Inv1

-----------------------------------------------------------------------------
LEMMA ConfigureKeepsInv1 ==
  ASSUME Inv1, Configure
  PROVE  Inv1'
<1>1. ASSUME NEW n \in ThreadCounts, Create(n)
      PROVE  Inv1'
  <2>1. Construct(n, Unset, -1)
    BY <1>1 DEF Create
  <2> QED BY <2>1, ConstructKeepsInv1
<1>2. ASSUME NEW n \in ThreadCounts, NEW c \in Corners, NEW level \in Levels,
             CreateFast(n, c, level)
      PROVE  Inv1'
  BY <1>2, CreateFastKeepsInv1
<1>3. CASE \/ \E c \in Corners : SetImageCoord(c)
           \/ \E level \in Levels : SetScaleLevel(level)
           \/ \E w, h \in TileSizes : SetTileSize(w, h)
           \/ \E n \in ThreadCounts : SetThreadNumber(n)
  BY <1>3, SettersKeepInv1
<1>4. CASE Destroy \/ RefusalAborts
  BY <1>4, EndKeepsInv1
<1> QED BY <1>1, <1>2, <1>3, <1>4 DEF Configure

LEMMA UseKeepsInv1 ==
  ASSUME Inv1, Use
  PROVE  Inv1'
<1>1. CASE Tiling \/ TilingRefused \/ SaveAllTiles
  BY <1>1, TilingKeepsInv1, TilingRefusedKeepsInv1, SaveAllTilesKeepsInv1
<1>2. ASSUME NEW gx \in WindowX, NEW gy \in WindowY, GetTile(gx, gy)
      PROVE  Inv1'
  <2>1. gx \in Int /\ gy \in Int
    BY WindowIsInt
  <2>2. Lookup("getTile", <<gx, gy>>, TRUE, gx, gy)
    BY <1>2 DEF GetTile
  <2> QED BY <2>1, <2>2, LookupKeepsInv1
<1>3. ASSUME NEW gx \in WindowX, NEW gy \in WindowY, SaveTile(gx, gy)
      PROVE  Inv1'
  <2>1. Save("saveTile", <<gx, gy>>, TRUE, gx, gy)
    BY <1>3 DEF SaveTile
  <2> QED BY <2>1, SaveKeepsInv1
<1>4. ASSUME NEW p \in Points, GetTileMercator(p) \/ GetTileWithLatLon(p)
      PROVE  Inv1'
  BY <1>4, GetTileAtKeepsInv1 DEF GetTileMercator, GetTileWithLatLon
<1>5. ASSUME NEW p \in Points, SaveTileMercator(p) \/ SaveTileWithLatLon(p)
      PROVE  Inv1'
  BY <1>5, SaveTileAtKeepsInv1 DEF SaveTileMercator, SaveTileWithLatLon
<1> QED BY <1>1, <1>2, <1>3, <1>4, <1>5 DEF Use

LEMMA ProceedKeepsInv1 ==
  ASSUME Inv1, Proceed
  PROVE  Inv1'
BY OpenSrcImageKeepsInv1, LocateFailsKeepsInv1, ScaleSrcImageKeepsInv1,
   FillSrcImageKeepsInv1, CutSrcImageKeepsInv1, CallStepsKeepInv1,
   TilingReturnsKeepsInv1, SaveAllReturnsKeepsInv1 DEF Proceed

LEMMA NextKeepsInv1 == Inv1 /\ [TileNext]_allVars => Inv1'
<1> SUFFICES ASSUME Inv1, [TileNext]_allVars PROVE Inv1'
  OBVIOUS
<1>1. ASSUME NEW t \in Threads, Work(t)
      PROVE  Inv1'
  BY <1>1, WorkKeepsInv1
<1> QED BY <1>1, ConfigureKeepsInv1, UseKeepsInv1, ProceedKeepsInv1,
           StutterKeepsInv1 DEF TileNext

(* Every variable of the object stays within its type, and the vector of    *)
(* tiles has a place for every cell of the grid, whatever the client calls  *)
(* and whatever fails.                                                      *)
THEOREM TileTypeCorrect == TileSpec => []TileTypeOK
  BY InitInv1, NextKeepsInv1, Inv1GivesTypes, PTL DEF TileSpec

(* The object is configured, placed and staged as its code expects, and no  *)
(* look-up, save or cut indexes the vector of the tiles out of its range.   *)
THEOREM TileObjectInvariant == TileSpec => []ObjectInv
  BY InitInv1, NextKeepsInv1, Inv1GivesTypes, PTL DEF TileSpec

-----------------------------------------------------------------------------
(* The vector of the tiles changes in the cut, and with its end.            *)
LEMMA TilesChangeInTheCut ==
  ASSUME Inv1, [TileNext]_allVars, Tiled, stage # "cutting", stage' # "none"
  PROVE  images' = images
<1>1. CASE UNCHANGED allVars
  BY <1>1 DEF allVars, objVars, tileVars
<1>2. CASE Configure
  BY <1>2 DEF Configure, Create, CreateFast, Construct, SetImageCoord,
     SetScaleLevel, SetTileSize, SetThreadNumber, Setter, Destroy, RefusalAborts,
     ObjectEnds, tileVars
<1>3. ASSUME NEW op, NEW asked, NEW found, NEW gx, NEW gy,
             \/ Lookup(op, asked, found, gx, gy)
             \/ Save(op, asked, found, gx, gy)
      PROVE  images' = images
  BY <1>3 DEF Lookup, Save, tileVars
<1>4. CASE Use
  <2>1. CASE Tiling \/ TilingRefused \/ SaveAllTiles
    BY <2>1 DEF Tiling, TilingRefused, SaveAllTiles, tileVars
  <2>2. ASSUME NEW gx, NEW gy, GetTile(gx, gy) \/ SaveTile(gx, gy)
        PROVE  images' = images
    BY <2>2, <1>3 DEF GetTile, SaveTile
  <2>3. ASSUME NEW p, NEW op, NEW asked,
               GetTileAt(op, asked, p) \/ SaveTileAt(op, asked, p)
        PROVE  images' = images
    <3>1. CASE Findable(p)
      BY <2>3, <3>1, <1>3 DEF GetTileAt, SaveTileAt
    <3>2. CASE ~Findable(p)
      BY <2>3, <3>2, <1>3 DEF GetTileAt, SaveTileAt
    <3> QED BY <3>1, <3>2
  <2> QED BY <1>4, <2>1, <2>2, <2>3 DEF Use, GetTileMercator,
          GetTileWithLatLon, SaveTileMercator, SaveTileWithLatLon
<1>5. CASE Proceed
  <2>1. stage # "cut"
    BY DEF Inv1, StageFollows
  <2> QED BY <1>5, <2>1 DEF Proceed, OpenSrcImage, LocateFails, ScaleSrcImage,
          FillSrcImage, CutSrcImage, CallSteps, TilingReturns, SaveAllReturns,
          objVars, tileVars
<1>6. ASSUME NEW t \in Threads, Work(t)
      PROVE  images' = images
  BY <1>6 DEF Work, CutTile, CutTileFails, SaveItem, SaveItemFails, OtherStep,
     objVars, tileVars
<1> QED BY <1>1, <1>2, <1>4, <1>5, <1>6 DEF TileNext

(* The tiles of a successful tiling stay: no later call replaces or drops   *)
(* one as long as the object lives.                                         *)
THEOREM TilesStayHolds == TileSpec => TilesStay
<1>1. Inv1 /\ [TileNext]_allVars =>
        [Tiled /\ stage # "cutting" /\ stage' # "none" => images' = images]_allVars
  BY TilesChangeInTheCut
<1> QED BY <1>1, InitInv1, NextKeepsInv1, PTL DEF TileSpec, TilesStay

-----------------------------------------------------------------------------
(* The second layer: the bitmaps.  A failed cut leaves its work in          *)
(* tileWorkList_, so everything here supposes that no attempt follows one.  *)
Inv2 == Inv1 /\ BitmapInv

LEMMA NullIsNoTile ==
  /\ \A b : b.kind \in {"tile", "src", "scaled", "canvas"} => b # Null
  /\ \A a, b : a.kind = "tile" /\ b.kind \in {"src", "scaled", "canvas"} => a # b
BY DEF Null

LEMMA NoTilesWithoutVector ==
  /\ images = NoImages => Tiles = {} /\ DOMAIN images = {} /\ ~Tiled
  /\ images' = NoImages => Tiles' = {} /\ DOMAIN images' = {} /\ ~Tiled'
  /\ ~Tiled => images = NoImages
BY NoImagesIsEmpty DEF Tiles, Tiled

(* A tile is one of the vector, and a tile is no source image.              *)
LEMMA TileKinds ==
  ASSUME BitmapInv
  PROVE  /\ \A b \in Tiles : b.kind = "tile" /\ b # Null
         /\ stage \in {"scale", "fill", "cut", "cutting"} =>
              /\ srcImage \notin Tiles /\ srcImage # Null
              /\ srcImage \in live /\ live = Tiles \union {srcImage}
         /\ stage \notin {"scale", "fill", "cut", "cutting"} =>
              srcImage = Null /\ live = Tiles
<1>1. \A b \in Tiles : b.kind = "tile" /\ b # Null
  BY DEF BitmapInv, SlotsFollow, Tiles
<1>2. live = Tiles \union ({srcImage} \ {Null})
  BY DEF BitmapInv, BitmapsAccounted
<1>3. ASSUME stage \in {"scale", "fill", "cut", "cutting"}
      PROVE  /\ srcImage \notin Tiles /\ srcImage # Null
             /\ srcImage \in live /\ live = Tiles \union {srcImage}
  <2>1. srcImage.kind \in {"src", "scaled", "canvas"}
    BY <1>3 DEF BitmapInv, BitmapsAccounted
  <2>2. srcImage # Null
    BY <2>1, NullIsNoTile
  <2>3. srcImage \notin Tiles
    BY <1>1, <2>1, NullIsNoTile
  <2> QED BY <1>2, <2>2, <2>3
<1>4. ASSUME stage \notin {"scale", "fill", "cut", "cutting"}
      PROVE  srcImage = Null /\ live = Tiles
  BY <1>2, <1>4 DEF BitmapInv, BitmapsAccounted
<1> QED BY <1>1, <1>3, <1>4

LEMMA InitBitmaps == TileInit => BitmapInv
<1> SUFFICES ASSUME TileInit PROVE BitmapInv
  OBVIOUS
<1>1. /\ stage = "none" /\ images = NoImages /\ tileWorkList = <<>>
      /\ srcImage = Null /\ live = {} /\ misuse = {} /\ env.mayFail = {}
  BY DEF TileInit
<1>2. Tiles = {} /\ DOMAIN images = {}
  BY <1>1, NoTilesWithoutVector
<1>3. CanvasFollows /\ SlotsFollow
  BY <1>1, <1>2 DEF CanvasFollows, SlotsFollow
<1>4. WorkIsFresh
  BY <1>1 DEF WorkIsFresh, MayFail
<1>5. BitmapsAccounted
  BY <1>1, <1>2 DEF BitmapsAccounted
<1> QED BY <1>3, <1>4, <1>5 DEF BitmapInv

(* Between cuts the bitmaps stay as they are.                               *)
LEMMA AtRestKeepsBitmaps ==
  ASSUME Inv2, stage \in {"none", "idle", "saving"}, stage' \in {"idle", "saving"},
         UNCHANGED <<images, tileWorkList, srcImage, live, misuse>>,
         env'.tilings = 0 \/ env'.tilings = env.tilings
           \/ tileWorkList = <<>>,
         "copy" \in env'.mayFail => env'.tilings <= 1,
         stage = "saving" => Tiled
  PROVE  BitmapInv'
<1>1. (Tiled' <=> Tiled) /\ Tiles' = Tiles
  BY ImagesStay
<1>2. CanvasFollows'
  BY DEF CanvasFollows
<1>3. WorkIsFresh'
  <2>1. stage' = "idle" /\ ~Tiled' /\ tileWorkList' # <<>> => env'.tilings = 0
    BY <1>1 DEF Inv2, BitmapInv, WorkIsFresh
  <2> QED BY <2>1 DEF WorkIsFresh, MayFail
<1>4. SlotsFollow'
  BY DEF Inv2, BitmapInv, SlotsFollow
<1>5. BitmapsAccounted'
  BY <1>1 DEF Inv2, BitmapInv, BitmapsAccounted
<1> QED BY <1>2, <1>3, <1>4, <1>5 DEF BitmapInv

LEMMA ConstructKeepsBitmaps ==
  ASSUME NoRetryAfterFailedCut, Inv2, NEW threads, NEW c, NEW level,
         Construct(threads, c, level)
  PROVE  BitmapInv'
<1>1. /\ stage = "none" /\ stage' = "idle" /\ env' \in Environments
      /\ UNCHANGED <<images, tileWorkList, srcImage, live, misuse>>
  BY DEF Construct, tileVars, heapVars
<1>2. "copy" \in env'.mayFail => env'.tilings <= 1
  BY <1>1 DEF NoRetryAfterFailedCut
<1>3. tileWorkList = <<>>
  BY <1>1 DEF Inv2, BitmapInv, WorkIsFresh
<1> QED BY <1>1, <1>2, <1>3, AtRestKeepsBitmaps

(* The calls of a client that leave the bitmaps and the faults alone.       *)
Undisturbed ==
  /\ stage = "idle" /\ stage' = "idle"
  /\ UNCHANGED <<images, tileWorkList, srcImage, live, misuse>>
  /\ env'.tilings = env.tilings /\ env'.mayFail = env.mayFail

LEMMA UndisturbedKeepsBitmaps ==
  ASSUME Inv2, Undisturbed
  PROVE  BitmapInv'
<1>1. "copy" \in env'.mayFail => env'.tilings <= 1
  BY DEF Inv2, BitmapInv, WorkIsFresh, MayFail, Undisturbed
<1> QED BY <1>1, AtRestKeepsBitmaps DEF Undisturbed

LEMMA SettersDisturbNothing ==
  ASSUME \/ \E c \in Corners : SetImageCoord(c)
         \/ \E level \in Levels : SetScaleLevel(level)
         \/ \E w, h \in TileSizes : SetTileSize(w, h)
         \/ \E n \in ThreadCounts : SetThreadNumber(n)
  PROVE  Undisturbed
BY DEF SetImageCoord, SetScaleLevel, SetTileSize, SetThreadNumber, Setter,
   tileVars, heapVars, Undisturbed

LEMMA LookupDisturbsNothing ==
  ASSUME Inv1, NEW op, NEW asked, NEW found, NEW gx \in Int, NEW gy \in Int,
         Lookup(op, asked, found, gx, gy)
  PROVE  Undisturbed
<1>1. misuse' = misuse
  <2>1. CASE found /\ Served(gx, gy)
    <3>1. RowSlot(gx, gy) \in DOMAIN images
      BY <2>1, ServedIsFirstRow, TiledFacts DEF Served
    <3> QED BY <2>1, <3>1 DEF Lookup, Index
  <2>2. CASE ~(found /\ Served(gx, gy))
    BY <2>2 DEF Lookup
  <2> QED BY <2>1, <2>2
<1> QED BY <1>1 DEF Lookup, tileVars, Undisturbed

LEMMA SaveDisturbsNothing ==
  ASSUME Inv1, NEW op, NEW asked, NEW found, NEW gx, NEW gy,
         Save(op, asked, found, gx, gy)
  PROVE  Undisturbed
<1>1. Index(IF found /\ Saveable(gx, gy) THEN {SlotOf(gx, gy)} ELSE {})
  BY DEF Save
<1>2. misuse' = misuse
  BY <1>1, TiledFacts DEF Index, Saveable, InGrid
<1>3. env' = env \/ env' = [env EXCEPT !.saves = @ - 1]
  BY DEF Save
<1>4. env'.tilings = env.tilings /\ env'.mayFail = env.mayFail
  BY <1>3 DEF Inv1, Configured, EnvironmentTypes
<1> QED BY <1>2, <1>4 DEF Save, tileVars, Undisturbed

LEMMA UseDisturbsLittle ==
  ASSUME Inv1, Use
  PROVE  Tiling \/ SaveAllTiles \/ Undisturbed
<1>1. CASE TilingRefused
  BY <1>1 DEF TilingRefused, tileVars, heapVars, Undisturbed
<1>2. ASSUME NEW gx \in WindowX, NEW gy \in WindowY, GetTile(gx, gy)
      PROVE  Undisturbed
  BY <1>2, WindowIsInt, LookupDisturbsNothing DEF GetTile
<1>3. ASSUME NEW gx \in WindowX, NEW gy \in WindowY, SaveTile(gx, gy)
      PROVE  Undisturbed
  BY <1>3, SaveDisturbsNothing DEF SaveTile
<1>4. ASSUME NEW p \in Points, NEW op, NEW asked, GetTileAt(op, asked, p)
      PROVE  Undisturbed
  <2>1. CASE Findable(p)
    BY <1>4, <2>1, FoundCell, LookupDisturbsNothing DEF GetTileAt
  <2>2. CASE ~Findable(p)
    <3>1. 0 \in Int
      OBVIOUS
    <3>2. Lookup(op, asked, FALSE, 0, 0)
      BY <1>4, <2>2 DEF GetTileAt
    <3> QED BY <3>1, <3>2, LookupDisturbsNothing
  <2> QED BY <2>1, <2>2
<1>5. ASSUME NEW p \in Points, NEW op, NEW asked, SaveTileAt(op, asked, p)
      PROVE  Undisturbed
  <2>1. CASE Findable(p)
    <3>1. Save(op, asked, TRUE, GridX(p.x), GridY(p.y))
      BY <1>5, <2>1 DEF SaveTileAt
    <3> QED BY <3>1, SaveDisturbsNothing
  <2>2. CASE ~Findable(p)
    <3>1. Save(op, asked, FALSE, 0, 0)
      BY <1>5, <2>2 DEF SaveTileAt
    <3> QED BY <3>1, SaveDisturbsNothing
  <2> QED BY <2>1, <2>2
<1> QED BY <1>1, <1>2, <1>3, <1>4, <1>5 DEF Use, GetTileMercator,
        GetTileWithLatLon, SaveTileMercator, SaveTileWithLatLon

LEMMA SavingKeepsBitmaps ==
  ASSUME Inv2,
         \/ SaveAllTiles \/ SaveAllReturns
         \/ stage = "saving"
              /\ UNCHANGED <<stage, images, tileWorkList, srcImage, live, misuse, env>>
  PROVE  BitmapInv'
<1>1. \/ stage = "idle" /\ stage' = "saving" /\ Tiled
      \/ stage = "saving" /\ stage' \in {"idle", "saving"}
  BY DEF SaveAllTiles, SaveAllReturns
<1>2. UNCHANGED <<images, tileWorkList, srcImage, live, misuse>>
  <2>1. CASE SaveAllTiles
    <3>1. Slots \subseteq DOMAIN images
      BY <2>1, TiledFacts DEF SaveAllTiles, Inv2
    <3> QED BY <2>1, <3>1 DEF SaveAllTiles, Index, tileVars
  <2>2. CASE ~SaveAllTiles
    BY <2>2 DEF SaveAllReturns, tileVars, heapVars
  <2> QED BY <2>1, <2>2
<1>3. env' = env \/ env' = [env EXCEPT !.saves = @ - 1]
  BY DEF SaveAllTiles, SaveAllReturns
<1>4. env'.tilings = env.tilings /\ env'.mayFail = env.mayFail
  BY <1>3 DEF Inv2, Inv1, Configured, EnvironmentTypes
<1>5. "copy" \in env'.mayFail => env'.tilings <= 1
  BY <1>1, <1>4 DEF Inv2, BitmapInv, WorkIsFresh, MayFail
<1>6. stage = "saving" => Tiled
  BY DEF Inv2, Inv1, StageFollows
<1> QED BY <1>1, <1>2, <1>4, <1>5, <1>6, AtRestKeepsBitmaps

(* The destructor unloads the tiles, each once; a process that ends leaves  *)
(* nothing.                                                                 *)
LEMMA EndKeepsBitmaps ==
  ASSUME Inv2, Destroy \/ RefusalAborts
  PROVE  BitmapInv'
<1>1. /\ stage = "idle" /\ stage' = "none" /\ images' = NoImages
      /\ Unload(Tiles) \/ (live' = {} /\ misuse' = {})
      /\ tileWorkList' = <<>> /\ env'.mayFail = {} /\ srcImage' = srcImage
  <2>1. Unload(Tiles) \/ (live' = {} /\ misuse' = {})
    BY DEF Destroy, RefusalAborts
  <2>2. ObjectEnds
    BY DEF Destroy, RefusalAborts
  <2> QED BY <2>1, <2>2 DEF ObjectEnds
<1>2. live = Tiles /\ srcImage = Null /\ misuse = {}
  BY <1>1, TileKinds DEF Inv2, BitmapInv, BitmapsAccounted
<1>3. live' = {} /\ misuse' = {}
  BY <1>1, <1>2 DEF Unload
<1>4. Tiles' = {} /\ DOMAIN images' = {}
  BY <1>1, NoTilesWithoutVector
<1>5. CanvasFollows' /\ SlotsFollow'
  BY <1>1, <1>4 DEF CanvasFollows, SlotsFollow
<1>6. WorkIsFresh'
  BY <1>1 DEF WorkIsFresh, MayFail
<1>7. BitmapsAccounted'
  BY <1>1, <1>2, <1>3, <1>4 DEF BitmapsAccounted
<1> QED BY <1>5, <1>6, <1>7 DEF BitmapInv

(* tiling is entered with an empty work list, and the last time if its cut  *)
(* may fail.                                                                *)
LEMMA TilingKeepsBitmaps ==
  ASSUME Inv2, Tiling
  PROVE  BitmapInv'
<1>1. /\ stage = "idle" /\ stage' = "open" /\ ~Tiled /\ env.tilings > 0
      /\ env' = [env EXCEPT !.tilings = @ - 1]
      /\ UNCHANGED <<images, tileWorkList, srcImage, live, misuse>>
  BY DEF Tiling, CanTile, NotYetTiled, tileVars, heapVars
<1>2. /\ env'.tilings = env.tilings - 1 /\ env'.mayFail = env.mayFail
      /\ env.tilings \in Nat
  BY <1>1 DEF Inv2, Inv1, Configured, EnvironmentTypes
<1>3. tileWorkList = <<>>
  BY <1>1 DEF Inv2, BitmapInv, WorkIsFresh
<1>4. Tiles' = Tiles
  BY <1>1, ImagesStay
<1>5. CanvasFollows'
  BY <1>1 DEF CanvasFollows
<1>6. WorkIsFresh'
  <2>1. "copy" \in env'.mayFail => env'.tilings <= 0
    BY <1>1, <1>2 DEF Inv2, BitmapInv, WorkIsFresh, MayFail
  <2> QED BY <1>1, <1>3, <2>1 DEF WorkIsFresh, MayFail
<1>7. SlotsFollow'
  BY <1>1 DEF Inv2, BitmapInv, SlotsFollow
<1>8. BitmapsAccounted'
  BY <1>1, <1>4 DEF Inv2, BitmapInv, BitmapsAccounted
<1> QED BY <1>5, <1>6, <1>7, <1>8 DEF BitmapInv

-----------------------------------------------------------------------------
(* The steps of tiling before its cut own one bitmap, the source image.     *)
LEMMA OneBitmap ==
  ASSUME Inv2, stage \in {"open", "scale", "fill", "cut"}
  PROVE  /\ images = NoImages /\ tileWorkList = <<>> /\ misuse = {}
         /\ stage = "open" => srcImage = Null /\ live = {}
         /\ stage # "open" => live = {srcImage}
<1>1. images = NoImages /\ Tiles = {}
  BY NoTilesWithoutVector DEF Inv2, Inv1, StageFollows
<1>2. tileWorkList = <<>> /\ misuse = {}
  BY DEF Inv2, BitmapInv, WorkIsFresh, BitmapsAccounted
<1> QED BY <1>1, <1>2, TileKinds DEF Inv2

(* A step gives up: the source image is unloaded and forgotten.             *)
LEMMA GivingUpKeepsBitmaps ==
  ASSUME Inv2, stage \in {"open", "scale", "fill"}, stage' = "idle",
         UNCHANGED <<images, tileWorkList, env>>,
         srcImage' = Null, live' = {}, misuse' = {}
  PROVE  BitmapInv'
<1>1. images' = NoImages /\ tileWorkList' = <<>>
  BY OneBitmap
<1>2. Tiles' = {} /\ DOMAIN images' = {} /\ ~Tiled'
  BY <1>1, NoTilesWithoutVector
<1>3. CanvasFollows' /\ SlotsFollow'
  BY <1>2 DEF CanvasFollows, SlotsFollow
<1>4. "copy" \in env.mayFail => env.tilings <= 0
  BY DEF Inv2, BitmapInv, WorkIsFresh, MayFail
<1>5. env.tilings \in Nat
  BY DEF Inv2, Inv1, Configured, EnvironmentTypes
<1>6. WorkIsFresh'
  BY <1>1, <1>4, <1>5 DEF WorkIsFresh, MayFail
<1>7. BitmapsAccounted'
  BY <1>2 DEF BitmapsAccounted
<1> QED BY <1>3, <1>6, <1>7 DEF BitmapInv

LEMMA AbandonKeepsBitmaps ==
  ASSUME Inv2, stage \in {"scale", "fill"}, Abandon,
         UNCHANGED <<images, tileWorkList, env>>
  PROVE  BitmapInv'
<1>1. /\ stage' = "idle" /\ srcImage' = Null /\ Unload({srcImage})
      /\ live = {srcImage} /\ misuse = {}
  BY OneBitmap DEF Abandon
<1>2. live' = {} /\ misuse' = {}
  BY <1>1 DEF Unload
<1> QED BY <1>1, <1>2, GivingUpKeepsBitmaps

(* A step succeeds: there is one bitmap again, and it is the new one.       *)
LEMMA GoingOnKeepsBitmaps ==
  ASSUME Inv2, stage \in {"open", "scale", "fill"},
         stage' \in {"scale", "fill", "cut"},
         UNCHANGED <<images, tileWorkList, env>>,
         srcImage'.kind \in {"src", "scaled", "canvas"},
         live' = {srcImage'}, misuse' = {}, CanvasFollows'
  PROVE  BitmapInv'
<1>1. images' = NoImages /\ tileWorkList' = <<>>
  BY OneBitmap
<1>2. Tiles' = {} /\ DOMAIN images' = {} /\ ~Tiled'
  BY <1>1, NoTilesWithoutVector
<1>3. SlotsFollow'
  BY <1>2 DEF SlotsFollow
<1>4. "copy" \in env.mayFail => env.tilings <= 0
  BY DEF Inv2, BitmapInv, WorkIsFresh, MayFail
<1>5. WorkIsFresh'
  BY <1>1, <1>4 DEF WorkIsFresh, MayFail
<1>6. srcImage' # Null
  BY NullIsNoTile
<1>7. BitmapsAccounted'
  BY <1>2, <1>6 DEF BitmapsAccounted
<1> QED BY <1>3, <1>5, <1>7 DEF BitmapInv

LEMMA OpenSrcImageKeepsBitmaps ==
  ASSUME Inv2, OpenSrcImage
  PROVE  BitmapInv'
<1>1. /\ stage = "open" /\ UNCHANGED <<images, tileWorkList, env>>
      /\ live = {} /\ misuse = {} /\ misuse' = misuse /\ srcImage = Null
  BY OneBitmap DEF OpenSrcImage
<1>2. \/ /\ srcImage' = Bitmap("src") /\ live' = live \union {srcImage'}
         /\ stage' = "scale"
      \/ stage' = "idle" /\ UNCHANGED <<srcImage, live>>
  BY DEF OpenSrcImage
<1>3. CASE stage' = "scale"
  <2>1. srcImage' = Bitmap("src") /\ live' = {srcImage'}
    BY <1>1, <1>2, <1>3
  <2>2. srcImage'.kind \in {"src", "scaled", "canvas"}
    BY <2>1 DEF Bitmap
  <2>3. CanvasFollows'
    BY <1>3 DEF CanvasFollows
  <2> QED BY <1>1, <1>3, <2>1, <2>2, <2>3, GoingOnKeepsBitmaps
<1>4. CASE stage' = "idle"
  <2>1. srcImage' = Null /\ live' = {}
    BY <1>1, <1>2, <1>4
  <2> QED BY <1>1, <1>4, <2>1, GivingUpKeepsBitmaps
<1> QED BY <1>2, <1>3, <1>4

LEMMA LocateFailsKeepsBitmaps ==
  ASSUME Inv2, LocateFails
  PROVE  BitmapInv'
BY AbandonKeepsBitmaps DEF LocateFails

LEMMA ExchangeFacts ==
  ASSUME Inv2, stage \in {"scale", "fill"}, NEW bitmap, Exchange(bitmap)
  PROVE  srcImage' = bitmap /\ live' = {srcImage'} /\ misuse' = {}
BY OneBitmap DEF Exchange, AfterExchange

LEMMA ScaleSrcImageKeepsBitmaps ==
  ASSUME Inv2, ScaleSrcImage
  PROVE  BitmapInv'
<1>1. /\ stage = "scale" /\ FirstLegal /\ SecondLegal /\ grid' = Located
      /\ UNCHANGED <<tileSize, images, tileWorkList, env>>
      /\ canvas' = [w |-> (grid'.x1 - grid'.x0 + 1) * tileSize.w,
                    h |-> (grid'.y0 - grid'.y1 + 1) * tileSize.h]
      /\ pixel' = [x0 |-> ToPixel(Zoom, coord.x0), y0 |-> ToPixel(Zoom, coord.y0),
                   x1 |-> ToPixel(Zoom, coord.x1), y1 |-> ToPixel(Zoom, coord.y1)]
  BY DEF ScaleSrcImage, configVars
<1>2. \/ Exchange(Bitmap("scaled")) /\ stage' = "fill"
      \/ Abandon
  BY DEF ScaleSrcImage
<1>3. CASE Abandon
  BY <1>1, <1>3, AbandonKeepsBitmaps
<1>4. CASE Exchange(Bitmap("scaled")) /\ stage' = "fill"
  <2>1. srcImage' = Bitmap("scaled") /\ live' = {srcImage'} /\ misuse' = {}
    BY <1>1, <1>4, ExchangeFacts
  <2>2. srcImage'.kind \in {"src", "scaled", "canvas"}
    BY <2>1 DEF Bitmap
  <2>3. CanvasFollows'
    <3>1. canvas' = [w |-> Columns' * tileSize'.w, h |-> Rows' * tileSize'.h]
      BY <1>1 DEF Columns, Rows
    <3>2. /\ pixel'.x0 = ToPixel(Zoom, coord.x0) /\ pixel'.y0 = ToPixel(Zoom, coord.y0)
          /\ grid'.x0 = GridX(coord.x0) /\ grid'.y0 = GridY(coord.y0)
      BY <1>1, LocatedFacts DEF Inv2
    <3>3. /\ CellOf(pixel'.x0) = grid'.x0 /\ CellOf(pixel'.y0) = grid'.y0
      BY <3>2 DEF GridX, GridY, GridOf
    <3>4. pixel'.x0 \in Nat /\ pixel'.y0 \in Nat
      <4>1. coord.x0 \in Nat /\ coord.y0 \in Nat /\ Zoom \in Nat \ {0}
        BY <1>1, ScaleArguments DEF Inv2
      <4> QED BY <3>2, <4>1, PixelIsNat
    <3> QED BY <1>4, <3>1, <3>3, <3>4 DEF CanvasFollows
  <2> QED BY <1>1, <1>4, <2>1, <2>2, <2>3, GoingOnKeepsBitmaps
<1> QED BY <1>2, <1>3, <1>4

LEMMA FillSrcImageKeepsBitmaps ==
  ASSUME Inv2, FillSrcImage
  PROVE  BitmapInv'
<1> DEFINE bitmap == [kind |-> "canvas", try |-> env.tilings,
                      area |-> CanvasArea(pixel.x0, pixel.y0, canvas)]
<1>1. /\ stage = "fill"
      /\ UNCHANGED <<tileSize, grid, pixel, canvas, images, tileWorkList, env>>
      /\ (Exchange(bitmap) /\ stage' = "cut") \/ Abandon
  BY DEF FillSrcImage, configVars, gridVars
<1>2. bitmap.kind = "canvas" /\ bitmap.area = CanvasArea(pixel.x0, pixel.y0, canvas)
  OBVIOUS
<1> HIDE DEF bitmap
<1>3. CASE Abandon
  BY <1>1, <1>3, AbandonKeepsBitmaps
<1>4. CASE Exchange(bitmap) /\ stage' = "cut"
  <2>1. srcImage' = bitmap /\ live' = {srcImage'} /\ misuse' = {}
    BY <1>1, <1>4, ExchangeFacts
  <2>2. CanvasFollows'
    <3>1. Rows' = Rows /\ Columns' = Columns
      BY <1>1, GridStays
    <3>2. CanvasFollows
      BY DEF Inv2, BitmapInv
    <3> QED BY <1>1, <1>2, <1>4, <2>1, <3>1, <3>2 DEF CanvasFollows
  <2> QED BY <1>1, <1>2, <1>4, <2>1, <2>2, GoingOnKeepsBitmaps
<1> QED BY <1>1, <1>3, <1>4

-----------------------------------------------------------------------------
(* The cut.  What stays as it is while it runs.                             *)
LEMMA CutFrame ==
  ASSUME UNCHANGED <<scaleLevel, tileSize, grid, srcImage, env>>
  PROVE  /\ NewTileWork' = NewTileWork
         /\ \A s : TileFor(s)' = TileFor(s)
         /\ \A i : SlotNo(i)' = SlotNo(i)
<1>1. Columns' = Columns /\ Total' = Total
  BY GridStays
<1>2. \A i : SlotNo(i)' = SlotNo(i)
  BY <1>1 DEF SlotNo
<1>3. NewTileWork' = NewTileWork
  BY <1>1 DEF NewTileWork, SlotNo
<1>4. \A s : TileFor(s)' = TileFor(s)
  BY DEF TileFor, TileBitmap
<1> QED BY <1>2, <1>3, <1>4

LEMMA CutSrcImageKeepsBitmaps ==
  ASSUME Inv2, CutSrcImage
  PROVE  BitmapInv'
<1>1. /\ stage = "cut" /\ stage' = "cutting" /\ images' = [s \in Slots |-> Null]
      /\ tileWorkList' = tileWorkList \o NewTileWork
      /\ Begin(CutJob(Total, threadNum))
      /\ UNCHANGED <<scaleLevel, tileSize, grid, pixel, canvas, srcImage, live,
                     misuse, env>>
  BY DEF CutSrcImage, gridVars, heapVars
<1>2. /\ GridIsPlaced /\ tileWorkList = <<>> /\ misuse = {}
      /\ live = {srcImage} /\ srcImage.kind \in {"src", "scaled", "canvas"}
  BY <1>1, OneBitmap DEF Inv2, Inv1, StageFollows, BitmapInv, BitmapsAccounted
<1>3. /\ handledBy' = {} /\ failed' = {} /\ job'.total = Total
  BY <1>1 DEF Begin, NewCall, CutJob
<1>4. /\ Rows' = Rows /\ Columns' = Columns /\ Total' = Total /\ Slots' = Slots
  BY <1>1, GridStays
<1>5. CanvasFollows'
  BY <1>1, <1>4 DEF Inv2, BitmapInv, CanvasFollows
<1>6. WorkIsFresh'
  <2>1. tileWorkList' = NewTileWork'
    <3>1. NewTileWork \in [1 .. Total -> TileWorkTypes] /\ Total \in Nat
      BY <1>2, NewTileWorkType, GridFacts DEF Inv2
    <3>2. NewTileWork \in Seq(TileWorkTypes)
      BY <3>1
    <3>3. <<>> \o NewTileWork = NewTileWork
      BY <3>2
    <3> QED BY <1>1, <1>2, <3>3, CutFrame
  <2>2. "copy" \in env.mayFail => env.tilings <= 0
    BY <1>1 DEF Inv2, BitmapInv, WorkIsFresh, MayFail
  <2> QED BY <1>1, <1>3, <2>1, <2>2 DEF WorkIsFresh, MayFail
<1>7. /\ DOMAIN images' = Slots /\ \A s \in Slots : images'[s] = Null
  BY <1>1
<1>8. SlotsFollow'
  <2>1. ASSUME NEW i \in Items(job')
        PROVE  images'[SlotNo(i)'] = Null /\ i \notin Handled'
    <3>1. SlotNo(i) \in Slots
      BY <1>2, <1>3, SlotNoIsSlot DEF Items
    <3>2. SlotNo(i)' = SlotNo(i)
      BY <1>1, CutFrame
    <3> QED BY <1>3, <1>7, <3>1, <3>2 DEF Handled
  <2> QED BY <1>7, <2>1 DEF SlotsFollow
<1>9. Tiles' = {}
  BY <1>7 DEF Tiles
<1>10. srcImage # Null
  BY <1>2, NullIsNoTile
<1>11. BitmapsAccounted'
  BY <1>1, <1>2, <1>7, <1>9, <1>10 DEF BitmapsAccounted
<1> QED BY <1>5, <1>6, <1>8, <1>11 DEF BitmapInv

(* A step of the cut that handles no item.                                  *)
LEMMA WaitingKeepsBitmaps ==
  ASSUME Inv2, stage = "cutting", UNCHANGED objVars,
         job' = job, handledBy' = handledBy, failed' = failed
  PROVE  BitmapInv'
<1>1. UNCHANGED <<stage, scaleLevel, tileSize, grid, pixel, canvas, images,
                  tileWorkList, srcImage, live, misuse, env>>
  BY DEF objVars, configVars, gridVars, tileVars, heapVars
<1>2. /\ Rows' = Rows /\ Columns' = Columns /\ Tiles' = Tiles
      /\ Handled' = Handled /\ Items(job)' = Items(job) /\ (Tiled' <=> Tiled)
  BY <1>1, GridStays, ImagesStay DEF Handled
<1>3. CanvasFollows'
  BY <1>1, <1>2 DEF Inv2, BitmapInv, CanvasFollows
<1>4. WorkIsFresh'
  BY <1>1, <1>2, CutFrame DEF Inv2, BitmapInv, WorkIsFresh, MayFail
<1>5. SlotsFollow'
  BY <1>1, <1>2, CutFrame DEF Inv2, BitmapInv, SlotsFollow
<1>6. BitmapsAccounted'
  BY <1>1, <1>2 DEF Inv2, BitmapInv, BitmapsAccounted
<1> QED BY <1>3, <1>4, <1>5, <1>6 DEF BitmapInv

(* The item a worker of the cut is at: a fresh entry for a slot that is     *)
(* still empty, of an area inside the canvas.                               *)
LEMMA TileWorkFacts ==
  ASSUME Inv2, stage = "cutting", NEW t, HandleItem(t) \/ FailItem(t)
  PROVE  LET x == worker[t].next
         IN  /\ x \in Items(job) /\ x \in 0 .. Total - 1 /\ x \notin Handled
             /\ SlotNo(x) \in Slots /\ images[SlotNo(x)] = Null
             /\ TileWork(t) = NewTileWork[x + 1]
             /\ TileWork(t).try = env.tilings /\ TileWork(t).slot = SlotNo(x)
             /\ CutOut(TileWork(t)) = TileFor(SlotNo(x))
             /\ Inside(TileWork(t))
<1> DEFINE x == worker[t].next
           s == SlotNo(x)
           w == TileWork(t)
<1>1. PoolTypeOK /\ PoolInv /\ GridIsPlaced /\ job.total = Total
  BY DEF Inv2, Inv1, LoopInv, StageFollows
<1>2. /\ t \in Callee(job) /\ HasItem(t)
  BY <1>1, JobFacts DEF HandleItem, FailItem
<1>3. x \in Items(job) /\ x \notin Handled
  BY <1>1, <1>2, ItemIsOpen
<1>4. x \in 0 .. Total - 1 /\ x + 1 \in 1 .. Total
  BY <1>1, <1>3, GridFacts DEF Items
<1>5. s \in Slots /\ s[1] \in 0 .. Rows - 1 /\ s[2] \in 0 .. Columns - 1
  BY <1>1, <1>4, SlotNoIsSlot
<1>6. images[s] = Null
  BY <1>3 DEF Inv2, BitmapInv, SlotsFollow
<1>7. w = NewTileWork[x + 1]
  BY DEF Inv2, BitmapInv, WorkIsFresh, TileWork
<1>8. w = [try |-> env.tilings, slot |-> s, x |-> s[2] * tileSize.w,
           y |-> s[1] * tileSize.h]
  <2>1. NewTileWork[x + 1] =
          [try |-> env.tilings, slot |-> SlotNo(x + 1 - 1),
           x |-> SlotNo(x + 1 - 1)[2] * tileSize.w,
           y |-> SlotNo(x + 1 - 1)[1] * tileSize.h]
    BY <1>4 DEF NewTileWork
  <2>2. x + 1 - 1 = x
    BY <1>4
  <2> QED BY <1>7, <2>1, <2>2
<1> HIDE DEF s
<1>9. w.try = env.tilings /\ w.slot = s /\ w.x = s[2] * tileSize.w
      /\ w.y = s[1] * tileSize.h
  BY <1>8
<1> HIDE DEF w
<1>10. CutOut(w) = TileFor(s)
  BY <1>9 DEF CutOut, TileFor
<1>11. Inside(w)
  <2>1. /\ srcImage.area = CanvasArea(pixel.x0, pixel.y0, canvas)
        /\ canvas = [w |-> Columns * tileSize.w, h |-> Rows * tileSize.h]
    BY DEF Inv2, BitmapInv, CanvasFollows
  <2>2. srcImage.area.w = Columns * tileSize.w /\ srcImage.area.h = Rows * tileSize.h
    BY <2>1 DEF CanvasArea, Area
  <2>3. tileSize.w \in Nat /\ tileSize.h \in Nat
    BY DEF Inv2, Inv1, Configured
  <2>4. /\ Columns \in Nat /\ Rows \in Nat
        /\ s[1] \in Nat /\ s[2] \in Nat /\ s[1] + 1 <= Rows /\ s[2] + 1 <= Columns
    BY <1>1, <1>5, GridFacts
  <2>5. w.x + tileSize.w <= Columns * tileSize.w
    <3>1. /\ tileSize.w * (s[2] + 1) <= tileSize.w * Columns
          /\ tileSize.w * (s[2] + 1) = tileSize.w * s[2] + tileSize.w
          /\ tileSize.w * s[2] = s[2] * tileSize.w
          /\ tileSize.w * Columns = Columns * tileSize.w
      BY <2>3, <2>4, ProductGrowsToo
    <3> QED BY <1>9, <3>1
  <2>6. w.y + tileSize.h <= Rows * tileSize.h
    <3>1. /\ tileSize.h * (s[1] + 1) <= tileSize.h * Rows
          /\ tileSize.h * (s[1] + 1) = tileSize.h * s[1] + tileSize.h
          /\ tileSize.h * s[1] = s[1] * tileSize.h
          /\ tileSize.h * Rows = Rows * tileSize.h
      BY <2>3, <2>4, ProductGrowsToo
    <3> QED BY <1>9, <3>1
  <2> QED BY <2>2, <2>5, <2>6 DEF Inside, Fits
<1> QED BY <1>3, <1>4, <1>5, <1>6, <1>7, <1>9, <1>10, <1>11 DEF s, w

LEMMA SlotNoIsOneToOne ==
  ASSUME GridIsPlaced, NEW i \in 0 .. Total - 1, NEW j \in 0 .. Total - 1,
         SlotNo(i) = SlotNo(j)
  PROVE  i = j
BY SlotNoIsSlot

(* Tiles are as large as one pixel at least, so no two slots cut the same.  *)
LEMMA TileForIsOneToOne ==
  ASSUME Inv2, stage = "cutting", NEW a \in Slots, NEW b \in Slots,
         TileFor(a) = TileFor(b)
  PROVE  a = b
<1> DEFINE left == srcImage.area.left
           top  == srcImage.area.top
           w == tileSize.w
           h == tileSize.h
<1>1. TileFor(a).area = TileFor(b).area
  OBVIOUS
<1>2. \A s : /\ TileFor(s).area.left = left + s[2] * w
             /\ TileFor(s).area.top = top - s[1] * h
  BY DEF TileFor, TileBitmap, CutArea, Area
<1>3. left + a[2] * w = left + b[2] * w /\ top - a[1] * h = top - b[1] * h
  BY <1>1, <1>2
<1>4. left \in Int /\ top \in Int
  <2>1. /\ srcImage.area = CanvasArea(pixel.x0, pixel.y0, canvas)
        /\ pixel.x0 \in Nat /\ pixel.y0 \in Nat
    BY DEF Inv2, BitmapInv, CanvasFollows
  <2>2. /\ left = pixel.x0 - PasteLeft(pixel.x0)
        /\ top = pixel.y0 + PasteTop(pixel.y0)
    BY <2>1 DEF CanvasArea, Area
  <2>3. PasteLeft(pixel.x0) \in Int /\ PasteTop(pixel.y0) \in Int
    <3>1. pixel.x0 % Base \in Int /\ pixel.y0 % Base \in Int /\ Base \in Int
      BY <2>1, GeometryAssumption, DivMod
    <3> QED BY <3>1 DEF PasteLeft, PasteTop
  <2> QED BY <2>1, <2>2, <2>3
<1>5. w \in Nat \ {0} /\ h \in Nat \ {0}
  BY DEF Inv2, Inv1, Configured
<1>6. /\ a[1] \in Nat /\ a[2] \in Nat /\ a = <<a[1], a[2]>>
      /\ b[1] \in Nat /\ b[2] \in Nat /\ b = <<b[1], b[2]>>
  BY DEF Slots
<1> HIDE DEF left, top, w, h
<1>7. a[2] * w \in Nat /\ b[2] * w \in Nat /\ a[1] * h \in Nat /\ b[1] * h \in Nat
  BY <1>5, <1>6, ProductGrowsToo
<1>8. a[2] * w = b[2] * w /\ a[1] * h = b[1] * h
  BY <1>3, <1>4, <1>7
<1>9. a[2] = b[2] /\ a[1] = b[1]
  BY <1>5, <1>6, <1>8, ProductsCancel
<1> QED BY <1>6, <1>9

(* A worker handles its item: the slot gets its tile.                       *)
LEMMA CutTileKeepsBitmaps ==
  ASSUME Inv2, NEW t, CutTile(t)
  PROVE  BitmapInv'
<1> DEFINE x == worker[t].next
           s == SlotNo(x)
           tile == TileFor(s)
<1>1. /\ stage = "cutting" /\ HandleItem(t)
      /\ live' = live \union {CutOut(TileWork(t))}
      /\ StoreTile(TileWork(t), CutOut(TileWork(t)))
      /\ UNCHANGED <<stage, scaleLevel, tileSize, grid, pixel, canvas,
                     tileWorkList, srcImage, env>>
  BY DEF CutTile, configVars, gridVars
<1>2. /\ x \in Items(job) /\ x \in 0 .. Total - 1 /\ s \in Slots
      /\ images[s] = Null /\ TileWork(t).try = env.tilings
      /\ TileWork(t).slot = s /\ CutOut(TileWork(t)) = tile
  BY <1>1, TileWorkFacts
<1>3. /\ live' = live \union {tile} /\ misuse' = misuse
      /\ images' = [images EXCEPT ![s] = tile]
  BY <1>1, <1>2 DEF StoreTile
<1>4. /\ GridIsPlaced /\ Tiled /\ DOMAIN images = Slots /\ job.total = Total
  <2>1. Tiled /\ job.total = Total
    BY <1>1 DEF Inv2, Inv1, StageFollows
  <2> QED BY <2>1, TiledFacts DEF Inv2
<1>5. job' = job /\ failed' = failed /\ Handled' = Handled \union {x}
  BY <1>1, HandledGrows DEF HandleItem, callVars
<1>6. tile.kind = "tile" /\ tile # Null
  <2>1. tile.kind = "tile"
    BY DEF TileFor, TileBitmap
  <2> QED BY <2>1, NullIsNoTile
<1> HIDE DEF x, tile, s
<1>7. /\ DOMAIN images' = Slots /\ images'[s] = tile
      /\ \A a \in Slots : a # s => images'[a] = images[a]
  BY <1>2, <1>3, <1>4
<1>8. \A i \in Items(job) :
        images[SlotNo(i)] = IF i \in Handled THEN TileFor(SlotNo(i)) ELSE Null
  BY <1>1 DEF Inv2, BitmapInv, SlotsFollow
<1>9. Items(job) = 0 .. Total - 1
  BY <1>4 DEF Items
<1>10. \A a \in Slots : images[a] = Null \/ images[a] = TileFor(a)
  <2>1. SUFFICES ASSUME NEW a \in Slots
                 PROVE  images[a] = Null \/ images[a] = TileFor(a)
    OBVIOUS
  <2>2. PICK i \in 0 .. Total - 1 : SlotNo(i) = a
    BY <1>4, EverySlotHasANumber
  <2> QED BY <1>8, <1>9, <2>2
<1>11. /\ Rows' = Rows /\ Columns' = Columns /\ Slots' = Slots
       /\ (Tiled' <=> TRUE)
  <2>1. Tiled'
    BY <1>4, <1>7, GridFacts, NoImagesIsEmpty DEF Tiled
  <2> QED BY <1>1, <2>1, GridStays
<1>12. CanvasFollows'
  BY <1>1, <1>11 DEF Inv2, BitmapInv, CanvasFollows
<1>13. WorkIsFresh'
  BY <1>1, <1>5, <1>11, CutFrame DEF Inv2, BitmapInv, WorkIsFresh, MayFail
<1>14. SlotsFollow'
  <2>1. \A a \in DOMAIN images' : images'[a] = Null \/ images'[a].kind = "tile"
    BY <1>4, <1>6, <1>7 DEF Inv2, BitmapInv, SlotsFollow
  <2>2. ASSUME NEW i \in Items(job)
        PROVE  images'[SlotNo(i)] =
                 IF i \in Handled' THEN TileFor(SlotNo(i)) ELSE Null
    <3>1. SlotNo(i) \in Slots
      BY <1>4, <1>9, SlotNoIsSlot
    <3>2. CASE i = x
      BY <3>2, <1>5, <1>7 DEF s, tile
    <3>3. CASE i # x
      <4>1. SlotNo(i) # s
        BY <3>3, <1>2, <1>4, <1>9, SlotNoIsOneToOne DEF s
      <4> QED BY <3>1, <3>3, <4>1, <1>5, <1>7, <1>8
    <3> QED BY <3>2, <3>3
  <2>3. /\ \A a : TileFor(a)' = TileFor(a) /\ \A i : SlotNo(i)' = SlotNo(i)
    BY <1>1, CutFrame
  <2> QED BY <1>5, <2>1, <2>2, <2>3 DEF SlotsFollow
<1>15. BitmapsAccounted'
  <2>1. Tiles' = Tiles \union {tile}
    BY <1>2, <1>4, <1>6, <1>7 DEF Tiles
  <2>2. live' = Tiles' \union ({srcImage'} \ {Null})
    BY <1>1, <1>3, <2>1 DEF Inv2, BitmapInv, BitmapsAccounted
  <2>3. ASSUME NEW a \in Slots, NEW b \in Slots, a # b, images'[a] # Null
        PROVE  images'[a] # images'[b]
    <3>1. \A c \in Slots : images'[c] = Null \/ images'[c] = TileFor(c)
      BY <1>7, <1>10 DEF tile
    <3>2. TileFor(a) # TileFor(b)
      BY <1>1, <2>3, TileForIsOneToOne
    <3> QED BY <2>3, <3>1, <3>2
  <2> QED BY <1>1, <1>3, <1>7, <2>2, <2>3 DEF Inv2, BitmapInv, BitmapsAccounted
<1> QED BY <1>12, <1>13, <1>14, <1>15 DEF BitmapInv

(* A worker that fails leaves its slot empty; the area lay in the canvas,   *)
(* so it was the copy itself that failed.                                   *)
LEMMA CutTileFailsKeepsBitmaps ==
  ASSUME Inv2, NEW t, CutTileFails(t)
  PROVE  BitmapInv'
<1> DEFINE x == worker[t].next
           s == SlotNo(x)
<1>1. /\ stage = "cutting" /\ FailItem(t) /\ StoreTile(TileWork(t), Null)
      /\ ~Inside(TileWork(t)) \/ MayFail("copy")
      /\ UNCHANGED <<stage, scaleLevel, tileSize, grid, pixel, canvas,
                     tileWorkList, srcImage, live, env>>
  BY DEF CutTileFails, configVars, gridVars
<1>2. /\ s \in Slots /\ images[s] = Null /\ Inside(TileWork(t))
      /\ TileWork(t).try = env.tilings /\ TileWork(t).slot = s
  BY <1>1, TileWorkFacts
<1>3. misuse' = misuse /\ images' = [images EXCEPT ![s] = Null]
  BY <1>1, <1>2 DEF StoreTile
<1>4. Tiled /\ GridIsPlaced /\ DOMAIN images = Slots /\ job.total = Total
  <2>1. Tiled /\ job.total = Total
    BY <1>1 DEF Inv2, Inv1, StageFollows
  <2> QED BY <2>1, TiledFacts DEF Inv2
<1>5. job' = job /\ handledBy' = handledBy /\ Handled' = Handled
  BY <1>1 DEF FailItem, callVars, Handled
<1>6. MayFail("copy")
  BY <1>1, <1>2
<1> HIDE DEF x, s
<1>7. DOMAIN images' = Slots /\ \A a \in Slots : images'[a] = images[a]
  BY <1>2, <1>3, <1>4
<1>8. /\ Rows' = Rows /\ Columns' = Columns /\ Slots' = Slots
  BY <1>1, GridStays
<1>9. CanvasFollows'
  BY <1>1, <1>8 DEF Inv2, BitmapInv, CanvasFollows
<1>10. WorkIsFresh'
  <2>1. "copy" \in env.mayFail /\ env.tilings <= 0 /\ tileWorkList = NewTileWork
    BY <1>1, <1>6 DEF Inv2, BitmapInv, WorkIsFresh, MayFail
  <2>2. tileWorkList' = NewTileWork'
    BY <1>1, <2>1, CutFrame
  <2> QED BY <1>1, <2>1, <2>2 DEF WorkIsFresh, MayFail
<1>11. SlotsFollow'
  <2>1. ASSUME NEW i \in Items(job)
        PROVE  images'[SlotNo(i)] =
                 IF i \in Handled THEN TileFor(SlotNo(i)) ELSE Null
    <3>1. SlotNo(i) \in Slots
      BY <1>4, SlotNoIsSlot DEF Items
    <3> QED BY <1>1, <1>7, <3>1 DEF Inv2, BitmapInv, SlotsFollow
  <2>2. \A a \in DOMAIN images' : images'[a] = Null \/ images'[a].kind = "tile"
    BY <1>4, <1>7 DEF Inv2, BitmapInv, SlotsFollow
  <2>3. /\ \A a : TileFor(a)' = TileFor(a) /\ \A i : SlotNo(i)' = SlotNo(i)
    BY <1>1, CutFrame
  <2> QED BY <1>5, <2>1, <2>2, <2>3 DEF SlotsFollow
<1>12. BitmapsAccounted'
  <2>1. Tiles' = Tiles
    BY <1>4, <1>7 DEF Tiles
  <2> QED BY <1>1, <1>3, <1>4, <1>7, <2>1 DEF Inv2, BitmapInv, BitmapsAccounted
<1> QED BY <1>9, <1>10, <1>11, <1>12 DEF BitmapInv

(* tiling unloads the source image, and the tiles if it failed; what is     *)
(* left in the work list of a failed cut no attempt will read.              *)
LEMMA TilingReturnsKeepsBitmaps ==
  ASSUME Inv2, TilingReturns
  PROVE  BitmapInv'
<1>1. /\ stage = "cutting" /\ ~running /\ stage' = "idle" /\ srcImage' = Null
      /\ UNCHANGED <<tileWorkList, env>>
      /\ IF outcome = "ok" THEN Unload({srcImage}) /\ UNCHANGED images
                           ELSE Unload({srcImage} \union Tiles)
                                /\ images' = NoImages
  BY DEF TilingReturns, ImagesAfterFailure
<1>2. /\ srcImage \notin Tiles /\ srcImage \in live /\ misuse = {}
      /\ live = Tiles \union {srcImage}
  BY <1>1, TileKinds DEF Inv2, BitmapInv, BitmapsAccounted
<1>3. CanvasFollows'
  BY <1>1 DEF CanvasFollows
<1>4. /\ "copy" \in env.mayFail => env.tilings <= 0
      /\ env.tilings \in Nat
  BY <1>1 DEF Inv2, BitmapInv, WorkIsFresh, MayFail, Inv1, Configured,
              EnvironmentTypes
<1>5. CASE outcome = "ok"
  <2>1. images' = images /\ live' = Tiles /\ misuse' = {}
    BY <1>1, <1>2, <1>5 DEF Unload
  <2>2. Tiles' = Tiles /\ (Tiled' <=> Tiled) /\ Tiled
    BY <1>1, <2>1, ImagesStay DEF Inv2, Inv1, StageFollows
  <2>3. WorkIsFresh'
    BY <1>1, <1>4, <2>2 DEF WorkIsFresh, MayFail
  <2>4. SlotsFollow'
    BY <1>1, <2>1 DEF Inv2, BitmapInv, SlotsFollow
  <2>5. BitmapsAccounted'
    BY <1>1, <2>1, <2>2 DEF Inv2, BitmapInv, BitmapsAccounted
  <2> QED BY <1>3, <2>3, <2>4, <2>5 DEF BitmapInv
<1>6. CASE outcome # "ok"
  <2>1. images' = NoImages /\ live' = {} /\ misuse' = {}
    BY <1>1, <1>2, <1>6 DEF Unload
  <2>2. Tiles' = {} /\ DOMAIN images' = {} /\ ~Tiled'
    BY <2>1, NoTilesWithoutVector
  <2>3. outcome = "error"
    <3>1. /\ outcome \in {"none", "ok", "error"} /\ (outcome = "none" => job = NoJob)
          /\ job.total = Total /\ GridIsPlaced
      BY <1>1 DEF Inv2, Inv1, LoopInv, PoolTypeOK, OutcomeFollows, StageFollows
    <3>2. NoJob.total = 0 /\ job.total # 0
      BY <3>1, GridFacts DEF NoJob
    <3> QED BY <1>6, <3>1, <3>2
  <2>4. failed # {}
    BY <1>1, <2>3, ErrorMeansFailure DEF Inv2, Inv1, LoopInv
  <2>5. "copy" \in env.mayFail
    BY <1>1, <2>4 DEF Inv2, BitmapInv, WorkIsFresh, MayFail
  <2>6. env.tilings = 0
    BY <1>4, <2>5
  <2>7. WorkIsFresh'
    BY <1>1, <2>6 DEF WorkIsFresh, MayFail
  <2>8. SlotsFollow' /\ BitmapsAccounted'
    BY <1>1, <2>1, <2>2 DEF SlotsFollow, BitmapsAccounted
  <2> QED BY <1>3, <2>7, <2>8 DEF BitmapInv
<1> QED BY <1>5, <1>6

LEMMA WorkKeepsBitmaps ==
  ASSUME Inv2, NEW t, Work(t)
  PROVE  BitmapInv'
<1>1. CASE CutTile(t)
  BY <1>1, CutTileKeepsBitmaps
<1>2. CASE CutTileFails(t)
  BY <1>2, CutTileFailsKeepsBitmaps
<1>3. CASE SaveItem(t) \/ SaveItemFails(t)
  <2>1. /\ stage = "saving"
        /\ UNCHANGED <<stage, images, tileWorkList, srcImage, live, misuse, env>>
    BY <1>3 DEF SaveItem, SaveItemFails, objVars, tileVars, heapVars
  <2> QED BY <2>1, SavingKeepsBitmaps
<1>4. CASE OtherStep(t)
  <2>1. /\ UNCHANGED objVars /\ job' = job /\ handledBy' = handledBy
        /\ failed' = failed /\ WorkerStep(t)
    BY <1>4 DEF OtherStep, Report, Finish, callVars, itemVars, WorkerStep
  <2>2. stage \in {"cutting", "saving"}
    BY <2>1, WorkerStepsInCall DEF Inv2, Inv1, LoopInv, ObjectTypes
  <2>3. UNCHANGED <<stage, images, tileWorkList, srcImage, live, misuse, env>>
    BY <2>1 DEF objVars, tileVars, heapVars
  <2> QED BY <2>1, <2>2, <2>3, WaitingKeepsBitmaps, SavingKeepsBitmaps
<1> QED BY <1>1, <1>2, <1>3, <1>4 DEF Work

LEMMA CallStepsKeepBitmaps ==
  ASSUME Inv2, CallSteps
  PROVE  BitmapInv'
<1>1. /\ UNCHANGED objVars /\ job' = job /\ handledBy' = handledBy
      /\ failed' = failed /\ running
  BY DEF CallSteps, CallerStep, Spawn, Join, Return, itemVars
<1>2. stage \in {"cutting", "saving"}
  BY <1>1 DEF Inv2, Inv1, ObjectTypes
<1>3. UNCHANGED <<stage, images, tileWorkList, srcImage, live, misuse, env>>
  BY <1>1 DEF objVars, tileVars, heapVars
<1> QED BY <1>1, <1>2, <1>3, WaitingKeepsBitmaps, SavingKeepsBitmaps

LEMMA StutterKeepsBitmaps ==
  ASSUME Inv2, UNCHANGED allVars
  PROVE  BitmapInv'
<1>1. UNCHANGED <<stage, scaleLevel, tileSize, grid, pixel, canvas, images,
                  tileWorkList, srcImage, live, misuse, env>>
  BY DEF allVars, objVars, configVars, gridVars, tileVars, heapVars
<1>2. /\ Rows' = Rows /\ Columns' = Columns /\ Tiles' = Tiles
      /\ (Tiled' <=> Tiled) /\ Handled' = Handled /\ Items(job)' = Items(job)
      /\ failed' = failed
  BY <1>1, GridStays, ImagesStay
     DEF Handled, allVars, poolVars, callVars, itemVars
<1>3. CanvasFollows'
  BY <1>1, <1>2 DEF Inv2, BitmapInv, CanvasFollows
<1>4. WorkIsFresh'
  BY <1>1, <1>2, CutFrame DEF Inv2, BitmapInv, WorkIsFresh, MayFail
<1>5. SlotsFollow'
  BY <1>1, <1>2, CutFrame DEF Inv2, BitmapInv, SlotsFollow
<1>6. BitmapsAccounted'
  BY <1>1, <1>2 DEF Inv2, BitmapInv, BitmapsAccounted
<1> QED BY <1>3, <1>4, <1>5, <1>6 DEF BitmapInv

LEMMA NextKeepsBitmaps ==
  ASSUME NoRetryAfterFailedCut, Inv2, [TileNext]_allVars
  PROVE  BitmapInv'
<1>1. CASE Configure
  <2>1. ASSUME NEW n \in ThreadCounts, Create(n)
        PROVE  BitmapInv'
    BY <2>1, ConstructKeepsBitmaps DEF Create
  <2>2. ASSUME NEW n \in ThreadCounts, NEW c \in Corners, NEW level \in Levels,
               CreateFast(n, c, level)
        PROVE  BitmapInv'
    BY <2>2, ConstructKeepsBitmaps DEF CreateFast
  <2>3. CASE Destroy \/ RefusalAborts
    BY <2>3, EndKeepsBitmaps
  <2>4. CASE \/ \E c \in Corners : SetImageCoord(c)
             \/ \E level \in Levels : SetScaleLevel(level)
             \/ \E w, h \in TileSizes : SetTileSize(w, h)
             \/ \E n \in ThreadCounts : SetThreadNumber(n)
    BY <2>4, SettersDisturbNothing, UndisturbedKeepsBitmaps
  <2> QED BY <1>1, <2>1, <2>2, <2>3, <2>4 DEF Configure
<1>2. CASE Use
  BY <1>2, UseDisturbsLittle, TilingKeepsBitmaps, SavingKeepsBitmaps,
     UndisturbedKeepsBitmaps DEF Inv2
<1>3. CASE Proceed
  BY <1>3, OpenSrcImageKeepsBitmaps, LocateFailsKeepsBitmaps,
     ScaleSrcImageKeepsBitmaps, FillSrcImageKeepsBitmaps,
     CutSrcImageKeepsBitmaps, CallStepsKeepBitmaps, TilingReturnsKeepsBitmaps,
     SavingKeepsBitmaps DEF Proceed
<1>4. ASSUME NEW t \in Threads, Work(t)
      PROVE  BitmapInv'
  BY <1>4, WorkKeepsBitmaps
<1> QED BY <1>1, <1>2, <1>3, <1>4, StutterKeepsBitmaps DEF TileNext

LEMMA NextKeepsInv2 ==
  ASSUME NoRetryAfterFailedCut, Inv2, [TileNext]_allVars
  PROVE  Inv2'
<1>1. Inv1'
  BY NextKeepsInv1 DEF Inv2
<1> QED BY <1>1, NextKeepsBitmaps DEF Inv2

LEMMA InitInv2 == TileInit => Inv2
  BY InitInv1, InitBitmaps DEF Inv2

LEMMA Inv2GivesOwners == Inv2 => BitmapsAreOwned /\ NoWildAccess
<1> SUFFICES ASSUME Inv2 PROVE BitmapsAreOwned /\ NoWildAccess
  OBVIOUS
<1>1. BitmapsAccounted
  BY DEF Inv2, BitmapInv
<1>2. Between => live = Tiles /\ srcImage = Null
  BY TileKinds DEF Inv2, Between
<1> QED BY <1>1, <1>2 DEF BitmapsAccounted, BitmapsAreOwned, NoWildAccess

(* Every bitmap that FreeImage handed out has one owner, no call loses one  *)
(* and none is unloaded twice, on every path through tiling.                *)
THEOREM BitmapsAreOwnedHolds ==
  ASSUME NoRetryAfterFailedCut
  PROVE  TileSpec => []BitmapsAreOwned
<1>1. Inv2 /\ [TileNext]_allVars => Inv2'
  BY NextKeepsInv2
<1> QED BY <1>1, InitInv2, Inv2GivesOwners, PTL DEF TileSpec

(* No worker writes through the pointer of an earlier attempt, and no index *)
(* leaves the vector it is used on.                                         *)
THEOREM NoWildAccessHolds ==
  ASSUME NoRetryAfterFailedCut
  PROVE  TileSpec => []NoWildAccess
<1>1. Inv2 /\ [TileNext]_allVars => Inv2'
  BY NextKeepsInv2
<1> QED BY <1>1, InitInv2, Inv2GivesOwners, PTL DEF TileSpec

-----------------------------------------------------------------------------
(* The third layer: what the client's settings, files and answers say of    *)
(* the tiles.  Most steps pass them by.                                     *)
Passing ==
  /\ UNCHANGED <<images, files, saveWorkList, tileSize, scaleLevel, threadNum>>
  /\ last' = last \/ last' = Answer("tiling", <<>>, FALSE, Null)
  /\ grid' = grid \/ ~Tiled
  /\ stage' = "none" <=> stage = "none"
  /\ stage' = "cutting" <=> stage = "cutting"
  /\ stage' = "saving" <=> stage = "saving"
  /\ stage = "saving" => Handled' = Handled /\ job' = job

LEMMA TilingPasses ==
  ASSUME Inv1,
         \/ Tiling \/ TilingRefused \/ OpenSrcImage \/ LocateFails
         \/ ScaleSrcImage \/ FillSrcImage
  PROVE  Passing
<1>1. CASE Tiling \/ TilingRefused
  BY <1>1 DEF Tiling, TilingRefused, Says, configVars, gridVars, tileVars,
     saveVars, Passing
<1>2. CASE OpenSrcImage
  BY <1>2 DEF OpenSrcImage, Says, configVars, gridVars, saveVars, Passing
<1>3. ASSUME stage \in {"scale", "fill"}, Abandon \/ stage' \in {"fill", "cut"},
             Abandon \/ last' = last,
             UNCHANGED <<configVars, images, saveVars>>
      PROVE  Passing
  <2>1. ~Tiled
    BY <1>3 DEF Inv1, StageFollows
  <2>2. \/ last' = last
        \/ stage' = "idle" /\ last' = Answer("tiling", <<>>, FALSE, Null)
    BY <1>3 DEF Abandon, Says
  <2>3. stage' \in {"idle", "fill", "cut"}
    BY <1>3 DEF Abandon
  <2> QED BY <1>3, <2>1, <2>2, <2>3 DEF configVars, saveVars, Passing
<1>4. CASE LocateFails
  BY <1>3, <1>4 DEF LocateFails
<1>5. CASE ScaleSrcImage
  BY <1>3, <1>5 DEF ScaleSrcImage, Exchange
<1>6. CASE FillSrcImage
  BY <1>3, <1>6 DEF FillSrcImage, Exchange
<1> QED BY <1>1, <1>2, <1>4, <1>5, <1>6

LEMMA WaitingPasses ==
  ASSUME Inv1,
         \/ CallSteps \/ UNCHANGED allVars
         \/ \E t \in Threads : SaveItemFails(t) \/ OtherStep(t)
  PROVE  Passing
<1>1. UNCHANGED objVars /\ job' = job /\ handledBy' = handledBy
  BY DEF CallSteps, CallerStep, Spawn, Join, Return, itemVars, SaveItemFails,
     FailItem, OtherStep, Report, Finish, callVars, allVars, poolVars
<1> QED BY <1>1 DEF objVars, configVars, gridVars, tileVars, saveVars, Handled,
        Passing

-----------------------------------------------------------------------------
(* The work of saveAllTiles: it is empty until there are tiles, and then it *)
(* names them, once for every call made.                                    *)
LEMMA WorkListKept ==
  ASSUME SavesFollow, UNCHANGED <<saveWorkList, images, grid>>,
         stage' # "cutting", stage' = "saving" => stage = "saving"
  PROVE  SavesFollow'
<1>1. /\ \A i : SlotNo(i)' = SlotNo(i)
      /\ \A s : SaveEntry(s)' = SaveEntry(s)
      /\ Total' = Total /\ (Tiled' <=> Tiled)
  BY GridStays, ImagesStay DEF SlotNo, SaveEntry, CellAt
<1>2. {SaveEntry(s) : s \in DOMAIN images}' = {SaveEntry(s) : s \in DOMAIN images}
  BY <1>1
<1> QED BY <1>1, <1>2 DEF SavesFollow

LEMMA NoWorkYet ==
  ASSUME saveWorkList' = <<>>, stage' # "saving"
  PROVE  SavesFollow'
<1>1. \A S : <<>> \in Seq(S)
  OBVIOUS
<1> QED BY <1>1 DEF SavesFollow

(* The work list is empty as long as the vector of the tiles is.            *)
LEMMA WorkNeedsTiles ==
  ASSUME SavesFollow, ~Tiled \/ stage = "cutting"
  PROVE  saveWorkList = <<>>
BY DEF SavesFollow

LEMMA SaveAllTilesKeepsWork ==
  ASSUME Inv1, SavesFollow, SaveAllTiles
  PROVE  SavesFollow'
<1> DEFINE S == {SaveEntry(s) : s \in DOMAIN images}
<1>1. /\ stage' = "saving" /\ Tiled /\ saveWorkList' = saveWorkList \o NewSaveWork
      /\ UNCHANGED <<images, grid>>
  BY DEF SaveAllTiles, tileVars, gridVars
<1>2. /\ GridIsPlaced /\ DOMAIN images = Slots /\ Total \in Nat \ {0}
  BY <1>1, TiledFacts, GridFacts
<1>3. ASSUME NEW i \in 1 .. Total
      PROVE  /\ NewSaveWork[i] = SaveEntry(SlotNo(i - 1))
             /\ SaveEntry(SlotNo(i - 1)) \in S
  <2>1. i - 1 \in 0 .. Total - 1
    BY <1>2
  <2>2. SlotNo(i - 1) \in DOMAIN images
    BY <1>2, <2>1, SlotNoIsSlot
  <2>3. NewSaveWork[i] = [image |-> ImageAt(SlotNo(i - 1)),
                          cell |-> CellAt(SlotNo(i - 1))]
    BY DEF NewSaveWork
  <2> QED BY <2>2, <2>3 DEF ImageAt, SaveEntry
<1>4. NewSaveWork \in [1 .. Total -> S]
  BY <1>3 DEF NewSaveWork
<1>5. saveWorkList \in Seq(S)
  BY DEF SavesFollow
<1> HIDE DEF S
<1>6. /\ saveWorkList' \in Seq(S) /\ Len(saveWorkList') = Len(saveWorkList) + Total
      /\ \A i \in 1 .. Len(saveWorkList) : saveWorkList'[i] = saveWorkList[i]
      /\ \A i \in 1 .. Total :
           saveWorkList'[Len(saveWorkList) + i] = NewSaveWork[i]
      /\ Len(saveWorkList) \in Nat
  <2> DEFINE list == saveWorkList \o NewSaveWork
  <2>1. Total \in Nat
    BY <1>2
  <2>2. /\ list \in Seq(S) /\ Len(list) = Len(saveWorkList) + Total
        /\ \A i \in 1 .. Len(saveWorkList) : list[i] = saveWorkList[i]
        /\ \A i \in 1 .. Total : list[Len(saveWorkList) + i] = NewSaveWork[i]
    BY <1>4, <1>5, <2>1, WorkAppended
  <2>3. Len(saveWorkList) \in Nat
    BY <1>5
  <2> HIDE DEF list
  <2> QED BY <1>1, <2>2, <2>3 DEF list
<1>7. \A i \in 1 .. Total : saveWorkList'[i] = SaveEntry(SlotNo(i - 1))
  <2>1. CASE saveWorkList = <<>>
    <3>1. Len(saveWorkList) = 0
      BY <2>1
    <3> QED BY <1>2, <1>3, <1>6, <3>1
  <2>2. CASE saveWorkList # <<>>
    <3>1. /\ Len(saveWorkList) >= Total
          /\ \A i \in 1 .. Total : saveWorkList[i] = SaveEntry(SlotNo(i - 1))
      BY <2>2 DEF SavesFollow
    <3>2. \A i \in 1 .. Total : i \in 1 .. Len(saveWorkList)
      BY <1>2, <1>6, <3>1
    <3> QED BY <1>6, <3>1, <3>2
  <2> QED BY <2>1, <2>2
<1>8. Len(saveWorkList') >= Total /\ saveWorkList' # <<>>
  BY <1>2, <1>6
<1>9. /\ \A i : SlotNo(i)' = SlotNo(i)
      /\ \A s : SaveEntry(s)' = SaveEntry(s)
      /\ Total' = Total /\ Tiled'
  BY <1>1, GridStays, ImagesStay DEF SlotNo, SaveEntry, CellAt
<1>10. {SaveEntry(s) : s \in DOMAIN images}' = S
  BY <1>1, <1>9 DEF S
<1> QED BY <1>1, <1>6, <1>7, <1>8, <1>9, <1>10 DEF SavesFollow

LEMMA PassingKeepsWork ==
  ASSUME SavesFollow, Passing
  PROVE  SavesFollow'
<1>1. CASE Tiled /\ stage # "cutting"
  BY <1>1, WorkListKept DEF Passing
<1>2. CASE ~Tiled \/ stage = "cutting"
  <2>1. saveWorkList = <<>> /\ stage # "saving"
    BY <1>2, WorkNeedsTiles DEF SavesFollow
  <2> QED BY <2>1, NoWorkYet DEF Passing
<1> QED BY <1>1, <1>2

(* Between calls of saveAllTiles: a setter, a look-up, a save.              *)
LEMMA RestKeepsWork ==
  ASSUME SavesFollow, UNCHANGED <<saveWorkList, images, grid>>,
         stage \in {"none", "idle"}, stage' = "idle"
  PROVE  SavesFollow'
BY WorkListKept

LEMMA LookupsKeepWork ==
  ASSUME SavesFollow,
         NEW op, NEW asked, NEW found, NEW gx, NEW gy,
         \/ Lookup(op, asked, found, gx, gy)
         \/ Save(op, asked, found, gx, gy)
  PROVE  SavesFollow'
BY RestKeepsWork DEF Lookup, Save, gridVars, tileVars, saveVars

LEMMA NextKeepsWork ==
  ASSUME Inv1, SavesFollow, [TileNext]_allVars
  PROVE  SavesFollow'
<1>1. CASE Configure
  <2>1. CASE Destroy \/ RefusalAborts
    BY <2>1, NoWorkYet DEF Destroy, RefusalAborts, ObjectEnds
  <2>2. CASE ~(Destroy \/ RefusalAborts)
    BY <1>1, <2>2, RestKeepsWork DEF Configure, Create, CreateFast, Construct,
       SetImageCoord, SetScaleLevel, SetTileSize, SetThreadNumber, Setter,
       gridVars, tileVars, saveVars
  <2> QED BY <2>1, <2>2
<1>2. CASE Use
  <2>1. CASE Tiling \/ TilingRefused
    BY <2>1, TilingPasses, PassingKeepsWork
  <2>2. CASE SaveAllTiles
    BY <2>2, SaveAllTilesKeepsWork
  <2>3. ASSUME NEW gx, NEW gy, GetTile(gx, gy) \/ SaveTile(gx, gy)
        PROVE  SavesFollow'
    BY <2>3, LookupsKeepWork DEF GetTile, SaveTile
  <2>4. ASSUME NEW p, NEW op, NEW asked,
               GetTileAt(op, asked, p) \/ SaveTileAt(op, asked, p)
        PROVE  SavesFollow'
    <3>1. CASE Findable(p)
      BY <2>4, <3>1, LookupsKeepWork DEF GetTileAt, SaveTileAt
    <3>2. CASE ~Findable(p)
      BY <2>4, <3>2, LookupsKeepWork DEF GetTileAt, SaveTileAt
    <3> QED BY <3>1, <3>2
  <2> QED BY <1>2, <2>1, <2>2, <2>3, <2>4 DEF Use, GetTileMercator,
          GetTileWithLatLon, SaveTileMercator, SaveTileWithLatLon
<1>3. CASE Proceed
  <2>1. CASE CutSrcImage \/ TilingReturns
    <3>1. saveWorkList = <<>>
      <4>1. ~Tiled \/ stage = "cutting"
        BY <2>1 DEF CutSrcImage, TilingReturns, Inv1, StageFollows
      <4> QED BY <4>1, WorkNeedsTiles
    <3>2. saveWorkList' = saveWorkList /\ stage' \in {"cutting", "idle"}
      BY <2>1 DEF CutSrcImage, TilingReturns, saveVars
    <3> QED BY <3>1, <3>2, NoWorkYet
  <2>2. CASE SaveAllReturns
    BY <2>2, WorkListKept DEF SaveAllReturns, tileVars, gridVars, saveVars
  <2>3. CASE ~(CutSrcImage \/ TilingReturns \/ SaveAllReturns)
    BY <1>3, <2>3, TilingPasses, WaitingPasses, PassingKeepsWork DEF Proceed
  <2> QED BY <2>1, <2>2, <2>3
<1>4. ASSUME NEW t \in Threads, Work(t)
      PROVE  SavesFollow'
  <2>1. CASE CutTile(t) \/ CutTileFails(t)
    <3>1. saveWorkList = <<>>
      BY <2>1, WorkNeedsTiles DEF CutTile, CutTileFails
    <3>2. saveWorkList' = saveWorkList /\ stage' = "cutting"
      BY <2>1 DEF CutTile, CutTileFails, saveVars
    <3> QED BY <3>1, <3>2, NoWorkYet
  <2>2. CASE SaveItem(t)
    BY <2>2, WorkListKept DEF SaveItem, tileVars, gridVars
  <2>3. CASE SaveItemFails(t) \/ OtherStep(t)
    BY <2>3, WaitingPasses, PassingKeepsWork
  <2> QED BY <1>4, <2>1, <2>2, <2>3 DEF Work
<1>5. CASE UNCHANGED allVars
  BY <1>5, WaitingPasses, PassingKeepsWork
<1> QED BY <1>1, <1>2, <1>3, <1>4, <1>5 DEF TileNext

LEMMA InitWork == TileInit => SavesFollow
<1>1. \A S : <<>> \in Seq(S)
  OBVIOUS
<1> QED BY <1>1 DEF TileInit, SavesFollow

-----------------------------------------------------------------------------
(* With a thread for every cut, what succeeded leaves nothing undone.       *)
Inv3 == Inv2 /\ SavesFollow

LEMMA FilledKept ==
  ASSUME FilledInv, UNCHANGED <<images, grid>>,
         stage' # "none" => threadNum' > 0,
         stage = "cutting" => stage' = "cutting",
         stage' = "saving" => stage = "saving" /\ Handled' = Handled,
         DOMAIN files \subseteq DOMAIN files',
         last' = last \/ last'.op # "saveAllTiles"
  PROVE  FilledInv'
<1>1. /\ Slots' = Slots /\ (Tiled' <=> Tiled)
      /\ \A i : SlotNo(i)' = SlotNo(i)
      /\ \A s : CellAt(s)' = CellAt(s)
  BY GridStays, ImagesStay DEF SlotNo, CellAt
<1>2. Tiled' /\ stage' # "cutting" => \A s \in Slots' : images'[s] # Null
  BY <1>1 DEF FilledInv
<1>3. stage' = "saving" => \A i \in Handled' : CellAt(SlotNo(i))' \in DOMAIN files'
  BY <1>1 DEF FilledInv
<1>4. {CellAt(s) : s \in Slots}' = {CellAt(s) : s \in Slots}
  BY <1>1
<1>5. last'.op = "saveAllTiles" /\ last'.ok =>
        Tiled' /\ {CellAt(s) : s \in Slots}' \subseteq DOMAIN files'
  BY <1>1, <1>4 DEF FilledInv
<1> QED BY <1>2, <1>3, <1>5 DEF FilledInv

(* Without tiles there is nothing to be filled.                             *)
LEMMA NothingToFill ==
  ASSUME FilledInv, ~Tiled, UNCHANGED images \/ stage' = "cutting",
         stage' # "none" => threadNum' > 0, stage' # "saving",
         last' = last \/ last'.op # "saveAllTiles"
  PROVE  FilledInv'
<1>1. ~(last'.op = "saveAllTiles" /\ last'.ok)
  BY DEF FilledInv
<1>2. Tiled' => stage' = "cutting"
  BY ImagesStay
<1> QED BY <1>1, <1>2 DEF FilledInv

LEMMA PassingKeepsFilled ==
  ASSUME FilledInv, Passing, stage = "saving" => Tiled
  PROVE  FilledInv'
<1>1. /\ UNCHANGED <<images, files, threadNum>>
      /\ stage' # "none" => threadNum' > 0
      /\ stage' = "saving" <=> stage = "saving"
      /\ stage' = "cutting" <=> stage = "cutting"
  BY DEF FilledInv, Passing
<1>2. last' = last \/ last'.op # "saveAllTiles"
  BY DEF Passing, Answer
<1>3. CASE Tiled
  BY <1>1, <1>2, <1>3, FilledKept DEF Passing
<1>4. CASE ~Tiled
  BY <1>1, <1>2, <1>4, NothingToFill
<1> QED BY <1>3, <1>4

(* Between calls: a setter, a look-up, a save.                              *)
LEMMA RestKeepsFilled ==
  ASSUME FilledInv, stage \in {"none", "idle"}, stage' = "idle",
         UNCHANGED <<images, grid>>, threadNum' = threadNum \/ threadNum' > 0,
         stage = "none" => threadNum' > 0,
         DOMAIN files \subseteq DOMAIN files', last'.op # "saveAllTiles"
  PROVE  FilledInv'
<1>1. threadNum' > 0
  BY DEF FilledInv
<1> QED BY <1>1, FilledKept

LEMMA LookupsKeepFilled ==
  ASSUME FilledInv,
         NEW op, NEW asked, NEW found, NEW gx, NEW gy, op # "saveAllTiles",
         \/ Lookup(op, asked, found, gx, gy)
         \/ Save(op, asked, found, gx, gy)
  PROVE  FilledInv'
<1>1. /\ stage = "idle" /\ stage' = "idle" /\ UNCHANGED <<images, grid, threadNum>>
  BY DEF Lookup, Save, gridVars, tileVars, configVars
<1>2. last'.op = op
  BY DEF Lookup, Save, Answer
<1>3. DOMAIN files \subseteq DOMAIN files'
  <2>1. \/ files' = files
        \/ \E image : WriteFile(<<gx, gy>>, image)
    BY DEF Lookup, Save, saveVars
  <2> QED BY <2>1 DEF WriteFile
<1> QED BY <1>1, <1>2, <1>3, RestKeepsFilled

LEMMA ConfigureKeepsFilled ==
  ASSUME FilledInv, Configure
  PROVE  FilledInv'
<1>1. CASE Destroy \/ RefusalAborts
  <2>1. /\ stage' = "none" /\ images' = NoImages /\ last'.op = "none"
    BY <1>1 DEF Destroy, RefusalAborts, ObjectEnds, Says, Answer
  <2> QED BY <2>1, NoTilesWithoutVector DEF FilledInv
<1>2. CASE ~(Destroy \/ RefusalAborts)
  <2>1. /\ stage \in {"none", "idle"} /\ stage' = "idle"
        /\ UNCHANGED <<images, grid, files>> /\ last'.op # "saveAllTiles"
    BY <1>2 DEF Configure, Create, CreateFast, Construct, SetImageCoord,
       SetScaleLevel, SetTileSize, SetThreadNumber, Setter, Says, Answer,
       gridVars, tileVars, saveVars
  <2>2. /\ threadNum' = threadNum \/ threadNum' > 0
        /\ stage = "none" => threadNum' > 0
    BY <1>2 DEF Configure, Create, CreateFast, Construct, SetImageCoord,
       SetScaleLevel, SetTileSize, SetThreadNumber, Setter
  <2> QED BY <2>1, <2>2, RestKeepsFilled
<1> QED BY <1>1, <1>2

LEMMA CutSrcImageKeepsFilled ==
  ASSUME EveryCutHasThreads, Inv1, FilledInv, CutSrcImage
  PROVE  FilledInv'
<1>1. /\ stage = "cut" /\ stage' = "cutting" /\ last' = last
      /\ threadNum' = CutThreads(Total, threadNum)
  BY DEF CutSrcImage
<1>2. /\ ~Tiled /\ Total \in CutTotals /\ threadNum \in ThreadsInUse
  BY <1>1 DEF Inv1, StageFollows, GridIsPlaced, Configured
<1>3. threadNum > 0
  BY <1>1 DEF FilledInv
<1>4. threadNum' > 0
  BY <1>1, <1>2, <1>3 DEF EveryCutHasThreads
<1> QED BY <1>1, <1>2, <1>4, NothingToFill

LEMMA CutKeepsFilled ==
  ASSUME Inv1', FilledInv, stage = "cutting", stage' = "cutting",
         UNCHANGED <<threadNum, grid, files, last>>
  PROVE  FilledInv'
<1>1. Tiled' /\ Slots' = Slots /\ \A s : CellAt(s)' = CellAt(s)
  BY GridStays DEF Inv1, StageFollows, CellAt
<1>2. {CellAt(s) : s \in Slots}' = {CellAt(s) : s \in Slots}
  BY <1>1
<1> QED BY <1>1, <1>2 DEF FilledInv

(* A cut that succeeds has handled the item of every slot.                  *)
LEMMA TilingReturnsKeepsFilled ==
  ASSUME Inv2, FilledInv, TilingReturns
  PROVE  FilledInv'
<1>1. /\ stage = "cutting" /\ ~running /\ stage' = "idle"
      /\ UNCHANGED <<threadNum, grid>> /\ last'.op = "tiling"
      /\ IF outcome = "ok" THEN images' = images ELSE images' = NoImages
  BY DEF TilingReturns, Says, Answer, configVars, gridVars, ImagesAfterFailure
<1>2. threadNum' > 0
  BY <1>1 DEF FilledInv
<1>3. CASE outcome # "ok"
  BY <1>1, <1>2, <1>3, NoTilesWithoutVector DEF FilledInv
<1>4. CASE outcome = "ok"
  <2>1. /\ PoolTypeOK /\ PoolInv /\ OutcomeFollows
        /\ job.total = Total /\ job.threads > 0 /\ GridIsPlaced
    BY <1>1 DEF Inv2, Inv1, LoopInv, StageFollows, FilledInv
  <2>2. ASSUME NEW s \in Slots
        PROVE  images[s] # Null
    <3>1. PICK i \in 0 .. Total - 1 : SlotNo(i) = s
      BY <2>1, EverySlotHasANumber
    <3>2. i \in Items(job)
      BY <2>1, <3>1 DEF Items
    <3>3. i \in Handled
      BY <1>1, <1>4, <2>1, <3>2, SuccessHandlesAll
    <3>4. images[s] = TileFor(s)
      BY <1>1, <3>1, <3>2, <3>3 DEF Inv2, BitmapInv, SlotsFollow
    <3>5. TileFor(s).kind = "tile"
      BY DEF TileFor, TileBitmap
    <3> QED BY <3>4, <3>5, NullIsNoTile
  <2>3. Slots' = Slots
    BY <1>1, GridStays
  <2> QED BY <1>1, <1>2, <1>4, <2>2, <2>3 DEF FilledInv
<1> QED BY <1>3, <1>4

LEMMA SaveAllTilesKeepsFilled ==
  ASSUME FilledInv, SaveAllTiles
  PROVE  FilledInv'
<1>1. /\ stage = "idle" /\ stage' = "saving" /\ handledBy' = {}
      /\ UNCHANGED <<threadNum, grid, images, files, last>>
  BY DEF SaveAllTiles, Begin, NewCall, configVars, gridVars, tileVars
<1>2. /\ Slots' = Slots /\ (Tiled' <=> Tiled) /\ \A s : CellAt(s)' = CellAt(s)
  BY <1>1, GridStays, ImagesStay DEF CellAt
<1>3. {CellAt(s) : s \in Slots}' = {CellAt(s) : s \in Slots}
  BY <1>2
<1>4. Handled' = {}
  BY <1>1 DEF Handled
<1> QED BY <1>1, <1>2, <1>3, <1>4 DEF FilledInv

(* The item a worker of saveAllTiles is at: the tile of a slot.             *)
LEMMA SaveWorkFacts ==
  ASSUME Inv1, SavesFollow, stage = "saving", NEW t, HandleItem(t) \/ FailItem(t)
  PROVE  LET x == worker[t].next
         IN  /\ x \in Items(job) /\ x \in 0 .. Total - 1
             /\ SlotNo(x) \in Slots /\ SlotNo(x) \in DOMAIN images
             /\ SaveWork(t) = SaveEntry(SlotNo(x))
<1> DEFINE x == worker[t].next
<1>1. /\ PoolTypeOK /\ PoolInv /\ Tiled /\ GridIsPlaced /\ job.total = Total
      /\ DOMAIN images = Slots
  BY DEF Inv1, LoopInv, ObjectTypes, StageFollows
<1>2. /\ t \in Callee(job) /\ HasItem(t)
  BY <1>1, JobFacts DEF HandleItem, FailItem
<1>3. x \in Items(job)
  BY <1>1, <1>2, ItemIsOpen
<1>4. x \in 0 .. Total - 1 /\ x + 1 \in 1 .. Total /\ x + 1 - 1 = x
  BY <1>1, <1>3, GridFacts DEF Items
<1>5. saveWorkList[x + 1] = SaveEntry(SlotNo(x + 1 - 1))
  BY <1>4 DEF SavesFollow
<1>6. SlotNo(x) \in Slots
  BY <1>1, <1>4, SlotNoIsSlot
<1> QED BY <1>1, <1>3, <1>4, <1>5, <1>6 DEF SaveWork

LEMMA SaveItemKeepsFilled ==
  ASSUME Inv1, SavesFollow, FilledInv, NEW t, SaveItem(t)
  PROVE  FilledInv'
<1> DEFINE x == worker[t].next
           cell == CellAt(SlotNo(x))
<1>1. /\ stage = "saving" /\ stage' = stage /\ HandleItem(t)
      /\ WriteFile(SaveWork(t).cell, SaveWork(t).image)
      /\ UNCHANGED <<threadNum, grid, images, last>>
  BY DEF SaveItem, configVars, gridVars, tileVars
<1>2. SaveWork(t).cell = cell
  BY <1>1, SaveWorkFacts DEF SaveEntry
<1>3. DOMAIN files' = DOMAIN files \union {cell}
  BY <1>1, <1>2 DEF WriteFile
<1>4. Handled' = Handled \union {x}
  BY <1>1, HandledGrows DEF HandleItem
<1>5. /\ Slots' = Slots /\ (Tiled' <=> Tiled) /\ \A s : CellAt(s)' = CellAt(s)
      /\ \A i : SlotNo(i)' = SlotNo(i)
  BY <1>1, GridStays, ImagesStay DEF CellAt, SlotNo
<1>6. {CellAt(s) : s \in Slots}' = {CellAt(s) : s \in Slots}
  BY <1>5
<1>7. \A i \in Handled' : CellAt(SlotNo(i)) \in DOMAIN files'
  BY <1>1, <1>3, <1>4 DEF FilledInv
<1> QED BY <1>1, <1>3, <1>5, <1>6, <1>7 DEF FilledInv

(* saveAllTiles that succeeds has handled every item, each a file.          *)
LEMMA SaveAllReturnsKeepsFilled ==
  ASSUME Inv1, FilledInv, SaveAllReturns
  PROVE  FilledInv'
<1>1. /\ stage = "saving" /\ ~running /\ stage' = "idle"
      /\ last' = Answer("saveAllTiles", <<>>, outcome = "ok", Null)
      /\ UNCHANGED <<threadNum, grid, images, files>>
  BY DEF SaveAllReturns, Says, configVars, gridVars, tileVars, saveVars
<1>2. /\ PoolTypeOK /\ PoolInv /\ OutcomeFollows /\ Tiled
      /\ job.total = Total /\ job.threads > 0 /\ GridIsPlaced
  BY <1>1 DEF Inv1, LoopInv, StageFollows, FilledInv
<1>3. /\ Slots' = Slots /\ (Tiled' <=> Tiled) /\ \A s : CellAt(s)' = CellAt(s)
  BY <1>1, GridStays, ImagesStay DEF CellAt
<1>4. {CellAt(s) : s \in Slots}' = {CellAt(s) : s \in Slots}
  BY <1>3
<1>5. ASSUME outcome = "ok"
      PROVE  {CellAt(s) : s \in Slots} \subseteq DOMAIN files
  <2>1. SUFFICES ASSUME NEW s \in Slots PROVE CellAt(s) \in DOMAIN files
    OBVIOUS
  <2>2. PICK i \in 0 .. Total - 1 : SlotNo(i) = s
    BY <1>2, EverySlotHasANumber
  <2>3. i \in Items(job)
    BY <1>2, <2>2 DEF Items
  <2>4. i \in Handled
    BY <1>1, <1>2, <1>5, <2>3, SuccessHandlesAll
  <2> QED BY <1>1, <2>2, <2>4 DEF FilledInv
<1>6. last'.ok <=> outcome = "ok"
  BY <1>1 DEF Answer
<1> QED BY <1>1, <1>2, <1>3, <1>4, <1>5, <1>6 DEF FilledInv

LEMMA NextKeepsFilled ==
  ASSUME EveryCutHasThreads, Inv3, Inv1', FilledInv, [TileNext]_allVars
  PROVE  FilledInv'
<1> USE DEF Inv3
<1>1. Inv1 /\ (stage = "saving" => Tiled)
  BY DEF Inv2, Inv1, StageFollows
<1>2. CASE Configure
  BY <1>2, ConfigureKeepsFilled
<1>3. CASE Use
  <2>1. CASE Tiling \/ TilingRefused
    BY <1>1, <2>1, TilingPasses, PassingKeepsFilled
  <2>2. CASE SaveAllTiles
    BY <2>2, SaveAllTilesKeepsFilled
  <2>3. ASSUME NEW gx, NEW gy, GetTile(gx, gy) \/ SaveTile(gx, gy)
        PROVE  FilledInv'
    BY <2>3, LookupsKeepFilled DEF GetTile, SaveTile
  <2>4. ASSUME NEW p, NEW op, NEW asked, op # "saveAllTiles",
               GetTileAt(op, asked, p) \/ SaveTileAt(op, asked, p)
        PROVE  FilledInv'
    <3>1. CASE Findable(p)
      BY <2>4, <3>1, LookupsKeepFilled DEF GetTileAt, SaveTileAt
    <3>2. CASE ~Findable(p)
      BY <2>4, <3>2, LookupsKeepFilled DEF GetTileAt, SaveTileAt
    <3> QED BY <3>1, <3>2
  <2> QED BY <1>3, <2>1, <2>2, <2>3, <2>4 DEF Use, GetTileMercator,
          GetTileWithLatLon, SaveTileMercator, SaveTileWithLatLon
<1>4. CASE Proceed
  <2>1. CASE CutSrcImage
    BY <1>1, <2>1, CutSrcImageKeepsFilled
  <2>2. CASE TilingReturns
    BY <2>2, TilingReturnsKeepsFilled
  <2>3. CASE SaveAllReturns
    BY <1>1, <2>3, SaveAllReturnsKeepsFilled
  <2>4. CASE ~(CutSrcImage \/ TilingReturns \/ SaveAllReturns)
    BY <1>1, <1>4, <2>4, TilingPasses, WaitingPasses, PassingKeepsFilled
       DEF Proceed
  <2> QED BY <2>1, <2>2, <2>3, <2>4
<1>5. ASSUME NEW t \in Threads, Work(t)
      PROVE  FilledInv'
  <2>1. CASE CutTile(t) \/ CutTileFails(t)
    <3>1. /\ stage = "cutting" /\ stage' = "cutting"
          /\ UNCHANGED <<threadNum, grid, files, last>>
      BY <2>1 DEF CutTile, CutTileFails, configVars, gridVars, saveVars
    <3> QED BY <3>1, CutKeepsFilled
  <2>2. CASE SaveItem(t)
    BY <1>1, <2>2, SaveItemKeepsFilled
  <2>3. CASE SaveItemFails(t) \/ OtherStep(t)
    BY <1>1, <2>3, WaitingPasses, PassingKeepsFilled
  <2> QED BY <1>5, <2>1, <2>2, <2>3 DEF Work
<1>6. CASE UNCHANGED allVars
  BY <1>1, <1>6, WaitingPasses, PassingKeepsFilled
<1> QED BY <1>2, <1>3, <1>4, <1>5, <1>6 DEF TileNext

LEMMA InitFilled == TileInit => FilledInv
BY NoTilesWithoutVector DEF TileInit, FilledInv, Answer

-----------------------------------------------------------------------------
(* With tiles as large as the cells, what there is to be seen shows what it *)
(* stands for.                                                              *)
LEMMA CellAtSlotOf ==
  ASSUME GridIsPlaced, NEW gx \in Int, NEW gy \in Int
  PROVE  CellAt(SlotOf(gx, gy)) = <<gx, gy>>
<1>1. grid.x0 \in Int /\ grid.y0 \in Int
  BY GridFacts
<1>2. grid.x0 + (gx - grid.x0) = gx /\ grid.y0 - (grid.y0 - gy) = gy
  BY <1>1
<1> QED BY <1>2 DEF CellAt, SlotOf

(* What is cut out for a slot is the cell the slot stands for: the canvas   *)
(* begins with a whole cell.                                                *)
LEMMA TileForShowsItsCell ==
  ASSUME Inv2, stage = "cutting", tileSize = [w |-> Base, h |-> Base],
         NEW s \in Slots
  PROVE  TileFor(s).area = CellArea(CellAt(s)[1], CellAt(s)[2])
<1> DEFINE px == pixel.x0
           py == pixel.y0
           gx == grid.x0
           gy == grid.y0
<1>1. /\ srcImage.area = CanvasArea(px, py, canvas)
      /\ px \in Nat /\ px \div Base = gx /\ py \in Nat /\ py \div Base = gy
  BY DEF Inv2, BitmapInv, CanvasFollows, CellOf
<1>2. Base \in Nat \ {0}
  BY GeometryAssumption
<1>3. /\ px = Base * gx + (px % Base) /\ px % Base \in 0 .. Base - 1
      /\ py = Base * gy + (py % Base) /\ py % Base \in 0 .. Base - 1
      /\ gx \in Nat /\ gy \in Nat
  BY <1>1, <1>2, DivMod
<1>4. s[1] \in Nat /\ s[2] \in Nat
  BY DEF Slots
<1> DEFINE left == px - (px % Base)
           top  == py + (Base - (py % Base))
<1>5. TileFor(s).area = Area(left + s[2] * Base, top - s[1] * Base, Base, Base)
  <2>1. TileFor(s).area = CutArea(srcImage.area, s[2] * Base, s[1] * Base, Base, Base)
    BY DEF TileFor, TileBitmap
  <2>2. srcImage.area.left = left /\ srcImage.area.top = top
    BY <1>1 DEF CanvasArea, Area, PasteLeft, PasteTop
  <2> HIDE DEF left, top
  <2> QED BY <2>1, <2>2 DEF CutArea
<1>6. left = Base * gx /\ top = Base * gy + Base
  <2> HIDE DEF px, py, gx, gy
  <2>1. Base * gx \in Nat /\ Base * gy \in Nat
    BY <1>2, <1>3, ProductGrowsToo
  <2>2. px \in Nat /\ py \in Nat
    BY <1>1
  <2> QED BY <1>2, <1>3, <2>1, <2>2
<1> HIDE DEF left, top, px, py, gx, gy
<1>7. /\ left + s[2] * Base = (gx + s[2]) * Base
      /\ top - s[1] * Base = (gy - s[1] + 1) * Base
  <2>1. /\ (gx + s[2]) * Base = Base * gx + s[2] * Base
        /\ (gy - s[1] + 1) * Base = Base * gy - s[1] * Base + Base
        /\ s[1] * Base \in Nat /\ s[2] * Base \in Nat
        /\ Base * gx \in Nat /\ Base * gy \in Nat
    BY <1>2, <1>3, <1>4, ProductGrowsToo
  <2> QED BY <1>2, <1>6, <2>1
<1>8. CellAt(s)[1] = gx + s[2] /\ CellAt(s)[2] = gy - s[1]
  BY DEF CellAt, gx, gy
<1> QED BY <1>5, <1>7, <1>8 DEF CellArea

(* The cell of a pixel shows the pixel.                                     *)
LEMMA CellShowsItsPixels ==
  ASSUME NEW px \in Nat, NEW py \in Nat
  PROVE  Shows(CellArea(CellOf(px), CellOf(py)), px, py)
<1> DEFINE gx == px \div Base
           gy == py \div Base
           area == CellArea(gx, gy)
<1>1. Base \in Nat \ {0}
  BY GeometryAssumption
<1>2. /\ px = Base * gx + (px % Base) /\ px % Base \in 0 .. Base - 1
      /\ py = Base * gy + (py % Base) /\ py % Base \in 0 .. Base - 1
      /\ gx \in Nat /\ gy \in Nat
  BY <1>1, DivMod
<1>3. /\ area.left = gx * Base /\ area.top = (gy + 1) * Base
      /\ area.w = Base /\ area.h = Base
  BY DEF CellArea, Area
<1> HIDE DEF gx, gy
<1>4. /\ gx * Base = Base * gx /\ (gy + 1) * Base = Base * gy + Base
      /\ Base * gx \in Nat /\ Base * gy \in Nat
  BY <1>1, <1>2, ProductGrowsToo
<1> HIDE DEF area
<1>5. Shows(area, px, py)
  BY <1>1, <1>2, <1>3, <1>4 DEF Shows
<1> QED BY <1>5 DEF area, gx, gy, CellOf

-----------------------------------------------------------------------------
FilesAreRight ==
  \A cell \in DOMAIN files : files[cell].area = CellArea(cell[1], cell[2])

LEMMA TilesStayRight ==
  ASSUME TileShowsItsCell, images' = images, grid' = grid \/ ~Tiled
  PROVE  TileShowsItsCell'
<1>1. CASE grid' = grid
  BY <1>1 DEF TileShowsItsCell, CellAt
<1>2. CASE ~Tiled
  BY <1>2, NoTilesWithoutVector DEF TileShowsItsCell
<1> QED BY <1>1, <1>2

LEMMA AnswersStayRight ==
  ASSUME AnswersWhatWasAsked,
         (last' = last /\ scaleLevel' = scaleLevel) \/ last'.image = Null
  PROVE  AnswersWhatWasAsked'
BY DEF AnswersWhatWasAsked, Zoom

LEMMA WrittenFileIsRight ==
  ASSUME FilesAreRight, NEW gx, NEW gy, NEW image,
         image.area = CellArea(gx, gy), WriteFile(<<gx, gy>>, image)
  PROVE  FilesAreRight'
<1> DEFINE cell == <<gx, gy>>
<1>1. cell[1] = gx /\ cell[2] = gy
  OBVIOUS
<1>2. /\ DOMAIN files' = DOMAIN files \union {cell}
      /\ \A c \in DOMAIN files' : files'[c] = IF c = cell THEN image ELSE files[c]
  BY DEF WriteFile
<1> HIDE DEF cell
<1> QED BY <1>1, <1>2 DEF FilesAreRight

LEMMA ContentKept ==
  ASSUME ContentInv, UNCHANGED <<images, tileSize, files>>,
         grid' = grid \/ ~Tiled,
         (last' = last /\ scaleLevel' = scaleLevel) \/ last'.image = Null
  PROVE  ContentInv'
BY TilesStayRight, AnswersStayRight DEF ContentInv

LEMMA PassingKeepsContent ==
  ASSUME ContentInv, Passing
  PROVE  ContentInv'
<1>1. (last' = last /\ scaleLevel' = scaleLevel) \/ last'.image = Null
  BY DEF Passing, Answer
<1> QED BY <1>1, ContentKept DEF Passing

LEMMA ConfigureKeepsContent ==
  ASSUME TilesAreCells, ContentInv, Configure
  PROVE  ContentInv'
<1>1. CASE Destroy \/ RefusalAborts
  <2>1. /\ images' = NoImages /\ files' = <<>> /\ last'.image = Null
        /\ tileSize' = [w |-> Base, h |-> Base]
    BY <1>1 DEF Destroy, RefusalAborts, ObjectEnds, Says, Answer
  <2>2. DOMAIN images' = {} /\ DOMAIN files' = {}
    BY <2>1, NoImagesIsEmpty DEF NoImages
  <2> QED BY <2>1, <2>2 DEF ContentInv, TileShowsItsCell, AnswersWhatWasAsked
<1>2. CASE ~(Destroy \/ RefusalAborts)
  <2>1. /\ UNCHANGED <<images, grid, files>> /\ last'.image = Null
    BY <1>1, <1>2 DEF Configure, Create, CreateFast, Construct, SetImageCoord,
       SetScaleLevel, SetTileSize, SetThreadNumber, Setter, Says, Answer,
       gridVars, tileVars, saveVars
  <2>2. tileSize' = tileSize
    <3>1. ASSUME NEW w \in TileSizes, NEW h \in TileSizes, SetTileSize(w, h)
          PROVE  tileSize' = tileSize
      <4>1. \/ tileSize' = tileSize
            \/ w > 0 /\ h > 0 /\ tileSize' = [w |-> w, h |-> h]
        BY <3>1 DEF SetTileSize, LegalSize
      <4> QED BY <3>1, <4>1 DEF TilesAreCells, ContentInv
    <3>2. CASE ~\E w, h \in TileSizes : SetTileSize(w, h)
      BY <1>2, <3>2 DEF Configure, Create, CreateFast, Construct, SetImageCoord,
         SetScaleLevel, SetThreadNumber
    <3> QED BY <3>1, <3>2
  <2> QED BY <2>1, <2>2, ContentKept
<1> QED BY <1>1, <1>2

(* A look-up hands out the tile of its cell, or nothing.                    *)
LEMMA LookupKeepsContent ==
  ASSUME Inv1, ContentInv, NEW op, NEW asked, NEW found, NEW gx \in Int,
         NEW gy \in Int, Lookup(op, asked, found, gx, gy),
         op = "getTile" => asked = <<gx, gy>>,
         op = "getTileMercator" /\ found =>
           Findable(asked) /\ asked \in Points /\ gx = GridX(asked.x)
             /\ gy = GridY(asked.y),
         op \notin {"saveTile", "saveTileMercator"}
  PROVE  ContentInv'
<1>1. UNCHANGED <<images, grid, tileSize, files, scaleLevel>>
  BY DEF Lookup, gridVars, tileVars, saveVars, configVars
<1>2. CASE ~(found /\ Served(gx, gy))
  <2>1. last'.image = Null
    BY <1>2 DEF Lookup, Answer
  <2> QED BY <1>1, <2>1, ContentKept
<1>3. CASE found /\ Served(gx, gy)
  <2> DEFINE image == images[SlotOf(gx, gy)]
  <2>1. /\ SlotOf(gx, gy) \in DOMAIN images /\ GridIsPlaced
        /\ RowSlot(gx, gy) = SlotOf(gx, gy) /\ Zoom \in Nat \ {0}
    BY <1>3, ServedIsFirstRow, TiledFacts DEF Served
  <2>2. last' = Answer(op, asked, TRUE, image)
    BY <1>3, <2>1 DEF Lookup, ImageAt
  <2>3. image # Null => image.area = CellArea(gx, gy)
    BY <2>1, CellAtSlotOf DEF ContentInv, TileShowsItsCell
  <2>4. /\ last'.op = op /\ last'.asked = asked /\ last'.image = image
    BY <2>2 DEF Answer
  <2> HIDE DEF image
  <2>5. AnswersWhatWasAsked'
    <3>1. SUFFICES ASSUME image # Null
                   PROVE  /\ op = "getTile" => image.area = CellArea(asked[1], asked[2])
                          /\ op = "getTileMercator" =>
                               Shows(image.area, ToPixel(Zoom, asked.x),
                                                 ToPixel(Zoom, asked.y))
      BY <1>1, <2>4 DEF AnswersWhatWasAsked, Zoom
    <3>2. op = "getTile" => image.area = CellArea(asked[1], asked[2])
      BY <2>3, <3>1
    <3>3. ASSUME op = "getTileMercator"
          PROVE  Shows(image.area, ToPixel(Zoom, asked.x), ToPixel(Zoom, asked.y))
      <4>1. /\ Findable(asked) /\ asked \in Points
            /\ gx = CellOf(ToPixel(Zoom, asked.x))
            /\ gy = CellOf(ToPixel(Zoom, asked.y))
        BY <1>3, <3>3 DEF GridX, GridY, GridOf
      <4>2. asked.x \in Nat /\ asked.y \in Nat
        BY <4>1, TileAssumption DEF Findable, LegalMc
      <4>3. ToPixel(Zoom, asked.x) \in Nat /\ ToPixel(Zoom, asked.y) \in Nat
        BY <2>1, <4>2, PixelIsNat
      <4> QED BY <2>3, <3>1, <4>1, <4>3, CellShowsItsPixels
    <3> QED BY <3>2, <3>3
  <2> QED BY <1>1, <2>5, TilesStayRight DEF ContentInv
<1> QED BY <1>2, <1>3

(* So does a save, and the file it writes is that tile.                     *)
LEMMA SaveKeepsContent ==
  ASSUME Inv1, ContentInv, NEW op, NEW asked, NEW found, NEW gx \in Int,
         NEW gy \in Int, Save(op, asked, found, gx, gy),
         op = "saveTile" => asked = <<gx, gy>>,
         op = "saveTileMercator" /\ found =>
           Findable(asked) /\ asked \in Points /\ gx = GridX(asked.x)
             /\ gy = GridY(asked.y),
         op \notin {"getTile", "getTileMercator"}
  PROVE  ContentInv'
<1> DEFINE image == images[SlotOf(gx, gy)]
<1>1. UNCHANGED <<images, grid, tileSize, scaleLevel>>
  BY DEF Save, gridVars, tileVars, configVars
<1>2. CASE files' = files /\ last' = Answer(op, asked, FALSE, Null)
  <2>1. last'.image = Null
    BY <1>2 DEF Answer
  <2> QED BY <1>1, <1>2, <2>1, ContentKept
<1>3. CASE /\ found /\ Saveable(gx, gy) /\ ImageAt(SlotOf(gx, gy)) # Null
           /\ WriteFile(<<gx, gy>>, ImageAt(SlotOf(gx, gy)))
           /\ last' = Answer(op, asked, TRUE, ImageAt(SlotOf(gx, gy)))
  <2>1. /\ SlotOf(gx, gy) \in DOMAIN images /\ GridIsPlaced /\ Zoom \in Nat \ {0}
    BY <1>3, TiledFacts DEF Saveable, InGrid
  <2>2. /\ last' = Answer(op, asked, TRUE, image) /\ image # Null
        /\ WriteFile(<<gx, gy>>, image)
    BY <1>3, <2>1 DEF ImageAt
  <2>3. image.area = CellArea(gx, gy)
    BY <2>1, <2>2, CellAtSlotOf DEF ContentInv, TileShowsItsCell
  <2>4. /\ last'.op = op /\ last'.asked = asked /\ last'.image = image
    BY <2>2 DEF Answer
  <2> HIDE DEF image
  <2>5. AnswersWhatWasAsked'
    <3>1. SUFFICES /\ op = "saveTile" => image.area = CellArea(asked[1], asked[2])
                   /\ op = "saveTileMercator" =>
                        Shows(image.area, ToPixel(Zoom, asked.x),
                                          ToPixel(Zoom, asked.y))
      BY <1>1, <2>4 DEF AnswersWhatWasAsked, Zoom
    <3>2. op = "saveTile" => image.area = CellArea(asked[1], asked[2])
      BY <2>3
    <3>3. ASSUME op = "saveTileMercator"
          PROVE  Shows(image.area, ToPixel(Zoom, asked.x), ToPixel(Zoom, asked.y))
      <4>1. /\ Findable(asked) /\ asked \in Points
            /\ gx = CellOf(ToPixel(Zoom, asked.x))
            /\ gy = CellOf(ToPixel(Zoom, asked.y))
        BY <1>3, <3>3 DEF GridX, GridY, GridOf
      <4>2. asked.x \in Nat /\ asked.y \in Nat
        BY <4>1, TileAssumption DEF Findable, LegalMc
      <4>3. ToPixel(Zoom, asked.x) \in Nat /\ ToPixel(Zoom, asked.y) \in Nat
        BY <2>1, <4>2, PixelIsNat
      <4> QED BY <2>3, <4>1, <4>3, CellShowsItsPixels
    <3> QED BY <3>2, <3>3
  <2>6. FilesAreRight'
    BY <2>2, <2>3, WrittenFileIsRight DEF ContentInv, FilesAreRight
  <2> QED BY <1>1, <2>5, <2>6, TilesStayRight DEF ContentInv, FilesAreRight
<1> QED BY <1>2, <1>3 DEF Save

(* The same for a point, which getGridCoord may refuse.                     *)
LEMMA PointsKeepContent ==
  ASSUME Inv1, ContentInv, NEW p \in Points,
         \/ GetTileMercator(p) \/ GetTileWithLatLon(p)
         \/ SaveTileMercator(p) \/ SaveTileWithLatLon(p)
  PROVE  ContentInv'
<1>1. PICK op \in {"getTileMercator", "getTileWithLatLon"} :
        \/ GetTileAt(op, p, p)
        \/ SaveTileAt("saveTileMercator", p, p)
        \/ SaveTileAt("saveTileWithLatLon", p, p)
  BY DEF GetTileMercator, GetTileWithLatLon, SaveTileMercator, SaveTileWithLatLon
<1>2. 0 \in Int
  OBVIOUS
<1>3. CASE GetTileAt(op, p, p)
  <2>1. CASE Findable(p)
    <3>1. Lookup(op, p, TRUE, GridX(p.x), GridY(p.y))
      BY <1>3, <2>1 DEF GetTileAt
    <3> QED BY <1>1, <2>1, <3>1, FoundCell, LookupKeepsContent
  <2>2. CASE ~Findable(p)
    <3>1. Lookup(op, p, FALSE, 0, 0)
      BY <1>3, <2>2 DEF GetTileAt
    <3> QED BY <1>1, <1>2, <3>1, LookupKeepsContent
  <2> QED BY <2>1, <2>2
<1>4. ASSUME NEW name \in {"saveTileMercator", "saveTileWithLatLon"},
             SaveTileAt(name, p, p)
      PROVE  ContentInv'
  <2>1. CASE Findable(p)
    <3>1. Save(name, p, TRUE, GridX(p.x), GridY(p.y))
      BY <1>4, <2>1 DEF SaveTileAt
    <3> QED BY <1>4, <2>1, <3>1, FoundCell, SaveKeepsContent
  <2>2. CASE ~Findable(p)
    <3>1. Save(name, p, FALSE, 0, 0)
      BY <1>4, <2>2 DEF SaveTileAt
    <3> QED BY <1>2, <1>4, <3>1, SaveKeepsContent
  <2> QED BY <2>1, <2>2
<1> QED BY <1>1, <1>3, <1>4

(* The cut: empty slots, then a tile where its item is handled.             *)
LEMMA CutSrcImageKeepsContent ==
  ASSUME ContentInv, CutSrcImage
  PROVE  ContentInv'
<1>1. /\ images' = [s \in Slots |-> Null]
      /\ UNCHANGED <<tileSize, files, last, scaleLevel>>
  BY DEF CutSrcImage, saveVars
<1>2. TileShowsItsCell'
  BY <1>1 DEF TileShowsItsCell
<1> QED BY <1>1, <1>2, AnswersStayRight DEF ContentInv

LEMMA CutTileKeepsContent ==
  ASSUME Inv2, ContentInv, NEW t, CutTile(t) \/ CutTileFails(t)
  PROVE  ContentInv'
<1> DEFINE s == SlotNo(worker[t].next)
           tile == CutOut(TileWork(t))
<1>1. /\ stage = "cutting"
      /\ HandleItem(t) \/ FailItem(t)
      /\ StoreTile(TileWork(t), tile) \/ StoreTile(TileWork(t), Null)
      /\ UNCHANGED <<grid, tileSize, files, last, scaleLevel>>
  BY DEF CutTile, CutTileFails, gridVars, configVars, saveVars
<1>2. /\ s \in Slots /\ TileWork(t).try = env.tilings
      /\ TileWork(t).slot = s /\ tile = TileFor(s)
  BY <1>1, TileWorkFacts
<1>3. DOMAIN images = Slots
  BY <1>1, TiledFacts DEF Inv2, Inv1, StageFollows
<1>4. tile.area = CellArea(CellAt(s)[1], CellAt(s)[2])
  BY <1>1, <1>2, TileForShowsItsCell DEF ContentInv
<1> HIDE DEF s, tile
<1>5. /\ DOMAIN images' = Slots
      /\ \A a \in Slots : images'[a] = images[a] \/ (a = s /\ images'[a] \in {tile, Null})
  BY <1>1, <1>2, <1>3 DEF StoreTile
<1>6. \A a : CellAt(a)' = CellAt(a)
  BY <1>1 DEF CellAt
<1>7. TileShowsItsCell'
  <2>1. SUFFICES ASSUME NEW a \in Slots, images'[a] # Null
                 PROVE  images'[a].area = CellArea(CellAt(a)[1], CellAt(a)[2])
    BY <1>5, <1>6 DEF TileShowsItsCell
  <2>2. CASE images'[a] = images[a]
    BY <1>3, <2>1, <2>2 DEF ContentInv, TileShowsItsCell
  <2>3. CASE a = s /\ images'[a] \in {tile, Null}
    BY <1>4, <2>1, <2>3
  <2> QED BY <1>5, <2>2, <2>3
<1> QED BY <1>1, <1>7, AnswersStayRight DEF ContentInv

LEMMA TilingReturnsKeepsContent ==
  ASSUME ContentInv, TilingReturns
  PROVE  ContentInv'
<1>1. /\ images' = images \/ images' = NoImages
      /\ UNCHANGED <<grid, tileSize, files>> /\ last'.image = Null
  BY DEF TilingReturns, ImagesAfterFailure, Says, Answer, gridVars, configVars,
     saveVars
<1>2. CASE images' = images
  BY <1>1, <1>2, ContentKept
<1>3. CASE images' = NoImages
  BY <1>1, <1>3, NoTilesWithoutVector, AnswersStayRight
     DEF ContentInv, TileShowsItsCell
<1> QED BY <1>1, <1>2, <1>3

(* A worker of saveAllTiles writes the tile of a slot for its cell.         *)
LEMMA SaveItemKeepsContent ==
  ASSUME Inv1, SavesFollow, ContentInv, NEW t, SaveItem(t)
  PROVE  ContentInv'
<1> DEFINE s == SlotNo(worker[t].next)
           cell == CellAt(s)
<1>1. /\ stage = "saving" /\ HandleItem(t) /\ SaveWork(t).image # Null
      /\ WriteFile(SaveWork(t).cell, SaveWork(t).image)
      /\ UNCHANGED <<images, grid, tileSize, last, scaleLevel>>
  BY DEF SaveItem, gridVars, tileVars, configVars
<1>2. /\ s \in DOMAIN images /\ SaveWork(t).image = images[s]
      /\ SaveWork(t).cell = cell
  BY <1>1, SaveWorkFacts DEF SaveEntry
<1>3. cell = <<cell[1], cell[2]>>
  BY DEF CellAt
<1>4. images[s].area = CellArea(cell[1], cell[2])
  BY <1>1, <1>2 DEF ContentInv, TileShowsItsCell
<1> HIDE DEF s, cell
<1>5. WriteFile(<<cell[1], cell[2]>>, images[s])
  BY <1>1, <1>2, <1>3
<1>6. FilesAreRight'
  BY <1>4, <1>5, WrittenFileIsRight DEF ContentInv, FilesAreRight
<1> QED BY <1>1, <1>6, TilesStayRight, AnswersStayRight DEF ContentInv, FilesAreRight

LEMMA NextKeepsContent ==
  ASSUME TilesAreCells, Inv3, ContentInv, [TileNext]_allVars
  PROVE  ContentInv'
<1> USE DEF Inv3
<1>1. Inv1
  BY DEF Inv2
<1>2. CASE Configure
  BY <1>2, ConfigureKeepsContent
<1>3. CASE Use
  <2>1. CASE Tiling \/ TilingRefused
    BY <1>1, <2>1, TilingPasses, PassingKeepsContent
  <2>2. CASE SaveAllTiles
    <3>1. UNCHANGED <<images, grid, tileSize, files, last, scaleLevel>>
      BY <2>2 DEF SaveAllTiles, gridVars, tileVars, configVars
    <3> QED BY <3>1, ContentKept
  <2>3. ASSUME NEW gx \in WindowX, NEW gy \in WindowY, GetTile(gx, gy)
        PROVE  ContentInv'
    <3>1. Lookup("getTile", <<gx, gy>>, TRUE, gx, gy) /\ gx \in Int /\ gy \in Int
      BY <2>3, WindowIsInt DEF GetTile
    <3>2. /\ "getTile" # "getTileMercator"
          /\ "getTile" \notin {"saveTile", "saveTileMercator"}
      OBVIOUS
    <3> QED BY <1>1, <3>1, <3>2, LookupKeepsContent
  <2>4. ASSUME NEW gx \in WindowX, NEW gy \in WindowY, SaveTile(gx, gy)
        PROVE  ContentInv'
    <3>1. Save("saveTile", <<gx, gy>>, TRUE, gx, gy) /\ gx \in Int /\ gy \in Int
      BY <2>4, WindowIsInt DEF SaveTile
    <3>2. /\ "saveTile" # "saveTileMercator"
          /\ "saveTile" \notin {"getTile", "getTileMercator"}
      OBVIOUS
    <3> QED BY <1>1, <3>1, <3>2, SaveKeepsContent
  <2> QED BY <1>1, <1>3, <2>1, <2>2, <2>3, <2>4, PointsKeepContent DEF Use
<1>4. CASE Proceed
  <2>1. CASE CutSrcImage
    BY <2>1, CutSrcImageKeepsContent
  <2>2. CASE TilingReturns
    BY <2>2, TilingReturnsKeepsContent
  <2>3. CASE SaveAllReturns
    <3>1. UNCHANGED <<images, grid, tileSize, files>> /\ last'.image = Null
      BY <2>3 DEF SaveAllReturns, Says, Answer, gridVars, tileVars, configVars,
         saveVars
    <3> QED BY <3>1, ContentKept
  <2>4. CASE ~(CutSrcImage \/ TilingReturns \/ SaveAllReturns)
    BY <1>1, <1>4, <2>4, TilingPasses, WaitingPasses, PassingKeepsContent
       DEF Proceed
  <2> QED BY <2>1, <2>2, <2>3, <2>4
<1>5. ASSUME NEW t \in Threads, Work(t)
      PROVE  ContentInv'
  <2>1. CASE CutTile(t) \/ CutTileFails(t)
    BY <2>1, CutTileKeepsContent
  <2>2. CASE SaveItem(t)
    BY <1>1, <2>2, SaveItemKeepsContent
  <2>3. CASE SaveItemFails(t) \/ OtherStep(t)
    BY <1>1, <2>3, WaitingPasses, PassingKeepsContent
  <2> QED BY <1>5, <2>1, <2>2, <2>3 DEF Work
<1>6. CASE UNCHANGED allVars
  BY <1>1, <1>6, WaitingPasses, PassingKeepsContent
<1> QED BY <1>2, <1>3, <1>4, <1>5, <1>6 DEF TileNext

LEMMA InitContent == TileInit => ContentInv
<1> SUFFICES ASSUME TileInit PROVE ContentInv
  OBVIOUS
<1>1. /\ tileSize = [w |-> Base, h |-> Base] /\ images = NoImages
      /\ files = <<>> /\ last.image = Null
  BY DEF TileInit, Answer
<1>2. DOMAIN images = {} /\ DOMAIN files = {}
  BY <1>1, NoImagesIsEmpty DEF NoImages
<1> QED BY <1>1, <1>2 DEF ContentInv, TileShowsItsCell, AnswersWhatWasAsked

-----------------------------------------------------------------------------
LEMMA NextKeepsInv3 ==
  ASSUME NoRetryAfterFailedCut, Inv3, [TileNext]_allVars
  PROVE  Inv3'
<1>1. Inv1
  BY DEF Inv3, Inv2
<1> QED BY <1>1, NextKeepsInv2, NextKeepsWork DEF Inv3

LEMMA InitInv3 == TileInit => Inv3
  BY InitInv2, InitWork DEF Inv3

(* Success of tiling means a tile in every slot, failure leaves none, if    *)
(* every cut gets a thread.                                                 *)
THEOREM TilingFillsEverySlotHolds ==
  ASSUME NoRetryAfterFailedCut, EveryCutHasThreads
  PROVE  TileSpec => []TilingFillsEverySlot
<1>1. Inv3 /\ FilledInv /\ [TileNext]_allVars => Inv3' /\ FilledInv'
  <2>1. ASSUME Inv3, FilledInv, [TileNext]_allVars PROVE Inv3' /\ FilledInv'
    <3>1. Inv3' /\ Inv1'
      BY <2>1, NextKeepsInv3 DEF Inv3, Inv2
    <3> QED BY <2>1, <3>1, NextKeepsFilled
  <2> QED BY <2>1
<1>2. FilledInv => TilingFillsEverySlot
  BY DEF FilledInv, TilingFillsEverySlot, Between
<1> QED BY <1>1, <1>2, InitInv3, InitFilled, PTL DEF TileSpec

(* The tile in a slot shows the cell the slot stands for.                   *)
THEOREM TileShowsItsCellHolds ==
  ASSUME NoRetryAfterFailedCut, TilesAreCells
  PROVE  TileSpec => []TileShowsItsCell
<1>1. Inv3 /\ ContentInv /\ [TileNext]_allVars => Inv3' /\ ContentInv'
  BY NextKeepsInv3, NextKeepsContent
<1>2. ContentInv => TileShowsItsCell
  BY DEF ContentInv
<1> QED BY <1>1, <1>2, InitInv3, InitContent, PTL DEF TileSpec

(* A look-up by cell or by map coordinate answers with the tile of the cell *)
(* or the point that was asked for.                                         *)
THEOREM AnswersWhatWasAskedHolds ==
  ASSUME NoRetryAfterFailedCut, TilesAreCells
  PROVE  TileSpec => []AnswersWhatWasAsked
<1>1. Inv3 /\ ContentInv /\ [TileNext]_allVars => Inv3' /\ ContentInv'
  BY NextKeepsInv3, NextKeepsContent
<1>2. ContentInv => AnswersWhatWasAsked
  BY DEF ContentInv
<1> QED BY <1>1, <1>2, InitInv3, InitContent, PTL DEF TileSpec

LEMMA EverythingIsKept ==
  ASSUME NoRetryAfterFailedCut, TilesAreCells, EveryCutHasThreads,
         Inv3, FilledInv, ContentInv, [TileNext]_allVars
  PROVE  Inv3' /\ FilledInv' /\ ContentInv'
<1>1. Inv3' /\ Inv1'
  BY NextKeepsInv3 DEF Inv3, Inv2
<1> QED BY <1>1, NextKeepsFilled, NextKeepsContent

LEMMA WorkListIsCurrent ==
  ASSUME Inv3, FilledInv, ContentInv
  PROVE  SaveWorkIsCurrent
<1>1. SUFFICES ASSUME NEW i \in DOMAIN saveWorkList
               PROVE  /\ saveWorkList[i].image \in live
                      /\ saveWorkList[i].image.area =
                           CellArea(saveWorkList[i].cell[1], saveWorkList[i].cell[2])
  BY DEF SaveWorkIsCurrent
<1> DEFINE S == {SaveEntry(s) : s \in DOMAIN images}
<1>2. saveWorkList \in Seq(S) /\ saveWorkList # <<>>
  <2>1. saveWorkList \in Seq(S)
    BY DEF Inv3, SavesFollow
  <2>2. saveWorkList # <<>>
    <3>1. SUFFICES ASSUME saveWorkList = <<>> PROVE FALSE
      OBVIOUS
    <3>2. DOMAIN saveWorkList = {}
      BY <3>1
    <3> QED BY <1>1, <3>2
  <2> QED BY <2>1, <2>2
<1>3. saveWorkList[i] \in S
  <2> HIDE DEF S
  <2> QED BY <1>1, <1>2
<1>4. PICK s \in DOMAIN images : saveWorkList[i] = SaveEntry(s)
  BY <1>3
<1>5. /\ Tiled /\ stage # "cutting" /\ DOMAIN images = Slots
  BY <1>2, TiledFacts DEF Inv3, Inv2, SavesFollow
<1>6. images[s] # Null
  BY <1>4, <1>5 DEF FilledInv
<1>7. images[s] \in live
  BY <1>4, <1>6 DEF Inv3, Inv2, BitmapInv, BitmapsAccounted, Tiles
<1>8. images[s].area = CellArea(CellAt(s)[1], CellAt(s)[2])
  BY <1>4, <1>6 DEF ContentInv, TileShowsItsCell
<1>9. saveWorkList[i].image = images[s] /\ saveWorkList[i].cell = CellAt(s)
  BY <1>4 DEF SaveEntry
<1> QED BY <1>7, <1>8, <1>9

(* The work list of saveAllTiles, which only grows, names tiles that are    *)
(* there, each with its cell.                                               *)
THEOREM SaveWorkIsCurrentHolds ==
  ASSUME NoRetryAfterFailedCut, TilesAreCells, EveryCutHasThreads
  PROVE  TileSpec => []SaveWorkIsCurrent
<1>1. Inv3 /\ FilledInv /\ ContentInv /\ [TileNext]_allVars
        => Inv3' /\ FilledInv' /\ ContentInv'
  BY EverythingIsKept
<1>2. Inv3 /\ FilledInv /\ ContentInv => SaveWorkIsCurrent
  BY WorkListIsCurrent
<1> QED BY <1>1, <1>2, InitInv3, InitFilled, InitContent, PTL DEF TileSpec

(* A file written for a cell holds the tile of that cell, and a             *)
(* saveAllTiles that succeeds leaves no cell without one.                   *)
THEOREM FilesShowTheirCellHolds ==
  ASSUME NoRetryAfterFailedCut, TilesAreCells, EveryCutHasThreads
  PROVE  TileSpec => []FilesShowTheirCell
<1>1. Inv3 /\ FilledInv /\ ContentInv /\ [TileNext]_allVars
        => Inv3' /\ FilledInv' /\ ContentInv'
  BY EverythingIsKept
<1>2. FilledInv /\ ContentInv => FilesShowTheirCell
  BY DEF FilledInv, ContentInv, FilesShowTheirCell
<1> QED BY <1>1, <1>2, InitInv3, InitFilled, InitContent, PTL DEF TileSpec

=============================================================================
