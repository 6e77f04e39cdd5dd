# Verification of cpp-helper

`src/c_lib/src` is a small C++ library: a map-tile cutter on top of FreeImage,
a progress bar, an XML document class, MD5, string and file helpers.  This
directory holds TLA+ models of it, TLC runs over small instances and TLAPS
proofs for instances of every size.  Paths below are relative to
`src/c_lib/src` unless they start with `src/`.

## 1. Inventory

| Part | State | Operations | Interacts with | Hard behaviour | Status |
|---|---|---|---|---|---|
| `TileImages` (image_helper) | corner coordinates, scale level, tile size, thread number; grid and pixel corners; `images_`; two work lists | 3 constructors, 5 setters, `tiling`, 3 `getTile*`, `saveAllTiles`, 3 `saveTile*`, destructor | FreeImage, worker threads, Progress | order of calls, failure of each step, ownership of bitmaps, stale work lists, two axes of rows | modelled, proved |
| Workers of `cutSrcImage` / `saveAllTiles` | range, status slot, pointers into the caller's frame | spawn, join, the item loops | TileImages, Progress | interleaving, one worker failing, division of the list | modelled, proved |
| `Progress` (program_helper) | count, percentage, bar, mutex | constructor, `addProgress`, `dumpProgress`, destructor | the workers | races without the lock, rounding, buffer end | modelled, proved |
| Projection (`latlon2Mercator`, `mercator2Pixel`, `getGridCoord`) | none | three functions | TileImages | truncation, hemispheres, bounds | modelled |
| Format table (`getImageFormat`) | constant map | one look-up | TileImages | unknown suffix | as a failure of open/save |
| Error macros (`CHECK_*`) | none | early return | everything | - | as the early returns of the actions |
| XML tree (`XMLNode`, `XMLElement`, `XMLDocument`) | sibling, parent and child links, `_unlinked`, four pools, error state | insert, delete, clone, clear, parse, save | pools, parser, printer | order of unlinking and linking, nodes in no tree, double free | modelled, proved; setters of values and attributes, `DeepCopy` left out |
| XML pools (`MemPoolT`, `DynArray`) | blocks, free list, counters | alloc, free, grow | XML tree | reuse after free, tracking | allocation and tracking modelled, with the tree |
| XML parser | position, line, `_parsingDepth`, `_errorID` | `Parse`, `LoadFile`, `ParseDeep`, `Identify`, attributes | XML tree | nesting, errors in the middle, what each error leaves behind | modelled on tokens, proved |
| XML printer | stack of open elements, `_elementJustOpened`, `_firstElement`, `_depth`, `_textDepth` | `SaveFile`, `Print`, open, close, push | XML tree, parser (on reload) | line breaks that must not reach a text | modelled; escaping and overrides left out |
| `StrPair`, `XMLUtil` | span, flags | set, get, transfer | parser | in-place normalisation, read and write pointer in one memory | `GetStr` modelled, proved; transfer and tables left out |
| MD5 (md5_helper) | 64-byte buffer, byte count in two words, state | init, update, final | - | block boundary, carry of the count, padding | buffering and padding modelled and proved, rounds left out |
| Strings (str_helper) | none | split, join, trim, regex, conversions | - | empty and border inputs, quotes | splitting, joining, trimming modelled, proved |
| Files (file_helper) | rows of the caller; key/value map | `SimpleReadCSV`, `LoadConfigFile`, get | str_helper | repeated keys, second load, missing file, streams never closed | modelled, proved |
| FreeImage (src/c_lib/lib) | - | - | TileImages | - | vendored: preconditions only |

What makes each of the modelled parts correct:

* **The split**: ranges in the list, disjoint, in order, covering it.
* **The workers**: an item belongs to one worker; none outlives the call that
  lent it pointers; a failure costs only its own range and is reported; the
  call returns.
* **Progress**: no addition is lost, the bar agrees with the count, no line
  mixes two additions, one line ends with a newline, no cell outside the bar.
* **TileImages**: every bitmap has one owner on every failure path; a
  successful tiling has a tile in every slot and each shows its cell; files and
  answers show what was asked; a tile never changes once it is handed out.
* **XML tree**: neighbouring nodes' pointers agree; every node is in the
  document or below one entry of `_unlinked`; every call does to the ordered
  trees what its name says and nothing else.
* **XML parser**: while a text is read, the nodes outside the tree are exactly
  the elements on the way to the reading position; an error deletes them on the
  way out, keeps its first cause and leaves a document in a stated condition;
  exactly the well-formed texts load; every call returns.
* **XML printer**: what was saved, compact or not, loads as the same document.
* **StrPair**: the write pointer never overtakes the read pointer, and the
  text shown is the one the flags ask for.
* **MD5**: however a message is cut into pieces, what is digested is the padded
  message.
* **Files**: rows and keys are those of the last file, cut at every separator.

`PROJECT.json` lists the hazards of the code, each at its line, with the
properties that cover it.

## 2. Modules

```
WorkSplit ------ WorkerPool ------ TileImages ---- MCTileImages
   |             |  |   \            |
   |             |  |    MCWorkerPool TileGeometry
                 |  ParallelFor (abstract)
                 |
                WorkerPoolProofs --- TileImagesProofs

Progress ---- ProgressProofs

XmlTree ---- XmlParser ---- XmlPrinter ---- MCXmlDocument
   |  | \                       |
   |  |  OrderedForest (abstract)\
   | XmlTreeProofs ------- XmlParserProofs ---- XmlTextProofs
   |       \
MCXmlTree   XmlForestProofs

               Rewriting
              /         \
   Md5     StrPair    FileHelper          MCHelpers and HelperProofs both
                                          extend Md5, StrPair and FileHelper
```

**WorkSplit** is the arithmetic of `cutSrcImage` (lines 460-468) and of
`saveAllTiles` (279).  The code works in doubles on quotients by 16, which are
exact, so integers give the same values; `RoundTenths` is its rounding of the
tenfold.  A *job* is what one parallel call works on: `total` items, `threads`
threads, `per` items for each but the last.

**WorkerPool** is the loop both calls share.  `Begin` builds the locals of the
call, `Spawn` one thread, `Join` the next join, `Return` the look at
`threadStatus`; `HandleItem`, `FailItem`, `Report` and `Finish` are the body of
`tilingWorker` and `savingWorker`.  A worker handles an item in one step and
reports it in another, so a failure of another worker, or the end of it, falls
between the two.  `handledBy` and `failed` are history variables; all others
are locals of the code.  `Bad...` operators next to a helper are slips an edit
could make; no action uses them, they are there to show that the properties
notice.

**ParallelFor** is what the caller may expect of such a call: each item is
handled at most once, success means all were, an error that one failed.

**Progress** takes `addProgress` apart: lock, computing, storing the count,
painting, printing, unlock.  That is finer than the lock makes it, so that the
properties are a result of the lock; WorkerPool may then count an
`addProgress(1)` as one step.  The other direction, that workers report no
more than the bar was built for and are gone when it is destroyed, are the
guards of `BeginAdd` and `Destroy` here and the properties
`ProgressIsHandledCount` and `NoWorkerOutlivesCall` there.

**TileGeometry** is the projection to pixels and cells, the offset at which
`fillSrcImage` pastes and the rectangles `FreeImage_Copy` cuts.  A bitmap is
abstracted to the rectangle of the map that it shows, which is what the
properties are about.

**TileImages** is the object with one client thread; it extends WorkerPool for
its two parallel calls.  Each setter is one action, with its refusal; `tiling`
is its check (`Tiling`, `TilingRefused`) and one action per step
(`OpenSrcImage`, `ScaleSrcImage` or `LocateFails`, `FillSrcImage`,
`CutSrcImage` and the pool, `TilingReturns`), each with its failure and what
that failure unloads.  A refused look-up returns false, or the process ends
(`RefusalAborts`): its message has arguments out of order (image_helper.cpp:237,
346), so a row is printed as a text.  The look-ups by coordinate take their y as
an `int` (243, 255, 357, 369) and so are asked integer points only.  `live` is FreeImage's heap and `misuse` the memory
errors that would be undefined behaviour in the program; `env` says which of
FreeImage's calls may fail in an object's life and bounds how many times the
client calls `tiling` and the saves.

**XmlTree** is the node store of an `XMLDocument`: the pointers of each node,
`_unlinked` and the pool's untracked count are the record `doc`, `live` the
allocated nodes.  The private steps (`Unlink`, `InsertChildPreamble`,
`MarkInUse`, ...) are functions of that record and keep the names and the order
of the code; an action is a public call and composes them.  `InsertAfterChild`
has one action per return and one for the null pointer it can follow, after
which nothing happens (`crashed`).  One pool stands for the three that hold
nodes.  What a destructor does to a whole tree is one step: the nodes that the
loops over `_firstChild` and `_next` reach (`Reached`) are unlinked, marked in
use and freed.  A client is assumed not to insert a node under itself
(`MayInsert`); the code does not look.

**OrderedForest** is the same calls on trees given as sequences of children:
insert means take out and put where the name says.  `call` and `result` are
kept in both, so that the refinement compares like with like.

**XmlParser** reads a document into that store.  A text is a sequence of
tokens (runs of characters, tags, comments, ...) each of which may carry a
fault, and a token read is one turn of the loop of `ParseDeep`.  The C++ stack
is `frames`: `ReadOpen` is the call for an element's content, `ReadClose` the
return at its closing tag, `EndOfInput` and `Fails` the returns of 0, which
`Unwind` takes from frame to frame as the code does: delete the element, set an
error if there is none.  `ReadLeaf`, `ReadVainOpen` and `ReadBlank` are turns
that nest nothing.  `Finish` is the end of the call; `Parse` and `LoadFile` differ in it,
for only `Parse` cleans up after an error.  The text is not given beforehand
but chosen as it is read, or is one of `Samples`, or what the printer wrote.

**XmlPrinter** extends it with `SaveFile`: one action per `Visit` function, each
with the whole of the `Push` or `Open` function it calls (tag end still due,
line break, indent, stack, `_textDepth`).  It prints tokens, and white space it
adds next to a text becomes part of that text, as it would for a reader.
`DocumentNext` is a client that loads, edits, saves and loads again.

**Md5** is `md5_helper.cpp` around the compression function: `UpdateInBuffer`
and `UpdateBlocks` are the two ways through `MD5_Update`, `MD5_Final` the
padding.  A byte is its place in the message and `digested` all that `body`
was given, so an error of one byte anywhere shows.

**StrPair** is the first `GetStr` of a span: `p` and `q` walk over one array of
cells, one action per branch of the loop, then `Collapse` for
`CollapseWhitespace`.  `odd` marks two texts for which nothing is promised (see
section 3).

**FileHelper** is `SimpleReadCSV` and `SimpleConfig` over `Split`, `Trim` and
`Join`; `SplitWithQuot`, which no reader uses, is asked directly.  What trimming
should leave is said without it, in `Bare`.  Files show
their lines as they are read, and one client fills one table and one
configuration from one file after another.

**Rewriting** says what a loop writes that takes some cells of a sequence and
writes others for them, turn by turn: `Rest(items)[i]` is what it writes from
cell i on.  `Split`, `SplitWithQuot` and `Join` are such loops, and what
`StrPair` is to show is described as one.

**MCHelpers** runs Md5, StrPair and FileHelper side by side, one of them at a
time; `split_with_quot` keeps no state, so it is asked once in a behaviour,
with every text.

## 3. Runs

| Run | Shows | Bounds |
|---|---|---|
| `worker_pool` | the pool's invariants, that it implements ParallelFor, that calls return | 1..7 items, 1..4 configured threads, `MIN_WORK_PER_THREAD` = 2 |
| `progress` | the bar, with three threads in `addProgress` at once | totals 1, 3, 4, 12; terminals: none, 20 and 27 columns |
| `tiles` | the object, all orders of calls and failures | 1x2, 2x2, 2x1 cells, 2 threads, 4 environments |
| `xml_tree` | links, ownership and tracking of nodes; that XmlTree implements OrderedForest | 4 nodes, all alike (symmetry) |
| `xml_document` | loading, failing, editing, saving and reloading a document | texts of 3 tokens from 16, 4 longer texts and a blank one, 7 nodes, depth limit 5 |
| `helpers` | MD5's buffering, `GetStr`, the file readers | below |
| `small_image` | *violation*: no thread for up to 9 tiles | the real constant 16, 4 tiles |
| `get_tile_rows` | *violation*: `getTile` refuses grids of two rows | one image |
| `lat_lon` | *violation*: unconverted coordinates are looked up | one image |
| `retry` | *violation*: the second cut writes through old pointers | one image, a cut that may fail |
| `tile_size` | *violation*: tiles of another size than a cell | sizes 4 and 5, cells of 4 |
| `insert_after` | *violation*: `InsertAfterChild` follows a null pointer | as `xml_tree` |

Why the bounds are enough.  With `MIN_WORK_PER_THREAD` = 2 and up to 7 items,
both branches of the adjustment occur, the rounding goes up and down, the last
thread's range is longer than, equal to and shorter than the others', and empty
(3 items, 2 threads of which the first takes 2; 4 threads for 3 items saved
with `per` = 0); WorkerPoolProofs covers the rest.  A second call after a first
is in the state space because `Begin` resets every local, so one job after any
other is as good as many.  In `progress` the totals divide the bar, do not
divide it, and exceed it (12 items, 10 cells), the last being the case where an
addition paints nothing.  In `tiles` the map is scaled to cells of 4 pixels;
`Wide` starts in the middle of a cell and spans two cells each way, `Narrow`
has no width at level 0, `Swapped` is what the seven-argument constructor
accepts, `South` has an illegal second corner.  Faults are grouped in
environments so that each failing step occurs with everything that can follow
it; in the environment where a cut may fail `tiling` is called once, because a
second call is the case of run `retry`, and in run `tiles` `NoWildAccess`
says that this is the only way there.

In `xml_tree` a node can have up to four children, or three below a fourth, so
a move meets a first, last, inner and only child and a neighbour that is the
node itself; a copy can have three nodes of which only one goes on the list.
All calls may repeat without bound, for the memory of freed nodes is used again.

In `xml_document` three tokens are enough for each error in front of, inside
and behind an element, each alone; the longer samples have text on both sides
of nested elements, four levels with white space between, and one level more
than the limit (`MaxDepth` = 5 counts the document's frame and one that
fails), and a lone `<` at the end.  Seven nodes are more than any of these texts needs.  `MaxLost` bounds
a counter: the pool's untracked count, which a failed `LoadFile` leaves behind
(section 3) and only a failed `Parse` or a call too many resets.  Texts that
the printer wrote are reloaded but not saved again, and a document is edited
by deleting nodes: both keep the state finite without hiding a step, as what
is loaded is again a document that some text gives.

In `helpers` the block has 4 bytes, the length field 2 and the counter wraps at
8 and 16; pieces of 0 to 5 and 9 bytes leave, fill and overfill a block and
span two, and 40 bytes carry into `hi` and wrap it.  The proof covers all other
sizes.  Spans are all texts of up to four of eight characters; four is the
shortest in which a character reference is preceded or followed by what moves
`q` behind `p`.  Two files share three lines, from a list with blank, comment,
repeated-key and border cases, with separators of one and two characters; two
open files are the process' limit, so that `LoadConfigFile` meets it.

`ThreadCounts`, `Levels`, `TileSizes` and `Corners` contain illegal values on
purpose.  Deadlock is checked in all passing runs but three: in `xml_tree`
nothing follows a null dereference, in `xml_document` nothing begins when
`MaxLost` is reached, and in `helpers` a message or a span is simply finished.

### What the violations show

They are disagreements between the header's comments and the code, each with
its lines in `PROJECT.json`:

1. `small_image`: an image of at most nine tiles is "tiled" into empty slots,
   with success reported; `NoThreadForAShortList` gives the exact bound.
2. `get_tile_rows`: the row guard of `getTile` is the wrong way round.  Its index
   also counts rows from the other end, which the guard hides: with one row
   both agree, so the answers it does give are right (`AnswersWhatWasAsked`).
3. `lat_lon`: the converted point is never used.
4. `retry`: `tileWorkList_` outlives `images_`.
5. `tile_size`: 256 is both a default and a constant.
6. `insert_after`: `afterThis->_next` is tested, then changed by the unlinking
   of `addThis`, then followed.

### Seen in the code, without a run of its own

The models of the parser and the helpers behave as follows because the code
does; the properties name the exceptions.

* A closing tag with no element open ends the parse with success; what follows
  is not read (xml_helper.cpp:1102-1108; `Strays` in `ParsesWhatIsThere`).
* The attributes of a closing tag are read, and an error in them is reported, but
  then the node is deleted (1101-1108): they say nothing (`Plain`).
* The comment at xml_helper.cpp:1925-1929 says that a repeated attribute is not
  detected; line 1920 detects it.
* A failed `LoadFile` keeps the part of the document read so far, a failed
  `Parse` keeps nothing; the former also leaves the pool's untracked count too
  high, which only debug assertions look at.
* A text beside the root element gains a line break each time it is printed
  and loaded, because `_textDepth` is -1 there (2781).
* In a span, `&` before no known entity skips a cell without writing it (355):
  if something before it was shortened, an old byte shows.  A reference is
  read backwards from the next `;` to any `#` (541): text between the two
  `#` is dropped.  `&#` at the end of a span loses the `&`.
* `split_with_quot` drops the last field when the text ends with a separator
  inside open quotes; `split` never returns for an empty delimiter, which
  `FileAssumption` excludes.
* `LoadConfigFile` tests the result of `new`, which is never null (file_helper.cpp:54): a missing file gives
  an empty configuration and `true`.  The stream is never deleted.
* A text followed by a lone `<` at the very end is dropped with an error
  (xml_helper.cpp:1199-1206); it is a text token with the fault `name`.
* `MAX_SCALE_LEVEL` is refused by `setScaleLevel` and accepted by the
  constructor (image_helper.cpp:153, 93).
* `md5file` passes a null pointer to `fread` when the file is missing.

### Fairness

Weak fairness on the caller's steps and on each worker's: a thread that was
started is scheduled, and the caller blocks only in `join`, whose guard stays
true once it is.  In Progress, weak fairness of each thread is enough although
the mutex is not fair: a bar takes no more additions than it has items, so no
thread is overtaken for ever.  In XmlPrinter, weak fairness on `Step`, the
steps inside a call: there is one thread, and a call it is in goes on.  The client is under no fairness: it may stop
calling.

## 4. Proofs

*WorkerPoolProofs*, first part: for every list length, thread number and
`MIN_WORK_PER_THREAD`, the jobs the code makes are *sound* (the last thread
does not start beyond the end), and for every sound job the ranges are in the
list, disjoint and, if there is a thread, cover it.  `NoThreadForAShortList`
says exactly when there is none.

Its second part: for every set of sound jobs, `PoolTypeOK`, `PoolInv`,
`OneWorkerPerItem`, `NoWorkerOutlivesCall` and `FailureStaysInItsRange`.
`OneWorkerPerItem` is not inductive: that nobody has handled an item does not
say that only one worker will come to it.  `PoolInv` is the strengthening: each
worker's bounds are those of the split, what it has handled is exactly the part
of its range behind its position, the failed items are exactly those where a
worker stopped, and the joins are in order.  One lemma per action, one step per
conjunct that it can disturb; `OneWorkerMoves` and `SplitUndisturbed` deal with
the threads that stand still.  The properties follow from `PoolInv` with
the ranges' disjointness, without another induction.

Its third part is the refinement: under the assumption that every call with
items has a thread, `PoolSpec` implements `ParallelFor`: `HandleItem` and
`FailItem` map to `Handle`, `Return` to one of the two returns, the rest to
stutters.  The assumption is exactly what `small_image` violates.

The assumption `JobsAssumption` (the jobs are sound) is what `CutJobSound` and
`SaveJobSound` discharge for the code's jobs.

`ProgressIsHandledCount` follows from `PoolInv` with one more conjunct, the
count itself: handling an item adds one element to the set of handled items
and one worker to those that have yet to report, reporting takes that worker
off and adds one to the count, so their difference stays; lemmas on the
cardinality of such sets carry it.

*ProgressProofs*: for every set of threads, total, terminal and number of
additions (`ProgressAssumption`: the hundredfold of the count fits an `int`),
all the invariants of Progress and `LinesAdvance`.  None of them is inductive:
what the thread inside the lock has in its locals decides what the shared state
will be.  `ProgressInv` says so in eight parts.  `LockIsHeld`: who is past the
lock owns it, so at most one thread is.  `AddsAddUp`: the count and what the
threads on their way to storing it will add make up what has been asked for.  `LocalsFollow`,
`PercentFollows`, `BarFollows` and `LineFollows`: at each place inside the lock
the locals, the percentage, the cells and the line belong to the count before
or after the addition, as the place demands.  `BarIsBuilt` and `NothingToKeep`
deal with a bar before its constructor and after its destructor.
`FinalLineOnce` and `LinesAdvance` follow, because counts only grow.

*TileImagesProofs*: for every map, corner list, environment and number of
threads, in layers that need more and more, for the code keeps some of its
promises only under conditions.

* `ObjectInv`, unconditionally: corners, level and grid belong to one legal
  configuration (`Configured`, `GridIsPlaced`), the stage of a call agrees with
  what the object holds (`StageFollows`), the outcome of a parallel call with
  what its workers did (`OutcomeFollows`, from the pool's invariant).  Hence
  `TileTypeOK` and `TilesStay`.
* `BitmapInv`, if no second `tiling` follows a cut that may fail
  (`NoRetryAfterFailedCut`; run `retry` shows that without it the invariant is
  false): the canvas is the grid in tiles (`CanvasFollows`), the list of slots to
  cut is that of this attempt (`WorkIsFresh`), a slot holds its tile once its
  item is handled (`SlotsFollow`), and the heap is exactly the tiles and the one
  image in work (`BitmapsAccounted`).  Hence `BitmapsAreOwned` and
  `NoWildAccess`.
* With that proviso, what is to be saved are entries of the slots there are
  (`SavesFollow`).
* `ContentInv`, if moreover a tile has the size of a cell (`TilesAreCells`; run
  `tile_size`): arithmetic of the grid, with `QuotientIsUnique` for the division
  that finds a slot again.  Hence `TileShowsItsCell` and `AnswersWhatWasAsked`.
* `FilledInv`, if besides the first proviso every cut gets a thread
  (`EveryCutHasThreads`; run `small_image`).  Hence `TilingFillsEverySlot`, and
  with `ContentInv` also `SaveWorkIsCurrent` and `FilesShowTheirCell`.

The three provisos are statements about the constants.  Run `tiles` meets all of
them but for its environment with a failing cut, in which `tiling` is called
once, as the proviso allows.  The assumptions are `TileAssumption`,
`GeometryAssumption` (types, and that the side of a cell is even) and
`JobsAreEnough` (the set of jobs has all that the object can start).

*XmlTreeProofs*: for every set of nodes, `TreeInv` and from it `TreeTypeOK`,
`LinksAgree`, `UntrackedIsUnlinked` and `NodesAreOwned`; the only assumption is
that node, document and null pointer differ (`StoreAssumption`).  Since a call composes private
steps, the invariant is stated of a store: `Good(d, in)` says that the pointers
of store `d` make a forest of the nodes `in` (`Typed`, `Agree`, `Reaches`) and
that its list holds the roots (`Listed`), and there is one lemma per private
step, such as `UnlinkKeeps` or `FreedKeeps`, from which the actions' lemmas
follow in a few lines.  `LinksAgree` alone is not inductive: a cycle of
siblings would satisfy it, and unlinking would then tear a tree apart.
`Reaches` excludes that: any set that holds the roots and the document's first
child and is closed under `_firstChild` and `_next` holds every node.  It is
also what lets one speak of a subtree without recursion: `Reached` is the least
set closed under these pointers, so `BelowClosed`, `BelowLeast`,
`BelowLooksBack` and `NotBelowItself` follow from the definition.  `AllOwned`
is the step from there to `NodesAreOwned` and to what `Clear` frees.

*XmlForestProofs*: for every finite set of nodes, `ImplementsForest`, the
refinement of OrderedForest.  That a step is an abstract step has to be said of
sequences that no variable holds: `Children(d, p)` reads them off store `d`
along `_next`, and every step changes that store.  Three layers.

* Reading.  A `Run` of p starts at its first child and follows `_next`; a `Chain`
  is a run that ends at the null pointer.  No run has a node twice
  (`RunInjective`: the way back along `_prev` from its first two places would meet
  the first child too early), so
  none is longer than the memory (`RunsAreShort`; `MemoryAssumption`, that the
  set of nodes is finite, is used for this bound alone), so each node has a chain
  (`ChainExists`), which is what `Children` reads (`ChildrenAreChain`).  It holds
  exactly the nodes whose `_parent` is p (`ChildrenHaveParent`, from `Reaches`:
  otherwise the children left out could be dropped from a closed set), each
  once.  Conversely any sequence whose members are linked like that is the
  node's children (`TheseAreChildren`).
* Steps.  What each private step does to the children of every node:
  unlinking drops one entry (`UnlinkDrops`), linking between two neighbours
  inserts one (`LinkedInserts`), freeing a tree empties its nodes and leaves the
  others (`WithoutChildren`), a clone has the copies of the entries
  (`CopiedChildren`), the bookkeeping changes none (`SamePointersChildren`).
  `InsertChildPreamble` drops the node wherever it is, also when it is moved
  among its siblings (`PreambleDrops`), which is where positions shift.
* Calls.  One lemma per action, `PutsLast` to `Copies`, composes them and
  compares with OrderedForest's action; `InUseIs` and `BelowIs` say that the
  nodes in use and those below a node are the same sets in both.  The
  insertion that follows a null pointer (`AfterLastButOne`) maps to a stutter:
  the code has changed no tree by then, and does nothing afterwards.

TLC checks the same on four nodes; XmlTree's actions are the ones TLC runs.

*XmlParserProofs*: for every set of texts, depth limit and number of loads,
edits and saves, `ParserTypeOK`, `OnlyPendingUnlinked`, `FirstErrorStays` and,
through a parse as well, `LinksAgree`.  `TokensAssumption` says that texts are
made of tokens and that the limit is more than one.  `DocumentInv` adds to the
store's `Good` that the unlinked nodes are the frames and the depth counts them
(`FramesFollow`), that no text is read at the limit or with an error set, that
exactly the nodes in use have a token (`ValuesFollow`) and that what is printed
and read again are tokens (`TextsFollow`), for a saved document is the text of
the next load.  `LastInserted`, `LastDiscarded` and `EntriesApart` are why the
list behaves as a stack although entries are taken off by a search: the
element that is inserted or deleted is always its last one, and its parent is
never below it.  `PassingNode` says that a closing tag, which becomes a node for
a moment, leaves no trace.  `TagsEnd` (no tag is left without its ">" between
calls) is inductive by itself.

*XmlTextProofs*: `ParsesWhatIsThere`, for every set of tokens, every text,
every set of samples and every depth limit: which texts load, and what the tree
lists then, after success, after a failed `Parse` and after a failed
`LoadFile`.  `TokensAssumption` also says that in a sample no two runs of
characters are neighbours (`Parted`), for they would be one.  The proof has
four layers.

* Texts.  What one more token does to the level of every place (`LevelsAfter`),
  to the elements open at the end (`Nested`: the marks of the open elements, from
  the outside in) and to what the text says (`Says`); then the verdicts: a text
  all of whose tokens are correct, one that ends within an element (`CutShort`),
  one with a token that is not correct, one with a closing tag that closes
  nothing (`StrayAccepted`), each with its longest well-formed beginning.
* Listings.  `Lists` says of a function that it gives for every node what is
  listed from there on.  `TextIs`: of two such functions none differs, by a least
  counterexample in the length of what they give, so `TextOf` is any of
  them.  The lemmas on the store's steps then only have to name the new
  function: a node that is created, a tree that is deleted, a last child inserted.
* `Tells`: the nodes in use, some of them open, are what was read.  What was said
  before a frame's tag, then the tag, then what is listed in the frame, is what was
  said before the next frame's tag (`Accounts`).  `BlankTells`, `LeafTells`,
  `OpenTells` and `CloseTells` carry that through a token; closing is the step
  that needs the levels, as the tag that the element was made of must be the one
  the closing tag belongs to.
* `TextInv`: while reading, all tokens so far are correct and the nodes tell them
  (`ReadingTells`); while failing, the document is the longest well-formed
  beginning, which deleting the open elements leaves alone, and a frame that
  finds no error set is one whose text was not accepted (`FailingTells`); at the
  end, the text is accepted and told, or not accepted and reported
  (`EndedTells`); and what the printer has written keeps its runs of characters
  apart (`PrintingTells`), for it may be the next text.  One lemma per action.

*HelperProofs*: for texts, lines and separators of any length,
`TextIsNormalised`, `FieldsMakeTheLine` and `ConfigIsTheLastFile`; `TrimIsBare`
says that trimming leaves what the last two ask for.  Each
compares a loop with its whole result, which takes an induction over the data.
The library's induction theorems cannot be used (they take an operator), but
`Least` can: a set of naturals has a least element, which follows from
`NatLessThanWellFounded`.  What holds at every cell is then proved from a least
counterexample, for instance `RestIs`, that `Rest` is the function its
recursive definition describes; `RestShift` and `RestMoves` say that it does
not depend on where in a sequence it starts.  The inductive invariants are

* `SpanInv` for `GetStr`.  While scanning (`Scans`, `Told`): q is not beyond p,
  the text from p on is as it was, and what stands before q, followed by what
  the items from p on give, is what the flags ask of the whole text.  While
  collapsing (`Trims`): the words written so far, followed by those of the
  cells not yet read, are the words of the text.  That q never overtakes p
  needs both: an item gives no more cells than it takes, and a space is written
  only where one was skipped.
* `ConfigInv`: `data` is the configuration of the lines read so far
  (`IsConfigOf`); a line either defines no key, or a known one, or a new one.
* `TableInv`: `rows` is the table of the lines read so far (`IsTableOf`), where
  a line's row is its rank among the lines that are listed.  That fields make
  their line again, and that no separator is left in one, are lemmas on `Split`
  and `SplitWithQuot`, by the same kind of induction from the end of the line.

The assumptions are `FileAssumption` (lines are made of characters, no
separator is empty) and `CellsAssumption` (a text has no byte 0 in it).

In the same module, MD5: for every block size, length field, counter width and set of
piece sizes (`Md5Assumption`: the length field is shorter than a block, and
the counter's range is a multiple of the block), `DigestsPaddedMessage`.  It is
inductive with the types of `total` and `final`.  The lemmas on remainders say
that the fill level read off the wrapped counter is that of the true length
(`Remainder`) and that one carry and the high part of the size make the high
word (`QuotientOfSum`); `FilledBlock` and `LeftOver` deal with the two
`memcpy`s, `Together` with the blocks between them, `PaddingLength` and
`EndingCells` with the two shapes of the padding.

The strengthenings named here stand in the proof modules, next to their use.

Only model-checked:

* `SavedTreeReloads`.  That a text loads as what it says is proved; what is
  missing is that the text the printer wrote says what the tree lists, which needs
  the walk's place related to what is written so far, and the white space that
  indentation adds to a run of characters beside the root element.
* liveness (`CallReturns`, `TileCallsReturn`, `AddReturns`, `CallsEnd`): fairness and
  ENABLED are out of TLAPS' reach.

## 5. Not modelled

Pixels, resampling, file formats (FreeImage); a `std::thread` constructor that
throws; integer overflow of `count * 100` in `addProgress` (excluded by
`ProgressAssumption`, 21 million items); `hardware_concurrency()` = 0; copies
of a TileImages object (nothing in the library makes one; its pointers would
be unloaded twice).  `setSamplingFilter` only stores arguments of FreeImage.

XML: how characters make a token, line numbers, the byte order mark; setting
values and attributes of a loaded document; escaping on output and
`CompactMode` overrides; the hexadecimal form of a character reference, which
has the shape of the decimal one, and what `strchr` finds behind a span's end; `StrPair`'s `TransferTo` and `SetStr`; the free lists
of `MemPoolT` and the growth of `DynArray`; UTF-8 and number conversions.
MD5's rounds and hexadecimal output.  Strings: `split`'s `trim_str`, which no
reader passes; regex, locale conversions and the full-width table, which are library calls and data.

Almost all of the repository's lines are in `src/c_lib/lib`: FreeImage with the
image libraries it bundles and their tables.  They are third-party code that
this repository carries unchanged; their specification belongs beside their
own source, and here they appear only through the calls TileImages makes.

## 6. Plan

1. *(done)* WorkSplit, ParallelFor, WorkerPool, Progress, TileGeometry,
   TileImages; their runs; proofs of the pool.
2. *(done)* XmlTree, OrderedForest.
3. *(done)* XmlParser over token sequences, XmlPrinter, and the two composed.
4. *(done)* Md5 with its proof; StrPair; FileHelper.
5. *(done)* Proofs: Progress, `ProgressIsHandledCount`, TileImages in its
   layers, XmlTree, and from it the parser; StrPair and FileHelper.
6. *(done)* What a text means: `ParsesWhatIsThere`.
7. *(done)* The refinement of OrderedForest, `ImplementsForest`.
8. Left: the printer's half of a round trip (`SavedTreeReloads`).
