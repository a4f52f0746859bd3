# KEALib in TLA+

Modules that model the core of [kealib](https://github.com/ubarsc/kealib), TLC
configurations that check them on small instances, and TLAPS proofs for every
instance. Everything is translated from the C++ in `src/libkea`, `gdal` and
`python`; the header comments and the tests served to learn what is intended.

## 1. The system

A KEA file is an HDF5 file with the bands of a raster image. Each band has
pixels, and possibly a mask, overviews, a no data value and a raster attribute
table (RAT). Three layers work on it:

| layer | code | state it keeps | who calls it |
|---|---|---|---|
| library | `KEAImageIO`, `KEAAttributeTable*` | the open file, number of bands, spatial header; per table handle the column map, counters and row count | driver, extension, other programs |
| GDAL driver | `gdal/kea*.cpp` | dataset, band, overview and mask objects, a shared reference count, cached GCPs, metadata, colour table and table handle | GDAL, in one thread per dataset at a time |
| Python extension | `python/extrat.cpp` | none: each function makes a table handle, uses it and destroys it | Python |

The library's objects share one recursive mutex per `KEAImageIO`, which its
tables receive from it. The driver's objects share one `KEAImageIO` by a hand
written count, `LockedRefCount`. The extension takes the `KEAImageIO` out of the
driver's dataset, so that its handles live beside the driver's.

### Components, operations and what makes them correct

1. **Attribute table in the file** (`KEAAttributeTableFile`, base class). SIZE,
   four `*_FIELDS` headers, four `*_DATA` datasets, neighbours; a handle caches
   the shape. Operations: open, close, add a column, add rows, write cells and
   neighbours. Correct when headers, data and handle agree after each sequence
   of them, nothing written is lost, and the table can be opened again. Hard:
   four types with indexes of their own under one numbering; writes that fail
   part way; several handles; several threads.
2. **Attribute table in memory** (`KEAAttributeTableInMem`) and **copying**
   (`copyRAT`, `setAttributeTable`). Correct when rows and columns fit each
   other and a copied table arrives whole. Hard: blocks and remainders, targets
   that have a table, sources without neighbours.
3. **Image and bands** (`KEAImageIO`). Groups `/BAND1 ..`, NUMBANDS,
   `numImgBands`. Correct when the image is a list of bands and a band keeps
   what it holds when others come and go. Hard: removal renames group by group.
4. **Ground control points** (`KEAImageIO`, `KEADataset`). Correct when the last
   list set is the one read, also through the dataset's cache.
5. **Objects of the driver**. Correct when the `KEAImageIO` lives exactly as
   long as someone uses it, each object stands for what the file has, and closing
   the dataset closes the file. Hard: masks and overviews are replaced during a
   session; bands are removed under their objects; constructors that fail.
6. **Block geometry** (`writeImageToDataset`, `readImageFromDataset` and the
   block callbacks of band, mask band and overview). Correct when each pixel of
   a block reaches its place in the dataset and comes back from there, and no
   other pixel changes. Hard: blocks cut at the edges, buffers with a pitch of
   their own, padding, three ways to choose sizes.
7. **CreateCopy** (`keacopy.cpp`). Correct when every pixel of image, overviews
   and mask arrives, and the copy shows what its source shows. Hard: loops over
   blocks for each size, data types of buffer and band, early exits; a source
   that shows what its memory holds and not what its file holds.
8. **The driver's RAT** (`kearat.cpp`, parts of `keaband.cpp`). One table handle
   and a list of columns, kept as long as the band; columns, rows, values with
   conversion between types, whole tables and colour tables in many steps. Correct
   when what is written is what a client of the reopened dataset reads. Hard: the
   extension changes the table beside it; a call that makes columns and rows on
   its way.
9. **What dataset and band keep in memory** of metadata, layer type, no data
   value, geotransform and spatial reference. Correct when memory and file agree
   after each call that reports success. Hard: calls that fail in the middle or
   are refused; two ways to write one item.
10. **Neighbour accumulation** (`build_neighbours.py`, `NeighbourAccumulator` in
    `extrat.cpp`). The image is read in tiles with a margin, values are counted
    down from a histogram, and a page of the table is written when all its values
    are done. Correct when the neighbours stored are those of the image as a whole,
    each written once. Hard: seams and edges; when a page is done.
11. **The HDF5 file driver**, HDF5, tests, packaging: not modelled, see section 7.

`PROJECT.json` lists all components with their status, and under "hazards" each
place where the code is exposed, with the property that guards it.

## 2. Modules

| module | models | of |
|---|---|---|
| `AttributeTable` | what a table promises: named typed columns, rows that only grow, values that change only when written | the interface `KEAAttributeTable` |
| `AttributeTableFile` | the table in the file and one handle; implements `AttributeTable` | `KEAAttributeTableFile.cpp`, `KEAAttributeTable.cpp` |
| `ColumnLists` | a column and its numbers, which all the tables have | `KEAATTField`, `createKeaAtt` |
| `AttributeTableFaults` | the same with HDF5 calls that fail | ditto |
| `AttributeTableThreads` | threads on one handle | locking in both classes |
| `AttributeTableFileProofs` | theorems about these three, and the lemmas about appending a column that all the tables' proofs cite | |
| `AttributeTableInMem` | the table in memory; implements `AttributeTable` | `KEAAttributeTableInMem.cpp` |
| `AttributeTableCopy` | tables of an image, one in memory, copies between them | `copyRAT`, `setAttributeTable`, `createKeaAtt`, `KEACopyRAT` |
| `AttributeTableCopyProofs` | theorems about both | |
| `TableValues` | conversions between the types of clients and columns, used by the driver's table and by CreateCopy | `ValuesIO` of `kearat.cpp` |
| `RasterAttributeTable` | the driver's table beside extrat's handles (two instances of `AttributeTableFile`), in any order | `kearat.cpp`, `GetDefaultRAT`, `SetDefaultRAT`, colour table, table functions of `extrat.cpp` |
| `RasterAttributeTableProofs` | theorems about it | |
| `BandList` | what an image promises: a list of bands | |
| `ImageBands` | groups, counter, object; implements `BandList` | `KEAImageIO.cpp` |
| `ImageBandsFaults` | the same with HDF5 calls that fail | ditto |
| `ImageBandsProofs` | theorems about both | |
| `DatasetObjects` | objects, reference count, overview levels, removal of a band, over many sessions | `keadataset`, `keaband`, `keaoverview`, `keamaskband` |
| `DatasetObjectsProofs` | theorems about it | |
| `GroundControl` | the points in the file and in the dataset's cache | `KEAImageIO.cpp`, `keadataset.cpp` |
| `ImageProperties` | metadata, layer type, no data value and spatial header, in file and memory | `keadataset.cpp`, `keaband.cpp`, `KEAImageIO.cpp` |
| `DatasetCaches` | both of them opened, closed and copied by CreateCopy together | `keadataset.cpp`, `keacopy.cpp` |
| `DatasetCachesProofs` | theorems about the three | |
| `PixelGrid` | what block callbacks promise: a grid of pixels | |
| `ImageBlocks` | image, mask and overview of a band, written and read by blocks | `KEAImageIO.cpp`, `IReadBlock`, `IWriteBlock` of three classes |
| `RasterCopy` | the pixels of a band, its overview and mask copied to a new file; implements `PixelGrid` | `KEACopyRasterData`, `KEACopyBand` |
| `RasterCopyProofs` | theorems about `ImageBlocks` and `RasterCopy` | |
| `NeighbourAccumulation` | tiles, counters and pages of the accumulator | `build_neighbours.py`, `extrat.cpp` |
| `NeighbourAccumulationProofs` | theorems about it | |

`MC*` modules declare the model values of the configurations and say why the
sets are as they are.

How state corresponds to code is written at the head of each module; an action
has the name of the method it stands for. Operators named in a comment that
begins "Mutated" are wrong variants of the operator after them: replacing the
one by the other makes some property fail, which shows that the property bites.

Choices that hold throughout:

- A method that takes the mutex in its first statement is one step. Adding a
  column to a table handle is one step in the sequential modules and three in
  `AttributeTableThreads`, because the base class works outside the lock.
- A call that throws before it changes anything is an action that is not
  enabled. A call that throws after changing something is an action
  (`AddFieldAborts`, `OpenBandThrows`, `CreateOverviews` with levels that do not
  fit, `copyRAT` with a name that is taken, ..).
- HDF5 is modelled by what the code relies on: `Resize` keeps the intersection
  and gives new cells the dataset's fill value, creating a group, dataset or
  attribute that exists throws.
- A block callback ends in one call of the library and is one step. Buffers are
  flat and a value names its origin (a cell of a client's buffer, a pixel of the
  copied raster, a fill value), so that a pixel in the wrong place is told from
  one in the right place.
- Undefined behaviour is taken in its mildest outcome and marked where it
  occurs: reading a longer dataset into a shorter array (`GetGCPs`), deleting
  an array slot that was never set (`CreateOverviews`), racing on the counters
  (`AttributeTableThreads`). What the checks find wrong is then wrong in the best case too.
  The bytes that follow an array and reach the file are `Stray`, a value that no
  list has.

## 3. Runs

Each run's bounds are in its `.cfg`; "pass" runs explore their whole state
space.

| run | specification | what it shows |
|---|---|---|
| `table` | `AttributeTableFile` | headers, data and handle agree, any table can be reopened, refinement of `AttributeTable` |
| `table_faults` | `FaultySpec` | no stored cell is lost by failures while the handle lives; the next addition of a type repairs the type |
| `threads` | `ThreadsSpec` | in any interleaving of threads no stored cell of a known column is cut off or overwritten, and rows that are added bring SIZE and extents back together; in the interleavings where threads change the shape in turn (`turns`) accesses stay inside the datasets, also in the middle of an addition |
| `copy` | `AttributeTableCopy` | on a band without a table a table arrives whole, from memory or from another band, and by CreateCopy as the driver shows it; a table that is there is overlaid by place; the table in memory refines `AttributeTable` |
| `rat` | `RasterAttributeTable` | while neither driver nor extrat knows what the other adds, the driver's list stays in place and its cells are kept, a table that can be opened is whole, a value written is the one read, and whole tables and colour tables that the driver sets are in the file; conversions agree |
| `bands` | `ImageBands` | groups are gapless and counted, refinement of `BandList` |
| `bands_faults` | `FaultySpec` | failures part way lose at most the band that is removed and mix none |
| `blocks` | `CopySpec` | clipped blocks land where they belong, padding is what it should be, a copy brings what it passed to its place and ends; refinement of `PixelGrid` |
| `copy_mask` | `CopySpec` (violation) | the mask of a band wider than a byte is copied scrambled |
| `objects` | `DatasetObjects` | the count is exact, nothing is deleted twice or early, overviews and masks are backed as far as no removal has displaced them, closing reaches the file |
| `caches` | `DatasetCaches` | calls that report success leave memory and file agreeing; no data value and points read are the last given; a copy shows what its source shows |
| `neighbours` | `NeighbourAccumulation` | the neighbours stored are those of the whole image, each value is written once, all are written |

### Why the bounds are enough

- *Tables*: two types and three columns (two in runs with threads and faults)
  let a type get its second column after one of the other type came in
  between, which is where per-type indexes and column numbers part; one column
  of a type creates its dataset, the second resizes it. Two rows separate
  written, unwritten and added rows. Two cell values tell a fill value from a
  written one. `SetFields` writes one value to a run of rows; runs with
  different values are sequences of such writes.
  Threads are two, which may pick one name or two and one type or two, add rows and
  write cells: each hazard is between the steps of one thread and one call of another. Whether the threads
  take turns is chosen at the start (`turns`): nothing in the code makes them, so all properties
  but `AccessesInside` are about both.
- *Copying*: chunks of two rows and up to three rows make a whole block and a
  remainder. Start tables cover no table, one of a single row with a neighbour list,
  and one of three rows without lists whose bool column stands before an int one, so
  that by CreateCopy they become two of a type. An int of C has one bit, for -1 and 0:
  the one of an int column does not fit, the one of a bool column does. One call
  of `setAttributeTable` (`MaxCopies`) suffices for the copy properties, which
  are about single steps, from every table the editing actions produce. The
  bands are symmetric.
- *Bands*: three bands make a first, a middle and a last one to remove; with
  faults four, so that an orphan can lie behind a hole. Two descriptions, drawn
  with repetition, tell moved bands from overwritten ones.
- *Objects*: two bands, and lists of overview factors such that one can follow a
  shorter, a longer and a different one, and fail at its first or second level
  (factor 8 leaves no pixel of an image of 4). Sessions repeat without bound; in
  each a band is removed once, after which a band can be added under the number of
  an object that is still there. The model forgets what an earlier session leaked,
  which belongs to a count of its own.
- *Blocks*: the rasters are one block, cut on the right, below and on both sides,
  with up to five blocks, a block size asked for that is larger than the raster,
  and overviews of no pixel, one pixel, one row, the band's size, and of a size that
  another driver rounded up. In a behaviour each overview has one size. Positions in
  values make one kind of client block enough. The client writes blocks of one
  dataset in a behaviour, chosen at the start (`inUse`), and reads all.
- *The driver's table*: two columns and rows, two names, both channels of the colour
  table, and two types. With two columns the driver and extrat can each add
  one the other does not know of, of one type and of two, before, between and after
  the calls that set a whole table or a colour table. The table that is set has a column of
  one name twice, so that the second overwrites the first; that names are EQUAL
  which differ by case is in the proof of `CallsArrive` only. Ints of two bits in the
  client and four in the file, so that there are numbers to cut.
- *Caches*: points are lists of up to three, so that a shorter list can follow a
  longer one and be followed by one between the two; one scale that a float holds
  and one that it rounds; a no data value the type cannot hold; lists of items with
  a special one in the middle, which can fail. The parts share nothing, and a
  behaviour works on one of them (`part`), while opening, closing and copying
  concern all.
- *Neighbours*: all images of three by two pixels with three values on two pages,
  in tiles of one and two pixels, so that there are seams between all pixels and
  between some, and tiles that are cut; histograms that fit, that count the ignored
  value too, and that are one short or one over for a value.

`CHECK_DEADLOCK` is on but in three runs: the program of `neighbours` ends, and in
`threads` and `rat` headers and SIZE can part so that the table cannot be
opened again, after which no call of it is enabled.

### Fairness

`RasterCopy` claims that a copy ends (`CopyEnds`), under weak fairness of
`CopyStep`: the copy is sequential code in the caller's thread, without a wait of
its own. A copy may end by failing.

`NeighbourAccumulation` claims that every value is written in the end (`AllWritten`),
under weak fairness of its next step: it is a loop of one thread over a fixed list
of tiles.

`DatasetObjects` claims `CloseReachesFile`. It assumes
weak fairness of `OpenStep` and `CloseStep`, that is that a constructor or
destructor which has begun runs to its end: both are plain sequential code
without a wait. No client is assumed to do anything; in particular nothing
forces a dataset to be closed.

## 4. Proofs

TLAPS proves the following for all sets of names, types and values, any number of
columns, rows, bands, threads and sizes of rasters and blocks; TLC shows each of
them on the small instance of the run that names the property.

| theorem | states | about |
|---|---|---|
| **table** (`AttributeTableFileProofs`) | | |
| `TypeCorrect` | `Spec => []TypeOK` | types of the members and datasets |
| `WellNumberedAlways` | `Spec => []HandleWellNumbered` | column numbers and per-type indexes are gapless and unique |
| `HeaderMatchesAlways` | `Spec => []HeaderMatchesHandle` | the headers describe the table the handle believes in |
| `DataCoversAlways` | `Spec => []DataCoversTable` | the data has the extent SIZE announces |
| `ReopenableAlways` | `Spec => []Reopenable` | a closed table can be opened |
| `TableImplemented` | `Spec => ImplementsTable` | the file table implements `AttributeTable` |
| **failures** (the same module) | | |
| `StoredDataAlways` | `FaultySpec => StoredDataKept` | no column or row a handle knows is lost |
| `AddRepairsAlways` | `FaultySpec => AddRepairsType` | a successful addition repairs its type |
| **threads** (the same module) | | |
| `KnownCellsAlwaysKept` | `ThreadsSpec => KnownCellsKept` | no interleaving takes a stored cell of a known column away or changes it |
| `RowsAlwaysRepair` | `ThreadsSpec => RowsRepairExtents` | rows that are added bring SIZE and extents together |
| `AccessesInsideAlways` | `ThreadsSpec => []AccessesInside` | accesses are inside the datasets, during additions too, if threads change the shape in turn |
| **memory and copies** (`AttributeTableCopyProofs`) | | |
| `RowsAlwaysWhole` | `Spec => []RowsWhole` | in memory each row has a cell for each column of its type |
| `MemAlwaysTable` | `Spec => MemImplementsTable` | the table in memory implements `AttributeTable` |
| `CopyAlwaysKeepsAll` | `Spec => CopyKeepsAll` | a copied table arrives whole, by blocks of any size, and by CreateCopy each cell as the driver shows it |
| `TargetAlwaysOverlaid` | `Spec => TargetOverlaid` | a target has the source's cells up to the row where the call stopped and its own from there on, and loses nothing else |
| **driver's table** (`RasterAttributeTableProofs`) | | |
| `ColumnsInPlaceAlways` | `Spec => []ColumnsInPlace` | the driver's list stays right whatever it and extrat add without knowing of each other |
| `ListedCellsAlwaysKept` | `Spec => ListedCellsKept` | no addition, through whichever handle, changes a listed cell, nor a write one of another column |
| `ReadableAlwaysWhole` | `Spec => []ReadableIsWhole` | a table that can be opened has no gap and nothing twice |
| `WritesArriveAlways` | `Spec => WritesArrive` | a client's write is what a new handle reads |
| `CallsArriveAlways` | `Spec => CallsArrive` | a whole table or colour table that was set is in the file, whatever columns and rows the call found or made |
| `ConversionsAgreeAlways` | `Spec => []ConversionsAgree` | values come back, for ints of any width |
| **bands** (`ImageBandsProofs`) | | |
| `BandsCountedAlways` | `Spec => []BandsCounted` | the groups are `1 .. NUMBANDS`, and an object counts them all |
| `BandListImplemented` | `Spec => ImplementsBandList` | the groups implement `BandList` |
| `NoBandLostAlways` | `FaultySpec => NoBandLost` | a failure loses at most the band that is removed |
| **what dataset and band keep** (`DatasetCachesProofs`) | | |
| `LastListAlwaysRead` | `Spec => LastListRead` | the points set last are those read, now and after reopening |
| `NoDataAlwaysLastGiven` | `Spec => NoDataIsLastGiven` | the no data value is the last one given |
| `ReportedCallsAlwaysStored` | `Spec => ReportedCallsStored` | after a call that reports success memory and file agree |
| `CopyAlwaysShowsSource` | `Spec => CopyShowsSource` | a copy shows what its source shows |
| **objects** (`DatasetObjectsProofs`) | | |
| `RefsExactAlways` | `Spec => []RefsExact` | the count is that of the objects alive |
| `DeletesWhatItMadeAlways` | `Spec => []DeletesWhatItMade` | nothing is deleted twice or early |
| `OverviewsBackedAlways` | `Spec => []OverviewsBacked` | overviews and masks have their datasets |
| `HolesFromFailuresAlways` | `Spec => HolesFromFailuresOnly` | only a failed creation leaves a hole in the levels |
| **pixels** (`RasterCopyProofs`) | | |
| `PaddedOutsideAlways` | `CopySpec => []PaddedOutside` | the padding of edge blocks |
| `PassedPixelsArrivedAlways` | `CopySpec => []PassedPixelsArrived` | what a copy has passed is in its place |
| `PixelGridImplemented` | `CopySpec => ImplementsPixelGrid` | the block callbacks implement `PixelGrid` |
| **neighbours** (`NeighbourAccumulationProofs`) | | |
| `NeighboursAreRight` | `Spec => []NeighboursRight` | a list written names neighbours in the image as a whole, and all of them if the histogram is the image's, whatever the tiles |
| `PagesAreWrittenOnce` | `Spec => WrittenOnce` | a list that was written stays, also under a histogram that is too low |

The only assumptions are the named ones of the modules, all evaluated by TLC in
the runs: bounds are natural numbers and `NoVal` is not a value
(`BoundsAssumption`, `ValuesAssumption`); overview factors and sizes of images,
blocks and rasters are positive, as `CreateOverviews` and `Create` demand them, those
of overviews natural (`SizesAssumption`, `GeometriesAssumption`, `SidesAssumption`); what the driver's
clients hand over has names, types and values of the model, and so has what the
conversions make of it, each channel of a colour table has the usage its column is
named for, a colour has an int for each channel, and the columns of a table that is set
have the same rows (`ClientsAssumption`); what the neighbour accumulator is given
is an image of some pixels, with a count for each of the values `0 ..`, and no counter can
pass the width of its type within the image (`JobsAssumption`); a chunk has some
rows, the tables a file starts with are such as the file class leaves, within the
bound of rows, and what the driver makes of a type or cell is one of the model
(`CopyAssumption`); a text that holds a number holds a natural one where the
code stores it as such, and no value, reference or text is the one that stands
for none (`PropertiesAssumption`, `PointsAssumption`).
That `2 ^ (Width - 1)` is a positive number is assumed in `RasterAttributeTable`
because `^` is defined by induction, which the provers cannot follow.

**The table.** None of the safety properties is inductive alone. That a handle which
adds a column writes a correct header needs that the handle is well numbered; that it is
so after opening needs that the headers were well numbered when it was closed; that the
data has the announced extent needs that SIZE is the handle's. The inductive invariant
is the conjunction of the type invariant and these facts about an open handle and about
a closed table, and the proof has one step per action. The arithmetic core is
`WellNumberedAppend`: appending a field with `colNum = numOfCols` and `idx = n[type]`
keeps both numberings gapless and injective; and `KeepsEverything`, that an opening
which counts the columns by their largest number drops none. The refinement adds that
cells outside a dataset's extent are blank, so that a new row shows the fill value and
no older one, and maps each action to a step of `AttributeTable` or a stutter: opening
and closing are invisible because headers and handle agree.

**The table under failures.** After a failure SIZE, headers and data disagree,
and none of the equalities above survives. What does are inequalities (`FInv`): the
file is never a row and at most one column ahead of the handle, a dataset is
never shorter than what the handle knows. They suffice because an addition
that goes through writes the header from the handle's list, not from the file.

**Threads.** With additions that overlap even the inequalities of failures do not
hold between file and handle: SIZE, a header or an extent may be more or less than
what the handle counts, and two columns may have one place. What survives every
interleaving (`OInv`) is that no column the handle knows, no column under way and no
entry of a header has a number or place beyond what the handle has counted
(`FieldsCounted`, `BuildsCounted`, `EntriesCounted`), and that handle and SIZE
share the rows. A resize writes the handle's counters, so it does
not cut off what they count, whoever's addition it belongs to.
`AccessesInside` needs more, and is claimed where threads change the shape in turn (`turns`): between the locked storing and the unlocked recording the file is
then ahead of the handle by exactly the column that thread will record (`Ahead`).

**Copies and the table in memory.** The invariant (`CopyInv`) says that the table in
memory is well formed and its rows whole, and that a stored table is one a file can hold
(`FileTable`), of at most `MaxRows` rows. In memory a cell is found by its column's
place among the columns of its type; most lemmas count columns: a place is within the
row (`Place`), two columns do not share one, and every place has its column. A copy by
chunks is not followed block by block: the model says which blocks are read, and the
proof that those together are all the rows, whole chunks and the remainder, for a chunk
of any size, and that the blocks up to one that throws are a part of them. The in-memory
operations map to steps of `AttributeTable` with the same counting of columns.

**The driver's table.** Nothing in the code makes driver and extrat look at what the
other has added, so headers and SIZE may part. The invariant (`DInv`) is that
what the driver's handle knows is a part of what the file holds, and so it is for a
handle extrat makes of a file it can read (`Knows`); that SIZE never says more than the
datasets have (`FileIn`); and that a header which has grown beyond what its last
writer knew is longer than SIZE says, so that the file cannot be opened, and one that can
is whole (`WholeIn`). Both clients grow the table by the same lemmas about a handle
that knows a part of the file, whichever it is: the cells it knows are spared
(`Spares`).
`CallsArrive` is about the last step of a call of many. Its invariant (`SoFar`) says what
the steps before have left: a call under way has enough rows; one that sets colours has
noted for each channel the column a client will find for it, and the first `done` colours
are there; of one that sets a table the first `done` columns are in columns of names that
are EQUAL, but for those a later one has replaced. It holds because
each further step writes one place or makes a column nobody has noted
yet, and what the driver's list stands for is spared; two channels never share a column,
which is why the channels must be distinct.

**The bands.** `TypeOK /\ BandsCounted` is inductive. The case of interest is
removal: `MovedDown(i, last)` maps `1 .. n` to `1 .. n - 1`. Under failures
only `TypeOK` is invariant, and each step is compared with the one before it.

**What dataset and band keep in memory.** Almost all of it is a property of single
calls, but not without knowing three things (`DInv`): every copy in memory has the type of what
it copies; a reference that has been asked for is that of the header; and the dataset of
points is never shorter than NUM_GCPS, while the dataset's cache is the beginning of it
of that length. The last is what a shorter list after a longer one leaves, and why it
is read right all the same: `setGCPs` overwrites the beginning of the dataset.
`SetMetadata` writes its items one after another; the proof says which items are written
by those before the first that fails.

**The objects.** A destructor that counts an object out is right only if the object was
alive, a constructor that counts one in only if it is new. The invariant says
which objects are alive: each band has the objects it would delete (`Held`), all
others alive were lost by a failed opening or by a displaced band (`Accounted`), and a
band not yet in the dataset has none (`Untouched`). The lemmas are about
cardinalities: how many objects a band's overview list stands for.

**The pixels.** The invariant says that every dataset has a value for each of its
pixels (`Shaped`), that the last buffer is what the same read gives now (`Shows`),
where a copy may be (`Jobs`), and `PassedPixelsArrived` itself. The work is in
the arithmetic of blocks: cell `k` of a buffer of side `b` is in column `k % b` and row
`k \div b`, blocks start at multiples of `b`, two blocks with a pixel in common are the
same, and no pixel lies between the last one of a row of blocks and the first of the next.

**The neighbours.** The code never knows which pixels it has seen; it knows a histogram
that it counts down. The invariant (`Inv`) says which pixels of the image lie behind the
present place, given as tile and pixel in it (`Passed`), and what follows for each
value: its counter is the histogram less its pixels passed, or has wrapped (`Counters`);
a page that was not written waits for exactly its values with pixels to come
(`PageWaits`) and holds nothing but neighbours, with an exact histogram those of all
pixels passed (`PageHolds`); a value without page or list has no pixel behind
(`NotBegun`), and a page that was written has none to come (`WrittenIsPast`). That tiles
with their margins pass each pixel once, and see each of its neighbours, is the
arithmetic of blocks again, with a margin cut at the edges of the image.

**Only model-checked.** Liveness (`CloseReachesFile`, `CopyEnds`, `AllWritten`), which is
out of the prover's reach. Every invariant and every other property of a passing run is
stated by a theorem.

## 5. Divergence from the documentation, kept as a run

- `copy_mask`: "mask is always 8 bit in KEA, otherise same as band" (`keacopy.cpp`). The
  code compares the band number where it means the overview number, and writes the
  bytes of a mask as values of the band's type.

## 6. Divergences met and stated, not kept as runs

None of these is excluded from a model: the steps that lead there are in it. Each
is a definition in its module; naming it as INVARIANT (or PROPERTY) in the `.cfg`
given makes TLC print the trace.

| definition | add to | what happens |
|---|---|---|
| `GetFeatureWhole` | `table.cfg` | `getFeature` throws `std::out_of_range` for every row once the handle has added a column: `m_pFeature` keeps the size it was made with. |
| `SettledTable` | `threads.cfg` | "Protect driver internal data structures with mutexes - should be totally threadsafe now" (`Changes.txt:101`). `addRows` of one thread between the storing and the recording of another one's column resizes the data back and rewrites SIZE with the old count. |
| `NamesUnique` | `threads.cfg` | "Names need to be unique" (`KEAAttributeTable.cpp:462`). The name is looked up before the lock is taken, so two threads add one name, both succeed and both count a column. |
| `AddedColumnsSeen` (PROPERTY) | `rat.cfg` | "The user will need to close the dataset and open again to see the new column" (`extrat.cpp:398`). The driver's handle was made before and does not know the column; when it adds a column or rows itself it writes header and SIZE without it, and who opens the dataset again does not see it. |
| `NoNeighboursNeeded` (PROPERTY) | `copy.cfg` | "no neighbours" (`KEAAttributeTable.cpp:825`). `copyRAT` expects a `KEAIOException` of a table without neighbours and gets a `KEAATTException`: copying such a table stops after one block of rows. |
| `SetNoDataWorks` (PROPERTY) | `bands.cfg` | "Set the no data value for a band". A second call throws after writing the value, and after `undefineNoDataValue` the value stays undefined. |
| `OverviewArrayWhole` | `objects.cfg` | when an overview cannot be created the rest of `m_panOverviewBands` is uninitialised. |
| `GCPsInitialised` | `objects.cfg` | a dataset whose constructor swallowed an exception has an uninitialised `m_pGCPs`. |
| `BackedAfterRemoval` | `objects.cfg` | after `DeleteLayer` the objects of the removed band and of those behind it stand for other bands: their overview objects have no dataset or one of another size. |
| `GdalMasksNotOwned` | `objects.cfg` | "if GDAL created the mask it will delete it". `CreateMaskBand` clears the pointer to a mask of the band's own and leaves `m_bMaskBandOwned`; once `DeleteLayer` has put a band without a mask under the object, `GetMaskBand` takes GDAL's mask and the band and GDAL both delete it. |
| `CloseAlwaysReachesFile` (PROPERTY) | `objects.cfg` | the band that was made when the constructor threw keeps its reference; the file is never closed. |
| `CountIsSaved` | `caches.cfg` | after a shorter list the dataset of points is longer than NUM_GCPS, and `getGCPs` reads all of it into an array of NUM_GCPS entries. |

Others were met while reading, outside of what the modules tell apart:
`setStringFields` of the table in memory writes one string to every row
(modelled as it is; it reads `at(colIdx)`), its `setNeighbours` refuses runs that
end with the last row, NUMBANDS is a uint16, a failed `openKEAImageHeader` leaves
`keaImgFile` set, rebuilding fewer overviews leaves the stale higher levels in
the file and the next session shows them. `CreateCopy` makes all bands of the
first one's type and writes a band of another type as if it had it
(`PassedPixelsArrived` leaves such bands out). The mask an overview inherits from
`KEARasterBand::GetMaskBand` is the corner of the full mask.

In the driver's table and beside it:

- A header that extrat and the driver have each lengthened without knowing of the other
  is longer than the array it is written from or read into, which is undefined. The model
  takes it that nobody can open such a table, and that what lies behind
  the array is not read as entries.
- CreateCopy makes an int column of a bool one, and reads 64 bit integers through an
  int: what does not fit arrives cut. Without an error either way, so `CopyKeepsAll` claims
  of CreateCopy only what the driver shows.
- A table set on a band whose table has rows is laid over it by place and not by name, and
  the call always fails in the end: the loop runs over the rows of the target, to which
  those of the source have been added, and so asks the source for rows it does not have.
  `TargetOverlaid` says what is there then.
- Integers of the file are read through a client's int, also for doubles and
  strings: what does not fit is cut (`ConversionsAgree` claims agreement of the
  ways to read for the rest). A text takes 16 digits of a double.
- `SetColorTable` on a boolean column keeps only whether a channel is zero, which is all
  `CallsArrive` claims of such a column.
  `SetDefaultRAT` and `SetValue` leave a colour table that was read before.
- `SetDefaultHistogram` ignores the minimum and maximum it is given and leaves the
  counts of rows behind the new last one; `GetDefaultHistogram` takes them from the
  number of rows.
- `extrat.getField` leaks a handle when it throws. A `KEAATTException` of
  `SetRowCount` escapes `SetMetadataItem`, which expects a `KEAIOException`.

In what dataset and band keep in memory:

- Rows that cannot be stored are counted by the handle all the same, since `addRows` raises
  `numRows` before it writes (`counted`): on an image open for reading
  STATISTICS_HISTONUMBINS fails once and succeeds when it is set again, and a copy made
  then has a table with the rows that were refused.
- A geotransform or reference that is refused stays visible until the image is
  closed (`ReportedCallsStored` is about calls that report success), and a copy made
  by then has it. `setSpatialInfo` rounds resolution and rotation to float, which
  creation does not: a copy is less precise than its source.
- A second `SetNoDataValue` returns `CE_Failure` though the value is stored; after
  `DeleteNoDataValue` no value can be defined any more.
- `SetTableType`, a text other than the two for LAYER_TYPE, and rows added to the
  table leave the list of items as it was. `SetMetadata` takes nothing away from
  the file and stores STATISTICS_HISTONUMBINS as an ordinary item, as CreateCopy does;
  a list set without LAYER_TYPE loses the layer type in a copy.
- STATISTICS_HISTOBINVALUES set on an image open for reading, whose table has the
  column and the rows, reports success and stores nothing.
- Names of items that differ by case are one item in memory and two in the file; a
  name with a "/" makes a group, which reading the items then fails on.
- CreateCopy leaves a table that has columns but no row, and the projection of an
  empty list of points, behind. `DeleteLayer` passes the number of a layer, which
  GDAL counts from 0, on as that of a band, counted from 1.

## 7. Not modelled

- Conversion between data types of pixels; chunking and compression; several
  overviews of a band and masks of overviews; HDF5 failures in block operations.
- Descriptions, band usage, colour interpretation: single values nothing else
  depends on. The counts of a histogram, linear binning, `Clone` and `Serialize` of
  the table, the printing and exporting functions of `KEAAttributeTable`: they only
  read, or write what was read.
- What is special about an HFA source of CreateCopy.
- `hdf5vfl.h`: forwards each HDF5 callback to GDAL's VSI layer.
- Datetime and WKB columns: every operation of the file class throws
  "Unimplemented".
- Memory ordering: the sequential consistency of single accesses is assumed in
  `AttributeTableThreads`.
- numpy arrays of the extension, and its functions that only read.
- Table handles that are used after their `KEAImageIO` was closed or their band
  removed; two handles used from two threads.
- What GDAL's own containers do when a band is added under a number they do not
  expect: the model says that GDAL keeps the object it has.

## 8. Plan

What a further extension would take first: table handles of a band that is removed
or of an image that is closed; two removals in a session with GDAL's array of bands;
the bands of a copy one after another, so that a failure in a later one meets
complete earlier ones.
