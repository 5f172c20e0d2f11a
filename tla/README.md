# Verification of usd-raster-plugins

TLA+ specifications of the raster file format plugin of USD and of the reader behind it, the
configurations that check them with TLC, and theorems about them that TLAPS proves.
Paths are relative to the repository; line numbers are those of the commit the
specifications were written from.

## The system

| Part | Code | State it keeps | Operations |
| --- | --- | --- | --- |
| Windowed reader | `libs/usd-geotiff/src/GeoTiffReader.cpp` 967-1571 | none between calls but its source; within a call: plan, batches, batch buffer, libtiff handle | `ReadWindow`, `ReadTile`, `ReadScanlines` |
| TIFF parser | same file, 349-965 | the bytes parsed and the total of metadata bytes | `ReadMetadata`, the parse at the start of each read |
| Predictors, sample conversion | same file, 104-409; `RasterTypes.cpp` | none | undo predictors 2 and 3, decode samples, convert doubles to the requested type |
| Byte sources | `libs/usd-raster-core/src/RandomAccessSource.cpp`; the plugin's `ArAssetSource` | memory block, open file and the size it had, asset, recorded ranges | `GetSize`, `Read`, what was read, `Reset` |
| Window algebra | `RasterWindow.cpp`, `RasterMetadata.cpp`, `RasterTypes.cpp` | none | intersect, subdivide, to and from overviews, decimate, level factor |
| Result grid | `RasterGrid.cpp` | the samples of the last read | construct, `SetSample`, `GetSample`, `IsNoData`, `GetSourcePixel` |
| Statistics | `RasterReadOptions.h` | requests and bytes of a read | reset and counted by `ReadWindow` |
| Diagnostics | `libs/usd-geo-core/src/Diagnostic.cpp` | the sink, a list | report, count, format |
| Cache key | `CacheKey.cpp`, `RasterReadOptions.cpp`, `TileId.cpp` | the key built so far | `Add*`, `ContributeToCacheKey`, `Hash` |
| Geotransform, bounds, local origin | `RasterGeoTransform.cpp`, `GeoBounds.cpp`, `LocalOrigin.cpp` | none | apply, invert, bound, quantise |
| Mesh and metadata authoring | `libs/usd-raster-authoring/src` | the layer being written | one mesh, one set of attributes |
| File format plugin | `plugins/raster-geotiff/src` | arguments, the layer, the sink | `CanRead`, `Read` |

The plugin opens a source, asks the reader for metadata and then for a grid, and gives
both to the authoring library. The reader calls the source (`Read`) and, in a build
with libtiff, is called back by it (`LibTiffRead`); it calls the host's cancellation
callback before the first pixel data and before each segment. The caller's grid,
statistics and diagnostic sink are shared state: they outlive the call, and what a
failed call leaves in them is what the caller sees.

What is hard here is not concurrency, since a read runs on its caller's thread, but the
long way from a rectangle of pixels to bytes of a file and back, with an outside world
that moves between any two steps. A level is chosen; the window is translated to it;
segments are selected, put in planes, coalesced into batches, measured against a budget,
read once for several segments, decoded, and cut into samples; and at every step the
source may answer short, the host may cancel, memory may run out or libtiff may decode
less than it was asked for. `PROJECT.json` lists these hazards at the lines where they
bite, with the properties that would catch them.

What makes each part correct:

* reader: a call delivers exactly the samples asked for, or one error and nothing; it
  reads only bytes that can hold those samples, each once; it counts what it read; it
  stays within its budget; it ends;
* window algebra: the operations on rectangles are the operations on sets of pixels, up
  to and including the edge of the word;
* parser: a chain of directories that ends, with every table inside the source, or a refusal;
* sources: an answer never reports bytes that are not there, and all kinds of source can
  read the same ranges;
* cache key: two requests that may get different samples never have one key;
* samples: undoing a predictor gives back what was written, and a conversion changes a sample
  only where the reader warns of it;
* mesh: vertices, faces, bounds and origin agree with the file and with one another, under each
  NoData policy and for each transform;
* plugin: what is returned, posted and left in the layer agree, whichever of its returns is taken.

## Modules

| Module | Role |
| --- | --- |
| `RasterWindows` | the window algebra as operators over words `0 .. MaxCoord`: guarded arithmetic saturates, unguarded arithmetic wraps |
| `RasterWindowsCheck` | a request and a question about it; the algebra against definitions over sets of pixels |
| `WindowRead` | abstract specification: what a read of a raster promises, with no segments, batches or bytes |
| `GeoTiffReader` | the reader, one action per step of the code, and its safety properties |
| `TiffParser` | the parser, one action per step of the code, and its properties |
| `GeoTiffReaderPromise` | the refinement mapping to `WindowRead`, and the statements of the headers that fail for some files |
| `RasterSamples` | a sample between the bytes of a segment and the grid: data types, predictors, scale and offset, conversion, NoData |
| `RasterMesh` | geotransform, bounds, local origin, and the points and faces built from a grid |
| `FileFormatRead` | the plugin's `Read`, with its arguments, two parses, both kinds of authoring, and its properties |
| `ByteSources` | the sources, what each may answer, and the one that records |
| `CacheKeys` | the bytes that are mixed into a key |
| `CoreValuesCheck` | sources being read, and questions about keys, segments and data types; reference definitions for the answers |
| `MCGeoTiffReader`, `MCTiffParser`, `MCFileFormatRead`, `MCCoreValues` | files, questions, arguments, requests, windows and grains for TLC |
| `NumberLemmas` | quotients and remainders, induction over sets of numbers, sums over finite sets, powers of two and digits |
| `WindowLemmas`, `RasterWindowsProofs` | types of the window operators; the theorems about the algebra |
| `GeoTiffReaderProofs` | the theorems about the reader's state: types, failures, batches, reads, budget |
| `GeoTiffReaderPromiseProofs` | that the reader implements `WindowRead`, reads only what it needs, and counts what it reads |
| `TiffParserProofs` | the theorems about the parser: its walk, its levels, and what a parse hands out |
| `FileFormatReadProofs` | the theorems about the plugin and the mesh |
| `CoreValuesProofs` | the theorems about byte sources, cache keys, conversions and predictors |

`GeoTiffReader` EXTENDS `RasterWindows`; `GeoTiffReaderPromise` EXTENDS `GeoTiffReader`
and instantiates `WindowRead`. `TiffParser` EXTENDS `RasterWindows` as well. The reader and
the parser meet at the directory: what `LayoutIsSound` says of a parse that succeeds is
what `ValidDirectory` asks of the files the reader is given. Each has a module of its own,
since the parser is called once at the start of a read and shares nothing with it
afterwards; a module that composes them is planned. `FileFormatRead` EXTENDS `RasterMesh`, which EXTENDS
`RasterSamples`; it takes the reader as its outcome, an error or a grid, because the
steps in between are no concern of the plugin, and takes the pixels as values, where
`GeoTiffReader` has only their places. `CoreValuesCheck` EXTENDS `ByteSources` and `CacheKeys`.
`MCCoreValues` puts it and `RasterWindowsCheck` side by side for one run: they share no state, and every step of
`MCSpec` is one of `Spec` or of `WindowSpec` that leaves the other alone.

### How `GeoTiffReader` corresponds to the code

`pc` is where a call is, and each value stands for a stretch of `GeoTiffReader.cpp`:

| `pc` | code | actions |
| --- | --- | --- |
| `idle` | outside a call | `ReadWindow`, `ReadTile`, `ReadScanlines` |
| `parseTile`, `parseRows` | 1493-1571 | `FindTile`, `RefuseTile`, `RefuseTileLevel`, `FindRows`, `RefuseRows`, and the failures of the parse |
| `parse` | 975-987, `Parser::Run` | `Parse`, `ParseFails`, `ParseRefusesCompression`, `ParseRefusesLevel` |
| `check` | 989-1121 | `RefuseBand`, `RefuseLevel`, `RefuseWindow`, `RefuseLayout`, `RefuseSize`, `Accept` |
| `plan` | 1117-1167 | `PlanSegment`, `RefuseSegment`, `PlanDone` |
| `coalesce` | 1167-1190 | `Coalesce`, `CoalesceDone` |
| `measure` | 1189-1208 | `MeasureBatch`, `RefuseBatch`, `MeasureDone` |
| `budget` | 1209-1216 | `KeepWithinBudget`, `RefuseBudget` |
| `open` | 1217-1241 | `Cancel`, `Open`, `OpenFails` |
| `allocate` | 1243-1262 | `Allocate`, `ReturnEmpty`, `RefuseGrid` |
| `segment` | 1265-1378 | `LoadBatch`, `ReuseBatch`, `LoadFails`, `DecodeSegment`, `DecodeFails`, `RefuseDecoding`, `Cancel`, `Finish` |
| `copy` | 1379-1483 | `CopySegment`, `CopyFails` |

`AllocationFails` is `std::bad_alloc` wherever the code catches it. The variables carry
the names of the code where it has one: `plan` is `plannedSegments`, `batches` is
`readBatches`, `batchOf` the `batchIndex` of each planned segment, `workspace` is
`maxSegmentBytes`, `loaded` is `loadedBatch`. `issued` is a history of the reads of the
current call; no guard reads it.

Abstractions, and what they leave out:

* **Samples are where they come from.** A cell of `grid` is the directory, segment and
  byte its value was decoded at. That two bytes hold equal values, and what conversion,
  predictor arithmetic, scale and offset make of them, is not modelled; the sizes the
  predictors insist on are, because they decide between success and failure.
* **libtiff is external.** It acts on the first directory of the file, because the code
  never selects another; it reads one segment per call, at most as many bytes as the
  layout of that segment has, perhaps one byte fewer; and it may return data after a
  source failure, which `failed` (`LibTiffSource::failed`) remembers.
* **The parser is reduced to what it hands over**: a chain of directories that satisfies
  `ValidDirectory`, or a refusal. That all levels have the bands of the first one is
  assumed, and is not checked by the code. The file is a classic TIFF: a failed read of a
  BigTIFF header gives two errors, which `TiffParser` has and `FailureIsClean` would refuse.
* **The budget counts sizes**, as the code does, not the capacity vectors grow to.
* A caller passes a fresh sink to every call and keeps its grid and its statistics block
  from call to call. The null arguments that make a call return at once are left out,
  and so is the check that an index fits libtiff's 32 bits.

### How `TiffParser` corresponds to the code

A file is a record of its size, byte order, version, first offset and a function from
offsets to tables of entries; an entry has a tag, a type, a count, an offset and the
numbers that `IntegerValue` and `NumberValue` make of its bytes.

| `pc` | code | actions |
| --- | --- | --- |
| `idle` | outside a call | `Begin` |
| `header`, `bigHeader` | 472-491 | `ReadHeader`, `ReadBigHeader` and their refusals |
| `chain` | 493-511, 594-599 | `CountEntries`, `RefuseChain`, `EndChain` |
| `table` | 600-611 | `ReadTable`, `RefuseTable` |
| `entries` | 612-637, 499-505 | `SkipEntry`, `TakeEntry`, `RefuseEntry`, `EndTable` |
| `size` to `values` | 727-946, `Decode` | one `Decode` and one `Refuse` action for each part, in the order of the code |
| `choose` | 513-532, 442-455 | `ChooseFirst`, `ChooseOverview`, `RefuseLevel` |

`ReadBeyond` and `ReadFails` are the two ways `Parser::Read` fails, at any of its five
places; `AllocationFails` is `std::bad_alloc`, with any part of what the step stores
already stored (`HalfStored`). `target` is the directory being decoded: the first one goes
to the caller's `metadata`, an overview's to `scratch`. `reads` is a history.

Abstractions: a text is what is made of it (GDAL_NODATA is a number or not, GDAL_METADATA a set of
bands), reals are integers, the bounds in source coordinates are left out. A numeric
tag given as Byte or Ascii, of which the code reads more bytes than there are, has
whatever words the file of the model has: `Readable` says that `Number` finds a `uint64_t` for every
value of a tag it is asked for, whatever the type, and `Real` any number.

### How `FileFormatRead` corresponds to the code

`pc` is where `UsdRasterGeoTiffFileFormat::Read` is. A behaviour is one read of one layer.

| `pc` | `RasterGeotiffFileFormat.cpp` | actions |
| --- | --- | --- |
| `arguments` | 156-166, and `ParseRasterArguments` | `ParseArguments` |
| `asset` | 168-176 | `OpenAsset` |
| `metadata` | 177-182 | `ReadMetadata`, `FailToParse` |
| `checks` | 183-215, 224-227 | `CheckSource` |
| `pixels` | 229-238, and the parse inside `ReadWindow` | `ReadWindow`, `FailToParse`, `FailToReadPixels`, `ReplaceContent` |
| `scope` | 216-222, `AuthorMetadata` | `AuthorMetadata` |
| `mesh` | 239-243, `AuthorMesh` | `AuthorMesh` |
| `done` | any of the fourteen returns | none |

`sink` is the local `DiagnosticSink`, `posted` what `ReportDiagnostics` has handed to Tf, `layer`
the type of the prim `/Raster` and its attributes by name. The asset's content is a
record of how its parse ends, its metadata and the raw samples of each band;
`ReplaceContent` changes it between the two parses, which the code does not exclude.
An attribute that Sdf refuses is reported and the rest is still authored, as `AddAttribute` and its
callers do; `FailingSets` has the sets of attributes that fail. The wording of texts is
left out: a text is the name of what it tells. The reader's warnings appear twice in a mesh
that is read, since the file is parsed twice; the model has them twice as well.

In `RasterMesh` and `RasterSamples` a real number is a whole number of fractions of 1 / `One`, with
a value for NaN. Sums and products of doubles are exact there, which they are in the code for
coordinates of moderate size; rounding to float is not, it is `ToFloat`, to the nearest
and to even, with a significand of three bytes as in the code and `ByteBits` bits in a byte. Powers of two are the
recursive function `PowerOfTwo`, of which the provers can use the equation, as they cannot of `^`.
Faces are a set of their vertex indices, in the order they run. Infinities, the
decoding of float bits and a scale that is not whole are left out.

### How `ByteSources` and `CacheKeys` correspond to the code

`Results` is `Read` of each kind of source as the set of results it may give: one for a
buffer, two for a local file (seeking and reading may fail), and as many as there are bytes
for an asset, whose resolver may return fewer. `Read` is `RecordingSource::Read` around it, which
records before it asks. `ChangeLength` is another process that truncates or extends the
file after its size was taken. `Sortings` is all that `std::sort` may make of ranges with equal offsets.

A key is the sequence of bytes mixed into it. That different sequences have different digests
is the business of the hash and is not claimed.

## What the runs check

| Run | What it shows |
| --- | --- |
| `read` | The reader keeps the promise of `WindowRead`, ends every call, and has the eight invariants below |
| `overview_rows` | An overview whose height is not the image height over the factor of the widths leaves rows of a successful read unwritten |
| `compressed_overview` | With libtiff, samples of a selected overview are decoded from the full-resolution image |
| `predictor_budget` | Undoing a floating-point predictor holds a row that the budget did not count |
| `parse` | The parser has the nine properties below, over seventy files |
| `parser_version` | A source that fails while a sound BigTIFF header is read is reported as an unsupported version as well |
| `parser_level` | A directory without a size shifts the levels behind it |
| `parser_mask` | A mask of the size of the image is listed as a reduced level, and chosen before the image |
| `parser_coarsest` | Where directories do not come finest first, the last one the step covers is chosen, not the coarsest |
| `plugin` | The plugin's read has the nine properties below, over seventeen files and thirty sets of arguments |
| `nodata_scaled` | NoData is compared with the sample after its offset was added: holes of such a band become faces |
| `values` | Windows, sources, keys, predictors and conversions have the ten properties below |

All but `read`, `parse`, `plugin` and `values` are expected violations: each checks one sentence of a
header, README or architecture document against the code, and `findings` in `PROJECT.json` quotes it.

`read` checks, besides the type invariant:

* `ReaderKeepsItsPromise`, refinement of `WindowRead`: every call returns one error and no
  sample, or no error and exactly the samples asked for, each from the right level,
  pixel and band and in the right cell;
* `EveryReadEnds`: every call returns;
* `FailureIsClean`: a failed call has one error and an empty grid, wherever it failed;
* `SegmentIsInItsBatch`, `BatchesAreBounded`, `EachBatchIsReadOnce`: what coalescing and
  the reuse of one buffer must keep;
* `OnlyUsefulBytesAreRead`: no byte outside the segments that meet the window;
* `StatisticsCountTheReads`: the account equals the reads, after failures too;
* `BudgetCoversTheRead`: what is held during a copy stays within the budget, but for what
  `Unplanned` names. The exception is stated because the code has it: the row buffer of
  the floating-point predictor (see `predictor_budget`), and the output of libtiff for a
  segment that has a predictor and no compression.

`parse` checks, besides the type invariant, which has the places `Decode` indexes without a check:

* `OnlyMetadataIsRead`: no range outside the source, whatever offsets and counts the file has
  (`ReadsStayInside`); and in a file whose segments overlap nothing else the parser wants, not a byte of them
  is read, even if unknown tags point there;
* `ChainIsBounded`, `EveryParseEnds`: cycles included, a walk ends within the limits on directories and
  on the bytes of values, counted over the whole chain;
* `FailuresAreReported`: an error exactly if the call fails;
* `MetadataIsOfTheFirst`: an overview that is decoded leaves the caller's metadata alone;
* `LayoutIsSound`: a segment for every place and plane, inside the file, and what else a
  windowed read takes for granted;
* `LevelIsItsDirectory`: where all directories have a size, the layout of a level has the
  announced size (`parser_level` shows why the condition is there);
* `CoarsestLevelIsRead`: a windowed read that leaves the level to the parser gets the layout of
  the narrowest directory the step covers, in a file whose directories all have a size and come finest
  first (`parser_coarsest` shows why the order is a condition, `parser_level` why the sizes are). Covering
  goes by widths, as the code has it: `overview_rows` shows what that costs in rows, `parser_mask` that a
  directory so chosen need not be an image. Widths are at most half the largest number, so that the
  rounding of the factor does not saturate;
* `GeoreferenceIsExplained`: a transform without an anchor is reported, and the matrix wins.

`plugin` checks, besides the type invariant, which says what the code takes for granted where it
dereferences a band and reads an anchor:

* `ReadTellsTheTruth`: success exactly if no error was posted, and everything collected is
  posted once;
* `RefusalLeavesNoPrim`: no check and no read comes after the first change to the layer, so that
  a refused layer has a prim only if authoring its attributes was what failed;
* `SuccessIsAnchored`: every layer that was read has an anchor, says whether the file or the
  argument gave it, and has the bounds that belong to that anchor, also when the anchor came
  after the parse that computes them;
* `ArgumentsTakeEffect`: each argument shows in the layer or the read is refused;
* `PlacesGiveTheirPixel`: there is a point for each pixel, and the inverse of the transform takes
  its place back to that pixel, also when the file was replaced between its parses;
* `PointsRecoverTheSource`: origin and point together give that place back to within the
  float of half the extent, far from zero too, and heights stay inside the authored bounds;
* `FacesLieInTheBounds`, `FacesPointUp`: with rotated, mirrored and south-up transforms faces stay
  inside the authored bounds, and run counter-clockwise seen from above;
* `NoDataCarriesNoElevation`: a pixel that stores the file's NoData touches no face, or is as
  high as the fill value, if its band is delivered as it is stored. The condition is stated because
  the code needs it (see `nodata_scaled`). The file may be replaced before the pixels are read:
  the sentinel that is compared comes with them.

`values` checks:

* `IntersectIsExact`, `OverviewWindowIsTight`, `RoundTripOnlyWidens`, `SubdivisionTilesTheWindow`: the algebra
  of windows agrees with sets of pixels, where far edges and products saturate too;
* `OverviewFactorIsRecovered`: the factor derived from two widths is the one the overview was built with;
* `RecordedRangesAgree`: the two ways to ask a recording source what was read agree with each
  other and with the bytes, whatever overlaps, is empty or has equal offsets;
* `SourcesAgreeOnWhatSucceeds`: success means every byte, from a truncated file too, and the
  same ranges can be read from all kinds of source. (They differ in what they answer to
  others: a buffer answers a range that straddles its end with the bytes before it, an asset with none.)
* `KeysTellRequestsApart`: the same bytes exactly if the same values were added, doubles up to
  the sign of zero and the kind of NaN;
* `PredictorsUndoDifferencing`: what a reference writer has differenced comes back, in both byte orders
  and for each band, and a segment that is a byte short is refused;
* `ConversionIsExactWhenSaid`: `IsExactlyRepresentable` is exactly the set of conversions that change no
  sample of the source type.

Each property has a mutant, a plausible slip in one definition, under which it fails.

### Bounds

For the window algebra `CoreValues.cfg` uses `MaxCoord = 7` and every window and grain there is, empty and
saturated ones included. The operators only add, multiply, divide and compare, so a word
is wide enough when it has room for an interior, an edge that saturates and a product
that does; the theorems carry the result to every width.

`GeoTiffReader.cfg` uses 16-bit words, `MaxBatch = 8` and `SampleSize = 8`. With 8 bytes a
batch holds two strips of 4 bytes and not three, so a plan of four strips has batches that
are full, shared and next to one another, and a tile of 12 bytes is larger than the
limit. The files are the layouts the reader tells apart: strips and tiles, one and
two planes, bands of different sizes, segments out of order and with a gap, too short for their
layout, predictors 2 and 3, compressed levels, two overviews, an overview wider than the
image, and sizes that do not fit a word. The questions take windows at the corners of segments,
partial, empty and outside; levels that exist and do not; steps that select each level,
skip samples and wrap; bands 0 to 2 and one that is missing; budgets just above and just
below what is needed. Two calls in a row are enough to carry state from one to the next,
and the run does not limit their number.

`TiffParser.cfg` uses 16-bit words, 300 bytes of metadata and three directories instead of
64 MiB and 1024: a cycle reaches the limit of directories when its values are short and the limit of bytes
when they are long, and the longest sound chain has exactly three. `MaxSamples` is 3 instead of the largest
32-bit number, and files have fewer, exactly as many and more. There is a file for each
refusal, for each way to georeference, for each table that does not fit, for segments whose
number is off, and for overviews that fail in each way after the first directory was
decoded. Requests take metadata only, steps 0 to 5 and levels 1 to 3.

`FileFormatRead.cfg` counts in quarters (`One = 4`) and has bytes of 2 bits, so that a float has 6
bits of significand and both heights and coordinates of a few thousand have to be rounded;
`Infinity` exceeds every coordinate there is. `Collapse` stands for the 10^15 of `IsInvertible`, and is
larger than what any of the transforms has but a degenerate one. `MaxMeshIndex = 100` and
`VertexCeiling = 12` keep the order they have in the code (an index limit that the ceiling never
reaches), and a 4 x 4 raster is above the ceiling. Rasters of 1 to 9 pixels have one face, several,
and none, with a hole at a corner, holes nearly everywhere, and NaN everywhere. Every pair of
files can be the one before and after a replacement.

For the rest `CoreValues.cfg` has offsets 0 to 7, sources of 0, 2 or 3 bytes and up to three reads between two
resets (`MaxReads`), which is enough for two ranges that overlap a third. Bytes have 3 bits, so that
every tag of a key also occurs inside strings; a word has two bytes, and doubles of 6 bits with a
mantissa of 3 have both zeros, several NaNs and infinity. Keys are of up to two values of twenty.
Segments have 2 rows, 1 or 3 columns and 1 or 2 bands of each integer type. Conversions are tried on every
value of an integer type, and on numbers around each power of two for floats.

The files of `read` have overviews with the height GDAL gives them and no compressed
overview a libtiff build reads: the two expected violations show that the promise does not hold without
that, and the promise is checked for all the rest.

### Fairness

`WF_vars(Progress)`: a call that has begun keeps taking steps, because it runs on the
thread of its caller. Nothing is assumed of the outside: sources may fail forever, the
host may never cancel or cancel always. Beginning a call is not fair, a host need not ask.
`FileFormatRead` and `CoreValuesCheck` state no fairness, since nothing is claimed of when they end.
In `TiffParser` allocation failure is left out of what is fair, so that no parse ends
because memory ran out; a read of the source returns, with an answer of its own choice.

## What is proved

For every set of valid files and every set of questions, every word width, batch limit
and sample size (`FilesAssumption`, `BuildsAssumption`, `QuestionsAssumption`,
`SizesAssumption`, `MaxCoordAssumption`), with TLAPS:

* `TypeCorrect`, `FailuresAreClean`, `BoundedBatches`, `SegmentsAreInTheirBatch`, `BatchesAreReadOnce`,
  `BudgetIsCovered` (`GeoTiffReaderProofs`);
* `PromiseIsKept`, that each initial state and step of the reader maps to one of `WindowRead`
  or to a stutter, and `UsefulBytesOnly`, from `EveryFileIsRegular`; and `StatisticsCount`, for all
  files (`GeoTiffReaderPromiseProofs`);
* `ParserTypeCorrect`, `ParserReportsFailures`, `ParserReadsOnlyMetadata`, `ParserKeepsItsLimits`,
  `ChainsAreBounded`, `LevelsAreTheirDirectories`, `CoarsestLevelsAreRead`, `GeoreferenceIsNeverGuessed`,
  `LayoutsAreSound`, `MetadataIsTheFirsts` (`TiffParserProofs`), from
  `ImagesAssumption`, `RequestsAssumption` and `LimitsAssumption`;
* `ReturnsTellTheTruth`, `RefusalsLeaveNoPrim`, `TypeCorrect`, `SuccessesAreAnchored`,
  `EveryArgumentTakesEffect`, and of the mesh `EveryPlaceGivesItsPixel`, `EveryFacePointsUp`,
  `EveryFaceLiesInTheBounds`, `HolesCarryNoElevation` and `PointsRecover` (`FileFormatReadProofs`), for every set of
  contents, arguments and failures (`ContentsAssumption`, `ArgumentsAssumption`, `FailingAssumption`,
  `FailuresAssumption`, `InfinityAssumption`), every size and every transform, every width of a float
  (`ByteAssumption`) and every fineness of the numbers (`OneAssumption`), whenever the file is replaced;
* `SourcesAgree` and `RangesAgree` (`CoreValuesProofs`), for every size of the sources and every set of ranges to
  read (`OffsetAssumption`, `SizesAssumption`, `ReadsAssumption`), and any number of reads;
* `KeysTellLists`, for all lists of values there are, and `KeysTell`, for the lists, requests and tiles of the run
  (`AddsAssumption`, `RequestsAssumption`, `TilesAssumption`); bytes and words of any width (`WordAssumption`)
  in which the six tags differ (`TagAssumption`), and any names of the data types that are
  different and whose length fits a word (`NameAssumption`);
* `ConversionsAreExact`, for every pair of data types and every width of a byte but one bit, and numbers of any
  binary fineness, tried on any set that has a NaN and the least number that is no float (`FloatAssumption`, `FractionAssumption`);
* `PredictorsAreUndone`, for segments of any rows, columns and bands, either byte order, each integer type and any
  samples of it (`SegmentsAssumption`);
* the six facts of the window algebra (`RasterWindowsProofs`), for every width of
  word, and every window and grain.

None of the reader's properties is inductive. `Inv` adds to the properties themselves:
that a call which runs has reported nothing (`Running`), that nothing is planned or
buffered before the place where the code does it (`Fresh`), that a call past its checks
has an existing band, a level and a row that fits (`Accepted`), that the planned segments
before the cursor, and no others, have a batch (`Numbered`) in which they lie whole
(`Placed`), and that the buffer holds the loaded batch (`Buffered`). `Placed` is what
makes `SegmentIsInItsBatch` provable: when a segment joins the last batch the batch grows,
and every segment placed before still lies inside. The first lemmas of `GeoTiffReaderProofs`
connect the arithmetic of places to the tables: a place in a plane is a window inside the
image, and its index, planes added, is an index of the tables.

`Reads` is a second invariant on top of `Inv`: batches are numbered in the order of the
plan, without gaps (`Ordered`); between two segments the batch of the one before is
loaded, and the reads issued are the batches up to it (`ReadSoFar`); each measured batch,
with the largest copy of one of its segments, is within the workspace (`Measured`), and
a call past the budget check has a workspace that fits (`Within`). Because batch numbers never
skip, a batch that has to be loaded is the one after the last; that gives
`BatchesAreReadOnce`, and `BudgetIsCovered` follows from the measure of the batch at the
cursor.

`Serves` is a third invariant, and the one that says what a read is for. The window at the level
is the one whose samples were asked for (`RightWindow`); the segments planned before the cursor are
exactly those the window touches, each with its offset and size (`Planned`); a batch holds no
byte that is not of a segment planned for it (`NothingBetween`); a cell of the grid is
written exactly if its segment was copied, with the sample of its own pixel, band and level
(`Copied`); and the decoded bytes are those of the segment at the cursor (`Decoded`). Its
core is a numbering and its inverse: the place of a sample gives back row, column and
band (`PlaceIsRecovered`, `SegmentIsRecovered`, `SampleIsRecovered`), so two outputs never share one, and
every output lies in a segment that is planned (`OutputIsCovered`). When the cursor has passed the
plan all cells are written, and the grid is what `WindowRead` delivers (`DeliverKeepsPromise`);
`TileIsCovered` shows that the window of a tile is that tile of the level, cut at the edge, in
full-resolution pixels too. The other steps are stutters of `WindowRead` or its refusal.

`StatisticsCount` needs no more than the first two invariants: a step that issues a read adds to the history
and to the account alike (`IssuesCount`), and every other step leaves both or empties both
(`StatisticsSteps`). The total is a fold over the history, which is a sum (`BytesOfReadsAreASum`).

Sums, folds and recursive functions are reasoned about without induction over an operator. A
property of numbers, or of finite sets, is given as the set of those that have it (`InductionUpTo`,
`InductionOnSubsets`), and a recursive function is one that satisfies its equation, shown to exist by
extending it value by value (`RecursionExists`). The fold of `MapThenSumSet` chooses an element
of each subset; `SumTablesAgree` proves that any table over all subsets that takes out one element at a
time has the same values, whichever element it takes, so that one more summand adds its value
(`SumOfOneMore`). `PowerOfTwo` doubles, hence adds exponents (`PowerOfSum`), and `DigitsTellNumbers` says that
a number is known from its digits.

`EveryFileIsRegular` is the hypothesis of both: an overview is as many rows and columns as
the factor recovered from the widths makes of the image, rounded up; no overview that is read
is compressed or has a predictor where libtiff would answer for the first directory instead; and the image ends
below the largest coordinate. It is not needed for convenience: without the first two the promise
is false, which `overview_rows` and `compressed_overview` show, and at the largest coordinate
`GetSampledExtent` and the far edge of a tile saturate. TLC evaluates the condition on every file
of the run `read` (`FilesAreRegular`), plain, tiled, planar and with overviews.

The parser's invariant says where a walk can be (`WalkSound`: at a place that the first
offset or a table links to, which is why a count that can be read belongs to a table), how
the list of sizes relates to the chain (`IsListOf`: shorter than the chain, and as long as
it may be when every directory has a size), and how the chosen level relates to the
directory being decoded (`LevelSound`). That the chosen level exists needs that a non-empty
set of levels has a largest one (`MaxOfBounded`). From `IsListOf` follow both that the
directory indexed by a level exists, which the code checks once more and never finds
wrong, and `LevelsAreTheirDirectories`. `ParserLeavesPixels` adds `StructureInv`: each read
so far lies in a header, in a count with its table, or is a value of a tag the code knows,
which is what every step asks for (`AskedIsStructure`). What a parse hands out is proved by
two more: once a level is chosen it is the last one the step covers of metadata that stay (`ChoiceInv`), and once
the first directory is past its transform so do anchor, transform and warnings (`PlaceInv`),
because an overview fills what is thrown away (`OverviewLeavesMetadata`).

Three more invariants carry what the directories hold. `Counted`: the counter of the code is the sum of the
bytes of all values in the chain and the current table, or more where a tag was given twice and the first
value replaced (`OneTagMore`), from which `ChainsAreBounded` follows.
`Checked`: each stage of `Decode` is reached only past the checks of those before it, which
with `NumberIsAWord` (`Readable`, kept by `AllLegible`) makes what `LayoutHere` hands over sound
(`CheckedLayoutIsSound`); the offsets of samples are sums of the sizes before them (`OffsetsAddUp`). `ListedInv`: the list of sizes has one place
for each directory of the chain that has a size, in its order (`ListFollowsChain`), and `DescribedInv`: size and bands of the
metadata are those of the first directory from the stage that stores them on. `MetadataIsOfTheFirst` is
both at the end of a parse. `CoarsestLevelsAreRead` takes from them that levels and directories have the
same sizes in the same order; that a level fits exactly if its directory is covered is arithmetic
(`FactorCovers`, and `FineIsCovered` for the image itself), and that the last of them is the narrowest is
the order of the file. A parse that chooses no level hands out the layout of the first directory (`FirstLayoutInv`).

The plugin's invariant is that as long as `Read` runs, its sink has no error, nothing was posted and
the layer is untouched (`Collected`), and that the asset stays there once it was opened. Each
step either goes on with diagnostics that hold no error (`GoingOnIsWell`), or returns with one
(`RefusalIsWell`), or authors and returns with one error for each attribute that failed
(`AuthoringIsWell`), which is how the two properties relate the verdict, the layer and what was posted.
What the theorems rest on is that each of the parser's and reader's failures ends with an error
(`ParserReportsItsError`, `ParserAndError`), and that the mapping of codes keeps severities (`ProjectionKeepsSeverity`).

`Knows` is the plugin's second invariant: what `Read` has found out by each place. The
arguments are those that were parsed, each to its option (`TakenSays`, for which the first wrong
argument is found by well-foundedness); bounds belong to the anchor that is known
(`MetadataIsRead`, which `CheckSource` has to restore when the anchor is an argument); a source
that was checked has a transform, an anchor and the band; and the grid is that of the file the
pixels came from (`GridIsDelivered`). A read only succeeds in the step that authors
everything (`SuccessIsAuthored`), so each property of a layer that was read is a property of
that step and what `Knows` says before it. What the attributes say name by name is `MetadataSays`
and `MeshSays`.

The mesh adds arithmetic to that. A vertex index is a place in row-major order (`RowMajor`), so the
corners of a quad are the pixels they are named by (`CornersOfAQuad`); from one pixel to the next the
place moves by a column of the transform (`NextPixel`); and around a parallelogram every turn is the
same (`Turns`), with the sign of the determinant, which is what the reversed winding undoes
(`FacesTurn`). The inverse takes a displacement back to the determinant times the pixel
(`InverseOfADisplacement`), and half a unit more than a whole number rounds to it
(`FloorOfAHalfMore`), for cells and for samples. An affine function is least and greatest at corners
(`ProductsPeakAtAnEnd`), so bounds of all four hold the raster (`WindowBoundsHold`); two would not do,
which is the mutant of `FacesLieInTheBounds`.

What a float keeps of a coordinate is proved from its unit alone. The unit in the last place is a power of two
that bounds the number from both sides (`UnitIs`), so rounding moves it by half a unit at most
and never past another number that was rounded (`FloatIsNear`, `FloatKeepsOrder`). Subtracting the origin first leaves at most half the extent,
which is why `PointsRecover` bounds the error by the float of that half and not by the float of the coordinate: the
mutant that narrows before it subtracts breaks it.

A recorder's sweep over the sorted ranges has counted, at each range, the bytes below the place it has
covered (`SweepStep`, for neighbours that overlap, touch, repeat or are empty), whatever order ties have;
and a range whose end does not wrap overlaps a query exactly if they share a byte (`OverlapIsAByte`).
A key is a sequence of tags and payloads. A payload of a kind is never the beginning of another (`PayloadsTell`:
words have one length and strings are framed by theirs), so two keys that are equal agree
value by value from the front (`ListsAgree`), and neither has one more (`NeitherIsLonger`). Bits that are canonical
are the same for zeros and for NaNs and for nothing else (`CanonicalTells`).

That the table of exact conversions is right needs both directions. Whole numbers survive in an integer
type exactly if it holds them (`IntegerStays`), so two integer types compare by their ends; a number is a
float exactly if its unit divides it (`MultiplesAreFloats`), which all integers of up to two bytes
do (`ShortIntegersAreFloats`) and the least number above the significand does not (`ThereIsNoFloat`),
whatever fraction it is counted in; and a float that is rounded again stays (`RoundedOnce`), also where
rounding up carried it into the next unit.

The bytes of a sample are the digits of its remainder, so reading them gives that remainder, in either order
(`DigitIs`, `ReadingIs`), and a value that wrapped is told by its size (`WrapsTo`). For predictor 2 the sums along a row
have the remainder of the samples (`SumsComeBack`), though they are never reduced. For
predictor 3 every byte of a row is in one plane (`ThereIsAPlane`, `PlaneIs`), and the sums give back the
planes and nothing else (`PlanesComeBack`), from which each sample gathers the bytes it was written as. A
place of a segment is a row, a column, a sample and a byte in one way only (`PlaceIs`), and the last byte is that of the
last sample (`LastPlaceIs`), which is why a segment without it is refused (`ShortIsRefused`).

The algebra is proved axis by axis: the far edge of a window given by its edges is that
edge, rounding up is the least multiple that reaches (`CeilDivFacts`), a quotient is known from the
multiples it lies between (`QuotientIs`), and a tile holds the pixels whose distances from
the origin divide to its column and row (`TilePixels`).

Only model-checked: liveness (`EveryReadEnds`, `EveryParseEnds`), which is out of the prover's
reach. Every invariant and action property of the passing runs is a theorem.

## What the code does that its documents do not say

The expected violations and `findings` in `PROJECT.json` have those a run shows. Met on the way:

* `Subdivide` and `GetSampledExtent` round an extent up without a guard: near the largest coordinate
  tiles are lost and a window that has pixels gets an extent of zero. `SubdivisionTilesTheWindow` has
  the precondition; RasterWindow.h:65-66 has none.
* A tile or a range of scanlines that is refused before `ReadWindow` is reached leaves the statistics
  of the read before it (GeoTiffReader.cpp:1491), though RasterReadOptions.h:14 calls them those of one read.
* Codes without a case in `PluginCode` are posted as GTIF003, a malformed directory: a lossy conversion,
  for which DIAGNOSTICS.md:166 has GTIF015, a window that is outside a file that shrank, a cancelled read.
* DIAGNOSTICS.md:108-109 asks for a warning when heights are exaggerated or NoData is substituted; the plugin
  records both as attributes and warns of neither.
* A warning of the parser is posted twice for a mesh, once for each parse.
* A raster of which no elevation is a number gets vertical bounds that are inverted
  (MeshAuthoring.cpp:121-126): the origin is then zero and coordinates far from it lose precision.
  `HasHeights` excludes it.
* A tiepoint that is not a number passes `IsInvertible`. The bounds are then empty and authoring fails; the
  plugin does not look at the result of `TryGetWindowBounds`.
* RasterGeoTransform.h:147 says the vertical range is left empty; it is made degenerate at zero.
* COORDINATE_MODEL.md section 8 lists the corners of a face in the order for a determinant that is
  positive; the code reverses it for the usual north-up image, as section 6 wants.
* Sampling steps 0 and 1 read the same samples and have two cache keys.
* A file may say it has as many samples as a 32-bit number can count: the loop over them
  (GeoTiffReader.cpp:747) counts in 32 bits and ends only when memory does. `TiffParser` makes it a
  refusal for want of memory; its `MaxSamples` is that largest number.

## Not modelled, and the plan

What is left, in the order it would be written:

1. A module that composes `TiffParser` with `GeoTiffReader`: what a read does when the bands of the
   levels differ, which `ValidFile` excludes and the code does not check.
2. `ByteSources` in place of `SourceAnswers` in `GeoTiffReader`, with a file that changes its length
   between the two parses of one `ReadTile`.
3. The decoding of float bits, and infinities, in `RasterSamples`.

Left out for good: the floating-point rounding of double arithmetic, which is out of TLC's reach;
the mixing of the hash; the texts of attributes and diagnostics, their redaction and formatting;
CRS descriptions and the containment of tiles and bounds, which nothing in a read compares;
`CanRead`, `WriteToString` and `WriteToFile`, which keep no state; the build-time scripts.

## Running it

    tlc -workers 2 -config GeoTiffReader.cfg MCGeoTiffReader.tla
    tlc -workers 2 -config TiffParser.cfg MCTiffParser.tla
    tlc -workers 2 -config FileFormatRead.cfg MCFileFormatRead.tla
    tlc -workers 2 -config CoreValues.cfg MCCoreValues.tla
    for m in RasterWindowsProofs GeoTiffReaderProofs GeoTiffReaderPromiseProofs TiffParserProofs \
             FileFormatReadProofs CoreValuesProofs NumberLemmas WindowLemmas; do tlapm $m.tla; done

The run `read` takes under two minutes, `values` about one, the others seconds; a module of proofs takes up to five minutes.
