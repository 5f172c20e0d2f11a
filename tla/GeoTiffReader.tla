---------------------------- MODULE GeoTiffReader ----------------------------
(***************************************************************************)
(* The windowed reader of usd-geotiff: ReadWindow, with ReadTile and       *)
(* ReadScanlines, which compute a window and call it.                      *)
(*                                                                         *)
(* One call runs to its end before the next one starts, on one source, one *)
(* grid and one statistics block that the caller keeps.  Between its steps *)
(* the outside world moves: the source answers each read as it likes, the  *)
(* cancellation callback may ask to stop, memory may run out, and libtiff  *)
(* decodes what it decodes.  The caller passes a fresh diagnostic sink to  *)
(* every call.                                                             *)
(*                                                                         *)
(* The parser is reduced to what it hands over: a chain of validated       *)
(* directories, or a refusal.  Sample values are reduced to where they     *)
(* come from: a delivered sample is the directory, the segment and the     *)
(* byte within the decoded segment it was taken from.                      *)
(***************************************************************************)
EXTENDS RasterWindows

CONSTANTS
  Files,          \* directory chains: functions from 0 .. n to directories
  LibTiffBuilds,  \* whether the build has libtiff: a subset of BOOLEAN
  Questions,      \* the calls a caller makes
  NoQuestion,     \* the value of call before the first one
  MaxBatch,       \* kMaxCoalescedReadBytes
  SampleSize      \* sizeof(double)

(***************************************************************************)
(* A directory is a TiffLayout.  segmentWidth and segmentHeight are the    *)
(* tile size of a tiled image, and the image width and the rows per strip  *)
(* of a stripped one: a strip is a tile as wide as the image.  reduction   *)
(* is not in the file: how much coarser the image is than the first one.   *)
(* Only the refinement mapping reads it.                                   *)
(***************************************************************************)
Segment == [offset : Nat, byteCount : Nat \ {0}]

Directory ==
  [width : Nat \ {0}, height : Nat \ {0}, reduction : Nat \ {0}, tiled : BOOLEAN,
   segmentWidth : Nat \ {0}, segmentHeight : Nat \ {0}, planar : {1, 2},
   compressed : BOOLEAN, predictor : 1 .. 3, pixelStride : Nat \ {0},
   sampleBytes : Seq(Nat \ {0}), sampleOffsets : Seq(Nat), segments : Seq(Segment)]

SegmentsAcross(d)   == (d.width - 1) \div d.segmentWidth + 1
SegmentsDown(d)     == (d.height - 1) \div d.segmentHeight + 1
SegmentsPerPlane(d) == SegmentsAcross(d) * SegmentsDown(d)

Bands(d)  == 1 .. Len(d.sampleBytes)
Planes(d) == IF d.planar = 2 THEN Len(d.sampleBytes) ELSE 1

\* What Decode establishes for a directory and the reader relies on: the bands
\* of a pixel follow one another, in a plane they are alone; there is one
\* segment per place and plane, within the source; a stripped image has strips
\* as wide as itself; the floating-point predictor has samples of one size.
ValidDirectory(d) ==
  /\ d \in Directory
  /\ d.width <= MaxCoord /\ d.height <= MaxCoord
  /\ Len(d.sampleBytes) > 0 /\ Len(d.sampleOffsets) = Len(d.sampleBytes)
  /\ \A b \in Bands(d) :
       d.sampleOffsets[b] = IF b = 1 \/ d.planar = 2 THEN 0
                            ELSE d.sampleOffsets[b - 1] + d.sampleBytes[b - 1]
  /\ d.planar = 1 => d.pixelStride = d.sampleOffsets[Len(d.sampleBytes)]
                                       + d.sampleBytes[Len(d.sampleBytes)]
  /\ ~d.tiled => d.segmentWidth = d.width
  /\ d.predictor = 3 => \A b \in Bands(d) : d.sampleBytes[b] = d.sampleBytes[1]
  /\ Len(d.segments) = SegmentsPerPlane(d) * Planes(d)
  /\ \A n \in DOMAIN d.segments : d.segments[n].offset + d.segments[n].byteCount <= MaxCoord

\* The reader also takes for granted that every level has the bands of the
\* first one: the band is looked up there and indexes the level's own tables.
ValidFile(f) ==
  /\ 0 \in DOMAIN f
  /\ \A k \in DOMAIN f : k \in Nat /\ ValidDirectory(f[k])
  /\ \A k \in DOMAIN f : Len(f[k].sampleBytes) = Len(f[0].sampleBytes)

Question ==
  [kind : {"window", "tile", "scanlines"}, x : Coord, y : Coord, width : Coord, height : Coord,
   band : Nat, level : Nat, step : Coord, budget : Coord, lossy : BOOLEAN]

ASSUME FilesAssumption     == \A f \in Files : ValidFile(f)
ASSUME BuildsAssumption    == LibTiffBuilds \subseteq BOOLEAN
ASSUME QuestionsAssumption == Questions \subseteq Question /\ NoQuestion \notin Questions
ASSUME SizesAssumption     == MaxBatch \in Nat \ {0} /\ SampleSize \in Nat \ {0}

VARIABLES
  file,         \* the directory chain of the source
  libTiff,      \* the build has libtiff
  pc,           \* where the call is
  call,         \* the arguments of the current or last call
  window,       \* ReadWindow's window
  directory,    \* the directory that serves the read: 0, or selectedLevel + 1
  cursor,       \* the index of the loop the call is in
  plan,         \* plannedSegments: indices of segments within the plane
  batches,      \* readBatches
  batchOf,      \* PlannedSegment::batchIndex, for each planned segment
  workspace,    \* maxSegmentBytes
  loaded,       \* loadedBatch, 0 for none
  buffer,       \* the bytes of the file that batchBytes holds
  available,    \* availableBytes of a segment libtiff decoded
  failed,       \* LibTiffSource::failed
  grid,         \* the caller's grid
  statistics,   \* the caller's RasterReadStatistics
  diagnostics,  \* the caller's sink
  result,       \* what the last call returned
  issued        \* history: the reads of pixel data issued by the call

source   == <<file, libTiff>>
planning == <<plan, batches, batchOf, workspace>>
decoding == <<loaded, buffer, available, failed>>
caller   == <<grid, statistics, diagnostics, result>>

vars == <<source, pc, call, window, directory, cursor, planning, decoding, caller, issued>>

\* The codes this module reports (RasterErrorCode).
ErrorCodes ==
  {"SourceUnavailable", "ShortRead", "UnsupportedCompression", "UnsupportedOverviewLevel",
   "WindowOutOfBounds", "InvalidBandIndex", "InconsistentTileLayout", "MemoryBudgetExceeded",
   "Cancelled"}

NoStatistics  == [requested |-> 0, fetched |-> 0, requests |-> 0]
NoDiagnostics == [errors |-> << >>, warnings |-> 0]
NoBuffer      == [offset |-> 0, size |-> 0]

\* A default-constructed RasterGrid: no sample.
NoGrid == << >>

-----------------------------------------------------------------------------
(***************************************************************************)
(* Levels.                                                                 *)
(***************************************************************************)
Overviews == DOMAIN file \ {0}

Factor(k) == IF k = 0 THEN 1 ELSE OverviewFactor(file[0].width, file[k].width)

Step == LargerOf(call.step, 1)

\* ChooseOverviewLevel without an explicit level: the last directory whose
\* factor the sampling step covers, or the full resolution.
FineEnough == {k \in Overviews : Factor(k) # 0 /\ Factor(k) <= Step}

IsChosen(k) ==
  IF call.level # 0 THEN k = call.level
  ELSE IF FineEnough = {} THEN k = 0
  ELSE k \in FineEnough /\ \A other \in FineEnough : other <= k

Layout == file[directory]

EffectiveStep == LargerOf(Step, Factor(directory))

\* readWindow: the request in the pixels of the level that serves it.
LevelWindow == IF Factor(directory) > 1 THEN ToOverview(window, Factor(directory)) ELSE window

Sampled == SampledSize(window, EffectiveStep)

SampledCount == PixelCount(Sampled.width, Sampled.height)

(***************************************************************************)
(* Segments.                                                               *)
(***************************************************************************)
SegmentWindow(d, i) ==
  LET left == (i % SegmentsAcross(d)) * d.segmentWidth
      top  == (i \div SegmentsAcross(d)) * d.segmentHeight
  IN  [x |-> left, y |-> top,
       width  |-> SmallerOf(d.segmentWidth, d.width - left),
       height |-> SmallerOf(d.segmentHeight, d.height - top)]

\* A wrong SourceIndex: the plane of the band is left out.
SourceIndexInFirstPlane(i) == i

\* sourceSegmentIndex: planes follow one another in the tables.
SourceIndex(i) ==
  IF Layout.planar = 2 THEN (call.band - 1) * SegmentsPerPlane(Layout) + i ELSE i

SegmentOf(i) == Layout.segments[SourceIndex(i) + 1]

SampleBytes  == Layout.sampleBytes[call.band]
SampleStride == IF Layout.planar = 2 THEN SampleBytes ELSE Layout.pixelStride
RowStride    == Layout.segmentWidth * SampleStride

UseLibTiff == libTiff /\ (Layout.compressed \/ Layout.predictor # 1)

DecodedBytes(i) == RowStride * SegmentWindow(Layout, i).height

\* segmentBytes: what the budget sets aside for one segment.
SegmentWorkspace(i) ==
  SegmentOf(i).byteCount
    + (IF Layout.compressed THEN DecodedBytes(i) ELSE 0)
    + (IF ~Layout.compressed /\ Layout.predictor = 3 THEN RowStride ELSE 0)

(***************************************************************************)
(* Samples of one segment.                                                 *)
(***************************************************************************)
Outputs == (0 .. Sampled.width - 1) \X (0 .. Sampled.height - 1)

\* readX, readY: the pixel of the level that output sample p is read from.
LevelPixel(p) ==
  LET x == window.x + p[1] * EffectiveStep
      y == window.y + p[2] * EffectiveStep
  IN  IF Factor(directory) > 1
      THEN <<x \div Factor(directory), y \div Factor(directory)>>
      ELSE <<x, y>>

OutputsIn(i) ==
  {p \in Outputs : ContainsPixel(SegmentWindow(Layout, i), LevelPixel(p)[1], LevelPixel(p)[2])}

\* The byte of the decoded segment where the sample of a level pixel starts.
SampleOffset(i, pixel) ==
  (pixel[2] - SegmentWindow(Layout, i).y) * RowStride
    + (pixel[1] - SegmentWindow(Layout, i).x) * SampleStride
    + Layout.sampleOffsets[call.band]

SamplesFit(i, bytes) ==
  \A p \in OutputsIn(i) : SampleOffset(i, LevelPixel(p)) + SampleBytes <= bytes

\* ApplyHorizontalPredictor and ApplyFloatingPointPredictor walk whole rows
\* of the segment, all of a tile's and the present ones of a strip.
PredictorRows(i) == IF Layout.tiled THEN Layout.segmentHeight ELSE SegmentWindow(Layout, i).height

PredictorFits(i, bytes) ==
  CASE Layout.predictor = 1 -> TRUE
    [] Layout.predictor = 2 ->
         Layout.segmentWidth > 1 =>
           PredictorRows(i) * RowStride - SampleStride
             + Layout.sampleOffsets[call.band] + SampleBytes <= bytes
    [] Layout.predictor = 3 -> PredictorRows(i) * RowStride <= bytes

\* SetSample on every output the segment holds; `from' is the directory whose
\* segment was decoded and `first' the byte of it the buffer starts with.
Filled(i, from, first) ==
  [p \in DOMAIN grid |->
     IF p \in OutputsIn(i)
     THEN [directory |-> from, segment |-> SourceIndex(i),
           byte |-> first + SampleOffset(i, LevelPixel(p))]
     ELSE grid[p]]

-----------------------------------------------------------------------------
(***************************************************************************)
(* Returning.  The locals of the call die with it; the caller keeps its    *)
(* grid, its statistics and its diagnostics.                               *)
(***************************************************************************)
LocalsDie ==
  /\ window' = EmptyWindow /\ directory' = 0 /\ cursor' = 0
  /\ plan' = << >> /\ batches' = << >> /\ batchOf' = << >> /\ workspace' = 0
  /\ loaded' = 0 /\ buffer' = NoBuffer /\ available' = 0 /\ failed' = FALSE

\* A wrong FailWith: what was copied so far stays with the caller.
FailKeepingGrid(code, partial) ==
  /\ pc' = "idle"
  /\ result' = "failed"
  /\ diagnostics' = [diagnostics EXCEPT !.errors = Append(@, code)]
  /\ LocalsDie
  /\ UNCHANGED <<source, call, grid>>

\* AddReadError or Parser::Error, leaving the caller with `partial'.
FailWith(code, partial) ==
  /\ pc' = "idle"
  /\ result' = "failed"
  /\ grid' = partial
  /\ diagnostics' = [diagnostics EXCEPT !.errors = Append(@, code)]
  /\ LocalsDie
  /\ UNCHANGED <<source, call>>

\* Nearly every failure releases the grid, or comes before there is one.
Fail(code) == FailWith(code, NoGrid)

Succeed ==
  /\ pc' = "idle"
  /\ result' = "ok"
  /\ LocalsDie
  /\ UNCHANGED <<source, call, diagnostics>>

\* What a step that reads no pixel data and does not return leaves alone.
NoPixelData == UNCHANGED <<statistics, issued>>
Goes(from, to) == pc = from /\ pc' = to /\ UNCHANGED <<source, call, result>>

(***************************************************************************)
(* Entry points.  ReadWindow resets the grid and the statistics; the other *)
(* two reset the grid and leave the statistics to the ReadWindow they call *)
(* when they get that far.                                                 *)
(***************************************************************************)
Begin(q, kind, next) ==
  /\ pc = "idle"
  /\ q.kind = kind
  /\ pc' = next
  /\ call' = q
  /\ grid' = NoGrid
  /\ diagnostics' = NoDiagnostics
  /\ result' = "none"
  /\ issued' = << >>
  /\ UNCHANGED <<source, directory, cursor, planning, decoding>>

ReadWindow(q) ==
  /\ Begin(q, "window", "parse")
  /\ window' = [x |-> q.x, y |-> q.y, width |-> q.width, height |-> q.height]
  /\ statistics' = NoStatistics

ReadTile(q) ==
  /\ Begin(q, "tile", "parseTile")
  /\ UNCHANGED <<window, statistics>>

ReadScanlines(q) ==
  /\ Begin(q, "scanlines", "parseRows")
  /\ UNCHANGED <<window, statistics>>

(***************************************************************************)
(* Parser::Run.  ReadWindow and ReadTile pass the level and the step and   *)
(* get the layout of the level chosen; ReadScanlines wants the metadata    *)
(* alone.                                                                  *)
(***************************************************************************)
Parsing == {"parse", "parseTile", "parseRows"}

Decodable(k) == libTiff \/ ~file[k].compressed

LevelExists == call.level # 0 => call.level \in Overviews

WantsLayout == pc # "parseRows"

\* The source does not deliver a table, or not all of it.  The file is a classic
\* TIFF: for the second header of a BigTIFF two errors are reported (TiffParser).
ParseFails(code) ==
  /\ pc \in Parsing
  /\ Fail(code)
  /\ NoPixelData

ParseRefusesCompression ==
  /\ pc \in Parsing
  /\ \/ ~Decodable(0)
     \/ WantsLayout /\ LevelExists /\ \E k \in DOMAIN file : IsChosen(k) /\ ~Decodable(k)
  /\ Fail("UnsupportedCompression")
  /\ NoPixelData

ParseRefusesLevel ==
  /\ pc \in Parsing
  /\ WantsLayout /\ Decodable(0) /\ ~LevelExists
  /\ Fail("UnsupportedOverviewLevel")
  /\ NoPixelData

Chooses(k) == Decodable(0) /\ LevelExists /\ IsChosen(k) /\ Decodable(k)

Parse(k) ==
  /\ Goes("parse", "check")
  /\ Chooses(k)
  /\ directory' = k
  /\ NoPixelData
  /\ UNCHANGED <<window, cursor, planning, decoding, grid, diagnostics>>

(***************************************************************************)
(* ReadTile and ReadScanlines: find the window, then call ReadWindow,      *)
(* which resets the statistics and parses again.                           *)
(***************************************************************************)
TileExists(k) ==
  call.x < SegmentsAcross(file[k]) /\ call.y < SegmentsDown(file[k])

TileWindow(k) ==
  LET d    == file[k]
      tile == [x |-> call.x * d.segmentWidth, y |-> call.y * d.segmentHeight,
               width  |-> SmallerOf(d.segmentWidth, d.width - call.x * d.segmentWidth),
               height |-> SmallerOf(d.segmentHeight, d.height - call.y * d.segmentHeight)]
  IN  Intersect(FromOverview(tile, Factor(k)),
                [x |-> 0, y |-> 0, width |-> file[0].width, height |-> file[0].height])

RowsExist == call.y <= file[0].height /\ call.height <= file[0].height - call.y

RowsWindow == [x |-> 0, y |-> call.y, width |-> file[0].width, height |-> call.height]

CallReadWindow(w) ==
  /\ window' = w
  /\ statistics' = NoStatistics
  /\ UNCHANGED <<directory, cursor, planning, decoding, grid, diagnostics, issued>>

FindTile(k) ==
  /\ Goes("parseTile", "parse")
  /\ Chooses(k) /\ TileExists(k) /\ Factor(k) # 0
  /\ CallReadWindow(TileWindow(k))

RefuseTile(k) ==
  /\ pc = "parseTile"
  /\ Chooses(k) /\ ~TileExists(k)
  /\ Fail("WindowOutOfBounds")
  /\ NoPixelData

RefuseTileLevel(k) ==
  /\ pc = "parseTile"
  /\ Chooses(k) /\ TileExists(k) /\ Factor(k) = 0
  /\ Fail("UnsupportedOverviewLevel")
  /\ NoPixelData

FindRows ==
  /\ Goes("parseRows", "parse")
  /\ Decodable(0) /\ RowsExist
  /\ CallReadWindow(RowsWindow)

RefuseRows ==
  /\ pc = "parseRows"
  /\ Decodable(0) /\ ~RowsExist
  /\ Fail("WindowOutOfBounds")
  /\ NoPixelData

(***************************************************************************)
(* The checks before planning, in the order of the code: each one only if  *)
(* those before it passed.                                                 *)
(***************************************************************************)
BandExists  == call.band \in 1 .. Len(file[0].sampleBytes)
LevelScaled == BandExists /\ Factor(directory) # 0
InRaster ==
  /\ LevelScaled
  /\ window.x <= file[0].width /\ EndX(window) <= file[0].width
  /\ window.y <= file[0].height /\ EndY(window) <= file[0].height
RowsAddressable == InRaster /\ RowStride <= MaxCoord
Countable ==
  /\ RowsAddressable
  /\ SampledCount <= MaxCoord \div SampleSize
  /\ window.width * window.height * SampleBytes <= MaxCoord

Refuse(code) ==
  /\ pc = "check"
  /\ Fail(code)
  /\ NoPixelData

RefuseBand   == Refuse("InvalidBandIndex") /\ ~BandExists
RefuseLevel  == Refuse("UnsupportedOverviewLevel") /\ BandExists /\ ~LevelScaled
RefuseWindow == Refuse("WindowOutOfBounds") /\ LevelScaled /\ ~InRaster
RefuseLayout == Refuse("InconsistentTileLayout") /\ InRaster /\ ~RowsAddressable
RefuseSize   == Refuse("MemoryBudgetExceeded") /\ RowsAddressable /\ ~Countable

Accept ==
  /\ Goes("check", "plan")
  /\ Countable
  /\ cursor' = 0
  /\ statistics' = [statistics EXCEPT !.requested = window.width * window.height * SampleBytes]
  /\ UNCHANGED <<window, directory, planning, decoding, grid, diagnostics, issued>>

(***************************************************************************)
(* Planning: the segments of the level that intersect the request, and the *)
(* largest workspace one of them needs.                                    *)
(***************************************************************************)
\* A wrong Wanted: every segment of the level is planned.
WantedAlways(i) == i >= 0

Wanted(i) == ~IsEmptyWindow(Intersect(SegmentWindow(Layout, i), LevelWindow))

PlanSegment ==
  /\ pc = "plan"
  /\ cursor < SegmentsPerPlane(Layout)
  /\ Wanted(cursor) => SegmentWorkspace(cursor) <= MaxCoord
  /\ cursor' = cursor + 1
  /\ plan' = IF Wanted(cursor) THEN Append(plan, cursor) ELSE plan
  /\ workspace' = IF Wanted(cursor) THEN LargerOf(workspace, SegmentWorkspace(cursor))
                                   ELSE workspace
  /\ UNCHANGED <<source, pc, call, window, directory, batches, batchOf, decoding, caller, issued>>

\* The decoded size of a segment, or its workspace, is not representable.
RefuseSegment ==
  /\ pc = "plan"
  /\ cursor < SegmentsPerPlane(Layout)
  /\ Wanted(cursor) /\ SegmentWorkspace(cursor) > MaxCoord
  /\ Fail("InconsistentTileLayout")
  /\ NoPixelData

\* libtiff reads for itself: only raw segments are coalesced.
PlanDone ==
  /\ Goes("plan", IF UseLibTiff THEN "budget" ELSE "coalesce")
  /\ cursor = SegmentsPerPlane(Layout)
  /\ cursor' = 1
  /\ NoPixelData
  /\ UNCHANGED <<window, directory, planning, decoding, grid, diagnostics>>

(***************************************************************************)
(* Coalescing: a planned segment that starts where the last batch ends     *)
(* joins it while the batch stays within MaxBatch; any other one starts a  *)
(* batch of its own, however large.                                        *)
(***************************************************************************)

\* A wrong Joins: a segment elsewhere in the file joins too.
JoinsAnywhere(segment) ==
  batches # << >> /\ batches[Len(batches)].size + segment.byteCount <= MaxBatch

\* A wrong Joins: a batch grows without limit.
JoinsForever(segment) ==
  /\ batches # << >>
  /\ LET last == batches[Len(batches)] IN last.offset + last.size = segment.offset

Joins(segment) ==
  /\ batches # << >>
  /\ LET last == batches[Len(batches)]
     IN  /\ last.offset + last.size = segment.offset
         /\ last.size + segment.byteCount <= MaxBatch

\* A wrong Coalesce: a segment that joins is counted into the next batch.
CoalesceMisnumbered ==
  /\ pc = "coalesce"
  /\ cursor <= Len(plan)
  /\ LET segment == SegmentOf(plan[cursor])
         last    == Len(batches)
     IN  /\ batches' = IF Joins(segment)
                       THEN [batches EXCEPT ![last].size = @ + segment.byteCount]
                       ELSE Append(batches, [offset |-> segment.offset, size |-> segment.byteCount])
         /\ batchOf' = Append(batchOf, last + 1)
  /\ cursor' = cursor + 1
  /\ UNCHANGED <<source, pc, call, window, directory, plan, workspace, decoding, caller, issued>>

Coalesce ==
  /\ pc = "coalesce"
  /\ cursor <= Len(plan)
  /\ LET segment == SegmentOf(plan[cursor])
         last    == Len(batches)
     IN  IF Joins(segment)
         THEN /\ batches' = [batches EXCEPT ![last].size = @ + segment.byteCount]
              /\ batchOf' = Append(batchOf, last)
         ELSE /\ batches' = Append(batches, [offset |-> segment.offset, size |-> segment.byteCount])
              /\ batchOf' = Append(batchOf, last + 1)
  /\ cursor' = cursor + 1
  /\ UNCHANGED <<source, pc, call, window, directory, plan, workspace, decoding, caller, issued>>

CoalesceDone ==
  /\ Goes("coalesce", "measure")
  /\ cursor > Len(plan)
  /\ cursor' = 1
  /\ NoPixelData
  /\ UNCHANGED <<window, directory, planning, decoding, grid, diagnostics>>

\* The sizes of the segments of a batch.
SizesIn(b) == {SegmentOf(plan[n]).byteCount : n \in {m \in DOMAIN plan : batchOf[m] = b}}

\* A wrong BatchWorkspaces: the copy a predictor needs is forgotten.
BatchWorkspacesAlone(b) == {batches[b].size}

\* A batch is held whole; a predictor also needs a copy of one segment.
BatchWorkspaces(b) ==
  {batches[b].size + (IF Layout.predictor # 1 THEN size ELSE 0) : size \in SizesIn(b)}

MeasureBatch ==
  /\ pc = "measure"
  /\ cursor <= Len(batches)
  /\ \E bytes \in BatchWorkspaces(cursor) :
       /\ \A other \in BatchWorkspaces(cursor) : other <= bytes
       /\ bytes <= MaxCoord
       /\ workspace' = LargerOf(workspace, bytes)
  /\ cursor' = cursor + 1
  /\ UNCHANGED <<source, pc, call, window, directory, plan, batches, batchOf, decoding, caller, issued>>

\* The batch and the copy together are not representable.
RefuseBatch ==
  /\ pc = "measure"
  /\ cursor <= Len(batches)
  /\ \E bytes \in BatchWorkspaces(cursor) : bytes > MaxCoord
  /\ Fail("MemoryBudgetExceeded")
  /\ NoPixelData

MeasureDone ==
  /\ Goes("measure", "budget")
  /\ cursor > Len(batches)
  /\ cursor' = 1
  /\ NoPixelData
  /\ UNCHANGED <<window, directory, planning, decoding, grid, diagnostics>>

(***************************************************************************)
(* The budget, the first cancellation check, libtiff and the grid.         *)
(***************************************************************************)
FitsBudget == call.budget = 0 \/ SampledCount * SampleSize + workspace <= call.budget

KeepWithinBudget ==
  /\ Goes("budget", "open")
  /\ FitsBudget
  /\ NoPixelData
  /\ UNCHANGED <<window, directory, cursor, planning, decoding, grid, diagnostics>>

RefuseBudget ==
  /\ pc = "budget"
  /\ ~FitsBudget
  /\ Fail("MemoryBudgetExceeded")
  /\ NoPixelData

\* The callback is asked once before any pixel data and once per segment.
Cancel ==
  /\ pc = "open" \/ (pc = "segment" /\ cursor <= Len(plan))
  /\ Fail("Cancelled")
  /\ NoPixelData

\* TIFFClientOpen reads the source too, and may have met a failure it survives.
Open(met) ==
  /\ Goes("open", "allocate")
  /\ failed' = (UseLibTiff /\ met)
  /\ NoPixelData
  /\ UNCHANGED <<window, directory, cursor, planning, loaded, buffer, available, grid,
                 diagnostics>>

OpenFails ==
  /\ pc = "open"
  /\ UseLibTiff
  /\ Fail("SourceUnavailable")
  /\ NoPixelData

\* Every sample of a new grid is 0.0 and comes from nowhere in the file.
Unwritten == [directory |-> 0, segment |-> -1, byte |-> 0]

NewGrid == [p \in Outputs |-> Unwritten]

Allocate ==
  /\ Goes("allocate", "segment")
  /\ ~IsEmptyWindow(window) /\ SampledCount > 0
  /\ grid' = NewGrid
  /\ diagnostics' = [diagnostics EXCEPT !.warnings = @ + (IF call.lossy THEN 1 ELSE 0)]
  /\ NoPixelData
  /\ UNCHANGED <<window, directory, cursor, planning, decoding>>

ReturnEmpty ==
  /\ pc = "allocate"
  /\ IsEmptyWindow(window)
  /\ grid' = NewGrid
  /\ Succeed
  /\ NoPixelData

\* A step near MaxCoord makes the size of the grid wrap to nothing.  The grid
\* is not released, but it holds no sample.
RefuseGrid ==
  /\ pc = "allocate"
  /\ ~IsEmptyWindow(window) /\ SampledCount = 0
  /\ FailWith("MemoryBudgetExceeded", NewGrid)
  /\ NoPixelData

(***************************************************************************)
(* The source answers a read of `size' bytes: all of them, none because    *)
(* they are past the end, some of them, or a failure.                      *)
(***************************************************************************)
SourceAnswers(size) ==
  {[status |-> "Ok", bytes |-> size], [status |-> "Ok", bytes |-> size - 1],
   [status |-> "EndOfSource", bytes |-> 0],
   [status |-> "ShortRead", bytes |-> size - 1], [status |-> "Failed", bytes |-> 0]}

Complete(answer, size) == answer.status = "Ok" /\ answer.bytes = size

\* A wrong Issues: the bytes asked for are counted, not those that arrived.
IssuesCountingAsked(offset, size, answer) ==
  /\ issued' = Append(issued, [offset |-> offset, size |-> size, bytes |-> answer.bytes])
  /\ statistics' = [statistics EXCEPT !.requests = @ + 1, !.fetched = @ + size]

\* Every read of pixel data goes to the source and into the statistics.
Issues(offset, size, answer) ==
  /\ issued' = Append(issued, [offset |-> offset, size |-> size, bytes |-> answer.bytes])
  /\ statistics' = [statistics EXCEPT !.requests = @ + 1, !.fetched = @ + answer.bytes]

AtSegment == pc = "segment" /\ cursor <= Len(plan)

(***************************************************************************)
(* Raw segments: their batch is read when it is not the one in the buffer. *)
(***************************************************************************)
BatchHere == batches[batchOf[cursor]]

\* A wrong NeedsBatch: the batch in the buffer is not remembered.
NeedsBatchAlways == AtSegment /\ ~UseLibTiff

NeedsBatch == AtSegment /\ ~UseLibTiff /\ loaded # batchOf[cursor]

LoadBatch ==
  /\ Goes("segment", "copy")
  /\ NeedsBatch
  /\ \E answer \in SourceAnswers(BatchHere.size) :
       Complete(answer, BatchHere.size) /\ Issues(BatchHere.offset, BatchHere.size, answer)
  /\ loaded' = batchOf[cursor]
  /\ buffer' = BatchHere
  /\ UNCHANGED <<window, directory, cursor, planning, available, failed, grid, diagnostics>>

LoadFails ==
  /\ NeedsBatch
  /\ \E answer \in SourceAnswers(BatchHere.size) :
       /\ ~Complete(answer, BatchHere.size)
       /\ Issues(BatchHere.offset, BatchHere.size, answer)
       /\ Fail(IF answer.status = "ShortRead" THEN "ShortRead" ELSE "SourceUnavailable")

ReuseBatch ==
  /\ Goes("segment", "copy")
  /\ AtSegment /\ ~UseLibTiff /\ loaded = batchOf[cursor]
  /\ NoPixelData
  /\ UNCHANGED <<window, directory, cursor, planning, decoding, grid, diagnostics>>

(***************************************************************************)
(* Encoded segments.  libtiff is opened on the whole source and never told *)
(* to change directory: an index names a segment of directory 0, which     *)
(* libtiff reads and decodes.  It may report an error of its own, and it   *)
(* may decode less than was asked for.                                     *)
(***************************************************************************)
LibTiffHas(i) == file[0].tiled = Layout.tiled /\ SourceIndex(i) < Len(file[0].segments)

LibTiffDecodes(i) ==
  LET d      == file[0]
      plane  == SourceIndex(i) \div SegmentsPerPlane(d)
      stride == IF d.planar = 2 THEN d.sampleBytes[plane + 1] ELSE d.pixelStride
      rows   == IF d.tiled THEN d.segmentHeight
                ELSE SegmentWindow(d, SourceIndex(i) % SegmentsPerPlane(d)).height
  IN  SmallerOf(DecodedBytes(i), d.segmentWidth * stride * rows)

\* The decoded size must be representable, and as a signed size too.
DecodingFits(i) == DecodedBytes(i) <= MaxCoord \div 2

NeedsDecoding == AtSegment /\ UseLibTiff /\ DecodingFits(plan[cursor])

RefuseDecoding ==
  /\ AtSegment /\ UseLibTiff /\ ~DecodingFits(plan[cursor])
  /\ Fail(IF DecodedBytes(plan[cursor]) > MaxCoord THEN "InconsistentTileLayout"
          ELSE "MemoryBudgetExceeded")
  /\ NoPixelData

EncodedSegment(i) == file[0].segments[SourceIndex(i) + 1]

LibTiffReads(i, answer) == Issues(EncodedSegment(i).offset, EncodedSegment(i).byteCount, answer)

DecodeSegment(missing) ==
  /\ Goes("segment", "copy")
  /\ NeedsDecoding /\ LibTiffHas(plan[cursor]) /\ ~failed
  /\ LET size == EncodedSegment(plan[cursor]).byteCount
     IN  \E answer \in SourceAnswers(size) :
           Complete(answer, size) /\ LibTiffReads(plan[cursor], answer)
  /\ available' = LibTiffDecodes(plan[cursor]) - missing
  /\ UNCHANGED <<window, directory, cursor, planning, loaded, buffer, failed, grid, diagnostics>>

DecodeFails ==
  /\ NeedsDecoding
  /\ \/ ~LibTiffHas(plan[cursor]) /\ NoPixelData
     \/ /\ LibTiffHas(plan[cursor])
        /\ \E answer \in SourceAnswers(EncodedSegment(plan[cursor]).byteCount) :
             LibTiffReads(plan[cursor], answer)
  /\ Fail("SourceUnavailable")

(***************************************************************************)
(* Copying the samples of a segment into the grid.                         *)
(***************************************************************************)
InsideBuffer(segment) ==
  /\ segment.offset - BatchHere.offset <= buffer.size
  /\ segment.byteCount <= buffer.size - (segment.offset - BatchHere.offset)

SegmentReadable(i) ==
  IF UseLibTiff
  THEN SamplesFit(i, available)
  ELSE /\ InsideBuffer(SegmentOf(i))
       /\ PredictorFits(i, SegmentOf(i).byteCount)
       /\ SamplesFit(i, SegmentOf(i).byteCount)

\* A wrong CopySegment: the loop does not advance.
CopySegmentAgain ==
  /\ Goes("copy", "segment")
  /\ SegmentReadable(plan[cursor])
  /\ grid' = IF UseLibTiff THEN Filled(plan[cursor], 0, 0)
             ELSE Filled(plan[cursor], directory, buffer.offset - BatchHere.offset)
  /\ NoPixelData
  /\ UNCHANGED <<window, directory, cursor, planning, decoding, diagnostics>>

CopySegment ==
  /\ Goes("copy", "segment")
  /\ SegmentReadable(plan[cursor])
  /\ grid' = IF UseLibTiff THEN Filled(plan[cursor], 0, 0)
             ELSE Filled(plan[cursor], directory, buffer.offset - BatchHere.offset)
  /\ cursor' = cursor + 1
  /\ NoPixelData
  /\ UNCHANGED <<window, directory, planning, decoding, diagnostics>>

CopyFails ==
  /\ pc = "copy"
  /\ ~SegmentReadable(plan[cursor])
  /\ Fail("InconsistentTileLayout")
  /\ NoPixelData

Finish ==
  /\ pc = "segment"
  /\ cursor > Len(plan)
  /\ Succeed
  /\ NoPixelData
  /\ UNCHANGED grid

\* std::bad_alloc is caught where the call allocates in proportion to the file.
AllocationFails ==
  /\ \/ pc \in Parsing \/ pc = "allocate" \/ NeedsBatch \/ NeedsDecoding
     \/ pc = "copy" /\ ~UseLibTiff /\ Layout.predictor # 1
  /\ Fail("MemoryBudgetExceeded")
  /\ NoPixelData

-----------------------------------------------------------------------------
Init ==
  /\ file \in Files
  /\ libTiff \in LibTiffBuilds
  /\ pc = "idle"
  /\ call = NoQuestion
  /\ window = EmptyWindow /\ directory = 0 /\ cursor = 0
  /\ plan = << >> /\ batches = << >> /\ batchOf = << >> /\ workspace = 0
  /\ loaded = 0 /\ buffer = NoBuffer /\ available = 0 /\ failed = FALSE
  /\ grid = NoGrid
  /\ statistics = NoStatistics
  /\ diagnostics = NoDiagnostics
  /\ result = "none"
  /\ issued = << >>

\* What the caller does.
Call == \E q \in Questions : ReadWindow(q) \/ ReadTile(q) \/ ReadScanlines(q)

\* Parser::Read, on a file that is valid.
ParserErrors == {"ShortRead", "SourceUnavailable"}

FindWindow ==
  \/ \E k \in DOMAIN file : FindTile(k) \/ RefuseTile(k) \/ RefuseTileLevel(k)
  \/ FindRows
  \/ RefuseRows

ParseStep ==
  \/ \E code \in ParserErrors : ParseFails(code)
  \/ ParseRefusesCompression
  \/ ParseRefusesLevel
  \/ \E k \in DOMAIN file : Parse(k)

CheckStep ==
  \/ RefuseBand
  \/ RefuseLevel
  \/ RefuseWindow
  \/ RefuseLayout
  \/ RefuseSize
  \/ Accept

PlanStep ==
  \/ PlanSegment
  \/ RefuseSegment
  \/ PlanDone
  \/ Coalesce
  \/ CoalesceDone
  \/ MeasureBatch
  \/ RefuseBatch
  \/ MeasureDone
  \/ KeepWithinBudget
  \/ RefuseBudget

ReadStep ==
  \/ Cancel
  \/ \E met \in BOOLEAN : Open(met)
  \/ OpenFails
  \/ Allocate
  \/ ReturnEmpty
  \/ RefuseGrid
  \/ LoadBatch
  \/ LoadFails
  \/ ReuseBatch
  \/ \E missing \in {0, 1} : DecodeSegment(missing)
  \/ DecodeFails
  \/ RefuseDecoding
  \/ CopySegment
  \/ CopyFails
  \/ Finish
  \/ AllocationFails

\* What the call does on its own thread once it has begun.
Progress == FindWindow \/ ParseStep \/ CheckStep \/ PlanStep \/ ReadStep

Next == Call \/ Progress

\* The call runs on the caller's thread: once begun it keeps taking steps.
Spec == Init /\ [][Next]_vars /\ WF_vars(Progress)
-----------------------------------------------------------------------------
(***************************************************************************)
(* Properties.                                                             *)
(***************************************************************************)
ControlStates ==
  {"idle", "parse", "parseTile", "parseRows", "check", "plan", "coalesce", "measure",
   "budget", "open", "allocate", "segment", "copy"}

Cell  == [directory : Nat, segment : Nat \cup {-1}, byte : Nat]
Batch == [offset : Nat, size : Nat \ {0}]

CallTyped ==
  /\ file \in Files /\ libTiff \in LibTiffBuilds
  /\ pc \in ControlStates
  /\ call \in Questions \cup {NoQuestion}
  /\ pc # "idle" => call \in Questions
  /\ window \in [x : Nat, y : Nat, width : Nat, height : Nat]
  /\ directory \in DOMAIN file
  /\ cursor \in Nat

PlanTyped ==
  /\ plan \in Seq(Nat) /\ \A n \in DOMAIN plan : plan[n] < SegmentsPerPlane(Layout)
  /\ batches \in Seq(Batch)
  /\ batchOf \in Seq(Nat) /\ \A n \in DOMAIN batchOf : batchOf[n] \in DOMAIN batches
  /\ workspace \in Nat

DecodingTyped ==
  /\ loaded \in 0 .. Len(batches)
  /\ buffer \in [offset : Nat, size : Nat]
  /\ available \in Nat /\ failed \in BOOLEAN

CallerTyped ==
  /\ DOMAIN grid \subseteq Nat \X Nat /\ grid \in [DOMAIN grid -> Cell]
  /\ statistics \in [requested : Nat, fetched : Nat, requests : Nat]
  /\ diagnostics \in [errors : Seq(ErrorCodes), warnings : Nat]
  /\ result \in {"none", "ok", "failed"}
  /\ issued \in Seq([offset : Nat, size : Nat, bytes : Nat])

\* The variables hold what the code declares them as.  A planned segment exists
\* in its plane and is in a batch that exists: the two vectors are indexed
\* without a check (ReadWindow).
TypeOK == CallTyped /\ PlanTyped /\ DecodingTyped /\ CallerTyped

\* A call that fails reports one error and leaves no sample behind, wherever it
\* failed; a call that succeeds reports no error (every return of ReadWindow,
\* ReadTile and ReadScanlines).
FailureIsClean ==
  /\ result = "failed" => Len(diagnostics.errors) = 1 /\ DOMAIN grid = {}
  /\ result # "failed" => diagnostics.errors = << >>

\* While a raw segment is copied, its batch is the one in the buffer and the
\* segment lies inside it: the check "segment is outside its coalesced read"
\* never fires (ReadWindow's coalescing and segment loops).
SegmentIsInItsBatch ==
  pc = "copy" /\ ~UseLibTiff =>
    /\ loaded = batchOf[cursor] /\ buffer = BatchHere
    /\ SegmentOf(plan[cursor]).offset >= buffer.offset
    /\ InsideBuffer(SegmentOf(plan[cursor]))

\* A batch holds one planned segment whole, or several within MaxBatch bytes
\* (kMaxCoalescedReadBytes).
BatchesAreBounded ==
  \A b \in DOMAIN batches :
    \/ batches[b].size <= MaxBatch
    \/ \E n \in DOMAIN batchOf :
         /\ batchOf[n] = b
         /\ batches[b] = [offset |-> SegmentOf(plan[n]).offset, size |-> SegmentOf(plan[n]).byteCount]

\* Raw pixel data is read batch by batch, each batch once and none skipped,
\* however many of its segments are copied (loadedBatch).
EachBatchIsReadOnce ==
  pc \in {"segment", "copy"} /\ ~UseLibTiff =>
    /\ Len(issued) = loaded
    /\ \A n \in 1 .. loaded : issued[n] = [offset |-> batches[n].offset, size |-> batches[n].size,
                                           bytes |-> batches[n].size]

\* The grid, the buffer read or decoded into, the copy a predictor is undone
\* in and the row the floating-point predictor sums up in, while segment i is
\* copied.
HeldFor(i) ==
  SampledCount * SampleSize
    + (IF UseLibTiff THEN DecodedBytes(i) ELSE buffer.size)
    + (IF ~UseLibTiff /\ Layout.predictor # 1 THEN SegmentOf(i).byteCount ELSE 0)
    + (IF ~UseLibTiff /\ Layout.predictor = 3 THEN RowStride ELSE 0)

\* What the plan does not set aside: the row of the floating-point predictor,
\* which it adds to the segment and not to the batch, and what libtiff may
\* decode a segment to that is not compressed.
Unplanned(i) ==
  IF UseLibTiff
  THEN IF Layout.compressed THEN 0 ELSE DecodedBytes(i)
  ELSE IF Layout.predictor = 3 THEN RowStride ELSE 0

\* But for that, a read with a budget never holds more than its budget, with a
\* batch in the buffer and a segment of it copied (memoryBudgetBytes).
BudgetCoversTheRead ==
  pc = "copy" /\ call.budget # 0 =>
    HeldFor(plan[cursor]) - Unplanned(plan[cursor]) <= call.budget
=============================================================================
