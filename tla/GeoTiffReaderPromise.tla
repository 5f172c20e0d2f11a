------------------------ MODULE GeoTiffReaderPromise ------------------------
(***************************************************************************)
(* The reader keeps the promise of WindowRead: a refinement mapping, and   *)
(* what the headers say of a read without a precondition.                  *)
(***************************************************************************)
EXTENDS GeoTiffReader, SequencesExt

(***************************************************************************)
(* The pixel a delivered sample was taken from, by the layout of TIFF: a   *)
(* segment is rows of pixels, a pixel is its bands side by side, or one    *)
(* band when every band has planes of its own.  A sample that starts where *)
(* no band starts, or was never written, is of band 0.                     *)
(***************************************************************************)
PixelAt(d, plane, place, byte) ==
  LET stride    == IF d.planar = 2 THEN d.sampleBytes[plane + 1] ELSE d.pixelStride
      component == byte % stride
      row       == byte \div (d.segmentWidth * stride)
      column    == (byte \div stride) % d.segmentWidth
  IN  [x |-> SegmentWindow(d, place).x + column,
       y |-> SegmentWindow(d, place).y + row,
       bands |-> IF d.planar = 2
                 THEN IF component = 0 THEN {plane + 1} ELSE {}
                 ELSE {b \in Bands(d) : d.sampleOffsets[b] = component}]

Unknown == [level |-> 0, band |-> 0, x |-> 0, y |-> 0]

SampleAt(cell) ==
  LET d     == file[cell.directory]
      pixel == PixelAt(d, cell.segment \div SegmentsPerPlane(d),
                       cell.segment % SegmentsPerPlane(d), cell.byte)
  IN  IF cell = Unwritten \/ pixel.bands = {} THEN Unknown
      ELSE [level |-> cell.directory, band |-> CHOOSE b \in pixel.bands : TRUE,
            x |-> pixel.x, y |-> pixel.y]

(***************************************************************************)
(* The refinement mapping.  The abstract answer is what the caller has in  *)
(* hand once the call has returned.                                        *)
(***************************************************************************)
RasterOfFile ==
  [width |-> file[0].width, height |-> file[0].height, bands |-> Len(file[0].sampleBytes),
   reduction  |-> [k \in DOMAIN file |-> file[k].reduction],
   tileWidth  |-> [k \in DOMAIN file |-> file[k].segmentWidth],
   tileHeight |-> [k \in DOMAIN file |-> file[k].segmentHeight]]

Returned == pc = "idle" /\ result # "none"

AnswerOfCall ==
  [ok      |-> Returned /\ result = "ok",
   errors  |-> IF Returned THEN Len(diagnostics.errors) ELSE 0,
   samples |-> IF Returned THEN [p \in DOMAIN grid |-> SampleAt(grid[p])] ELSE NoGrid]

Promise == INSTANCE WindowRead WITH
  raster  <- RasterOfFile,
  phase   <- IF pc = "idle" THEN "idle" ELSE "reading",
  request <- call,
  answer  <- AnswerOfCall

\* A file whose overviews are as coarse as the reader takes them for, on both
\* axes, are large enough for every pixel and no larger, and are read without
\* libtiff, or not at all because it finds no such segment in directory 0; a
\* level of factor 0 is never read.  And no far edge of the image saturates.
\* For a file that is not regular the reader does not keep its promise, as
\* ExplicitLevelIsRead and EverySampleIsRead show below.
RegularOverview(f, k) ==
  LET factor == OverviewFactor(f[0].width, f[k].width)
  IN  factor # 0 =>
        /\ f[k].reduction = factor
        /\ f[k].width = CeilDiv(f[0].width, factor)
        /\ f[k].height = CeilDiv(f[0].height, factor)
        /\ (~f[k].compressed /\ f[k].predictor = 1) \/ f[k].tiled # f[0].tiled

RegularFile(f) ==
  /\ f[0].reduction = 1 /\ f[0].width < MaxCoord /\ f[0].height < MaxCoord
  /\ \A k \in DOMAIN f \ {0} : RegularOverview(f, k)

EveryFileIsRegular == \A f \in Files : RegularFile(f)

\* Every call returns one error and no sample, or no error and exactly the
\* samples it was asked for, each from the right pixel, band and level and in
\* the right place, whatever the segments, batches, planes, strides and
\* overviews it took (GeoTiffReader::ReadWindow, ReadTile, ReadScanlines).
ReaderKeepsItsPromise == Promise!Spec

\* Every call returns, whatever the source, libtiff and the callback do.
EveryReadEnds == Promise!EveryReadEnds

BytesOf(reads) == FoldLeft(LAMBDA sum, read : sum + read.bytes, 0, reads)

\* From the moment ReadWindow has begun, the statistics count the reads of
\* pixel data this call made and the bytes that came back, also of a read that
\* failed and of a call that was cancelled (RasterReadStatistics).
StatisticsCountTheReads ==
  issued # << >> \/ pc \notin {"idle", "parseTile", "parseRows"} =>
    statistics.requests = Len(issued) /\ statistics.fetched = BytesOf(issued)

\* The full-resolution pixels segment i of directory k stands for meet the
\* window.
Overlaps(k, i) ==
  LET segment == SegmentWindow(file[k], i)
      by      == file[k].reduction
  IN  /\ segment.x * by < window.x + window.width /\ window.x < (segment.x + segment.width) * by
      /\ segment.y * by < window.y + window.height /\ window.y < (segment.y + segment.height) * by

\* The bytes of the file that hold samples of the band in such segments.
IsUseful(byte) ==
  \E k \in DOMAIN file : \E n \in DOMAIN file[k].segments :
    /\ byte >= file[k].segments[n].offset
    /\ byte < file[k].segments[n].offset + file[k].segments[n].byteCount
    /\ Overlaps(k, (n - 1) % SegmentsPerPlane(file[k]))
    /\ file[k].planar = 2 => (n - 1) \div SegmentsPerPlane(file[k]) = call.band - 1

\* No byte is read but those of segments that intersect the window, although
\* reads are coalesced, planes are apart and overviews have segments of their
\* own ("Reads only the source segments that intersect `window`").
OnlyUsefulBytesAreRead ==
  pc # "idle" => \A n \in DOMAIN issued :
    \A byte \in issued[n].offset .. issued[n].offset + issued[n].size - 1 : IsUseful(byte)

-----------------------------------------------------------------------------
(***************************************************************************)
(* What the headers say and the code does not keep for every file.         *)
(***************************************************************************)

\* A successful read has written every sample of its grid.
EverySampleIsRead ==
  Returned /\ result = "ok" => \A p \in DOMAIN grid : grid[p] # Unwritten

\* An explicit overview level is the level that is read.
ExplicitLevelIsRead ==
  Returned /\ result = "ok" /\ call.level # 0 =>
    \A p \in DOMAIN grid : grid[p].directory = call.level

\* A read with a budget never holds more than its budget.
BudgetIsNeverExceeded ==
  pc = "copy" /\ call.budget # 0 => HeldFor(plan[cursor]) <= call.budget
=============================================================================
