--------------------------- MODULE MCGeoTiffReader ---------------------------
(***************************************************************************)
(* Files and calls for GeoTiffReader.  A word is 16 bits, a coalesced read *)
(* at most 8 bytes, a sample of the grid 8 bytes.                          *)
(***************************************************************************)
EXTENDS GeoTiffReaderPromise

\* n segments of the given size, one after the other.
Packed(n, first, size) == [i \in 1 .. n |-> [offset |-> first + (i - 1) * size, byteCount |-> size]]

\* One band of one byte; strips of one row.
Strips(w, h) ==
  [width |-> w, height |-> h, reduction |-> 1, tiled |-> FALSE,
   segmentWidth |-> w, segmentHeight |-> 1, planar |-> 1,
   compressed |-> FALSE, predictor |-> 1, pixelStride |-> 1,
   sampleBytes |-> <<1>>, sampleOffsets |-> <<0>>, segments |-> Packed(h, 100, w)]

Reduced(d, by, at) ==
  [d EXCEPT !.reduction = by,
            !.segments = [i \in DOMAIN @ |-> [@[i] EXCEPT !.offset = @ + at]]]

\* Two bands of one and two bytes in tiles of 2 x 2 pixels.
Tiles(w, h) ==
  LET n == ((w + 1) \div 2) * ((h + 1) \div 2)
  IN  [Strips(w, h) EXCEPT !.tiled = TRUE, !.segmentWidth = 2, !.segmentHeight = 2,
         !.pixelStride = 3, !.sampleBytes = <<1, 2>>, !.sampleOffsets = <<0, 1>>,
         !.segments = Packed(n, 100, 12)]

Planes2(w, h) ==
  [Strips(w, h) EXCEPT !.planar = 2, !.pixelStride = 2, !.sampleBytes = <<1, 1>>,
     !.sampleOffsets = <<0, 0>>, !.segments = Packed(2 * h, 100, w)]

Single(d) == [k \in {0} |-> d]
Pyramid(d, e) == [k \in {0, 1} |-> IF k = 0 THEN d ELSE e]

\* A square in one tile of the given size that the file says has `bytes' bytes.
OneTile(side, bytes) ==
  [Strips(side, side) EXCEPT !.tiled = TRUE, !.segmentWidth = side, !.segmentHeight = side,
     !.segments = Packed(1, 100, bytes)]

(***************************************************************************)
(* Files whose overviews have the size GDAL gives them and are not         *)
(* compressed.                                                             *)
(***************************************************************************)
MCFiles ==
  { \* strips that coalesce two by two, with two overviews
    [k \in 0 .. 2 |-> IF k = 0 THEN Strips(4, 4)
                      ELSE IF k = 1 THEN Reduced(Strips(2, 2), 2, 100)
                      ELSE Reduced(Strips(1, 1), 4, 200)],
    \* an odd image in tiles, and its overview in strips
    Pyramid(Tiles(5, 3), Reduced([Strips(3, 2) EXCEPT !.pixelStride = 3, !.sampleBytes = <<1, 2>>,
                                    !.sampleOffsets = <<0, 1>>, !.segments = Packed(2, 100, 9)],
                                 2, 100)),
    \* small tiles out of order and with a gap in the file
    Single([Strips(4, 2) EXCEPT !.tiled = TRUE, !.segmentWidth = 1, !.segmentHeight = 2,
              !.segments = <<[offset |-> 102, byteCount |-> 2], [offset |-> 104, byteCount |-> 2],
                             [offset |-> 100, byteCount |-> 2], [offset |-> 110, byteCount |-> 2]>>]),
    \* bands in planes of their own
    Single(Planes2(3, 2)),
    Single([Planes2(3, 2) EXCEPT !.compressed = TRUE]),
    \* predictors on raw and on compressed segments
    Single([Tiles(3, 2) EXCEPT !.predictor = 2]),
    Single([Strips(2, 2) EXCEPT !.predictor = 3, !.pixelStride = 4, !.sampleBytes = <<4>>,
              !.segments = Packed(2, 100, 8)]),
    Single([Tiles(3, 2) EXCEPT !.predictor = 2, !.compressed = TRUE, !.segments = Packed(2, 100, 5)]),
    \* segments shorter than their layout
    Single([Strips(4, 2) EXCEPT !.segments = Packed(2, 100, 3)]),
    Single([Strips(4, 2) EXCEPT !.predictor = 2, !.segments = Packed(2, 100, 3)]),
    \* an overview that is wider than the image
    Pyramid(Strips(2, 2), Strips(5, 2)),
    \* an overview that this build may not decode
    Pyramid(Strips(2, 2), [Reduced(Strips(1, 1), 2, 50) EXCEPT !.compressed = TRUE,
                             !.tiled = TRUE]),
    \* sizes that are not representable
    Single([Strips(2, 2) EXCEPT !.tiled = TRUE, !.segmentWidth = 30000, !.pixelStride = 3,
              !.sampleBytes = <<3>>]),
    Single([OneTile(300, 9) EXCEPT !.compressed = TRUE]),
    Single([OneTile(300, 9) EXCEPT !.predictor = 2]),
    Single([OneTile(200, 40000) EXCEPT !.predictor = 2]) }

ASSUME FilesAreRegular == \A f \in MCFiles : RegularFile(f)

AsksWindow(x, y, w, h, band, level, step, budget) ==
  [kind |-> "window", x |-> x, y |-> y, width |-> w, height |-> h, band |-> band,
   level |-> level, step |-> step, budget |-> budget, lossy |-> FALSE]

AsksTile(x, y, level, step) ==
  [AsksWindow(x, y, 0, 0, 1, level, step, 0) EXCEPT !.kind = "tile"]

AsksRows(first, count, step) ==
  [AsksWindow(0, first, 0, count, 1, 0, step, 0) EXCEPT !.kind = "scanlines"]

MCQuestions ==
  \* parts of the image, also from the overview
  {AsksWindow(x, 1, 2, 1, band, 0, step, 0) : x \in {0, 1}, band \in {1, 2}, step \in {0, 2}}
  \cup {AsksWindow(x, 1, 2, 1, band, 1, 1, 0) : x \in {0, 1}, band \in {1, 2}}
  \* the whole of it
  \cup {AsksWindow(0, 0, 4, 4, 1, level, 3, 0) : level \in 0 .. 3}
  \cup {AsksWindow(0, 0, 4, 4, 1, 0, step, 0) : step \in {1, 4}}
  \cup {AsksWindow(0, 0, 5, 3, band, 0, 2, 0) : band \in 0 .. 2}
  \cup {AsksWindow(0, 0, 3, 2, 1, 0, 1, budget) : budget \in {0, 55, 60, 72, 80}}
  \cup {AsksWindow(0, 0, 2, 2, 1, 0, 1, budget) : budget \in {48, 60}}
  \* nothing, too much, a conversion
  \cup {AsksWindow(1, 1, 0, 0, 1, 0, 1, 0), AsksWindow(MaxCoord, 0, 1, 1, 1, 0, 1, 0),
        AsksWindow(0, 0, 200, 200, 1, 0, 1, 0), AsksWindow(0, 0, 2, 2, 1, 0, MaxCoord, 0),
        [AsksWindow(0, 0, 2, 2, 1, 0, 1, 0) EXCEPT !.lossy = TRUE]}
  \cup {AsksTile(x, y, 0, 1) : x \in {0, 2}, y \in {0, 1}}
  \cup {AsksTile(x, 0, level, 2) : x \in {0, 1}, level \in {0, 1}}
  \cup {AsksRows(1, 0, 1), AsksRows(0, 2, 1), AsksRows(1, 1, 2), AsksRows(3, 2, 1)}

(***************************************************************************)
(* Files and calls for the statements that do not hold of every file.      *)
(***************************************************************************)

\* GDAL's quarter of 9 x 8 pixels is 3 x 2: the factor derived from the widths
\* is 3, and rows 6 to 8 of the image have no row in the overview.
MCQuarterFiles     == {Pyramid(Strips(9, 8), Reduced(Strips(3, 2), 4, 200))}
MCQuarterQuestions == {AsksWindow(0, 0, 9, 8, 1, level, 1, 0) : level \in {0, 1}}

\* Every level compressed, as gdaladdo leaves them.
MCCompressedFiles ==
  {Pyramid([Strips(4, 4) EXCEPT !.compressed = TRUE],
           [Reduced(Strips(2, 2), 2, 100) EXCEPT !.compressed = TRUE])}
MCCompressedQuestions == {AsksWindow(0, 0, 4, 2, 1, level, 1, 0) : level \in {0, 1}}

\* Floating-point predictor on raw strips.
MCPredictorFiles ==
  {Single([Strips(2, 2) EXCEPT !.predictor = 3, !.pixelStride = 4, !.sampleBytes = <<4>>,
             !.segments = Packed(2, 100, 8)])}
MCPredictorQuestions == {AsksWindow(0, 0, 2, 2, 1, 0, 1, budget) : budget \in {0, 48}}

\* A good window, then a tile that does not exist.
MCPlainFiles     == {Single(Strips(4, 4))}
MCPlainQuestions == {AsksWindow(0, 0, 2, 2, 1, 0, 1, 0), AsksTile(5, 5, 0, 1)}
=============================================================================
