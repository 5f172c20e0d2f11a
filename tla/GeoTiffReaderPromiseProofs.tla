---------------------- MODULE GeoTiffReaderPromiseProofs ----------------------
(***************************************************************************)
(* The reader keeps the promise of WindowRead, reads no byte it has no     *)
(* use for, of every set of regular files, and its statistics are those    *)
(* of the reads it made, of any.                                           *)
(*                                                                         *)
(* The argument: a place in a segment determines the row, the column and   *)
(* the band it was computed from; every output lies in a segment of its    *)
(* level, and that segment is wanted; so once the plan is complete and     *)
(* every planned segment is copied, each output holds its own sample.      *)
(* The statistics are sums over the reads: one read more adds its bytes.   *)
(***************************************************************************)
EXTENDS GeoTiffReaderProofs, GeoTiffReaderPromise

(***************************************************************************)
(* Where a sample is.                                                      *)
(***************************************************************************)

\* The row, the column and the band of a byte are those it was computed from.
LEMMA PlaceIsRecovered ==
  ASSUME NEW row \in Nat, NEW column \in Nat, NEW across \in Nat \ {0}, NEW stride \in Nat \ {0},
         NEW component \in Nat, column < across, component < stride,
         NEW byte, byte = row * (across * stride) + column * stride + component
  PROVE  /\ byte \in Nat
         /\ byte % stride = component
         /\ (byte \div stride) % across = column
         /\ byte \div (across * stride) = row
  <1> DEFINE place == row * across + column
             rest  == column * stride + component
  <1>1. /\ row * across \in Nat /\ place \in Nat
        /\ across * stride \in Nat \ {0} /\ column * stride \in Nat
    BY ProductFacts
  <1>2. byte = place * stride + component
    <2>1. row * (across * stride) = (row * across) * stride
      BY SMT
    <2>2. (row * across + column) * stride = (row * across) * stride + column * stride
      BY SMT
    <2> QED
      BY <1>1, <2>1, <2>2
  <1>3. rest \in Nat /\ rest < across * stride
    <2>1. (column + 1) * stride <= across * stride
      BY ProductMonotone
    <2>2. (column + 1) * stride = column * stride + stride
      OBVIOUS
    <2> QED
      BY <1>1, <2>1, <2>2
  <1>4. byte = row * (across * stride) + rest
    <2>1. row * (across * stride) \in Nat
      BY <1>1, ProductFacts
    <2> QED
      BY <1>1, <2>1
  <1> HIDE DEF rest, place
  <1>5. byte % stride = component /\ byte \div stride = place
    BY <1>1, <1>2, RemainderIs
  <1>6. place % across = column
    BY RemainderIs DEF place
  <1>7. byte \div (across * stride) = row
    BY <1>1, <1>3, <1>4, RemainderIs
  <1>8. byte \in Nat
    BY <1>1, <1>2, ProductFacts
  <1> QED
    BY <1>5, <1>6, <1>7, <1>8

\* The bands of a pixel follow one another and end with it.
LEMMA BandsAreApart ==
  ASSUME NEW d, ValidDirectory(d), d.planar = 1, NEW b \in Bands(d)
  PROVE  /\ \A c \in Bands(d) : b < c => d.sampleOffsets[b] + d.sampleBytes[b] <= d.sampleOffsets[c]
         /\ d.sampleOffsets[b] + d.sampleBytes[b] <= d.pixelStride
  <1> DEFINE n     == Len(d.sampleBytes)
             end   == d.sampleOffsets[b] + d.sampleBytes[b]
             wrong == {c \in Nat : c \in Bands(d) /\ b < c /\ ~(end <= d.sampleOffsets[c])}
             less  == OpToRel(<, Nat)
  <1>1. /\ n \in Nat \ {0} /\ Bands(d) = 1 .. n
        /\ \A c \in Bands(d) : d.sampleBytes[c] \in Nat \ {0} /\ d.sampleOffsets[c] \in Nat
    BY DirectoryFields DEF Bands
  <1>2. /\ \A c \in Bands(d) : c # 1 => d.sampleOffsets[c] = d.sampleOffsets[c - 1] + d.sampleBytes[c - 1]
        /\ d.pixelStride = d.sampleOffsets[n] + d.sampleBytes[n]
    BY DEF ValidDirectory
  <1>3. \A c \in Bands(d) : b < c => end <= d.sampleOffsets[c]
    <2> SUFFICES ASSUME wrong # {} PROVE FALSE
      BY <1>1
    <2>1. PICK c \in wrong : \A e \in wrong : ~(<<e, c>> \in less)
      <3>1. wrong \subseteq Nat
        OBVIOUS
      <3> HIDE DEF wrong
      <3> QED
        BY <3>1, NatLessThanWellFounded, WFMin
    <2>2. c \in 1 .. n /\ b < c /\ ~(end <= d.sampleOffsets[c]) /\ b \in 1 .. n
      BY <1>1, <2>1
    <2>3. c # 1 /\ c - 1 \in Bands(d) /\ c - 1 \in Nat /\ b <= c - 1
      BY <1>1, <2>2
    <2>4. d.sampleOffsets[c] = d.sampleOffsets[c - 1] + d.sampleBytes[c - 1]
      BY <1>1, <1>2, <2>2, <2>3
    <2>5. c - 1 # b
      BY <2>2, <2>4, <1>1
    <2>6. ~(end <= d.sampleOffsets[c - 1])
      <3>1. /\ d.sampleOffsets[c - 1] \in Nat /\ d.sampleBytes[c - 1] \in Nat /\ end \in Nat
        <4> HIDE DEF wrong, less, n
        <4>1. \A k \in Bands(d) : d.sampleBytes[k] \in Nat /\ d.sampleOffsets[k] \in Nat
          BY <1>1
        <4> QED
          BY <2>3, <4>1
      <3> HIDE DEF end
      <3> QED
        BY <2>2, <2>4, <3>1
    <2>7. c - 1 \in wrong
      <3>1. b < c - 1
        BY <2>2, <2>3, <2>5
      <3> QED
        BY <2>3, <2>6, <3>1
    <2>8. <<c - 1, c>> \in less
      BY <2>2, <2>3 DEF OpToRel
    <2> QED
      BY <2>1, <2>7, <2>8
  <1>4. end <= d.pixelStride
    <2>1. n \in Bands(d) /\ (b = n \/ b < n)
      BY <1>1
    <2> QED
      BY <1>1, <1>2, <1>3, <2>1
  <1> QED
    BY <1>3, <1>4

\* The sample an output is asked to be.
Asked(p) ==
  [level |-> directory, band |-> call.band, x |-> LevelPixel(p)[1], y |-> LevelPixel(p)[2]]

\* The offset of a band in a pixel belongs to no other band.
LEMMA BandIsRecovered ==
  ASSUME NEW d, ValidDirectory(d), d.planar = 1, NEW b \in Bands(d)
  PROVE  {c \in Bands(d) : d.sampleOffsets[c] = d.sampleOffsets[b]} = {b}
  <1>1. /\ Bands(d) \subseteq Nat
        /\ \A c \in Bands(d) : d.sampleBytes[c] \in Nat \ {0} /\ d.sampleOffsets[c] \in Nat
    BY DirectoryFields DEF Bands
  <1>2. \A c, e \in Bands(d) : c < e => d.sampleOffsets[c] + d.sampleBytes[c] <= d.sampleOffsets[e]
    BY BandsAreApart
  <1>3. \A c, e \in Bands(d) : c < e => d.sampleOffsets[c] # d.sampleOffsets[e]
    BY <1>1, <1>2
  <1>4. \A c \in Bands(d) : c # b => d.sampleOffsets[c] # d.sampleOffsets[b]
    <2> SUFFICES ASSUME NEW c \in Bands(d), c # b PROVE d.sampleOffsets[c] # d.sampleOffsets[b]
      OBVIOUS
    <2>1. c < b \/ b < c
      BY <1>1
    <2> QED
      BY <1>3, <2>1
  <1> QED
    BY <1>4

\* The index of a segment in the tables names its plane and its place.
LEMMA SegmentIsRecovered ==
  ASSUME Inv, Countable, pc # "idle", NEW i \in Nat, i < SegmentsPerPlane(Layout)
  PROVE  /\ SourceIndex(i) \in Nat
         /\ SourceIndex(i) % SegmentsPerPlane(Layout) = i
         /\ Layout.planar = 2 => SourceIndex(i) \div SegmentsPerPlane(Layout) = call.band - 1
  <1> DEFINE n == SegmentsPerPlane(Layout)
  <1>1. n \in Nat \ {0} /\ SourceIndex(i) \in Nat
    BY FileFacts, SegmentCounts, SegmentFacts
  <1>2. CASE Layout.planar = 2
    <2>1. call.band - 1 \in Nat
      BY AcceptedFacts, FileFacts, DirectoryFields DEF Bands
    <2>2. SourceIndex(i) = (call.band - 1) * n + i
      BY <1>2 DEF SourceIndex
    <2>3. i < n
      OBVIOUS
    <2> HIDE DEF n
    <2> DEFINE before == call.band - 1
    <2>4. (before * n + i) \div n = before /\ (before * n + i) % n = i
      <3> HIDE DEF before
      <3>1. before \in Nat
        BY <2>1 DEF before
      <3> QED
        BY <1>1, <2>3, <3>1, RemainderIs
    <2>5. SourceIndex(i) \div n = call.band - 1 /\ SourceIndex(i) % n = i
      BY <2>2, <2>4
    <2> QED
      BY <1>1, <2>5 DEF n
  <1>3. CASE Layout.planar # 2
    <2>1. SourceIndex(i) = i
      BY <1>3 DEF SourceIndex
    <2>2. i = 0 * n + i /\ i < n
      BY <1>1
    <2>3. (0 * n + i) % n = i
      <3> HIDE DEF n
      <3> QED
        BY <1>1, <2>2, RemainderIs
    <2> QED
      BY <1>1, <1>3, <2>1, <2>2, <2>3
  <1> QED
    BY <1>2, <1>3

\* The sample stored for an output of a segment is the one it is asked to be.
LEMMA SampleIsRecovered ==
  ASSUME Inv, Countable, pc # "idle", NEW i \in Nat, i < SegmentsPerPlane(Layout),
         NEW p \in OutputsIn(i)
  PROVE  SampleAt([directory |-> directory, segment |-> SourceIndex(i),
                   byte |-> SampleOffset(i, LevelPixel(p))]) = Asked(p)
  <1> DEFINE segment   == SegmentWindow(Layout, i)
             x         == LevelPixel(p)[1]
             y         == LevelPixel(p)[2]
             component == Layout.sampleOffsets[call.band]
             byte      == SampleOffset(i, LevelPixel(p))
             cell      == [directory |-> directory, segment |-> SourceIndex(i), byte |-> byte]
             plane     == SourceIndex(i) \div SegmentsPerPlane(Layout)
             place     == SourceIndex(i) % SegmentsPerPlane(Layout)
  <1>1. segment \in NatWindow /\ segment.x \in Nat /\ segment.y \in Nat
        /\ segment.width \in Nat /\ segment.width <= Layout.segmentWidth
    BY FileFacts, SegmentIsInTheImage DEF NatWindow
  <1>2. p \in Outputs /\ ContainsPixel(segment, x, y)
    BY DEF OutputsIn
  <1>3. x \in Nat /\ y \in Nat
    BY <1>2, LevelPixelType
  <1>4. x >= segment.x /\ y >= segment.y /\ x < segment.x + segment.width
    BY <1>1, <1>2, <1>3, MaxCoordAssumption DEF ContainsPixel, EndX, SaturatingAdd
  <1>5. /\ ValidDirectory(Layout) /\ call.band \in Bands(Layout)
        /\ SampleStride \in Nat \ {0} /\ component \in Nat
        /\ Layout.segmentWidth \in Nat \ {0}
    BY FileFacts, AcceptedFacts, DirectoryFields
  <1>6. place = i /\ (Layout.planar = 2 => plane = call.band - 1) /\ SourceIndex(i) \in Nat
    BY SegmentIsRecovered
  <1>7. SampleStride = IF Layout.planar = 2 THEN Layout.sampleBytes[plane + 1] ELSE Layout.pixelStride
    <2>1. Layout.planar = 2 => plane + 1 = call.band
      <3>1. call.band \in Nat
        BY <1>5 DEF Bands
      <3> QED
        BY <1>6, <3>1
    <2> QED
      BY <2>1 DEF SampleStride, SampleBytes
  <1>8. component < SampleStride /\ (Layout.planar = 2 => component = 0)
    <2>1. CASE Layout.planar = 2
      BY <1>5, <2>1 DEF ValidDirectory
    <2>2. CASE Layout.planar # 2
      <3>1. Layout.planar = 1
        BY <1>5, <2>2, DirectoryFields
      <3>2. Layout.sampleOffsets[call.band] + Layout.sampleBytes[call.band] <= Layout.pixelStride
        BY <1>5, <3>1, BandsAreApart
      <3>3. Layout.sampleBytes[call.band] \in Nat \ {0} /\ Layout.pixelStride \in Nat
        BY <1>5, DirectoryFields
      <3> QED
        BY <1>5, <2>2, <3>2, <3>3 DEF SampleStride
    <2> QED
      BY <2>1, <2>2
  <1>9. byte = (y - segment.y) * (Layout.segmentWidth * SampleStride)
                 + (x - segment.x) * SampleStride + component
    BY DEF SampleOffset, RowStride
  <1>10. y - segment.y \in Nat /\ x - segment.x \in Nat /\ x - segment.x < Layout.segmentWidth
    BY <1>1, <1>3, <1>4, <1>5
  <1> HIDE DEF x, y, segment, component, byte, plane, place
  <1> DEFINE row    == y - segment.y
             column == x - segment.x
  <1>11. /\ byte % SampleStride = component
         /\ (byte \div SampleStride) % Layout.segmentWidth = x - segment.x
         /\ byte \div (Layout.segmentWidth * SampleStride) = y - segment.y
    <2>1. byte = row * (Layout.segmentWidth * SampleStride) + column * SampleStride + component
      BY <1>9
    <2>2. row \in Nat /\ column \in Nat /\ column < Layout.segmentWidth
      BY <1>10
    <2> HIDE DEF row, column
    <2>3. /\ byte % SampleStride = component
          /\ (byte \div SampleStride) % Layout.segmentWidth = column
          /\ byte \div (Layout.segmentWidth * SampleStride) = row
      <3> DEFINE across == Layout.segmentWidth
      <3>1. /\ row \in Nat /\ column \in Nat /\ across \in Nat \ {0} /\ SampleStride \in Nat \ {0}
            /\ component \in Nat /\ column < across /\ component < SampleStride
            /\ byte = row * (across * SampleStride) + column * SampleStride + component
        BY <1>5, <1>8, <2>1, <2>2
      <3> HIDE DEF across
      <3>2. /\ byte % SampleStride = component
            /\ (byte \div SampleStride) % across = column
            /\ byte \div (across * SampleStride) = row
        BY <3>1, PlaceIsRecovered, SMTT(60)
      <3> QED
        BY <3>2 DEF across
    <2> QED
      BY <2>3 DEF row, column
  <1> DEFINE bands == IF Layout.planar = 2
                      THEN IF byte % SampleStride = 0 THEN {plane + 1} ELSE {}
                      ELSE {b \in Bands(Layout) : Layout.sampleOffsets[b] = byte % SampleStride}
  <1>12. PixelAt(Layout, plane, place, byte) =
           [x |-> SegmentWindow(Layout, place).x + ((byte \div SampleStride) % Layout.segmentWidth),
            y |-> SegmentWindow(Layout, place).y + (byte \div (Layout.segmentWidth * SampleStride)),
            bands |-> bands]
    BY <1>7 DEF PixelAt
  <1>13. bands = {call.band}
    <2>1. CASE Layout.planar = 2
      <3>1. call.band \in Nat
        BY <1>5 DEF Bands
      <3>2. plane + 1 = call.band
        BY <1>6, <2>1, <3>1
      <3> QED
        BY <1>8, <1>11, <2>1, <3>2
    <2>2. CASE Layout.planar # 2
      <3>1. Layout.planar = 1
        BY <1>5, <2>2, DirectoryFields
      <3>2. {b \in Bands(Layout) : Layout.sampleOffsets[b] = component} = {call.band}
        BY <1>5, <3>1, BandIsRecovered DEF component
      <3> QED
        BY <1>11, <2>2, <3>2
    <2> QED
      BY <2>1, <2>2
  <1> HIDE DEF bands
  <1>14. PixelAt(Layout, plane, place, byte) = [x |-> x, y |-> y, bands |-> {call.band}]
    <2>1. SegmentWindow(Layout, place) = segment
      BY <1>6 DEF segment
    <2>2. segment.x + (x - segment.x) = x /\ segment.y + (y - segment.y) = y
      BY <1>1, <1>3
    <2> QED
      BY <1>11, <1>12, <1>13, <2>1, <2>2
  <1>15. cell # Unwritten
    BY <1>6 DEF Unwritten
  <1>16. /\ file[cell.directory] = Layout
         /\ cell.segment \div SegmentsPerPlane(Layout) = plane
         /\ cell.segment % SegmentsPerPlane(Layout) = place
         /\ cell.byte = byte /\ cell.directory = directory
    BY DEF Layout, plane, place
  <1> HIDE DEF cell
  <1>17. SampleAt(cell) = [level |-> directory, band |-> CHOOSE b \in {call.band} : TRUE, x |-> x, y |-> y]
    BY <1>14, <1>15, <1>16 DEF SampleAt
  <1>18. (CHOOSE b \in {call.band} : TRUE) = call.band
    OBVIOUS
  <1>19. SampleAt(cell) = Asked(p)
    BY <1>17, <1>18 DEF Asked, x, y
  <1> QED
    BY <1>19 DEF cell, byte

-----------------------------------------------------------------------------
(***************************************************************************)
(* Where the outputs are.                                                  *)
(***************************************************************************)

\* The levels of a regular file are as coarse as the reader takes them for,
\* and as large as they have to be.
LEMMA LevelFacts ==
  ASSUME Inv, RegularFile(file), NEW k \in DOMAIN file, Factor(k) # 0
  PROVE  /\ Factor(k) \in Nat \ {0} /\ Factor(k) <= MaxCoord
         /\ file[k].reduction = Factor(k)
         /\ file[k].width = CeilDiv(file[0].width, Factor(k))
         /\ file[k].height = CeilDiv(file[0].height, Factor(k))
  <1>1. Factor(k) \in Nat \ {0}
    BY FactorType
  <1>2. file[0].width \in Nat \ {0} /\ file[0].height \in Nat \ {0} /\ file[k].width \in Nat \ {0}
    BY FileFacts, DirectoryFields
  <1>3. CASE k = 0
    <2>1. Factor(k) = 1 /\ file[0].reduction = 1
      BY <1>3 DEF Factor, RegularFile
    <2>2. CeilDiv(file[0].width, 1) = file[0].width /\ CeilDiv(file[0].height, 1) = file[0].height
      BY <1>2 DEF CeilDiv
    <2> QED
      BY <1>1, <1>3, <2>1, <2>2, MaxCoordAssumption
  <1>4. CASE k # 0
    <2>1. Factor(k) = OverviewFactor(file[0].width, file[k].width) /\ RegularOverview(file, k)
      BY <1>4 DEF Factor, RegularFile
    <2>2. Factor(k) <= MaxCoord
      <3> DEFINE sum == Wrapped(file[0].width + file[k].width \div 2)
      <3>1. file[k].width \div 2 \in Nat
        BY <1>2, DivisionFacts
      <3>2. sum \in Coord
        BY <1>2, <3>1, WrappedType
      <3>3. Factor(k) = sum \div file[k].width
        BY <1>2, <2>1 DEF OverviewFactor
      <3> HIDE DEF sum
      <3>4. sum \in Nat /\ sum <= MaxCoord
        BY <3>2, MaxCoordAssumption DEF Coord
      <3>5. sum \div file[k].width <= sum /\ sum \div file[k].width \in Nat
        BY <1>2, <3>4, DivisionFacts
      <3> QED
        BY <1>1, <3>3, <3>4, <3>5, MaxCoordAssumption
    <2>3. /\ file[k].reduction = Factor(k)
          /\ file[k].width = CeilDiv(file[0].width, Factor(k))
          /\ file[k].height = CeilDiv(file[0].height, Factor(k))
      BY <2>1 DEF RegularOverview
    <2> QED
      BY <1>1, <2>2, <2>3
  <1> QED
    BY <1>3, <1>4

\* The window of an accepted call is in the image and nothing saturates.
LEMMA WindowFacts ==
  ASSUME Inv, Countable, pc # "idle", RegularFile(file)
  PROVE  /\ window \in Window
         /\ window.x \in Nat /\ window.y \in Nat /\ window.width \in Nat /\ window.height \in Nat
         /\ file[0].width \in Nat \ {0} /\ file[0].height \in Nat \ {0}
         /\ file[0].width < MaxCoord /\ file[0].height < MaxCoord
         /\ EndX(window) = window.x + window.width /\ EndX(window) <= file[0].width
         /\ EndY(window) = window.y + window.height /\ EndY(window) <= file[0].height
  <1>1. /\ window \in NatWindow
        /\ window.x \in Nat /\ window.y \in Nat /\ window.width \in Nat /\ window.height \in Nat
    BY FileFacts DEF NatWindow
  <1>2. /\ file[0].width \in Nat \ {0} /\ file[0].height \in Nat \ {0}
        /\ file[0].width < MaxCoord /\ file[0].height < MaxCoord
    BY FileFacts, DirectoryFields DEF RegularFile
  <1>3. EndX(window) <= file[0].width /\ EndY(window) <= file[0].height
    BY DEF Countable, RowsAddressable, InRaster
  <1>4. EndX(window) = window.x + window.width /\ EndY(window) = window.y + window.height
    BY <1>1, <1>2, <1>3, MaxCoordAssumption DEF EndX, EndY, SaturatingAdd
  <1>5. window \in Window
    <2>1. /\ window.x \in Coord /\ window.y \in Coord /\ window.width \in Coord
          /\ window.height \in Coord
      BY <1>1, <1>2, <1>3, <1>4, MaxCoordAssumption DEF Coord
    <2> QED
      BY <1>1, <2>1 DEF Window, NatWindow
  <1> QED
    BY <1>1, <1>2, <1>3, <1>4, <1>5

\* The request in the pixels of the level, by its edges.
LEMMA LevelWindowEdges ==
  ASSUME Inv, Countable, pc # "idle", RegularFile(file), ~IsEmptyWindow(window)
  PROVE  /\ LevelWindow.x = window.x \div Factor(directory)
         /\ LevelWindow.y = window.y \div Factor(directory)
         /\ EndX(LevelWindow) = CeilDiv(window.x + window.width, Factor(directory))
         /\ EndY(LevelWindow) = CeilDiv(window.y + window.height, Factor(directory))
  <1>1. Factor(directory) \in Nat \ {0} /\ Factor(directory) <= MaxCoord
    BY AcceptedFacts, FileFacts, LevelFacts
  <1>2. CASE Factor(directory) > 1
    <2>1. Factor(directory) \in Coord
      BY <1>1 DEF Coord
    <2>2. LevelWindow = ToOverview(window, Factor(directory))
      BY <1>2 DEF LevelWindow
    <2> QED
      BY <1>2, <2>1, <2>2, WindowFacts, OverviewEdges
  <1>3. CASE Factor(directory) = 1
    <2>1. LevelWindow = window
      BY <1>3 DEF LevelWindow
    <2>2. \A n \in Nat : n \div 1 = n /\ CeilDiv(n, 1) = n
      BY DEF CeilDiv
    <2>3. window.x + window.width \in Nat /\ window.y + window.height \in Nat
      BY WindowFacts
    <2> QED
      BY <1>3, <2>1, <2>2, <2>3, WindowFacts
  <1> QED
    BY <1>1, <1>2, <1>3

\* The output k of a row or column is read from the request.
LEMMA StepIsInside ==
  ASSUME NEW extent \in Nat, NEW step \in Nat \ {0}, NEW k \in 0 .. SampledExtent(extent, step) - 1
  PROVE  k * step \in Nat /\ k * step < extent
  <1>1. extent # 0
    BY DEF SampledExtent
  <1>2. CASE step = 1
    BY <1>1, <1>2 DEF SampledExtent
  <1>3. CASE step > 1
    <2> DEFINE sum == extent + step - 1
    <2>1. sum \in Nat /\ Wrapped(sum) \in Nat /\ Wrapped(sum) <= sum
      <3>1. sum \in Nat
        OBVIOUS
      <3> HIDE DEF sum
      <3> QED
        BY <3>1, WrappedBelow
    <2>2. k \in Nat /\ k < Wrapped(sum) \div step
      <3>1. SampledExtent(extent, step) = Wrapped(sum) \div step
        BY <1>1, <1>3 DEF SampledExtent
      <3>2. SampledExtent(extent, step) \in Nat
        BY SampledExtentType
      <3> QED
        BY <3>1, <3>2
    <2> HIDE DEF sum
    <2>3. Wrapped(sum) \div step <= sum \div step
      BY <2>1, QuotientMonotone
    <2>4. Wrapped(sum) \div step \in Nat /\ sum \div step \in Nat
      BY <2>1, DivisionFacts
    <2>5. ~(sum \div step < k + 1)
      BY <2>2, <2>3, <2>4
    <2>6. ~(sum < step * (k + 1))
      <3>1. PICK next \in Nat : next = k + 1
        BY <2>2
      <3>2. sum < step * next <=> sum \div step < next
        BY <2>1, QuotientBelow
      <3> QED
        BY <2>5, <3>1, <3>2, Zenon
    <2>7. step * (k + 1) = k * step + step /\ k * step \in Nat
      BY <2>2, ProductFacts
    <2> QED
      BY <2>1, <2>6, <2>7 DEF sum
  <1> QED
    BY <1>2, <1>3

\* The level pixel of an output, along one axis: in the request and in the level.
LEMMA ReadAlongAxis ==
  ASSUME NEW first \in Nat, NEW wide \in Nat, NEW size \in Nat, first + wide <= size,
         NEW factor \in Nat \ {0}, NEW step \in Nat \ {0},
         NEW k \in 0 .. SampledExtent(wide, step) - 1
  PROVE  /\ (first + k * step) \div factor \in Nat
         /\ first \div factor <= (first + k * step) \div factor
         /\ (first + k * step) \div factor < CeilDiv(first + wide, factor)
         /\ (first + k * step) \div factor < CeilDiv(size, factor)
  <1>1. PICK n \in Nat : n = first + k * step
    BY StepIsInside
  <1>2. first <= n /\ n < first + wide
    BY <1>1, StepIsInside
  <1> DEFINE q == n \div factor
  <1>3. q \in Nat /\ first \div factor <= q
    BY <1>2, DivisionFacts, QuotientMonotone
  <1>4. factor * q <= n /\ factor * q \in Nat
    <2>1. n = factor * q + (n % factor) /\ n % factor \in Nat
      BY DivisionFacts
    <2> HIDE DEF q
    <2>2. factor * q \in Nat
      BY <1>3, ProductFacts
    <2> QED
      BY <2>1, <2>2
  <1> HIDE DEF q
  <1>5. factor * q < first + wide /\ factor * q < size
    BY <1>2, <1>4
  <1>6. q < CeilDiv(first + wide, factor) /\ q < CeilDiv(size, factor)
    <2>1. first + wide \in Nat
      OBVIOUS
    <2> QED
      BY <1>3, <1>5, <2>1, CeilDivFacts
  <1> QED
    BY <1>1, <1>3, <1>6 DEF q

\* The pixel an output is read from, whatever the factor (readX, readY).
LEMMA LevelPixelIs ==
  ASSUME Inv, Countable, pc # "idle", NEW p \in Outputs
  PROVE  /\ LevelPixel(p)[1] = (window.x + p[1] * EffectiveStep) \div Factor(directory)
         /\ LevelPixel(p)[2] = (window.y + p[2] * EffectiveStep) \div Factor(directory)
  <1>1. Factor(directory) \in Nat \ {0}
    BY AcceptedFacts
  <1>2. /\ p[1] \in Nat /\ p[2] \in Nat /\ EffectiveStep \in Nat
        /\ window.x \in Nat /\ window.y \in Nat
    BY SampledFacts, FileFacts DEF NatWindow
  <1>3. p[1] * EffectiveStep \in Nat /\ p[2] * EffectiveStep \in Nat
    BY <1>2, ProductFacts
  <1>4. CASE Factor(directory) > 1
    BY <1>4 DEF LevelPixel
  <1>5. CASE Factor(directory) = 1
    <2>1. /\ (window.x + p[1] * EffectiveStep) \div 1 = window.x + p[1] * EffectiveStep
          /\ (window.y + p[2] * EffectiveStep) \div 1 = window.y + p[2] * EffectiveStep
      BY <1>2, <1>3
    <2> QED
      BY <1>5, <2>1 DEF LevelPixel
  <1> QED
    BY <1>1, <1>4, <1>5

\* Every output is read from a pixel of the request and of the level.
LEMMA OutputIsInTheLevel ==
  ASSUME Inv, Countable, pc # "idle", RegularFile(file), NEW p \in Outputs
  PROVE  LET x == LevelPixel(p)[1]
             y == LevelPixel(p)[2]
         IN  /\ ~IsEmptyWindow(window)
             /\ x \in Nat /\ x < Layout.width /\ x >= LevelWindow.x /\ x < EndX(LevelWindow)
             /\ y \in Nat /\ y < Layout.height /\ y >= LevelWindow.y /\ y < EndY(LevelWindow)
  <1>1. /\ p[1] \in 0 .. SampledExtent(window.width, EffectiveStep) - 1
        /\ p[2] \in 0 .. SampledExtent(window.height, EffectiveStep) - 1
    BY DEF Outputs, Sampled, SampledSize
  <1>2. EffectiveStep \in Nat \ {0} /\ Factor(directory) \in Nat \ {0}
    BY SampledFacts, AcceptedFacts
  <1>3. ~IsEmptyWindow(window)
    BY <1>1 DEF IsEmptyWindow, SampledExtent
  <1>4. /\ Layout.width = CeilDiv(file[0].width, Factor(directory))
        /\ Layout.height = CeilDiv(file[0].height, Factor(directory))
    BY <1>2, FileFacts, LevelFacts DEF Layout
  <1>5. LET x == (window.x + p[1] * EffectiveStep) \div Factor(directory)
        IN  /\ x \in Nat /\ window.x \div Factor(directory) <= x
            /\ x < CeilDiv(window.x + window.width, Factor(directory))
            /\ x < CeilDiv(file[0].width, Factor(directory))
    BY <1>1, <1>2, WindowFacts, ReadAlongAxis
  <1>6. LET y == (window.y + p[2] * EffectiveStep) \div Factor(directory)
        IN  /\ y \in Nat /\ window.y \div Factor(directory) <= y
            /\ y < CeilDiv(window.y + window.height, Factor(directory))
            /\ y < CeilDiv(file[0].height, Factor(directory))
    BY <1>1, <1>2, WindowFacts, ReadAlongAxis
  <1>7. /\ LevelPixel(p)[1] = (window.x + p[1] * EffectiveStep) \div Factor(directory)
        /\ LevelPixel(p)[2] = (window.y + p[2] * EffectiveStep) \div Factor(directory)
    BY LevelPixelIs
  <1>8. /\ LevelWindow.x = window.x \div Factor(directory)
        /\ LevelWindow.y = window.y \div Factor(directory)
        /\ EndX(LevelWindow) = CeilDiv(window.x + window.width, Factor(directory))
        /\ EndY(LevelWindow) = CeilDiv(window.y + window.height, Factor(directory))
    BY <1>3, LevelWindowEdges
  <1>9. window.x \div Factor(directory) \in Nat /\ window.y \div Factor(directory) \in Nat
    BY <1>2, WindowFacts, DivisionFacts
  <1> QED
    BY <1>3, <1>4, <1>5, <1>6, <1>7, <1>8, <1>9

\* A segment is wanted when it overlaps the request on both axes (Intersect).
LEMMA WantedEdges ==
  ASSUME Inv, Countable, pc # "idle", RegularFile(file),
         NEW i \in Nat, i < SegmentsPerPlane(Layout), ~IsEmptyWindow(window)
  PROVE  LET segment == SegmentWindow(Layout, i)
         IN  Wanted(i) <=> /\ segment.x < EndX(LevelWindow) /\ LevelWindow.x < segment.x + segment.width
                           /\ segment.y < EndY(LevelWindow) /\ LevelWindow.y < segment.y + segment.height
  <1> DEFINE segment == SegmentWindow(Layout, i)
  <1>1. /\ segment.x \in Nat /\ segment.y \in Nat
        /\ segment.width \in Nat \ {0} /\ segment.height \in Nat \ {0}
        /\ segment.x + segment.width <= Layout.width
        /\ segment.y + segment.height <= Layout.height
    BY FileFacts, SegmentIsInTheImage DEF NatWindow
  <1>2. Layout.width \in Nat /\ Layout.height \in Nat /\ Layout.width <= MaxCoord /\ Layout.height <= MaxCoord
    BY FileFacts, DirectoryFields DEF ValidDirectory
  <1>3. EndX(segment) = segment.x + segment.width /\ EndY(segment) = segment.y + segment.height
    BY <1>1, <1>2, MaxCoordAssumption DEF EndX, EndY, SaturatingAdd
  <1>4. /\ Factor(directory) \in Nat \ {0}
        /\ window.x \in Nat /\ window.width \in Nat \ {0}
        /\ window.y \in Nat /\ window.height \in Nat \ {0}
    BY AcceptedFacts, WindowFacts DEF IsEmptyWindow
  <1>5. /\ LevelWindow.x \in Nat /\ EndX(LevelWindow) \in Nat /\ LevelWindow.x < EndX(LevelWindow)
        /\ LevelWindow.y \in Nat /\ EndY(LevelWindow) \in Nat /\ LevelWindow.y < EndY(LevelWindow)
    <2>1. ASSUME NEW first \in Nat, NEW wide \in Nat \ {0}, NEW factor \in Nat \ {0}
          PROVE  first \div factor \in Nat /\ CeilDiv(first + wide, factor) \in Nat
                 /\ first \div factor < CeilDiv(first + wide, factor)
      <3>1. first \div factor \in Nat /\ factor * (first \div factor) <= first
            /\ factor * (first \div factor) \in Nat
        BY DivisionFacts, ProductFacts
      <3>2. first + wide \in Nat /\ factor * (first \div factor) < first + wide
        BY <3>1
      <3> QED
        BY <3>1, <3>2, CeilDivFacts
    <2> QED
      BY <1>4, <2>1, LevelWindowEdges
  <1> HIDE DEF segment
  <1>6. Wanted(i) <=> /\ segment.x < EndX(LevelWindow) /\ LevelWindow.x < EndX(segment)
                      /\ segment.y < EndY(LevelWindow) /\ LevelWindow.y < EndY(segment)
    <2> DEFINE left  == LargerOf(segment.x, LevelWindow.x)
               right == SmallerOf(EndX(segment), EndX(LevelWindow))
               top    == LargerOf(segment.y, LevelWindow.y)
               bottom == SmallerOf(EndY(segment), EndY(LevelWindow))
    <2>1. left \in Nat /\ right \in Nat /\ top \in Nat /\ bottom \in Nat
      BY <1>1, <1>3, <1>5 DEF LargerOf, SmallerOf
    <2>2. left < right <=> segment.x < EndX(LevelWindow) /\ LevelWindow.x < EndX(segment)
      BY <1>1, <1>3, <1>5 DEF LargerOf, SmallerOf
    <2>3. top < bottom <=> segment.y < EndY(LevelWindow) /\ LevelWindow.y < EndY(segment)
      BY <1>1, <1>3, <1>5 DEF LargerOf, SmallerOf
    <2>4. Intersect(segment, LevelWindow) =
            IF right <= left \/ bottom <= top THEN EmptyWindow
            ELSE [x |-> left, y |-> top, width |-> right - left, height |-> bottom - top]
      BY DEF Intersect
    <2>5. Wanted(i) <=> ~IsEmptyWindow(Intersect(segment, LevelWindow))
      BY DEF Wanted, segment
    <2> HIDE DEF left, right, top, bottom
    <2>6. IsEmptyWindow(Intersect(segment, LevelWindow)) <=> right <= left \/ bottom <= top
      BY <2>1, <2>4 DEF IsEmptyWindow, EmptyWindow
    <2> QED
      BY <2>1, <2>2, <2>3, <2>5, <2>6
  <1> QED
    BY <1>3, <1>6 DEF segment

\* Along one axis, the piece a pixel is in: it exists and holds the pixel.
LEMMA PieceOfPixel ==
  ASSUME NEW n \in Nat, NEW extent \in Nat \ {0}, NEW size \in Nat \ {0}, n < extent
  PROVE  LET q == n \div size
         IN  /\ q \in Nat /\ q < (extent - 1) \div size + 1
             /\ q * size \in Nat /\ q * size <= n
             /\ n < q * size + SmallerOf(size, extent - q * size)
  <1> DEFINE q == n \div size
  <1>1. q \in Nat /\ n = size * q + (n % size) /\ n % size \in Nat /\ n % size < size
    BY DivisionFacts
  <1>2. q <= (extent - 1) \div size /\ (extent - 1) \div size \in Nat
    <2>1. extent - 1 \in Nat /\ n <= extent - 1
      OBVIOUS
    <2> QED
      BY <2>1, QuotientMonotone, DivisionFacts
  <1> HIDE DEF q
  <1>3. q * size = size * q /\ q * size \in Nat
    BY <1>1, ProductFacts
  <1> QED
    BY <1>1, <1>2, <1>3 DEF q, SmallerOf

\* Every output is in a segment of the plane, and that segment is wanted.
LEMMA OutputIsCovered ==
  ASSUME Inv, Countable, pc # "idle", RegularFile(file), NEW p \in Outputs
  PROVE  \E i \in Nat : i < SegmentsPerPlane(Layout) /\ p \in OutputsIn(i) /\ Wanted(i)
  <1> DEFINE x      == LevelPixel(p)[1]
             y      == LevelPixel(p)[2]
             d      == Layout
             across == SegmentsAcross(d)
             column == x \div d.segmentWidth
             row    == y \div d.segmentHeight
             i      == row * across + column
             left   == column * d.segmentWidth
             top    == row * d.segmentHeight
  <1>1. /\ ~IsEmptyWindow(window)
        /\ x \in Nat /\ x < d.width /\ x >= LevelWindow.x /\ x < EndX(LevelWindow)
        /\ y \in Nat /\ y < d.height /\ y >= LevelWindow.y /\ y < EndY(LevelWindow)
    BY OutputIsInTheLevel
  <1>2. /\ ValidDirectory(d)
        /\ d.width \in Nat \ {0} /\ d.height \in Nat \ {0}
        /\ d.width <= MaxCoord /\ d.height <= MaxCoord
        /\ d.segmentWidth \in Nat \ {0} /\ d.segmentHeight \in Nat \ {0}
        /\ across \in Nat \ {0} /\ SegmentsDown(d) \in Nat \ {0}
        /\ SegmentsPerPlane(d) = across * SegmentsDown(d)
    BY FileFacts, DirectoryFields, SegmentCounts DEF ValidDirectory, SegmentsPerPlane
  <1> HIDE DEF x, y, d
  <1>3. /\ column \in Nat /\ column < across
        /\ left \in Nat /\ left <= x /\ x < left + SmallerOf(d.segmentWidth, d.width - left)
    BY <1>1, <1>2, PieceOfPixel DEF SegmentsAcross
  <1>4. /\ row \in Nat /\ row < SegmentsDown(d)
        /\ top \in Nat /\ top <= y /\ y < top + SmallerOf(d.segmentHeight, d.height - top)
    BY <1>1, <1>2, PieceOfPixel DEF SegmentsDown
  <1> HIDE DEF across, column, row
  <1>5. i \div across = row /\ i % across = column
    BY <1>2, <1>3, <1>4, RemainderIs
  <1>6. i \in Nat /\ i < SegmentsPerPlane(d)
    <2>1. row * across \in Nat /\ (row + 1) * across <= SegmentsDown(d) * across
      BY <1>2, <1>4, ProductFacts, ProductMonotone
    <2>2. (row + 1) * across = row * across + across /\ SegmentsDown(d) * across = SegmentsPerPlane(d)
      BY <1>2, <1>4, ProductFacts
    <2>3. SegmentsPerPlane(d) \in Nat
      BY <1>2, ProductFacts
    <2> QED
      BY <1>2, <1>3, <2>1, <2>2, <2>3
  <1> DEFINE segment == SegmentWindow(d, i)
  <1>7. segment = [x |-> left, y |-> top, width |-> SmallerOf(d.segmentWidth, d.width - left),
                   height |-> SmallerOf(d.segmentHeight, d.height - top)]
    BY <1>5 DEF SegmentWindow, across
  <1>8. /\ segment \in NatWindow /\ segment.width > 0 /\ segment.height > 0
        /\ segment.x + segment.width <= d.width /\ segment.y + segment.height <= d.height
    BY <1>2, <1>6, SegmentIsInTheImage
  <1> HIDE DEF i, left, top, segment
  <1>9. /\ segment.x = left /\ x < segment.x + segment.width
        /\ segment.y = top /\ y < segment.y + segment.height
    BY <1>3, <1>4, <1>7
  <1>10. EndX(segment) = segment.x + segment.width /\ EndY(segment) = segment.y + segment.height
    <2>1. segment.x \in Nat /\ segment.y \in Nat /\ segment.width \in Nat /\ segment.height \in Nat
      BY <1>8 DEF NatWindow
    <2> QED
      BY <1>2, <1>8, <2>1, MaxCoordAssumption DEF EndX, EndY, SaturatingAdd
  <1>11. ContainsPixel(segment, x, y)
    <2>1. ~IsEmptyWindow(segment)
      BY <1>8 DEF IsEmptyWindow, NatWindow
    <2> QED
      BY <1>3, <1>4, <1>9, <1>10, <2>1 DEF ContainsPixel
  <1>12. p \in OutputsIn(i)
    BY <1>11 DEF OutputsIn, segment, d, x, y
  <1>13. Wanted(i)
    <2>1. /\ segment.x < EndX(LevelWindow) /\ LevelWindow.x < segment.x + segment.width
          /\ segment.y < EndY(LevelWindow) /\ LevelWindow.y < segment.y + segment.height
      <3>1. /\ LevelWindow.x \in Nat /\ EndX(LevelWindow) \in Nat
            /\ LevelWindow.y \in Nat /\ EndY(LevelWindow) \in Nat
        <4>1. /\ Factor(directory) \in Nat \ {0}
              /\ window.x \in Nat /\ window.y \in Nat
              /\ window.x + window.width \in Nat /\ window.y + window.height \in Nat
          BY AcceptedFacts, WindowFacts
        <4> QED
          BY <1>1, <4>1, LevelWindowEdges, DivisionFacts, CeilDivFacts
      <3> QED
        BY <1>1, <1>3, <1>4, <1>8, <1>9, <3>1 DEF NatWindow
    <2> QED
      BY <1>1, <1>6, <2>1, WantedEdges DEF segment, d
  <1> QED
    BY <1>6, <1>12, <1>13 DEF d

-----------------------------------------------------------------------------
(***************************************************************************)
(* The third invariant.                                                    *)
(***************************************************************************)
\* The window a call asks for, when level k serves it.
WindowAsked(k) ==
  CASE call.kind = "window"    -> [x |-> call.x, y |-> call.y, width |-> call.width, height |-> call.height]
    [] call.kind = "scanlines" -> RowsWindow
    [] call.kind = "tile"      -> TileWindow(k)

\* The window is the one the caller asked for, and the level is the chosen one.
RightWindow ==
  /\ pc = "parseTile" => call.kind = "tile"
  /\ pc = "parseRows" => call.kind = "scanlines"
  /\ pc \in {"parse", "check"} \cup Opened =>
       \A k \in DOMAIN file : IsChosen(k) =>
         /\ window = WindowAsked(k)
         /\ call.kind = "tile" => TileExists(k) /\ Factor(k) # 0
  /\ pc \in {"check"} \cup Opened => IsChosen(directory)

\* The plan is the wanted segments, up to where it has come.
Planned ==
  pc \in Opened =>
    /\ \A n \in DOMAIN plan : Wanted(plan[n])
    /\ \A i \in Nat : i < SegmentsPerPlane(Layout) /\ (pc = "plan" => i < cursor) /\ Wanted(i)
                        => \E n \in DOMAIN plan : plan[n] = i

\* The bytes of a segment.
HasByte(segment, byte) == byte >= segment.offset /\ byte < segment.offset + segment.byteCount

\* A batch holds no byte between its segments.
NothingBetween ==
  \A b \in DOMAIN batches : \A byte \in batches[b].offset .. batches[b].offset + batches[b].size - 1 :
    \E n \in DOMAIN batchOf : HasByte(SegmentOf(plan[n]), byte)

\* The outputs of the segments copied so far are the samples asked for.
Copied ==
  /\ pc = "copy" /\ UseLibTiff => LibTiffHas(plan[cursor])
  /\ pc \in {"segment", "copy"} =>
       /\ SampledCount > 0 /\ DOMAIN grid = Outputs
       /\ \A n \in 1 .. cursor - 1 : \A p \in OutputsIn(plan[n]) : SampleAt(grid[p]) = Asked(p)

\* libtiff has read planned segments, as it has them.
Decoded ==
  pc \in {"segment", "copy"} /\ UseLibTiff =>
    \A m \in DOMAIN issued : \E n \in DOMAIN plan :
      /\ LibTiffHas(plan[n])
      /\ issued[m].offset = EncodedSegment(plan[n]).offset
      /\ issued[m].size = EncodedSegment(plan[n]).byteCount

\* The third invariant: what is planned, read and copied is what was asked for.
Serves == RightWindow /\ Planned /\ NothingBetween /\ Copied /\ Decoded

-----------------------------------------------------------------------------
\* The levels and the window asked for depend on the file and the call.
LEMMA SameLevels ==
  ASSUME UNCHANGED <<file, call>>
  PROVE  /\ \A k : IsChosen(k)' <=> IsChosen(k)
         /\ \A k : WindowAsked(k)' = WindowAsked(k)
         /\ \A k : TileExists(k)' <=> TileExists(k)
         /\ \A k : Factor(k)' = Factor(k)
         /\ \A c : SampleAt(c)' = SampleAt(c)
  <1>1. \A k : Factor(k)' = Factor(k)
    BY DEF Factor
  <1>2. Step' = Step /\ Overviews' = Overviews
    BY DEF Step, Overviews
  <1>3. FineEnough' = FineEnough
    BY <1>1, <1>2 DEF FineEnough
  <1>4. \A k : IsChosen(k)' <=> IsChosen(k)
    BY <1>3 DEF IsChosen
  <1>5. \A k : TileWindow(k)' = TileWindow(k)
    BY <1>1 DEF TileWindow
  <1>6. \A k : WindowAsked(k)' = WindowAsked(k)
    BY <1>5 DEF WindowAsked, RowsWindow
  <1>7. \A k : TileExists(k)' <=> TileExists(k)
    BY DEF TileExists
  <1>8. \A c : SampleAt(c)' = SampleAt(c)
    BY DEF SampleAt
  <1> QED
    BY <1>1, <1>4, <1>6, <1>7, <1>8

\* The segments and the outputs depend on the level that serves the call, too.
LEMMA SameOutputs ==
  ASSUME UNCHANGED <<file, libTiff, call, window, directory>>
  PROVE  /\ \A i : Wanted(i)' <=> Wanted(i)
         /\ \A i : OutputsIn(i)' = OutputsIn(i)
         /\ \A p : Asked(p)' = Asked(p)
         /\ \A i : LibTiffHas(i)' <=> LibTiffHas(i)
         /\ \A i : EncodedSegment(i)' = EncodedSegment(i)
         /\ Outputs' = Outputs /\ SampledCount' = SampledCount
  <1>1. Layout' = Layout /\ EffectiveStep' = EffectiveStep /\ Factor(directory)' = Factor(directory)
    BY DEF Layout, EffectiveStep, Step, Factor
  <1>2. Sampled' = Sampled
    BY <1>1 DEF Sampled
  <1>3. Outputs' = Outputs /\ SampledCount' = SampledCount
    BY <1>2 DEF Outputs, SampledCount
  <1>4. \A p : LevelPixel(p)' = LevelPixel(p)
    BY <1>1 DEF LevelPixel
  <1>5. \A i : OutputsIn(i)' = OutputsIn(i)
    BY <1>1, <1>3, <1>4 DEF OutputsIn
  <1>6. \A p : Asked(p)' = Asked(p)
    BY <1>4 DEF Asked
  <1>7. \A i : SourceIndex(i)' = SourceIndex(i)
    BY <1>1 DEF SourceIndex
  <1>8. \A i : LibTiffHas(i)' <=> LibTiffHas(i)
    BY <1>1, <1>7 DEF LibTiffHas
  <1>9. \A i : EncodedSegment(i)' = EncodedSegment(i)
    BY <1>7 DEF EncodedSegment
  <1>10. LevelWindow' = LevelWindow
    BY <1>1 DEF LevelWindow
  <1>11. \A i : Wanted(i)' <=> Wanted(i)
    BY <1>1, <1>10 DEF Wanted
  <1> QED
    BY <1>3, <1>5, <1>6, <1>8, <1>9, <1>11

\* One level is chosen (ChooseOverviewLevel).
LEMMA OneLevelIsChosen ==
  ASSUME Inv, NEW k \in DOMAIN file, NEW other \in DOMAIN file, IsChosen(k), IsChosen(other)
  PROVE  k = other
  <1>1. k \in Nat /\ other \in Nat
    BY FileFacts DEF ValidFile
  <1> QED
    BY <1>1 DEF IsChosen, FineEnough, Overviews

\* Nothing is served before the first call, or once a call has returned.
LEMMA InitiallyServes == Init => Serves
  BY DEF Init, Serves, RightWindow, Planned, NothingBetween, Copied, Decoded, Opened

\* A call that has returned has nothing left to serve.
LEMMA ReturnServes == ASSUME Returns PROVE Serves'
  BY DEF Returns, LocalsDie, Serves, RightWindow, Planned, NothingBetween, Copied, Decoded, Opened

\* A call that is not past its checks has planned nothing.
LEMMA NothingServed ==
  ASSUME Inv', pc' \notin Opened, RightWindow'
  PROVE  Serves'
  <1>1. batches' = << >>
    BY DEF Inv, Fresh
  <1>2. Planned' /\ NothingBetween' /\ Copied' /\ Decoded'
    BY <1>1 DEF Planned, NothingBetween, Copied, Decoded, Opened
  <1> QED
    BY <1>2 DEF Serves

\* The window of a call is the one asked for from the moment it is known.
LEMMA CallServes == ASSUME Inv, Inv', Call PROVE Serves'
  <1>1. PICK q \in Questions : ReadWindow(q) \/ ReadTile(q) \/ ReadScanlines(q)
    BY DEF Call
  <1>2. CASE ReadWindow(q)
    <2>1. pc' = "parse" /\ call' = q /\ q.kind = "window"
          /\ window' = [x |-> q.x, y |-> q.y, width |-> q.width, height |-> q.height]
      BY <1>2 DEF ReadWindow, Begin
    <2>2. \A k : WindowAsked(k)' = window'
      BY <2>1 DEF WindowAsked
    <2>3. RightWindow'
      BY <2>1, <2>2 DEF RightWindow, Opened
    <2> QED
      BY <2>1, <2>3, NothingServed DEF Opened
  <1>3. CASE ReadTile(q) \/ ReadScanlines(q)
    <2>1. \/ pc' = "parseTile" /\ call'.kind = "tile"
          \/ pc' = "parseRows" /\ call'.kind = "scanlines"
      BY <1>3 DEF ReadTile, ReadScanlines, Begin
    <2>2. RightWindow'
      BY <2>1 DEF RightWindow, Opened
    <2> QED
      BY <2>1, <2>2, NothingServed DEF Opened
  <1> QED
    BY <1>1, <1>2, <1>3

\* ReadTile and ReadScanlines ask ReadWindow for the window they were asked for,
\* and the parser chooses the level.
LEMMA FindServes ==
  ASSUME Inv, Inv', Serves, FindRows \/ \E k \in DOMAIN file : FindTile(k) \/ Parse(k)
  PROVE  Serves'
  <1>1. CASE FindRows
    <2>1. /\ pc = "parseRows" /\ pc' = "parse" /\ UNCHANGED <<file, call>> /\ window' = RowsWindow
      BY <1>1 DEF FindRows, Goes, CallReadWindow, source
    <2>2. call.kind = "scanlines"
      BY <2>1 DEF Serves, RightWindow
    <2>3. \A k : WindowAsked(k)' = window'
      BY <2>1, <2>2, SameLevels DEF WindowAsked
    <2>4. RightWindow'
      BY <2>1, <2>2, <2>3 DEF RightWindow, Opened
    <2> QED
      BY <2>1, <2>4, NothingServed DEF Opened
  <1>2. ASSUME NEW k \in DOMAIN file, FindTile(k) PROVE Serves'
    <2>1. /\ pc = "parseTile" /\ pc' = "parse" /\ UNCHANGED <<file, call>> /\ window' = TileWindow(k)
          /\ IsChosen(k) /\ TileExists(k) /\ Factor(k) # 0
      BY <1>2 DEF FindTile, Chooses, Goes, CallReadWindow, source
    <2>2. call.kind = "tile"
      BY <2>1 DEF Serves, RightWindow
    <2>3. \A other \in DOMAIN file' : IsChosen(other)' =>
            window' = WindowAsked(other)' /\ TileExists(other)' /\ Factor(other)' # 0
      <3> SUFFICES ASSUME NEW other \in DOMAIN file, IsChosen(other)
                   PROVE  window' = WindowAsked(other) /\ TileExists(other) /\ Factor(other) # 0
        BY <2>1, SameLevels
      <3>1. other = k
        BY <2>1, OneLevelIsChosen
      <3> QED
        BY <2>1, <2>2, <3>1 DEF WindowAsked
    <2>4. RightWindow'
      BY <2>1, <2>3 DEF RightWindow, Opened
    <2> QED
      BY <2>1, <2>4, NothingServed DEF Opened
  <1>3. ASSUME NEW k \in DOMAIN file, Parse(k) PROVE Serves'
    <2>1. /\ pc = "parse" /\ pc' = "check" /\ UNCHANGED <<file, call>> /\ window' = window
          /\ directory' = k /\ IsChosen(k)
      BY <1>3 DEF Parse, Chooses, Goes, source
    <2>2. \A other \in DOMAIN file' : IsChosen(other)' =>
            /\ window' = WindowAsked(other)'
            /\ call'.kind = "tile" => TileExists(other)' /\ Factor(other)' # 0
      BY <2>1, SameLevels DEF Serves, RightWindow
    <2>3. IsChosen(directory)'
      <3>1. IsChosen(k)'
        BY <2>1, SameLevels
      <3> QED
        BY <2>1, <3>1 DEF IsChosen
    <2>4. RightWindow'
      BY <2>1, <2>2, <2>3 DEF RightWindow, Opened
    <2> QED
      BY <2>1, <2>4, NothingServed DEF Opened
  <1> QED
    BY <1>1, <1>2, <1>3

\* An accepted call keeps the level and the window it was accepted with.
LEMMA CallIsKept ==
  ASSUME Serves, pc \in {"check"} \cup Opened, pc' \in {"check"} \cup Opened,
         UNCHANGED <<source, call, window, directory>>
  PROVE  RightWindow'
  <1>1. UNCHANGED <<file, call, window, directory>> /\ pc' \notin {"parseTile", "parseRows"}
    BY DEF source, Opened
  <1>2. IsChosen(directory)'
    <2>1. IsChosen(directory)
      BY DEF Serves, RightWindow
    <2> QED
      BY <1>1, <2>1 DEF IsChosen, FineEnough, Overviews, Factor, Step
  <1>3. \A k \in DOMAIN file' : IsChosen(k)' =>
          /\ window' = WindowAsked(k)'
          /\ call'.kind = "tile" => TileExists(k)' /\ Factor(k)' # 0
    BY <1>1, SameLevels DEF Serves, RightWindow
  <1> QED
    BY <1>1, <1>2, <1>3 DEF RightWindow

\* An accepted call has planned nothing yet.
LEMMA AcceptServes == ASSUME Inv, Inv', Serves, Accept PROVE Serves'
  <1>1. /\ pc = "check" /\ pc' = "plan" /\ cursor' = 0
        /\ UNCHANGED <<source, call, window, directory, planning>>
    BY DEF Accept, Goes
  <1>2. plan' = << >> /\ batches' = << >>
    BY <1>1 DEF Inv, Fresh, Opened, planning
  <1>3. RightWindow'
    BY <1>1, CallIsKept DEF Opened
  <1>4. Planned' /\ NothingBetween' /\ Copied' /\ Decoded'
    BY <1>1, <1>2 DEF Planned, NothingBetween, Copied, Decoded
  <1> QED
    BY <1>3, <1>4 DEF Serves

\* A wanted segment is planned, another one is not.
LEMMA PlanSegmentServes == ASSUME Inv, Inv', Serves, PlanSegment PROVE Serves'
  <1>1. /\ pc = "plan" /\ pc' = "plan" /\ cursor' = cursor + 1
        /\ cursor < SegmentsPerPlane(Layout)
        /\ plan' = IF Wanted(cursor) THEN Append(plan, cursor) ELSE plan
        /\ UNCHANGED <<source, file, libTiff, call, window, directory, batches, batchOf>>
    BY DEF PlanSegment, source
  <1>2. RightWindow'
    BY <1>1, CallIsKept DEF Opened
  <1>3. batches' = << >>
    BY <1>1 DEF Inv, Numbered
  <1>4. NothingBetween' /\ Copied' /\ Decoded'
    BY <1>1, <1>3 DEF NothingBetween, Copied, Decoded
  <1>5. Planned'
    <2>1. /\ \A i : Wanted(i)' <=> Wanted(i)
          /\ SegmentsPerPlane(Layout)' = SegmentsPerPlane(Layout)
      BY <1>1, SameOutputs DEF Layout
    <2>2. /\ plan \in Seq(Nat) /\ cursor \in Nat
          /\ \A n \in DOMAIN plan : Wanted(plan[n])
          /\ \A i \in Nat : i < SegmentsPerPlane(Layout) /\ i < cursor /\ Wanted(i)
                              => \E n \in DOMAIN plan : plan[n] = i
      BY <1>1 DEF Inv, TypeOK, CallTyped, PlanTyped, Serves, Planned, Opened
    <2>3. /\ \A n \in DOMAIN plan' : Wanted(plan'[n])
          /\ \A n \in DOMAIN plan : n \in DOMAIN plan' /\ plan'[n] = plan[n]
          /\ Wanted(cursor) => \E n \in DOMAIN plan' : plan'[n] = cursor
      <3>1. CASE Wanted(cursor)
        <4>1. plan' = Append(plan, cursor)
          BY <1>1, <3>1
        <4>2. /\ Len(plan) \in Nat /\ DOMAIN plan = 1 .. Len(plan) /\ DOMAIN plan' = 1 .. Len(plan) + 1
              /\ \A n \in 1 .. Len(plan) : plan'[n] = plan[n]
              /\ plan'[Len(plan) + 1] = cursor
          BY <2>2, <4>1
        <4> QED
          BY <2>2, <3>1, <4>2
      <3>2. CASE ~Wanted(cursor)
        BY <1>1, <2>2, <3>2
      <3> QED
        BY <3>1, <3>2
    <2>4. ASSUME NEW i \in Nat, i < SegmentsPerPlane(Layout), i < cursor + 1, Wanted(i)
          PROVE  \E n \in DOMAIN plan' : plan'[n] = i
      <3>1. i = cursor \/ i < cursor
        BY <2>2, <2>4
      <3> QED
        BY <2>2, <2>3, <2>4, <3>1
    <2> QED
      BY <1>1, <2>1, <2>3, <2>4 DEF Planned
  <1> QED
    BY <1>2, <1>4, <1>5 DEF Serves

\* A step that plans nothing more leaves the plan as it was.
LEMMA PlanIsKept ==
  ASSUME Inv, Serves, pc \in Opened, pc' \in Opened \ {"plan"},
         UNCHANGED <<source, call, window, directory, plan>>,
         pc = "plan" => cursor = SegmentsPerPlane(Layout)
  PROVE  Planned'
  <1>1. UNCHANGED <<file, libTiff, call, window, directory, plan>>
    BY DEF source
  <1>2. /\ \A i : Wanted(i)' <=> Wanted(i)
        /\ SegmentsPerPlane(Layout)' = SegmentsPerPlane(Layout)
    BY <1>1, SameOutputs DEF Layout
  <1>3. /\ \A n \in DOMAIN plan : Wanted(plan[n])
        /\ \A i \in Nat : i < SegmentsPerPlane(Layout) /\ Wanted(i)
                            => \E n \in DOMAIN plan : plan[n] = i
    BY DEF Serves, Planned
  <1> QED
    BY <1>1, <1>2, <1>3 DEF Planned

\* A segment that joins a batch starts where the batch ends.
LEMMA CoalesceServes == ASSUME Inv, Inv', Serves, Coalesce PROVE Serves'
  <1> DEFINE segment == SegmentOf(plan[cursor])
             last    == Len(batches)
  <1>1. /\ pc = "coalesce" /\ pc' = "coalesce" /\ pc \in Opened /\ cursor <= Len(plan)
        /\ UNCHANGED <<source, file, libTiff, call, window, directory, plan>>
    BY DEF Coalesce, Opened, source
  <1>2. RightWindow' /\ Planned' /\ Copied' /\ Decoded'
    BY <1>1, CallIsKept, PlanIsKept DEF Opened, Copied, Decoded
  <1>3. /\ batches \in Seq(Batch) /\ batchOf \in Seq(Nat) /\ plan \in Seq(Nat) /\ cursor \in Nat
        /\ cursor = Len(batchOf) + 1 /\ cursor \in DOMAIN plan
        /\ plan[cursor] \in Nat /\ plan[cursor] < SegmentsPerPlane(Layout)
    <2>1. /\ batches \in Seq(Batch) /\ batchOf \in Seq(Nat) /\ plan \in Seq(Nat) /\ cursor \in Nat
          /\ cursor > 0 /\ Len(batchOf) = cursor - 1
      BY <1>1 DEF Inv, TypeOK, CallTyped, PlanTyped, Numbered
    <2>2. cursor \in DOMAIN plan /\ cursor = Len(batchOf) + 1
      BY <1>1, <2>1
    <2> QED
      BY <1>1, <2>1, <2>2, OpenedFacts
  <1>4. segment.offset \in Nat /\ segment.byteCount \in Nat \ {0}
    BY <1>1, <1>3, OpenedFacts, SegmentFacts
  <1>5. \A i : SegmentOf(i)' = SegmentOf(i)
    BY <1>1, SameCall
  <1>6. \/ /\ Joins(segment)
           /\ batches' = [batches EXCEPT ![last].size = @ + segment.byteCount]
           /\ batchOf' = Append(batchOf, last)
        \/ /\ batches' = Append(batches, [offset |-> segment.offset, size |-> segment.byteCount])
           /\ batchOf' = Append(batchOf, last + 1)
    BY DEF Coalesce
  <1>7. /\ \A n \in DOMAIN batchOf : n \in DOMAIN batchOf'
        /\ cursor \in DOMAIN batchOf'
    BY <1>3, <1>6
  <1>8. ASSUME NEW byte \in Int, HasByte(segment, byte) \/ \E n \in DOMAIN batchOf : HasByte(SegmentOf(plan[n]), byte)
        PROVE  \E n \in DOMAIN batchOf' : HasByte(SegmentOf(plan[n]), byte)
    BY <1>7, <1>8
  <1>9. ASSUME NEW b \in DOMAIN batches,
               NEW byte \in batches[b].offset .. batches[b].offset + batches[b].size - 1
        PROVE  \E n \in DOMAIN batchOf : HasByte(SegmentOf(plan[n]), byte)
    BY DEF Serves, NothingBetween
  <1> HIDE DEF segment
  <1>10. ASSUME NEW b \in DOMAIN batches',
                NEW byte \in batches'[b].offset .. batches'[b].offset + batches'[b].size - 1
         PROVE  HasByte(segment, byte) \/ \E n \in DOMAIN batchOf : HasByte(SegmentOf(plan[n]), byte)
    <2>1. byte \in Int /\ last \in Nat /\ DOMAIN batches = 1 .. last
          /\ \A c \in DOMAIN batches : batches[c].offset \in Nat /\ batches[c].size \in Nat
      <3>1. last \in Nat /\ DOMAIN batches = 1 .. last
        BY <1>3
      <3>2. \A c \in DOMAIN batches : batches[c] \in Batch
        BY <1>3
      <3>3. \A c \in DOMAIN batches : batches[c].offset \in Nat /\ batches[c].size \in Nat
        BY <3>2 DEF Batch
      <3> QED
        BY <3>1, <3>3
    <2>2. CASE /\ Joins(segment)
               /\ batches' = [batches EXCEPT ![last].size = @ + segment.byteCount]
      <3>1. /\ last \in DOMAIN batches /\ batches[last].offset + batches[last].size = segment.offset
        BY <1>3, <2>1, <2>2 DEF Joins
      <3>2. DOMAIN batches' = DOMAIN batches
        BY <2>2
      <3>3. CASE b # last
        <4>1. batches'[b] = batches[b]
          BY <2>2, <3>2, <3>3
        <4> QED
          BY <1>9, <3>2, <4>1
      <3>4. CASE b = last
        <4>1. batches'[b].offset = batches[last].offset
              /\ batches'[b].size = batches[last].size + segment.byteCount
          <5>1. batches[last] \in Batch
            BY <1>3, <3>1
          <5>2. batches'[last] = [batches[last] EXCEPT !.size = @ + segment.byteCount]
            BY <1>3, <2>2, <3>1
          <5> QED
            BY <3>4, <5>1, <5>2 DEF Batch
        <4>2. CASE byte < segment.offset
          <5>1. byte \in batches[last].offset .. batches[last].offset + batches[last].size - 1
            BY <1>4, <2>1, <3>1, <4>1, <4>2
          <5> QED
            BY <1>9, <3>1, <5>1
        <4>3. CASE byte >= segment.offset
          <5>1. byte < segment.offset + segment.byteCount
            BY <1>4, <2>1, <3>1, <4>1, <4>3
          <5> QED
            BY <4>3, <5>1 DEF HasByte
        <4> QED
          BY <1>4, <2>1, <4>2, <4>3
      <3> QED
        BY <3>3, <3>4
    <2>3. CASE batches' = Append(batches, [offset |-> segment.offset, size |-> segment.byteCount])
      <3>1. /\ DOMAIN batches' = 1 .. last + 1
            /\ \A c \in 1 .. last : batches'[c] = batches[c]
            /\ batches'[last + 1] = [offset |-> segment.offset, size |-> segment.byteCount]
        BY <1>3, <2>3
      <3>2. CASE b = last + 1
        <4>1. byte >= segment.offset /\ byte < segment.offset + segment.byteCount
          BY <1>4, <3>1, <3>2
        <4> QED
          BY <4>1 DEF HasByte
      <3>3. CASE b # last + 1
        <4>1. b \in DOMAIN batches /\ batches'[b] = batches[b]
          BY <2>1, <3>1, <3>3
        <4> QED
          BY <1>9, <4>1
      <3> QED
        BY <3>2, <3>3
    <2> QED
      BY <1>6, <2>2, <2>3
  <1>11. \A b \in DOMAIN batches' :
           \A byte \in batches'[b].offset .. batches'[b].offset + batches'[b].size - 1 :
             \E n \in DOMAIN batchOf' : HasByte(SegmentOf(plan[n]), byte)
    BY <1>8, <1>10
  <1>12. NothingBetween'
    BY <1>1, <1>5, <1>11 DEF NothingBetween, HasByte
  <1> QED
    BY <1>2, <1>12 DEF Serves

\* A step between the phases of planning, or up to the grid, changes nothing
\* of it.
LEMMA QuietServes ==
  ASSUME Inv, Inv', Serves, pc \in Opened, pc' \in Opened \ {"plan", "segment", "copy"},
         UNCHANGED <<source, call, window, directory, plan, batches, batchOf>>,
         pc = "plan" => cursor = SegmentsPerPlane(Layout)
  PROVE  Serves'
  <1>1. RightWindow' /\ Planned'
    BY CallIsKept, PlanIsKept
  <1>2. \A i : SegmentOf(i)' = SegmentOf(i)
    BY SameCall DEF source
  <1>3. NothingBetween'
    BY <1>2 DEF Serves, NothingBetween, HasByte
  <1>4. Copied' /\ Decoded'
    BY DEF Copied, Decoded
  <1> QED
    BY <1>1, <1>3, <1>4 DEF Serves

\* The steps between planning and reading are of that kind.
LEMMA QuietStepsServe ==
  ASSUME Inv, Inv', Serves,
         \/ PlanDone \/ CoalesceDone \/ MeasureBatch \/ MeasureDone \/ KeepWithinBudget
         \/ \E met \in BOOLEAN : Open(met)
  PROVE  Serves'
  <1>1. /\ pc \in Opened /\ pc' \in Opened \ {"plan", "segment", "copy"}
        /\ UNCHANGED <<source, call, window, directory, plan, batches, batchOf>>
        /\ pc = "plan" => cursor = SegmentsPerPlane(Layout)
    BY DEF PlanDone, CoalesceDone, MeasureBatch, MeasureDone, KeepWithinBudget, Open, Goes, Opened,
           planning
  <1> QED
    BY <1>1, QuietServes

-----------------------------------------------------------------------------
(***************************************************************************)
(* Reading.                                                                *)
(***************************************************************************)

\* While pixel data is read, the plan stays as it is.
LEMMA ReadingServes ==
  ASSUME Inv, Inv', Serves, pc \in Opened \ {"plan"}, pc' \in {"segment", "copy"},
         UNCHANGED <<source, call, window, directory, planning>>, Copied', Decoded'
  PROVE  Serves'
  <1>1. pc' \in Opened \ {"plan"} /\ UNCHANGED <<plan, batches, batchOf>>
    BY DEF Opened, planning
  <1>2. RightWindow' /\ Planned'
    BY <1>1, CallIsKept, PlanIsKept
  <1>3. \A i : SegmentOf(i)' = SegmentOf(i)
    BY SameCall DEF source
  <1>4. NothingBetween'
    BY <1>1, <1>3 DEF Serves, NothingBetween, HasByte
  <1> QED
    BY <1>2, <1>4 DEF Serves

\* What a cell says depends on the file only.
LEMMA CellsSay == ASSUME file' = file PROVE \A p : SampleAt(grid[p])' = SampleAt(grid'[p])
  BY DEF SampleAt

\* A new grid is as large as the read, and nothing is copied yet.
LEMMA AllocateServes == ASSUME Inv, Inv', Reads, Serves, Allocate PROVE Serves'
  <1>1. /\ pc = "allocate" /\ pc' = "segment" /\ pc \in Opened \ {"plan"}
        /\ UNCHANGED <<source, file, libTiff, call, window, directory, cursor, planning, issued>>
        /\ SampledCount > 0 /\ grid' = NewGrid
    BY DEF Allocate, Goes, NoPixelData, Opened, source
  <1>2. cursor = 1 /\ issued = << >>
    BY <1>1 DEF Reads, ReadSoFar
  <1>3. SampledCount' = SampledCount /\ Outputs' = Outputs
    BY <1>1, SameOutputs
  <1>4. DOMAIN grid' = Outputs
    BY <1>1 DEF NewGrid
  <1>5. 1 .. cursor' - 1 = {} /\ DOMAIN issued' = {}
    BY <1>1, <1>2
  <1>6. Copied' /\ Decoded'
    BY <1>1, <1>3, <1>4, <1>5 DEF Copied, Decoded
  <1> QED
    BY <1>1, <1>6, ReadingServes

\* Bringing a segment in changes no sample.
LEMMA GridIsKept ==
  ASSUME Serves, pc = "segment", pc' = "copy",
         UNCHANGED <<source, call, window, directory, cursor, planning, grid>>,
         UseLibTiff => LibTiffHas(plan[cursor])
  PROVE  Copied'
  <1>1. UNCHANGED <<file, libTiff, call, window, directory, cursor, plan, grid>>
    BY DEF source, planning
  <1>2. /\ SampledCount' = SampledCount /\ Outputs' = Outputs
        /\ \A i : OutputsIn(i)' = OutputsIn(i) /\ (LibTiffHas(i)' <=> LibTiffHas(i))
        /\ \A p : Asked(p)' = Asked(p)
        /\ (UseLibTiff' <=> UseLibTiff)
        /\ \A p : SampleAt(grid[p])' = SampleAt(grid[p])
    BY <1>1, SameOutputs, SameCall, CellsSay
  <1>3. /\ SampledCount > 0 /\ DOMAIN grid = Outputs
        /\ \A n \in 1 .. cursor - 1 : \A p \in OutputsIn(plan[n]) : SampleAt(grid[p]) = Asked(p)
    BY DEF Serves, Copied
  <1>4. UseLibTiff' => LibTiffHas(plan[cursor])'
    BY <1>1, <1>2 DEF LibTiffHas, SourceIndex, Layout
  <1>5. \A n \in 1 .. cursor' - 1 : \A p \in OutputsIn(plan[n])' : SampleAt(grid[p])' = Asked(p)'
    BY <1>1, <1>2, <1>3 DEF OutputsIn
  <1> QED
    BY <1>1, <1>2, <1>3, <1>4, <1>5 DEF Copied

\* A batch that is read, or still in the buffer, changes no sample.
LEMMA LoadServes == ASSUME Inv, Inv', Serves, LoadBatch \/ ReuseBatch PROVE Serves'
  <1>1. /\ pc = "segment" /\ pc' = "copy" /\ pc \in Opened \ {"plan"} /\ ~UseLibTiff
        /\ UNCHANGED <<source, call, window, directory, cursor, planning, grid>>
    BY DEF LoadBatch, ReuseBatch, Goes, NeedsBatch, AtSegment, Opened
  <1>2. ~UseLibTiff'
    BY <1>1, SameCall DEF source
  <1>3. Copied' /\ Decoded'
    BY <1>1, <1>2, GridIsKept DEF Decoded
  <1> QED
    BY <1>1, <1>3, ReadingServes

\* libtiff reads the segment that is planned, as it has it.
LEMMA DecodeServes ==
  ASSUME Inv, Inv', Serves, NEW missing \in {0, 1}, DecodeSegment(missing)
  PROVE  Serves'
  <1>1. /\ pc = "segment" /\ pc' = "copy" /\ pc \in Opened \ {"plan"} /\ cursor <= Len(plan)
        /\ UseLibTiff /\ LibTiffHas(plan[cursor])
        /\ UNCHANGED <<source, file, libTiff, call, window, directory, cursor, planning, plan, grid>>
    BY DEF DecodeSegment, Goes, NeedsDecoding, AtSegment, Opened, source, planning
  <1> DEFINE here == EncodedSegment(plan[cursor])
  <1>2. PICK answer : issued' = Append(issued, [offset |-> here.offset, size |-> here.byteCount,
                                                bytes |-> answer.bytes])
    BY DEF DecodeSegment, LibTiffReads, Issues
  <1>3. /\ issued \in Seq([offset : Nat, size : Nat, bytes : Nat])
        /\ cursor \in DOMAIN plan
    BY <1>1, AtSegmentFacts DEF Inv, TypeOK, CallerTyped
  <1>4. /\ \A i : LibTiffHas(i)' <=> LibTiffHas(i)
        /\ \A i : EncodedSegment(i)' = EncodedSegment(i)
    BY <1>1, SameOutputs
  <1>5. ASSUME NEW m \in DOMAIN issued'
        PROVE  \E n \in DOMAIN plan :
                 /\ LibTiffHas(plan[n])
                 /\ issued'[m].offset = EncodedSegment(plan[n]).offset
                 /\ issued'[m].size = EncodedSegment(plan[n]).byteCount
    <2>1. CASE m = Len(issued) + 1
      <3>1. issued'[m] = [offset |-> here.offset, size |-> here.byteCount, bytes |-> answer.bytes]
        BY <1>2, <1>3, <2>1
      <3> QED
        BY <1>1, <1>3, <3>1
    <2>2. CASE m # Len(issued) + 1
      <3>1. m \in DOMAIN issued /\ issued'[m] = issued[m]
        BY <1>2, <1>3, <2>2
      <3> QED
        BY <1>1, <3>1 DEF Serves, Decoded
    <2> QED
      BY <2>1, <2>2
  <1> HIDE DEF here
  <1>6. Decoded'
    BY <1>1, <1>4, <1>5 DEF Decoded, LibTiffHas, EncodedSegment, SourceIndex, Layout
  <1>7. Copied'
    BY <1>1, GridIsKept
  <1> QED
    BY <1>1, <1>6, <1>7, ReadingServes

\* libtiff decodes segments of directory 0, and of a regular file it is used
\* for no other.
LEMMA LibTiffServesTheFirst ==
  ASSUME Inv, Countable, RegularFile(file), UseLibTiff, NEW i, LibTiffHas(i)
  PROVE  directory = 0
  <1>1. directory \in DOMAIN file /\ Factor(directory) # 0
    BY FileFacts DEF Countable, RowsAddressable, InRaster, LevelScaled
  <1>2. CASE directory # 0
    <2>1. RegularOverview(file, directory)
      BY <1>1, <1>2 DEF RegularFile
    <2>2. (~Layout.compressed /\ Layout.predictor = 1) \/ Layout.tiled # file[0].tiled
      BY <1>1, <1>2, <2>1 DEF RegularOverview, Factor, Layout
    <2> QED
      BY <2>2 DEF UseLibTiff, LibTiffHas
  <1> QED
    BY <1>2

\* The outputs a segment holds get the samples they are asked to be, the others
\* keep theirs.
LEMMA CopyServes == ASSUME Inv, Inv', RegularFile(file), Serves, CopySegment PROVE Serves'
  <1>1. /\ pc = "copy" /\ pc' = "segment" /\ pc \in Opened \ {"plan"} /\ cursor' = cursor + 1
        /\ UNCHANGED <<source, file, libTiff, call, window, directory, planning, plan, issued>>
    BY DEF CopySegment, Goes, NoPixelData, Opened, source, planning
  <1>2. cursor <= Len(plan)
    BY <1>1 DEF Inv, Buffered
  <1>3. /\ Countable /\ pc # "idle" /\ cursor \in Nat \ {0}
        /\ plan[cursor] \in Nat /\ plan[cursor] < SegmentsPerPlane(Layout)
    BY <1>1, <1>2, AtSegmentFacts
  <1>4. /\ SampledCount > 0 /\ DOMAIN grid = Outputs
        /\ \A n \in 1 .. cursor - 1 : \A p \in OutputsIn(plan[n]) : SampleAt(grid[p]) = Asked(p)
    BY <1>1 DEF Serves, Copied
  <1>5. grid' = Filled(plan[cursor], directory, 0)
    <2>1. CASE UseLibTiff
      <3>1. LibTiffHas(plan[cursor])
        BY <1>1, <2>1 DEF Serves, Copied
      <3>2. directory = 0
        BY <1>3, <2>1, <3>1, LibTiffServesTheFirst
      <3> QED
        BY <2>1, <3>2 DEF CopySegment
    <2>2. CASE ~UseLibTiff
      <3>1. buffer = BatchHere /\ BatchHere.offset \in Nat
        BY <1>1, <1>2, <2>2, AtSegmentFacts DEF Inv, Buffered, BatchHere
      <3>2. buffer.offset - BatchHere.offset = 0
        BY <3>1
      <3> QED
        BY <2>2, <3>2 DEF CopySegment
    <2> QED
      BY <2>1, <2>2
  <1>6. /\ DOMAIN grid' = Outputs
        /\ \A p \in Outputs : p \notin OutputsIn(plan[cursor]) => grid'[p] = grid[p]
    BY <1>4, <1>5 DEF Filled
  <1>7. ASSUME NEW p \in OutputsIn(plan[cursor]) PROVE SampleAt(grid'[p]) = Asked(p)
    <2>1. SampleOffset(plan[cursor], LevelPixel(p)) \in Nat
      BY <1>3, SampleOffsetType
    <2>2. p \in DOMAIN grid
      BY <1>4 DEF OutputsIn
    <2>3. grid'[p] = [directory |-> directory, segment |-> SourceIndex(plan[cursor]),
                      byte |-> SampleOffset(plan[cursor], LevelPixel(p))]
      BY <1>5, <2>1, <2>2 DEF Filled
    <2> QED
      BY <1>3, <2>3, SampleIsRecovered
  <1>8. ASSUME NEW n \in 1 .. cursor' - 1, NEW p \in OutputsIn(plan[n])
        PROVE  SampleAt(grid'[p]) = Asked(p)
    <2>1. CASE p \in OutputsIn(plan[cursor])
      BY <1>7, <2>1
    <2>2. CASE p \notin OutputsIn(plan[cursor])
      <3>1. n \in 1 .. cursor - 1
        BY <1>1, <1>3, <2>2
      <3>2. grid'[p] = grid[p]
        BY <1>6, <2>2 DEF OutputsIn
      <3> QED
        BY <1>4, <3>1, <3>2
    <2> QED
      BY <2>1, <2>2
  <1>9. /\ SampledCount' = SampledCount /\ Outputs' = Outputs
        /\ \A i : OutputsIn(i)' = OutputsIn(i)
        /\ \A p : Asked(p)' = Asked(p)
        /\ \A p : SampleAt(grid[p])' = SampleAt(grid'[p])
    BY <1>1, SameOutputs, CellsSay
  <1>10. \A n \in 1 .. cursor' - 1 : \A p \in OutputsIn(plan[n])' : SampleAt(grid[p])' = Asked(p)'
    BY <1>1, <1>8, <1>9 DEF OutputsIn
  <1>11. Copied'
    BY <1>1, <1>4, <1>6, <1>9, <1>10 DEF Copied
  <1>12. Decoded'
    <2>1. /\ \A i : LibTiffHas(i)' <=> LibTiffHas(i)
          /\ \A i : EncodedSegment(i)' = EncodedSegment(i)
          /\ (UseLibTiff' <=> UseLibTiff)
      BY <1>1, SameOutputs, SameCall
    <2> QED
      BY <1>1, <2>1 DEF Serves, Decoded, LibTiffHas, EncodedSegment, SourceIndex, Layout
  <1> QED
    BY <1>1, <1>11, <1>12, ReadingServes

\* A step that changes nothing keeps the third invariant.
LEMMA StutteringServes == ASSUME Inv, Serves, UNCHANGED vars PROVE Serves'
  <1>1. UNCHANGED <<source, file, libTiff, pc, call, window, directory, cursor, planning, plan,
                    batches, batchOf, grid, issued>>
    BY DEF vars, source, planning, caller
  <1>2. /\ \A i : SegmentOf(i)' = SegmentOf(i)
        /\ (UseLibTiff' <=> UseLibTiff)
        /\ Layout' = Layout
    BY <1>1, SameCall
  <1>3. /\ \A i : Wanted(i)' <=> Wanted(i)
        /\ \A i : OutputsIn(i)' = OutputsIn(i)
        /\ \A p : Asked(p)' = Asked(p)
        /\ \A i : LibTiffHas(i)' <=> LibTiffHas(i)
        /\ \A i : EncodedSegment(i)' = EncodedSegment(i)
        /\ Outputs' = Outputs /\ SampledCount' = SampledCount
        /\ \A p : SampleAt(grid[p])' = SampleAt(grid[p])
    BY <1>1, SameOutputs, CellsSay
  <1>4. RightWindow'
    <2>1. IsChosen(directory)' <=> IsChosen(directory)
      BY <1>1 DEF IsChosen, FineEnough, Overviews, Factor, Step
    <2>2. /\ \A k : IsChosen(k)' <=> IsChosen(k)
          /\ \A k : WindowAsked(k)' = WindowAsked(k)
          /\ \A k : TileExists(k)' <=> TileExists(k)
          /\ \A k : Factor(k)' = Factor(k)
      BY <1>1, SameLevels
    <2> QED
      BY <1>1, <2>1, <2>2 DEF Serves, RightWindow
  <1>5. Planned'
    <2>1. SegmentsPerPlane(Layout)' = SegmentsPerPlane(Layout)
      BY <1>2
    <2> QED
      BY <1>1, <1>3, <2>1 DEF Serves, Planned
  <1>6. NothingBetween'
    BY <1>1, <1>2 DEF Serves, NothingBetween, HasByte
  <1>7. Copied'
    <2>1. LibTiffHas(plan[cursor])' <=> LibTiffHas(plan[cursor])
      BY <1>1, <1>2 DEF LibTiffHas, SourceIndex
    <2>2. \A n \in 1 .. cursor - 1 : OutputsIn(plan[n])' = OutputsIn(plan[n])
      BY <1>1, <1>3 DEF OutputsIn
    <2> QED
      BY <1>1, <1>2, <1>3, <2>1, <2>2 DEF Serves, Copied
  <1>8. Decoded'
    BY <1>1, <1>2, <1>3 DEF Serves, Decoded, LibTiffHas, EncodedSegment, SourceIndex
  <1> QED
    BY <1>4, <1>5, <1>6, <1>7, <1>8 DEF Serves

\* Every step keeps the third invariant, of a regular file.
LEMMA StepServes ==
  ASSUME Inv, Inv', Reads, RegularFile(file), Serves, [Next]_vars
  PROVE  Serves'
  <1>1. CASE Call
    BY <1>1, CallServes
  <1>2. CASE Progress
    BY <1>2, StepKinds, ReturnServes, FindServes, AcceptServes, PlanSegmentServes, CoalesceServes,
       QuietStepsServe, AllocateServes, LoadServes, DecodeServes, CopyServes
  <1>3. CASE UNCHANGED vars
    BY <1>3, StutteringServes
  <1> QED
    BY <1>1, <1>2, <1>3 DEF Next

\* The file is one of those that are regular.
LEMMA FileIsRegular == ASSUME EveryFileIsRegular, Inv PROVE RegularFile(file)
  BY DEF EveryFileIsRegular, Inv, TypeOK, CallTyped

\* The third invariant holds throughout, of regular files.
THEOREM ServesInvariant == ASSUME EveryFileIsRegular PROVE Spec => []Serves
  <1>1. Inv /\ Inv' /\ Reads /\ Serves /\ [Next]_vars => Serves'
    BY FileIsRegular, StepServes
  <1> QED
    BY <1>1, InitiallyServes, ReaderInvariant, ReadsInvariant, PTL DEF Spec

-----------------------------------------------------------------------------
(***************************************************************************)
(* The bytes that are read.                                                *)
(***************************************************************************)

\* No segment is wanted for an empty window.
LEMMA NothingIsWantedOfNothing ==
  ASSUME Inv, Countable, pc # "idle", RegularFile(file), NEW i \in Nat,
         i < SegmentsPerPlane(Layout), IsEmptyWindow(window)
  PROVE  ~Wanted(i)
  <1> DEFINE v == SegmentWindow(Layout, i)
             w == LevelWindow
  <1>1. /\ w.x \in Coord /\ w.y \in Coord /\ IsEmptyWindow(w)
        /\ w.width \in Coord /\ w.height \in Coord
    <2>1. window \in Window
      BY WindowFacts
    <2>2. LevelWindow = window \/ LevelWindow = EmptyWindow
      BY DEF LevelWindow, ToOverview
    <2> QED
      BY <2>1, <2>2, MaxCoordAssumption DEF Window, EmptyWindow, IsEmptyWindow, Coord
  <1>2. v \in NatWindow
    BY FileFacts, SegmentIsInTheImage
  <1> HIDE DEF v, w
  <1>3. /\ w.width = 0 => EndX(w) = w.x
        /\ w.height = 0 => EndY(w) = w.y
    BY <1>1, MaxCoordAssumption DEF EndX, EndY, SaturatingAdd, Coord
  <1>4. /\ EndX(v) \in Nat /\ EndY(v) \in Nat /\ EndX(w) \in Nat /\ EndY(w) \in Nat
        /\ v.x \in Nat /\ v.y \in Nat /\ w.x \in Nat /\ w.y \in Nat
    <2>1. /\ v.x \in Nat /\ v.y \in Nat /\ v.width \in Nat /\ v.height \in Nat
          /\ w.x \in Nat /\ w.y \in Nat /\ w.width \in Nat /\ w.height \in Nat
      BY <1>1, <1>2, MaxCoordAssumption DEF NatWindow, Coord
    <2> QED
      BY <2>1, SaturatingAddType DEF EndX, EndY
  <1>5. \/ SmallerOf(EndX(v), EndX(w)) <= LargerOf(v.x, w.x)
        \/ SmallerOf(EndY(v), EndY(w)) <= LargerOf(v.y, w.y)
    BY <1>1, <1>3, <1>4 DEF SmallerOf, LargerOf, IsEmptyWindow
  <1>6. Intersect(v, w) = EmptyWindow
    BY <1>5 DEF Intersect
  <1> QED
    BY <1>6 DEF Wanted, v, w, IsEmptyWindow, EmptyWindow

\* What a wanted segment stands for meets the window.
LEMMA WantedOverlaps ==
  ASSUME Inv, Countable, pc # "idle", RegularFile(file), NEW i \in Nat,
         i < SegmentsPerPlane(Layout), Wanted(i)
  PROVE  Overlaps(directory, i)
  <1> DEFINE segment == SegmentWindow(Layout, i)
             factor  == Factor(directory)
  <1>1. ~IsEmptyWindow(window)
    BY NothingIsWantedOfNothing
  <1>2. /\ segment.x < EndX(LevelWindow) /\ LevelWindow.x < segment.x + segment.width
        /\ segment.y < EndY(LevelWindow) /\ LevelWindow.y < segment.y + segment.height
    BY <1>1, WantedEdges
  <1>3. /\ LevelWindow.x = window.x \div factor /\ LevelWindow.y = window.y \div factor
        /\ EndX(LevelWindow) = CeilDiv(window.x + window.width, factor)
        /\ EndY(LevelWindow) = CeilDiv(window.y + window.height, factor)
    BY <1>1, LevelWindowEdges
  <1>4. factor \in Nat \ {0} /\ file[directory].reduction = factor
    BY FileFacts, AcceptedFacts, LevelFacts
  <1>5. /\ segment.x \in Nat /\ segment.y \in Nat /\ segment.width \in Nat /\ segment.height \in Nat
        /\ window.x \in Nat /\ window.y \in Nat /\ window.width \in Nat /\ window.height \in Nat
    BY FileFacts, SegmentIsInTheImage, WindowFacts DEF NatWindow
  <1> HIDE DEF segment, factor
  <1> DEFINE right  == segment.x + segment.width
             bottom == segment.y + segment.height
             endX   == window.x + window.width
             endY   == window.y + window.height
  <1>6. right \in Nat /\ bottom \in Nat /\ endX \in Nat /\ endY \in Nat
    BY <1>5
  <1> HIDE DEF right, bottom, endX, endY
  <1>7. factor * segment.x < endX /\ factor * segment.y < endY
    BY <1>2, <1>3, <1>4, <1>5, <1>6, CeilDivFacts DEF endX, endY
  <1>8. window.x < factor * right /\ window.y < factor * bottom
    BY <1>2, <1>3, <1>4, <1>5, <1>6, QuotientBelow DEF right, bottom
  <1>9. /\ segment.x * factor < endX /\ segment.y * factor < endY
        /\ window.x < right * factor /\ window.y < bottom * factor
    BY <1>4, <1>5, <1>6, <1>7, <1>8, ProductFacts
  <1> QED
    BY <1>4, <1>9 DEF Overlaps, Layout, segment, right, bottom, endX, endY

\* The bytes of a planned segment are those asked for.
LEMMA PlannedIsUseful ==
  ASSUME Inv, Serves, RegularFile(file), pc \in Opened, NEW n \in DOMAIN plan, NEW byte \in Int,
         HasByte(SegmentOf(plan[n]), byte)
  PROVE  IsUseful(byte)
  <1> DEFINE i == plan[n]
             m == SourceIndex(i) + 1
  <1>1. Countable /\ pc # "idle" /\ i \in Nat /\ i < SegmentsPerPlane(Layout)
    BY OpenedFacts
  <1>2. Wanted(i)
    BY DEF Serves, Planned
  <1>3. Overlaps(directory, i)
    BY <1>1, <1>2, WantedOverlaps
  <1>4. /\ SourceIndex(i) \in Nat /\ SourceIndex(i) < Len(Layout.segments)
        /\ SourceIndex(i) % SegmentsPerPlane(Layout) = i
        /\ Layout.planar = 2 => SourceIndex(i) \div SegmentsPerPlane(Layout) = call.band - 1
    BY <1>1, SegmentFacts, SegmentIsRecovered
  <1>5. directory \in DOMAIN file /\ Layout.segments \in Seq(Segment)
    BY FileFacts, DirectoryFields
  <1>6. m \in DOMAIN Layout.segments /\ m - 1 = SourceIndex(i)
    BY <1>4, <1>5
  <1>7. /\ byte >= Layout.segments[m].offset
        /\ byte < Layout.segments[m].offset + Layout.segments[m].byteCount
    BY DEF HasByte, SegmentOf
  <1> HIDE DEF m
  <1> QED
    BY <1>3, <1>4, <1>5, <1>6, <1>7 DEF IsUseful, Layout

\* No byte is read but those of segments that intersect the window, in every
\* regular file ("Reads only the source segments that intersect `window`").
THEOREM UsefulBytesOnly == ASSUME EveryFileIsRegular PROVE Spec => []OnlyUsefulBytesAreRead
  <1>1. ASSUME Inv, Reads, Serves PROVE OnlyUsefulBytesAreRead
    <2> SUFFICES ASSUME pc # "idle", NEW n \in DOMAIN issued,
                        NEW byte \in issued[n].offset .. issued[n].offset + issued[n].size - 1
                 PROVE  IsUseful(byte)
      BY DEF OnlyUsefulBytesAreRead
    <2>1. issued \in Seq([offset : Nat, size : Nat, bytes : Nat]) /\ RegularFile(file)
      BY <1>1, FileIsRegular DEF Inv, TypeOK, CallerTyped
    <2>2. n \in 1 .. Len(issued) /\ issued[n].offset \in Nat /\ issued[n].size \in Nat
      <3>1. DOMAIN issued = 1 .. Len(issued)
        BY <2>1
      <3>2. n \in 1 .. Len(issued)
        BY <3>1
      <3>3. issued[n] \in [offset : Nat, size : Nat, bytes : Nat]
        <4>1. \A S : issued \in Seq(S) => issued[n] \in S
          BY <3>2
        <4> QED
          BY <2>1, <4>1
      <3> QED
        BY <3>2, <3>3
    <2>3. pc \in {"segment", "copy"} /\ pc \in Opened
      <3>1. issued # << >>
        BY <2>2
      <3> QED
        BY <1>1, <3>1 DEF Reads, ReadSoFar, Opened
    <2>4. byte \in Int /\ byte >= issued[n].offset /\ byte < issued[n].offset + issued[n].size
      BY <2>2
    <2>5. CASE ~UseLibTiff
      <3>1. n \in 1 .. loaded /\ issued[n].offset = batches[n].offset /\ issued[n].size = batches[n].size
        <4>1. Len(issued) = loaded
          BY <1>1, <2>3, <2>5 DEF Reads, ReadSoFar, EachBatchIsReadOnce
        <4>2. issued[n] = [offset |-> batches[n].offset, size |-> batches[n].size,
                           bytes |-> batches[n].size]
          BY <1>1, <2>2, <2>3, <2>5, <4>1 DEF Reads, ReadSoFar, EachBatchIsReadOnce
        <4> QED
          BY <2>2, <4>1, <4>2
      <3>2. n \in DOMAIN batches
        BY <1>1, <3>1 DEF Inv, TypeOK, DecodingTyped, PlanTyped
      <3>3. PICK m \in DOMAIN batchOf : HasByte(SegmentOf(plan[m]), byte)
        BY <1>1, <3>1, <3>2 DEF Serves, NothingBetween
      <3>4. m \in DOMAIN plan
        BY <1>1 DEF Inv, Placed
      <3> QED
        BY <1>1, <2>1, <2>3, <2>4, <3>3, <3>4, PlannedIsUseful
    <2>6. CASE UseLibTiff
      <3>1. PICK m \in DOMAIN plan : /\ LibTiffHas(plan[m])
                                     /\ issued[n].offset = EncodedSegment(plan[m]).offset
                                     /\ issued[n].size = EncodedSegment(plan[m]).byteCount
        BY <1>1, <2>3, <2>6 DEF Serves, Decoded
      <3>2. directory = 0
        BY <1>1, <2>1, <2>3, <2>6, <3>1, OpenedFacts, LibTiffServesTheFirst
      <3>3. HasByte(SegmentOf(plan[m]), byte)
        BY <2>4, <3>1, <3>2 DEF HasByte, SegmentOf, EncodedSegment, Layout
      <3> QED
        BY <1>1, <2>1, <2>3, <2>4, <3>3, PlannedIsUseful
    <2> QED
      BY <2>5, <2>6
  <1> QED
    BY <1>1, ServesInvariant, ReaderInvariant, ReadsInvariant, PTL

-----------------------------------------------------------------------------
(***************************************************************************)
(* The promise, piece by piece.                                            *)
(***************************************************************************)

\* The pixels between two outputs are those the promise leaves.
LEMMA SpacingIsTheStep ==
  ASSUME Inv, RegularFile(file), pc # "idle", Factor(directory) # 0
  PROVE  Promise!Spacing(call, directory) = EffectiveStep
  <1>1. directory \in DOMAIN file /\ file[directory].reduction = Factor(directory)
    BY FileFacts, LevelFacts
  <1>2. RasterOfFile.reduction[directory] = Factor(directory)
    BY <1>1 DEF RasterOfFile
  <1> QED
    BY <1>2 DEF Promise!Spacing, Promise!More, EffectiveStep, Step, LargerOf

\* A decimated extent is rounded up, or the sum wraps and nothing is sampled
\* (GetSampledExtent).
LEMMA ExtentIsTheCeiling ==
  ASSUME NEW extent \in Nat, extent <= MaxCoord, NEW step \in Nat \ {0}, step <= MaxCoord
  PROVE  /\ Promise!Ceiling(extent, step) \in Nat
         /\ extent = 0 => Promise!Ceiling(extent, step) = 0
         /\ SampledExtent(extent, step) \in {0, Promise!Ceiling(extent, step)}
  <1>1. PICK sum \in Nat : sum = extent + step - 1
    OBVIOUS
  <1>2. Promise!Ceiling(extent, step) = sum \div step /\ sum \div step \in Nat
    BY <1>1, DivisionFacts DEF Promise!Ceiling
  <1>3. extent = 0 => sum \div step = 0
    <2>1. extent = 0 => sum < step * 1
      BY <1>1
    <2>2. sum < step * 1 => sum \div step < 1
      BY <1>1, QuotientBelow
    <2> QED
      BY <1>2, <2>1, <2>2
  <1>4. CASE step = 1
    <2>1. sum = extent /\ extent \div 1 = extent
      BY <1>1, <1>4
    <2> QED
      BY <1>2, <1>3, <1>4, <2>1 DEF SampledExtent
  <1>5. CASE step > 1 /\ sum <= MaxCoord
    <2>1. Wrapped(sum) = sum
      BY <1>1, <1>5, NoWrap
    <2> QED
      BY <1>1, <1>2, <1>3, <1>5, <2>1 DEF SampledExtent
  <1>6. CASE step > 1 /\ sum > MaxCoord
    <2>1. PICK word \in Nat \ {0} : word = MaxCoord + 1
      BY MaxCoordAssumption
    <2>2. PICK rest \in Nat : rest = sum - word /\ rest < step /\ rest < word
      BY <1>1, <1>6, <2>1, MaxCoordAssumption
    <2>3. PICK one \in Nat : one = 1
      OBVIOUS
    <2>4. sum % word = rest
      <3>1. sum = one * word + rest
        BY <1>1, <2>1, <2>2, <2>3
      <3>2. rest < word
        BY <2>2
      <3>3. \A q \in Nat : (q * word + rest) % word = rest
        BY <3>2, RemainderIs
      <3>4. (one * word + rest) % word = rest
        BY <3>3
      <3> QED
        BY <3>1, <3>4
    <2>5. rest \div step = 0
      <3>1. rest \div step \in Nat
        BY <2>2, DivisionFacts
      <3>2. rest < step * one
        BY <2>2, <2>3
      <3>3. rest \div step < one
        BY <2>2, <2>3, <3>2, QuotientBelow
      <3> QED
        BY <2>3, <3>1, <3>3
    <2>6. SampledExtent(extent, step) = 0
      BY <1>1, <1>6, <2>1, <2>4, <2>5 DEF SampledExtent, Wrapped
    <2> QED
      BY <1>2, <1>3, <2>6
  <1> QED
    BY <1>1, <1>4, <1>5, <1>6, MaxCoordAssumption

\* A piece of a level that is not a whole tile ends where the level does, and
\* scaled up it reaches the end of the image.
LEMMA ScaledPiece ==
  ASSUME NEW size \in Nat, NEW factor \in Nat \ {0}, NEW tile \in Nat, NEW first \in Nat,
         first <= CeilDiv(size, factor), NEW wide \in Nat,
         wide = SmallerOf(tile, CeilDiv(size, factor) - first)
  PROVE  \/ wide * factor = tile * factor
         \/ wide * factor <= tile * factor /\ first * factor + wide * factor >= size
  <1> DEFINE extent == CeilDiv(size, factor)
  <1>1. extent \in Nat /\ factor * extent >= size
    BY CeilDivFacts
  <1> HIDE DEF extent
  <1>2. wide = tile \/ (wide = extent - first /\ wide <= tile)
    BY <1>1 DEF SmallerOf, extent
  <1>3. wide <= tile => wide * factor <= tile * factor
    BY ProductMonotone
  <1>4. wide = extent - first => first * factor + wide * factor >= size
    <2>1. (extent - first) * factor = extent * factor - first * factor
      BY <1>1
    <2>2. extent * factor = factor * extent /\ extent * factor \in Nat /\ first * factor \in Nat
      BY <1>1, ProductFacts
    <2> QED
      BY <1>1, <2>1, <2>2
  <1> QED
    BY <1>2, <1>3, <1>4

\* Cut at the edge of the image, an extent may saturate or not.
LEMMA CutAtTheEdge ==
  ASSUME NEW size \in Nat, size < MaxCoord, NEW left \in Nat, left < size, NEW across \in Nat,
         NEW exact \in Nat, exact = across \/ (exact <= across /\ left + exact >= size),
         NEW scaled \in Nat, scaled = exact \/ (scaled = MaxCoord /\ exact > MaxCoord)
  PROVE  SmallerOf(SaturatingAdd(left, scaled), size)
           = left + Promise!Less(across, size - left)
  <1>1. SmallerOf(SaturatingAdd(left, scaled), size) = SmallerOf(left + exact, size)
    BY MaxCoordAssumption DEF SmallerOf, SaturatingAdd
  <1>2. SmallerOf(left + exact, size) = left + Promise!Less(across, size - left)
    BY DEF SmallerOf, Promise!Less
  <1> QED
    BY <1>1, <1>2

\* A product is exact, or it is too large for a word and saturates.
LEMMA SaturatedProduct ==
  ASSUME NEW a \in Nat, NEW b \in Nat
  PROVE  \/ SaturatingMultiply(a, b) = a * b /\ a * b <= MaxCoord
         \/ SaturatingMultiply(a, b) = MaxCoord /\ a * b > MaxCoord
  <1>1. CASE a = 0 \/ b = 0
    <2>1. a * b = 0
      BY <1>1, ProductFacts
    <2> QED
      BY <1>1, <2>1, MaxCoordAssumption DEF SaturatingMultiply
  <1>2. CASE a # 0 /\ b # 0
    <2>1. MaxCoord < b * a <=> MaxCoord \div b < a
      BY <1>2, QuotientBelow, MaxCoordAssumption
    <2>2. MaxCoord \div b \in Nat
      BY <1>2, DivisionFacts, MaxCoordAssumption
    <2>3. a * b = b * a /\ a * b \in Nat
      BY ProductFacts
    <2> QED
      BY <1>2, <2>1, <2>2, <2>3, MaxCoordAssumption DEF SaturatingMultiply
  <1> QED
    BY <1>1, <1>2

\* Two windows that meet on both axes meet in a window.
LEMMA MeetingOf ==
  ASSUME NEW v, NEW w, NEW left \in Nat, NEW top \in Nat, NEW wide \in Nat, NEW high \in Nat,
         wide > 0, high > 0,
         LargerOf(v.x, w.x) = left, SmallerOf(EndX(v), EndX(w)) = left + wide,
         LargerOf(v.y, w.y) = top, SmallerOf(EndY(v), EndY(w)) = top + high
  PROVE  Intersect(v, w) = [x |-> left, y |-> top, width |-> wide, height |-> high]
  <1>1. /\ ~(left + wide <= left) /\ ~(top + high <= top)
        /\ left + wide - left = wide /\ top + high - top = high
    OBVIOUS
  <1> QED
    BY <1>1 DEF Intersect

\* In a regular file ReadTile asks for what the native tile covers.
LEMMA TileIsCovered ==
  ASSUME Inv, pc # "idle", RegularFile(file), NEW k \in DOMAIN file, TileExists(k), Factor(k) # 0
  PROVE  /\ Promise!CoveredByTile(call, k) = TileWindow(k)
         /\ TileWindow(k).width > 0 /\ TileWindow(k).height > 0
  <1> DEFINE d      == file[k]
             factor == Factor(k)
             w      == file[0].width
             h      == file[0].height
             left   == call.x * d.segmentWidth
             top    == call.y * d.segmentHeight
             wide   == SmallerOf(d.segmentWidth, d.width - left)
             high   == SmallerOf(d.segmentHeight, d.height - top)
             tile   == [x |-> left, y |-> top, width |-> wide, height |-> high]
             whole  == [x |-> 0, y |-> 0, width |-> w, height |-> h]
             scaled == FromOverview(tile, factor)
             across == d.segmentWidth * factor
             down   == d.segmentHeight * factor
  <1>1. /\ w \in Nat \ {0} /\ w < MaxCoord /\ h \in Nat \ {0} /\ h < MaxCoord
        /\ d.segmentWidth \in Nat \ {0} /\ d.segmentHeight \in Nat \ {0}
        /\ d.width \in Nat \ {0} /\ d.height \in Nat \ {0}
    BY FileFacts, DirectoryFields DEF RegularFile
  <1>2. /\ factor \in Nat \ {0} /\ d.reduction = factor
        /\ d.width = CeilDiv(w, factor) /\ d.height = CeilDiv(h, factor)
    BY LevelFacts
  <1>3. call.x \in Nat /\ call.y \in Nat
    BY QuestionFacts
  <1>4. /\ left \in Nat /\ left < d.width
        /\ top \in Nat /\ top < d.height
    BY <1>1, <1>3, LastPieceStartsInside DEF TileExists, SegmentsAcross, SegmentsDown
  <1>5. /\ wide \in Nat \ {0} /\ high \in Nat \ {0}
    BY <1>1, <1>4 DEF SmallerOf
  <1>6. TileWindow(k) = Intersect(scaled, whole)
    BY DEF TileWindow
  <1>7. Promise!CoveredByTile(call, k)
          = [x |-> call.x * across, y |-> call.y * down,
             width  |-> Promise!Less(across, w - call.x * across),
             height |-> Promise!Less(down, h - call.y * down)]
    <2>1. /\ RasterOfFile.tileWidth[k] = d.segmentWidth /\ RasterOfFile.tileHeight[k] = d.segmentHeight
          /\ RasterOfFile.reduction[k] = factor
          /\ RasterOfFile.width = w /\ RasterOfFile.height = h
      BY <1>2 DEF RasterOfFile
    <2> QED
      BY <2>1 DEF Promise!CoveredByTile
  <1> HIDE DEF d, factor, w, h, left, top, wide, high
  <1>8. /\ left * factor \in Nat /\ left * factor < w
        /\ top * factor \in Nat /\ top * factor < h
    <2>1. factor * left < w /\ factor * top < h
      BY <1>1, <1>2, <1>4, CeilDivFacts
    <2> QED
      BY <1>2, <1>4, <2>1, ProductFacts
  <1>9. /\ scaled.x = left * factor /\ scaled.y = top * factor
        /\ scaled.width \in Nat /\ scaled.height \in Nat
        /\ \/ scaled.width = wide * factor
           \/ scaled.width = MaxCoord /\ wide * factor > MaxCoord
        /\ \/ scaled.height = high * factor
           \/ scaled.height = MaxCoord /\ high * factor > MaxCoord
    <2>1. CASE factor = 1
      <3>1. scaled = tile
        BY <2>1 DEF FromOverview
      <3> QED
        BY <1>4, <1>5, <2>1, <3>1
    <2>2. CASE factor > 1
      <3>1. scaled = [x |-> SaturatingMultiply(left, factor), y |-> SaturatingMultiply(top, factor),
                      width  |-> SaturatingMultiply(wide, factor),
                      height |-> SaturatingMultiply(high, factor)]
        BY <1>2, <1>5, <2>2 DEF FromOverview, IsEmptyWindow
      <3>2. /\ SaturatingMultiply(left, factor) = left * factor
            /\ SaturatingMultiply(top, factor) = top * factor
        BY <1>1, <1>2, <1>4, <1>8, SaturatedProduct, MaxCoordAssumption
      <3>3. /\ SaturatingMultiply(wide, factor) \in Nat /\ SaturatingMultiply(high, factor) \in Nat
        <4>1. SaturatingMultiply(wide, factor) \in Coord /\ SaturatingMultiply(high, factor) \in Coord
          BY <1>2, <1>5, SaturatingMultiplyType
        <4> QED
          BY <4>1, MaxCoordAssumption DEF Coord
      <3>4. /\ \/ SaturatingMultiply(wide, factor) = wide * factor
               \/ SaturatingMultiply(wide, factor) = MaxCoord /\ wide * factor > MaxCoord
            /\ \/ SaturatingMultiply(high, factor) = high * factor
               \/ SaturatingMultiply(high, factor) = MaxCoord /\ high * factor > MaxCoord
        BY <1>2, <1>5, SaturatedProduct
      <3> QED
        BY <3>1, <3>2, <3>3, <3>4
    <2> QED
      BY <1>2, <2>1, <2>2
  <1> HIDE DEF scaled
  <1>10. /\ call.x * across = left * factor /\ across \in Nat \ {0}
         /\ SmallerOf(SaturatingAdd(scaled.x, scaled.width), w)
              = left * factor + Promise!Less(across, w - left * factor)
    <2>1. left = call.x * d.segmentWidth /\ wide = SmallerOf(d.segmentWidth, CeilDiv(w, factor) - left)
      BY <1>2 DEF left, wide
    <2>2. left <= CeilDiv(w, factor)
      BY <1>1, <1>2, <1>4, CeilDivFacts
    <2>3. /\ across \in Nat \ {0} /\ wide * factor \in Nat
      BY <1>1, <1>2, <1>5, ProductFacts
    <2>4. wide * factor = across \/ (wide * factor <= across /\ left * factor + wide * factor >= w)
      BY <1>1, <1>2, <1>4, <1>5, <2>1, <2>2, ScaledPiece
    <2>5. call.x * across = left * factor
      BY <1>1, <1>2, <1>3, <2>1
    <2> DEFINE start  == left * factor
               exact  == wide * factor
               extent == scaled.width
    <2>6. start \in Nat /\ start < w /\ extent \in Nat /\ scaled.x = start
          /\ (extent = exact \/ (extent = MaxCoord /\ exact > MaxCoord))
      BY <1>8, <1>9
    <2> HIDE DEF start, exact, extent, across
    <2>7. SmallerOf(SaturatingAdd(start, extent), w) = start + Promise!Less(across, w - start)
      BY <1>1, <2>3, <2>4, <2>6, CutAtTheEdge DEF start, exact
    <2> QED
      BY <2>3, <2>5, <2>6, <2>7 DEF start, extent
  <1>11. /\ call.y * down = top * factor /\ down \in Nat \ {0}
         /\ SmallerOf(SaturatingAdd(scaled.y, scaled.height), h)
              = top * factor + Promise!Less(down, h - top * factor)
    <2>1. top = call.y * d.segmentHeight /\ high = SmallerOf(d.segmentHeight, CeilDiv(h, factor) - top)
      BY <1>2 DEF top, high
    <2>2. top <= CeilDiv(h, factor)
      BY <1>1, <1>2, <1>4, CeilDivFacts
    <2>3. /\ down \in Nat \ {0} /\ high * factor \in Nat
      BY <1>1, <1>2, <1>5, ProductFacts
    <2>4. high * factor = down \/ (high * factor <= down /\ top * factor + high * factor >= h)
      BY <1>1, <1>2, <1>4, <1>5, <2>1, <2>2, ScaledPiece
    <2>5. call.y * down = top * factor
      BY <1>1, <1>2, <1>3, <2>1
    <2> DEFINE start  == top * factor
               exact  == high * factor
               extent == scaled.height
    <2>6. start \in Nat /\ start < h /\ extent \in Nat /\ scaled.y = start
          /\ (extent = exact \/ (extent = MaxCoord /\ exact > MaxCoord))
      BY <1>8, <1>9
    <2> HIDE DEF start, exact, extent, down
    <2>7. SmallerOf(SaturatingAdd(start, extent), h) = start + Promise!Less(down, h - start)
      BY <1>1, <2>3, <2>4, <2>6, CutAtTheEdge DEF start, exact
    <2> QED
      BY <2>3, <2>5, <2>6, <2>7 DEF start, extent
  <1> HIDE DEF across, down
  <1>12. /\ Promise!Less(across, w - left * factor) \in Nat \ {0}
         /\ Promise!Less(down, h - top * factor) \in Nat \ {0}
    BY <1>1, <1>8, <1>10, <1>11 DEF Promise!Less
  <1>13. /\ EndX(whole) = w /\ EndY(whole) = h
         /\ LargerOf(scaled.x, whole.x) = left * factor
         /\ LargerOf(scaled.y, whole.y) = top * factor
    BY <1>1, <1>8, <1>9, MaxCoordAssumption DEF EndX, EndY, SaturatingAdd, LargerOf
  <1>14. Intersect(scaled, whole)
           = [x |-> left * factor, y |-> top * factor,
              width  |-> Promise!Less(across, w - left * factor),
              height |-> Promise!Less(down, h - top * factor)]
    BY <1>8, <1>10, <1>11, <1>12, <1>13, MeetingOf DEF EndX, EndY
  <1> QED
    BY <1>6, <1>7, <1>10, <1>11, <1>12, <1>14

\* The window of an accepted call is the region its question is about.
LEMMA RegionIsTheWindow ==
  ASSUME Inv, Serves, RegularFile(file), pc \in Opened
  PROVE  /\ Promise!Region(call, directory) = window
         /\ call.kind = "tile" => window.width > 0 /\ window.height > 0
  <1>1. /\ pc # "idle" /\ directory \in DOMAIN file /\ call \in Question
    BY OpenedFacts, FileFacts, QuestionFacts
  <1>2. /\ window = WindowAsked(directory)
        /\ call.kind = "tile" => TileExists(directory) /\ Factor(directory) # 0
    BY <1>1 DEF Serves, RightWindow
  <1>3. RasterOfFile.width = file[0].width
    BY DEF RasterOfFile
  <1>4. CASE call.kind = "window"
    BY <1>2, <1>4 DEF WindowAsked, Promise!Region
  <1>5. CASE call.kind = "scanlines"
    BY <1>2, <1>3, <1>5 DEF WindowAsked, RowsWindow, Promise!Region
  <1>6. CASE call.kind = "tile"
    <2>1. /\ Promise!CoveredByTile(call, directory) = TileWindow(directory)
          /\ TileWindow(directory).width > 0 /\ TileWindow(directory).height > 0
      BY <1>1, <1>2, <1>6, TileIsCovered
    <2> QED
      BY <1>2, <1>6, <2>1 DEF WindowAsked, Promise!Region
  <1> QED
    BY <1>1, <1>4, <1>5, <1>6 DEF Question

\* What is known of an accepted call: its window, its level, its step.
LEMMA PromisedSize ==
  ASSUME Inv, Serves, RegularFile(file), pc \in Opened
  PROVE  /\ Promise!Columns(call, directory) \in Nat /\ Promise!Rows(call, directory) \in Nat
         /\ Sampled.width \in {0, Promise!Columns(call, directory)}
         /\ Sampled.height \in {0, Promise!Rows(call, directory)}
         /\ window.width = 0 => Promise!Columns(call, directory) = 0
         /\ window.height = 0 => Promise!Rows(call, directory) = 0
  <1>1. pc # "idle" /\ Countable /\ directory \in DOMAIN file
    BY OpenedFacts, FileFacts
  <1>2. Promise!Region(call, directory) = window
    BY RegionIsTheWindow
  <1>3. /\ Factor(directory) \in Nat \ {0} /\ Factor(directory) <= MaxCoord
        /\ Promise!Spacing(call, directory) = EffectiveStep
    BY <1>1, AcceptedFacts, LevelFacts, SpacingIsTheStep
  <1>4. EffectiveStep \in Nat \ {0} /\ EffectiveStep <= MaxCoord
    <2>1. EffectiveStep \in Nat /\ EffectiveStep >= 1
      BY <1>1, SampledFacts
    <2>2. call.step \in Coord
      BY <1>1, QuestionFacts DEF Question
    <2>3. Step <= MaxCoord
      BY <2>2, MaxCoordAssumption DEF Step, LargerOf, Coord
    <2>4. EffectiveStep <= MaxCoord
      BY <1>3, <2>3 DEF EffectiveStep, LargerOf
    <2> QED
      BY <2>1, <2>4
  <1>5. /\ window.width \in Nat /\ window.width <= MaxCoord
        /\ window.height \in Nat /\ window.height <= MaxCoord
    <2>1. window \in Window
      BY <1>1, WindowFacts
    <2> QED
      BY <2>1, MaxCoordAssumption DEF Window, Coord
  <1>6. /\ Sampled.width = SampledExtent(window.width, EffectiveStep)
        /\ Sampled.height = SampledExtent(window.height, EffectiveStep)
    BY DEF Sampled, SampledSize
  <1>7. /\ Promise!Columns(call, directory) = Promise!Ceiling(window.width, EffectiveStep)
        /\ Promise!Rows(call, directory) = Promise!Ceiling(window.height, EffectiveStep)
    BY <1>2, <1>3 DEF Promise!Columns, Promise!Rows
  <1> QED
    BY <1>4, <1>5, <1>6, <1>7, ExtentIsTheCeiling

\* The level that serves a call may serve it.
LEMMA LevelMayServe ==
  ASSUME Inv, Serves, RegularFile(file), pc \in Opened
  PROVE  Promise!MayServe(call, directory)
  <1>1. /\ pc # "idle" /\ Countable /\ directory \in DOMAIN file /\ IsChosen(directory)
        /\ Factor(directory) # 0
    BY OpenedFacts, FileFacts, AcceptedFacts DEF Serves, RightWindow
  <1>2. RasterOfFile.reduction[directory] = Factor(directory)
    BY <1>1, LevelFacts DEF RasterOfFile
  <1>3. CASE call.level # 0
    BY <1>1, <1>3 DEF IsChosen, Promise!MayServe
  <1>4. CASE call.level = 0 /\ FineEnough = {}
    <2>1. directory = 0 /\ Factor(directory) = 1
      BY <1>1, <1>4 DEF IsChosen, Factor
    <2>2. Step \in Nat /\ Step >= 1 /\ Promise!More(call.step, 1) = Step
      BY <1>1, QuestionFacts DEF Promise!More, Step, LargerOf
    <2> QED
      BY <1>2, <1>4, <2>1, <2>2 DEF Promise!MayServe
  <1>5. CASE call.level = 0 /\ FineEnough # {}
    <2>1. Factor(directory) <= Step
      BY <1>1, <1>5 DEF IsChosen, FineEnough
    <2> QED
      BY <1>2, <1>5, <2>1 DEF Promise!MayServe, Promise!More, Step, LargerOf
  <1> QED
    BY <1>3, <1>4, <1>5

\* A product grows with both factors.
LEMMA ProductIsLarger ==
  ASSUME NEW a \in Nat, NEW b \in Nat, NEW c \in Nat, NEW d \in Nat, a <= c, b <= d
  PROVE  a * b <= c * d
  <1>1. a * b <= c * b /\ c * b <= c * d
    BY ProductMonotone
  <1>2. a * b \in Nat /\ c * b \in Nat /\ c * d \in Nat
    BY ProductFacts
  <1> QED
    BY <1>1, <1>2

\* A decimated extent is no larger than the extent (GetSampledExtent).
LEMMA SampledIsSmaller ==
  ASSUME NEW extent \in Nat, NEW step \in Nat \ {0}
  PROVE  SampledExtent(extent, step) <= extent
  <1> DEFINE n == SampledExtent(extent, step)
  <1>1. n \in Nat
    BY SampledExtentType
  <1>2. CASE n = 0
    BY <1>2
  <1>3. CASE n > 0
    <2>1. n - 1 \in 0 .. n - 1
      BY <1>1, <1>3
    <2>2. (n - 1) * step \in Nat /\ (n - 1) * step < extent
      BY <2>1, StepIsInside
    <2> HIDE DEF n
    <2>3. n - 1 \in Nat
      BY <1>1, <1>3
    <2>4. n - 1 = 0 \/ (n - 1) * step >= n - 1
      BY <2>3, ProductFacts
    <2>5. n - 1 < extent
      BY <2>2, <2>3, <2>4
    <2> QED
      BY <1>1, <2>5 DEF n
  <1> QED
    BY <1>1, <1>2, <1>3

\* The samples of an accepted call fit its budget.
LEMMA SamplesFitTheBudget ==
  ASSUME Inv, Reads, Serves, RegularFile(file), pc \in {"allocate", "segment", "copy"},
         call.budget # 0,
         \/ IsEmptyWindow(window)
         \/ Sampled.width = Promise!Columns(call, directory)
              /\ Sampled.height = Promise!Rows(call, directory)
  PROVE  Promise!Columns(call, directory) * Promise!Rows(call, directory) * SampleSize <= call.budget
  <1> DEFINE columns == Promise!Columns(call, directory)
             rows    == Promise!Rows(call, directory)
  <1>1. pc \in Opened /\ pc # "idle" /\ Countable
    BY OpenedFacts DEF Opened
  <1>2. columns \in Nat /\ rows \in Nat
    BY <1>1, PromisedSize
  <1>3. call.budget \in Nat /\ SampleSize \in Nat /\ workspace \in Nat
    BY <1>1, QuestionFacts, SizesAssumption DEF Inv, TypeOK, PlanTyped
  <1>4. CASE IsEmptyWindow(window)
    <2>1. columns = 0 \/ rows = 0
      BY <1>1, <1>4, PromisedSize DEF IsEmptyWindow
    <2> HIDE DEF columns, rows
    <2>2. columns * rows = 0
      BY <1>2, <2>1, ProductFacts
    <2>3. columns * rows * SampleSize = 0
      BY <1>3, <2>2
    <2> QED
      BY <1>3, <2>3 DEF columns, rows
  <1>5. CASE ~IsEmptyWindow(window)
    <2>1. Sampled.width = columns /\ Sampled.height = rows
      BY <1>5
    <2>2. SampledCount * SampleSize + workspace <= call.budget
      BY <1>1 DEF Reads, Within, FitsBudget
    <2>3. columns * rows <= MaxCoord
      <3>1. /\ window.width \in Nat /\ window.height \in Nat
            /\ SampleBytes \in Nat \ {0}
            /\ EffectiveStep \in Nat \ {0}
        BY <1>1, WindowFacts, AcceptedFacts, SampledFacts
      <3>2. columns <= window.width /\ rows <= window.height
        BY <2>1, <3>1, SampledIsSmaller DEF Sampled, SampledSize
      <3>3. columns * rows <= window.width * window.height
        BY <1>2, <3>1, <3>2, ProductIsLarger
      <3>4. PICK area \in Nat : area = window.width * window.height
        BY <3>1, ProductFacts
      <3>5. area <= area * SampleBytes
        BY <3>1, <3>4, ProductFacts
      <3>6. area * SampleBytes <= MaxCoord
        BY <1>1, <3>4 DEF Countable
      <3>7. area * SampleBytes \in Nat
        BY <3>1, <3>4, ProductFacts
      <3>8. columns * rows \in Nat
        BY <1>2, ProductFacts
      <3> HIDE DEF columns, rows
      <3> QED
        BY <3>3, <3>4, <3>5, <3>6, <3>7, <3>8, MaxCoordAssumption
    <2>4. SampledCount = columns * rows
      BY <1>2, <2>1, <2>3, SaturatedProduct, ProductFacts, MaxCoordAssumption
      DEF SampledCount, PixelCount
    <2> HIDE DEF columns, rows
    <2>5. SampledCount \in Nat
      BY <1>1, SampledFacts
    <2>6. SampledCount * SampleSize \in Nat
      BY <1>3, <2>5, ProductFacts
    <2>7. SampledCount * SampleSize <= call.budget
      BY <1>3, <2>2, <2>6
    <2> QED
      BY <2>4, <2>7 DEF columns, rows
  <1> QED
    BY <1>4, <1>5

\* A call that delivers was one that may be answered.
LEMMA DeliveredIsAnswerable ==
  ASSUME Inv, Reads, Serves, RegularFile(file), pc \in {"allocate", "segment", "copy"},
         \/ IsEmptyWindow(window)
         \/ Sampled.width = Promise!Columns(call, directory)
              /\ Sampled.height = Promise!Rows(call, directory)
  PROVE  Promise!Answerable(call, directory)
  <1>1. pc \in Opened /\ pc # "idle" /\ Countable
    BY OpenedFacts DEF Opened
  <1>2. Promise!MayServe(call, directory)
    BY <1>1, LevelMayServe
  <1>3. call.band \in 1 .. RasterOfFile.bands
    BY <1>1, AcceptedFacts DEF Bands, RasterOfFile
  <1>4. /\ Promise!Region(call, directory) = window
        /\ call.kind = "tile" => window.width > 0 /\ window.height > 0
    BY <1>1, RegionIsTheWindow
  <1>5. Promise!Inside(window)
    <2>1. /\ window.x + window.width <= file[0].width
          /\ window.y + window.height <= file[0].height
      BY <1>1, WindowFacts
    <2> QED
      BY <2>1 DEF Promise!Inside, RasterOfFile
  <1>6. call.budget # 0 =>
          Promise!Columns(call, directory) * Promise!Rows(call, directory) * SampleSize <= call.budget
    BY SamplesFitTheBudget
  <1> QED
    BY <1>2, <1>3, <1>4, <1>5, <1>6 DEF Promise!Answerable

\* The samples the promise names are those the outputs are asked to be.
LEMMA PromisedSamples ==
  ASSUME Inv, Serves, RegularFile(file), pc \in Opened,
         Outputs = (0 .. Promise!Columns(call, directory) - 1)
                     \X (0 .. Promise!Rows(call, directory) - 1)
  PROVE  Promise!SamplesOf(call, directory) = [p \in Outputs |-> Asked(p)]
  <1>1. /\ pc # "idle" /\ Countable /\ directory \in DOMAIN file /\ Factor(directory) # 0
    BY OpenedFacts, FileFacts, AcceptedFacts
  <1>2. /\ Promise!Region(call, directory) = window
        /\ Promise!Spacing(call, directory) = EffectiveStep
        /\ RasterOfFile.reduction[directory] = Factor(directory)
    BY <1>1, RegionIsTheWindow, SpacingIsTheStep, LevelFacts DEF RasterOfFile
  <1>3. Promise!SamplesOf(call, directory)
          = [p \in Outputs |->
               [level |-> directory, band |-> call.band,
                x |-> (window.x + p[1] * EffectiveStep) \div Factor(directory),
                y |-> (window.y + p[2] * EffectiveStep) \div Factor(directory)]]
    BY <1>2 DEF Promise!SamplesOf
  <1>4. \A p \in Outputs :
          Asked(p) = [level |-> directory, band |-> call.band,
                      x |-> (window.x + p[1] * EffectiveStep) \div Factor(directory),
                      y |-> (window.y + p[2] * EffectiveStep) \div Factor(directory)]
    BY <1>1, LevelPixelIs DEF Asked
  <1> QED
    BY <1>3, <1>4

\* A call that returns with samples returns those promised.
LEMMA DeliverKeepsPromise ==
  ASSUME Inv, Inv', Reads, Serves, RegularFile(file), pc \in {"allocate", "segment", "copy"},
         pc' = "idle", result' = "ok", UNCHANGED <<source, call>>,
         \/ IsEmptyWindow(window)
         \/ Sampled.width = Promise!Columns(call, directory)
              /\ Sampled.height = Promise!Rows(call, directory),
         Outputs = (0 .. Promise!Columns(call, directory) - 1)
                     \X (0 .. Promise!Rows(call, directory) - 1),
         DOMAIN grid' = Outputs, \A p \in Outputs : SampleAt(grid'[p]) = Asked(p)
  PROVE  Promise!Next
  <1>1. pc \in Opened /\ directory \in DOMAIN file /\ file' = file
    BY FileFacts DEF Opened, source
  <1>2. Promise!Answerable(call, directory)
    BY DeliveredIsAnswerable
  <1>3. \A p : SampleAt(grid[p])' = SampleAt(grid'[p])
    BY <1>1, CellsSay
  <1>4. AnswerOfCall' = Promise!Delivery(Promise!SamplesOf(call, directory))
    <2>1. Returned' /\ (result = "ok")' /\ Len(diagnostics'.errors) = 0
      BY DEF Inv, FailureIsClean, Returned
    <2>2. [p \in DOMAIN grid |-> SampleAt(grid[p])]' = [p \in Outputs |-> Asked(p)]
      BY <1>3
    <2>3. AnswerOfCall' = [ok |-> TRUE, errors |-> 0, samples |-> [p \in Outputs |-> Asked(p)]]
      BY <2>1, <2>2 DEF AnswerOfCall
    <2>4. Promise!SamplesOf(call, directory) = [p \in Outputs |-> Asked(p)]
      BY <1>1, PromisedSamples
    <2> QED
      BY <2>3, <2>4 DEF Promise!Delivery
  <1>5. RasterOfFile' = RasterOfFile
    BY <1>1 DEF RasterOfFile
  <1>6. directory \in Promise!Levels
    BY <1>1 DEF Promise!Levels, RasterOfFile
  <1>7. Promise!Deliver(directory)
    BY <1>1, <1>2, <1>4, <1>5 DEF Promise!Deliver, Opened
  <1> QED
    BY <1>6, <1>7 DEF Promise!Next

\* When every planned segment is copied, every output has its sample.
LEMMA FinishKeepsPromise ==
  ASSUME Inv, Inv', Reads, Serves, RegularFile(file), Finish
  PROVE  Promise!Next
  <1>1. /\ pc = "segment" /\ pc \in Opened /\ cursor > Len(plan) /\ pc' = "idle" /\ result' = "ok"
        /\ grid' = grid /\ UNCHANGED <<source, call>>
    BY DEF Finish, Succeed, Opened
  <1>2. pc # "idle" /\ Countable /\ cursor \in Nat /\ plan \in Seq(Nat)
    BY <1>1, OpenedFacts DEF Inv, TypeOK, PlanTyped
  <1>3. /\ SampledCount > 0 /\ DOMAIN grid = Outputs
        /\ \A n \in 1 .. cursor - 1 : \A p \in OutputsIn(plan[n]) : SampleAt(grid[p]) = Asked(p)
    BY <1>1 DEF Serves, Copied
  <1>4. /\ Sampled.width = Promise!Columns(call, directory)
        /\ Sampled.height = Promise!Rows(call, directory)
    <2>1. Sampled.width # 0 /\ Sampled.height # 0
      BY <1>2, <1>3, SampledFacts
    <2> QED
      BY <1>1, <2>1, PromisedSize
  <1>5. ASSUME NEW p \in Outputs PROVE SampleAt(grid'[p]) = Asked(p)
    <2>1. PICK i \in Nat : i < SegmentsPerPlane(Layout) /\ p \in OutputsIn(i) /\ Wanted(i)
      BY <1>2, OutputIsCovered
    <2>2. PICK n \in DOMAIN plan : plan[n] = i
      BY <1>1, <2>1 DEF Serves, Planned
    <2>3. n \in 1 .. cursor - 1
      BY <1>1, <1>2
    <2> QED
      BY <1>1, <1>3, <2>1, <2>2, <2>3
  <1>6. Outputs = (0 .. Promise!Columns(call, directory) - 1)
                    \X (0 .. Promise!Rows(call, directory) - 1)
    BY <1>4 DEF Outputs
  <1> QED
    BY <1>1, <1>3, <1>4, <1>5, <1>6, DeliverKeepsPromise

\* A read of nothing delivers nothing.
LEMMA EmptyKeepsPromise ==
  ASSUME Inv, Inv', Reads, Serves, RegularFile(file), ReturnEmpty
  PROVE  Promise!Next
  <1>1. /\ pc = "allocate" /\ pc \in Opened /\ pc' = "idle" /\ result' = "ok"
        /\ grid' = NewGrid /\ UNCHANGED <<source, call>> /\ IsEmptyWindow(window)
    BY DEF ReturnEmpty, Succeed, Opened
  <1>2. /\ Promise!Columns(call, directory) \in Nat /\ Promise!Rows(call, directory) \in Nat
        /\ Promise!Columns(call, directory) = 0 \/ Promise!Rows(call, directory) = 0
        /\ Sampled.width \in {0, Promise!Columns(call, directory)}
        /\ Sampled.height \in {0, Promise!Rows(call, directory)}
        /\ Promise!Columns(call, directory) = 0 => Sampled.width = 0
        /\ Promise!Rows(call, directory) = 0 => Sampled.height = 0
    BY <1>1, PromisedSize DEF IsEmptyWindow
  <1>3. /\ Outputs = {}
        /\ (0 .. Promise!Columns(call, directory) - 1)
             \X (0 .. Promise!Rows(call, directory) - 1) = {}
    <2>1. \A n \in Nat : n = 0 => 0 .. n - 1 = {}
      OBVIOUS
    <2>2. /\ 0 .. Sampled.width - 1 = {} \/ 0 .. Sampled.height - 1 = {}
          /\ \/ 0 .. Promise!Columns(call, directory) - 1 = {}
             \/ 0 .. Promise!Rows(call, directory) - 1 = {}
      BY <1>2, <2>1
    <2>3. \A a, b : a = {} \/ b = {} => a \X b = {}
      OBVIOUS
    <2> QED
      BY <2>2, <2>3 DEF Outputs
  <1>4. DOMAIN grid' = Outputs
    BY <1>1 DEF NewGrid
  <1>5. \A p \in Outputs : SampleAt(grid'[p]) = Asked(p)
    BY <1>3
  <1> QED
    BY <1>1, <1>3, <1>4, <1>5, DeliverKeepsPromise

\* A call that runs on, returns samples or fails.
Failing == pc' = "idle" /\ result' = "failed" /\ UNCHANGED <<source, call>>

\* Both forms of failure end a call (AddReadError).
LEMMA FailIsFailing == ASSUME NEW code, NEW partial, Fail(code) \/ FailWith(code, partial) PROVE Failing
  BY DEF Fail, FailWith, Failing

\* What a step of a running call may come to.
LEMMA StepOutcome ==
  ASSUME Progress
  PROVE  /\ pc # "idle"
         /\ \/ pc' # "idle" /\ UNCHANGED <<source, call>>
            \/ Failing
            \/ Finish \/ ReturnEmpty
  <1>1. CASE FindWindow
    BY <1>1, FailIsFailing DEF FindWindow, FindTile, FindRows, RefuseTile, RefuseTileLevel, RefuseRows, Goes
  <1>2. CASE ParseStep
    BY <1>2, FailIsFailing
    DEF ParseStep, Parse, ParseFails, ParseRefusesCompression, ParseRefusesLevel, Parsing, Goes
  <1>3. CASE CheckStep
    BY <1>3, FailIsFailing
    DEF CheckStep, Accept, RefuseBand, RefuseLevel, RefuseWindow, RefuseLayout, RefuseSize, Refuse, Goes
  <1>4. CASE PlanStep
    BY <1>4, FailIsFailing
    DEF PlanStep, PlanSegment, RefuseSegment, PlanDone, Coalesce, CoalesceDone, MeasureBatch,
        RefuseBatch, MeasureDone, KeepWithinBudget, RefuseBudget, Goes
  <1>5. CASE ReadStep
    <2>1. CASE Cancel \/ OpenFails \/ RefuseGrid \/ LoadFails \/ DecodeFails \/ RefuseDecoding
                 \/ CopyFails \/ AllocationFails
      BY <2>1, FailIsFailing
      DEF Cancel, OpenFails, RefuseGrid, LoadFails, DecodeFails, RefuseDecoding, CopyFails,
          AllocationFails, NeedsBatch, NeedsDecoding, AtSegment, Parsing
    <2>2. CASE Allocate \/ LoadBatch \/ ReuseBatch \/ CopySegment
                 \/ (\E met \in BOOLEAN : Open(met))
                 \/ (\E missing \in {0, 1} : DecodeSegment(missing))
      BY <2>2 DEF Allocate, LoadBatch, ReuseBatch, CopySegment, Open, DecodeSegment, Goes
    <2>3. CASE Finish \/ ReturnEmpty
      BY <2>3 DEF Finish, ReturnEmpty
    <2> QED
      BY <1>5, <2>1, <2>2, <2>3 DEF ReadStep
  <1> QED
    BY <1>1, <1>2, <1>3, <1>4, <1>5 DEF Progress

-----------------------------------------------------------------------------
(***************************************************************************)
(* The reader implements WindowRead, step by step.                         *)
(***************************************************************************)

\* Nothing is asked or answered at first.
LEMMA InitiallyPromised == Init => Promise!Init
  <1> SUFFICES ASSUME Init PROVE Promise!Init
    OBVIOUS
  <1>1. ~Returned
    BY DEF Init, Returned
  <1>2. AnswerOfCall = Promise!NoAnswer
    BY <1>1 DEF AnswerOfCall, Promise!NoAnswer, Promise!Nothing, NoGrid
  <1> QED
    BY <1>2 DEF Init, Promise!Init

\* A call is a question, and its answer is not there yet.
LEMMA AskKeepsPromise == ASSUME Inv, Call PROVE Promise!Ask
  <1>1. PICK q \in Questions : ReadWindow(q) \/ ReadTile(q) \/ ReadScanlines(q)
    BY DEF Call
  <1>2. pc = "idle" /\ pc' # "idle" /\ call' = q /\ UNCHANGED source
    BY <1>1 DEF ReadWindow, ReadTile, ReadScanlines, Begin
  <1>3. AnswerOfCall' = Promise!NoAnswer
    BY <1>2 DEF AnswerOfCall, Promise!NoAnswer, Promise!Nothing, NoGrid, Returned
  <1>4. RasterOfFile' = RasterOfFile
    BY <1>2 DEF source, RasterOfFile
  <1> QED
    BY <1>2, <1>3, <1>4 DEF Promise!Ask

\* A call that fails returns one error and no sample.
LEMMA RefuseKeepsPromise == ASSUME Inv, Inv', pc # "idle", Failing PROVE Promise!Refuse
  <1>1. /\ pc' = "idle" /\ result' = "failed" /\ UNCHANGED <<source, call>>
        /\ Len(diagnostics'.errors) = 1 /\ DOMAIN grid' = {}
    BY DEF Failing, Inv, FailureIsClean
  <1>2. [p \in DOMAIN grid' |-> SampleAt(grid[p])'] = << >>
    BY <1>1
  <1>3. AnswerOfCall' = Promise!Refusal
    BY <1>1, <1>2 DEF AnswerOfCall, Promise!Refusal, Promise!Nothing, Returned
  <1>4. RasterOfFile' = RasterOfFile
    BY <1>1 DEF source, RasterOfFile
  <1> QED
    BY <1>1, <1>3, <1>4 DEF Promise!Refuse

\* While a call runs, its caller sees nothing of it.
LEMMA RunningKeepsPromise ==
  ASSUME pc # "idle", pc' # "idle", UNCHANGED <<source, call>>
  PROVE  UNCHANGED Promise!vars
  <1>1. ~Returned /\ ~Returned'
    BY DEF Returned
  <1>2. AnswerOfCall' = AnswerOfCall
    BY <1>1 DEF AnswerOfCall, NoGrid
  <1>3. RasterOfFile' = RasterOfFile
    BY DEF source, RasterOfFile
  <1> QED
    BY <1>2, <1>3 DEF Promise!vars

\* A step that changes nothing shows nothing.
LEMMA StutteringKeepsPromise == ASSUME UNCHANGED vars PROVE UNCHANGED Promise!vars
  <1>1. UNCHANGED <<file, pc, call, grid, diagnostics, result>>
    BY DEF vars, source, caller
  <1>2. RasterOfFile' = RasterOfFile /\ (Returned' <=> Returned)
    BY <1>1 DEF RasterOfFile, Returned
  <1>3. \A p : SampleAt(grid[p])' = SampleAt(grid[p])
    BY <1>1, CellsSay
  <1>4. AnswerOfCall' = AnswerOfCall
    BY <1>1, <1>2, <1>3 DEF AnswerOfCall
  <1> QED
    BY <1>1, <1>2, <1>4 DEF Promise!vars

\* Every step of the reader is a step of the promise, or none.
LEMMA StepKeepsPromise ==
  ASSUME Inv, Inv', Reads, Serves, RegularFile(file), [Next]_vars
  PROVE  [Promise!Next]_(Promise!vars)
  <1>1. CASE Call
    BY <1>1, AskKeepsPromise DEF Promise!Next
  <1>2. CASE Progress
    <2>1. CASE Finish \/ ReturnEmpty
      BY <2>1, FinishKeepsPromise, EmptyKeepsPromise
    <2>2. CASE Failing
      BY <1>2, <2>2, StepOutcome, RefuseKeepsPromise DEF Promise!Next
    <2>3. CASE pc' # "idle" /\ UNCHANGED <<source, call>>
      BY <1>2, <2>3, StepOutcome, RunningKeepsPromise
    <2> QED
      BY <1>2, <2>1, <2>2, <2>3, StepOutcome
  <1>3. CASE UNCHANGED vars
    BY <1>3, StutteringKeepsPromise
  <1> QED
    BY <1>1, <1>2, <1>3 DEF Next

\* Of a regular file, every call returns one error and no sample, or exactly the
\* samples it was asked for (GeoTiffReader::ReadWindow, ReadTile, ReadScanlines).
THEOREM PromiseIsKept == ASSUME EveryFileIsRegular PROVE Spec => ReaderKeepsItsPromise
  <1>1. Init => Promise!Init
    BY InitiallyPromised
  <1>2. Inv /\ Inv' /\ Reads /\ Serves /\ [Next]_vars => [Promise!Next]_(Promise!vars)
    BY FileIsRegular, StepKeepsPromise
  <1> QED
    BY <1>1, <1>2, ReaderInvariant, ReadsInvariant, ServesInvariant, PTL
    DEF Spec, ReaderKeepsItsPromise, Promise!Spec

-----------------------------------------------------------------------------
(***************************************************************************)
(* The statistics count the reads.                                         *)
(***************************************************************************)

\* Reads as the statistics count them.
Reads3 == [offset : Nat, size : Nat, bytes : Nat]

\* The bytes of each.
BytesEach(reads) == [n \in DOMAIN reads |-> reads[n].bytes]

\* What the property folds is a sum.
LEMMA BytesOfReadsAreASum ==
  ASSUME NEW reads \in Seq(Reads3)
  PROVE  /\ IsFiniteSet(DOMAIN reads)
         /\ \A n \in DOMAIN reads : BytesEach(reads)[n] \in Nat
         /\ BytesOf(reads) = SumOf(BytesEach(reads))
  <1> DEFINE S == DOMAIN reads
             v == BytesEach(reads)
             pick == [s \in SUBSET S |-> Max(s)]
  <1>1. S = 1 .. Len(reads) /\ Len(reads) \in Nat /\ \A n \in S : reads[n] \in Reads3
    OBVIOUS
  <1>2. IsFiniteSet(S)
    BY <1>1, FS_Interval
  <1>3. DOMAIN v = S /\ \A n \in S : v[n] = reads[n].bytes /\ v[n] \in Nat /\ v[n] \in Int
    BY <1>1 DEF BytesEach, Reads3
  <1>4. Picks(pick, S)
    <2> SUFFICES ASSUME NEW s \in SUBSET S, s # {} PROVE Max(s) \in s
      BY DEF Picks
    <2>1. s \subseteq 0 .. Len(reads)
      BY <1>1
    <2> HIDE DEF S
    <2> QED
      BY <1>1, <2>1, MaxOfBounded
  <1>5. PICK f : IsSumTable(f, S, v, pick)
    <2> HIDE DEF v, S, pick
    <2> QED
      BY <1>2, <1>3, <1>4, SumTableExists
  <1> DEFINE written(iter) ==
               iter = [s \in SUBSET S |->
                         IF s = {} THEN 0 ELSE iter[s \ {Max(s)}] + reads[Max(s)].bytes]
  <1>6. BytesOf(reads) = (CHOOSE iter : written(iter))[S]
    BY Zenon DEF BytesOf, FoldLeft, MapThenFoldSet
  <1> DEFINE added(iter) ==
               \A s \in SUBSET S : s # {} => iter[s] = v[pick[s]] + iter[s \ {pick[s]}]
  <1>7. ASSUME NEW iter, NEW s \in SUBSET S, s # {}
        PROVE  /\ pick[s] = Max(s) /\ pick[s] \in s /\ v[pick[s]] = reads[Max(s)].bytes
               /\ v[pick[s]] \in Int /\ s \ {pick[s]} \in SUBSET S
    <2>1. pick[s] = Max(s) /\ pick[s] \in s
      BY <1>4, <1>7 DEF Picks
    <2> QED
      BY <2>1, <1>3
  <1> HIDE DEF v, pick
  <1>8. written(f)
    <2>1. \A s \in SUBSET S : f[s] \in Int
      <3> HIDE DEF S
      <3> QED
        BY <1>2, <1>3, <1>4, <1>5, SumTakesOut
    <2>2. f = [s \in SUBSET S |-> IF s = {} THEN 0 ELSE v[pick[s]] + f[s \ {pick[s]}]]
      BY <1>5 DEF IsSumTable
    <2>3. ASSUME NEW s \in SUBSET S, s # {}
          PROVE  v[pick[s]] + f[s \ {pick[s]}] = f[s \ {Max(s)}] + reads[Max(s)].bytes
      <3>1. PICK a \in Int, b \in Int : a = v[pick[s]] /\ b = f[s \ {pick[s]}]
        BY <2>1, <2>3, <1>7
      <3>2. f[s \ {Max(s)}] = b /\ reads[Max(s)].bytes = a
        BY <2>3, <1>7, <3>1
      <3> QED
        BY <3>1, <3>2
    <2> DEFINE one(s) == v[pick[s]] + f[s \ {pick[s]}]
               two(s) == f[s \ {Max(s)}] + reads[Max(s)].bytes
    <2>4. \A s \in SUBSET S : s # {} => one(s) = two(s)
      BY <2>3
    <2>5. f = [s \in SUBSET S |-> IF s = {} THEN 0 ELSE one(s)]
      BY <2>2
    <2>6. written(f) <=> f = [s \in SUBSET S |-> IF s = {} THEN 0 ELSE two(s)]
      OBVIOUS
    <2> HIDE DEF one, two, S, written
    <2>7. [s \in SUBSET S |-> IF s = {} THEN 0 ELSE one(s)]
            = [s \in SUBSET S |-> IF s = {} THEN 0 ELSE two(s)]
      BY <2>4
    <2> QED
      BY <2>5, <2>6, <2>7
  <1>9. ASSUME NEW g, written(g) PROVE IsSumTable(g, S, v, pick)
    <2> DEFINE sum(s) == g[s \ {Max(s)}] + reads[Max(s)].bytes
               T == {s \in SUBSET S : g[s] \in Int}
    <2>1. g = [s \in SUBSET S |-> IF s = {} THEN 0 ELSE sum(s)]
      BY <1>9
    <2>2. ASSUME NEW s \in SUBSET S PROVE g[s] = IF s = {} THEN 0 ELSE sum(s)
      <3> HIDE DEF sum, S
      <3> QED
        BY <2>1
    <2>3. ASSUME NEW s \in SUBSET S, \A x \in s : s \ {x} \in T PROVE s \in T
      <3> HIDE DEF sum
      <3>1. CASE s = {}
        <4>1. g[s] = 0
          BY <2>2, <3>1
        <4> QED
          BY <4>1
      <3>2. CASE s # {}
        <4>1. PICK x \in s : x = Max(s) /\ x \in S /\ reads[x].bytes \in Int
          BY <1>7, <3>2
        <4>2. g[s \ {x}] \in Int
          BY <2>3, <4>1
        <4>3. g[s] = g[s \ {x}] + reads[x].bytes
          BY <2>2, <3>2, <4>1 DEF sum
        <4> QED
          BY <4>1, <4>2, <4>3
      <3> QED
        BY <3>1, <3>2
    <2>4. SUBSET S \subseteq T
      <3> HIDE DEF T, S
      <3> QED
        BY <1>2, <2>3, InductionOnSubsets
    <2>5. ASSUME NEW s \in SUBSET S, s # {}
          PROVE  sum(s) = v[pick[s]] + g[s \ {pick[s]}]
      <3>1. s \ {pick[s]} \in SUBSET S /\ v[pick[s]] \in Int
        BY <2>5, <1>7
      <3>2. g[s \ {pick[s]}] \in Int
        BY <2>4, <3>1
      <3>3. PICK a \in Int, b \in Int : a = v[pick[s]] /\ b = g[s \ {pick[s]}]
        BY <3>1, <3>2
      <3>4. g[s \ {Max(s)}] = b /\ reads[Max(s)].bytes = a
        BY <2>5, <1>7, <3>3
      <3> QED
        BY <3>3, <3>4
    <2> DEFINE two(s) == v[pick[s]] + g[s \ {pick[s]}]
    <2>6. \A s \in SUBSET S : s # {} => sum(s) = two(s)
      BY <2>5
    <2>7. IsSumTable(g, S, v, pick) <=> g = [s \in SUBSET S |-> IF s = {} THEN 0 ELSE two(s)]
      BY DEF IsSumTable
    <2> HIDE DEF sum, two, S, T
    <2>8. [s \in SUBSET S |-> IF s = {} THEN 0 ELSE sum(s)]
            = [s \in SUBSET S |-> IF s = {} THEN 0 ELSE two(s)]
      BY <2>6
    <2> QED
      BY <2>1, <2>7, <2>8
  <1>10. IsSumTable(CHOOSE iter : written(iter), S, v, pick)
    <2> HIDE DEF written, S
    <2>1. \E iter : written(iter)
      BY <1>8
    <2>2. written(CHOOSE iter : written(iter))
      BY <2>1, Zenon
    <2> QED
      BY <1>9, <2>2
  <1>11. (CHOOSE iter : written(iter))[S] = SumOf(v)
    <2> HIDE DEF written, S
    <2>1. \A n \in S : v[n] \in Int
      BY <1>3
    <2> QED
      BY <1>2, <1>3, <1>4, <1>10, <2>1, SumIsOfAnyTable
  <1> QED
    BY <1>2, <1>3, <1>6, <1>11 DEF v

\* One read more is its bytes more, and no read is none.
LEMMA OneReadMore ==
  ASSUME NEW reads \in Seq(Reads3), NEW read \in Reads3
  PROVE  BytesOf(Append(reads, read)) = BytesOf(reads) + read.bytes
  <1> DEFINE v == BytesEach(reads)
             longer == Append(reads, read)
             w == BytesEach(longer)
             x == Len(reads) + 1
  <1>1. /\ longer \in Seq(Reads3) /\ DOMAIN longer = DOMAIN reads \cup {x} /\ x \notin DOMAIN reads
        /\ longer[x] = read /\ \A n \in DOMAIN reads : longer[n] = reads[n]
    OBVIOUS
  <1>2. /\ DOMAIN v = DOMAIN reads /\ DOMAIN w = DOMAIN longer
        /\ w[x] = read.bytes /\ \A n \in DOMAIN v : w[n] = v[n]
    <2> HIDE DEF longer, x
    <2> QED
      BY <1>1 DEF BytesEach
  <1>3. /\ IsFiniteSet(DOMAIN reads) /\ \A n \in DOMAIN reads : v[n] \in Nat
        /\ BytesOf(reads) = SumOf(v) /\ BytesOf(longer) = SumOf(w)
    <2> HIDE DEF longer
    <2> QED
      BY <1>1, BytesOfReadsAreASum
  <1>4. (\A n \in DOMAIN v : v[n] \in Int) /\ w[x] \in Int
    BY <1>2, <1>3 DEF Reads3
  <1>5. SumOf(w) = w[x] + SumOf(v) /\ SumOf(v) \in Int
    <2>1. /\ IsFiniteSet(DOMAIN v) /\ x \notin DOMAIN v /\ DOMAIN w = DOMAIN v \cup {x}
          /\ \A n \in DOMAIN v : w[n] = v[n]
      <3> HIDE DEF v, w, x, longer
      <3> QED
        BY <1>1, <1>2, <1>3
    <2> HIDE DEF v, w, x, longer
    <2> QED
      BY <1>4, <2>1, SumOfOneMore
  <1> HIDE DEF v, w, x
  <1> QED
    BY <1>2, <1>3, <1>4, <1>5

\* Without reads it is zero.
LEMMA NoReads == BytesOf(<< >>) = 0
  <1>1. << >> \in Seq(Reads3) /\ DOMAIN BytesEach(<< >>) = {}
    BY DEF BytesEach
  <1> QED
    BY <1>1, BytesOfReadsAreASum, SumOfNone

-----------------------------------------------------------------------------
\* A read that goes to the source is counted, whatever came back.
LEMMA IssuesCount ==
  ASSUME Inv, Reads, pc = "segment", NEW offset \in Nat, NEW size \in Nat \ {0},
         NEW answer \in SourceAnswers(size), Issues(offset, size, answer),
         StatisticsCountTheReads
  PROVE  StatisticsCountTheReads'
  <1> DEFINE read == [offset |-> offset, size |-> size, bytes |-> answer.bytes]
  <1>1. read \in Reads3 /\ read.bytes = answer.bytes
    BY DEF SourceAnswers, Reads3
  <1>2. /\ statistics \in [requested : Nat, fetched : Nat, requests : Nat]
        /\ issued \in Seq(Reads3)
    BY DEF Inv, TypeOK, CallerTyped, Reads3
  <1>3. statistics.requests = Len(issued) /\ statistics.fetched = BytesOf(issued)
    BY DEF StatisticsCountTheReads
  <1>4. issued' = Append(issued, read)
    BY DEF Issues
  <1>5. statistics'.requests = statistics.requests + 1
        /\ statistics'.fetched = statistics.fetched + read.bytes
    BY <1>1, <1>2 DEF Issues
  <1> HIDE DEF read
  <1>6. Len(issued') = Len(issued) + 1
    BY <1>1, <1>2, <1>4
  <1>7. BytesOf(issued') = BytesOf(issued) + read.bytes
    BY <1>1, <1>2, <1>4, OneReadMore
  <1> QED
    BY <1>3, <1>5, <1>6, <1>7 DEF StatisticsCountTheReads

\* What a step does to the statistics and the reads.
LEMMA StatisticsSteps ==
  ASSUME Inv, [Next]_vars
  PROVE  \/ /\ issued' = << >> /\ (pc' = "parse" => statistics' = NoStatistics)
            /\ pc' \in {"parse", "parseTile", "parseRows"}
         \/ /\ pc \in {"parseTile", "parseRows"} /\ statistics' = NoStatistics /\ issued' = issued
         \/ Accept
         \/ /\ pc = "segment"
            /\ \E offset \in Nat, size \in Nat \ {0} : \E answer \in SourceAnswers(size) :
                 Issues(offset, size, answer)
         \/ /\ NoPixelData
            /\ pc' # "idle" => pc \notin {"idle", "parseTile", "parseRows"} \/ pc' = pc
  <1>1. CASE Call
    BY <1>1 DEF Call, ReadWindow, ReadTile, ReadScanlines, Begin
  <1>2. CASE FindWindow
    <2>1. ASSUME NEW k, FindTile(k) PROVE pc = "parseTile" /\ statistics' = NoStatistics /\ issued' = issued
      BY <2>1 DEF FindTile, CallReadWindow, Goes
    <2>2. ASSUME FindRows PROVE pc = "parseRows" /\ statistics' = NoStatistics /\ issued' = issued
      BY <2>2 DEF FindRows, CallReadWindow, Goes
    <2>3. ASSUME RefuseRows \/ \E k \in DOMAIN file : RefuseTile(k) \/ RefuseTileLevel(k)
          PROVE  NoPixelData /\ pc' = "idle"
      BY <2>3 DEF RefuseRows, RefuseTile, RefuseTileLevel, Fail, FailWith
    <2> QED
      BY <1>2, <2>1, <2>2, <2>3 DEF FindWindow
  <1>3. CASE ParseStep
    <2>1. ASSUME NEW k, Parse(k) PROVE pc = "parse" /\ NoPixelData
      BY <2>1 DEF Parse, Goes
    <2>2. ASSUME ParseRefusesCompression \/ ParseRefusesLevel \/ \E code \in ParserErrors : ParseFails(code)
          PROVE  NoPixelData /\ pc' = "idle"
      BY <2>2 DEF ParseRefusesCompression, ParseRefusesLevel, ParseFails, Fail, FailWith
    <2> QED
      BY <1>3, <2>1, <2>2 DEF ParseStep
  <1>4. CASE CheckStep
    BY <1>4 DEF CheckStep, RefuseBand, RefuseLevel, RefuseWindow, RefuseLayout, RefuseSize, Refuse,
       Fail, FailWith
  <1>5. CASE PlanStep
    <2>1. ASSUME PlanSegment \/ Coalesce \/ MeasureBatch
          PROVE  NoPixelData /\ pc' = pc
      BY <2>1 DEF PlanSegment, Coalesce, MeasureBatch, NoPixelData, caller
    <2>2. ASSUME PlanDone \/ CoalesceDone \/ MeasureDone \/ KeepWithinBudget
          PROVE  NoPixelData /\ pc \in {"plan", "coalesce", "measure", "budget"}
      BY <2>2 DEF PlanDone, CoalesceDone, MeasureDone, KeepWithinBudget, Goes
    <2>3. ASSUME RefuseSegment \/ RefuseBatch \/ RefuseBudget
          PROVE  NoPixelData /\ pc' = "idle"
      BY <2>3 DEF RefuseSegment, RefuseBatch, RefuseBudget, Fail, FailWith
    <2> QED
      BY <1>5, <2>1, <2>2, <2>3 DEF PlanStep
  <1>6. CASE ReadStep
    <2>1. ASSUME Allocate \/ (\E met \in BOOLEAN : Open(met)) \/ ReuseBatch \/ CopySegment
          PROVE  NoPixelData /\ pc \in {"open", "allocate", "segment", "copy"}
      BY <2>1 DEF Allocate, Open, ReuseBatch, CopySegment, Goes
    <2>2. ASSUME Cancel \/ OpenFails \/ ReturnEmpty \/ RefuseGrid \/ RefuseDecoding \/ CopyFails
                   \/ Finish \/ AllocationFails
          PROVE  NoPixelData /\ pc' = "idle"
      BY <2>2 DEF Cancel, OpenFails, ReturnEmpty, RefuseGrid, RefuseDecoding, CopyFails, Finish,
         AllocationFails, Fail, FailWith, Succeed
    <2>3. ASSUME LoadBatch \/ LoadFails
          PROVE  /\ pc = "segment"
                 /\ \E offset \in Nat, size \in Nat \ {0} : \E answer \in SourceAnswers(size) :
                      Issues(offset, size, answer)
      <3>1. NeedsBatch /\ pc = "segment" /\ cursor <= Len(plan) /\ ~UseLibTiff
        BY <2>3 DEF LoadBatch, LoadFails, NeedsBatch, AtSegment
      <3>2. BatchHere.offset \in Nat /\ BatchHere.size \in Nat \ {0}
        BY <3>1, AtSegmentFacts DEF BatchHere, Batch
      <3> QED
        BY <2>3, <3>1, <3>2 DEF LoadBatch, LoadFails
    <2>4. ASSUME (\E missing \in {0, 1} : DecodeSegment(missing)) \/ DecodeFails
          PROVE  \/ NoPixelData /\ pc' = "idle"
                 \/ /\ pc = "segment"
                    /\ \E offset \in Nat, size \in Nat \ {0} : \E answer \in SourceAnswers(size) :
                         Issues(offset, size, answer)
      <3>1. NeedsDecoding /\ pc = "segment" /\ cursor <= Len(plan) /\ UseLibTiff
        BY <2>4 DEF DecodeSegment, DecodeFails, NeedsDecoding, AtSegment
      <3>2. LibTiffHas(plan[cursor]) =>
              /\ EncodedSegment(plan[cursor]).offset \in Nat
              /\ EncodedSegment(plan[cursor]).byteCount \in Nat \ {0}
        BY <3>1, AtSegmentFacts, LibTiffFacts
      <3> QED
        BY <2>4, <3>1, <3>2 DEF DecodeSegment, DecodeFails, LibTiffReads, Fail, FailWith
    <2> QED
      BY <1>6, <2>1, <2>2, <2>3, <2>4 DEF ReadStep
  <1>7. CASE UNCHANGED vars
    BY <1>7 DEF vars, caller, NoPixelData
  <1> QED
    BY <1>1, <1>2, <1>3, <1>4, <1>5, <1>6, <1>7 DEF Next, Progress

\* Every step counts what it reads.
LEMMA StepCounts ==
  ASSUME Inv, Reads, [Next]_vars, StatisticsCountTheReads
  PROVE  StatisticsCountTheReads'
  <1>1. NoStatistics.requests = 0 /\ NoStatistics.fetched = 0 /\ BytesOf(<< >>) = 0 /\ Len(<< >>) = 0
    BY NoReads DEF NoStatistics
  <1>2. CASE /\ issued' = << >> /\ (pc' = "parse" => statistics' = NoStatistics)
             /\ pc' \in {"parse", "parseTile", "parseRows"}
    BY <1>1, <1>2 DEF StatisticsCountTheReads
  <1>3. CASE pc \in {"parseTile", "parseRows"} /\ statistics' = NoStatistics /\ issued' = issued
    <2>1. issued = << >>
      BY <1>3 DEF Reads, ReadSoFar
    <2> QED
      BY <1>1, <1>3, <2>1 DEF StatisticsCountTheReads
  <1>4. CASE Accept
    <2>1. pc = "check" /\ issued' = issued
          /\ statistics'.requests = statistics.requests /\ statistics'.fetched = statistics.fetched
      BY <1>4 DEF Accept, Goes, Inv, TypeOK, CallerTyped
    <2> QED
      BY <2>1 DEF StatisticsCountTheReads
  <1>5. CASE /\ pc = "segment"
             /\ \E offset \in Nat, size \in Nat \ {0} : \E answer \in SourceAnswers(size) :
                  Issues(offset, size, answer)
    BY <1>5, IssuesCount
  <1>6. CASE /\ NoPixelData
             /\ pc' # "idle" => pc \notin {"idle", "parseTile", "parseRows"} \/ pc' = pc
    BY <1>6 DEF StatisticsCountTheReads, NoPixelData
  <1> QED
    BY <1>2, <1>3, <1>4, <1>5, <1>6, StatisticsSteps

\* The statistics count the reads (RasterReadStatistics).
THEOREM StatisticsCount == Spec => []StatisticsCountTheReads
  <1>1. Init => StatisticsCountTheReads
    BY DEF Init, StatisticsCountTheReads
  <1> QED
    BY <1>1, StepCounts, ReaderInvariant, ReadsInvariant, PTL DEF Spec
=============================================================================
