------------------------- MODULE GeoTiffReaderProofs -------------------------
(***************************************************************************)
(* The safety of the windowed reader, for every file, call, source and     *)
(* build: a failure leaves nothing behind, every index is in range, a      *)
(* segment lies in its batch.  Then what it reads and holds: each batch    *)
(* once, and never more than the budget set aside.  The second part        *)
(* follows from a second invariant, on top of the first.                   *)
(***************************************************************************)
EXTENDS GeoTiffReader, WindowLemmas

\* The checks have passed; the batches are made.
Opened  == {"plan", "coalesce", "measure", "budget", "open", "allocate", "segment", "copy"}
Batched == {"measure", "budget", "open", "allocate", "segment", "copy"}

\* A running call has not returned, and what it plans starts from nothing.
Running == pc # "idle" => result = "none"

Fresh == pc \notin Opened => plan = << >> /\ batches = << >> /\ batchOf = << >> /\ loaded = 0

\* The checks still hold while their results are used.
Accepted == pc \in Opened => Countable

\* The n-th entry of batchOf is the batch of the n-th planned segment.
Numbered ==
  /\ pc = "plan" => batches = << >> /\ batchOf = << >>
  /\ pc = "coalesce" => ~UseLibTiff /\ cursor > 0 /\ Len(batchOf) = cursor - 1
                          /\ Len(batchOf) <= Len(plan)
  /\ pc \in Batched => cursor > 0 /\ (~UseLibTiff => Len(batchOf) = Len(plan))

\* A planned segment that has a batch lies inside it.
LiesIn(segment, batch) ==
  /\ segment.offset >= batch.offset
  /\ segment.offset + segment.byteCount <= batch.offset + batch.size

Placed ==
  \A n \in DOMAIN batchOf : n \in DOMAIN plan /\ LiesIn(SegmentOf(plan[n]), batches[batchOf[n]])

\* The buffer holds the batch that was loaded last, and a segment is copied
\* from the batch it is in.
Buffered ==
  /\ pc \notin {"segment", "copy"} => loaded = 0
  /\ loaded # 0 => buffer = batches[loaded]
  /\ pc = "copy" => cursor <= Len(plan) /\ (~UseLibTiff => loaded = batchOf[cursor])

Inv ==
  /\ TypeOK
  /\ FailureIsClean
  /\ Running
  /\ Fresh
  /\ Accepted
  /\ Numbered
  /\ Placed
  /\ BatchesAreBounded
  /\ Buffered

-----------------------------------------------------------------------------
(***************************************************************************)
(* What a validated directory guarantees: its segments tile the image and  *)
(* each of them is in the tables.                                          *)
(***************************************************************************)

\* The fields of a directory.
LEMMA DirectoryFields ==
  ASSUME NEW d, ValidDirectory(d)
  PROVE  /\ d.width \in Nat \ {0} /\ d.height \in Nat \ {0}
         /\ d.segmentWidth \in Nat \ {0} /\ d.segmentHeight \in Nat \ {0}
         /\ d.pixelStride \in Nat \ {0}
         /\ d.planar \in {1, 2} /\ d.predictor \in 1 .. 3
         /\ d.tiled \in BOOLEAN /\ d.compressed \in BOOLEAN
         /\ Len(d.sampleBytes) \in Nat \ {0}
         /\ \A b \in Bands(d) : d.sampleBytes[b] \in Nat \ {0} /\ d.sampleOffsets[b] \in Nat
         /\ d.segments \in Seq(Segment)
         /\ Len(d.segments) = SegmentsPerPlane(d) * Planes(d)
  <1> d \in Directory
    BY DEF ValidDirectory
  <1>1. d.sampleBytes \in Seq(Nat \ {0}) /\ d.sampleOffsets \in Seq(Nat)
    BY DEF Directory
  <1>2. Len(d.sampleBytes) > 0 /\ Len(d.sampleOffsets) = Len(d.sampleBytes)
    BY DEF ValidDirectory
  <1>3. Len(d.segments) = SegmentsPerPlane(d) * Planes(d)
    BY DEF ValidDirectory
  <1>4. \A b \in Bands(d) : d.sampleBytes[b] \in Nat \ {0} /\ d.sampleOffsets[b] \in Nat
    BY <1>1, <1>2 DEF Bands
  <1> QED
    BY <1>1, <1>2, <1>3, <1>4 DEF Directory

\* Segments across, down and in a plane are at least one.
LEMMA SegmentCounts ==
  ASSUME NEW d, ValidDirectory(d)
  PROVE  /\ SegmentsAcross(d) \in Nat \ {0}
         /\ SegmentsDown(d) \in Nat \ {0}
         /\ SegmentsPerPlane(d) \in Nat \ {0}
  <1>1. SegmentsAcross(d) \in Nat \ {0}
    <2>1. d.width - 1 \in Nat /\ d.segmentWidth \in Nat \ {0}
      BY DirectoryFields
    <2>2. (d.width - 1) \div d.segmentWidth \in Nat
      BY <2>1, DivisionFacts
    <2> QED
      BY <2>2 DEF SegmentsAcross
  <1>2. SegmentsDown(d) \in Nat \ {0}
    <2>1. d.height - 1 \in Nat /\ d.segmentHeight \in Nat \ {0}
      BY DirectoryFields
    <2>2. (d.height - 1) \div d.segmentHeight \in Nat
      BY <2>1, DivisionFacts
    <2> QED
      BY <2>2 DEF SegmentsDown
  <1> QED
    BY <1>1, <1>2, ProductFacts DEF SegmentsPerPlane

\* A count of pieces of the given size: the last one still starts inside.
LEMMA LastPieceStartsInside ==
  ASSUME NEW extent \in Nat \ {0}, NEW size \in Nat \ {0}, NEW k \in Nat,
         k < (extent - 1) \div size + 1
  PROVE  k * size \in Nat /\ k * size < extent
  <1> DEFINE q == (extent - 1) \div size
  <1>1. q \in Nat /\ size * q <= extent - 1 /\ size * q \in Nat
    BY DivisionFacts, ProductFacts
  <1>2. k <= q
    BY <1>1
  <1>3. size * k <= size * q /\ size * k = k * size /\ k * size \in Nat
    BY <1>1, <1>2, ProductMonotone, ProductFacts
  <1> QED
    BY <1>1, <1>3

\* A segment of a plane is a window of the image that holds a pixel.
LEMMA SegmentIsInTheImage ==
  ASSUME NEW d, ValidDirectory(d), NEW i \in Nat, i < SegmentsPerPlane(d)
  PROVE  /\ SegmentWindow(d, i) \in NatWindow
         /\ SegmentWindow(d, i).width > 0 /\ SegmentWindow(d, i).height > 0
         /\ SegmentWindow(d, i).x + SegmentWindow(d, i).width <= d.width
         /\ SegmentWindow(d, i).y + SegmentWindow(d, i).height <= d.height
         /\ SegmentWindow(d, i).width <= d.segmentWidth
         /\ SegmentWindow(d, i).height <= d.segmentHeight
  <1> DEFINE column == i % SegmentsAcross(d)
             row    == i \div SegmentsAcross(d)
             left   == column * d.segmentWidth
             top    == row * d.segmentHeight
  <1>1. /\ SegmentsAcross(d) \in Nat \ {0} /\ SegmentsDown(d) \in Nat \ {0}
        /\ SegmentsPerPlane(d) = SegmentsAcross(d) * SegmentsDown(d)
    BY SegmentCounts DEF SegmentsPerPlane
  <1>2. /\ d.width \in Nat \ {0} /\ d.height \in Nat \ {0}
        /\ d.segmentWidth \in Nat \ {0} /\ d.segmentHeight \in Nat \ {0}
    BY DirectoryFields
  <1>3. column \in Nat /\ column < SegmentsAcross(d)
    BY <1>1, DivisionFacts
  <1>4. row \in Nat /\ row < SegmentsDown(d)
    BY <1>1, DivisionFacts, QuotientBelow
  <1>5. left \in Nat /\ left < d.width
    BY <1>2, <1>3, LastPieceStartsInside DEF SegmentsAcross
  <1>6. top \in Nat /\ top < d.height
    BY <1>2, <1>4, LastPieceStartsInside DEF SegmentsDown
  <1>7. SegmentWindow(d, i) =
          [x |-> left, y |-> top, width |-> SmallerOf(d.segmentWidth, d.width - left),
           height |-> SmallerOf(d.segmentHeight, d.height - top)]
    BY DEF SegmentWindow
  <1> HIDE DEF left, top
  <1> QED
    BY <1>2, <1>5, <1>6, <1>7 DEF SmallerOf, NatWindow

\* The segment of a plane is in the tables, after those of the planes before.
LEMMA SegmentIsInTheTables ==
  ASSUME NEW d, ValidDirectory(d), NEW i \in Nat, i < SegmentsPerPlane(d),
         NEW plane \in Nat, plane < Planes(d)
  PROVE  /\ plane * SegmentsPerPlane(d) + i \in Nat
         /\ plane * SegmentsPerPlane(d) + i < Len(d.segments)
  <1> DEFINE n == SegmentsPerPlane(d)
  <1>1. n \in Nat \ {0} /\ Planes(d) \in Nat /\ Len(d.segments) = n * Planes(d)
    BY SegmentCounts, DirectoryFields DEF Planes
  <1> HIDE DEF n
  <1>2. plane * n \in Nat /\ plane * n = n * plane
    BY <1>1, ProductFacts
  <1>3. n * (plane + 1) <= n * Planes(d)
    BY <1>1, ProductMonotone
  <1>4. n * (plane + 1) = n * plane + n
    BY <1>1
  <1>5. n * Planes(d) \in Nat
    BY <1>1, ProductFacts
  <1>6. i < n
    BY DEF n
  <1>7. plane * n + i \in Nat /\ plane * n + i < Len(d.segments)
    BY <1>1, <1>2, <1>3, <1>4, <1>5, <1>6
  <1> QED
    BY <1>7 DEF n

-----------------------------------------------------------------------------
\* The invariant holds before the first call.
LEMMA InitiallyInv == Init => Inv
  <1> SUFFICES ASSUME Init PROVE Inv
    OBVIOUS
  <1> USE DEF Init
  <1>1. 0 \in DOMAIN file
    BY FilesAssumption DEF ValidFile
  <1>2. CallTyped
    BY <1>1 DEF CallTyped, ControlStates, EmptyWindow
  <1>3. PlanTyped
    BY DEF PlanTyped
  <1>4. DecodingTyped
    <2>1. loaded \in 0 .. Len(batches) /\ available \in Nat
      OBVIOUS
    <2>2. failed \in BOOLEAN
      BY Zenon
    <2>3. buffer \in [offset : Nat, size : Nat]
      BY DEF NoBuffer
    <2> QED
      BY <2>1, <2>2, <2>3 DEF DecodingTyped
  <1>5. CallerTyped
    BY DEF CallerTyped, NoGrid, NoStatistics, NoDiagnostics
  <1>6. FailureIsClean
    BY DEF FailureIsClean, NoDiagnostics
  <1>7. Running /\ Fresh /\ Accepted /\ Numbered /\ Placed /\ BatchesAreBounded /\ Buffered
    BY DEF Running, Fresh, Accepted, Numbered, Placed, BatchesAreBounded, Buffered, Opened, Batched
  <1> QED
    BY <1>2, <1>3, <1>4, <1>5, <1>6, <1>7 DEF Inv, TypeOK

-----------------------------------------------------------------------------
(***************************************************************************)
(* Returning.                                                              *)
(***************************************************************************)

\* Whatever a call returns, it leaves no plan, no batch and no buffer.
LEMMA ReturnPreserves ==
  ASSUME Inv, pc' = "idle", LocalsDie, UNCHANGED <<source, call>>, CallerTyped', FailureIsClean'
  PROVE  Inv'
  <1>1. /\ window' = EmptyWindow /\ directory' = 0 /\ cursor' = 0
        /\ plan' = << >> /\ batches' = << >> /\ batchOf' = << >> /\ workspace' = 0
        /\ loaded' = 0 /\ buffer' = NoBuffer /\ available' = 0 /\ failed' = FALSE
    BY DEF LocalsDie
  <1>2. CallTyped'
    <2>1. /\ 0 \in DOMAIN file' /\ file' \in Files /\ libTiff' \in LibTiffBuilds
          /\ call' \in Questions \cup {NoQuestion}
      BY FilesAssumption DEF Inv, TypeOK, CallTyped, ValidFile, source
    <2> QED
      BY <1>1, <2>1 DEF CallTyped, ControlStates, EmptyWindow
  <1>3. PlanTyped' /\ DecodingTyped'
    <2>1. loaded' \in 0 .. Len(batches') /\ available' \in Nat
      BY <1>1
    <2>2. failed' \in BOOLEAN
      BY <1>1, Zenon
    <2>3. buffer' \in [offset : Nat, size : Nat]
      BY <1>1 DEF NoBuffer
    <2>4. PlanTyped'
      BY <1>1 DEF PlanTyped
    <2> QED
      BY <2>1, <2>2, <2>3, <2>4 DEF DecodingTyped
  <1>4. (Running /\ Fresh /\ Accepted /\ Numbered /\ Placed /\ BatchesAreBounded /\ Buffered)'
    BY <1>1
    DEF Running, Fresh, Accepted, Numbered, Placed, BatchesAreBounded, Buffered, Opened, Batched
  <1> QED
    BY <1>2, <1>3, <1>4 DEF Inv, TypeOK

\* What a step adds to the statistics is still a count.
Counted ==
  /\ statistics' \in [requested : Nat, fetched : Nat, requests : Nat]
  /\ issued' \in Seq([offset : Nat, size : Nat, bytes : Nat])

\* A step that reads no pixel data keeps the account.
LEMMA NothingCounted == ASSUME Inv, NoPixelData PROVE Counted
  BY DEF Inv, TypeOK, CallerTyped, NoPixelData, Counted

\* A call that fails leaves the invariant behind it, wherever it failed: it had
\* reported no error before.
LEMMA FailurePreserves ==
  ASSUME Inv, pc # "idle", NEW code \in ErrorCodes, NEW partial, FailWith(code, partial), Counted,
         DOMAIN partial = {}, partial \in [{} -> Cell]
  PROVE  Inv'
  <1>1. diagnostics.errors = << >> /\ diagnostics \in [errors : Seq(ErrorCodes), warnings : Nat]
    BY DEF Inv, Running, FailureIsClean, TypeOK, CallerTyped
  <1>2. /\ diagnostics' = [diagnostics EXCEPT !.errors = Append(@, code)]
        /\ result' = "failed" /\ grid' = partial
    BY DEF FailWith
  <1>3. diagnostics' \in [errors : Seq(ErrorCodes), warnings : Nat] /\ Len(diagnostics'.errors) = 1
    <2>1. Append(diagnostics.errors, code) \in Seq(ErrorCodes) /\ Len(Append(diagnostics.errors, code)) = 1
      BY <1>1
    <2> QED
      BY <1>1, <1>2, <2>1
  <1>4. DOMAIN grid' = {} /\ grid' \in [DOMAIN grid' -> Cell]
    BY <1>2
  <1>5. CallerTyped'
    BY <1>2, <1>3, <1>4 DEF CallerTyped, Counted
  <1>6. FailureIsClean'
    BY <1>2, <1>3, <1>4 DEF FailureIsClean
  <1>7. pc' = "idle" /\ LocalsDie /\ UNCHANGED <<source, call>>
    BY DEF FailWith
  <1> QED
    BY <1>5, <1>6, <1>7, ReturnPreserves

\* Every failure that releases the grid keeps the invariant (AddReadError).
LEMMA FailPreserves ==
  ASSUME Inv, pc # "idle", NEW code \in ErrorCodes, Fail(code), Counted
  PROVE  Inv'
  <1>1. DOMAIN NoGrid = {} /\ NoGrid \in [{} -> Cell]
    BY DEF NoGrid
  <1> QED
    BY <1>1, FailurePreserves DEF Fail

\* Every refusal that reads no pixel data keeps the invariant.
LEMMA RefusalPreserves ==
  ASSUME Inv, pc # "idle", NoPixelData, \E code \in ErrorCodes : Fail(code)
  PROVE  Inv'
  BY FailPreserves, NothingCounted

\* A call that succeeds keeps the grid it filled and reports no error.
LEMMA SuccessPreserves ==
  ASSUME Inv, pc # "idle", Succeed, NoPixelData,
         DOMAIN grid' \subseteq Nat \X Nat, grid' \in [DOMAIN grid' -> Cell]
  PROVE  Inv'
  <1>1. diagnostics.errors = << >> /\ diagnostics \in [errors : Seq(ErrorCodes), warnings : Nat]
    BY DEF Inv, Running, FailureIsClean, TypeOK, CallerTyped
  <1>2. diagnostics' = diagnostics /\ result' = "ok"
    BY DEF Succeed
  <1>3. CallerTyped'
    BY <1>1, <1>2, NothingCounted DEF CallerTyped, Counted
  <1>4. FailureIsClean'
    BY <1>1, <1>2 DEF FailureIsClean
  <1>5. pc' = "idle" /\ LocalsDie /\ UNCHANGED <<source, call>>
    BY DEF Succeed
  <1> QED
    BY <1>3, <1>4, <1>5, ReturnPreserves

-----------------------------------------------------------------------------
(***************************************************************************)
(* The file of the call.                                                   *)
(***************************************************************************)
\* The directories of the file are valid, the one that serves the read too.
LEMMA FileFacts ==
  ASSUME Inv
  PROVE  /\ ValidFile(file) /\ 0 \in DOMAIN file /\ directory \in DOMAIN file
         /\ \A k \in DOMAIN file : ValidDirectory(file[k])
         /\ ValidDirectory(file[0]) /\ ValidDirectory(Layout)
         /\ window \in NatWindow
  BY FilesAssumption DEF Inv, TypeOK, CallTyped, ValidFile, Layout, NatWindow

\* The arguments of a running call are words (RasterReadOptions).
LEMMA QuestionFacts ==
  ASSUME Inv, pc # "idle"
  PROVE  /\ call \in Question /\ call \in Questions
         /\ call.step \in Nat /\ Step \in Nat /\ Step >= 1
         /\ call.x \in Nat /\ call.y \in Nat /\ call.width \in Nat /\ call.height \in Nat
         /\ call.level \in Nat /\ call.band \in Nat /\ call.budget \in Nat
  <1>1. call \in Question /\ call \in Questions
    BY QuestionsAssumption DEF Inv, TypeOK, CallTyped
  <1>2. /\ call.x \in Nat /\ call.y \in Nat /\ call.width \in Nat /\ call.height \in Nat
        /\ call.level \in Nat /\ call.band \in Nat /\ call.budget \in Nat /\ call.step \in Nat
    BY <1>1, MaxCoordAssumption DEF Question, Coord
  <1>3. Step \in Nat /\ Step >= 1
    BY <1>2 DEF Step, LargerOf
  <1> QED
    BY <1>1, <1>2, <1>3

\* Every level has a factor, the one of the full resolution is 1.
LEMMA FactorType ==
  ASSUME Inv, NEW k \in DOMAIN file
  PROVE  Factor(k) \in Nat
  <1>1. file[0].width \in Nat /\ file[k].width \in Nat
    BY FileFacts, DirectoryFields
  <1> QED
    BY <1>1, OverviewFactorType DEF Factor

\* The grid has a row and a column count, and no cell when one of them is zero.
LEMMA SampledFacts ==
  ASSUME Inv, pc # "idle"
  PROVE  /\ EffectiveStep \in Nat /\ EffectiveStep >= 1
         /\ Sampled.width \in Nat /\ Sampled.height \in Nat
         /\ SampledCount \in Nat
         /\ SampledCount = 0 <=> Sampled.width = 0 \/ Sampled.height = 0
         /\ Outputs \subseteq Nat \X Nat
  <1>1. EffectiveStep \in Nat /\ EffectiveStep >= 1
    BY QuestionFacts, FileFacts, FactorType DEF EffectiveStep, LargerOf
  <1>2. Sampled.width \in Nat /\ Sampled.height \in Nat
    <2>1. window.width \in Nat /\ window.height \in Nat
      BY FileFacts DEF NatWindow
    <2>2. /\ SampledExtent(window.width, EffectiveStep) \in Nat
          /\ SampledExtent(window.height, EffectiveStep) \in Nat
      BY <1>1, <2>1, SampledExtentType
    <2> QED
      BY <2>2 DEF Sampled, SampledSize
  <1>3. SampledCount \in Nat /\ (SampledCount = 0 <=> Sampled.width = 0 \/ Sampled.height = 0)
    <2>1. /\ SampledCount \in Coord
          /\ SampledCount = 0 <=> Sampled.width = 0 \/ Sampled.height = 0
      BY <1>2, PixelCountZero DEF SampledCount
    <2> QED
      BY <2>1, MaxCoordAssumption DEF Coord
  <1>4. Outputs \subseteq Nat \X Nat
    BY <1>2 DEF Outputs
  <1> QED
    BY <1>1, <1>2, <1>3, <1>4

\* A new grid has a cell for each sample (RasterGrid).
LEMMA NewGridIsTyped ==
  ASSUME Inv, pc # "idle"
  PROVE  /\ DOMAIN NewGrid = Outputs
         /\ DOMAIN NewGrid \subseteq Nat \X Nat /\ NewGrid \in [DOMAIN NewGrid -> Cell]
         /\ SampledCount = 0 => DOMAIN NewGrid = {}
  <1>1. DOMAIN NewGrid = Outputs
    BY DEF NewGrid
  <1>2. Unwritten \in Cell
    <2>1. 0 \in Nat /\ -1 \in Nat \cup {-1}
      OBVIOUS
    <2> QED
      BY <2>1 DEF Unwritten, Cell
  <1>3. NewGrid \in [DOMAIN NewGrid -> Cell]
    BY <1>2 DEF NewGrid
  <1>4. SampledCount = 0 => Outputs = {}
    BY SampledFacts DEF Outputs
  <1> QED
    BY <1>1, <1>3, <1>4, SampledFacts

\* What the accepted checks establish about the band and its level.
LEMMA AcceptedFacts ==
  ASSUME Inv, Countable, pc # "idle"
  PROVE  /\ call.band \in Bands(file[0]) /\ call.band \in Bands(Layout)
         /\ Factor(directory) \in Nat \ {0}
         /\ SampleBytes \in Nat \ {0} /\ SampleStride \in Nat \ {0}
         /\ RowStride \in Nat \ {0}
         /\ Layout.sampleOffsets[call.band] \in Nat
  <1>1. call.band \in Bands(file[0]) /\ Factor(directory) # 0
    BY DEF Countable, RowsAddressable, InRaster, LevelScaled, BandExists, Bands
  <1>2. Factor(directory) \in Nat \ {0}
    BY <1>1, FileFacts, FactorType
  <1>3. call.band \in Bands(Layout)
    BY <1>1, FileFacts DEF ValidFile, Bands, Layout
  <1>4. SampleBytes \in Nat \ {0} /\ Layout.sampleOffsets[call.band] \in Nat
    BY <1>3, FileFacts, DirectoryFields DEF SampleBytes
  <1>5. SampleStride \in Nat \ {0}
    BY <1>4, FileFacts, DirectoryFields DEF SampleStride
  <1>6. RowStride \in Nat \ {0}
    <2>1. Layout.segmentWidth \in Nat \ {0}
      BY FileFacts, DirectoryFields
    <2> QED
      BY <1>5, <2>1, ProductFacts DEF RowStride
  <1> QED
    BY <1>1, <1>2, <1>3, <1>4, <1>5, <1>6

\* The tables hold a segment of the band for every place in the plane.
LEMMA SegmentFacts ==
  ASSUME Inv, Countable, pc # "idle", NEW i \in Nat, i < SegmentsPerPlane(Layout)
  PROVE  /\ SourceIndex(i) \in Nat /\ SourceIndex(i) < Len(Layout.segments)
         /\ SegmentOf(i) \in Segment
         /\ SegmentOf(i).offset \in Nat /\ SegmentOf(i).byteCount \in Nat \ {0}
         /\ DecodedBytes(i) \in Nat \ {0}
         /\ SegmentWorkspace(i) \in Nat
  <1>1. ValidDirectory(Layout) /\ call.band \in Bands(Layout)
    BY FileFacts, AcceptedFacts
  <1>2. SourceIndex(i) \in Nat /\ SourceIndex(i) < Len(Layout.segments)
    <2>1. CASE Layout.planar = 2
      <3>1. call.band - 1 \in Nat /\ call.band - 1 < Planes(Layout)
        BY <1>1, <2>1, DirectoryFields DEF Bands, Planes
      <3> QED
        BY <1>1, <2>1, <3>1, SegmentIsInTheTables DEF SourceIndex
    <2>2. CASE Layout.planar # 2
      <3>1. Planes(Layout) = 1 /\ SegmentsPerPlane(Layout) \in Nat
            /\ Len(Layout.segments) = SegmentsPerPlane(Layout) * Planes(Layout)
        BY <1>1, <2>2, DirectoryFields, SegmentCounts DEF Planes
      <3> QED
        BY <2>2, <3>1 DEF SourceIndex
    <2> QED
      BY <2>1, <2>2
  <1>3. SegmentOf(i) \in Segment
    <2>1. Layout.segments \in Seq(Segment)
      BY <1>1, DirectoryFields
    <2>2. SourceIndex(i) + 1 \in 1 .. Len(Layout.segments)
      BY <1>2, <2>1
    <2> QED
      BY <2>1, <2>2 DEF SegmentOf
  <1>4. SegmentOf(i).offset \in Nat /\ SegmentOf(i).byteCount \in Nat \ {0}
    BY <1>3 DEF Segment
  <1>5. DecodedBytes(i) \in Nat \ {0}
    <2>1. SegmentWindow(Layout, i).height \in Nat \ {0}
      BY <1>1, SegmentIsInTheImage DEF NatWindow
    <2> QED
      BY <2>1, AcceptedFacts, ProductFacts DEF DecodedBytes
  <1>6. SegmentWorkspace(i) \in Nat
    BY <1>4, <1>5, AcceptedFacts DEF SegmentWorkspace
  <1> QED
    BY <1>2, <1>3, <1>4, <1>5, <1>6

-----------------------------------------------------------------------------
(***************************************************************************)
(* Entry points, parsing and checks: nothing is planned yet.               *)
(***************************************************************************)

\* A step before planning keeps the invariant if it moves to a state before
\* planning, or to planning with the checks passed.
LEMMA EarlyStepPreserves ==
  ASSUME Inv, pc \notin Opened, pc' \in ControlStates \ {"idle"},
         pc' \notin Opened \/ (pc' = "plan" /\ Countable'),
         UNCHANGED source, CallTyped', UNCHANGED <<planning, decoding>>,
         CallerTyped', result' = "none", diagnostics'.errors = << >>
  PROVE  Inv'
  <1>1. plan = << >> /\ batches = << >> /\ batchOf = << >> /\ loaded = 0
    BY DEF Inv, Fresh
  <1>2. /\ plan' = << >> /\ batches' = << >> /\ batchOf' = << >> /\ loaded' = 0
        /\ workspace' = workspace /\ buffer' = buffer /\ available' = available
        /\ failed' = failed
    BY <1>1 DEF planning, decoding
  <1>3. PlanTyped'
    BY <1>2 DEF PlanTyped, Inv, TypeOK
  <1>4. DecodingTyped'
    BY <1>2 DEF DecodingTyped, Inv, TypeOK
  <1>5. FailureIsClean'
    BY DEF FailureIsClean
  <1>6. (Running /\ Fresh /\ Accepted)'
    BY <1>2 DEF Running, Fresh, Accepted, Opened
  <1>7. Numbered'
    BY <1>2 DEF Numbered, Opened, Batched
  <1>8. (Placed /\ BatchesAreBounded /\ Buffered)'
    BY <1>2 DEF Placed, BatchesAreBounded, Buffered, Opened
  <1> QED
    BY <1>3, <1>4, <1>5, <1>6, <1>7, <1>8 DEF Inv, TypeOK

\* Each entry point keeps the invariant: the caller passes a fresh sink.
LEMMA BeginPreserves ==
  ASSUME Inv, NEW q \in Questions, NEW kind, NEW next \in {"parse", "parseTile", "parseRows"},
         Begin(q, kind, next), window' \in NatWindow,
         statistics' \in [requested : Nat, fetched : Nat, requests : Nat]
  PROVE  Inv'
  <1>1. /\ pc = "idle" /\ pc' = next /\ call' = q /\ grid' = NoGrid
        /\ diagnostics' = NoDiagnostics /\ result' = "none" /\ issued' = << >>
        /\ UNCHANGED <<source, directory, cursor, planning, decoding>>
    BY DEF Begin
  <1>2. CallTyped'
    BY <1>1 DEF Inv, TypeOK, CallTyped, ControlStates, source, NatWindow
  <1>3. CallerTyped'
    <2>1. DOMAIN grid' \subseteq Nat \X Nat /\ grid' \in [DOMAIN grid' -> Cell]
      BY <1>1 DEF NoGrid
    <2> QED
      BY <1>1, <2>1 DEF CallerTyped, NoDiagnostics
  <1>4. diagnostics'.errors = << >>
    BY <1>1 DEF NoDiagnostics
  <1> QED
    BY <1>1, <1>2, <1>3, <1>4, EarlyStepPreserves DEF Opened, ControlStates

\* Beginning a call keeps the invariant (ReadWindow, ReadTile, ReadScanlines).
LEMMA CallPreserves == ASSUME Inv, Call PROVE Inv'
  <1>1. PICK q \in Questions : ReadWindow(q) \/ ReadTile(q) \/ ReadScanlines(q)
    BY DEF Call
  <1>2. NoStatistics \in [requested : Nat, fetched : Nat, requests : Nat]
    BY DEF NoStatistics
  <1>3. /\ statistics \in [requested : Nat, fetched : Nat, requests : Nat]
        /\ window \in NatWindow
    BY FileFacts DEF Inv, TypeOK, CallerTyped
  <1>4. CASE ReadWindow(q)
    <2>1. q \in Question
      BY QuestionsAssumption
    <2>2. window' \in NatWindow
      BY <1>4, <2>1, MaxCoordAssumption DEF ReadWindow, NatWindow, Question, Coord
    <2> QED
      BY <1>2, <1>4, <2>2, BeginPreserves DEF ReadWindow
  <1>5. CASE ReadTile(q)
    BY <1>3, <1>5, BeginPreserves DEF ReadTile
  <1>6. CASE ReadScanlines(q)
    BY <1>3, <1>6, BeginPreserves DEF ReadScanlines
  <1> QED
    BY <1>1, <1>4, <1>5, <1>6

\* A step of a running call that goes on: it reports nothing.
LEMMA GoesFacts ==
  ASSUME Inv, NEW from \in ControlStates \ {"idle"}, NEW to \in ControlStates \ {"idle"},
         Goes(from, to)
  PROVE  /\ pc = from /\ pc' = to /\ pc # "idle"
         /\ UNCHANGED <<source, file, libTiff, call>>
         /\ result' = "none" /\ diagnostics.errors = << >>
  BY DEF Goes, source, Inv, Running, FailureIsClean

\* The window of a tile in full-resolution coordinates is a window (ReadTile).
LEMMA TileWindowType ==
  ASSUME Inv, pc # "idle", NEW k \in DOMAIN file, TileExists(k)
  PROVE  TileWindow(k) \in NatWindow
  <1> DEFINE d    == file[k]
             left == call.x * d.segmentWidth
             top  == call.y * d.segmentHeight
             tile == [x |-> left, y |-> top, width |-> SmallerOf(d.segmentWidth, d.width - left),
                      height |-> SmallerOf(d.segmentHeight, d.height - top)]
             whole == [x |-> 0, y |-> 0, width |-> file[0].width, height |-> file[0].height]
  <1>1. /\ d.width \in Nat \ {0} /\ d.height \in Nat \ {0}
        /\ d.segmentWidth \in Nat \ {0} /\ d.segmentHeight \in Nat \ {0}
    BY FileFacts, DirectoryFields
  <1>2. /\ call.x \in Nat /\ call.x < (d.width - 1) \div d.segmentWidth + 1
        /\ call.y \in Nat /\ call.y < (d.height - 1) \div d.segmentHeight + 1
    BY QuestionFacts DEF TileExists, SegmentsAcross, SegmentsDown
  <1>3. left \in Nat /\ left < d.width /\ top \in Nat /\ top < d.height
    BY <1>1, <1>2, LastPieceStartsInside
  <1> HIDE DEF left, top
  <1>4. tile \in NatWindow
    BY <1>1, <1>3 DEF SmallerOf, NatWindow
  <1>5. whole \in NatWindow
    BY FileFacts, DirectoryFields DEF NatWindow
  <1>6. FromOverview(tile, Factor(k)) \in NatWindow
    BY <1>4, FactorType, FromOverviewType
  <1>7. Intersect(FromOverview(tile, Factor(k)), whole) \in NatWindow
    BY <1>5, <1>6, IntersectType
  <1> QED
    BY <1>7 DEF TileWindow, left, top

\* Finding or refusing the window of a tile or of rows keeps the invariant.
LEMMA FindWindowPreserves == ASSUME Inv, FindWindow PROVE Inv'
  <1>1. ASSUME NEW from \in Parsing, NEW w \in NatWindow, Goes(from, "parse"), CallReadWindow(w)
        PROVE  Inv'
    <2>1. /\ pc = from /\ pc' = "parse" /\ pc # "idle" /\ pc \notin Opened
          /\ UNCHANGED <<source, file, libTiff, call>>
          /\ result' = "none" /\ diagnostics.errors = << >>
      BY <1>1, GoesFacts DEF Parsing, ControlStates, Opened
    <2>2. /\ window' = w /\ statistics' = NoStatistics
          /\ UNCHANGED <<directory, cursor, planning, decoding, grid, diagnostics, issued>>
      BY <1>1 DEF CallReadWindow
    <2>3. CallTyped'
      BY <2>1, <2>2 DEF Inv, TypeOK, CallTyped, ControlStates, NatWindow
    <2>4. CallerTyped'
      BY <2>1, <2>2 DEF Inv, TypeOK, CallerTyped, NoStatistics
    <2> QED
      BY <2>1, <2>2, <2>3, <2>4, EarlyStepPreserves DEF Opened, ControlStates
  <1>2. ASSUME NEW k \in DOMAIN file, FindTile(k) PROVE Inv'
    <2>1. pc # "idle" /\ TileExists(k)
      BY <1>2 DEF FindTile, Goes
    <2> QED
      BY <1>1, <1>2, <2>1, TileWindowType DEF FindTile, Parsing
  <1>3. ASSUME FindRows PROVE Inv'
    <2>1. pc # "idle"
      BY <1>3 DEF FindRows, Goes
    <2>2. RowsWindow \in NatWindow
      BY <2>1, QuestionFacts, FileFacts, DirectoryFields DEF RowsWindow, NatWindow
    <2> QED
      BY <1>1, <1>3, <2>2 DEF FindRows, Parsing
  <1>4. ASSUME NEW k \in DOMAIN file, RefuseTile(k) \/ RefuseTileLevel(k) PROVE Inv'
    BY <1>4, RefusalPreserves DEF RefuseTile, RefuseTileLevel, ErrorCodes
  <1>5. ASSUME RefuseRows PROVE Inv'
    BY <1>5, RefusalPreserves DEF RefuseRows, ErrorCodes
  <1> QED
    BY <1>2, <1>3, <1>4, <1>5 DEF FindWindow

\* Parsing, with each way it fails, keeps the invariant (Parser::Run).
LEMMA ParsePreserves == ASSUME Inv, ParseStep PROVE Inv'
  <1>1. ASSUME NEW code \in ParserErrors, ParseFails(code) PROVE Inv'
    BY <1>1, RefusalPreserves DEF ParseFails, ParserErrors, Parsing, ErrorCodes
  <1>2. ASSUME ParseRefusesCompression \/ ParseRefusesLevel PROVE Inv'
    BY <1>2, RefusalPreserves
    DEF ParseRefusesCompression, ParseRefusesLevel, Parsing, ErrorCodes
  <1>3. ASSUME NEW k \in DOMAIN file, Parse(k) PROVE Inv'
    <2>1. /\ pc = "parse" /\ pc' = "check" /\ pc # "idle" /\ pc \notin Opened
          /\ UNCHANGED <<source, file, libTiff, call>>
          /\ result' = "none" /\ diagnostics.errors = << >>
      BY <1>3, GoesFacts DEF Parse, ControlStates, Opened
    <2>2. /\ directory' = k
          /\ UNCHANGED <<window, cursor, planning, decoding, grid, diagnostics, statistics, issued>>
      BY <1>3 DEF Parse, NoPixelData
    <2>3. CallTyped'
      BY <2>1, <2>2 DEF Inv, TypeOK, CallTyped, ControlStates
    <2>4. CallerTyped'
      BY <2>1, <2>2 DEF Inv, TypeOK, CallerTyped
    <2> QED
      BY <2>1, <2>2, <2>3, <2>4, EarlyStepPreserves DEF Opened, ControlStates
  <1> QED
    BY <1>1, <1>2, <1>3 DEF ParseStep

\* The checks read the file, the call, the window and the directory.
LEMMA SameCall ==
  ASSUME UNCHANGED <<file, libTiff, call, window, directory>>
  PROVE  /\ Layout' = Layout /\ (UseLibTiff' <=> UseLibTiff) /\ (Countable' <=> Countable)
         /\ \A i : SegmentOf(i)' = SegmentOf(i)
  BY DEF Layout, UseLibTiff, Countable, RowsAddressable, InRaster, LevelScaled, BandExists,
         Factor, RowStride, SampleStride, SampleBytes, SampledCount, Sampled, EffectiveStep,
         Step, SegmentOf, SourceIndex

\* Accepting or refusing the arguments keeps the invariant (ReadWindow).
LEMMA CheckPreserves == ASSUME Inv, CheckStep PROVE Inv'
  <1>1. ASSUME \E code \in ErrorCodes : Refuse(code) PROVE Inv'
    BY <1>1, RefusalPreserves DEF Refuse
  <1>2. ASSUME RefuseBand \/ RefuseLevel \/ RefuseWindow \/ RefuseLayout \/ RefuseSize PROVE Inv'
    BY <1>1, <1>2 DEF RefuseBand, RefuseLevel, RefuseWindow, RefuseLayout, RefuseSize, ErrorCodes
  <1>3. ASSUME Accept PROVE Inv'
    <2>1. /\ pc = "check" /\ pc' = "plan" /\ pc # "idle" /\ pc \notin Opened
          /\ UNCHANGED <<source, file, libTiff, call>>
          /\ result' = "none" /\ diagnostics.errors = << >>
      BY <1>3, GoesFacts DEF Accept, ControlStates, Opened
    <2>2. /\ Countable /\ cursor' = 0
          /\ statistics' = [statistics EXCEPT !.requested = window.width * window.height * SampleBytes]
          /\ UNCHANGED <<window, directory, planning, decoding, grid, diagnostics, issued>>
      BY <1>3 DEF Accept
    <2>3. CallTyped'
      BY <2>1, <2>2 DEF Inv, TypeOK, CallTyped, ControlStates
    <2>4. CallerTyped'
      <3>1. window.width * window.height * SampleBytes \in Nat
        BY <2>1, <2>2, FileFacts, AcceptedFacts DEF NatWindow
      <3> QED
        BY <2>1, <2>2, <3>1 DEF Inv, TypeOK, CallerTyped
    <2>5. Countable'
      BY <2>1, <2>2, SameCall
    <2> QED
      BY <2>1, <2>2, <2>3, <2>4, <2>5, EarlyStepPreserves DEF Opened, ControlStates
  <1> QED
    BY <1>2, <1>3 DEF CheckStep

-----------------------------------------------------------------------------
(***************************************************************************)
(* Planning.                                                               *)
(***************************************************************************)

\* What a step of an accepted call has to establish.
LEMMA OpenedStepPreserves ==
  ASSUME Inv, pc \in Opened, pc' \in Opened,
         UNCHANGED <<source, call, window, directory, result>>, cursor' \in Nat,
         PlanTyped', DecodingTyped', CallerTyped', diagnostics'.errors = << >>,
         Numbered', Placed', BatchesAreBounded', Buffered'
  PROVE  Inv'
  <1>1. pc # "idle" /\ pc' # "idle" /\ pc' \in ControlStates
    BY DEF Opened, ControlStates
  <1>2. result = "none" /\ Countable
    BY <1>1 DEF Inv, Running, Accepted
  <1>3. CallTyped'
    BY <1>1 DEF Inv, TypeOK, CallTyped, source
  <1>4. FailureIsClean' /\ Running' /\ Fresh'
    BY <1>1, <1>2 DEF FailureIsClean, Running, Fresh
  <1>5. Accepted'
    BY <1>2, SameCall DEF Accepted, source
  <1> QED
    BY <1>3, <1>4, <1>5 DEF Inv, TypeOK

\* What the plan says stays true as long as nothing it reads changes.
LEMMA PlanningKept ==
  ASSUME Inv, UNCHANGED <<source, call, window, directory, planning>>
  PROVE  PlanTyped' /\ Placed' /\ BatchesAreBounded'
  <1>1. Layout' = Layout /\ \A i : SegmentOf(i)' = SegmentOf(i)
    BY SameCall DEF source
  <1>2. plan' = plan /\ batches' = batches /\ batchOf' = batchOf /\ workspace' = workspace
    BY DEF planning
  <1>3. PlanTyped'
    BY <1>1, <1>2 DEF Inv, TypeOK, PlanTyped
  <1>4. Placed'
    BY <1>1, <1>2 DEF Inv, Placed
  <1>5. BatchesAreBounded'
    BY <1>1, <1>2 DEF Inv, BatchesAreBounded
  <1> QED
    BY <1>3, <1>4, <1>5

\* A step that only moves on.
LEMMA MovePreserves ==
  ASSUME Inv, NEW from \in Opened, NEW to \in Opened, Goes(from, to), cursor' \in Nat,
         UNCHANGED <<window, directory, planning>>, DecodingTyped', CallerTyped',
         diagnostics'.errors = << >>, Numbered', Buffered'
  PROVE  Inv'
  <1>1. pc \in Opened /\ pc' \in Opened /\ UNCHANGED <<source, call, result>>
    BY DEF Goes
  <1> QED
    BY <1>1, PlanningKept, OpenedStepPreserves

\* A call past its checks has an existing band and has begun.
LEMMA OpenedFacts ==
  ASSUME Inv, pc \in Opened
  PROVE  /\ pc # "idle" /\ Countable /\ diagnostics.errors = << >> /\ result = "none"
         /\ cursor \in Nat
         /\ \A n \in DOMAIN plan : plan[n] \in Nat /\ plan[n] < SegmentsPerPlane(Layout)
  BY DEF Inv, Opened, Accepted, Running, FailureIsClean, TypeOK, CallTyped, PlanTyped

\* Planning or skipping a segment keeps the invariant.
LEMMA PlanSegmentPreserves == ASSUME Inv, PlanSegment PROVE Inv'
  <1>1. /\ pc = "plan" /\ pc' = "plan" /\ pc \in Opened
        /\ cursor < SegmentsPerPlane(Layout) /\ cursor' = cursor + 1
        /\ plan' = IF Wanted(cursor) THEN Append(plan, cursor) ELSE plan
        /\ workspace' = IF Wanted(cursor) THEN LargerOf(workspace, SegmentWorkspace(cursor))
                                          ELSE workspace
        /\ UNCHANGED <<source, call, window, directory, batches, batchOf, decoding, caller>>
        /\ UNCHANGED issued
    BY DEF PlanSegment, Opened
  <1>2. batches = << >> /\ batchOf = << >>
    BY <1>1 DEF Inv, Numbered
  <1>3. cursor \in Nat /\ Countable /\ pc # "idle" /\ diagnostics.errors = << >>
    BY <1>1, OpenedFacts
  <1>4. PlanTyped'
    <2>1. Layout' = Layout
      BY <1>1, SameCall DEF source
    <2>2. plan' \in Seq(Nat) /\ \A n \in DOMAIN plan' : plan'[n] < SegmentsPerPlane(Layout)
      BY <1>1, <1>3 DEF Inv, TypeOK, PlanTyped
    <2>3. workspace' \in Nat
      BY <1>1, <1>3, SegmentFacts, LargerOfType DEF Inv, TypeOK, PlanTyped
    <2> QED
      BY <1>1, <1>2, <2>1, <2>2, <2>3 DEF PlanTyped
  <1>5. DecodingTyped' /\ CallerTyped' /\ diagnostics'.errors = << >>
    BY <1>1, <1>3 DEF Inv, TypeOK, DecodingTyped, CallerTyped, decoding, caller
  <1>6. (Numbered /\ Placed /\ BatchesAreBounded)'
    BY <1>1, <1>2 DEF Numbered, Placed, BatchesAreBounded, Batched
  <1>7. Buffered'
    BY <1>1 DEF Inv, Buffered, decoding
  <1> QED
    BY <1>1, <1>3, <1>4, <1>5, <1>6, <1>7, OpenedStepPreserves DEF caller

\* A segment that joins ends where the batch then ends, one that does not
\* is a batch.
LEMMA CoalescePreserves == ASSUME Inv, Coalesce PROVE Inv'
  <1> DEFINE segment == SegmentOf(plan[cursor])
             last    == Len(batches)
             fresh   == [offset |-> segment.offset, size |-> segment.byteCount]
  <1>1. /\ pc = "coalesce" /\ pc' = "coalesce" /\ pc \in Opened
        /\ cursor <= Len(plan) /\ cursor' = cursor + 1
        /\ UNCHANGED <<source, call, window, directory, plan, workspace, decoding, caller>>
        /\ UNCHANGED issued
    BY DEF Coalesce, Opened
  <1>2. \/ /\ Joins(segment)
           /\ batches' = [batches EXCEPT ![last].size = @ + segment.byteCount]
           /\ batchOf' = Append(batchOf, last)
        \/ /\ batches' = Append(batches, fresh)
           /\ batchOf' = Append(batchOf, last + 1)
    BY DEF Coalesce
  <1>3. /\ ~UseLibTiff /\ cursor \in Nat \ {0} /\ cursor \in DOMAIN plan
        /\ Len(batchOf) = cursor - 1
        /\ Countable /\ pc # "idle" /\ diagnostics.errors = << >>
    BY <1>1, OpenedFacts DEF Inv, Numbered, TypeOK, PlanTyped
  <1>4. segment.offset \in Nat /\ segment.byteCount \in Nat \ {0}
    BY <1>1, <1>3, OpenedFacts, SegmentFacts
  <1>5. plan \in Seq(Nat) /\ batches \in Seq(Batch) /\ batchOf \in Seq(Nat) /\ workspace \in Nat
        /\ \A n \in DOMAIN batchOf : batchOf[n] \in DOMAIN batches
    BY DEF Inv, TypeOK, PlanTyped
  <1>6. \A i : SegmentOf(i)' = SegmentOf(i)
    BY <1>1, SameCall DEF source
  <1> HIDE DEF segment
  \* The batches after the step.
  <1>7. /\ batches' \in Seq(Batch) /\ batchOf' \in Seq(Nat) /\ Len(batchOf') = cursor
        /\ Len(batches') \in {last, last + 1} /\ Len(batches') > 0
        /\ batchOf'[cursor] = Len(batches')
        /\ \A n \in 1 .. cursor - 1 : batchOf'[n] = batchOf[n]
    <2>1. CASE Joins(segment) /\ batches' = [batches EXCEPT ![last].size = @ + segment.byteCount]
               /\ batchOf' = Append(batchOf, last)
      <3>1. last \in DOMAIN batches /\ last > 0
        BY <1>5, <2>1 DEF Joins
      <3>2. batches[last] \in Batch
        BY <1>5, <3>1
      <3>3. [batches[last] EXCEPT !.size = @ + segment.byteCount] \in Batch
        BY <1>4, <3>2 DEF Batch
      <3>4. batches' = [batches EXCEPT ![last] = [batches[last] EXCEPT !.size = @ + segment.byteCount]]
        BY <2>1
      <3>5. batches' \in Seq(Batch) /\ Len(batches') = last
        BY <1>5, <3>1, <3>3, <3>4
      <3> QED
        BY <1>3, <1>5, <2>1, <3>1, <3>5
    <2>2. CASE batches' = Append(batches, fresh) /\ batchOf' = Append(batchOf, last + 1)
      <3>1. fresh \in Batch
        BY <1>4 DEF Batch
      <3> QED
        BY <1>3, <1>5, <2>2, <3>1
    <2> QED
      BY <1>2, <2>1, <2>2
  <1>8. DOMAIN batchOf' = 1 .. cursor /\ DOMAIN batchOf = 1 .. cursor - 1
    BY <1>3, <1>5, <1>7
  \* A batch is not cut: it is what it was, or has grown at its end.
  <1>9. \A b \in DOMAIN batches :
          /\ b \in DOMAIN batches'
          /\ batches'[b].offset = batches[b].offset /\ batches'[b].size >= batches[b].size
          /\ batches'[b] = batches[b] \/ (b = last /\ Joins(segment)
                                           /\ batches'[b].size = batches[b].size + segment.byteCount)
    <2>1. \A b \in DOMAIN batches : batches[b].offset \in Nat /\ batches[b].size \in Nat
      <3>1. \A b \in DOMAIN batches : batches[b] \in Batch
        BY <1>5
      <3> QED
        BY <3>1 DEF Batch
    <2>2. CASE Joins(segment) /\ batches' = [batches EXCEPT ![last].size = @ + segment.byteCount]
      BY <1>4, <1>5, <2>1, <2>2
    <2>3. CASE batches' = Append(batches, fresh)
      BY <1>5, <2>1, <2>3
    <2> QED
      BY <1>2, <2>2, <2>3
  <1>10. LiesIn(segment, batches'[Len(batches')])
    <2>1. CASE Joins(segment) /\ batches' = [batches EXCEPT ![last].size = @ + segment.byteCount]
      <3>1. last \in DOMAIN batches /\ batches[last] \in Batch
        BY <1>5, <2>1 DEF Joins
      <3>2. batches[last].offset + batches[last].size = segment.offset
        BY <2>1 DEF Joins
      <3>3. /\ Len(batches') = last
            /\ batches'[last] = [batches[last] EXCEPT !.size = @ + segment.byteCount]
        BY <1>5, <2>1, <3>1
      <3> QED
        BY <1>4, <3>1, <3>2, <3>3 DEF LiesIn, Batch
    <2>2. CASE batches' = Append(batches, fresh)
      <3>1. batches'[Len(batches')] = fresh
        BY <1>5, <2>2
      <3> QED
        BY <1>4, <3>1 DEF LiesIn
    <2> QED
      BY <1>2, <2>1, <2>2
  <1>11. PlanTyped'
    <2>1. Layout' = Layout
      BY <1>1, SameCall DEF source
    <2>2. \A n \in DOMAIN batchOf' : batchOf'[n] \in DOMAIN batches'
      <3>1. DOMAIN batches' = 1 .. Len(batches')
        BY <1>7
      <3>2. \A n \in 1 .. cursor - 1 : batchOf'[n] \in DOMAIN batches'
        BY <1>5, <1>7, <1>9, <1>8
      <3>3. batchOf'[cursor] \in DOMAIN batches'
        <4>1. batches' \in Seq(Batch) /\ Len(batches') > 0 /\ batchOf'[cursor] = Len(batches')
          BY <1>7
        <4>2. Len(batches') \in DOMAIN batches'
          BY <4>1
        <4> QED
          BY <4>1, <4>2
      <3> QED
        BY <1>3, <1>8, <3>2, <3>3
    <2> QED
      BY <1>1, <1>5, <1>7, <2>1, <2>2 DEF Inv, TypeOK, PlanTyped
  <1>12. Placed'
    <2> SUFFICES ASSUME NEW n \in DOMAIN batchOf'
                 PROVE  n \in DOMAIN plan /\ LiesIn(SegmentOf(plan[n]), batches'[batchOf'[n]])
      BY <1>1, <1>6 DEF Placed
    <2>1. CASE n = cursor
      BY <1>3, <1>7, <1>10, <2>1 DEF segment
    <2>2. CASE n # cursor
      <3>1. n \in DOMAIN batchOf /\ batchOf'[n] = batchOf[n]
        BY <1>3, <1>7, <1>8, <2>2
      <3>2. n \in DOMAIN plan /\ LiesIn(SegmentOf(plan[n]), batches[batchOf[n]])
        BY <3>1 DEF Inv, Placed
      <3>3. SegmentOf(plan[n]).offset \in Nat /\ SegmentOf(plan[n]).byteCount \in Nat
        BY <1>1, <3>2, OpenedFacts, SegmentFacts
      <3>4. batchOf[n] \in DOMAIN batches /\ batches[batchOf[n]] \in Batch
        BY <1>5, <3>1
      <3>5. batches'[batchOf[n]] \in Batch
        BY <1>7, <1>9, <3>4
      <3> QED
        BY <1>9, <3>1, <3>2, <3>3, <3>4, <3>5 DEF LiesIn, Batch
    <2> QED
      BY <2>1, <2>2
  <1>13. BatchesAreBounded'
    <2> SUFFICES ASSUME NEW b \in DOMAIN batches'
                 PROVE  \/ batches'[b].size <= MaxBatch
                        \/ \E n \in DOMAIN batchOf' :
                             /\ batchOf'[n] = b
                             /\ batches'[b] = [offset |-> SegmentOf(plan[n]).offset,
                                               size |-> SegmentOf(plan[n]).byteCount]
      BY <1>1, <1>6 DEF BatchesAreBounded
    <2>1. CASE b \in DOMAIN batches /\ batches'[b] = batches[b]
      <3>1. \/ batches[b].size <= MaxBatch
            \/ \E n \in DOMAIN batchOf :
                 /\ batchOf[n] = b
                 /\ batches[b] = [offset |-> SegmentOf(plan[n]).offset,
                                  size |-> SegmentOf(plan[n]).byteCount]
        BY <2>1 DEF Inv, BatchesAreBounded
      <3>2. \A n \in DOMAIN batchOf : n \in DOMAIN batchOf' /\ batchOf'[n] = batchOf[n]
        BY <1>3, <1>5, <1>7
      <3> QED
        BY <2>1, <3>1, <3>2
    <2>2. CASE b \in DOMAIN batches /\ batches'[b] # batches[b]
      BY <1>9, <2>2 DEF Joins
    <2>3. CASE b \notin DOMAIN batches
      <3>1. batches' = Append(batches, fresh) /\ b = last + 1
        BY <1>2, <1>5, <1>7, <2>3
      <3>2. batches'[b] = fresh /\ batchOf'[cursor] = b /\ cursor \in DOMAIN batchOf'
        BY <1>3, <1>5, <1>7, <3>1
      <3> QED
        BY <3>2 DEF segment
    <2> QED
      BY <2>1, <2>2, <2>3
  <1>14. Numbered'
    BY <1>1, <1>3, <1>5, <1>7, SameCall DEF Numbered, Batched, source
  <1>15. DecodingTyped' /\ Buffered' /\ CallerTyped' /\ diagnostics'.errors = << >>
    <2>1. loaded = 0 /\ loaded' = 0 /\ buffer' = buffer /\ available' = available /\ failed' = failed
      BY <1>1 DEF Inv, Buffered, decoding
    <2>2. DecodingTyped'
      BY <1>7, <2>1 DEF Inv, TypeOK, DecodingTyped
    <2>3. Buffered'
      BY <1>1, <2>1 DEF Buffered
    <2>4. CallerTyped' /\ diagnostics'.errors = << >>
      BY <1>1, <1>3 DEF Inv, TypeOK, CallerTyped, caller
    <2> QED
      BY <2>2, <2>3, <2>4
  <1> QED
    BY <1>1, <1>3, <1>11, <1>12, <1>13, <1>14, <1>15, OpenedStepPreserves DEF caller

\* Before the first segment the buffer is empty.
LEMMA StillEmpty ==
  ASSUME Inv, pc \notin {"segment", "copy"}, pc' # "copy", UNCHANGED decoding, Len(batches') >= 0
  PROVE  DecodingTyped' /\ Buffered'
  <1>1. loaded = 0 /\ loaded' = 0 /\ buffer' = buffer /\ available' = available /\ failed' = failed
    BY DEF Inv, Buffered, decoding
  <1> QED
    BY <1>1 DEF Inv, TypeOK, DecodingTyped, Buffered

\* Going from planning to coalescing keeps the invariant.
LEMMA PlanDonePreserves == ASSUME Inv, PlanDone PROVE Inv'
  <1>1. /\ pc = "plan" /\ pc' = (IF UseLibTiff THEN "budget" ELSE "coalesce")
        /\ pc \in Opened /\ pc' \in Opened /\ cursor' = 1
        /\ UNCHANGED <<source, call, result, window, directory, planning, decoding, grid,
                       diagnostics, statistics, issued>>
    BY DEF PlanDone, Goes, NoPixelData, Opened
  <1>2. plan \in Seq(Nat) /\ batches = << >> /\ batchOf = << >> /\ diagnostics.errors = << >>
    BY <1>1, OpenedFacts DEF Inv, Numbered, TypeOK, PlanTyped
  <1>3. UseLibTiff' <=> UseLibTiff
    BY <1>1, SameCall DEF source
  <1>4. Numbered'
    BY <1>1, <1>2, <1>3 DEF Numbered, Batched, planning
  <1>5. DecodingTyped' /\ Buffered'
    BY <1>1, <1>2, StillEmpty DEF planning
  <1>6. CallerTyped'
    BY <1>1 DEF Inv, TypeOK, CallerTyped
  <1> QED
    BY <1>1, <1>2, <1>4, <1>5, <1>6, PlanningKept, OpenedStepPreserves

\* A step between coalescing and the first segment that plans nothing more and
\* leaves the decoding state empty.
LEMMA QuietMovePreserves ==
  ASSUME Inv, NEW from \in Opened \ {"plan", "segment", "copy"}, NEW to \in Batched \ {"copy"},
         Goes(from, to), cursor' \in Nat \ {0}, UNCHANGED <<window, directory, planning, decoding>>,
         pc = "coalesce" => cursor > Len(plan),
         CallerTyped', diagnostics'.errors = << >>
  PROVE  Inv'
  <1>1. /\ pc = from /\ pc' = to /\ pc \in Opened /\ pc' \in Opened
        /\ UNCHANGED <<source, call, result>>
    BY DEF Goes, Opened, Batched
  <1>2. plan \in Seq(Nat) /\ batches \in Seq(Batch) /\ batchOf \in Seq(Nat) /\ cursor \in Nat
    BY DEF Inv, TypeOK, CallTyped, PlanTyped
  <1>3. plan' = plan /\ batches' = batches /\ batchOf' = batchOf /\ (UseLibTiff' <=> UseLibTiff)
    BY <1>1, SameCall DEF planning, source
  <1>4. ~UseLibTiff => Len(batchOf) = Len(plan)
    BY <1>1, <1>2 DEF Inv, Numbered, Opened, Batched
  <1>5. Numbered'
    <2>1. pc' # "plan" /\ pc' # "coalesce" /\ cursor' > 0
      BY <1>1 DEF Batched
    <2> QED
      BY <1>3, <1>4, <2>1 DEF Numbered
  <1>6. DecodingTyped' /\ Buffered'
    BY <1>1, <1>2, <1>3, StillEmpty
  <1> QED
    BY <1>1, <1>5, <1>6, PlanningKept, OpenedStepPreserves

\* Going from coalescing to measuring keeps the invariant.
LEMMA CoalesceDonePreserves == ASSUME Inv, CoalesceDone PROVE Inv'
  <1>1. /\ pc \in Opened /\ cursor > Len(plan) /\ cursor' = 1 /\ Goes("coalesce", "measure")
        /\ UNCHANGED <<window, directory, planning, decoding, grid, diagnostics, statistics, issued>>
        /\ UNCHANGED result
    BY DEF CoalesceDone, Goes, NoPixelData, Opened
  <1>2. CallerTyped' /\ diagnostics'.errors = << >>
    BY <1>1, OpenedFacts DEF Inv, TypeOK, CallerTyped
  <1> QED
    BY <1>1, <1>2, QuietMovePreserves DEF Opened, Batched

\* Passing the budget check keeps the invariant (memoryBudgetBytes).
LEMMA MeasureDonePreserves == ASSUME Inv, MeasureDone \/ KeepWithinBudget PROVE Inv'
  <1>1. /\ pc \in Opened /\ pc \in {"measure", "budget"} /\ cursor' \in {1, cursor}
        /\ Goes("measure", "budget") \/ Goes("budget", "open")
        /\ UNCHANGED <<window, directory, planning, decoding, grid, diagnostics, statistics, issued>>
        /\ UNCHANGED result
    BY DEF MeasureDone, KeepWithinBudget, Goes, NoPixelData, Opened
  <1>2. cursor \in Nat \ {0}
    BY <1>1, OpenedFacts DEF Inv, Numbered, Batched
  <1>3. CallerTyped' /\ diagnostics'.errors = << >>
    BY <1>1, OpenedFacts DEF Inv, TypeOK, CallerTyped
  <1> QED
    BY <1>1, <1>2, <1>3, QuietMovePreserves DEF Opened, Batched

\* What one batch needs is a natural number.
LEMMA BatchWorkspaceType ==
  ASSUME Inv, pc = "measure", cursor <= Len(batches)
  PROVE  \A bytes \in BatchWorkspaces(cursor) : bytes \in Nat
  <1>1. pc \in Opened /\ pc \in Batched
    BY DEF Opened, Batched
  <1>2. cursor \in DOMAIN batches /\ Countable /\ pc # "idle"
    BY <1>1, OpenedFacts DEF Inv, Numbered, TypeOK, PlanTyped
  <1>3. batches[cursor].size \in Nat
    <2>1. batches[cursor] \in Batch
      BY <1>2 DEF Inv, TypeOK, PlanTyped
    <2> QED
      BY <2>1 DEF Batch
  <1>4. \A size \in SizesIn(cursor) : size \in Nat
    <2>1. \A n \in DOMAIN plan : SegmentOf(plan[n]).byteCount \in Nat
      BY <1>1, <1>2, OpenedFacts, SegmentFacts
    <2> QED
      BY <2>1 DEF SizesIn
  <1> QED
    BY <1>3, <1>4 DEF BatchWorkspaces

\* Measuring a batch keeps the invariant (maxSegmentBytes).
LEMMA MeasureBatchPreserves == ASSUME Inv, MeasureBatch PROVE Inv'
  <1>1. /\ pc = "measure" /\ pc' = "measure" /\ pc \in Opened /\ pc' \in Opened
        /\ cursor <= Len(batches) /\ cursor' = cursor + 1
        /\ UNCHANGED <<source, call, window, directory, plan, batches, batchOf, decoding, caller>>
        /\ UNCHANGED issued
    BY DEF MeasureBatch, Opened
  <1>2. PICK bytes \in BatchWorkspaces(cursor) : workspace' = LargerOf(workspace, bytes)
    BY DEF MeasureBatch
  <1>3. cursor \in Nat \ {0} /\ cursor \in DOMAIN batches /\ Countable /\ pc # "idle"
        /\ diagnostics.errors = << >>
    BY <1>1, OpenedFacts DEF Inv, Numbered, Batched, TypeOK, PlanTyped
  <1>4. bytes \in Nat
    BY <1>1, <1>2, BatchWorkspaceType
  <1>5. Layout' = Layout /\ (UseLibTiff' <=> UseLibTiff) /\ \A i : SegmentOf(i)' = SegmentOf(i)
    BY <1>1, SameCall DEF source
  <1>6. PlanTyped'
    BY <1>1, <1>2, <1>4, <1>5, LargerOfType DEF Inv, TypeOK, PlanTyped
  <1>7. Placed' /\ BatchesAreBounded'
    BY <1>1, <1>5 DEF Inv, Placed, BatchesAreBounded
  <1>8. Numbered'
    BY <1>1, <1>3, <1>5 DEF Inv, Numbered, Batched
  <1>9. DecodingTyped' /\ Buffered'
    BY <1>1, StillEmpty DEF Inv, TypeOK, PlanTyped
  <1>10. CallerTyped' /\ diagnostics'.errors = << >>
    BY <1>1, <1>3 DEF Inv, TypeOK, CallerTyped, caller
  <1> QED
    BY <1>1, <1>3, <1>6, <1>7, <1>8, <1>9, <1>10, OpenedStepPreserves DEF caller

\* Every step of planning keeps the invariant.
LEMMA PlanPreserves == ASSUME Inv, PlanStep PROVE Inv'
  <1>1. ASSUME RefuseSegment \/ RefuseBatch \/ RefuseBudget PROVE Inv'
    BY <1>1, RefusalPreserves DEF RefuseSegment, RefuseBatch, RefuseBudget, ErrorCodes
  <1> QED
    BY <1>1, PlanSegmentPreserves, PlanDonePreserves, CoalescePreserves, CoalesceDonePreserves,
       MeasureBatchPreserves, MeasureDonePreserves
    DEF PlanStep

-----------------------------------------------------------------------------
(***************************************************************************)
(* Reading.                                                                *)
(***************************************************************************)
\* Opening libtiff, or having no use for it, keeps the invariant (TIFFClientOpen).
LEMMA OpenPreserves == ASSUME Inv, NEW met \in BOOLEAN, Open(met) PROVE Inv'
  <1>1. /\ pc = "open" /\ pc' = "allocate" /\ pc \in Opened /\ pc' \in Opened
        /\ failed' = (UseLibTiff /\ met)
        /\ UNCHANGED <<source, call, result, window, directory, cursor, planning, loaded, buffer,
                       available, grid, diagnostics, statistics, issued>>
    BY DEF Open, Goes, NoPixelData, Opened
  <1>2. /\ cursor \in Nat /\ diagnostics.errors = << >>
        /\ plan' = plan /\ batches' = batches /\ batchOf' = batchOf
        /\ (UseLibTiff' <=> UseLibTiff)
    BY <1>1, OpenedFacts, SameCall DEF planning, source
  <1>3. DecodingTyped'
    <2>1. failed' \in BOOLEAN
      BY <1>1
    <2> QED
      BY <1>1, <1>2, <2>1 DEF Inv, TypeOK, DecodingTyped
  <1>4. Numbered' /\ Buffered'
    BY <1>1, <1>2 DEF Inv, Numbered, Buffered, Batched
  <1>5. CallerTyped'
    BY <1>1 DEF Inv, TypeOK, CallerTyped
  <1> QED
    BY <1>1, <1>2, <1>3, <1>4, <1>5, PlanningKept, OpenedStepPreserves

\* Each outcome of allocating the grid keeps the invariant (RasterGrid).
LEMMA AllocatePreserves == ASSUME Inv, Allocate \/ ReturnEmpty \/ RefuseGrid PROVE Inv'
  <1>1. pc = "allocate" /\ pc \in Opened /\ pc # "idle" /\ NoPixelData
    BY DEF Allocate, ReturnEmpty, RefuseGrid, Goes, Opened
  <1>2. CASE Allocate
    <2>1. /\ Goes("allocate", "segment") /\ grid' = NewGrid
          /\ diagnostics' = [diagnostics EXCEPT !.warnings = @ + (IF call.lossy THEN 1 ELSE 0)]
          /\ UNCHANGED <<window, directory, cursor, planning, decoding, statistics, issued, result>>
      BY <1>2 DEF Allocate, NoPixelData, Goes
    <2>2. diagnostics' \in [errors : Seq(ErrorCodes), warnings : Nat] /\ diagnostics'.errors = << >>
      <3>1. diagnostics \in [errors : Seq(ErrorCodes), warnings : Nat] /\ diagnostics.errors = << >>
        BY <1>1, OpenedFacts DEF Inv, TypeOK, CallerTyped
      <3>2. diagnostics.warnings + (IF call.lossy THEN 1 ELSE 0) \in Nat
        BY <3>1
      <3> QED
        BY <2>1, <3>1, <3>2
    <2>3. CallerTyped'
      BY <1>1, <2>1, <2>2, NewGridIsTyped DEF Inv, TypeOK, CallerTyped
    <2>4. cursor \in Nat \ {0}
      BY <1>1, OpenedFacts DEF Inv, Numbered, Batched
    <2> QED
      BY <1>1, <2>1, <2>2, <2>3, <2>4, QuietMovePreserves DEF Opened, Batched
  <1>3. CASE ReturnEmpty
    <2>1. grid' = NewGrid /\ Succeed
      BY <1>3 DEF ReturnEmpty
    <2> QED
      BY <1>1, <2>1, NewGridIsTyped, SuccessPreserves
  <1>4. CASE RefuseGrid
    <2>1. SampledCount = 0 /\ FailWith("MemoryBudgetExceeded", NewGrid)
      BY <1>4 DEF RefuseGrid
    <2>2. DOMAIN NewGrid = {} /\ NewGrid \in [{} -> Cell]
      BY <1>1, <2>1, NewGridIsTyped
    <2> QED
      BY <1>1, <2>1, <2>2, FailurePreserves, NothingCounted DEF ErrorCodes
  <1> QED
    BY <1>2, <1>3, <1>4

\* The segment at the cursor, its batch, and what a raw read of it asks for.
LEMMA AtSegmentFacts ==
  ASSUME Inv, pc \in {"segment", "copy"}, cursor <= Len(plan)
  PROVE  /\ pc \in Opened /\ pc # "idle" /\ Countable /\ diagnostics.errors = << >>
         /\ result = "none"
         /\ cursor \in Nat \ {0} /\ cursor \in DOMAIN plan
         /\ plan[cursor] \in Nat /\ plan[cursor] < SegmentsPerPlane(Layout)
         /\ ~UseLibTiff =>
              /\ cursor \in DOMAIN batchOf
              /\ batchOf[cursor] \in 1 .. Len(batches)
              /\ BatchHere \in Batch /\ BatchHere.offset \in Nat /\ BatchHere.size \in Nat \ {0}
  <1>1. pc \in Opened
    BY DEF Opened
  <1>2. plan \in Seq(Nat) /\ batches \in Seq(Batch) /\ batchOf \in Seq(Nat)
        /\ \A n \in DOMAIN batchOf : batchOf[n] \in DOMAIN batches
    BY DEF Inv, TypeOK, PlanTyped
  <1>3. cursor \in Nat \ {0} /\ (~UseLibTiff => Len(batchOf) = Len(plan))
    BY <1>1, OpenedFacts DEF Inv, Numbered, Batched
  <1>4. cursor \in DOMAIN plan
    BY <1>2, <1>3
  <1>5. ASSUME ~UseLibTiff
        PROVE  /\ cursor \in DOMAIN batchOf
               /\ batchOf[cursor] \in 1 .. Len(batches)
               /\ BatchHere \in Batch /\ BatchHere.offset \in Nat /\ BatchHere.size \in Nat \ {0}
    <2>1. cursor \in DOMAIN batchOf /\ batchOf[cursor] \in DOMAIN batches
      BY <1>2, <1>3, <1>5
    <2>2. BatchHere \in Batch
      BY <1>2, <2>1 DEF BatchHere
    <2>3. BatchHere.offset \in Nat /\ BatchHere.size \in Nat \ {0}
      <3> HIDE DEF BatchHere
      <3> QED
        BY <2>2 DEF Batch
    <2>4. DOMAIN batches = 1 .. Len(batches)
      BY <1>2
    <2> QED
      BY <2>1, <2>2, <2>3, <2>4
  <1> QED
    BY <1>1, <1>3, <1>4, <1>5, OpenedFacts

\* A read of the source is counted with the bytes that arrived.
LEMMA IssuesCounted ==
  ASSUME Inv, NEW offset \in Nat, NEW size \in Nat \ {0}, NEW answer \in SourceAnswers(size),
         Issues(offset, size, answer)
  PROVE  Counted
  <1>1. answer.bytes \in Nat
    BY DEF SourceAnswers
  <1>2. statistics \in [requested : Nat, fetched : Nat, requests : Nat]
        /\ issued \in Seq([offset : Nat, size : Nat, bytes : Nat])
    BY DEF Inv, TypeOK, CallerTyped
  <1>3. [offset |-> offset, size |-> size, bytes |-> answer.bytes]
          \in [offset : Nat, size : Nat, bytes : Nat]
    BY <1>1
  <1>4. issued' \in Seq([offset : Nat, size : Nat, bytes : Nat])
    BY <1>2, <1>3 DEF Issues
  <1>5. statistics' \in [requested : Nat, fetched : Nat, requests : Nat]
    <2>1. statistics.requests + 1 \in Nat /\ statistics.fetched + answer.bytes \in Nat
      BY <1>1, <1>2
    <2>2. statistics' = [statistics EXCEPT !.requests = @ + 1, !.fetched = @ + answer.bytes]
      BY DEF Issues
    <2> QED
      BY <1>2, <2>1, <2>2
  <1> QED
    BY <1>4, <1>5 DEF Counted

\* A step of the segment loop that does not fail and leaves the grid typed.
LEMMA SegmentStepPreserves ==
  ASSUME Inv, NEW from \in {"segment", "copy"}, NEW to \in {"segment", "copy"}, Goes(from, to),
         cursor <= Len(plan), cursor' \in {cursor, cursor + 1},
         UNCHANGED <<window, directory, planning, diagnostics>>, Counted,
         DOMAIN grid' \subseteq Nat \X Nat, grid' \in [DOMAIN grid' -> Cell],
         DecodingTyped', Buffered'
  PROVE  Inv'
  <1>1. /\ pc = from /\ pc' = to /\ pc \in {"segment", "copy"} /\ pc' \in Opened
        /\ UNCHANGED <<source, call, result>>
    BY DEF Goes, Opened
  <1>2. pc \in Opened /\ cursor \in Nat \ {0} /\ cursor' \in Nat \ {0}
        /\ result = "none" /\ diagnostics'.errors = << >>
    BY <1>1, AtSegmentFacts
  <1>3. CallerTyped'
    BY <1>1 DEF Inv, TypeOK, CallerTyped, Counted
  <1>4. Numbered'
    <2>1. (UseLibTiff' <=> UseLibTiff) /\ plan' = plan /\ batchOf' = batchOf
      BY <1>1, SameCall DEF source, planning
    <2> QED
      BY <1>1, <1>2, <2>1 DEF Inv, Numbered, Batched
  <1> QED
    BY <1>1, <1>2, <1>3, <1>4, PlanningKept, OpenedStepPreserves

\* The cells of the grid are typed.
LEMMA GridTyped ==
  ASSUME Inv
  PROVE  DOMAIN grid \subseteq Nat \X Nat /\ grid \in [DOMAIN grid -> Cell]
  BY DEF Inv, TypeOK, CallerTyped

\* A complete read of a batch keeps the invariant (loadedBatch).
LEMMA LoadBatchPreserves == ASSUME Inv, LoadBatch PROVE Inv'
  <1>1. /\ Goes("segment", "copy") /\ pc = "segment" /\ pc' = "copy" /\ UNCHANGED <<source, call>>
        /\ cursor <= Len(plan) /\ ~UseLibTiff
        /\ loaded' = batchOf[cursor] /\ buffer' = BatchHere
        /\ UNCHANGED <<window, directory, cursor, planning, available, failed, grid, diagnostics>>
    BY DEF LoadBatch, Goes, NeedsBatch, AtSegment
  <1>2. PICK answer \in SourceAnswers(BatchHere.size) :
          Issues(BatchHere.offset, BatchHere.size, answer)
    BY DEF LoadBatch
  <1>3. /\ batchOf[cursor] \in 1 .. Len(batches)
        /\ BatchHere \in Batch /\ BatchHere.offset \in Nat /\ BatchHere.size \in Nat \ {0}
    BY <1>1, AtSegmentFacts
  <1>4. Counted
    BY <1>2, <1>3, IssuesCounted
  <1>5. plan' = plan /\ batches' = batches /\ batchOf' = batchOf /\ (UseLibTiff' <=> UseLibTiff)
    BY <1>1, SameCall DEF planning, source
  <1>6. DecodingTyped'
    <2>1. buffer' \in [offset : Nat, size : Nat]
      BY <1>1, <1>3 DEF Batch
    <2> QED
      BY <1>1, <1>3, <1>5, <2>1 DEF Inv, TypeOK, DecodingTyped
  <1>7. Buffered'
    BY <1>1, <1>3, <1>5 DEF Buffered, BatchHere
  <1> QED
    BY <1>1, <1>4, <1>6, <1>7, GridTyped, SegmentStepPreserves

\* Reusing the batch in the buffer keeps the invariant (loadedBatch).
LEMMA ReuseBatchPreserves == ASSUME Inv, ReuseBatch PROVE Inv'
  <1>1. /\ Goes("segment", "copy") /\ pc = "segment" /\ pc' = "copy" /\ UNCHANGED <<source, call>>
        /\ cursor <= Len(plan) /\ ~UseLibTiff /\ loaded = batchOf[cursor] /\ NoPixelData
        /\ UNCHANGED <<window, directory, cursor, planning, decoding, grid, diagnostics>>
    BY DEF ReuseBatch, Goes, AtSegment
  <1>2. plan' = plan /\ batches' = batches /\ batchOf' = batchOf /\ (UseLibTiff' <=> UseLibTiff)
    BY <1>1, SameCall DEF planning, source
  <1>3. DecodingTyped' /\ Buffered'
    BY <1>1, <1>2 DEF Inv, TypeOK, DecodingTyped, Buffered, decoding
  <1> QED
    BY <1>1, <1>3, GridTyped, NothingCounted, SegmentStepPreserves

\* libtiff decodes at least one byte of a segment it has.
LEMMA LibTiffFacts ==
  ASSUME Inv, Countable, pc # "idle", NEW i \in Nat, i < SegmentsPerPlane(Layout), LibTiffHas(i)
  PROVE  /\ LibTiffDecodes(i) \in Nat \ {0}
         /\ EncodedSegment(i).offset \in Nat /\ EncodedSegment(i).byteCount \in Nat \ {0}
  <1> DEFINE d      == file[0]
             n      == SegmentsPerPlane(d)
             plane  == SourceIndex(i) \div n
             stride == IF d.planar = 2 THEN d.sampleBytes[plane + 1] ELSE d.pixelStride
             rows   == IF d.tiled THEN d.segmentHeight
                       ELSE SegmentWindow(d, SourceIndex(i) % n).height
  <1>1. ValidDirectory(d) /\ n \in Nat \ {0} /\ SourceIndex(i) \in Nat
        /\ SourceIndex(i) < Len(d.segments) /\ Len(d.segments) = n * Planes(d)
        /\ Planes(d) \in Nat
    BY FileFacts, SegmentCounts, SegmentFacts, DirectoryFields DEF LibTiffHas, Planes
  <1>2. EncodedSegment(i) \in Segment
    <2>1. d.segments \in Seq(Segment) /\ SourceIndex(i) + 1 \in 1 .. Len(d.segments)
      BY <1>1, DirectoryFields
    <2> QED
      BY <2>1 DEF EncodedSegment
  <1>3. plane \in Nat /\ plane < Planes(d) /\ SourceIndex(i) % n \in Nat /\ SourceIndex(i) % n < n
    <2>1. SourceIndex(i) < n * Planes(d)
      BY <1>1
    <2> HIDE DEF n
    <2>2. plane \in Nat /\ SourceIndex(i) % n \in 0 .. n - 1
      BY <1>1, DivisionFacts
    <2>3. plane < Planes(d)
      BY <1>1, <2>1, QuotientBelow
    <2> QED
      BY <1>1, <2>2, <2>3
  <1>4. stride \in Nat \ {0}
    <2>1. CASE d.planar = 2
      <3>1. plane + 1 \in Bands(d)
        BY <1>1, <1>3, <2>1, DirectoryFields DEF Planes, Bands
      <3> QED
        BY <1>1, <2>1, <3>1, DirectoryFields
    <2>2. CASE d.planar # 2
      BY <1>1, <2>2, DirectoryFields
    <2> QED
      BY <2>1, <2>2
  <1>5. rows \in Nat \ {0}
    BY <1>1, <1>3, SegmentIsInTheImage, DirectoryFields DEF NatWindow
  <1>6. d.segmentWidth * stride * rows \in Nat \ {0}
    <2>1. d.segmentWidth \in Nat \ {0}
      BY <1>1, DirectoryFields
    <2>2. d.segmentWidth * stride \in Nat \ {0}
      BY <1>4, <2>1, ProductFacts
    <2> HIDE DEF stride, rows
    <2> QED
      BY <1>5, <2>2, ProductFacts
  <1>7. DecodedBytes(i) \in Nat \ {0}
    BY SegmentFacts
  <1>8. LibTiffDecodes(i) = SmallerOf(DecodedBytes(i), d.segmentWidth * stride * rows)
    BY DEF LibTiffDecodes
  <1> HIDE DEF stride, rows, d
  <1> QED
    BY <1>2, <1>6, <1>7, <1>8 DEF SmallerOf, Segment

\* Decoding a segment keeps the invariant (TIFFReadEncodedTile).
LEMMA DecodeSegmentPreserves ==
  ASSUME Inv, NEW missing \in {0, 1}, DecodeSegment(missing)
  PROVE  Inv'
  <1>1. /\ Goes("segment", "copy") /\ pc = "segment" /\ pc' = "copy" /\ UNCHANGED <<source, call>>
        /\ cursor <= Len(plan) /\ UseLibTiff /\ LibTiffHas(plan[cursor])
        /\ available' = LibTiffDecodes(plan[cursor]) - missing
        /\ UNCHANGED <<window, directory, cursor, planning, loaded, buffer, failed, grid, diagnostics>>
    BY DEF DecodeSegment, Goes, NeedsDecoding, AtSegment
  <1>2. /\ LibTiffDecodes(plan[cursor]) \in Nat \ {0}
        /\ EncodedSegment(plan[cursor]).offset \in Nat
        /\ EncodedSegment(plan[cursor]).byteCount \in Nat \ {0}
    BY <1>1, AtSegmentFacts, LibTiffFacts
  <1>3. Counted
    BY <1>2, IssuesCounted DEF DecodeSegment, LibTiffReads
  <1>4. plan' = plan /\ batches' = batches /\ batchOf' = batchOf /\ (UseLibTiff' <=> UseLibTiff)
    BY <1>1, SameCall DEF planning, source
  <1>5. DecodingTyped' /\ Buffered'
    BY <1>1, <1>2, <1>4 DEF Inv, TypeOK, DecodingTyped, Buffered
  <1> QED
    BY <1>1, <1>3, <1>5, GridTyped, SegmentStepPreserves

\* A failed or short read of a batch keeps the invariant (ReadAt).
LEMMA LoadFailsPreserves == ASSUME Inv, LoadFails PROVE Inv'
  <1>1. pc = "segment" /\ pc # "idle" /\ cursor <= Len(plan) /\ ~UseLibTiff
    BY DEF LoadFails, NeedsBatch, AtSegment
  <1>2. PICK answer \in SourceAnswers(BatchHere.size) :
          /\ Issues(BatchHere.offset, BatchHere.size, answer)
          /\ Fail(IF answer.status = "ShortRead" THEN "ShortRead" ELSE "SourceUnavailable")
    BY DEF LoadFails
  <1>3. Counted
    BY <1>1, <1>2, AtSegmentFacts, IssuesCounted
  <1> QED
    BY <1>1, <1>2, <1>3, FailPreserves DEF ErrorCodes

\* A segment libtiff cannot decode keeps the invariant (LibTiffSource::failed).
LEMMA DecodeFailsPreserves == ASSUME Inv, DecodeFails PROVE Inv'
  <1>1. pc = "segment" /\ pc # "idle" /\ cursor <= Len(plan) /\ Fail("SourceUnavailable")
    BY DEF DecodeFails, NeedsDecoding, AtSegment
  <1>2. CASE NoPixelData
    BY <1>1, <1>2, NothingCounted, FailPreserves DEF ErrorCodes
  <1>3. CASE LibTiffHas(plan[cursor])
             /\ \E answer \in SourceAnswers(EncodedSegment(plan[cursor]).byteCount) :
                  LibTiffReads(plan[cursor], answer)
    <2>1. Counted
      BY <1>1, <1>3, AtSegmentFacts, LibTiffFacts, IssuesCounted DEF LibTiffReads
    <2> QED
      BY <1>1, <2>1, FailPreserves DEF ErrorCodes
  <1> QED
    BY <1>2, <1>3 DEF DecodeFails

\* An output is read from a pixel with natural coordinates (readX, readY).
LEMMA LevelPixelType ==
  ASSUME Inv, Countable, pc # "idle", NEW p \in Outputs
  PROVE  LevelPixel(p)[1] \in Nat /\ LevelPixel(p)[2] \in Nat
  <1>1. p[1] \in Nat /\ p[2] \in Nat /\ EffectiveStep \in Nat
    BY SampledFacts
  <1>2. p[1] * EffectiveStep \in Nat /\ p[2] * EffectiveStep \in Nat
    BY <1>1, ProductFacts
  <1>3. window.x + p[1] * EffectiveStep \in Nat /\ window.y + p[2] * EffectiveStep \in Nat
    BY <1>2, FileFacts DEF NatWindow
  <1>4. Factor(directory) \in Nat \ {0}
    BY AcceptedFacts
  <1>5. /\ (window.x + p[1] * EffectiveStep) \div Factor(directory) \in Nat
        /\ (window.y + p[2] * EffectiveStep) \div Factor(directory) \in Nat
    BY <1>3, <1>4, DivisionFacts
  <1> QED
    BY <1>3, <1>5 DEF LevelPixel

\* The sample of a level pixel of a segment starts at a byte of the segment.
LEMMA SampleOffsetType ==
  ASSUME Inv, Countable, pc # "idle", NEW i \in Nat, i < SegmentsPerPlane(Layout),
         NEW p \in OutputsIn(i)
  PROVE  SampleOffset(i, LevelPixel(p)) \in Nat
  <1> DEFINE segment == SegmentWindow(Layout, i)
             x == LevelPixel(p)[1]
             y == LevelPixel(p)[2]
  <1>1. segment \in NatWindow /\ segment.x \in Nat /\ segment.y \in Nat
    BY FileFacts, SegmentIsInTheImage DEF NatWindow
  <1>2. p \in Outputs /\ ContainsPixel(segment, x, y)
    BY DEF OutputsIn
  <1>3. x >= segment.x /\ y >= segment.y
    BY <1>2 DEF ContainsPixel
  <1>4. x \in Nat /\ y \in Nat
    BY <1>2, LevelPixelType
  <1> HIDE DEF segment, x, y
  <1>5. (y - segment.y) * RowStride \in Nat /\ (x - segment.x) * SampleStride \in Nat
    <2>1. y - segment.y \in Nat /\ x - segment.x \in Nat
      BY <1>1, <1>3, <1>4
    <2>2. RowStride \in Nat /\ SampleStride \in Nat
      BY AcceptedFacts
    <2> QED
      BY <2>1, <2>2, ProductFacts
  <1>6. Layout.sampleOffsets[call.band] \in Nat
    BY AcceptedFacts
  <1>7. SampleOffset(i, LevelPixel(p)) =
          (y - segment.y) * RowStride + (x - segment.x) * SampleStride
            + Layout.sampleOffsets[call.band]
    BY DEF SampleOffset, segment, x, y
  <1> QED
    BY <1>5, <1>6, <1>7

\* The segment at the cursor is cut from its own batch.
LEMMA CopiesFromItsBatch ==
  ASSUME Inv, pc = "copy", ~UseLibTiff
  PROVE  loaded = batchOf[cursor] /\ buffer = BatchHere
  <1>1. cursor <= Len(plan) /\ loaded = batchOf[cursor]
    BY DEF Inv, Buffered
  <1>2. batchOf[cursor] \in 1 .. Len(batches)
    BY <1>1, AtSegmentFacts
  <1>3. buffer = batches[loaded]
    BY <1>1, <1>2 DEF Inv, Buffered
  <1> QED
    BY <1>1, <1>3 DEF BatchHere

\* The grid stays typed when the samples of a segment are stored (SetSample).
LEMMA FilledIsTyped ==
  ASSUME Inv, Countable, pc # "idle", NEW i \in Nat, i < SegmentsPerPlane(Layout),
         NEW from \in Nat, NEW first \in Nat
  PROVE  /\ DOMAIN Filled(i, from, first) \subseteq Nat \X Nat
         /\ Filled(i, from, first) \in [DOMAIN Filled(i, from, first) -> Cell]
  <1> DEFINE filled == Filled(i, from, first)
  <1>1. DOMAIN filled = DOMAIN grid
    BY DEF Filled
  <1>2. SourceIndex(i) \in Nat
    BY SegmentFacts
  <1>3. \A p \in DOMAIN grid : filled[p] \in Cell
    <2> SUFFICES ASSUME NEW p \in DOMAIN grid PROVE filled[p] \in Cell
      OBVIOUS
    <2>1. CASE p \in OutputsIn(i)
      <3>1. first + SampleOffset(i, LevelPixel(p)) \in Nat
        BY <2>1, SampleOffsetType
      <3>2. filled[p] = [directory |-> from, segment |-> SourceIndex(i),
                         byte |-> first + SampleOffset(i, LevelPixel(p))]
        BY <2>1 DEF Filled
      <3> QED
        BY <1>2, <3>1, <3>2 DEF Cell
    <2>2. CASE p \notin OutputsIn(i)
      <3>1. filled[p] = grid[p]
        BY <2>2 DEF Filled
      <3> QED
        BY <3>1, GridTyped
    <2> QED
      BY <2>1, <2>2
  <1>4. filled = [p \in DOMAIN grid |-> filled[p]]
    BY DEF Filled
  <1> QED
    BY <1>1, <1>3, <1>4, GridTyped

\* Copying a segment keeps the invariant (SetSample).
LEMMA CopySegmentPreserves == ASSUME Inv, CopySegment PROVE Inv'
  <1>1. /\ Goes("copy", "segment") /\ pc = "copy" /\ pc' = "segment" /\ UNCHANGED <<source, call>>
        /\ cursor' = cursor + 1 /\ NoPixelData
        /\ grid' = (IF UseLibTiff THEN Filled(plan[cursor], 0, 0)
                    ELSE Filled(plan[cursor], directory, buffer.offset - BatchHere.offset))
        /\ UNCHANGED <<window, directory, planning, decoding, diagnostics>>
    BY DEF CopySegment, Goes
  <1>2. cursor <= Len(plan)
    BY <1>1 DEF Inv, Buffered
  <1>3. /\ Countable /\ pc # "idle"
        /\ plan[cursor] \in Nat /\ plan[cursor] < SegmentsPerPlane(Layout)
    BY <1>1, <1>2, AtSegmentFacts
  <1>4. DOMAIN grid' \subseteq Nat \X Nat /\ grid' \in [DOMAIN grid' -> Cell]
    <2>1. CASE UseLibTiff
      BY <1>1, <1>3, <2>1, FilledIsTyped
    <2>2. CASE ~UseLibTiff
      <3>1. directory \in Nat
        BY FileFacts DEF ValidFile
      <3>2. buffer.offset - BatchHere.offset = 0
        BY <1>1, <1>2, <2>2, CopiesFromItsBatch, AtSegmentFacts
      <3> QED
        <4>1. grid' = Filled(plan[cursor], directory, 0)
          BY <1>1, <2>2, <3>2
        <4> QED
          BY <1>3, <3>1, <4>1, FilledIsTyped
    <2> QED
      BY <2>1, <2>2
  <1>5. plan' = plan /\ batches' = batches /\ batchOf' = batchOf /\ (UseLibTiff' <=> UseLibTiff)
    BY <1>1, SameCall DEF planning, source
  <1>6. DecodingTyped' /\ Buffered'
    BY <1>1, <1>5 DEF Inv, TypeOK, DecodingTyped, Buffered, decoding
  <1> QED
    BY <1>1, <1>2, <1>4, <1>6, NothingCounted, SegmentStepPreserves

\* Every step that reads keeps the invariant.
LEMMA ReadPreserves == ASSUME Inv, ReadStep PROVE Inv'
  <1>1. ASSUME Cancel \/ OpenFails \/ RefuseDecoding \/ CopyFails PROVE Inv'
    BY <1>1, RefusalPreserves
    DEF Cancel, OpenFails, RefuseDecoding, CopyFails, AtSegment, ErrorCodes
  <1>2. ASSUME AllocationFails PROVE Inv'
    BY <1>2, RefusalPreserves
    DEF AllocationFails, Parsing, NeedsBatch, NeedsDecoding, AtSegment, ErrorCodes
  <1>3. ASSUME Finish PROVE Inv'
    <2>1. pc # "idle" /\ Succeed /\ NoPixelData /\ grid' = grid
      BY <1>3 DEF Finish
    <2> QED
      BY <2>1, GridTyped, SuccessPreserves
  <1> QED
    BY <1>1, <1>2, <1>3, OpenPreserves, AllocatePreserves, LoadBatchPreserves, LoadFailsPreserves,
       ReuseBatchPreserves, DecodeSegmentPreserves, DecodeFailsPreserves, CopySegmentPreserves
    DEF ReadStep

-----------------------------------------------------------------------------
\* Doing nothing keeps the invariant.
LEMMA StutteringPreserves == ASSUME Inv, UNCHANGED vars PROVE Inv'
  <1> USE DEF vars, source, planning, decoding, caller
  <1>1. /\ Layout' = Layout /\ (UseLibTiff' <=> UseLibTiff) /\ (Countable' <=> Countable)
        /\ \A i : SegmentOf(i)' = SegmentOf(i)
    BY SameCall
  <1>2. TypeOK'
    BY <1>1 DEF Inv, TypeOK, CallTyped, PlanTyped, DecodingTyped, CallerTyped
  <1>3. FailureIsClean' /\ Running' /\ Fresh' /\ Accepted' /\ Numbered' /\ Buffered'
    BY <1>1 DEF Inv, FailureIsClean, Running, Fresh, Accepted, Numbered, Buffered
  <1>4. Placed' /\ BatchesAreBounded'
    BY <1>1 DEF Inv, Placed, BatchesAreBounded
  <1> QED
    BY <1>2, <1>3, <1>4 DEF Inv

\* Every step keeps the invariant.
LEMMA StepPreservesInv == Inv /\ [Next]_vars => Inv'
  BY CallPreserves, FindWindowPreserves, ParsePreserves, CheckPreserves, PlanPreserves,
     ReadPreserves, StutteringPreserves
  DEF Next, Progress

\* The invariant holds throughout.
THEOREM ReaderInvariant == Spec => []Inv
  BY InitiallyInv, StepPreservesInv, PTL DEF Spec

\* The variables hold what the code declares them as (ReadWindow).
THEOREM TypeCorrect == Spec => []TypeOK
  <1>1. Inv => TypeOK
    BY DEF Inv
  <1> QED
    BY <1>1, ReaderInvariant, PTL

\* A failed call reports one error and leaves no sample (every return).
THEOREM FailuresAreClean == Spec => []FailureIsClean
  <1>1. Inv => FailureIsClean
    BY DEF Inv
  <1> QED
    BY <1>1, ReaderInvariant, PTL

\* No batch grows past the limit by coalescing (kMaxCoalescedReadBytes).
THEOREM BoundedBatches == Spec => []BatchesAreBounded
  <1>1. Inv => BatchesAreBounded
    BY DEF Inv
  <1> QED
    BY <1>1, ReaderInvariant, PTL

\* The check "segment is outside its coalesced read" never fires.
THEOREM SegmentsAreInTheirBatch == Spec => []SegmentIsInItsBatch
  <1>1. ASSUME Inv PROVE SegmentIsInItsBatch
    <2> SUFFICES ASSUME pc = "copy", ~UseLibTiff
                 PROVE  /\ loaded = batchOf[cursor] /\ buffer = BatchHere
                        /\ SegmentOf(plan[cursor]).offset >= buffer.offset
                        /\ InsideBuffer(SegmentOf(plan[cursor]))
      BY DEF SegmentIsInItsBatch
    <2>1. loaded = batchOf[cursor] /\ buffer = BatchHere
      BY <1>1, CopiesFromItsBatch
    <2>2. cursor <= Len(plan)
      BY <1>1 DEF Inv, Buffered
    <2>3. /\ cursor \in DOMAIN batchOf /\ plan[cursor] \in Nat
          /\ plan[cursor] < SegmentsPerPlane(Layout) /\ Countable /\ pc # "idle"
          /\ BatchHere.offset \in Nat /\ BatchHere.size \in Nat
      BY <1>1, <2>2, AtSegmentFacts
    <2>4. /\ SegmentOf(plan[cursor]).offset \in Nat
          /\ SegmentOf(plan[cursor]).byteCount \in Nat
      BY <1>1, <2>3, SegmentFacts
    <2>5. LiesIn(SegmentOf(plan[cursor]), BatchHere)
      BY <1>1, <2>3 DEF Inv, Placed, BatchHere
    <2> QED
      BY <2>1, <2>3, <2>4, <2>5 DEF LiesIn, InsideBuffer
  <1> QED
    BY <1>1, ReaderInvariant, PTL

-----------------------------------------------------------------------------
(***************************************************************************)
(* What the reader reads and holds.                                        *)
(***************************************************************************)

\* The batches are numbered in the order of the planned segments, none skipped.
Ordered ==
  /\ batchOf = << >> => batches = << >>
  /\ batchOf # << >> => batchOf[1] = 1 /\ batchOf[Len(batchOf)] = Len(batches)
  /\ \A n \in DOMAIN batchOf : n > 1 => batchOf[n] \in {batchOf[n - 1], batchOf[n - 1] + 1}

\* Nothing is read before the segments, and between two of them the batch of
\* the one before is in the buffer.
ReadSoFar ==
  /\ pc \in {"budget", "open", "allocate"} => cursor = 1
  /\ pc \notin {"idle", "segment", "copy"} => issued = << >>
  /\ pc = "segment" /\ ~UseLibTiff => loaded = IF cursor = 1 THEN 0 ELSE batchOf[cursor - 1]
  /\ EachBatchIsReadOnce

\* What copying the n-th planned segment from its batch takes.
BatchNeed(n) ==
  batches[batchOf[n]].size
    + (IF Layout.predictor # 1 THEN SegmentOf(plan[n]).byteCount ELSE 0)

\* The workspace covers every planned segment, and every batch measured so far.
Measured ==
  /\ pc \in Opened => \A n \in DOMAIN plan : SegmentWorkspace(plan[n]) <= workspace
  /\ pc \in Batched => \A n \in DOMAIN batchOf :
       (pc = "measure" /\ batchOf[n] >= cursor) \/ BatchNeed(n) <= workspace

\* The budget check still holds while pixel data is read.
Within == pc \in {"open", "allocate", "segment", "copy"} => FitsBudget

Reads == Ordered /\ ReadSoFar /\ Measured /\ Within

-----------------------------------------------------------------------------
\* The second invariant holds before the first call.
LEMMA InitiallyReads == Init => Reads
  BY DEF Init, Reads, Ordered, ReadSoFar, Measured, Within, EachBatchIsReadOnce, Opened, Batched

\* A call that has returned, or has planned nothing yet, has read nothing that
\* counts against it.
LEMMA NothingPlanned ==
  ASSUME plan' = << >>, batches' = << >>, batchOf' = << >>, pc' \notin Opened \ {"plan"},
         pc' = "idle" \/ issued' = << >>
  PROVE  Reads'
  <1>1. Ordered'
    BY DEF Ordered
  <1>2. ReadSoFar'
    BY DEF ReadSoFar, EachBatchIsReadOnce, Opened
  <1>3. Measured' /\ Within'
    BY DEF Measured, Within, Opened, Batched
  <1> QED
    BY <1>1, <1>2, <1>3 DEF Reads

\* A call that returned has no plan left, whatever it returned.
LEMMA ReturnKeepsReads == ASSUME pc' = "idle", LocalsDie PROVE Reads'
  BY NothingPlanned DEF LocalsDie, Opened

Returns == pc' = "idle" /\ LocalsDie

\* Both forms of failure return from the call (AddReadError).
LEMMA FailReturns == ASSUME NEW code, NEW partial, Fail(code) \/ FailWith(code, partial) PROVE Returns
  BY DEF Fail, FailWith, Returns

\* The steps that do not return.
LEMMA StepKinds ==
  ASSUME Progress
  PROVE  \/ Returns
         \/ \E k \in DOMAIN file : FindTile(k) \/ Parse(k)
         \/ FindRows \/ Accept
         \/ PlanSegment \/ PlanDone \/ Coalesce \/ CoalesceDone \/ MeasureBatch \/ MeasureDone
         \/ KeepWithinBudget
         \/ \E met \in BOOLEAN : Open(met)
         \/ Allocate \/ LoadBatch \/ ReuseBatch
         \/ \E missing \in {0, 1} : DecodeSegment(missing)
         \/ CopySegment
  <1>1. FindWindow => Returns \/ FindRows \/ \E k \in DOMAIN file : FindTile(k)
    BY FailReturns DEF FindWindow, RefuseTile, RefuseTileLevel, RefuseRows
  <1>2. ParseStep => Returns \/ \E k \in DOMAIN file : Parse(k)
    BY FailReturns DEF ParseStep, ParseFails, ParseRefusesCompression, ParseRefusesLevel
  <1>3. CheckStep => Returns \/ Accept
    BY FailReturns
    DEF CheckStep, Refuse, RefuseBand, RefuseLevel, RefuseWindow, RefuseLayout, RefuseSize
  <1>4. PlanStep => \/ Returns
                    \/ PlanSegment \/ PlanDone \/ Coalesce \/ CoalesceDone \/ MeasureBatch
                    \/ MeasureDone \/ KeepWithinBudget
    BY FailReturns DEF PlanStep, RefuseSegment, RefuseBatch, RefuseBudget
  <1>5. Finish \/ ReturnEmpty => Returns
    BY DEF Finish, ReturnEmpty, Succeed, Returns
  <1>6. Cancel \/ OpenFails \/ RefuseGrid \/ LoadFails \/ DecodeFails \/ RefuseDecoding
          \/ CopyFails \/ AllocationFails => Returns
    BY FailReturns
    DEF Cancel, OpenFails, RefuseGrid, LoadFails, DecodeFails, RefuseDecoding, CopyFails,
        AllocationFails
  <1>7. ReadStep => \/ Returns
                    \/ \E met \in BOOLEAN : Open(met)
                    \/ Allocate \/ LoadBatch \/ ReuseBatch
                    \/ \E missing \in {0, 1} : DecodeSegment(missing)
                    \/ CopySegment
    BY <1>5, <1>6 DEF ReadStep
  <1> QED
    BY <1>1, <1>2, <1>3, <1>4, <1>7 DEF Progress

\* Entering, parsing and checking.
LEMMA EarlyStepKeepsReads ==
  ASSUME Inv, Inv', Reads,
         Call \/ FindRows \/ Accept \/ \E k \in DOMAIN file : FindTile(k) \/ Parse(k)
  PROVE  Reads'
  <1>1. CASE Call
    <2>1. PICK q \in Questions : ReadWindow(q) \/ ReadTile(q) \/ ReadScanlines(q)
      BY <1>1 DEF Call
    <2>2. pc' \in Parsing /\ issued' = << >>
      BY <2>1 DEF ReadWindow, ReadTile, ReadScanlines, Begin, Parsing
    <2>3. plan' = << >> /\ batches' = << >> /\ batchOf' = << >>
      BY <2>2 DEF Inv, Fresh, Parsing, Opened
    <2> QED
      BY <2>2, <2>3, NothingPlanned DEF Parsing, Opened
  <1>2. CASE FindRows \/ Accept \/ \E k \in DOMAIN file : FindTile(k) \/ Parse(k)
    <2>1. /\ pc \in Parsing \cup {"check"} /\ pc' \in {"parse", "check", "plan"}
          /\ UNCHANGED <<planning, issued>>
      BY <1>2
      DEF FindRows, Accept, FindTile, Parse, Goes, CallReadWindow, NoPixelData, Parsing
    <2>2. issued = << >>
      BY <2>1 DEF Reads, ReadSoFar, Parsing
    <2>3. plan = << >> /\ batches = << >> /\ batchOf = << >>
      BY <2>1 DEF Inv, Fresh, Parsing, Opened
    <2> QED
      BY <2>1, <2>2, <2>3, NothingPlanned DEF planning, Opened
  <1> QED
    BY <1>1, <1>2

\* The sizes of the plan depend on the call and its directory only.
LEMMA SameWorkspaces ==
  ASSUME UNCHANGED <<file, libTiff, call, window, directory>>
  PROVE  /\ \A i : SegmentWorkspace(i)' = SegmentWorkspace(i)
         /\ SampledCount' = SampledCount
  BY DEF SegmentWorkspace, DecodedBytes, Layout, RowStride, SampleStride, SampleBytes, SegmentOf,
         SourceIndex, SampledCount, Sampled, EffectiveStep, Step, Factor

-----------------------------------------------------------------------------
(***************************************************************************)
(* Planning.                                                               *)
(***************************************************************************)
\* Planning a segment creates no batch and reads nothing.
LEMMA PlanSegmentKeepsReads == ASSUME Inv, Inv', Reads, PlanSegment PROVE Reads'
  <1>1. /\ pc = "plan" /\ pc' = "plan" /\ pc \in Opened
        /\ plan' = IF Wanted(cursor) THEN Append(plan, cursor) ELSE plan
        /\ workspace' = IF Wanted(cursor) THEN LargerOf(workspace, SegmentWorkspace(cursor))
                                          ELSE workspace
        /\ cursor < SegmentsPerPlane(Layout)
        /\ UNCHANGED <<file, libTiff, call, window, directory, batches, batchOf, issued>>
    BY DEF PlanSegment, Opened, source
  <1>2. batches' = << >> /\ batchOf' = << >> /\ issued' = << >>
    BY <1>1 DEF Inv, Numbered, Reads, ReadSoFar
  <1>3. Ordered' /\ ReadSoFar' /\ Within'
    BY <1>1, <1>2 DEF Ordered, ReadSoFar, Within, EachBatchIsReadOnce
  <1>4. Measured'
    <2>1. \A i : SegmentWorkspace(i)' = SegmentWorkspace(i)
      BY <1>1, SameWorkspaces
    <2>2. plan \in Seq(Nat) /\ workspace \in Nat
      BY DEF Inv, TypeOK, PlanTyped
    <2>3. cursor \in Nat /\ SegmentWorkspace(cursor) \in Nat
      BY <1>1, OpenedFacts, SegmentFacts
    <2>4. \A n \in DOMAIN plan : SegmentWorkspace(plan[n]) \in Nat
                                 /\ SegmentWorkspace(plan[n]) <= workspace
      BY <1>1, OpenedFacts, SegmentFacts DEF Reads, Measured
    <2>5. \A n \in DOMAIN plan' : SegmentWorkspace(plan'[n]) <= workspace'
      <3>1. CASE Wanted(cursor)
        <4>1. workspace' >= workspace /\ workspace' >= SegmentWorkspace(cursor) /\ workspace' \in Nat
          BY <1>1, <2>2, <2>3, <3>1, LargerOfType
        <4>2. \A n \in DOMAIN plan' : plan'[n] = cursor \/ (n \in DOMAIN plan /\ plan'[n] = plan[n])
          BY <1>1, <2>2, <3>1
        <4> QED
          BY <2>2, <2>3, <2>4, <4>1, <4>2
      <3>2. CASE ~Wanted(cursor)
        BY <1>1, <2>4, <3>2
      <3> QED
        BY <3>1, <3>2
    <2> QED
      BY <1>1, <2>1, <2>5 DEF Measured, Batched
  <1> QED
    BY <1>3, <1>4 DEF Reads

\* A segment joins the last batch or starts the next one (batchIndex).
LEMMA CoalesceKeepsReads == ASSUME Inv, Inv', Reads, Coalesce PROVE Reads'
  <1> DEFINE segment == SegmentOf(plan[cursor])
             last    == Len(batches)
             fresh   == [offset |-> segment.offset, size |-> segment.byteCount]
  <1>1. /\ pc = "coalesce" /\ pc' = "coalesce" /\ pc \in Opened
        /\ UNCHANGED <<file, libTiff, call, window, directory, plan, workspace, issued>>
    BY DEF Coalesce, Opened, source
  <1>2. batches \in Seq(Batch) /\ batchOf \in Seq(Nat)
    BY DEF Inv, TypeOK, PlanTyped
  <1>3. \/ /\ batches # << >>
           /\ batches' = [batches EXCEPT ![last].size = @ + segment.byteCount]
           /\ batchOf' = Append(batchOf, last)
        \/ /\ batches' = Append(batches, fresh)
           /\ batchOf' = Append(batchOf, last + 1)
    BY DEF Coalesce, Joins
  <1> HIDE DEF segment, fresh
  <1>4. Len(batches') \in Nat /\ Len(batches') > 0 /\ batchOf' = Append(batchOf, Len(batches'))
        /\ Len(batches') \in {last, last + 1} /\ (batches = << >> => Len(batches') = 1)
    <2>1. CASE batches # << >> /\ batches' = [batches EXCEPT ![last].size = @ + segment.byteCount]
               /\ batchOf' = Append(batchOf, last)
      <3>1. Len(batches') = last /\ last \in Nat \ {0}
        BY <1>2, <2>1
      <3> QED
        BY <2>1, <3>1
    <2>2. CASE batches' = Append(batches, fresh) /\ batchOf' = Append(batchOf, last + 1)
      <3>1. Len(batches') = last + 1 /\ last \in Nat /\ (batches = << >> => last = 0)
        BY <1>2, <2>2
      <3> QED
        BY <2>2, <3>1
    <2> QED
      BY <1>3, <2>1, <2>2
  <1>5. Ordered'
    <2>1. batchOf' # << >> /\ batchOf'[Len(batchOf')] = Len(batches')
      BY <1>2, <1>4
    <2>2. CASE batchOf = << >>
      <3>1. batches = << >>
        BY <2>2 DEF Reads, Ordered
      <3>2. batchOf' = <<1>>
        BY <1>4, <2>2, <3>1
      <3> QED
        BY <2>1, <3>2 DEF Ordered
    <2>3. CASE batchOf # << >>
      <3> DEFINE m == Len(batchOf)
      <3>1. m \in Nat \ {0} /\ batchOf[1] = 1 /\ batchOf[m] = last
        BY <1>2, <2>3 DEF Reads, Ordered
      <3>2. Len(batchOf') = m + 1 /\ (\A n \in 1 .. m : batchOf'[n] = batchOf[n])
            /\ batchOf'[m + 1] = Len(batches') /\ DOMAIN batchOf' = 1 .. m + 1
            /\ DOMAIN batchOf = 1 .. m
        BY <1>2, <1>4
      <3>3. \A n \in 1 .. m : n > 1 => batchOf[n] \in {batchOf[n - 1], batchOf[n - 1] + 1}
        BY <3>2 DEF Reads, Ordered
      <3> HIDE DEF m
      <3>4. \A n \in 1 .. m + 1 : n > 1 => batchOf'[n] \in {batchOf'[n - 1], batchOf'[n - 1] + 1}
        <4> SUFFICES ASSUME NEW n \in 1 .. m + 1, n > 1
                     PROVE  batchOf'[n] \in {batchOf'[n - 1], batchOf'[n - 1] + 1}
          OBVIOUS
        <4>1. n - 1 \in 1 .. m /\ batchOf'[n - 1] = batchOf[n - 1]
          BY <3>1, <3>2
        <4>2. CASE n = m + 1
          BY <1>4, <3>1, <3>2, <4>1, <4>2
        <4>3. CASE n # m + 1
          BY <3>1, <3>2, <3>3, <4>1, <4>3
        <4> QED
          BY <4>2, <4>3
      <3> QED
        BY <2>1, <3>1, <3>2, <3>4 DEF Ordered
    <2> QED
      BY <2>2, <2>3
  <1>6. ReadSoFar' /\ Within'
    BY <1>1 DEF Reads, ReadSoFar, EachBatchIsReadOnce, Within
  <1>7. Measured'
    <2>1. \A i : SegmentWorkspace(i)' = SegmentWorkspace(i)
      BY <1>1, SameWorkspaces
    <2> QED
      BY <1>1, <2>1 DEF Reads, Measured, Batched
  <1> QED
    BY <1>5, <1>6, <1>7 DEF Reads

\* Steps that plan and read nothing more.
LEMMA QuietStepKeepsReads ==
  ASSUME Inv, Inv', Reads, pc \in Opened, pc' \in Opened,
         UNCHANGED <<source, call, window, directory, planning, issued>>,
         pc' \in {"budget", "open", "allocate"} => cursor' = 1,
         pc \in {"segment", "copy"} <=> pc' \in {"segment", "copy"},
         EachBatchIsReadOnce',
         pc' = "segment" /\ ~UseLibTiff =>
           loaded' = IF cursor' = 1 THEN 0 ELSE batchOf[cursor' - 1],
         pc' \in Batched => \A n \in DOMAIN batchOf :
           (pc' = "measure" /\ batchOf[n] >= cursor') \/ BatchNeed(n) <= workspace,
         pc' \in {"open", "allocate", "segment", "copy"} => FitsBudget
  PROVE  Reads'
  <1>1. /\ plan' = plan /\ batches' = batches /\ batchOf' = batchOf /\ workspace' = workspace
        /\ UNCHANGED <<file, libTiff, call, window, directory>>
    BY DEF planning, source
  <1>2. /\ \A i : SegmentWorkspace(i)' = SegmentWorkspace(i)
        /\ SampledCount' = SampledCount
        /\ Layout' = Layout /\ (UseLibTiff' <=> UseLibTiff)
        /\ \A i : SegmentOf(i)' = SegmentOf(i)
    BY <1>1, SameWorkspaces, SameCall
  <1>3. Ordered'
    BY <1>1 DEF Reads, Ordered
  <1>4. ReadSoFar'
    BY <1>1, <1>2 DEF Reads, ReadSoFar, Opened
  <1>5. Measured'
    <2>1. \A n : BatchNeed(n)' = BatchNeed(n)
      BY <1>1, <1>2 DEF BatchNeed
    <2> QED
      BY <1>1, <1>2, <2>1 DEF Reads, Measured
  <1>6. Within'
    BY <1>1, <1>2 DEF Within, FitsBudget
  <1> QED
    BY <1>3, <1>4, <1>5, <1>6 DEF Reads

\* Coalescing starts with no batch.
LEMMA PlanDoneKeepsReads == ASSUME Inv, Inv', Reads, PlanDone PROVE Reads'
  <1>1. /\ pc = "plan" /\ pc' \in {"budget", "coalesce"} /\ cursor' = 1
        /\ UNCHANGED <<source, call, window, directory, planning, issued>>
    BY DEF PlanDone, Goes, NoPixelData
  <1>2. batchOf = << >>
    BY <1>1 DEF Inv, Numbered
  <1> QED
    BY <1>1, <1>2, QuietStepKeepsReads DEF Opened, Batched, EachBatchIsReadOnce

\* Measuring starts with nothing measured.
LEMMA CoalesceDoneKeepsReads == ASSUME Inv, Inv', Reads, CoalesceDone PROVE Reads'
  <1>1. /\ pc = "coalesce" /\ pc' = "measure" /\ cursor' = 1
        /\ UNCHANGED <<source, call, window, directory, planning, issued>>
    BY DEF CoalesceDone, Goes, NoPixelData
  <1>2. batches \in Seq(Batch) /\ batchOf \in Seq(Nat)
        /\ \A n \in DOMAIN batchOf : batchOf[n] \in DOMAIN batches
    BY DEF Inv, TypeOK, PlanTyped
  <1>3. \A n \in DOMAIN batchOf : batchOf[n] >= cursor'
    BY <1>1, <1>2
  <1> QED
    BY <1>1, <1>3, QuietStepKeepsReads DEF Opened, EachBatchIsReadOnce

\* The batch at the cursor is measured with the largest of its segments.
LEMMA MeasureBatchKeepsReads == ASSUME Inv, Inv', Reads, MeasureBatch PROVE Reads'
  <1>1. /\ pc = "measure" /\ pc' = "measure" /\ pc \in Opened /\ cursor' = cursor + 1
        /\ UNCHANGED <<file, libTiff, call, window, directory, plan, batches, batchOf, issued>>
    BY DEF MeasureBatch, Opened, source
  <1>2. PICK bytes \in BatchWorkspaces(cursor) :
          /\ \A other \in BatchWorkspaces(cursor) : other <= bytes
          /\ workspace' = LargerOf(workspace, bytes)
    BY DEF MeasureBatch
  <1>3. /\ cursor \in Nat /\ workspace \in Nat /\ plan \in Seq(Nat)
        /\ batches \in Seq(Batch) /\ batchOf \in Seq(Nat)
        /\ \A n \in DOMAIN batchOf : batchOf[n] \in DOMAIN batches /\ n \in DOMAIN plan
    BY DEF Inv, TypeOK, CallTyped, PlanTyped, Placed
  <1>4. \A n \in DOMAIN plan : SegmentOf(plan[n]).byteCount \in Nat
                               /\ SegmentWorkspace(plan[n]) \in Nat
    BY <1>1, OpenedFacts, SegmentFacts
  <1>5. \A n \in DOMAIN batchOf : BatchNeed(n) \in Nat
    <2> SUFFICES ASSUME NEW n \in DOMAIN batchOf PROVE BatchNeed(n) \in Nat
      OBVIOUS
    <2>1. batches[batchOf[n]] \in Batch
      BY <1>3
    <2>2. batches[batchOf[n]].size \in Nat
      BY <2>1 DEF Batch
    <2>3. SegmentOf(plan[n]).byteCount \in Nat
      BY <1>3, <1>4
    <2> QED
      BY <2>2, <2>3 DEF BatchNeed
  <1>6. \A n \in DOMAIN batchOf : batchOf[n] = cursor => BatchNeed(n) \in BatchWorkspaces(cursor)
    <2> SUFFICES ASSUME NEW n \in DOMAIN batchOf, batchOf[n] = cursor
                 PROVE  BatchNeed(n) \in BatchWorkspaces(cursor)
      OBVIOUS
    <2>1. SegmentOf(plan[n]).byteCount \in SizesIn(cursor)
      BY <1>3 DEF SizesIn
    <2> QED
      BY <2>1 DEF BatchNeed, BatchWorkspaces
  <1>7. workspace' \in Nat /\ workspace' >= workspace
        /\ \A n \in DOMAIN batchOf : batchOf[n] = cursor => BatchNeed(n) <= workspace'
    <2>1. workspace' \in Nat
      BY DEF Inv, TypeOK, PlanTyped
    <2>2. cursor <= Len(batches)
      BY DEF MeasureBatch
    <2>3. bytes \in Nat
      BY <1>1, <1>2, <2>2, BatchWorkspaceType
    <2>4. workspace' >= workspace /\ workspace' >= bytes
      BY <1>2, <1>3, <2>3, LargerOfType
    <2>5. \A n \in DOMAIN batchOf : batchOf[n] = cursor => BatchNeed(n) <= bytes
      BY <1>2, <1>6
    <2> QED
      BY <1>5, <2>1, <2>3, <2>4, <2>5
  <1>8. /\ \A i : SegmentWorkspace(i)' = SegmentWorkspace(i)
        /\ \A n : BatchNeed(n)' = BatchNeed(n)
    BY <1>1, SameWorkspaces, SameCall DEF BatchNeed
  <1>9. Measured'
    <2>1. \A n \in DOMAIN plan : SegmentWorkspace(plan[n]) <= workspace'
      BY <1>1, <1>3, <1>4, <1>7 DEF Reads, Measured
    <2>2. \A n \in DOMAIN batchOf : batchOf[n] >= cursor' \/ BatchNeed(n) <= workspace'
      <3> SUFFICES ASSUME NEW n \in DOMAIN batchOf, ~(batchOf[n] >= cursor')
                   PROVE  BatchNeed(n) <= workspace'
        OBVIOUS
      <3>1. batchOf[n] \in Nat /\ batchOf[n] <= cursor
        BY <1>1, <1>3
      <3>2. CASE batchOf[n] = cursor
        BY <1>7, <3>2
      <3>3. CASE batchOf[n] < cursor
        <4>1. BatchNeed(n) <= workspace
          BY <1>1, <1>3, <3>1, <3>3 DEF Reads, Measured, Batched
        <4> QED
          BY <1>3, <1>5, <1>7, <4>1
      <3> QED
        BY <1>3, <3>1, <3>2, <3>3
    <2> QED
      BY <1>1, <1>8, <2>1, <2>2 DEF Measured
  <1>10. Ordered' /\ ReadSoFar' /\ Within'
    BY <1>1 DEF Reads, Ordered, ReadSoFar, EachBatchIsReadOnce, Within
  <1> QED
    BY <1>9, <1>10 DEF Reads

\* The budget check sees every batch measured (memoryBudgetBytes).
LEMMA BudgetKeepsReads == ASSUME Inv, Inv', Reads, MeasureDone \/ KeepWithinBudget PROVE Reads'
  <1>1. /\ pc \in {"measure", "budget"} /\ pc' \in {"budget", "open"}
        /\ UNCHANGED <<source, call, window, directory, planning, issued>>
        /\ pc' = "open" => FitsBudget
        /\ pc = "measure" => cursor > Len(batches) /\ cursor' = 1
        /\ pc = "budget" => cursor' = cursor
    BY DEF MeasureDone, KeepWithinBudget, Goes, NoPixelData
  <1>2. cursor' = 1
    BY <1>1 DEF Reads, ReadSoFar
  <1>3. \A n \in DOMAIN batchOf : BatchNeed(n) <= workspace
    <2>1. /\ cursor \in Nat /\ batches \in Seq(Batch)
          /\ \A n \in DOMAIN batchOf : batchOf[n] \in DOMAIN batches
      BY DEF Inv, TypeOK, CallTyped, PlanTyped
    <2>2. pc = "measure" => \A n \in DOMAIN batchOf : ~(batchOf[n] >= cursor)
      BY <1>1, <2>1
    <2> QED
      BY <1>1, <2>2 DEF Reads, Measured, Batched
  <1> QED
    BY <1>1, <1>2, <1>3, QuietStepKeepsReads DEF Opened, EachBatchIsReadOnce

-----------------------------------------------------------------------------
(***************************************************************************)
(* Reading.                                                                *)
(***************************************************************************)

\* Past the budget check every batch is measured.
LEMMA AllMeasured ==
  ASSUME Reads, pc \in {"open", "allocate", "segment", "copy"}
  PROVE  FitsBudget /\ \A n \in DOMAIN batchOf : BatchNeed(n) <= workspace
  BY DEF Reads, Measured, Within, Batched

\* Opening and allocating read no planned segment.
LEMMA OpenKeepsReads ==
  ASSUME Inv, Inv', Reads, Allocate \/ \E met \in BOOLEAN : Open(met)
  PROVE  Reads'
  <1>1. /\ pc \in {"open", "allocate"} /\ pc' \in {"allocate", "segment"}
        /\ (pc = "open" /\ pc' = "allocate") \/ (pc = "allocate" /\ pc' = "segment")
        /\ UNCHANGED <<source, call, window, directory, cursor, planning, loaded, issued>>
    BY DEF Open, Allocate, Goes, NoPixelData, decoding
  <1>2. cursor = 1 /\ issued = << >>
    BY <1>1 DEF Reads, ReadSoFar
  <1>3. loaded = 0
    BY <1>1 DEF Inv, Buffered
  <1>4. EachBatchIsReadOnce'
    BY <1>1, <1>2, <1>3 DEF EachBatchIsReadOnce
  <1>5. Ordered'
    BY <1>1 DEF Reads, Ordered, planning
  <1>6. ReadSoFar'
    BY <1>1, <1>2, <1>3, <1>4 DEF ReadSoFar
  <1>7. Measured' /\ Within'
    <2>1. /\ plan' = plan /\ batches' = batches /\ batchOf' = batchOf /\ workspace' = workspace
          /\ UNCHANGED <<file, libTiff, call, window, directory>>
      BY <1>1 DEF planning, source
    <2>2. /\ \A k : SegmentWorkspace(k)' = SegmentWorkspace(k)
          /\ SampledCount' = SampledCount
          /\ \A n : BatchNeed(n)' = BatchNeed(n)
      BY <2>1, SameWorkspaces, SameCall DEF BatchNeed
    <2>3. FitsBudget /\ \A n \in DOMAIN batchOf : BatchNeed(n) <= workspace
      BY <1>1, AllMeasured
    <2>4. Measured'
      BY <1>1, <2>1, <2>2, <2>3 DEF Reads, Measured, Opened
    <2>5. Within'
      BY <2>1, <2>2, <2>3 DEF Within, FitsBudget
    <2> QED
      BY <2>4, <2>5
  <1> QED
    BY <1>5, <1>6, <1>7 DEF Reads

\* A step of the segment loop.
LEMMA SegmentStepKeepsReads ==
  ASSUME Inv, Inv', Reads, pc \in {"segment", "copy"}, pc' \in {"segment", "copy"},
         UNCHANGED <<source, call, window, directory, planning>>,
         EachBatchIsReadOnce',
         pc' = "segment" /\ ~UseLibTiff => loaded' = batchOf[cursor' - 1] /\ cursor' # 1
  PROVE  Reads'
  <1>1. /\ plan' = plan /\ batches' = batches /\ batchOf' = batchOf /\ workspace' = workspace
        /\ UNCHANGED <<file, libTiff, call, window, directory>>
    BY DEF planning, source
  <1>2. /\ \A k : SegmentWorkspace(k)' = SegmentWorkspace(k)
        /\ SampledCount' = SampledCount
        /\ (UseLibTiff' <=> UseLibTiff)
        /\ \A n : BatchNeed(n)' = BatchNeed(n)
    BY <1>1, SameWorkspaces, SameCall DEF BatchNeed
  <1>3. Ordered'
    BY <1>1 DEF Reads, Ordered
  <1>4. ReadSoFar'
    BY <1>1, <1>2 DEF ReadSoFar
  <1>5. FitsBudget /\ \A n \in DOMAIN batchOf : BatchNeed(n) <= workspace
    BY AllMeasured
  <1>6. Measured'
    BY <1>1, <1>2, <1>5 DEF Reads, Measured, Opened
  <1>7. Within'
    BY <1>1, <1>2, <1>5 DEF Within, FitsBudget
  <1> QED
    BY <1>3, <1>4, <1>6, <1>7 DEF Reads

\* The batch read next is the one after the last (loadedBatch).
LEMMA LoadBatchKeepsReads == ASSUME Inv, Inv', Reads, LoadBatch PROVE Reads'
  <1>1. /\ pc = "segment" /\ pc' = "copy" /\ cursor <= Len(plan) /\ ~UseLibTiff
        /\ loaded # batchOf[cursor] /\ loaded' = batchOf[cursor]
        /\ UNCHANGED <<source, call, window, directory, planning>>
    BY DEF LoadBatch, Goes, NeedsBatch, AtSegment
  <1>2. PICK answer \in SourceAnswers(BatchHere.size) :
          Complete(answer, BatchHere.size) /\ Issues(BatchHere.offset, BatchHere.size, answer)
    BY DEF LoadBatch
  <1>3. issued' = Append(issued, [offset |-> BatchHere.offset, size |-> BatchHere.size,
                                  bytes |-> BatchHere.size])
    BY <1>2 DEF Complete, Issues
  <1>4. /\ cursor \in Nat \ {0} /\ cursor \in DOMAIN batchOf
        /\ batchOf[cursor] \in 1 .. Len(batches)
    BY <1>1, AtSegmentFacts
  <1>5. batchOf[cursor] = loaded + 1
    <2>1. loaded = IF cursor = 1 THEN 0 ELSE batchOf[cursor - 1]
      BY <1>1 DEF Reads, ReadSoFar
    <2>2. CASE cursor = 1
      <3>1. batchOf # << >>
        BY <1>4
      <3> QED
        BY <2>1, <2>2, <3>1 DEF Reads, Ordered
    <2>3. CASE cursor # 1
      <3>1. \A n \in DOMAIN batchOf :
              n > 1 => batchOf[n] \in {batchOf[n - 1], batchOf[n - 1] + 1}
        BY DEF Reads, Ordered
      <3>2. cursor > 1
        BY <1>4, <2>3
      <3>3. batchOf[cursor] \in {batchOf[cursor - 1], batchOf[cursor - 1] + 1}
        BY <1>4, <3>1, <3>2
      <3> QED
        BY <1>1, <2>1, <2>3, <3>3
    <2> QED
      BY <2>2, <2>3
  <1>6. /\ issued \in Seq([offset : Nat, size : Nat, bytes : Nat])
        /\ loaded \in Nat /\ Len(issued) = loaded
        /\ \A n \in 1 .. loaded : issued[n] = [offset |-> batches[n].offset,
                                               size |-> batches[n].size, bytes |-> batches[n].size]
    BY <1>1 DEF Inv, TypeOK, DecodingTyped, CallerTyped, Reads, ReadSoFar, EachBatchIsReadOnce
  <1>7. EachBatchIsReadOnce'
    <2>1. batches' = batches
      BY <1>1 DEF planning
    <2>2. loaded' = loaded + 1
      BY <1>1, <1>5
    <2>3. /\ Len(issued') = loaded + 1
          /\ \A n \in 1 .. loaded : issued'[n] = issued[n]
          /\ issued'[loaded + 1] = [offset |-> batches[loaded + 1].offset,
                                    size |-> batches[loaded + 1].size,
                                    bytes |-> batches[loaded + 1].size]
      BY <1>3, <1>5, <1>6 DEF BatchHere
    <2>4. \A n \in 1 .. loaded + 1 :
            issued'[n] = [offset |-> batches[n].offset, size |-> batches[n].size,
                          bytes |-> batches[n].size]
      BY <1>6, <2>3
    <2> QED
      BY <2>1, <2>2, <2>3, <2>4 DEF EachBatchIsReadOnce
  <1> QED
    BY <1>1, <1>7, SegmentStepKeepsReads

\* The steps of the loop that read nothing, and those of a libtiff build.
LEMMA OtherSegmentStepsKeepReads ==
  ASSUME Inv, Inv', Reads,
         ReuseBatch \/ CopySegment \/ \E missing \in {0, 1} : DecodeSegment(missing)
  PROVE  Reads'
  <1>1. CASE ReuseBatch
    <2>1. /\ pc = "segment" /\ pc' = "copy" /\ ~UseLibTiff
          /\ UNCHANGED <<source, call, window, directory, planning, loaded, issued>>
      BY <1>1 DEF ReuseBatch, Goes, NoPixelData, decoding
    <2>2. EachBatchIsReadOnce'
      BY <2>1 DEF Reads, ReadSoFar, EachBatchIsReadOnce, planning
    <2> QED
      BY <2>1, <2>2, SegmentStepKeepsReads
  <1>2. CASE CopySegment
    <2>1. /\ pc = "copy" /\ pc' = "segment" /\ cursor' = cursor + 1
          /\ UNCHANGED <<source, call, window, directory, planning, loaded, issued>>
      BY <1>2 DEF CopySegment, Goes, NoPixelData, decoding
    <2>2. UseLibTiff' <=> UseLibTiff
      BY <2>1, SameCall DEF source
    <2>3. EachBatchIsReadOnce'
      BY <2>1, <2>2 DEF Reads, ReadSoFar, EachBatchIsReadOnce, planning
    <2>4. cursor <= Len(plan) /\ (~UseLibTiff => loaded = batchOf[cursor])
      BY <2>1 DEF Inv, Buffered
    <2>5. cursor \in Nat \ {0}
      BY <2>1, <2>4, AtSegmentFacts
    <2>6. cursor' - 1 = cursor /\ cursor' # 1
      BY <2>1, <2>5
    <2> QED
      BY <2>1, <2>3, <2>4, <2>6, SegmentStepKeepsReads
  <1>3. CASE \E missing \in {0, 1} : DecodeSegment(missing)
    <2>1. /\ pc = "segment" /\ pc' = "copy" /\ UseLibTiff
          /\ UNCHANGED <<source, call, window, directory, planning>>
      BY <1>3 DEF DecodeSegment, Goes, NeedsDecoding, AtSegment
    <2>2. UseLibTiff'
      BY <2>1, SameCall DEF source
    <2> QED
      BY <2>1, <2>2, SegmentStepKeepsReads DEF EachBatchIsReadOnce
  <1> QED
    BY <1>1, <1>2, <1>3

\* Doing nothing keeps the second invariant.
LEMMA StutteringKeepsReads == ASSUME Inv, Reads, UNCHANGED vars PROVE Reads'
  <1> USE DEF vars, source, planning, decoding, caller
  <1>1. /\ \A i : SegmentWorkspace(i)' = SegmentWorkspace(i)
        /\ SampledCount' = SampledCount
        /\ (UseLibTiff' <=> UseLibTiff)
        /\ \A n : BatchNeed(n)' = BatchNeed(n)
    BY SameWorkspaces, SameCall DEF BatchNeed
  <1>2. Ordered' /\ ReadSoFar'
    BY <1>1 DEF Reads, Ordered, ReadSoFar, EachBatchIsReadOnce
  <1>3. Measured' /\ Within'
    BY <1>1 DEF Reads, Measured, Within, FitsBudget
  <1> QED
    BY <1>2, <1>3 DEF Reads

\* Every step keeps the second invariant.
LEMMA StepPreservesReads == Inv /\ Inv' /\ Reads /\ [Next]_vars => Reads'
  BY StepKinds, ReturnKeepsReads, EarlyStepKeepsReads, PlanSegmentKeepsReads, PlanDoneKeepsReads,
     CoalesceKeepsReads, CoalesceDoneKeepsReads, MeasureBatchKeepsReads, BudgetKeepsReads,
     OpenKeepsReads, LoadBatchKeepsReads, OtherSegmentStepsKeepReads, StutteringKeepsReads
  DEF Next, Returns

\* The second invariant holds throughout.
THEOREM ReadsInvariant == Spec => []Reads
  BY InitiallyReads, StepPreservesReads, ReaderInvariant, PTL DEF Spec

\* Raw pixel data is read batch by batch, each batch once (loadedBatch).
THEOREM BatchesAreReadOnce == Spec => []EachBatchIsReadOnce
  <1>1. Reads => EachBatchIsReadOnce
    BY DEF Reads, ReadSoFar
  <1> QED
    BY <1>1, ReadsInvariant, PTL

\* A read with a budget holds no more than it, but for what the plan leaves out
\* (memoryBudgetBytes).
THEOREM BudgetIsCovered == Spec => []BudgetCoversTheRead
  <1>1. ASSUME Inv, Reads PROVE BudgetCoversTheRead
    <2> SUFFICES ASSUME pc = "copy", call.budget # 0
                 PROVE  HeldFor(plan[cursor]) - Unplanned(plan[cursor]) <= call.budget
      BY DEF BudgetCoversTheRead
    <2> DEFINE i == plan[cursor]
               samples == SampledCount * SampleSize
    <2>1. cursor <= Len(plan)
      BY <1>1 DEF Inv, Buffered
    <2>2. /\ cursor \in DOMAIN plan /\ i \in Nat /\ i < SegmentsPerPlane(Layout)
          /\ Countable /\ pc # "idle" /\ pc \in Opened
          /\ ~UseLibTiff => cursor \in DOMAIN batchOf /\ BatchHere.size \in Nat
      BY <1>1, <2>1, AtSegmentFacts
    <2>3. /\ DecodedBytes(i) \in Nat /\ SegmentOf(i).byteCount \in Nat
          /\ SegmentWorkspace(i) \in Nat /\ RowStride \in Nat
      BY <1>1, <2>2, SegmentFacts, AcceptedFacts
    <2>4. samples \in Nat /\ workspace \in Nat /\ call.budget \in Nat
      <3>1. SampledCount \in Nat /\ SampleSize \in Nat
        BY <1>1, <2>2, SampledFacts, SizesAssumption
      <3> QED
        BY <1>1, <2>2, <3>1, ProductFacts, QuestionFacts DEF Inv, TypeOK, PlanTyped
    <2>5. samples + workspace <= call.budget
      BY <1>1, AllMeasured DEF FitsBudget
    <2>6. SegmentWorkspace(i) <= workspace
      BY <1>1, <2>2 DEF Reads, Measured
    <2>7. CASE UseLibTiff
      <3>1. HeldFor(i) = samples + DecodedBytes(i)
        BY <2>3, <2>4, <2>7 DEF HeldFor
      <3>2. Unplanned(i) = IF Layout.compressed THEN 0 ELSE DecodedBytes(i)
        BY <2>7 DEF Unplanned
      <3>3. Layout.compressed => DecodedBytes(i) <= SegmentWorkspace(i)
        BY <2>3 DEF SegmentWorkspace
      <3> HIDE DEF i, samples
      <3>4. HeldFor(i) - Unplanned(i) <= call.budget
        BY <2>3, <2>4, <2>5, <2>6, <3>1, <3>2, <3>3
      <3> QED
        BY <3>4 DEF i
    <2>8. CASE ~UseLibTiff
      <3>1. buffer = BatchHere
        BY <1>1, <2>8, CopiesFromItsBatch
      <3>2. HeldFor(i) - Unplanned(i) = samples + BatchNeed(cursor)
        BY <2>2, <2>3, <2>4, <2>8, <3>1 DEF HeldFor, Unplanned, BatchNeed, BatchHere
      <3>3. BatchNeed(cursor) <= workspace /\ BatchNeed(cursor) \in Nat
        BY <1>1, <2>2, <2>3, <2>8, AllMeasured DEF BatchNeed, BatchHere
      <3> HIDE DEF samples
      <3> QED
        BY <2>4, <2>5, <3>2, <3>3
    <2> QED
      BY <2>7, <2>8
  <1> QED
    BY <1>1, ReaderInvariant, ReadsInvariant, PTL
=============================================================================
