----------------------------- MODULE TiffParser -----------------------------
(***************************************************************************)
(* The parser of usd-geotiff: Parser::Run, which ReadMetadata and every    *)
(* windowed read call.  It reads the header, walks the chain of            *)
(* directories, decodes the first one into the caller's metadata, chooses  *)
(* a level and, when a layout is wanted, decodes that level's directory.   *)
(*                                                                         *)
(* A file is its size, its header and the directories at their offsets;    *)
(* the values of an entry are what IntegerValue and NumberValue make of    *)
(* its bytes: a Byte or Ascii value, which they take for a double, may     *)
(* have any.  A text is one number: whether strtod takes all of           *)
(* GDAL_NODATA, and the samples the items of GDAL_METADATA describe.       *)
(* Reals are integers.  Each call has a parser and a diagnostic sink of    *)
(* its own; the caller's metadata is used again.                           *)
(***************************************************************************)
EXTENDS RasterWindows, FiniteSetsExt

CONSTANTS
  Images,         \* the files
  LibTiffBuilds,  \* whether the build has libtiff: a subset of BOOLEAN
  Requests,       \* what is asked of the parser
  NoRequest,      \* the value of request before the first call
  MaxSamples,     \* the largest uint32_t
  MaxMetadata,    \* kMaxMetadataBytes
  MaxLevels       \* the directories a chain may have, 1024

(***************************************************************************)
(* Files.                                                                  *)
(***************************************************************************)
KnownTags ==
  {"ImageWidth", "ImageLength", "BitsPerSample", "Compression", "StripOffsets",
   "SamplesPerPixel", "RowsPerStrip", "StripByteCounts", "PlanarConfig", "TileWidth",
   "TileLength", "TileOffsets", "TileByteCounts", "SampleFormat", "Predictor",
   "ModelPixelScale", "ModelTiepoint", "ModelTransformation", "GeoKeyDirectory",
   "GdalMetadata", "GdalNoData"}

\* The tags of which Real takes the values, and those that are texts.
RealTags == {"ModelPixelScale", "ModelTiepoint", "ModelTransformation"}
TextTags == {"GdalMetadata", "GdalNoData"}

\* A type that is not listed in TypeSize has size 0.
TypeSizes ==
  [Byte |-> 1, Ascii |-> 1, Short |-> 2, Long |-> 4, Float |-> 4, Rational |-> 8,
   Double |-> 8, Long8 |-> 8, Undefined |-> 0]

Value == [type : DOMAIN TypeSizes, count : Coord, values : Seq(Int)]
Entry == [tag : KnownTags \cup {"Private"}, value : Value, at : Coord]
Table == [count : Coord, entries : Seq(Entry), next : Coord]

(***************************************************************************)
(* A file is a record of its size, its byte order ("II", "MM" or neither), *)
(* its version, whether the constant part of a BigTIFF header is right     *)
(* (offsetSize8), the offset of its first directory, and its tables, a     *)
(* function from offsets.                                                  *)
(***************************************************************************)
ValueBytes(value) == TypeSizes[value.type] * value.count

BigTiff(f)   == f.version = 43
CountSize(f) == IF BigTiff(f) THEN 8 ELSE 2
EntrySize(f) == IF BigTiff(f) THEN 20 ELSE 12
TailSize(f)  == IF BigTiff(f) THEN 8 ELSE 4
Capacity(f)  == IF BigTiff(f) THEN 8 ELSE 4

TableSize(f, a) == f.tables[a].count * EntrySize(f) + TailSize(f)

\* The entry table, whose size is computed without overflow, lies in the file
\* and is not larger than the metadata may be.
TableFits(f, a) ==
  LET remaining == (f.size - a) - CountSize(f)
  IN  /\ remaining >= TailSize(f)
      /\ f.tables[a].count <= (remaining - TailSize(f)) \div EntrySize(f)
      /\ TableSize(f, a) <= MaxMetadata

\* Number takes a uint64_t from every value of a tag, Real any number.
Readable(tag, value) ==
  /\ ~(tag \in TextTags /\ value.type = "Ascii") => Len(value.values) = value.count
  /\ tag \notin RealTags \cup TextTags => value.values \in Seq(Coord)

\* Where a table can be read there is one, with its entries; an entry whose
\* value can be held has its values.
ValidImage(f) ==
  /\ f.size \in Coord /\ f.first \in Coord /\ f.version \in Coord
  /\ \A a \in {f.first} \cup {f.tables[b].next : b \in DOMAIN f.tables} :
       a # 0 /\ a + CountSize(f) <= f.size => a \in DOMAIN f.tables
  /\ \A a \in DOMAIN f.tables :
       /\ f.tables[a] \in Table
       /\ TableFits(f, a) => Len(f.tables[a].entries) = f.tables[a].count
       /\ \A n \in DOMAIN f.tables[a].entries :
            LET e == f.tables[a].entries[n]
            IN  /\ e.tag \in KnownTags
                /\ e.value.type # "Undefined" /\ ValueBytes(e.value) <= MaxMetadata
                => Readable(e.tag, e.value)

\* layout: the caller is a windowed read; level 0 leaves the level to the
\* parser, level n asks for the n-th overview.
Request == [layout : BOOLEAN, level : Nat, step : Coord]

ASSUME ImagesAssumption   == \A f \in Images : ValidImage(f)
ASSUME BuildsAssumption   == LibTiffBuilds \subseteq BOOLEAN
ASSUME RequestsAssumption == Requests \subseteq Request /\ NoRequest \notin Requests
ASSUME LimitsAssumption   ==
  MaxMetadata \in Nat /\ MaxLevels \in Nat \ {0} /\ MaxSamples \in Nat \ {0}

VARIABLES
  image,          \* the source
  libTiff,        \* the build has libtiff
  pc,             \* where the call is
  request,        \* the arguments of the current or last call
  at,             \* ifd: the offset of the current or next directory
  cursor,         \* the entry of the table that is next
  current,        \* the tags of the current directory so far
  ifds,           \* the tags of the directories before it
  metadataBytes,  \* what all values of this parser take
  target,         \* the directory being decoded: 1, or 1 + the chosen level
  scratch,        \* overviewMetadata
  metadata,       \* the caller's metadata
  layout,         \* the caller's layout
  chosen,         \* selectedLevel, 0 for none
  errors,         \* the errors in the caller's sink
  warnings,       \* the warnings in the caller's sink
  result,         \* what the last call returned
  reads           \* history: the ranges asked of the source by the call

source == <<image, libTiff>>
walk   == <<at, cursor, current, ifds, metadataBytes>>
found  == <<layout, chosen>>
vars   == <<source, pc, request, walk, target, scratch, metadata, found, errors, warnings,
            result, reads>>

NoMetadata ==
  [width |-> 0, height |-> 0, bands |-> << >>, tile |-> << >>, overviews |-> << >>,
   crs |-> "Unknown", epsg |-> 0, metre |-> FALSE, anchor |-> "Unknown", transform |-> << >>]

NoLayout == << >>

-----------------------------------------------------------------------------
(***************************************************************************)
(* Calls and returns.                                                      *)
(***************************************************************************)

\* ReadMetadata, or a windowed read up to its parse.
Begin(r) ==
  /\ pc = "idle"
  /\ pc' = "header"
  /\ request' = r
  /\ at' = 0 /\ cursor' = 0 /\ current' = << >> /\ ifds' = << >> /\ metadataBytes' = 0
  /\ target' = 0 /\ scratch' = NoMetadata
  /\ metadata' = NoMetadata
  /\ layout' = NoLayout /\ chosen' = 0
  /\ errors' = << >> /\ warnings' = << >> /\ result' = "none"
  /\ reads' = {}
  /\ UNCHANGED source

Returns(outcome) ==
  /\ pc' = "idle"
  /\ result' = outcome
  /\ UNCHANGED <<source, request>>

\* Parser::Error.  The call is over; the caller keeps what metadata has so far.
Fail(code) ==
  /\ Returns("failed")
  /\ errors' = Append(errors, code)
  /\ UNCHANGED <<walk, target, found>>

Goes(next) ==
  /\ pc' = next
  /\ UNCHANGED <<source, request, errors, result>>

OutputsStay == UNCHANGED <<target, scratch, metadata, found, warnings>>

-----------------------------------------------------------------------------
(***************************************************************************)
(* Parser::Read: what the step at pc asks of the source, if it asks.       *)
(***************************************************************************)
Here  == image.tables[at]
Field == Here.entries[cursor]

AtEntry == pc = "entries" /\ cursor <= Here.count

Sound(value)  == TypeSizes[value.type] # 0 /\ value.count <= MaxCoord \div TypeSizes[value.type]
Inline(value) == ValueBytes(value) <= Capacity(image)

\* A wrong IsKnownTag: the values of all tags are read.
IsKnownAlways(tag) == TRUE

IsKnown(tag) == tag \in KnownTags

WithinLimit(value) ==
  ValueBytes(value) <= MaxMetadata /\ metadataBytes <= MaxMetadata - ValueBytes(value)

Taken(field) == Sound(field.value) /\ IsKnown(field.tag) /\ WithinLimit(field.value)

Asks ==
  \/ pc = "header" /\ image.size >= 8
  \/ pc = "bigHeader" /\ image.size >= 16
  \/ pc = "chain" /\ at # 0 /\ Len(ifds) < MaxLevels
  \/ pc = "table" /\ TableFits(image, at)
  \/ AtEntry /\ Taken(Field) /\ ~Inline(Field.value)

Asked ==
  CASE pc = "header"    -> [offset |-> 0, length |-> 8]
    [] pc = "bigHeader" -> [offset |-> 0, length |-> 16]
    [] pc = "chain"     -> [offset |-> at, length |-> CountSize(image)]
    [] pc = "table"     -> [offset |-> at + CountSize(image), length |-> TableSize(image, at)]
    [] pc = "entries"   -> [offset |-> Field.at, length |-> ValueBytes(Field.value)]

\* A wrong check of a range: the sum wraps.
EndsInside(range) == Wrapped(range.offset + range.length) <= image.size

Inside(range) == range.offset <= image.size /\ range.length <= image.size - range.offset

Issue == reads' = reads \cup {Asked}

\* The source delivers what was asked.
Delivered == Asks /\ Inside(Asked) /\ Issue

\* A read of the second header that fails is taken for a wrong version as well.
FailRead(code) ==
  /\ Returns("failed")
  /\ errors' = errors \o (IF pc = "bigHeader" THEN <<code, "UnsupportedVersion">> ELSE <<code>>)
  /\ UNCHANGED <<walk, target, scratch, metadata, found, warnings>>

ReadBeyond ==
  /\ Asks /\ ~Inside(Asked)
  /\ FailRead("TruncatedData")
  /\ UNCHANGED reads

\* The source answers ShortRead, or EndOfSource or Failed.
ReadFails ==
  /\ Asks /\ Inside(Asked)
  /\ Issue
  /\ FailRead("ShortRead") \/ FailRead("SourceUnavailable")

-----------------------------------------------------------------------------
(***************************************************************************)
(* The header.                                                             *)
(***************************************************************************)
RefuseSource ==
  /\ \/ pc = "header" /\ image.size < 8
     \/ pc = "bigHeader" /\ image.size < 16
  /\ Fail("TruncatedHeader")
  /\ UNCHANGED <<scratch, metadata, warnings, reads>>

RefuseHeader ==
  /\ pc = "header" /\ Delivered
  /\ \/ image.order = "?" /\ Fail("InvalidSignature")
     \/ image.order # "?" /\ image.version \notin {42, 43} /\ Fail("UnsupportedVersion")
  /\ UNCHANGED <<scratch, metadata, warnings>>

ReadHeader ==
  /\ pc = "header" /\ Delivered
  /\ image.order # "?"
  /\ \/ image.version = 42 /\ at' = image.first /\ Goes("chain")
     \/ image.version = 43 /\ at' = at /\ Goes("bigHeader")
  /\ UNCHANGED <<cursor, current, ifds, metadataBytes>>
  /\ OutputsStay

RefuseBigHeader ==
  /\ pc = "bigHeader" /\ Delivered
  /\ ~image.offsetSize8
  /\ Fail("UnsupportedVersion")
  /\ UNCHANGED <<scratch, metadata, warnings>>

ReadBigHeader ==
  /\ pc = "bigHeader" /\ Delivered
  /\ image.offsetSize8
  /\ at' = image.first
  /\ Goes("chain")
  /\ UNCHANGED <<cursor, current, ifds, metadataBytes>>
  /\ OutputsStay

-----------------------------------------------------------------------------
(***************************************************************************)
(* The chain of directories, ReadIfd.                                      *)
(***************************************************************************)
CountEntries ==
  /\ pc = "chain" /\ Delivered
  /\ Goes("table")
  /\ UNCHANGED walk
  /\ OutputsStay

\* The chain is too deep, or there is no directory at all.
RefuseChain ==
  /\ pc = "chain"
  /\ \/ at # 0 /\ Len(ifds) >= MaxLevels
     \/ at = 0 /\ ifds = << >>
  /\ Fail("InvalidOffset")
  /\ UNCHANGED <<scratch, metadata, warnings, reads>>

RefuseTable ==
  /\ pc = "table"
  /\ ~TableFits(image, at)
  /\ Fail("InvalidOffset")
  /\ UNCHANGED <<scratch, metadata, warnings, reads>>

ReadTable ==
  /\ pc = "table" /\ Delivered
  /\ Goes("entries")
  /\ cursor' = 1 /\ current' = << >>
  /\ UNCHANGED <<at, ifds, metadataBytes>>
  /\ OutputsStay

\* An entry of a type without a size is refused before its tag is looked at.
RefuseEntry ==
  /\ AtEntry
  /\ \/ ~Sound(Field.value)
     \/ Sound(Field.value) /\ IsKnown(Field.tag) /\ ~WithinLimit(Field.value)
  /\ Fail("InvalidOffset")
  /\ UNCHANGED <<scratch, metadata, warnings, reads>>

\* A wrong SkipEntry: the loop does not move on.
SkipEntryForever ==
  /\ AtEntry
  /\ Sound(Field.value) /\ ~IsKnown(Field.tag)
  /\ Goes("entries")
  /\ UNCHANGED <<walk, reads>>
  /\ OutputsStay

SkipEntry ==
  /\ AtEntry
  /\ Sound(Field.value) /\ ~IsKnown(Field.tag)
  /\ Goes("entries")
  /\ cursor' = cursor + 1
  /\ UNCHANGED <<at, current, ifds, metadataBytes, reads>>
  /\ OutputsStay

\* A tag that comes twice has its last value.
TakeEntry ==
  /\ AtEntry /\ Taken(Field)
  /\ IF Inline(Field.value) THEN UNCHANGED reads ELSE Delivered
  /\ Goes("entries")
  /\ current' = [tag \in DOMAIN current \cup {Field.tag} |->
                   IF tag = Field.tag THEN Field.value ELSE current[tag]]
  /\ metadataBytes' = metadataBytes + ValueBytes(Field.value)
  /\ cursor' = cursor + 1
  /\ UNCHANGED <<at, ifds>>
  /\ OutputsStay

Number(tags, tag, index) ==
  IF tag \in DOMAIN tags /\ index < tags[tag].count THEN tags[tag].values[index + 1] ELSE 0

SizeIn(tags) ==
  [width |-> Number(tags, "ImageWidth", 0), height |-> Number(tags, "ImageLength", 0)]

HasSize(tags) == SizeIn(tags).width # 0 /\ SizeIn(tags).height # 0

\* Every directory after the first one that has a size counts as an overview.
WithOverview ==
  [metadata EXCEPT !.overviews =
     IF ifds # << >> /\ HasSize(current) THEN Append(@, SizeIn(current)) ELSE @]

\* A wrong EndTable: every directory has the limit for itself.
EndTableForgetting ==
  /\ pc = "entries" /\ cursor > Here.count
  /\ Goes("chain")
  /\ metadata' = WithOverview
  /\ ifds' = Append(ifds, current)
  /\ at' = Here.next /\ cursor' = 0 /\ current' = << >> /\ metadataBytes' = 0
  /\ UNCHANGED <<target, scratch, found, warnings, reads>>

EndTable ==
  /\ pc = "entries" /\ cursor > Here.count
  /\ Goes("chain")
  /\ metadata' = WithOverview
  /\ ifds' = Append(ifds, current)
  /\ at' = Here.next /\ cursor' = 0 /\ current' = << >>
  /\ UNCHANGED <<metadataBytes, target, scratch, found, warnings, reads>>

EndChain ==
  /\ pc = "chain"
  /\ at = 0 /\ ifds # << >>
  /\ Goes("size")
  /\ target' = 1
  /\ UNCHANGED <<walk, scratch, metadata, found, warnings, reads>>

-----------------------------------------------------------------------------
(***************************************************************************)
(* Decode, on the tags of one directory: the caller's metadata is filled   *)
(* from the first one, an overview's is thrown away.  The checks come in   *)
(* the order of the code, and what was stored before one fails stays.      *)
(***************************************************************************)
T == ifds[target]

Has(tag)         == tag \in DOMAIN T
N(tag, index)    == Number(T, tag, index)
Given(tag, else) == IF Has(tag) THEN N(tag, 0) ELSE else

Filling == IF target = 1 THEN metadata ELSE scratch

\* A wrong use of the metadata: the overview's goes to the caller as well.
FillsBoth(new) == metadata' = new /\ UNCHANGED scratch

Fills(new) ==
  IF target = 1 THEN metadata' = new /\ UNCHANGED scratch
                ELSE scratch' = new /\ UNCHANGED metadata

Decoding(stage) == pc = stage /\ UNCHANGED reads

Decodes(next) == Goes(next) /\ UNCHANGED <<walk, target, found, warnings>>

Refuses(code) == Fail(code) /\ UNCHANGED warnings

DecodeSize ==
  /\ Decoding("size")
  /\ HasSize(T)
  /\ Fills([Filling EXCEPT !.width = SizeIn(T).width, !.height = SizeIn(T).height])
  /\ Decodes("samples")

RefuseSize ==
  /\ Decoding("size")
  /\ ~HasSize(T)
  /\ Refuses("InvalidRasterSize")
  /\ UNCHANGED <<metadata, scratch>>

(***************************************************************************)
(* Samples.  A data type is a format and a number of bits.                 *)
(***************************************************************************)
DataTypes == ({1, 2} \X {8, 16, 32}) \cup ({3} \X {32, 64})

Samples == Given("SamplesPerPixel", 1)

\* A tag with one value has it for every sample.
OfSample(tag, b) == N(tag, IF T[tag].count = 1 THEN 0 ELSE b - 1)

DataType(b) ==
  <<IF Has("SampleFormat") THEN OfSample("SampleFormat", b) ELSE 1, OfSample("BitsPerSample", b)>>

BytesOf(b) == DataType(b)[2] \div 8

SamplesCounted ==
  /\ Has("BitsPerSample") /\ T["BitsPerSample"].count \in {1, Samples}
  /\ Has("SampleFormat") => T["SampleFormat"].count \in {1, Samples}

\* The bands before the first one of a type the reader does not have.
KnownBands == Max({n \in 0 .. Samples : \A b \in 1 .. n : DataType(b) \in DataTypes})

\* The number is looked at before the bands are stored.
SamplesInRange == Samples # 0 /\ Samples <= MaxSamples

\* RasterBandInfo for the first n samples.
BandList(n) == [b \in 1 .. n |-> [type |-> DataType(b), noData |-> FALSE, described |-> FALSE]]

\* The loop over the samples counts in the type of its limit: of the largest
\* number it never ends, but for the memory it takes (RefuseSamples).  A stride
\* of at most MaxSamples bands does not overflow.
DecodeSamples ==
  /\ Decoding("samples")
  /\ Samples # 0 /\ Samples < MaxSamples /\ SamplesCounted /\ KnownBands = Samples
  /\ Fills([Filling EXCEPT !.bands = BandList(Samples)])
  /\ Decodes("coding")

RefuseSamples ==
  /\ Decoding("samples")
  /\ \/ ~SamplesInRange /\ Refuses("InvalidRasterSize") /\ UNCHANGED <<metadata, scratch>>
     \/ /\ SamplesInRange /\ ~SamplesCounted
        /\ Refuses("UnsupportedSampleFormat")
        /\ UNCHANGED <<metadata, scratch>>
     \/ /\ SamplesInRange /\ SamplesCounted /\ KnownBands # Samples
        /\ Refuses("UnsupportedSampleFormat")
        /\ Fills([Filling EXCEPT !.bands = BandList(KnownBands)])
     \/ /\ Samples = MaxSamples /\ SamplesCounted /\ KnownBands = Samples
        /\ Refuses("MemoryBudgetExceeded")
        /\ Fills([Filling EXCEPT !.bands = BandList(Samples)])

(***************************************************************************)
(* Compression, predictor and planes.                                      *)
(***************************************************************************)
Compressions == IF libTiff THEN {1, 5, 8, 32773, 32946} ELSE {1}

IsReal(b) == DataType(b)[1] = 3

PredictorSound ==
  /\ Given("Predictor", 1) \in 1 .. 3
  /\ Has("Predictor") => T["Predictor"].type = "Short" /\ T["Predictor"].count = 1
  /\ Given("Predictor", 1) = 3 =>
       \A b \in 1 .. Samples : IsReal(b) /\ BytesOf(b) = BytesOf(1)
  /\ Given("Predictor", 1) = 2 => \A b \in 1 .. Samples : ~IsReal(b)

Planar == Given("PlanarConfig", 1)

CodingSound == Given("Compression", 1) \in Compressions /\ PredictorSound /\ Planar \in {1, 2}

DecodeCoding ==
  /\ Decoding("coding")
  /\ CodingSound
  /\ Decodes("segments")
  /\ UNCHANGED <<metadata, scratch>>

RefuseCoding ==
  /\ Decoding("coding")
  /\ \/ /\ Given("Compression", 1) \notin Compressions
        /\ Refuses("UnsupportedCompression")
     \/ /\ Given("Compression", 1) \in Compressions /\ ~PredictorSound
        /\ Refuses("UnsupportedSampleFormat")
     \/ /\ Given("Compression", 1) \in Compressions /\ PredictorSound /\ Planar \notin {1, 2}
        /\ Refuses("UnsupportedPlanarConfiguration")
  /\ UNCHANGED <<metadata, scratch>>

(***************************************************************************)
(* Segments.                                                               *)
(***************************************************************************)
Tagged  == Has("TileWidth") \/ Has("TileLength")
HasTile == N("TileWidth", 0) # 0 /\ N("TileLength", 0) # 0
Tile    == IF Tagged /\ HasTile THEN <<N("TileWidth", 0), N("TileLength", 0)>> ELSE << >>

OffsetTag == IF Tagged THEN "TileOffsets" ELSE "StripOffsets"
CountTag  == IF Tagged THEN "TileByteCounts" ELSE "StripByteCounts"

PlaceCount ==
  IF Tagged
  THEN ((SizeIn(T).width - 1) \div Tile[1] + 1) * ((SizeIn(T).height - 1) \div Tile[2] + 1)
  ELSE (SizeIn(T).height - 1) \div N("RowsPerStrip", 0) + 1

SegmentCount == PlaceCount * (IF Planar = 2 THEN Samples ELSE 1)

\* A wrong check of the segments: their number is not compared with the layout.
SegmentsGiven ==
  /\ Tagged => HasTile
  /\ Has(OffsetTag) /\ Has(CountTag) /\ T[OffsetTag].count = T[CountTag].count
  /\ ~Tagged => N("RowsPerStrip", 0) # 0

SegmentsMatch ==
  /\ Tagged => HasTile
  /\ Has(OffsetTag) /\ Has(CountTag) /\ T[OffsetTag].count = T[CountTag].count
  /\ ~Tagged => N("RowsPerStrip", 0) # 0
  /\ PlaceCount <= MaxCoord /\ PlaceCount * Samples <= MaxCoord
  /\ T[OffsetTag].count = SegmentCount

SegmentList ==
  [n \in 1 .. T[OffsetTag].count |->
     [offset |-> N(OffsetTag, n - 1), byteCount |-> N(CountTag, n - 1)]]

SegmentsInside ==
  \A n \in DOMAIN SegmentList :
    LET s == SegmentList[n]
    IN  s.byteCount # 0 /\ s.offset <= image.size /\ s.byteCount <= image.size - s.offset

DecodeSegments ==
  /\ Decoding("segments")
  /\ SegmentsMatch /\ SegmentsInside
  /\ Fills([Filling EXCEPT !.tile = Tile])
  /\ Decodes("keys")

RefuseSegments ==
  /\ Decoding("segments")
  /\ \/ ~SegmentsMatch /\ Refuses("InconsistentTileLayout")
     \/ SegmentsMatch /\ ~SegmentsInside /\ Refuses("InvalidOffset")
  /\ Fills([Filling EXCEPT !.tile = Tile])

(***************************************************************************)
(* Georeferencing.                                                         *)
(***************************************************************************)
KeysSound ==
  Has("GeoKeyDirectory") =>
    LET keys == T["GeoKeyDirectory"]
    IN  keys.type = "Short" /\ keys.count >= 4 /\ (keys.count - 4) % 4 = 0

\* The value of the first entry with the key, or 0.
KeyValue(key) ==
  LET count  == IF Has("GeoKeyDirectory") THEN T["GeoKeyDirectory"].count ELSE 0
      places == {i \in 4 .. count - 4 : i % 4 = 0 /\ N("GeoKeyDirectory", i) = key}
  IN  IF places = {} THEN 0 ELSE N("GeoKeyDirectory", Min(places) + 3)

\* GTModelTypeGeoKey, GTRasterTypeGeoKey, GeographicTypeGeoKey,
\* ProjectedCSTypeGeoKey and ProjLinearUnitsGeoKey.
CrsKind ==
  CASE KeyValue(1024) = 1 -> "Projected"
    [] KeyValue(1024) = 2 -> "Geographic"
    [] OTHER -> "Unknown"

Anchor ==
  CASE KeyValue(1025) = 1 -> "Area"
    [] KeyValue(1025) = 2 -> "Point"
    [] OTHER -> "Unknown"

DecodeKeys ==
  /\ Decoding("keys")
  /\ KeysSound
  /\ Fills([Filling EXCEPT !.crs = CrsKind, !.anchor = Anchor,
              !.epsg = KeyValue(IF CrsKind = "Projected" THEN 3072 ELSE 2048),
              !.metre = CrsKind = "Projected" /\ KeyValue(3076) = 9001])
  /\ Decodes("transform")

RefuseKeys ==
  /\ Decoding("keys")
  /\ ~KeysSound
  /\ Refuses("InvalidCrs")
  /\ UNCHANGED <<metadata, scratch>>

HasMatrix == Has("ModelTransformation")
HasScale  == Has("ModelPixelScale") /\ Has("ModelTiepoint")

TransformTagsSound ==
  /\ HasMatrix =>
       T["ModelTransformation"].type = "Double" /\ T["ModelTransformation"].count = 16
  /\ Has("ModelPixelScale") <=> Has("ModelTiepoint")
  /\ HasScale =>
       /\ T["ModelPixelScale"].type = "Double" /\ T["ModelPixelScale"].count = 3
       /\ T["ModelTiepoint"].type = "Double" /\ T["ModelTiepoint"].count >= 6

FromMatrix ==
  LET m(i) == N("ModelTransformation", i)
  IN  [a0 |-> m(3), a1 |-> m(0), a2 |-> m(1), b0 |-> m(7), b1 |-> m(4), b2 |-> m(5)]

\* Rows go down: the second scale is a magnitude.
FromPixelScaleAndTiepoint ==
  LET scale(i) == N("ModelPixelScale", i)
      point(i) == N("ModelTiepoint", i)
  IN  [a0 |-> point(3) - scale(0) * point(0), a1 |-> scale(0), a2 |-> 0,
       b0 |-> point(4) + scale(1) * point(1), b1 |-> 0, b2 |-> -scale(1)]

Conflict == HasMatrix /\ HasScale /\ FromMatrix # FromPixelScaleAndTiepoint

\* A wrong precedence: the scale wins over the matrix.
TransformFromScale ==
  IF HasScale THEN <<FromPixelScaleAndTiepoint>>
  ELSE IF HasMatrix THEN <<FromMatrix>> ELSE << >>

Transform ==
  IF HasMatrix THEN <<FromMatrix>>
  ELSE IF HasScale THEN <<FromPixelScaleAndTiepoint>> ELSE << >>

Invertible ==
  Transform # << >> =>
    Transform[1].a1 * Transform[1].b2 - Transform[1].a2 * Transform[1].b1 # 0

ConflictWarning == IF Conflict THEN <<"ConflictingGeoTransform">> ELSE << >>

AnchorWarning ==
  IF Transform # << >> /\ Anchor = "Unknown" THEN <<"UnknownPixelAnchor">> ELSE << >>

DecodeTransform ==
  /\ Decoding("transform")
  /\ TransformTagsSound /\ Invertible
  /\ Fills([Filling EXCEPT !.transform = Transform])
  /\ warnings' = warnings \o ConflictWarning \o AnchorWarning
  /\ Goes("values")
  /\ UNCHANGED <<walk, target, found>>

RefuseTransform ==
  /\ Decoding("transform")
  /\ \/ ~TransformTagsSound /\ UNCHANGED <<metadata, scratch, warnings>>
     \/ /\ TransformTagsSound /\ ~Invertible
        /\ Fills([Filling EXCEPT !.transform = Transform])
        /\ warnings' = warnings \o ConflictWarning
  /\ Fail("InvalidGeoTransform")

(***************************************************************************)
(* NoData, band descriptions, and the layout.                              *)
(***************************************************************************)
NoDataSound ==
  Has("GdalNoData") => T["GdalNoData"].type = "Ascii" /\ N("GdalNoData", 0) = 1

\* DecodeGdalMetadata: an item that names a sample the image has describes it.
Described ==
  IF Has("GdalMetadata") /\ T["GdalMetadata"].type = "Ascii"
  THEN {b \in 1 .. Samples : \E i \in DOMAIN T["GdalMetadata"].values :
                               T["GdalMetadata"].values[i] = b - 1}
  ELSE {}

\* The bands with the NoData value of the directory and the texts of some.
Labelled(some) ==
  [b \in DOMAIN Filling.bands |->
     [Filling.bands[b] EXCEPT !.noData = Has("GdalNoData"), !.described = b \in some]]

\* The TiffLayout of the directory.  A strip is a segment as wide as the image.
LayoutHere ==
  LET before[b \in 1 .. Samples + 1] == IF b = 1 THEN 0 ELSE before[b - 1] + BytesOf(b - 1)
  IN  [width |-> SizeIn(T).width, height |-> SizeIn(T).height, tiled |-> Tagged,
       segmentWidth  |-> IF Tagged THEN Tile[1] ELSE SizeIn(T).width,
       segmentHeight |-> IF Tagged THEN Tile[2] ELSE N("RowsPerStrip", 0),
       planar |-> Planar, compressed |-> Given("Compression", 1) # 1,
       predictor |-> Given("Predictor", 1), pixelStride |-> before[Samples + 1],
       sampleBytes   |-> [b \in 1 .. Samples |-> BytesOf(b)],
       sampleOffsets |-> [b \in 1 .. Samples |-> IF Planar = 2 THEN 0 ELSE before[b]],
       segments |-> SegmentList]

\* The first directory is followed by the choice of a level; the overview's
\* layout replaces the first one and ends the call.
DecodeValues ==
  /\ Decoding("values")
  /\ NoDataSound
  /\ Fills([Filling EXCEPT !.bands = Labelled(Described)])
  /\ layout' = IF request.layout THEN LayoutHere ELSE layout
  /\ \/ target = 1 /\ Goes("choose")
     \/ target # 1 /\ Returns("ok") /\ UNCHANGED errors
  /\ UNCHANGED <<walk, target, chosen, warnings>>

RefuseValues ==
  /\ Decoding("values")
  /\ ~NoDataSound
  /\ Refuses("InvalidNoDataValue")
  /\ UNCHANGED <<metadata, scratch>>

-----------------------------------------------------------------------------
(***************************************************************************)
(* The choice of a level (ChooseOverviewLevel).  The n-th overview is      *)
(* looked up in the list of sizes, and its directory in the chain.         *)
(***************************************************************************)
Step == LargerOf(request.step, 1)

Factor(n) == OverviewFactor(metadata.width, metadata.overviews[n].width)

FineEnough == {n \in DOMAIN metadata.overviews : Factor(n) # 0 /\ Factor(n) <= Step}

\* A wrong choice: the loop ends at the first level that the step covers.
ChoiceOfTheFirst ==
  IF request.level # 0 THEN request.level
  ELSE IF FineEnough = {} THEN 0 ELSE Min(FineEnough)

\* The last level that the step covers.
Choice ==
  IF request.level # 0 THEN request.level
  ELSE IF FineEnough = {} THEN 0 ELSE Max(FineEnough)

\* Wrong indices: the first directory counts as a level, or is left out twice.
DirectoryBefore(n) == n
DirectoryAfter(n)  == n + 2

DirectoryOf(n) == n + 1

\* A wrong refusal: the error is reported and the parse goes on.
RefuseLevelAndGoOn ==
  /\ Decoding("choose")
  /\ request.level > Len(metadata.overviews)
  /\ Returns("ok")
  /\ errors' = Append(errors, "UnsupportedOverviewLevel")
  /\ UNCHANGED <<walk, target, scratch, metadata, found, warnings>>

RefuseLevel ==
  /\ Decoding("choose")
  /\ request.level > Len(metadata.overviews)
  /\ Refuses("UnsupportedOverviewLevel")
  /\ UNCHANGED <<metadata, scratch>>

ChooseFirst ==
  /\ Decoding("choose")
  /\ request.level <= Len(metadata.overviews)
  /\ ~request.layout \/ Choice = 0
  /\ Returns("ok")
  /\ UNCHANGED <<walk, target, scratch, metadata, found, errors, warnings>>

\* Every level was listed for a directory after the first, so "overview level
\* is incomplete" is never reported (the range of target in TypeOK).
ChooseOverview ==
  /\ Decoding("choose")
  /\ request.level <= Len(metadata.overviews)
  /\ request.layout /\ Choice # 0
  /\ chosen' = Choice
  /\ target' = DirectoryOf(Choice)
  /\ Goes("size")
  /\ UNCHANGED <<walk, scratch, metadata, layout, warnings>>

-----------------------------------------------------------------------------
(***************************************************************************)
(* std::bad_alloc, caught by the caller: the vectors, maps and texts grow  *)
(* with what the file says.  What was stored before stays.                 *)
(***************************************************************************)
HalfStored ==
  \/ UNCHANGED <<metadata, scratch>>
  \/ pc = "entries" /\ cursor > Here.count /\ metadata' = WithOverview /\ UNCHANGED scratch
  \/ /\ pc = "samples" /\ SamplesInRange /\ SamplesCounted
     /\ \E n \in 1 .. KnownBands : Fills([Filling EXCEPT !.bands = BandList(n)])
  \/ pc = "segments" /\ SegmentsMatch /\ Fills([Filling EXCEPT !.tile = Tile])
  \/ /\ pc = "values" /\ NoDataSound
     /\ \E some \in SUBSET Described : Fills([Filling EXCEPT !.bands = Labelled(some)])

AllocationFails ==
  /\ pc \in {"table", "entries", "samples", "segments", "values"}
  /\ Fail("MemoryBudgetExceeded")
  /\ HalfStored
  /\ \/ UNCHANGED reads
     \/ pc = "entries" /\ Delivered
  /\ UNCHANGED warnings

Init ==
  /\ image \in Images /\ libTiff \in LibTiffBuilds
  /\ pc = "idle" /\ request = NoRequest
  /\ at = 0 /\ cursor = 0 /\ current = << >> /\ ifds = << >> /\ metadataBytes = 0
  /\ target = 0 /\ scratch = NoMetadata
  /\ metadata = NoMetadata
  /\ layout = NoLayout /\ chosen = 0
  /\ errors = << >> /\ warnings = << >> /\ result = "none"
  /\ reads = {}

ReadsSource ==
  \/ ReadBeyond
  \/ ReadFails
  \/ RefuseSource
  \/ RefuseHeader
  \/ ReadHeader
  \/ RefuseBigHeader
  \/ ReadBigHeader

WalksChain ==
  \/ CountEntries
  \/ RefuseChain
  \/ RefuseTable
  \/ ReadTable
  \/ RefuseEntry
  \/ SkipEntry
  \/ TakeEntry
  \/ EndTable
  \/ EndChain

DecodesDirectory ==
  \/ DecodeSize
  \/ RefuseSize
  \/ DecodeSamples
  \/ RefuseSamples
  \/ DecodeCoding
  \/ RefuseCoding
  \/ DecodeSegments
  \/ RefuseSegments
  \/ DecodeKeys
  \/ RefuseKeys
  \/ DecodeTransform
  \/ RefuseTransform
  \/ DecodeValues
  \/ RefuseValues

ChoosesLevel ==
  \/ RefuseLevel
  \/ ChooseFirst
  \/ ChooseOverview

\* What the call does on the caller's thread once it has begun.
Progress == ReadsSource \/ WalksChain \/ DecodesDirectory \/ ChoosesLevel

Next == (\E r \in Requests : Begin(r)) \/ Progress \/ AllocationFails

\* Once begun a call keeps taking steps, and each read of the source returns;
\* allocation need never fail.
Spec == Init /\ [][Next]_vars /\ WF_vars(Progress)
-----------------------------------------------------------------------------
(***************************************************************************)
(* Properties.                                                             *)
(***************************************************************************)
Codes ==
  {"TruncatedHeader", "InvalidSignature", "UnsupportedVersion", "TruncatedData", "ShortRead",
   "SourceUnavailable", "InvalidOffset", "InvalidRasterSize", "UnsupportedSampleFormat",
   "UnsupportedCompression", "UnsupportedPlanarConfiguration", "InconsistentTileLayout",
   "InvalidCrs", "InvalidGeoTransform", "InvalidNoDataValue", "UnsupportedOverviewLevel",
   "MemoryBudgetExceeded"}

Stages == {"size", "samples", "coding", "segments", "keys", "transform", "values"}

\* Decode uses ifds[ifdIndex] and the walk table[i] without a check: the
\* variables hold what the code declares them as, and these places exist.
TypeOK ==
  /\ image \in Images /\ libTiff \in LibTiffBuilds
  /\ pc \in {"idle", "header", "bigHeader", "chain", "table", "entries", "choose"} \cup Stages
  /\ request \in Requests \cup {NoRequest}
  /\ at \in Coord /\ cursor \in Nat /\ metadataBytes \in Nat
  /\ pc \in {"table", "entries"} => at \in DOMAIN image.tables
  /\ DOMAIN current \subseteq KnownTags
  /\ \A n \in DOMAIN ifds : DOMAIN ifds[n] \subseteq KnownTags
  /\ pc \in Stages => target \in DOMAIN ifds
  /\ chosen \in 0 .. Len(metadata.overviews)
  /\ errors \in Seq(Codes)
  /\ warnings \in Seq({"ConflictingGeoTransform", "UnknownPixelAnchor"})
  /\ result \in {"none", "ok", "failed"}

\* A call reports an error exactly if it returns false, and goes on after none
\* (every return of Parser::Run and ReadIfd and Decode below it).
FailuresAreReported ==
  /\ result = "failed" <=> errors # << >>
  /\ pc # "idle" => result = "none"

Bytes(tags) == MapThenSumSet(LAMBDA tag : ValueBytes(tags[tag]), DOMAIN tags)

\* However the directories are linked, cycles included, the parser holds no
\* more directories and no more bytes of values than its limits, all
\* directories together (the loop in Run, metadataBytes).
ChainIsBounded ==
  /\ Len(ifds) <= MaxLevels
  /\ MapThenSumSet(LAMBDA n : Bytes(ifds[n]), DOMAIN ifds) + Bytes(current) <= MaxMetadata

\* Every range asked of the source lies in it, whatever offsets and counts the
\* file holds (Parser::Read).
ReadsStayInside == \A r \in reads : r.offset + r.length <= image.size

Ranges(f, a, tag) ==
  {[offset |-> e.at, length |-> ValueBytes(e.value)] :
     e \in {f.tables[a].entries[n] : n \in {m \in DOMAIN f.tables[a].entries :
              /\ f.tables[a].entries[m].tag = tag
              /\ ValueBytes(f.tables[a].entries[m].value) > Capacity(f)}}}

\* Where the directories of a file and the values of their known tags are.
Structure(f) ==
  {[offset |-> 0, length |-> IF BigTiff(f) THEN 16 ELSE 8]}
  \cup {[offset |-> a, length |-> CountSize(f) + TableSize(f, a)] : a \in DOMAIN f.tables}
  \cup UNION {Ranges(f, a, tag) : a \in DOMAIN f.tables, tag \in KnownTags}

\* Where the segments are that the directories list.
Pixels(f) ==
  UNION {LET offsets == {n \in DOMAIN f.tables[a].entries :
                           f.tables[a].entries[n].tag \in {"StripOffsets", "TileOffsets"}}
             sizes   == {n \in DOMAIN f.tables[a].entries :
                           f.tables[a].entries[n].tag \in {"StripByteCounts", "TileByteCounts"}}
             list(n) == f.tables[a].entries[n].value.values
         IN  {[offset |-> list(p[1])[p[3]], length |-> list(p[2])[p[3]]] :
                p \in {q \in offsets \X sizes \X (1 .. MaxMetadata) :
                         q[3] \in DOMAIN list(q[1]) /\ q[3] \in DOMAIN list(q[2])}}
         : a \in DOMAIN f.tables}

Apart(r, s) == r.offset + r.length <= s.offset \/ s.offset + s.length <= r.offset

\* In a file whose segments overlap none of its directories and known values,
\* the parser asks for no byte of a segment, whatever else its tags point to
\* (ReadMetadata: "Pixel segments are never read").
PixelsAreNotRead ==
  (\A s \in Structure(image), p \in Pixels(image) : Apart(s, p))
    => \A r \in reads, p \in Pixels(image) : Apart(r, p)

\* A parse asks for metadata alone: nothing outside the source, nothing of its
\* pixels (Parser::Read, IsKnownTag).
OnlyMetadataIsRead == ReadsStayInside /\ PixelsAreNotRead

\* The directories that are overviews, and the place of one among them.
Sized(chain)      == {n \in 2 .. Len(chain) : HasSize(chain[n])}
PlaceIn(chain, n) == Cardinality({m \in Sized(chain) : m <= n})

\* A parse that succeeds describes the first directory and lists the sizes of
\* the others, whichever directory gave the layout (Decode fills the caller's
\* metadata once).
MetadataIsOfTheFirst ==
  result = "ok" =>
    /\ [width |-> metadata.width, height |-> metadata.height] = SizeIn(ifds[1])
    /\ Len(metadata.bands) = (IF "SamplesPerPixel" \in DOMAIN ifds[1]
                              THEN Number(ifds[1], "SamplesPerPixel", 0) ELSE 1)
    /\ Len(metadata.overviews) = Cardinality(Sized(ifds))
    /\ \A n \in Sized(ifds) : metadata.overviews[PlaceIn(ifds, n)] = SizeIn(ifds[n])

\* What a windowed read takes for granted of the layout it gets: a segment for
\* every place and plane, all inside the file; the bands of a pixel one after
\* the other; samples of one size under the floating-point predictor (Decode).
LayoutIsSound ==
  result = "ok" /\ request.layout =>
    LET across == (layout.width - 1) \div layout.segmentWidth + 1
        down   == (layout.height - 1) \div layout.segmentHeight + 1
        bands  == Len(layout.sampleBytes)
    IN  /\ Len(layout.segments) = across * down * (IF layout.planar = 2 THEN bands ELSE 1)
        /\ \A n \in DOMAIN layout.segments :
             /\ layout.segments[n].byteCount > 0
             /\ layout.segments[n].offset + layout.segments[n].byteCount <= image.size
        /\ bands > 0 /\ Len(layout.sampleOffsets) = bands
        /\ \A b \in 1 .. bands :
             layout.sampleOffsets[b] = IF b = 1 \/ layout.planar = 2 THEN 0
                                       ELSE layout.sampleOffsets[b - 1] + layout.sampleBytes[b - 1]
        /\ layout.predictor = 3 => \A b \in 1 .. bands : layout.sampleBytes[b] = layout.sampleBytes[1]

LayoutSize == [width |-> layout.width, height |-> layout.height]

\* When every directory has a size, the layout of a chosen level is of the size
\* that was announced for it (the chosen level indexes overviewSizes and ifds).
LevelIsItsDirectory ==
  result = "ok" /\ chosen # 0 /\ (\A n \in DOMAIN ifds : HasSize(ifds[n])) =>
    LayoutSize = metadata.overviews[chosen]

\* The directories the step covers: one of their pixels stands, to the nearest
\* whole number, for no more pixels of the image than the step.
Covered ==
  {n \in DOMAIN ifds :
     SizeIn(ifds[1]).width + SizeIn(ifds[n]).width \div 2 < (Step + 1) * SizeIn(ifds[n]).width}

\* The layout is that of a covered directory than which none is narrower.
CoarsestIsRead ==
  \E n \in Covered :
    /\ LayoutSize = SizeIn(ifds[n])
    /\ \A m \in Covered : SizeIn(ifds[n]).width <= SizeIn(ifds[m]).width

\* A windowed read that leaves the level to the parser, of a file in which all
\* directories have a size and no rounding of a width leaves the word.
LeftToTheParser ==
  /\ result = "ok" /\ request.layout /\ request.level = 0
  /\ \A n \in DOMAIN ifds : HasSize(ifds[n])
  /\ 2 * SizeIn(ifds[1]).width <= MaxCoord

FinestFirst ==
  \A m, n \in DOMAIN ifds : m <= n => SizeIn(ifds[n]).width <= SizeIn(ifds[m]).width

\* Where the directories come finest first, the parser chooses and decodes the
\* coarsest directory the step covers, the image itself if it covers no other
\* (ChooseOverviewLevel, whose loop keeps the last one; the index of Run).
CoarsestLevelIsRead == LeftToTheParser /\ FinestFirst => CoarsestIsRead

\* Georeferencing is never guessed: a transform without an anchor is reported,
\* and of two transforms the matrix wins (Decode).
GeoreferenceIsExplained ==
  result = "ok" =>
    /\ metadata.transform # << >> /\ metadata.anchor = "Unknown" =>
         \E n \in DOMAIN warnings : warnings[n] = "UnknownPixelAnchor"
    /\ "ModelTransformation" \in DOMAIN ifds[1] =>
         LET m(i) == Number(ifds[1], "ModelTransformation", i)
         IN  metadata.transform = <<[a0 |-> m(3), a1 |-> m(0), a2 |-> m(1),
                                     b0 |-> m(7), b1 |-> m(4), b2 |-> m(5)]>>

\* A parse that has begun ends, whatever the file links to and the source
\* answers (the loops of Run and ReadIfd).
EveryParseEnds == pc # "idle" ~> pc = "idle"

(***************************************************************************)
(* Statements of the repository that do not hold of every file.            *)
(***************************************************************************)

\* "Unsupported TIFF or BigTIFF variant": UnsupportedVersion is reported only
\* for a file whose version or offset size is not supported (Run, Read).
VersionIsTheFiles ==
  (\E n \in DOMAIN errors : errors[n] = "UnsupportedVersion") =>
    image.version \notin {42, 43} \/ (BigTiff(image) /\ ~image.offsetSize8)

\* "read the selected IFD": the layout of a chosen level is of the size that
\* was announced for it, directories without a size or not.
LevelIsAlwaysItsDirectory ==
  result = "ok" /\ chosen # 0 => LayoutSize = metadata.overviews[chosen]

\* "Reduced-resolution levels, ... excluding the full-resolution image itself".
OverviewsAreReduced ==
  result = "ok" =>
    \A n \in DOMAIN metadata.overviews :
      \/ metadata.overviews[n].width < metadata.width
      \/ metadata.overviews[n].height < metadata.height

\* "the coarsest level that still satisfies `samplingStep`", in whatever order
\* the directories come (RasterReadOptions::overviewLevel).
CoarsestLevelIsAlwaysRead == LeftToTheParser => CoarsestIsRead
=============================================================================
