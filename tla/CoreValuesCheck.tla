---------------------------- MODULE CoreValuesCheck ----------------------------
(***************************************************************************)
(* The values of the core library against reference definitions: the byte  *)
(* sources while they are read, and questions about cache keys, about      *)
(* segments whose predictor is undone and about pairs of data types.       *)
(***************************************************************************)
EXTENDS ByteSources, CacheKeys

CONSTANTS
  Adds,         \* lists of what is added to a key
  Requests,     \* read options
  Tiles,        \* tile identifiers
  Segments,     \* a layout, its type, a predictor and the values of its samples
  FloatValues   \* numbers tried as samples of the two float types

Layout == [rows : Nat \ {0}, columns : Nat \ {0}, samples : Nat \ {0}, sampleBytes : {1, 2, 4, 8},
           little : BOOLEAN]

ASSUME SegmentsAssumption ==
  \A segment \in Segments :
    LET layout == segment.layout
    IN  /\ layout \in Layout /\ segment.predictor \in {2, 3}
        /\ segment.type \in IntegerTypes /\ layout.sampleBytes = DataTypeSize(segment.type)
        /\ segment.value \in [(0 .. layout.rows - 1) \X (0 .. layout.columns - 1) \X (0 .. layout.samples - 1)
                                -> Lowest(segment.type) .. Highest(segment.type)]

\* What is added to a key: a record of the kind of value and the value, a
\* double by its bits.
Addable ==
  [kind : {"string"}, value : {text \in Seq(Byte) : Len(text) \in Word}]
    \cup [kind : {"uint", "double"}, value : Word]
    \cup [kind : {"int"}, value : -SignBit .. SignBit - 1]
    \cup [kind : {"bool"}, value : BOOLEAN]
    \cup [kind : {"null"}, value : {0}]

ASSUME AddsAssumption == Adds \subseteq Seq(Addable)

ASSUME RequestsAssumption ==
  Requests \subseteq [band : Word, overviewLevel : {{}} \cup {{level} : level \in Word},
                     samplingStep : Word, outputType : DataTypes]

ASSUME TilesAssumption == Tiles \subseteq [level : Word, x : Word, y : Word]

\* Fractions are binary, bytes have more than one bit, and among the numbers
\* tried are a NaN and the least number no float is equal to.
ASSUME FractionAssumption == \E n \in 0 .. One : One = PowerOfTwo[n]
ASSUME FloatAssumption    == /\ ByteBits > 1
                             /\ FloatValues \subseteq Number
                             /\ {NaN, PowerOfTwo[3 * ByteBits] + 1} \subseteq FloatValues

VARIABLE question

vars == <<sourceVars, question>>

NoQuestion == [about |-> "nothing"]

Init == SourceInit /\ question = NoQuestion

Unread == ranges = << >> /\ answer = NoAnswer /\ source.open /\ source.kind = "memory"

Ask(about) == Unread /\ question = NoQuestion /\ question' = about /\ UNCHANGED sourceVars

Next ==
  \/ question = NoQuestion /\ SourceNext /\ UNCHANGED question
  \/ \E adds \in Adds : Ask([about |-> "key", adds |-> adds])
  \/ \E request \in Requests : Ask([about |-> "request", request |-> request])
  \/ \E tile \in Tiles : Ask([about |-> "tile", tile |-> tile])
  \/ \E segment \in Segments : Ask([about |-> "segment", segment |-> segment])
  \/ \E from, to \in DataTypes : Ask([about |-> "conversion", from |-> from, to |-> to])

Spec == Init /\ [][Next]_vars

-----------------------------------------------------------------------------
(***************************************************************************)
(* Cache keys.                                                             *)
(***************************************************************************)
AddTo(key, added) ==
  CASE added.kind = "string" -> AddString(key, added.value)
    [] added.kind = "uint"   -> AddUInt(key, added.value)
    [] added.kind = "int"    -> AddInt(key, added.value)
    [] added.kind = "bool"   -> AddBool(key, added.value)
    [] added.kind = "double" -> AddDouble(key, added.value)
    [] added.kind = "null"   -> AddNull(key)

KeyOf(adds) ==
  LET key[k \in 0 .. Len(adds)] == IF k = 0 THEN << >> ELSE AddTo(key[k - 1], adds[k])
  IN  key[Len(adds)]

\* Doubles no consumer can tell apart: equal numbers, or both not a number.
SameDouble(a, b) == a = b \/ {a, b} = {0, SignBit} \/ (IsNaNBits(a) /\ IsNaNBits(b))

SameAdded(a, b) ==
  /\ a.kind = b.kind
  /\ IF a.kind = "double" THEN SameDouble(a.value, b.value) ELSE a.value = b.value

SameAdds(a, b) == Len(a) = Len(b) /\ \A k \in DOMAIN a : SameAdded(a[k], b[k])

\* Two keys get the same bytes exactly when the same values were added in the
\* same order, whatever the strings hold and wherever one ends; so requests
\* that differ in the band, the level, the step or the type never share a key,
\* nor do two tiles (CacheKey, RasterReadOptions::ContributeToCacheKey,
\* TileId::Hash).
KeysTellRequestsApart ==
  CASE question.about = "key" ->
         \A adds \in Adds : KeyOf(adds) = KeyOf(question.adds) <=> SameAdds(adds, question.adds)
    [] question.about = "request" ->
         \A request \in Requests :
           ContributeToCacheKey(<< >>, request) = ContributeToCacheKey(<< >>, question.request)
             => request = question.request
    [] question.about = "tile" ->
         \A tile \in Tiles : TileKey(tile) = TileKey(question.tile) => tile = question.tile
    [] OTHER -> TRUE

-----------------------------------------------------------------------------
(***************************************************************************)
(* Predictors: a reference writer for segments of integers.                *)
(***************************************************************************)
\* The parts of byte number n of a segment.
RowOf(n, layout)    == n \div RowBytes(layout)
ColumnOf(n, layout) == (n % RowBytes(layout)) \div Stride(layout)
SampleOf(n, layout) == (n % Stride(layout)) \div layout.sampleBytes

Places(layout) == 0 .. layout.rows * RowBytes(layout) - 1

Cell(row, column, sample) == <<row, column, sample>>

\* The bytes of a segment whose samples are value[<<row, column, sample>>].
Written(value, layout) ==
  [n \in Places(layout) |->
     ByteOf(value[Cell(RowOf(n, layout), ColumnOf(n, layout), SampleOf(n, layout))],
            n % layout.sampleBytes, layout)]

\* Predictor 2 writes differences between neighbours of a row.
Differences(value) ==
  [cell \in DOMAIN value |->
     IF cell[2] = 0 THEN value[cell] ELSE value[cell] - value[Cell(cell[1], cell[2] - 1, cell[3])]]

\* Predictor 3 orders the bytes of a row by significance, the most significant
\* ones first, and writes their differences.
Planes(bytes, layout) ==
  LET values == layout.columns * layout.samples
      plane(n) ==
        LET inRow == n % RowBytes(layout)
            byte  == inRow \div values
        IN  bytes[n - inRow + (inRow % values) * layout.sampleBytes
                    + (IF layout.little THEN layout.sampleBytes - 1 - byte ELSE byte)]
  IN  [n \in DOMAIN bytes |->
         IF n % RowBytes(layout) < layout.samples THEN plane(n)
         ELSE (plane(n) - plane(n - layout.samples)) % PowerOfTwo[ByteBits]]

Encoded(segment) ==
  IF segment.predictor = 2 THEN Written(Differences(segment.value), segment.layout)
                           ELSE Planes(Written(segment.value, segment.layout), segment.layout)

Undone(bytes, segment, band) ==
  IF segment.predictor = 2 THEN ApplyHorizontalPredictor(bytes, segment.layout, band)
                           ELSE ApplyFloatingPointPredictor(bytes, segment.layout)

Beginning(bytes, length) == [n \in 0 .. length - 1 |-> bytes[n]]

\* Undoing a predictor and decoding gives back every sample of a band that was
\* written, for either byte order and however many bands lie side by side; a
\* segment that misses a byte the predictor needs is refused and none past its
\* end is read (ApplyHorizontalPredictor, ApplyFloatingPointPredictor,
\* DecodeSample).
PredictorsUndoDifferencing ==
  question.about = "segment" =>
    LET segment == question.segment
        layout  == segment.layout
        bytes   == Encoded(segment)
    IN  /\ \A cell \in DOMAIN segment.value : \E undone \in Undone(bytes, segment, cell[3]) :
             DecodeInteger(undone, cell[1] * RowBytes(layout) + cell[2] * Stride(layout)
                                     + cell[3] * layout.sampleBytes, layout, segment.type)
               = One * segment.value[cell]
        /\ layout.columns > 1 =>
             Undone(Beginning(bytes, Cardinality(DOMAIN bytes) - 1), segment, layout.samples - 1) = {}

-----------------------------------------------------------------------------
ValuesOf(type) ==
  CASE type \in IntegerTypes -> {One * v : v \in Lowest(type) .. Highest(type)}
    [] type = "float32"      -> {ToFloat(v) : v \in FloatValues}
    [] type = "float64"      -> FloatValues

\* The table that decides whether a read warns of a lossy conversion says
\* exactly which conversions leave every sample what it is (ConvertSample,
\* IsExactlyRepresentable).
ConversionIsExactWhenSaid ==
  question.about = "conversion" =>
    (IsExactlyRepresentable(question.from, question.to)
       <=> \A v \in ValuesOf(question.from) : ConvertSample(v, question.to) = v)
=============================================================================
