----------------------------- MODULE RasterSamples -----------------------------
(***************************************************************************)
(* What becomes of one sample between the bytes of a segment and the grid: *)
(* predictors undone, bytes decoded, scale and offset applied, the result  *)
(* converted to the requested type and compared with NoData.               *)
(*                                                                         *)
(* A real number is counted in fractions of 1 / One, so that 1 is One; NaN *)
(* stands for every NaN, and infinities are left out.  A byte has ByteBits *)
(* bits, and every width follows from it: the 24 bits of a float's         *)
(* significand are three bytes.                                            *)
(***************************************************************************)
EXTENDS Integers

CONSTANTS
  One,       \* the number 1, in the fractions reals are counted in
  ByteBits,  \* bits of a byte
  NaN        \* not a number

ASSUME OneAssumption  == One \in Nat /\ One % 4 = 0 /\ One > 0
ASSUME ByteAssumption == ByteBits \in Nat \ {0}
ASSUME NaNAssumption  == NaN \notin Int

Number == Int \cup {NaN}

\* 2^n.
PowerOfTwo[n \in Nat] == IF n = 0 THEN 1 ELSE 2 * PowerOfTwo[n - 1]

Byte == 0 .. PowerOfTwo[ByteBits] - 1

-----------------------------------------------------------------------------
(***************************************************************************)
(* Data types.                                                             *)
(***************************************************************************)
UnsignedTypes == {"uint8", "uint16", "uint32"}
SignedTypes   == {"int8", "int16", "int32"}
IntegerTypes  == UnsignedTypes \cup SignedTypes
FloatTypes    == {"float32", "float64"}
DataTypes     == IntegerTypes \cup FloatTypes

DataTypeSize(type) ==
  CASE type \in {"uint8", "int8"}              -> 1
    [] type \in {"uint16", "int16"}            -> 2
    [] type \in {"uint32", "int32", "float32"} -> 4
    [] type = "float64"                        -> 8

TypeBits(type) == ByteBits * DataTypeSize(type)

Lowest(type)  == IF type \in UnsignedTypes THEN 0 ELSE -(PowerOfTwo[TypeBits(type) - 1])
Highest(type) == IF type \in UnsignedTypes THEN PowerOfTwo[TypeBits(type)] - 1 ELSE PowerOfTwo[TypeBits(type) - 1] - 1

\* A wrong IsExactlyRepresentable: a type as wide is taken to hold it.
IsWideEnough(from, to) ==
  \/ from = to \/ to = "float64"
  \/ {from, to} \subseteq IntegerTypes /\ TypeBits(to) >= TypeBits(from)
  \/ to = "float32" /\ from \in {"uint8", "int8", "uint16", "int16"}

IsExactlyRepresentable(from, to) ==
  \/ from = to \/ to = "float64"
  \/ to = "float32" /\ from \in {"uint8", "int8", "uint16", "int16"}
  \/ from \in IntegerTypes /\ to \in IntegerTypes
       /\ CASE (from \in SignedTypes) = (to \in SignedTypes) -> TypeBits(to) >= TypeBits(from)
            [] from \in SignedTypes /\ to \in UnsignedTypes  -> FALSE
            [] from \in UnsignedTypes /\ to \in SignedTypes  -> TypeBits(to) > TypeBits(from)

-----------------------------------------------------------------------------
(***************************************************************************)
(* Conversions.                                                            *)
(***************************************************************************)
Magnitude(v) == IF v < 0 THEN -v ELSE v

Signed(v, magnitude) == IF v < 0 THEN -magnitude ELSE magnitude

\* The least power of two whose multiples hold n in the significand of a float.
UnitInLastPlace(n) ==
  LET fits(e) == n < PowerOfTwo[3 * ByteBits + e]
  IN  PowerOfTwo[CHOOSE e \in 0 .. n : fits(e) /\ \A lower \in 0 .. e - 1 : ~fits(lower)]

\* n rounded to a multiple of unit, a tie to the even multiple.
RoundToEven(n, unit) ==
  LET below == n \div unit
      rest  == 2 * (n % unit)
  IN  unit * (IF rest > unit \/ (rest = unit /\ below % 2 = 1) THEN below + 1 ELSE below)

\* static_cast<float> of a double.
ToFloat(v) ==
  IF v = NaN THEN NaN
  ELSE Signed(v, RoundToEven(Magnitude(v), UnitInLastPlace(Magnitude(v))))

\* A conversion to an integer type saturates, drops the fraction, and makes a
\* NaN zero.
ConvertSample(v, type) ==
  CASE type = "float64" -> v
    [] type = "float32" -> ToFloat(v)
    [] type \in IntegerTypes ->
         IF v = NaN THEN 0
         ELSE IF v <= One * Lowest(type) THEN One * Lowest(type)
         ELSE IF v >= One * Highest(type) THEN One * Highest(type)
         ELSE Signed(v, One * (Magnitude(v) \div One))

\* The optional scale and offset of a band are sets of at most one number; a
\* scale is a whole number.
ApplyScaleAndOffset(v, scale, offset) ==
  IF v = NaN THEN NaN
  ELSE LET scaled == IF scale = {} THEN v ELSE v * (CHOOSE s \in scale : TRUE)
       IN  IF offset = {} THEN scaled ELSE scaled + (CHOOSE o \in offset : TRUE)

\* NoDataValue::Matches: the optional sentinel is a set of at most one number,
\* and NaN, being one value here, matches NaN.
Matches(noData, sample) == sample \in noData

-----------------------------------------------------------------------------
(***************************************************************************)
(* Segments.  A segment is a function from 0 .. n - 1 to bytes; the layout *)
(* gives its rows and columns, the samples of a pixel, the bytes of a      *)
(* sample and the byte order.  With planar layout samples is 1.            *)
(***************************************************************************)
Stride(layout)   == layout.samples * layout.sampleBytes
RowBytes(layout) == layout.columns * Stride(layout)

\* The weight of byte number k of a sample.
Weight(layout, k) == PowerOfTwo[ByteBits * (IF layout.little THEN k ELSE layout.sampleBytes - k - 1)]

\* ReadUnsigned, for the sample at an offset.
ReadUnsigned(bytes, offset, layout) ==
  LET sum[k \in -1 .. layout.sampleBytes - 1] ==
        IF k = -1 THEN 0 ELSE sum[k - 1] + bytes[offset + k] * Weight(layout, k)
  IN  sum[layout.sampleBytes - 1]

\* WriteUnsigned: byte number k of a value, cut to the bytes of a sample.
ByteOf(value, k, layout) == (value \div Weight(layout, k)) % PowerOfTwo[ByteBits]

\* DecodeSample for the integer types.
DecodeInteger(bytes, offset, layout, type) ==
  LET raw == ReadUnsigned(bytes, offset, layout)
  IN  One * (IF raw > Highest(type) THEN raw - PowerOfTwo[TypeBits(type)] ELSE raw)

\* Where the sample of a band lies.
OffsetOf(layout, row, column, band) ==
  row * RowBytes(layout) + column * Stride(layout) + band * layout.sampleBytes

\* The segment has the last sample a predictor needs.
Reaches(bytes, end) == end - 1 \in DOMAIN bytes

\* A wrong ApplyHorizontalPredictor: differences are taken to the first sample.
DifferencesToTheFirst(bytes, layout, band) ==
  {[n \in DOMAIN bytes |->
      LET row    == n \div RowBytes(layout)
          column == (n % RowBytes(layout)) \div Stride(layout)
          k      == n - OffsetOf(layout, row, column, band)
      IN  IF k \in 0 .. layout.sampleBytes - 1 /\ column > 0
            THEN ByteOf(ReadUnsigned(bytes, OffsetOf(layout, row, column, band), layout)
                          + ReadUnsigned(bytes, OffsetOf(layout, row, 0, band), layout), k, layout)
            ELSE bytes[n]]}

\* Predictor 2 is undone for one band, along each row: a sample is a
\* difference to the one before it.  No result where the segment is too short.
ApplyHorizontalPredictor(bytes, layout, band) ==
  LET last == OffsetOf(layout, layout.rows - 1, layout.columns - 1, band)
      undone(row) ==
        LET value[c \in 0 .. layout.columns - 1] ==
              ReadUnsigned(bytes, OffsetOf(layout, row, c, band), layout)
                + (IF c = 0 THEN 0 ELSE value[c - 1])
        IN  value
      undoneByte(n) ==
        LET row    == n \div RowBytes(layout)
            column == (n % RowBytes(layout)) \div Stride(layout)
            k      == n - OffsetOf(layout, row, column, band)
        IN  IF k \in 0 .. layout.sampleBytes - 1 /\ column > 0
              THEN ByteOf(undone(row)[column], k, layout)
              ELSE bytes[n]
  IN  IF layout.columns > 1 /\ ~Reaches(bytes, last + layout.sampleBytes) THEN {}
      ELSE {[n \in DOMAIN bytes |-> undoneByte(n)]}

\* Predictor 3 is undone for all bands: the bytes of a row are summed up, then
\* gathered from the planes of equal significance into samples.
ApplyFloatingPointPredictor(bytes, layout) ==
  LET values == layout.columns * layout.samples
      accumulated(row) ==
        LET sum[n \in 0 .. RowBytes(layout) - 1] ==
              (bytes[row * RowBytes(layout) + n]
                 + (IF n < layout.samples THEN 0 ELSE sum[n - layout.samples])) % PowerOfTwo[ByteBits]
        IN  sum
      undoneByte(n) ==
        LET row   == n \div RowBytes(layout)
            value == (n % RowBytes(layout)) \div layout.sampleBytes
            byte  == n % layout.sampleBytes
            plane == IF layout.little THEN layout.sampleBytes - byte - 1 ELSE byte
        IN  accumulated(row)[plane * values + value]
  IN  IF ~Reaches(bytes, layout.rows * RowBytes(layout)) THEN {}
      ELSE {[n \in DOMAIN bytes |-> IF n < layout.rows * RowBytes(layout) THEN undoneByte(n) ELSE bytes[n]]}
=============================================================================
