------------------------------- MODULE CacheKeys -------------------------------
(***************************************************************************)
(* The bytes that are mixed into a CacheKey.  A key is modelled by the     *)
(* sequence of bytes it has mixed; that two sequences may collide in the   *)
(* digest is left to the hash.                                             *)
(*                                                                         *)
(* A word has WordBytes bytes, eight in the code.  A double is its bits: a *)
(* sign, an exponent and MantissaBits of mantissa.                         *)
(***************************************************************************)
EXTENDS RasterSamples, Sequences

CONSTANTS
  WordBytes,     \* bytes of a word
  MantissaBits,  \* bits of a double's mantissa
  NameOf         \* GetDataTypeName: the bytes of the name of each type

WordBits == ByteBits * WordBytes
Word     == 0 .. PowerOfTwo[WordBits] - 1
SignBit  == PowerOfTwo[WordBits - 1]

ASSUME WordAssumption == WordBytes \in Nat \ {0} /\ MantissaBits \in 1 .. WordBits - 2
ASSUME TagAssumption  == PowerOfTwo[ByteBits] >= 6
ASSUME NameAssumption == /\ NameOf \in [DataTypes -> Seq(Byte)]
                         /\ \A type \in DataTypes : Len(NameOf[type]) \in Word
                         /\ \A a, b \in DataTypes : NameOf[a] = NameOf[b] => a = b

\* The characters that tell the kinds of values apart; any byte may be one.
Tag == [string |-> 0, uint |-> 1, int |-> 2, bool |-> 3, double |-> 4, null |-> 5]

PackLittleEndian(value) ==
  [k \in 1 .. WordBytes |-> (value \div PowerOfTwo[ByteBits * (k - 1)]) % PowerOfTwo[ByteBits]]

\* A wrong AddString: the length is left out.
AddStringUnframed(key, value) == key \o <<Tag.string>> \o value

AddString(key, value) == key \o <<Tag.string>> \o PackLittleEndian(Len(value)) \o value

AddUInt(key, value) == key \o <<Tag.uint>> \o PackLittleEndian(value)

\* Two's complement.
AddInt(key, value) == key \o <<Tag.int>> \o PackLittleEndian(value % PowerOfTwo[WordBits])

AddBool(key, value) == key \o <<Tag.bool, IF value THEN 1 ELSE 0>>

IsNaNBits(bits) ==
  /\ (bits % SignBit) \div PowerOfTwo[MantissaBits] = PowerOfTwo[WordBits - 1 - MantissaBits] - 1
  /\ bits % PowerOfTwo[MantissaBits] # 0

QuietNaN == SignBit - PowerOfTwo[MantissaBits - 1]

\* Every NaN is one NaN, and both zeros are one zero.
CanonicalBits(bits) ==
  IF IsNaNBits(bits) THEN QuietNaN
  ELSE IF bits % SignBit = 0 THEN 0
  ELSE bits

AddDouble(key, bits) == key \o <<Tag.double>> \o PackLittleEndian(CanonicalBits(bits))

AddNull(key) == key \o <<Tag.null>>

-----------------------------------------------------------------------------
\* The optional overview level is a set of at most one level.
ContributeToCacheKey(key, options) ==
  LET banded  == AddUInt(key, options.band)
      leveled == IF options.overviewLevel = {} THEN AddNull(banded)
                 ELSE AddUInt(banded, CHOOSE level \in options.overviewLevel : TRUE)
  IN  AddString(AddUInt(leveled, options.samplingStep), NameOf[options.outputType])

\* What TileId::Hash hashes.
TileKey(tile) == AddUInt(AddUInt(AddUInt(<< >>, tile.level), tile.x), tile.y)
=============================================================================
