---------------------------- MODULE MCTiffParser ----------------------------
(***************************************************************************)
(* Files and requests for TiffParser.  A word is 16 bits, the values of    *)
(* all directories take at most 300 bytes, a chain has at most 3           *)
(* directories.  Directories are 200 bytes apart, values lie from 1000 on  *)
(* and pixels from 2000 on.                                                *)
(***************************************************************************)
EXTENDS TiffParser

Field2(tag, type, values, where) ==
  [tag |-> tag, at |-> where,
   value |-> [type |-> type, count |-> Len(values), values |-> values]]

Short1(tag, n) == Field2(tag, "Short", <<n>>, 0)

\* One band of one byte in one strip.
Plain(w, h) ==
  <<Short1("ImageWidth", w), Short1("ImageLength", h), Short1("BitsPerSample", 8),
    Short1("StripOffsets", 2000), Short1("RowsPerStrip", h), Short1("StripByteCounts", w * h)>>

\* Without the tags, and with other fields.
Without(fields, tags) == SelectSeq(fields, LAMBDA f : f.tag \notin tags)
With(fields, others)  == Without(fields, {others[i].tag : i \in DOMAIN others}) \o others

Dir(fields, next) == [count |-> Len(fields), entries |-> fields, next |-> next]

\* A classic file of the directories, one after the other.
Chain(dirs) ==
  [size |-> 3000, order |-> "II", version |-> 42, offsetSize8 |-> FALSE, first |-> 200,
   tables |-> [a \in {200 * n : n \in DOMAIN dirs} |->
                 Dir(dirs[a \div 200], IF a \div 200 = Len(dirs) THEN 0 ELSE a + 200)]]

One(others) == Chain(<<With(Plain(4, 4), others)>>)

Big(f) == [f EXCEPT !.version = 43, !.offsetSize8 = TRUE]

Doubles(n) == [i \in 1 .. n |-> 0]
Matrix == Field2("ModelTransformation", "Double", <<2, 0, 0, 5, 0, -2, 0, 7>> \o Doubles(8), 1000)
Scale  == Field2("ModelPixelScale", "Double", <<2, 2, 0>>, 1200)
Point  == Field2("ModelTiepoint", "Double", <<0, 0, 0, 5, 7, 0>>, 1300)
Keys(list) == Field2("GeoKeyDirectory", "Short", list, 1400)
Area   == Keys(<<1, 1, 0, 3, 1024, 0, 1, 1, 1025, 0, 1, 1, 3072, 0, 1, 32654>>)
Metric == Keys(<<1, 1, 0, 3, 1024, 0, 1, 1, 1025, 0, 1, 2, 3076, 0, 1, 9001>>)
Degree == Keys(<<1, 1, 0, 2, 1024, 0, 1, 2, 2048, 0, 1, 4326>>)
Text(tag, n) == Field2(tag, "Ascii", <<n>>, 1500)
Bits(list)   == Field2("BitsPerSample", "Short", list, 1600)
Format(list) == Field2("SampleFormat", "Short", list, 1650)
Tiled(w, h, n) ==
  <<Short1("TileWidth", w), Short1("TileLength", h),
    Field2("TileOffsets", "Short", [i \in 1 .. n |-> 2000 + 10 * i], 1700),
    Field2("TileByteCounts", "Short", [i \in 1 .. n |-> 10], 1750)>>

GoodFiles ==
  { One(<< >>), Big(One(<< >>)), [One(<< >>) EXCEPT !.order = "MM"],
    \* overviews, finest first, and one that is half of the image
    Chain(<<Plain(8, 8), Plain(4, 4), Plain(2, 2)>>), Chain(<<Plain(7, 6), Plain(3, 3), Plain(3, 2)>>),
    \* a directory that has no size comes last
    Chain(<<Plain(8, 8), Plain(3, 4), Without(Plain(4, 4), {"ImageWidth"})>>),
    \* georeferencing
    One(<<Matrix, Area>>), One(<<Scale, Point, Metric>>), One(<<Scale, Point>>),
    One(<<Matrix, Scale, Field2("ModelTiepoint", "Double", <<1, 0, 0, 5, 7, 0>>, 1300)>>),
    One(<<Degree>>),
    \* text values
    One(<<Text("GdalNoData", 1), Text("GdalMetadata", 0)>>),
    One(<<Field2("GdalMetadata", "Byte", <<0>>, 0), Text("GdalNoData", 1)>>),
    \* two bands of two types in planes of their own, and side by side in tiles
    One(<<Short1("SamplesPerPixel", 2), Bits(<<8, 16>>), Format(<<1, 2>>), Short1("PlanarConfig", 2),
          Field2("StripOffsets", "Short", <<2000, 2100>>, 1800),
          Field2("StripByteCounts", "Short", <<16, 32>>, 1850)>>),
    Chain(<<Without(With(Plain(4, 4), <<Short1("SamplesPerPixel", 2), Bits(<<8, 16>>)>> \o Tiled(2, 3, 4)),
                    {"StripOffsets", "StripByteCounts", "RowsPerStrip"})>>),
    \* predictors
    One(<<Short1("Predictor", 2)>>), One(<<Short1("Predictor", 3), Bits(<<32>>), Format(<<3>>)>>),
    \* an unknown tag whose value lies among the pixels; a known tag given twice
    One(<<Field2("Private", "Long", <<1, 2, 3>>, 2004)>>),
    Chain(<<Plain(4, 4) \o <<Short1("ImageWidth", 2)>> >>) }

BadHeaders ==
  { [One(<< >>) EXCEPT !.order = "?"], [One(<< >>) EXCEPT !.version = 44],
    [Big(One(<< >>)) EXCEPT !.offsetSize8 = FALSE], [One(<< >>) EXCEPT !.first = 0],
    [One(<< >>) EXCEPT !.size = 7, !.first = 0], [Big(One(<< >>)) EXCEPT !.size = 12, !.first = 0],
    [One(<< >>) EXCEPT !.first = 2999], [One(<< >>) EXCEPT !.first = 5000] }

BadChains ==
  { \* a cycle, a chain that is too long, one whose values are too long together
    [One(<< >>) EXCEPT !.tables[200].next = 200],
    Chain(<<Plain(8, 8), Plain(4, 4), Plain(2, 2), Plain(1, 1)>>),
    [One(<<Matrix>>) EXCEPT !.tables[200].next = 200],
    \* tables that do not fit
    [One(<< >>) EXCEPT !.tables[200].count = 300], [One(<< >>) EXCEPT !.tables[200].count = 30],
    [One(<< >>) EXCEPT !.size = 204],
    \* entries that are not sound, too long, or elsewhere
    One(<<[Field2("Private", "Undefined", << >>, 0) EXCEPT !.value.count = 4]>>),
    One(<<[Field2("Private", "Double", << >>, 0) EXCEPT !.value.count = 9000]>>),
    One(<<[Field2("GdalMetadata", "Ascii", <<0>>, 2600) EXCEPT !.value.count = 301]>>),
    One(<<[Scale EXCEPT !.at = 2990], Point>>), One(<<[Scale EXCEPT !.at = 65530], Point>>) }

BadDirectories ==
  { One(<<Short1("ImageWidth", 0)>>), One(<<Short1("SamplesPerPixel", 0)>>),
    \* as many samples as the counter of the loop can hold, and more
    One(<<Short1("SamplesPerPixel", 3)>>), One(<<Short1("SamplesPerPixel", 4)>>),
    Chain(<<Without(Plain(4, 4), {"BitsPerSample"})>>),
    One(<<Bits(<<8, 8>>)>>), One(<<Short1("SamplesPerPixel", 2), Bits(<<8, 12>>)>>),
    One(<<Short1("Compression", 7)>>), One(<<Short1("Compression", 5)>>),
    One(<<Short1("Predictor", 4)>>), One(<<Field2("Predictor", "Long", <<2>>, 0)>>),
    One(<<Short1("Predictor", 3)>>), One(<<Short1("Predictor", 2), Bits(<<32>>), Format(<<3>>)>>),
    One(<<Short1("SamplesPerPixel", 2), Short1("Predictor", 3), Bits(<<32, 64>>), Format(<<3>>)>>),
    One(<<Short1("PlanarConfig", 3)>>), One(<<Short1("TileWidth", 2)>>), One(Tiled(2, 2, 3)),
    One(<<Short1("RowsPerStrip", 0)>>), One(<<Short1("RowsPerStrip", 2)>>),
    Chain(<<Without(Plain(4, 4), {"StripByteCounts"})>>),
    One(<<Short1("StripOffsets", 2999)>>), One(<<Short1("StripByteCounts", 0)>>),
    One(<<Keys(<<1, 1, 0>>)>>),
    One(<<Field2("ModelTransformation", "Double", Doubles(4), 1000)>>), One(<<Scale>>),
    One(<<Field2("ModelPixelScale", "Float", <<2, 2, 0>>, 1200), Point>>),
    One(<<Field2("ModelPixelScale", "Double", <<2, 0, 0>>, 1200), Point>>),
    One(<<Text("GdalNoData", 0)>>), One(<<Field2("GdalNoData", "Byte", <<1>>, 0)>>),
    \* a size given as a byte: whatever comes out
    One(<<Field2("ImageWidth", "Byte", <<0>>, 0)>>), One(<<Field2("ImageWidth", "Byte", <<9>>, 0)>>),
    \* overviews that cannot be decoded
    Chain(<<Plain(4, 4), With(Plain(2, 2), <<Short1("Compression", 7)>>)>>),
    Chain(<<Plain(4, 4), With(Plain(2, 2), <<Short1("SamplesPerPixel", 2), Bits(<<8, 12>>)>>)>>),
    Chain(<<Plain(4, 4), With(Plain(2, 2), <<Short1("StripOffsets", 2999)>>)>>),
    Chain(<<Plain(4, 4), With(Plain(2, 2),
              <<Field2("ModelPixelScale", "Double", <<2, 0, 0>>, 1200), Point>>)>>) }

MCImages == GoodFiles \cup BadHeaders \cup BadChains \cup BadDirectories

Ask(wants, level, step) == [layout |-> wants, level |-> level, step |-> step]

\* ReadMetadata, and windowed reads with and without a level of their own.
MCRequests == {Ask(FALSE, 0, 1)} \cup {Ask(TRUE, 0, step) : step \in {0, 2, 3, 5}}
                \cup {Ask(TRUE, level, 1) : level \in 1 .. 3}

(***************************************************************************)
(* Files for the statements that do not hold of every file.                *)
(***************************************************************************)
MCBigFiles == {Big(One(<< >>))}

\* The second directory has no size: the second level is the fourth directory.
MCGapFiles ==
  {Chain(<<Plain(8, 8), Without(Plain(4, 4), {"ImageWidth"}), Plain(4, 4), Plain(2, 2)>>)}

\* A mask of the size of the image, as a second directory.
MCMaskFiles == {Chain(<<Plain(8, 8), Plain(8, 8)>>)}

\* The coarser level comes first.
MCUnsortedFiles == {Chain(<<Plain(8, 8), Plain(2, 2), Plain(4, 4)>>)}
=============================================================================
