--------------------------- MODULE CoreValuesProofs ---------------------------
(***************************************************************************)
(* Proofs about the values of the core library, for every size of a byte   *)
(* and a word.                                                             *)
(*                                                                         *)
(* Byte sources: those of one size succeed and fail alike, and the counts  *)
(* of the recorder are those of the set of bytes read.  The sweep over     *)
(* the sorted ranges carries the invariant: what it counted is the number  *)
(* of bytes up to where it got.                                            *)
(*                                                                         *)
(* Cache keys: what is added is a tag and a payload, and no payload of a   *)
(* kind is the beginning of another, so that the bytes of a key are read   *)
(* back in one way only.                                                   *)
(*                                                                         *)
(* Conversions: a number is a float exactly if its unit in the last place  *)
(* divides it, so that rounding twice is rounding once and the least       *)
(* number that is no float shows what a type does not hold.                *)
(*                                                                         *)
(* Predictors: the bytes of a sample are the digits of its remainder, sums *)
(* of differences have the remainder of the sample, and a place of a       *)
(* segment is a row, a column, a sample and a byte in one way only.        *)
(***************************************************************************)
EXTENDS CoreValuesCheck, NumberLemmas, SequenceTheorems

-----------------------------------------------------------------------------
(***************************************************************************)
(* Byte sources.                                                           *)
(***************************************************************************)

\* What a source may be.
Sources == [kind : Kinds, open : BOOLEAN, size : Offset, held : Offset]

\* The last answer is one the source could give, and a memory source holds
\* what it says.
SourceSound ==
  /\ source \in Sources
  /\ source.kind = "memory" => source.held = source.size
  /\ ranges \in Seq(ByteRange)
  /\ answer # NoAnswer =>
       answer.range \in ByteRange /\ answer.result \in Results(source, answer.range)

\* Sources start sound.
LEMMA InitiallySound == Init => SourceSound
  <1> SUFFICES ASSUME Init PROVE SourceSound
    OBVIOUS
  <1>1. PICK kind \in Kinds, size \in Sizes :
          \/ source = [kind |-> kind, open |-> TRUE,  size |-> size, held |-> size]
          \/ source = [kind |-> kind, open |-> FALSE, size |-> 0, held |-> 0]
    BY DEF Init, SourceInit
  <1>2. size \in Offset /\ 0 \in Offset
    BY SizesAssumption, OffsetAssumption DEF Offset
  <1>3. source \in Sources /\ source.held = source.size
    <2>1. CASE source = [kind |-> kind, open |-> TRUE, size |-> size, held |-> size]
      BY <2>1, <1>2 DEF Sources
    <2>2. CASE source = [kind |-> kind, open |-> FALSE, size |-> 0, held |-> 0]
      BY <2>2, <1>2 DEF Sources
    <2> QED
      BY <1>1, <2>1, <2>2
  <1>4. ranges = << >> /\ answer = NoAnswer
    BY DEF Init, SourceInit
  <1> QED
    BY <1>3, <1>4 DEF SourceSound

\* Reading, resetting and a change of length keep them sound.
LEMMA SoundStep == SourceSound /\ [Next]_vars => SourceSound'
  <1> SUFFICES ASSUME SourceSound, [Next]_vars PROVE SourceSound'
    OBVIOUS
  <1>1. CASE UNCHANGED sourceVars
    BY <1>1 DEF sourceVars, SourceSound, Results, MemoryRead, LocalFileRead, AssetRead
  <1>2. CASE \E range \in Reads : Read(range)
    <2>1. PICK range \in Reads : Read(range)
      BY <1>2
    <2>2. range \in ByteRange
      BY ReadsAssumption
    <2>3. /\ source' = source /\ ranges' = Append(ranges, range)
          /\ \E result \in Results(source, range) : answer' = [range |-> range, result |-> result]
      BY <2>1 DEF Read
    <2>4. answer'.range \in ByteRange /\ answer'.result \in Results(source, answer'.range)
      BY <2>2, <2>3
    <2>5. Results(source, answer'.range) = Results(source', answer'.range)
      BY <2>3
    <2> QED
      BY <2>2, <2>3, <2>4, <2>5 DEF SourceSound
  <1>3. CASE Reset
    BY <1>3 DEF Reset, SourceSound
  <1>4. CASE ChangeLength
    <2>1. PICK held \in Sizes : source' = [source EXCEPT !.held = held]
      BY <1>4 DEF ChangeLength
    <2>2. held \in Offset
      BY SizesAssumption
    <2>3. source' \in Sources /\ source'.kind = source.kind /\ source.kind # "memory"
      BY <1>4, <2>1, <2>2 DEF SourceSound, Sources, ChangeLength
    <2> QED
      <3>1. answer' = NoAnswer' /\ ranges' = ranges
        BY <1>4 DEF ChangeLength, NoAnswer
      <3> QED
        BY <2>3, <3>1 DEF SourceSound
  <1>5. UNCHANGED sourceVars \/ SourceNext
    BY DEF Next, vars, Ask
  <1> QED
    BY <1>1, <1>2, <1>3, <1>4, <1>5 DEF SourceNext

\* What a source that is open may answer.
LEMMA OkIsComplete ==
  ASSUME NEW s \in Sources, s.open, s.kind = "memory" => s.held = s.size,
         NEW range \in ByteRange, NEW result \in Results(s, range), result.status = "ok"
  PROVE  result.bytesRead = range.size /\ (range.size = 0 \/ range.offset + range.size <= s.held)
  <1>1. /\ s.kind \in Kinds /\ s.size \in Nat /\ s.held \in Nat
        /\ range.offset \in Nat /\ range.size \in Nat
    BY OffsetAssumption DEF Sources, ByteRange, Offset
  <1>2. CASE s.kind = "memory"
    <2>1. result \in MemoryRead(s, range)
      BY <1>2 DEF Results
    <2> QED
      BY <1>1, <1>2, <2>1 DEF MemoryRead, AtTheEnd, Ok, Short, End, Fewest
  <1>3. CASE s.kind = "file"
    <2>1. result \in LocalFileRead(s, range)
      BY <1>3 DEF Results
    <2> QED
      BY <1>1, <1>3, <2>1 DEF LocalFileRead, AtTheEnd, Ok, Short, End, Failed, Fewest, Present
  <1>4. CASE s.kind = "asset"
    <2>1. result \in AssetRead(s, range)
      BY <1>4 DEF Results
    <2>2. Present(s, range) \in Nat
          /\ (range.size # 0 /\ range.size <= Present(s, range) => range.offset + range.size <= s.held)
      BY <1>1 DEF Present, Fewest
    <2> QED
      BY <1>1, <1>4, <2>1, <2>2 DEF AssetRead, Ok, Short, End, Failed
  <1> QED
    BY <1>1, <1>2, <1>3, <1>4 DEF Kinds

\* A source that has not changed delivers exactly what lies inside it.
LEMMA InsideSucceeds ==
  ASSUME NEW s \in Sources, s.open, s.held = s.size, NEW range \in ByteRange
  PROVE  range.offset + range.size <= s.size <=> Ok(range.size) \in Results(s, range)
  <1>1. /\ s.kind \in Kinds /\ s.size \in Nat /\ s.held \in Nat
        /\ range.offset \in Nat /\ range.size \in Nat
    BY OffsetAssumption DEF Sources, ByteRange, Offset
  <1>2. CASE s.kind = "memory"
    <2>1. Results(s, range) = MemoryRead(s, range)
      BY <1>2 DEF Results
    <2> QED
      BY <1>1, <1>2, <2>1 DEF MemoryRead, AtTheEnd, Ok, Short, End, Fewest
  <1>3. CASE s.kind = "file"
    <2>1. Results(s, range) = LocalFileRead(s, range)
      BY <1>3 DEF Results
    <2> QED
      BY <1>1, <1>3, <2>1 DEF LocalFileRead, AtTheEnd, Ok, Short, End, Failed, Fewest, Present
  <1>4. CASE s.kind = "asset"
    <2>1. Results(s, range) = AssetRead(s, range)
      BY <1>4 DEF Results
    <2>2. ASSUME range.offset + range.size <= s.size PROVE Ok(range.size) \in AssetRead(s, range)
      <3>1. range.size # 0 => range.size \in 0 .. Present(s, range)
        BY <1>1, <2>2 DEF Present, Fewest
      <3> QED
        BY <1>1, <2>2, <3>1 DEF AssetRead
    <2>3. ASSUME ~(range.offset + range.size <= s.size) PROVE Ok(range.size) \notin AssetRead(s, range)
      BY <1>1, <2>3 DEF AssetRead, Ok, End
    <2> QED
      BY <2>1, <2>2, <2>3
  <1> QED
    BY <1>1, <1>2, <1>3, <1>4 DEF Kinds

\* The sources of one size that was not changed succeed and fail alike
\* (RandomAccessSource::ReadAt of the memory, file and asset sources).
THEOREM SourcesAgree == Spec => []SourcesAgreeOnWhatSucceeds
  <1>1. ASSUME SourceSound PROVE SourcesAgreeOnWhatSucceeds
    BY <1>1, OkIsComplete, InsideSucceeds DEF SourceSound, SourcesAgreeOnWhatSucceeds
  <1> QED
    BY <1>1, InitiallySound, SoundStep, PTL DEF Spec

-----------------------------------------------------------------------------

\* The ranges that end before the last offset.
AddressableRange == {range \in ByteRange : Addressable(range)}

\* The end of such a range does not wrap.
LEMMA EndIs ==
  ASSUME NEW range \in AddressableRange
  PROVE  /\ range.offset \in Nat /\ range.size \in Nat
         /\ RangeEnd(range) = range.offset + range.size
         /\ RangeEnd(range) <= MaxOffset /\ RangeEnd(range) \in Nat
         /\ BytesOf(range) = range.offset .. RangeEnd(range) - 1
         /\ BytesOf(range) = {} <=> range.size = 0
         /\ BytesOf(range) \subseteq 0 .. MaxOffset - 1
         /\ IsFiniteSet(BytesOf(range)) /\ Cardinality(BytesOf(range)) = range.size
  <1>1. range.offset \in Nat /\ range.size \in Nat /\ range.offset + range.size <= MaxOffset
    BY OffsetAssumption DEF AddressableRange, Addressable, ByteRange, Offset
  <1>2. PICK n \in Nat : n = range.offset + range.size
    BY <1>1
  <1>3. PICK word \in Nat \ {0} : word = MaxOffset + 1
    BY OffsetAssumption
  <1>4. n % word = n
    BY <1>1, <1>2, <1>3, OffsetAssumption
  <1>5. RangeEnd(range) = n
    BY <1>2, <1>3, <1>4 DEF RangeEnd, WrappedOffset
  <1>6. BytesOf(range) = range.offset .. n - 1
    <2>1. range.offset + range.size - 1 = n - 1
      BY <1>1, <1>2
    <2> QED
      BY <2>1 DEF BytesOf
  <1>7. IsFiniteSet(range.offset .. n - 1) /\ Cardinality(range.offset .. n - 1) = range.size
    <2>1. PICK a \in Int, b \in Int : a = range.offset /\ b = n - 1
      BY <1>1
    <2>2. IsFiniteSet(a .. b) /\ Cardinality(a .. b) = IF a > b THEN 0 ELSE b - a + 1
      BY FS_Interval
    <2> QED
      BY <1>1, <1>2, <2>1, <2>2
  <1> QED
    BY <1>1, <1>2, <1>5, <1>6, <1>7, OffsetAssumption

\* A recorded range overlaps a query exactly if they share a byte.
LEMMA OverlapIsAByte ==
  ASSUME NEW a \in AddressableRange, NEW b \in AddressableRange
  PROVE  BytesOf(a) \cap BytesOf(b) # {}
           <=> a.size # 0 /\ b.size # 0 /\ b.offset < RangeEnd(a) /\ a.offset < RangeEnd(b)
  <1>0. /\ a.offset \in Nat /\ a.size \in Nat /\ RangeEnd(a) \in Nat
        /\ b.offset \in Nat /\ b.size \in Nat /\ RangeEnd(b) \in Nat
        /\ RangeEnd(a) = a.offset + a.size /\ RangeEnd(b) = b.offset + b.size
        /\ BytesOf(a) = a.offset .. RangeEnd(a) - 1 /\ BytesOf(b) = b.offset .. RangeEnd(b) - 1
    BY EndIs
  <1>1. ASSUME a.size # 0, b.size # 0, b.offset < RangeEnd(a), a.offset < RangeEnd(b)
        PROVE  BytesOf(a) \cap BytesOf(b) # {}
    <2>1. PICK byte \in Nat : byte >= a.offset /\ byte >= b.offset /\ byte \in {a.offset, b.offset}
      <3>1. CASE a.offset >= b.offset
        BY <1>0, <3>1
      <3>2. CASE ~(a.offset >= b.offset)
        BY <1>0, <3>2
      <3> QED
        BY <3>1, <3>2
    <2>2. byte \in BytesOf(a) /\ byte \in BytesOf(b)
      BY <1>0, <1>1, <2>1
    <2> QED
      BY <2>2
  <1>2. ASSUME NEW byte \in BytesOf(a), byte \in BytesOf(b)
        PROVE  a.size # 0 /\ b.size # 0 /\ b.offset < RangeEnd(a) /\ a.offset < RangeEnd(b)
    <2>1. a.size # 0 /\ b.size # 0
      BY <1>2, EndIs
    <2>2. byte >= a.offset /\ byte <= RangeEnd(a) - 1 /\ byte >= b.offset /\ byte <= RangeEnd(b) - 1
          /\ byte \in Int
      BY <1>0, <1>2
    <2> QED
      BY <1>0, <2>1, <2>2
  <1> QED
    BY <1>1, <1>2

\* A query is answered yes exactly if one of its bytes was read.
LEMMA DidReadIsAByte ==
  ASSUME ranges \in Seq(AddressableRange), NEW query \in AddressableRange
  PROVE  DidReadRange(ranges, query) <=> BytesOf(query) \cap Recorded # {}
  <1>1. \A i \in DOMAIN ranges : ranges[i] \in AddressableRange
    OBVIOUS
  <1>2. DidReadRange(ranges, query)
          <=> \E i \in DOMAIN ranges : BytesOf(ranges[i]) \cap BytesOf(query) # {}
    BY <1>1, OverlapIsAByte DEF DidReadRange
  <1> QED
    BY <1>2 DEF Recorded

-----------------------------------------------------------------------------

\* What the sweep over the ranges carries along.
Sums == [distinct : Offset, coveredTo : Offset, started : BOOLEAN]

\* What it starts from.
NoSum == [distinct |-> 0, coveredTo |-> 0, started |-> FALSE]

\* Arithmetic wraps into an offset.
LEMMA WrappedIsOffset == ASSUME NEW n \in Nat PROVE WrappedOffset(n) \in Offset
  <1>1. PICK word \in Nat \ {0} : word = MaxOffset + 1
    BY OffsetAssumption
  <1>2. n % word \in 0 .. word - 1
    OBVIOUS
  <1> QED
    BY <1>1, <1>2, OffsetAssumption DEF WrappedOffset, Offset

\* The sweep stays in its type.
LEMMA SweptStays ==
  ASSUME NEW sum \in Sums, NEW range \in AddressableRange
  PROVE  Swept(sum, range) \in Sums
  <1>1. /\ sum.distinct \in Nat /\ sum.coveredTo \in Nat /\ sum.coveredTo \in Offset
        /\ range.size \in Nat /\ RangeEnd(range) \in Nat /\ RangeEnd(range) \in Offset
    BY EndIs, OffsetAssumption DEF Sums, Offset
  <1>2. WrappedOffset(sum.distinct + range.size) \in Offset
    BY <1>1, WrappedIsOffset
  <1>3. RangeEnd(range) > sum.coveredTo => WrappedOffset(sum.distinct + RangeEnd(range) - sum.coveredTo) \in Offset
    <2> SUFFICES ASSUME RangeEnd(range) > sum.coveredTo
                 PROVE  WrappedOffset(sum.distinct + RangeEnd(range) - sum.coveredTo) \in Offset
      OBVIOUS
    <2>1. sum.distinct + RangeEnd(range) - sum.coveredTo \in Nat
      BY <1>1
    <2> QED
      BY <2>1, WrappedIsOffset
  <1> QED
    BY <1>1, <1>2, <1>3 DEF Swept, Sums

\* What GetDistinctBytesRead returns is found by going through the ranges.
IsSweep(f, sorted) ==
  /\ f \in [0 .. Len(sorted) -> Sums]
  /\ f[0] = NoSum
  /\ \A k \in 1 .. Len(sorted) : f[k] = Swept(f[k - 1], sorted[k])

\* The sweep of a list, range by range, and the count it ends with.
LEMMA SweepExists ==
  ASSUME NEW sorted \in Seq(AddressableRange)
  PROVE  \E f : IsSweep(f, sorted) /\ DistinctBytesRead(sorted) = f[Len(sorted)].distinct
  <1> DEFINE n == Len(sorted)
  <1>1. n \in Nat /\ \A k \in 1 .. n : sorted[k] \in AddressableRange
    OBVIOUS
  <1>2. PICK step : step = [k \in 1 .. n |-> [sum \in Sums |-> Swept(sum, sorted[k])]]
    OBVIOUS
  <1>3. ASSUME NEW k \in 1 .. n, NEW sum \in Sums
        PROVE  step[k][sum] = Swept(sum, sorted[k]) /\ step[k][sum] \in Sums
    <2>1. step[k] = [s \in Sums |-> Swept(s, sorted[k])]
      BY <1>2
    <2>2. step[k][sum] = Swept(sum, sorted[k])
      BY <2>1
    <2> QED
      BY <1>1, <2>2, SweptStays
  <1>4. NoSum \in Sums
    BY OffsetAssumption DEF NoSum, Sums, Offset
  <1>5. StepsStay(step, n, Sums)
    BY <1>3 DEF StepsStay
  <1>6. PICK f \in [0 .. n -> Sums] : Recurs(f, NoSum, step, n)
    <2> HIDE DEF n
    <2> QED
      BY <1>1, <1>4, <1>5, RecursionExists
  <1>7. ASSUME NEW k \in 1 .. n PROVE f[k] = Swept(f[k - 1], sorted[k])
    <2>1. f[k - 1] \in Sums
      BY <1>1, <1>6
    <2>2. f[k] = step[k][f[k - 1]]
      BY <1>6 DEF Recurs
    <2> QED
      BY <1>3, <2>1, <2>2
  <1>8. f[0] = NoSum
    BY <1>6 DEF Recurs
  <1> DEFINE next(g, k) == IF k = 0 THEN NoSum ELSE Swept(g[k - 1], sorted[k])
             written(g) == g = [k \in 0 .. n |-> next(g, k)]
  <1>9. DistinctBytesRead(sorted) = (CHOOSE g : written(g))[n].distinct
    BY Zenon DEF DistinctBytesRead, NoSum
  <1>10. written(f)
    <2>1. \A k \in 0 .. n : f[k] = next(f, k)
      <3> SUFFICES ASSUME NEW k \in 0 .. n PROVE f[k] = next(f, k)
        OBVIOUS
      <3>1. k = 0 \/ k \in 1 .. n
        BY <1>1
      <3> QED
        BY <1>7, <1>8, <3>1
    <2>2. f = [k \in 0 .. n |-> f[k]]
      BY <1>6
    <2> HIDE DEF next, n
    <2> QED
      BY <2>1, <2>2
  <1>11. ASSUME NEW g, written(g) PROVE \A k \in 0 .. n : g[k] = f[k]
    <2>1. \A k \in 0 .. n : g[k] = next(g, k)
      <3> HIDE DEF next, n
      <3> QED
        BY <1>11
    <2>2. g[0] = f[0]
      <3>1. 0 \in 0 .. n
        BY <1>1
      <3> QED
        BY <1>8, <2>1, <3>1
    <2>3. \A k \in 1 .. n : g[k - 1] = f[k - 1] => g[k] = f[k]
      <3> SUFFICES ASSUME NEW k \in 1 .. n, g[k - 1] = f[k - 1] PROVE g[k] = f[k]
        OBVIOUS
      <3>1. k \in 0 .. n /\ k # 0
        OBVIOUS
      <3>2. g[k] = Swept(g[k - 1], sorted[k])
        BY <2>1, <3>1
      <3> QED
        BY <1>7, <3>2
    <2>4. n \in Nat
      BY <1>1
    <2> DEFINE T == {k \in Nat : g[k] = f[k]}
    <2>5. 0 \in T /\ \A k \in 1 .. n : k - 1 \in T => k \in T
      <3> HIDE DEF written
      <3> QED
        BY <2>2, <2>3
    <2>6. 0 .. n \subseteq T
      <3> HIDE DEF T, n, written
      <3> QED
        BY <2>4, <2>5, InductionUpTo
    <2> QED
      BY <2>6
  <1>12. (CHOOSE g : written(g))[n] = f[n]
    <2> HIDE DEF written, n
    <2>1. written(CHOOSE g : written(g))
      BY <1>10, Zenon
    <2>2. n \in 0 .. n
      BY <1>1
    <2> QED
      BY <1>11, <2>1, <2>2
  <1>13. IsSweep(f, sorted)
    BY <1>6, <1>7, <1>8 DEF IsSweep
  <1> QED
    BY <1>9, <1>12, <1>13

-----------------------------------------------------------------------------

\* A list sorted by offset.
Ordered(sorted) ==
  \A i, j \in 1 .. Len(sorted) : i <= j => sorted[i].offset <= sorted[j].offset

\* Neighbours in order are in order altogether.
LEMMA NeighboursInOrder ==
  ASSUME NEW sorted \in Seq(AddressableRange),
         \A i \in 1 .. Len(sorted) - 1 : sorted[i].offset <= sorted[i + 1].offset
  PROVE  Ordered(sorted)
  <1>1. Len(sorted) \in Nat /\ \A i \in 1 .. Len(sorted) : sorted[i].offset \in Nat
    BY EndIs
  <1> SUFFICES ASSUME NEW i \in 1 .. Len(sorted), NEW j \in 1 .. Len(sorted), i <= j
               PROVE  sorted[i].offset <= sorted[j].offset
    BY DEF Ordered
  <1> DEFINE n == Len(sorted) - i
             T == {d \in Nat : d <= n => sorted[i].offset <= sorted[i + d].offset}
  <1>2. n \in Nat
    BY <1>1
  <1>3. 0 \in T
    BY <1>1
  <1>4. ASSUME NEW d \in 1 .. n, d - 1 \in T PROVE d \in T
    <2>1. PICK k \in 1 .. Len(sorted) - 1 : k = i + (d - 1)
      BY <1>1
    <2>2. i + d = k + 1 /\ k + 1 \in 1 .. Len(sorted)
      BY <1>1, <2>1
    <2>3. sorted[i].offset <= sorted[k].offset
      BY <1>4, <2>1
    <2>4. sorted[k].offset <= sorted[k + 1].offset
      OBVIOUS
    <2>5. sorted[i].offset <= sorted[i + d].offset
      <3>1. PICK a \in Nat, b \in Nat, c \in Nat :
              a = sorted[i].offset /\ b = sorted[k].offset /\ c = sorted[k + 1].offset
        <4>1. k \in 1 .. Len(sorted)
          BY <1>1
        <4> QED
          BY <1>1, <2>2, <4>1
      <3>2. a <= b /\ b <= c
        BY <2>3, <2>4, <3>1
      <3>3. a <= c
        BY <3>2
      <3>4. sorted[i + d].offset = c
        BY <2>2, <3>1
      <3> QED
        BY <3>1, <3>3, <3>4
    <2> QED
      BY <2>5
  <1>5. 0 .. n \subseteq T
    <2> HIDE DEF T, n
    <2> QED
      BY <1>2, <1>3, <1>4, InductionUpTo
  <1>6. PICK d \in 0 .. n : j = i + d
    <2>1. j - i \in 0 .. n /\ j = i + (j - i)
      BY <1>1
    <2> HIDE DEF n
    <2> QED
      BY <2>1
  <1>7. sorted[i].offset <= sorted[i + d].offset
    <2>1. d \in T /\ d <= n
      <3> HIDE DEF T
      <3> QED
        BY <1>2, <1>5, <1>6
    <2> QED
      BY <2>1
  <1> QED
    BY <1>6, <1>7

\* The bytes of the first k ranges.
Cover(sorted, k) == UNION {BytesOf(sorted[i]) : i \in 1 .. k}

\* After k ranges the sweep has counted their bytes, and knows where the last
\* of them ends.
SweepIs(f, sorted, k) ==
  /\ IsFiniteSet(Cover(sorted, k)) /\ f[k].distinct = Cardinality(Cover(sorted, k))
  /\ Cover(sorted, k) \subseteq 0 .. MaxOffset - 1
  /\ ~f[k].started => Cover(sorted, k) = {}
  /\ f[k].started =>
       /\ Cover(sorted, k) \subseteq 0 .. f[k].coveredTo - 1
       /\ \E i \in 1 .. k : sorted[i].size # 0 /\ RangeEnd(sorted[i]) = f[k].coveredTo

\* One more range keeps the sweep what it should be.
LEMMA SweepStep ==
  ASSUME NEW sorted \in Seq(AddressableRange), Ordered(sorted), NEW f, IsSweep(f, sorted),
         NEW k \in 1 .. Len(sorted), SweepIs(f, sorted, k - 1)
  PROVE  SweepIs(f, sorted, k)
  <1> DEFINE range == sorted[k]
             bytes == BytesOf(range)
             old == Cover(sorted, k - 1)
             new == Cover(sorted, k)
             end == RangeEnd(range)
  <1>1. /\ range \in AddressableRange /\ k \in Nat /\ k - 1 \in 0 .. Len(sorted)
        /\ range.offset \in Nat /\ range.size \in Nat /\ end \in Nat
        /\ end = range.offset + range.size
        /\ bytes = range.offset .. end - 1
        /\ bytes \subseteq 0 .. MaxOffset - 1
        /\ IsFiniteSet(bytes) /\ Cardinality(bytes) = range.size
        /\ range.size = 0 => bytes = {}
    BY EndIs
  <1>2. PICK sum : sum = f[k - 1] /\ sum \in Sums
    BY <1>1 DEF IsSweep
  <1>3. PICK distinct \in Nat, coveredTo \in Nat :
          distinct = sum.distinct /\ coveredTo = sum.coveredTo
    BY <1>2, OffsetAssumption DEF Sums, Offset
  <1>4. f[k] = Swept(sum, range)
    BY <1>2 DEF IsSweep
  <1>5. new = old \cup bytes
    <2>1. 1 .. k = (1 .. k - 1) \cup {k}
      BY <1>1
    <2> QED
      BY <2>1 DEF Cover
  <1>6. IsFiniteSet(old) /\ Cardinality(old) = distinct /\ old \subseteq 0 .. MaxOffset - 1
    BY <1>2, <1>3 DEF SweepIs
  <1>7. /\ IsFiniteSet(new)
        /\ new \subseteq 0 .. MaxOffset - 1
        /\ Cardinality(new) \in Nat /\ Cardinality(new) <= MaxOffset
    <2>1. IsFiniteSet(new)
      <3> HIDE DEF new, old, bytes
      <3> QED
        BY <1>1, <1>5, <1>6, FS_Union
    <2>2. new \subseteq 0 .. MaxOffset - 1
      BY <1>1, <1>5, <1>6
    <2>3. Cardinality(new) \in Nat
      BY <2>1, FS_CardinalityType
    <2>4. IsFiniteSet(0 .. MaxOffset - 1) /\ Cardinality(0 .. MaxOffset - 1) = MaxOffset
      <3>1. PICK a \in Int, m \in Int : a = 0 /\ m = MaxOffset - 1
        BY OffsetAssumption
      <3>2. IsFiniteSet(a .. m) /\ Cardinality(a .. m) = IF a > m THEN 0 ELSE m - a + 1
        BY FS_Interval
      <3> QED
        BY <3>1, <3>2, OffsetAssumption
    <2>5. Cardinality(new) <= Cardinality(0 .. MaxOffset - 1)
      BY <2>2, <2>4, FS_Subset
    <2> QED
      BY <2>1, <2>2, <2>3, <2>4, <2>5
  <1>8. /\ ~sum.started => old = {}
        /\ sum.started => /\ old \subseteq 0 .. coveredTo - 1
                          /\ \E i \in 1 .. k - 1 : sorted[i].size # 0 /\ RangeEnd(sorted[i]) = coveredTo
    BY <1>2, <1>3 DEF SweepIs
  <1>9. ASSUME NEW n \in Nat, n = Cardinality(new) PROVE WrappedOffset(n) = n
    <2>1. PICK word \in Nat \ {0} : word = MaxOffset + 1
      BY OffsetAssumption
    <2>2. n < word
      BY <1>7, <1>9, <2>1, OffsetAssumption
    <2>3. n % word = n
      BY <2>2
    <2> QED
      BY <2>1, <2>3 DEF WrappedOffset
  <1>10. CASE range.size = 0
    <2>1. new = old /\ f[k] = f[k - 1]
      BY <1>1, <1>2, <1>4, <1>5, <1>10 DEF Swept
    <2>2. \A i \in 1 .. k - 1 : i \in 1 .. k
      BY <1>1
    <2> HIDE DEF new, old
    <2> QED
      BY <1>6, <1>7, <2>1, <2>2 DEF SweepIs, new, old
  <1>11. CASE range.size # 0 /\ (~sum.started \/ range.offset >= coveredTo)
    <2>1. f[k] = [distinct |-> WrappedOffset(distinct + range.size), coveredTo |-> end, started |-> TRUE]
      BY <1>3, <1>4, <1>11 DEF Swept
    <2>2. old \cap bytes = {}
      BY <1>1, <1>8, <1>11
    <2>3. Cardinality(new) = distinct + range.size
      <3>1. Cardinality(old \cap bytes) = 0
        BY <2>2, FS_EmptySet
      <3>2. Cardinality(old \cup bytes) = Cardinality(old) + Cardinality(bytes) - Cardinality(old \cap bytes)
        BY <1>1, <1>6, FS_Union
      <3> HIDE DEF old, bytes, new
      <3> QED
        BY <1>1, <1>5, <1>6, <3>1, <3>2
    <2>4. WrappedOffset(distinct + range.size) = Cardinality(new)
      BY <1>1, <1>7, <1>9, <2>3
    <2>5. new \subseteq 0 .. end - 1
      <3>1. old \subseteq 0 .. end - 1
        BY <1>1, <1>8, <1>11
      <3> QED
        BY <1>1, <1>5, <3>1
    <2>6. k \in 1 .. k /\ sorted[k].size # 0 /\ RangeEnd(sorted[k]) = end
      BY <1>1, <1>11
    <2> HIDE DEF new, old, end
    <2> QED
      BY <1>7, <2>1, <2>4, <2>5, <2>6 DEF SweepIs, new
  <1>12. ASSUME range.size # 0, sum.started, range.offset < coveredTo
         PROVE  range.offset .. coveredTo - 1 \subseteq old
    <2>1. PICK i \in 1 .. k - 1 : sorted[i].size # 0 /\ RangeEnd(sorted[i]) = coveredTo
      BY <1>8, <1>12
    <2>2. i \in 1 .. Len(sorted) /\ i <= k
      BY <1>1
    <2>3. sorted[i].offset <= range.offset /\ sorted[i] \in AddressableRange
      BY <2>2 DEF Ordered
    <2>4. BytesOf(sorted[i]) = sorted[i].offset .. coveredTo - 1 /\ sorted[i].offset \in Nat
      BY <2>1, <2>3, EndIs
    <2>5. range.offset .. coveredTo - 1 \subseteq BytesOf(sorted[i])
      BY <1>1, <2>3, <2>4
    <2>6. BytesOf(sorted[i]) \subseteq old
      BY DEF Cover
    <2> QED
      BY <2>5, <2>6
  <1>13. CASE range.size # 0 /\ sum.started /\ range.offset < coveredTo /\ end > coveredTo
    <2> DEFINE rest == coveredTo .. end - 1
    <2>1. f[k] = [sum EXCEPT !.distinct = WrappedOffset(distinct + end - coveredTo), !.coveredTo = end]
      BY <1>1, <1>3, <1>4, <1>13 DEF Swept
    <2>2. f[k].distinct = WrappedOffset(distinct + end - coveredTo) /\ f[k].coveredTo = end /\ f[k].started
      BY <1>2, <1>13, <2>1 DEF Sums
    <2>3. new = old \cup rest
      <3>1. bytes = (range.offset .. coveredTo - 1) \cup rest
        BY <1>1, <1>13
      <3> HIDE DEF new, old, bytes, rest
      <3> QED
        BY <1>5, <1>12, <1>13, <3>1 DEF range
    <2>4. old \cap rest = {}
      BY <1>1, <1>8, <1>13
    <2>5. IsFiniteSet(rest) /\ Cardinality(rest) = end - coveredTo
      <3>1. PICK a \in Int, b \in Int : a = coveredTo /\ b = end - 1
        BY <1>1
      <3>2. IsFiniteSet(a .. b) /\ Cardinality(a .. b) = IF a > b THEN 0 ELSE b - a + 1
        BY FS_Interval
      <3> QED
        BY <1>1, <1>13, <3>1, <3>2
    <2>6. Cardinality(new) = distinct + end - coveredTo
      <3>1. Cardinality(old \cap rest) = 0
        BY <2>4, FS_EmptySet
      <3>2. Cardinality(old \cup rest) = Cardinality(old) + Cardinality(rest) - Cardinality(old \cap rest)
        BY <2>5, <1>6, FS_Union
      <3> HIDE DEF old, rest, new, end
      <3> QED
        BY <1>1, <2>3, <1>6, <2>5, <3>1, <3>2 DEF end
    <2>7. WrappedOffset(distinct + end - coveredTo) = Cardinality(new)
      BY <1>1, <1>7, <1>9, <2>6
    <2>8. new \subseteq 0 .. end - 1
      <3>1. old \subseteq 0 .. end - 1
        BY <1>1, <1>8, <1>13
      <3> QED
        BY <1>1, <1>5, <3>1
    <2>9. k \in 1 .. k /\ sorted[k].size # 0 /\ RangeEnd(sorted[k]) = end
      BY <1>1, <1>13
    <2> HIDE DEF new, old, end
    <2> QED
      BY <1>7, <2>2, <2>7, <2>8, <2>9 DEF SweepIs, new
  <1>14. CASE range.size # 0 /\ sum.started /\ range.offset < coveredTo /\ ~(end > coveredTo)
    <2>1. f[k] = f[k - 1]
      BY <1>1, <1>2, <1>3, <1>4, <1>14 DEF Swept
    <2>2. new = old
      <3>1. bytes \subseteq range.offset .. coveredTo - 1
        BY <1>1, <1>14
      <3> HIDE DEF new, old, bytes
      <3> QED
        BY <1>5, <1>12, <1>14, <3>1 DEF range
    <2>3. \A i \in 1 .. k - 1 : i \in 1 .. k
      BY <1>1
    <2> HIDE DEF new, old
    <2> QED
      BY <1>6, <1>7, <2>1, <2>2, <2>3 DEF SweepIs, new, old
  <1> QED
    BY <1>1, <1>10, <1>11, <1>13, <1>14

\* At its end the sweep has counted each byte once.
LEMMA SweepCounts ==
  ASSUME NEW sorted \in Seq(AddressableRange), Ordered(sorted)
  PROVE  DistinctBytesRead(sorted) = Cardinality(Cover(sorted, Len(sorted)))
  <1>1. PICK f : IsSweep(f, sorted) /\ DistinctBytesRead(sorted) = f[Len(sorted)].distinct
    BY SweepExists
  <1> DEFINE n == Len(sorted)
             T == {k \in Nat : SweepIs(f, sorted, k)}
  <1>2. n \in Nat
    OBVIOUS
  <1>3. 0 \in T
    <2>1. Cover(sorted, 0) = {}
      BY DEF Cover
    <2>2. f[0] = NoSum
      BY <1>1 DEF IsSweep
    <2>3. ~f[0].started /\ f[0].distinct = 0
      BY <2>2 DEF NoSum
    <2>4. IsFiniteSet({}) /\ Cardinality({}) = 0
      BY FS_EmptySet
    <2>5. SweepIs(f, sorted, 0)
      BY <2>1, <2>3, <2>4 DEF SweepIs
    <2> QED
      BY <2>5
  <1>4. \A k \in 1 .. n : k - 1 \in T => k \in T
    BY <1>1, SweepStep
  <1>5. 0 .. n \subseteq T
    <2> HIDE DEF T, n
    <2> QED
      BY <1>2, <1>3, <1>4, InductionUpTo
  <1>6. SweepIs(f, sorted, n)
    <2>1. n \in 0 .. n
      BY <1>2
    <2> QED
      BY <1>5, <2>1
  <1> QED
    BY <1>1, <1>6 DEF SweepIs

\* Sorting leaves every range in.
LEMMA SortingKeeps ==
  ASSUME NEW recorded \in Seq(AddressableRange), NEW sorted \in Sortings(recorded)
  PROVE  /\ sorted \in Seq(AddressableRange) /\ Ordered(sorted)
         /\ Cover(sorted, Len(sorted)) = UNION {BytesOf(recorded[i]) : i \in DOMAIN recorded}
  <1> DEFINE n == Len(recorded)
  <1>1. n \in Nat /\ DOMAIN recorded = 1 .. n /\ \A i \in 1 .. n : recorded[i] \in AddressableRange
    OBVIOUS
  <1>2. PICK order \in [1 .. n -> 1 .. n] :
          /\ \A i, j \in 1 .. n : i # j => order[i] # order[j]
          /\ \A i \in 1 .. n - 1 : recorded[order[i]].offset <= recorded[order[i + 1]].offset
          /\ sorted = [i \in 1 .. n |-> recorded[order[i]]]
    BY DEF Sortings
  <1>3. sorted \in Seq(AddressableRange) /\ Len(sorted) = n
    <2>1. \A i \in 1 .. n : recorded[order[i]] \in AddressableRange
      BY <1>1, <1>2
    <2>2. sorted = [i \in 1 .. n |-> recorded[order[i]]] /\ n \in Nat
      BY <1>1, <1>2
    <2> HIDE DEF n
    <2>3. sorted \in Seq(AddressableRange)
      BY <2>1, <2>2
    <2>4. DOMAIN sorted = 1 .. n
      BY <2>2
    <2> QED
      BY <2>2, <2>3, <2>4
  <1>4. \A i \in 1 .. n : sorted[i] = recorded[order[i]]
    BY <1>2
  <1>5. Ordered(sorted)
    <2>1. \A i \in 1 .. Len(sorted) - 1 : sorted[i].offset <= sorted[i + 1].offset
      <3> SUFFICES ASSUME NEW i \in 1 .. n - 1 PROVE sorted[i].offset <= sorted[i + 1].offset
        BY <1>3
      <3>1. i \in 1 .. n /\ i + 1 \in 1 .. n
        BY <1>1
      <3> QED
        BY <1>2, <1>4, <3>1
    <2> QED
      BY <1>3, <2>1, NeighboursInOrder
  <1>6. \A i \in 1 .. n : \E j \in 1 .. n : order[j] = i
    <2>1. order \in Injection(1 .. n, 1 .. n)
      BY <1>2 DEF Injection, IsInjective
    <2>2. IsFiniteSet(1 .. n)
      BY <1>1, FS_Interval
    <2>3. order \in Surjection(1 .. n, 1 .. n)
      BY <2>1, <2>2, FS_Injection
    <2> QED
      BY <2>3 DEF Surjection
  <1>7. Cover(sorted, n) = UNION {BytesOf(recorded[i]) : i \in 1 .. n}
    <2>1. ASSUME NEW byte, NEW i \in 1 .. n, byte \in BytesOf(sorted[i])
          PROVE  \E j \in 1 .. n : byte \in BytesOf(recorded[j])
      BY <1>2, <1>4, <2>1
    <2>2. ASSUME NEW byte, NEW i \in 1 .. n, byte \in BytesOf(recorded[i])
          PROVE  \E j \in 1 .. n : byte \in BytesOf(sorted[j])
      BY <1>4, <1>6, <2>2
    <2> QED
      BY <2>1, <2>2 DEF Cover
  <1> QED
    BY <1>1, <1>3, <1>5, <1>7

\* The counts and answers of the recorder are those of the set of bytes that were
\* read (RecordingSource::DidReadRange, BytesRead and DistinctBytesRead).
THEOREM RangesAgree == Spec => []RecordedRangesAgree
  <1>1. ASSUME SourceSound PROVE RecordedRangesAgree
    <2> SUFFICES ASSUME \A i \in DOMAIN ranges : Addressable(ranges[i])
                 PROVE  /\ \A query \in Reads : Addressable(query) =>
                             (DidReadRange(ranges, query) <=> BytesOf(query) \cap Recorded # {})
                        /\ \A sorted \in Sortings(ranges) :
                             DistinctBytesRead(sorted) = Cardinality(Recorded)
      BY DEF RecordedRangesAgree
    <2>1. ranges \in Seq(AddressableRange)
      <3>1. \A i \in DOMAIN ranges : ranges[i] \in AddressableRange
        BY <1>1 DEF SourceSound, AddressableRange
      <3> QED
        BY <1>1, <3>1 DEF SourceSound
    <2>2. ASSUME NEW query \in Reads, Addressable(query)
          PROVE  DidReadRange(ranges, query) <=> BytesOf(query) \cap Recorded # {}
      <3>1. query \in AddressableRange
        BY <2>2, ReadsAssumption DEF AddressableRange
      <3> QED
        BY <2>1, <3>1, DidReadIsAByte
    <2>3. ASSUME NEW sorted \in Sortings(ranges)
          PROVE  DistinctBytesRead(sorted) = Cardinality(Recorded)
      BY <2>1, SortingKeeps, SweepCounts DEF Recorded
    <2> QED
      BY <2>2, <2>3
  <1> QED
    BY <1>1, InitiallySound, SoundStep, PTL DEF Spec

-----------------------------------------------------------------------------
(***************************************************************************)
(* Cache keys.                                                             *)
(***************************************************************************)
LEMMA PowersArePowers == IsPower(PowerOfTwo)
  BY DoublingExists DEF PowerOfTwo, IsPower

\* The widths the words of keys are made of.
LEMMA WordFacts ==
  /\ WordBits \in Nat /\ WordBits >= 3
  /\ PowerOfTwo[WordBits] = 2 * SignBit
  /\ SignBit \in Nat \ {0}
  /\ Word = 0 .. 2 * SignBit - 1
  <1>1. WordBits \in Nat /\ WordBits >= 3
    <2>1. WordBits \in Nat
      BY ByteAssumption, WordAssumption, ProductFacts DEF WordBits
    <2> QED
      BY <2>1, WordAssumption
  <1>2. PICK n \in Nat : n = WordBits - 1 /\ WordBits = n + 1
    BY <1>1
  <1>3. PowerOfTwo[n + 1] = 2 * PowerOfTwo[n] /\ PowerOfTwo[n] \in Nat \ {0}
    BY PowersArePowers, PowerOfSuccessor, PowerIsPositive
  <1> QED
    BY <1>1, <1>2, <1>3 DEF SignBit, Word

\* A word is its bytes.
LEMMA PackFacts ==
  ASSUME NEW u \in Word
  PROVE  /\ PackLittleEndian(u) \in Seq(Nat)
         /\ Len(PackLittleEndian(u)) = WordBytes
         /\ DOMAIN PackLittleEndian(u) = 1 .. WordBytes
  <1>1. u \in Nat /\ WordBytes \in Nat
    BY WordFacts, WordAssumption
  <1>2. ASSUME NEW k \in 1 .. WordBytes
        PROVE  (u \div PowerOfTwo[ByteBits * (k - 1)]) % PowerOfTwo[ByteBits] \in Nat
    <2>1. PICK e \in Nat : e = ByteBits * (k - 1)
      <3>1. PICK j \in Nat : j = k - 1
        BY <1>1
      <3> QED
        BY <3>1, ByteAssumption, ProductFacts
    <2>2. PICK a \in Nat \ {0}, b \in Nat \ {0} : a = PowerOfTwo[e] /\ b = PowerOfTwo[ByteBits]
      BY PowersArePowers, PowerIsPositive, ByteAssumption
    <2>3. (u \div a) % b \in Nat
      BY <1>1, DivisionFacts
    <2> QED
      BY <2>1, <2>2, <2>3
  <1>3. PackLittleEndian(u) \in [1 .. WordBytes -> Nat]
    BY <1>2 DEF PackLittleEndian
  <1> QED
    BY <1>1, <1>3

\* The bytes of a word tell the word.
LEMMA PackTells ==
  ASSUME NEW u \in Word, NEW v \in Word,
         \A i \in 1 .. WordBytes : PackLittleEndian(u)[i] = PackLittleEndian(v)[i]
  PROVE  u = v
  <1>1. u \in Nat /\ v \in Nat /\ u < PowerOfTwo[ByteBits * WordBytes] /\ v < PowerOfTwo[ByteBits * WordBytes]
    BY WordFacts DEF Word, WordBits
  <1>2. SameDigits(PowerOfTwo, ByteBits, WordBytes, u, v)
    BY DEF PackLittleEndian, SameDigits
  <1> QED
    BY <1>1, <1>2, PowersArePowers, DigitsTellNumbers, ByteAssumption, WordAssumption

-----------------------------------------------------------------------------
\* The parts of a double's bits.
LEMMA NaNFacts ==
  /\ QuietNaN \in 1 .. SignBit - 1
  /\ IsNaNBits(QuietNaN)
  <1>1. PICK m \in Nat, r \in Nat : m = MantissaBits - 1 /\ MantissaBits = m + 1 /\ r = WordBits - 1 - MantissaBits
                                    /\ r > 0 /\ WordBits - 1 = MantissaBits + r
    BY WordAssumption, WordFacts
  <1>2. PICK p \in Nat \ {0}, q \in Nat \ {0}, h \in Nat \ {0} :
          p = PowerOfTwo[MantissaBits] /\ q = PowerOfTwo[r] /\ h = PowerOfTwo[m]
    BY <1>1, PowersArePowers, PowerIsPositive
  <1>3. p = 2 * h
    BY <1>1, <1>2, PowersArePowers, PowerOfSuccessor
  <1>4. q >= 2
    <2>1. 2 * PowerOfTwo[0] <= PowerOfTwo[r] /\ PowerOfTwo[0] = 1
      BY <1>1, PowersArePowers, PowerOfSuccessor, PowerGrows
    <2> QED
      BY <1>2, <2>1
  <1>5. SignBit = p * q
    <2>1. MantissaBits \in Nat
      BY <1>1
    <2>2. PowerOfTwo[MantissaBits + r] = PowerOfTwo[MantissaBits] * PowerOfTwo[r]
      BY <1>1, <2>1, PowersArePowers, PowerOfSum
    <2> QED
      BY <1>1, <1>2, <2>2 DEF SignBit
  <1>6. PICK j \in Nat : j = q - 1 /\ q = j + 1
    BY <1>4
  <1>7. PICK n \in Nat : n = j * p /\ p * q = n + p
    <2>1. p * (j + 1) = j * p + p /\ j * p \in Nat
      BY <1>2, <1>6, ProductFacts
    <2> QED
      BY <2>1, <1>6
  <1>8. QuietNaN = n + h /\ h < p /\ SignBit = n + p
    BY <1>1, <1>2, <1>3, <1>5, <1>7 DEF QuietNaN
  <1>9. (n + h) % (n + p) = n + h
    <2>1. PICK s \in Nat \ {0}, u \in Nat, z \in Nat : s = n + p /\ u = n + h /\ u < s /\ z = 0
      BY <1>2, <1>7, <1>8
    <2>2. (z * s + u) % s = u
      BY <2>1, RemainderIs
    <2>3. z * s + u = u
      BY <2>1
    <2> QED
      BY <2>1, <2>2, <2>3
  <1>10. (n + h) \div p = j /\ (n + h) % p = h
    <2>1. (j * p + h) \div p = j /\ (j * p + h) % p = h
      <3>1. h \in Nat /\ p \in Nat \ {0} /\ h < p
        BY <1>2, <1>8
      <3> QED
        BY <3>1, RemainderIs
    <2> QED
      BY <1>7, <2>1
  <1>11. QuietNaN \in 1 .. SignBit - 1
    BY <1>2, <1>7, <1>8
  <1>12. (QuietNaN % SignBit) \div p = q - 1 /\ QuietNaN % p # 0
    BY <1>2, <1>6, <1>8, <1>9, <1>10
  <1> QED
    BY <1>1, <1>2, <1>11, <1>12 DEF IsNaNBits

\* The words of zero, and no NaN among them.
LEMMA ZerosAreNumbers ==
  ASSUME NEW b \in Word
  PROVE  /\ b % SignBit = 0 <=> b \in {0, SignBit}
         /\ b % SignBit = 0 => ~IsNaNBits(b)
  <1>1. PICK s \in Nat \ {0} : s = SignBit
    BY WordFacts
  <1>2. b \in 0 .. 2 * s - 1
    BY <1>1, WordFacts
  <1>3. b < s => b % s = b
    BY <1>2
  <1>4. b >= s => b % s = b - s
    <2> SUFFICES ASSUME b >= s PROVE b % s = b - s
      OBVIOUS
    <2>1. PICK r \in Nat, i \in Nat : r = b - s /\ r < s /\ i = 1
      BY <1>2
    <2>2. (i * s + r) % s = r
      BY <2>1, RemainderIs
    <2>3. i * s + r = b
      BY <1>2, <2>1
    <2> QED
      BY <2>1, <2>2, <2>3
  <1>5. b % s = 0 <=> b \in {0, s}
    BY <1>2, <1>3, <1>4
  <1>6. ASSUME b % SignBit = 0 PROVE ~IsNaNBits(b)
    <2>1. PICK p \in Nat \ {0}, q \in Nat \ {0} : p = PowerOfTwo[MantissaBits] /\ SignBit = p * q
      <3>1. PICK r \in Nat : WordBits - 1 = MantissaBits + r /\ MantissaBits \in Nat
        BY WordAssumption, WordFacts
      <3>2. PowerOfTwo[MantissaBits + r] = PowerOfTwo[MantissaBits] * PowerOfTwo[r]
        BY <3>1, PowersArePowers, PowerOfSum
      <3>3. PowerOfTwo[MantissaBits] \in Nat \ {0} /\ PowerOfTwo[r] \in Nat \ {0}
        BY <3>1, PowersArePowers, PowerIsPositive
      <3> QED
        BY <3>1, <3>2, <3>3 DEF SignBit
    <2>2. 0 % p = 0
      OBVIOUS
    <2>3. s % p = 0
      <3>1. PICK r \in Nat : r = 0 /\ r < p
        OBVIOUS
      <3>2. (q * p + r) % p = r
        BY <3>1, RemainderIs
      <3>3. q * p + r = s
        BY <1>1, <2>1, <3>1, ProductFacts
      <3> QED
        BY <3>1, <3>2, <3>3
    <2>4. b % p = 0
      BY <1>1, <1>5, <1>6, <2>2, <2>3
    <2> QED
      BY <2>1, <2>4 DEF IsNaNBits
  <1> QED
    BY <1>1, <1>5, <1>6

\* Two doubles are told apart exactly when they differ.
LEMMA CanonicalTells ==
  ASSUME NEW a \in Word, NEW b \in Word
  PROVE  /\ CanonicalBits(a) \in Word
         /\ CanonicalBits(a) = CanonicalBits(b) <=> SameDouble(a, b)
  <1>1. PICK s \in Nat \ {0} : s = SignBit /\ Word = 0 .. 2 * s - 1
    BY WordFacts
  <1>2. QuietNaN \in 1 .. s - 1 /\ IsNaNBits(QuietNaN) /\ QuietNaN \in Word
    BY <1>1, NaNFacts
  <1>3. 0 \in Word /\ SignBit \in Word
    BY <1>1
  <1>4. \A c \in Word : (c % SignBit = 0 <=> c \in {0, SignBit}) /\ (c % SignBit = 0 => ~IsNaNBits(c))
    BY ZerosAreNumbers
  <1>5. ~IsNaNBits(0) /\ ~IsNaNBits(SignBit)
    BY <1>3, <1>4
  <1>6. QuietNaN # 0
    BY <1>2
  <1>7. SignBit # 0 /\ QuietNaN # SignBit
    BY <1>1, <1>2
  <1>8. CanonicalBits(a) \in Word
    BY <1>2, <1>3 DEF CanonicalBits
  <1>9. CASE IsNaNBits(a) /\ IsNaNBits(b)
    <2>1. CanonicalBits(a) = QuietNaN /\ CanonicalBits(b) = QuietNaN
      BY <1>9 DEF CanonicalBits
    <2>2. SameDouble(a, b)
      BY <1>9 DEF SameDouble
    <2> QED
      BY <1>8, <2>1, <2>2
  <1>10. CASE IsNaNBits(a) /\ ~IsNaNBits(b)
    <2>1. CanonicalBits(a) = QuietNaN /\ CanonicalBits(b) # QuietNaN
      BY <1>2, <1>6, <1>10 DEF CanonicalBits
    <2>2. ~SameDouble(a, b)
      BY <1>5, <1>10 DEF SameDouble
    <2> QED
      BY <1>8, <2>1, <2>2
  <1>11. CASE ~IsNaNBits(a) /\ IsNaNBits(b)
    <2>1. CanonicalBits(b) = QuietNaN /\ CanonicalBits(a) # QuietNaN
      BY <1>2, <1>6, <1>11 DEF CanonicalBits
    <2>2. ~SameDouble(a, b)
      BY <1>5, <1>11 DEF SameDouble
    <2> QED
      BY <1>8, <2>1, <2>2
  <1>12. CASE ~IsNaNBits(a) /\ ~IsNaNBits(b)
    <2>1. CanonicalBits(a) = (IF a % SignBit = 0 THEN 0 ELSE a)
          /\ CanonicalBits(b) = (IF b % SignBit = 0 THEN 0 ELSE b)
      BY <1>12 DEF CanonicalBits
    <2>2. (a % SignBit = 0 <=> a \in {0, SignBit}) /\ (b % SignBit = 0 <=> b \in {0, SignBit})
      BY <1>4
    <2>3. CanonicalBits(a) = (IF a \in {0, SignBit} THEN 0 ELSE a)
          /\ CanonicalBits(b) = (IF b \in {0, SignBit} THEN 0 ELSE b)
      BY <2>1, <2>2
    <2>4. SameDouble(a, b) <=> a = b \/ {a, b} = {0, SignBit}
      BY <1>12 DEF SameDouble
    <2> QED
      BY <1>7, <1>8, <2>3, <2>4
  <1> QED
    BY <1>8, <1>9, <1>10, <1>11, <1>12

\* What follows the tag of an added value.
Payload(added) ==
  CASE added.kind = "string" -> PackLittleEndian(Len(added.value)) \o added.value
    [] added.kind = "uint"   -> PackLittleEndian(added.value)
    [] added.kind = "int"    -> PackLittleEndian(added.value % PowerOfTwo[WordBits])
    [] added.kind = "bool"   -> <<IF added.value THEN 1 ELSE 0>>
    [] added.kind = "double" -> PackLittleEndian(CanonicalBits(added.value))
    [] added.kind = "null"   -> << >>

\* The word an added value that is one word is packed from.
WordOf(added) ==
  CASE added.kind = "uint"   -> added.value
    [] added.kind = "int"    -> added.value % PowerOfTwo[WordBits]
    [] added.kind = "double" -> CanonicalBits(added.value)

\* Values whose payload is one word.
IsOneWord(added) == added.kind \in {"uint", "int", "double"}

\* What may be added.
LEMMA KindsOfValues ==
  ASSUME NEW a \in Addable
  PROVE  \/ a.kind = "string" /\ a.value \in Seq(Byte) /\ Len(a.value) \in Word
         \/ a.kind \in {"uint", "double"} /\ a.value \in Word
         \/ a.kind = "int" /\ a.value \in -SignBit .. SignBit - 1
         \/ a.kind = "bool" /\ a.value \in BOOLEAN
         \/ a.kind = "null" /\ a.value = 0
  BY DEF Addable

\* Two's complement: a signed number is a word, and tells itself.
LEMMA ComplementFacts ==
  ASSUME NEW a \in -SignBit .. SignBit - 1
  PROVE  a % PowerOfTwo[WordBits] = IF a < 0 THEN a + 2 * SignBit ELSE a
  <1>1. PICK s \in Nat \ {0}, t \in Nat \ {0} : s = SignBit /\ t = 2 * s /\ t = PowerOfTwo[WordBits]
    BY WordFacts
  <1>2. a >= 0 => a % t = a
    BY <1>1
  <1>3. a < 0 => a % t = a + t
    <2> SUFFICES ASSUME a < 0 PROVE a % t = a + t
      OBVIOUS
    <2>1. PICK b \in Nat : b = a + t /\ b < t /\ a = b - t
      BY <1>1
    <2>2. PICK q \in Int, r \in 0 .. t - 1 : a = t * q + r /\ r = a % t
      BY <1>1
    <2>3. q >= 0 => t * q >= 0
      OBVIOUS
    <2>4. q <= -2 => t * q <= -2 * t
      OBVIOUS
    <2>5. q = -1 => t * q = -t
      OBVIOUS
    <2>6. q = -1
      BY <1>1, <2>1, <2>2, <2>3, <2>4
    <2> QED
      BY <2>1, <2>2, <2>5, <2>6
  <1> QED
    BY <1>1, <1>2, <1>3

\* The payload of such a value packs its word.
LEMMA WordsOfValues ==
  ASSUME NEW a \in Addable, IsOneWord(a)
  PROVE  WordOf(a) \in Word /\ Payload(a) = PackLittleEndian(WordOf(a))
  <1>1. CASE a.kind = "uint"
    BY <1>1, KindsOfValues DEF WordOf, Payload
  <1>2. CASE a.kind = "double"
    BY <1>2, KindsOfValues, CanonicalTells DEF WordOf, Payload
  <1>3. CASE a.kind = "int"
    <2>1. a.value \in -SignBit .. SignBit - 1
      BY <1>3, KindsOfValues
    <2>2. a.value % PowerOfTwo[WordBits] \in Word
      <3>1. PICK s \in Nat \ {0} : s = SignBit /\ Word = 0 .. 2 * s - 1
        BY WordFacts
      <3>2. PICK u \in -s .. s - 1 : u = a.value
        BY <2>1, <3>1
      <3>3. u % PowerOfTwo[WordBits] = IF u < 0 THEN u + 2 * s ELSE u
        BY <3>1, ComplementFacts
      <3> QED
        BY <3>1, <3>2, <3>3
    <2> QED
      BY <1>3, <2>2 DEF WordOf, Payload
  <1> QED
    BY <1>1, <1>2, <1>3 DEF IsOneWord

\* The word tells the value, but for NaNs and the two zeros.
LEMMA WordsTellValues ==
  ASSUME NEW a \in Addable, NEW b \in Addable, IsOneWord(a), a.kind = b.kind
  PROVE  WordOf(a) = WordOf(b) <=> SameAdded(a, b)
  <1>1. CASE a.kind = "uint"
    BY <1>1 DEF WordOf, SameAdded
  <1>2. CASE a.kind = "double"
    <2>1. a.value \in Word /\ b.value \in Word
      BY <1>2, KindsOfValues
    <2>2. CanonicalBits(a.value) = CanonicalBits(b.value) <=> SameDouble(a.value, b.value)
      BY <2>1, CanonicalTells
    <2> QED
      BY <1>2, <2>2 DEF WordOf, SameAdded
  <1>3. CASE a.kind = "int"
    <2>1. PICK s \in Nat \ {0} : s = SignBit
      BY WordFacts
    <2>2. PICK u \in -s .. s - 1, v \in -s .. s - 1 : u = a.value /\ v = b.value
      BY <1>3, <2>1, KindsOfValues
    <2>3. /\ u % PowerOfTwo[WordBits] = IF u < 0 THEN u + 2 * s ELSE u
          /\ v % PowerOfTwo[WordBits] = IF v < 0 THEN v + 2 * s ELSE v
      BY <2>1, ComplementFacts
    <2>4. u % PowerOfTwo[WordBits] = v % PowerOfTwo[WordBits] <=> u = v
      BY <2>3
    <2> QED
      BY <1>3, <2>2, <2>4 DEF WordOf, SameAdded
  <1> QED
    BY <1>1, <1>2, <1>3 DEF IsOneWord

\* Bytes are natural numbers.
LEMMA BytesAreNumbers == Byte \subseteq Nat
  BY PowersArePowers, PowerIsPositive, ByteAssumption DEF Byte

\* A payload is bytes.
LEMMA PayloadIsBytes ==
  ASSUME NEW a \in Addable
  PROVE  Payload(a) \in Seq(Nat)
  <1>1. CASE IsOneWord(a)
    BY <1>1, WordsOfValues, PackFacts
  <1>2. CASE a.kind = "string"
    <2>1. a.value \in Seq(Nat) /\ Len(a.value) \in Word
      BY <1>2, KindsOfValues, BytesAreNumbers, SeqMonotonic
    <2>2. PackLittleEndian(Len(a.value)) \in Seq(Nat)
      BY <2>1, PackFacts
    <2>3. Payload(a) = PackLittleEndian(Len(a.value)) \o a.value
      BY <1>2 DEF Payload
    <2> QED
      BY <2>1, <2>2, <2>3, ConcatProperties
  <1>3. CASE a.kind = "bool"
    BY <1>3 DEF Payload
  <1>4. CASE a.kind = "null"
    BY <1>4 DEF Payload
  <1> QED
    BY <1>1, <1>2, <1>3, <1>4, KindsOfValues DEF IsOneWord

\* The same values have the same payload.
LEMMA SameHaveOnePayload ==
  ASSUME NEW a \in Addable, NEW b \in Addable, SameAdded(a, b)
  PROVE  a.kind = b.kind /\ Payload(a) = Payload(b)
  <1>1. a.kind = b.kind
    BY DEF SameAdded
  <1>2. CASE IsOneWord(a)
    <2>1. IsOneWord(b)
      BY <1>1, <1>2 DEF IsOneWord
    <2> QED
      BY <1>1, <1>2, <2>1, WordsOfValues, WordsTellValues
  <1>3. CASE ~IsOneWord(a)
    <2>1. a.kind # "double" /\ a.kind # "uint" /\ a.kind # "int"
      BY <1>3 DEF IsOneWord
    <2>2. a.value = b.value
      BY <2>1 DEF SameAdded
    <2> QED
      BY <1>1, <2>1, <2>2 DEF Payload
  <1> QED
    BY <1>1, <1>2, <1>3

\* What a string after a frame is.
LEMMA FramedString ==
  ASSUME NEW n \in Nat, NEW p \in Seq(Nat), Len(p) = n, NEW s \in Seq(Nat)
  PROVE  /\ Len(p \o s) = n + Len(s)
         /\ \A i \in 1 .. n + Len(s) : (p \o s)[i] = IF i <= n THEN p[i] ELSE s[i - n]
  BY ConcatProperties

\* Payloads of one kind that agree as far as both go are those of the same
\* value: none begins another.
AgreeAsFar(s, t) == \A i \in 1 .. Len(s) : i <= Len(t) => s[i] = t[i]

\* Payloads of a kind tell their values even where something follows: none is
\* the beginning of another.
LEMMA PayloadsTell ==
  ASSUME NEW a \in Addable, NEW b \in Addable, a.kind = b.kind, AgreeAsFar(Payload(a), Payload(b))
  PROVE  SameAdded(a, b)
  <1>0. WordBytes \in Nat
    BY WordAssumption
  <1>1. CASE IsOneWord(a)
    <2>1. IsOneWord(b)
      BY <1>1 DEF IsOneWord
    <2>2. PICK u \in Word, v \in Word : u = WordOf(a) /\ v = WordOf(b)
      BY <1>1, <2>1, WordsOfValues
    <2>3. Payload(a) = PackLittleEndian(u) /\ Payload(b) = PackLittleEndian(v)
      BY <1>1, <2>1, <2>2, WordsOfValues
    <2>4. Len(Payload(a)) = WordBytes /\ Len(Payload(b)) = WordBytes
      BY <2>3, PackFacts
    <2>5. \A i \in 1 .. WordBytes : PackLittleEndian(u)[i] = PackLittleEndian(v)[i]
      BY <1>0, <2>3, <2>4 DEF AgreeAsFar
    <2>6. u = v
      BY <2>5, PackTells
    <2> QED
      BY <1>1, <2>2, <2>6, WordsTellValues
  <1>2. CASE a.kind = "string"
    <2>1. a.value \in Seq(Nat) /\ Len(a.value) \in Word /\ b.value \in Seq(Nat) /\ Len(b.value) \in Word
      BY <1>2, KindsOfValues, BytesAreNumbers, SeqMonotonic
    <2>2. PICK u \in Word, v \in Word : u = Len(a.value) /\ v = Len(b.value)
      BY <2>1
    <2>3. PICK p, q : p = PackLittleEndian(u) /\ q = PackLittleEndian(v)
      OBVIOUS
    <2>4. p \in Seq(Nat) /\ q \in Seq(Nat) /\ Len(p) = WordBytes /\ Len(q) = WordBytes
      BY <2>3, PackFacts
    <2>5. Payload(a) = p \o a.value /\ Payload(b) = q \o b.value
      BY <1>2, <2>2, <2>3 DEF Payload
    <2>6. /\ Len(Payload(a)) = WordBytes + Len(a.value)
          /\ \A i \in 1 .. WordBytes + Len(a.value) :
               Payload(a)[i] = IF i <= WordBytes THEN p[i] ELSE a.value[i - WordBytes]
      <3>1. PICK s : s = a.value
        OBVIOUS
      <3>2. s \in Seq(Nat) /\ p \in Seq(Nat) /\ Len(p) = WordBytes
        BY <2>1, <2>4, <3>1
      <3>3. /\ Len(p \o s) = WordBytes + Len(s)
            /\ \A i \in 1 .. WordBytes + Len(s) : (p \o s)[i] = IF i <= WordBytes THEN p[i] ELSE s[i - WordBytes]
        BY <1>0, <3>2, FramedString
      <3> QED
        BY <2>5, <3>1, <3>3
    <2>7. /\ Len(Payload(b)) = WordBytes + Len(b.value)
          /\ \A i \in 1 .. WordBytes + Len(b.value) :
               Payload(b)[i] = IF i <= WordBytes THEN q[i] ELSE b.value[i - WordBytes]
      <3>1. PICK s : s = b.value
        OBVIOUS
      <3>2. s \in Seq(Nat) /\ q \in Seq(Nat) /\ Len(q) = WordBytes
        BY <2>1, <2>4, <3>1
      <3>3. /\ Len(q \o s) = WordBytes + Len(s)
            /\ \A i \in 1 .. WordBytes + Len(s) : (q \o s)[i] = IF i <= WordBytes THEN q[i] ELSE s[i - WordBytes]
        BY <1>0, <3>2, FramedString
      <3> QED
        BY <2>5, <3>1, <3>3
    <2>8. Len(a.value) \in Nat /\ Len(b.value) \in Nat
      BY <2>1
    <2>9. \A i \in 1 .. WordBytes : p[i] = q[i]
      BY <1>0, <2>6, <2>7, <2>8 DEF AgreeAsFar
    <2>10. u = v
      BY <2>3, <2>9, PackTells
    <2>11. ASSUME NEW i \in 1 .. Len(a.value) PROVE a.value[i] = b.value[i]
      <3>1. PICK j \in 1 .. WordBytes + Len(a.value) : j = WordBytes + i /\ i = j - WordBytes /\ ~(j <= WordBytes)
        BY <1>0, <2>8
      <3>2. Payload(a)[j] = Payload(b)[j]
        BY <2>2, <2>6, <2>7, <2>10, <3>1 DEF AgreeAsFar
      <3> QED
        BY <2>2, <2>6, <2>7, <2>10, <3>1, <3>2
    <2>12. a.value = b.value
      BY <2>1, <2>2, <2>10, <2>11, SeqEqual
    <2> QED
      BY <1>2, <2>12 DEF SameAdded
  <1>3. CASE a.kind = "bool"
    <2>1. a.value \in BOOLEAN /\ b.value \in BOOLEAN
      BY <1>3, KindsOfValues
    <2>2. PICK x, y : x = (IF a.value THEN 1 ELSE 0) /\ y = (IF b.value THEN 1 ELSE 0)
      OBVIOUS
    <2>3. Payload(a) = <<x>> /\ Payload(b) = <<y>>
      BY <1>3, <2>2 DEF Payload
    <2>4. x = y
      BY <2>3 DEF AgreeAsFar
    <2>5. a.value = b.value
      BY <2>1, <2>2, <2>4
    <2> QED
      BY <1>3, <2>5 DEF SameAdded
  <1>4. CASE a.kind = "null"
    BY <1>4, KindsOfValues DEF SameAdded
  <1> QED
    BY <1>1, <1>2, <1>3, <1>4, KindsOfValues DEF IsOneWord

\* The tags are distinct.
LEMMA TagFacts ==
  /\ Tag.string = 0 /\ Tag.uint = 1 /\ Tag.int = 2 /\ Tag.bool = 3 /\ Tag.double = 4 /\ Tag.null = 5
  BY DEF Tag

\* The tag of a value.
TagOf(added) ==
  CASE added.kind = "string" -> 0
    [] added.kind = "uint"   -> 1
    [] added.kind = "int"    -> 2
    [] added.kind = "bool"   -> 3
    [] added.kind = "double" -> 4
    [] added.kind = "null"   -> 5

\* It tells the kind.
LEMMA TagsTell ==
  ASSUME NEW a \in Addable, NEW b \in Addable
  PROVE  TagOf(a) \in Nat /\ (TagOf(a) = TagOf(b) <=> a.kind = b.kind)
  <1>1. a.kind \in {"string", "uint", "int", "bool", "double", "null"}
        /\ b.kind \in {"string", "uint", "int", "bool", "double", "null"}
    BY KindsOfValues
  <1> QED
    BY <1>1 DEF TagOf

\* Adding appends a tag and a payload.
LEMMA AddToIs ==
  ASSUME NEW key \in Seq(Nat), NEW a \in Addable
  PROVE  AddTo(key, a) = (key \o <<TagOf(a)>>) \o Payload(a)
  <1>1. CASE a.kind = "string"
    <2>1. a.value \in Seq(Nat) /\ Len(a.value) \in Word
      BY <1>1, KindsOfValues, BytesAreNumbers, SeqMonotonic
    <2>2. PICK s \in Seq(Nat), p \in Seq(Nat), k \in Seq(Nat) :
            s = a.value /\ p = PackLittleEndian(Len(a.value)) /\ k = key \o <<0>>
      <3>1. PackLittleEndian(Len(a.value)) \in Seq(Nat)
        BY <2>1, PackFacts
      <3>2. key \o <<0>> \in Seq(Nat)
        BY ConcatProperties
      <3> QED
        BY <2>1, <3>1, <3>2
    <2>3. (k \o p) \o s = k \o (p \o s)
      BY ConcatAssociative
    <2>4. AddTo(key, a) = ((key \o <<0>>) \o PackLittleEndian(Len(a.value))) \o a.value
      BY <1>1, TagFacts DEF AddTo, AddString
    <2>5. TagOf(a) = 0 /\ Payload(a) = PackLittleEndian(Len(a.value)) \o a.value
      BY <1>1 DEF TagOf, Payload
    <2> QED
      BY <2>2, <2>3, <2>4, <2>5
  <1>2. CASE a.kind = "uint"
    BY <1>2, TagFacts DEF AddTo, AddUInt, TagOf, Payload
  <1>3. CASE a.kind = "int"
    BY <1>3, TagFacts DEF AddTo, AddInt, TagOf, Payload
  <1>4. CASE a.kind = "bool"
    <2>1. PICK x \in Nat : x = IF a.value THEN 1 ELSE 0
      OBVIOUS
    <2>2. AddTo(key, a) = key \o <<3, x>> /\ TagOf(a) = 3 /\ Payload(a) = <<x>>
      BY <1>4, <2>1, TagFacts DEF AddTo, AddBool, TagOf, Payload
    <2>3. <<3, x>> = <<3>> \o <<x>>
      OBVIOUS
    <2>4. (key \o <<3>>) \o <<x>> = key \o (<<3>> \o <<x>>)
      <3>1. <<3>> \in Seq(Nat) /\ <<x>> \in Seq(Nat)
        OBVIOUS
      <3> QED
        BY <3>1, ConcatAssociative
    <2> QED
      BY <2>2, <2>3, <2>4
  <1>5. CASE a.kind = "double"
    BY <1>5, TagFacts DEF AddTo, AddDouble, TagOf, Payload
  <1>6. CASE a.kind = "null"
    <2>1. AddTo(key, a) = key \o <<5>> /\ TagOf(a) = 5 /\ Payload(a) = << >>
      BY <1>6, TagFacts DEF AddTo, AddNull, TagOf, Payload
    <2>2. key \o <<5>> \in Seq(Nat)
      BY ConcatProperties
    <2>3. (key \o <<5>>) \o << >> = key \o <<5>>
      BY <2>2, ConcatEmptySeq
    <2> QED
      BY <2>1, <2>3
  <1> QED
    BY <1>1, <1>2, <1>3, <1>4, <1>5, <1>6, KindsOfValues

\* One key begins another.
Begins(s, t) == Len(s) <= Len(t) /\ \A i \in 1 .. Len(s) : s[i] = t[i]

\* A beginning of a beginning is a beginning.
LEMMA BeginningOfBeginning ==
  ASSUME NEW r \in Seq(Nat), NEW s \in Seq(Nat), NEW t \in Seq(Nat), Begins(r, s), Begins(s, t)
  PROVE  Begins(r, t)
  <1>1. Len(r) \in Nat /\ Len(s) \in Nat /\ Len(t) \in Nat
    OBVIOUS
  <1>2. Len(r) <= Len(t)
    BY <1>1 DEF Begins
  <1>3. ASSUME NEW i \in 1 .. Len(r) PROVE r[i] = t[i]
    <2>1. i \in 1 .. Len(s) /\ r[i] = s[i]
      BY <1>1 DEF Begins
    <2>2. s[i] = t[i]
      BY <2>1 DEF Begins
    <2> QED
      BY <2>1, <2>2
  <1> QED
    BY <1>2, <1>3 DEF Begins

\* Adding appends a tag and a payload and changes nothing before them.
LEMMA AddToFacts ==
  ASSUME NEW key \in Seq(Nat), NEW a \in Addable
  PROVE  /\ AddTo(key, a) \in Seq(Nat)
         /\ Len(AddTo(key, a)) = Len(key) + 1 + Len(Payload(a))
         /\ Begins(key, AddTo(key, a))
         /\ AddTo(key, a)[Len(key) + 1] = TagOf(a)
         /\ \A i \in 1 .. Len(Payload(a)) : AddTo(key, a)[Len(key) + 1 + i] = Payload(a)[i]
  <1>1. PICK n \in Nat, m \in Nat, t \in Nat, p \in Seq(Nat) :
          n = Len(key) /\ m = Len(p) /\ t = TagOf(a) /\ p = Payload(a)
    <2>1. Payload(a) \in Seq(Nat) /\ TagOf(a) \in Nat
      BY PayloadIsBytes, TagsTell
    <2> QED
      BY <2>1
  <1>2. PICK k \in Seq(Nat) : k = key \o <<t>>
    <2>1. <<t>> \in Seq(Nat)
      OBVIOUS
    <2>2. key \o <<t>> \in Seq(Nat)
      BY <2>1, ConcatProperties
    <2> QED
      BY <2>2
  <1>3. Len(k) = n + 1 /\ k[n + 1] = t /\ \A i \in 1 .. n : k[i] = key[i]
    BY <1>1, <1>2
  <1>4. /\ k \o p \in Seq(Nat)
        /\ Len(k \o p) = n + 1 + m
        /\ \A i \in 1 .. n + 1 + m : (k \o p)[i] = IF i <= n + 1 THEN k[i] ELSE p[i - (n + 1)]
    <2>1. PICK c \in Nat : c = n + 1
      OBVIOUS
    <2>2. /\ Len(k \o p) = c + Len(p)
          /\ \A i \in 1 .. c + Len(p) : (k \o p)[i] = IF i <= c THEN k[i] ELSE p[i - c]
      BY <1>3, <2>1, FramedString
    <2>3. k \o p \in Seq(Nat)
      BY ConcatProperties
    <2> QED
      BY <1>1, <2>1, <2>2, <2>3
  <1>5. PICK r : r = k \o p
    OBVIOUS
  <1>6. AddTo(key, a) = r
    BY <1>1, <1>2, <1>5, AddToIs
  <1>7. /\ r[n + 1] = t
        /\ \A i \in 1 .. n : r[i] = key[i]
    BY <1>3, <1>4, <1>5
  <1>8. ASSUME NEW i \in 1 .. m PROVE r[n + 1 + i] = p[i]
    <2>1. n + 1 + i \in 1 .. n + 1 + m /\ ~(n + 1 + i <= n + 1) /\ n + 1 + i - (n + 1) = i
      OBVIOUS
    <2> QED
      BY <1>4, <1>5, <2>1
  <1>9. Begins(key, r)
    BY <1>1, <1>4, <1>5, <1>7 DEF Begins
  <1> QED
    BY <1>1, <1>4, <1>5, <1>6, <1>7, <1>8, <1>9

-----------------------------------------------------------------------------
\* The keys a list of values goes through.
AreKeys(key, adds) ==
  key = [k \in 0 .. Len(adds) |-> IF k = 0 THEN << >> ELSE AddTo(key[k - 1], adds[k])]

\* The keys of the beginnings of a list of values.
LEMMA KeysExist ==
  ASSUME NEW adds \in Seq(Addable)
  PROVE  \E key : AreKeys(key, adds)
  <1>1. PICK n \in Nat : n = Len(adds) /\ \A k \in 1 .. n : adds[k] \in Addable
    BY ElementOfSeq
  <1>2. PICK S, base : S = Seq(Nat) /\ base = << >>
    OBVIOUS
  <1>3. PICK step : step = [k \in 1 .. n |-> [v \in S |-> AddTo(v, adds[k])]]
    OBVIOUS
  <1>4. ASSUME NEW k \in 1 .. n, NEW v \in S
        PROVE  step[k][v] \in S /\ step[k][v] = AddTo(v, adds[k])
    <2>1. step[k] = [u \in S |-> AddTo(u, adds[k])]
      BY <1>3
    <2>2. step[k][v] = AddTo(v, adds[k])
      BY <2>1
    <2>3. AddTo(v, adds[k]) \in S
      BY <1>1, <1>2, AddToFacts
    <2> QED
      BY <2>2, <2>3
  <1>5. StepsStay(step, n, S)
    BY <1>4 DEF StepsStay
  <1>6. base \in S
    BY <1>2
  <1>7. PICK f \in [0 .. n -> S] : Recurs(f, base, step, n)
    BY <1>5, <1>6, RecursionExists
  <1>8. ASSUME NEW k \in 0 .. n PROVE f[k] = IF k = 0 THEN << >> ELSE AddTo(f[k - 1], adds[k])
    <2>1. CASE k = 0
      BY <1>2, <1>7, <2>1 DEF Recurs
    <2>2. CASE k # 0
      <3>1. k \in 1 .. n /\ k - 1 \in 0 .. n
        BY <2>2
      <3>2. f[k] = step[k][f[k - 1]] /\ f[k - 1] \in S
        BY <1>7, <3>1 DEF Recurs
      <3> QED
        BY <1>4, <2>2, <3>1, <3>2
    <2> QED
      BY <2>1, <2>2
  <1>9. f = [k \in 0 .. n |-> f[k]]
    BY <1>7
  <1>10. f = [k \in 0 .. n |-> IF k = 0 THEN << >> ELSE AddTo(f[k - 1], adds[k])]
    BY <1>8, <1>9
  <1> QED
    BY <1>1, <1>10 DEF AreKeys

\* The last of them is the key of the list.
LEMMA KeyOfIs ==
  ASSUME NEW adds \in Seq(Addable)
  PROVE  \E key : AreKeys(key, adds) /\ KeyOf(adds) = key[Len(adds)]
  <1> DEFINE key[k \in 0 .. Len(adds)] == IF k = 0 THEN << >> ELSE AddTo(key[k - 1], adds[k])
  <1>1. \E f : f = [k \in 0 .. Len(adds) |-> IF k = 0 THEN << >> ELSE AddTo(f[k - 1], adds[k])]
    BY KeysExist DEF AreKeys
  <1>2. key = [k \in 0 .. Len(adds) |-> IF k = 0 THEN << >> ELSE AddTo(key[k - 1], adds[k])]
    BY <1>1
  <1>3. KeyOf(adds) = key[Len(adds)]
    BY DEF KeyOf
  <1> HIDE DEF key
  <1>4. AreKeys(key, adds)
    BY <1>2 DEF AreKeys
  <1> QED
    BY <1>3, <1>4

\* What they are, one by one.
LEMMA KeysFacts ==
  ASSUME NEW adds \in Seq(Addable), NEW key, AreKeys(key, adds)
  PROVE  /\ key[0] = << >>
         /\ \A k \in 1 .. Len(adds) : key[k] = AddTo(key[k - 1], adds[k])
         /\ \A k \in 0 .. Len(adds) : key[k] \in Seq(Nat)
  <1>1. PICK n \in Nat : n = Len(adds) /\ \A k \in 1 .. n : adds[k] \in Addable
    BY ElementOfSeq
  <1>2. \A k \in 0 .. n : key[k] = IF k = 0 THEN << >> ELSE AddTo(key[k - 1], adds[k])
    BY <1>1 DEF AreKeys
  <1>3. ASSUME NEW k \in 1 .. n PROVE key[k] = AddTo(key[k - 1], adds[k])
    BY <1>2
  <1>4. key[0] = << >>
    BY <1>2
  <1> DEFINE T == {k \in Nat : key[k] \in Seq(Nat)}
  <1>5. 0 \in T
    <2>1. << >> \in Seq(Nat)
      OBVIOUS
    <2> QED
      BY <1>4, <2>1
  <1>6. ASSUME NEW k \in 1 .. n, k - 1 \in T PROVE k \in T
    <2>1. key[k - 1] \in Seq(Nat) /\ adds[k] \in Addable
      BY <1>1, <1>6
    <2>2. AddTo(key[k - 1], adds[k]) \in Seq(Nat)
      BY <2>1, AddToFacts
    <2> QED
      BY <1>3, <2>2
  <1> HIDE DEF T
  <1>7. 0 .. n \subseteq T
    BY <1>5, <1>6, InductionUpTo
  <1>8. \A k \in 0 .. n : key[k] \in Seq(Nat)
    BY <1>7 DEF T
  <1> QED
    BY <1>1, <1>3, <1>4, <1>8

\* A key begins with every key before it.
LEMMA KeysBegin ==
  ASSUME NEW adds \in Seq(Addable), NEW key, AreKeys(key, adds), NEW k \in 0 .. Len(adds)
  PROVE  Begins(key[k], key[Len(adds)])
  <1>1. PICK n \in Nat : n = Len(adds) /\ \A j \in 1 .. n : adds[j] \in Addable
    BY ElementOfSeq
  <1>2. /\ \A j \in 1 .. n : key[j] = AddTo(key[j - 1], adds[j])
        /\ \A j \in 0 .. n : key[j] \in Seq(Nat)
    BY <1>1, KeysFacts
  <1> DEFINE T == {j \in Nat : j <= k \/ Begins(key[k], key[j])}
  <1>3. 0 \in T
    BY <1>1
  <1>4. ASSUME NEW j \in 1 .. n, j - 1 \in T PROVE j \in T
    <2> SUFFICES ASSUME j > k PROVE Begins(key[k], key[j])
      BY <1>1
    <2>1. key[j - 1] \in Seq(Nat) /\ key[j] \in Seq(Nat) /\ key[k] \in Seq(Nat) /\ adds[j] \in Addable
      BY <1>1, <1>2
    <2>2. key[j] = AddTo(key[j - 1], adds[j])
      BY <1>2
    <2>3. Begins(key[j - 1], key[j])
      BY <2>1, <2>2, AddToFacts
    <2>4. Begins(key[k], key[j - 1])
      <3>1. CASE j - 1 = k
        BY <2>1, <3>1 DEF Begins
      <3>2. CASE j - 1 # k
        BY <1>1, <1>4, <3>2
      <3> QED
        BY <3>1, <3>2
    <2> QED
      BY <2>1, <2>3, <2>4, BeginningOfBeginning
  <1> HIDE DEF T
  <1>5. 0 .. n \subseteq T
    BY <1>3, <1>4, InductionUpTo
  <1>6. n \in T
    BY <1>5
  <1>7. n <= k => n = k
    BY <1>1
  <1>8. Begins(key[k], key[k])
    BY <1>1, <1>2 DEF Begins
  <1> QED
    BY <1>1, <1>6, <1>7, <1>8 DEF T

\* The same values give the same key.
LEMMA SameAddAlike ==
  ASSUME NEW c \in Seq(Nat), NEW a \in Addable, NEW b \in Addable, SameAdded(a, b)
  PROVE  AddTo(c, a) = AddTo(c, b)
  <1>1. Payload(a) = Payload(b) /\ TagOf(a) = TagOf(b)
    BY SameHaveOnePayload, TagsTell
  <1> QED
    BY <1>1, AddToIs

\* Two values added to one key on the way to one result are the same.
LEMMA AddedTells ==
  ASSUME NEW c \in Seq(Nat), NEW a \in Addable, NEW b \in Addable, NEW result \in Seq(Nat),
         Begins(AddTo(c, a), result), Begins(AddTo(c, b), result)
  PROVE  SameAdded(a, b) /\ AddTo(c, a) = AddTo(c, b)
  <1>1. PICK r \in Seq(Nat), s \in Seq(Nat), p \in Seq(Nat), q \in Seq(Nat), n \in Nat :
          r = AddTo(c, a) /\ s = AddTo(c, b) /\ p = Payload(a) /\ q = Payload(b) /\ n = Len(c)
    <2>1. AddTo(c, a) \in Seq(Nat) /\ AddTo(c, b) \in Seq(Nat)
      BY AddToFacts
    <2>2. Payload(a) \in Seq(Nat) /\ Payload(b) \in Seq(Nat)
      BY PayloadIsBytes
    <2> QED
      BY <2>1, <2>2
  <1>2. /\ Len(r) = n + 1 + Len(p) /\ r[n + 1] = TagOf(a)
        /\ \A i \in 1 .. Len(p) : r[n + 1 + i] = p[i]
    BY <1>1, AddToFacts
  <1>3. /\ Len(s) = n + 1 + Len(q) /\ s[n + 1] = TagOf(b)
        /\ \A i \in 1 .. Len(q) : s[n + 1 + i] = q[i]
    BY <1>1, AddToFacts
  <1>4. Len(p) \in Nat /\ Len(q) \in Nat
    OBVIOUS
  <1>5. \A i \in 1 .. Len(r) : r[i] = result[i]
    BY <1>1 DEF Begins
  <1>6. \A i \in 1 .. Len(s) : s[i] = result[i]
    BY <1>1 DEF Begins
  <1>7. a.kind = b.kind
    <2>1. n + 1 \in 1 .. Len(r) /\ n + 1 \in 1 .. Len(s)
      BY <1>2, <1>3, <1>4
    <2>2. TagOf(a) = TagOf(b)
      BY <1>2, <1>3, <1>5, <1>6, <2>1
    <2> QED
      BY <2>2, TagsTell
  <1>8. AgreeAsFar(p, q)
    <2> SUFFICES ASSUME NEW i \in 1 .. Len(p), i <= Len(q) PROVE p[i] = q[i]
      BY DEF AgreeAsFar
    <2>1. i \in 1 .. Len(q) /\ n + 1 + i \in 1 .. Len(r) /\ n + 1 + i \in 1 .. Len(s)
      BY <1>2, <1>3, <1>4
    <2> QED
      BY <1>2, <1>3, <1>5, <1>6, <2>1
  <1>9. SameAdded(a, b)
    BY <1>1, <1>7, <1>8, PayloadsTell
  <1> QED
    BY <1>9, SameAddAlike

\* Lists that lead to one key agree in as many values as both have.
LEMMA ListsAgree ==
  ASSUME NEW adds \in Seq(Addable), NEW others \in Seq(Addable),
         NEW key, AreKeys(key, adds), NEW other, AreKeys(other, others),
         key[Len(adds)] = other[Len(others)],
         NEW k \in Nat, k <= Len(adds), k <= Len(others)
  PROVE  key[k] = other[k] /\ \A j \in 1 .. k : SameAdded(adds[j], others[j])
  <1>1. PICK n \in Nat : n = Len(adds) /\ \A j \in 1 .. n : adds[j] \in Addable
    BY ElementOfSeq
  <1>2. PICK m \in Nat : m = Len(others) /\ \A j \in 1 .. m : others[j] \in Addable
    BY ElementOfSeq
  <1>3. /\ key[0] = << >>
        /\ \A j \in 1 .. n : key[j] = AddTo(key[j - 1], adds[j])
        /\ \A j \in 0 .. n : key[j] \in Seq(Nat) /\ Begins(key[j], key[n])
    BY <1>1, KeysFacts, KeysBegin
  <1>4. /\ other[0] = << >>
        /\ \A j \in 1 .. m : other[j] = AddTo(other[j - 1], others[j])
        /\ \A j \in 0 .. m : other[j] \in Seq(Nat) /\ Begins(other[j], other[m])
    BY <1>2, KeysFacts, KeysBegin
  <1> DEFINE T == {j \in Nat : key[j] = other[j] /\ (j > 0 => SameAdded(adds[j], others[j]))}
  <1>5. 0 \in T
    BY <1>3, <1>4
  <1>6. ASSUME NEW j \in 1 .. k, j - 1 \in T PROVE j \in T
    <2>1. j \in 1 .. n /\ j \in 1 .. m /\ j \in 0 .. n /\ j \in 0 .. m /\ j - 1 \in 0 .. n
      BY <1>1, <1>2
    <2>2. PICK c, a, b, result : c = key[j - 1] /\ a = adds[j] /\ b = others[j] /\ result = key[n]
      OBVIOUS
    <2>3. c \in Seq(Nat) /\ a \in Addable /\ b \in Addable /\ result \in Seq(Nat)
      <3>1. n \in 0 .. n
        OBVIOUS
      <3> QED
        BY <1>1, <1>2, <1>3, <2>1, <2>2, <3>1
    <2>4. other[j - 1] = c /\ other[m] = result
      BY <1>1, <1>2, <1>6, <2>2
    <2>5. key[j] = AddTo(c, a) /\ other[j] = AddTo(c, b)
      BY <1>3, <1>4, <2>1, <2>2, <2>4
    <2>6. Begins(AddTo(c, a), result) /\ Begins(AddTo(c, b), result)
      BY <1>3, <1>4, <2>1, <2>2, <2>4, <2>5
    <2>7. SameAdded(a, b) /\ AddTo(c, a) = AddTo(c, b)
      BY <2>3, <2>6, AddedTells
    <2> QED
      BY <2>2, <2>5, <2>7
  <1> HIDE DEF T
  <1>7. 0 .. k \subseteq T
    BY <1>5, <1>6, InductionUpTo
  <1> QED
    BY <1>7 DEF T

\* Of two lists that lead to one key neither is longer.
LEMMA NeitherIsLonger ==
  ASSUME NEW adds \in Seq(Addable), NEW others \in Seq(Addable),
         NEW key, AreKeys(key, adds), NEW other, AreKeys(other, others),
         key[Len(adds)] = other[Len(others)]
  PROVE  ~(Len(adds) < Len(others))
  <1> SUFFICES ASSUME Len(adds) < Len(others) PROVE FALSE
    OBVIOUS
  <1>1. PICK n \in Nat : n = Len(adds)
    OBVIOUS
  <1>2. PICK m \in Nat : m = Len(others) /\ n < m /\ \A j \in 1 .. m : others[j] \in Addable
    BY <1>1, ElementOfSeq
  <1>3. key[n] = other[n]
    BY <1>1, <1>2, ListsAgree
  <1>4. n + 1 \in 1 .. m /\ n + 1 \in 0 .. m /\ n \in 0 .. m /\ m \in 0 .. m /\ n + 1 - 1 = n
    BY <1>2
  <1>5. other[n] \in Seq(Nat) /\ other[m] \in Seq(Nat) /\ other[n + 1] = AddTo(other[n], others[n + 1])
    BY <1>2, <1>4, KeysFacts
  <1>6. Begins(other[n + 1], other[m])
    BY <1>2, <1>4, KeysBegin
  <1>7. PICK c \in Seq(Nat), a \in Addable : c = other[n] /\ a = others[n + 1]
    BY <1>2, <1>4, <1>5
  <1>8. Len(AddTo(c, a)) = Len(c) + 1 + Len(Payload(a)) /\ Len(Payload(a)) \in Nat /\ Len(c) \in Nat
    <2>1. Payload(a) \in Seq(Nat)
      BY PayloadIsBytes
    <2>2. Len(AddTo(c, a)) = Len(c) + 1 + Len(Payload(a))
      BY AddToFacts
    <2> QED
      BY <2>1, <2>2
  <1>9. Len(AddTo(c, a)) <= Len(c)
    <2>1. other[m] = c
      BY <1>1, <1>2, <1>3, <1>7
    <2> QED
      BY <1>5, <1>6, <1>7, <2>1 DEF Begins
  <1> QED
    BY <1>8, <1>9

\* The same lists lead to the same key.
LEMMA SameListsAgree ==
  ASSUME NEW adds \in Seq(Addable), NEW others \in Seq(Addable), SameAdds(adds, others),
         NEW key, AreKeys(key, adds), NEW other, AreKeys(other, others)
  PROVE  key[Len(adds)] = other[Len(others)]
  <1>1. PICK n \in Nat : n = Len(adds) /\ \A j \in 1 .. n : adds[j] \in Addable
    BY ElementOfSeq
  <1>2. n = Len(others) /\ \A j \in 1 .. n : others[j] \in Addable /\ SameAdded(adds[j], others[j])
    <2>1. n = Len(others) /\ DOMAIN adds = 1 .. n
      BY <1>1 DEF SameAdds
    <2>2. \A j \in 1 .. n : others[j] \in Addable
      BY <2>1, ElementOfSeq
    <2> QED
      BY <2>1, <2>2 DEF SameAdds
  <1>3. /\ key[0] = << >>
        /\ \A j \in 1 .. n : key[j] = AddTo(key[j - 1], adds[j])
        /\ \A j \in 0 .. n : key[j] \in Seq(Nat)
    BY <1>1, KeysFacts
  <1>4. /\ other[0] = << >>
        /\ \A j \in 1 .. n : other[j] = AddTo(other[j - 1], others[j])
    BY <1>2, KeysFacts
  <1> DEFINE T == {j \in Nat : key[j] = other[j]}
  <1>5. 0 \in T
    BY <1>3, <1>4
  <1>6. ASSUME NEW j \in 1 .. n, j - 1 \in T PROVE j \in T
    <2>1. PICK c \in Seq(Nat), a \in Addable, b \in Addable :
            c = key[j - 1] /\ a = adds[j] /\ b = others[j]
      <3>1. j - 1 \in 0 .. n
        OBVIOUS
      <3> QED
        BY <1>1, <1>2, <1>3, <3>1
    <2>2. SameAdded(a, b)
      BY <1>2, <2>1
    <2>3. AddTo(c, a) = AddTo(c, b)
      BY <2>2, SameAddAlike
    <2>4. key[j] = AddTo(c, a)
      BY <1>3, <2>1
    <2>5. other[j] = AddTo(c, b)
      BY <1>4, <1>6, <2>1
    <2> QED
      BY <2>3, <2>4, <2>5
  <1> HIDE DEF T
  <1>7. 0 .. n \subseteq T
    BY <1>5, <1>6, InductionUpTo
  <1>8. n \in T
    BY <1>7
  <1> QED
    BY <1>1, <1>2, <1>8 DEF T

\* Two lists of values get one key exactly when they are the same values.
THEOREM KeysTellLists ==
  ASSUME NEW adds \in Seq(Addable), NEW others \in Seq(Addable)
  PROVE  KeyOf(adds) = KeyOf(others) <=> SameAdds(adds, others)
  <1>1. PICK key : AreKeys(key, adds) /\ KeyOf(adds) = key[Len(adds)]
    BY KeyOfIs
  <1>2. PICK other : AreKeys(other, others) /\ KeyOf(others) = other[Len(others)]
    BY KeyOfIs
  <1>3. ASSUME SameAdds(adds, others) PROVE KeyOf(adds) = KeyOf(others)
    BY <1>1, <1>2, <1>3, SameListsAgree
  <1>4. ASSUME KeyOf(adds) = KeyOf(others) PROVE SameAdds(adds, others)
    <2>1. key[Len(adds)] = other[Len(others)]
      BY <1>1, <1>2, <1>4
    <2>2. ~(Len(adds) < Len(others)) /\ ~(Len(others) < Len(adds))
      BY <1>1, <1>2, <2>1, NeitherIsLonger
    <2>3. PICK n \in Nat : n = Len(adds) /\ n = Len(others) /\ DOMAIN adds = 1 .. n
      BY <2>2
    <2>4. \A j \in 1 .. n : SameAdded(adds[j], others[j])
      BY <1>1, <1>2, <2>1, <2>3, ListsAgree
    <2> QED
      BY <2>3, <2>4 DEF SameAdds
  <1> QED
    BY <1>3, <1>4

\* A value of a kind.
Value(kind, value) == [kind |-> kind, value |-> value]

\* What adding it calls.
LEMMA AddedValues ==
  ASSUME NEW key
  PROVE  /\ \A v : AddTo(key, Value("uint", v)) = AddUInt(key, v)
         /\ \A v : AddTo(key, Value("string", v)) = AddString(key, v)
         /\ AddTo(key, Value("null", 0)) = AddNull(key)
  BY DEF AddTo, Value

\* Words, strings and null may be added.
LEMMA ValuesAreAddable ==
  /\ \A v \in Word : Value("uint", v) \in Addable
  /\ \A s \in Seq(Byte) : Len(s) \in Word => Value("string", s) \in Addable
  /\ Value("null", 0) \in Addable
  BY DEF Addable, Value

\* The keys of short lists.
LEMMA KeyOfThree ==
  ASSUME NEW a \in Addable, NEW b \in Addable, NEW c \in Addable
  PROVE  KeyOf(<<a, b, c>>) = AddTo(AddTo(AddTo(<< >>, a), b), c)
  <1>1. PICK adds : adds = <<a, b, c>>
    OBVIOUS
  <1>2. adds \in Seq(Addable) /\ Len(adds) = 3 /\ adds[1] = a /\ adds[2] = b /\ adds[3] = c
    BY <1>1
  <1>3. PICK key : AreKeys(key, adds) /\ KeyOf(adds) = key[3]
    BY <1>2, KeyOfIs
  <1>4. key[0] = << >> /\ \A k \in 1 .. 3 : key[k] = AddTo(key[k - 1], adds[k])
    BY <1>2, <1>3, KeysFacts
  <1>5. key[1] = AddTo(key[0], a) /\ key[2] = AddTo(key[1], b) /\ key[3] = AddTo(key[2], c)
    BY <1>2, <1>4
  <1> QED
    BY <1>1, <1>3, <1>4, <1>5

\* And of longer ones.
LEMMA KeyOfFour ==
  ASSUME NEW a \in Addable, NEW b \in Addable, NEW c \in Addable, NEW d \in Addable
  PROVE  KeyOf(<<a, b, c, d>>) = AddTo(AddTo(AddTo(AddTo(<< >>, a), b), c), d)
  <1>1. PICK adds : adds = <<a, b, c, d>>
    OBVIOUS
  <1>2. adds \in Seq(Addable) /\ Len(adds) = 4 /\ adds[1] = a /\ adds[2] = b /\ adds[3] = c /\ adds[4] = d
    BY <1>1
  <1>3. PICK key : AreKeys(key, adds) /\ KeyOf(adds) = key[4]
    BY <1>2, KeyOfIs
  <1>4. key[0] = << >> /\ \A k \in 1 .. 4 : key[k] = AddTo(key[k - 1], adds[k])
    BY <1>2, <1>3, KeysFacts
  <1>5. key[1] = AddTo(key[0], a) /\ key[2] = AddTo(key[1], b) /\ key[3] = AddTo(key[2], c)
        /\ key[4] = AddTo(key[3], d)
    BY <1>2, <1>4
  <1> QED
    BY <1>1, <1>3, <1>4, <1>5

-----------------------------------------------------------------------------

\* The read options that are asked about.
ReadOptions == [band : Word, overviewLevel : {{}} \cup {{level} : level \in Word},
                samplingStep : Word, outputType : DataTypes]

\* The level adds a word or null.
LevelOf(request) ==
  IF request.overviewLevel = {} THEN Value("null", 0)
  ELSE Value("uint", CHOOSE level \in request.overviewLevel : TRUE)

\* The values a request adds to a key.
AddsOf(request) ==
  <<Value("uint", request.band), LevelOf(request), Value("uint", request.samplingStep),
    Value("string", NameOf[request.outputType])>>

\* Which of the two is told by the request.
LEMMA LevelFacts ==
  ASSUME NEW r \in ReadOptions
  PROVE  /\ LevelOf(r) \in Addable
         /\ \/ r.overviewLevel = {} /\ LevelOf(r) = Value("null", 0)
            \/ \E level \in Word : r.overviewLevel = {level} /\ LevelOf(r) = Value("uint", level)
  <1>1. CASE r.overviewLevel = {}
    BY <1>1, ValuesAreAddable DEF LevelOf
  <1>2. CASE r.overviewLevel # {}
    <2>1. PICK level \in Word : r.overviewLevel = {level}
      BY <1>2 DEF ReadOptions
    <2>2. (CHOOSE l \in {level} : TRUE) = level
      OBVIOUS
    <2>3. LevelOf(r) = Value("uint", level)
      BY <1>2, <2>1, <2>2 DEF LevelOf
    <2> QED
      BY <2>1, <2>3, ValuesAreAddable
  <1> QED
    BY <1>1, <1>2

\* A request contributes the key of the list it adds.
LEMMA RequestAdds ==
  ASSUME NEW r \in ReadOptions
  PROVE  /\ AddsOf(r) \in Seq(Addable)
         /\ ContributeToCacheKey(<< >>, r) = KeyOf(AddsOf(r))
  <1>1. PICK a \in Addable, b \in Addable, c \in Addable, d \in Addable :
          /\ a = Value("uint", r.band) /\ b = LevelOf(r) /\ c = Value("uint", r.samplingStep)
          /\ d = Value("string", NameOf[r.outputType])
    <2>1. r.band \in Word /\ r.samplingStep \in Word /\ r.outputType \in DataTypes
      BY DEF ReadOptions
    <2>2. NameOf[r.outputType] \in Seq(Byte) /\ Len(NameOf[r.outputType]) \in Word
      BY <2>1, NameAssumption
    <2> QED
      BY <2>1, <2>2, ValuesAreAddable, LevelFacts
  <1>2. AddsOf(r) = <<a, b, c, d>>
    BY <1>1 DEF AddsOf
  <1>3. PICK k : k = AddTo(<< >>, a)
    OBVIOUS
  <1>4. k = AddUInt(<< >>, r.band)
    BY <1>1, <1>3, AddedValues
  <1>5. AddTo(k, b) = IF r.overviewLevel = {} THEN AddNull(k)
                      ELSE AddUInt(k, CHOOSE level \in r.overviewLevel : TRUE)
    BY <1>1, AddedValues DEF LevelOf
  <1>6. AddTo(AddTo(AddTo(k, b), c), d)
          = AddString(AddUInt(AddTo(k, b), r.samplingStep), NameOf[r.outputType])
    BY <1>1, AddedValues
  <1>7. ContributeToCacheKey(<< >>, r) = AddTo(AddTo(AddTo(k, b), c), d)
    BY <1>4, <1>5, <1>6 DEF ContributeToCacheKey
  <1>8. KeyOf(<<a, b, c, d>>) = AddTo(AddTo(AddTo(k, b), c), d)
    BY <1>3, KeyOfFour
  <1> QED
    BY <1>2, <1>7, <1>8

\* No two requests share a key.
LEMMA RequestsTell ==
  ASSUME NEW r \in ReadOptions, NEW s \in ReadOptions,
         ContributeToCacheKey(<< >>, r) = ContributeToCacheKey(<< >>, s)
  PROVE  r = s
  <1>1. SameAdds(AddsOf(r), AddsOf(s))
    BY RequestAdds, KeysTellLists
  <1>2. SameAdded(AddsOf(r)[1], AddsOf(s)[1]) /\ SameAdded(AddsOf(r)[2], AddsOf(s)[2])
        /\ SameAdded(AddsOf(r)[3], AddsOf(s)[3]) /\ SameAdded(AddsOf(r)[4], AddsOf(s)[4])
    <2>1. DOMAIN AddsOf(r) = 1 .. 4
      BY DEF AddsOf
    <2>2. 1 \in 1 .. 4 /\ 2 \in 1 .. 4 /\ 3 \in 1 .. 4 /\ 4 \in 1 .. 4
      OBVIOUS
    <2> QED
      BY <1>1, <2>1, <2>2 DEF SameAdds
  <1>3. /\ SameAdded(Value("uint", r.band), Value("uint", s.band))
        /\ SameAdded(LevelOf(r), LevelOf(s))
        /\ SameAdded(Value("uint", r.samplingStep), Value("uint", s.samplingStep))
        /\ SameAdded(Value("string", NameOf[r.outputType]), Value("string", NameOf[s.outputType]))
    BY <1>2 DEF AddsOf
  <1>4. r.band = s.band /\ r.samplingStep = s.samplingStep /\ NameOf[r.outputType] = NameOf[s.outputType]
    BY <1>3 DEF SameAdded, Value
  <1>5. r.outputType = s.outputType
    BY <1>4, NameAssumption DEF ReadOptions
  <1>6. r.overviewLevel = s.overviewLevel
    <2>1. CASE r.overviewLevel = {} \/ s.overviewLevel = {}
      <3>1. LevelOf(r).kind = LevelOf(s).kind
        BY <1>3 DEF SameAdded
      <3>2. LevelOf(r).kind = (IF r.overviewLevel = {} THEN "null" ELSE "uint")
            /\ LevelOf(s).kind = (IF s.overviewLevel = {} THEN "null" ELSE "uint")
        BY DEF LevelOf, Value
      <3> QED
        BY <2>1, <3>1, <3>2
    <2>2. CASE r.overviewLevel # {} /\ s.overviewLevel # {}
      <3>1. PICK l, m : /\ r.overviewLevel = {l} /\ LevelOf(r) = Value("uint", l)
                        /\ s.overviewLevel = {m} /\ LevelOf(s) = Value("uint", m)
        BY <2>2, LevelFacts
      <3>2. l = m
        BY <1>3, <3>1 DEF SameAdded, Value
      <3> QED
        BY <3>1, <3>2
    <2> QED
      BY <2>1, <2>2
  <1> QED
    BY <1>4, <1>5, <1>6 DEF ReadOptions

-----------------------------------------------------------------------------

\* Tile identifiers.
TileIds == [level : Word, x : Word, y : Word]

\* A tile adds its three numbers.
AddsOfTile(tile) == <<Value("uint", tile.level), Value("uint", tile.x), Value("uint", tile.y)>>

\* Its key is that of the list.
LEMMA TileAdds ==
  ASSUME NEW t \in TileIds
  PROVE  AddsOfTile(t) \in Seq(Addable) /\ TileKey(t) = KeyOf(AddsOfTile(t))
  <1>1. PICK a \in Addable, b \in Addable, c \in Addable :
          a = Value("uint", t.level) /\ b = Value("uint", t.x) /\ c = Value("uint", t.y)
    BY ValuesAreAddable DEF TileIds
  <1>2. AddsOfTile(t) = <<a, b, c>>
    BY <1>1 DEF AddsOfTile
  <1>3. TileKey(t) = AddTo(AddTo(AddTo(<< >>, a), b), c)
    BY <1>1, AddedValues DEF TileKey
  <1> QED
    BY <1>2, <1>3, KeyOfThree

\* No two tiles share a key.
LEMMA TilesTell ==
  ASSUME NEW t \in TileIds, NEW u \in TileIds, TileKey(t) = TileKey(u)
  PROVE  t = u
  <1>1. SameAdds(AddsOfTile(t), AddsOfTile(u))
    BY TileAdds, KeysTellLists
  <1>2. SameAdded(AddsOfTile(t)[1], AddsOfTile(u)[1]) /\ SameAdded(AddsOfTile(t)[2], AddsOfTile(u)[2])
        /\ SameAdded(AddsOfTile(t)[3], AddsOfTile(u)[3])
    <2>1. DOMAIN AddsOfTile(t) = 1 .. 3
      BY DEF AddsOfTile
    <2>2. 1 \in 1 .. 3 /\ 2 \in 1 .. 3 /\ 3 \in 1 .. 3
      OBVIOUS
    <2> QED
      BY <1>1, <2>1, <2>2 DEF SameAdds
  <1>3. t.level = u.level /\ t.x = u.x /\ t.y = u.y
    BY <1>2 DEF AddsOfTile, SameAdded, Value
  <1> QED
    BY <1>3 DEF TileIds

-----------------------------------------------------------------------------
\* What is asked about is what may be.
QuestionSound ==
  /\ question.about = "key" => question.adds \in Adds
  /\ question.about = "request" => question.request \in Requests
  /\ question.about = "tile" => question.tile \in Tiles
  /\ question.about = "segment" => question.segment \in Segments
  /\ question.about = "conversion" => question.from \in DataTypes /\ question.to \in DataTypes

\* Questions about keys are about what was to be asked.
LEMMA QuestionsAreSound == Spec => []QuestionSound
  <1>1. Init => QuestionSound
    BY DEF Init, NoQuestion, QuestionSound
  <1>2. QuestionSound /\ [Next]_vars => QuestionSound'
    <2> SUFFICES ASSUME QuestionSound, [Next]_vars PROVE QuestionSound'
      OBVIOUS
    <2>1. CASE UNCHANGED question
      BY <2>1 DEF QuestionSound
    <2>2. CASE \E adds \in Adds : Ask([about |-> "key", adds |-> adds])
      BY <2>2 DEF Ask, QuestionSound
    <2>3. CASE \E request \in Requests : Ask([about |-> "request", request |-> request])
      BY <2>3 DEF Ask, QuestionSound
    <2>4. CASE \E tile \in Tiles : Ask([about |-> "tile", tile |-> tile])
      BY <2>4 DEF Ask, QuestionSound
    <2>5. CASE \E segment \in Segments : Ask([about |-> "segment", segment |-> segment])
      BY <2>5 DEF Ask, QuestionSound
    <2>6. CASE \E from, to \in DataTypes : Ask([about |-> "conversion", from |-> from, to |-> to])
      BY <2>6 DEF Ask, QuestionSound
    <2> QED
      BY <2>1, <2>2, <2>3, <2>4, <2>5, <2>6 DEF Next, vars
  <1> QED
    BY <1>1, <1>2, PTL DEF Spec

\* Such a question gets the answer the property demands.
LEMMA SoundQuestionsAreTold == QuestionSound => KeysTellRequestsApart
  <1> SUFFICES ASSUME QuestionSound PROVE KeysTellRequestsApart
    OBVIOUS
  <1>1. CASE question.about = "key"
    <2>1. question.adds \in Seq(Addable) /\ Adds \subseteq Seq(Addable)
      BY <1>1, AddsAssumption DEF QuestionSound
    <2>2. \A adds \in Adds : KeyOf(adds) = KeyOf(question.adds) <=> SameAdds(adds, question.adds)
      BY <2>1, KeysTellLists
    <2> QED
      BY <1>1, <2>2 DEF KeysTellRequestsApart
  <1>2. CASE question.about = "request"
    <2>1. question.request \in ReadOptions /\ Requests \subseteq ReadOptions
      BY <1>2, RequestsAssumption DEF QuestionSound, ReadOptions
    <2>2. \A request \in Requests :
            ContributeToCacheKey(<< >>, request) = ContributeToCacheKey(<< >>, question.request)
              => request = question.request
      BY <2>1, RequestsTell
    <2> QED
      BY <1>2, <2>2 DEF KeysTellRequestsApart
  <1>3. CASE question.about = "tile"
    <2>1. question.tile \in TileIds /\ Tiles \subseteq TileIds
      BY <1>3, TilesAssumption DEF QuestionSound, TileIds
    <2>2. \A tile \in Tiles : TileKey(tile) = TileKey(question.tile) => tile = question.tile
      BY <2>1, TilesTell
    <2> QED
      BY <1>3, <2>2 DEF KeysTellRequestsApart
  <1>4. CASE question.about \notin {"key", "request", "tile"}
    BY <1>4 DEF KeysTellRequestsApart
  <1> QED
    BY <1>1, <1>2, <1>3, <1>4

\* Keys are equal exactly for equal values, requests and tiles (CacheKey,
\* RasterReadOptions::ContributeToCacheKey, TileId::Hash).
THEOREM KeysTell == Spec => []KeysTellRequestsApart
  BY QuestionsAreSound, SoundQuestionsAreTold, PTL

-----------------------------------------------------------------------------
(***************************************************************************)
(* Conversions.                                                            *)
(***************************************************************************)
\* The exponent of a number's unit in the last place.
IsUnit(n, e) == IsLeastExponent(PowerOfTwo, 3 * ByteBits, n, e)

\* The unit in the last place is the power of it.
LEMMA UnitIs ==
  ASSUME NEW n \in Nat
  PROVE  \E e : IsUnit(n, e) /\ UnitInLastPlace(n) = PowerOfTwo[e]
  <1>1. PICK s \in Nat : s = 3 * ByteBits
    BY ByteAssumption
  <1>2. PICK e : /\ e = CHOOSE d \in 0 .. n : /\ n < PowerOfTwo[s + d]
                                            /\ \A lower \in 0 .. d - 1 : ~(n < PowerOfTwo[s + lower])
                 /\ IsLeastExponent(PowerOfTwo, s, n, e)
    BY PowersArePowers, LeastExponent
  <1>3. UnitInLastPlace(n) = PowerOfTwo[e]
    BY <1>1, <1>2 DEF UnitInLastPlace
  <1> QED
    BY <1>1, <1>2, <1>3 DEF IsUnit

\* A number in a float's precision.
Rounded(n) == RoundToEven(n, UnitInLastPlace(n))

\* A multiple of the unit is what it was.
LEMMA MultiplesStay ==
  ASSUME NEW k \in Nat, NEW u \in Nat \ {0}
  PROVE  RoundToEven(u * k, u) = u * k
  <1>1. PICK m \in Nat : m = u * k /\ m = k * u
    BY ProductFacts
  <1>2. m \div u = k /\ m % u = 0
    <2>1. (k * u + 0) % u = 0 /\ (k * u + 0) \div u = k
      BY RemainderIs, QuotientIs
    <2> QED
      BY <1>1, <2>1
  <1>3. ~(0 > u) /\ 0 # u
    OBVIOUS
  <1> QED
    BY <1>1, <1>2, <1>3 DEF RoundToEven

\* What rounding makes is a multiple of the unit.
LEMMA RoundedIsMultiple ==
  ASSUME NEW n \in Nat, NEW u \in Nat \ {0}
  PROVE  \E k \in Nat : /\ RoundToEven(n, u) = u * k
                        /\ k = n \div u \/ k = n \div u + 1
  <1>1. n \div u \in Nat
    BY DivisionFacts
  <1>2. PICK k : k = IF 2 * (n % u) > u \/ (2 * (n % u) = u /\ (n \div u) % 2 = 1) THEN n \div u + 1 ELSE n \div u
    OBVIOUS
  <1>3. RoundToEven(n, u) = u * k
    BY <1>2 DEF RoundToEven
  <1> QED
    BY <1>1, <1>2, <1>3

\* A number is a float if the power of two it is a multiple of is large enough.
LEMMA MultiplesAreFloats ==
  ASSUME NEW d \in Nat, NEW k \in Nat, PowerOfTwo[d] * k < PowerOfTwo[3 * ByteBits + d]
  PROVE  Rounded(PowerOfTwo[d] * k) = PowerOfTwo[d] * k
  <1>1. PICK p \in Nat \ {0} : p = PowerOfTwo[d]
    BY PowersArePowers, PowerIsPositive
  <1>2. PICK n \in Nat : n = p * k
    BY ProductFacts
  <1>3. PICK e : IsUnit(n, e) /\ UnitInLastPlace(n) = PowerOfTwo[e]
    BY UnitIs
  <1>4. e \in Nat /\ e <= d
    <2>1. e \in Nat /\ \A lower \in 0 .. e - 1 : ~(n < PowerOfTwo[3 * ByteBits + lower])
      BY <1>3 DEF IsUnit, IsLeastExponent
    <2>2. d \notin 0 .. e - 1
      BY <2>1, <1>1, <1>2
    <2> QED
      BY <2>1, <2>2
  <1>5. PICK c \in Nat : d = e + c
    BY <1>4
  <1>6. PICK u \in Nat \ {0}, q \in Nat \ {0} : u = PowerOfTwo[e] /\ q = PowerOfTwo[c] /\ p = u * q
    <2>1. PowerOfTwo[e + c] = PowerOfTwo[e] * PowerOfTwo[c]
      BY <1>4, PowersArePowers, PowerOfSum
    <2> QED
      BY <1>1, <1>4, <1>5, <2>1, PowersArePowers, PowerIsPositive
  <1>7. PICK m \in Nat : m = q * k /\ n = u * m
    <2>1. (u * q) * k = u * (q * k)
      BY <1>6
    <2> QED
      BY <1>2, <1>6, <2>1, ProductFacts
  <1>8. RoundToEven(n, u) = n
    BY <1>6, <1>7, MultiplesStay
  <1> QED
    BY <1>1, <1>2, <1>3, <1>6, <1>8 DEF Rounded

\* The least number that is no float is none, whatever the fraction.
LEMMA ThereIsNoFloat ==
  ASSUME NEW j \in Nat
  PROVE  Rounded(PowerOfTwo[j] * (PowerOfTwo[3 * ByteBits] + 1)) # PowerOfTwo[j] * (PowerOfTwo[3 * ByteBits] + 1)
  <1>1. PICK s \in Nat : s = 3 * ByteBits /\ s >= 1
    BY ByteAssumption
  <1>2. PICK b \in Nat : b + 1 = s
    BY <1>1
  <1>3. PICK p \in Nat \ {0}, h \in Nat \ {0}, q \in Nat \ {0} :
          p = PowerOfTwo[j] /\ h = PowerOfTwo[b] /\ q = PowerOfTwo[s] /\ q = 2 * h
    BY <1>1, <1>2, PowersArePowers, PowerIsPositive, PowerOfSuccessor
  <1>4. PICK n \in Nat : n = p * (q + 1) /\ n = p * q + p
    BY ProductFacts
  <1>5. PICK e : IsUnit(n, e) /\ UnitInLastPlace(n) = PowerOfTwo[e]
    BY UnitIs
  <1>6. e \in Nat /\ e >= j + 1
    <2>1. e \in Nat /\ n < PowerOfTwo[s + e]
      BY <1>1, <1>5 DEF IsUnit, IsLeastExponent
    <2>2. CASE e <= j
      <3>1. PICK c \in Nat, d \in Nat : c = s + e /\ d = s + j /\ c <= d
        BY <2>1, <2>2
      <3>2. PICK x \in Nat \ {0}, y \in Nat \ {0} : x = PowerOfTwo[c] /\ y = PowerOfTwo[d] /\ x <= y
        BY <3>1, PowersArePowers, PowerIsPositive, PowerGrows
      <3>3. y = q * p
        <4>1. PowerOfTwo[s + j] = PowerOfTwo[s] * PowerOfTwo[j]
          BY PowersArePowers, PowerOfSum
        <4> QED
          BY <1>1, <1>3, <3>1, <3>2, <4>1
      <3>4. n < x
        BY <2>1, <3>1, <3>2
      <3>5. q * p = p * q
        BY ProductFacts
      <3> QED
        BY <1>4, <3>2, <3>3, <3>4, <3>5
    <2> QED
      BY <2>1, <2>2
  <1>7. PICK c \in Nat : e = (j + 1) + c
    BY <1>6
  <1>8. PICK u \in Nat \ {0}, r \in Nat \ {0} : u = PowerOfTwo[e] /\ r = PowerOfTwo[c] /\ u = (2 * p) * r
    <2>1. PICK r \in Nat \ {0} : r = PowerOfTwo[c]
      BY PowersArePowers, PowerIsPositive
    <2>2. PowerOfTwo[j + 1] = 2 * p
      BY <1>3, PowersArePowers, PowerOfSuccessor
    <2>3. PICK i \in Nat : i = j + 1 /\ e = i + c
      BY <1>7
    <2>4. PowerOfTwo[i + c] = PowerOfTwo[i] * PowerOfTwo[c]
      BY PowersArePowers, PowerOfSum
    <2>5. PowerOfTwo[e] = (2 * p) * r
      BY <2>1, <2>2, <2>3, <2>4
    <2> QED
      BY <2>1, <2>5, <1>6, PowersArePowers, PowerIsPositive
  <1>9. PICK k \in Nat : RoundToEven(n, u) = u * k
    BY RoundedIsMultiple
  <1>10. PICK t \in Nat : t = r * k /\ u * k = p * (2 * t)
    <2>1. ((2 * p) * r) * k = p * (2 * (r * k))
      BY <1>3, <1>8, <1>9
    <2> QED
      BY <1>8, <2>1, ProductFacts
  <1>11. p * (2 * t) # p * (q + 1)
    <2>1. CASE 2 * t < q + 1
      <3>1. 2 * t <= q
        BY <2>1, <1>3
      <3>2. p * (2 * t) <= p * q
        BY <3>1, <1>3, <1>10, ProductMonotone
      <3>3. p * q \in Nat /\ p * (2 * t) \in Nat
        BY ProductFacts
      <3> QED
        BY <3>2, <3>3, <1>4
    <2>2. CASE 2 * t >= q + 2
      <3>1. p * (q + 2) <= p * (2 * t)
        BY <2>2, <1>3, <1>10, ProductMonotone
      <3>2. p * (q + 2) = p * q + 2 * p /\ p * q \in Nat /\ p * (2 * t) \in Nat
        BY ProductFacts
      <3> QED
        BY <3>1, <3>2, <1>3, <1>4
    <2>3. 2 * t < q + 1 \/ 2 * t >= q + 2
      BY <1>3, <1>10
    <2> QED
      BY <2>1, <2>2, <2>3
  <1>12. Rounded(n) # n
    BY <1>4, <1>5, <1>8, <1>9, <1>10, <1>11 DEF Rounded
  <1> QED
    BY <1>1, <1>3, <1>4, <1>12

\* A float rounds the magnitude and keeps the sign.
LEMMA FloatIs ==
  ASSUME NEW v \in Int
  PROVE  /\ Magnitude(v) \in Nat
         /\ ToFloat(v) = IF v < 0 THEN -Rounded(Magnitude(v)) ELSE Rounded(Magnitude(v))
  BY NaNAssumption DEF ToFloat, Signed, Magnitude, Rounded

\* A float has a magnitude.
LEMMA RoundedIsNatural ==
  ASSUME NEW n \in Nat
  PROVE  \E e \in Nat, k \in Nat :
           /\ Rounded(n) = PowerOfTwo[e] * k /\ Rounded(n) \in Nat
           /\ n < PowerOfTwo[3 * ByteBits + e] /\ (k = n \div PowerOfTwo[e] \/ k = n \div PowerOfTwo[e] + 1)
  <1>1. PICK e : IsUnit(n, e) /\ UnitInLastPlace(n) = PowerOfTwo[e]
    BY UnitIs
  <1>2. e \in Nat /\ n < PowerOfTwo[3 * ByteBits + e]
    BY <1>1 DEF IsUnit, IsLeastExponent
  <1>3. PICK u \in Nat \ {0} : u = PowerOfTwo[e]
    BY <1>2, PowersArePowers, PowerIsPositive
  <1>4. PICK k \in Nat : RoundToEven(n, u) = u * k /\ (k = n \div u \/ k = n \div u + 1)
    BY RoundedIsMultiple
  <1>5. u * k \in Nat
    BY ProductFacts
  <1> QED
    BY <1>1, <1>2, <1>3, <1>4, <1>5 DEF Rounded

\* A number stays when it is narrowed exactly if its magnitude does.
LEMMA StaysAFloat ==
  ASSUME NEW v \in Int
  PROVE  ToFloat(v) = v <=> Rounded(Magnitude(v)) = Magnitude(v)
  <1>1. PICK m \in Nat : m = Magnitude(v) /\ m = IF v < 0 THEN -v ELSE v
    BY FloatIs DEF Magnitude
  <1>2. PICK r \in Nat : r = Rounded(m)
    BY RoundedIsNatural
  <1>3. ToFloat(v) = IF v < 0 THEN -r ELSE r
    BY <1>1, <1>2, FloatIs
  <1> QED
    BY <1>1, <1>2, <1>3

\* Narrowing twice is narrowing once.
LEMMA RoundedOnce ==
  ASSUME NEW n \in Nat
  PROVE  Rounded(Rounded(n)) = Rounded(n)
  <1>1. PICK e \in Nat, k \in Nat :
          /\ Rounded(n) = PowerOfTwo[e] * k
          /\ n < PowerOfTwo[3 * ByteBits + e] /\ (k = n \div PowerOfTwo[e] \/ k = n \div PowerOfTwo[e] + 1)
    BY RoundedIsNatural
  <1>2. PICK s \in Nat, b \in Nat : s = 3 * ByteBits /\ b + 1 = s
    <2>1. 3 * ByteBits \in Nat /\ 3 * ByteBits - 1 \in Nat
      BY ByteAssumption
    <2> QED
      BY <2>1
  <1>3. PICK u \in Nat \ {0}, q \in Nat \ {0}, h \in Nat \ {0} :
          u = PowerOfTwo[e] /\ q = PowerOfTwo[s] /\ h = PowerOfTwo[b] /\ q = 2 * h
    <2>1. PowerOfTwo[b + 1] = 2 * PowerOfTwo[b]
      BY PowersArePowers, PowerOfSuccessor
    <2> QED
      BY <1>2, <2>1, PowersArePowers, PowerIsPositive
  <1>4. PowerOfTwo[s + e] = q * u /\ q * u = u * q /\ q * u \in Nat
    <2>1. PowerOfTwo[s + e] = PowerOfTwo[s] * PowerOfTwo[e]
      BY PowersArePowers, PowerOfSum
    <2> QED
      BY <1>3, <2>1, ProductFacts
  <1>5. k <= q
    <2>1. n < u * q
      BY <1>1, <1>2, <1>4
    <2>2. n \div u < q /\ n \div u \in Nat
      BY <2>1, QuotientBelow, DivisionFacts
    <2> QED
      BY <1>1, <1>3, <2>2
  <1>6. CASE k < q
    <2>1. u * (k + 1) <= u * q /\ u * (k + 1) = u * k + u /\ u * k \in Nat
      BY <1>6, ProductMonotone, ProductFacts
    <2>2. u * k < PowerOfTwo[s + e]
      BY <1>4, <2>1
    <2>3. Rounded(PowerOfTwo[e] * k) = PowerOfTwo[e] * k
      BY <1>2, <1>3, <2>2, MultiplesAreFloats
    <2> QED
      BY <1>1, <2>3
  <1>7. CASE k = q
    <2>1. PICK d \in Nat : d = e + 1 /\ s + d = (s + e) + 1 /\ PowerOfTwo[d] = 2 * u
      BY <1>3, PowersArePowers, PowerOfSuccessor
    <2>2. (2 * u) * h = u * k
      BY <1>3, <1>7
    <2>3. PowerOfTwo[(s + e) + 1] = 2 * (q * u)
      BY <1>4, PowersArePowers, PowerOfSuccessor
    <2>4. q * u > 0
      BY ProductFacts
    <2>5. PowerOfTwo[d] * h < PowerOfTwo[3 * ByteBits + d]
      BY <1>2, <1>4, <1>7, <2>1, <2>2, <2>3, <2>4
    <2>6. Rounded(PowerOfTwo[d] * h) = PowerOfTwo[d] * h
      BY <2>5, MultiplesAreFloats
    <2> QED
      BY <1>1, <1>3, <2>1, <2>2, <2>6
  <1> QED
    BY <1>5, <1>6, <1>7

\* A float stays one.
LEMMA FloatsStay ==
  ASSUME NEW v \in Number
  PROVE  ToFloat(ToFloat(v)) = ToFloat(v)
  <1>1. CASE v = NaN
    BY <1>1 DEF ToFloat
  <1>2. CASE v \in Int
    <2>1. PICK m \in Nat : m = Magnitude(v)
      BY <1>2, FloatIs
    <2>2. PICK r \in Nat : r = Rounded(m)
      BY RoundedIsNatural
    <2>3. ToFloat(v) \in Int /\ Magnitude(ToFloat(v)) = r
      BY <1>2, <2>1, <2>2, FloatIs DEF Magnitude
    <2>4. Rounded(r) = r
      BY <2>2, RoundedOnce
    <2> QED
      BY <2>3, <2>4, StaysAFloat
  <1> QED
    BY <1>1, <1>2 DEF Number

-----------------------------------------------------------------------------
\* What a type holds: half its numbers are h.
LEMMA RangeIs ==
  ASSUME NEW type \in IntegerTypes
  PROVE  \E h \in Nat \ {0} :
           /\ PowerOfTwo[TypeBits(type)] = 2 * h /\ h = PowerOfTwo[TypeBits(type) - 1]
           /\ Lowest(type) = IF type \in UnsignedTypes THEN 0 ELSE -h
           /\ Highest(type) = IF type \in UnsignedTypes THEN 2 * h - 1 ELSE h - 1
  <1>1. TypeBits(type) \in Nat \ {0}
    BY ByteAssumption DEF TypeBits, DataTypeSize, IntegerTypes, UnsignedTypes, SignedTypes
  <1>2. PICK b \in Nat : b = TypeBits(type) - 1 /\ b + 1 = TypeBits(type)
    BY <1>1
  <1>3. PICK h \in Nat \ {0} : h = PowerOfTwo[b] /\ PowerOfTwo[b + 1] = 2 * h
    BY PowersArePowers, PowerIsPositive, PowerOfSuccessor
  <1> QED
    BY <1>2, <1>3 DEF Lowest, Highest

\* Fractions of two numbers compare as the numbers do.
LEMMA FractionsCompare ==
  ASSUME NEW a \in Int, NEW b \in Int
  PROVE  /\ One * a \in Int
         /\ One * a <= One * b <=> a <= b
         /\ One * a = One * b <=> a = b
  <1>1. PICK o \in Nat \ {0} : o = One
    BY OneAssumption
  <1>2. a < b => o * a < o * b
    BY <1>1
  <1>3. b < a => o * b < o * a
    BY <1>1
  <1> QED
    BY <1>1, <1>2, <1>3

\* A whole number survives a conversion to an integer type exactly if the type
\* holds it.
LEMMA IntegerStays ==
  ASSUME NEW n \in Int, NEW to \in IntegerTypes
  PROVE  ConvertSample(One * n, to) = One * n <=> Lowest(to) <= n /\ n <= Highest(to)
  <1>1. PICK low \in Int, high \in Int : low = Lowest(to) /\ high = Highest(to) /\ low <= 0 /\ 0 <= high /\ low < high
    BY RangeIs
  <1>2. One * n \in Int /\ One * n # NaN
    BY FractionsCompare, NaNAssumption
  <1>3. to # "float64" /\ to # "float32"
    BY DEF IntegerTypes, UnsignedTypes, SignedTypes
  <1>4. ConvertSample(One * n, to) =
          IF One * n <= One * low THEN One * low
          ELSE IF One * n >= One * high THEN One * high
          ELSE Signed(One * n, One * (Magnitude(One * n) \div One))
    BY <1>1, <1>2, <1>3 DEF ConvertSample
  <1>5. CASE n <= low
    <2>1. One * n <= One * low /\ (One * low = One * n <=> low = n)
      BY <1>5, FractionsCompare
    <2> QED
      BY <1>1, <1>4, <1>5, <2>1
  <1>6. CASE n >= high
    <2>1. ~(One * n <= One * low) /\ One * n >= One * high /\ (One * high = One * n <=> high = n)
      BY <1>1, <1>6, FractionsCompare
    <2> QED
      BY <1>1, <1>4, <1>6, <2>1
  <1>7. CASE low < n /\ n < high
    <2>1. ~(One * n <= One * low) /\ ~(One * n >= One * high) /\ (One * n < 0 <=> n < 0)
      <3>1. One * 0 = 0
        BY OneAssumption
      <3> QED
        BY <1>1, <1>7, <3>1, FractionsCompare
    <2>2. PICK o \in Nat \ {0} : o = One
      BY OneAssumption
    <2>3. PICK m \in Nat : m = IF n < 0 THEN -n ELSE n
      OBVIOUS
    <2>4. PICK v \in Nat : v = o * m /\ v = Magnitude(One * n)
      <3>1. o * (-n) = -(o * n)
        OBVIOUS
      <3>2. o * m \in Nat
        BY ProductFacts
      <3> QED
        BY <2>1, <2>2, <2>3, <3>1, <3>2 DEF Magnitude
    <2>5. v \div o = m
      <3>1. o * m <= v /\ v < o * (m + 1)
        <4>1. o * (m + 1) = o * m + o
          OBVIOUS
        <4> QED
          BY <2>4, <4>1
      <3> QED
        BY <3>1, QuotientIs
    <2>6. Signed(One * n, One * (Magnitude(One * n) \div One)) = One * n
      BY <2>1, <2>2, <2>3, <2>4, <2>5 DEF Signed
    <2> QED
      BY <1>1, <1>4, <1>7, <2>1, <2>6
  <1> QED
    BY <1>1, <1>5, <1>6, <1>7

\* The bits of each type.
LEMMA BitsAre ==
  ASSUME NEW type \in IntegerTypes
  PROVE  TypeBits(type) = ByteBits * (IF type \in {"uint8", "int8"} THEN 1
                                      ELSE IF type \in {"uint16", "int16"} THEN 2 ELSE 4)
  BY DEF TypeBits, DataTypeSize, IntegerTypes, UnsignedTypes, SignedTypes

\* A conversion that leaves every sample of a type what it is.
Keeps(from, to) == \A v \in ValuesOf(from) : ConvertSample(v, to) = v

\* Between integer types these are the ones to a type that holds the other.
LEMMA IntegersAreKept ==
  ASSUME NEW from \in IntegerTypes, NEW to \in IntegerTypes
  PROVE  Keeps(from, to) <=> Lowest(to) <= Lowest(from) /\ Highest(from) <= Highest(to)
  <1>1. ValuesOf(from) = {One * n : n \in Lowest(from) .. Highest(from)}
    BY DEF ValuesOf, IntegerTypes, UnsignedTypes, SignedTypes
  <1>2. Keeps(from, to) <=> \A n \in Lowest(from) .. Highest(from) : ConvertSample(One * n, to) = One * n
    BY <1>1 DEF Keeps
  <1>3. /\ Lowest(from) \in Int /\ Highest(from) \in Int /\ Lowest(from) <= Highest(from)
        /\ Lowest(to) \in Int /\ Highest(to) \in Int
    BY RangeIs
  <1>4. Keeps(from, to) <=> \A n \in Lowest(from) .. Highest(from) : Lowest(to) <= n /\ n <= Highest(to)
    BY <1>2, <1>3, IntegerStays
  <1> QED
    BY <1>3, <1>4

\* Which type holds which is a matter of bits and signs.
LEMMA IntegersAreTold ==
  ASSUME NEW from \in IntegerTypes, NEW to \in IntegerTypes
  PROVE  IsExactlyRepresentable(from, to) <=> Keeps(from, to)
  <1>1. PICK b \in Nat, c \in Nat : /\ b = TypeBits(from) - 1 /\ c = TypeBits(to) - 1
                                    /\ b + 1 = TypeBits(from) /\ c + 1 = TypeBits(to)
    <2>1. TypeBits(from) \in Nat \ {0} /\ TypeBits(to) \in Nat \ {0}
      BY BitsAre, ByteAssumption
    <2> QED
      BY <2>1
  <1>2. PICK h \in Nat \ {0} : /\ h = PowerOfTwo[b]
                               /\ Lowest(from) = IF from \in UnsignedTypes THEN 0 ELSE -h
                               /\ Highest(from) = IF from \in UnsignedTypes THEN 2 * h - 1 ELSE h - 1
    BY <1>1, RangeIs
  <1>3. PICK i \in Nat \ {0} : /\ i = PowerOfTwo[c]
                               /\ Lowest(to) = IF to \in UnsignedTypes THEN 0 ELSE -i
                               /\ Highest(to) = IF to \in UnsignedTypes THEN 2 * i - 1 ELSE i - 1
    BY <1>1, RangeIs
  <1>4. (b <= c => h <= i) /\ (b < c => 2 * h <= i) /\ (c < b => 2 * i <= h)
    BY <1>2, <1>3, PowersArePowers, PowerGrows
  <1>5. /\ from \in SignedTypes <=> from \notin UnsignedTypes
        /\ to \in SignedTypes <=> to \notin UnsignedTypes
        /\ to # "float64" /\ to # "float32"
    BY DEF IntegerTypes, UnsignedTypes, SignedTypes
  <1>6. IsExactlyRepresentable(from, to) <=>
          \/ (from \in SignedTypes <=> to \in SignedTypes) /\ c >= b
          \/ from \in UnsignedTypes /\ to \in SignedTypes /\ c > b
    <2>1. CASE from = to
      BY <1>1, <2>1 DEF IsExactlyRepresentable
    <2>2. CASE from # to
      <3>1. CASE from \in SignedTypes <=> to \in SignedTypes
        <4>1. (from \in SignedTypes) = (to \in SignedTypes)
          BY <3>1
        <4>2. IsExactlyRepresentable(from, to) <=> TypeBits(to) >= TypeBits(from)
          BY <1>5, <2>2, <3>1, <4>1 DEF IsExactlyRepresentable
        <4> QED
          BY <1>1, <1>5, <3>1, <4>2
      <3>2. CASE from \in SignedTypes /\ to \in UnsignedTypes
        BY <1>1, <1>5, <2>2, <3>2 DEF IsExactlyRepresentable
      <3>3. CASE from \in UnsignedTypes /\ to \in SignedTypes
        BY <1>1, <1>5, <2>2, <3>3 DEF IsExactlyRepresentable
      <3> QED
        BY <1>5, <3>1, <3>2, <3>3
    <2> QED
      BY <2>1, <2>2
  <1>7. Keeps(from, to) <=> Lowest(to) <= Lowest(from) /\ Highest(from) <= Highest(to)
    BY IntegersAreKept
  <1> QED
    BY <1>2, <1>3, <1>4, <1>5, <1>6, <1>7

\* A float holds whole numbers of up to three bytes.
LEMMA ShortIntegersAreFloats ==
  ASSUME NEW n \in Int, NEW m \in Nat, m = Magnitude(n), m < PowerOfTwo[3 * ByteBits]
  PROVE  ToFloat(One * n) = One * n
  <1>1. PICK j \in Nat, o \in Nat \ {0} : o = One /\ o = PowerOfTwo[j]
    BY FractionAssumption, OneAssumption
  <1>2. PICK s \in Nat, q \in Nat \ {0} : s = 3 * ByteBits /\ q = PowerOfTwo[s]
    BY ByteAssumption, PowersArePowers, PowerIsPositive
  <1>3. PowerOfTwo[s + j] = q * o
    <2>1. PowerOfTwo[s + j] = PowerOfTwo[s] * PowerOfTwo[j]
      BY PowersArePowers, PowerOfSum
    <2> QED
      BY <1>1, <1>2, <2>1
  <1>4. o * m < q * o
    <2>1. o * (m + 1) <= o * q
      BY <1>2, ProductMonotone
    <2> QED
      BY <2>1
  <1>5. Rounded(o * m) = o * m
    BY <1>1, <1>2, <1>3, <1>4, MultiplesAreFloats
  <1>6. o * n \in Int /\ Magnitude(o * n) = o * m
    <2>1. m = IF n < 0 THEN -n ELSE n
      BY DEF Magnitude
    <2>2. (n < 0 => o * n < 0) /\ (n >= 0 => o * n >= 0) /\ o * (-n) = -(o * n)
      OBVIOUS
    <2> QED
      BY <2>1, <2>2 DEF Magnitude
  <1> QED
    BY <1>1, <1>5, <1>6, StaysAFloat

\* The types a float holds all numbers of are those of one and two bytes.
LEMMA IntegersAsFloats ==
  ASSUME NEW from \in IntegerTypes
  PROVE  IsExactlyRepresentable(from, "float32") <=> Keeps(from, "float32")
  <1>1. ValuesOf(from) = {One * n : n \in Lowest(from) .. Highest(from)}
    BY DEF ValuesOf, IntegerTypes, UnsignedTypes, SignedTypes
  <1>2. \A v : ConvertSample(v, "float32") = ToFloat(v)
    BY DEF ConvertSample, IntegerTypes, UnsignedTypes, SignedTypes
  <1>3. PICK h \in Nat \ {0} : /\ PowerOfTwo[TypeBits(from)] = 2 * h /\ h = PowerOfTwo[TypeBits(from) - 1]
                               /\ Lowest(from) = IF from \in UnsignedTypes THEN 0 ELSE -h
                               /\ Highest(from) = IF from \in UnsignedTypes THEN 2 * h - 1 ELSE h - 1
    BY RangeIs
  <1>4. IsExactlyRepresentable(from, "float32") <=> from \in {"uint8", "int8", "uint16", "int16"}
    BY DEF IsExactlyRepresentable, IntegerTypes, UnsignedTypes, SignedTypes
  <1>5. PICK s \in Nat, q \in Nat \ {0} : s = 3 * ByteBits /\ s >= 1 /\ q = PowerOfTwo[s]
    BY ByteAssumption, PowersArePowers, PowerIsPositive
  <1>6. CASE from \in {"uint8", "int8", "uint16", "int16"}
    <2>1. PICK b \in Nat : b = TypeBits(from) /\ b <= s
      BY <1>5, <1>6, BitsAre, ByteAssumption
    <2>2. 2 * h <= q
      BY <1>3, <1>5, <2>1, PowersArePowers, PowerGrows
    <2>3. ASSUME NEW n \in Lowest(from) .. Highest(from) PROVE ToFloat(One * n) = One * n
      <3>1. PICK m \in Nat : m = Magnitude(n) /\ m < q
        BY <1>3, <2>2 DEF Magnitude
      <3> QED
        BY <1>3, <1>5, <3>1, ShortIntegersAreFloats
    <2> QED
      BY <1>1, <1>2, <1>4, <1>6, <2>3 DEF Keeps
  <1>7. CASE from \notin {"uint8", "int8", "uint16", "int16"}
    <2>1. PICK b \in Nat : b = TypeBits(from) - 1 /\ b >= s + 1
      BY <1>5, <1>7, BitsAre, FloatAssumption, ByteAssumption
    <2>2. PowerOfTwo[s + 1] = 2 * q /\ q >= 2
      <3>1. PowerOfTwo[1] = 2 * PowerOfTwo[0] /\ PowerOfTwo[0] = 1
        <4>1. PowerOfTwo[0 + 1] = 2 * PowerOfTwo[0] /\ PowerOfTwo[0] = 1
          BY PowersArePowers, PowerOfSuccessor
        <4> QED
          BY <4>1
      <3>2. PowerOfTwo[1] <= q
        BY <1>5, PowersArePowers, PowerGrows
      <3> QED
        BY <1>5, <3>1, <3>2, PowersArePowers, PowerOfSuccessor
    <2>3. 2 * q <= h
      <3>1. PowerOfTwo[s + 1] <= PowerOfTwo[b]
        BY <2>1, PowersArePowers, PowerGrows
      <3> QED
        BY <1>3, <2>1, <2>2, <3>1
    <2>4. q + 1 \in Lowest(from) .. Highest(from)
      BY <1>3, <2>2, <2>3
    <2>5. PICK j \in Nat, o \in Nat \ {0} : o = One /\ o = PowerOfTwo[j]
      BY FractionAssumption, OneAssumption
    <2>6. PICK v \in Nat : v = o * (q + 1)
      BY ProductFacts
    <2>7. Rounded(v) # v
      BY <1>5, <2>5, <2>6, ThereIsNoFloat
    <2>8. Magnitude(v) = v
      BY DEF Magnitude
    <2>9. ToFloat(v) # v
      BY <2>7, <2>8, StaysAFloat
    <2>10. v \in ValuesOf(from)
      BY <1>1, <2>4, <2>5, <2>6
    <2> QED
      BY <1>2, <1>4, <1>7, <2>9, <2>10 DEF Keeps
  <1> QED
    BY <1>6, <1>7

\* Every conversion the table calls exact is, and no other.
LEMMA TableIsRight ==
  ASSUME NEW from \in DataTypes, NEW to \in DataTypes
  PROVE  IsExactlyRepresentable(from, to) <=> Keeps(from, to)
  <1>1. CASE to = "float64"
    BY <1>1 DEF Keeps, ConvertSample, IsExactlyRepresentable, IntegerTypes, UnsignedTypes, SignedTypes
  <1>2. CASE from \in IntegerTypes /\ to \in IntegerTypes
    BY <1>2, IntegersAreTold
  <1>3. CASE from \in IntegerTypes /\ to = "float32"
    BY <1>3, IntegersAsFloats
  <1>4. CASE from = "float32" /\ to = "float32"
    <2>1. ValuesOf(from) = {ToFloat(v) : v \in FloatValues}
      BY <1>4 DEF ValuesOf, IntegerTypes, UnsignedTypes, SignedTypes
    <2>2. \A v \in FloatValues : ToFloat(ToFloat(v)) = ToFloat(v)
      BY FloatAssumption, FloatsStay
    <2> QED
      BY <1>4, <2>1, <2>2 DEF Keeps, ConvertSample, IsExactlyRepresentable, IntegerTypes, UnsignedTypes, SignedTypes
  <1>5. CASE from = "float64" /\ to = "float32"
    <2>1. ValuesOf(from) = FloatValues
      BY <1>5 DEF ValuesOf, IntegerTypes, UnsignedTypes, SignedTypes
    <2>2. PICK q \in Nat \ {0}, v \in Nat : q = PowerOfTwo[3 * ByteBits] /\ v = q + 1 /\ v \in FloatValues
      BY FloatAssumption, ByteAssumption, PowersArePowers, PowerIsPositive
    <2>3. PowerOfTwo[0] * (q + 1) = v
      <3>1. PowerOfTwo[0] = 1
        BY PowersArePowers, PowerOfSuccessor
      <3> QED
        BY <2>2, <3>1
    <2>4. Rounded(v) # v
      BY <2>2, <2>3, ThereIsNoFloat
    <2>5. Magnitude(v) = v
      BY DEF Magnitude
    <2>6. ToFloat(v) # v
      BY <2>4, <2>5, StaysAFloat
    <2> QED
      BY <1>5, <2>1, <2>2, <2>6 DEF Keeps, ConvertSample, IsExactlyRepresentable, IntegerTypes, UnsignedTypes, SignedTypes
  <1>6. CASE from \in FloatTypes /\ to \in IntegerTypes
    <2>1. ToFloat(NaN) = NaN
      BY DEF ToFloat
    <2>2. NaN \in ValuesOf(from)
      <3>1. CASE from = "float32"
        <4>1. ValuesOf(from) = {ToFloat(v) : v \in FloatValues}
          BY <3>1 DEF ValuesOf, IntegerTypes, UnsignedTypes, SignedTypes
        <4> QED
          BY <2>1, <4>1, FloatAssumption
      <3>2. CASE from = "float64"
        <4>1. ValuesOf(from) = FloatValues
          BY <3>2 DEF ValuesOf, IntegerTypes, UnsignedTypes, SignedTypes
        <4> QED
          BY <4>1, FloatAssumption
      <3> QED
        BY <1>6, <3>1, <3>2 DEF FloatTypes
    <2>3. ConvertSample(NaN, to) = 0 /\ NaN # 0
      BY <1>6, NaNAssumption DEF ConvertSample, IntegerTypes, UnsignedTypes, SignedTypes
    <2>4. ~IsExactlyRepresentable(from, to)
      BY <1>6 DEF IsExactlyRepresentable, FloatTypes, IntegerTypes, UnsignedTypes, SignedTypes
    <2> QED
      BY <2>2, <2>3, <2>4 DEF Keeps
  <1> QED
    BY <1>1, <1>2, <1>3, <1>4, <1>5, <1>6 DEF DataTypes, FloatTypes

\* The table of exact conversions is right about every pair of types, and a
\* read warns of a loss exactly where there is one (ConvertSample,
\* IsExactlyRepresentable).
THEOREM ConversionsAreExact == Spec => []ConversionIsExactWhenSaid
  <1>1. QuestionSound => ConversionIsExactWhenSaid
    <2> SUFFICES ASSUME QuestionSound, question.about = "conversion" PROVE ConversionIsExactWhenSaid
      BY DEF ConversionIsExactWhenSaid
    <2>1. PICK from \in DataTypes, to \in DataTypes : from = question.from /\ to = question.to
      BY DEF QuestionSound
    <2>2. IsExactlyRepresentable(from, to) <=> Keeps(from, to)
      BY TableIsRight
    <2> QED
      BY <2>1, <2>2 DEF ConversionIsExactWhenSaid, Keeps
  <1> QED
    BY <1>1, QuestionsAreSound, PTL

-----------------------------------------------------------------------------
(***************************************************************************)
(* Predictors.                                                             *)
(***************************************************************************)
\* A remainder is known from the multiple that leaves it, below zero too.
LEMMA ModuloIs ==
  ASSUME NEW a \in Int, NEW m \in Nat \ {0}, NEW q \in Int, NEW r \in 0 .. m - 1, a = m * q + r
  PROVE  a % m = r
  <1>1. PICK d \in Int, s \in 0 .. m - 1 : d = a \div m /\ s = a % m /\ a = m * d + s
    <2>1. a \div m \in Int /\ a % m \in 0 .. m - 1 /\ a = m * (a \div m) + (a % m)
      BY SMT
    <2> QED
      BY <2>1
  <1>2. ~(d < q)
    <2> SUFFICES ASSUME d < q PROVE FALSE
      OBVIOUS
    <2>1. m * (d + 1) <= m * q
      OBVIOUS
    <2>2. m * (d + 1) = m * d + m /\ m * d \in Int /\ m * q \in Int
      OBVIOUS
    <2> QED
      BY <1>1, <2>1, <2>2
  <1>3. ~(q < d)
    <2> SUFFICES ASSUME q < d PROVE FALSE
      OBVIOUS
    <2>1. m * (q + 1) <= m * d
      OBVIOUS
    <2>2. m * (q + 1) = m * q + m /\ m * d \in Int /\ m * q \in Int
      OBVIOUS
    <2> QED
      BY <1>1, <2>1, <2>2
  <1>4. d = q
    BY <1>2, <1>3
  <1>5. m * q \in Int
    OBVIOUS
  <1> QED
    BY <1>1, <1>4, <1>5

\* Every number has a quotient and a remainder.
LEMMA ModuloFacts ==
  ASSUME NEW a \in Int, NEW m \in Nat \ {0}
  PROVE  a \div m \in Int /\ a % m \in 0 .. m - 1 /\ a = m * (a \div m) + (a % m)
  BY SMT

\* Two numbers leave the same remainder.
SameRemainder(a, b, m) == a % m = b % m

\* The remainder of a sum is that of the sum of remainders.
LEMMA ModuloOfSum ==
  ASSUME NEW a \in Int, NEW b \in Int, NEW m \in Nat \ {0}, NEW c \in Int, SameRemainder(c, a, m)
  PROVE  SameRemainder(b + c, b + a, m)
  <1>0. c % m = a % m
    BY DEF SameRemainder
  <1>1. PICK q \in Int, r \in 0 .. m - 1 : q = a \div m /\ r = a % m /\ a = m * q + r
    BY ModuloFacts
  <1>2. PICK p \in Int : c = m * p + r
    <2>1. PICK d \in Int, e \in 0 .. m - 1 : d = c \div m /\ e = c % m /\ c = m * d + e
      BY ModuloFacts
    <2> QED
      BY <1>0, <1>1, <2>1
  <1>3. PICK t \in Int, s \in 0 .. m - 1 : t = (b + a) \div m /\ s = (b + a) % m /\ b + a = m * t + s
    <2>1. b + a \in Int
      OBVIOUS
    <2> QED
      BY <2>1, ModuloFacts
  <1>4. PICK d \in Int : d = (t + p) - q
    OBVIOUS
  <1>5. b + c = m * d + s /\ b + c \in Int
    <2>1. m * d = (m * t + m * p) - m * q
      BY <1>4
    <2>2. PICK x \in Int, y \in Int, z \in Int : x = m * t /\ y = m * p /\ z = m * q
      OBVIOUS
    <2>3. a = z + r /\ c = y + r /\ b + a = x + s /\ m * d = (x + y) - z
      BY <1>1, <1>2, <1>3, <2>1, <2>2
    <2>4. b + c = ((x + y) - z) + s
      BY <2>3
    <2> QED
      BY <2>3, <2>4
  <1>6. (b + c) % m = s
    BY <1>5, ModuloIs
  <1> QED
    BY <1>3, <1>6 DEF SameRemainder

\* A remainder is its own remainder.
LEMMA ModuloTwice ==
  ASSUME NEW a \in Int, NEW m \in Nat \ {0}
  PROVE  (a % m) % m = a % m
  <1>1. PICK r \in 0 .. m - 1 : r = a % m
    BY ModuloFacts
  <1>2. r \in Int /\ r = m * 0 + r
    OBVIOUS
  <1>3. r % m = r
    BY <1>2, ModuloIs
  <1> QED
    BY <1>1, <1>3

\* A digit, in its place, is what one more digit adds to the remainder.
LEMMA DigitIs ==
  ASSUME NEW v \in Int, NEW p \in Nat \ {0}, NEW b \in Nat \ {0}
  PROVE  ((v \div p) % b) * p = (v % (p * b)) - (v % p)
  <1>1. PICK q \in Int, r \in 0 .. p - 1 : q = v \div p /\ r = v % p /\ v = p * q + r
    BY ModuloFacts
  <1>2. PICK t \in Int, d \in 0 .. b - 1 : d = q % b /\ q = b * t + d
    BY ModuloFacts
  <1>3. PICK m \in Nat \ {0} : m = p * b
    BY ProductFacts
  <1>4. PICK x \in Nat : x = d * p /\ x = p * d /\ x + r \in 0 .. m - 1
    <2>1. p * (d + 1) <= p * b
      BY ProductMonotone
    <2>2. p * (d + 1) = p * d + p /\ p * d \in Nat /\ d * p = p * d
      BY ProductFacts
    <2> QED
      BY <1>3, <2>1, <2>2
  <1>5. v = m * t + (x + r)
    <2>1. p * (b * t + d) = (p * b) * t + p * d
      OBVIOUS
    <2>2. PICK y \in Int : y = m * t
      OBVIOUS
    <2>3. p * q = y + x
      BY <1>2, <1>3, <1>4, <2>1, <2>2
    <2> QED
      BY <1>1, <2>2, <2>3
  <1>6. v % m = x + r
    BY <1>4, <1>5, ModuloIs
  <1>7. ((v \div p) % b) * p = x
    BY <1>1, <1>2, <1>4
  <1>8. v % (p * b) = x + r
    BY <1>3, <1>6
  <1> QED
    BY <1>1, <1>4, <1>7, <1>8

-----------------------------------------------------------------------------
\* The lowest j bytes of a number.
Low(v, j) == v % PowerOfTwo[ByteBits * j]

\* Which byte of a sample byte number k is, the lowest being 0.
Rank(layout, k) == IF layout.little THEN k ELSE (layout.sampleBytes - 1) - k

\* The lowest bytes are a number.
LEMMA LowFacts ==
  ASSUME NEW v \in Int, NEW j \in Nat
  PROVE  Low(v, j) \in Nat /\ Low(v, 0) = 0
  <1>1. PICK e \in Nat : e = ByteBits * j
    BY ByteAssumption, ProductFacts
  <1>2. PICK p \in Nat \ {0} : p = PowerOfTwo[e]
    BY PowersArePowers, PowerIsPositive
  <1>3. v % p \in Nat
    BY ModuloFacts
  <1>4. ByteBits * 0 = 0 /\ PowerOfTwo[0] = 1
    BY ByteAssumption, PowersArePowers, PowerOfSuccessor
  <1>5. v % 1 = 0
    BY SMT
  <1> QED
    BY <1>1, <1>2, <1>3, <1>4, <1>5 DEF Low

\* One byte more.
LEMMA OneByteMore ==
  ASSUME NEW layout \in Layout, NEW v \in Int, NEW k \in 0 .. layout.sampleBytes - 1
  PROVE  /\ Rank(layout, k) \in 0 .. layout.sampleBytes - 1
         /\ ByteOf(v, k, layout) * Weight(layout, k)
              = Low(v, Rank(layout, k) + 1) - Low(v, Rank(layout, k))
         /\ ByteOf(v, k, layout) \in Byte
  <1>1. layout.sampleBytes \in Nat
    BY DEF Layout
  <1>2. PICK w \in Nat : w = Rank(layout, k) /\ w \in 0 .. layout.sampleBytes - 1
    BY <1>1 DEF Rank
  <1>3. Weight(layout, k) = PowerOfTwo[ByteBits * w]
    <2>1. w = IF layout.little THEN k ELSE layout.sampleBytes - k - 1
      BY <1>1, <1>2 DEF Rank
    <2> QED
      BY <2>1 DEF Weight
  <1>4. PICK e \in Nat : e = ByteBits * w /\ ByteBits * (w + 1) = e + ByteBits
    BY ByteAssumption, ProductFacts
  <1>5. PICK p \in Nat \ {0}, b \in Nat \ {0} : p = PowerOfTwo[e] /\ b = PowerOfTwo[ByteBits]
    BY ByteAssumption, PowersArePowers, PowerIsPositive
  <1>6. PowerOfTwo[e + ByteBits] = p * b
    <2>1. PowerOfTwo[e + ByteBits] = PowerOfTwo[e] * PowerOfTwo[ByteBits]
      BY ByteAssumption, PowersArePowers, PowerOfSum
    <2> QED
      BY <1>5, <2>1
  <1>7. ByteOf(v, k, layout) = (v \div p) % b
    BY <1>3, <1>4, <1>5 DEF ByteOf
  <1>8. ((v \div p) % b) * p = (v % (p * b)) - (v % p)
    BY DigitIs
  <1>9. v \div p \in Int
    BY ModuloFacts
  <1>10. (v \div p) % b \in 0 .. b - 1
    BY <1>9, ModuloFacts
  <1>11. Low(v, w + 1) = v % (p * b) /\ Low(v, w) = v % p
    BY <1>4, <1>5, <1>6 DEF Low
  <1> QED
    BY <1>2, <1>3, <1>4, <1>5, <1>7, <1>8, <1>10, <1>11 DEF Byte

\* The sums ReadUnsigned makes.
IsReading(f, bytes, offset, layout) ==
  f = [k \in -1 .. layout.sampleBytes - 1 |->
         IF k = -1 THEN 0 ELSE f[k - 1] + bytes[offset + k] * Weight(layout, k)]

\* The bytes of a number lie at an offset.
Holds(bytes, offset, layout, v) ==
  \A k \in 0 .. layout.sampleBytes - 1 : bytes[offset + k] = ByteOf(v, k, layout)

\* Reading the bytes of a number gives the number, but for what does not fit.
LEMMA ReadingIs ==
  ASSUME NEW layout \in Layout, NEW v \in Int, NEW bytes, NEW offset, Holds(bytes, offset, layout, v)
  PROVE  ReadUnsigned(bytes, offset, layout) = Low(v, layout.sampleBytes)
  <1>1. PICK size \in Nat \ {0} : size = layout.sampleBytes
    BY DEF Layout
  <1> DEFINE close(k) == IF layout.little THEN Low(v, k + 1) ELSE Low(v, size) - Low(v, (size - 1) - k)
             g == [k \in -1 .. size - 1 |-> close(k)]
  <1>2. \A j \in Nat : Low(v, j) \in Nat
    BY LowFacts
  <1>3. close(-1) = 0 /\ close(size - 1) = Low(v, size)
    <2>1. Low(v, 0) = 0 /\ Low(v, size) \in Nat
      BY LowFacts
    <2>2. -1 + 1 = 0 /\ (size - 1) - (-1) = size /\ (size - 1) + 1 = size /\ (size - 1) - (size - 1) = 0
      OBVIOUS
    <2> QED
      BY <2>1, <2>2
  <1>4. ASSUME NEW k \in 0 .. size - 1
        PROVE  close(k) = close(k - 1) + bytes[offset + k] * Weight(layout, k)
    <2>1. PICK w \in 0 .. size - 1 : /\ w = Rank(layout, k)
                                     /\ ByteOf(v, k, layout) * Weight(layout, k) = Low(v, w + 1) - Low(v, w)
      BY <1>1, OneByteMore
    <2>2. bytes[offset + k] = ByteOf(v, k, layout)
      BY <1>1 DEF Holds
    <2>3. bytes[offset + k] * Weight(layout, k) = Low(v, w + 1) - Low(v, w)
      BY <2>1, <2>2
    <2>4. Low(v, w + 1) \in Nat /\ Low(v, w) \in Nat /\ Low(v, size) \in Nat
      BY <1>2
    <2>5. CASE layout.little
      <3>1. w = k /\ (k - 1) + 1 = k
        BY <2>1, <2>5 DEF Rank
      <3> QED
        BY <2>3, <2>4, <2>5, <3>1
    <2>6. CASE ~layout.little
      <3>1. w = (size - 1) - k /\ (size - 1) - (k - 1) = w + 1
        BY <1>1, <2>1, <2>6 DEF Rank
      <3> QED
        BY <2>3, <2>4, <2>6, <3>1
    <2> QED
      BY <2>5, <2>6
  <1> HIDE DEF close
  <1>5. ASSUME NEW k \in -1 .. size - 1
        PROVE  g[k] = IF k = -1 THEN 0 ELSE g[k - 1] + bytes[offset + k] * Weight(layout, k)
    <2>1. CASE k = -1
      BY <1>3, <2>1
    <2>2. CASE k # -1
      <3>1. k \in 0 .. size - 1 /\ k - 1 \in -1 .. size - 1
        BY <2>2
      <3>2. g[k] = close(k) /\ g[k - 1] = close(k - 1)
        BY <3>1
      <3> HIDE DEF g
      <3> QED
        BY <1>4, <2>2, <3>1, <3>2
    <2> QED
      BY <2>1, <2>2
  <1>6. IsReading(g, bytes, offset, layout)
    <2>1. g = [k \in -1 .. size - 1 |-> g[k]]
      OBVIOUS
    <2> HIDE DEF g
    <2> QED
      BY <1>1, <1>5, <2>1 DEF IsReading
  <1>7. PICK f : IsReading(f, bytes, offset, layout) /\ ReadUnsigned(bytes, offset, layout) = f[size - 1]
    <2>1. PICK f : f = CHOOSE h : IsReading(h, bytes, offset, layout)
      OBVIOUS
    <2>2. IsReading(f, bytes, offset, layout)
      BY <1>6, <2>1
    <2>3. ReadUnsigned(bytes, offset, layout) = f[size - 1]
      BY <1>1, <2>1 DEF ReadUnsigned, IsReading
    <2> QED
      BY <2>2, <2>3
  <1>8. f[-1] = 0 /\ \A k \in 0 .. size - 1 : f[k] = f[k - 1] + bytes[offset + k] * Weight(layout, k)
    <2>1. ASSUME NEW k \in -1 .. size - 1
          PROVE  f[k] = IF k = -1 THEN 0 ELSE f[k - 1] + bytes[offset + k] * Weight(layout, k)
      BY <1>1, <1>7 DEF IsReading
    <2>2. -1 \in -1 .. size - 1 /\ \A k \in 0 .. size - 1 : k \in -1 .. size - 1 /\ k # -1
      OBVIOUS
    <2> QED
      BY <2>1, <2>2
  <1> DEFINE T == {n \in Nat : f[n - 1] = close(n - 1)}
  <1>9. 0 \in T
    <2>1. 0 - 1 = -1
      OBVIOUS
    <2> QED
      BY <1>3, <1>8, <2>1
  <1>10. ASSUME NEW n \in 1 .. size, n - 1 \in T PROVE n \in T
    <2>1. PICK k \in 0 .. size - 1 : k = n - 1
      OBVIOUS
    <2>2. f[k - 1] = close(k - 1)
      BY <1>10, <2>1
    <2>3. f[k] = close(k)
      BY <1>4, <1>8, <2>2
    <2> QED
      BY <2>1, <2>3
  <1> HIDE DEF T
  <1>11. size \in T
    <2>1. 0 .. size \subseteq T
      BY <1>9, <1>10, InductionUpTo
    <2> QED
      BY <2>1
  <1>12. f[size - 1] = close(size - 1)
    BY <1>11 DEF T
  <1> QED
    BY <1>1, <1>3, <1>7, <1>12

-----------------------------------------------------------------------------
\* A digit and what is below it are below the next digit.
LEMMA DigitBelow ==
  ASSUME NEW a \in Nat, NEW m \in Nat, a < m, NEW b \in Nat \ {0}, NEW d \in Nat, d < b
  PROVE  a * b \in Nat /\ m * b \in Nat /\ a * b + d \in Nat /\ a * b + d < m * b
  <1>1. (a + 1) * b <= m * b
    BY ProductMonotone
  <1>2. (a + 1) * b = a * b + b /\ a * b \in Nat /\ m * b \in Nat
    BY ProductFacts
  <1> QED
    BY <1>1, <1>2

\* The sizes of a layout.
Sized(layout, rows, columns, samples, size, stride, rowBytes, values) ==
  /\ rows = layout.rows /\ columns = layout.columns /\ samples = layout.samples
  /\ size = layout.sampleBytes
  /\ stride = Stride(layout) /\ stride = samples * size
  /\ rowBytes = RowBytes(layout) /\ rowBytes = columns * stride
  /\ values = columns * samples /\ rowBytes = values * size

\* A segment has them, and none is zero.
LEMMA SizesAre ==
  ASSUME NEW layout \in Layout
  PROVE  \E rows, columns, samples, size, stride, rowBytes, values \in Nat \ {0} :
           Sized(layout, rows, columns, samples, size, stride, rowBytes, values)
  <1>1. PICK rows \in Nat \ {0}, columns \in Nat \ {0}, samples \in Nat \ {0}, size \in Nat \ {0} :
          /\ rows = layout.rows /\ columns = layout.columns /\ samples = layout.samples
          /\ size = layout.sampleBytes
    BY DEF Layout
  <1>2. PICK stride \in Nat \ {0} : stride = samples * size
    BY ProductFacts
  <1>3. PICK rowBytes \in Nat \ {0} : rowBytes = columns * stride
    BY ProductFacts
  <1>4. PICK values \in Nat \ {0} : values = columns * samples
    BY ProductFacts
  <1>5. rowBytes = values * size
    <2>1. columns * (samples * size) = (columns * samples) * size
      OBVIOUS
    <2> QED
      BY <1>2, <1>3, <1>4, <2>1
  <1>6. stride = Stride(layout) /\ rowBytes = RowBytes(layout)
    BY <1>1, <1>2, <1>3 DEF Stride, RowBytes
  <1>7. Sized(layout, rows, columns, samples, size, stride, rowBytes, values)
    BY <1>1, <1>2, <1>3, <1>4, <1>5, <1>6 DEF Sized
  <1> QED
    BY <1>7

\* Where byte k of a sample lies.
IsPlace(layout, r, c, s, k, n) ==
  /\ r \in 0 .. layout.rows - 1 /\ c \in 0 .. layout.columns - 1 /\ s \in 0 .. layout.samples - 1
  /\ k \in 0 .. layout.sampleBytes - 1
  /\ n = OffsetOf(layout, r, c, s) + k

\* What a place of a segment is made of.
LEMMA PlaceIs ==
  ASSUME NEW layout \in Layout, NEW r, NEW c, NEW s, NEW k, NEW n, IsPlace(layout, r, c, s, k, n)
  PROVE  /\ OffsetOf(layout, r, c, s) \in Nat /\ n \in Places(layout)
         /\ RowOf(n, layout) = r /\ ColumnOf(n, layout) = c /\ SampleOf(n, layout) = s
         /\ n % layout.sampleBytes = k
         /\ (n % RowBytes(layout)) \div layout.sampleBytes = c * layout.samples + s
         /\ n = r * RowBytes(layout) + ((c * layout.samples + s) * layout.sampleBytes + k)
         /\ c * layout.samples + s \in 0 .. layout.columns * layout.samples - 1
  <1>1. PICK rows, columns, samples, size, stride, rowBytes, values \in Nat \ {0} :
          /\ rows = layout.rows /\ columns = layout.columns /\ samples = layout.samples
          /\ size = layout.sampleBytes
          /\ stride = Stride(layout) /\ stride = samples * size
          /\ rowBytes = RowBytes(layout) /\ rowBytes = columns * stride
          /\ values = columns * samples /\ rowBytes = values * size
    BY SizesAre DEF Sized
  <1>2. /\ r \in Nat /\ r < rows /\ c \in Nat /\ c < columns /\ s \in Nat /\ s < samples
        /\ k \in Nat /\ k < size
        /\ n = ((r * rowBytes + c * stride) + s * size) + k
    BY <1>1 DEF IsPlace, OffsetOf
  <1>3. PICK ss \in Nat, x \in Nat : ss = s * size /\ x = ss + k /\ x < stride
    <2>1. s * size \in Nat /\ s * size + k \in Nat /\ s * size + k < samples * size
      BY <1>2, DigitBelow
    <2> QED
      BY <1>1, <2>1
  <1>4. PICK cs \in Nat, y \in Nat : cs = c * stride /\ y = cs + x /\ y < rowBytes
    <2>1. c * stride \in Nat /\ c * stride + x \in Nat /\ c * stride + x < columns * stride
      BY <1>2, <1>3, DigitBelow
    <2> QED
      BY <1>1, <2>1
  <1>5. PICK rs \in Nat, end \in Nat :
          rs = r * rowBytes /\ end = rows * rowBytes /\ rs + y < end
    <2>1. /\ r * rowBytes \in Nat /\ rows * rowBytes \in Nat
          /\ r * rowBytes + y < rows * rowBytes
      BY <1>2, <1>4, DigitBelow
    <2> QED
      BY <2>1
  <1>6. PICK v \in Nat : v = c * samples + s /\ v < values
    <2>1. c * samples + s \in Nat /\ c * samples + s < columns * samples
      BY <1>2, DigitBelow
    <2> QED
      BY <1>1, <2>1
  <1>7. n = rs + y /\ n \in Nat /\ OffsetOf(layout, r, c, s) = (rs + cs) + ss
    BY <1>1, <1>2, <1>3, <1>4, <1>5 DEF OffsetOf
  <1>8. n \in Places(layout)
    BY <1>1, <1>5, <1>7 DEF Places
  <1>9. n \div rowBytes = r /\ n % rowBytes = y
    <2>1. (r * rowBytes + y) \div rowBytes = r /\ (r * rowBytes + y) % rowBytes = y
      <3>1. r \in Nat /\ y \in Nat /\ y < rowBytes
        BY <1>2, <1>4
      <3> QED
        BY <3>1, RemainderIs
    <2> QED
      BY <1>5, <1>7, <2>1
  <1>10. y \div stride = c
    <2>1. (c * stride + x) \div stride = c
      BY <1>2, <1>3, RemainderIs
    <2> QED
      BY <1>4, <2>1
  <1>11. PICK p \in Nat : p = r * columns + c
    BY <1>2, ProductFacts
  <1>12. PICK ps \in Nat : ps = p * stride /\ n = ps + x
    <2>1. (r * columns + c) * stride = r * (columns * stride) + c * stride
      BY <1>2
    <2>2. p * stride = rs + cs
      BY <1>1, <1>4, <1>5, <1>11, <2>1
    <2> QED
      BY <1>3, <1>4, <1>5, <1>7, <2>2
  <1>13. n % stride = x
    <2>1. (p * stride + x) % stride = x
      BY <1>3, RemainderIs
    <2> QED
      BY <1>12, <2>1
  <1>14. x \div size = s
    <2>1. (s * size + k) \div size = s
      BY <1>2, RemainderIs
    <2> QED
      BY <1>3, <2>1
  <1>15. PICK t \in Nat : t = p * samples + s
    BY <1>2, <1>11, ProductFacts
  <1>16. PICK tt \in Nat : tt = t * size /\ n = tt + k
    <2>1. (p * samples + s) * size = p * (samples * size) + s * size
      BY <1>2
    <2>2. t * size = ps + ss
      BY <1>1, <1>3, <1>12, <1>15, <2>1
    <2> QED
      BY <1>2, <1>3, <1>12, <2>2
  <1>17. n % size = k
    <2>1. (t * size + k) % size = k
      BY <1>2, RemainderIs
    <2> QED
      BY <1>16, <2>1
  <1>18. PICK vs \in Nat : vs = v * size /\ y = vs + k
    <2>1. (c * samples + s) * size = c * (samples * size) + s * size
      BY <1>2
    <2>2. v * size = cs + ss
      BY <1>1, <1>3, <1>4, <1>6, <2>1
    <2> QED
      BY <1>2, <1>3, <1>4, <2>2
  <1>19. y \div size = v
    <2>1. (v * size + k) \div size = v
      BY <1>2, RemainderIs
    <2> QED
      BY <1>18, <2>1
  <1>20. RowOf(n, layout) = r /\ ColumnOf(n, layout) = c /\ SampleOf(n, layout) = s
    BY <1>1, <1>9, <1>10, <1>13, <1>14 DEF RowOf, ColumnOf, SampleOf
  <1>21. n % layout.sampleBytes = k /\ (n % RowBytes(layout)) \div layout.sampleBytes = c * layout.samples + s
    BY <1>1, <1>6, <1>9, <1>17, <1>19
  <1>22. n = r * RowBytes(layout) + ((c * layout.samples + s) * layout.sampleBytes + k)
    BY <1>1, <1>5, <1>6, <1>7, <1>18
  <1>23. c * layout.samples + s \in 0 .. layout.columns * layout.samples - 1
    BY <1>1, <1>6
  <1>24. OffsetOf(layout, r, c, s) \in Nat
    BY <1>7
  <1> QED
    BY <1>8, <1>20, <1>21, <1>22, <1>23, <1>24

\* A place is where it says.
LEMMA OffsetsArePlaces ==
  ASSUME NEW layout \in Layout, NEW r \in 0 .. layout.rows - 1, NEW c \in 0 .. layout.columns - 1,
         NEW s \in 0 .. layout.samples - 1, NEW k \in 0 .. layout.sampleBytes - 1
  PROVE  IsPlace(layout, r, c, s, k, OffsetOf(layout, r, c, s) + k)
  BY DEF IsPlace

\* The last byte of a segment is that of its last sample.
LEMMA LastPlaceIs ==
  ASSUME NEW layout \in Layout
  PROVE  /\ OffsetOf(layout, layout.rows - 1, layout.columns - 1, layout.samples - 1) + layout.sampleBytes
              = layout.rows * RowBytes(layout)
         /\ layout.rows * RowBytes(layout) \in Nat \ {0}
  <1>1. PICK rows, columns, samples, size, stride, rowBytes, values \in Nat \ {0} :
          /\ rows = layout.rows /\ columns = layout.columns /\ samples = layout.samples
          /\ size = layout.sampleBytes
          /\ stride = Stride(layout) /\ stride = samples * size
          /\ rowBytes = RowBytes(layout) /\ rowBytes = columns * stride
          /\ values = columns * samples /\ rowBytes = values * size
    BY SizesAre DEF Sized
  <1>2. /\ (rows - 1) * rowBytes = rows * rowBytes - rowBytes
        /\ (columns - 1) * stride = rowBytes - stride
        /\ (samples - 1) * size = stride - size
    <2>1. ASSUME NEW a \in Nat \ {0}, NEW b \in Nat \ {0} PROVE (a - 1) * b = a * b - b
      OBVIOUS
    <2>2. (rows - 1) * rowBytes = rows * rowBytes - rowBytes
      BY <2>1
    <2>3. (columns - 1) * stride = columns * stride - stride
      BY <2>1
    <2>4. (samples - 1) * size = samples * size - size
      BY <2>1
    <2> QED
      BY <1>1, <2>2, <2>3, <2>4
  <1>3. PICK end \in Nat \ {0} : end = rows * rowBytes
    BY ProductFacts
  <1>4. OffsetOf(layout, layout.rows - 1, layout.columns - 1, layout.samples - 1)
          = ((rows - 1) * rowBytes + (columns - 1) * stride) + (samples - 1) * size
    BY <1>1 DEF OffsetOf
  <1>5. OffsetOf(layout, layout.rows - 1, layout.columns - 1, layout.samples - 1)
          = ((end - rowBytes) + (rowBytes - stride)) + (stride - size)
    BY <1>2, <1>3, <1>4
  <1> QED
    BY <1>1, <1>3, <1>5

-----------------------------------------------------------------------------
\* The samples of a segment.
Cells(layout) == (0 .. layout.rows - 1) \X (0 .. layout.columns - 1) \X (0 .. layout.samples - 1)

\* What a sample's bytes hold, taken to be wider than it is.
LEMMA WrapsTo ==
  ASSUME NEW type \in IntegerTypes, NEW v \in Lowest(type) .. Highest(type)
  PROVE  /\ v \in Int
         /\ v % PowerOfTwo[TypeBits(type)] = IF v < 0 THEN v + PowerOfTwo[TypeBits(type)] ELSE v
         /\ v % PowerOfTwo[TypeBits(type)] > Highest(type) <=> v < 0
  <1>1. PICK h \in Nat \ {0} :
          /\ PowerOfTwo[TypeBits(type)] = 2 * h
          /\ Lowest(type) = IF type \in UnsignedTypes THEN 0 ELSE -h
          /\ Highest(type) = IF type \in UnsignedTypes THEN 2 * h - 1 ELSE h - 1
    BY RangeIs
  <1>2. v \in Int /\ v >= -h /\ v <= 2 * h - 1 /\ (type \in UnsignedTypes => v >= 0) /\ v <= Highest(type)
    BY <1>1
  <1>3. PICK m \in Nat \ {0} : m = 2 * h
    OBVIOUS
  <1>4. CASE v < 0
    <2>1. v = m * (-1) + (v + m) /\ v + m \in 0 .. m - 1
      BY <1>2, <1>3, <1>4
    <2>2. v % m = v + m
      BY <1>2, <2>1, ModuloIs
    <2>3. type \notin UnsignedTypes /\ v + m > h - 1
      BY <1>2, <1>3, <1>4
    <2> QED
      BY <1>1, <1>2, <1>3, <1>4, <2>2, <2>3
  <1>5. CASE v >= 0
    <2>1. v = m * 0 + v /\ v \in 0 .. m - 1
      BY <1>2, <1>3, <1>5
    <2>2. v % m = v
      BY <1>2, <2>1, ModuloIs
    <2> QED
      BY <1>1, <1>2, <1>3, <1>5, <2>2
  <1> QED
    BY <1>2, <1>4, <1>5

\* A sample is decoded from the bytes of any number that wraps to it.
LEMMA DecodedIs ==
  ASSUME NEW layout \in Layout, NEW type \in IntegerTypes, layout.sampleBytes = DataTypeSize(type),
         NEW v \in Lowest(type) .. Highest(type), NEW w \in Int,
         Low(w, layout.sampleBytes) = Low(v, layout.sampleBytes),
         NEW bytes, NEW offset, Holds(bytes, offset, layout, w)
  PROVE  DecodeInteger(bytes, offset, layout, type) = One * v
  <1>1. PICK m : m = PowerOfTwo[TypeBits(type)]
    OBVIOUS
  <1>2. Low(v, layout.sampleBytes) = v % m
    BY <1>1 DEF Low, TypeBits
  <1>3. PICK raw : raw = ReadUnsigned(bytes, offset, layout) /\ raw = v % m
    <2>1. ReadUnsigned(bytes, offset, layout) = Low(w, layout.sampleBytes)
      BY ReadingIs
    <2> QED
      BY <1>2, <2>1
  <1>4. v \in Int /\ raw = (IF v < 0 THEN v + m ELSE v) /\ (raw > Highest(type) <=> v < 0)
    BY <1>1, <1>3, WrapsTo
  <1>5. m \in Nat
    <2>1. PICK h \in Nat \ {0} : PowerOfTwo[TypeBits(type)] = 2 * h
      BY RangeIs
    <2> QED
      BY <1>1, <2>1
  <1>6. (IF raw > Highest(type) THEN raw - m ELSE raw) = v
    BY <1>4, <1>5
  <1>7. DecodeInteger(bytes, offset, layout, type) = One * (IF raw > Highest(type) THEN raw - m ELSE raw)
    BY <1>1, <1>3 DEF DecodeInteger
  <1> QED
    BY <1>6, <1>7

\* A sample is written where it lies.
LEMMA WrittenIs ==
  ASSUME NEW layout \in Layout, NEW value, NEW r, NEW c, NEW s, NEW k, NEW n, IsPlace(layout, r, c, s, k, n)
  PROVE  Written(value, layout)[n] = ByteOf(value[Cell(r, c, s)], k, layout)
  BY PlaceIs DEF Written

\* A sample can be read where it was written.
LEMMA WrittenHolds ==
  ASSUME NEW layout \in Layout, NEW value, NEW r \in 0 .. layout.rows - 1,
         NEW c \in 0 .. layout.columns - 1, NEW s \in 0 .. layout.samples - 1
  PROVE  Holds(Written(value, layout), OffsetOf(layout, r, c, s), layout, value[Cell(r, c, s)])
  BY OffsetsArePlaces, WrittenIs DEF Holds

-----------------------------------------------------------------------------
\* A difference is to the sample before.
LEMMA DifferenceIs ==
  ASSUME NEW layout \in Layout, NEW value \in [Cells(layout) -> Int], NEW r \in 0 .. layout.rows - 1,
         NEW c \in 0 .. layout.columns - 1, NEW s \in 0 .. layout.samples - 1
  PROVE  /\ value[Cell(r, c, s)] \in Int
         /\ Differences(value)[Cell(r, c, s)] \in Int
         /\ c = 0 => Differences(value)[Cell(r, c, s)] = value[Cell(r, c, s)]
         /\ c > 0 => /\ value[Cell(r, c - 1, s)] \in Int
                     /\ Differences(value)[Cell(r, c, s)] = value[Cell(r, c, s)] - value[Cell(r, c - 1, s)]
  <1>1. PICK cell \in Cells(layout) : cell = Cell(r, c, s) /\ cell[1] = r /\ cell[2] = c /\ cell[3] = s
    <2>1. Cell(r, c, s) \in Cells(layout)
      BY DEF Cells, Cell
    <2>2. Cell(r, c, s)[1] = r /\ Cell(r, c, s)[2] = c /\ Cell(r, c, s)[3] = s
      BY DEF Cell
    <2> QED
      BY <2>1, <2>2
  <1>2. Differences(value)[cell] = IF c = 0 THEN value[cell] ELSE value[cell] - value[Cell(r, c - 1, s)]
    BY <1>1 DEF Differences
  <1>3. value[cell] \in Int
    OBVIOUS
  <1>4. CASE c = 0
    BY <1>1, <1>2, <1>3, <1>4
  <1>5. CASE c > 0
    <2>1. layout.columns \in Nat
      BY DEF Layout
    <2>2. PICK b \in 0 .. layout.columns - 1 : b = c - 1
      BY <1>5, <2>1
    <2>3. Cell(r, b, s) \in Cells(layout)
      BY DEF Cells, Cell
    <2>4. value[Cell(r, b, s)] \in Int
      BY <2>3
    <2> QED
      BY <1>1, <1>2, <1>3, <1>5, <2>2, <2>4
  <1>6. layout.columns \in Nat
    BY DEF Layout
  <1> QED
    BY <1>4, <1>5, <1>6

\* The sums ApplyHorizontalPredictor makes along a row.
IsUndoing(f, bytes, layout, row, band) ==
  f = [c \in 0 .. layout.columns - 1 |->
         ReadUnsigned(bytes, OffsetOf(layout, row, c, band), layout) + (IF c = 0 THEN 0 ELSE f[c - 1])]

\* There are such sums.
LEMMA UndoingExists ==
  ASSUME NEW bytes, NEW layout \in Layout, NEW row, NEW band,
         \A c \in 0 .. layout.columns - 1 : ReadUnsigned(bytes, OffsetOf(layout, row, c, band), layout) \in Nat
  PROVE  \E f : IsUndoing(f, bytes, layout, row, band)
  <1>1. PICK columns \in Nat \ {0} : columns = layout.columns
    BY DEF Layout
  <1>2. PICK size : size = [k \in 1 .. columns |-> ReadUnsigned(bytes, OffsetOf(layout, row, k - 1, band), layout)]
    OBVIOUS
  <1>3. ASSUME NEW k \in 1 .. columns PROVE size[k] \in Nat
    <2>1. k - 1 \in 0 .. layout.columns - 1
      BY <1>1
    <2>2. ReadUnsigned(bytes, OffsetOf(layout, row, k - 1, band), layout) \in Nat
      BY <2>1
    <2> QED
      BY <1>2, <2>2
  <1>4. PICK g : g = [b \in 1 .. columns + 1 |-> IF b = 1 THEN 0 ELSE g[b - 1] + size[b - 1]]
    BY <1>3, PrefixSumsExist
  <1>5. PICK f : f = [c \in 0 .. columns - 1 |-> g[c + 2]]
    OBVIOUS
  <1>6. ASSUME NEW c \in 0 .. columns - 1
        PROVE  f[c] = ReadUnsigned(bytes, OffsetOf(layout, row, c, band), layout) + (IF c = 0 THEN 0 ELSE f[c - 1])
    <2>1. PICK read \in Nat : read = ReadUnsigned(bytes, OffsetOf(layout, row, c, band), layout)
      BY <1>1
    <2>2. PICK k \in 1 .. columns : k = c + 1 /\ k - 1 = c
      OBVIOUS
    <2>3. size[k] = read
      BY <1>2, <2>1, <2>2
    <2>4. f[c] = g[k + 1]
      BY <1>5, <2>2
    <2>5. \A b \in 1 .. columns + 1 : g[b] = IF b = 1 THEN 0 ELSE g[b - 1] + size[b - 1]
      BY <1>4
    <2>6. g[k + 1] = g[k] + size[k]
      <3>1. k + 1 \in 1 .. columns + 1 /\ k + 1 # 1 /\ (k + 1) - 1 = k
        OBVIOUS
      <3> QED
        BY <2>5, <3>1
    <2>7. g[k] = IF c = 0 THEN 0 ELSE f[c - 1]
      <3>1. CASE c = 0
        <4>1. 1 \in 1 .. columns + 1 /\ k = 1
          BY <2>2, <3>1
        <4> QED
          BY <2>5, <3>1, <4>1
      <3>2. CASE c # 0
        <4>1. c - 1 \in 0 .. columns - 1 /\ (c - 1) + 2 = k
          BY <2>2, <3>2
        <4> QED
          BY <1>5, <3>2, <4>1
      <3> QED
        BY <3>1, <3>2
    <2>8. g[k] \in Int
      <3>1. ASSUME NEW b \in 1 .. columns + 1 PROVE g[b] \in Int
        <4> DEFINE T == {a \in Nat : a + 1 \in 1 .. columns + 1 => g[a + 1] \in Int}
        <4>1. 0 \in T
          <5>1. 1 \in 1 .. columns + 1 /\ g[1] = 0
            BY <2>5
          <5> QED
            BY <5>1
        <4>2. ASSUME NEW a \in 1 .. columns, a - 1 \in T PROVE a \in T
          <5>1. g[a] \in Int /\ size[a] \in Nat
            BY <1>3, <4>2
          <5>2. a + 1 \in 1 .. columns + 1 /\ a + 1 # 1 /\ (a + 1) - 1 = a
            OBVIOUS
          <5>3. g[a + 1] = g[a] + size[a]
            BY <2>5, <5>2
          <5> QED
            BY <5>1, <5>3
        <4> HIDE DEF T
        <4>3. 0 .. columns \subseteq T
          BY <4>1, <4>2, InductionUpTo
        <4>4. b - 1 \in T
          BY <4>3
        <4> QED
          BY <4>4 DEF T
      <3> QED
        BY <3>1
    <2> QED
      BY <2>1, <2>3, <2>4, <2>6, <2>7, <2>8
  <1>7. f = [c \in 0 .. columns - 1 |-> f[c]]
    BY <1>5
  <1>8. IsUndoing(f, bytes, layout, row, band)
    BY <1>1, <1>6, <1>7 DEF IsUndoing
  <1> QED
    BY <1>8

\* The sums along a row are the samples, but for what does not fit one.
LEMMA SumsComeBack ==
  ASSUME NEW layout \in Layout, NEW value \in [Cells(layout) -> Int], NEW row \in 0 .. layout.rows - 1,
         NEW band \in 0 .. layout.samples - 1, NEW f,
         IsUndoing(f, Written(Differences(value), layout), layout, row, band)
  PROVE  \A c \in 0 .. layout.columns - 1 :
           f[c] \in Int /\ Low(f[c], layout.sampleBytes) = Low(value[Cell(row, c, band)], layout.sampleBytes)
  <1>1. PICK columns \in Nat \ {0}, size \in Nat \ {0}, m \in Nat \ {0} :
          /\ columns = layout.columns /\ size = layout.sampleBytes
          /\ m = PowerOfTwo[ByteBits * layout.sampleBytes]
    <2>1. layout.columns \in Nat \ {0} /\ layout.sampleBytes \in Nat \ {0}
      BY DEF Layout
    <2>2. ByteBits * layout.sampleBytes \in Nat
      BY <2>1, ByteAssumption, ProductFacts
    <2>3. PowerOfTwo[ByteBits * layout.sampleBytes] \in Nat \ {0}
      BY <2>2, PowersArePowers, PowerIsPositive
    <2> QED
      BY <2>1, <2>3
  <1>2. \A a : Low(a, size) = a % m
    BY <1>1 DEF Low
  <1>3. ASSUME NEW c \in 0 .. columns - 1
        PROVE  \E d \in Int : /\ d = Differences(value)[Cell(row, c, band)]
                              /\ f[c] = (d % m) + (IF c = 0 THEN 0 ELSE f[c - 1])
    <2>1. PICK d \in Int : d = Differences(value)[Cell(row, c, band)]
      BY <1>1, DifferenceIs
    <2>2. Holds(Written(Differences(value), layout), OffsetOf(layout, row, c, band), layout, d)
      BY <1>1, <2>1, WrittenHolds
    <2>3. ReadUnsigned(Written(Differences(value), layout), OffsetOf(layout, row, c, band), layout) = Low(d, size)
      BY <1>1, <2>2, ReadingIs
    <2>4. f[c] = ReadUnsigned(Written(Differences(value), layout), OffsetOf(layout, row, c, band), layout)
                   + (IF c = 0 THEN 0 ELSE f[c - 1])
      BY <1>1 DEF IsUndoing
    <2>5. f[c] = (d % m) + (IF c = 0 THEN 0 ELSE f[c - 1])
      BY <1>2, <2>3, <2>4
    <2> QED
      BY <2>1, <2>5
  <1> DEFINE T == {c \in Nat : f[c] \in Int /\ f[c] % m = value[Cell(row, c, band)] % m}
  <1>4. 0 \in T
    <2>1. 0 \in 0 .. columns - 1 /\ 0 \in 0 .. layout.columns - 1
      BY <1>1
    <2>2. PICK d \in Int : d = Differences(value)[Cell(row, 0, band)] /\ f[0] = (d % m) + 0
      BY <1>3, <2>1
    <2>3. d = value[Cell(row, 0, band)]
      BY <2>1, <2>2, DifferenceIs
    <2>4. PICK e \in 0 .. m - 1 : e = d % m /\ e % m = d % m
      BY ModuloFacts, ModuloTwice
    <2> QED
      BY <2>2, <2>3, <2>4
  <1>5. ASSUME NEW c \in 1 .. columns - 1, c - 1 \in T PROVE c \in T
    <2> HIDE DEF T
    <2>1. c \in 0 .. columns - 1 /\ c # 0 /\ c \in 0 .. layout.columns - 1 /\ c > 0
      BY <1>1
    <2>2. PICK d \in Int : d = Differences(value)[Cell(row, c, band)] /\ f[c] = (d % m) + f[c - 1]
      BY <1>3, <2>1
    <2>3. PICK x \in Int, y \in Int : /\ x = value[Cell(row, c - 1, band)] /\ y = value[Cell(row, c, band)]
                                      /\ d = y - x
      BY <2>1, <2>2, DifferenceIs
    <2>4. PICK g \in Int : g = f[c - 1] /\ g % m = x % m
      BY <1>5, <2>3 DEF T
    <2>5. PICK e \in 0 .. m - 1 : e = d % m /\ e % m = d % m
      BY ModuloFacts, ModuloTwice
    <2>6. SameRemainder(e + g, e + x, m)
      <3>1. e \in Int /\ SameRemainder(g, x, m)
        BY <2>4 DEF SameRemainder
      <3> QED
        BY <3>1, ModuloOfSum
    <2>7. SameRemainder(x + e, x + d, m)
      <3>1. e \in Int /\ SameRemainder(e, d, m)
        BY <2>5 DEF SameRemainder
      <3> QED
        BY <3>1, ModuloOfSum
    <2>8. x + e = e + x /\ x + d = y /\ e + g \in Int
      BY <2>3
    <2> QED
      BY <2>2, <2>3, <2>4, <2>5, <2>6, <2>7, <2>8 DEF T, SameRemainder
  <1> HIDE DEF T
  <1>6. 0 .. columns - 1 \subseteq T
    <2>1. PICK last \in Nat : last = columns - 1
      OBVIOUS
    <2>2. 0 .. last \subseteq T
      BY <1>4, <1>5, <2>1, InductionUpTo
    <2> QED
      BY <2>1, <2>2
  <1>7. ASSUME NEW c \in 0 .. columns - 1
        PROVE  f[c] \in Int /\ Low(f[c], size) = Low(value[Cell(row, c, band)], size)
    <2>1. c \in T
      BY <1>6
    <2> QED
      BY <1>2, <2>1 DEF T
  <1> QED
    BY <1>1, <1>7

\* The sums of a row that are taken.
RowSums(bytes, layout, row, band) == CHOOSE f : IsUndoing(f, bytes, layout, row, band)

\* A segment with predictor 2 undone.
Integrated(bytes, layout, band) ==
  [n \in DOMAIN bytes |->
     IF /\ n - OffsetOf(layout, RowOf(n, layout), ColumnOf(n, layout), band) \in 0 .. layout.sampleBytes - 1
        /\ ColumnOf(n, layout) > 0
       THEN ByteOf(RowSums(bytes, layout, RowOf(n, layout), band)[ColumnOf(n, layout)],
                   n - OffsetOf(layout, RowOf(n, layout), ColumnOf(n, layout), band), layout)
       ELSE bytes[n]]

\* It is what ApplyHorizontalPredictor makes, of a segment that is long enough.
LEMMA HorizontalIs ==
  ASSUME NEW bytes, NEW layout, NEW band
  PROVE  ApplyHorizontalPredictor(bytes, layout, band)
           = IF layout.columns > 1
                  /\ ~Reaches(bytes, OffsetOf(layout, layout.rows - 1, layout.columns - 1, band) + layout.sampleBytes)
               THEN {} ELSE {Integrated(bytes, layout, band)}
  BY DEF ApplyHorizontalPredictor, Integrated, RowSums, IsUndoing, RowOf, ColumnOf

\* Predictor 2 undone, the bytes of a sample hold it.
LEMMA HorizontalIsUndone ==
  ASSUME NEW layout \in Layout, NEW value \in [Cells(layout) -> Int], NEW band \in 0 .. layout.samples - 1
  PROVE  \E undone \in ApplyHorizontalPredictor(Written(Differences(value), layout), layout, band) :
           \A r \in 0 .. layout.rows - 1, c \in 0 .. layout.columns - 1 :
             \E w \in Int : /\ Holds(undone, OffsetOf(layout, r, c, band), layout, w)
                            /\ Low(w, layout.sampleBytes) = Low(value[Cell(r, c, band)], layout.sampleBytes)
  <1>1. PICK bytes : bytes = Written(Differences(value), layout)
    OBVIOUS
  <1>2. DOMAIN bytes = Places(layout)
    BY <1>1 DEF Written
  <1>3. layout.rows \in Nat \ {0} /\ layout.columns \in Nat \ {0} /\ layout.sampleBytes \in Nat \ {0}
    BY DEF Layout
  <1>4. PICK undone : undone = Integrated(bytes, layout, band)
    OBVIOUS
  <1>5. undone \in ApplyHorizontalPredictor(bytes, layout, band)
    <2>1. PICK k \in 0 .. layout.sampleBytes - 1 : k = layout.sampleBytes - 1
      BY <1>3
    <2>2. PICK r \in 0 .. layout.rows - 1, c \in 0 .. layout.columns - 1 :
            r = layout.rows - 1 /\ c = layout.columns - 1
      BY <1>3
    <2>3. PICK offset : offset = OffsetOf(layout, r, c, band)
      OBVIOUS
    <2>4. offset \in Nat /\ offset + k \in Places(layout)
      BY <2>3, OffsetsArePlaces, PlaceIs
    <2>5. (offset + layout.sampleBytes) - 1 = offset + k
      BY <1>3, <2>1, <2>4
    <2>6. Reaches(bytes, offset + layout.sampleBytes)
      BY <1>2, <2>4, <2>5 DEF Reaches
    <2> QED
      BY <1>4, <2>2, <2>3, <2>6, HorizontalIs
  <1>6. ASSUME NEW r \in 0 .. layout.rows - 1, NEW c \in 0 .. layout.columns - 1
        PROVE  \E w \in Int : /\ Holds(undone, OffsetOf(layout, r, c, band), layout, w)
                              /\ Low(w, layout.sampleBytes) = Low(value[Cell(r, c, band)], layout.sampleBytes)
    <2>1. PICK d \in Int : d = Differences(value)[Cell(r, c, band)] /\ (c = 0 => d = value[Cell(r, c, band)])
      BY DifferenceIs
    <2>2. Holds(bytes, OffsetOf(layout, r, c, band), layout, d)
      BY <1>1, <2>1, WrittenHolds
    <2>3. ASSUME NEW k \in 0 .. layout.sampleBytes - 1
          PROVE  undone[OffsetOf(layout, r, c, band) + k]
                   = IF c > 0 THEN ByteOf(RowSums(bytes, layout, r, band)[c], k, layout)
                              ELSE bytes[OffsetOf(layout, r, c, band) + k]
      <3>1. PICK n : n = OffsetOf(layout, r, c, band) + k
        OBVIOUS
      <3>2. /\ OffsetOf(layout, r, c, band) \in Nat /\ n \in Places(layout)
            /\ RowOf(n, layout) = r /\ ColumnOf(n, layout) = c
        BY <3>1, OffsetsArePlaces, PlaceIs
      <3>3. n - OffsetOf(layout, r, c, band) = k
        BY <1>3, <3>1, <3>2
      <3>4. undone[n] = IF /\ n - OffsetOf(layout, RowOf(n, layout), ColumnOf(n, layout), band)
                                \in 0 .. layout.sampleBytes - 1
                           /\ ColumnOf(n, layout) > 0
                          THEN ByteOf(RowSums(bytes, layout, RowOf(n, layout), band)[ColumnOf(n, layout)],
                                      n - OffsetOf(layout, RowOf(n, layout), ColumnOf(n, layout), band), layout)
                          ELSE bytes[n]
        BY <1>2, <1>4, <3>2 DEF Integrated
      <3> QED
        BY <3>1, <3>2, <3>3, <3>4
    <2>4. CASE c = 0
      <3>1. ~(c > 0)
        BY <2>4
      <3>2. Holds(undone, OffsetOf(layout, r, c, band), layout, d)
        BY <2>2, <2>3, <3>1 DEF Holds
      <3> QED
        BY <2>1, <2>4, <3>2
    <2>5. CASE c # 0
      <3>1. c > 0
        BY <1>3, <2>5
      <3>2. ASSUME NEW b \in 0 .. layout.columns - 1
            PROVE  ReadUnsigned(bytes, OffsetOf(layout, r, b, band), layout) \in Nat
        <4>1. PICK e \in Int : e = Differences(value)[Cell(r, b, band)]
          BY DifferenceIs
        <4>2. Holds(bytes, OffsetOf(layout, r, b, band), layout, e)
          BY <1>1, <4>1, WrittenHolds
        <4>3. ReadUnsigned(bytes, OffsetOf(layout, r, b, band), layout) = Low(e, layout.sampleBytes)
          BY <4>2, ReadingIs
        <4>4. Low(e, layout.sampleBytes) \in Nat
          BY <1>3, LowFacts
        <4> QED
          BY <4>3, <4>4
      <3>3. PICK f : f = RowSums(bytes, layout, r, band) /\ IsUndoing(f, bytes, layout, r, band)
        <4>1. \E f : IsUndoing(f, bytes, layout, r, band)
          BY <3>2, UndoingExists
        <4> QED
          BY <4>1 DEF RowSums
      <3>4. f[c] \in Int /\ Low(f[c], layout.sampleBytes) = Low(value[Cell(r, c, band)], layout.sampleBytes)
        BY <1>1, <3>3, SumsComeBack
      <3>5. Holds(undone, OffsetOf(layout, r, c, band), layout, f[c])
        BY <2>3, <3>1, <3>3 DEF Holds
      <3> QED
        BY <3>4, <3>5
    <2> QED
      BY <2>4, <2>5
  <1> QED
    BY <1>1, <1>5, <1>6

-----------------------------------------------------------------------------
\* A number is made of a digit and what is below it.
LEMMA Digits ==
  ASSUME NEW a \in Nat, NEW b \in Nat \ {0}, NEW c \in Nat, a < b * c
  PROVE  \E q \in Nat, v \in Nat : q < c /\ v < b /\ a = q * b + v
  <1>1. PICK q \in Nat : q = a \div b
    BY DivisionFacts
  <1>2. PICK v \in 0 .. b - 1 : v = a % b
    BY DivisionFacts
  <1>3. a = b * q + v
    BY <1>1, <1>2, DivisionFacts
  <1>4. q < c
    BY <1>1, QuotientBelow
  <1>5. b * q = q * b
    BY ProductFacts
  <1>6. v \in Nat /\ v < b /\ a = q * b + v
    BY <1>2, <1>3, <1>5
  <1> QED
    BY <1>4, <1>6

\* The byte of a segment that goes to a place of its planes.
Gathered(bytes, layout, start, plane, index) ==
  bytes[start + index * layout.sampleBytes + (IF layout.little THEN layout.sampleBytes - 1 - plane ELSE plane)]

PlaneByte(bytes, layout, n) ==
  Gathered(bytes, layout, n - (n % RowBytes(layout)),
           (n % RowBytes(layout)) \div (layout.columns * layout.samples),
           (n % RowBytes(layout)) % (layout.columns * layout.samples))

\* The plane byte k of a sample is in.
PlaneOf(layout, k) == IF layout.little THEN layout.sampleBytes - k - 1 ELSE k

\* Where byte k of a sample lies among the planes of a row.
IsInPlane(layout, c, s, k, i) ==
  /\ c \in 0 .. layout.columns - 1 /\ s \in 0 .. layout.samples - 1 /\ k \in 0 .. layout.sampleBytes - 1
  /\ i = PlaneOf(layout, k) * (layout.columns * layout.samples) + (c * layout.samples + s)

\* Every byte of a row is in a plane.
LEMMA ThereIsAPlane ==
  ASSUME NEW layout \in Layout, NEW i \in 0 .. RowBytes(layout) - 1
  PROVE  \E c, s, k : IsInPlane(layout, c, s, k, i)
  <1>1. PICK rows, columns, samples, size, stride, rowBytes, values \in Nat \ {0} :
          /\ rows = layout.rows /\ columns = layout.columns /\ samples = layout.samples
          /\ size = layout.sampleBytes
          /\ stride = Stride(layout) /\ stride = samples * size
          /\ rowBytes = RowBytes(layout) /\ rowBytes = columns * stride
          /\ values = columns * samples /\ rowBytes = values * size
    BY SizesAre DEF Sized
  <1>2. i \in Nat /\ i < values * size
    <2>1. layout.sampleBytes \in Nat /\ RowBytes(layout) \in Nat
      BY <1>1
    <2> QED
      BY <1>1, <2>1
  <1>3. PICK q \in Nat, v \in Nat : q < size /\ v < values /\ i = q * values + v
    <2>1. PICK n \in Nat, c \in Nat : n = i /\ c = size /\ n < values * c
      BY <1>2
    <2>2. \E q \in Nat, v \in Nat : q < c /\ v < values /\ n = q * values + v
      BY <2>1, Digits
    <2> QED
      BY <2>1, <2>2
  <1>4. PICK c \in Nat, s \in Nat : c < columns /\ s < samples /\ v = c * samples + s
    <2>1. v < samples * columns
      BY <1>1, <1>3, ProductFacts
    <2> QED
      BY <2>1, Digits
  <1>5. PICK k \in 0 .. size - 1 : PlaneOf(layout, k) = q
    <2>1. CASE layout.little
      <3>1. PICK k \in 0 .. size - 1 : k = (size - 1) - q /\ size - k - 1 = q
        BY <1>3
      <3> QED
        BY <1>1, <2>1, <3>1 DEF PlaneOf
    <2>2. CASE ~layout.little
      <3>1. q \in 0 .. size - 1
        BY <1>3
      <3> QED
        BY <2>2, <3>1 DEF PlaneOf
    <2> QED
      BY <2>1, <2>2
  <1>6. i = PlaneOf(layout, k) * (layout.columns * layout.samples) + (c * layout.samples + s)
    BY <1>1, <1>3, <1>4, <1>5
  <1>7. IsInPlane(layout, c, s, k, i)
    BY <1>1, <1>4, <1>5, <1>6 DEF IsInPlane
  <1> QED
    BY <1>7

\* The bytes of a plane come from the samples.
LEMMA PlaneIs ==
  ASSUME NEW layout \in Layout, NEW r \in 0 .. layout.rows - 1, NEW c, NEW s, NEW k, NEW i,
         IsInPlane(layout, c, s, k, i), NEW bytes
  PROVE  /\ i \in 0 .. RowBytes(layout) - 1
         /\ r * RowBytes(layout) + i \in Places(layout)
         /\ (r * RowBytes(layout) + i) % RowBytes(layout) = i
         /\ PlaneByte(bytes, layout, r * RowBytes(layout) + i) = bytes[OffsetOf(layout, r, c, s) + k]
  <1>1. PICK rows, columns, samples, size, stride, rowBytes, values \in Nat \ {0} :
          /\ rows = layout.rows /\ columns = layout.columns /\ samples = layout.samples
          /\ size = layout.sampleBytes
          /\ stride = Stride(layout) /\ stride = samples * size
          /\ rowBytes = RowBytes(layout) /\ rowBytes = columns * stride
          /\ values = columns * samples /\ rowBytes = values * size
    BY SizesAre DEF Sized
  <1>2. PICK q \in Nat : q = PlaneOf(layout, k) /\ q < size /\ k = (IF layout.little THEN size - 1 - q ELSE q)
    <2>1. k \in 0 .. size - 1
      BY <1>1 DEF IsInPlane
    <2>2. CASE layout.little
      <3>1. PICK q \in Nat : q = size - k - 1 /\ q < size /\ k = size - 1 - q
        BY <2>1
      <3> QED
        BY <1>1, <2>2, <3>1 DEF PlaneOf
    <2>3. CASE ~layout.little
      BY <2>1, <2>3 DEF PlaneOf
    <2> QED
      BY <2>2, <2>3
  <1>3. PICK v \in Nat : v = c * samples + s /\ v < values /\ i = q * values + v
    <2>1. c \in Nat /\ c < columns /\ s \in Nat /\ s < samples
      BY <1>1 DEF IsInPlane
    <2>2. c * samples + s \in Nat /\ c * samples + s < columns * samples
      BY <2>1, DigitBelow
    <2> QED
      BY <1>1, <1>2, <2>2 DEF IsInPlane
  <1>4. i \in Nat /\ i < rowBytes
    <2>1. q * values + v \in Nat /\ q * values + v < size * values
      BY <1>2, <1>3, DigitBelow
    <2>2. size * values = values * size
      BY ProductFacts
    <2> QED
      BY <1>1, <1>3, <2>1, <2>2
  <1>5. r \in Nat /\ r < rows
    BY <1>1
  <1>6. PICK rs \in Nat : rs = r * rowBytes /\ rs + i < rows * rowBytes /\ rows * rowBytes \in Nat
    <2>1. r * rowBytes \in Nat /\ rows * rowBytes \in Nat /\ r * rowBytes + i < rows * rowBytes
      BY <1>4, <1>5, DigitBelow
    <2> QED
      BY <2>1
  <1>7. (rs + i) % rowBytes = i
    <2>1. (r * rowBytes + i) % rowBytes = i
      BY <1>4, <1>5, RemainderIs
    <2> QED
      BY <1>6, <2>1
  <1>8. i % values = v /\ i \div values = q
    <2>1. (q * values + v) % values = v /\ (q * values + v) \div values = q
      BY <1>3, RemainderIs
    <2> QED
      BY <1>3, <2>1
  <1>9. PICK n \in Nat : n = rs + i /\ n = r * RowBytes(layout) + i /\ n \in Places(layout)
    BY <1>1, <1>4, <1>6 DEF Places
  <1>10. PlaneByte(bytes, layout, n) = bytes[rs + v * size + k]
    <2>1. n % RowBytes(layout) = i
      BY <1>1, <1>7, <1>9
    <2>2. n - (n % RowBytes(layout)) = rs
      <3>1. n - i = rs
        BY <1>4, <1>9
      <3> QED
        BY <2>1, <3>1
    <2>3. /\ (n % RowBytes(layout)) \div (layout.columns * layout.samples) = q
          /\ (n % RowBytes(layout)) % (layout.columns * layout.samples) = v
      BY <1>1, <1>8, <2>1
    <2>4. PlaneByte(bytes, layout, n) = Gathered(bytes, layout, rs, q, v)
      BY <2>2, <2>3 DEF PlaneByte
    <2>5. Gathered(bytes, layout, rs, q, v) = bytes[rs + v * size + k]
      BY <1>1, <1>2 DEF Gathered
    <2> QED
      BY <2>4, <2>5
  <1>11. rs + v * size + k = OffsetOf(layout, r, c, s) + k
    <2>1. IsPlace(layout, r, c, s, k, OffsetOf(layout, r, c, s) + k)
      BY DEF IsPlace, IsInPlane
    <2>2. OffsetOf(layout, r, c, s) + k = r * RowBytes(layout) + ((c * layout.samples + s) * layout.sampleBytes + k)
      BY <2>1, PlaceIs
    <2>3. PICK vs \in Nat : vs = v * size
      BY ProductFacts
    <2>4. OffsetOf(layout, r, c, s) + k = rs + (vs + k)
      BY <1>1, <1>3, <1>6, <2>2, <2>3
    <2>5. k \in Nat
      BY <1>1 DEF IsInPlane
    <2> QED
      BY <2>3, <2>4, <2>5
  <1>12. PlaneByte(bytes, layout, n) = bytes[OffsetOf(layout, r, c, s) + k]
    BY <1>10, <1>11
  <1> QED
    BY <1>1, <1>4, <1>6, <1>7, <1>9, <1>12

\* A difference added to what was taken off.
LEMMA DifferenceUndone ==
  ASSUME NEW m \in Nat \ {0}, NEW a \in 0 .. m - 1, NEW b \in 0 .. m - 1
  PROVE  (((a - b) % m) + b) % m = a
  <1>1. PICK d \in Int : d = a - b
    OBVIOUS
  <1>2. PICK e \in 0 .. m - 1 : e = d % m /\ e % m = d % m
    BY ModuloFacts, ModuloTwice
  <1>3. e \in Int /\ b \in Int /\ SameRemainder(e, d, m)
    BY <1>2 DEF SameRemainder
  <1>4. SameRemainder(b + e, b + d, m)
    BY <1>3, ModuloOfSum
  <1>5. b + d = a /\ b + e = e + b
    BY <1>1
  <1>6. a % m = a
    <2>1. a \in Int /\ a = m * 0 + a
      OBVIOUS
    <2> QED
      BY <2>1, ModuloIs
  <1>7. (e + b) % m = a
    BY <1>4, <1>5, <1>6 DEF SameRemainder
  <1> QED
    BY <1>1, <1>2, <1>7

\* The sums ApplyFloatingPointPredictor makes along a row.
IsAccumulated(f, bytes, layout, row) ==
  f = [n \in 0 .. RowBytes(layout) - 1 |->
         (bytes[row * RowBytes(layout) + n] + (IF n < layout.samples THEN 0 ELSE f[n - layout.samples]))
           % PowerOfTwo[ByteBits]]

\* They give back the planes, and nothing else does.
LEMMA PlanesComeBack ==
  ASSUME NEW layout \in Layout, NEW value \in [Cells(layout) -> Int], NEW row \in 0 .. layout.rows - 1
  PROVE  /\ \E f : IsAccumulated(f, Planes(Written(value, layout), layout), layout, row)
         /\ \A f : IsAccumulated(f, Planes(Written(value, layout), layout), layout, row)
                     => \A i \in 0 .. RowBytes(layout) - 1 :
                          f[i] = PlaneByte(Written(value, layout), layout, row * RowBytes(layout) + i)
  <1>1. PICK samples \in Nat \ {0}, rowBytes \in Nat \ {0}, m \in Nat \ {0} :
          samples = layout.samples /\ rowBytes = RowBytes(layout) /\ m = PowerOfTwo[ByteBits]
    <2>1. layout.samples \in Nat \ {0}
      BY DEF Layout
    <2>2. RowBytes(layout) \in Nat \ {0}
      BY SizesAre DEF Sized
    <2>3. PowerOfTwo[ByteBits] \in Nat \ {0}
      BY ByteAssumption, PowersArePowers, PowerIsPositive
    <2> QED
      BY <2>1, <2>2, <2>3
  <1>2. PICK bytes, written : written = Written(value, layout) /\ bytes = Planes(written, layout)
    OBVIOUS
  <1>3. PICK g : g = [i \in 0 .. rowBytes - 1 |-> PlaneByte(written, layout, row * rowBytes + i)]
    OBVIOUS
  <1>4. ASSUME NEW i \in 0 .. rowBytes - 1
        PROVE  /\ g[i] \in 0 .. m - 1
               /\ row * rowBytes + i \in Places(layout)
               /\ (row * rowBytes + i) % rowBytes = i
    <2>1. PICK c, s, k : IsInPlane(layout, c, s, k, i)
      BY <1>1, ThereIsAPlane
    <2>2. /\ row * rowBytes + i \in Places(layout) /\ (row * rowBytes + i) % rowBytes = i
          /\ PlaneByte(written, layout, row * rowBytes + i) = written[OffsetOf(layout, row, c, s) + k]
      BY <1>1, <2>1, PlaneIs
    <2>3. /\ c \in 0 .. layout.columns - 1 /\ s \in 0 .. layout.samples - 1 /\ k \in 0 .. layout.sampleBytes - 1
          /\ IsPlace(layout, row, c, s, k, OffsetOf(layout, row, c, s) + k)
      BY <2>1 DEF IsInPlane, IsPlace
    <2>4. written[OffsetOf(layout, row, c, s) + k] = ByteOf(value[Cell(row, c, s)], k, layout)
      BY <1>2, <2>3, WrittenIs
    <2>5. value[Cell(row, c, s)] \in Int
      BY <2>3, DifferenceIs
    <2>6. ByteOf(value[Cell(row, c, s)], k, layout) \in Byte
      BY <2>3, <2>5, OneByteMore
    <2>7. g[i] = written[OffsetOf(layout, row, c, s) + k]
      BY <1>3, <2>2
    <2> QED
      BY <1>1, <2>2, <2>4, <2>6, <2>7 DEF Byte
  <1>5. ASSUME NEW i \in 0 .. rowBytes - 1
        PROVE  g[i] = (bytes[row * rowBytes + i] + (IF i < samples THEN 0 ELSE g[i - samples])) % m
    <2>1. PICK n : n = row * rowBytes + i
      OBVIOUS
    <2>2. n \in Places(layout) /\ n % RowBytes(layout) = i /\ g[i] = PlaneByte(written, layout, n)
      BY <1>1, <1>3, <1>4, <2>1
    <2>3. bytes[n] = IF n % RowBytes(layout) < layout.samples THEN PlaneByte(written, layout, n)
                     ELSE (PlaneByte(written, layout, n) - PlaneByte(written, layout, n - layout.samples)) % m
      <3>1. DOMAIN written = Places(layout)
        BY <1>2 DEF Written
      <3> QED
        BY <1>1, <1>2, <2>2, <3>1 DEF Planes, PlaneByte, Gathered
    <2>4. CASE i < samples
      <3>1. bytes[n] = g[i]
        BY <1>1, <2>2, <2>3, <2>4
      <3>2. PICK a \in 0 .. m - 1 : a = g[i]
        BY <1>4
      <3>3. (a + 0) % m = a
        <4>1. a \in Int /\ a = m * 0 + a
          OBVIOUS
        <4>2. a % m = a
          BY <4>1, ModuloIs
        <4> QED
          BY <4>2
      <3> QED
        BY <2>1, <2>4, <3>1, <3>2, <3>3
    <2>5. CASE ~(i < samples)
      <3>1. PICK j \in 0 .. rowBytes - 1 : j = i - samples
        BY <2>5
      <3>2. PICK a \in 0 .. m - 1, b \in 0 .. m - 1 : a = g[i] /\ b = g[j]
        BY <1>4
      <3>3. b = PlaneByte(written, layout, n - layout.samples)
        <4>1. row * rowBytes \in Nat
          BY <1>1, ProductFacts DEF Layout
        <4>2. n - layout.samples = row * rowBytes + j
          BY <1>1, <2>1, <3>1, <4>1
        <4> QED
          BY <1>3, <3>2, <4>2
      <3>4. bytes[n] = (a - b) % m
        BY <1>1, <2>2, <2>3, <2>5, <3>2, <3>3
      <3>5. (((a - b) % m) + b) % m = a
        BY DifferenceUndone
      <3> QED
        BY <2>1, <2>5, <3>1, <3>2, <3>4, <3>5
    <2> QED
      BY <2>4, <2>5
  <1>6. IsAccumulated(g, bytes, layout, row)
    <2>1. g = [i \in 0 .. rowBytes - 1 |-> g[i]]
      BY <1>3
    <2> QED
      BY <1>1, <1>5, <2>1 DEF IsAccumulated
  <1>7. ASSUME NEW f, IsAccumulated(f, bytes, layout, row), NEW i \in 0 .. rowBytes - 1
        PROVE  f[i] = g[i]
    <2>1. ASSUME NEW n \in 0 .. rowBytes - 1
          PROVE  f[n] = (bytes[row * rowBytes + n] + (IF n < samples THEN 0 ELSE f[n - samples])) % m
      BY <1>1, <1>7 DEF IsAccumulated
    <2> DEFINE T == {n \in Nat : \A j \in 0 .. n : j < rowBytes => f[j] = g[j]}
    <2>2. ASSUME NEW n \in 0 .. rowBytes - 1, \A j \in 0 .. n - 1 : f[j] = g[j]
          PROVE  f[n] = g[n]
      <3>1. CASE n < samples
        BY <1>5, <2>1, <3>1
      <3>2. CASE ~(n < samples)
        <4>1. f[n - samples] = g[n - samples]
          BY <2>2, <3>2
        <4> QED
          BY <1>5, <2>1, <3>2, <4>1
      <3> QED
        BY <3>1, <3>2
    <2>3. 0 \in T
      <3>1. f[0] = g[0]
        BY <2>2
      <3> QED
        BY <3>1
    <2>4. ASSUME NEW n \in 1 .. rowBytes, n - 1 \in T PROVE n \in T
      <3>1. \A j \in 0 .. n - 1 : j < rowBytes => f[j] = g[j]
        BY <2>4
      <3>2. n < rowBytes => f[n] = g[n]
        <4> SUFFICES ASSUME n < rowBytes PROVE f[n] = g[n]
          OBVIOUS
        <4>1. n \in 0 .. rowBytes - 1 /\ \A j \in 0 .. n - 1 : f[j] = g[j]
          BY <3>1
        <4> QED
          BY <2>2, <4>1
      <3> QED
        BY <3>1, <3>2
    <2> HIDE DEF T
    <2>5. 0 .. rowBytes \subseteq T
      BY <2>3, <2>4, InductionUpTo
    <2>6. i \in T
      BY <2>5
    <2> QED
      BY <2>6 DEF T
  <1>8. \A i \in 0 .. rowBytes - 1 : g[i] = PlaneByte(written, layout, row * rowBytes + i)
    BY <1>3
  <1> QED
    BY <1>1, <1>2, <1>6, <1>7, <1>8

\* The sums of a row that are taken.
Accumulated(bytes, layout, row) == CHOOSE f : IsAccumulated(f, bytes, layout, row)

\* A segment with predictor 3 undone.
Interleaved(bytes, layout) ==
  [n \in DOMAIN bytes |->
     IF n < layout.rows * RowBytes(layout)
       THEN Accumulated(bytes, layout, RowOf(n, layout))
              [PlaneOf(layout, n % layout.sampleBytes) * (layout.columns * layout.samples)
                 + (n % RowBytes(layout)) \div layout.sampleBytes]
       ELSE bytes[n]]

\* It is what ApplyFloatingPointPredictor makes, of a segment that is long enough.
LEMMA FloatingPointIs ==
  ASSUME NEW bytes, NEW layout
  PROVE  ApplyFloatingPointPredictor(bytes, layout)
           = IF ~Reaches(bytes, layout.rows * RowBytes(layout)) THEN {} ELSE {Interleaved(bytes, layout)}
  BY DEF ApplyFloatingPointPredictor, Interleaved, Accumulated, IsAccumulated, RowOf, PlaneOf

\* Predictor 3 undone, the bytes of a sample hold it.
LEMMA FloatingPointIsUndone ==
  ASSUME NEW layout \in Layout, NEW value \in [Cells(layout) -> Int]
  PROVE  \E undone \in ApplyFloatingPointPredictor(Planes(Written(value, layout), layout), layout) :
           \A r \in 0 .. layout.rows - 1, c \in 0 .. layout.columns - 1, s \in 0 .. layout.samples - 1 :
             Holds(undone, OffsetOf(layout, r, c, s), layout, value[Cell(r, c, s)])
  <1>1. PICK bytes, written : written = Written(value, layout) /\ bytes = Planes(written, layout)
    OBVIOUS
  <1>2. DOMAIN bytes = Places(layout)
    BY <1>1 DEF Planes, Written
  <1>3. PICK undone : undone = Interleaved(bytes, layout)
    OBVIOUS
  <1>4. PICK end \in Nat \ {0} : end = layout.rows * RowBytes(layout)
    BY LastPlaceIs
  <1>5. undone \in ApplyFloatingPointPredictor(bytes, layout)
    <2>1. end - 1 \in Places(layout)
      BY <1>4 DEF Places
    <2>2. Reaches(bytes, end)
      BY <1>2, <2>1 DEF Reaches
    <2> QED
      BY <1>3, <1>4, <2>2, FloatingPointIs
  <1>6. ASSUME NEW r \in 0 .. layout.rows - 1, NEW c \in 0 .. layout.columns - 1,
               NEW s \in 0 .. layout.samples - 1, NEW k \in 0 .. layout.sampleBytes - 1
        PROVE  undone[OffsetOf(layout, r, c, s) + k] = ByteOf(value[Cell(r, c, s)], k, layout)
    <2>1. PICK n : n = OffsetOf(layout, r, c, s) + k /\ IsPlace(layout, r, c, s, k, n)
      BY OffsetsArePlaces
    <2>2. /\ n \in Places(layout) /\ RowOf(n, layout) = r /\ n % layout.sampleBytes = k
          /\ (n % RowBytes(layout)) \div layout.sampleBytes = c * layout.samples + s
      BY <2>1, PlaceIs
    <2>3. n < layout.rows * RowBytes(layout)
      BY <1>4, <2>2 DEF Places
    <2>4. PICK i : i = PlaneOf(layout, k) * (layout.columns * layout.samples) + (c * layout.samples + s)
      OBVIOUS
    <2>5. IsInPlane(layout, c, s, k, i)
      BY <2>4 DEF IsInPlane
    <2>6. undone[n] = Accumulated(bytes, layout, r)[i]
      <3>1. undone[n] = Accumulated(bytes, layout, RowOf(n, layout))
                          [PlaneOf(layout, n % layout.sampleBytes) * (layout.columns * layout.samples)
                             + (n % RowBytes(layout)) \div layout.sampleBytes]
        BY <1>2, <1>3, <2>2, <2>3 DEF Interleaved
      <3> QED
        BY <2>2, <2>4, <3>1
    <2>7. PICK f : f = Accumulated(bytes, layout, r) /\ IsAccumulated(f, bytes, layout, r)
      <3>1. \E f : IsAccumulated(f, bytes, layout, r)
        BY <1>1, PlanesComeBack
      <3> QED
        BY <3>1 DEF Accumulated
    <2>8. i \in 0 .. RowBytes(layout) - 1 /\ PlaneByte(written, layout, r * RowBytes(layout) + i) = written[n]
      BY <2>1, <2>5, PlaneIs
    <2>9. f[i] = PlaneByte(written, layout, r * RowBytes(layout) + i)
      BY <1>1, <2>7, <2>8, PlanesComeBack
    <2>10. written[n] = ByteOf(value[Cell(r, c, s)], k, layout)
      BY <1>1, <2>1, WrittenIs
    <2> QED
      BY <2>1, <2>6, <2>7, <2>8, <2>9, <2>10
  <1>7. \A r \in 0 .. layout.rows - 1, c \in 0 .. layout.columns - 1, s \in 0 .. layout.samples - 1 :
          Holds(undone, OffsetOf(layout, r, c, s), layout, value[Cell(r, c, s)])
    BY <1>6 DEF Holds
  <1> QED
    BY <1>1, <1>5, <1>7

-----------------------------------------------------------------------------
\* Samples of integers are integers.
LEMMA SegmentIs ==
  ASSUME NEW segment \in Segments
  PROVE  /\ segment.layout \in Layout /\ segment.predictor \in {2, 3} /\ segment.type \in IntegerTypes
         /\ segment.layout.sampleBytes = DataTypeSize(segment.type)
         /\ segment.value \in [Cells(segment.layout) -> Lowest(segment.type) .. Highest(segment.type)]
         /\ segment.value \in [Cells(segment.layout) -> Int]
  <1>1. /\ segment.layout \in Layout /\ segment.predictor \in {2, 3} /\ segment.type \in IntegerTypes
        /\ segment.layout.sampleBytes = DataTypeSize(segment.type)
        /\ segment.value \in [Cells(segment.layout) -> Lowest(segment.type) .. Highest(segment.type)]
    BY SegmentsAssumption DEF Cells
  <1>2. Lowest(segment.type) .. Highest(segment.type) \subseteq Int
    OBVIOUS
  <1>3. segment.value \in [Cells(segment.layout) -> Int]
    BY <1>1, <1>2
  <1> QED
    BY <1>1, <1>3

\* A sample comes back.
LEMMA SamplesComeBack ==
  ASSUME NEW segment \in Segments, NEW cell \in DOMAIN segment.value
  PROVE  \E undone \in Undone(Encoded(segment), segment, cell[3]) :
           DecodeInteger(undone, cell[1] * RowBytes(segment.layout) + cell[2] * Stride(segment.layout)
                                   + cell[3] * segment.layout.sampleBytes, segment.layout, segment.type)
             = One * segment.value[cell]
  <1>1. PICK layout \in Layout, type \in IntegerTypes :
          /\ layout = segment.layout /\ type = segment.type
          /\ layout.sampleBytes = DataTypeSize(type) /\ segment.predictor \in {2, 3}
    BY SegmentIs
  <1>2. PICK value \in [Cells(layout) -> Int] :
          /\ layout = segment.layout /\ type = segment.type /\ value = segment.value
          /\ layout.sampleBytes = DataTypeSize(type) /\ segment.predictor \in {2, 3}
    BY <1>1, SegmentIs
  <1>3. PICK v \in Lowest(type) .. Highest(type) : v = segment.value[cell]
    BY <1>2, SegmentIs
  <1>4. cell \in Cells(layout)
    BY <1>2
  <1>5. PICK r \in 0 .. layout.rows - 1, c \in 0 .. layout.columns - 1, s \in 0 .. layout.samples - 1 :
          r = cell[1] /\ c = cell[2] /\ s = cell[3] /\ cell = Cell(r, c, s)
    BY <1>4 DEF Cells, Cell
  <1>6. \E undone \in Undone(Encoded(segment), segment, s) :
          \E w \in Int : /\ Holds(undone, OffsetOf(layout, r, c, s), layout, w)
                         /\ Low(w, layout.sampleBytes) = Low(v, layout.sampleBytes)
    <2>1. CASE segment.predictor = 2
      <3>1. Undone(Encoded(segment), segment, s)
              = ApplyHorizontalPredictor(Written(Differences(value), layout), layout, s)
        BY <1>2, <2>1 DEF Undone, Encoded
      <3>2. \E undone \in ApplyHorizontalPredictor(Written(Differences(value), layout), layout, s) :
              \E w \in Int : /\ Holds(undone, OffsetOf(layout, r, c, s), layout, w)
                             /\ Low(w, layout.sampleBytes) = Low(value[Cell(r, c, s)], layout.sampleBytes)
        BY HorizontalIsUndone
      <3>3. value[Cell(r, c, s)] = v
        BY <1>2, <1>3, <1>5
      <3> QED
        BY <3>1, <3>2, <3>3
    <2>2. CASE segment.predictor = 3
      <3>1. Undone(Encoded(segment), segment, s)
              = ApplyFloatingPointPredictor(Planes(Written(value, layout), layout), layout)
        BY <1>2, <2>2 DEF Undone, Encoded
      <3>2. \E undone \in ApplyFloatingPointPredictor(Planes(Written(value, layout), layout), layout) :
              Holds(undone, OffsetOf(layout, r, c, s), layout, value[Cell(r, c, s)])
        BY FloatingPointIsUndone
      <3>3. value[Cell(r, c, s)] = v /\ v \in Int
        BY <1>2, <1>3, <1>5
      <3> QED
        BY <3>1, <3>2, <3>3
    <2> QED
      BY <1>2, <2>1, <2>2
  <1>7. PICK undone \in Undone(Encoded(segment), segment, s) :
          \E w \in Int : /\ Holds(undone, OffsetOf(layout, r, c, s), layout, w)
                         /\ Low(w, layout.sampleBytes) = Low(v, layout.sampleBytes)
    BY <1>6
  <1>8. PICK w \in Int : /\ Holds(undone, OffsetOf(layout, r, c, s), layout, w)
                         /\ Low(w, layout.sampleBytes) = Low(v, layout.sampleBytes)
    BY <1>7
  <1>9. DecodeInteger(undone, OffsetOf(layout, r, c, s), layout, type) = One * v
    BY <1>2, <1>8, DecodedIs
  <1>10. OffsetOf(layout, r, c, s) = cell[1] * RowBytes(segment.layout) + cell[2] * Stride(segment.layout)
                                      + cell[3] * segment.layout.sampleBytes
    BY <1>2, <1>5 DEF OffsetOf
  <1> QED
    BY <1>2, <1>3, <1>5, <1>9, <1>10

\* A segment without its last byte is refused.
LEMMA ShortIsRefused ==
  ASSUME NEW segment \in Segments, segment.layout.columns > 1
  PROVE  Undone(Beginning(Encoded(segment), Cardinality(DOMAIN Encoded(segment)) - 1), segment,
                segment.layout.samples - 1) = {}
  <1>1. PICK layout \in Layout : layout = segment.layout /\ segment.predictor \in {2, 3}
    BY SegmentIs
  <1>2. PICK end \in Nat \ {0} :
          /\ end = layout.rows * RowBytes(layout)
          /\ end = OffsetOf(layout, layout.rows - 1, layout.columns - 1, layout.samples - 1) + layout.sampleBytes
    BY LastPlaceIs
  <1>3. DOMAIN Encoded(segment) = 0 .. end - 1
    BY <1>1, <1>2 DEF Encoded, Written, Planes, Places
  <1>4. Cardinality(0 .. end - 1) = end
    BY FS_Interval
  <1>5. PICK short : short = Beginning(Encoded(segment), Cardinality(DOMAIN Encoded(segment)) - 1)
    OBVIOUS
  <1>6. ~Reaches(short, end)
    <2>1. DOMAIN short = 0 .. (end - 1) - 1
      BY <1>3, <1>4, <1>5 DEF Beginning
    <2> QED
      BY <2>1 DEF Reaches
  <1>7. CASE segment.predictor = 2
    <2>1. ApplyHorizontalPredictor(short, layout, layout.samples - 1) = {}
      BY <1>1, <1>2, <1>6, HorizontalIs
    <2> QED
      BY <1>1, <1>5, <1>7, <2>1 DEF Undone
  <1>8. CASE segment.predictor = 3
    <2>1. ApplyFloatingPointPredictor(short, layout) = {}
      BY <1>2, <1>6, FloatingPointIs
    <2> QED
      BY <1>1, <1>5, <1>8, <2>1 DEF Undone
  <1> QED
    BY <1>1, <1>7, <1>8

\* Any question about a segment has the answer PredictorsUndoDifferencing gives.
LEMMA SegmentsComeBack ==
  ASSUME question.about = "segment" => question.segment \in Segments
  PROVE  PredictorsUndoDifferencing
  <1> SUFFICES ASSUME question.about = "segment" PROVE PredictorsUndoDifferencing
    BY DEF PredictorsUndoDifferencing
  <1>1. PICK segment \in Segments : segment = question.segment
    OBVIOUS
  <1>2. \A cell \in DOMAIN segment.value : \E undone \in Undone(Encoded(segment), segment, cell[3]) :
           DecodeInteger(undone, cell[1] * RowBytes(segment.layout) + cell[2] * Stride(segment.layout)
                                   + cell[3] * segment.layout.sampleBytes, segment.layout, segment.type)
             = One * segment.value[cell]
    BY SamplesComeBack
  <1>3. segment.layout.columns > 1 =>
          Undone(Beginning(Encoded(segment), Cardinality(DOMAIN Encoded(segment)) - 1), segment,
                 segment.layout.samples - 1) = {}
    BY ShortIsRefused
  <1> QED
    BY <1>1, <1>2, <1>3 DEF PredictorsUndoDifferencing

\* Undoing a predictor and decoding gives back every sample of a segment of any
\* layout, byte order and integer type, and a segment without its last byte is
\* refused (ApplyHorizontalPredictor, ApplyFloatingPointPredictor,
\* DecodeSample).
THEOREM PredictorsAreUndone == Spec => []PredictorsUndoDifferencing
  <1>1. QuestionSound => PredictorsUndoDifferencing
    BY SegmentsComeBack DEF QuestionSound
  <1> QED
    BY <1>1, QuestionsAreSound, PTL
=============================================================================
