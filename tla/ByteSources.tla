------------------------------ MODULE ByteSources ------------------------------
(***************************************************************************)
(* The byte sources a reader may be given, and the one that records what   *)
(* was asked of another.                                                   *)
(*                                                                         *)
(* A memory source holds a buffer.  A local file remembers the size it had *)
(* when it was opened, an asset the size the resolver told; the bytes that *)
(* are there may become fewer or more under both.  Offsets and sizes wrap  *)
(* after MaxOffset.                                                        *)
(***************************************************************************)
EXTENDS Integers, Sequences, FiniteSets

CONSTANTS
  MaxOffset,  \* the largest 64-bit number
  Sizes,      \* sizes a source may have
  Reads,      \* the offsets and sizes that are asked for
  MaxReads    \* bound of the model: reads recorded between two resets

Offset    == 0 .. MaxOffset
ByteRange == [offset : Offset, size : Offset]

ASSUME OffsetAssumption == MaxOffset \in Nat
ASSUME SizesAssumption  == Sizes \subseteq Offset
ASSUME ReadsAssumption  == Reads \subseteq ByteRange
ASSUME BoundAssumption  == MaxReads \in Nat

VARIABLES
  source,     \* kind, whether it is open, the size it tells, the bytes there are
  ranges,     \* RecordingSource::_ranges
  bytesRead,  \* RecordingSource::_bytesRead
  answer      \* the last read and its result

sourceVars == <<source, ranges, bytesRead, answer>>

Kinds == {"memory", "file", "asset"}

Ok(bytes)    == [status |-> "ok", bytesRead |-> bytes]
Short(bytes) == [status |-> "shortRead", bytesRead |-> bytes]
End          == [status |-> "endOfSource", bytesRead |-> 0]
Failed       == [status |-> "failed", bytesRead |-> 0]

Fewest(a, b) == IF a < b THEN a ELSE b

\* How many of the bytes asked for are there.
Present(s, range) ==
  IF range.offset >= s.held THEN 0 ELSE Fewest(range.size, s.held - range.offset)

-----------------------------------------------------------------------------
(***************************************************************************)
(* Read, as the set of its possible results.                               *)
(***************************************************************************)
\* What a memory source and a local file answer before they touch a byte.
AtTheEnd(s, range) ==
  IF range.offset = s.size /\ range.size = 0 THEN Ok(0) ELSE End

MemoryRead(s, range) ==
  IF ~s.open THEN {Failed}
  ELSE IF range.offset >= s.size THEN {AtTheEnd(s, range)}
  ELSE LET copied == Fewest(range.size, s.size - range.offset)
       IN  {IF copied = range.size THEN Ok(copied) ELSE Short(copied)}

\* A wrong LocalFileRead: the size the file had decides, not what fread returns.
LocalFileReadUnchecked(s, range) ==
  IF ~s.open THEN {Failed}
  ELSE IF range.offset >= s.size THEN {AtTheEnd(s, range)}
  ELSE {IF range.offset + range.size <= s.size THEN Ok(range.size) ELSE Short(Present(s, range))}

\* Positioning and reading may fail.
LocalFileRead(s, range) ==
  IF ~s.open THEN {Failed}
  ELSE IF range.offset >= s.size THEN {AtTheEnd(s, range)}
  ELSE LET got == Present(s, range)
       IN  {Failed, IF got = range.size THEN Ok(got) ELSE Short(got)}

\* An asset's Read returns as many bytes as there are, or fewer, or none.
AssetRead(s, range) ==
  IF ~s.open \/ range.offset > s.size \/ range.size > s.size - range.offset THEN {End}
  ELSE IF range.size = 0 THEN {Ok(0)}
  ELSE {IF bytes = range.size THEN Ok(bytes) ELSE IF bytes = 0 THEN Failed ELSE Short(bytes)
          : bytes \in 0 .. Present(s, range)}

Results(s, range) ==
  CASE s.kind = "memory" -> MemoryRead(s, range)
    [] s.kind = "file"   -> LocalFileRead(s, range)
    [] s.kind = "asset"  -> AssetRead(s, range)

-----------------------------------------------------------------------------
(***************************************************************************)
(* RecordingSource.                                                        *)
(***************************************************************************)
WrappedOffset(n) == n % (MaxOffset + 1)

RangeEnd(range) == WrappedOffset(range.offset + range.size)

\* std::sort promises no order among ranges of equal offset.
Sortings(recorded) ==
  LET n == Len(recorded)
  IN  {[i \in 1 .. n |-> recorded[order[i]]] :
         order \in {f \in [1 .. n -> 1 .. n] :
                      /\ \A i, j \in 1 .. n : i # j => f[i] # f[j]
                      /\ \A i \in 1 .. n - 1 : recorded[f[i]].offset <= recorded[f[i + 1]].offset}}

\* One step of the sweep over the sorted ranges.
Swept(sum, range) ==
  LET end == RangeEnd(range)
  IN  IF range.size = 0 THEN sum
      ELSE IF ~sum.started \/ range.offset >= sum.coveredTo
        THEN [distinct |-> WrappedOffset(sum.distinct + range.size), coveredTo |-> end, started |-> TRUE]
      ELSE IF end > sum.coveredTo
        THEN [sum EXCEPT !.distinct = WrappedOffset(@ + end - sum.coveredTo), !.coveredTo = end]
      ELSE sum

\* GetDistinctBytesRead.
DistinctBytesRead(sorted) ==
  LET sweep[k \in 0 .. Len(sorted)] ==
        IF k = 0 THEN [distinct |-> 0, coveredTo |-> 0, started |-> FALSE]
                 ELSE Swept(sweep[k - 1], sorted[k])
  IN  sweep[Len(sorted)].distinct

\* A wrong DidReadRange: reads without a byte count, too.
DidReadRangeOrNothing(recorded, query) ==
  /\ query.size # 0
  /\ \E i \in DOMAIN recorded : /\ recorded[i].offset < RangeEnd(query)
                                /\ query.offset < RangeEnd(recorded[i])

DidReadRange(recorded, query) ==
  /\ query.size # 0
  /\ \E i \in DOMAIN recorded : /\ recorded[i].size # 0
                                /\ recorded[i].offset < RangeEnd(query)
                                /\ query.offset < RangeEnd(recorded[i])

-----------------------------------------------------------------------------
NoAnswer == [range |-> [offset |-> 0, size |-> 0], result |-> Ok(0)]

\* A source that could not be opened has no size.
SourceInit ==
  /\ \E kind \in Kinds, size \in Sizes :
       \/ source = [kind |-> kind, open |-> TRUE,  size |-> size, held |-> size]
       \/ source = [kind |-> kind, open |-> FALSE, size |-> 0, held |-> 0]
  /\ ranges = << >>
  /\ bytesRead = 0
  /\ answer = NoAnswer

\* The range is recorded before the source is asked, so that one that fails
\* shows too.
Read(range) ==
  /\ Len(ranges) < MaxReads
  /\ ranges' = Append(ranges, range)
  /\ bytesRead' = WrappedOffset(bytesRead + range.size)
  /\ \E result \in Results(source, range) : answer' = [range |-> range, result |-> result]
  /\ UNCHANGED source

Reset ==
  /\ ranges # << >>
  /\ ranges' = << >>
  /\ bytesRead' = 0
  /\ UNCHANGED <<source, answer>>

\* Someone else truncates or extends the file.
ChangeLength ==
  /\ source.open /\ source.kind # "memory"
  /\ ranges = << >> /\ answer = NoAnswer
  /\ \E held \in Sizes \ {source.held} : source' = [source EXCEPT !.held = held]
  /\ UNCHANGED <<ranges, bytesRead, answer>>

SourceNext == (\E range \in Reads : Read(range)) \/ Reset \/ ChangeLength

-----------------------------------------------------------------------------
(***************************************************************************)
(* Properties.                                                             *)
(***************************************************************************)
Addressable(range) == range.offset + range.size <= MaxOffset

BytesOf(range) == range.offset .. range.offset + range.size - 1

Recorded == UNION {BytesOf(ranges[i]) : i \in DOMAIN ranges}

\* The two ways to ask what was read agree with each other and with the bytes:
\* a range was read exactly if one of its bytes was asked for, and the distinct
\* bytes are as many as were asked for at all, in whatever order equal offsets
\* are sorted ("they have to agree", RecordingSource::DidReadRange).  No range
\* passes the last offset: the parser checks what it asks for against the size.
RecordedRangesAgree ==
  (\A i \in DOMAIN ranges : Addressable(ranges[i])) =>
    /\ \A query \in Reads : Addressable(query) =>
         (DidReadRange(ranges, query) <=> BytesOf(query) \cap Recorded # {})
    /\ \A sorted \in Sortings(ranges) : DistinctBytesRead(sorted) = Cardinality(Recorded)

\* A read that succeeds got every byte it asked for, also from a file that was
\* truncated after it was opened; and as long as a source holds what it says,
\* every kind of source can read the same ranges: those that lie inside it, up
\* to and including the empty one at its end (PLUGIN_ADAPTER.md section 8).
SourcesAgreeOnWhatSucceeds ==
  LET range == answer.range
      inside(size) == range.offset + range.size <= size
  IN  answer # NoAnswer /\ source.open =>
        /\ answer.result.status = "ok" =>
             answer.result.bytesRead = range.size /\ (range.size = 0 \/ inside(source.held))
        /\ source.size = source.held =>
             (inside(source.size) <=> Ok(range.size) \in Results(source, range))
=============================================================================
