--------------------------- MODULE TiffParserProofs ---------------------------
(***************************************************************************)
(* Theorems about the parser, for every set of valid files, every          *)
(* request and every limit: it is well typed, it reports each failure,     *)
(* it asks the source for nothing outside, it leaves the pixels alone,     *)
(* it keeps its limits, and a chosen level is decoded from its own         *)
(* directory.  Then what a parse that succeeds hands out: a transform      *)
(* without an anchor is reported, the layout is that of the chosen         *)
(* directory and its segments hold the image, the metadata is that of the  *)
(* first directory with a list of the others, and of directories that come *)
(* finest first the coarsest one the step covers is read.                  *)
(***************************************************************************)
EXTENDS TiffParser, WindowLemmas, SequenceTheorems

-----------------------------------------------------------------------------
(***************************************************************************)
(* The inductive invariant.                                                *)
(***************************************************************************)
TagMaps  == UNION {[tags -> Value] : tags \in SUBSET KnownTags}
Sizes    == {SizeIn(tags) : tags \in TagMaps}
Warnings == {"ConflictingGeoTransform", "UnknownPixelAnchor"}
Walking  == {"header", "bigHeader", "chain", "table", "entries"}

\* The offsets a walk of the chain may come to.
Links(f) == {f.first} \cup {f.tables[b].next : b \in DOMAIN f.tables}

\* What a list of sizes has to do with the chain it was made from.
IsListOf(list, chain) ==
  /\ chain = << >> => list = << >>
  /\ chain # << >> => Len(list) < Len(chain)
  /\ chain # << >> /\ (\A n \in DOMAIN chain : HasSize(chain[n])) =>
       /\ Len(list) = Len(chain) - 1
       /\ \A k \in DOMAIN list : list[k] = SizeIn(chain[k + 1])

ListIn(m) == "overviews" \in DOMAIN m /\ m.overviews \in Seq(Sizes)

CallSound ==
  /\ image \in Images /\ libTiff \in LibTiffBuilds
  /\ pc \in {"idle", "choose"} \cup Walking \cup Stages
  /\ request \in Requests \cup {NoRequest}
  /\ pc # "idle" => request \in Requests
  /\ errors \in Seq(Codes) /\ warnings \in Seq(Warnings)
  /\ result \in {"none", "ok", "failed"}

WalkSound ==
  /\ at \in Coord /\ (at = 0 \/ at \in Links(image))
  /\ cursor \in Nat /\ metadataBytes \in Nat /\ metadataBytes <= MaxMetadata
  /\ current \in TagMaps /\ ifds \in Seq(TagMaps) /\ Len(ifds) <= MaxLevels
  /\ pc \in {"table", "entries"} => at \in DOMAIN image.tables /\ Len(ifds) < MaxLevels
  /\ pc = "entries" => TableFits(image, at) /\ cursor # 0

ListSound ==
  /\ ListIn(metadata)
  /\ result # "failed" => IsListOf(metadata.overviews, ifds)

LevelSound ==
  /\ chosen \in Nat /\ chosen <= Len(metadata.overviews)
  /\ chosen # 0 => request.layout
  /\ pc \in Walking => chosen = 0
  /\ pc \in Stages => ifds # << >> /\ target = chosen + 1
  /\ pc = "choose" => ifds # << >> /\ chosen = 0
  /\ result = "ok" /\ chosen # 0 => LayoutSize = SizeIn(ifds[chosen + 1])

RangeSound(r) == r.offset \in Nat /\ r.length \in Nat /\ r.offset + r.length <= image.size

ReadsSound == \A r \in reads : RangeSound(r)

Inv ==
  /\ CallSound
  /\ FailuresAreReported
  /\ WalkSound
  /\ ListSound
  /\ LevelSound
  /\ ReadsSound
-----------------------------------------------------------------------------
(***************************************************************************)
(* Facts about files and lists.                                            *)
(***************************************************************************)

\* The bytes of a value are a number (TypeSize).
LEMMA ValueBytesType == ASSUME NEW value \in Value PROVE ValueBytes(value) \in Nat
  <1>1. value.type \in DOMAIN TypeSizes /\ value.count \in Nat
    BY DEF Value, Coord
  <1>2. TypeSizes[value.type] \in Nat
    BY <1>1 DEF TypeSizes
  <1> QED
    BY <1>1, <1>2, ProductFacts DEF ValueBytes

\* What a file that satisfies ValidImage has where the parser looks.
LEMMA FileFacts ==
  ASSUME NEW f \in Images
  PROVE  /\ f.size \in Nat /\ f.first \in Coord
         /\ CountSize(f) \in Nat /\ EntrySize(f) \in Nat /\ TailSize(f) \in Nat
         /\ \A a \in DOMAIN f.tables :
              /\ f.tables[a] \in Table
              /\ TableSize(f, a) \in Nat
              /\ TableFits(f, a) => Len(f.tables[a].entries) = f.tables[a].count
         /\ \A a \in Links(f) : a \in Coord /\ (a # 0 /\ a + CountSize(f) <= f.size => a \in DOMAIN f.tables)
  <1>1. ValidImage(f)
    BY ImagesAssumption
  <1>2. f.size \in Nat /\ f.first \in Coord
    BY <1>1 DEF ValidImage, Coord
  <1>3. CountSize(f) \in Nat /\ EntrySize(f) \in Nat /\ TailSize(f) \in Nat
    BY DEF CountSize, EntrySize, TailSize
  <1>4. ASSUME NEW a \in DOMAIN f.tables
        PROVE  /\ f.tables[a] \in Table
               /\ TableSize(f, a) \in Nat
               /\ TableFits(f, a) => Len(f.tables[a].entries) = f.tables[a].count
    <2>1. f.tables[a] \in Table /\ (TableFits(f, a) => Len(f.tables[a].entries) = f.tables[a].count)
      BY <1>1 DEF ValidImage
    <2>2. f.tables[a].count \in Nat
      BY <2>1 DEF Table, Coord
    <2>3. f.tables[a].count * EntrySize(f) \in Nat
      BY <2>2, <1>3, ProductFacts
    <2> QED
      BY <2>1, <2>3, <1>3 DEF TableSize
  <1>5. ASSUME NEW a \in Links(f)
        PROVE  a \in Coord /\ (a # 0 /\ a + CountSize(f) <= f.size => a \in DOMAIN f.tables)
    <2>1. a = f.first \/ \E b \in DOMAIN f.tables : a = f.tables[b].next
      BY DEF Links
    <2>2. a \in Coord
      BY <2>1, <1>2, <1>4 DEF Table
    <2> QED
      BY <2>2, <1>1 DEF ValidImage, Links
  <1> QED
    BY <1>2, <1>3, <1>4, <1>5

\* The entry at the cursor.
LEMMA FieldFacts ==
  ASSUME Inv, AtEntry
  PROVE  /\ Field \in Entry
         /\ ValueBytes(Field.value) \in Nat
         /\ Field.at \in Nat
         /\ Field.value \in Value
  <1>1. pc = "entries" /\ cursor <= Here.count
    BY DEF AtEntry
  <1>2. image \in Images /\ at \in DOMAIN image.tables /\ TableFits(image, at)
    BY <1>1 DEF Inv, CallSound, WalkSound
  <1>3. cursor \in Nat \ {0}
    BY <1>1 DEF Inv, WalkSound
  <1>4. Here \in Table /\ Len(Here.entries) = Here.count
    BY <1>2, FileFacts DEF Here
  <1>5. Here.entries \in Seq(Entry)
    BY <1>4 DEF Table
  <1>6. cursor \in 1 .. Len(Here.entries)
    BY <1>1, <1>3, <1>4, <1>5
  <1>7. Field \in Entry
    BY <1>5, <1>6 DEF Field
  <1>8. Field.value \in Value /\ Field.at \in Nat
    BY <1>7 DEF Entry, Coord
  <1> QED
    BY <1>7, <1>8, ValueBytesType

\* A directory that is added to the chain, and its size, if it has one, to the
\* list, leave the list one of the chain (Run).
LEMMA ListGrows ==
  ASSUME NEW chain \in Seq(TagMaps), NEW list \in Seq(Sizes), NEW tags \in TagMaps,
         IsListOf(list, chain)
  PROVE  LET longer == IF chain # << >> /\ HasSize(tags) THEN Append(list, SizeIn(tags)) ELSE list
         IN  longer \in Seq(Sizes) /\ IsListOf(longer, Append(chain, tags))
             /\ Len(list) <= Len(longer)
  <1> DEFINE longer == IF chain # << >> /\ HasSize(tags) THEN Append(list, SizeIn(tags)) ELSE list
             all    == Append(chain, tags)
  <1>1. SizeIn(tags) \in Sizes
    BY DEF Sizes
  <1>2. longer \in Seq(Sizes) /\ Len(list) <= Len(longer) /\ Len(longer) <= Len(list) + 1
    BY <1>1
  <1>3. /\ all \in Seq(TagMaps) /\ Len(all) = Len(chain) + 1 /\ all # << >>
        /\ all[Len(chain) + 1] = tags
        /\ \A n \in 1 .. Len(chain) : all[n] = chain[n]
    OBVIOUS
  <1>4. chain = << >> => longer = << >> /\ Len(chain) = 0
    BY DEF IsListOf
  <1>5. Len(longer) < Len(all)
    BY <1>2, <1>3, <1>4 DEF IsListOf
  <1>6. ASSUME \A n \in DOMAIN all : HasSize(all[n])
        PROVE  /\ Len(longer) = Len(all) - 1
               /\ \A k \in DOMAIN longer : longer[k] = SizeIn(all[k + 1])
    <2>1. CASE chain = << >>
      BY <2>1, <1>3, <1>4
    <2>2. CASE chain # << >>
      <3>1. HasSize(tags) /\ \A n \in DOMAIN chain : HasSize(chain[n])
        BY <1>6, <1>3
      <3>2. /\ Len(list) = Len(chain) - 1
            /\ \A k \in DOMAIN list : list[k] = SizeIn(chain[k + 1])
        BY <3>1, <2>2 DEF IsListOf
      <3>3. longer = Append(list, SizeIn(tags))
        BY <3>1, <2>2
      <3>4. Len(longer) = Len(all) - 1
        BY <3>2, <3>3, <1>3, <1>1
      <3>5. ASSUME NEW k \in 1 .. Len(list) PROVE longer[k] = SizeIn(all[k + 1])
        BY <3>2, <3>3, <1>3, <1>1
      <3>6. longer[Len(list) + 1] = SizeIn(all[Len(list) + 2])
        BY <3>2, <3>3, <1>3, <1>1
      <3> QED
        BY <3>3, <3>4, <3>5, <3>6, <1>1
    <2> QED
      BY <2>1, <2>2
  <1> QED
    BY <1>2, <1>3, <1>5, <1>6 DEF IsListOf
-----------------------------------------------------------------------------
(***************************************************************************)
(* The kinds of steps: a call begins, fails, reads, walks, decodes, ends.  *)
(***************************************************************************)

\* Nothing is parsed before the first call.
LEMMA InitInv == ASSUME Init PROVE Inv
  <1>1. << >> \in TagMaps
    <2>1. << >> \in [{} -> Value]
      OBVIOUS
    <2> QED
      BY <2>1 DEF TagMaps
  <1>2. CallSound /\ FailuresAreReported
    BY DEF Init, CallSound, FailuresAreReported
  <1>3. WalkSound
    BY <1>1, LimitsAssumption, MaxCoordAssumption DEF Init, WalkSound, Walking, Coord
  <1>4. ListSound
    BY DEF Init, ListSound, ListIn, IsListOf, NoMetadata
  <1>5. LevelSound
    BY <1>4 DEF Init, LevelSound, ListSound, ListIn, Walking, Stages, NoMetadata
  <1>6. ReadsSound
    BY DEF Init, ReadsSound
  <1> QED
    BY <1>2, <1>3, <1>4, <1>5, <1>6 DEF Inv

\* A call begins with a parser, a sink and a metadata record of its own.
LEMMA BeginKeepsInv ==
  ASSUME Inv, NEW r \in Requests, Begin(r)
  PROVE  Inv'
  <1>1. << >> \in TagMaps
    <2>1. << >> \in [{} -> Value]
      OBVIOUS
    <2> QED
      BY <2>1 DEF TagMaps
  <1>2. CallSound' /\ FailuresAreReported'
    BY DEF Inv, CallSound, Begin, source, FailuresAreReported, Walking
  <1>3. WalkSound'
    BY <1>1, LimitsAssumption, MaxCoordAssumption DEF Begin, source, WalkSound, Walking, Coord
  <1>4. ListSound'
    BY DEF Begin, ListSound, ListIn, IsListOf, NoMetadata
  <1>5. LevelSound'
    BY <1>4 DEF Begin, LevelSound, ListSound, ListIn, Walking, Stages, NoMetadata
  <1>6. ReadsSound'
    BY DEF Begin, ReadsSound
  <1> QED
    BY <1>2, <1>3, <1>4, <1>5, <1>6 DEF Inv

\* Whatever the step at pc asks for, its range is a pair of numbers.
LEMMA AskedType ==
  ASSUME Inv, Asks
  PROVE  Asked.offset \in Nat /\ Asked.length \in Nat
  <1>1. image \in Images /\ at \in Nat
    BY DEF Inv, CallSound, WalkSound, Coord
  <1>2. CASE pc = "header"
    BY <1>2 DEF Asked
  <1>3. CASE pc = "bigHeader"
    BY <1>3 DEF Asked
  <1>4. CASE pc = "chain"
    BY <1>1, <1>4, FileFacts DEF Asked
  <1>5. CASE pc = "table"
    <2>1. at \in DOMAIN image.tables
      BY <1>5 DEF Inv, WalkSound
    <2> QED
      BY <1>1, <1>5, <2>1, FileFacts DEF Asked
  <1>6. CASE AtEntry
    <2>1. pc = "entries"
      BY <1>6 DEF AtEntry
    <2> QED
      BY <2>1, <1>6, FieldFacts DEF Asked
  <1> QED
    BY <1>2, <1>3, <1>4, <1>5, <1>6 DEF Asks

\* A read that Parser::Read lets pass lies in the source.
LEMMA IssueIsInside ==
  ASSUME Inv, Asks, Inside(Asked), Issue, UNCHANGED source
  PROVE  ReadsSound'
  <1>1. image' = image /\ image.size \in Nat
    BY FileFacts DEF source, Inv, CallSound
  <1>2. RangeSound(Asked)
    BY <1>1, AskedType DEF Inside, RangeSound
  <1>3. \A r \in reads' : RangeSound(r)
    BY <1>2 DEF Issue, Inv, ReadsSound
  <1> QED
    BY <1>1, <1>3 DEF ReadsSound, RangeSound

\* The reads of a step: none, or the one that was asked.
ReadsStep == UNCHANGED reads \/ Delivered

\* A step that reads nothing, or what it asked, keeps the reads in the source.
LEMMA ReadsStayBelow ==
  ASSUME Inv, ReadsStep, UNCHANGED source
  PROVE  ReadsSound'
  <1>1. CASE UNCHANGED reads
    BY <1>1 DEF Inv, ReadsSound, RangeSound, source
  <1>2. CASE Delivered
    BY <1>2, IssueIsInside DEF Delivered
  <1> QED
    BY <1>1, <1>2 DEF ReadsStep

\* A call that ends with an error, the list of sizes as it was or longer.
FailedStep ==
  /\ pc # "idle" /\ pc' = "idle" /\ result' = "failed"
  /\ errors' \in Seq(Codes) /\ errors' # << >>
  /\ warnings' \in Seq(Warnings)
  /\ UNCHANGED <<source, request, walk, found>>
  /\ ListIn(metadata') /\ Len(metadata.overviews) <= Len(metadata'.overviews)

\* A call that fails keeps the invariant (every return of false).
LEMMA FailedStepKeepsInv ==
  ASSUME Inv, FailedStep, ReadsSound'
  PROVE  Inv'
  <1>1. CallSound' /\ FailuresAreReported'
    BY DEF Inv, CallSound, FailedStep, source, FailuresAreReported
  <1>2. WalkSound'
    BY DEF Inv, WalkSound, FailedStep, walk, source
  <1>3. ListSound'
    BY DEF ListSound, FailedStep, ListIn
  <1>4. LevelSound'
    BY DEF Inv, LevelSound, ListSound, ListIn, FailedStep, found, Walking, Stages
  <1> QED
    BY <1>1, <1>2, <1>3, <1>4 DEF Inv

\* A running call has reported nothing.
LEMMA Running ==
  ASSUME Inv, pc # "idle"
  PROVE  errors = << >> /\ result = "none" /\ request \in Requests
  BY DEF Inv, CallSound, FailuresAreReported

\* Parser::Error, with the metadata as it is or as it was half stored.
LEMMA FailIsFailedStep ==
  ASSUME Inv, pc # "idle", NEW code \in Codes, Fail(code), warnings' \in Seq(Warnings),
         ListIn(metadata'), Len(metadata.overviews) <= Len(metadata'.overviews)
  PROVE  FailedStep
  <1>1. errors' = Append(<< >>, code)
    BY Running DEF Fail
  <1>2. errors' \in Seq(Codes) /\ errors' # << >>
    BY <1>1
  <1> QED
    BY <1>2 DEF FailedStep, Fail, Returns

\* The list of sizes is left alone.
SameList == "overviews" \in DOMAIN metadata' /\ metadata'.overviews = metadata.overviews

\* A refusal: an error, what was read, and the list of sizes as it was.
LEMMA RefusalKeepsInv ==
  ASSUME Inv, pc # "idle", NEW code \in Codes, Fail(code), warnings' \in Seq(Warnings),
         SameList, ReadsStep
  PROVE  Inv'
  <1>1. ListIn(metadata') /\ Len(metadata.overviews) <= Len(metadata'.overviews)
    BY DEF SameList, ListIn, Inv, ListSound
  <1>2. FailedStep
    BY <1>1, FailIsFailedStep
  <1>3. ReadsSound'
    BY ReadsStayBelow DEF Fail, Returns
  <1> QED
    BY <1>2, <1>3, FailedStepKeepsInv

\* A refusal that stores nothing.
LEMMA PlainRefusalKeepsInv ==
  ASSUME Inv, pc # "idle", NEW code \in Codes, Fail(code), UNCHANGED <<metadata, warnings>>,
         ReadsStep
  PROVE  Inv'
  <1>1. SameList /\ warnings' \in Seq(Warnings)
    BY DEF SameList, Inv, ListSound, ListIn, CallSound
  <1> QED
    BY <1>1, RefusalKeepsInv
-----------------------------------------------------------------------------
(***************************************************************************)
(* The header and the chain.                                               *)
(***************************************************************************)

\* A range outside the source, or a source that does not answer.
LEMMA FailReadKeepsInv ==
  ASSUME Inv, pc # "idle", NEW code \in Codes, FailRead(code), ReadsSound'
  PROVE  Inv'
  <1>1. errors' = <<code, "UnsupportedVersion">> \/ errors' = <<code>>
    BY Running DEF FailRead
  <1>2. "UnsupportedVersion" \in Codes
    BY DEF Codes
  <1>3. errors' \in Seq(Codes) /\ errors' # << >>
    <2>1. <<code, "UnsupportedVersion">> \in Seq(Codes) /\ <<code>> \in Seq(Codes)
      BY <1>2
    <2>2. <<code, "UnsupportedVersion">> # << >> /\ <<code>> # << >>
      OBVIOUS
    <2> QED
      BY <1>1, <2>1, <2>2
  <1>4. ListIn(metadata') /\ Len(metadata.overviews) <= Len(metadata'.overviews)
    BY DEF FailRead, Inv, ListSound, ListIn
  <1>5. warnings' \in Seq(Warnings)
    BY DEF FailRead, Inv, CallSound
  <1>6. FailedStep
    BY <1>3, <1>4, <1>5 DEF FailedStep, FailRead, Returns, found
  <1> QED
    BY <1>6, FailedStepKeepsInv

\* Only a running call asks the source for anything (Parser::Read).
LEMMA AsksWhileRunning == ASSUME Asks PROVE pc # "idle"
  BY DEF Asks, AtEntry

\* Refusing a range outside the source keeps the invariant (Parser::Read).
LEMMA ReadBeyondKeepsInv == ASSUME Inv, ReadBeyond PROVE Inv'
  <1>1. pc # "idle" /\ "TruncatedData" \in Codes
    BY AsksWhileRunning DEF ReadBeyond, Codes
  <1>2. ReadsSound'
    BY ReadsStayBelow DEF ReadBeyond, FailRead, Returns, ReadsStep
  <1> QED
    BY <1>1, <1>2, FailReadKeepsInv DEF ReadBeyond

\* A source that does not answer keeps the invariant (Parser::Read).
LEMMA ReadFailsKeepsInv == ASSUME Inv, ReadFails PROVE Inv'
  <1>1. pc # "idle" /\ "ShortRead" \in Codes /\ "SourceUnavailable" \in Codes
    BY AsksWhileRunning DEF ReadFails, Codes
  <1>2. ReadsSound'
    BY IssueIsInside DEF ReadFails, FailRead, Returns
  <1> QED
    BY <1>1, <1>2, FailReadKeepsInv DEF ReadFails

\* A step within the header or the chain: the walk is where WalkSound wants it.
WalkStep ==
  /\ pc \in Walking /\ pc' \in Walking
  /\ UNCHANGED <<source, request, errors, result, target, found, warnings>>
  /\ WalkSound'
  /\ ListIn(metadata') /\ IsListOf(metadata'.overviews, ifds')

\* A step of the walk keeps the invariant (the loops of Run and ReadIfd).
LEMMA WalkStepKeepsInv ==
  ASSUME Inv, WalkStep, ReadsSound'
  PROVE  Inv'
  <1>1. CallSound' /\ FailuresAreReported'
    BY Running DEF Inv, CallSound, WalkStep, source, FailuresAreReported, Walking
  <1>2. ListSound'
    BY DEF ListSound, WalkStep
  <1>3. LevelSound'
    BY <1>1, <1>2 DEF Inv, LevelSound, ListSound, ListIn, WalkStep, found, Walking, Stages, FailuresAreReported
  <1> QED
    BY <1>1, <1>2, <1>3 DEF Inv, WalkStep

\* A step that moves on and stores nothing.
LEMMA MoveKeepsInv ==
  ASSUME Inv, pc \in Walking, NEW next \in Walking, Goes(next), OutputsStay, WalkSound',
         UNCHANGED ifds, ReadsStep
  PROVE  Inv'
  <1>1. pc # "idle"
    BY DEF Walking
  <1>2. ListIn(metadata') /\ IsListOf(metadata'.overviews, ifds')
    BY <1>1, Running DEF Inv, ListSound, OutputsStay, FailuresAreReported
  <1>3. WalkStep
    BY <1>2 DEF WalkStep, Goes, OutputsStay, Walking
  <1>4. ReadsSound'
    BY ReadsStayBelow DEF Goes
  <1> QED
    BY <1>3, <1>4, WalkStepKeepsInv

\* Refusing a source that is too short keeps the invariant (Run).
LEMMA RefuseSourceKeepsInv == ASSUME Inv, RefuseSource PROVE Inv'
  <1>1. pc # "idle" /\ "TruncatedHeader" \in Codes
    BY DEF RefuseSource, Codes
  <1> QED
    BY <1>1, PlainRefusalKeepsInv DEF RefuseSource, ReadsStep

\* Refusing a byte order or a version keeps the invariant (Run).
LEMMA RefuseHeaderKeepsInv == ASSUME Inv, RefuseHeader PROVE Inv'
  <1>1. pc # "idle" /\ "InvalidSignature" \in Codes /\ "UnsupportedVersion" \in Codes
    BY DEF RefuseHeader, Codes
  <1> QED
    BY <1>1, PlainRefusalKeepsInv DEF RefuseHeader, ReadsStep

\* Refusing a BigTIFF offset size keeps the invariant (Run).
LEMMA RefuseBigHeaderKeepsInv == ASSUME Inv, RefuseBigHeader PROVE Inv'
  <1>1. pc # "idle" /\ "UnsupportedVersion" \in Codes
    BY DEF RefuseBigHeader, Codes
  <1> QED
    BY <1>1, PlainRefusalKeepsInv DEF RefuseBigHeader, ReadsStep

\* The first directory is one of the places the walk may come to.
LEMMA FirstLink == ASSUME Inv PROVE image.first \in Coord /\ image.first \in Links(image)
  BY FileFacts DEF Inv, CallSound, Links

\* Reading the header keeps the invariant (Run).
LEMMA ReadHeaderKeepsInv == ASSUME Inv, ReadHeader PROVE Inv'
  <1>1. pc \in Walking /\ ReadsStep /\ "chain" \in Walking /\ "bigHeader" \in Walking
    BY DEF ReadHeader, Walking, ReadsStep
  <1>2. WalkSound'
    BY FirstLink DEF Inv, WalkSound, ReadHeader, Goes, source
  <1>3. UNCHANGED ifds /\ OutputsStay
    BY DEF ReadHeader
  <1> QED
    BY <1>1, <1>2, <1>3, MoveKeepsInv DEF ReadHeader

\* Reading the BigTIFF header keeps the invariant (Run).
LEMMA ReadBigHeaderKeepsInv == ASSUME Inv, ReadBigHeader PROVE Inv'
  <1>1. pc \in Walking /\ ReadsStep /\ "chain" \in Walking
    BY DEF ReadBigHeader, Walking, ReadsStep
  <1>2. WalkSound'
    BY FirstLink DEF Inv, WalkSound, ReadBigHeader, Goes, source
  <1> QED
    BY <1>1, <1>2, MoveKeepsInv DEF ReadBigHeader

\* Where a count of entries can be read there is a table (ReadIfd).
LEMMA CountEntriesKeepsInv == ASSUME Inv, CountEntries PROVE Inv'
  <1>1. pc \in Walking /\ ReadsStep /\ "table" \in Walking
    BY DEF CountEntries, Walking, ReadsStep
  <1>2. at # 0 /\ Len(ifds) < MaxLevels /\ Inside(Asked) /\ Asked = [offset |-> at, length |-> CountSize(image)]
    BY DEF CountEntries, Delivered, Asks, AtEntry, Asked
  <1>3. at + CountSize(image) <= image.size
    BY <1>2, FileFacts DEF Inside, Inv, CallSound, WalkSound, Coord
  <1>4. at \in DOMAIN image.tables
    BY <1>2, <1>3, FileFacts DEF Inv, CallSound, WalkSound
  <1>5. WalkSound'
    BY <1>2, <1>4 DEF Inv, WalkSound, CountEntries, Goes, source, walk
  <1> QED
    BY <1>1, <1>5, MoveKeepsInv DEF CountEntries, walk

\* Refusing a chain that is too deep or empty keeps the invariant (Run).
LEMMA RefuseChainKeepsInv == ASSUME Inv, RefuseChain PROVE Inv'
  <1>1. pc # "idle" /\ "InvalidOffset" \in Codes
    BY DEF RefuseChain, Codes
  <1> QED
    BY <1>1, PlainRefusalKeepsInv DEF RefuseChain, ReadsStep

\* Refusing a table that does not fit keeps the invariant (ReadIfd).
LEMMA RefuseTableKeepsInv == ASSUME Inv, RefuseTable PROVE Inv'
  <1>1. pc # "idle" /\ "InvalidOffset" \in Codes
    BY DEF RefuseTable, Codes
  <1> QED
    BY <1>1, PlainRefusalKeepsInv DEF RefuseTable, ReadsStep

\* A table that is read fits, and its first entry is next (ReadIfd).
LEMMA ReadTableKeepsInv == ASSUME Inv, ReadTable PROVE Inv'
  <1>1. pc \in Walking /\ ReadsStep /\ "entries" \in Walking
    BY DEF ReadTable, Walking, ReadsStep
  <1>2. << >> \in TagMaps
    <2>1. << >> \in [{} -> Value]
      OBVIOUS
    <2> QED
      BY <2>1 DEF TagMaps
  <1>3. TableFits(image, at)
    BY DEF ReadTable, Delivered, Asks, AtEntry
  <1>4. WalkSound'
    BY <1>2, <1>3 DEF Inv, WalkSound, ReadTable, Goes, source
  <1> QED
    BY <1>1, <1>4, MoveKeepsInv DEF ReadTable

\* Refusing an entry keeps the invariant (ReadIfd).
LEMMA RefuseEntryKeepsInv == ASSUME Inv, RefuseEntry PROVE Inv'
  <1>1. pc # "idle" /\ "InvalidOffset" \in Codes
    BY DEF RefuseEntry, AtEntry, Codes
  <1> QED
    BY <1>1, PlainRefusalKeepsInv DEF RefuseEntry, ReadsStep

\* Skipping an entry keeps the invariant (ReadIfd).
LEMMA SkipEntryKeepsInv == ASSUME Inv, SkipEntry PROVE Inv'
  <1>1. pc \in Walking /\ ReadsStep /\ "entries" \in Walking /\ pc = "entries"
    BY DEF SkipEntry, AtEntry, Walking, ReadsStep
  <1>2. WalkSound'
    BY <1>1 DEF Inv, WalkSound, SkipEntry, Goes, source
  <1> QED
    BY <1>1, <1>2, MoveKeepsInv DEF SkipEntry

\* A value that is taken has a known tag and is within the limit (ReadIfd).
LEMMA TakeEntryKeepsInv == ASSUME Inv, TakeEntry PROVE Inv'
  <1>1. pc \in Walking /\ "entries" \in Walking /\ pc = "entries" /\ AtEntry
    BY DEF TakeEntry, AtEntry, Walking
  <1>2. ReadsStep
    BY DEF TakeEntry, ReadsStep
  <1>3. current' \in TagMaps
    <2>1. PICK tags \in SUBSET KnownTags : current \in [tags -> Value]
      BY DEF Inv, WalkSound, TagMaps
    <2>2. Field.tag \in KnownTags /\ Field.value \in Value
      BY <1>1, FieldFacts DEF TakeEntry, Taken, IsKnown
    <2>3. current' \in [tags \cup {Field.tag} -> Value]
      BY <2>1, <2>2 DEF TakeEntry
    <2>4. tags \cup {Field.tag} \in SUBSET KnownTags
      BY <2>2
    <2> QED
      BY <2>3, <2>4 DEF TagMaps
  <1>4. metadataBytes' \in Nat /\ metadataBytes' <= MaxMetadata
    BY <1>1, FieldFacts, LimitsAssumption DEF TakeEntry, Taken, WithinLimit, Inv, WalkSound
  <1>5. WalkSound'
    BY <1>1, <1>3, <1>4 DEF Inv, WalkSound, TakeEntry, Goes, source
  <1> QED
    BY <1>1, <1>2, <1>5, MoveKeepsInv DEF TakeEntry

\* The list of sizes after a directory.
LEMMA WithOverviewFacts ==
  ASSUME Inv, pc = "entries"
  PROVE  /\ ListIn(WithOverview)
         /\ IsListOf(WithOverview.overviews, Append(ifds, current))
         /\ Len(metadata.overviews) <= Len(WithOverview.overviews)
  <1>1. ifds \in Seq(TagMaps) /\ current \in TagMaps
    BY DEF Inv, WalkSound
  <1>2. metadata.overviews \in Seq(Sizes) /\ "overviews" \in DOMAIN metadata
    BY DEF Inv, ListSound, ListIn
  <1>3. IsListOf(metadata.overviews, ifds)
    BY Running DEF Inv, ListSound
  <1>4. /\ "overviews" \in DOMAIN WithOverview
        /\ WithOverview.overviews = IF ifds # << >> /\ HasSize(current)
                                    THEN Append(metadata.overviews, SizeIn(current))
                                    ELSE metadata.overviews
    BY <1>2 DEF WithOverview
  <1> QED
    BY <1>1, <1>2, <1>3, <1>4, ListGrows DEF ListIn

\* A directory that ends is in the chain, and in the list if it has a size (Run).
LEMMA EndTableKeepsInv == ASSUME Inv, EndTable PROVE Inv'
  <1>1. pc = "entries" /\ pc \in Walking /\ pc' = "chain" /\ "chain" \in Walking
    BY DEF EndTable, Goes, Walking
  <1>2. at \in DOMAIN image.tables /\ image \in Images
    BY <1>1 DEF Inv, WalkSound, CallSound
  <1>3. Here.next \in Coord /\ Here.next \in Links(image)
    BY <1>2, FileFacts DEF Here, Links, Table
  <1>4. << >> \in TagMaps
    <2>1. << >> \in [{} -> Value]
      OBVIOUS
    <2> QED
      BY <2>1 DEF TagMaps
  <1>5. ifds \in Seq(TagMaps) /\ current \in TagMaps /\ Len(ifds) < MaxLevels
    BY <1>1 DEF Inv, WalkSound
  <1>6. ifds' = Append(ifds, current) /\ at' = Here.next /\ cursor' = 0 /\ current' = << >>
        /\ metadataBytes' = metadataBytes /\ image' = image
    BY DEF EndTable, Goes, source
  <1>7. ifds' \in Seq(TagMaps) /\ Len(ifds') <= MaxLevels
    BY <1>5, <1>6, LimitsAssumption
  <1>8. WalkSound'
    BY <1>1, <1>3, <1>4, <1>6, <1>7 DEF Inv, WalkSound
  <1>9. ListIn(metadata') /\ IsListOf(metadata'.overviews, ifds')
    BY <1>1, <1>6, WithOverviewFacts DEF EndTable
  <1>10. WalkStep
    BY <1>1, <1>8, <1>9 DEF WalkStep, EndTable, Goes
  <1>11. ReadsSound'
    BY ReadsStayBelow DEF EndTable, Goes, ReadsStep
  <1> QED
    BY <1>10, <1>11, WalkStepKeepsInv

\* A chain that ends is not empty and its first directory is decoded (Run).
LEMMA EndChainKeepsInv == ASSUME Inv, EndChain PROVE Inv'
  <1>1. pc = "chain" /\ pc \in Walking /\ pc' = "size" /\ ifds # << >> /\ target' = 1
    BY DEF EndChain, Goes, Walking
  <1>2. CallSound' /\ FailuresAreReported'
    BY <1>1, Running DEF Inv, CallSound, EndChain, Goes, source, FailuresAreReported, Stages
  <1>3. WalkSound' /\ ListSound'
    BY <1>1 DEF Inv, WalkSound, ListSound, EndChain, Goes, source, walk
  <1>4. LevelSound'
    BY <1>1, Running DEF Inv, LevelSound, EndChain, Goes, walk, found, Walking, Stages
  <1>5. ReadsSound'
    BY ReadsStayBelow DEF EndChain, Goes, ReadsStep
  <1> QED
    BY <1>2, <1>3, <1>4, <1>5 DEF Inv
-----------------------------------------------------------------------------
(***************************************************************************)
(* A directory.                                                            *)
(***************************************************************************)

\* What is stored of a directory leaves the list of sizes alone.
LEMMA FillsKeepList ==
  ASSUME Inv, NEW new, Fills(new),
         target = 1 => "overviews" \in DOMAIN new /\ new.overviews = metadata.overviews
  PROVE  SameList
  BY DEF Fills, SameList, Inv, ListSound, ListIn

\* The tile size of a directory is stored apart from the list of sizes (Decode).
LEMMA StoredTile == ASSUME Inv PROVE
  target = 1 => /\ "overviews" \in DOMAIN [Filling EXCEPT !.tile = Tile]
                /\ [Filling EXCEPT !.tile = Tile].overviews = metadata.overviews
  BY DEF Filling, Inv, ListSound, ListIn

\* The bands of a directory are stored apart from the list of sizes (Decode).
LEMMA StoredBands == ASSUME Inv, NEW list PROVE
  target = 1 => /\ "overviews" \in DOMAIN [Filling EXCEPT !.bands = list]
                /\ [Filling EXCEPT !.bands = list].overviews = metadata.overviews
  BY DEF Filling, Inv, ListSound, ListIn

\* The transform of a directory is stored apart from the list of sizes (Decode).
LEMMA StoredTransform == ASSUME Inv PROVE
  target = 1 => /\ "overviews" \in DOMAIN [Filling EXCEPT !.transform = Transform]
                /\ [Filling EXCEPT !.transform = Transform].overviews = metadata.overviews
  BY DEF Filling, Inv, ListSound, ListIn

\* A step from one part of a directory to the next.
DecodeStep ==
  /\ pc \in Stages /\ pc' \in Stages
  /\ UNCHANGED <<source, request, errors, result, walk, target, chosen, reads>>
  /\ warnings' \in Seq(Warnings)
  /\ SameList

\* A step within a directory keeps the invariant (Decode).
LEMMA DecodeStepKeepsInv == ASSUME Inv, DecodeStep PROVE Inv'
  <1>1. pc # "idle" /\ pc' # "idle" /\ pc' \notin Walking /\ pc' # "choose"
    BY DEF DecodeStep, Stages, Walking
  <1>2. CallSound' /\ FailuresAreReported'
    BY <1>1, Running DEF Inv, CallSound, DecodeStep, source, FailuresAreReported
  <1>3. WalkSound'
    BY <1>1 DEF Inv, WalkSound, DecodeStep, source, walk, Stages, Walking
  <1>4. ListSound'
    BY DEF Inv, ListSound, ListIn, DecodeStep, SameList, walk
  <1>5. LevelSound'
    BY <1>1, Running DEF Inv, LevelSound, DecodeStep, SameList, walk, Stages
  <1>6. ReadsSound'
    BY ReadsStayBelow DEF DecodeStep, ReadsStep
  <1> QED
    BY <1>2, <1>3, <1>4, <1>5, <1>6 DEF Inv

\* Storing the size keeps the invariant (Decode).
LEMMA DecodeSizeKeepsInv == ASSUME Inv, DecodeSize PROVE Inv'
  <1> DEFINE new == [Filling EXCEPT !.width = SizeIn(T).width, !.height = SizeIn(T).height]
  <1>1. target = 1 => "overviews" \in DOMAIN new /\ new.overviews = metadata.overviews
    BY DEF Filling, Inv, ListSound, ListIn
  <1>2. SameList
    BY <1>1, FillsKeepList DEF DecodeSize
  <1>3. DecodeStep
    BY <1>2 DEF DecodeStep, DecodeSize, Decodes, Decoding, Goes, found, Stages, Inv, CallSound
  <1> QED
    BY <1>3, DecodeStepKeepsInv

\* Storing the bands keeps the invariant (Decode).
LEMMA DecodeSamplesKeepsInv == ASSUME Inv, DecodeSamples PROVE Inv'
  <1>1. SameList
    BY StoredBands, FillsKeepList DEF DecodeSamples
  <1>2. DecodeStep
    BY <1>1 DEF DecodeStep, DecodeSamples, Decodes, Decoding, Goes, found, Stages, Inv, CallSound
  <1> QED
    BY <1>2, DecodeStepKeepsInv

\* Accepting compression, predictor and planes keeps the invariant (Decode).
LEMMA DecodeCodingKeepsInv == ASSUME Inv, DecodeCoding PROVE Inv'
  <1>1. SameList
    BY DEF DecodeCoding, SameList, Inv, ListSound, ListIn
  <1>2. DecodeStep
    BY <1>1 DEF DecodeStep, DecodeCoding, Decodes, Decoding, Goes, found, Stages, Inv, CallSound
  <1> QED
    BY <1>2, DecodeStepKeepsInv

\* Accepting the segments keeps the invariant (Decode).
LEMMA DecodeSegmentsKeepsInv == ASSUME Inv, DecodeSegments PROVE Inv'
  <1>1. SameList
    BY StoredTile, FillsKeepList DEF DecodeSegments
  <1>2. DecodeStep
    BY <1>1 DEF DecodeStep, DecodeSegments, Decodes, Decoding, Goes, found, Stages, Inv, CallSound
  <1> QED
    BY <1>2, DecodeStepKeepsInv

\* Storing what the keys say keeps the invariant (Decode).
LEMMA DecodeKeysKeepsInv == ASSUME Inv, DecodeKeys PROVE Inv'
  <1> DEFINE new == [Filling EXCEPT !.crs = CrsKind, !.anchor = Anchor,
                       !.epsg = KeyValue(IF CrsKind = "Projected" THEN 3072 ELSE 2048),
                       !.metre = CrsKind = "Projected" /\ KeyValue(3076) = 9001]
  <1>1. target = 1 => "overviews" \in DOMAIN new /\ new.overviews = metadata.overviews
    BY DEF Filling, Inv, ListSound, ListIn
  <1>2. Fills(new)
    BY DEF DecodeKeys
  <1>3. SameList
    <2> HIDE DEF new
    <2> QED
      BY <1>1, <1>2, FillsKeepList
  <1>4. DecodeStep
    BY <1>3 DEF DecodeStep, DecodeKeys, Decodes, Decoding, Goes, found, Stages, Inv, CallSound
  <1> QED
    BY <1>4, DecodeStepKeepsInv

\* The warnings about georeferencing are lists of warnings (Decode).
LEMMA WarningTypes == ConflictWarning \in Seq(Warnings) /\ AnchorWarning \in Seq(Warnings)
  <1>1. ConflictWarning \in Seq(Warnings)
    <2>1. "ConflictingGeoTransform" \in Warnings
      BY DEF Warnings
    <2>2. <<"ConflictingGeoTransform">> \in Seq(Warnings) /\ << >> \in Seq(Warnings)
      BY <2>1
    <2> QED
      BY <2>2 DEF ConflictWarning
  <1>2. AnchorWarning \in Seq(Warnings)
    <2>1. "UnknownPixelAnchor" \in Warnings
      BY DEF Warnings
    <2>2. <<"UnknownPixelAnchor">> \in Seq(Warnings) /\ << >> \in Seq(Warnings)
      BY <2>1
    <2> QED
      BY <2>2 DEF AnchorWarning
  <1> QED
    BY <1>1, <1>2

\* Added to the ones so far they are warnings (Decode).
LEMMA WarningsGrow ==
  ASSUME Inv
  PROVE  /\ warnings \o ConflictWarning \in Seq(Warnings)
         /\ warnings \o ConflictWarning \o AnchorWarning \in Seq(Warnings)
  <1>1. warnings \in Seq(Warnings)
    BY DEF Inv, CallSound
  <1> QED
    BY <1>1, WarningTypes

\* Storing the transform keeps the invariant (Decode).
LEMMA DecodeTransformKeepsInv == ASSUME Inv, DecodeTransform PROVE Inv'
  <1>1. SameList
    BY StoredTransform, FillsKeepList DEF DecodeTransform
  <1>2. warnings' \in Seq(Warnings)
    BY WarningsGrow DEF DecodeTransform
  <1>3. DecodeStep
    BY <1>1, <1>2 DEF DecodeStep, DecodeTransform, Decoding, Goes, found, Stages
  <1> QED
    BY <1>3, DecodeStepKeepsInv

\* Refusals of a directory: Decoding leaves the reads alone, and what was
\* stored leaves the list alone.
LEMMA DecodeRefusalKeepsInv ==
  ASSUME Inv, NEW stage \in Stages \cup {"choose"}, Decoding(stage),
         NEW code \in Codes, Fail(code), warnings' \in Seq(Warnings), SameList
  PROVE  Inv'
  <1>1. pc # "idle" /\ ReadsStep
    BY DEF Decoding, Stages, ReadsStep
  <1> QED
    BY <1>1, RefusalKeepsInv

\* What is left alone stays as the invariant wants it.
LEMMA NothingStored ==
  ASSUME Inv
  PROVE  /\ UNCHANGED metadata => SameList
         /\ UNCHANGED warnings => warnings' \in Seq(Warnings)
  BY DEF Inv, ListSound, ListIn, CallSound, SameList

\* Refusing a size keeps the invariant (Decode).
LEMMA RefuseSizeKeepsInv == ASSUME Inv, RefuseSize PROVE Inv'
  <1>1. "InvalidRasterSize" \in Codes /\ "size" \in Stages
    BY DEF Codes, Stages
  <1> QED
    BY <1>1, NothingStored, DecodeRefusalKeepsInv DEF RefuseSize, Refuses

\* Refusing the samples, some bands stored, keeps the invariant (Decode).
LEMMA RefuseSamplesKeepsInv == ASSUME Inv, RefuseSamples PROVE Inv'
  <1>1. /\ {"InvalidRasterSize", "UnsupportedSampleFormat", "MemoryBudgetExceeded"} \subseteq Codes
        /\ "samples" \in Stages
    BY DEF Codes, Stages
  <1>2. SameList
    BY NothingStored, StoredBands, FillsKeepList DEF RefuseSamples
  <1> QED
    BY <1>1, <1>2, NothingStored, DecodeRefusalKeepsInv DEF RefuseSamples, Refuses

\* Refusing compression, predictor or planes keeps the invariant (Decode).
LEMMA RefuseCodingKeepsInv == ASSUME Inv, RefuseCoding PROVE Inv'
  <1>1. /\ "UnsupportedCompression" \in Codes /\ "UnsupportedSampleFormat" \in Codes
        /\ "UnsupportedPlanarConfiguration" \in Codes /\ "coding" \in Stages
    BY DEF Codes, Stages
  <1> QED
    BY <1>1, NothingStored, DecodeRefusalKeepsInv DEF RefuseCoding, Refuses

\* Refusing the segments, the tile stored, keeps the invariant (Decode).
LEMMA RefuseSegmentsKeepsInv == ASSUME Inv, RefuseSegments PROVE Inv'
  <1>1. "InconsistentTileLayout" \in Codes /\ "InvalidOffset" \in Codes /\ "segments" \in Stages
    BY DEF Codes, Stages
  <1>2. SameList
    BY StoredTile, FillsKeepList DEF RefuseSegments
  <1> QED
    BY <1>1, <1>2, NothingStored, DecodeRefusalKeepsInv DEF RefuseSegments, Refuses

\* Refusing the keys keeps the invariant (Decode).
LEMMA RefuseKeysKeepsInv == ASSUME Inv, RefuseKeys PROVE Inv'
  <1>1. "InvalidCrs" \in Codes /\ "keys" \in Stages
    BY DEF Codes, Stages
  <1> QED
    BY <1>1, NothingStored, DecodeRefusalKeepsInv DEF RefuseKeys, Refuses

\* Refusing the transform keeps the invariant (Decode).
LEMMA RefuseTransformKeepsInv == ASSUME Inv, RefuseTransform PROVE Inv'
  <1>1. "InvalidGeoTransform" \in Codes /\ "transform" \in Stages
    BY DEF Codes, Stages
  <1>2. SameList
    BY NothingStored, StoredTransform, FillsKeepList DEF RefuseTransform
  <1>3. warnings' \in Seq(Warnings)
    BY NothingStored, WarningsGrow DEF RefuseTransform
  <1> QED
    BY <1>1, <1>2, <1>3, DecodeRefusalKeepsInv DEF RefuseTransform

\* Refusing the NoData text keeps the invariant (Decode).
LEMMA RefuseValuesKeepsInv == ASSUME Inv, RefuseValues PROVE Inv'
  <1>1. "InvalidNoDataValue" \in Codes /\ "values" \in Stages
    BY DEF Codes, Stages
  <1> QED
    BY <1>1, NothingStored, DecodeRefusalKeepsInv DEF RefuseValues, Refuses
-----------------------------------------------------------------------------
(***************************************************************************)
(* The end of a directory, the choice of a level, and the end of a call.   *)
(***************************************************************************)

\* The layout of a directory has its size.
LEMMA LayoutHereSize ==
  [width |-> LayoutHere.width, height |-> LayoutHere.height] = SizeIn(T)
  BY DEF LayoutHere, SizeIn

\* A call that succeeds.
OkStep ==
  /\ pc # "idle" /\ pc' = "idle" /\ result' = "ok"
  /\ UNCHANGED <<source, request, walk, chosen, errors, warnings, reads>>
  /\ SameList
  /\ chosen # 0 => LayoutSize' = SizeIn(ifds[chosen + 1])

\* A call that succeeds keeps the invariant (every return of true).
LEMMA OkStepKeepsInv == ASSUME Inv, OkStep PROVE Inv'
  <1>1. CallSound' /\ FailuresAreReported'
    BY Running DEF Inv, CallSound, OkStep, source, FailuresAreReported
  <1>2. WalkSound'
    BY DEF Inv, WalkSound, OkStep, source, walk
  <1>3. ListSound'
    BY Running DEF Inv, ListSound, ListIn, OkStep, SameList, walk
  <1>4. LevelSound'
    BY DEF Inv, LevelSound, OkStep, SameList, walk, Walking, Stages
  <1>5. ReadsSound'
    BY ReadsStayBelow DEF OkStep, ReadsStep
  <1> QED
    BY <1>1, <1>2, <1>3, <1>4, <1>5 DEF Inv

\* The end of a directory leads to the choice, or ends the call with its layout (Run).
LEMMA DecodeValuesKeepsInv == ASSUME Inv, DecodeValues PROVE Inv'
  <1>1. SameList
    BY StoredBands, FillsKeepList DEF DecodeValues
  <1>2. pc = "values" /\ pc \in Stages /\ pc # "idle" /\ ifds # << >> /\ target = chosen + 1
    BY DEF DecodeValues, Decoding, Stages, Inv, LevelSound
  <1>3. CASE target # 1
    <2>1. chosen # 0 /\ request.layout
      BY <1>2, <1>3 DEF Inv, LevelSound
    <2>2. layout' = LayoutHere
      BY <2>1 DEF DecodeValues
    <2>3. T = ifds[chosen + 1]
      BY <1>2 DEF T
    <2>4. LayoutSize' = SizeIn(ifds[chosen + 1])
      BY <2>2, <2>3, LayoutHereSize DEF LayoutSize
    <2>5. OkStep
      BY <1>1, <1>2, <1>3, <2>4 DEF OkStep, DecodeValues, Returns, Goes, Decoding
    <2> QED
      BY <2>5, OkStepKeepsInv
  <1>4. CASE target = 1
    <2>1. pc' = "choose" /\ chosen = 0
      BY <1>2, <1>4 DEF DecodeValues, Goes, Inv, LevelSound
    <2>2. CallSound' /\ FailuresAreReported'
      BY <1>2, <1>4, <2>1, Running
      DEF Inv, CallSound, DecodeValues, Goes, source, FailuresAreReported
    <2>3. WalkSound'
      BY <1>2, <1>4, <2>1 DEF Inv, WalkSound, DecodeValues, Goes, source, walk
    <2>4. ListSound'
      BY <1>1, <1>2, <1>4, Running DEF Inv, ListSound, ListIn, DecodeValues, Goes, SameList, walk
    <2>5. LevelSound'
      BY <1>1, <1>2, <1>4, <2>1, Running
      DEF Inv, LevelSound, DecodeValues, Goes, SameList, walk, Walking, Stages
    <2>6. ReadsSound'
      BY <1>4, ReadsStayBelow DEF DecodeValues, Decoding, Goes, ReadsStep
    <2> QED
      BY <2>2, <2>3, <2>4, <2>5, <2>6 DEF Inv
  <1> QED
    BY <1>3, <1>4

\* Refusing a level keeps the invariant (Run).
LEMMA RefuseLevelKeepsInv == ASSUME Inv, RefuseLevel PROVE Inv'
  <1>1. "UnsupportedOverviewLevel" \in Codes
    BY DEF Codes
  <1> QED
    BY <1>1, NothingStored, DecodeRefusalKeepsInv DEF RefuseLevel, Refuses

\* Staying with the first directory keeps the invariant (Run).
LEMMA ChooseFirstKeepsInv == ASSUME Inv, ChooseFirst PROVE Inv'
  <1>1. pc = "choose" /\ chosen = 0
    BY DEF ChooseFirst, Decoding, Inv, LevelSound
  <1>2. OkStep
    BY <1>1, NothingStored DEF OkStep, ChooseFirst, Decoding, Returns, found
  <1> QED
    BY <1>2, OkStepKeepsInv

\* The chosen level is in the list.
LEMMA ChoiceExists ==
  ASSUME Inv, pc # "idle", request.level <= Len(metadata.overviews), Choice # 0
  PROVE  Choice \in Nat /\ Choice <= Len(metadata.overviews)
  <1>1. request.level \in Nat
    BY Running, RequestsAssumption DEF Request
  <1>2. Len(metadata.overviews) \in Nat /\ DOMAIN metadata.overviews = 1 .. Len(metadata.overviews)
    BY DEF Inv, ListSound, ListIn
  <1>3. CASE request.level # 0
    BY <1>1, <1>3 DEF Choice
  <1>4. CASE request.level = 0
    <2>1. FineEnough # {} /\ Choice = Max(FineEnough)
      BY <1>4 DEF Choice
    <2>2. /\ FineEnough \subseteq 1 .. Len(metadata.overviews)
          /\ FineEnough \subseteq 0 .. Len(metadata.overviews)
      BY <1>2 DEF FineEnough
    <2>3. Choice \in 1 .. Len(metadata.overviews)
      BY <1>2, <2>1, <2>2, MaxOfBounded
    <2> QED
      BY <2>3, <1>2
  <1> QED
    BY <1>3, <1>4

\* A chosen level leads to the directory after as many others (Run).
LEMMA ChooseOverviewKeepsInv == ASSUME Inv, ChooseOverview PROVE Inv'
  <1>1. pc = "choose" /\ pc' = "size" /\ ifds # << >> /\ request.layout
    BY DEF ChooseOverview, Decoding, Goes, Inv, LevelSound
  <1>2. chosen' \in Nat /\ chosen' <= Len(metadata.overviews)
    BY <1>1, ChoiceExists DEF ChooseOverview
  <1>3. CallSound' /\ FailuresAreReported'
    BY <1>1, Running DEF Inv, CallSound, ChooseOverview, Goes, source, FailuresAreReported, Stages
  <1>4. WalkSound' /\ ListSound'
    BY <1>1 DEF Inv, WalkSound, ListSound, ChooseOverview, Goes, source, walk
  <1>5. LevelSound'
    BY <1>1, <1>2, Running
    DEF LevelSound, ChooseOverview, Goes, walk, Walking, Stages, DirectoryOf
  <1>6. ReadsSound'
    BY ReadsStayBelow DEF ChooseOverview, Decoding, Goes, ReadsStep
  <1> QED
    BY <1>3, <1>4, <1>5, <1>6 DEF Inv

\* Running out of memory, some of a step stored, keeps the invariant (ReadMetadata).
LEMMA AllocationFailsKeepsInv == ASSUME Inv, AllocationFails PROVE Inv'
  <1>1. pc # "idle" /\ "MemoryBudgetExceeded" \in Codes
    BY DEF AllocationFails, Codes
  <1>2. ListIn(metadata) /\ Len(metadata.overviews) \in Nat
    BY DEF Inv, ListSound, ListIn
  <1>3. ListIn(metadata') /\ Len(metadata.overviews) <= Len(metadata'.overviews)
    <2>1. CASE SameList
      BY <1>2, <2>1 DEF SameList, ListIn
    <2>2. CASE pc = "entries" /\ metadata' = WithOverview
      BY <2>2, WithOverviewFacts
    <2>3. HalfStored
      BY DEF AllocationFails
    <2> QED
      BY <2>1, <2>2, <2>3, NothingStored, StoredTile, StoredBands, FillsKeepList DEF HalfStored
  <1>4. warnings' \in Seq(Warnings)
    BY NothingStored DEF AllocationFails
  <1>5. FailedStep
    BY <1>1, <1>3, <1>4, FailIsFailedStep DEF AllocationFails
  <1>6. ReadsSound'
    BY ReadsStayBelow DEF AllocationFails, Fail, Returns, ReadsStep
  <1> QED
    BY <1>5, <1>6, FailedStepKeepsInv

-----------------------------------------------------------------------------
(***************************************************************************)
(* The theorems.                                                           *)
(***************************************************************************)
LEMMA StutterKeepsInv == ASSUME Inv, UNCHANGED vars PROVE Inv'
  <1>1. CallSound' /\ FailuresAreReported'
    BY DEF Inv, CallSound, FailuresAreReported, vars, source
  <1>2. WalkSound' /\ ListSound'
    BY DEF Inv, WalkSound, ListSound, vars, source, walk
  <1>3. LevelSound'
    BY DEF Inv, LevelSound, vars, walk, found, LayoutSize
  <1>4. ReadsSound'
    BY DEF Inv, ReadsSound, RangeSound, vars, source
  <1> QED
    BY <1>1, <1>2, <1>3, <1>4 DEF Inv

\* Every step keeps the invariant.
LEMMA NextKeepsInv == ASSUME Inv, Next PROVE Inv'
  <1>1. CASE \E r \in Requests : Begin(r)
    BY <1>1, BeginKeepsInv
  <1>2. CASE ReadsSource
    BY <1>2, ReadBeyondKeepsInv, ReadFailsKeepsInv, RefuseSourceKeepsInv, RefuseHeaderKeepsInv,
       ReadHeaderKeepsInv, RefuseBigHeaderKeepsInv, ReadBigHeaderKeepsInv DEF ReadsSource
  <1>3. CASE WalksChain
    BY <1>3, CountEntriesKeepsInv, RefuseChainKeepsInv, RefuseTableKeepsInv, ReadTableKeepsInv,
       RefuseEntryKeepsInv, SkipEntryKeepsInv, TakeEntryKeepsInv, EndTableKeepsInv,
       EndChainKeepsInv DEF WalksChain
  <1>4. CASE DecodesDirectory
    BY <1>4, DecodeSizeKeepsInv, RefuseSizeKeepsInv, DecodeSamplesKeepsInv, RefuseSamplesKeepsInv,
       DecodeCodingKeepsInv, RefuseCodingKeepsInv, DecodeSegmentsKeepsInv,
       RefuseSegmentsKeepsInv, DecodeKeysKeepsInv, RefuseKeysKeepsInv,
       DecodeTransformKeepsInv, RefuseTransformKeepsInv, DecodeValuesKeepsInv,
       RefuseValuesKeepsInv DEF DecodesDirectory
  <1>5. CASE ChoosesLevel
    BY <1>5, RefuseLevelKeepsInv, ChooseFirstKeepsInv, ChooseOverviewKeepsInv DEF ChoosesLevel
  <1>6. CASE AllocationFails
    BY <1>6, AllocationFailsKeepsInv
  <1> QED
    BY <1>1, <1>2, <1>3, <1>4, <1>5, <1>6 DEF Next, Progress

\* The inductive invariant holds of every parse.
THEOREM ParserInvariant == Spec => []Inv
  <1>1. Init => Inv
    BY InitInv
  <1>2. Inv /\ [Next]_vars => Inv'
    BY NextKeepsInv, StutterKeepsInv
  <1> QED
    BY <1>1, <1>2, PTL DEF Spec

\* Every place that Decode and the walk index without a check exists: the
\* directory at ifds[ifdIndex], the table being walked, the chosen level.
THEOREM ParserTypeCorrect == Spec => []TypeOK
  <1>1. ASSUME Inv PROVE TypeOK
    <2>1. DOMAIN current \subseteq KnownTags
      BY <1>1 DEF Inv, WalkSound, TagMaps
    <2>2. \A n \in DOMAIN ifds : DOMAIN ifds[n] \subseteq KnownTags
      <3>1. ASSUME NEW n \in DOMAIN ifds PROVE DOMAIN ifds[n] \subseteq KnownTags
        <4>1. ifds[n] \in TagMaps
          BY <1>1 DEF Inv, WalkSound
        <4> QED
          BY <4>1 DEF TagMaps
      <3> QED
        BY <3>1
    <2>3. pc \in Stages => target \in DOMAIN ifds
      <3> SUFFICES ASSUME pc \in Stages PROVE target \in DOMAIN ifds
        OBVIOUS
      <3>1. ifds # << >> /\ target = chosen + 1 /\ chosen \in Nat
            /\ chosen <= Len(metadata.overviews)
        BY <1>1 DEF Inv, LevelSound
      <3>2. ifds \in Seq(TagMaps) /\ metadata.overviews \in Seq(Sizes)
        BY <1>1 DEF Inv, WalkSound, ListSound, ListIn
      <3>3. Len(metadata.overviews) < Len(ifds)
        <4>1. pc # "idle"
          BY DEF Stages
        <4> QED
          BY <1>1, <3>1, <4>1, Running DEF Inv, ListSound, IsListOf
      <3> QED
        BY <3>1, <3>2, <3>3
    <2>4. chosen \in 0 .. Len(metadata.overviews)
      BY <1>1 DEF Inv, LevelSound, ListSound, ListIn
    <2> QED
      BY <1>1, <2>1, <2>2, <2>3, <2>4 DEF Inv, CallSound, WalkSound, TypeOK, Warnings, Walking
  <1> QED
    BY <1>1, ParserInvariant, PTL

\* A parse reports an error exactly if it fails, and goes on after none.
THEOREM ParserReportsFailures == Spec => []FailuresAreReported
  <1>1. Inv => FailuresAreReported
    BY DEF Inv
  <1> QED
    BY <1>1, ParserInvariant, PTL

\* Whatever offsets, counts and links a file holds, no read leaves the source.
THEOREM ParserReadsInside == Spec => []ReadsStayInside
  <1>1. Inv => ReadsStayInside
    BY DEF Inv, ReadsSound, RangeSound, ReadsStayInside
  <1> QED
    BY <1>1, ParserInvariant, PTL

LimitsAreKept == Len(ifds) <= MaxLevels /\ metadataBytes <= MaxMetadata

\* A parser holds no more directories, and counts no more bytes of values, than
\* its limits (the loop of Run, metadataBytes).
THEOREM ParserKeepsItsLimits == Spec => []LimitsAreKept
  <1>1. Inv => LimitsAreKept
    BY DEF Inv, WalkSound, LimitsAreKept
  <1> QED
    BY <1>1, ParserInvariant, PTL

\* When all directories have a size, a level is read from the directory whose
\* size was announced for it.
THEOREM LevelsAreTheirDirectories == Spec => []LevelIsItsDirectory
  <1>1. ASSUME Inv PROVE LevelIsItsDirectory
    <2> SUFFICES ASSUME result = "ok", chosen # 0, \A n \in DOMAIN ifds : HasSize(ifds[n])
                 PROVE  LayoutSize = metadata.overviews[chosen]
      BY DEF LevelIsItsDirectory
    <2>1. LayoutSize = SizeIn(ifds[chosen + 1])
      BY <1>1 DEF Inv, LevelSound
    <2>2. chosen \in DOMAIN metadata.overviews
      BY <1>1 DEF Inv, LevelSound, ListSound, ListIn
    <2>3. IsListOf(metadata.overviews, ifds) /\ metadata.overviews # << >>
      BY <1>1, <2>2 DEF Inv, ListSound
    <2>4. metadata.overviews[chosen] = SizeIn(ifds[chosen + 1])
      BY <2>2, <2>3 DEF IsListOf
    <2> QED
      BY <2>1, <2>4
  <1> QED
    BY <1>1, ParserInvariant, PTL

-----------------------------------------------------------------------------
(***************************************************************************)
(* What is read is the structure of the file.                              *)
(***************************************************************************)
Covers(s, r) == s.offset <= r.offset /\ r.offset + r.length <= s.offset + s.length

Numbers(r) == r.offset \in Int /\ r.length \in Int

OfStructure(r) == Numbers(r) /\ \E s \in Structure(image) : Numbers(s) /\ Covers(s, r)

\* The second header belongs to a BigTIFF, and each read so far to the structure.
StructureInv ==
  /\ pc = "bigHeader" => BigTiff(image)
  /\ \A r \in reads : OfStructure(r)

\* What a step asks for is a header, a count, a table or a known value.
LEMMA AskedIsStructure ==
  ASSUME Inv, StructureInv, Asks, Inside(Asked)
  PROVE  OfStructure(Asked)
  <1>1. image \in Images /\ at \in Nat
    BY DEF Inv, CallSound, WalkSound, Coord
  <1>2. Numbers(Asked)
    BY AskedType DEF Numbers
  <1>3. CASE pc \in {"header", "bigHeader"}
    <2> DEFINE head == [offset |-> 0, length |-> IF BigTiff(image) THEN 16 ELSE 8]
    <2>1. head \in Structure(image) /\ Numbers(head)
      BY DEF Structure, Numbers
    <2>2. Covers(head, Asked)
      BY <1>3 DEF Asked, Covers, StructureInv
    <2> HIDE DEF head
    <2> QED
      BY <1>2, <2>1, <2>2 DEF OfStructure
  <1>4. ASSUME at \in DOMAIN image.tables, pc \in {"chain", "table"}
        PROVE  OfStructure(Asked)
    <2> DEFINE table == [offset |-> at, length |-> CountSize(image) + TableSize(image, at)]
    <2>1. table \in Structure(image)
      BY <1>4 DEF Structure
    <2>2. CountSize(image) \in Nat /\ TableSize(image, at) \in Nat
      BY <1>1, <1>4, FileFacts
    <2>3. Numbers(table)
      BY <1>1, <2>2 DEF Numbers
    <2>4. Covers(table, Asked)
      <3>1. CASE pc = "chain"
        BY <3>1, <1>1, <2>2 DEF Asked, Covers
      <3>2. CASE pc = "table"
        BY <3>2, <1>1, <2>2 DEF Asked, Covers
      <3> QED
        BY <1>4, <3>1, <3>2
    <2> HIDE DEF table
    <2> QED
      BY <1>2, <2>1, <2>3, <2>4 DEF OfStructure
  <1>5. CASE pc = "chain"
    <2>1. at # 0 /\ at \in Links(image)
      BY <1>5 DEF Asks, AtEntry, Inv, WalkSound
    <2>2. image.size \in Nat /\ CountSize(image) \in Nat
      BY <1>1, FileFacts
    <2>3. at + CountSize(image) <= image.size
      BY <1>1, <1>5, <2>2 DEF Asked, Inside
    <2> QED
      BY <1>1, <1>4, <1>5, <2>1, <2>3, FileFacts
  <1>6. CASE pc = "table"
    BY <1>4, <1>6 DEF Inv, WalkSound
  <1>7. CASE AtEntry /\ Taken(Field) /\ ~Inline(Field.value)
    <2>1. pc = "entries" /\ at \in DOMAIN image.tables /\ TableFits(image, at) /\ cursor \in Nat \ {0}
      BY <1>7 DEF AtEntry, Inv, WalkSound
    <2>2. Here \in Table /\ Len(Here.entries) = Here.count
      BY <1>1, <2>1, FileFacts DEF Here
    <2>3. cursor \in DOMAIN Here.entries
      BY <1>7, <2>1, <2>2 DEF AtEntry, Table
    <2>4. Field.tag \in KnownTags /\ ValueBytes(Field.value) > Capacity(image)
      BY <1>7, FieldFacts DEF Taken, IsKnown, Inline, Capacity
    <2> DEFINE value == [offset |-> Field.at, length |-> ValueBytes(Field.value)]
    <2>5. value \in Ranges(image, at, Field.tag)
      BY <2>3, <2>4 DEF Ranges, Field, Here
    <2>6. value \in Structure(image)
      BY <2>1, <2>4, <2>5 DEF Structure
    <2>7. Asked = value
      BY <2>1 DEF Asked
    <2> HIDE DEF value
    <2> QED
      BY <1>2, <2>6, <2>7 DEF OfStructure, Covers, Numbers
  <1> QED
    BY <1>3, <1>5, <1>6, <1>7 DEF Asks

\* Every step keeps the file, and reads nothing or what it asked; only a sound
\* header of a BigTIFF leads to the second one.
LEMMA StepReads ==
  ASSUME Next
  PROVE  /\ image' = image
         /\ reads' = reads \/ reads' = {} \/ (Asks /\ Inside(Asked) /\ Issue)
         /\ pc' = "bigHeader" => BigTiff(image)
  <1> USE DEF source, Returns, Fail, Goes, Delivered, Decoding, Refuses, Decodes
  <1>1. CASE \E r \in Requests : Begin(r)
    BY <1>1 DEF Begin
  <1>2. CASE ReadsSource
    <2>1. CASE ReadBeyond
      BY <2>1 DEF ReadBeyond, FailRead
    <2>2. CASE ReadFails
      BY <2>2 DEF ReadFails, FailRead
    <2>3. CASE RefuseSource
      BY <2>3 DEF RefuseSource
    <2>4. CASE RefuseHeader
      BY <2>4 DEF RefuseHeader
    <2>5. CASE ReadHeader
      BY <2>5 DEF ReadHeader, BigTiff
    <2>6. CASE RefuseBigHeader
      BY <2>6 DEF RefuseBigHeader
    <2>7. CASE ReadBigHeader
      BY <2>7 DEF ReadBigHeader
    <2> QED
      BY <1>2, <2>1, <2>2, <2>3, <2>4, <2>5, <2>6, <2>7 DEF ReadsSource
  <1>3. CASE WalksChain
    <2>1. CASE CountEntries \/ RefuseChain \/ RefuseTable \/ ReadTable
      BY <2>1 DEF CountEntries, RefuseChain, RefuseTable, ReadTable
    <2>2. CASE RefuseEntry \/ SkipEntry \/ TakeEntry
      BY <2>2 DEF RefuseEntry, SkipEntry, TakeEntry
    <2>3. CASE EndTable \/ EndChain
      BY <2>3 DEF EndTable, EndChain
    <2> QED
      BY <1>3, <2>1, <2>2, <2>3 DEF WalksChain
  <1>4. CASE DecodesDirectory
    <2>1. CASE DecodeSize \/ DecodeSamples \/ DecodeCoding \/ DecodeSegments \/ DecodeKeys
      BY <2>1 DEF DecodeSize, DecodeSamples, DecodeCoding, DecodeSegments, DecodeKeys
    <2>2. CASE DecodeTransform \/ DecodeValues
      BY <2>2 DEF DecodeTransform, DecodeValues
    <2>3. CASE RefuseSize \/ RefuseSamples \/ RefuseCoding \/ RefuseSegments
      BY <2>3 DEF RefuseSize, RefuseSamples, RefuseCoding, RefuseSegments
    <2>4. CASE RefuseKeys \/ RefuseTransform \/ RefuseValues
      BY <2>4 DEF RefuseKeys, RefuseTransform, RefuseValues
    <2> QED
      BY <1>4, <2>1, <2>2, <2>3, <2>4 DEF DecodesDirectory
  <1>5. CASE ChoosesLevel
    BY <1>5 DEF ChoosesLevel, RefuseLevel, ChooseFirst, ChooseOverview
  <1>6. CASE AllocationFails
    BY <1>6 DEF AllocationFails
  <1> QED
    BY <1>1, <1>2, <1>3, <1>4, <1>5, <1>6 DEF Next, Progress

\* Every step keeps the reads in the structure.
LEMMA StructureStep ==
  ASSUME Inv, StructureInv, [Next]_vars
  PROVE  StructureInv'
  <1>1. CASE UNCHANGED vars
    BY <1>1 DEF vars, source, StructureInv, OfStructure
  <1>2. CASE Next
    <2>1. ASSUME NEW r \in reads' PROVE OfStructure(r)
      BY <1>2, <2>1, StepReads, AskedIsStructure DEF Issue, StructureInv
    <2>2. \A r \in reads' : OfStructure(r)'
      BY <1>2, <2>1, StepReads DEF OfStructure
    <2> QED
      BY <1>2, <2>2, StepReads DEF StructureInv
  <1> QED
    BY <1>1, <1>2

\* The lists of a table are numbers.
LEMMA PixelsAreNumbers ==
  ASSUME NEW f \in Images, NEW p \in Pixels(f)
  PROVE  Numbers(p)
  <1> DEFINE entries(a) == f.tables[a].entries
             list(a, n) == entries(a)[n].value.values
             tagged(a, tags) == {n \in DOMAIN entries(a) : entries(a)[n].tag \in tags}
             offsets(a) == tagged(a, {"StripOffsets", "TileOffsets"})
             sizes(a)   == tagged(a, {"StripByteCounts", "TileByteCounts"})
             listed(a)  == {q \in offsets(a) \X sizes(a) \X (1 .. MaxMetadata) :
                              q[3] \in DOMAIN list(a, q[1]) /\ q[3] \in DOMAIN list(a, q[2])}
             pair(a, q) == [offset |-> list(a, q[1])[q[3]], length |-> list(a, q[2])[q[3]]]
  <1>1. PICK a \in DOMAIN f.tables : \E m, n \in DOMAIN entries(a), k \in 1 .. MaxMetadata :
          /\ k \in DOMAIN list(a, m) /\ k \in DOMAIN list(a, n)
          /\ p = [offset |-> list(a, m)[k], length |-> list(a, n)[k]]
    <2>1. Pixels(f) = UNION {{pair(a, q) : q \in listed(a)} : a \in DOMAIN f.tables}
      BY Zenon DEF Pixels
    <2> HIDE DEF listed, pair
    <2>2. PICK a \in DOMAIN f.tables : p \in {pair(a, q) : q \in listed(a)}
      BY <2>1, Zenon
    <2>3. PICK q \in listed(a) : p = pair(a, q)
      BY <2>2, Zenon
    <2>4. /\ q[1] \in DOMAIN entries(a) /\ q[2] \in DOMAIN entries(a) /\ q[3] \in 1 .. MaxMetadata
          /\ q[3] \in DOMAIN list(a, q[1]) /\ q[3] \in DOMAIN list(a, q[2])
      BY <2>3 DEF listed
    <2> QED
      BY <2>3, <2>4 DEF pair
  <1>2. entries(a) \in Seq(Entry)
    BY FileFacts DEF Table
  <1>3. ASSUME NEW n \in DOMAIN entries(a), NEW k \in DOMAIN list(a, n)
        PROVE  list(a, n)[k] \in Int
    <2>1. entries(a)[n] \in Entry
      BY <1>2
    <2>2. list(a, n) \in Seq(Int)
      BY <2>1 DEF Entry, Value
    <2> QED
      BY <2>2
  <1>4. PICK m \in DOMAIN entries(a), n \in DOMAIN entries(a), k \in 1 .. MaxMetadata :
          /\ k \in DOMAIN list(a, m) /\ k \in DOMAIN list(a, n)
          /\ p = [offset |-> list(a, m)[k], length |-> list(a, n)[k]]
    BY <1>1
  <1>5. list(a, m)[k] \in Int /\ list(a, n)[k] \in Int
    BY <1>3, <1>4
  <1> HIDE DEF list
  <1> QED
    BY <1>4, <1>5 DEF Numbers

\* In a file whose pixels overlap none of its directories and known values, no
\* byte of a pixel is read, whatever else its tags point to.
THEOREM ParserLeavesPixels == Spec => []PixelsAreNotRead
  <1>1. Init => StructureInv
    BY DEF Init, StructureInv
  <1>2. Inv /\ StructureInv /\ [Next]_vars => StructureInv'
    BY StructureStep
  <1>3. ASSUME Inv, StructureInv PROVE PixelsAreNotRead
    <2> SUFFICES ASSUME \A s \in Structure(image), p \in Pixels(image) : Apart(s, p),
                        NEW r \in reads, NEW p \in Pixels(image)
                 PROVE  Apart(r, p)
      BY DEF PixelsAreNotRead
    <2>1. PICK s \in Structure(image) : Numbers(r) /\ Numbers(s) /\ Covers(s, r)
      BY <1>3 DEF StructureInv, OfStructure
    <2>2. Numbers(p)
      BY <1>3, PixelsAreNumbers DEF Inv, CallSound
    <2>3. Apart(s, p)
      OBVIOUS
    <2> QED
      BY <2>1, <2>2, <2>3 DEF Numbers, Covers, Apart
  <1> QED
    BY <1>1, <1>2, <1>3, ParserInvariant, PTL DEF Spec

\* A parse asks for metadata alone: for no byte outside the source, and for none
\* of its pixels if they overlap nothing else (Parser::Read, IsKnownTag).
THEOREM ParserReadsOnlyMetadata == Spec => []OnlyMetadataIsRead
  <1>1. ReadsStayInside /\ PixelsAreNotRead => OnlyMetadataIsRead
    BY DEF OnlyMetadataIsRead
  <1> QED
    BY <1>1, ParserReadsInside, ParserLeavesPixels, PTL

-----------------------------------------------------------------------------
(***************************************************************************)
(* What a parse that succeeds hands out.                                   *)
(***************************************************************************)

-----------------------------------------------------------------------------
(***************************************************************************)
(* What is decoded stays decoded.                                          *)
(***************************************************************************)
\* A step that ends the call in failure (Parser::Error and its callers).
Failed == pc' = "idle" /\ result' = "failed"

\* The steps that decode a directory and go on (Decode).
StagesOn ==
  \/ DecodeSize
  \/ DecodeSamples
  \/ DecodeCoding
  \/ DecodeSegments
  \/ DecodeKeys
  \/ DecodeTransform
  \/ DecodeValues

\* A step ends the call in failure, walks the chain, or goes on with what the chain gave.
LEMMA StepKinds ==
  ASSUME Inv, Next
  PROVE  \/ Failed
         \/ pc' \in Walking /\ result' = "none"
              /\ \/ pc # "idle" /\ (UNCHANGED metadata \/ metadata' = WithOverview)
                 \/ metadata' = NoMetadata
         \/ EndChain
         \/ StagesOn
         \/ ChooseFirst
         \/ ChooseOverview
  <1>0. pc # "idle" => result = "none"
    BY Running
  <1> USE <1>0 DEF Failed, Returns, Fail, Goes, Refuses, Walking, Asks, AtEntry
  <1>1. CASE \E r \in Requests : Begin(r)
    BY <1>1 DEF Begin
  <1>2. CASE ReadsSource
    <2>1. CASE ReadBeyond
      BY <2>1 DEF ReadBeyond, FailRead
    <2>2. CASE ReadFails
      BY <2>2 DEF ReadFails, FailRead
    <2>3. CASE RefuseSource \/ RefuseHeader \/ RefuseBigHeader
      BY <2>3 DEF RefuseSource, RefuseHeader, RefuseBigHeader
    <2>4. CASE ReadHeader
      BY <2>4 DEF ReadHeader, OutputsStay
    <2>5. CASE ReadBigHeader
      BY <2>5 DEF ReadBigHeader, OutputsStay
    <2> QED
      BY <1>2, <2>1, <2>2, <2>3, <2>4, <2>5 DEF ReadsSource
  <1>3. CASE WalksChain
    <2>1. CASE CountEntries \/ ReadTable
      BY <2>1 DEF CountEntries, ReadTable, OutputsStay
    <2>2. CASE RefuseChain \/ RefuseTable \/ RefuseEntry
      BY <2>2 DEF RefuseChain, RefuseTable, RefuseEntry
    <2>3. CASE SkipEntry \/ TakeEntry
      BY <2>3 DEF SkipEntry, TakeEntry, OutputsStay
    <2>4. CASE EndTable
      BY <2>4 DEF EndTable
    <2> QED
      BY <1>3, <2>1, <2>2, <2>3, <2>4 DEF WalksChain
  <1>4. CASE DecodesDirectory
    <2>1. CASE RefuseSize \/ RefuseSamples \/ RefuseCoding \/ RefuseSegments
      BY <2>1 DEF RefuseSize, RefuseSamples, RefuseCoding, RefuseSegments
    <2>2. CASE RefuseKeys \/ RefuseTransform \/ RefuseValues
      BY <2>2 DEF RefuseKeys, RefuseTransform, RefuseValues
    <2> QED
      BY <1>4, <2>1, <2>2 DEF DecodesDirectory, StagesOn
  <1>5. CASE ChoosesLevel
    BY <1>5 DEF ChoosesLevel, RefuseLevel
  <1>6. CASE AllocationFails
    BY <1>6 DEF AllocationFails
  <1> QED
    BY <1>1, <1>2, <1>3, <1>4, <1>5, <1>6 DEF Next, Progress

\* While an overview is decoded what the caller gets stays.
LEMMA OverviewLeavesMetadata ==
  ASSUME StagesOn, target # 1
  PROVE  /\ UNCHANGED <<metadata, request, ifds, chosen, target>>
         /\ pc' \in Stages \/ pc' = "idle"
         /\ pc \in Stages
  <1> USE DEF Decoding, Decodes, Goes, Fills, found, walk, Stages, Returns
  <1>1. CASE DecodeSize \/ DecodeSamples
    BY <1>1 DEF DecodeSize, DecodeSamples
  <1>2. CASE DecodeCoding \/ DecodeSegments
    BY <1>2 DEF DecodeCoding, DecodeSegments
  <1>3. CASE DecodeKeys \/ DecodeTransform
    BY <1>3 DEF DecodeKeys, DecodeTransform
  <1>4. CASE DecodeValues
    BY <1>4 DEF DecodeValues
  <1> QED
    BY <1>1, <1>2, <1>3, <1>4 DEF StagesOn

\* The first directory is followed by the choice, not by the end.
LEMMA FirstDirectoryGoesOn ==
  ASSUME Inv, StagesOn, target = 1
  PROVE  /\ chosen = 0 /\ chosen' = 0 /\ result' = "none"
         /\ pc \in Stages /\ pc' \in Stages \cup {"choose"}
         /\ UNCHANGED <<request, ifds, target>>
  <1>1. pc \in Stages
    BY DEF StagesOn, DecodeSize, DecodeSamples, DecodeCoding, DecodeSegments, DecodeKeys,
           DecodeTransform, DecodeValues, Decoding, Stages
  <1>2. chosen = 0 /\ result = "none"
    BY <1>1, Running DEF Inv, LevelSound, Stages
  <1> USE <1>2 DEF Decoding, Decodes, Goes, found, walk, Stages
  <1>3. CASE DecodeSize \/ DecodeSamples
    BY <1>3 DEF DecodeSize, DecodeSamples
  <1>4. CASE DecodeCoding \/ DecodeSegments
    BY <1>4 DEF DecodeCoding, DecodeSegments
  <1>5. CASE DecodeKeys \/ DecodeTransform
    BY <1>5 DEF DecodeKeys, DecodeTransform
  <1>6. CASE DecodeValues
    BY <1>6 DEF DecodeValues
  <1> QED
    BY <1>3, <1>4, <1>5, <1>6 DEF StagesOn

\* The step covers the factor of the n-th level.
Fine(n) ==
  LET factor == OverviewFactor(metadata.width, metadata.overviews[n].width)
  IN  factor # 0 /\ factor <= Step

\* The level in use, once it is chosen, is the last one the step allows.
ChoiceInv ==
  /\ result = "ok" \/ (pc \in Stages /\ chosen # 0)
  /\ request.layout /\ request.level = 0
  => /\ chosen # 0 => chosen \in DOMAIN metadata.overviews /\ Fine(chosen)
     /\ \A n \in DOMAIN metadata.overviews : Fine(n) => n <= chosen

\* The choice is the last level that fits, or none if there is none.
LEMMA ChoiceIsTheLast ==
  ASSUME Inv, request.level = 0
  PROVE  /\ Choice # 0 => Choice \in DOMAIN metadata.overviews /\ Fine(Choice)
         /\ \A n \in DOMAIN metadata.overviews : Fine(n) => n <= Choice
  <1>1. PICK u : u = Len(metadata.overviews) /\ u \in Nat
    BY DEF Inv, ListSound, ListIn
  <1>2. DOMAIN metadata.overviews = 1 .. u
    BY <1>1 DEF Inv, ListSound, ListIn
  <1>3. \A n : n \in FineEnough <=> n \in 1 .. u /\ Fine(n)
    BY <1>2 DEF FineEnough, Factor, Fine
  <1>4. FineEnough \subseteq 0 .. u
    BY <1>3
  <1>5. CASE FineEnough = {}
    BY <1>2, <1>3, <1>5 DEF Choice
  <1>6. CASE FineEnough # {}
    <2>1. Choice = Max(FineEnough)
      BY <1>6 DEF Choice
    <2>2. Max(FineEnough) \in FineEnough /\ \A n \in FineEnough : n <= Max(FineEnough)
      BY <1>1, <1>4, <1>6, MaxOfBounded
    <2> QED
      BY <1>2, <1>3, <2>1, <2>2
  <1> QED
    BY <1>5, <1>6

\* Every step keeps the choice.
LEMMA ChoiceStep ==
  ASSUME Inv, ChoiceInv, [Next]_vars
  PROVE  ChoiceInv'
  <1> USE DEF ChoiceInv
  <1>1. CASE UNCHANGED vars
    BY <1>1 DEF vars, found, Fine, Step
  <1>2. CASE Failed
    BY <1>2 DEF Failed, Stages
  <1>3. CASE pc' \in Walking /\ result' = "none"
    BY <1>3 DEF Walking, Stages
  <1>4. CASE EndChain
    <2>1. chosen' = 0 /\ result' = "none" /\ pc' = "size"
      BY <1>4, Running DEF EndChain, Goes, found, Inv, LevelSound, Walking
    <2> QED
      BY <2>1 DEF Stages
  <1>5. CASE StagesOn /\ target # 1
    <2>1. pc \in Stages /\ chosen # 0 /\ UNCHANGED <<metadata, request, chosen>>
      BY <1>5, OverviewLeavesMetadata DEF Inv, LevelSound
    <2> QED
      BY <2>1 DEF Fine, Step
  <1>6. CASE StagesOn /\ target = 1
    <2>1. chosen' = 0 /\ result' = "none"
      BY <1>6, FirstDirectoryGoesOn
    <2> QED
      BY <2>1
  <1>7. CASE ChooseFirst
    <2>1. UNCHANGED <<metadata, request, chosen>> /\ chosen = 0
      BY <1>7 DEF ChooseFirst, Returns, found, Decoding, Inv, LevelSound
    <2>2. request.layout /\ request.level = 0 => Choice = 0
      BY <1>7 DEF ChooseFirst
    <2> QED
      BY <2>1, <2>2, ChoiceIsTheLast DEF Fine, Step
  <1>8. CASE ChooseOverview
    <2>1. UNCHANGED <<metadata, request>> /\ chosen' = Choice
      BY <1>8 DEF ChooseOverview, Goes
    <2> QED
      BY <2>1, ChoiceIsTheLast DEF Fine, Step
  <1> QED
    BY <1>1, <1>2, <1>3, <1>4, <1>5, <1>6, <1>7, <1>8, StepKinds

-----------------------------------------------------------------------------
\* What the first directory says of the place of the image is stored when the
\* levels are looked at, and stays.
Settled ==
  \/ result = "ok" \/ pc = "choose"
  \/ pc \in Stages /\ (target # 1 \/ pc = "values")

Explained ==
  /\ metadata.transform # << >> /\ metadata.anchor = "Unknown" =>
       \E n \in DOMAIN warnings : warnings[n] = "UnknownPixelAnchor"
  /\ "ModelTransformation" \in DOMAIN ifds[1] =>
       LET m(i) == Number(ifds[1], "ModelTransformation", i)
       IN  metadata.transform = <<[a0 |-> m(3), a1 |-> m(0), a2 |-> m(1),
                                   b0 |-> m(7), b1 |-> m(4), b2 |-> m(5)]>>

\* The metadata has its fields, and keeps the anchor it was given.
PlaceInv ==
  /\ pc # "idle" => DOMAIN metadata = DOMAIN NoMetadata
  /\ pc = "transform" /\ target = 1 => metadata.anchor = Anchor
  /\ Settled => Explained

\* The bands, the tile, the transform and the keys are fields of the metadata.
LEMMA FieldsStay ==
  ASSUME Inv, PlaceInv, StagesOn, target = 1
  PROVE  /\ DOMAIN metadata' = DOMAIN NoMetadata
         /\ DecodeKeys => metadata'.anchor = Anchor
         /\ DecodeTransform => /\ metadata'.anchor = metadata.anchor
                               /\ metadata'.transform = Transform
         /\ DecodeValues => /\ metadata'.anchor = metadata.anchor
                            /\ metadata'.transform = metadata.transform
  <1>1. DOMAIN metadata = DOMAIN NoMetadata
    BY FirstDirectoryGoesOn DEF PlaceInv, Stages
  <1>2. {"anchor", "transform"} \subseteq DOMAIN NoMetadata
    BY DEF NoMetadata
  <1>3. /\ DecodeKeys => pc = "keys"
        /\ DecodeTransform => pc = "transform"
        /\ DecodeValues => pc = "values"
    BY DEF DecodeKeys, DecodeTransform, DecodeValues, Decoding
  <1>4. CASE DecodeSize \/ DecodeSamples
    <2>1. pc \in {"size", "samples"}
      BY <1>4 DEF DecodeSize, DecodeSamples, Decoding
    <2>2. DOMAIN metadata' = DOMAIN metadata
      BY <1>4 DEF DecodeSize, DecodeSamples, Filling, Fills
    <2> QED
      BY <1>1, <1>3, <2>1, <2>2
  <1>5. CASE DecodeCoding \/ DecodeSegments
    <2>1. pc \in {"coding", "segments"}
      BY <1>5 DEF DecodeCoding, DecodeSegments, Decoding
    <2>2. DOMAIN metadata' = DOMAIN metadata
      BY <1>5 DEF DecodeCoding, DecodeSegments, Filling, Fills
    <2> QED
      BY <1>1, <1>3, <2>1, <2>2
  <1>6. CASE DecodeKeys
    <2>1. metadata' = [metadata EXCEPT !.crs = CrsKind, !.anchor = Anchor,
                         !.epsg = KeyValue(IF CrsKind = "Projected" THEN 3072 ELSE 2048),
                         !.metre = CrsKind = "Projected" /\ KeyValue(3076) = 9001]
      BY <1>6 DEF DecodeKeys, Filling, Fills
    <2>2. DOMAIN metadata' = DOMAIN metadata /\ metadata'.anchor = Anchor
      BY <1>1, <1>2, <2>1
    <2> QED
      BY <1>1, <1>3, <1>6, <2>2
  <1>7. CASE DecodeTransform
    <2>1. metadata' = [metadata EXCEPT !.transform = Transform]
      BY <1>7 DEF DecodeTransform, Filling, Fills
    <2>2. /\ DOMAIN metadata' = DOMAIN metadata
          /\ metadata'.anchor = metadata.anchor /\ metadata'.transform = Transform
      BY <1>1, <1>2, <2>1
    <2> QED
      BY <1>1, <1>3, <1>7, <2>2
  <1>8. CASE DecodeValues
    <2>1. metadata' = [metadata EXCEPT !.bands = Labelled(Described)]
      BY <1>8 DEF DecodeValues, Filling, Fills
    <2>2. /\ DOMAIN metadata' = DOMAIN metadata
          /\ metadata'.anchor = metadata.anchor /\ metadata'.transform = metadata.transform
      BY <1>1, <1>2, <2>1
    <2> QED
      BY <1>1, <1>3, <1>8, <2>2
  <1> QED
    BY <1>4, <1>5, <1>6, <1>7, <1>8 DEF StagesOn

\* Decoding a directory only adds warnings.
LEMMA WarningsStay ==
  ASSUME Inv, StagesOn, NEW n \in DOMAIN warnings
  PROVE  n \in DOMAIN warnings' /\ warnings'[n] = warnings[n]
  <1>1. CASE UNCHANGED warnings
    BY <1>1
  <1>2. CASE DecodeTransform
    <2>1. warnings \in Seq(Warnings)
      BY DEF Inv, CallSound
    <2>2. warnings' = (warnings \o ConflictWarning) \o AnchorWarning
      BY <1>2 DEF DecodeTransform
    <2> QED
      BY <2>1, <2>2, WarningTypes
  <1> QED
    BY <1>1, <1>2 DEF StagesOn, DecodeSize, DecodeSamples, DecodeCoding, DecodeSegments, DecodeKeys,
       DecodeValues, Decodes

\* A transform without an anchor is warned of, and is the matrix if there is one.
LEMMA TransformIsExplained ==
  ASSUME Inv, PlaceInv, DecodeTransform, target = 1
  PROVE  Explained'
  <1>1. StagesOn
    BY DEF StagesOn
  <1>2. /\ metadata'.anchor = metadata.anchor /\ metadata'.transform = Transform
        /\ UNCHANGED ifds
    BY <1>1, FieldsStay, FirstDirectoryGoesOn
  <1>3. metadata.anchor = Anchor
    BY DEF PlaceInv, DecodeTransform, Decoding
  <1>4. ASSUME Transform # << >>, Anchor = "Unknown"
        PROVE  \E n \in DOMAIN warnings' : warnings'[n] = "UnknownPixelAnchor"
    <2>1. warnings \o ConflictWarning \in Seq(Warnings)
      BY WarningsGrow
    <2>2. warnings' = Append(warnings \o ConflictWarning, "UnknownPixelAnchor")
      BY <1>4, <2>1 DEF DecodeTransform, AnchorWarning
    <2> DEFINE before == warnings \o ConflictWarning
    <2>3. Len(before) + 1 \in DOMAIN warnings' /\ warnings'[Len(before) + 1] = "UnknownPixelAnchor"
      BY <2>1, <2>2
    <2> QED
      BY <2>3
  <1>5. ASSUME "ModelTransformation" \in DOMAIN ifds[1]
        PROVE  Transform = LET m(i) == Number(ifds[1], "ModelTransformation", i)
                           IN  <<[a0 |-> m(3), a1 |-> m(0), a2 |-> m(1),
                                  b0 |-> m(7), b1 |-> m(4), b2 |-> m(5)]>>
    <2>1. T = ifds[1]
      BY DEF T
    <2> QED
      BY <1>5, <2>1 DEF Transform, HasMatrix, Has, FromMatrix, N
  <1> QED
    BY <1>2, <1>3, <1>4, <1>5 DEF Explained

\* Every step keeps what is known of the place of the image.
LEMMA PlaceStep ==
  ASSUME Inv, PlaceInv, [Next]_vars
  PROVE  PlaceInv'
  <1>1. CASE UNCHANGED vars
    BY <1>1 DEF PlaceInv, Settled, Explained, vars, walk, Anchor, KeyValue, Has, N, T
  <1>2. CASE Failed
    BY <1>2 DEF PlaceInv, Settled, Failed, Stages
  <1>3. CASE /\ pc' \in Walking /\ result' = "none"
             /\ \/ pc # "idle" /\ (UNCHANGED metadata \/ metadata' = WithOverview)
                \/ metadata' = NoMetadata
    <2>1. DOMAIN metadata' = DOMAIN NoMetadata
      BY <1>3 DEF PlaceInv, WithOverview
    <2>2. ~Settled' /\ pc' # "transform"
      BY <1>3 DEF Settled, Walking, Stages
    <2> QED
      BY <2>1, <2>2 DEF PlaceInv
  <1>4. CASE EndChain
    <2>1. UNCHANGED metadata /\ pc # "idle" /\ pc' = "size" /\ target' = 1 /\ result' = "none"
      BY <1>4, Running DEF EndChain, Goes
    <2> QED
      BY <2>1 DEF PlaceInv, Settled, Stages
  <1>5. CASE StagesOn /\ target # 1
    <2>1. /\ pc \in Stages /\ target' # 1
          /\ UNCHANGED <<metadata, ifds>>
      BY <1>5, OverviewLeavesMetadata
    <2>2. Explained /\ DOMAIN metadata = DOMAIN NoMetadata
      BY <1>5, <2>1 DEF PlaceInv, Settled, Stages
    <2>3. Explained'
      BY <1>5, <2>1, <2>2, WarningsStay DEF Explained
    <2> QED
      BY <2>1, <2>2, <2>3 DEF PlaceInv
  <1>6. CASE StagesOn /\ target = 1
    <2>1. /\ DOMAIN metadata' = DOMAIN NoMetadata /\ UNCHANGED <<ifds, target>> /\ result' = "none"
      BY <1>6, FieldsStay, FirstDirectoryGoesOn
    <2>2. ASSUME pc' = "transform" PROVE metadata'.anchor = Anchor'
      <3>1. DecodeKeys
        BY <1>6, <2>2 DEF StagesOn, DecodeSize, DecodeSamples, DecodeCoding, DecodeSegments,
           DecodeTransform, DecodeValues, Decodes, Goes, Returns
      <3>2. Anchor' = Anchor
        BY <2>1 DEF Anchor, KeyValue, Has, N, T
      <3> QED
        BY <1>6, <3>1, <3>2, FieldsStay
    <2>3. ASSUME DecodeTransform PROVE Explained'
      BY <1>6, <2>3, TransformIsExplained
    <2>4. ASSUME DecodeValues PROVE Explained'
      <3>1. pc = "values" /\ Explained
        BY <2>4 DEF DecodeValues, Decoding, PlaceInv, Settled, Stages
      <3> QED
        BY <1>6, <2>1, <2>4, <3>1, FieldsStay, WarningsStay DEF Explained
    <2>5. Settled' => DecodeTransform \/ DecodeValues
      BY <1>6, <2>1 DEF Settled, StagesOn, DecodeSize, DecodeSamples, DecodeCoding, DecodeSegments,
         DecodeKeys, Decodes, Goes
    <2> QED
      BY <2>1, <2>2, <2>3, <2>4, <2>5 DEF PlaceInv
  <1>7. CASE ChooseFirst
    <2>1. UNCHANGED <<metadata, ifds, warnings>> /\ pc = "choose" /\ pc' = "idle"
      BY <1>7 DEF ChooseFirst, Returns, walk, Decoding
    <2> QED
      BY <2>1 DEF PlaceInv, Settled, Explained
  <1>8. CASE ChooseOverview
    <2>1. UNCHANGED <<metadata, ifds, warnings>> /\ pc = "choose" /\ pc' = "size"
      BY <1>8 DEF ChooseOverview, Goes, walk, Decoding
    <2>2. target' # 1
      BY <1>8, <2>1, ChoiceExists DEF ChooseOverview, DirectoryOf
    <2> QED
      BY <2>1, <2>2 DEF PlaceInv, Settled, Explained
  <1> QED
    BY <1>1, <1>2, <1>3, <1>4, <1>5, <1>6, <1>7, <1>8, StepKinds

-----------------------------------------------------------------------------
(***************************************************************************)
(* The theorems.                                                           *)
(***************************************************************************)

\* Of a parse that succeeds, whichever directory gave the layout, a transform
\* without an anchor was warned of and a matrix is the transform (Decode).
THEOREM GeoreferenceIsNeverGuessed == Spec => []GeoreferenceIsExplained
  <1>1. Init => PlaceInv
    BY DEF Init, PlaceInv, Settled, Stages
  <1>2. Inv /\ PlaceInv /\ [Next]_vars => PlaceInv'
    BY PlaceStep
  <1>3. PlaceInv => GeoreferenceIsExplained
    BY DEF PlaceInv, Settled, Explained, GeoreferenceIsExplained
  <1> QED
    BY <1>1, <1>2, <1>3, ParserInvariant, PTL DEF Spec

-----------------------------------------------------------------------------
(***************************************************************************)
(* What the directories hold.                                              *)
(***************************************************************************)
BytesIn(tags) == [tag \in DOMAIN tags |-> ValueBytes(tags[tag])]

\* The bytes of the values of all directories.
AllBytes(chain) == MapThenSumSet(LAMBDA n : Bytes(chain[n]), DOMAIN chain)

\* The bytes of each.
BytesOfAll(chain) == [n \in DOMAIN chain |-> Bytes(chain[n])]

\* Seven elements are finitely many.
LEMMA SevenAreFinite ==
  ASSUME NEW a, NEW b, NEW c, NEW d, NEW e, NEW f, NEW g
  PROVE  IsFiniteSet({a, b, c, d, e, f, g})
  <1>1. ASSUME NEW x, NEW y PROVE IsFiniteSet({x, y})
    <2>1. IsFiniteSet({x}) /\ IsFiniteSet({x} \cup {y})
      BY FS_Singleton, FS_AddElement
    <2>2. {x, y} = {x} \cup {y}
      OBVIOUS
    <2> QED
      BY <2>1, <2>2
  <1>2. IsFiniteSet({a, b} \cup {c, d}) /\ IsFiniteSet({e, f} \cup {g})
    BY <1>1, FS_Union, FS_AddElement
  <1>3. IsFiniteSet(({a, b} \cup {c, d}) \cup ({e, f} \cup {g}))
    BY <1>2, FS_Union
  <1>4. {a, b, c, d, e, f, g} = ({a, b} \cup {c, d}) \cup ({e, f} \cup {g})
    OBVIOUS
  <1> QED
    BY <1>3, <1>4

\* The bytes of a directory are the sum over its tags.
LEMMA BytesAreASum ==
  ASSUME NEW tags \in TagMaps
  PROVE  /\ IsFiniteSet(DOMAIN tags)
         /\ \A tag \in DOMAIN tags : BytesIn(tags)[tag] \in Nat
         /\ Bytes(tags) = SumOf(BytesIn(tags))
         /\ Bytes(tags) \in Nat
  <1> DEFINE S == DOMAIN tags
             v == BytesIn(tags)
             pick == AnyOf(S)
  <1>1. S \in SUBSET KnownTags /\ \A tag \in S : tags[tag] \in Value
    BY DEF TagMaps
  <1>2. IsFiniteSet(S)
    <2>1. IsFiniteSet(KnownTags)
      <3> DEFINE first == {"ImageWidth", "ImageLength", "BitsPerSample", "Compression",
                           "StripOffsets", "SamplesPerPixel", "RowsPerStrip"}
                 second == {"StripByteCounts", "PlanarConfig", "TileWidth", "TileLength",
                            "TileOffsets", "TileByteCounts", "SampleFormat"}
                 third == {"Predictor", "ModelPixelScale", "ModelTiepoint",
                           "ModelTransformation", "GeoKeyDirectory", "GdalMetadata",
                           "GdalNoData"}
      <3>1. IsFiniteSet(first) /\ IsFiniteSet(second) /\ IsFiniteSet(third)
        BY SevenAreFinite
      <3>2. KnownTags = (first \cup second) \cup third
        BY DEF KnownTags
      <3> HIDE DEF first, second, third
      <3> QED
        BY <3>1, <3>2, FS_Union
    <2> QED
      BY <2>1, <1>1, FS_Subset
  <1>3. DOMAIN v = S /\ \A tag \in S : v[tag] = ValueBytes(tags[tag]) /\ v[tag] \in Nat
    BY <1>1, ValueBytesType DEF BytesIn
  <1>4. PICK f : IsSumTable(f, S, v, pick) /\ SumOf(v) = f[S]
    <2> HIDE DEF v, S, pick
    <2>1. \A tag \in S : v[tag] \in Int
      BY <1>3
    <2> QED
      BY <1>2, <1>3, <2>1, SumOfTable DEF pick
  <1>5. Bytes(tags) = SumOf(v)
    <2> DEFINE written(iter) ==
                 iter = [s \in SUBSET S |->
                           IF s = {} THEN 0
                           ELSE ValueBytes(tags[CHOOSE x \in s : TRUE])
                                  + iter[s \ {CHOOSE x \in s : TRUE}]]

    <2>1. Bytes(tags) = (CHOOSE iter : written(iter))[S]
      BY Zenon DEF Bytes, MapThenSumSet, MapThenFoldSet
    <2>2. \E iter : IsSumTable(iter, S, v, pick)
      BY <1>4
    <2>3. ASSUME NEW iter PROVE written(iter) <=> IsSumTable(iter, S, v, pick)
      <3>1. ASSUME NEW s \in SUBSET S, s # {}
            PROVE  pick[s] = (CHOOSE x \in s : TRUE) /\ v[pick[s]] = ValueBytes(tags[pick[s]])
        <4>1. pick[s] = (CHOOSE x \in s : TRUE) /\ pick[s] \in s
          BY <3>1 DEF AnyOf
        <4> QED
          BY <4>1, <1>3
      <3> DEFINE one(s) == IF s = {} THEN 0
                           ELSE ValueBytes(tags[CHOOSE x \in s : TRUE])
                                  + iter[s \ {CHOOSE x \in s : TRUE}]
                 two(s) == IF s = {} THEN 0 ELSE v[pick[s]] + iter[s \ {pick[s]}]
      <3>2. ASSUME NEW s \in SUBSET S PROVE one(s) = two(s)
        <4> HIDE DEF pick, v, S
        <4>1. CASE s = {}
          BY <4>1
        <4>2. CASE s # {}
          <5> DEFINE c == CHOOSE x \in s : TRUE
          <5>1. one(s) = ValueBytes(tags[c]) + iter[s \ {c}]
            BY <4>2
          <5>2. two(s) = v[pick[s]] + iter[s \ {pick[s]}]
            BY <4>2
          <5>3. pick[s] = c /\ v[pick[s]] = ValueBytes(tags[pick[s]])
            BY <4>2, <3>1
          <5> HIDE DEF one, two, c
          <5> QED
            BY <5>1, <5>2, <5>3
        <4> QED
          BY <4>1, <4>2
      <3>3. [s \in SUBSET S |-> one(s)] = [s \in SUBSET S |-> two(s)]
        <4> HIDE DEF one, two, S
        <4> QED
          BY <3>2
      <3>4. written(iter) <=> iter = [s \in SUBSET S |-> one(s)]
        OBVIOUS
      <3>5. IsSumTable(iter, S, v, pick) <=> iter = [s \in SUBSET S |-> two(s)]
        BY DEF IsSumTable
      <3> HIDE DEF one, two, written, pick, v, S
      <3> QED
        BY <3>3, <3>4, <3>5
    <2>4. IsSumTable(CHOOSE iter : written(iter), S, v, pick)
      <3> HIDE DEF written, pick, v, S
      <3> QED
        BY <2>2, <2>3, Zenon
    <2>5. (CHOOSE iter : written(iter))[S] = SumOf(v)
      <3>1. \A tag \in S : v[tag] \in Int
        BY <1>3
      <3>2. Picks(pick, S)
        BY AnyOfPicks
      <3> HIDE DEF written, pick, v, S
      <3> QED
        BY <2>4, <1>2, <1>3, <3>1, <3>2, SumIsOfAnyTable
    <2> QED
      BY <2>1, <2>5
  <1>6. SumOf(v) \in Nat
    <2> HIDE DEF v, S
    <2> QED
      BY <1>2, <1>3, SumOfNumbers
  <1> QED
    BY <1>2, <1>3, <1>5, <1>6
\* The bytes of a chain are the sum over its directories.
LEMMA AllBytesAreASum ==
  ASSUME NEW chain \in Seq(TagMaps)
  PROVE  /\ IsFiniteSet(DOMAIN chain)
         /\ \A n \in DOMAIN chain : BytesOfAll(chain)[n] \in Nat
         /\ AllBytes(chain) = SumOf(BytesOfAll(chain))
         /\ AllBytes(chain) \in Nat
  <1> DEFINE S == DOMAIN chain
             v == BytesOfAll(chain)
             pick == AnyOf(S)
  <1>1. S = 1 .. Len(chain) /\ Len(chain) \in Nat /\ \A n \in S : chain[n] \in TagMaps
    OBVIOUS
  <1>2. IsFiniteSet(S)
    BY <1>1, FS_Interval
  <1>3. DOMAIN v = S /\ \A n \in S : v[n] = Bytes(chain[n]) /\ v[n] \in Nat
    BY <1>1, BytesAreASum DEF BytesOfAll
  <1>4. PICK f : IsSumTable(f, S, v, pick) /\ SumOf(v) = f[S]
    <2> HIDE DEF v, S, pick
    <2>1. \A n \in S : v[n] \in Int
      BY <1>3
    <2> QED
      BY <1>2, <1>3, <2>1, SumOfTable DEF pick
  <1>5. AllBytes(chain) = SumOf(v)
    <2> DEFINE written(iter) ==
                 iter = [s \in SUBSET S |->
                           IF s = {} THEN 0
                           ELSE Bytes(chain[CHOOSE x \in s : TRUE])
                                  + iter[s \ {CHOOSE x \in s : TRUE}]]

    <2>1. AllBytes(chain) = (CHOOSE iter : written(iter))[S]
      BY Zenon DEF AllBytes, MapThenSumSet, MapThenFoldSet
    <2>2. \E iter : IsSumTable(iter, S, v, pick)
      BY <1>4
    <2>3. ASSUME NEW iter PROVE written(iter) <=> IsSumTable(iter, S, v, pick)
      <3>1. ASSUME NEW s \in SUBSET S, s # {}
            PROVE  pick[s] = (CHOOSE x \in s : TRUE) /\ v[pick[s]] = Bytes(chain[pick[s]])
        <4>1. pick[s] = (CHOOSE x \in s : TRUE) /\ pick[s] \in s
          BY <3>1 DEF AnyOf
        <4> QED
          BY <4>1, <1>3
      <3> DEFINE one(s) == IF s = {} THEN 0
                           ELSE Bytes(chain[CHOOSE x \in s : TRUE])
                                  + iter[s \ {CHOOSE x \in s : TRUE}]
                 two(s) == IF s = {} THEN 0 ELSE v[pick[s]] + iter[s \ {pick[s]}]
      <3>2. ASSUME NEW s \in SUBSET S PROVE one(s) = two(s)
        <4> HIDE DEF pick, v, S
        <4>1. CASE s = {}
          BY <4>1
        <4>2. CASE s # {}
          <5> DEFINE c == CHOOSE x \in s : TRUE
          <5>1. one(s) = Bytes(chain[c]) + iter[s \ {c}]
            BY <4>2
          <5>2. two(s) = v[pick[s]] + iter[s \ {pick[s]}]
            BY <4>2
          <5>3. pick[s] = c /\ v[pick[s]] = Bytes(chain[pick[s]])
            BY <4>2, <3>1
          <5> HIDE DEF one, two, c
          <5> QED
            BY <5>1, <5>2, <5>3
        <4> QED
          BY <4>1, <4>2
      <3>3. [s \in SUBSET S |-> one(s)] = [s \in SUBSET S |-> two(s)]
        <4> HIDE DEF one, two, S
        <4> QED
          BY <3>2
      <3>4. written(iter) <=> iter = [s \in SUBSET S |-> one(s)]
        OBVIOUS
      <3>5. IsSumTable(iter, S, v, pick) <=> iter = [s \in SUBSET S |-> two(s)]
        BY DEF IsSumTable
      <3> HIDE DEF one, two, written, pick, v, S
      <3> QED
        BY <3>3, <3>4, <3>5
    <2>4. IsSumTable(CHOOSE iter : written(iter), S, v, pick)
      <3> HIDE DEF written, pick, v, S
      <3> QED
        BY <2>2, <2>3, Zenon
    <2>5. (CHOOSE iter : written(iter))[S] = SumOf(v)
      <3>1. \A n \in S : v[n] \in Int
        BY <1>3
      <3>2. Picks(pick, S)
        BY AnyOfPicks
      <3> HIDE DEF written, pick, v, S
      <3> QED
        BY <2>4, <1>2, <1>3, <3>1, <3>2, SumIsOfAnyTable
    <2> QED
      BY <2>1, <2>5
  <1>6. SumOf(v) \in Nat
    <2> HIDE DEF v, S
    <2> QED
      BY <1>2, <1>3, SumOfNumbers
  <1> QED
    BY <1>2, <1>3, <1>5, <1>6

\* A chain that is empty and a directory without tags hold nothing.
LEMMA NothingHeld == AllBytes(<< >>) = 0 /\ Bytes(<< >>) = 0
  <1>1. << >> \in Seq(TagMaps) /\ << >> \in TagMaps
    <2>1. << >> \in [{} -> Value]
      OBVIOUS
    <2> QED
      BY <2>1 DEF TagMaps
  <1>2. DOMAIN BytesOfAll(<< >>) = {} /\ DOMAIN BytesIn(<< >>) = {}
    BY DEF BytesOfAll, BytesIn
  <1> QED
    BY <1>1, <1>2, BytesAreASum, AllBytesAreASum, SumOfNone

\* A directory more is its bytes more.
LEMMA OneDirectoryMore ==
  ASSUME NEW chain \in Seq(TagMaps), NEW tags \in TagMaps
  PROVE  AllBytes(Append(chain, tags)) = AllBytes(chain) + Bytes(tags)
  <1> DEFINE v == BytesOfAll(chain)
             longer == Append(chain, tags)
             w == BytesOfAll(longer)
             x == Len(chain) + 1
  <1>1. /\ longer \in Seq(TagMaps) /\ DOMAIN longer = DOMAIN chain \cup {x} /\ x \notin DOMAIN chain
        /\ longer[x] = tags /\ \A n \in DOMAIN chain : longer[n] = chain[n]
    OBVIOUS
  <1>2. /\ DOMAIN v = DOMAIN chain /\ DOMAIN w = DOMAIN longer
        /\ w[x] = Bytes(tags) /\ \A n \in DOMAIN v : w[n] = v[n]
    <2> HIDE DEF longer, x
    <2> QED
      BY <1>1 DEF BytesOfAll
  <1>3. /\ IsFiniteSet(DOMAIN chain) /\ \A n \in DOMAIN chain : v[n] \in Nat
        /\ AllBytes(chain) = SumOf(v) /\ AllBytes(longer) = SumOf(w)
        /\ Bytes(tags) \in Nat
    <2> HIDE DEF longer
    <2> QED
      BY <1>1, AllBytesAreASum, BytesAreASum
  <1>4. (\A n \in DOMAIN v : v[n] \in Int) /\ w[x] \in Int
    BY <1>2, <1>3
  <1>5. SumOf(w) = w[x] + SumOf(v) /\ SumOf(v) \in Int
    <2>1. /\ IsFiniteSet(DOMAIN v) /\ x \notin DOMAIN v /\ DOMAIN w = DOMAIN v \cup {x}
          /\ \A n \in DOMAIN v : w[n] = v[n]
      <3> HIDE DEF v, w, x, longer
      <3> QED
        BY <1>1, <1>2, <1>3
    <2> HIDE DEF v, w, x, longer
    <2> QED
      BY <1>4, <2>1, SumOfOneMore
  <1> HIDE DEF v, w, x
  <1> QED
    BY <1>2, <1>3, <1>4, <1>5

\* A tag more, or again, is at most its bytes more.
LEMMA OneTagMore ==
  ASSUME NEW tags \in TagMaps, NEW tag \in KnownTags, NEW value \in Value,
         NEW more, more = [t \in DOMAIN tags \cup {tag} |-> IF t = tag THEN value ELSE tags[t]]
  PROVE  Bytes(more) <= Bytes(tags) + ValueBytes(value)
  <1> DEFINE v == BytesIn(tags)
             w == BytesIn(more)
  <1>1. more \in TagMaps
    <2>1. PICK known \in SUBSET KnownTags : tags \in [known -> Value]
      BY DEF TagMaps
    <2>2. more \in [known \cup {tag} -> Value] /\ known \cup {tag} \in SUBSET KnownTags
      BY <2>1
    <2> QED
      BY <2>2 DEF TagMaps
  <1>2. /\ DOMAIN v = DOMAIN tags /\ DOMAIN w = DOMAIN tags \cup {tag}
        /\ w[tag] = ValueBytes(value)
        /\ \A t \in DOMAIN v : t # tag => w[t] = v[t]
    BY DEF BytesIn
  <1>3. /\ IsFiniteSet(DOMAIN v) /\ \A t \in DOMAIN v : v[t] \in Nat
        /\ Bytes(tags) = SumOf(v) /\ Bytes(more) = SumOf(w)
    BY <1>1, <1>2, BytesAreASum
  <1>4. (\A t \in DOMAIN v : v[t] \in Int) /\ w[tag] \in Int /\ ValueBytes(value) \in Nat
    BY <1>2, <1>3, ValueBytesType
  <1> HIDE DEF v, w
  <1>5. CASE tag \in DOMAIN tags
    <2>1. DOMAIN w = DOMAIN v /\ v[tag] \in Nat
      BY <1>2, <1>3, <1>5
    <2>2. SumOf(w) = SumOf(v) - v[tag] + w[tag] /\ SumOf(v) \in Int
      BY <1>2, <1>3, <1>4, <1>5, <2>1, SumOfReplaced
    <2>3. PICK a \in Nat : a = v[tag]
      BY <2>1
    <2> QED
      BY <1>2, <1>3, <1>4, <2>2, <2>3
  <1>6. CASE tag \notin DOMAIN tags
    <2>1. \A t \in DOMAIN v : w[t] = v[t]
      BY <1>2, <1>6
    <2>2. SumOf(w) = w[tag] + SumOf(v) /\ SumOf(v) \in Int
      BY <1>2, <1>3, <1>4, <1>6, <2>1, SumOfOneMore
    <2> QED
      BY <1>2, <1>3, <1>4, <2>2
  <1> QED
    BY <1>5, <1>6

-----------------------------------------------------------------------------
\* What the parser holds it has counted; only a value that is replaced is
\* counted twice.
Counted == AllBytes(ifds) + Bytes(current) <= metadataBytes

\* The other steps take nothing and leave what was taken.
LEMMA TakesNothing ==
  ASSUME [Next]_vars
  PROVE  \/ \E r \in Requests : Begin(r)
         \/ ReadTable \/ TakeEntry \/ EndTable
         \/ UNCHANGED <<ifds, current, metadataBytes>>
  <1> USE DEF Fail, FailRead, Refuses, Decodes, walk
  <1>1. CASE UNCHANGED vars
    BY <1>1 DEF vars
  <1>2. CASE ReadsSource
    BY <1>2 DEF ReadsSource, ReadBeyond, ReadFails, RefuseSource, RefuseHeader, ReadHeader,
       RefuseBigHeader, ReadBigHeader
  <1>3. CASE WalksChain
    BY <1>3 DEF WalksChain, CountEntries, RefuseChain, RefuseTable, RefuseEntry, SkipEntry, EndChain
  <1>4. CASE DecodesDirectory
    <2>1. CASE DecodeSize \/ DecodeSamples \/ DecodeCoding \/ DecodeSegments \/ DecodeKeys
      BY <2>1 DEF DecodeSize, DecodeSamples, DecodeCoding, DecodeSegments, DecodeKeys
    <2>2. CASE DecodeTransform \/ DecodeValues \/ RefuseTransform \/ RefuseValues
      BY <2>2 DEF DecodeTransform, DecodeValues, RefuseTransform, RefuseValues
    <2>3. CASE RefuseSize \/ RefuseSamples \/ RefuseCoding \/ RefuseSegments \/ RefuseKeys
      BY <2>3 DEF RefuseSize, RefuseSamples, RefuseCoding, RefuseSegments, RefuseKeys
    <2> QED
      BY <1>4, <2>1, <2>2, <2>3 DEF DecodesDirectory
  <1>5. CASE ChoosesLevel
    BY <1>5 DEF ChoosesLevel, RefuseLevel, ChooseFirst, ChooseOverview
  <1>6. CASE AllocationFails
    BY <1>6 DEF AllocationFails
  <1> QED
    BY <1>1, <1>2, <1>3, <1>4, <1>5, <1>6 DEF Next, Progress

\* Every step counts what it takes (ReadIfd).
LEMMA CountedStep ==
  ASSUME Inv, Counted, [Next]_vars
  PROVE  Counted'
  <1>1. /\ ifds \in Seq(TagMaps) /\ current \in TagMaps /\ metadataBytes \in Nat
        /\ AllBytes(ifds) \in Nat /\ Bytes(current) \in Nat
    BY AllBytesAreASum, BytesAreASum DEF Inv, WalkSound
  <1>2. CASE UNCHANGED <<ifds, current, metadataBytes>>
    BY <1>2 DEF Counted
  <1>3. CASE \E r \in Requests : Begin(r)
    <2>1. ifds' = << >> /\ current' = << >> /\ metadataBytes' = 0
      BY <1>3 DEF Begin
    <2> QED
      BY <2>1, NothingHeld DEF Counted
  <1>4. CASE ReadTable
    <2>1. ifds' = ifds /\ current' = << >> /\ metadataBytes' = metadataBytes
      BY <1>4 DEF ReadTable
    <2> QED
      BY <1>1, <2>1, NothingHeld DEF Counted
  <1>5. CASE TakeEntry
    <2>1. /\ ifds' = ifds /\ metadataBytes' = metadataBytes + ValueBytes(Field.value)
          /\ current' = [tag \in DOMAIN current \cup {Field.tag} |->
                           IF tag = Field.tag THEN Field.value ELSE current[tag]]
          /\ AtEntry /\ Field.tag \in KnownTags
      BY <1>5 DEF TakeEntry, Taken, IsKnown
    <2>2. Field.value \in Value /\ ValueBytes(Field.value) \in Nat
      BY <2>1, FieldFacts
    <2>3. Bytes(current') <= Bytes(current) + ValueBytes(Field.value)
      BY <1>1, <2>1, <2>2, OneTagMore
    <2>4. Bytes(current') \in Nat
      BY <1>5, NextKeepsInv, BytesAreASum DEF Next, Progress, WalksChain, Inv, WalkSound
    <2> QED
      BY <1>1, <2>1, <2>2, <2>3, <2>4 DEF Counted
  <1>6. CASE EndTable
    <2>1. ifds' = Append(ifds, current) /\ current' = << >> /\ metadataBytes' = metadataBytes
      BY <1>6 DEF EndTable
    <2>2. AllBytes(ifds') = AllBytes(ifds) + Bytes(current)
      BY <1>1, <2>1, OneDirectoryMore
    <2> QED
      BY <1>1, <2>1, <2>2, NothingHeld DEF Counted
  <1> QED
    BY <1>2, <1>3, <1>4, <1>5, <1>6, TakesNothing

\* However the directories are linked, cycles included, the parser holds no
\* more directories and no more bytes of values than its limits, all
\* directories together (the loop in Run, metadataBytes).
THEOREM ChainsAreBounded == Spec => []ChainIsBounded
  <1>1. Init => Counted
    BY NothingHeld DEF Init, Counted
  <1>2. Inv /\ Counted /\ [Next]_vars => Counted'
    BY CountedStep
  <1>3. ASSUME Inv, Counted PROVE ChainIsBounded
    <2>1. /\ metadataBytes \in Nat /\ metadataBytes <= MaxMetadata /\ Len(ifds) <= MaxLevels
          /\ AllBytes(ifds) \in Nat /\ Bytes(current) \in Nat
      BY <1>3, AllBytesAreASum, BytesAreASum DEF Inv, WalkSound
    <2>2. AllBytes(ifds) + Bytes(current) <= MaxMetadata
      BY <1>3, <2>1, LimitsAssumption DEF Counted
    <2> QED
      BY <2>1, <2>2 DEF ChainIsBounded, AllBytes
  <1> QED
    BY <1>1, <1>2, <1>3, ParserInvariant, PTL DEF Spec

-----------------------------------------------------------------------------
(***************************************************************************)
(* The values of a directory.                                              *)
(***************************************************************************)
\* A directory that was read has the numbers of its tags.
Legible(tags) == \A tag \in DOMAIN tags : Readable(tag, tags[tag])

\* All directories that were read are legible.
AllLegible == Legible(current) /\ \A n \in DOMAIN ifds : Legible(ifds[n])

\* A value that is taken can be read as what its tag is.
LEMMA TakenIsReadable ==
  ASSUME Inv, AtEntry, Taken(Field)
  PROVE  Readable(Field.tag, Field.value)
  <1>1. pc = "entries" /\ cursor <= Here.count
    BY DEF AtEntry
  <1>2. image \in Images /\ at \in DOMAIN image.tables /\ TableFits(image, at)
    BY <1>1 DEF Inv, CallSound, WalkSound
  <1>3. cursor \in Nat \ {0}
    BY <1>1 DEF Inv, WalkSound
  <1>4. Here \in Table /\ Len(Here.entries) = Here.count /\ Here = image.tables[at]
    BY <1>2, FileFacts DEF Here
  <1>5. cursor \in DOMAIN image.tables[at].entries /\ Field = image.tables[at].entries[cursor]
    <2>1. Here.entries \in Seq(Entry)
      BY <1>4 DEF Table
    <2> QED
      BY <1>1, <1>3, <1>4, <2>1 DEF Field
  <1>6. Field.tag \in KnownTags /\ Field.value.type # "Undefined" /\ ValueBytes(Field.value) <= MaxMetadata
    BY DEF Taken, Sound, IsKnown, WithinLimit, TypeSizes
  <1>7. ValidImage(image)
    BY <1>2, ImagesAssumption
  <1> QED
    BY <1>2, <1>5, <1>6, <1>7 DEF ValidImage

\* Every step keeps the directories legible.
LEMMA LegibleStep ==
  ASSUME Inv, AllLegible, [Next]_vars
  PROVE  AllLegible'
  <1>1. Legible(<< >>)
    BY DEF Legible
  <1>2. ifds \in Seq(TagMaps) /\ current \in TagMaps
    BY DEF Inv, WalkSound
  <1>3. CASE UNCHANGED <<ifds, current, metadataBytes>>
    BY <1>3 DEF AllLegible
  <1>4. CASE \E r \in Requests : Begin(r)
    BY <1>1, <1>4 DEF Begin, AllLegible
  <1>5. CASE ReadTable
    BY <1>1, <1>5 DEF ReadTable, AllLegible
  <1>6. CASE TakeEntry
    <2>1. Readable(Field.tag, Field.value)
      BY <1>6, TakenIsReadable DEF TakeEntry
    <2>2. ifds' = ifds /\ current' = [tag \in DOMAIN current \cup {Field.tag} |->
                                      IF tag = Field.tag THEN Field.value ELSE current[tag]]
      BY <1>6 DEF TakeEntry
    <2>3. Legible(current')
      BY <2>1, <2>2 DEF AllLegible, Legible
    <2> QED
      BY <2>2, <2>3 DEF AllLegible
  <1>7. CASE EndTable
    <2>1. ifds' = Append(ifds, current) /\ current' = << >>
      BY <1>7 DEF EndTable
    <2>2. \A n \in DOMAIN ifds' : Legible(ifds'[n])
      BY <1>2, <2>1 DEF AllLegible
    <2> QED
      BY <1>1, <2>1, <2>2 DEF AllLegible
  <1> QED
    BY <1>3, <1>4, <1>5, <1>6, <1>7, TakesNothing

\* A number that is read from a directory is a word (IntegerValue).
LEMMA NumberIsAWord ==
  ASSUME NEW tags \in TagMaps, Legible(tags), NEW tag, tag \notin RealTags \cup TextTags,
         NEW index \in Nat
  PROVE  Number(tags, tag, index) \in Coord
  <1>1. 0 \in Coord
    BY MaxCoordAssumption DEF Coord
  <1>2. CASE tag \in DOMAIN tags /\ index < tags[tag].count
    <2>1. /\ Len(tags[tag].values) = tags[tag].count /\ tags[tag].values \in Seq(Coord)
          /\ tags[tag].count \in Nat
      BY <1>2 DEF Legible, Readable, TagMaps, Value, Coord
    <2>2. index + 1 \in 1 .. Len(tags[tag].values)
      BY <1>2, <2>1
    <2> QED
      BY <1>2, <2>1, <2>2 DEF Number
  <1> QED
    BY <1>1, <1>2 DEF Number
-----------------------------------------------------------------------------
(***************************************************************************)
(* What the checks of a directory have established.                        *)
(***************************************************************************)
SamplesKnown == Samples # 0 /\ SamplesCounted /\ KnownBands = Samples

\* What the stages of the decoding have checked of the directory.
Checked ==
  /\ pc \in Stages \ {"size"} => HasSize(T)
  /\ pc \in Stages \ {"size", "samples"} => SamplesKnown
  /\ pc \in Stages \ {"size", "samples", "coding"} => CodingSound
  /\ pc \in Stages \ {"size", "samples", "coding", "segments"} => SegmentsMatch /\ SegmentsInside

\* Every step keeps what was checked.
LEMMA CheckedStep ==
  ASSUME Inv, Checked, [Next]_vars
  PROVE  Checked'
  <1> USE DEF Stages
  <1> DEFINE Kept == UNCHANGED <<ifds, target, image, libTiff>>
  <1>1. Kept => /\ HasSize(T)' = HasSize(T) /\ SamplesKnown' = SamplesKnown
                /\ CodingSound' = CodingSound
                /\ SegmentsMatch' = SegmentsMatch /\ SegmentsInside' = SegmentsInside
    <2> SUFFICES ASSUME Kept
                 PROVE  /\ HasSize(T)' = HasSize(T) /\ SamplesKnown' = SamplesKnown
                        /\ CodingSound' = CodingSound
                        /\ SegmentsMatch' = SegmentsMatch /\ SegmentsInside' = SegmentsInside
      OBVIOUS
    <2>1. T' = T
      BY DEF T
    <2>2. HasSize(T)' = HasSize(T)
      BY <2>1
    <2>3. SamplesKnown' = SamplesKnown
      BY <2>1 DEF SamplesKnown, Samples, SamplesCounted, KnownBands, Has, Given, N, DataType, OfSample
    <2>4. CodingSound' = CodingSound
      BY <2>1 DEF CodingSound, Compressions, PredictorSound, Planar, Given, Has, N, IsReal, BytesOf,
         DataType, OfSample, Samples
    <2>5. SegmentsMatch' = SegmentsMatch
      BY <2>1 DEF SegmentsMatch, Tagged, HasTile, Has, N, OffsetTag, CountTag, PlaceCount, Tile,
         SegmentCount, Planar, Samples, Given
    <2>6. SegmentsInside' = SegmentsInside
      BY <2>1 DEF SegmentsInside, SegmentList, OffsetTag, CountTag, Tagged, Has, N
    <2> QED
      BY <2>2, <2>3, <2>4, <2>5, <2>6
  <1>2. CASE UNCHANGED vars
    <2>1. Kept /\ pc' = pc
      BY <1>2 DEF vars, walk, source
    <2> HIDE DEF Kept
    <2> QED
      BY <1>1, <2>1 DEF Checked
  <1>3. CASE Failed
    BY <1>3 DEF Failed, Checked
  <1>4. CASE pc' \in Walking
    BY <1>4 DEF Walking, Checked
  <1>5. CASE EndChain
    BY <1>5 DEF EndChain, Goes, Checked
  <1>6. CASE ChooseFirst
    BY <1>6 DEF ChooseFirst, Returns, Checked
  <1>7. CASE ChooseOverview
    BY <1>7 DEF ChooseOverview, Goes, Checked
  <1>8. CASE StagesOn
    <2>1. Kept
      BY <1>8 DEF StagesOn, DecodeSize, DecodeSamples, DecodeCoding, DecodeSegments, DecodeKeys,
         DecodeTransform, DecodeValues, Decodes, Goes, Returns, walk, source
    <2> HIDE DEF Kept
    <2> USE <1>1, <2>1 DEF Decoding, Decodes, Goes, Returns, Checked, SamplesKnown
    <2>2. CASE DecodeSize
      BY <2>2 DEF DecodeSize
    <2>3. CASE DecodeSamples
      BY <2>3 DEF DecodeSamples
    <2>4. CASE DecodeCoding
      BY <2>4 DEF DecodeCoding
    <2>5. CASE DecodeSegments
      BY <2>5 DEF DecodeSegments
    <2>6. CASE DecodeKeys
      BY <2>6 DEF DecodeKeys
    <2>7. CASE DecodeTransform
      BY <2>7 DEF DecodeTransform
    <2>8. CASE DecodeValues
      BY <2>8 DEF DecodeValues
    <2> QED
      BY <1>8, <2>2, <2>3, <2>4, <2>5, <2>6, <2>7, <2>8 DEF StagesOn
  <1> QED
    BY <1>2, <1>3, <1>4, <1>5, <1>6, <1>7, <1>8, StepKinds

-----------------------------------------------------------------------------
(***************************************************************************)
(* The layout of a directory that was checked.                             *)
(***************************************************************************)
TargetSound == target \in DOMAIN ifds /\ ifds \in Seq(TagMaps) /\ AllLegible

\* The numbers of the directory that is decoded are words.
LEMMA WordsOfTheTarget ==
  ASSUME TargetSound
  PROVE  /\ T \in TagMaps /\ Legible(T)
         /\ \A tag, index : tag \notin RealTags \cup TextTags /\ index \in Nat
                              => N(tag, index) \in Coord
         /\ \A tag \in DOMAIN T : T[tag].count \in Nat
  <1>1. T \in TagMaps /\ Legible(T)
    BY DEF TargetSound, T, AllLegible
  <1>2. \A tag \in DOMAIN T : T[tag].count \in Nat
    BY <1>1 DEF TagMaps, Value, Coord
  <1> QED
    BY <1>1, <1>2, NumberIsAWord DEF N

\* The samples are counted, each of some whole bytes.
LEMMA SamplesOfTheTarget ==
  ASSUME TargetSound, SamplesKnown
  PROVE  /\ Samples \in Nat \ {0}
         /\ \A b \in 1 .. Samples : BytesOf(b) \in Nat
  <1>1. N("SamplesPerPixel", 0) \in Nat
    BY WordsOfTheTarget, MaxCoordAssumption DEF RealTags, TextTags, Coord
  <1>2. Samples \in Nat \ {0}
    BY <1>1 DEF Samples, Given, SamplesKnown
  <1> DEFINE known == {n \in 0 .. Samples : \A b \in 1 .. n : DataType(b) \in DataTypes}
  <1>3. known \subseteq 0 .. Samples /\ 0 \in known
    BY <1>2
  <1>4. Samples \in known
    <2>1. Max(known) = Samples
      BY DEF SamplesKnown, KnownBands
    <2> HIDE DEF known
    <2> QED
      BY <1>2, <1>3, <2>1, MaxOfBounded
  <1>5. ASSUME NEW b \in 1 .. Samples PROVE BytesOf(b) \in Nat
    <2>1. DataType(b) \in DataTypes
      BY <1>4
    <2>2. DataType(b)[2] \in {8, 16, 32, 64}
      BY <2>1 DEF DataTypes
    <2> QED
      BY <2>2 DEF BytesOf
  <1> QED
    BY <1>2, <1>5

\* The offsets of the samples of a pixel add up (Decode).
LEMMA OffsetsAddUp ==
  ASSUME TargetSound, SamplesKnown
  PROVE  /\ LayoutHere.sampleOffsets = [b \in 1 .. Samples |-> LayoutHere.sampleOffsets[b]]
         /\ LayoutHere.sampleBytes = [b \in 1 .. Samples |-> BytesOf(b)]
         /\ \A b \in 1 .. Samples :
              LayoutHere.sampleOffsets[b] =
                IF b = 1 \/ Planar = 2 THEN 0
                ELSE LayoutHere.sampleOffsets[b - 1] + LayoutHere.sampleBytes[b - 1]
  <1> DEFINE isBefore(f) ==
               f = [b \in 1 .. Samples + 1 |-> IF b = 1 THEN 0 ELSE f[b - 1] + BytesOf(b - 1)]
             before == CHOOSE f : isBefore(f)
  <1>1. Samples \in Nat \ {0} /\ \A b \in 1 .. Samples : BytesOf(b) \in Nat
    BY SamplesOfTheTarget
  <1>2. \E f : isBefore(f)
    <2> DEFINE size == [k \in 1 .. Samples |-> BytesOf(k)]
    <2>1. Samples \in Nat /\ \A k \in 1 .. Samples : size[k] \in Nat
      BY <1>1
    <2>2. PICK f : f = [b \in 1 .. Samples + 1 |-> IF b = 1 THEN 0 ELSE f[b - 1] + size[b - 1]]
      <3> HIDE DEF size
      <3> QED
        BY <2>1, PrefixSumsExist
    <2>3. ASSUME NEW b \in 1 .. Samples + 1, b # 1 PROVE size[b - 1] = BytesOf(b - 1)
      BY <2>1, <2>3
    <2>4. isBefore(f)
      <3> HIDE DEF size
      <3> QED
        BY <2>2, <2>3
    <2> QED
      BY <2>4
  <1>3. isBefore(before)
    <2> HIDE DEF isBefore
    <2> QED
      BY <1>2
  <1>4. /\ LayoutHere.sampleOffsets = [b \in 1 .. Samples |-> IF Planar = 2 THEN 0 ELSE before[b]]
        /\ LayoutHere.sampleBytes = [b \in 1 .. Samples |-> BytesOf(b)]
    BY DEF LayoutHere
  <1> HIDE DEF before
  <1>5. ASSUME NEW b \in 1 .. Samples
        PROVE  before[b] = IF b = 1 THEN 0 ELSE before[b - 1] + BytesOf(b - 1)
    BY <1>1, <1>3
  <1> HIDE DEF isBefore
  <1> QED
    BY <1>1, <1>4, <1>5

\* What LayoutIsSound says, of any layout.
SoundLayout(lay) ==
  LET across == (lay.width - 1) \div lay.segmentWidth + 1
      down   == (lay.height - 1) \div lay.segmentHeight + 1
      bands  == Len(lay.sampleBytes)
  IN  /\ Len(lay.segments) = across * down * (IF lay.planar = 2 THEN bands ELSE 1)
      /\ \A n \in DOMAIN lay.segments :
           /\ lay.segments[n].byteCount > 0
           /\ lay.segments[n].offset + lay.segments[n].byteCount <= image.size
      /\ bands > 0 /\ Len(lay.sampleOffsets) = bands
      /\ \A b \in 1 .. bands :
           lay.sampleOffsets[b] = IF b = 1 \/ lay.planar = 2 THEN 0
                                  ELSE lay.sampleOffsets[b - 1] + lay.sampleBytes[b - 1]
      /\ lay.predictor = 3 => \A b \in 1 .. bands : lay.sampleBytes[b] = lay.sampleBytes[1]

\* The segments of a directory are as many as its places, strip or tile.
LEMMA PlacesOfTheTarget ==
  ASSUME TargetSound, HasSize(T), SegmentsMatch
  PROVE  PlaceCount = ((LayoutHere.width - 1) \div LayoutHere.segmentWidth + 1)
                        * ((LayoutHere.height - 1) \div LayoutHere.segmentHeight + 1)
  <1> DEFINE w == SizeIn(T).width
             h == SizeIn(T).height
             rows == N("RowsPerStrip", 0)
  <1>1. /\ LayoutHere.width = w /\ LayoutHere.height = h
        /\ LayoutHere.segmentWidth = IF Tagged THEN Tile[1] ELSE w
        /\ LayoutHere.segmentHeight = IF Tagged THEN Tile[2] ELSE rows
    BY DEF LayoutHere
  <1>2. w \in Nat \ {0} /\ h \in Nat \ {0} /\ rows \in Nat
    <2>1. w = N("ImageWidth", 0) /\ h = N("ImageLength", 0)
      BY DEF SizeIn, N
    <2>2. w \in Coord /\ h \in Coord /\ rows \in Coord
      BY <2>1, WordsOfTheTarget DEF RealTags, TextTags
    <2> QED
      BY <2>2, MaxCoordAssumption DEF HasSize, Coord
  <1>3. CASE Tagged
    BY <1>1, <1>3 DEF PlaceCount
  <1>4. CASE ~Tagged
    <2>1. rows \in Nat \ {0} /\ PlaceCount = (h - 1) \div rows + 1
      BY <1>2, <1>4 DEF SegmentsMatch, PlaceCount
    <2> HIDE DEF w, h, rows
    <2>2. PICK a \in Nat : a = w - 1
      BY <1>2
    <2>3. PICK c \in Nat : c = h - 1
      BY <1>2
    <2>4. a \div w = 0
      <3>1. w * 0 <= a /\ a < w * (0 + 1)
        BY <1>2, <2>2
      <3> QED
        BY <1>2, <3>1, QuotientIs
    <2>5. c \div rows \in Nat
      BY <2>1, DivisionFacts
    <2> QED
      BY <1>1, <1>4, <2>1, <2>2, <2>3, <2>4, <2>5
  <1> QED
    BY <1>3, <1>4

\* The layout of a directory that was checked is sound.
LEMMA CheckedLayoutIsSound ==
  ASSUME TargetSound, image.size \in Nat, HasSize(T), SamplesKnown, CodingSound, SegmentsMatch, SegmentsInside
  PROVE  SoundLayout(LayoutHere)
  <1> DEFINE lay == LayoutHere
             bands == Samples
  <1>1. /\ lay.planar = Planar /\ lay.predictor = Given("Predictor", 1)
        /\ lay.segments = SegmentList /\ lay.sampleBytes = [b \in 1 .. bands |-> BytesOf(b)]
    BY DEF LayoutHere
  <1>2. bands \in Nat \ {0} /\ \A b \in 1 .. bands : BytesOf(b) \in Nat
    BY SamplesOfTheTarget
  <1>3. Len(lay.sampleBytes) = bands /\ Len(lay.sampleOffsets) = bands
    <2>1. lay.sampleOffsets = [b \in 1 .. bands |-> lay.sampleOffsets[b]]
      BY OffsetsAddUp
    <2> HIDE DEF lay, bands
    <2> QED
      BY <1>1, <1>2, <2>1
  <1>4. T[OffsetTag].count \in Nat /\ T[OffsetTag].count = SegmentCount
    BY WordsOfTheTarget DEF SegmentsMatch, Has
  <1>5. Len(lay.segments) = SegmentCount /\ DOMAIN lay.segments = DOMAIN SegmentList
    BY <1>1, <1>4 DEF SegmentList
  <1>6. SegmentCount = PlaceCount * (IF lay.planar = 2 THEN bands ELSE 1)
    BY <1>1 DEF SegmentCount
  <1>7. ASSUME NEW n \in DOMAIN lay.segments
        PROVE  /\ lay.segments[n].byteCount > 0
               /\ lay.segments[n].offset + lay.segments[n].byteCount <= image.size
    <2>1. n \in DOMAIN SegmentList /\ n - 1 \in Nat /\ lay.segments[n] = SegmentList[n]
      BY <1>1, <1>4 DEF SegmentList
    <2>2. SegmentList[n] = [offset |-> N(OffsetTag, n - 1), byteCount |-> N(CountTag, n - 1)]
      BY <2>1 DEF SegmentList
    <2>3. N(OffsetTag, n - 1) \in Nat /\ N(CountTag, n - 1) \in Nat
      <3>1. OffsetTag \notin RealTags \cup TextTags /\ CountTag \notin RealTags \cup TextTags
        BY DEF OffsetTag, CountTag, RealTags, TextTags
      <3> QED
        BY <2>1, <3>1, WordsOfTheTarget, MaxCoordAssumption DEF Coord
    <2>4. /\ SegmentList[n].byteCount # 0 /\ SegmentList[n].offset <= image.size
          /\ SegmentList[n].byteCount <= image.size - SegmentList[n].offset
      BY <2>1 DEF SegmentsInside
    <2> HIDE DEF lay
    <2> QED
      BY <2>1, <2>2, <2>3, <2>4
  <1>8. ASSUME lay.predictor = 3, NEW b \in 1 .. bands
        PROVE  lay.sampleBytes[b] = lay.sampleBytes[1]
    <2>1. BytesOf(b) = BytesOf(1)
      BY <1>1, <1>8 DEF CodingSound, PredictorSound
    <2> HIDE DEF lay
    <2> QED
      BY <1>1, <1>2, <2>1
  <1>9. \A b \in 1 .. bands :
          lay.sampleOffsets[b] = IF b = 1 \/ lay.planar = 2 THEN 0
                                 ELSE lay.sampleOffsets[b - 1] + lay.sampleBytes[b - 1]
    BY <1>1, OffsetsAddUp
  <1>10. PlaceCount = ((lay.width - 1) \div lay.segmentWidth + 1)
                        * ((lay.height - 1) \div lay.segmentHeight + 1)
    BY PlacesOfTheTarget
  <1> HIDE DEF lay, bands
  <1>11. Len(lay.segments) = ((lay.width - 1) \div lay.segmentWidth + 1)
                               * ((lay.height - 1) \div lay.segmentHeight + 1)
                               * (IF lay.planar = 2 THEN Len(lay.sampleBytes) ELSE 1)
    BY <1>3, <1>5, <1>6, <1>10
  <1> QED
    BY <1>2, <1>3, <1>7, <1>8, <1>9, <1>11 DEF SoundLayout, lay

-----------------------------------------------------------------------------
\* The layout is sound from the end of the first directory on.
LayoutInv ==
  (result = "ok" \/ pc = "choose" \/ (pc \in Stages /\ target # 1)) /\ request.layout
    => SoundLayout(layout)

\* Every step keeps the layout, or takes the one of a directory that was checked.
LEMMA LayoutStep ==
  ASSUME Inv, TypeOK, AllLegible, Checked, LayoutInv, [Next]_vars
  PROVE  LayoutInv'
  <1> USE DEF Stages
  <1>1. UNCHANGED <<layout, image>> => SoundLayout(layout)' = SoundLayout(layout)
    BY DEF SoundLayout
  <1>2. CASE UNCHANGED vars
    BY <1>1, <1>2 DEF LayoutInv, vars, found, source
  <1>3. CASE Failed
    BY <1>3 DEF Failed, LayoutInv
  <1>4. CASE pc' \in Walking /\ result' = "none"
    BY <1>4 DEF Walking, LayoutInv
  <1>5. CASE EndChain
    <2>1. pc' = "size" /\ target' = 1 /\ result' = "none"
      BY <1>5, Running DEF EndChain, Goes
    <2> QED
      BY <2>1 DEF LayoutInv
  <1>6. CASE ChooseFirst
    <2>1. UNCHANGED <<layout, image, request>> /\ pc = "choose"
      BY <1>6 DEF ChooseFirst, Decoding, Returns, found, source
    <2> QED
      BY <1>1, <2>1 DEF LayoutInv
  <1>7. CASE ChooseOverview
    <2>1. UNCHANGED <<layout, image, request>> /\ pc = "choose"
      BY <1>7 DEF ChooseOverview, Decoding, Goes, source
    <2> QED
      BY <1>1, <2>1 DEF LayoutInv
  <1>8. CASE DecodeValues
    <2>1. /\ pc = "values" /\ UNCHANGED <<image, request>>
          /\ request.layout => layout' = LayoutHere
      BY <1>8 DEF DecodeValues, Decoding, Goes, Returns, source
    <2>2. TargetSound /\ image.size \in Nat
      BY <2>1, FileFacts DEF TargetSound, TypeOK, Inv, WalkSound, CallSound
    <2>3. SoundLayout(LayoutHere)
      BY <2>1, <2>2, CheckedLayoutIsSound DEF Checked
    <2>4. request.layout => SoundLayout(layout')
      BY <2>1, <2>3
    <2>5. SoundLayout(layout)' <=> SoundLayout(layout')
      BY <2>1 DEF SoundLayout
    <2> QED
      BY <2>1, <2>4, <2>5 DEF LayoutInv
  <1>9. CASE StagesOn /\ ~DecodeValues
    <2>1. UNCHANGED <<layout, image, request, target, result>> /\ pc \in Stages /\ pc' \in Stages
      BY <1>9 DEF StagesOn, DecodeSize, DecodeSamples, DecodeCoding, DecodeSegments, DecodeKeys,
         DecodeTransform, Decoding, Decodes, Goes, found, source
    <2>2. result = "none"
      BY <2>1, Running
    <2> QED
      BY <1>1, <2>1, <2>2 DEF LayoutInv
  <1> QED
    BY <1>2, <1>3, <1>4, <1>5, <1>6, <1>7, <1>8, <1>9, StepKinds

\* What a windowed read takes for granted of the layout it gets: a segment for
\* every place and plane, all inside the file; the bands of a pixel one after
\* the other; samples of one size under the floating-point predictor (Decode).
THEOREM LayoutsAreSound == Spec => []LayoutIsSound
  <1>1. Init => AllLegible /\ Checked /\ LayoutInv
    BY DEF Init, AllLegible, Legible, Checked, LayoutInv, Stages
  <1>2. Inv /\ TypeOK /\ AllLegible /\ Checked /\ LayoutInv /\ [Next]_vars
          => (AllLegible /\ Checked /\ LayoutInv)'
    BY LegibleStep, CheckedStep, LayoutStep
  <1>3. LayoutInv => LayoutIsSound
    BY DEF LayoutInv, LayoutIsSound, SoundLayout
  <1> QED
    BY <1>1, <1>2, <1>3, ParserInvariant, ParserTypeCorrect, PTL DEF Spec

-----------------------------------------------------------------------------
(***************************************************************************)
(* The metadata describes the first directory and lists the others.        *)
(***************************************************************************)
Lists(list, chain) ==
  /\ Len(list) = Cardinality(Sized(chain))
  /\ \A n \in Sized(chain) : list[PlaceIn(chain, n)] = SizeIn(chain[n])

\* The directories with a size are finitely many.
LEMMA OverviewsAreFinite ==
  ASSUME NEW chain \in Seq(TagMaps)
  PROVE  IsFiniteSet(Sized(chain)) /\ Cardinality(Sized(chain)) \in Nat
  <1>1. Sized(chain) \in SUBSET (2 .. Len(chain)) /\ Len(chain) \in Int
    BY DEF Sized
  <1>2. IsFiniteSet(2 .. Len(chain))
    BY <1>1, FS_Interval
  <1> QED
    BY <1>1, <1>2, FS_Subset, FS_CardinalityType

\* The places of the overviews are those of a list.
LEMMA PlacesAreInTheList ==
  ASSUME NEW chain \in Seq(TagMaps), NEW n \in Sized(chain)
  PROVE  /\ IsFiniteSet(Sized(chain)) /\ Cardinality(Sized(chain)) \in Nat
         /\ PlaceIn(chain, n) \in 1 .. Cardinality(Sized(chain))
  <1> DEFINE upTo == {m \in Sized(chain) : m <= n}
  <1>1. IsFiniteSet(Sized(chain)) /\ Cardinality(Sized(chain)) \in Nat
    BY OverviewsAreFinite
  <1>2. upTo \in SUBSET Sized(chain) /\ n \in upTo
    BY DEF Sized
  <1> HIDE DEF upTo
  <1>3. Cardinality(upTo) \in Nat /\ Cardinality(upTo) <= Cardinality(Sized(chain)) /\ Cardinality(upTo) # 0
    <2>1. upTo # {}
      BY <1>2
    <2> QED
      BY <1>1, <1>2, <2>1, SizesOfSubsets
  <1> QED
    BY <1>1, <1>3 DEF PlaceIn, upTo

\* The list after a directory (WithOverview).
LEMMA ListFollowsChain ==
  ASSUME NEW chain \in Seq(TagMaps), NEW tags \in TagMaps, NEW list \in Seq(Sizes), Lists(list, chain),
         NEW longer, longer = IF chain # << >> /\ HasSize(tags) THEN Append(list, SizeIn(tags)) ELSE list
  PROVE  Lists(longer, Append(chain, tags))
  <1> DEFINE after == Append(chain, tags)
             last == Len(chain) + 1
  <1>1. /\ after \in Seq(TagMaps) /\ Len(after) = last /\ after[last] = tags
        /\ \A n \in 1 .. Len(chain) : after[n] = chain[n]
        /\ Len(chain) \in Nat
    OBVIOUS
  <1> HIDE DEF after
  <1>2. IsFiniteSet(Sized(chain)) /\ Cardinality(Sized(chain)) \in Nat
    BY OverviewsAreFinite
  <1>3. ASSUME NEW n \in Sized(chain)
        PROVE  /\ n \in Sized(after) /\ after[n] = chain[n]
               /\ PlaceIn(after, n) = PlaceIn(chain, n)
    <2>1. n \in Int /\ n <= Len(chain) /\ n \in Sized(after) /\ after[n] = chain[n]
      BY <1>1 DEF Sized
    <2>2. {m \in Sized(after) : m <= n} = {m \in Sized(chain) : m <= n}
      BY <1>1, <2>1 DEF Sized
    <2> QED
      BY <2>1, <2>2 DEF PlaceIn
  <1>4. CASE chain # << >> /\ HasSize(tags)
    <2>1. Len(chain) >= 1
      BY <1>1, <1>4
    <2>2. Sized(after) = Sized(chain) \cup {last} /\ last \notin Sized(chain)
      BY <1>1, <1>4, <2>1 DEF Sized
    <2>3. Cardinality(Sized(after)) = Cardinality(Sized(chain)) + 1
      BY <1>2, <2>2, FS_AddElement
    <2>4. PlaceIn(after, last) = Cardinality(Sized(after))
      <3>1. {m \in Sized(after) : m <= last} = Sized(after)
        BY <1>1 DEF Sized
      <3> QED
        BY <3>1 DEF PlaceIn
    <2>5. longer = Append(list, SizeIn(tags)) /\ Len(list) = Cardinality(Sized(chain))
      BY <1>4 DEF Lists
    <2>6. Len(longer) = Len(list) + 1 /\ longer[Len(list) + 1] = SizeIn(tags)
      BY <2>5
    <2>7. ASSUME NEW n \in Sized(chain) PROVE longer[PlaceIn(after, n)] = SizeIn(after[n])
      <3>1. PlaceIn(chain, n) \in 1 .. Len(list)
        BY <2>5, PlacesAreInTheList
      <3>2. longer[PlaceIn(chain, n)] = list[PlaceIn(chain, n)]
        BY <2>5, <3>1
      <3> QED
        BY <1>3, <3>2 DEF Lists
    <2>8. longer[PlaceIn(after, last)] = SizeIn(after[last])
      BY <1>1, <2>3, <2>4, <2>5, <2>6
    <2> QED
      BY <2>2, <2>3, <2>5, <2>6, <2>7, <2>8 DEF Lists, after
  <1>5. CASE ~(chain # << >> /\ HasSize(tags))
    <2>1. longer = list
      BY <1>5
    <2>2. Sized(after) = Sized(chain)
      <3>1. chain = << >> => last = 1
        OBVIOUS
      <3> QED
        BY <1>1, <1>5, <3>1 DEF Sized
    <2> QED
      BY <1>3, <2>1, <2>2 DEF Lists, after
  <1> QED
    BY <1>4, <1>5

\* No directory, no list.
LEMMA EmptyList == Lists(<< >>, << >>)
  <1>1. Sized(<< >>) = {}
    BY DEF Sized
  <1> QED
    BY <1>1, FS_EmptySet DEF Lists

\* The list is the one of the directories walked so far.
ListedInv == result # "failed" => Lists(metadata.overviews, ifds)

-----------------------------------------------------------------------------

\* The bands a directory says it has.
BandsOf(tags) ==
  IF "SamplesPerPixel" \in DOMAIN tags THEN Number(tags, "SamplesPerPixel", 0) ELSE 1

\* The stages after which the size and the bands of the first directory are stored.
Stored(before) ==
  result = "ok" \/ pc = "choose" \/ (pc \in Stages /\ (target # 1 \/ pc \notin before))

\* What the metadata takes from the first directory, stage by stage.
DescribedInv ==
  /\ Stored({"size"}) => /\ metadata.width = SizeIn(ifds[1]).width
                         /\ metadata.height = SizeIn(ifds[1]).height
  /\ Stored({"size", "samples"}) => /\ BandsOf(ifds[1]) \in Nat
                                    /\ Len(metadata.bands) = BandsOf(ifds[1])
                                    /\ DOMAIN metadata.bands = 1 .. BandsOf(ifds[1])

\* What decoding the first directory stores of its size and bands, and of the
\* list nothing.
LEMMA FirstDirectoryStores ==
  ASSUME Inv, PlaceInv, StagesOn, target = 1
  PROVE  /\ IF DecodeSize THEN /\ metadata'.width = SizeIn(T).width
                               /\ metadata'.height = SizeIn(T).height
            ELSE metadata'.width = metadata.width /\ metadata'.height = metadata.height
         /\ CASE DecodeSamples -> metadata'.bands = BandList(Samples)
              [] DecodeValues -> metadata'.bands = Labelled(Described)
              [] OTHER -> metadata'.bands = metadata.bands
         /\ metadata'.overviews = metadata.overviews
  <1>1. DOMAIN metadata = DOMAIN NoMetadata
    BY FirstDirectoryGoesOn DEF PlaceInv, Stages
  <1>2. {"width", "height", "bands", "overviews"} \subseteq DOMAIN metadata
    BY <1>1 DEF NoMetadata
  <1> USE <1>2 DEF Decoding, Filling, Fills
  <1>3. CASE DecodeSize
    <2>1. metadata' = [metadata EXCEPT !.width = SizeIn(T).width, !.height = SizeIn(T).height]
          /\ pc = "size"
      BY <1>3 DEF DecodeSize
    <2>2. ~DecodeSamples /\ ~DecodeValues
      BY <2>1 DEF DecodeSamples, DecodeValues
    <2> QED
      BY <1>3, <2>1, <2>2
  <1>4. CASE DecodeSamples
    <2>1. metadata' = [metadata EXCEPT !.bands = BandList(Samples)] /\ pc = "samples"
      BY <1>4 DEF DecodeSamples
    <2>2. ~DecodeSize /\ ~DecodeValues
      BY <2>1 DEF DecodeSize, DecodeValues
    <2> QED
      BY <1>4, <2>1, <2>2
  <1>5. CASE DecodeValues
    <2>1. metadata' = [metadata EXCEPT !.bands = Labelled(Described)] /\ pc = "values"
      BY <1>5 DEF DecodeValues
    <2>2. ~DecodeSize /\ ~DecodeSamples
      BY <2>1 DEF DecodeSize, DecodeSamples
    <2> QED
      BY <1>5, <2>1, <2>2
  <1>6. CASE DecodeCoding \/ DecodeSegments \/ DecodeKeys \/ DecodeTransform
    <2>1. pc \in {"coding", "segments", "keys", "transform"}
      BY <1>6 DEF DecodeCoding, DecodeSegments, DecodeKeys, DecodeTransform
    <2>2. ~DecodeSize /\ ~DecodeSamples /\ ~DecodeValues
      BY <2>1 DEF DecodeSize, DecodeSamples, DecodeValues
    <2>3. CASE DecodeCoding
      BY <2>2, <2>3 DEF DecodeCoding
    <2>4. CASE DecodeSegments
      BY <2>2, <2>4 DEF DecodeSegments
    <2>5. CASE DecodeKeys
      <3>1. metadata' = [metadata EXCEPT !.crs = CrsKind, !.anchor = Anchor,
                           !.epsg = KeyValue(IF CrsKind = "Projected" THEN 3072 ELSE 2048),
                           !.metre = CrsKind = "Projected" /\ KeyValue(3076) = 9001]
        BY <2>5 DEF DecodeKeys
      <3> QED
        BY <2>2, <3>1
    <2>6. CASE DecodeTransform
      BY <2>2, <2>6 DEF DecodeTransform
    <2> QED
      BY <1>6, <2>3, <2>4, <2>5, <2>6
  <1> QED
    BY <1>3, <1>4, <1>5, <1>6 DEF StagesOn

\* A step that ends no directory of the chain and stores nothing of one.
LEMMA ListKinds ==
  ASSUME Inv, [Next]_vars
  PROVE  \/ Failed
         \/ \E r \in Requests : Begin(r)
         \/ EndTable
         \/ StagesOn
         \/ UNCHANGED <<metadata, ifds>> /\ (result = "failed" => result' = "failed")
  <1>0. pc # "idle" => result = "none"
    BY Running
  <1> USE <1>0 DEF Failed, Returns, Fail, Goes, Refuses, Asks, AtEntry, walk
  <1>1. CASE UNCHANGED vars
    BY <1>1 DEF vars
  <1>2. CASE ReadsSource
    <2>1. CASE ReadBeyond \/ ReadFails
      BY <2>1 DEF ReadBeyond, ReadFails, FailRead
    <2>2. CASE RefuseSource \/ RefuseHeader \/ RefuseBigHeader
      BY <2>2 DEF RefuseSource, RefuseHeader, RefuseBigHeader
    <2>3. CASE ReadHeader \/ ReadBigHeader
      BY <2>3 DEF ReadHeader, ReadBigHeader, OutputsStay
    <2> QED
      BY <1>2, <2>1, <2>2, <2>3 DEF ReadsSource
  <1>3. CASE WalksChain
    <2>1. CASE CountEntries \/ ReadTable \/ SkipEntry \/ TakeEntry
      BY <2>1 DEF CountEntries, ReadTable, SkipEntry, TakeEntry, OutputsStay
    <2>2. CASE RefuseChain \/ RefuseTable \/ RefuseEntry
      BY <2>2 DEF RefuseChain, RefuseTable, RefuseEntry
    <2>3. CASE EndChain
      BY <2>3 DEF EndChain
    <2> QED
      BY <1>3, <2>1, <2>2, <2>3 DEF WalksChain
  <1>4. CASE DecodesDirectory
    <2>1. CASE RefuseSize \/ RefuseSamples \/ RefuseCoding \/ RefuseSegments
      BY <2>1 DEF RefuseSize, RefuseSamples, RefuseCoding, RefuseSegments
    <2>2. CASE RefuseKeys \/ RefuseTransform \/ RefuseValues
      BY <2>2 DEF RefuseKeys, RefuseTransform, RefuseValues
    <2> QED
      BY <1>4, <2>1, <2>2 DEF DecodesDirectory, StagesOn
  <1>5. CASE ChoosesLevel
    BY <1>5 DEF ChoosesLevel, RefuseLevel, ChooseFirst, ChooseOverview, Decoding
  <1>6. CASE AllocationFails
    BY <1>6 DEF AllocationFails
  <1> QED
    BY <1>1, <1>2, <1>3, <1>4, <1>5, <1>6 DEF Next, Progress

\* Every step keeps the list that of the chain.
LEMMA ListedStep ==
  ASSUME Inv, PlaceInv, ListedInv, [Next]_vars
  PROVE  ListedInv'
  <1>0. ifds \in Seq(TagMaps) /\ current \in TagMaps /\ metadata.overviews \in Seq(Sizes)
    BY DEF Inv, WalkSound, ListSound, ListIn
  <1>1. CASE UNCHANGED <<metadata, ifds>> /\ (result = "failed" => result' = "failed")
    BY <1>1 DEF ListedInv
  <1>2. CASE \E r \in Requests : Begin(r)
    <2>1. metadata'.overviews = << >> /\ ifds' = << >>
      BY <1>2 DEF Begin, NoMetadata
    <2> QED
      BY <2>1, EmptyList DEF ListedInv
  <1>3. CASE EndTable
    <2>1. /\ ifds' = Append(ifds, current) /\ metadata' = WithOverview /\ pc # "idle"
      BY <1>3 DEF EndTable
    <2>2. metadata'.overviews = IF ifds # << >> /\ HasSize(current)
                                THEN Append(metadata.overviews, SizeIn(current))
                                ELSE metadata.overviews
      BY <2>1 DEF WithOverview, Inv, ListSound, ListIn
    <2>3. Lists(metadata.overviews, ifds)
      BY <2>1, Running DEF ListedInv
    <2> QED
      BY <1>0, <2>1, <2>2, <2>3, ListFollowsChain DEF ListedInv
  <1>4. CASE StagesOn
    <2>1. metadata'.overviews = metadata.overviews /\ UNCHANGED ifds /\ pc \in Stages
      BY <1>4, FirstDirectoryStores, OverviewLeavesMetadata, FirstDirectoryGoesOn
    <2>2. result = "none"
      BY <2>1, Running DEF Stages
    <2> QED
      BY <2>1, <2>2 DEF ListedInv
  <1>5. CASE Failed
    BY <1>5 DEF Failed, ListedInv
  <1> QED
    BY <1>1, <1>2, <1>3, <1>4, <1>5, ListKinds

\* Every step keeps what is stored of the first directory.
LEMMA DescribedStep ==
  ASSUME Inv, TypeOK, AllLegible, Checked, PlaceInv, DescribedInv, [Next]_vars
  PROVE  DescribedInv'
  <1>1. CASE UNCHANGED vars
    BY <1>1 DEF DescribedInv, Stored, vars, walk
  <1>2. CASE Failed
    BY <1>2 DEF DescribedInv, Stored, Failed, Stages
  <1>3. CASE pc' \in Walking /\ result' = "none"
    BY <1>3 DEF DescribedInv, Stored, Walking, Stages
  <1>4. CASE EndChain
    <2>1. pc' = "size" /\ target' = 1 /\ result' = "none"
      BY <1>4, Running DEF EndChain, Goes
    <2> QED
      BY <2>1 DEF DescribedInv, Stored
  <1>5. CASE StagesOn /\ target # 1
    <2>1. /\ UNCHANGED <<metadata, ifds>> /\ pc \in Stages
      BY <1>5, OverviewLeavesMetadata
    <2> QED
      BY <1>5, <2>1 DEF DescribedInv, Stored
  <1>6. CASE StagesOn /\ target = 1
    <2>1. /\ UNCHANGED <<ifds, target>> /\ result' = "none" /\ T = ifds[1]
          /\ pc \in Stages /\ pc' \in Stages \cup {"choose"}
      BY <1>6, FirstDirectoryGoesOn DEF T
    <2>2. Samples = BandsOf(ifds[1])
      BY <2>1 DEF Samples, Given, Has, N, BandsOf
    <2>3. TargetSound
      BY <2>1 DEF TargetSound, TypeOK, Inv, WalkSound
    <2>4. /\ pc = "size" <=> DecodeSize
          /\ pc = "samples" <=> DecodeSamples
          /\ pc = "values" <=> DecodeValues
          /\ pc = "size" => pc' = "samples"
          /\ pc' # "size"
          /\ pc' = "samples" => pc = "size"
      BY <1>6 DEF StagesOn, DecodeSize, DecodeSamples, DecodeCoding, DecodeSegments, DecodeKeys,
         DecodeTransform, DecodeValues, Decoding, Decodes, Goes, Returns
    <2>5. /\ metadata'.width = SizeIn(ifds'[1]).width
          /\ metadata'.height = SizeIn(ifds'[1]).height
      <3>1. CASE pc = "size"
        BY <1>6, <2>1, <2>4, <3>1, FirstDirectoryStores
      <3>2. CASE pc # "size"
        <4>1. Stored({"size"})
          BY <2>1, <3>2 DEF Stored
        <4> QED
          BY <1>6, <2>1, <2>4, <3>2, <4>1, FirstDirectoryStores DEF DescribedInv
      <3> QED
        BY <3>1, <3>2
    <2>6. ASSUME pc # "size"
          PROVE  /\ BandsOf(ifds'[1]) \in Nat
                 /\ Len(metadata'.bands) = BandsOf(ifds'[1])
                 /\ DOMAIN metadata'.bands = 1 .. BandsOf(ifds'[1])
      <3>1. CASE pc = "samples"
        <4>1. SamplesKnown
          BY <2>4, <3>1 DEF DecodeSamples, SamplesKnown
        <4>2. Samples \in Nat
          BY <2>3, <4>1, SamplesOfTheTarget
        <4>3. metadata'.bands = BandList(Samples)
          BY <1>6, <2>4, <3>1, FirstDirectoryStores
        <4>4. Len(BandList(Samples)) = Samples /\ DOMAIN BandList(Samples) = 1 .. Samples
          BY <4>2 DEF BandList
        <4> QED
          BY <2>1, <2>2, <4>2, <4>3, <4>4
      <3>2. CASE pc # "samples"
        <4>1. Stored({"size", "samples"})
          BY <2>1, <2>6, <3>2 DEF Stored
        <4>2. /\ BandsOf(ifds[1]) \in Nat /\ Len(metadata.bands) = BandsOf(ifds[1])
              /\ DOMAIN metadata.bands = 1 .. BandsOf(ifds[1])
          BY <4>1 DEF DescribedInv
        <4>3. CASE pc = "values"
          <5>1. metadata'.bands = Labelled(Described)
            BY <1>6, <2>4, <3>2, <4>3, FirstDirectoryStores
          <5>2. DOMAIN Filling.bands = 1 .. BandsOf(ifds[1])
            BY <1>6, <4>2 DEF Filling
          <5>3. Len(Labelled(Described)) = BandsOf(ifds[1])
                /\ DOMAIN Labelled(Described) = 1 .. BandsOf(ifds[1])
            BY <4>2, <5>2 DEF Labelled
          <5> QED
            BY <2>1, <4>2, <5>1, <5>3
        <4>4. CASE pc # "values"
          BY <1>6, <2>1, <2>4, <3>2, <4>2, <4>4, FirstDirectoryStores
        <4> QED
          BY <4>3, <4>4
      <3> QED
        BY <3>1, <3>2
    <2>7. Stored({"size", "samples"})' => pc # "size"
      BY <2>1, <2>4, <1>6 DEF Stored
    <2> QED
      BY <2>5, <2>6, <2>7 DEF DescribedInv
  <1>7. CASE ChooseFirst
    <2>1. UNCHANGED <<metadata, ifds>> /\ pc = "choose"
      BY <1>7 DEF ChooseFirst, Decoding, walk
    <2> QED
      BY <2>1 DEF DescribedInv, Stored
  <1>8. CASE ChooseOverview
    <2>1. UNCHANGED <<metadata, ifds>> /\ pc = "choose"
      BY <1>8 DEF ChooseOverview, Decoding, walk
    <2> QED
      BY <2>1 DEF DescribedInv, Stored
  <1> QED
    BY <1>1, <1>2, <1>3, <1>4, <1>5, <1>6, <1>7, <1>8, StepKinds

\* A parse that succeeds describes the first directory and lists the sizes of
\* the others, whichever directory gave the layout (Decode fills the caller's
\* metadata once).
THEOREM MetadataIsTheFirsts == Spec => []MetadataIsOfTheFirst
  <1>1. Init => PlaceInv /\ AllLegible /\ Checked /\ ListedInv /\ DescribedInv
    <2> SUFFICES ASSUME Init PROVE PlaceInv /\ AllLegible /\ Checked /\ ListedInv /\ DescribedInv
      OBVIOUS
    <2>1. PlaceInv /\ AllLegible /\ Checked /\ DescribedInv
      BY DEF Init, PlaceInv, Settled, AllLegible, Legible, Checked, DescribedInv, Stored, Stages
    <2>2. metadata.overviews = << >> /\ ifds = << >>
      BY DEF Init, NoMetadata
    <2> QED
      BY <2>1, <2>2, EmptyList DEF ListedInv
  <1>2. Inv /\ TypeOK /\ PlaceInv /\ AllLegible /\ Checked /\ ListedInv /\ DescribedInv /\ [Next]_vars
          => (PlaceInv /\ AllLegible /\ Checked /\ ListedInv /\ DescribedInv)'
    BY PlaceStep, LegibleStep, CheckedStep, ListedStep, DescribedStep
  <1>3. ListedInv /\ DescribedInv => MetadataIsOfTheFirst
    BY DEF ListedInv, DescribedInv, Stored, Lists, BandsOf, MetadataIsOfTheFirst, SizeIn
  <1> QED
    BY <1>1, <1>2, <1>3, ParserInvariant, ParserTypeCorrect, PTL DEF Spec

-----------------------------------------------------------------------------
(***************************************************************************)
(* The coarsest level is read.                                             *)
(***************************************************************************)

\* When the levels are looked at there is a request and a first directory, and a
\* layout that is not an overview's is its own.
FirstLayoutInv ==
  pc = "choose" \/ result = "ok" =>
    /\ request \in Requests /\ ifds # << >>
    /\ request.layout /\ chosen = 0 => LayoutSize = SizeIn(ifds[1])

\* Every step keeps the layout of the first directory.
LEMMA FirstLayoutStep ==
  ASSUME Inv, FirstLayoutInv, [Next]_vars
  PROVE  FirstLayoutInv'
  <1> USE DEF FirstLayoutInv
  <1>1. CASE UNCHANGED vars
    BY <1>1 DEF vars, found, walk, LayoutSize
  <1>2. CASE Failed
    BY <1>2 DEF Failed
  <1>3. CASE pc' \in Walking /\ result' = "none"
    BY <1>3 DEF Walking
  <1>4. CASE EndChain
    BY <1>4, Running DEF EndChain, Goes
  <1>5. CASE StagesOn /\ target # 1
    <2>1. /\ UNCHANGED <<request, ifds, chosen>> /\ pc \in Stages /\ (pc' \in Stages \/ pc' = "idle")
      BY <1>5, OverviewLeavesMetadata
    <2>2. request \in Requests /\ ifds # << >> /\ chosen # 0
      BY <1>5, <2>1 DEF Inv, LevelSound, CallSound, Stages
    <2> QED
      BY <2>1, <2>2 DEF Stages
  <1>6. CASE StagesOn /\ target = 1
    <2>1. /\ UNCHANGED <<request, ifds>> /\ result' = "none"
          /\ pc \in Stages /\ pc' \in Stages \cup {"choose"}
      BY <1>6, FirstDirectoryGoesOn
    <2>2. request \in Requests /\ ifds # << >>
      BY <2>1 DEF Inv, LevelSound, CallSound, Stages
    <2>3. ASSUME pc' = "choose", request.layout PROVE LayoutSize' = SizeIn(ifds[1])
      <3>1. DecodeValues
        BY <1>6, <2>3 DEF StagesOn, DecodeSize, DecodeSamples, DecodeCoding, DecodeSegments,
           DecodeKeys, DecodeTransform, Decodes, Goes
      <3>2. layout' = LayoutHere
        BY <2>3, <3>1 DEF DecodeValues
      <3> QED
        BY <1>6, <3>2 DEF LayoutHere, LayoutSize, SizeIn, T
    <2> QED
      BY <2>1, <2>2, <2>3
  <1>7. CASE ChooseFirst
    BY <1>7 DEF ChooseFirst, Decoding, Returns, found, walk, LayoutSize
  <1>8. CASE ChooseOverview
    BY <1>8, Running DEF ChooseOverview, Goes, Decoding
  <1> QED
    BY <1>1, <1>2, <1>3, <1>4, <1>5, <1>6, <1>7, <1>8, StepKinds

\* A rounded factor that the step allows says that the step covers the width.
LEMMA FactorCovers ==
  ASSUME NEW base \in Nat \ {0}, NEW width \in Nat \ {0}, width <= base, 2 * base <= MaxCoord,
         NEW step \in Nat
  PROVE  LET factor == OverviewFactor(base, width)
         IN  factor # 0 /\ factor <= step <=> base + width \div 2 < (step + 1) * width
  <1>1. PICK half \in Nat : half = width \div 2 /\ half <= width
    OBVIOUS
  <1>2. PICK n \in Nat : n = base + half /\ n >= width /\ n <= MaxCoord
    BY <1>1, MaxCoordAssumption
  <1>3. Wrapped(n) = n
    BY <1>2, WrappedIdentity DEF Coord
  <1>4. PICK q \in Nat : q = n \div width
    BY DivisionFacts
  <1>5. OverviewFactor(base, width) = q
    BY <1>1, <1>2, <1>3, <1>4 DEF OverviewFactor
  <1>6. n < width * 1 <=> q < 1
    BY <1>4, QuotientBelow
  <1>7. n < width * (step + 1) <=> q < step + 1
    BY <1>4, QuotientBelow
  <1>8. width * (step + 1) = (step + 1) * width
    OBVIOUS
  <1> QED
    BY <1>1, <1>2, <1>5, <1>6, <1>7, <1>8

\* The width of a directory that can be read is a number.
LEMMA WidthIsANumber ==
  ASSUME Inv, AllLegible, NEW n \in DOMAIN ifds, HasSize(ifds[n])
  PROVE  SizeIn(ifds[n]).width \in Nat \ {0}
  <1>1. ifds[n] \in TagMaps /\ Legible(ifds[n])
    BY DEF Inv, WalkSound, AllLegible
  <1>2. "ImageWidth" \notin RealTags \cup TextTags
    BY DEF RealTags, TextTags
  <1>3. Number(ifds[n], "ImageWidth", 0) \in Nat
    BY <1>1, <1>2, NumberIsAWord DEF Coord
  <1> QED
    BY <1>3 DEF SizeIn, HasSize

\* The first directory, then the levels: a level fits if the step covers its directory.
LEMMA FineIsCovered ==
  ASSUME Inv, AllLegible, DescribedInv, LeftToTheParser, FinestFirst, ifds # << >>,
         request.step \in Nat
  PROVE  /\ Len(metadata.overviews) \in Nat
         /\ DOMAIN metadata.overviews = 1 .. Len(metadata.overviews)
         /\ DOMAIN ifds = 1 .. Len(metadata.overviews) + 1
         /\ 1 \in Covered
         /\ \A k \in DOMAIN metadata.overviews : Fine(k) <=> k + 1 \in Covered
  <1>1. IsListOf(metadata.overviews, ifds) /\ \A n \in DOMAIN ifds : HasSize(ifds[n])
    BY DEF Inv, ListSound, LeftToTheParser
  <1>2. metadata.overviews \in Seq(Sizes) /\ ifds \in Seq(TagMaps)
    BY DEF Inv, ListSound, ListIn, WalkSound
  <1>3. PICK u \in Nat : u = Len(metadata.overviews) /\ DOMAIN metadata.overviews = 1 .. u
                         /\ DOMAIN ifds = 1 .. u + 1
    BY <1>1, <1>2 DEF IsListOf
  <1>4. \A k \in 1 .. u : metadata.overviews[k] = SizeIn(ifds[k + 1])
    BY <1>1, <1>3 DEF IsListOf
  <1>5. PICK base \in Nat \ {0} : base = SizeIn(ifds[1]).width
    BY <1>1, <1>3, WidthIsANumber
  <1>6. metadata.width = base /\ 2 * base <= MaxCoord
    BY <1>5 DEF DescribedInv, Stored, LeftToTheParser
  <1>7. PICK step \in Nat : step = Step /\ step >= 1
    BY DEF Step, LargerOf
  <1>8. ASSUME NEW k \in 1 .. u PROVE Fine(k) <=> k + 1 \in Covered
    <2>1. k + 1 \in DOMAIN ifds /\ 1 \in DOMAIN ifds /\ 1 <= k + 1
      BY <1>3
    <2>2. PICK width \in Nat \ {0} : width = SizeIn(ifds[k + 1]).width
      BY <1>1, <2>1, WidthIsANumber
    <2>3. width <= base
      BY <1>5, <2>1, <2>2 DEF FinestFirst
    <2>4. metadata.overviews[k].width = width
      BY <1>4, <2>2
    <2>5. Fine(k) <=> OverviewFactor(base, width) # 0 /\ OverviewFactor(base, width) <= step
      BY <1>6, <1>7, <2>4 DEF Fine
    <2>6. k + 1 \in Covered <=> base + width \div 2 < (step + 1) * width
      BY <1>5, <1>7, <2>1, <2>2 DEF Covered
    <2> QED
      BY <1>6, <2>3, <2>5, <2>6, FactorCovers
  <1>9. 1 \in Covered
    <2>1. base + base \div 2 < 2 * base
      OBVIOUS
    <2>2. base * 2 <= base * (step + 1)
      BY <1>7, ProductMonotone
    <2>3. base * (step + 1) = (step + 1) * base /\ base * 2 = 2 * base
      OBVIOUS
    <2>4. base + base \div 2 < (step + 1) * base
      BY <2>1, <2>2, <2>3
    <2> QED
      BY <1>3, <1>5, <1>7, <2>4 DEF Covered
  <1> QED
    BY <1>3, <1>8, <1>9

\* Where the directories come finest first, the parser chooses and decodes the
\* coarsest directory the step covers, the image itself if it covers no other.
THEOREM CoarsestLevelsAreRead == Spec => []CoarsestLevelIsRead
  <1>1. Init => ChoiceInv /\ FirstLayoutInv /\ PlaceInv /\ AllLegible /\ Checked /\ DescribedInv
    BY DEF Init, ChoiceInv, FirstLayoutInv, PlaceInv, Settled, AllLegible, Legible, Checked,
       DescribedInv, Stored, Stages
  <1>2. Inv /\ TypeOK /\ ChoiceInv /\ FirstLayoutInv /\ PlaceInv /\ AllLegible /\ Checked
          /\ DescribedInv /\ [Next]_vars
          => (ChoiceInv /\ FirstLayoutInv /\ PlaceInv /\ AllLegible /\ Checked /\ DescribedInv)'
    BY ChoiceStep, FirstLayoutStep, PlaceStep, LegibleStep, CheckedStep, DescribedStep
  <1>3. ASSUME Inv, TypeOK, ChoiceInv, FirstLayoutInv, AllLegible, DescribedInv
        PROVE  CoarsestLevelIsRead
    <2> SUFFICES ASSUME LeftToTheParser, FinestFirst PROVE CoarsestIsRead
      BY DEF CoarsestLevelIsRead
    <2>1. ifds # << >> /\ result = "ok" /\ request.layout /\ request.level = 0
      BY <1>3 DEF LeftToTheParser, FirstLayoutInv
    <2>2. request.step \in Nat
      BY <1>3, <2>1, RequestsAssumption DEF FirstLayoutInv, Request, Coord
    <2>3. PICK u \in Nat : /\ DOMAIN metadata.overviews = 1 .. u /\ DOMAIN ifds = 1 .. u + 1
                           /\ 1 \in Covered
                           /\ \A k \in 1 .. u : Fine(k) <=> k + 1 \in Covered
      BY <1>3, <2>1, <2>2, FineIsCovered
    <2>4. PICK c \in Nat : c = chosen
      BY <1>3 DEF Inv, LevelSound
    <2>5. /\ c # 0 => c \in 1 .. u /\ Fine(c)
          /\ \A k \in 1 .. u : Fine(k) => k <= c
      BY <1>3, <2>1, <2>3, <2>4 DEF ChoiceInv
    <2>6. c + 1 \in Covered
      BY <2>3, <2>5
    <2>7. LayoutSize = SizeIn(ifds[c + 1])
      BY <1>3, <2>1, <2>4 DEF Inv, LevelSound, FirstLayoutInv
    <2>8. ASSUME NEW m \in Covered PROVE SizeIn(ifds[c + 1]).width <= SizeIn(ifds[m]).width
      <3>1. m \in 1 .. u + 1 /\ c + 1 \in DOMAIN ifds /\ m \in DOMAIN ifds
        BY <2>3, <2>6 DEF Covered
      <3>2. m <= c + 1
        <4>1. CASE m = 1
          BY <4>1
        <4>2. CASE m # 1
          <5>1. PICK k \in 1 .. u : m = k + 1
            BY <3>1, <4>2
          <5>2. Fine(k)
            BY <2>3, <5>1
          <5>3. k <= c
            BY <2>5, <5>2
          <5> QED
            BY <5>1, <5>3
        <4> QED
          BY <4>1, <4>2
      <3> QED
        BY <3>1, <3>2 DEF FinestFirst
    <2> QED
      BY <2>6, <2>7, <2>8 DEF CoarsestIsRead
  <1> QED
    BY <1>1, <1>2, <1>3, ParserInvariant, ParserTypeCorrect, PTL DEF Spec
=============================================================================
