------------------------- MODULE FileFormatReadProofs -------------------------
(***************************************************************************)
(* Proofs about FileFormatRead, for all contents, arguments and failures:  *)
(* what Read returns is what it reported, a refusal leaves no prim behind  *)
(* unless only attributes failed, no argument is ignored, and the layer    *)
(* and the mesh in it say of every pixel where it lies in the source.      *)
(*                                                                         *)
(* Two invariants.  ReadInvariant: until Read returns nothing was posted,  *)
(* nothing authored and no error collected; every path to a return adds    *)
(* its own diagnostics to a sink of warnings.  Knows: what Read has found  *)
(* out by each place, and keeps until it authors.                          *)
(*                                                                         *)
(* At the end, narrowing to a float: it moves a number by half a unit in   *)
(* its last place at most and keeps the order of numbers, so that points   *)
(* recover the places they were computed from and stay in their bounds.    *)
(***************************************************************************)
EXTENDS FileFormatRead, NumberLemmas

AllAreErrorsOf(diagnostics, code) ==
  \A i \in DOMAIN diagnostics : diagnostics[i].severity = "error" => diagnostics[i].code = code

\* What a return leaves behind.
ReturnedWell ==
  /\ posted = Projected(sink)
  /\ result \in {"refused", "succeeded"}
  /\ result = "succeeded" <=> ~HasError(sink)
  /\ result = "refused" /\ layer # NoLayer => AllAreErrorsOf(sink, "AuthoringFailed")

Collected ==
  /\ sink \in Seq(Diagnostic)
  /\ pc # "done" => posted = << >> /\ result = "none" /\ layer = NoLayer /\ ~HasError(sink)
  /\ pc = "done" => ReturnedWell

AssetIsThere ==
  /\ asset \in Contents \cup {Nothing}
  /\ pc \in {"metadata", "checks", "pixels", "scope", "mesh"} => asset \in Contents

ReadInvariant == AssetIsThere /\ Collected

-----------------------------------------------------------------------------
(* Projecting keeps severities, and with them whether there is an error. *)
LEMMA ProjectionKeepsSeverity ==
  ASSUME NEW diagnostics \in Seq(Diagnostic)
  PROVE  /\ DOMAIN Projected(diagnostics) = DOMAIN diagnostics
         /\ \A i \in DOMAIN diagnostics :
              /\ Projected(diagnostics)[i].severity = diagnostics[i].severity
              /\ Projected(diagnostics)[i].code = PluginCode(diagnostics[i].code)
         /\ << >> \o Projected(diagnostics) = Projected(diagnostics)
  BY DEF Projected

(* Diagnostics added at the end bring an error, or not. *)
LEMMA ErrorsOfBoth ==
  ASSUME NEW a \in Seq(Diagnostic), NEW b \in Seq(Diagnostic)
  PROVE  HasError(a \o b) <=> HasError(a) \/ HasError(b)
<1>1. /\ a \o b \in Seq(Diagnostic) /\ Len(a \o b) = Len(a) + Len(b)
      /\ \A i \in 1 .. Len(a) : (a \o b)[i] = a[i]
      /\ \A i \in 1 .. Len(b) : (a \o b)[Len(a) + i] = b[i]
  OBVIOUS
<1>2. /\ DOMAIN a = 1 .. Len(a) /\ DOMAIN b = 1 .. Len(b)
      /\ DOMAIN (a \o b) = 1 .. Len(a) + Len(b)
      /\ Len(a) \in Nat /\ Len(b) \in Nat
  BY <1>1
<1>3. ASSUME HasError(a) PROVE HasError(a \o b)
  BY <1>1, <1>2, <1>3 DEF HasError
<1>4. ASSUME HasError(b) PROVE HasError(a \o b)
  <2>1. PICK i \in 1 .. Len(b) : b[i].severity = "error"
    BY <1>2, <1>4 DEF HasError
  <2>2. Len(a) + i \in DOMAIN (a \o b) /\ (a \o b)[Len(a) + i].severity = "error"
    BY <1>1, <1>2, <2>1
  <2> QED BY <2>2 DEF HasError
<1>5. ASSUME HasError(a \o b) PROVE HasError(a) \/ HasError(b)
  <2>1. PICK i \in 1 .. Len(a) + Len(b) : (a \o b)[i].severity = "error"
    BY <1>2, <1>5 DEF HasError
  <2>2. CASE i \in 1 .. Len(a)
    BY <1>1, <1>2, <2>1, <2>2 DEF HasError
  <2>3. CASE i \notin 1 .. Len(a)
    <3>1. i - Len(a) \in 1 .. Len(b) /\ i = Len(a) + (i - Len(a))
      BY <1>2, <2>3
    <3>2. b[i - Len(a)].severity = "error"
      BY <1>1, <2>1, <3>1
    <3> QED BY <1>2, <3>1, <3>2 DEF HasError
  <2> QED BY <2>2, <2>3
<1> QED BY <1>3, <1>4, <1>5

(* Nothing but errors of one code is added to a sink of warnings. *)
LEMMA ErrorsAreOf ==
  ASSUME NEW a \in Seq(Diagnostic), NEW b \in Seq(Diagnostic), NEW code, ~HasError(a),
         AllAreErrorsOf(b, code)
  PROVE  AllAreErrorsOf(a \o b, code)
<1>1. /\ a \o b \in Seq(Diagnostic) /\ Len(a \o b) = Len(a) + Len(b)
      /\ \A i \in 1 .. Len(a) : (a \o b)[i] = a[i]
      /\ \A i \in 1 .. Len(b) : (a \o b)[Len(a) + i] = b[i]
  OBVIOUS
<1>2. /\ DOMAIN a = 1 .. Len(a) /\ DOMAIN b = 1 .. Len(b)
      /\ DOMAIN (a \o b) = 1 .. Len(a) + Len(b)
      /\ Len(a) \in Nat /\ Len(b) \in Nat
  BY <1>1
<1> SUFFICES ASSUME NEW i \in 1 .. Len(a) + Len(b), (a \o b)[i].severity = "error"
             PROVE  (a \o b)[i].code = code
  BY <1>2 DEF AllAreErrorsOf
<1>3. i \notin 1 .. Len(a)
  BY <1>1, <1>2 DEF HasError
<1>4. i - Len(a) \in 1 .. Len(b) /\ i = Len(a) + (i - Len(a))
  BY <1>2, <1>3
<1> QED BY <1>1, <1>2, <1>4 DEF AllAreErrorsOf

-----------------------------------------------------------------------------
(* The diagnostics of a parse are diagnostics, and hold an error exactly if   *)
(* the parse failed.                                                          *)
LEMMA ParserReportsItsError ==
  ASSUME NEW content \in Contents
  PROVE  /\ ParserDiagnostics(content) \in Seq(Diagnostic)
         /\ HasError(ParserDiagnostics(content)) <=> content.error # "none"
<1>1. content.error \in Code \cup {"none"} /\ "none" \notin Code
  BY ContentsAssumption DEF Content, Code
<1> DEFINE first  == IF content.conflict THEN <<Warning("ConflictingGeoTransform")>> ELSE << >>
           second == IF content.error \in {"none", "InvalidNoDataValue"} /\ content.metadata.hasGeoTransform
                          /\ content.metadata.pixelAnchor = "unknown"
                       THEN <<Warning("UnknownPixelAnchor")>> ELSE << >>
           third  == IF content.error # "none" THEN <<Error(content.error)>> ELSE << >>
<1>2. first \in Seq(Diagnostic) /\ second \in Seq(Diagnostic) /\ third \in Seq(Diagnostic)
  <2>1. Warning("ConflictingGeoTransform") \in Diagnostic /\ Warning("UnknownPixelAnchor") \in Diagnostic
    BY DEF Warning, Diagnostic, Code
  <2>2. content.error # "none" => Error(content.error) \in Diagnostic
    BY <1>1 DEF Error, Diagnostic
  <2> QED BY <2>1, <2>2
<1>3. ~HasError(first) /\ ~HasError(second)
  BY DEF Warning, HasError
<1>4. HasError(third) <=> content.error # "none"
  BY DEF Error, HasError
<1>5. ParserDiagnostics(content) = (first \o second) \o third
  BY DEF ParserDiagnostics
<1>6. first \o second \in Seq(Diagnostic) /\ (first \o second) \o third \in Seq(Diagnostic)
  BY <1>2
<1>7. HasError((first \o second) \o third) <=> HasError(third)
  <2> HIDE DEF first, second, third
  <2>1. ~HasError(first \o second)
    BY <1>2, <1>3, ErrorsOfBoth
  <2> QED BY <2>1, <1>2, <1>6, ErrorsOfBoth
<1> QED BY <1>4, <1>5, <1>6, <1>7

(* One error for each attribute that failed. *)
LEMMA FailuresAreErrors ==
  ASSUME NEW attributes, NEW failing, IsFiniteSet(failing)
  PROVE  /\ Failures(attributes, failing) \in Seq(Diagnostic)
         /\ HasError(Failures(attributes, failing)) <=> Failures(attributes, failing) # << >>
         /\ AllAreErrorsOf(Failures(attributes, failing), "AuthoringFailed")
<1> DEFINE count == Cardinality(DOMAIN attributes \cap failing)
<1>1. IsFiniteSet(DOMAIN attributes \cap failing)
  <2>1. DOMAIN attributes \cap failing \subseteq failing
    OBVIOUS
  <2> QED BY <2>1, FS_Subset
<1>2. count \in Nat
  BY <1>1, FS_CardinalityType
<1> HIDE DEF count
<1>3. Error("AuthoringFailed") \in Diagnostic /\ Error("AuthoringFailed").severity = "error"
        /\ Error("AuthoringFailed").code = "AuthoringFailed"
  BY DEF Error, Diagnostic, Code
<1> DEFINE f == [i \in 1 .. count |-> Error("AuthoringFailed")]
<1>4. Failures(attributes, failing) = f
  BY DEF Failures, count
<1>5. f \in Seq(Diagnostic) /\ Len(f) = count /\ DOMAIN f = 1 .. count
  BY <1>2, <1>3
<1>6. \A i \in DOMAIN f : f[i].severity = "error" /\ f[i].code = "AuthoringFailed"
  BY <1>3, <1>5
<1>7. f # << >> => 1 \in DOMAIN f
  BY <1>2, <1>5
<1>8. f = << >> => DOMAIN f = {}
  OBVIOUS
<1> HIDE DEF f
<1> QED BY <1>4, <1>5, <1>6, <1>7, <1>8 DEF HasError, AllAreErrorsOf

-----------------------------------------------------------------------------
(* Every way to refuse leaves well: an error is added and nothing authored. *)
LEMMA RefusalIsWell ==
  ASSUME Collected, pc # "done", NEW diagnostics \in Seq(Diagnostic), HasError(diagnostics),
         Refuse(diagnostics)
  PROVE  Collected'
<1> USE DEF Collected
<1>1. /\ sink' = sink \o diagnostics /\ posted' = posted \o Projected(sink \o diagnostics)
      /\ result' = "refused" /\ pc' = "done" /\ layer' = layer
  BY DEF Refuse, Return, known
<1>2. sink \o diagnostics \in Seq(Diagnostic)
  OBVIOUS
<1>3. HasError(sink')
  BY <1>1, ErrorsOfBoth
<1>4. posted' = Projected(sink')
  BY <1>1, <1>2, ProjectionKeepsSeverity
<1> QED BY <1>1, <1>2, <1>3, <1>4 DEF ReturnedWell

(* Going on adds at most warnings. *)
LEMMA GoingOnIsWell ==
  ASSUME Collected, pc # "done", NEW next, next # "done", NEW diagnostics \in Seq(Diagnostic),
         ~HasError(diagnostics), sink' = sink \o diagnostics, layer' = layer, Proceed(next)
  PROVE  Collected'
<1>1. sink \o diagnostics \in Seq(Diagnostic) /\ ~HasError(sink')
  BY ErrorsOfBoth DEF Collected
<1> QED BY <1>1 DEF Collected, Proceed

(* Before Read returns nothing is decided.                                    *)
LEMMA StayingIsWell ==
  ASSUME Collected, pc # "done", NEW next, next # "done", UNCHANGED <<sink, layer>>, Proceed(next)
  PROVE  Collected'
BY DEF Collected, Proceed

(* Authoring leaves well, whichever attributes failed. *)
LEMMA AuthoringIsWell ==
  ASSUME Collected, pc # "done", NEW type, NEW attributes, NEW failures \in Seq(Diagnostic),
         HasError(failures) <=> failures # << >>, AllAreErrorsOf(failures, "AuthoringFailed"),
         Authored(type, attributes, failures)
  PROVE  Collected'
<1> USE DEF Collected
<1>1. /\ sink' = sink \o failures /\ posted' = posted \o Projected(sink \o failures)
      /\ result' = IF failures = << >> THEN "succeeded" ELSE "refused"
      /\ pc' = "done"
  BY DEF Authored, Return
<1>2. sink \o failures \in Seq(Diagnostic)
  OBVIOUS
<1>3. HasError(sink') <=> failures # << >>
  BY <1>1, ErrorsOfBoth
<1>4. posted' = Projected(sink')
  BY <1>1, <1>2, ProjectionKeepsSeverity
<1>5. AllAreErrorsOf(sink', "AuthoringFailed")
  BY <1>1, ErrorsAreOf
<1> QED BY <1>1, <1>2, <1>3, <1>4, <1>5 DEF ReturnedWell

(* A single error is a sequence of diagnostics with an error in it. *)
LEMMA SingleError ==
  ASSUME NEW code \in Code
  PROVE  <<Error(code)>> \in Seq(Diagnostic) /\ HasError(<<Error(code)>>)
<1>1. Error(code) \in Diagnostic /\ Error(code).severity = "error"
  BY DEF Error, Diagnostic
<1>2. <<Error(code)>> \in Seq(Diagnostic) /\ 1 \in DOMAIN <<Error(code)>> /\ <<Error(code)>>[1] = Error(code)
  BY <1>1
<1> QED BY <1>1, <1>2 DEF HasError

(* A parse that began, and an error added to it. *)
LEMMA ParserAndError ==
  ASSUME NEW content \in Contents, NEW warned \in Seq(Diagnostic), NEW code \in Code
  PROVE  /\ ParserDiagnostics(content) \o warned \o <<Error(code)>> \in Seq(Diagnostic)
         /\ HasError(ParserDiagnostics(content) \o warned \o <<Error(code)>>)
<1>1. ParserDiagnostics(content) \o warned \in Seq(Diagnostic)
  BY ParserReportsItsError
<1>2. <<Error(code)>> \in Seq(Diagnostic) /\ HasError(<<Error(code)>>)
  BY SingleError
<1>3. (ParserDiagnostics(content) \o warned) \o <<Error(code)>> \in Seq(Diagnostic)
  BY <1>1, <1>2
<1>4. HasError((ParserDiagnostics(content) \o warned) \o <<Error(code)>>)
  BY <1>1, <1>2, ErrorsOfBoth
<1> QED BY <1>3, <1>4

(* The code a set of arguments is refused with is a code. *)
LEMMA ArgumentsErrorIsCode ==
  ASSUME NEW values, ArgumentsError(values) # "none"
  PROVE  ArgumentsError(values) \in Code
<1>1. \A name, value : ArgumentError(name, value) \in Code \cup {"none"}
  BY DEF ArgumentError, Code
<1>2. {"UnsupportedFormatArgument", "ConflictingFormatArguments", "InvalidFormatArgument"} \subseteq Code
  BY DEF Code
<1> QED BY <1>1, <1>2 DEF ArgumentsError

(* A lossy conversion is only warned of.                                      *)
LEMMA LossyWarningIsNoError == LossyWarning \in Seq(Diagnostic) /\ ~HasError(LossyWarning)
<1>1. Warning("LossyConversion") \in Diagnostic /\ Warning("LossyConversion").severity # "error"
  BY DEF Warning, Diagnostic, Code
<1> QED BY <1>1 DEF LossyWarning, HasError

-----------------------------------------------------------------------------
(* Every step keeps the asset that was opened, or its successor. *)
LEMMA AssetStaysThere ==
  ASSUME AssetIsThere, Next
  PROVE  AssetIsThere'
<1> USE DEF AssetIsThere, source, Refuse, Return, Proceed, Authored
<1>1. CASE ParseArguments
  BY <1>1 DEF ParseArguments
<1>2. CASE OpenAsset
  BY <1>2 DEF OpenAsset
<1>3. CASE ReadMetadata
  BY <1>3 DEF ReadMetadata
<1>4. CASE FailToParse
  BY <1>4 DEF FailToParse
<1>5. CASE CheckSource
  BY <1>5 DEF CheckSource
<1>6. CASE ReadWindow
  BY <1>6 DEF ReadWindow
<1>7. CASE FailToReadPixels
  BY <1>7 DEF FailToReadPixels
<1>8. CASE \E failing \in FailingSets : AuthorMetadata(failing)
  BY <1>8 DEF AuthorMetadata
<1>9. CASE \E failing, failingLater \in FailingSets : AuthorMesh(failing, failingLater)
  BY <1>9 DEF AuthorMesh
<1>10. CASE ReplaceContent
  BY <1>10 DEF ReplaceContent
<1> QED BY <1>1, <1>2, <1>3, <1>4, <1>5, <1>6, <1>7, <1>8, <1>9, <1>10 DEF Next

(* Every step leaves well what it collects. *)
LEMMA StepsCollect ==
  ASSUME AssetIsThere, Collected, Next
  PROVE  Collected'
<1>1. CASE ParseArguments
  <2>1. pc = "arguments"
    BY <1>1 DEF ParseArguments
  <2>2. CASE ArgumentsError(supplied) # "none"
    <3>1. Refuse(<<Error(ArgumentsError(supplied))>>)
      BY <1>1, <2>2 DEF ParseArguments
    <3> QED BY <2>1, <2>2, <3>1, ArgumentsErrorIsCode, SingleError, RefusalIsWell
  <2>3. CASE ArgumentsError(supplied) = "none"
    BY <1>1, <2>1, <2>3, StayingIsWell DEF ParseArguments
  <2> QED BY <2>2, <2>3
<1>2. CASE OpenAsset
  <2>1. pc = "asset"
    BY <1>2 DEF OpenAsset
  <2>2. CASE asset = Nothing
    <3>1. Refuse(<<Error("SourceUnavailable")>>) /\ "SourceUnavailable" \in Code
      BY <1>2, <2>2 DEF OpenAsset, Code
    <3> QED BY <2>1, <3>1, SingleError, RefusalIsWell
  <2>3. CASE asset # Nothing
    BY <1>2, <2>1, <2>3, StayingIsWell DEF OpenAsset
  <2> QED BY <2>2, <2>3
<1>3. CASE ReadMetadata
  <2>1. pc = "metadata" /\ asset \in Contents
    BY <1>3 DEF ReadMetadata, AssetIsThere
  <2>2. CASE asset.error # "none"
    <3>1. Refuse(ParserDiagnostics(asset))
      BY <1>3, <2>2 DEF ReadMetadata
    <3> QED BY <2>1, <2>2, <3>1, ParserReportsItsError, RefusalIsWell
  <2>3. CASE asset.error = "none"
    <3>1. sink' = sink \o ParserDiagnostics(asset) /\ Proceed("checks") /\ layer' = layer
      BY <1>3, <2>3 DEF ReadMetadata
    <3> QED BY <2>1, <2>3, <3>1, ParserReportsItsError, GoingOnIsWell
  <2> QED BY <2>2, <2>3
<1>4. CASE FailToParse
  <2>1. pc # "done"
    BY <1>4 DEF FailToParse
  <2>2. PICK code \in Code : Refuse(<<Error(code)>>)
    BY <1>4, FailuresAssumption DEF FailToParse
  <2> QED BY <2>1, <2>2, SingleError, RefusalIsWell
<1>5. CASE CheckSource
  <2>1. pc = "checks"
    BY <1>5 DEF CheckSource
  <2>2. CASE SourceError # "none"
    <3>1. Refuse(<<Error(SourceError)>>)
      BY <1>5, <2>2 DEF CheckSource
    <3>2. SourceError \in Code
      BY <2>2 DEF SourceError, Code
    <3> QED BY <2>1, <3>1, <3>2, SingleError, RefusalIsWell
  <2>3. CASE SourceError = "none"
    <3>1. PICK next \in {"scope", "pixels"} : Proceed(next)
      BY <1>5, <2>3 DEF CheckSource
    <3>2. UNCHANGED <<sink, layer>>
      BY <1>5, <2>3 DEF CheckSource
    <3> QED BY <2>1, <3>1, <3>2, StayingIsWell
  <2> QED BY <2>2, <2>3
<1>6. CASE ReadWindow
  <2>1. pc = "pixels" /\ asset \in Contents
    BY <1>6 DEF ReadWindow, AssetIsThere
  <2>2. CASE asset.error # "none"
    <3>1. Refuse(ParserDiagnostics(asset))
      BY <1>6, <2>2 DEF ReadWindow
    <3> QED BY <2>1, <2>2, <3>1, ParserReportsItsError, RefusalIsWell
  <2>3. CASE asset.error = "none" /\ WindowError # "none"
    <3>1. Refuse(ParserDiagnostics(asset) \o <<Error(WindowError)>>)
      BY <1>6, <2>3 DEF ReadWindow
    <3>2. WindowError \in Code
      BY <2>3 DEF WindowError, Code
    <3>3. <<Error(WindowError)>> \in Seq(Diagnostic) /\ HasError(<<Error(WindowError)>>)
      BY <3>2, SingleError
    <3>4. /\ ParserDiagnostics(asset) \o <<Error(WindowError)>> \in Seq(Diagnostic)
          /\ HasError(ParserDiagnostics(asset) \o <<Error(WindowError)>>)
      <4> DEFINE warnings == ParserDiagnostics(asset)
                 error    == <<Error(WindowError)>>
      <4>1. warnings \in Seq(Diagnostic) /\ error \in Seq(Diagnostic) /\ HasError(error)
        BY <2>1, <3>3, ParserReportsItsError
      <4> HIDE DEF warnings, error
      <4>2. warnings \o error \in Seq(Diagnostic) /\ HasError(warnings \o error)
        BY <4>1, ErrorsOfBoth
      <4> QED BY <4>2 DEF warnings, error
    <3> QED BY <2>1, <3>1, <3>4, RefusalIsWell
  <2>4. CASE asset.error = "none" /\ WindowError = "none"
    <3>1. /\ sink' = sink \o ParserDiagnostics(asset) \o LossyWarning
          /\ Proceed("mesh") /\ layer' = layer
      BY <1>6, <2>4 DEF ReadWindow
    <3>2. /\ ParserDiagnostics(asset) \o LossyWarning \in Seq(Diagnostic)
          /\ ~HasError(ParserDiagnostics(asset) \o LossyWarning)
      BY <2>1, <2>4, ParserReportsItsError, LossyWarningIsNoError, ErrorsOfBoth
    <3>3. sink' = sink \o (ParserDiagnostics(asset) \o LossyWarning)
      BY <2>1, <3>1, ParserReportsItsError, LossyWarningIsNoError DEF Collected
    <3> QED BY <2>1, <3>1, <3>2, <3>3, GoingOnIsWell
  <2> QED BY <2>2, <2>3, <2>4
<1>7. CASE FailToReadPixels
  <2>1. pc = "pixels" /\ asset \in Contents
    BY <1>7 DEF FailToReadPixels, AssetIsThere
  <2>2. PICK code \in PixelFailures, warned \in {<< >>, LossyWarning} :
          Refuse(ParserDiagnostics(asset) \o warned \o <<Error(code)>>)
    BY <1>7 DEF FailToReadPixels
  <2>3. warned \in Seq(Diagnostic) /\ code \in Code
    <3>1. << >> \in Seq(Diagnostic)
      OBVIOUS
    <3>2. LossyWarning \in Seq(Diagnostic)
      BY LossyWarningIsNoError
    <3>3. warned = << >> \/ warned = LossyWarning
      BY <2>2
    <3>4. warned \in Seq(Diagnostic)
      BY <3>1, <3>2, <3>3
    <3>5. code \in Code
      BY <2>2, FailuresAssumption
    <3> QED BY <3>4, <3>5
  <2>4. /\ ParserDiagnostics(asset) \o warned \o <<Error(code)>> \in Seq(Diagnostic)
        /\ HasError(ParserDiagnostics(asset) \o warned \o <<Error(code)>>)
    BY <2>1, <2>3, ParserAndError
  <2> QED BY <2>1, <2>2, <2>4, RefusalIsWell
<1>8. CASE \E failing \in FailingSets : AuthorMetadata(failing)
  <2>1. PICK failing \in FailingSets : AuthorMetadata(failing)
    BY <1>8
  <2>2. pc = "scope" /\ IsFiniteSet(failing)
    BY <2>1, FailingAssumption DEF AuthorMetadata
  <2>3. CASE CannotAuthor(failing)
    <3>1. Refuse(<<Error("AuthoringFailed")>>) /\ "AuthoringFailed" \in Code
      BY <2>1, <2>3 DEF AuthorMetadata, Code
    <3> QED BY <2>2, <3>1, SingleError, RefusalIsWell
  <2>4. CASE ~CannotAuthor(failing)
    <3>1. Authored("Scope", Written(MetadataAttributes, failing), Failures(MetadataAttributes, failing))
      BY <2>1, <2>4 DEF AuthorMetadata
    <3> QED BY <2>2, <3>1, FailuresAreErrors, AuthoringIsWell
  <2> QED BY <2>3, <2>4
<1>9. CASE \E failing, failingLater \in FailingSets : AuthorMesh(failing, failingLater)
  <2>1. PICK failing \in FailingSets, failingLater \in FailingSets : AuthorMesh(failing, failingLater)
    BY <1>9
  <2>2. pc = "mesh" /\ IsFiniteSet(failing) /\ IsFiniteSet(failingLater)
    BY <2>1, FailingAssumption DEF AuthorMesh
  <2>3. CASE CannotAuthor(failing) \/ CannotBuildMesh
    <3>1. Refuse(<<Error("AuthoringFailed")>>) /\ "AuthoringFailed" \in Code
      BY <2>1, <2>3 DEF AuthorMesh, Code
    <3> QED BY <2>2, <3>1, SingleError, RefusalIsWell
  <2>4. CASE /\ ~(CannotAuthor(failing) \/ CannotBuildMesh)
             /\ Failures(MetadataAttributes, failing) # << >>
    <3>1. Authored("Scope", Written(MetadataAttributes, failing), Failures(MetadataAttributes, failing))
      BY <2>1, <2>4 DEF AuthorMesh
    <3> QED BY <2>2, <3>1, FailuresAreErrors, AuthoringIsWell
  <2>5. CASE /\ ~(CannotAuthor(failing) \/ CannotBuildMesh)
             /\ Failures(MetadataAttributes, failing) = << >>
    <3>1. Authored("Mesh", Written(MeshAttributes, failingLater) @@ MetadataAttributes,
                   Failures(MeshAttributes, failingLater))
      BY <2>1, <2>5 DEF AuthorMesh
    <3> QED BY <2>2, <3>1, FailuresAreErrors, AuthoringIsWell
  <2> QED BY <2>3, <2>4, <2>5
<1>10. CASE ReplaceContent
  BY <1>10 DEF ReplaceContent, Collected
<1> QED BY <1>1, <1>2, <1>3, <1>4, <1>5, <1>6, <1>7, <1>8, <1>9, <1>10 DEF Next

(* A stutter changes nothing. *)
LEMMA StutteringKeeps ==
  ASSUME ReadInvariant, UNCHANGED vars
  PROVE  ReadInvariant'
BY DEF ReadInvariant, AssetIsThere, Collected, ReturnedWell, HasError, AllAreErrorsOf, vars, source, known

-----------------------------------------------------------------------------
(* Until Read returns it has collected no error, posted nothing and authored  *)
(* nothing, and what it returns is what it collected (Read).                  *)
THEOREM ReadIsInvariant == Spec => []ReadInvariant
<1>1. Init => ReadInvariant
  <2>1. << >> \in Seq(Diagnostic) /\ ~HasError(<< >>)
    BY DEF HasError
  <2> QED BY <2>1 DEF Init, ReadInvariant, AssetIsThere, Collected
<1>2. ReadInvariant /\ [Next]_vars => ReadInvariant'
  BY AssetStaysThere, StepsCollect, StutteringKeeps DEF ReadInvariant
<1> QED BY <1>1, <1>2, PTL DEF Spec

(* Read returns true exactly when no error was posted, and every diagnostic   *)
(* is posted once and in order (Read, ReportDiagnostics).                     *)
THEOREM ReturnsTellTheTruth == Spec => []ReadTellsTheTruth
<1>1. ReadInvariant => ReadTellsTheTruth
  <2> SUFFICES ASSUME ReadInvariant PROVE ReadTellsTheTruth
    OBVIOUS
  <2>1. HasError(Projected(sink)) <=> HasError(sink)
    BY ProjectionKeepsSeverity DEF ReadInvariant, Collected, HasError
  <2> QED BY <2>1 DEF ReadInvariant, Collected, ReturnedWell, ReadTellsTheTruth
<1> QED BY <1>1, ReadIsInvariant, PTL

(* A refused read leaves no prim unless all that went wrong was to author     *)
(* attributes (Read, AuthorMetadata, AuthorMesh).                             *)
THEOREM RefusalsLeaveNoPrim == Spec => []RefusalLeavesNoPrim
<1>1. ReadInvariant => RefusalLeavesNoPrim
  <2> SUFFICES ASSUME ReadInvariant, result = "refused", layer # NoLayer,
                      NEW i \in DOMAIN posted, posted[i].severity = "error"
               PROVE  posted[i].code = "GTIF019"
    BY DEF RefusalLeavesNoPrim
  <2>1. /\ sink \in Seq(Diagnostic) /\ posted = Projected(sink)
        /\ AllAreErrorsOf(sink, "AuthoringFailed")
    BY DEF ReadInvariant, Collected, ReturnedWell
  <2>2. i \in DOMAIN sink /\ sink[i].severity = "error" /\ posted[i].code = PluginCode(sink[i].code)
    BY <2>1, ProjectionKeepsSeverity
  <2>3. sink[i].code = "AuthoringFailed"
    BY <2>1, <2>2 DEF AllAreErrorsOf
  <2> QED BY <2>2, <2>3 DEF PluginCode
<1> QED BY <1>1, ReadIsInvariant, PTL

-----------------------------------------------------------------------------
(***************************************************************************)
(* What the attribute sets say, name by name.                              *)
(***************************************************************************)
(* Of two sets of attributes merged the first says what both have. *)
LEMMA MergedSays ==
  ASSUME NEW f, NEW g
  PROVE  /\ DOMAIN (f @@ g) = DOMAIN f \cup DOMAIN g
         /\ \A name \in DOMAIN f : (f @@ g)[name] = f[name]
         /\ \A name \in DOMAIN g \ DOMAIN f : (f @@ g)[name] = g[name]
BY DEF @@

(* An optional attribute is there or not.                                     *)
LEMMA OptionalSays ==
  ASSUME NEW present, NEW name, NEW value
  PROVE  /\ DOMAIN Optional(present, name, value) \subseteq {name}
         /\ present => name \in DOMAIN Optional(present, name, value)
                         /\ Optional(present, name, value)[name] = value
BY DEF Optional, :>

(* The names that say where the data is from.                                 *)
LEMMA SourceSays ==
  DOMAIN SourceAttributes \subseteq {"geo:sourceIdentifier", "geo:crs", "geo:crsWkt", "geo:linearUnit", "geo:verticalUnit"}
<1> DEFINE a == "geo:sourceIdentifier" :> "label"
           b == Optional({"epsg", "wkt"} \cap metadata.crs # {}, "geo:crs",
                  IF "epsg" \in metadata.crs THEN "epsg" ELSE "wkt")
           c == Optional("wkt" \in metadata.crs, "geo:crsWkt", "wkt")
           d == Optional("linearUnit" \in metadata.crs, "geo:linearUnit", "linearUnit")
           e == Optional("verticalUnit" \in metadata.crs, "geo:verticalUnit", "verticalUnit")
<1>1. DOMAIN a \subseteq {"geo:sourceIdentifier"}
  BY DEF :>
<1>2. /\ DOMAIN b \subseteq {"geo:crs"} /\ DOMAIN c \subseteq {"geo:crsWkt"}
      /\ DOMAIN d \subseteq {"geo:linearUnit"} /\ DOMAIN e \subseteq {"geo:verticalUnit"}
  BY OptionalSays
<1>3. SourceAttributes = a @@ b @@ c @@ d @@ e
  BY DEF SourceAttributes
<1> HIDE DEF a, b, c, d, e
<1> QED BY <1>1, <1>2, <1>3 DEF @@

(* The names that place a prim.                                               *)
LEMMA PlaceSays ==
  ASSUME NEW origin, NEW bounds
  PROVE  LET place == PlaceAttributes(origin, bounds)
         IN  /\ DOMAIN place = {"geo:localOrigin", "geo:boundsMin", "geo:boundsMax"}
             /\ place["geo:localOrigin"] = origin
             /\ place["geo:boundsMin"] = bounds.min
             /\ place["geo:boundsMax"] = bounds.max
BY DEF PlaceAttributes, :>, @@

(* The names that describe the raster.                                        *)
LEMMA RasterSays ==
  /\ DOMAIN RasterAttributes = {"raster:width", "raster:height", "raster:bandCount", "raster:geoTransform",
                                "raster:pixelAnchor", "raster:pixelAnchorSource"}
  /\ RasterAttributes["raster:width"] = metadata.width
  /\ RasterAttributes["raster:height"] = metadata.height
  /\ RasterAttributes["raster:geoTransform"] = metadata.geoTransform
  /\ RasterAttributes["raster:pixelAnchor"] = metadata.pixelAnchor
  /\ RasterAttributes["raster:pixelAnchorSource"] = anchorSource
BY DEF RasterAttributes, :>, @@

(* The name of the band that was selected.                                    *)
LEMMA SelectionSays ==
  /\ DOMAIN SelectionAttributes = {"raster:dataType", "raster:selectedBand", "raster:overviewCount"}
  /\ SelectionAttributes["raster:selectedBand"] = arguments.band
BY DEF SelectionAttributes, :>, @@

(* The names of the geometry of a mesh.                                       *)
LEMMA GeometrySays ==
  ASSUME NEW mesh
  PROVE  LET geometry == GeometryAttributes(mesh)
         IN  /\ DOMAIN geometry = {"points", "faceVertexCounts", "faceVertexIndices", "extent", "orientation",
                                   "subdivisionScheme"}
             /\ geometry["points"] = mesh.points
             /\ geometry["faceVertexIndices"] = mesh.faces
BY DEF GeometryAttributes, :>, @@

(* The names that say how a mesh was made.                                    *)
LEMMA MeshOptionsSay ==
  /\ DOMAIN MeshOptionAttributes \subseteq {"raster:representation", "raster:samplingStep", "raster:heightScale",
       "raster:heightOffset", "raster:noDataPolicy", "raster:fillValue"}
  /\ {"raster:representation", "raster:heightScale", "raster:noDataPolicy"} \subseteq DOMAIN MeshOptionAttributes
  /\ MeshOptionAttributes["raster:representation"] = "mesh"
  /\ MeshOptionAttributes["raster:heightScale"] = arguments.heightScale
  /\ MeshOptionAttributes["raster:noDataPolicy"] = arguments.noDataPolicy
  /\ arguments.noDataPolicy = "fill" =>
       "raster:fillValue" \in DOMAIN MeshOptionAttributes /\ MeshOptionAttributes["raster:fillValue"] = arguments.fillValue
<1> DEFINE always == "raster:representation" :> "mesh"
                     @@ "raster:samplingStep" :> grid.step
                     @@ "raster:heightScale" :> MeshOptions.heightScale
                     @@ "raster:heightOffset" :> MeshOptions.heightOffset
                     @@ "raster:noDataPolicy" :> MeshOptions.noDataPolicy
           fill == Optional(MeshOptions.noDataPolicy = "fill", "raster:fillValue", MeshOptions.fillValue)
<1>1. /\ DOMAIN always = {"raster:representation", "raster:samplingStep", "raster:heightScale",
                          "raster:heightOffset", "raster:noDataPolicy"}
      /\ always["raster:representation"] = "mesh"
      /\ always["raster:heightScale"] = MeshOptions.heightScale
      /\ always["raster:noDataPolicy"] = MeshOptions.noDataPolicy
  BY DEF :>, @@
<1>2. /\ MeshOptions.heightScale = arguments.heightScale /\ MeshOptions.noDataPolicy = arguments.noDataPolicy
      /\ MeshOptions.fillValue = arguments.fillValue
  BY DEF MeshOptions
<1>3. /\ DOMAIN fill \subseteq {"raster:fillValue"}
      /\ MeshOptions.noDataPolicy = "fill" =>
           "raster:fillValue" \in DOMAIN fill /\ fill["raster:fillValue"] = MeshOptions.fillValue
  BY DEF Optional, :>
<1>4. MeshOptionAttributes = always @@ fill
  BY DEF MeshOptionAttributes
<1> HIDE DEF always, fill
<1> QED BY <1>1, <1>2, <1>3, <1>4 DEF @@

PlaceNames == {"geo:localOrigin", "geo:boundsMin", "geo:boundsMax"}

(* What the metadata says, name by name. *)
LEMMA MetadataSays ==
  /\ PlaceNames \cup {"raster:width", "raster:height", "raster:geoTransform", "raster:pixelAnchor",
                      "raster:pixelAnchorSource", "raster:selectedBand"} \subseteq DOMAIN MetadataAttributes
  /\ MetadataAttributes["geo:boundsMin"] = metadata.bounds.min
  /\ MetadataAttributes["geo:boundsMax"] = metadata.bounds.max
  /\ MetadataAttributes["raster:width"] = metadata.width
  /\ MetadataAttributes["raster:height"] = metadata.height
  /\ MetadataAttributes["raster:geoTransform"] = metadata.geoTransform
  /\ MetadataAttributes["raster:pixelAnchor"] = metadata.pixelAnchor
  /\ MetadataAttributes["raster:pixelAnchorSource"] = anchorSource
  /\ MetadataAttributes["raster:selectedBand"] = arguments.band
<1> DEFINE s == SourceAttributes
           p == PlaceAttributes(FromBounds(metadata.bounds), metadata.bounds)
           r == RasterAttributes
           l == SelectionAttributes
           b == BandAttributes
           sp == s @@ p
           spr == sp @@ r
           sprl == spr @@ l
<1>1. DOMAIN s \subseteq {"geo:sourceIdentifier", "geo:crs", "geo:crsWkt", "geo:linearUnit", "geo:verticalUnit"}
  BY SourceSays
<1>2. /\ DOMAIN p = {"geo:localOrigin", "geo:boundsMin", "geo:boundsMax"}
      /\ p["geo:boundsMin"] = metadata.bounds.min /\ p["geo:boundsMax"] = metadata.bounds.max
  BY PlaceSays
<1>3. /\ DOMAIN r = {"raster:width", "raster:height", "raster:bandCount", "raster:geoTransform",
                     "raster:pixelAnchor", "raster:pixelAnchorSource"}
      /\ r["raster:width"] = metadata.width /\ r["raster:height"] = metadata.height
      /\ r["raster:geoTransform"] = metadata.geoTransform /\ r["raster:pixelAnchor"] = metadata.pixelAnchor
      /\ r["raster:pixelAnchorSource"] = anchorSource
  BY RasterSays
<1>4. /\ DOMAIN l = {"raster:dataType", "raster:selectedBand", "raster:overviewCount"}
      /\ l["raster:selectedBand"] = arguments.band
  BY SelectionSays
<1>5. MetadataAttributes = sprl @@ b
  BY DEF MetadataAttributes
<1> HIDE DEF s, p, r, l, b
<1>6. /\ DOMAIN sp = DOMAIN s \cup DOMAIN p
      /\ sp["geo:boundsMin"] = metadata.bounds.min /\ sp["geo:boundsMax"] = metadata.bounds.max
  BY <1>1, <1>2 DEF @@
<1> HIDE DEF sp
<1>7. /\ DOMAIN spr = DOMAIN sp \cup DOMAIN r
      /\ spr["geo:boundsMin"] = metadata.bounds.min /\ spr["geo:boundsMax"] = metadata.bounds.max
      /\ spr["raster:width"] = metadata.width /\ spr["raster:height"] = metadata.height
      /\ spr["raster:geoTransform"] = metadata.geoTransform /\ spr["raster:pixelAnchor"] = metadata.pixelAnchor
      /\ spr["raster:pixelAnchorSource"] = anchorSource
  BY <1>1, <1>2, <1>3, <1>6 DEF @@
<1> HIDE DEF spr
<1>8. /\ DOMAIN sprl = DOMAIN spr \cup DOMAIN l
      /\ \A name \in DOMAIN spr : sprl[name] = spr[name]
      /\ sprl["raster:selectedBand"] = arguments.band
  BY <1>1, <1>2, <1>3, <1>4, <1>6, <1>7 DEF @@
<1> HIDE DEF sprl
<1>9. /\ DOMAIN sprl \subseteq DOMAIN MetadataAttributes
      /\ \A name \in DOMAIN sprl : MetadataAttributes[name] = sprl[name]
  BY <1>5 DEF @@
<1>10. /\ PlaceNames \subseteq DOMAIN sprl
       /\ {"raster:width", "raster:height", "raster:geoTransform", "raster:pixelAnchor",
           "raster:pixelAnchorSource", "raster:selectedBand"} \subseteq DOMAIN sprl
  BY <1>2, <1>3, <1>4, <1>6, <1>7, <1>8 DEF PlaceNames
<1>11. {"geo:boundsMin", "geo:boundsMax", "raster:width", "raster:height", "raster:geoTransform",
        "raster:pixelAnchor", "raster:pixelAnchorSource"} \subseteq DOMAIN spr
  BY <1>2, <1>3, <1>6, <1>7
<1> QED BY <1>7, <1>8, <1>9, <1>10, <1>11 DEF PlaceNames

-----------------------------------------------------------------------------
(***************************************************************************)
(* A layer in which nothing failed says all of it.                         *)
(***************************************************************************)
(* Where nothing failed everything was written. *)
LEMMA AllIsWritten ==
  ASSUME NEW attributes, NEW failing, IsFiniteSet(failing), Failures(attributes, failing) = << >>
  PROVE  /\ DOMAIN Written(attributes, failing) = DOMAIN attributes
         /\ \A name \in DOMAIN attributes : Written(attributes, failing)[name] = attributes[name]
<1> DEFINE both == DOMAIN attributes \cap failing
<1>1. IsFiniteSet(both)
  <2>1. both \subseteq failing
    OBVIOUS
  <2> QED BY <2>1, FS_Subset
<1>2. Cardinality(both) \in Nat
  BY <1>1, FS_CardinalityType
<1>3. Cardinality(both) = 0
  <2> DEFINE count == Cardinality(both)
             errors == [i \in 1 .. count |-> Error("AuthoringFailed")]
  <2>1. errors = << >>
    BY DEF Failures
  <2>2. count \in Nat
    BY <1>2
  <2> HIDE DEF count
  <2>3. DOMAIN errors = 1 .. count
    OBVIOUS
  <2>4. 1 .. count = {}
    <3> HIDE DEF errors
    <3> QED BY <2>1, <2>3
  <2>5. count = 0
    BY <2>2, <2>4
  <2> QED BY <2>5 DEF count
<1>4. both = {}
  BY <1>1, <1>3, FS_EmptySet
<1>5. DOMAIN attributes \ failing = DOMAIN attributes
  BY <1>4
<1> QED BY <1>5 DEF Written

MeshNames ==
  {"geo:localOrigin", "geo:boundsMin", "geo:boundsMax", "points", "faceVertexCounts", "faceVertexIndices",
   "extent", "orientation", "subdivisionScheme", "raster:representation", "raster:samplingStep",
   "raster:heightScale", "raster:heightOffset", "raster:noDataPolicy", "raster:fillValue"}

TheMesh == Mesh(metadata, grid, MeshOptions)

(* What the attributes of a mesh say, name by name. *)
LEMMA MeshSays ==
  /\ DOMAIN MeshAttributes \subseteq MeshNames
  /\ PlaceNames \cup {"points", "faceVertexCounts", "faceVertexIndices", "extent", "raster:representation",
                      "raster:heightScale", "raster:noDataPolicy"} \subseteq DOMAIN MeshAttributes
  /\ MeshAttributes["geo:localOrigin"] = TheMesh.origin
  /\ MeshAttributes["geo:boundsMin"] = TheMesh.bounds.min
  /\ MeshAttributes["geo:boundsMax"] = TheMesh.bounds.max
  /\ MeshAttributes["points"] = TheMesh.points
  /\ MeshAttributes["faceVertexIndices"] = TheMesh.faces
  /\ MeshAttributes["raster:representation"] = "mesh"
  /\ MeshAttributes["raster:heightScale"] = arguments.heightScale
  /\ MeshAttributes["raster:noDataPolicy"] = arguments.noDataPolicy
  /\ arguments.noDataPolicy = "fill" =>
       "raster:fillValue" \in DOMAIN MeshAttributes /\ MeshAttributes["raster:fillValue"] = arguments.fillValue
<1> DEFINE mesh == TheMesh
           p == PlaceAttributes(mesh.origin, mesh.bounds)
           g == GeometryAttributes(mesh)
           o == MeshOptionAttributes
           pg == p @@ g
<1>1. /\ DOMAIN p = {"geo:localOrigin", "geo:boundsMin", "geo:boundsMax"}
      /\ p["geo:localOrigin"] = mesh.origin
      /\ p["geo:boundsMin"] = mesh.bounds.min /\ p["geo:boundsMax"] = mesh.bounds.max
  <2> HIDE DEF mesh
  <2> QED BY PlaceSays
<1>2. /\ DOMAIN g = {"points", "faceVertexCounts", "faceVertexIndices", "extent", "orientation",
                     "subdivisionScheme"}
      /\ g["points"] = mesh.points /\ g["faceVertexIndices"] = mesh.faces
  <2> HIDE DEF mesh
  <2> QED BY GeometrySays
<1>3. /\ DOMAIN o \subseteq {"raster:representation", "raster:samplingStep", "raster:heightScale",
           "raster:heightOffset", "raster:noDataPolicy", "raster:fillValue"}
      /\ {"raster:representation", "raster:heightScale", "raster:noDataPolicy"} \subseteq DOMAIN o
      /\ o["raster:representation"] = "mesh"
      /\ o["raster:heightScale"] = arguments.heightScale
      /\ o["raster:noDataPolicy"] = arguments.noDataPolicy
      /\ arguments.noDataPolicy = "fill" =>
           "raster:fillValue" \in DOMAIN o /\ o["raster:fillValue"] = arguments.fillValue
  BY MeshOptionsSay
<1>4. MeshAttributes = pg @@ o
  BY DEF MeshAttributes, TheMesh
<1> HIDE DEF mesh, p, g, o
<1>5. /\ DOMAIN pg = DOMAIN p \cup DOMAIN g
      /\ pg["geo:localOrigin"] = mesh.origin
      /\ pg["geo:boundsMin"] = mesh.bounds.min /\ pg["geo:boundsMax"] = mesh.bounds.max
      /\ pg["points"] = mesh.points /\ pg["faceVertexIndices"] = mesh.faces
  BY <1>1, <1>2 DEF @@
<1> HIDE DEF pg
<1>6. /\ DOMAIN MeshAttributes = DOMAIN pg \cup DOMAIN o
      /\ \A name \in DOMAIN pg : MeshAttributes[name] = pg[name]
      /\ \A name \in DOMAIN o \ DOMAIN pg : MeshAttributes[name] = o[name]
  BY <1>4 DEF @@
<1>7. /\ MeshAttributes["geo:localOrigin"] = mesh.origin
      /\ MeshAttributes["geo:boundsMin"] = mesh.bounds.min /\ MeshAttributes["geo:boundsMax"] = mesh.bounds.max
      /\ MeshAttributes["points"] = mesh.points /\ MeshAttributes["faceVertexIndices"] = mesh.faces
  BY <1>1, <1>2, <1>5, <1>6
<1>8. /\ MeshAttributes["raster:representation"] = "mesh"
      /\ MeshAttributes["raster:heightScale"] = arguments.heightScale
      /\ MeshAttributes["raster:noDataPolicy"] = arguments.noDataPolicy
      /\ arguments.noDataPolicy = "fill" =>
           "raster:fillValue" \in DOMAIN MeshAttributes /\ MeshAttributes["raster:fillValue"] = arguments.fillValue
  BY <1>1, <1>2, <1>3, <1>5, <1>6
<1>9. DOMAIN MeshAttributes \subseteq MeshNames
  BY <1>1, <1>2, <1>3, <1>5, <1>6 DEF MeshNames
<1>10. PlaceNames \cup {"points", "faceVertexCounts", "faceVertexIndices", "extent", "raster:representation",
                      "raster:heightScale", "raster:noDataPolicy"} \subseteq DOMAIN MeshAttributes
  BY <1>1, <1>2, <1>3, <1>5, <1>6 DEF PlaceNames
<1> QED BY <1>7, <1>8, <1>9, <1>10 DEF mesh

(* A layer with both. *)
LEMMA MeshLayerSays ==
  ASSUME NEW later, DOMAIN later = DOMAIN MeshAttributes,
         \A name \in DOMAIN later : later[name] = MeshAttributes[name]
  PROVE  LET all == later @@ MetadataAttributes
         IN  /\ DOMAIN MetadataAttributes \subseteq DOMAIN all /\ DOMAIN MeshAttributes \subseteq DOMAIN all
             /\ \A name \in DOMAIN MeshAttributes : all[name] = MeshAttributes[name]
             /\ \A name \in DOMAIN MetadataAttributes \ MeshNames : all[name] = MetadataAttributes[name]
<1>1. DOMAIN MeshAttributes \subseteq MeshNames
  BY MeshSays
<1> QED BY <1>1 DEF @@

-----------------------------------------------------------------------------
(***************************************************************************)
(* What the arguments become.                                              *)
(***************************************************************************)
(* Where an argument is wrong, the first wrong one names the error. *)
LEMMA RightArguments ==
  ASSUME NEW values \in ArgumentSets, ArgumentsError(values) = "none"
  PROVE  /\ \A name \in DOMAIN values : ArgumentError(name, values[name]) = "none"
         /\ Parsed(values).representation # "mesh" =>
              \A name \in DOMAIN values : name \notin {"heightScale", "nodata", "fillValue"}
         /\ "fillValue" \in DOMAIN values <=> Parsed(values).noDataPolicy = "fill"
<1> DEFINE error(i) == ArgumentError(NameOrder[i], values[NameOrder[i]])
           wrong == {i \in DOMAIN NameOrder : NameOrder[i] \in DOMAIN values /\ error(i) # "none"}
           forMesh == {"heightScale", "nodata", "fillValue"} \cap DOMAIN values
           first == CHOOSE i \in wrong : \A j \in wrong : i <= j
<1>1. ArgumentsError(values) =
        IF wrong # {} THEN error(first)
        ELSE IF Parsed(values).representation # "mesh" /\ forMesh # {} THEN "UnsupportedFormatArgument"
        ELSE IF "fillValue" \in DOMAIN values /\ Parsed(values).noDataPolicy # "fill"
               THEN "ConflictingFormatArguments"
        ELSE IF Parsed(values).noDataPolicy = "fill" /\ "fillValue" \notin DOMAIN values
               THEN "InvalidFormatArgument"
        ELSE "none"
  BY Zenon DEF ArgumentsError
<1>2. DOMAIN NameOrder \subseteq Nat
  BY DEF NameOrder
<1>3. wrong = {}
  <2> SUFFICES ASSUME wrong # {} PROVE FALSE
    OBVIOUS
  <2>1. wrong \subseteq Nat
    BY <1>2
  <2>2. \E i \in wrong : \A j \in wrong : i <= j
    <3> HIDE DEF wrong
    <3>1. PICK i \in wrong : \A j \in wrong : ~(<<j, i>> \in OpToRel(<, Nat))
      BY <2>1, NatLessThanWellFounded, WFMin
    <3>2. \A j \in wrong : j < i => <<j, i>> \in OpToRel(<, Nat)
      <4> SUFFICES ASSUME NEW j \in wrong, j < i PROVE <<j, i>> \in OpToRel(<, Nat)
        OBVIOUS
      <4>1. i \in Nat /\ j \in Nat
        BY <2>1
      <4> QED BY <4>1 DEF OpToRel
    <3>3. \A j \in wrong : ~(j < i)
      BY <3>1, <3>2
    <3> QED BY <2>1, <3>3
  <2>3. first \in wrong
    <3> HIDE DEF wrong
    <3> QED BY <2>2
  <2>4. error(first) # "none"
    <3> HIDE DEF first
    <3> QED BY <2>3
  <2> HIDE DEF error, first, wrong
  <2> QED BY <1>1, <2>4
<1>4. DOMAIN values \subseteq Names
  BY ArgumentsAssumption
<1>5. ASSUME NEW name \in DOMAIN values PROVE ArgumentError(name, values[name]) = "none"
  <2>1. PICK i \in DOMAIN NameOrder : NameOrder[i] = name
    BY <1>4 DEF Names
  <2>2. i \notin wrong
    BY <1>3
  <2> QED BY <2>1, <2>2
<1> HIDE DEF error, first, wrong
<1> QED BY <1>1, <1>3, <1>5

(* Arguments that are taken have the types of RasterArguments. *)
LEMMA ParsedIsTyped ==
  ASSUME NEW values \in ArgumentSets, ArgumentsError(values) = "none"
  PROVE  Parsed(values) \in RasterArguments
<1>1. \A name \in DOMAIN values : ArgumentError(name, values[name]) = "none"
  BY RightArguments
<1>2. Value(values, "representation", "metadata") \in {"metadata", "mesh"}
  BY <1>1 DEF Value, ArgumentError
<1>3. Value(values, "band", 1) \in Nat \ {0}
  BY <1>1, ArgumentsAssumption DEF Value, ArgumentError
<1>4. Value(values, "pixelAnchor", "unknown") \in Anchors
  BY <1>1 DEF Value, ArgumentError, Anchors
<1>5. Value(values, "heightScale", 1) \in Nat \ {0}
  BY <1>1 DEF Value, ArgumentError
<1>6. Value(values, "nodata", "skip") \in {"skip", "fill", "keep"}
  BY <1>1 DEF Value, ArgumentError
<1>7. Value(values, "fillValue", 0) \in Int
  BY <1>1, ArgumentsAssumption DEF Value, ArgumentError, Number
<1> QED BY <1>2, <1>3, <1>4, <1>5, <1>6, <1>7 DEF Parsed, RasterArguments

(* What was taken of the arguments of a layer, metadataOnly aside. *)
Taken ==
  IF metadataOnly THEN [Parsed(supplied) EXCEPT !.representation = "metadata"] ELSE Parsed(supplied)

(* What the arguments become, value by value.                                 *)
LEMMA TakenSays ==
  ASSUME supplied \in ArgumentSets, ArgumentsError(supplied) = "none"
  PROVE  /\ Taken \in RasterArguments
         /\ DOMAIN supplied \subseteq {"band", "fillValue", "heightScale", "nodata", "pixelAnchor", "representation"}
         /\ Taken.representation = IF metadataOnly THEN "metadata"
                                   ELSE Value(supplied, "representation", "metadata")
         /\ "representation" \in DOMAIN supplied => supplied["representation"] \in {"metadata", "mesh"}
         /\ "band" \in DOMAIN supplied => Taken.band = supplied["band"]
         /\ Taken.pixelAnchor # "unknown" <=> "pixelAnchor" \in DOMAIN supplied
         /\ "pixelAnchor" \in DOMAIN supplied =>
              supplied["pixelAnchor"] \in {"area", "point"} /\ Taken.pixelAnchor = supplied["pixelAnchor"]
         /\ "heightScale" \in DOMAIN supplied => Taken.heightScale = supplied["heightScale"]
         /\ "nodata" \in DOMAIN supplied => Taken.noDataPolicy = supplied["nodata"]
         /\ "fillValue" \in DOMAIN supplied =>
              Taken.fillValue = supplied["fillValue"] /\ Taken.noDataPolicy = "fill"
         /\ Value(supplied, "representation", "metadata") # "mesh" =>
              DOMAIN supplied \cap {"heightScale", "nodata", "fillValue"} = {}
<1> DEFINE parsed == Parsed(supplied)
<1>1. parsed \in RasterArguments
  BY ParsedIsTyped
<1>2. /\ parsed.representation = Value(supplied, "representation", "metadata")
      /\ parsed.band = Value(supplied, "band", 1)
      /\ parsed.pixelAnchor = Value(supplied, "pixelAnchor", "unknown")
      /\ parsed.heightScale = Value(supplied, "heightScale", 1)
      /\ parsed.noDataPolicy = Value(supplied, "nodata", "skip")
      /\ parsed.fillValue = Value(supplied, "fillValue", 0)
  BY DEF Parsed
<1>3. /\ \A name \in DOMAIN supplied : ArgumentError(name, supplied[name]) = "none"
      /\ parsed.representation # "mesh" =>
           \A name \in DOMAIN supplied : name \notin {"heightScale", "nodata", "fillValue"}
      /\ "fillValue" \in DOMAIN supplied <=> parsed.noDataPolicy = "fill"
  BY RightArguments
<1>4. DOMAIN supplied \subseteq {"band", "fillValue", "heightScale", "nodata", "pixelAnchor", "representation"}
  BY <1>3 DEF ArgumentError
<1>5. "representation" \in DOMAIN supplied => supplied["representation"] \in {"metadata", "mesh"}
  BY <1>3 DEF ArgumentError
<1>6. "pixelAnchor" \in DOMAIN supplied => supplied["pixelAnchor"] \in {"area", "point"}
  BY <1>3 DEF ArgumentError
<1> HIDE DEF parsed
<1>7. /\ Taken \in RasterArguments
      /\ Taken.representation = (IF metadataOnly THEN "metadata" ELSE parsed.representation)
      /\ Taken.band = parsed.band /\ Taken.pixelAnchor = parsed.pixelAnchor
      /\ Taken.heightScale = parsed.heightScale /\ Taken.noDataPolicy = parsed.noDataPolicy
      /\ Taken.fillValue = parsed.fillValue
  <2>1. Taken = IF metadataOnly THEN [parsed EXCEPT !.representation = "metadata"] ELSE parsed
    BY DEF Taken, parsed
  <2> QED BY <1>1, <2>1 DEF RasterArguments
<1>8. /\ "band" \in DOMAIN supplied => parsed.band = supplied["band"]
      /\ parsed.pixelAnchor = IF "pixelAnchor" \in DOMAIN supplied THEN supplied["pixelAnchor"] ELSE "unknown"
      /\ "heightScale" \in DOMAIN supplied => parsed.heightScale = supplied["heightScale"]
      /\ "nodata" \in DOMAIN supplied => parsed.noDataPolicy = supplied["nodata"]
      /\ "fillValue" \in DOMAIN supplied => parsed.fillValue = supplied["fillValue"]
  BY <1>2 DEF Value
<1> QED BY <1>2, <1>3, <1>4, <1>5, <1>6, <1>7, <1>8

-----------------------------------------------------------------------------
(***************************************************************************)
(* The bounds of a raster.                                                 *)
(***************************************************************************)
(* Bounds are expanded by a point on the ground, or not at all. *)
LEMMA ExpandedBounds ==
  ASSUME NEW b \in Bounds, NEW x \in Number, NEW y \in Number
  PROVE  LET e == Expand(b, [x |-> x, y |-> y, z |-> 0])
         IN  /\ x = NaN \/ y = NaN => e = b
             /\ x # NaN /\ y # NaN =>
                  /\ e \in Bounds
                  /\ e.min.z = Lesser(b.min.z, 0) /\ e.max.z = Greater(b.max.z, 0)
                  /\ e.min.x <= b.min.x /\ e.min.x <= x /\ b.max.x <= e.max.x /\ x <= e.max.x
                  /\ e.min.y <= b.min.y /\ e.min.y <= y /\ b.max.y <= e.max.y /\ y <= e.max.y
<1> DEFINE p == [x |-> x, y |-> y, z |-> 0]
<1>1. NaN # 0
  BY NaNAssumption
<1>2. CASE x = NaN \/ y = NaN
  BY <1>2 DEF Expand
<1>3. CASE x # NaN /\ y # NaN
  <2>1. x \in Int /\ y \in Int
    BY <1>3 DEF Number
  <2>2. Expand(b, p) =
    [min |-> [x |-> Lesser(b.min.x, x), y |-> Lesser(b.min.y, y), z |-> Lesser(b.min.z, 0)],
     max |-> [x |-> Greater(b.max.x, x), y |-> Greater(b.max.y, y), z |-> Greater(b.max.z, 0)]]
    BY <1>1, <1>3 DEF Expand
  <2>3. /\ b.min.x \in Int /\ b.min.y \in Int /\ b.min.z \in Int
        /\ b.max.x \in Int /\ b.max.y \in Int /\ b.max.z \in Int
    BY DEF Bounds, Point
  <2>4. /\ Lesser(b.min.x, x) \in Int /\ Lesser(b.min.y, y) \in Int /\ Lesser(b.min.z, 0) \in Int
        /\ Greater(b.max.x, x) \in Int /\ Greater(b.max.y, y) \in Int /\ Greater(b.max.z, 0) \in Int
        /\ Lesser(b.min.x, x) <= b.min.x /\ Lesser(b.min.x, x) <= x
        /\ Lesser(b.min.y, y) <= b.min.y /\ Lesser(b.min.y, y) <= y
        /\ b.max.x <= Greater(b.max.x, x) /\ x <= Greater(b.max.x, x)
        /\ b.max.y <= Greater(b.max.y, y) /\ y <= Greater(b.max.y, y)
    BY <2>1, <2>3 DEF Lesser, Greater
  <2> QED BY <1>3, <2>2, <2>4 DEF Bounds, Point
<1> QED BY <1>2, <1>3

(* The corner of a raster whose transform has an offset is a point. *)
LEMMA CornerIsAPoint ==
  ASSUME NEW t \in GeoTransform, NEW px \in Int, NEW py \in Int
  PROVE  LET pixel == [px |-> px, py |-> py]
         IN  /\ ApplyX(t, pixel) \in Number /\ ApplyY(t, pixel) \in Number
             /\ ApplyX(t, pixel) = NaN <=> t.a0 = NaN
             /\ ApplyY(t, pixel) = NaN <=> t.b0 = NaN
             /\ t.a0 # NaN => ApplyX(t, pixel) = t.a0 + t.a1 * px + t.a2 * py
             /\ t.b0 # NaN => ApplyY(t, pixel) = t.b0 + t.b1 * px + t.b2 * py
<1>1. /\ t.a0 \in Number /\ t.b0 \in Number
      /\ t.a1 \in Int /\ t.a2 \in Int /\ t.b1 \in Int /\ t.b2 \in Int
  BY DEF GeoTransform
<1>2. t.a1 * px \in Int /\ t.a2 * py \in Int /\ t.b1 * px \in Int /\ t.b2 * py \in Int
  BY <1>1
<1>3. t.a0 # NaN => t.a0 + t.a1 * px + t.a2 * py \in Int
  BY <1>1, <1>2 DEF Number
<1>4. t.b0 # NaN => t.b0 + t.b1 * px + t.b2 * py \in Int
  BY <1>1, <1>2 DEF Number
<1> QED BY <1>3, <1>4, NaNAssumption DEF ApplyX, ApplyY, Number

(* The bounds of a raster: flat, on the ground, and valid only where it is. *)
LEMMA WindowBoundsSay ==
  ASSUME NEW t \in GeoTransform, NEW size, size.width \in Size, size.height \in Size, NEW anchor
  PROVE  LET bounds == TryGetWindowBounds(t, size, anchor)
         IN  /\ bounds \in Bounds
             /\ IsValid(bounds) => /\ t.a0 # NaN /\ t.b0 # NaN
                                   /\ bounds.min.z = 0 /\ bounds.max.z = 0
             /\ bounds = TryGetWindowBounds(t, [width |-> size.width, height |-> size.height], anchor)
<1> DEFINE last == IF anchor = "area" THEN 0 ELSE 1
           right  == One * (size.width - last)
           bottom == One * (size.height - last)
           X(px, py) == ApplyX(t, [px |-> px, py |-> py])
           Y(px, py) == ApplyY(t, [px |-> px, py |-> py])
           corner(px, py) == [x |-> X(px, py), y |-> Y(px, py), z |-> 0]
           e0 == EmptyBounds
           e1 == Expand(e0, corner(0, 0))
           e2 == Expand(e1, corner(right, 0))
           e3 == Expand(e2, corner(right, bottom))
           e4 == Expand(e3, corner(0, bottom))
<1>1. TryGetWindowBounds(t, size, anchor) = e4
  BY DEF TryGetWindowBounds
<1>2. right \in Int /\ bottom \in Int
  <2>1. One \in Int /\ size.width - last \in Int /\ size.height - last \in Int
    BY OneAssumption DEF Size
  <2> HIDE DEF last
  <2> QED BY <2>1
<1>3. e0 \in Bounds /\ e0.min.z = Infinity /\ e0.max.z = -Infinity /\ ~IsValid(e0)
  BY InfinityAssumption DEF EmptyBounds, Bounds, Point, IsValid
<1>4. \A px, py \in Int : /\ X(px, py) \in Number /\ Y(px, py) \in Number
                          /\ X(px, py) = NaN <=> t.a0 = NaN
                          /\ Y(px, py) = NaN <=> t.b0 = NaN
  BY CornerIsAPoint
<1>5. TryGetWindowBounds(t, size, anchor)
        = TryGetWindowBounds(t, [width |-> size.width, height |-> size.height], anchor)
  BY DEF TryGetWindowBounds
<1> HIDE DEF X, Y, right, bottom, e0
<1>6. CASE t.a0 = NaN \/ t.b0 = NaN
  <2>1. \A px, py \in Int : Expand(e0, corner(px, py)) = e0
    BY <1>3, <1>4, <1>6, ExpandedBounds
  <2>2. e1 = e0 /\ e2 = e0 /\ e3 = e0 /\ e4 = e0
    BY <1>2, <2>1
  <2> QED BY <1>1, <1>3, <1>5, <2>2
<1>7. CASE t.a0 # NaN /\ t.b0 # NaN
  <2>1. ASSUME NEW b \in Bounds, NEW px \in Int, NEW py \in Int
        PROVE  LET e == Expand(b, corner(px, py))
               IN  e \in Bounds /\ e.min.z = Lesser(b.min.z, 0) /\ e.max.z = Greater(b.max.z, 0)
    <3>1. X(px, py) \in Number /\ Y(px, py) \in Number /\ X(px, py) # NaN /\ Y(px, py) # NaN
      BY <1>4, <1>7
    <3> QED BY <3>1, ExpandedBounds
  <2>2. e1 \in Bounds /\ e1.min.z = 0 /\ e1.max.z = 0
    <3>1. Lesser(Infinity, 0) = 0 /\ Greater(-Infinity, 0) = 0
      BY InfinityAssumption DEF Lesser, Greater
    <3> QED BY <1>3, <2>1, <3>1
  <2>3. Lesser(0, 0) = 0 /\ Greater(0, 0) = 0
    BY DEF Lesser, Greater
  <2> HIDE DEF e1
  <2>4. e2 \in Bounds /\ e2.min.z = 0 /\ e2.max.z = 0
    BY <1>2, <2>1, <2>2, <2>3
  <2> HIDE DEF e2
  <2>5. e3 \in Bounds /\ e3.min.z = 0 /\ e3.max.z = 0
    BY <1>2, <2>1, <2>3, <2>4
  <2> HIDE DEF e3
  <2>6. e4 \in Bounds /\ e4.min.z = 0 /\ e4.max.z = 0
    BY <1>2, <2>1, <2>3, <2>5
  <2> HIDE DEF e4
  <2> QED BY <1>1, <1>5, <1>7, <2>6
<1> QED BY <1>6, <1>7

-----------------------------------------------------------------------------
(***************************************************************************)
(* The second invariant: what Read has found out by each place.            *)
(***************************************************************************)
Places == {"arguments", "asset", "metadata", "checks", "pixels", "scope", "mesh", "done"}

Unchecked == {"arguments", "asset", "metadata", "checks"}
Checked   == {"pixels", "scope", "mesh"}

Typed ==
  /\ supplied \in ArgumentSets /\ metadataOnly \in BOOLEAN
  /\ pc \in Places /\ replaced \in BOOLEAN /\ layer.type \in {"none", "Scope", "Mesh"}
  /\ anchorSource \in {"file", "argument"}

ArgumentsAreTaken ==
  pc \notin {"arguments", "done"} => ArgumentsError(supplied) = "none" /\ arguments = Taken

(* Bounds belong to the anchor that is known. *)
MetadataIsRead ==
  pc \in Checked \cup {"checks"} =>
    /\ metadata \in MetadataWithBounds
    /\ metadata.hasGeoTransform => IsInvertible(metadata.geoTransform)
    /\ metadata.hasGeoTransform /\ metadata.pixelAnchor # "unknown" =>
         metadata.bounds = TryGetWindowBounds(metadata.geoTransform, metadata, metadata.pixelAnchor)
    /\ ~replaced => /\ metadata.width = asset.metadata.width /\ metadata.height = asset.metadata.height
                    /\ metadata.bands = asset.metadata.bands

(* A source that was checked has an anchor, from the file or from an argument. *)
SourceIsChecked ==
  /\ pc \in Unchecked => anchorSource = "file"
  /\ pc \in Checked =>
       /\ metadata.hasGeoTransform /\ metadata.pixelAnchor # "unknown" /\ HasBand(metadata, arguments.band)
       /\ anchorSource = "argument" <=> "pixelAnchor" \in DOMAIN supplied
       /\ "pixelAnchor" \in DOMAIN supplied => metadata.pixelAnchor = supplied["pixelAnchor"]
       /\ pc = "scope" <=> arguments.representation = "metadata"

GridIsDelivered == pc = "mesh" => grid = Delivered /\ WindowError = "none"

Knows == Typed /\ ArgumentsAreTaken /\ MetadataIsRead /\ SourceIsChecked /\ GridIsDelivered

(* Each step keeps what is known: a refusal, and then every action.           *)
LEMMA RefusalKnows ==
  ASSUME Knows, NEW diagnostics, Refuse(diagnostics)
  PROVE  Knows'
<1>1. pc' = "done" /\ UNCHANGED <<source, known, layer>>
  BY DEF Refuse, Return
<1> QED BY <1>1 DEF Knows, Typed, ArgumentsAreTaken, MetadataIsRead, SourceIsChecked, GridIsDelivered,
                    Places, Checked, Unchecked, source, known

(* Authoring changes nothing that is known.                                   *)
LEMMA AuthoringKnows ==
  ASSUME Knows, NEW type \in {"Scope", "Mesh"}, NEW attributes, NEW failures, Authored(type, attributes, failures)
  PROVE  Knows'
<1>1. pc' = "done" /\ UNCHANGED <<source, known>> /\ layer'.type = type
  BY DEF Authored, Return
<1> QED BY <1>1 DEF Knows, Typed, ArgumentsAreTaken, MetadataIsRead, SourceIsChecked, GridIsDelivered,
                    Places, Checked, Unchecked, source, known

(* ParseArguments keeps what is known.                                        *)
LEMMA ParseArgumentsKnows ==
  ASSUME Knows, ParseArguments, ArgumentsError(supplied) = "none"
  PROVE  Knows'
<1>1. /\ pc = "arguments" /\ pc' = "asset" /\ arguments' = Taken
      /\ UNCHANGED <<source, metadata, anchorSource, grid, layer>>
  BY DEF ParseArguments, Proceed, Taken
<1>2. Taken' = Taken
  BY <1>1 DEF Taken, source
<1> QED BY <1>1, <1>2 DEF Knows, Typed, ArgumentsAreTaken, MetadataIsRead, SourceIsChecked, GridIsDelivered,
                          Places, Checked, Unchecked, source

(* OpenAsset keeps what is known.                                             *)
LEMMA OpenAssetKnows ==
  ASSUME Knows, OpenAsset, asset # Nothing
  PROVE  Knows'
<1>1. pc = "asset" /\ pc' = "metadata" /\ UNCHANGED <<source, known, layer>>
  BY DEF OpenAsset, Proceed
<1>2. Taken' = Taken
  BY <1>1 DEF Taken, source
<1> QED BY <1>1, <1>2 DEF Knows, Typed, ArgumentsAreTaken, MetadataIsRead, SourceIsChecked, GridIsDelivered,
                          Places, Checked, Unchecked, source, known

(* The metadata of a parse, with its bounds. *)
LEMMA ReadIsBounded ==
  ASSUME NEW content \in Contents
  PROVE  LET m == WithBounds(content.metadata)
         IN  /\ m \in MetadataWithBounds
             /\ m.hasGeoTransform => IsInvertible(m.geoTransform)
             /\ m.hasGeoTransform /\ m.pixelAnchor # "unknown" =>
                  m.bounds = TryGetWindowBounds(m.geoTransform, m, m.pixelAnchor)
             /\ m.width = content.metadata.width /\ m.height = content.metadata.height
             /\ m.bands = content.metadata.bands
<1> DEFINE c == content.metadata
           m == WithBounds(c)
           found == TryGetWindowBounds(c.geoTransform, c, c.pixelAnchor)
<1>1. /\ c \in Metadata
      /\ c.hasGeoTransform => IsInvertible(c.geoTransform)
  BY ContentsAssumption DEF Content
<1> HIDE DEF c
<1>2. /\ c.width \in Size /\ c.height \in Size /\ c.hasGeoTransform \in BOOLEAN
      /\ c.geoTransform \in GeoTransform /\ c.pixelAnchor \in Anchors /\ c.bands \in Bands
      /\ c.overviewCount \in Nat /\ c.tiled \in BOOLEAN
      /\ c.crs \in SUBSET {"epsg", "wkt", "linearUnit", "verticalUnit"}
  BY <1>1 DEF Metadata
<1>3. found \in Bounds
      /\ found = TryGetWindowBounds(c.geoTransform, [width |-> c.width, height |-> c.height], c.pixelAnchor)
  BY <1>2, WindowBoundsSay
<1>4. ZeroBounds \in Bounds
  BY DEF ZeroBounds, Bounds, Point
<1>5. /\ m.width = c.width /\ m.height = c.height /\ m.bands = c.bands
      /\ m.hasGeoTransform = c.hasGeoTransform /\ m.geoTransform = c.geoTransform
      /\ m.pixelAnchor = c.pixelAnchor
      /\ m.bounds = IF c.hasGeoTransform /\ c.pixelAnchor # "unknown" THEN found ELSE ZeroBounds
  BY DEF WithBounds
<1>6. m \in MetadataWithBounds
  <2> DEFINE b == IF c.hasGeoTransform /\ c.pixelAnchor # "unknown" THEN found ELSE ZeroBounds
  <2>1. b \in Bounds
    <3> HIDE DEF found
    <3> QED BY <1>3, <1>4
  <2>2. m = [width |-> c.width, height |-> c.height, hasGeoTransform |-> c.hasGeoTransform,
             geoTransform |-> c.geoTransform, pixelAnchor |-> c.pixelAnchor, bands |-> c.bands,
             overviewCount |-> c.overviewCount, tiled |-> c.tiled, crs |-> c.crs, bounds |-> b]
    BY DEF WithBounds
  <2> HIDE DEF b, m
  <2> QED BY <1>2, <2>1, <2>2 DEF MetadataWithBounds
<1>7. TryGetWindowBounds(m.geoTransform, m, m.pixelAnchor)
        = TryGetWindowBounds(m.geoTransform, [width |-> m.width, height |-> m.height], m.pixelAnchor)
  <2>1. m.geoTransform \in GeoTransform /\ m.width \in Size /\ m.height \in Size
    <3> HIDE DEF m
    <3> QED BY <1>2, <1>5
  <2> HIDE DEF m
  <2> QED BY <2>1, WindowBoundsSay
<1> HIDE DEF m, found
<1>8. m.hasGeoTransform /\ m.pixelAnchor # "unknown" =>
         m.bounds = TryGetWindowBounds(m.geoTransform, m, m.pixelAnchor)
  BY <1>3, <1>5, <1>7
<1> QED BY <1>1, <1>5, <1>6, <1>8 DEF m, c

(* ReadMetadata keeps what is known.                                          *)
LEMMA ReadMetadataKnows ==
  ASSUME AssetIsThere, Knows, ReadMetadata, asset.error = "none"
  PROVE  Knows'
<1>1. /\ pc = "metadata" /\ pc' = "checks" /\ metadata' = WithBounds(asset.metadata)
      /\ UNCHANGED <<source, arguments, anchorSource, grid, layer>>
  BY DEF ReadMetadata, Proceed
<1>2. asset \in Contents
  BY <1>1 DEF AssetIsThere
<1>3. Taken' = Taken /\ asset' = asset
  BY <1>1 DEF Taken, source
<1>4. MetadataIsRead'
  <2> DEFINE m == WithBounds(asset.metadata)
  <2>1. /\ m \in MetadataWithBounds
        /\ m.hasGeoTransform => IsInvertible(m.geoTransform)
        /\ m.hasGeoTransform /\ m.pixelAnchor # "unknown" =>
             m.bounds = TryGetWindowBounds(m.geoTransform, m, m.pixelAnchor)
        /\ m.width = asset.metadata.width /\ m.height = asset.metadata.height
        /\ m.bands = asset.metadata.bands
    BY <1>2, ReadIsBounded
  <2>2. metadata' = m
    BY <1>1
  <2> HIDE DEF m
  <2> QED BY <1>3, <2>1, <2>2 DEF MetadataIsRead
<1> QED BY <1>1, <1>3, <1>4 DEF Knows, Typed, ArgumentsAreTaken, SourceIsChecked, GridIsDelivered,
                          Places, Checked, Unchecked, source

(* An anchor that came from an argument brings its bounds. *)
LEMMA CheckSourceKnows ==
  ASSUME AssetIsThere, Knows, CheckSource, SourceError = "none"
  PROVE  Knows'
<1>1. /\ pc = "checks" /\ UNCHANGED <<source, arguments, grid, layer>>
      /\ pc' = IF arguments.representation = "metadata" THEN "scope" ELSE "pixels"
      /\ IF metadata.pixelAnchor = "unknown"
           THEN /\ metadata' = [metadata EXCEPT
                     !.pixelAnchor = arguments.pixelAnchor,
                     !.bounds = TryGetWindowBounds(metadata.geoTransform, metadata, arguments.pixelAnchor)]
                /\ anchorSource' = "argument"
           ELSE UNCHANGED <<metadata, anchorSource>>
  BY DEF CheckSource, Proceed
<1>2. /\ metadata.hasGeoTransform /\ HasBand(metadata, arguments.band)
      /\ metadata.pixelAnchor = "unknown" \/ arguments.pixelAnchor = "unknown"
      /\ metadata.pixelAnchor # arguments.pixelAnchor
  BY DEF SourceError
<1>3. /\ metadata \in MetadataWithBounds /\ IsInvertible(metadata.geoTransform)
      /\ metadata.pixelAnchor # "unknown" =>
           metadata.bounds = TryGetWindowBounds(metadata.geoTransform, metadata, metadata.pixelAnchor)
      /\ ~replaced => /\ metadata.width = asset.metadata.width /\ metadata.height = asset.metadata.height
                      /\ metadata.bands = asset.metadata.bands
  BY <1>1, <1>2 DEF Knows, MetadataIsRead
<1>4. /\ supplied \in ArgumentSets /\ ArgumentsError(supplied) = "none" /\ arguments = Taken
      /\ anchorSource = "file"
  BY <1>1 DEF Knows, Typed, ArgumentsAreTaken, SourceIsChecked, Unchecked
<1>5. /\ arguments \in RasterArguments
      /\ arguments.pixelAnchor # "unknown" <=> "pixelAnchor" \in DOMAIN supplied
      /\ "pixelAnchor" \in DOMAIN supplied => arguments.pixelAnchor = supplied["pixelAnchor"]
  BY <1>4, TakenSays
<1>6. Taken' = Taken /\ supplied' = supplied /\ asset' = asset /\ replaced' = replaced /\ metadataOnly' = metadataOnly
  BY <1>1 DEF Taken, source
<1>7. /\ pc' \in {"scope", "pixels"} /\ pc' \in Places
      /\ pc' = "scope" <=> arguments.representation = "metadata"
  BY <1>1, <1>5 DEF RasterArguments, Places
<1>8. /\ metadata' \in MetadataWithBounds
      /\ metadata'.hasGeoTransform /\ metadata'.pixelAnchor # "unknown"
      /\ metadata'.bounds = TryGetWindowBounds(metadata'.geoTransform, metadata', metadata'.pixelAnchor)
      /\ metadata'.geoTransform = metadata.geoTransform
      /\ metadata'.width = metadata.width /\ metadata'.height = metadata.height
      /\ metadata'.bands = metadata.bands
      /\ anchorSource' = "argument" <=> "pixelAnchor" \in DOMAIN supplied
      /\ anchorSource' \in {"file", "argument"}
      /\ "pixelAnchor" \in DOMAIN supplied => metadata'.pixelAnchor = supplied["pixelAnchor"]
  <2>1. CASE metadata.pixelAnchor # "unknown"
    BY <1>1, <1>2, <1>3, <1>4, <1>5, <2>1
  <2>2. CASE metadata.pixelAnchor = "unknown"
    <3> DEFINE found == TryGetWindowBounds(metadata.geoTransform, metadata, arguments.pixelAnchor)
    <3>1. /\ metadata.geoTransform \in GeoTransform /\ metadata.width \in Size /\ metadata.height \in Size
          /\ arguments.pixelAnchor \in Anchors
      BY <1>3, <1>5 DEF MetadataWithBounds, RasterArguments
    <3>2. /\ found \in Bounds
          /\ found = TryGetWindowBounds(metadata.geoTransform,
                        [width |-> metadata.width, height |-> metadata.height], arguments.pixelAnchor)
      BY <3>1, WindowBoundsSay
    <3>3. /\ metadata' = [metadata EXCEPT !.pixelAnchor = arguments.pixelAnchor, !.bounds = found]
          /\ anchorSource' = "argument"
      BY <1>1, <2>2
    <3>4. arguments.pixelAnchor # "unknown"
      BY <1>2, <2>2
    <3> HIDE DEF found
    <3>5. /\ metadata' \in MetadataWithBounds
          /\ metadata'.hasGeoTransform = metadata.hasGeoTransform
          /\ metadata'.pixelAnchor = arguments.pixelAnchor /\ metadata'.bounds = found
          /\ metadata'.geoTransform = metadata.geoTransform
          /\ metadata'.width = metadata.width /\ metadata'.height = metadata.height
          /\ metadata'.bands = metadata.bands
      BY <1>3, <3>1, <3>2, <3>3 DEF MetadataWithBounds
    <3>6. TryGetWindowBounds(metadata'.geoTransform, metadata', metadata'.pixelAnchor)
            = TryGetWindowBounds(metadata'.geoTransform,
                        [width |-> metadata'.width, height |-> metadata'.height], metadata'.pixelAnchor)
      <4> DEFINE m == metadata'
      <4>1. m.geoTransform \in GeoTransform /\ m.width \in Size /\ m.height \in Size
        BY <3>1, <3>5
      <4> HIDE DEF m
      <4>2. TryGetWindowBounds(m.geoTransform, m, m.pixelAnchor)
            = TryGetWindowBounds(m.geoTransform, [width |-> m.width, height |-> m.height], m.pixelAnchor)
        BY <4>1, WindowBoundsSay
      <4> QED BY <4>2 DEF m
    <3> QED BY <1>2, <1>5, <3>2, <3>3, <3>4, <3>5, <3>6
  <2> QED BY <2>1, <2>2
<1>9. Typed'
  BY <1>1, <1>4, <1>6, <1>7, <1>8 DEF Knows, Typed
<1>10. ArgumentsAreTaken'
  BY <1>1, <1>4, <1>6 DEF ArgumentsAreTaken
<1>11. MetadataIsRead'
  BY <1>3, <1>6, <1>8 DEF MetadataIsRead
<1>12. SourceIsChecked'
  BY <1>1, <1>2, <1>6, <1>7, <1>8 DEF SourceIsChecked, Unchecked, HasBand
<1>13. GridIsDelivered'
  BY <1>7 DEF GridIsDelivered
<1> QED BY <1>9, <1>10, <1>11, <1>12, <1>13 DEF Knows

(* ReadWindow keeps what is known.                                            *)
LEMMA ReadWindowKnows ==
  ASSUME Knows, ReadWindow, asset.error = "none", WindowError = "none"
  PROVE  Knows'
<1>1. /\ pc = "pixels" /\ pc' = "mesh" /\ grid' = Delivered
      /\ UNCHANGED <<source, arguments, metadata, anchorSource, layer>>
  BY DEF ReadWindow, Proceed
<1>2. Taken' = Taken /\ Delivered' = Delivered /\ WindowError' = WindowError
  BY <1>1 DEF Taken, Delivered, Band, WindowError, source
<1> QED BY <1>1, <1>2 DEF Knows, Typed, ArgumentsAreTaken, MetadataIsRead, SourceIsChecked, GridIsDelivered,
                          Places, Checked, Unchecked, source

(* Another file at the same path changes nothing that is known.               *)
LEMMA ReplaceContentKnows ==
  ASSUME Knows, ReplaceContent
  PROVE  Knows'
<1>1. /\ pc = "pixels" /\ replaced' = TRUE
      /\ UNCHANGED <<supplied, metadataOnly, pc, known, layer>>
  BY DEF ReplaceContent
<1>2. Taken' = Taken
  BY <1>1 DEF Taken
<1> QED BY <1>1, <1>2 DEF Knows, Typed, ArgumentsAreTaken, MetadataIsRead, SourceIsChecked, GridIsDelivered,
                          Places, Checked, Unchecked, known

(* Nothing is forgotten while nothing happens.                                *)
LEMMA StutteringKnows ==
  ASSUME Knows, UNCHANGED vars
  PROVE  Knows'
<1>1. Taken' = Taken /\ Delivered' = Delivered /\ WindowError' = WindowError
  BY DEF Taken, Delivered, Band, WindowError, vars, source, known
<1> QED BY <1>1 DEF Knows, Typed, ArgumentsAreTaken, MetadataIsRead, SourceIsChecked, GridIsDelivered,
                    vars, source, known

(* Every action keeps what is known.                                          *)
LEMMA StepsKnow ==
  ASSUME AssetIsThere, Knows, Next
  PROVE  Knows'
<1>1. CASE ParseArguments
  <2>1. CASE ArgumentsError(supplied) # "none"
    BY <1>1, <2>1, RefusalKnows DEF ParseArguments
  <2> QED BY <1>1, <2>1, ParseArgumentsKnows
<1>2. CASE OpenAsset
  <2>1. CASE asset = Nothing
    BY <1>2, <2>1, RefusalKnows DEF OpenAsset
  <2> QED BY <1>2, <2>1, OpenAssetKnows
<1>3. CASE ReadMetadata
  <2>1. CASE asset.error # "none"
    BY <1>3, <2>1, RefusalKnows DEF ReadMetadata
  <2> QED BY <1>3, <2>1, ReadMetadataKnows
<1>4. CASE FailToParse
  BY <1>4, RefusalKnows DEF FailToParse
<1>5. CASE CheckSource
  <2>1. CASE SourceError # "none"
    BY <1>5, <2>1, RefusalKnows DEF CheckSource
  <2> QED BY <1>5, <2>1, CheckSourceKnows
<1>6. CASE ReadWindow
  <2>1. CASE asset.error # "none"
    BY <1>6, <2>1, RefusalKnows DEF ReadWindow
  <2>2. CASE asset.error = "none" /\ WindowError # "none"
    BY <1>6, <2>2, RefusalKnows DEF ReadWindow
  <2> QED BY <1>6, <2>1, <2>2, ReadWindowKnows
<1>7. CASE FailToReadPixels
  BY <1>7, RefusalKnows DEF FailToReadPixels
<1>8. CASE \E failing \in FailingSets : AuthorMetadata(failing)
  <2>1. PICK failing \in FailingSets : AuthorMetadata(failing)
    BY <1>8
  <2>2. CASE CannotAuthor(failing)
    BY <2>1, <2>2, RefusalKnows DEF AuthorMetadata
  <2>3. CASE ~CannotAuthor(failing)
    BY <2>1, <2>3, AuthoringKnows DEF AuthorMetadata
  <2> QED BY <2>2, <2>3
<1>9. CASE \E failing, failingLater \in FailingSets : AuthorMesh(failing, failingLater)
  <2>1. PICK failing \in FailingSets, failingLater \in FailingSets : AuthorMesh(failing, failingLater)
    BY <1>9
  <2>2. CASE CannotAuthor(failing) \/ CannotBuildMesh
    BY <2>1, <2>2, RefusalKnows DEF AuthorMesh
  <2>3. CASE ~(CannotAuthor(failing) \/ CannotBuildMesh)
    <3>1. PICK type \in {"Scope", "Mesh"} : \E attributes, failures : Authored(type, attributes, failures)
      BY <2>1, <2>3 DEF AuthorMesh
    <3> QED BY <3>1, AuthoringKnows
  <2> QED BY <2>2, <2>3
<1>10. CASE ReplaceContent
  BY <1>10, ReplaceContentKnows
<1> QED BY <1>1, <1>2, <1>3, <1>4, <1>5, <1>6, <1>7, <1>8, <1>9, <1>10 DEF Next

(* What Read has found out at each place, whichever way it came there. *)
THEOREM ReadKnows == Spec => []Knows
<1>1. Init => Knows
  <2> SUFFICES ASSUME Init PROVE Knows
    OBVIOUS
  <2>1. pc = "arguments" /\ anchorSource = "file"
    BY DEF Init
  <2>2. layer.type = "none"
    BY DEF Init, NoLayer
  <2>3. Typed
    BY <2>1, <2>2 DEF Init, Typed, Places
  <2> QED BY <2>1, <2>3 DEF Knows, ArgumentsAreTaken, MetadataIsRead, SourceIsChecked, GridIsDelivered,
                            Checked, Unchecked
<1>2. ReadInvariant /\ Knows /\ [Next]_vars => Knows'
  BY StepsKnow, StutteringKnows DEF ReadInvariant
<1> QED BY <1>1, <1>2, ReadIsInvariant, PTL DEF Spec

(* Each place in Read has what it dereferences: arguments, an asset, metadata *)
(* with bounds, an anchor, a band, and a sample for every pixel.              *)
THEOREM TypeCorrect == Spec => []TypeOK
<1>1. ReadInvariant /\ Knows => TypeOK
  <2> SUFFICES ASSUME ReadInvariant, Knows PROVE TypeOK
    OBVIOUS
  <2>1. pc \notin {"arguments", "done"} => arguments \in RasterArguments
    BY TakenSays DEF Knows, Typed, ArgumentsAreTaken
  <2>2. pc = "mesh" => grid.band = arguments.band /\ DOMAIN grid.sample = Pixels(metadata)
    BY DEF Knows, GridIsDelivered, Delivered
  <2>3. pc \notin {"arguments", "asset", "done"} => asset \in Contents
    BY DEF ReadInvariant, AssetIsThere, Knows, Typed, Places
  <2>4. /\ pc \in {"checks", "pixels", "scope", "mesh"} => metadata \in MetadataWithBounds
        /\ pc \in {"pixels", "scope", "mesh"} =>
             metadata.pixelAnchor # "unknown" /\ HasBand(metadata, arguments.band)
    BY DEF Knows, MetadataIsRead, SourceIsChecked, Checked
  <2>5. sink \in Seq(Diagnostic) /\ result \in {"none", "refused", "succeeded"}
    BY DEF ReadInvariant, Collected, ReturnedWell
  <2> QED BY <2>1, <2>2, <2>3, <2>4, <2>5 DEF TypeOK, Knows, Typed, Places, ReadInvariant, AssetIsThere
<1> QED BY <1>1, ReadIsInvariant, ReadKnows, PTL

-----------------------------------------------------------------------------
(***************************************************************************)
(* A read that succeeds authors everything, under an anchor, by the        *)
(* arguments.                                                              *)
(***************************************************************************)
(* A refusal is no success.                                                   *)
LEMMA RefusingFails == ASSUME NEW diagnostics, Refuse(diagnostics) PROVE result' # "succeeded"
BY DEF Refuse, Return

(* A read only succeeds by authoring all there is. *)
LEMMA SuccessIsAuthored ==
  ASSUME Collected, Next, result' = "succeeded"
  PROVE  /\ UNCHANGED <<source, known>> /\ pc' = "done"
         /\ metadata.hasGeoTransform /\ IsValid(metadata.bounds)
         /\ \/ /\ pc = "scope" /\ layer'.type = "Scope"
               /\ DOMAIN layer'.attributes = DOMAIN MetadataAttributes
               /\ \A name \in DOMAIN MetadataAttributes : layer'.attributes[name] = MetadataAttributes[name]
            \/ /\ pc = "mesh" /\ layer'.type = "Mesh" /\ ~CannotBuildMesh
               /\ DOMAIN MetadataAttributes \cup DOMAIN MeshAttributes \subseteq DOMAIN layer'.attributes
               /\ \A name \in DOMAIN MeshAttributes : layer'.attributes[name] = MeshAttributes[name]
               /\ \A name \in DOMAIN MetadataAttributes \ MeshNames :
                    layer'.attributes[name] = MetadataAttributes[name]
<1>1. CASE ParseArguments
  <2>1. result = "none"
    BY <1>1 DEF ParseArguments, Collected
  <2> QED BY <1>1, <2>1, RefusingFails DEF ParseArguments, Proceed
<1>2. CASE OpenAsset
  <2>1. result = "none"
    BY <1>2 DEF OpenAsset, Collected
  <2> QED BY <1>2, <2>1, RefusingFails DEF OpenAsset, Proceed
<1>3. CASE ReadMetadata
  <2>1. result = "none"
    BY <1>3 DEF ReadMetadata, Collected
  <2> QED BY <1>3, <2>1, RefusingFails DEF ReadMetadata, Proceed
<1>4. CASE FailToParse
  BY <1>4, RefusingFails DEF FailToParse
<1>5. CASE CheckSource
  <2>1. result = "none"
    BY <1>5 DEF CheckSource, Collected
  <2> QED BY <1>5, <2>1, RefusingFails DEF CheckSource, Proceed
<1>6. CASE ReadWindow
  <2>1. result = "none"
    BY <1>6 DEF ReadWindow, Collected
  <2> QED BY <1>6, <2>1, RefusingFails DEF ReadWindow, Proceed
<1>7. CASE FailToReadPixels
  BY <1>7, RefusingFails DEF FailToReadPixels
<1>8. CASE \E failing \in FailingSets : AuthorMetadata(failing)
  <2>1. PICK failing \in FailingSets : AuthorMetadata(failing)
    BY <1>8
  <2>2. IsFiniteSet(failing)
    BY FailingAssumption
  <2>3. /\ pc = "scope" /\ ~CannotAuthor(failing)
        /\ Authored("Scope", Written(MetadataAttributes, failing), Failures(MetadataAttributes, failing))
    BY <2>1, RefusingFails DEF AuthorMetadata
  <2>4. /\ Failures(MetadataAttributes, failing) = << >> /\ pc' = "done" /\ UNCHANGED <<source, known>>
        /\ layer' = [type |-> "Scope", attributes |-> Written(MetadataAttributes, failing)]
    BY <2>3 DEF Authored, Return
  <2>5. /\ DOMAIN Written(MetadataAttributes, failing) = DOMAIN MetadataAttributes
        /\ \A name \in DOMAIN MetadataAttributes :
             Written(MetadataAttributes, failing)[name] = MetadataAttributes[name]
    BY <2>2, <2>4, AllIsWritten
  <2>6. metadata.hasGeoTransform /\ IsValid(metadata.bounds)
    BY <2>3 DEF CannotAuthor
  <2>7. layer'.type = "Scope" /\ layer'.attributes = Written(MetadataAttributes, failing)
    BY <2>4
  <2> QED BY <2>3, <2>4, <2>5, <2>6, <2>7
<1>9. CASE \E failing, failingLater \in FailingSets : AuthorMesh(failing, failingLater)
  <2>1. PICK failing \in FailingSets, failingLater \in FailingSets : AuthorMesh(failing, failingLater)
    BY <1>9
  <2>2. IsFiniteSet(failing) /\ IsFiniteSet(failingLater)
    BY FailingAssumption
  <2> DEFINE record == Failures(MetadataAttributes, failing)
             later  == Written(MeshAttributes, failingLater)
             errors == Failures(MeshAttributes, failingLater)
  <2>3. /\ pc = "mesh" /\ ~CannotAuthor(failing) /\ ~CannotBuildMesh
        /\ \/ record # << >> /\ Authored("Scope", Written(MetadataAttributes, failing), record)
           \/ Authored("Mesh", later @@ MetadataAttributes, errors)
    BY <2>1, RefusingFails DEF AuthorMesh
  <2>4. Authored("Mesh", later @@ MetadataAttributes, errors)
    <3>1. ~(record # << >> /\ Authored("Scope", Written(MetadataAttributes, failing), record))
      <4> HIDE DEF record
      <4> QED BY DEF Authored, Return
    <3> QED BY <2>3, <3>1
  <2>5. /\ errors = << >> /\ pc' = "done" /\ UNCHANGED <<source, known>>
        /\ layer'.type = "Mesh" /\ layer'.attributes = later @@ MetadataAttributes
    <3> HIDE DEF errors
    <3> QED BY <2>4 DEF Authored, Return
  <2>6. DOMAIN later = DOMAIN MeshAttributes /\ \A name \in DOMAIN later : later[name] = MeshAttributes[name]
    BY <2>2, <2>5, AllIsWritten
  <2>7. metadata.hasGeoTransform /\ IsValid(metadata.bounds)
    BY <2>3 DEF CannotAuthor
  <2> HIDE DEF later, record, errors
  <2>8. LET all == later @@ MetadataAttributes
        IN  /\ DOMAIN MetadataAttributes \subseteq DOMAIN all /\ DOMAIN MeshAttributes \subseteq DOMAIN all
            /\ \A name \in DOMAIN MeshAttributes : all[name] = MeshAttributes[name]
            /\ \A name \in DOMAIN MetadataAttributes \ MeshNames : all[name] = MetadataAttributes[name]
    BY <2>6, MeshLayerSays
  <2> QED BY <2>3, <2>5, <2>7, <2>8
<1>10. CASE ReplaceContent
  <2>1. result = "none"
    BY <1>10 DEF ReplaceContent, Collected
  <2> QED BY <1>10, <2>1 DEF ReplaceContent
<1> QED BY <1>1, <1>2, <1>3, <1>4, <1>5, <1>6, <1>7, <1>8, <1>9, <1>10 DEF Next

(* The layer stays what it is while nothing happens.                          *)
LEMMA StutteringKeepsLayer ==
  ASSUME UNCHANGED vars
  PROVE  /\ SuccessIsAnchored => SuccessIsAnchored'
         /\ ArgumentsTakeEffect => ArgumentsTakeEffect'
BY DEF SuccessIsAnchored, ArgumentsTakeEffect, At, Required, vars, source

(* The bounds that were authored, but for the vertical ones. *)
LEMMA MeshBoundsSay ==
  ASSUME NEW m, m.bounds \in Bounds, m.bounds.min.z = 0, m.bounds.max.z = 0, NEW g, NEW options
  PROVE  LET bounds == MeshBounds(m, g, options)
         IN  /\ [bounds.min EXCEPT !.z = 0] = m.bounds.min
             /\ [bounds.max EXCEPT !.z = 0] = m.bounds.max
<1> DEFINE cells == {cell \in Cells(g) : HasElevation(g, cell, options)}
           heights == {Elevation(g, cell, options) : cell \in cells}
           b == m.bounds
<1>1. MeshBounds(m, g, options) = IF cells = {} THEN b
                                  ELSE [b EXCEPT !.min.z = Least(heights), !.max.z = Most(heights)]
  BY DEF MeshBounds
<1> HIDE DEF cells
<1>2. PICK low, high : low = Least(heights) /\ high = Most(heights)
  OBVIOUS
<1>3. MeshBounds(m, g, options) = IF cells = {} THEN b ELSE [b EXCEPT !.min.z = low, !.max.z = high]
  BY <1>1, <1>2
<1>4. b \in Bounds /\ b.min.z = 0 /\ b.max.z = 0
  OBVIOUS
<1> HIDE DEF b, heights
<1>5. b.min = [x |-> b.min.x, y |-> b.min.y, z |-> 0] /\ b.max = [x |-> b.max.x, y |-> b.max.y, z |-> 0]
  BY <1>4 DEF Bounds, Point
<1>6. [b.min EXCEPT !.z = 0] = b.min /\ [b.max EXCEPT !.z = 0] = b.max
  BY <1>4, <1>5 DEF Bounds, Point
<1>7. LET c == [b EXCEPT !.min.z = low, !.max.z = high]
      IN  c.min = [b.min EXCEPT !.z = low] /\ c.max = [b.max EXCEPT !.z = high]
  BY <1>4 DEF Bounds, Point
<1>8. /\ [[b.min EXCEPT !.z = low] EXCEPT !.z = 0] = [b.min EXCEPT !.z = 0]
      /\ [[b.max EXCEPT !.z = high] EXCEPT !.z = 0] = [b.max EXCEPT !.z = 0]
  BY <1>4 DEF Bounds, Point
<1> QED BY <1>3, <1>6, <1>7, <1>8 DEF b

(* What is known when everything is authored. *)
LEMMA AuthoredFacts ==
  ASSUME Knows, pc \in {"scope", "mesh"}, IsValid(metadata.bounds)
  PROVE  /\ supplied \in ArgumentSets /\ ArgumentsError(supplied) = "none" /\ arguments = Taken
         /\ metadata \in MetadataWithBounds /\ metadata.hasGeoTransform
         /\ metadata.pixelAnchor \in {"area", "point"}
         /\ anchorSource = "argument" <=> "pixelAnchor" \in DOMAIN supplied
         /\ "pixelAnchor" \in DOMAIN supplied => metadata.pixelAnchor = supplied["pixelAnchor"]
         /\ pc = "scope" <=> arguments.representation = "metadata"
         /\ metadata.bounds = TryGetWindowBounds(metadata.geoTransform,
              [width |-> metadata.width, height |-> metadata.height], metadata.pixelAnchor)
         /\ metadata.bounds \in Bounds /\ metadata.bounds.min.z = 0 /\ metadata.bounds.max.z = 0
         /\ metadata.geoTransform \in GeoTransform /\ IsInvertible(metadata.geoTransform)
         /\ metadata.geoTransform.a0 \in Int /\ metadata.geoTransform.b0 \in Int
<1>1. /\ supplied \in ArgumentSets /\ ArgumentsError(supplied) = "none" /\ arguments = Taken
      /\ metadata \in MetadataWithBounds /\ metadata.hasGeoTransform
      /\ metadata.pixelAnchor # "unknown" /\ IsInvertible(metadata.geoTransform)
      /\ anchorSource = "argument" <=> "pixelAnchor" \in DOMAIN supplied
      /\ "pixelAnchor" \in DOMAIN supplied => metadata.pixelAnchor = supplied["pixelAnchor"]
      /\ pc = "scope" <=> arguments.representation = "metadata"
      /\ metadata.bounds = TryGetWindowBounds(metadata.geoTransform, metadata, metadata.pixelAnchor)
  BY DEF Knows, Typed, ArgumentsAreTaken, MetadataIsRead, SourceIsChecked, Checked
<1>2. /\ metadata.width \in Size /\ metadata.height \in Size /\ metadata.geoTransform \in GeoTransform
      /\ metadata.pixelAnchor \in {"area", "point"} /\ metadata.bounds \in Bounds
  BY <1>1 DEF MetadataWithBounds, Anchors
<1>3. LET bounds == TryGetWindowBounds(metadata.geoTransform, metadata, metadata.pixelAnchor)
      IN  /\ IsValid(bounds) => /\ metadata.geoTransform.a0 # NaN /\ metadata.geoTransform.b0 # NaN
                                /\ bounds.min.z = 0 /\ bounds.max.z = 0
          /\ bounds = TryGetWindowBounds(metadata.geoTransform,
               [width |-> metadata.width, height |-> metadata.height], metadata.pixelAnchor)
  BY <1>2, WindowBoundsSay
<1>4. metadata.geoTransform.a0 \in Int /\ metadata.geoTransform.b0 \in Int
      /\ metadata.bounds.min.z = 0 /\ metadata.bounds.max.z = 0
  BY <1>1, <1>2, <1>3 DEF GeoTransform, Number
<1> QED BY <1>1, <1>2, <1>3, <1>4

(* The step that succeeds leaves an anchored layer.                           *)
LEMMA StepAnchors ==
  ASSUME Collected, Knows, Next, result' = "succeeded"
  PROVE  SuccessIsAnchored'
<1> DEFINE all == layer'.attributes
<1>1. /\ UNCHANGED <<source, known>> /\ pc \in {"scope", "mesh"} /\ IsValid(metadata.bounds)
  BY SuccessIsAuthored
<1>2. supplied' = supplied /\ metadataOnly' = metadataOnly
  BY <1>1 DEF source
<1>3. /\ supplied \in ArgumentSets /\ ArgumentsError(supplied) = "none" /\ arguments = Taken
      /\ metadata.pixelAnchor \in {"area", "point"}
      /\ anchorSource = "argument" <=> "pixelAnchor" \in DOMAIN supplied
      /\ pc = "scope" <=> arguments.representation = "metadata"
      /\ metadata.bounds = TryGetWindowBounds(metadata.geoTransform,
              [width |-> metadata.width, height |-> metadata.height], metadata.pixelAnchor)
      /\ metadata.bounds \in Bounds /\ metadata.bounds.min.z = 0 /\ metadata.bounds.max.z = 0
  BY <1>1, AuthoredFacts
<1>4. Taken.representation = IF metadataOnly THEN "metadata" ELSE Value(supplied, "representation", "metadata")
  BY <1>3, TakenSays
<1>5. Value(supplied, "representation", "metadata") \in {"metadata", "mesh"}
  BY <1>3, TakenSays DEF Value
<1>6. /\ "raster:width" \in DOMAIN all /\ "raster:height" \in DOMAIN all
      /\ "raster:geoTransform" \in DOMAIN all /\ "raster:pixelAnchor" \in DOMAIN all
      /\ "raster:pixelAnchorSource" \in DOMAIN all /\ "raster:selectedBand" \in DOMAIN all
      /\ PlaceNames \subseteq DOMAIN all
      /\ all["raster:width"] = metadata.width /\ all["raster:height"] = metadata.height
      /\ all["raster:geoTransform"] = metadata.geoTransform
      /\ all["raster:pixelAnchor"] = metadata.pixelAnchor
      /\ all["raster:pixelAnchorSource"] = anchorSource
  <2>1. /\ DOMAIN MetadataAttributes \subseteq DOMAIN all
        /\ \A name \in DOMAIN MetadataAttributes \ MeshNames : all[name] = MetadataAttributes[name]
    BY SuccessIsAuthored
  <2> HIDE DEF all
  <2> QED BY <2>1, MetadataSays DEF MeshNames
<1>7. /\ [all["geo:boundsMin"] EXCEPT !.z = 0] = metadata.bounds.min
      /\ [all["geo:boundsMax"] EXCEPT !.z = 0] = metadata.bounds.max
      /\ pc = "scope" => layer'.type = "Scope"
      /\ pc = "mesh" => /\ layer'.type = "Mesh"
                        /\ {"points", "faceVertexCounts", "faceVertexIndices", "extent"} \subseteq DOMAIN all
  <2>1. CASE pc = "scope"
    <3>1. /\ layer'.type = "Scope"
          /\ \A name \in DOMAIN MetadataAttributes : all[name] = MetadataAttributes[name]
      BY <2>1, SuccessIsAuthored
    <3>2. all["geo:boundsMin"] = metadata.bounds.min /\ all["geo:boundsMax"] = metadata.bounds.max
      <4> HIDE DEF all
      <4> QED BY <3>1, MetadataSays DEF PlaceNames
    <3>3. /\ [metadata.bounds.min EXCEPT !.z = 0] = metadata.bounds.min
          /\ [metadata.bounds.max EXCEPT !.z = 0] = metadata.bounds.max
      BY <1>3 DEF Bounds, Point
    <3> QED BY <2>1, <3>1, <3>2, <3>3
  <2>2. CASE pc = "mesh"
    <3>1. /\ layer'.type = "Mesh" /\ DOMAIN MeshAttributes \subseteq DOMAIN all
          /\ \A name \in DOMAIN MeshAttributes : all[name] = MeshAttributes[name]
      BY <2>2, SuccessIsAuthored
    <3> DEFINE bounds == TheMesh.bounds
    <3>2. /\ all["geo:boundsMin"] = bounds.min /\ all["geo:boundsMax"] = bounds.max
          /\ {"points", "faceVertexCounts", "faceVertexIndices", "extent"} \subseteq DOMAIN all
      <4> HIDE DEF all
      <4> QED BY <3>1, MeshSays DEF PlaceNames
    <3>3. bounds = MeshBounds(metadata, grid, MeshOptions)
      BY DEF TheMesh, Mesh
    <3> HIDE DEF bounds
    <3>4. /\ [bounds.min EXCEPT !.z = 0] = metadata.bounds.min
          /\ [bounds.max EXCEPT !.z = 0] = metadata.bounds.max
      BY <1>3, <3>3, MeshBoundsSay
    <3> QED BY <2>2, <3>1, <3>2, <3>4
  <2> QED BY <1>1, <2>1, <2>2
<1>8. layer'.type = IF metadataOnly THEN "Scope"
                    ELSE IF Value(supplied, "representation", "metadata") = "mesh" THEN "Mesh" ELSE "Scope"
  BY <1>1, <1>3, <1>4, <1>5, <1>7
<1>9. Required' \subseteq DOMAIN all
  <2> HIDE DEF all
  <2>1. layer'.type = "Mesh" => pc = "mesh"
    BY <1>1, <1>7
  <2> QED BY <1>6, <1>7, <2>1 DEF Required, PlaceNames
<1>10. Value(supplied, "representation", "metadata")' = Value(supplied, "representation", "metadata")
  BY <1>2 DEF Value
<1> QED BY <1>2, <1>3, <1>6, <1>7, <1>8, <1>9, <1>10 DEF SuccessIsAnchored, At

(* The step that succeeds shows every argument in the layer.                  *)
LEMMA StepTakesEffect ==
  ASSUME Collected, Knows, Next, result' = "succeeded"
  PROVE  ArgumentsTakeEffect'
<1> DEFINE all == layer'.attributes
<1>1. /\ UNCHANGED <<source, known>> /\ pc \in {"scope", "mesh"} /\ IsValid(metadata.bounds)
  BY SuccessIsAuthored
<1>2. supplied' = supplied /\ metadataOnly' = metadataOnly
  BY <1>1 DEF source
<1>3. /\ supplied \in ArgumentSets /\ ArgumentsError(supplied) = "none" /\ arguments = Taken
      /\ "pixelAnchor" \in DOMAIN supplied => metadata.pixelAnchor = supplied["pixelAnchor"]
      /\ pc = "scope" <=> arguments.representation = "metadata"
  BY <1>1, AuthoredFacts
<1>4. /\ all["raster:selectedBand"] = arguments.band
      /\ all["raster:pixelAnchor"] = metadata.pixelAnchor
      /\ pc = "scope" => layer'.type = "Scope"
  <2>1. /\ \A name \in DOMAIN MetadataAttributes \ MeshNames : all[name] = MetadataAttributes[name]
        /\ pc = "scope" => layer'.type = "Scope"
    BY SuccessIsAuthored
  <2> HIDE DEF all
  <2> QED BY <2>1, MetadataSays DEF MeshNames
<1>5. pc = "mesh" =>
        /\ all["raster:representation"] = "mesh"
        /\ all["raster:heightScale"] = arguments.heightScale
        /\ all["raster:noDataPolicy"] = arguments.noDataPolicy
        /\ arguments.noDataPolicy = "fill" => all["raster:fillValue"] = arguments.fillValue
  <2>1. pc = "mesh" => \A name \in DOMAIN MeshAttributes : all[name] = MeshAttributes[name]
    BY SuccessIsAuthored
  <2> HIDE DEF all
  <2> QED BY <2>1, MeshSays
<1>6. /\ DOMAIN supplied \subseteq {"band", "fillValue", "heightScale", "nodata", "pixelAnchor", "representation"}
      /\ Taken.representation = IF metadataOnly THEN "metadata"
                                ELSE Value(supplied, "representation", "metadata")
      /\ "representation" \in DOMAIN supplied => supplied["representation"] \in {"metadata", "mesh"}
      /\ "band" \in DOMAIN supplied => Taken.band = supplied["band"]
      /\ "heightScale" \in DOMAIN supplied => Taken.heightScale = supplied["heightScale"]
      /\ "nodata" \in DOMAIN supplied => Taken.noDataPolicy = supplied["nodata"]
      /\ "fillValue" \in DOMAIN supplied =>
           Taken.fillValue = supplied["fillValue"] /\ Taken.noDataPolicy = "fill"
      /\ Value(supplied, "representation", "metadata") # "mesh" =>
           DOMAIN supplied \cap {"heightScale", "nodata", "fillValue"} = {}
  BY <1>3, TakenSays
<1>7. \A name \in {"band", "fillValue", "heightScale", "nodata", "pixelAnchor", "representation"} :
        name \in DOMAIN ShowsIn
  BY DEF ShowsIn
<1>8. /\ ShowsIn["band"] = "raster:selectedBand" /\ ShowsIn["fillValue"] = "raster:fillValue"
      /\ ShowsIn["heightScale"] = "raster:heightScale" /\ ShowsIn["nodata"] = "raster:noDataPolicy"
      /\ ShowsIn["pixelAnchor"] = "raster:pixelAnchor" /\ ShowsIn["representation"] = "raster:representation"
  BY DEF ShowsIn
<1> HIDE DEF all
<1>9. ASSUME NEW name \in DOMAIN supplied
      PROVE  \/ metadataOnly /\ name \notin {"band", "pixelAnchor"} /\ name \in DOMAIN ShowsIn
             \/ name = "representation" /\ supplied[name] = "metadata" /\ layer'.type = "Scope"
             \/ name \in DOMAIN ShowsIn /\ all[ShowsIn[name]] = supplied[name]
  <2>1. CASE name = "band"
    BY <1>3, <1>4, <1>6, <1>7, <1>8, <2>1
  <2>2. CASE name = "pixelAnchor"
    BY <1>3, <1>4, <1>6, <1>7, <1>8, <2>2
  <2>3. CASE metadataOnly /\ name \notin {"band", "pixelAnchor"}
    BY <1>6, <1>7, <2>3
  <2>4. CASE ~metadataOnly /\ name = "representation"
    <3>1. Value(supplied, "representation", "metadata") = supplied[name]
      BY <2>4 DEF Value
    <3> QED BY <1>1, <1>3, <1>4, <1>5, <1>6, <1>7, <1>8, <2>4, <3>1
  <2>5. CASE ~metadataOnly /\ name \in {"heightScale", "nodata", "fillValue"}
    <3>1. pc = "mesh"
      BY <1>1, <1>3, <1>6, <2>5
    <3> QED BY <1>3, <1>5, <1>6, <1>7, <1>8, <2>5, <3>1
  <2> QED BY <1>6, <2>1, <2>2, <2>3, <2>4, <2>5
<1> QED BY <1>2, <1>9 DEF ArgumentsTakeEffect, At, all

(* A layer that was read says where it is and how it knows: the anchor is the *)
(* file's or the argument's, and the bounds are those of that anchor          *)
(* (the pixelAnchor block of Read).                                           *)
THEOREM SuccessesAreAnchored == Spec => []SuccessIsAnchored
<1>1. Init => SuccessIsAnchored
  BY DEF Init, SuccessIsAnchored
<1>2. ReadInvariant /\ Knows /\ SuccessIsAnchored /\ [Next]_vars => SuccessIsAnchored'
  <2> SUFFICES ASSUME ReadInvariant, Knows, SuccessIsAnchored, [Next]_vars, result' = "succeeded"
               PROVE  SuccessIsAnchored'
    BY DEF SuccessIsAnchored
  <2> QED BY StepAnchors, StutteringKeepsLayer DEF ReadInvariant
<1> QED BY <1>1, <1>2, ReadIsInvariant, ReadKnows, PTL DEF Spec

(* No argument is ignored (ParseRasterArguments, FILE_FORMAT_ARGUMENTS.md).   *)
THEOREM EveryArgumentTakesEffect == Spec => []ArgumentsTakeEffect
<1>1. Init => ArgumentsTakeEffect
  BY DEF Init, ArgumentsTakeEffect
<1>2. ReadInvariant /\ Knows /\ ArgumentsTakeEffect /\ [Next]_vars => ArgumentsTakeEffect'
  <2> SUFFICES ASSUME ReadInvariant, Knows, ArgumentsTakeEffect, [Next]_vars, result' = "succeeded"
               PROVE  ArgumentsTakeEffect'
    BY DEF ArgumentsTakeEffect
  <2> QED BY StepTakesEffect, StutteringKeepsLayer DEF ReadInvariant
<1> QED BY <1>1, <1>2, ReadIsInvariant, ReadKnows, PTL DEF Spec

-----------------------------------------------------------------------------
(***************************************************************************)
(* Row-major order, and the place of a pixel under a transform.            *)
(***************************************************************************)
(* The place of a point in row-major order. *)
LEMMA RowMajor ==
  ASSUME NEW w \in Nat \ {0}, NEW j \in Nat, NEW i \in 0 .. w - 1
  PROVE  /\ j * w + i \in Nat
         /\ (j * w + i) % w = i
         /\ (j * w + i) \div w = j
<1> DEFINE n == j * w + i
<1>1. j * w \in Nat /\ n \in Nat
  BY SMT
<1>2. n \div w \in Nat /\ n % w \in 0 .. w - 1 /\ n = w * (n \div w) + (n % w)
  <2>1. ASSUME NEW m \in Nat PROVE m \div w \in Nat /\ m % w \in 0 .. w - 1 /\ m = w * (m \div w) + (m % w)
    BY SMT
  <2> HIDE DEF n
  <2> QED BY <1>1, <2>1
<1>3. PICK q \in Nat, r \in 0 .. w - 1 : q = n \div w /\ r = n % w
  BY <1>2
<1>4. q * w + r = j * w + i
  BY <1>2, <1>3
<1>5. (q - j) * w = i - r
  BY <1>4
<1>6. q - j >= 1 => (q - j) * w >= w
  BY SMT
<1>7. q - j <= -1 => (q - j) * w <= -w
  BY SMT
<1>8. q = j
  BY <1>5, <1>6, <1>7
<1>9. r = i
  BY <1>4, <1>8
<1> QED BY <1>1, <1>3, <1>8, <1>9

(* Around a parallelogram every turn is the same. *)
LEMMA Turns ==
  ASSUME NEW x \in Int, NEW y \in Int, NEW u1 \in Int, NEW u2 \in Int, NEW v1 \in Int, NEW v2 \in Int,
         u1 * v2 - u2 * v1 > 0,
         NEW xs, xs = <<x, x + u1, x + u1 + v1, x + v1>>,
         NEW ys, ys = <<y, y + u2, y + u2 + v2, y + v2>>,
         NEW k \in 1 .. 4
  PROVE  LET b == (k % 4) + 1
             c == ((k + 1) % 4) + 1
         IN  (xs[b] - xs[k]) * (ys[c] - ys[b]) - (ys[b] - ys[k]) * (xs[c] - xs[b]) > 0
<1>1. PICK m, n \in Int : m = u1 * v2 /\ n = u2 * v1
  OBVIOUS
<1>2. /\ u1 * v2 = m /\ u2 * v1 = n /\ v1 * (-u2) = -n /\ v2 * (-u1) = -m
      /\ (-u1) * (-v2) = m /\ (-u2) * (-v1) = n /\ (-v1) * u2 = -n /\ (-v2) * u1 = -m
  BY <1>1
<1>3. m - n > 0
  BY <1>1
<1>4. /\ xs[1] = x /\ xs[2] = x + u1 /\ xs[3] = x + u1 + v1 /\ xs[4] = x + v1
      /\ ys[1] = y /\ ys[2] = y + u2 /\ ys[3] = y + u2 + v2 /\ ys[4] = y + v2
  OBVIOUS
<1>5. CASE k = 1
  <2>1. (k % 4) + 1 = 2 /\ ((k + 1) % 4) + 1 = 3
    BY <1>5
  <2>2. xs[2] - xs[1] = u1 /\ ys[3] - ys[2] = v2 /\ ys[2] - ys[1] = u2 /\ xs[3] - xs[2] = v1
    BY <1>4
  <2> QED BY <1>2, <1>3, <1>5, <2>1, <2>2
<1>6. CASE k = 2
  <2>1. (k % 4) + 1 = 3 /\ ((k + 1) % 4) + 1 = 4
    BY <1>6
  <2>2. xs[3] - xs[2] = v1 /\ ys[4] - ys[3] = -u2 /\ ys[3] - ys[2] = v2 /\ xs[4] - xs[3] = -u1
    BY <1>4
  <2> QED BY <1>2, <1>3, <1>6, <2>1, <2>2
<1>7. CASE k = 3
  <2>1. (k % 4) + 1 = 4 /\ ((k + 1) % 4) + 1 = 1
    BY <1>7
  <2>2. xs[4] - xs[3] = -u1 /\ ys[1] - ys[4] = -v2 /\ ys[4] - ys[3] = -u2 /\ xs[1] - xs[4] = -v1
    BY <1>4
  <2> QED BY <1>2, <1>3, <1>7, <2>1, <2>2
<1>8. CASE k = 4
  <2>1. (k % 4) + 1 = 1 /\ ((k + 1) % 4) + 1 = 2
    BY <1>8
  <2>2. xs[1] - xs[4] = -v1 /\ ys[2] - ys[1] = u2 /\ ys[1] - ys[4] = -v2 /\ xs[2] - xs[1] = u1
    BY <1>4
  <2> QED BY <1>2, <1>3, <1>8, <2>1, <2>2
<1> QED BY <1>5, <1>6, <1>7, <1>8

PlaceX(t, i, j, anchor) == ApplyX(t, GetPixelCoord(i, j, anchor))
PlaceY(t, i, j, anchor) == ApplyY(t, GetPixelCoord(i, j, anchor))

(* From one pixel to the next the place moves by a column of the transform. *)
LEMMA NextPixel ==
  ASSUME NEW t \in GeoTransform, t.a0 \in Int, t.b0 \in Int, NEW i \in Int, NEW j \in Int, NEW anchor
  PROVE  /\ PlaceX(t, i, j, anchor) \in Int /\ PlaceY(t, i, j, anchor) \in Int
         /\ PlaceX(t, i + 1, j, anchor) = PlaceX(t, i, j, anchor) + t.a1 * One
         /\ PlaceX(t, i, j + 1, anchor) = PlaceX(t, i, j, anchor) + t.a2 * One
         /\ PlaceY(t, i + 1, j, anchor) = PlaceY(t, i, j, anchor) + t.b1 * One
         /\ PlaceY(t, i, j + 1, anchor) = PlaceY(t, i, j, anchor) + t.b2 * One
<1>1. t.a0 # NaN /\ t.b0 # NaN /\ t.a1 \in Int /\ t.a2 \in Int /\ t.b1 \in Int /\ t.b2 \in Int /\ One \in Int
  BY NaNAssumption, OneAssumption DEF GeoTransform
<1> DEFINE half == IF anchor = "area" THEN One \div 2 ELSE 0
<1>2. half \in Int
  BY OneAssumption
<1>3. \A p, q \in Int : /\ PlaceX(t, p, q, anchor) = t.a0 + t.a1 * (One * p + half) + t.a2 * (One * q + half)
                        /\ PlaceY(t, p, q, anchor) = t.b0 + t.b1 * (One * p + half) + t.b2 * (One * q + half)
  BY <1>1 DEF PlaceX, PlaceY, ApplyX, ApplyY, GetPixelCoord
<1> HIDE DEF half
<1>4. ASSUME NEW a \in Int, NEW p \in Int
      PROVE  /\ a * (One * p + half) \in Int
             /\ a * (One * (p + 1) + half) = a * (One * p + half) + a * One
  BY <1>1, <1>2
<1>5. PICK x1, y1, x2, y2 \in Int : x1 = t.a1 * One /\ x2 = t.a2 * One /\ y1 = t.b1 * One /\ y2 = t.b2 * One
  BY <1>1
<1>6. PICK x0, y0, x3, y3 \in Int :
        /\ x0 = t.a1 * (One * i + half) /\ y0 = t.b1 * (One * i + half)
        /\ x3 = t.a2 * (One * j + half) /\ y3 = t.b2 * (One * j + half)
  BY <1>1, <1>4
<1>7. /\ t.a1 * (One * (i + 1) + half) = x0 + x1 /\ t.b1 * (One * (i + 1) + half) = y0 + y1
      /\ t.a2 * (One * (j + 1) + half) = x3 + x2 /\ t.b2 * (One * (j + 1) + half) = y3 + y2
  BY <1>1, <1>4, <1>5, <1>6
<1>8. /\ PlaceX(t, i, j, anchor) = t.a0 + x0 + x3 /\ PlaceY(t, i, j, anchor) = t.b0 + y0 + y3
      /\ PlaceX(t, i + 1, j, anchor) = t.a0 + (x0 + x1) + x3
      /\ PlaceX(t, i, j + 1, anchor) = t.a0 + x0 + (x3 + x2)
      /\ PlaceY(t, i + 1, j, anchor) = t.b0 + (y0 + y1) + y3
      /\ PlaceY(t, i, j + 1, anchor) = t.b0 + y0 + (y3 + y2)
  BY <1>3, <1>6, <1>7
<1> QED BY <1>1, <1>5, <1>8

(* Two columns of a transform, scaled, turn the way of its determinant. *)
LEMMA ColumnsTurn ==
  ASSUME NEW t \in GeoTransform
  PROVE  /\ t.a1 * One \in Int /\ t.a2 * One \in Int /\ t.b1 * One \in Int /\ t.b2 * One \in Int
         /\ Determinant(t) > 0 => (t.a1 * One) * (t.b2 * One) - (t.b1 * One) * (t.a2 * One) > 0
         /\ Determinant(t) < 0 => (t.a2 * One) * (t.b1 * One) - (t.b2 * One) * (t.a1 * One) > 0
<1>1. t.a1 \in Int /\ t.a2 \in Int /\ t.b1 \in Int /\ t.b2 \in Int /\ One \in Nat /\ One > 0
  BY OneAssumption DEF GeoTransform
<1>2. ASSUME NEW a \in Int, NEW b \in Int PROVE (a * One) * (b * One) = (a * b) * (One * One)
  BY <1>1
<1>3. PICK m, n, s \in Int : m = t.a1 * t.b2 /\ n = t.a2 * t.b1 /\ s = One * One
  BY <1>1
<1>4. s > 0
  BY <1>1, <1>3
<1>5. /\ (t.a1 * One) * (t.b2 * One) = m * s /\ (t.b2 * One) * (t.a1 * One) = m * s
      /\ (t.b1 * One) * (t.a2 * One) = n * s /\ (t.a2 * One) * (t.b1 * One) = n * s
  <2>1. t.b2 * t.a1 = m /\ t.b1 * t.a2 = n
    BY <1>1, <1>3
  <2> QED BY <1>1, <1>2, <1>3, <2>1
<1>6. Determinant(t) = m - n
  BY <1>3 DEF Determinant
<1>7. (m > n => m * s - n * s > 0) /\ (m < n => n * s - m * s > 0)
  <2>1. m * s - n * s = (m - n) * s /\ n * s - m * s = (n - m) * s
    OBVIOUS
  <2>2. ASSUME NEW d \in Int, d > 0 PROVE d * s > 0
    BY <1>4, <2>2
  <2>3. m > n => (m - n) * s > 0
    BY <2>2
  <2>4. m < n => (n - m) * s > 0
    BY <2>2
  <2> QED BY <2>1, <2>3, <2>4
<1>8. t.a1 * One \in Int /\ t.a2 * One \in Int /\ t.b1 * One \in Int /\ t.b2 * One \in Int
  BY <1>1
<1> QED BY <1>5, <1>6, <1>7, <1>8

(* A quad of a grid keeps its place when its corners are numbered. *)
LEMMA CornersOfAQuad ==
  ASSUME NEW g, g.width \in Nat \ {0}, g.height \in Nat, NEW quad \in Quads(g)
  PROVE  LET n == quad[2] * g.width + quad[1]
         IN  /\ quad[1] \in Nat /\ quad[2] \in Nat
             /\ n % g.width = quad[1] /\ n \div g.width = quad[2]
             /\ (n + 1) % g.width = quad[1] + 1 /\ (n + 1) \div g.width = quad[2]
             /\ (n + g.width) % g.width = quad[1] /\ (n + g.width) \div g.width = quad[2] + 1
             /\ (n + g.width + 1) % g.width = quad[1] + 1 /\ (n + g.width + 1) \div g.width = quad[2] + 1
<1>1. PICK w \in Nat \ {0} : w = g.width
  OBVIOUS
<1>2. PICK i \in 0 .. w - 2, j \in 0 .. g.height - 2 : quad = <<i, j>>
  BY <1>1 DEF Quads
<1>3. i \in Nat /\ j \in Nat /\ i \in 0 .. w - 1 /\ i + 1 \in 0 .. w - 1
  BY <1>1, <1>2
<1>4. PICK m \in Nat : m = j * w
  BY <1>1, <1>3
<1>5. (j + 1) * w = m + w
  BY <1>1, <1>3, <1>4
<1>6. /\ j * w + i = m + i /\ j * w + (i + 1) = m + i + 1
      /\ (j + 1) * w + i = m + i + w /\ (j + 1) * w + (i + 1) = m + i + w + 1
  BY <1>1, <1>3, <1>4, <1>5
<1>7. /\ (m + i) % w = i /\ (m + i) \div w = j
      /\ (m + i + 1) % w = i + 1 /\ (m + i + 1) \div w = j
  <2>1. /\ (j * w + i) % w = i /\ (j * w + i) \div w = j
    BY <1>3, RowMajor
  <2>2. /\ (j * w + (i + 1)) % w = i + 1 /\ (j * w + (i + 1)) \div w = j
    BY <1>3, RowMajor
  <2> QED BY <1>6, <2>1, <2>2
<1>8. /\ (m + i + w) % w = i /\ (m + i + w) \div w = j + 1
      /\ (m + i + w + 1) % w = i + 1 /\ (m + i + w + 1) \div w = j + 1
  <2>1. j + 1 \in Nat
    BY <1>3
  <2>2. /\ ((j + 1) * w + i) % w = i /\ ((j + 1) * w + i) \div w = j + 1
    BY <1>1, <1>3, <2>1, RowMajor
  <2>3. /\ ((j + 1) * w + (i + 1)) % w = i + 1 /\ ((j + 1) * w + (i + 1)) \div w = j + 1
    BY <1>1, <1>3, <2>1, RowMajor
  <2> QED BY <1>6, <2>2, <2>3
<1>9. quad[1] = i /\ quad[2] = j /\ quad[2] * g.width = m
  BY <1>1, <1>2, <1>4
<1> QED BY <1>1, <1>3, <1>7, <1>8, <1>9

(* Each face turns to the left at each of its corners. *)
LEMMA FacesTurn ==
  ASSUME NEW t \in GeoTransform, t.a0 \in Int, t.b0 \in Int, Determinant(t) # 0, NEW anchor,
         NEW g, g.width \in Nat \ {0}, g.height \in Nat, NEW quad \in Quads(g), NEW k \in 1 .. 4
  PROVE  LET X(n) == PlaceX(t, n % g.width, n \div g.width, anchor)
             Y(n) == PlaceY(t, n % g.width, n \div g.width, anchor)
             face == FaceOf(t, g, quad)
             a == face[k]
             b == face[(k % 4) + 1]
             c == face[((k + 1) % 4) + 1]
         IN  (X(b) - X(a)) * (Y(c) - Y(b)) - (Y(b) - Y(a)) * (X(c) - X(b)) > 0
<1> DEFINE X(n) == PlaceX(t, n % g.width, n \div g.width, anchor)
           Y(n) == PlaceY(t, n % g.width, n \div g.width, anchor)
           first == quad[2] * g.width + quad[1]
           x == PlaceX(t, quad[1], quad[2], anchor)
           y == PlaceY(t, quad[1], quad[2], anchor)
<1>1. quad[1] \in Int /\ quad[2] \in Int /\ quad[1] + 1 \in Int /\ quad[2] + 1 \in Int
  BY CornersOfAQuad
<1>2. /\ x \in Int /\ y \in Int
      /\ X(first) = x /\ Y(first) = y
      /\ X(first + 1) = x + t.a1 * One /\ Y(first + 1) = y + t.b1 * One
      /\ X(first + g.width) = x + t.a2 * One /\ Y(first + g.width) = y + t.b2 * One
  BY <1>1, CornersOfAQuad, NextPixel
<1>3. /\ X(first + g.width + 1) = x + t.a2 * One + t.a1 * One
      /\ Y(first + g.width + 1) = y + t.b2 * One + t.b1 * One
  <2>1. /\ PlaceX(t, quad[1], quad[2] + 1, anchor) = x + t.a2 * One
        /\ PlaceY(t, quad[1], quad[2] + 1, anchor) = y + t.b2 * One
    BY <1>1, NextPixel
  <2>2. /\ PlaceX(t, quad[1] + 1, quad[2] + 1, anchor) = PlaceX(t, quad[1], quad[2] + 1, anchor) + t.a1 * One
        /\ PlaceY(t, quad[1] + 1, quad[2] + 1, anchor) = PlaceY(t, quad[1], quad[2] + 1, anchor) + t.b1 * One
    BY <1>1, NextPixel
  <2> QED BY <2>1, <2>2, CornersOfAQuad
<1> DEFINE a1 == t.a1 * One
           a2 == t.a2 * One
           b1 == t.b1 * One
           b2 == t.b2 * One
           w  == g.width
           face == FaceOf(t, g, quad)
           xs == <<X(face[1]), X(face[2]), X(face[3]), X(face[4])>>
           ys == <<Y(face[1]), Y(face[2]), Y(face[3]), Y(face[4])>>
<1>4. /\ a1 \in Int /\ a2 \in Int /\ b1 \in Int /\ b2 \in Int
      /\ Determinant(t) > 0 => a1 * b2 - b1 * a2 > 0
      /\ Determinant(t) < 0 => a2 * b1 - b2 * a1 > 0
      /\ Determinant(t) \in Int
  <2>1. Determinant(t) \in Int
    BY DEF Determinant, GeoTransform
  <2> QED BY <2>1, ColumnsTurn
<1>5. /\ Determinant(t) < 0 => face = <<first, first + w, first + w + 1, first + 1>>
      /\ ~(Determinant(t) < 0) => face = <<first, first + 1, first + w + 1, first + w>>
  BY DEF FaceOf
<1>6. first \in Int /\ w \in Int
  BY <1>1
<1>7. /\ X(first) = x /\ X(first + 1) = x + a1 /\ X(first + w) = x + a2 /\ X(first + w + 1) = x + a2 + a1
      /\ Y(first) = y /\ Y(first + 1) = y + b1 /\ Y(first + w) = y + b2 /\ Y(first + w + 1) = y + b2 + b1
  BY <1>2, <1>3
<1>8. x \in Int /\ y \in Int
  BY <1>2
<1>9. (k % 4) + 1 \in 1 .. 4 /\ ((k + 1) % 4) + 1 \in 1 .. 4
  BY SMT
<1> HIDE DEF X, Y, first, x, y, a1, a2, b1, b2, w, face
<1>10. Determinant(t) < 0 => /\ xs = <<x, x + a2, x + a2 + a1, x + a1>>
                             /\ ys = <<y, y + b2, y + b2 + b1, y + b1>>
  BY <1>5, <1>7
<1>11. ~(Determinant(t) < 0) => /\ xs = <<x, x + a1, x + a1 + a2, x + a2>>
                                /\ ys = <<y, y + b1, y + b1 + b2, y + b2>>
  <2>1. x + a2 + a1 = x + a1 + a2 /\ y + b2 + b1 = y + b1 + b2
    BY <1>4, <1>8
  <2> QED BY <1>5, <1>7, <2>1
<1>12. \A m \in 1 .. 4 : xs[m] = X(face[m]) /\ ys[m] = Y(face[m])
  OBVIOUS
<1> HIDE DEF xs, ys
<1> DEFINE b == (k % 4) + 1
           c == ((k + 1) % 4) + 1
<1>13. (xs[b] - xs[k]) * (ys[c] - ys[b]) - (ys[b] - ys[k]) * (xs[c] - xs[b]) > 0
  <2>1. CASE Determinant(t) < 0
    <3>1. a2 * b1 - b2 * a1 > 0
      BY <1>4, <2>1
    <3> HIDE DEF b, c
    <3> QED BY <1>4, <1>8, <1>10, <2>1, <3>1, Turns DEF b, c
  <2>2. CASE ~(Determinant(t) < 0)
    <3>1. a1 * b2 - b1 * a2 > 0
      BY <1>4, <2>2
    <3> HIDE DEF b, c
    <3> QED BY <1>4, <1>8, <1>11, <2>2, <3>1, Turns DEF b, c
  <2> QED BY <2>1, <2>2
<1>14. b \in 1 .. 4 /\ c \in 1 .. 4
  BY <1>9
<1>15. (X(face[b]) - X(face[k])) * (Y(face[c]) - Y(face[b]))
         - (Y(face[b]) - Y(face[k])) * (X(face[c]) - X(face[b])) > 0
  <2> HIDE DEF b, c
  <2> QED BY <1>12, <1>13, <1>14
<1> QED BY <1>15 DEF X, Y, face

-----------------------------------------------------------------------------
(***************************************************************************)
(* A mesh that was read: its faces point up.                               *)
(***************************************************************************)
(* A read that succeeds with a mesh: what the layer says, and what is known   *)
(* of it.                                                                     *)
LEMMA MeshIsAuthored ==
  ASSUME Collected, Knows, Next, result' = "succeeded", layer'.type = "Mesh"
  PROVE  /\ pc = "mesh" /\ UNCHANGED source /\ IsValid(metadata.bounds)
         /\ At("raster:width")' = metadata.width /\ At("raster:height")' = metadata.height
         /\ At("raster:geoTransform")' = metadata.geoTransform
         /\ At("raster:pixelAnchor")' = metadata.pixelAnchor
         /\ At("raster:selectedBand")' = arguments.band
         /\ At("points")' = TheMesh.points /\ At("faceVertexIndices")' = TheMesh.faces
         /\ At("geo:boundsMin")' = TheMesh.bounds.min /\ At("geo:boundsMax")' = TheMesh.bounds.max
         /\ At("geo:localOrigin")' = TheMesh.origin
         /\ At("raster:heightScale")' = arguments.heightScale
         /\ At("raster:noDataPolicy")' = arguments.noDataPolicy
         /\ arguments.noDataPolicy = "fill" => At("raster:fillValue")' = arguments.fillValue
<1> DEFINE all == layer'.attributes
<1>1. pc = "mesh" /\ UNCHANGED source /\ IsValid(metadata.bounds)
  BY SuccessIsAuthored
<1>2. /\ all["raster:width"] = metadata.width /\ all["raster:height"] = metadata.height
      /\ all["raster:geoTransform"] = metadata.geoTransform
      /\ all["raster:pixelAnchor"] = metadata.pixelAnchor
      /\ all["raster:selectedBand"] = arguments.band
  <2>1. \A name \in DOMAIN MetadataAttributes \ MeshNames : all[name] = MetadataAttributes[name]
    BY SuccessIsAuthored
  <2> HIDE DEF all
  <2> QED BY <2>1, MetadataSays DEF MeshNames
<1>3. /\ all["points"] = TheMesh.points /\ all["faceVertexIndices"] = TheMesh.faces
      /\ all["geo:boundsMin"] = TheMesh.bounds.min /\ all["geo:boundsMax"] = TheMesh.bounds.max
      /\ all["geo:localOrigin"] = TheMesh.origin
      /\ all["raster:heightScale"] = arguments.heightScale
      /\ all["raster:noDataPolicy"] = arguments.noDataPolicy
      /\ arguments.noDataPolicy = "fill" => all["raster:fillValue"] = arguments.fillValue
  <2>1. \A name \in DOMAIN MeshAttributes : all[name] = MeshAttributes[name]
    BY <1>1, SuccessIsAuthored
  <2> HIDE DEF all
  <2> QED BY <2>1, MeshSays DEF PlaceNames
<1> QED BY <1>1, <1>2, <1>3 DEF At

(* The types behind it, and the grid it is made of.                           *)
LEMMA MeshIsKnown ==
  ASSUME Collected, Knows, Next, result' = "succeeded", layer'.type = "Mesh"
  PROVE  /\ metadata.geoTransform \in GeoTransform /\ IsInvertible(metadata.geoTransform)
         /\ metadata.geoTransform.a0 \in Int /\ metadata.geoTransform.b0 \in Int
         /\ metadata.pixelAnchor \in {"area", "point"}
         /\ metadata.width \in Size /\ metadata.height \in Size
         /\ grid.width = metadata.width /\ grid.height = metadata.height
         /\ grid.width \in Nat \ {0} /\ grid.height \in Nat
         /\ arguments \in RasterArguments
<1>1. pc = "mesh" /\ IsValid(metadata.bounds)
  BY MeshIsAuthored
<1>2. /\ metadata.geoTransform \in GeoTransform /\ IsInvertible(metadata.geoTransform)
      /\ metadata.geoTransform.a0 \in Int /\ metadata.geoTransform.b0 \in Int
      /\ metadata.pixelAnchor \in {"area", "point"} /\ metadata \in MetadataWithBounds
      /\ supplied \in ArgumentSets /\ ArgumentsError(supplied) = "none" /\ arguments = Taken
  BY <1>1, AuthoredFacts
<1>3. grid = Delivered
  BY <1>1 DEF Knows, GridIsDelivered
<1>4. arguments \in RasterArguments
  BY <1>2, TakenSays
<1> QED BY <1>2, <1>3, <1>4 DEF MetadataWithBounds, Size, Delivered

(* Where the layer says a vertex lies is where its pixel lies. *)
LEMMA SourceIsThePlace ==
  ASSUME Collected, Knows, Next, result' = "succeeded", layer'.type = "Mesh"
  PROVE  \A n : /\ SourceX(n)' = PlaceX(metadata.geoTransform, n % grid.width, n \div grid.width,
                                       metadata.pixelAnchor)
               /\ SourceY(n)' = PlaceY(metadata.geoTransform, n % grid.width, n \div grid.width,
                                       metadata.pixelAnchor)
BY MeshIsAuthored, MeshIsKnown DEF SourceX, SourceY, PlaceX, PlaceY, Width

(* The faces a step leaves in the layer turn the way FacesTurn says. *)
LEMMA StepPointsUp ==
  ASSUME Collected, Knows, Next, result' = "succeeded"
  PROVE  FacesPointUp'
<1> SUFFICES ASSUME layer'.type = "Mesh" PROVE FacesPointUp'
  BY DEF FacesPointUp, MeshWasRead
<1> DEFINE t == metadata.geoTransform
           w == grid.width
           anchor == metadata.pixelAnchor
           X(n) == PlaceX(t, n % w, n \div w, anchor)
           Y(n) == PlaceY(t, n % w, n \div w, anchor)
<1>1. ASSUME NEW face \in TheMesh.faces, NEW k \in 1 .. 4
      PROVE  LET a == face[k]
                 b == face[(k % 4) + 1]
                 c == face[((k + 1) % 4) + 1]
             IN  (X(b) - X(a)) * (Y(c) - Y(b)) - (Y(b) - Y(a)) * (X(c) - X(b)) > 0
  <2>1. PICK quad \in Quads(grid) : face = FaceOf(t, grid, quad)
    BY DEF TheMesh, Mesh
  <2>2. grid.width \in Nat \ {0} /\ grid.height \in Nat
    BY MeshIsKnown
  <2>3. t \in GeoTransform /\ t.a0 \in Int /\ t.b0 \in Int /\ Determinant(t) # 0
    BY MeshIsKnown DEF IsInvertible
  <2> HIDE DEF t, anchor
  <2> QED BY <2>1, <2>2, <2>3, FacesTurn
<1>2. \A n : SourceX(n)' = X(n) /\ SourceY(n)' = Y(n)
  BY SourceIsThePlace
<1>3. At("faceVertexIndices")' = TheMesh.faces
  BY MeshIsAuthored
<1> HIDE DEF X, Y, t, w, anchor
<1> QED BY <1>1, <1>2, <1>3 DEF FacesPointUp

(* The faces stay what they are while nothing happens.                        *)
LEMMA StutteringKeepsFaces == ASSUME UNCHANGED vars PROVE FacesPointUp => FacesPointUp'
BY DEF FacesPointUp, MeshWasRead, SourceX, SourceY, At, Width, vars, source

(* Every face of a layer that was read is seen from above, whatever the       *)
(* transform (AuthorMesh's reverseWinding).                                   *)
THEOREM EveryFacePointsUp == Spec => []FacesPointUp
<1>1. Init => FacesPointUp
  BY DEF Init, FacesPointUp, MeshWasRead
<1>2. ReadInvariant /\ Knows /\ FacesPointUp /\ [Next]_vars => FacesPointUp'
  <2> SUFFICES ASSUME ReadInvariant, Knows, FacesPointUp, [Next]_vars, result' = "succeeded"
               PROVE  FacesPointUp'
    BY DEF FacesPointUp, MeshWasRead
  <2> QED BY StepPointsUp, StutteringKeepsFaces DEF ReadInvariant
<1> QED BY <1>1, <1>2, ReadIsInvariant, ReadKnows, PTL DEF Spec

-----------------------------------------------------------------------------
(***************************************************************************)
(* NoData carries no elevation.                                            *)
(***************************************************************************)
(* A number below the count of pixels is the place of one. *)
LEMMA PlaceIsACell ==
  ASSUME NEW w \in Nat \ {0}, NEW h \in Nat, NEW n \in 0 .. w * h - 1
  PROVE  n % w \in 0 .. w - 1 /\ n \div w \in 0 .. h - 1
<1>1. w * h \in Nat
  OBVIOUS
<1>2. n \in Nat /\ n < w * h
  BY <1>1
<1>3. n \div w \in Nat /\ n % w \in 0 .. w - 1 /\ n = w * (n \div w) + (n % w)
  <2>1. ASSUME NEW m \in Nat PROVE m \div w \in Nat /\ m % w \in 0 .. w - 1 /\ m = w * (m \div w) + (m % w)
    BY SMT
  <2> QED BY <1>2, <2>1
<1>4. PICK q \in Nat : q = n \div w
  BY <1>3
<1>5. w * q <= n /\ n < w * h
  BY <1>2, <1>3, <1>4
<1>6. q >= h => w * q >= w * h
  <2>1. w * q = w * h + w * (q - h)
    OBVIOUS
  <2>2. q >= h => w * (q - h) >= 0
    BY SMT
  <2>3. w * (q - h) \in Int
    OBVIOUS
  <2> QED BY <1>1, <2>1, <2>2, <2>3
<1>7. q < h
  BY <1>1, <1>2, <1>5, <1>6
<1> QED BY <1>3, <1>4, <1>7

(* A pixel that stores NoData is NoData in the grid, when its band is         *)
(* delivered as it is stored.                                                 *)
LEMMA HolesAreNoData ==
  ASSUME Knows, pc = "mesh", asset \in Contents, Band.scale = {}, Band.offset = {},
         \A value \in Band.noData : ToFloat(value) = value,
         NEW n \in 0 .. metadata.width * metadata.height - 1,
         Matches(Band.noData, asset.raw[arguments.band][<<n % metadata.width, n \div metadata.width>>])
  PROVE  IsNoData(grid, <<n % metadata.width, n \div metadata.width>>)
<1> DEFINE cell == <<n % metadata.width, n \div metadata.width>>
           value == asset.raw[arguments.band][cell]
<1>1. metadata \in MetadataWithBounds /\ grid = Delivered
  BY DEF Knows, MetadataIsRead, GridIsDelivered, Checked
<1>2. cell \in Pixels(metadata)
  <2>1. metadata.width \in Nat \ {0} /\ metadata.height \in Nat
    BY <1>1 DEF MetadataWithBounds, Size
  <2> QED BY <2>1, PlaceIsACell DEF Pixels
<1>3. grid.noData = Band.noData
      /\ grid.sample[cell] = ConvertSample(ApplyScaleAndOffset(value, Band.scale, Band.offset), "float32")
  <2> HIDE DEF cell
  <2> QED BY <1>1, <1>2 DEF Delivered, value
<1>4. value \in Band.noData
  BY DEF Matches
<1> HIDE DEF value
<1>5. ApplyScaleAndOffset(value, Band.scale, Band.offset) = value
  BY DEF ApplyScaleAndOffset
<1>6. ConvertSample(value, "float32") = ToFloat(value)
  BY DEF ConvertSample, IntegerTypes, SignedTypes, UnsignedTypes
<1>7. grid.sample[cell] = value
  BY <1>3, <1>4, <1>5, <1>6
<1> QED BY <1>3, <1>4, <1>7 DEF IsNoData, Matches

(* No face touches NoData that is skipped. *)
LEMMA FacesAvoidNoData ==
  ASSUME NEW g, g.width \in Nat \ {0}, g.height \in Nat, NEW quad \in Quads(g), NEW options,
         options.noDataPolicy = "skip", HasFace(g, quad, options), NEW t, NEW k \in 1 .. 4
  PROVE  LET n == FaceOf(t, g, quad)[k]
         IN  ~IsNoData(g, <<n % g.width, n \div g.width>>)
<1> DEFINE first == quad[2] * g.width + quad[1]
           n == FaceOf(t, g, quad)[k]
<1>1. n \in {first, first + 1, first + g.width, first + g.width + 1}
  <2> HIDE DEF first
  <2> QED BY DEF FaceOf, first
<1>2. <<n % g.width, n \div g.width>> \in CornersOf(quad)
  <2>1. /\ <<first % g.width, first \div g.width>> \in CornersOf(quad)
        /\ <<(first + 1) % g.width, (first + 1) \div g.width>> \in CornersOf(quad)
        /\ <<(first + g.width) % g.width, (first + g.width) \div g.width>> \in CornersOf(quad)
        /\ <<(first + g.width + 1) % g.width, (first + g.width + 1) \div g.width>> \in CornersOf(quad)
    BY CornersOfAQuad DEF CornersOf
  <2> HIDE DEF first, n
  <2> QED BY <1>1, <2>1
<1> HIDE DEF n
<1> QED BY <1>2 DEF HasFace, n

(* A point of NoData that is filled lies at the fill value. *)
LEMMA FilledPoints ==
  ASSUME pc = "mesh", arguments.noDataPolicy = "fill", arguments.fillValue \in Int, arguments.heightScale \in Int,
         NEW n \in DOMAIN TheMesh.points, IsNoData(grid, <<n % grid.width, n \div grid.width>>)
  PROVE  TheMesh.points[n].y = ToFloat(arguments.heightScale * arguments.fillValue - TheMesh.origin.z)
<1> DEFINE cell == <<n % grid.width, n \div grid.width>>
           position == Position(metadata, grid, cell, MeshOptions)
<1>1. TheMesh.points[n] = StagePoint(position, TheMesh.origin)
  BY DEF TheMesh, Mesh
<1>2. TheMesh.points[n].y = IF position.z = NaN THEN NaN ELSE ToFloat(position.z - TheMesh.origin.z)
  <2> HIDE DEF position
  <2> QED BY <1>1 DEF StagePoint
<1>3. position.z = Elevation(grid, cell, MeshOptions)
  BY DEF Position
<1> HIDE DEF position, cell
<1>4. arguments.fillValue # NaN
  BY NaNAssumption
<1>5. Elevation(grid, cell, MeshOptions) = arguments.heightScale * arguments.fillValue + 0
  BY <1>4 DEF Elevation, MeshOptions, cell
<1>6. arguments.heightScale * arguments.fillValue \in Int
  OBVIOUS
<1>7. position.z = arguments.heightScale * arguments.fillValue /\ position.z # NaN
  BY <1>3, <1>5, <1>6, NaNAssumption
<1> QED BY <1>2, <1>7

(* The mesh a step leaves in the layer shows no NoData. *)
LEMMA StepShowsNoHole ==
  ASSUME AssetIsThere, Collected, Knows, Next, result' = "succeeded"
  PROVE  NoDataCarriesNoElevation'
<1> SUFFICES ASSUME layer'.type = "Mesh", DeliveredAsStored(asset)'
             PROVE  ~Showing(HolesOf(asset))'
  BY DEF NoDataCarriesNoElevation, MeshWasRead
<1>1. pc = "mesh" /\ asset' = asset /\ asset \in Contents
  BY MeshIsAuthored DEF AssetIsThere, source
<1>2. /\ metadata.width \in Nat \ {0} /\ metadata.height \in Nat
      /\ grid.width = metadata.width /\ grid.height = metadata.height
      /\ arguments \in RasterArguments
  BY MeshIsKnown DEF Size
<1>3. /\ Band.scale = {} /\ Band.offset = {} /\ \A value \in Band.noData : ToFloat(value) = value
  BY <1>1, MeshIsAuthored DEF DeliveredAsStored, Band
<1> DEFINE w == metadata.width
           h == metadata.height
           holes == {n \in 0 .. w * h - 1 : Matches(Band.noData, asset.raw[arguments.band][<<n % w, n \div w>>])}
<1>4. HolesOf(asset)' = holes
  BY <1>1, MeshIsAuthored DEF HolesOf, Width, Height, Band
<1>5. \A n \in holes : IsNoData(grid, <<n % grid.width, n \div grid.width>>)
  BY <1>1, <1>2, <1>3, HolesAreNoData
<1>6. CASE arguments.noDataPolicy = "skip"
  <2>1. ASSUME NEW face \in TheMesh.faces, NEW k \in 1 .. 4 PROVE face[k] \notin holes
    <3>1. PICK quad \in Quads(grid) :
            face = FaceOf(metadata.geoTransform, grid, quad) /\ HasFace(grid, quad, MeshOptions)
      BY DEF TheMesh, Mesh
    <3>2. MeshOptions.noDataPolicy = "skip" /\ grid.width \in Nat \ {0} /\ grid.height \in Nat
      BY <1>2, <1>6 DEF MeshOptions
    <3>3. ~IsNoData(grid, <<face[k] % grid.width, face[k] \div grid.width>>)
      BY <3>1, <3>2, FacesAvoidNoData
    <3> HIDE DEF holes
    <3> QED BY <1>5, <3>3
  <2>2. At("faceVertexIndices")' = TheMesh.faces /\ At("raster:noDataPolicy")' = "skip"
    BY <1>6, MeshIsAuthored
  <2> HIDE DEF holes
  <2> QED BY <1>4, <2>1, <2>2 DEF Showing
<1>7. CASE arguments.noDataPolicy = "fill"
  <2>1. ASSUME NEW n \in holes
        PROVE  TheMesh.points[n].y = ToFloat(arguments.heightScale * arguments.fillValue - TheMesh.origin.z)
    <3>1. n \in DOMAIN TheMesh.points
      BY <1>2 DEF TheMesh, Mesh
    <3>2. arguments.heightScale \in Int /\ arguments.fillValue \in Int
      BY <1>2 DEF RasterArguments
    <3>3. IsNoData(grid, <<n % grid.width, n \div grid.width>>)
      BY <1>5
    <3> HIDE DEF holes
    <3> QED BY <1>1, <1>7, <3>1, <3>2, <3>3, FilledPoints
  <2>2. /\ At("points")' = TheMesh.points /\ At("raster:noDataPolicy")' = "fill"
        /\ At("raster:heightScale")' = arguments.heightScale /\ At("raster:fillValue")' = arguments.fillValue
        /\ At("geo:localOrigin")' = TheMesh.origin
    BY <1>7, MeshIsAuthored
  <2> HIDE DEF holes
  <2> QED BY <1>4, <2>1, <2>2 DEF Showing
<1>8. CASE arguments.noDataPolicy = "keep"
  <2>1. At("raster:noDataPolicy")' = "keep"
    BY <1>8, MeshIsAuthored
  <2> QED BY <2>1 DEF Showing
<1> QED BY <1>2, <1>6, <1>7, <1>8 DEF RasterArguments

(* No NoData appears while nothing happens.                                   *)
LEMMA StutteringKeepsHoles == ASSUME UNCHANGED vars PROVE NoDataCarriesNoElevation => NoDataCarriesNoElevation'
BY DEF NoDataCarriesNoElevation, MeshWasRead, DeliveredAsStored, Showing, HolesOf, At, Width, Height, vars, source

(* A pixel that stores NoData shows nowhere in the mesh, or as high as the    *)
(* fill value (NoDataValue::Matches, AuthorMesh).                             *)
THEOREM HolesCarryNoElevation == Spec => []NoDataCarriesNoElevation
<1>1. Init => NoDataCarriesNoElevation
  BY DEF Init, NoDataCarriesNoElevation, MeshWasRead
<1>2. ReadInvariant /\ Knows /\ NoDataCarriesNoElevation /\ [Next]_vars => NoDataCarriesNoElevation'
  <2> SUFFICES ASSUME ReadInvariant, Knows, NoDataCarriesNoElevation, [Next]_vars, result' = "succeeded"
               PROVE  NoDataCarriesNoElevation'
    BY DEF NoDataCarriesNoElevation, MeshWasRead
  <2> QED BY StepShowsNoHole, StutteringKeepsHoles DEF ReadInvariant
<1> QED BY <1>1, <1>2, ReadIsInvariant, ReadKnows, PTL DEF Spec

-----------------------------------------------------------------------------
(***************************************************************************)
(* The place of a pixel gives the pixel back.                              *)
(***************************************************************************)
(* A number and a half of whole units, in halves: its whole part. *)
LEMMA FloorOfAHalfMore ==
  ASSUME NEW d \in Int \ {0}, NEW i \in Nat
  PROVE  FloorOf(2 * One * d * i + One * d, 2 * One * d) = i
<1>1. One \in Nat /\ One > 0
  BY OneAssumption
<1>2. ASSUME NEW m \in Nat, m > 0
      PROVE  /\ 2 * One * m \in Nat \ {0} /\ One * m \in 0 .. 2 * One * m - 1
             /\ (2 * One * m * i + One * m) \div (2 * One * m) = i
  <2>1. PICK h \in Nat : h = One * m
    BY <1>1
  <2>2. h > 0
    BY <1>1, <1>2, <2>1
  <2>3. 2 * One * m = 2 * h
    BY <1>1, <2>1
  <2>4. 2 * h \in Nat \ {0} /\ h \in 0 .. 2 * h - 1
    BY <2>2
  <2>5. (i * (2 * h) + h) \div (2 * h) = i
    BY <2>4, RowMajor
  <2>6. i * (2 * h) = 2 * h * i
    OBVIOUS
  <2> QED BY <2>1, <2>3, <2>4, <2>5, <2>6
<1>3. CASE d > 0
  <2>1. d \in Nat
    BY <1>3
  <2>2. 2 * One * d > 0
    BY <1>2, <1>3, <2>1
  <2> QED BY <1>2, <1>3, <2>1, <2>2 DEF FloorOf
<1>4. CASE d < 0
  <2>1. PICK m \in Nat : m = -d /\ m > 0
    BY <1>4
  <2>2. PICK p \in Int : p = One * m
    BY <1>1
  <2>3. One * d = -p /\ 2 * One * d = -(2 * p) /\ 2 * One * m = 2 * p
    BY <1>1, <2>1, <2>2
  <2>4. 2 * One * d * i = -(2 * p * i)
    BY <2>3
  <2>5. 2 * p > 0
    BY <1>2, <2>1, <2>3
  <2>6. -(2 * One * d * i + One * d) = 2 * p * i + p /\ -(2 * One * d) = 2 * p
    <3>1. PICK r \in Int : r = 2 * p * i
      OBVIOUS
    <3> QED BY <2>3, <2>4, <3>1
  <2>7. (2 * p * i + p) \div (2 * p) = i
    BY <1>2, <2>1, <2>2, <2>3
  <2>8. ~(2 * One * d > 0)
    BY <2>3, <2>5
  <2> QED BY <2>6, <2>7, <2>8 DEF FloorOf
<1> QED BY <1>3, <1>4

(* The inverse takes a displacement back to the pixel it is of. *)
LEMMA InverseOfADisplacement ==
  ASSUME NEW t \in GeoTransform, NEW px \in Int, NEW py \in Int
  PROVE  LET dx == t.a1 * px + t.a2 * py
             dy == t.b1 * px + t.b2 * py
         IN  /\ dx \in Int /\ dy \in Int
             /\ t.b2 * dx - t.a2 * dy = Determinant(t) * px
             /\ t.a1 * dy - t.b1 * dx = Determinant(t) * py
<1>1. t.a1 \in Int /\ t.a2 \in Int /\ t.b1 \in Int /\ t.b2 \in Int
  BY DEF GeoTransform
<1>2. ASSUME NEW a1 \in Int, NEW a2 \in Int, NEW b1 \in Int, NEW b2 \in Int
      PROVE  /\ b2 * (a1 * px + a2 * py) - a2 * (b1 * px + b2 * py) = (a1 * b2 - a2 * b1) * px
             /\ a1 * (b1 * px + b2 * py) - b1 * (a1 * px + a2 * py) = (a1 * b2 - a2 * b1) * py
  OBVIOUS
<1>3. t.a1 * px + t.a2 * py \in Int /\ t.b1 * px + t.b2 * py \in Int
  BY <1>1
<1> QED BY <1>1, <1>2, <1>3 DEF Determinant

(* The place of a pixel gives the pixel back. *)
LEMMA PlaceGivesItsPixel ==
  ASSUME NEW t \in GeoTransform, t.a0 \in Int, t.b0 \in Int, IsInvertible(t), NEW anchor \in {"area", "point"},
         NEW size, size.width \in Nat, size.height \in Nat,
         NEW i \in 0 .. size.width - 1, NEW j \in 0 .. size.height - 1
  PROVE  TrySourceToPixel(t, PlaceX(t, i, j, anchor), PlaceY(t, i, j, anchor), anchor, size) = {[i |-> i, j |-> j]}
<1> DEFINE half == IF anchor = "area" THEN One \div 2 ELSE 0
           px == One * i + half
           py == One * j + half
           dx == t.a1 * px + t.a2 * py
           dy == t.b1 * px + t.b2 * py
           x == PlaceX(t, i, j, anchor)
           y == PlaceY(t, i, j, anchor)
           d == Determinant(t)
           shift == IF anchor = "area" THEN 0 ELSE One * d
<1>1. /\ t.a0 # NaN /\ t.b0 # NaN /\ t.a1 \in Int /\ t.a2 \in Int /\ t.b1 \in Int /\ t.b2 \in Int
      /\ One \in Nat /\ i \in Nat /\ j \in Nat
  BY NaNAssumption, OneAssumption DEF GeoTransform
<1>2. half \in Int /\ px \in Int /\ py \in Int
  <2>1. half \in Int
    BY OneAssumption
  <2> HIDE DEF half
  <2> QED BY <1>1, <2>1
<1>3. d \in Int \ {0}
  BY <1>1 DEF IsInvertible, Determinant
<1>4. x = t.a0 + t.a1 * px + t.a2 * py /\ y = t.b0 + t.b1 * px + t.b2 * py
  BY <1>1 DEF PlaceX, PlaceY, ApplyX, ApplyY, GetPixelCoord
<1>5. x - t.a0 = dx /\ y - t.b0 = dy
  <2> HIDE DEF x, y, px, py
  <2>1. PICK m, n \in Int : m = t.a1 * px /\ n = t.a2 * py
    BY <1>1, <1>2
  <2>2. PICK p, q \in Int : p = t.b1 * px /\ q = t.b2 * py
    BY <1>1, <1>2
  <2> QED BY <1>1, <1>4, <2>1, <2>2
<1>6. t.b2 * dx - t.a2 * dy = d * px /\ t.a1 * dy - t.b1 * dx = d * py
  <2> HIDE DEF px, py
  <2> QED BY <1>2, InverseOfADisplacement
<1>7. 2 * half * d + shift = One * d
  <2> HIDE DEF d
  <2>1. CASE anchor = "area"
    <3>1. 2 * half = One /\ shift = 0
      BY <2>1, OneAssumption
    <3> HIDE DEF half, shift
    <3> QED BY <1>1, <1>3, <3>1
  <2>2. CASE anchor = "point"
    <3>1. half = 0 /\ shift = One * d
      BY <2>2
    <3> HIDE DEF half, shift
    <3> QED BY <1>1, <1>3, <3>1
  <2> QED BY <2>1, <2>2
<1>8. ASSUME NEW k \in Nat PROVE 2 * (d * (One * k + half)) + shift = 2 * One * d * k + One * d
  <2>1. shift \in Int
    BY <1>1, <1>3
  <2> HIDE DEF half, shift, d
  <2>2. PICK e \in Int : e = d
    BY <1>3
  <2>3. 2 * (e * (One * k + half)) = 2 * One * e * k + 2 * half * e
    BY <1>1, <1>2
  <2>4. PICK m, n \in Int : m = 2 * One * e * k /\ n = 2 * half * e
    BY <1>1, <1>2
  <2>5. n + shift = One * e
    BY <1>7, <2>2, <2>4
  <2> QED BY <2>1, <2>2, <2>3, <2>4, <2>5
<1>9. /\ FloorOf(2 * (t.b2 * dx - t.a2 * dy) + shift, 2 * One * d) = i
      /\ FloorOf(2 * (t.a1 * dy - t.b1 * dx) + shift, 2 * One * d) = j
  <2>1. /\ 2 * (d * px) + shift = 2 * One * d * i + One * d
        /\ 2 * (d * py) + shift = 2 * One * d * j + One * d
    BY <1>1, <1>8
  <2> HIDE DEF dx, dy, px, py, d, shift
  <2> QED BY <1>1, <1>3, <1>6, <2>1, FloorOfAHalfMore
<1>10. TrySourceToPixel(t, x, y, anchor, size) =
         LET m == FloorOf(2 * (t.b2 * (x - t.a0) - t.a2 * (y - t.b0)) + shift, 2 * One * d)
             n == FloorOf(2 * (t.a1 * (y - t.b0) - t.b1 * (x - t.a0)) + shift, 2 * One * d)
         IN  IF anchor # "unknown" /\ IsInvertible(t) /\ m \in 0 .. size.width - 1 /\ n \in 0 .. size.height - 1
               THEN {[i |-> m, j |-> n]}
               ELSE {}
  <2> HIDE DEF x, y
  <2> QED BY DEF TrySourceToPixel
<1> HIDE DEF x, y, dx, dy, d, shift
<1> QED BY <1>5, <1>9, <1>10 DEF x, y

(* The points a step leaves in the layer are those of its pixels. *)
LEMMA StepGivesPixels ==
  ASSUME Collected, Knows, Next, result' = "succeeded"
  PROVE  PlacesGiveTheirPixel'
<1> SUFFICES ASSUME layer'.type = "Mesh" PROVE PlacesGiveTheirPixel'
  BY DEF PlacesGiveTheirPixel, MeshWasRead
<1> DEFINE t == metadata.geoTransform
           w == grid.width
           h == grid.height
           anchor == metadata.pixelAnchor
<1>1. /\ t \in GeoTransform /\ IsInvertible(t) /\ t.a0 \in Int /\ t.b0 \in Int /\ anchor \in {"area", "point"}
      /\ w \in Nat \ {0} /\ h \in Nat
  BY MeshIsKnown
<1>2. DOMAIN TheMesh.points = 0 .. w * h - 1
  BY DEF TheMesh, Mesh
<1>3. ASSUME NEW n \in 0 .. w * h - 1
      PROVE  TrySourceToPixel(t, PlaceX(t, n % w, n \div w, anchor), PlaceY(t, n % w, n \div w, anchor), anchor,
                              [width |-> w, height |-> h]) = {[i |-> n % w, j |-> n \div w]}
  <2> HIDE DEF t, w, h, anchor
  <2>1. n % w \in 0 .. w - 1 /\ n \div w \in 0 .. h - 1
    BY <1>1, PlaceIsACell
  <2> QED BY <1>1, <2>1, PlaceGivesItsPixel
<1>4. \A n : SourceX(n)' = PlaceX(t, n % w, n \div w, anchor) /\ SourceY(n)' = PlaceY(t, n % w, n \div w, anchor)
  BY SourceIsThePlace
<1>5. /\ At("points")' = TheMesh.points /\ Width' = w /\ Height' = h
      /\ At("raster:geoTransform")' = t /\ At("raster:pixelAnchor")' = anchor
  BY MeshIsAuthored, MeshIsKnown DEF Width, Height
<1> HIDE DEF t, w, h, anchor
<1> QED BY <1>2, <1>3, <1>4, <1>5 DEF PlacesGiveTheirPixel

(* The points stay what they are while nothing happens.                       *)
LEMMA StutteringKeepsPlaces == ASSUME UNCHANGED vars PROVE PlacesGiveTheirPixel => PlacesGiveTheirPixel'
BY DEF PlacesGiveTheirPixel, MeshWasRead, SourceX, SourceY, At, Width, Height, vars, source

(* Every point of a mesh is that of a pixel, and its place in the source      *)
(* gives the pixel back (AuthorMesh, TrySourceToPixel).                       *)
THEOREM EveryPlaceGivesItsPixel == Spec => []PlacesGiveTheirPixel
<1>1. Init => PlacesGiveTheirPixel
  BY DEF Init, PlacesGiveTheirPixel, MeshWasRead
<1>2. ReadInvariant /\ Knows /\ PlacesGiveTheirPixel /\ [Next]_vars => PlacesGiveTheirPixel'
  <2> SUFFICES ASSUME ReadInvariant, Knows, PlacesGiveTheirPixel, [Next]_vars, result' = "succeeded"
               PROVE  PlacesGiveTheirPixel'
    BY DEF PlacesGiveTheirPixel, MeshWasRead
  <2> QED BY StepGivesPixels, StutteringKeepsPlaces DEF ReadInvariant
<1> QED BY <1>1, <1>2, ReadIsInvariant, ReadKnows, PTL DEF Spec

-----------------------------------------------------------------------------
(***************************************************************************)
(* The vertices of a face lie in the bounds.                               *)
(***************************************************************************)
(* A product is least, and greatest, at an end of the range of a factor. *)
LEMMA ProductsPeakAtAnEnd ==
  ASSUME NEW a \in Int, NEW r \in Nat, NEW p \in 0 .. r
  PROVE  /\ \E e \in {0, r} : a * e <= a * p
         /\ \E e \in {0, r} : a * p <= a * e
<1>1. p \in Nat /\ r - p \in Nat
  OBVIOUS
<1>2. PICK m, n \in Int : m = a * p /\ n = a * r
  OBVIOUS
<1>3. a * (r - p) = n - m
  BY <1>1, <1>2
<1>4. CASE a >= 0
  <2>1. m >= 0 /\ n - m >= 0
    BY <1>1, <1>2, <1>3, <1>4
  <2>2. a * 0 = 0 /\ a * 0 <= a * p /\ a * p <= a * r
    BY <1>2, <2>1
  <2> QED BY <2>2
<1>5. CASE a <= 0
  <2>1. ASSUME NEW q \in Nat PROVE a * q <= 0
    BY <1>5
  <2>2. m <= 0 /\ n - m <= 0
    BY <1>1, <1>2, <1>3, <2>1
  <2>3. a * 0 = 0 /\ a * r <= a * p /\ a * p <= a * 0
    BY <1>2, <2>2
  <2> QED BY <2>3
<1> QED BY <1>4, <1>5

(* A point on the ground that is among the corners, or between them, lies in  *)
(* the bounds of the raster.                                                  *)
LEMMA WindowBoundsHold ==
  ASSUME NEW t \in GeoTransform, t.a0 \in Int, t.b0 \in Int,
         NEW size, size.width \in Size, size.height \in Size, NEW anchor,
         NEW right \in Nat, right = One * (size.width - (IF anchor = "area" THEN 0 ELSE 1)),
         NEW bottom \in Nat, bottom = One * (size.height - (IF anchor = "area" THEN 0 ELSE 1)),
         NEW px \in 0 .. right, NEW py \in 0 .. bottom
  PROVE  LET bounds == TryGetWindowBounds(t, size, anchor)
             x == ApplyX(t, [px |-> px, py |-> py])
             y == ApplyY(t, [px |-> px, py |-> py])
         IN  /\ bounds.min.x <= x /\ x <= bounds.max.x
             /\ bounds.min.y <= y /\ y <= bounds.max.y
<1> DEFINE X(p, q) == ApplyX(t, [px |-> p, py |-> q])
           Y(p, q) == ApplyY(t, [px |-> p, py |-> q])
           corner(p, q) == [x |-> X(p, q), y |-> Y(p, q), z |-> 0]
           e0 == EmptyBounds
           e1 == Expand(e0, corner(0, 0))
           e2 == Expand(e1, corner(right, 0))
           e3 == Expand(e2, corner(right, bottom))
           e4 == Expand(e3, corner(0, bottom))
<1>1. TryGetWindowBounds(t, size, anchor) = e4
  BY DEF TryGetWindowBounds
<1>2. e0 \in Bounds
  BY InfinityAssumption DEF EmptyBounds, Bounds, Point
<1>3. t.a0 # NaN /\ t.b0 # NaN
  BY NaNAssumption
<1>4. ASSUME NEW p \in Int, NEW q \in Int
      PROVE  /\ X(p, q) = t.a0 + t.a1 * p + t.a2 * q /\ Y(p, q) = t.b0 + t.b1 * p + t.b2 * q
             /\ X(p, q) \in Int /\ Y(p, q) \in Int
  <2>1. t.a1 \in Int /\ t.a2 \in Int /\ t.b1 \in Int /\ t.b2 \in Int
    BY DEF GeoTransform
  <2> QED BY <1>3, <2>1, CornerIsAPoint
<1> HIDE DEF X, Y, e0
<1>5. ASSUME NEW b \in Bounds, NEW p \in Int, NEW q \in Int
      PROVE  LET e == Expand(b, corner(p, q))
             IN  /\ e \in Bounds
                 /\ e.min.x <= b.min.x /\ e.min.x <= X(p, q) /\ b.max.x <= e.max.x /\ X(p, q) <= e.max.x
                 /\ e.min.y <= b.min.y /\ e.min.y <= Y(p, q) /\ b.max.y <= e.max.y /\ Y(p, q) <= e.max.y
  <2>1. X(p, q) \in Int /\ Y(p, q) \in Int
    BY <1>4
  <2>2. X(p, q) \in Number /\ Y(p, q) \in Number /\ X(p, q) # NaN /\ Y(p, q) # NaN
    BY <2>1, NaNAssumption DEF Number
  <2> QED BY <2>2, ExpandedBounds
<1>6. /\ e1 \in Bounds
      /\ e1.min.x <= X(0, 0) /\ X(0, 0) <= e1.max.x /\ e1.min.y <= Y(0, 0) /\ Y(0, 0) <= e1.max.y
  BY <1>2, <1>5
<1> HIDE DEF e1
<1>7. /\ e2 \in Bounds
      /\ e2.min.x <= e1.min.x /\ e1.max.x <= e2.max.x /\ e2.min.y <= e1.min.y /\ e1.max.y <= e2.max.y
      /\ e2.min.x <= X(right, 0) /\ X(right, 0) <= e2.max.x /\ e2.min.y <= Y(right, 0) /\ Y(right, 0) <= e2.max.y
  BY <1>5, <1>6
<1> HIDE DEF e2
<1>8. /\ e3 \in Bounds
      /\ e3.min.x <= e2.min.x /\ e2.max.x <= e3.max.x /\ e3.min.y <= e2.min.y /\ e2.max.y <= e3.max.y
      /\ e3.min.x <= X(right, bottom) /\ X(right, bottom) <= e3.max.x
      /\ e3.min.y <= Y(right, bottom) /\ Y(right, bottom) <= e3.max.y
  BY <1>5, <1>7
<1> HIDE DEF e3
<1>9. /\ e4 \in Bounds
      /\ e4.min.x <= e3.min.x /\ e3.max.x <= e4.max.x /\ e4.min.y <= e3.min.y /\ e3.max.y <= e4.max.y
      /\ e4.min.x <= X(0, bottom) /\ X(0, bottom) <= e4.max.x
      /\ e4.min.y <= Y(0, bottom) /\ Y(0, bottom) <= e4.max.y
  BY <1>5, <1>8
<1> HIDE DEF e4
<1>10. ASSUME NEW p \in {0, right}, NEW q \in {0, bottom}
       PROVE  /\ e4.min.x <= X(p, q) /\ X(p, q) <= e4.max.x
              /\ e4.min.y <= Y(p, q) /\ Y(p, q) <= e4.max.y
  <2>1. p \in Int /\ q \in Int
    OBVIOUS
  <2>2. X(p, q) \in Int /\ Y(p, q) \in Int
    BY <1>4, <2>1
  <2>3. \A b \in {e1, e2, e3, e4} : b.min.x \in Int /\ b.min.y \in Int /\ b.max.x \in Int /\ b.max.y \in Int
    BY <1>6, <1>7, <1>8, <1>9 DEF Bounds, Point
  <2>4. CASE p = 0 /\ q = 0
    BY <1>6, <1>7, <1>8, <1>9, <2>2, <2>3, <2>4
  <2>5. CASE p = right /\ q = 0
    BY <1>7, <1>8, <1>9, <2>2, <2>3, <2>5
  <2>6. CASE p = right /\ q = bottom
    BY <1>8, <1>9, <2>2, <2>3, <2>6
  <2>7. CASE p = 0 /\ q = bottom
    BY <1>9, <2>7
  <2> QED BY <2>4, <2>5, <2>6, <2>7
<1>11. e4.min.x \in Int /\ e4.min.y \in Int /\ e4.max.x \in Int /\ e4.max.y \in Int
  BY <1>9 DEF Bounds, Point
<1>12. ASSUME NEW c \in Int, NEW a \in Int, NEW b \in Int
       PROVE  /\ \E p \in {0, right}, q \in {0, bottom} : c + a * p + b * q <= c + a * px + b * py
              /\ \E p \in {0, right}, q \in {0, bottom} : c + a * px + b * py <= c + a * p + b * q
  <2>1. PICK m, n \in Int : m = a * px /\ n = b * py
    OBVIOUS
  <2>2. \A p, q \in Int : a * p \in Int /\ b * q \in Int
    OBVIOUS
  <2>3. PICK p1 \in {0, right}, q1 \in {0, bottom} : a * p1 <= m /\ b * q1 <= n
    BY <2>1, ProductsPeakAtAnEnd
  <2>4. PICK p2 \in {0, right}, q2 \in {0, bottom} : m <= a * p2 /\ n <= b * q2
    BY <2>1, ProductsPeakAtAnEnd
  <2>5. c + a * p1 + b * q1 <= c + m + n
    <3>1. PICK u, v \in Int : u = a * p1 /\ v = b * q1
      OBVIOUS
    <3> QED BY <2>3, <3>1
  <2>6. c + m + n <= c + a * p2 + b * q2
    <3>1. PICK u, v \in Int : u = a * p2 /\ v = b * q2
      OBVIOUS
    <3> QED BY <2>4, <3>1
  <2> QED BY <2>1, <2>3, <2>4, <2>5, <2>6
<1>13. t.a1 \in Int /\ t.a2 \in Int /\ t.b1 \in Int /\ t.b2 \in Int
  BY DEF GeoTransform
<1>14. e4.min.x <= X(px, py) /\ X(px, py) <= e4.max.x
  <2>1. PICK p \in {0, right}, q \in {0, bottom} :
          t.a0 + t.a1 * p + t.a2 * q <= t.a0 + t.a1 * px + t.a2 * py
    BY <1>12, <1>13
  <2>2. PICK r \in {0, right}, s \in {0, bottom} :
          t.a0 + t.a1 * px + t.a2 * py <= t.a0 + t.a1 * r + t.a2 * s
    BY <1>12, <1>13
  <2>3. p \in Int /\ q \in Int /\ r \in Int /\ s \in Int /\ px \in Int /\ py \in Int
    OBVIOUS
  <2>4. X(p, q) \in Int /\ X(px, py) \in Int /\ X(r, s) \in Int
    BY <1>4, <2>3
  <2>5. X(p, q) <= X(px, py) /\ X(px, py) <= X(r, s)
    BY <1>4, <2>1, <2>2, <2>3
  <2>6. e4.min.x <= X(p, q) /\ X(r, s) <= e4.max.x
    BY <1>10
  <2> QED BY <1>11, <2>5, <2>4, <2>6
<1>15. e4.min.y <= Y(px, py) /\ Y(px, py) <= e4.max.y
  <2>1. PICK p \in {0, right}, q \in {0, bottom} :
          t.b0 + t.b1 * p + t.b2 * q <= t.b0 + t.b1 * px + t.b2 * py
    BY <1>12, <1>13
  <2>2. PICK r \in {0, right}, s \in {0, bottom} :
          t.b0 + t.b1 * px + t.b2 * py <= t.b0 + t.b1 * r + t.b2 * s
    BY <1>12, <1>13
  <2>3. p \in Int /\ q \in Int /\ r \in Int /\ s \in Int /\ px \in Int /\ py \in Int
    OBVIOUS
  <2>4. Y(p, q) \in Int /\ Y(px, py) \in Int /\ Y(r, s) \in Int
    BY <1>4, <2>3
  <2>5. Y(p, q) <= Y(px, py) /\ Y(px, py) <= Y(r, s)
    BY <1>4, <2>1, <2>2, <2>3
  <2>6. e4.min.y <= Y(p, q) /\ Y(r, s) <= e4.max.y
    BY <1>10
  <2> QED BY <1>11, <2>5, <2>4, <2>6
<1> QED BY <1>1, <1>14, <1>15 DEF X, Y

(* A pixel of a raster lies in its bounds. *)
LEMMA PixelsLieInTheBounds ==
  ASSUME NEW t \in GeoTransform, t.a0 \in Int, t.b0 \in Int,
         NEW size, size.width \in Size, size.height \in Size, NEW anchor,
         NEW i \in 0 .. size.width - 1, NEW j \in 0 .. size.height - 1
  PROVE  LET bounds == TryGetWindowBounds(t, size, anchor)
         IN  /\ bounds.min.x <= PlaceX(t, i, j, anchor) /\ PlaceX(t, i, j, anchor) <= bounds.max.x
             /\ bounds.min.y <= PlaceY(t, i, j, anchor) /\ PlaceY(t, i, j, anchor) <= bounds.max.y
<1> DEFINE last == IF anchor = "area" THEN 0 ELSE 1
           half == IF anchor = "area" THEN One \div 2 ELSE 0
           right  == One * (size.width - last)
           bottom == One * (size.height - last)
           px == One * i + half
           py == One * j + half
<1>1. ASSUME NEW n \in Size, NEW k \in 0 .. n - 1
      PROVE  One * (n - last) \in Nat /\ One * k + half \in 0 .. One * (n - last)
  <2>1. One \in Nat /\ One > 0 /\ n \in Nat /\ k \in Nat /\ k <= n - 1
    BY OneAssumption DEF Size
  <2>2. PICK m, r \in Nat : m = One * k /\ r = One * (n - 1 - k)
    <3>1. n - 1 - k \in Nat
      BY <2>1
    <3>2. One * k \in Nat /\ One * (n - 1 - k) \in Nat
      BY <2>1, <3>1
    <3> QED BY <3>2
  <2>3. One * (n - 1) = m + r /\ One * n = m + r + One /\ One * (n - 0) = m + r + One
    BY <2>1, <2>2
  <2>4. CASE anchor = "area"
    <3>1. half \in Nat /\ half <= One /\ last = 0
      BY <2>1, <2>4
    <3> HIDE DEF half, last
    <3> QED BY <2>1, <2>2, <2>3, <3>1
  <2>5. CASE anchor # "area"
    <3>1. half = 0 /\ last = 1
      BY <2>5
    <3> HIDE DEF half, last
    <3> QED BY <2>1, <2>2, <2>3, <3>1
  <2> QED BY <2>4, <2>5
<1>2. right \in Nat /\ bottom \in Nat /\ px \in 0 .. right /\ py \in 0 .. bottom
  <2> HIDE DEF last, half
  <2> QED BY <1>1
<1>3. GetPixelCoord(i, j, anchor) = [px |-> px, py |-> py]
  BY DEF GetPixelCoord
<1>4. /\ PlaceX(t, i, j, anchor) = ApplyX(t, [px |-> px, py |-> py])
      /\ PlaceY(t, i, j, anchor) = ApplyY(t, [px |-> px, py |-> py])
  BY <1>3 DEF PlaceX, PlaceY
<1>5. /\ right = One * (size.width - (IF anchor = "area" THEN 0 ELSE 1))
      /\ bottom = One * (size.height - (IF anchor = "area" THEN 0 ELSE 1))
  OBVIOUS
<1> HIDE DEF right, bottom, px, py
<1> QED BY <1>2, <1>4, <1>5, WindowBoundsHold

(* The vertices of a face are those of pixels. *)
LEMMA VerticesArePixels ==
  ASSUME NEW g, g.width \in Nat \ {0}, g.height \in Nat, NEW quad \in Quads(g), NEW t, NEW k \in 1 .. 4
  PROVE  LET n == FaceOf(t, g, quad)[k]
         IN  /\ n \in 0 .. g.width * g.height - 1
             /\ n % g.width \in 0 .. g.width - 1 /\ n \div g.width \in 0 .. g.height - 1
<1> DEFINE first == quad[2] * g.width + quad[1]
           n == FaceOf(t, g, quad)[k]
<1>1. n \in {first, first + 1, first + g.width, first + g.width + 1}
  <2> HIDE DEF first
  <2> QED BY DEF FaceOf, first
<1>2. quad[1] \in 0 .. g.width - 2 /\ quad[2] \in 0 .. g.height - 2
  BY DEF Quads
<1>3. first \in Nat
  <2>1. ASSUME NEW i \in Nat, NEW j \in Nat, NEW w \in Nat PROVE j * w + i \in Nat
    OBVIOUS
  <2>2. quad[1] \in Nat /\ quad[2] \in Nat /\ g.width \in Nat
    BY <1>2
  <2> QED BY <2>1, <2>2
<1>4. n \in Nat
  <2> HIDE DEF first, n
  <2> QED BY <1>1, <1>3
<1>5. n % g.width \in 0 .. g.width - 1 /\ n \div g.width \in 0 .. g.height - 1
  <2>1. /\ first % g.width = quad[1] /\ first \div g.width = quad[2]
        /\ (first + 1) % g.width = quad[1] + 1 /\ (first + 1) \div g.width = quad[2]
        /\ (first + g.width) % g.width = quad[1] /\ (first + g.width) \div g.width = quad[2] + 1
        /\ (first + g.width + 1) % g.width = quad[1] + 1 /\ (first + g.width + 1) \div g.width = quad[2] + 1
    BY CornersOfAQuad
  <2>2. /\ quad[1] \in 0 .. g.width - 1 /\ quad[1] + 1 \in 0 .. g.width - 1
        /\ quad[2] \in 0 .. g.height - 1 /\ quad[2] + 1 \in 0 .. g.height - 1
    BY <1>2
  <2> HIDE DEF first, n
  <2> QED BY <1>1, <2>1, <2>2
<1> HIDE DEF n
<1>6. n < g.width * g.height
  <2>1. PICK w \in Nat \ {0}, h \in Nat : w = g.width /\ h = g.height
    OBVIOUS
  <2>2. PICK q \in Nat, r \in Nat : q = n \div w /\ r = n % w /\ q <= h - 1 /\ r <= w - 1
    BY <1>5, <2>1
  <2>3. n = w * q + r
    <3>1. ASSUME NEW m \in Nat PROVE m = w * (m \div w) + (m % w)
      BY SMT
    <3> QED BY <1>4, <2>2, <3>1
  <2>4. w * h = w * q + w * (h - q)
    BY <2>2
  <2>5. w * (h - q) >= w
    <3>1. h - q >= 1 /\ h - q \in Int
      BY <2>2
    <3> QED BY <3>1, SMT
  <2>6. PICK x, y \in Int : x = w * q /\ y = w * (h - q)
    OBVIOUS
  <2> QED BY <1>4, <2>1, <2>2, <2>3, <2>4, <2>5, <2>6
<1>7. g.width * g.height \in Nat
  OBVIOUS
<1> QED BY <1>4, <1>5, <1>6, <1>7 DEF n

(* The vertices a step leaves in the layer lie in the bounds it leaves there. *)
LEMMA StepKeepsInBounds ==
  ASSUME Collected, Knows, Next, result' = "succeeded"
  PROVE  FacesLieInTheBounds'
<1> SUFFICES ASSUME layer'.type = "Mesh" PROVE FacesLieInTheBounds'
  BY DEF FacesLieInTheBounds, MeshWasRead
<1> DEFINE t == metadata.geoTransform
           w == grid.width
           anchor == metadata.pixelAnchor
           low == TheMesh.bounds.min
           high == TheMesh.bounds.max
           size == [width |-> metadata.width, height |-> metadata.height]
           bounds == TryGetWindowBounds(t, size, anchor)
<1>1. t \in GeoTransform /\ t.a0 \in Int /\ t.b0 \in Int
  BY MeshIsKnown
<1>2. /\ metadata.bounds = bounds /\ metadata.bounds \in Bounds
      /\ metadata.bounds.min.z = 0 /\ metadata.bounds.max.z = 0
  BY MeshIsAuthored, AuthoredFacts
<1>3. /\ metadata.width \in Size /\ metadata.height \in Size
      /\ grid.width = metadata.width /\ grid.height = metadata.height
      /\ grid.width \in Nat \ {0} /\ grid.height \in Nat
  BY MeshIsKnown
<1>4. low.x = bounds.min.x /\ low.y = bounds.min.y /\ high.x = bounds.max.x /\ high.y = bounds.max.y
  <2> DEFINE b == MeshBounds(metadata, grid, MeshOptions)
  <2>1. low = b.min /\ high = b.max
    BY DEF TheMesh, Mesh
  <2> HIDE DEF b, low, high, bounds
  <2>2. [b.min EXCEPT !.z = 0] = bounds.min /\ [b.max EXCEPT !.z = 0] = bounds.max
    BY <1>2, MeshBoundsSay DEF b
  <2>3. DOMAIN bounds.min = {"x", "y", "z"} /\ DOMAIN bounds.max = {"x", "y", "z"}
    BY <1>2 DEF Bounds, Point
  <2>4. /\ [b.min EXCEPT !.z = 0].x = b.min.x /\ [b.min EXCEPT !.z = 0].y = b.min.y
        /\ [b.max EXCEPT !.z = 0].x = b.max.x /\ [b.max EXCEPT !.z = 0].y = b.max.y
    BY <2>2, <2>3
  <2> QED BY <2>1, <2>2, <2>4
<1>5. ASSUME NEW face \in TheMesh.faces, NEW k \in 1 .. 4
      PROVE  LET n == face[k]
             IN  /\ n \in DOMAIN TheMesh.points
                 /\ low.x <= PlaceX(t, n % w, n \div w, anchor) /\ PlaceX(t, n % w, n \div w, anchor) <= high.x
                 /\ low.y <= PlaceY(t, n % w, n \div w, anchor) /\ PlaceY(t, n % w, n \div w, anchor) <= high.y
  <2>1. PICK quad \in Quads(grid) : face = FaceOf(t, grid, quad)
    BY DEF TheMesh, Mesh
  <2>2. /\ face[k] \in 0 .. grid.width * grid.height - 1
        /\ face[k] % w \in 0 .. size.width - 1 /\ face[k] \div w \in 0 .. size.height - 1
    BY <1>3, <2>1, VerticesArePixels
  <2>3. DOMAIN TheMesh.points = 0 .. grid.width * grid.height - 1
    BY DEF TheMesh, Mesh
  <2>4. size.width \in Size /\ size.height \in Size
    BY <1>3
  <2> HIDE DEF low, high, t, w, anchor, size
  <2> QED BY <1>1, <1>4, <2>2, <2>3, <2>4, PixelsLieInTheBounds
<1>6. \A n : SourceX(n)' = PlaceX(t, n % w, n \div w, anchor) /\ SourceY(n)' = PlaceY(t, n % w, n \div w, anchor)
  BY SourceIsThePlace
<1>7. /\ At("points")' = TheMesh.points /\ At("faceVertexIndices")' = TheMesh.faces
      /\ At("geo:boundsMin")' = low /\ At("geo:boundsMax")' = high
  BY MeshIsAuthored
<1> HIDE DEF t, w, anchor, low, high
<1> QED BY <1>5, <1>6, <1>7 DEF FacesLieInTheBounds

(* The bounds stay what they are while nothing happens.                       *)
LEMMA StutteringKeepsInBounds == ASSUME UNCHANGED vars PROVE FacesLieInTheBounds => FacesLieInTheBounds'
BY DEF FacesLieInTheBounds, MeshWasRead, SourceX, SourceY, At, Width, vars, source

(* The vertices of a face are points and lie in the authored bounds           *)
(* (AuthorMesh, TryGetWindowBounds).                                          *)
THEOREM EveryFaceLiesInTheBounds == Spec => []FacesLieInTheBounds
<1>1. Init => FacesLieInTheBounds
  BY DEF Init, FacesLieInTheBounds, MeshWasRead
<1>2. ReadInvariant /\ Knows /\ FacesLieInTheBounds /\ [Next]_vars => FacesLieInTheBounds'
  <2> SUFFICES ASSUME ReadInvariant, Knows, FacesLieInTheBounds, [Next]_vars, result' = "succeeded"
               PROVE  FacesLieInTheBounds'
    BY DEF FacesLieInTheBounds, MeshWasRead
  <2> QED BY StepKeepsInBounds, StutteringKeepsInBounds DEF ReadInvariant
<1> QED BY <1>1, <1>2, ReadIsInvariant, ReadKnows, PTL DEF Spec

-----------------------------------------------------------------------------
(***************************************************************************)
(* Narrowing to a float: how far it moves a number, and that it keeps the  *)
(* order of numbers.                                                       *)
(***************************************************************************)
LEMMA PowersArePowers == IsPower(PowerOfTwo)
  BY DoublingExists DEF PowerOfTwo, IsPower

\* The unit of a number: the significand holds the number, and with no lesser one.
IsUnit(n, e) ==
  /\ e \in 0 .. n
  /\ n < PowerOfTwo[3 * ByteBits + e]
  /\ \A lower \in 0 .. e - 1 : ~(n < PowerOfTwo[3 * ByteBits + lower])

\* The unit in the last place is a power of two, and that of its number.
LEMMA UnitIs ==
  ASSUME NEW n \in Nat
  PROVE  \E e : IsUnit(n, e) /\ UnitInLastPlace(n) = PowerOfTwo[e]
  <1>1. PICK s \in Nat : s = 3 * ByteBits
    BY ByteAssumption
  <1>2. PICK e : /\ e = CHOOSE d \in 0 .. n : /\ n < PowerOfTwo[s + d]
                                            /\ \A lower \in 0 .. d - 1 : ~(n < PowerOfTwo[s + lower])
                 /\ IsLeastExponent(PowerOfTwo, s, n, e)
    BY PowersArePowers, LeastExponent
  <1>3. UnitInLastPlace(n) = PowerOfTwo[e]
    BY <1>1, <1>2 DEF UnitInLastPlace
  <1> QED
    BY <1>1, <1>2, <1>3 DEF IsUnit, IsLeastExponent

\* A larger number has no smaller unit.
LEMMA UnitGrows ==
  ASSUME NEW m \in Nat, NEW n \in Nat, m <= n, NEW d, IsUnit(m, d), NEW e, IsUnit(n, e)
  PROVE  d <= e
  <1> SUFFICES ASSUME e < d PROVE FALSE
    BY DEF IsUnit
  <1>1. e \in 0 .. d - 1 /\ e \in Nat /\ d \in Nat
    BY DEF IsUnit
  <1>2. ~(m < PowerOfTwo[3 * ByteBits + e])
    BY <1>1 DEF IsUnit
  <1>3. PICK b \in Nat : b = 3 * ByteBits + e
    BY <1>1, ByteAssumption
  <1>4. PowerOfTwo[b] \in Nat
    BY PowersArePowers, PowerIsPositive
  <1>5. n < PowerOfTwo[b]
    BY <1>3 DEF IsUnit
  <1> QED
    BY <1>2, <1>3, <1>4, <1>5

-----------------------------------------------------------------------------
\* Rounding to a unit goes to one of the two multiples around a number, and by
\* half a unit at most.
LEMMA RoundFacts ==
  ASSUME NEW n \in Nat, NEW u \in Nat \ {0}
  PROVE  /\ RoundToEven(n, u) \in Nat
         /\ \/ RoundToEven(n, u) = u * (n \div u) /\ 2 * (n % u) <= u
            \/ RoundToEven(n, u) = u * (n \div u) + u /\ 2 * (n % u) >= u
         /\ 2 * RoundToEven(n, u) <= 2 * n + u /\ 2 * n <= 2 * RoundToEven(n, u) + u
  <1>1. PICK q \in Nat, r \in 0 .. u - 1 : q = n \div u /\ r = n % u /\ n = u * q + r
    BY DivisionFacts
  <1>2. PICK m \in Nat : m = u * q /\ u * (q + 1) = m + u
    BY ProductFacts
  <1>3. \/ RoundToEven(n, u) = m /\ 2 * r <= u
        \/ RoundToEven(n, u) = m + u /\ 2 * r >= u
    BY <1>1, <1>2 DEF RoundToEven
  <1>4. RoundToEven(n, u) \in Nat
    BY <1>2, <1>3
  <1>5. 2 * RoundToEven(n, u) <= 2 * n + u /\ 2 * n <= 2 * RoundToEven(n, u) + u
    BY <1>1, <1>2, <1>3
  <1> QED
    BY <1>1, <1>2, <1>3, <1>4, <1>5

\* Rounding crosses no multiple.
LEMMA RoundStaysBetween ==
  ASSUME NEW n \in Nat, NEW u \in Nat \ {0}, NEW k \in Nat
  PROVE  /\ u * k <= n => u * k <= RoundToEven(n, u)
         /\ n <= u * k => RoundToEven(n, u) <= u * k
  <1>1. PICK q \in Nat, r \in 0 .. u - 1 : q = n \div u /\ r = n % u /\ n = u * q + r
    BY DivisionFacts
  <1>2. PICK m \in Nat, x \in Nat : m = u * q /\ m + u = u * (q + 1) /\ x = u * k
    BY ProductFacts
  <1>3. PICK y \in Nat : /\ y = RoundToEven(n, u)
                         /\ \/ y = m /\ 2 * r <= u
                            \/ y = m + u /\ 2 * r >= u
    <2>1. RoundToEven(n, u) \in Nat
          /\ \/ RoundToEven(n, u) = u * (n \div u) /\ 2 * (n % u) <= u
             \/ RoundToEven(n, u) = u * (n \div u) + u /\ 2 * (n % u) >= u
      BY RoundFacts
    <2> QED
      BY <1>1, <1>2, <2>1
  <1>4. k <= q => x <= m
    BY <1>2, ProductMonotone
  <1>5. k >= q + 1 => m + u <= x
    BY <1>2, ProductMonotone
  <1> QED
    BY <1>1, <1>2, <1>3, <1>4, <1>5

\* Rounding to one unit keeps the order.
LEMMA RoundKeepsOrder ==
  ASSUME NEW m \in Nat, NEW n \in Nat, m <= n, NEW u \in Nat \ {0}
  PROVE  RoundToEven(m, u) <= RoundToEven(n, u)
  <1>1. PICK p \in Nat, q \in Nat : p = m \div u /\ q = n \div u
    BY DivisionFacts
  <1>2. PICK r \in 0 .. u - 1, s \in 0 .. u - 1 : r = m % u /\ s = n % u /\ m = u * p + r /\ n = u * q + s
    <2>1. m % u \in 0 .. u - 1 /\ m = u * (m \div u) + (m % u)
      BY DivisionFacts
    <2>2. n % u \in 0 .. u - 1 /\ n = u * (n \div u) + (n % u)
      BY DivisionFacts
    <2> QED
      BY <1>1, <2>1, <2>2
  <1>3. PICK x \in Nat, y \in Nat : x = RoundToEven(m, u) /\ y = RoundToEven(n, u)
    BY RoundFacts
  <1>4. CASE p = q
    <2>1. r <= s
      <3>1. PICK a \in Nat : a = u * p
        BY ProductFacts
      <3> QED
        BY <1>2, <1>4, <3>1
    <2>2. PICK a \in Nat : a = u * p /\ u * (p + 1) = a + u
      BY ProductFacts
    <2>3. /\ x = IF 2 * r > u \/ (2 * r = u /\ p % 2 = 1) THEN a + u ELSE a
          /\ y = IF 2 * s > u \/ (2 * s = u /\ p % 2 = 1) THEN a + u ELSE a
      BY <1>1, <1>2, <1>3, <1>4, <2>2 DEF RoundToEven
    <2> QED
      BY <1>3, <2>1, <2>3
  <1>5. CASE p # q
    <2>1. p < q
      <3> SUFFICES ASSUME q + 1 <= p PROVE FALSE
        BY <1>5
      <3>1. PICK a \in Nat, b \in Nat : a = u * p /\ b = u * q /\ u * (q + 1) = b + u /\ u * (q + 1) <= u * p
        BY ProductFacts, ProductMonotone
      <3> QED
        BY <1>2, <3>1
    <2>2. PICK a \in Nat, b \in Nat : a = u * p /\ b = u * q /\ u * (p + 1) = a + u /\ u * (p + 1) <= u * q
      BY <2>1, ProductFacts, ProductMonotone
    <2>3. x <= a + u
      <3>1. RoundToEven(m, u) = u * (m \div u) \/ RoundToEven(m, u) = u * (m \div u) + u
        BY RoundFacts
      <3> QED
        BY <1>1, <1>3, <2>2, <3>1
    <2>4. b <= y
      <3>1. RoundToEven(n, u) = u * (n \div u) \/ RoundToEven(n, u) = u * (n \div u) + u
        BY RoundFacts
      <3> QED
        BY <1>1, <1>3, <2>2, <3>1
    <2> QED
      BY <1>3, <2>2, <2>3, <2>4
  <1> QED
    BY <1>4, <1>5

\* A number in a float's precision.
Rounded(n) == RoundToEven(n, UnitInLastPlace(n))

\* A float rounds the magnitude and keeps the sign.
LEMMA FloatIs ==
  ASSUME NEW v \in Int
  PROVE  /\ Magnitude(v) \in Nat
         /\ ToFloat(v) = IF v < 0 THEN -Rounded(Magnitude(v)) ELSE Rounded(Magnitude(v))
  BY NaNAssumption DEF ToFloat, Signed, Magnitude, Rounded

\* Units are positive.
LEMMA UnitIsPositive ==
  ASSUME NEW n \in Nat
  PROVE  UnitInLastPlace(n) \in Nat \ {0}
  <1>1. PICK e : IsUnit(n, e) /\ UnitInLastPlace(n) = PowerOfTwo[e]
    BY UnitIs
  <1>2. e \in Nat
    BY <1>1 DEF IsUnit
  <1> QED
    BY <1>1, <1>2, PowersArePowers, PowerIsPositive

\* Units grow with their numbers.
LEMMA UnitsGrow ==
  ASSUME NEW m \in Nat, NEW n \in Nat, m <= n
  PROVE  UnitInLastPlace(m) <= UnitInLastPlace(n)
  <1>1. PICK d : IsUnit(m, d) /\ UnitInLastPlace(m) = PowerOfTwo[d]
    BY UnitIs
  <1>2. PICK e : IsUnit(n, e) /\ UnitInLastPlace(n) = PowerOfTwo[e]
    BY UnitIs
  <1>3. d \in Nat /\ e \in Nat
    BY <1>1, <1>2 DEF IsUnit
  <1>4. d <= e
    BY <1>1, <1>2, UnitGrows
  <1> QED
    BY <1>1, <1>2, <1>3, <1>4, PowersArePowers, PowerGrows

\* Narrowing moves a number by half a unit of any larger one at most.
LEMMA FloatIsNear ==
  ASSUME NEW v \in Int, NEW m \in Nat, Magnitude(v) <= m
  PROVE  /\ ToFloat(v) \in Int
         /\ Magnitude(ToFloat(v) - v) <= UnitInLastPlace(m) \div 2
  <1>1. PICK n \in Nat : n = Magnitude(v) /\ n <= m /\ n = IF v < 0 THEN -v ELSE v
    <2>1. Magnitude(v) \in Nat
      BY FloatIs
    <2>2. Magnitude(v) = IF v < 0 THEN -v ELSE v
      BY DEF Magnitude
    <2> QED
      BY <2>1, <2>2
  <1>2. PICK u \in Nat \ {0}, w \in Nat \ {0} : u = UnitInLastPlace(n) /\ w = UnitInLastPlace(m) /\ u <= w
    BY <1>1, UnitIsPositive, UnitsGrow
  <1>3. PICK r \in Nat : r = Rounded(n) /\ 2 * r <= 2 * n + u /\ 2 * n <= 2 * r + u
    <2>1. /\ RoundToEven(n, u) \in Nat
          /\ 2 * RoundToEven(n, u) <= 2 * n + u /\ 2 * n <= 2 * RoundToEven(n, u) + u
      BY RoundFacts
    <2> QED
      BY <1>2, <2>1 DEF Rounded
  <1>4. PICK f \in Int : f = ToFloat(v) /\ f = IF v < 0 THEN -r ELSE r
    <2>1. ToFloat(v) = IF v < 0 THEN -Rounded(Magnitude(v)) ELSE Rounded(Magnitude(v))
      BY FloatIs
    <2>2. ToFloat(v) = IF v < 0 THEN -r ELSE r
      BY <1>1, <1>3, <2>1
    <2> QED
      BY <2>2
  <1>5. 2 * Magnitude(f - v) <= w /\ Magnitude(f - v) \in Nat
    BY <1>1, <1>2, <1>3, <1>4 DEF Magnitude
  <1>6. Magnitude(f - v) <= w \div 2
    BY <1>5
  <1> QED
    BY <1>2, <1>4, <1>6

\* Narrowing keeps the order of numbers.
LEMMA RoundedKeepsOrder ==
  ASSUME NEW m \in Nat, NEW n \in Nat, m <= n
  PROVE  Rounded(m) \in Nat /\ Rounded(n) \in Nat /\ Rounded(m) <= Rounded(n)
  <1>1. PICK d : IsUnit(m, d) /\ UnitInLastPlace(m) = PowerOfTwo[d]
    BY UnitIs
  <1>2. PICK e : IsUnit(n, e) /\ UnitInLastPlace(n) = PowerOfTwo[e]
    BY UnitIs
  <1>3. d \in Nat /\ e \in Nat /\ d <= e
    BY <1>1, <1>2, UnitGrows DEF IsUnit
  <1>4. PICK u \in Nat \ {0}, w \in Nat \ {0} : u = PowerOfTwo[d] /\ w = PowerOfTwo[e]
    BY <1>3, PowersArePowers, PowerIsPositive
  <1>5. PICK x \in Nat, y \in Nat : /\ x = RoundToEven(m, u) /\ y = RoundToEven(n, w)
                                    /\ x = Rounded(m) /\ y = Rounded(n)
    BY <1>1, <1>2, <1>4, RoundFacts DEF Rounded
  <1>6. CASE d = e
    BY <1>4, <1>5, <1>6, RoundKeepsOrder
  <1>7. CASE d # e
    <2>1. PICK b \in Nat, c \in Nat : b = 3 * ByteBits /\ c = b - 1 /\ b > 0
      BY ByteAssumption
    <2>2. PICK e1 \in Nat : e1 = e - 1 /\ d <= e1 /\ e1 \in 0 .. e - 1
      BY <1>3, <1>7
    <2>3. PICK p \in Nat \ {0}, q \in Nat \ {0} : p = PowerOfTwo[b] /\ q = PowerOfTwo[c]
      BY PowersArePowers, PowerIsPositive
    <2>4. PICK s \in Nat, t \in Nat : s = PowerOfTwo[b + d] /\ t = PowerOfTwo[b + e1] /\ s <= t
      <3>1. b + d \in Nat /\ b + e1 \in Nat /\ b + d <= b + e1
        BY <1>3, <2>1, <2>2
      <3> QED
        BY <3>1, PowersArePowers, PowerIsPositive, PowerGrows
    <2>5. s = u * p
      <3>1. PowerOfTwo[d + b] = PowerOfTwo[d] * PowerOfTwo[b] /\ d + b = b + d
        BY <1>3, PowersArePowers, PowerOfSum
      <3> QED
        BY <1>4, <2>3, <2>4, <3>1
    <2>6. t = w * q
      <3>1. PowerOfTwo[e + c] = PowerOfTwo[e] * PowerOfTwo[c]
        BY <1>3, PowersArePowers, PowerOfSum
      <3>2. e + c = b + e1
        BY <1>3, <2>1, <2>2
      <3> QED
        BY <1>4, <2>3, <2>4, <3>1, <3>2
    <2>7. m <= s
      BY <1>1, <1>3, <2>1, <2>4 DEF IsUnit
    <2>8. t <= n
      BY <1>2, <2>1, <2>2, <2>4 DEF IsUnit
    <2>9. x <= s
      BY <1>5, <2>5, <2>7, RoundStaysBetween
    <2>10. t <= y
      BY <1>5, <2>6, <2>8, RoundStaysBetween
    <2> QED
      BY <1>5, <2>4, <2>9, <2>10
  <1> QED
    BY <1>5, <1>6, <1>7

\* A lesser number has no greater float.
LEMMA FloatKeepsOrder ==
  ASSUME NEW u \in Int, NEW v \in Int, u <= v
  PROVE  ToFloat(u) <= ToFloat(v)
  <1>1. PICK m \in Nat, n \in Nat : m = Magnitude(u) /\ n = Magnitude(v)
    BY FloatIs
  <1>2. /\ m = (IF u < 0 THEN -u ELSE u) /\ n = (IF v < 0 THEN -v ELSE v)
    BY <1>1 DEF Magnitude
  <1>3. PICK x \in Nat, y \in Nat : x = Rounded(m) /\ y = Rounded(n)
    BY RoundedKeepsOrder
  <1>4. ToFloat(u) = (IF u < 0 THEN -x ELSE x) /\ ToFloat(v) = (IF v < 0 THEN -y ELSE y)
    BY <1>1, <1>3, FloatIs
  <1>5. m <= n => x <= y
    BY <1>3, RoundedKeepsOrder
  <1>6. n <= m => y <= x
    BY <1>3, RoundedKeepsOrder
  <1> QED
    BY <1>2, <1>3, <1>4, <1>5, <1>6

\* One is even.
LEMMA OneIsEven == \E h \in Nat : One = 2 * h /\ h > 0
  <1>1. PICK n \in Nat, f \in Nat \ {0} : n = One /\ f = 4
    BY OneAssumption
  <1>2. n = f * (n \div f) + (n % f) /\ n \div f \in Nat
    BY DivisionFacts
  <1>3. PICK q \in Nat : q = n \div f
    BY <1>2
  <1>4. n % f = 0
    BY <1>1, OneAssumption
  <1>5. n = 4 * q
    BY <1>1, <1>2, <1>3, <1>4
  <1> QED
    BY <1>1, <1>5, OneAssumption

\* Quantizing moves the half of a number by half of One at most.
LEMMA QuantizeIsNear ==
  ASSUME NEW v \in Int
  PROVE  /\ QuantizeHalf(v) \in Int
         /\ 2 * QuantizeHalf(v) - v <= One
         /\ v - 2 * QuantizeHalf(v) <= One
  <1>1. PICK n \in Nat : n = IF v < 0 THEN -v ELSE v
    OBVIOUS
  <1>2. Magnitude(v) = n
    BY <1>1 DEF Magnitude
  <1>3. PICK o \in Nat \ {0} : o = One
    BY OneAssumption
  <1>4. PICK d \in Nat \ {0} : d = 2 * o
    OBVIOUS
  <1>5. PICK q \in Nat, r \in 0 .. d - 1 : q = (n + o) \div d /\ n + o = d * q + r
    <2>1. n + o \in Nat
      OBVIOUS
    <2> QED
      BY <2>1, DivisionFacts
  <1>6. PICK m \in Nat : m = o * q
    BY ProductFacts
  <1>7. d * q = 2 * m
    BY <1>4, <1>6
  <1>8. QuantizeHalf(v) = IF v < 0 THEN -m ELSE m
    BY <1>2, <1>3, <1>4, <1>5, <1>6 DEF QuantizeHalf, Signed
  <1>9. 2 * m <= n + o /\ n <= 2 * m + o
    BY <1>4, <1>5, <1>7
  <1> QED
    BY <1>1, <1>3, <1>8, <1>9

\* Between low and high no number is far from the origin.
LEMMA OriginIsNear ==
  ASSUME NEW low \in Int, NEW high \in Int, NEW p \in Int, low <= p, p <= high
  PROVE  LET origin == Middle(low, high)
         IN  /\ origin \in Int
             /\ (high - low) \div 2 + One \in Nat
             /\ Magnitude(p - origin) <= (high - low) \div 2 + One
             /\ Magnitude(-(p - origin)) <= (high - low) \div 2 + One
  <1>1. PICK half \in Nat : half = (high - low) \div 2 /\ 2 * half <= high - low /\ high - low <= 2 * half + 1
    OBVIOUS
  <1>2. PICK v \in Int : v = low + high
    OBVIOUS
  <1>3. PICK o \in Int : o = Middle(low, high) /\ 2 * o - v <= One /\ v - 2 * o <= One
    BY <1>2, QuantizeIsNear DEF Middle
  <1>4. PICK h \in Nat : One = 2 * h /\ h > 0
    BY OneIsEven
  <1>5. p - o <= half + One /\ -(p - o) <= half + One
    BY <1>1, <1>2, <1>3, <1>4
  <1>6. Magnitude(p - o) <= half + One /\ Magnitude(-(p - o)) <= half + One
    BY <1>3, <1>4, <1>5 DEF Magnitude
  <1> QED
    BY <1>1, <1>2, <1>3, <1>4, <1>6

\* Origin and float together give the number back.
LEMMA PointIsNear ==
  ASSUME NEW low \in Int, NEW high \in Int, NEW p \in Int, low <= p, p <= high,
         NEW origin, origin = Middle(low, high)
  PROVE  /\ Magnitude((origin + ToFloat(p - origin)) - p) <= Rounding(high - low)
         /\ Magnitude(origin - ToFloat(-(p - origin)) - p) <= Rounding(high - low)
  <1>1. PICK m \in Nat : m = (high - low) \div 2 + One
    BY OriginIsNear
  <1>2. origin \in Int /\ Magnitude(p - origin) <= m /\ Magnitude(-(p - origin)) <= m
    BY <1>1, OriginIsNear
  <1>3. PICK d \in Int, e \in Int : d = p - origin /\ e = -(p - origin)
    BY <1>2
  <1>4. PICK r : r = UnitInLastPlace(m) \div 2 /\ r = Rounding(high - low)
    BY <1>1 DEF Rounding
  <1>5. PICK f \in Int : f = ToFloat(d) /\ Magnitude(f - d) <= r
    BY <1>2, <1>3, <1>4, FloatIsNear
  <1>6. PICK g \in Int : g = ToFloat(e) /\ Magnitude(g - e) <= r
    BY <1>2, <1>3, <1>4, FloatIsNear
  <1>7. (origin + f) - p = f - d /\ origin - g - p = -(g - e)
    BY <1>2, <1>3
  <1>8. Magnitude(-(g - e)) = Magnitude(g - e)
    BY DEF Magnitude
  <1> QED
    BY <1>3, <1>4, <1>5, <1>6, <1>7, <1>8

-----------------------------------------------------------------------------
\* Among finitely many numbers there is a least and a greatest.
LEMMA LeastIsThere ==
  ASSUME NEW S, IsFiniteSet(S), S # {}, NEW e, \A x \in S : e[x] \in Int
  PROVE  \E x \in S : \A y \in S : e[x] <= e[y]
  <1> DEFINE T == {s \in SUBSET S : s # {} => \E x \in s : \A y \in s : e[x] <= e[y]}
  <1>1. ASSUME NEW s \in SUBSET S, \A x \in s : s \ {x} \in T PROVE s \in T
    <2> SUFFICES ASSUME s # {} PROVE \E x \in s : \A y \in s : e[x] <= e[y]
      OBVIOUS
    <2>1. PICK z \in s : TRUE
      OBVIOUS
    <2>2. CASE s \ {z} = {}
      <3>1. s = {z} /\ e[z] \in Int
        BY <2>1, <2>2
      <3> QED
        BY <3>1
    <2>3. CASE s \ {z} # {}
      <3>1. PICK x \in s \ {z} : \A y \in s \ {z} : e[x] <= e[y]
        BY <1>1, <2>1, <2>3
      <3>2. e[x] \in Int /\ \A y \in s : e[y] \in Int
        OBVIOUS
      <3>3. CASE e[x] <= e[z]
        BY <3>1, <3>3
      <3>4. CASE ~(e[x] <= e[z])
        <4>1. \A y \in s : e[z] <= e[y]
          BY <3>1, <3>2, <3>4
        <4> QED
          BY <4>1
      <3> QED
        BY <3>3, <3>4
    <2> QED
      BY <2>2, <2>3
  <1> HIDE DEF T
  <1>2. SUBSET S \subseteq T
    BY <1>1, InductionOnSubsets
  <1>3. S \in T
    BY <1>2
  <1> QED
    BY <1>3 DEF T

\* And a greatest.
LEMMA MostIsThere ==
  ASSUME NEW S, IsFiniteSet(S), S # {}, NEW e, \A x \in S : e[x] \in Int
  PROVE  \E x \in S : \A y \in S : e[y] <= e[x]
  <1>1. PICK d : d = [x \in S |-> -e[x]]
    OBVIOUS
  <1>2. \A x \in S : d[x] = -e[x] /\ d[x] \in Int
    BY <1>1
  <1>3. PICK x \in S : \A y \in S : d[x] <= d[y]
    BY <1>2, LeastIsThere
  <1>4. ASSUME NEW y \in S PROVE e[y] <= e[x]
    <2>1. d[x] <= d[y] /\ d[x] = -e[x] /\ d[y] = -e[y] /\ e[x] \in Int /\ e[y] \in Int
      BY <1>2, <1>3
    <2> QED
      BY <2>1
  <1> QED
    BY <1>4

\* The least and the greatest of the numbers among some values.
LEMMA LeastAndMost ==
  ASSUME NEW S, IsFiniteSet(S), NEW e, \A x \in S : e[x] \in Number, NEW values, values = {e[x] : x \in S},
         NEW z \in S, e[z] # NaN
  PROVE  /\ Least(values) \in Int /\ Most(values) \in Int
         /\ \A x \in S : e[x] # NaN => Least(values) <= e[x] /\ e[x] <= Most(values)
  <1> DEFINE numbers == {x \in S : e[x] # NaN}
  <1>1. IsFiniteSet(numbers) /\ numbers # {} /\ \A x \in numbers : e[x] \in Int
    <2>1. numbers \subseteq S
      OBVIOUS
    <2>2. IsFiniteSet(numbers)
      BY <2>1, FS_Subset
    <2> QED
      BY <2>2 DEF Number
  <1>2. ~(values \subseteq {NaN})
    OBVIOUS
  <1>3. values \ {NaN} = {e[x] : x \in numbers}
    OBVIOUS
  <1> HIDE DEF numbers
  <1>4. \E v \in values \ {NaN} : \A w \in values \ {NaN} : v <= w
    <2>1. PICK x \in numbers : \A y \in numbers : e[x] <= e[y]
      BY <1>1, LeastIsThere
    <2>2. e[x] \in values \ {NaN}
      BY <1>3, <2>1
    <2>3. ASSUME NEW w \in values \ {NaN} PROVE e[x] <= w
      <3>1. PICK y \in numbers : w = e[y]
        BY <1>3
      <3> QED
        BY <2>1, <3>1
    <2> QED
      BY <2>2, <2>3
  <1>5. \E v \in values \ {NaN} : \A w \in values \ {NaN} : w <= v
    <2>1. PICK x \in numbers : \A y \in numbers : e[y] <= e[x]
      BY <1>1, MostIsThere
    <2>2. e[x] \in values \ {NaN}
      BY <1>3, <2>1
    <2>3. ASSUME NEW w \in values \ {NaN} PROVE w <= e[x]
      <3>1. PICK y \in numbers : w = e[y]
        BY <1>3
      <3> QED
        BY <2>1, <3>1
    <2> QED
      BY <2>2, <2>3
  <1>6. Least(values) \in values \ {NaN} /\ \A w \in values \ {NaN} : Least(values) <= w
    BY <1>2, <1>4 DEF Least
  <1>7. Most(values) \in values \ {NaN} /\ \A w \in values \ {NaN} : w <= Most(values)
    BY <1>2, <1>5 DEF Most
  <1>8. \A w \in values \ {NaN} : w \in Int
    BY <1>1, <1>3
  <1>9. \A x \in S : e[x] # NaN => e[x] \in values \ {NaN}
    OBVIOUS
  <1> QED
    BY <1>6, <1>7, <1>8, <1>9

-----------------------------------------------------------------------------
(***************************************************************************)
(* The points of the mesh.                                                 *)
(***************************************************************************)

(* The samples of the grid are numbers. *)
LEMMA SamplesAreNumbers ==
  ASSUME Knows, pc = "mesh", asset \in Contents
  PROVE  \A cell \in Cells(grid) : grid.sample[cell] \in Number
<1>1. /\ metadata \in MetadataWithBounds /\ grid = Delivered /\ WindowError = "none"
      /\ Content(asset)
  BY ContentsAssumption DEF Knows, MetadataIsRead, GridIsDelivered, Checked
<1>2. PICK w \in Nat, h \in Nat, u \in Nat, g \in Nat :
        /\ w = metadata.width /\ h = metadata.height
        /\ u = asset.metadata.width /\ g = asset.metadata.height
        /\ w <= u /\ h <= g
  <2>1. metadata.width \in Nat /\ metadata.height \in Nat
        /\ asset.metadata.width \in Nat /\ asset.metadata.height \in Nat
    BY <1>1 DEF MetadataWithBounds, Content, Metadata, Size
  <2>2. ~(metadata.width > asset.metadata.width) /\ ~(metadata.height > asset.metadata.height)
    BY <1>1 DEF WindowError
  <2> QED BY <2>1, <2>2
<1>3. Cells(grid) = Pixels(metadata)
  BY <1>1 DEF Cells, Pixels, Delivered
<1>4. Pixels(metadata) \subseteq Pixels(asset.metadata)
  BY <1>2 DEF Pixels
<1>5. arguments.band \in DOMAIN asset.metadata.bands
  BY <1>1 DEF WindowError, HasBand
<1>6. asset.raw[arguments.band] \in [Pixels(asset.metadata) -> Number]
  BY <1>1, <1>5 DEF Content
<1>7. Band.scale \subseteq Int /\ Band.offset \subseteq Int
  <2>1. asset.metadata.bands \in Bands
    BY <1>1 DEF Content, Metadata
  <2>2. PICK R : R = [dataType : DataTypes, noData : SUBSET Number, scale : SUBSET Int,
                     offset : SUBSET Int, labels : SUBSET {"description", "unit"}]
    OBVIOUS
  <2>3. PICK bs \in Seq(R) : bs = asset.metadata.bands
    BY <2>1, <2>2 DEF Bands
  <2>4. \A i \in DOMAIN bs : bs[i] \in R
    <3>1. DOMAIN bs = 1 .. Len(bs) /\ bs \in [1 .. Len(bs) -> R]
      BY <2>3
    <3> QED BY <3>1
  <2>5. Band \in R
    BY <1>5, <2>3, <2>4 DEF Band
  <2> QED BY <2>2, <2>5
<1>8. ASSUME NEW v \in Number PROVE ApplyScaleAndOffset(v, Band.scale, Band.offset) \in Number
  <2>1. CASE v = NaN
    BY <2>1 DEF ApplyScaleAndOffset, Number
  <2>2. CASE v # NaN
    <3>1. v \in Int
      BY <2>2 DEF Number
    <3>2. PICK s \in Int, o \in Int :
            ApplyScaleAndOffset(v, Band.scale, Band.offset)
              = LET scaled == IF Band.scale = {} THEN v ELSE v * s
                IN  IF Band.offset = {} THEN scaled ELSE scaled + o
      <4>1. PICK s \in Int : Band.scale # {} => s = CHOOSE x \in Band.scale : TRUE
        BY <1>7
      <4>2. PICK o \in Int : Band.offset # {} => o = CHOOSE x \in Band.offset : TRUE
        BY <1>7
      <4> QED BY <2>2, <4>1, <4>2 DEF ApplyScaleAndOffset
    <3>3. v * s \in Int
      BY <3>1
    <3> QED BY <3>1, <3>2, <3>3 DEF Number
  <2> QED BY <2>1, <2>2
<1>9. ASSUME NEW v \in Number PROVE ConvertSample(v, "float32") \in Number
  <2>1. ConvertSample(v, "float32") = ToFloat(v)
    BY DEF ConvertSample, IntegerTypes, SignedTypes, UnsignedTypes
  <2>2. v = NaN => ToFloat(v) = NaN
    BY DEF ToFloat
  <2>3. v # NaN => ToFloat(v) \in Int
    <3> SUFFICES ASSUME v # NaN PROVE ToFloat(v) \in Int
      OBVIOUS
    <3>1. v \in Int
      BY DEF Number
    <3>2. PICK m \in Nat : m = Magnitude(v) /\ Magnitude(v) <= m
      BY <3>1, FloatIs
    <3> QED BY <3>1, <3>2, FloatIsNear
  <2> QED BY <2>1, <2>2, <2>3 DEF Number
<1>10. ASSUME NEW cell \in Cells(grid) PROVE grid.sample[cell] \in Number
  <2>1. cell \in Pixels(metadata) /\ cell \in Pixels(asset.metadata)
    BY <1>3, <1>4
  <2>2. PICK v \in Number : v = asset.raw[arguments.band][cell]
    BY <1>6, <2>1
  <2>3. grid.sample[cell] = ConvertSample(ApplyScaleAndOffset(v, Band.scale, Band.offset), "float32")
    BY <1>1, <2>1, <2>2 DEF Delivered
  <2> QED BY <1>8, <1>9, <2>3
<1> QED BY <1>10

(* So are the elevations of its cells. *)
LEMMA ElevationsAreNumbers ==
  ASSUME Knows, pc = "mesh", asset \in Contents, arguments \in RasterArguments, NEW cell \in Cells(grid)
  PROVE  Elevation(grid, cell, MeshOptions) \in Number
<1>1. grid.sample[cell] \in Number
  BY SamplesAreNumbers
<1>2. arguments.heightScale \in Int /\ arguments.fillValue \in Int
      /\ arguments.noDataPolicy \in {"skip", "fill", "keep"}
  BY DEF RasterArguments
<1>3. PICK sample \in Number :
        Elevation(grid, cell, MeshOptions) = IF sample = NaN THEN NaN ELSE arguments.heightScale * sample + 0
  <2>1. arguments.fillValue \in Number /\ 0 \in Number
    BY <1>2 DEF Number
  <2>2. CASE ~IsNoData(grid, cell)
    BY <1>1, <2>2 DEF Elevation, MeshOptions
  <2>3. CASE IsNoData(grid, cell) /\ arguments.noDataPolicy = "fill"
    BY <2>1, <2>3 DEF Elevation, MeshOptions
  <2>4. CASE IsNoData(grid, cell) /\ arguments.noDataPolicy = "skip"
    BY <2>1, <2>4 DEF Elevation, MeshOptions
  <2>5. CASE IsNoData(grid, cell) /\ arguments.noDataPolicy = "keep"
    BY <1>1, <2>5 DEF Elevation, MeshOptions
  <2> QED BY <1>2, <2>2, <2>3, <2>4, <2>5
<1>4. sample # NaN => sample \in Int
  BY DEF Number
<1>5. sample # NaN => arguments.heightScale * sample \in Int
  BY <1>2, <1>4
<1> QED BY <1>3, <1>5 DEF Number

(* Where heights are bounded, no cell with an elevation is outside. *)
LEMMA HeightsAreBounded ==
  ASSUME Knows, pc = "mesh", asset \in Contents, arguments \in RasterArguments,
         grid.width \in Nat, grid.height \in Nat,
         metadata.bounds \in Bounds, metadata.bounds.min.z = 0, metadata.bounds.max.z = 0,
         NEW low, low = TheMesh.bounds.min.z, NEW high, high = TheMesh.bounds.max.z, low <= high
  PROVE  /\ low \in Int /\ high \in Int
         /\ \A cell \in Cells(grid) :
              HasElevation(grid, cell, MeshOptions) /\ Elevation(grid, cell, MeshOptions) # NaN =>
                low <= Elevation(grid, cell, MeshOptions) /\ Elevation(grid, cell, MeshOptions) <= high
<1> DEFINE cells == {cell \in Cells(grid) : HasElevation(grid, cell, MeshOptions)}
           heights == {Elevation(grid, cell, MeshOptions) : cell \in cells}
           b == metadata.bounds
<1>1. TheMesh.bounds = IF cells = {} THEN b
                       ELSE [b EXCEPT !.min.z = Least(heights), !.max.z = Most(heights)]
  BY DEF TheMesh, Mesh, MeshBounds
<1>2. CASE cells = {}
  BY <1>1, <1>2
<1>3. CASE cells # {}
  <2>1. IsFiniteSet(cells)
    <3>1. PICK a \in Int, c \in Int, d \in Int : a = 0 /\ c = grid.width - 1 /\ d = grid.height - 1
      OBVIOUS
    <3>2. IsFiniteSet(a .. c) /\ IsFiniteSet(a .. d)
      BY FS_Interval
    <3>3. IsFiniteSet((a .. c) \X (a .. d))
      BY <3>2, FS_Product
    <3>4. cells \subseteq (a .. c) \X (a .. d)
      BY <3>1 DEF Cells
    <3> HIDE DEF cells
    <3> QED BY <3>3, <3>4, FS_Subset
  <2>2. PICK e : e = [cell \in cells |-> Elevation(grid, cell, MeshOptions)]
    OBVIOUS
  <2>3. \A cell \in cells : e[cell] = Elevation(grid, cell, MeshOptions) /\ e[cell] \in Number
    BY <2>2, ElevationsAreNumbers
  <2>4. PICK least, most : least = Least(heights) /\ most = Most(heights)
    OBVIOUS
  <2>5. low = least /\ high = most
    <3>1. TheMesh.bounds = [b EXCEPT !.min.z = least, !.max.z = most]
      BY <1>1, <1>3, <2>4
    <3> HIDE DEF b, cells, heights
    <3>2. b \in Bounds
      BY DEF b
    <3> QED BY <3>1, <3>2 DEF Bounds, Point
  <2>6. heights = {e[cell] : cell \in cells}
    BY <2>3
  <2>7. \E cell \in cells : e[cell] # NaN
    <3> SUFFICES ASSUME \A cell \in cells : e[cell] = NaN PROVE FALSE
      OBVIOUS
    <3>1. heights \subseteq {NaN}
      BY <2>6
    <3> HIDE DEF heights
    <3>2. least = Infinity /\ most = -Infinity
      BY <2>4, <3>1 DEF Least, Most
    <3> QED BY <2>5, <3>2, InfinityAssumption
  <2> HIDE DEF cells, heights
  <2>8. /\ Least(heights) \in Int /\ Most(heights) \in Int
        /\ \A x \in cells : e[x] # NaN => Least(heights) <= e[x] /\ e[x] <= Most(heights)
    BY <2>1, <2>3, <2>6, <2>7, LeastAndMost
  <2> QED BY <2>3, <2>4, <2>5, <2>8 DEF cells
<1> QED BY <1>2, <1>3

(* What a mesh says of one of its points. *)
LEMMA PointSays ==
  ASSUME grid.width \in Nat \ {0}, grid.height \in Nat, NEW n \in 0 .. grid.width * grid.height - 1,
         grid = Delivered
  PROVE  LET i == n % grid.width
             j == n \div grid.width
             height == Elevation(grid, <<i, j>>, MeshOptions)
             point == TheMesh.points[n]
         IN  /\ point.x = ToFloat(PlaceX(metadata.geoTransform, i, j, metadata.pixelAnchor) - TheMesh.origin.x)
             /\ point.z = ToFloat(-(PlaceY(metadata.geoTransform, i, j, metadata.pixelAnchor) - TheMesh.origin.y))
             /\ point.y = IF height = NaN THEN NaN ELSE ToFloat(height - TheMesh.origin.z)
<1> DEFINE i == n % grid.width
           j == n \div grid.width
           position == Position(metadata, grid, <<i, j>>, MeshOptions)
<1>1. TheMesh.points[n] = StagePoint(position, TheMesh.origin)
  BY DEF TheMesh, Mesh
<1>2. i \in Int /\ j \in Int
  <2>1. PICK w \in Nat \ {0}, h \in Nat : w = grid.width /\ h = grid.height
    OBVIOUS
  <2>2. n \in Nat
    BY <2>1
  <2>3. n % w \in Int /\ n \div w \in Int
    BY <2>1, <2>2
  <2> QED BY <2>1, <2>3
<1>3. SourcePixel(grid, <<i, j>>) = [i |-> i, j |-> j]
  BY <1>2 DEF SourcePixel, Delivered
<1> QED BY <1>1, <1>3 DEF Position, StagePoint, PlaceX, PlaceY

(* The origin of a mesh with valid bounds. *)
LEMMA OriginSays ==
  ASSUME IsValid(TheMesh.bounds)
  PROVE  LET low == TheMesh.bounds.min
             high == TheMesh.bounds.max
         IN  /\ TheMesh.origin.x = Middle(low.x, high.x)
             /\ TheMesh.origin.y = Middle(low.y, high.y)
             /\ TheMesh.origin.z = Middle(low.z, high.z)
<1>1. PICK b : b = TheMesh.bounds /\ TheMesh.origin = FromBounds(b) /\ IsValid(b)
  BY DEF TheMesh, Mesh
<1> QED BY <1>1 DEF FromBounds

(* The points a step leaves in the layer recover the source. *)
LEMMA StepKeepsRecovering ==
  ASSUME AssetIsThere, Collected, Knows, Next, result' = "succeeded"
  PROVE  PointsRecoverTheSource'
<1> SUFFICES ASSUME layer'.type = "Mesh", HasHeights' PROVE PointsRecoverTheSource'
  BY DEF PointsRecoverTheSource, MeshWasRead
<1> DEFINE t == metadata.geoTransform
           w == grid.width
           anchor == metadata.pixelAnchor
           low == TheMesh.bounds.min
           high == TheMesh.bounds.max
           origin == TheMesh.origin
           points == TheMesh.points
           X(n) == PlaceX(t, n % w, n \div w, anchor)
           Y(n) == PlaceY(t, n % w, n \div w, anchor)
           size == [width |-> metadata.width, height |-> metadata.height]
           bounds == TryGetWindowBounds(t, size, anchor)
<1>1. pc = "mesh" /\ IsValid(metadata.bounds) /\ asset \in Contents /\ grid = Delivered
  BY MeshIsAuthored DEF AssetIsThere, Knows, GridIsDelivered
<1>2. /\ metadata.bounds = bounds /\ metadata.bounds \in Bounds
      /\ metadata.bounds.min.z = 0 /\ metadata.bounds.max.z = 0
      /\ t \in GeoTransform /\ t.a0 \in Int /\ t.b0 \in Int
  BY <1>1, AuthoredFacts
<1>3. /\ metadata.width \in Size /\ metadata.height \in Size
      /\ grid.width = metadata.width /\ grid.height = metadata.height
      /\ grid.width \in Nat \ {0} /\ grid.height \in Nat /\ arguments \in RasterArguments
  BY MeshIsKnown
<1>4. /\ At("points")' = points /\ At("faceVertexIndices")' = TheMesh.faces
      /\ At("geo:boundsMin")' = low /\ At("geo:boundsMax")' = high /\ At("geo:localOrigin")' = origin
  BY MeshIsAuthored
<1>5. low.z <= high.z
  BY <1>4 DEF HasHeights
<1>6. low.x = bounds.min.x /\ low.y = bounds.min.y /\ high.x = bounds.max.x /\ high.y = bounds.max.y
  <2> DEFINE b == MeshBounds(metadata, grid, MeshOptions)
  <2>1. low = b.min /\ high = b.max
    BY DEF TheMesh, Mesh
  <2> HIDE DEF b, low, high, bounds
  <2>2. [b.min EXCEPT !.z = 0] = bounds.min /\ [b.max EXCEPT !.z = 0] = bounds.max
    BY <1>2, MeshBoundsSay DEF b
  <2>3. DOMAIN bounds.min = {"x", "y", "z"} /\ DOMAIN bounds.max = {"x", "y", "z"}
    BY <1>2 DEF Bounds, Point
  <2>4. /\ [b.min EXCEPT !.z = 0].x = b.min.x /\ [b.min EXCEPT !.z = 0].y = b.min.y
        /\ [b.max EXCEPT !.z = 0].x = b.max.x /\ [b.max EXCEPT !.z = 0].y = b.max.y
    BY <2>2, <2>3
  <2> QED BY <2>1, <2>2, <2>4
<1>7. low.x \in Int /\ low.y \in Int /\ high.x \in Int /\ high.y \in Int
      /\ low.x <= high.x /\ low.y <= high.y
  <2> HIDE DEF low, high, bounds
  <2> QED BY <1>1, <1>2, <1>6 DEF Bounds, Point, IsValid
<1>8. /\ low.z \in Int /\ high.z \in Int
      /\ \A cell \in Cells(grid) :
           HasElevation(grid, cell, MeshOptions) /\ Elevation(grid, cell, MeshOptions) # NaN =>
             low.z <= Elevation(grid, cell, MeshOptions) /\ Elevation(grid, cell, MeshOptions) <= high.z
  BY <1>1, <1>2, <1>3, <1>5, HeightsAreBounded
<1>9. /\ origin.x = Middle(low.x, high.x)
      /\ origin.y = Middle(low.y, high.y)
      /\ origin.z = Middle(low.z, high.z)
  BY <1>5, <1>7, OriginSays DEF IsValid
<1>10. ASSUME NEW n \in DOMAIN points
       PROVE  /\ Magnitude((origin.x + points[n].x) - X(n)) <= Rounding(high.x - low.x)
              /\ Magnitude(origin.y - points[n].z - Y(n)) <= Rounding(high.y - low.y)
  <2>1. n \in 0 .. grid.width * grid.height - 1
    BY DEF TheMesh, Mesh
  <2>2. points[n].x = ToFloat(X(n) - origin.x) /\ points[n].z = ToFloat(-(Y(n) - origin.y))
    BY <1>1, <1>3, <2>1, PointSays
  <2>3. n % w \in 0 .. size.width - 1 /\ n \div w \in 0 .. size.height - 1
    BY <1>3, <2>1, PlaceIsACell
  <2>4. /\ low.x <= X(n) /\ X(n) <= high.x /\ low.y <= Y(n) /\ Y(n) <= high.y
    <3>1. size.width \in Size /\ size.height \in Size
      BY <1>3
    <3> HIDE DEF low, high, t, w, anchor, size
    <3> QED BY <1>2, <1>6, <2>3, <3>1, PixelsLieInTheBounds
  <2>5. X(n) \in Int /\ Y(n) \in Int
    <3>1. PICK p \in Int, q \in Int : GetPixelCoord(n % w, n \div w, anchor) = [px |-> p, py |-> q]
      <4>1. PICK i \in Int, j \in Int, m \in Int, h \in Int :
              i = n % w /\ j = n \div w /\ m = One /\ h = IF anchor = "area" THEN One \div 2 ELSE 0
        BY <2>3, OneAssumption
      <4>2. m * i + h \in Int /\ m * j + h \in Int
        OBVIOUS
      <4> QED BY <4>1, <4>2 DEF GetPixelCoord
    <3>2. X(n) = ApplyX(t, [px |-> p, py |-> q]) /\ Y(n) = ApplyY(t, [px |-> p, py |-> q])
      BY <3>1 DEF PlaceX, PlaceY
    <3>3. X(n) \in Number /\ Y(n) \in Number /\ X(n) # NaN /\ Y(n) # NaN
      <4> HIDE DEF X, Y, t
      <4>1. t.a0 # NaN /\ t.b0 # NaN
        BY <1>2, NaNAssumption
      <4> QED BY <1>2, <3>2, <4>1, CornerIsAPoint
    <3> QED BY <3>3 DEF Number
  <2> HIDE DEF X, Y, low, high, origin, points
  <2>6. PICK lx \in Int, hx \in Int, x \in Int, ox \in Int :
          lx = low.x /\ hx = high.x /\ x = X(n) /\ ox = origin.x /\ lx <= x /\ x <= hx
          /\ ox = Middle(lx, hx) /\ points[n].x = ToFloat(x - ox)
    <3>1. PICK lx \in Int, hx \in Int, x \in Int :
            lx = low.x /\ hx = high.x /\ x = X(n) /\ lx <= x /\ x <= hx
      BY <1>7, <2>4, <2>5
    <3>2. Middle(lx, hx) \in Int
      BY <3>1, OriginIsNear
    <3> QED BY <1>9, <2>2, <3>1, <3>2
  <2>7. PICK ly \in Int, hy \in Int, y \in Int, oy \in Int :
          ly = low.y /\ hy = high.y /\ y = Y(n) /\ oy = origin.y /\ ly <= y /\ y <= hy
          /\ oy = Middle(ly, hy) /\ points[n].z = ToFloat(-(y - oy))
    <3>1. PICK ly \in Int, hy \in Int, y \in Int :
            ly = low.y /\ hy = high.y /\ y = Y(n) /\ ly <= y /\ y <= hy
      BY <1>7, <2>4, <2>5
    <3>2. Middle(ly, hy) \in Int
      BY <3>1, OriginIsNear
    <3> QED BY <1>9, <2>2, <3>1, <3>2
  <2>8. Magnitude((ox + ToFloat(x - ox)) - x) <= Rounding(hx - lx)
    BY <2>6, PointIsNear
  <2>9. Magnitude(oy - ToFloat(-(y - oy)) - y) <= Rounding(hy - ly)
    BY <2>7, PointIsNear
  <2> QED BY <2>6, <2>7, <2>8, <2>9
<1>11. ASSUME NEW face \in TheMesh.faces, NEW k \in 1 .. 4, points[face[k]].y # NaN
       PROVE  /\ ToFloat(low.z - origin.z) <= points[face[k]].y
              /\ points[face[k]].y <= ToFloat(high.z - origin.z)
  <2>1. PICK quad \in Quads(grid) : face = FaceOf(t, grid, quad) /\ HasFace(grid, quad, MeshOptions)
    BY DEF TheMesh, Mesh
  <2> DEFINE n == face[k]
             cell == <<n % w, n \div w>>
             height == Elevation(grid, cell, MeshOptions)
  <2>2. n \in 0 .. grid.width * grid.height - 1 /\ cell \in Cells(grid)
    <3>1. /\ face[k] \in 0 .. grid.width * grid.height - 1
          /\ face[k] % w \in 0 .. grid.width - 1 /\ face[k] \div w \in 0 .. grid.height - 1
      BY <1>3, <2>1, VerticesArePixels
    <3> HIDE DEF w
    <3> QED BY <3>1 DEF Cells
  <2>3. points[n].y = IF height = NaN THEN NaN ELSE ToFloat(height - origin.z)
    BY <1>1, <1>3, <2>2, PointSays
  <2>4. HasElevation(grid, cell, MeshOptions)
    <3>1. MeshOptions.noDataPolicy = "skip" => ~IsNoData(grid, cell)
      BY <1>3, <2>1, FacesAvoidNoData
    <3> QED BY <3>1 DEF HasElevation
  <2>5. height # NaN
    BY <1>11, <2>3
  <2>6. height \in Int
    BY <1>1, <1>3, <2>2, <2>5, ElevationsAreNumbers DEF Number
  <2>7. low.z <= height /\ height <= high.z
    BY <1>8, <2>2, <2>4, <2>5
  <2> HIDE DEF low, high, origin, points, cell, height, n
  <2>8. PICK l \in Int, h \in Int, o \in Int, e \in Int :
          l = low.z /\ h = high.z /\ o = origin.z /\ e = height /\ l <= e /\ e <= h
    <3>1. PICK l \in Int, h \in Int : l = low.z /\ h = high.z /\ l <= h
      BY <1>5, <1>8
    <3>2. Middle(l, h) \in Int
      BY <3>1, OriginIsNear
    <3> QED BY <1>9, <2>6, <2>7, <3>1, <3>2
  <2>9. PICK a \in Int, b \in Int, c \in Int : a = l - o /\ b = e - o /\ c = h - o /\ a <= b /\ b <= c
    BY <2>8
  <2>10. ToFloat(a) <= ToFloat(b) /\ ToFloat(b) <= ToFloat(c)
    BY <2>9, FloatKeepsOrder
  <2>11. points[n].y = ToFloat(e - o)
    BY <2>3, <2>5, <2>8
  <2> QED BY <2>8, <2>9, <2>10, <2>11 DEF n
<1>12. \A n : SourceX(n)' = X(n) /\ SourceY(n)' = Y(n)
  BY SourceIsThePlace
<1> HIDE DEF X, Y, low, high, origin, points
<1>13. high["x"] = high.x /\ high["y"] = high.y /\ low["x"] = low.x /\ low["y"] = low.y
  OBVIOUS
<1>14. \A n \in DOMAIN At("points")' :
         /\ Magnitude((At("geo:localOrigin")'.x + At("points")'[n].x) - SourceX(n)')
              <= Rounding(At("geo:boundsMax")'["x"] - At("geo:boundsMin")'["x"])
         /\ Magnitude(At("geo:localOrigin")'.y - At("points")'[n].z - SourceY(n)')
              <= Rounding(At("geo:boundsMax")'["y"] - At("geo:boundsMin")'["y"])
  BY <1>4, <1>10, <1>12, <1>13
<1>15. \A face \in At("faceVertexIndices")', k \in 1 .. 4 :
         At("points")'[face[k]].y # NaN =>
           /\ ToFloat(At("geo:boundsMin")'.z - At("geo:localOrigin")'.z) <= At("points")'[face[k]].y
           /\ At("points")'[face[k]].y <= ToFloat(At("geo:boundsMax")'.z - At("geo:localOrigin")'.z)
  BY <1>4, <1>11
<1> QED BY <1>14, <1>15 DEF PointsRecoverTheSource

(* They go on recovering it while nothing happens. *)
LEMMA StutteringKeepsRecovering == ASSUME UNCHANGED vars PROVE PointsRecoverTheSource => PointsRecoverTheSource'
BY DEF PointsRecoverTheSource, HasHeights, MeshWasRead, SourceX, SourceY, At, Width, vars, source

(* Origin and point give a pixel's position back, and the vertices of faces   *)
(* lie in the authored heights (AuthorMesh, LocalOrigin).                     *)
THEOREM PointsRecover == Spec => []PointsRecoverTheSource
<1>1. Init => PointsRecoverTheSource
  BY DEF Init, PointsRecoverTheSource, MeshWasRead
<1>2. ReadInvariant /\ Knows /\ PointsRecoverTheSource /\ [Next]_vars => PointsRecoverTheSource'
  <2> SUFFICES ASSUME ReadInvariant, Knows, PointsRecoverTheSource, [Next]_vars, result' = "succeeded"
               PROVE  PointsRecoverTheSource'
    BY DEF PointsRecoverTheSource, MeshWasRead
  <2> QED BY StepKeepsRecovering, StutteringKeepsRecovering DEF ReadInvariant
<1> QED BY <1>1, <1>2, ReadIsInvariant, ReadKnows, PTL DEF Spec
=============================================================================
