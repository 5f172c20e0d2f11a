---------------------------- MODULE FileFormatRead ----------------------------
(***************************************************************************)
(* One Read of the raster-geotiff file format: parse the arguments, open   *)
(* the asset, read the metadata, check it, read the pixels of a mesh,      *)
(* author the layer, and report what was found on the way out.             *)
(*                                                                         *)
(* The file is parsed twice, once for its metadata and once by ReadWindow, *)
(* and its content may change in between.  Each read of the asset may      *)
(* fail, and so may the authoring of each attribute.  The reader is        *)
(* reduced to its outcome: GeoTiffReader and TiffParser detail it.         *)
(***************************************************************************)
EXTENDS RasterMesh

CONSTANTS
  Contents,       \* what the asset may hold
  ArgumentSets,   \* file-format arguments: functions from names to values
  FailingSets,    \* sets of the attributes Sdf fails to author, "prim" for the prim
  ParseFailures,  \* codes of a parse that could not read the source
  PixelFailures,  \* codes of a window read that fails after it was planned
  VertexCeiling,  \* kInteractiveVertexCeiling
  Nothing         \* what a variable holds before it has a value; no asset

\* DiagnosticCode, as far as Read meets it.
Code == {"InvalidSignature", "TruncatedHeader", "UnsupportedVersion", "InvalidOffset",
         "TruncatedData", "UnsupportedCompression", "UnsupportedSampleFormat",
         "UnsupportedPlanarConfiguration", "MissingGeoreference", "ConflictingGeoTransform",
         "InvalidGeoTransform", "UnknownPixelAnchor", "InvalidBandIndex", "VertexBudgetExceeded",
         "UnknownFormatArgument", "UnsupportedFormatArgument", "InvalidFormatArgument",
         "ConflictingFormatArguments", "ShortRead", "SourceUnavailable", "MemoryBudgetExceeded",
         "InvalidNoDataValue", "AuthoringFailed", "WindowOutOfBounds", "LossyConversion"}

Diagnostic == [code : Code, severity : {"error", "warning"}]

Size     == Nat \ {0}
Bands    == Seq([dataType : DataTypes, noData : SUBSET Number, scale : SUBSET Int,
                 offset : SUBSET Int, labels : SUBSET {"description", "unit"}])
Metadata == [width : Size, height : Size, hasGeoTransform : BOOLEAN, geoTransform : GeoTransform,
             pixelAnchor : Anchors, bands : Bands, overviewCount : Nat, tiled : BOOLEAN,
             crs : SUBSET {"epsg", "wkt", "linearUnit", "verticalUnit"}]

Pixels(m) == (0 .. m.width - 1) \X (0 .. m.height - 1)

\* The error is "none" where the parse succeeds and the code it ends with where
\* it does not; conflict says that the georeferencing tags disagree.  Raw holds
\* the samples of each band before scale and offset.  The parser refuses a
\* transform that cannot be inverted.
Content(c) ==
  /\ c.error \in Code \cup {"none"} /\ c.conflict \in BOOLEAN
  /\ c.metadata \in Metadata
  /\ c.metadata.hasGeoTransform => IsInvertible(c.metadata.geoTransform)
  /\ DOMAIN c.raw = DOMAIN c.metadata.bands
  /\ \A band \in DOMAIN c.raw : c.raw[band] \in [Pixels(c.metadata) -> Number]

ASSUME ContentsAssumption == Nothing \notin Contents /\ \A c \in Contents : Content(c)

\* The names an argument may have, in the order of the map; the first and the
\* last stand for names the format does not know.
NameOrder ==
  <<"anchor", "band", "fillValue", "heightScale", "nodata", "pixelAnchor", "representation", "zoom">>

Names == {NameOrder[i] : i \in DOMAIN NameOrder}

ASSUME ArgumentsAssumption ==
  \A values \in ArgumentSets :
    /\ DOMAIN values \subseteq Names
    /\ "band" \in DOMAIN values => values["band"] \in Nat
    /\ \A name \in {"heightScale", "fillValue"} \cap DOMAIN values : values[name] \in Number
ASSUME FailingAssumption == \A failing \in FailingSets : IsFiniteSet(failing)
ASSUME FailuresAssumption == ParseFailures \subseteq Code /\ PixelFailures \subseteq Code
ASSUME CeilingAssumption == VertexCeiling \in Nat /\ VertexCeiling <= MaxMeshIndex

VARIABLES
  supplied,      \* the layer's file-format arguments
  metadataOnly,  \* the parameter of Read
  asset,         \* what the asset holds now, Nothing where there is none
  replaced,      \* its content has changed
  pc,            \* where Read is
  arguments,     \* RasterArguments
  metadata,      \* the metadata of the first parse
  anchorSource,  \* pixelAnchorSource
  grid,          \* what ReadWindow delivered
  layer,         \* the type and the attributes of /Raster
  sink,          \* the diagnostics collected
  posted,        \* what was posted to Tf
  result         \* what Read returned

source == <<supplied, metadataOnly, asset, replaced>>
known  == <<arguments, metadata, anchorSource, grid>>
vars   == <<source, pc, known, layer, sink, posted, result>>

NoLayer    == [type |-> "none", attributes |-> << >>]
ZeroBounds == [min |-> [x |-> 0, y |-> 0, z |-> 0], max |-> [x |-> 0, y |-> 0, z |-> 0]]

-----------------------------------------------------------------------------
(***************************************************************************)
(* Diagnostics.                                                            *)
(***************************************************************************)
Error(code)   == [code |-> code, severity |-> "error"]
Warning(code) == [code |-> code, severity |-> "warning"]

HasError(diagnostics) == \E i \in DOMAIN diagnostics : diagnostics[i].severity = "error"

PluginCode(code) ==
  CASE code \in {"InvalidSignature", "TruncatedHeader"}                              -> "GTIF001"
    [] code = "UnsupportedVersion"                                                 -> "GTIF002"
    [] code \in {"InvalidOffset", "TruncatedData"}                                 -> "GTIF003"
    [] code = "UnsupportedCompression"                                             -> "GTIF004"
    [] code \in {"UnsupportedSampleFormat", "UnsupportedPlanarConfiguration"}      -> "GTIF005"
    [] code = "MissingGeoreference"                                                -> "GTIF006"
    [] code = "ConflictingGeoTransform"                                            -> "GTIF007"
    [] code = "InvalidGeoTransform"                                                -> "GTIF008"
    [] code = "UnknownPixelAnchor"                                                 -> "GTIF009"
    [] code = "InvalidBandIndex"                                                   -> "GTIF010"
    [] code = "VertexBudgetExceeded"                                               -> "GTIF012"
    [] code \in {"UnknownFormatArgument", "UnsupportedFormatArgument",
                 "InvalidFormatArgument", "ConflictingFormatArguments"}            -> "GTIF013"
    [] code \in {"ShortRead", "SourceUnavailable"}                                 -> "GTIF014"
    [] code = "MemoryBudgetExceeded"                                               -> "GTIF016"
    [] code = "InvalidNoDataValue"                                                 -> "GTIF018"
    [] code = "AuthoringFailed"                                                    -> "GTIF019"
    [] OTHER                                                                       -> "GTIF003"

Projected(diagnostics) ==
  [i \in DOMAIN diagnostics |->
     [code |-> PluginCode(diagnostics[i].code), severity |-> diagnostics[i].severity]]

\* ReportDiagnostics and the return that follows it on every path.
Return(verdict, diagnostics) ==
  /\ sink' = diagnostics
  /\ posted' = posted \o Projected(diagnostics)
  /\ result' = verdict
  /\ pc' = "done"

Refuse(diagnostics) == Return("refused", sink \o diagnostics) /\ UNCHANGED <<source, known, layer>>

Proceed(next) == pc' = next /\ UNCHANGED <<posted, result>>

-----------------------------------------------------------------------------
(***************************************************************************)
(* Arguments.  A value that does not parse is NaN, or 0 for a band.        *)
(***************************************************************************)
Value(values, name, default) == IF name \in DOMAIN values THEN values[name] ELSE default

ArgumentError(name, value) ==
  CASE name = "representation" -> IF value \in {"metadata", "mesh"} THEN "none" ELSE "UnsupportedFormatArgument"
    [] name = "band"           -> IF value > 0 THEN "none" ELSE "InvalidFormatArgument"
    [] name = "pixelAnchor"    -> IF value \in {"area", "point"} THEN "none" ELSE "InvalidFormatArgument"
    [] name = "heightScale"    -> IF value \in Int /\ value > 0 THEN "none" ELSE "InvalidFormatArgument"
    [] name = "nodata"         -> IF value \in {"skip", "fill", "keep"} THEN "none" ELSE "InvalidFormatArgument"
    [] name = "fillValue"      -> IF value # NaN THEN "none" ELSE "InvalidFormatArgument"
    [] OTHER                   -> "UnknownFormatArgument"

Parsed(values) ==
  [representation |-> Value(values, "representation", "metadata"),
   band           |-> Value(values, "band", 1),
   pixelAnchor    |-> Value(values, "pixelAnchor", "unknown"),
   heightScale    |-> Value(values, "heightScale", 1),
   noDataPolicy   |-> Value(values, "nodata", "skip"),
   fillValue      |-> Value(values, "fillValue", 0)]

\* The first argument of the map that is wrong, then the combinations.
ArgumentsError(values) ==
  LET error(i) == ArgumentError(NameOrder[i], values[NameOrder[i]])
      wrong    == {i \in DOMAIN NameOrder : NameOrder[i] \in DOMAIN values /\ error(i) # "none"}
      forMesh  == {"heightScale", "nodata", "fillValue"} \cap DOMAIN values
  IN  IF wrong # {} THEN error(CHOOSE i \in wrong : \A j \in wrong : i <= j)
      ELSE IF Parsed(values).representation # "mesh" /\ forMesh # {} THEN "UnsupportedFormatArgument"
      ELSE IF "fillValue" \in DOMAIN values /\ Parsed(values).noDataPolicy # "fill"
             THEN "ConflictingFormatArguments"
      ELSE IF Parsed(values).noDataPolicy = "fill" /\ "fillValue" \notin DOMAIN values
             THEN "InvalidFormatArgument"
      ELSE "none"

Init ==
  /\ supplied \in ArgumentSets
  /\ metadataOnly \in BOOLEAN
  /\ asset \in Contents \cup {Nothing}
  /\ replaced = FALSE
  /\ pc = "arguments"
  /\ arguments = Nothing /\ metadata = Nothing /\ anchorSource = "file" /\ grid = Nothing
  /\ layer = NoLayer
  /\ sink = << >> /\ posted = << >>
  /\ result = "none"

ParseArguments ==
  /\ pc = "arguments"
  /\ IF ArgumentsError(supplied) # "none"
       THEN Refuse(<<Error(ArgumentsError(supplied))>>)
       ELSE /\ arguments' = IF metadataOnly THEN [Parsed(supplied) EXCEPT !.representation = "metadata"]
                                            ELSE Parsed(supplied)
            /\ Proceed("asset")
            /\ UNCHANGED <<source, metadata, anchorSource, grid, layer, sink>>

\* A wrong OpenAsset: what the resolver returned is not looked at.
OpenAssetUnchecked ==
  pc = "asset" /\ Proceed("metadata") /\ UNCHANGED <<source, known, layer, sink>>

OpenAsset ==
  /\ pc = "asset"
  /\ IF asset = Nothing
       THEN Refuse(<<Error("SourceUnavailable")>>)
       ELSE Proceed("metadata") /\ UNCHANGED <<source, known, layer, sink>>

-----------------------------------------------------------------------------
(***************************************************************************)
(* Parsing.                                                                *)
(***************************************************************************)
\* What the parser warns of before it ends, and the error it ends with.  NoData
\* comes after the georeferencing.
ParserDiagnostics(content) ==
  LET m == content.metadata
  IN  (IF content.conflict THEN <<Warning("ConflictingGeoTransform")>> ELSE << >>)
        \o (IF content.error \in {"none", "InvalidNoDataValue"}
                /\ m.hasGeoTransform /\ m.pixelAnchor = "unknown"
              THEN <<Warning("UnknownPixelAnchor")>> ELSE << >>)
        \o (IF content.error # "none" THEN <<Error(content.error)>> ELSE << >>)

\* The bounds, when the file says how its samples are anchored.
WithBounds(m) ==
  [width |-> m.width, height |-> m.height, hasGeoTransform |-> m.hasGeoTransform,
   geoTransform |-> m.geoTransform, pixelAnchor |-> m.pixelAnchor, bands |-> m.bands,
   overviewCount |-> m.overviewCount, tiled |-> m.tiled, crs |-> m.crs,
   bounds |-> IF m.hasGeoTransform /\ m.pixelAnchor # "unknown"
                THEN TryGetWindowBounds(m.geoTransform, m, m.pixelAnchor) ELSE ZeroBounds]

ReadMetadata ==
  /\ pc = "metadata"
  /\ IF asset.error # "none"
       THEN Refuse(ParserDiagnostics(asset))
       ELSE /\ metadata' = WithBounds(asset.metadata)
            /\ sink' = sink \o ParserDiagnostics(asset)
            /\ Proceed("checks")
            /\ UNCHANGED <<source, arguments, anchorSource, grid, layer>>

\* The source cannot be read: the parse ends before it warns of anything.
FailToParse ==
  /\ pc \in {"metadata", "pixels"}
  /\ \E code \in ParseFailures : Refuse(<<Error(code)>>)

\* FindBand: the bands are numbered from 1.
HasBand(m, band) == band \in DOMAIN m.bands

SourceError ==
  IF ~metadata.hasGeoTransform THEN "MissingGeoreference"
  ELSE IF ~HasBand(metadata, arguments.band) THEN "InvalidBandIndex"
  ELSE IF "unknown" \notin {metadata.pixelAnchor, arguments.pixelAnchor} THEN "ConflictingFormatArguments"
  ELSE IF metadata.pixelAnchor = arguments.pixelAnchor THEN "MissingGeoreference"
  ELSE IF arguments.representation = "mesh" /\ metadata.width * metadata.height > VertexCeiling
    THEN "VertexBudgetExceeded"
  ELSE "none"

\* A wrong CheckSource: the bounds are left as the parser left them.
CheckSourceKeepingBounds ==
  /\ pc = "checks" /\ SourceError = "none"
  /\ metadata' = [metadata EXCEPT
       !.pixelAnchor = IF @ = "unknown" THEN arguments.pixelAnchor ELSE @]
  /\ anchorSource' = IF metadata.pixelAnchor = "unknown" THEN "argument" ELSE "file"
  /\ Proceed(IF arguments.representation = "metadata" THEN "scope" ELSE "pixels")
  /\ UNCHANGED <<source, arguments, grid, layer, sink>>

\* A wrong CheckSource: the prim is created before the pixels are read.
CheckSourceCreatingPrim ==
  /\ pc = "checks" /\ SourceError = "none" /\ metadata.pixelAnchor # "unknown"
  /\ layer' = [NoLayer EXCEPT !.type = "Scope"]
  /\ Proceed(IF arguments.representation = "metadata" THEN "scope" ELSE "pixels")
  /\ UNCHANGED <<source, known, sink>>

\* An anchor supplied by argument brings the bounds with it.
CheckSource ==
  /\ pc = "checks"
  /\ IF SourceError # "none"
       THEN Refuse(<<Error(SourceError)>>)
       ELSE /\ IF metadata.pixelAnchor = "unknown"
                 THEN /\ metadata' = [metadata EXCEPT
                           !.pixelAnchor = arguments.pixelAnchor,
                           !.bounds = TryGetWindowBounds(metadata.geoTransform, metadata, arguments.pixelAnchor)]
                      /\ anchorSource' = "argument"
                 ELSE UNCHANGED <<metadata, anchorSource>>
            /\ Proceed(IF arguments.representation = "metadata" THEN "scope" ELSE "pixels")
            /\ UNCHANGED <<source, arguments, grid, layer, sink>>

\* Between the two parses the asset's content is replaced.
ReplaceContent ==
  /\ pc = "pixels" /\ ~replaced
  /\ asset' \in Contents \ {asset}
  /\ replaced' = TRUE
  /\ UNCHANGED <<supplied, metadataOnly, pc, known, layer, sink, posted, result>>

-----------------------------------------------------------------------------
(***************************************************************************)
(* Pixels.  The window is the whole raster of the first parse; the options *)
(* are the default ones but for the band, so that samples become floats.   *)
(***************************************************************************)
WindowError ==
  IF ~HasBand(asset.metadata, arguments.band) THEN "InvalidBandIndex"
  ELSE IF metadata.width > asset.metadata.width \/ metadata.height > asset.metadata.height
         THEN "WindowOutOfBounds"
  ELSE "none"

Band == asset.metadata.bands[arguments.band]

LossyWarning ==
  IF IsExactlyRepresentable(Band.dataType, "float32") THEN << >> ELSE <<Warning("LossyConversion")>>

Delivered ==
  [width |-> metadata.width, height |-> metadata.height, x |-> 0, y |-> 0, step |-> 1,
   band |-> arguments.band, noData |-> Band.noData,
   sample |-> [cell \in Pixels(metadata) |->
                 ConvertSample(ApplyScaleAndOffset(asset.raw[arguments.band][cell], Band.scale, Band.offset),
                               "float32")]]

ReadWindow ==
  /\ pc = "pixels"
  /\ IF asset.error # "none"
       THEN Refuse(ParserDiagnostics(asset))
     ELSE IF WindowError # "none"
       THEN Refuse(ParserDiagnostics(asset) \o <<Error(WindowError)>>)
       ELSE /\ grid' = Delivered
            /\ sink' = sink \o ParserDiagnostics(asset) \o LossyWarning
            /\ Proceed("mesh")
            /\ UNCHANGED <<source, arguments, metadata, anchorSource, layer>>

FailToReadPixels ==
  /\ pc = "pixels"
  /\ asset.error = "none" /\ WindowError = "none"
  /\ \E code \in PixelFailures, warned \in {<< >>, LossyWarning} :
       Refuse(ParserDiagnostics(asset) \o warned \o <<Error(code)>>)

-----------------------------------------------------------------------------
(***************************************************************************)
(* Authoring.  An attribute that fails is reported and the others are      *)
(* still authored.                                                         *)
(***************************************************************************)
name :> value == [n \in {name} |-> value]

\* The first of two says what both have.
f @@ g == [n \in DOMAIN f \cup DOMAIN g |-> IF n \in DOMAIN f THEN f[n] ELSE g[n]]

Optional(present, name, value) == IF present THEN name :> value ELSE << >>

\* An array with an entry for each band is authored only if every band has it.
BandArray(name, field) ==
  Optional(\A band \in DOMAIN metadata.bands : metadata.bands[band][field] # {}, name,
           [band \in DOMAIN metadata.bands |-> metadata.bands[band][field]])

\* An array of labels is authored if any band has one.
Labels(name, label) ==
  Optional(\E band \in DOMAIN metadata.bands : label \in metadata.bands[band].labels, name,
           [band \in DOMAIN metadata.bands |-> label \in metadata.bands[band].labels])

SourceAttributes ==
  "geo:sourceIdentifier" :> "label"
  @@ Optional({"epsg", "wkt"} \cap metadata.crs # {}, "geo:crs",
              IF "epsg" \in metadata.crs THEN "epsg" ELSE "wkt")
  @@ Optional("wkt" \in metadata.crs, "geo:crsWkt", "wkt")
  @@ Optional("linearUnit" \in metadata.crs, "geo:linearUnit", "linearUnit")
  @@ Optional("verticalUnit" \in metadata.crs, "geo:verticalUnit", "verticalUnit")

PlaceAttributes(origin, bounds) ==
  "geo:localOrigin" :> origin @@ "geo:boundsMin" :> bounds.min @@ "geo:boundsMax" :> bounds.max

RasterAttributes ==
  "raster:width" :> metadata.width
  @@ "raster:height" :> metadata.height
  @@ "raster:bandCount" :> Len(metadata.bands)
  @@ "raster:geoTransform" :> metadata.geoTransform
  @@ "raster:pixelAnchor" :> metadata.pixelAnchor
  @@ "raster:pixelAnchorSource" :> anchorSource

SelectionAttributes ==
  "raster:dataType" :> metadata.bands[arguments.band].dataType
  @@ "raster:selectedBand" :> arguments.band
  @@ "raster:overviewCount" :> metadata.overviewCount

BandAttributes ==
  LET noData == metadata.bands[arguments.band].noData
  IN  "raster:bandIndices" :> [band \in DOMAIN metadata.bands |-> band]
      @@ "raster:bandDataTypes" :> [band \in DOMAIN metadata.bands |-> metadata.bands[band].dataType]
      @@ Labels("raster:bandDescriptions", "description")
      @@ Labels("raster:bandUnits", "unit")
      @@ BandArray("raster:bandScales", "scale")
      @@ BandArray("raster:bandOffsets", "offset")
      @@ BandArray("raster:bandNoDataValues", "noData")
      @@ Optional(noData # {}, "raster:noDataValue", noData)
      @@ Optional(metadata.tiled, "raster:nativeTileWidth", "tile")
      @@ Optional(metadata.tiled, "raster:nativeTileHeight", "tile")

MetadataAttributes ==
  SourceAttributes
  @@ PlaceAttributes(FromBounds(metadata.bounds), metadata.bounds)
  @@ RasterAttributes @@ SelectionAttributes @@ BandAttributes

\* A wrong MeshOptions: the height scale stays the default.
MeshOptionsUnscaled ==
  [heightScale |-> 1, heightOffset |-> 0,
   noDataPolicy |-> arguments.noDataPolicy, fillValue |-> arguments.fillValue]

MeshOptions ==
  [heightScale |-> arguments.heightScale, heightOffset |-> 0,
   noDataPolicy |-> arguments.noDataPolicy, fillValue |-> arguments.fillValue]

GeometryAttributes(mesh) ==
  "points" :> mesh.points
  @@ "faceVertexCounts" :> [face \in mesh.faces |-> 4]
  @@ "faceVertexIndices" :> mesh.faces
  @@ "extent" :> mesh.extent
  @@ "orientation" :> "rightHanded"
  @@ "subdivisionScheme" :> "none"

MeshOptionAttributes ==
  "raster:representation" :> "mesh"
  @@ "raster:samplingStep" :> grid.step
  @@ "raster:heightScale" :> MeshOptions.heightScale
  @@ "raster:heightOffset" :> MeshOptions.heightOffset
  @@ "raster:noDataPolicy" :> MeshOptions.noDataPolicy
  @@ Optional(MeshOptions.noDataPolicy = "fill", "raster:fillValue", MeshOptions.fillValue)

MeshAttributes ==
  LET mesh == Mesh(metadata, grid, MeshOptions)
  IN  PlaceAttributes(mesh.origin, mesh.bounds) @@ GeometryAttributes(mesh) @@ MeshOptionAttributes

Written(attributes, failing) == [name \in DOMAIN attributes \ failing |-> attributes[name]]

\* One error for each attribute that failed.
Failures(attributes, failing) ==
  [i \in 1 .. Cardinality(DOMAIN attributes \cap failing) |-> Error("AuthoringFailed")]

\* What keeps AuthorMetadata and AuthorMesh from authoring anything.
CannotAuthor(failing) == ~metadata.hasGeoTransform \/ ~IsValid(metadata.bounds) \/ "prim" \in failing

CannotBuildMesh ==
  \/ metadata.pixelAnchor = "unknown"
  \/ ~HasBand(metadata, grid.band)
  \/ ~InsideSource(metadata, grid)
  \/ IndexLimitExceeded(grid, MeshOptions)

\* A wrong Authored: the results of the single attributes are dropped.
AuthoredRegardless(type, attributes, failures) ==
  /\ layer' = [type |-> type, attributes |-> attributes]
  /\ Return("succeeded", sink \o failures)
  /\ UNCHANGED <<source, known>>

Authored(type, attributes, failures) ==
  /\ layer' = [type |-> type, attributes |-> attributes]
  /\ Return(IF failures = << >> THEN "succeeded" ELSE "refused", sink \o failures)
  /\ UNCHANGED <<source, known>>

AuthorMetadata(failing) ==
  /\ pc = "scope"
  /\ IF CannotAuthor(failing)
       THEN Refuse(<<Error("AuthoringFailed")>>)
       ELSE Authored("Scope", Written(MetadataAttributes, failing), Failures(MetadataAttributes, failing))

\* AuthorMesh authors the metadata first and ends there if that fails; what it
\* cannot author of the mesh keeps the value the metadata gave it.
AuthorMesh(failing, failingLater) ==
  LET record == Failures(MetadataAttributes, failing)
  IN  /\ pc = "mesh"
      /\ IF CannotAuthor(failing) \/ CannotBuildMesh
           THEN Refuse(<<Error("AuthoringFailed")>>)
         ELSE IF record # << >>
           THEN Authored("Scope", Written(MetadataAttributes, failing), record)
           ELSE Authored("Mesh", Written(MeshAttributes, failingLater) @@ MetadataAttributes,
                         Failures(MeshAttributes, failingLater))

Next ==
  \/ ParseArguments \/ OpenAsset \/ ReadMetadata \/ FailToParse \/ CheckSource
  \/ ReadWindow \/ FailToReadPixels
  \/ \E failing \in FailingSets : AuthorMetadata(failing)
  \/ \E failing, failingLater \in FailingSets : AuthorMesh(failing, failingLater)
  \/ ReplaceContent

Spec == Init /\ [][Next]_vars

-----------------------------------------------------------------------------
(***************************************************************************)
(* Properties.                                                             *)
(***************************************************************************)
RasterArguments ==
  [representation : {"metadata", "mesh"}, band : Nat \ {0}, pixelAnchor : Anchors,
   heightScale : Nat \ {0}, noDataPolicy : {"skip", "fill", "keep"}, fillValue : Int]

Point  == [x : Int, y : Int, z : Int]
Bounds == [min : Point, max : Point]

MetadataWithBounds ==
  [width : Size, height : Size, hasGeoTransform : BOOLEAN, geoTransform : GeoTransform,
   pixelAnchor : Anchors, bands : Bands, overviewCount : Nat, tiled : BOOLEAN,
   crs : SUBSET {"epsg", "wkt", "linearUnit", "verticalUnit"}, bounds : Bounds]

TypeOK ==
  /\ supplied \in ArgumentSets /\ metadataOnly \in BOOLEAN
  /\ asset \in Contents \cup {Nothing} /\ replaced \in BOOLEAN
  /\ pc \in {"arguments", "asset", "metadata", "checks", "pixels", "scope", "mesh", "done"}
  /\ pc \notin {"arguments", "done"} => arguments \in RasterArguments
  /\ pc \notin {"arguments", "asset", "done"} => asset \in Contents
  /\ pc \in {"checks", "pixels", "scope", "mesh"} => metadata \in MetadataWithBounds
  /\ pc \in {"pixels", "scope", "mesh"} => metadata.pixelAnchor # "unknown" /\ HasBand(metadata, arguments.band)
  /\ pc = "mesh" => grid.band = arguments.band /\ DOMAIN grid.sample = Pixels(metadata)
  /\ anchorSource \in {"file", "argument"}
  /\ layer.type \in {"none", "Scope", "Mesh"}
  /\ sink \in Seq(Diagnostic)
  /\ result \in {"none", "refused", "succeeded"}

\* Read returns true exactly when no error was posted, and every diagnostic is
\* posted once and in order, whichever of the fourteen returns it takes
\* (UsdRasterGeoTiffFileFormat::Read, ReportDiagnostics).
ReadTellsTheTruth ==
  /\ pc = "done" => posted = Projected(sink) /\ (result = "succeeded" <=> ~HasError(posted))
  /\ pc # "done" => posted = << >> /\ result = "none"

\* A read that is refused leaves no prim, unless all that went wrong was to
\* author attributes of it: no check and no read comes after the first change
\* to the layer (Read, AuthorMetadata, AuthorMesh).
RefusalLeavesNoPrim ==
  result = "refused" /\ layer # NoLayer =>
    \A i \in DOMAIN posted : posted[i].severity = "error" => posted[i].code = "GTIF019"

\* What a read that succeeded leaves for either representation.
Required ==
  {"geo:localOrigin", "geo:boundsMin", "geo:boundsMax", "raster:width", "raster:height",
   "raster:geoTransform", "raster:pixelAnchor", "raster:pixelAnchorSource", "raster:selectedBand"}
    \cup IF layer.type = "Mesh" THEN {"points", "faceVertexCounts", "faceVertexIndices", "extent"} ELSE {}

At(name) == layer.attributes[name]

\* A layer that was read says where it is, and how it knows: the anchor is the
\* file's if it has one and the argument's if not, never a guess, and the
\* horizontal bounds are those of that anchor, also when the anchor came after
\* the parse (the pixelAnchor block of Read).
SuccessIsAnchored ==
  result = "succeeded" =>
    LET bounds == TryGetWindowBounds(At("raster:geoTransform"),
                                     [width |-> At("raster:width"), height |-> At("raster:height")],
                                     At("raster:pixelAnchor"))
    IN  /\ Required \subseteq DOMAIN layer.attributes
        /\ layer.type = IF metadataOnly THEN "Scope"
                        ELSE IF Value(supplied, "representation", "metadata") = "mesh" THEN "Mesh" ELSE "Scope"
        /\ At("raster:pixelAnchor") \in {"area", "point"}
        /\ At("raster:pixelAnchorSource") = "argument" <=> "pixelAnchor" \in DOMAIN supplied
        /\ [At("geo:boundsMin") EXCEPT !.z = 0] = bounds.min
        /\ [At("geo:boundsMax") EXCEPT !.z = 0] = bounds.max

\* No argument is ignored: each one shows in the layer, or the read is refused
\* (FILE_FORMAT_ARGUMENTS.md, rules 1 and 2; ParseRasterArguments).  Only
\* metadataOnly sets the representation aside, and with it what belongs to a mesh.
ShowsIn ==
  [band |-> "raster:selectedBand", fillValue |-> "raster:fillValue",
   heightScale |-> "raster:heightScale", nodata |-> "raster:noDataPolicy",
   pixelAnchor |-> "raster:pixelAnchor", representation |-> "raster:representation"]

ArgumentsTakeEffect ==
  result = "succeeded" =>
    \A name \in DOMAIN supplied :
      \/ metadataOnly /\ name \notin {"band", "pixelAnchor"} /\ name \in DOMAIN ShowsIn
      \/ name = "representation" /\ supplied[name] = "metadata" /\ layer.type = "Scope"
      \/ name \in DOMAIN ShowsIn /\ At(ShowsIn[name]) = supplied[name]

-----------------------------------------------------------------------------
MeshWasRead == result = "succeeded" /\ layer.type = "Mesh"

Width  == At("raster:width")
Height == At("raster:height")

\* Where vertex n lies in the source, by the attributes of the layer alone.
SourceX(n) == ApplyX(At("raster:geoTransform"), GetPixelCoord(n % Width, n \div Width, At("raster:pixelAnchor")))
SourceY(n) == ApplyY(At("raster:geoTransform"), GetPixelCoord(n % Width, n \div Width, At("raster:pixelAnchor")))

\* No elevation is left at an infinity.
HasHeights == At("geo:boundsMin").z <= At("geo:boundsMax").z

\* The error of a coordinate of at most half an extent, and the quantum of the
\* origin, in a float.
Rounding(extent) == UnitInLastPlace(extent \div 2 + One) \div 2

\* There is one point for each pixel the layer records, and the place of a pixel
\* gives that pixel back, for cells and samples, rotated or mirrored, also when
\* the file was replaced between the two parses (AuthorMesh, TrySourceToPixel).
PlacesGiveTheirPixel ==
  MeshWasRead =>
    /\ DOMAIN At("points") = 0 .. Width * Height - 1
    /\ \A n \in DOMAIN At("points") :
         TrySourceToPixel(At("raster:geoTransform"), SourceX(n), SourceY(n), At("raster:pixelAnchor"),
                          [width |-> Width, height |-> Height])
           = {[i |-> n % Width, j |-> n \div Width]}

\* Origin and point together give the pixel's position back to within the float
\* of half the raster, however far from zero it lies, and no vertex of a face is
\* higher or lower than the bounds allow after scaling and filling, if it is a
\* number (AuthorMesh, LocalOrigin).
PointsRecoverTheSource ==
  MeshWasRead /\ HasHeights =>
    LET points == At("points")
        origin == At("geo:localOrigin")
        low    == At("geo:boundsMin")
        high   == At("geo:boundsMax")
        near(a, b, axis) == Magnitude(a - b) <= Rounding(high[axis] - low[axis])
        between(height)  == /\ ToFloat(low.z - origin.z) <= height
                            /\ height <= ToFloat(high.z - origin.z)
    IN  /\ \A n \in DOMAIN points : /\ near(origin.x + points[n].x, SourceX(n), "x")
                                    /\ near(origin.y - points[n].z, SourceY(n), "y")
        /\ \A face \in At("faceVertexIndices"), k \in 1 .. 4 :
             points[face[k]].y # NaN => between(points[face[k]].y)

\* Every vertex of a face is a point and lies inside the bounds that are
\* authored beside it, at whichever corners a rotated raster has its extremes
\* (AuthorMesh, TryGetWindowBounds).
FacesLieInTheBounds ==
  MeshWasRead =>
    \A face \in At("faceVertexIndices"), k \in 1 .. 4 :
      LET n    == face[k]
          low  == At("geo:boundsMin")
          high == At("geo:boundsMax")
      IN  /\ n \in DOMAIN At("points")
          /\ low.x <= SourceX(n) /\ SourceX(n) <= high.x
          /\ low.y <= SourceY(n) /\ SourceY(n) <= high.y

\* Seen from above every face runs counter-clockwise, at each of its corners,
\* for mirrored and rotated transforms too (AuthorMesh's reverseWinding).  North
\* is away from the viewer: the turn is that of source coordinates.
FacesPointUp ==
  MeshWasRead =>
    \A face \in At("faceVertexIndices"), k \in 1 .. 4 :
      LET a == face[k]
          b == face[(k % 4) + 1]
          c == face[((k + 1) % 4) + 1]
      IN  (SourceX(b) - SourceX(a)) * (SourceY(c) - SourceY(b))
            - (SourceY(b) - SourceY(a)) * (SourceX(c) - SourceX(b)) > 0

\* The pixels whose stored value is the file's NoData, when its band is the one
\* the layer records.
HolesOf(content) ==
  {n \in 0 .. Width * Height - 1 :
     Matches(content.metadata.bands[At("raster:selectedBand")].noData,
             content.raw[At("raster:selectedBand")][<<n % Width, n \div Width>>])}

Showing(holes) ==
  CASE At("raster:noDataPolicy") = "skip" ->
         \E face \in At("faceVertexIndices"), k \in 1 .. 4 : face[k] \in holes
    [] At("raster:noDataPolicy") = "fill" ->
         \E n \in holes : At("points")[n].y # ToFloat(At("raster:heightScale") * At("raster:fillValue")
                                                        - At("geo:localOrigin").z)
    [] At("raster:noDataPolicy") = "keep" -> FALSE

\* A band whose samples reach the grid as they are stored.
DeliveredAsStored(content) ==
  LET band == content.metadata.bands[At("raster:selectedBand")]
  IN  /\ band.scale = {} /\ band.offset = {}
      /\ IsExactlyRepresentable(band.dataType, "float32")
      /\ \A value \in band.noData : ToFloat(value) = value

\* A pixel that stores the file's NoData carries no elevation: no face touches
\* it, or it is as high as the fill value says (NoDataValue::Matches, AuthorMesh).
\* It holds for a band that is delivered as it is stored, and for the file the
\* pixels are of: the sentinel comes with them, whatever the first parse saw.
NoDataCarriesNoElevation ==
  MeshWasRead /\ DeliveredAsStored(asset) => ~Showing(HolesOf(asset))

\* What COORDINATE_MODEL.md says in section 9 of every band.  Refuted for a band
\* with a scale or an offset: NoData is compared after they are applied.
NoDataNeverShows == MeshWasRead /\ ~replaced => ~Showing(HolesOf(asset))
=============================================================================
