-------------------------- MODULE MCFileFormatRead --------------------------
(***************************************************************************)
(* Files of two or three pixels a side, around every way the arguments and *)
(* the georeferencing can fit together or not.  A byte has 2 bits, so that *)
(* a float holds 6: elevations and far coordinates do get rounded.         *)
(***************************************************************************)
EXTENDS FileFormatRead

Transform(a0, a1, a2, b0, b1, b2) ==
  [a0 |-> a0, a1 |-> a1, a2 |-> a2, b0 |-> b0, b1 |-> b1, b2 |-> b2]

\* North-up and far away, from a pixel scale and a tiepoint; south-up; rotated
\* and mirrored, from a matrix; and one whose tiepoint is not a number.
NorthUp  == FromPixelScaleAndTiepoint(2, 3, 0, 0, 4000, 8001)
SouthUp  == Transform(-40, 10, 0, 8, 0, 10)
Matrix(m00, m01, m03, m10, m11, m13) ==
  [n \in 0 .. 15 |-> CASE n = 0 -> m00 [] n = 1 -> m01 [] n = 3 -> m03
                       [] n = 4 -> m10 [] n = 5 -> m11 [] n = 7 -> m13 [] OTHER -> 0]
Rotated  == FromMatrix(Matrix(3, -1, 100, 1, 2, -60))
Mirrored == FromMatrix(Matrix(1, 2, 6, 3, -1, 2))
Nowhere  == Transform(NaN, 1, 0, 0, 0, -1)

PlainBand == [dataType |-> "int16", noData |-> {}, scale |-> {}, offset |-> {}, labels |-> {}]
HoledBand == [PlainBand EXCEPT !.noData = {-4}]
ScaledBand == [HoledBand EXCEPT !.scale = {2}, !.labels = {"unit"}]
OffsetBand == [PlainBand EXCEPT !.noData = {-4}, !.offset = {400}]
NaNBand   == [PlainBand EXCEPT !.dataType = "float32", !.noData = {NaN}, !.labels = {"description"}]
WideBand  == [PlainBand EXCEPT !.dataType = "int32", !.noData = {508}]

MetadataOf(width, height, transform, anchor, bands) ==
  [width |-> width, height |-> height, hasGeoTransform |-> TRUE, geoTransform |-> transform,
   pixelAnchor |-> anchor, bands |-> bands, overviewCount |-> 0, tiled |-> FALSE, crs |-> {}]

Raw(width, height, Sample(_)) ==
  [cell \in (0 .. width - 1) \X (0 .. height - 1) |-> Sample(cell[1] + width * cell[2])]

\* Slopes of several heights, one with a hole in the corner, one of NaN.
Slope(n) == 4 * ((3 * n) % 8)
Holed(n) == IF n = 0 THEN -4 ELSE Slope(n)
Deep(n)  == IF n = 1 THEN 508 ELSE 120 * n - 500
NotANumber(n) == IF n = 0 THEN 4 ELSE NaN
AllNaN(n) == NaN

Good(width, height, transform, anchor, band, Sample(_)) ==
  [error |-> "none", conflict |-> FALSE,
   metadata |-> MetadataOf(width, height, transform, anchor, <<band>>),
   raw |-> <<Raw(width, height, Sample)>>]

Plain == Good(2, 2, NorthUp, "area", HoledBand, Holed)

MCContents ==
  {Plain,
   Good(3, 2, NorthUp, "area", HoledBand, Holed),
   Good(3, 2, SouthUp, "point", HoledBand, Holed),
   Good(3, 3, Rotated, "area", PlainBand, Slope),
   Good(2, 3, Mirrored, "unknown", NaNBand, NotANumber),
   Good(2, 2, NorthUp, "point", NaNBand, AllNaN),
   Good(2, 2, Nowhere, "unknown", PlainBand, Slope),
   Good(1, 1, SouthUp, "point", PlainBand, Slope),
   Good(4, 4, SouthUp, "area", PlainBand, Slope),
   Good(3, 2, Rotated, "unknown", WideBand, Deep),
   Good(2, 2, SouthUp, "area", ScaledBand, Holed),
   Good(2, 2, SouthUp, "area", OffsetBand, Holed),
   [Plain EXCEPT !.metadata.bands = <<ScaledBand, OffsetBand>>,
                 !.raw = <<Raw(2, 2, Slope), Raw(2, 2, Holed)>>, !.conflict = TRUE,
                 !.metadata.tiled = TRUE, !.metadata.crs = {"wkt", "linearUnit"}],
   [Plain EXCEPT !.metadata.hasGeoTransform = FALSE, !.metadata.pixelAnchor = "unknown"],
   [Plain EXCEPT !.error = "InvalidGeoTransform", !.conflict = TRUE],
   [Plain EXCEPT !.error = "InvalidNoDataValue", !.metadata.pixelAnchor = "unknown"],
   [Plain EXCEPT !.error = "InvalidSignature"]}

Mesh1 == "representation" :> "mesh"

MCArgumentSets ==
  {<< >>, "band" :> 1, "band" :> 2, "band" :> 0, "pixelAnchor" :> "area", "pixelAnchor" :> "middle",
   "representation" :> "metadata", "representation" :> "image", "heightScale" :> 2, "zoom" :> 1,
   Mesh1, Mesh1 @@ "pixelAnchor" :> "point", Mesh1 @@ "pixelAnchor" :> "area",
   Mesh1 @@ "heightScale" :> 3, Mesh1 @@ "heightScale" :> 0, Mesh1 @@ "heightScale" :> NaN,
   Mesh1 @@ "nodata" :> "keep", Mesh1 @@ "nodata" :> "drop", Mesh1 @@ "nodata" :> "fill",
   Mesh1 @@ "nodata" :> "fill" @@ "fillValue" :> 12, Mesh1 @@ "nodata" :> "fill" @@ "fillValue" :> NaN,
   Mesh1 @@ "fillValue" :> 12, Mesh1 @@ "nodata" :> "skip" @@ "fillValue" :> 12,
   Mesh1 @@ "nodata" :> "keep" @@ "pixelAnchor" :> "area",
   Mesh1 @@ "band" :> 2 @@ "heightScale" :> 2,
   "nodata" :> "fill" @@ "fillValue" :> 12,
   "anchor" :> 1 @@ "band" :> 0, "fillValue" :> NaN @@ "zoom" :> 1}

MCFailingSets ==
  {{}, {"prim"}, {"geo:localOrigin"}, {"raster:pixelAnchor", "raster:width"}, {"points"},
   {"raster:fillValue", "faceVertexIndices"}}
=============================================================================
