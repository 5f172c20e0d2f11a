------------------------------ MODULE RasterMesh ------------------------------
(***************************************************************************)
(* From a grid of samples to a mesh on a stage: the geotransform and the   *)
(* pixel anchor, the bounds and the local origin, and the points and faces *)
(* AuthorMesh builds of them.                                              *)
(*                                                                         *)
(* Coordinates and elevations are counted like samples, in fractions of    *)
(* 1 / One; the coefficients per pixel and the height scale are whole.     *)
(* The additions of doubles are exact.  The narrowing to float is not: it  *)
(* is RasterSamples' ToFloat.                                              *)
(***************************************************************************)
EXTENDS RasterSamples, FiniteSets, Sequences

CONSTANTS
  Infinity,      \* larger than every coordinate and elevation
  Collapse,      \* 10^15: how much smaller than its square a determinant may be
  MaxMeshIndex   \* the largest int

ASSUME InfinityAssumption == Infinity \in Nat \ {0}
ASSUME CollapseAssumption == Collapse \in Nat \ {0}
ASSUME IndexAssumption    == MaxMeshIndex \in Nat

Anchors == {"area", "point", "unknown"}

\* The parser takes an offset that is not a number.
GeoTransform == [a0 : Number, a1 : Int, a2 : Int, b0 : Number, b1 : Int, b2 : Int]

-----------------------------------------------------------------------------
(***************************************************************************)
(* RasterGeoTransform.                                                     *)
(***************************************************************************)

\* The tag holds a magnitude: the rows run downwards.
FromPixelScaleAndTiepoint(sizeX, sizeY, pixelX, pixelY, sourceX, sourceY) ==
  [a0 |-> sourceX - sizeX * pixelX, a1 |-> sizeX, a2 |-> 0,
   b0 |-> sourceY + sizeY * pixelY, b1 |-> 0, b2 |-> -sizeY]

\* A row-major four by four matrix, numbered from 0.
FromMatrix(m) == [a0 |-> m[3], a1 |-> m[0], a2 |-> m[1], b0 |-> m[7], b1 |-> m[4], b2 |-> m[5]]

ApplyX(t, pixel) == IF t.a0 = NaN THEN NaN ELSE t.a0 + t.a1 * pixel.px + t.a2 * pixel.py
ApplyY(t, pixel) == IF t.b0 = NaN THEN NaN ELSE t.b0 + t.b1 * pixel.px + t.b2 * pixel.py

\* Sample (i, j) lies in the middle of its cell, or on its corner.
GetPixelCoord(i, j, anchor) ==
  LET shift == IF anchor = "area" THEN One \div 2 ELSE 0
  IN  [px |-> One * i + shift, py |-> One * j + shift]

Determinant(t) == t.a1 * t.b2 - t.a2 * t.b1

IsInvertible(t) ==
  LET scale == Magnitude(t.a1) + Magnitude(t.a2) + Magnitude(t.b1) + Magnitude(t.b2)
  IN  Determinant(t) # 0 /\ Magnitude(Determinant(t)) * Collapse > scale * scale

\* The whole part, towards minus infinity, of a fraction.
FloorOf(numerator, denominator) ==
  IF denominator > 0 THEN numerator \div denominator ELSE (-numerator) \div (-denominator)

\* A wrong TryInverse: the shears of the transform are exchanged.
TrySourceToPixelTransposed(t, x, y, anchor, size) ==
  LET dx == x - t.a0
      dy == y - t.b0
      denominator == 2 * One * Determinant(t)
      shift == IF anchor = "area" THEN 0 ELSE One * Determinant(t)
      i == FloorOf(2 * (t.b2 * dx - t.b1 * dy) + shift, denominator)
      j == FloorOf(2 * (t.a1 * dy - t.a2 * dx) + shift, denominator)
  IN  IF anchor # "unknown" /\ IsInvertible(t) /\ i \in 0 .. size.width - 1 /\ j \in 0 .. size.height - 1
        THEN {[i |-> i, j |-> j]}
        ELSE {}

\* TryInverse, then the index whose sample lies nearest; none outside the
\* raster.  Half a pixel is taken off for cells and added to round.
TrySourceToPixel(t, x, y, anchor, size) ==
  LET dx == x - t.a0
      dy == y - t.b0
      denominator == 2 * One * Determinant(t)
      shift == IF anchor = "area" THEN 0 ELSE One * Determinant(t)
      i == FloorOf(2 * (t.b2 * dx - t.a2 * dy) + shift, denominator)
      j == FloorOf(2 * (t.a1 * dy - t.b1 * dx) + shift, denominator)
  IN  IF anchor # "unknown" /\ IsInvertible(t) /\ i \in 0 .. size.width - 1 /\ j \in 0 .. size.height - 1
        THEN {[i |-> i, j |-> j]}
        ELSE {}

-----------------------------------------------------------------------------
(***************************************************************************)
(* GeoBounds and LocalOrigin.                                              *)
(***************************************************************************)
EmptyBounds ==
  [min |-> [x |-> Infinity, y |-> Infinity, z |-> Infinity],
   max |-> [x |-> -Infinity, y |-> -Infinity, z |-> -Infinity]]

IsValid(b) == b.min.x <= b.max.x /\ b.min.y <= b.max.y /\ b.min.z <= b.max.z

Lesser(a, b)  == IF b < a THEN b ELSE a
Greater(a, b) == IF a < b THEN b ELSE a

\* A point with a part that is not a number is passed over.
Expand(b, p) ==
  IF NaN \in {p.x, p.y, p.z} THEN b ELSE
  [min |-> [x |-> Lesser(b.min.x, p.x), y |-> Lesser(b.min.y, p.y), z |-> Lesser(b.min.z, p.z)],
   max |-> [x |-> Greater(b.max.x, p.x), y |-> Greater(b.max.y, p.y), z |-> Greater(b.max.z, p.z)]]

\* A wrong TryGetWindowBounds: two opposite corners are taken to bound it.
TwoCornersBounds(t, size, anchor) ==
  LET last == IF anchor = "area" THEN 0 ELSE 1
      corner(px, py) == [x |-> ApplyX(t, [px |-> px, py |-> py]),
                         y |-> ApplyY(t, [px |-> px, py |-> py]), z |-> 0]
  IN  Expand(Expand(EmptyBounds, corner(0, 0)),
             corner(One * (size.width - last), One * (size.height - last)))

\* The four corners of the whole raster: of its cells, or of its samples.
TryGetWindowBounds(t, size, anchor) ==
  LET last == IF anchor = "area" THEN 0 ELSE 1
      right  == One * (size.width - last)
      bottom == One * (size.height - last)
      corner(px, py) == [x |-> ApplyX(t, [px |-> px, py |-> py]),
                         y |-> ApplyY(t, [px |-> px, py |-> py]), z |-> 0]
  IN  Expand(Expand(Expand(Expand(EmptyBounds, corner(0, 0)), corner(right, 0)),
                    corner(right, bottom)), corner(0, bottom))

\* Half of a number, to the nearest whole one, halves away from zero.
QuantizeHalf(twice) == Signed(twice, One * ((Magnitude(twice) + One) \div (2 * One)))

\* The centre of two bounds, which is half of their sum, quantised.
Middle(low, high) == QuantizeHalf(low + high)

\* FromBounds.
FromBounds(b) ==
  IF IsValid(b)
  THEN [x |-> Middle(b.min.x, b.max.x), y |-> Middle(b.min.y, b.max.y), z |-> Middle(b.min.z, b.max.z)]
  ELSE [x |-> 0, y |-> 0, z |-> 0]

-----------------------------------------------------------------------------
(***************************************************************************)
(* AuthorMesh.  A grid has a size, the window's first pixel, a sampling    *)
(* step, a band, a NoData sentinel and a sample for each cell.             *)
(***************************************************************************)
Cells(grid) == (0 .. grid.width - 1) \X (0 .. grid.height - 1)

SourcePixel(grid, cell) == [i |-> grid.x + cell[1] * grid.step, j |-> grid.y + cell[2] * grid.step]

IsNoData(grid, cell) == Matches(grid.noData, grid.sample[cell])

HasElevation(grid, cell, options) == ~IsNoData(grid, cell) \/ options.noDataPolicy # "skip"

Elevation(grid, cell, options) ==
  LET sample == IF ~IsNoData(grid, cell) THEN grid.sample[cell]
                ELSE CASE options.noDataPolicy = "fill" -> options.fillValue
                       [] options.noDataPolicy = "skip" -> 0
                       [] options.noDataPolicy = "keep" -> grid.sample[cell]
  IN  IF sample = NaN THEN NaN ELSE options.heightScale * sample + options.heightOffset

\* Where a cell lies in the source, and how high.
Position(metadata, grid, cell, options) ==
  LET pixel == SourcePixel(grid, cell)
      at    == GetPixelCoord(pixel.i, pixel.j, metadata.pixelAnchor)
  IN  [x |-> ApplyX(metadata.geoTransform, at), y |-> ApplyY(metadata.geoTransform, at),
       z |-> Elevation(grid, cell, options)]

\* std::min and std::max over a set, from an infinity on: they pass over a NaN.
Least(values) ==
  IF values \subseteq {NaN} THEN Infinity
  ELSE CHOOSE v \in values \ {NaN} : \A w \in values \ {NaN} : v <= w

Most(values) ==
  IF values \subseteq {NaN} THEN -Infinity
  ELSE CHOOSE v \in values \ {NaN} : \A w \in values \ {NaN} : w <= v

\* A wrong AuthorMesh: the vertical bounds are taken before the heights are scaled.
MeshBoundsUnscaled(metadata, grid, options) ==
  LET heights == {grid.sample[cell] : cell \in {c \in Cells(grid) : HasElevation(grid, c, options)}}
  IN  IF heights = {} THEN metadata.bounds
      ELSE [metadata.bounds EXCEPT !.min.z = Least(heights), !.max.z = Most(heights)]

\* The vertical bounds are those of the cells with an elevation.
MeshBounds(metadata, grid, options) ==
  LET cells   == {cell \in Cells(grid) : HasElevation(grid, cell, options)}
      heights == {Elevation(grid, cell, options) : cell \in cells}
  IN  IF cells = {} THEN metadata.bounds
      ELSE [metadata.bounds EXCEPT !.min.z = Least(heights), !.max.z = Most(heights)]

\* A wrong StagePoint: coordinates are narrowed before the origin is taken off.
StagePointNarrowedFirst(position, origin) ==
  [x |-> IF position.x = NaN THEN NaN ELSE ToFloat(position.x) - origin.x,
   y |-> IF position.z = NaN THEN NaN ELSE ToFloat(position.z) - origin.z,
   z |-> IF position.y = NaN THEN NaN ELSE -(ToFloat(position.y) - origin.y)]

\* ToStageLocal, the up-axis mapping and the narrowing.
StagePoint(position, origin) ==
  [x |-> ToFloat(position.x - origin.x),
   y |-> IF position.z = NaN THEN NaN ELSE ToFloat(position.z - origin.z),
   z |-> ToFloat(-(position.y - origin.y))]

Quads(grid) == (0 .. grid.width - 2) \X (0 .. grid.height - 2)

CornersOf(quad) == {quad[1], quad[1] + 1} \X {quad[2], quad[2] + 1}

\* A wrong HasFace: the corner a quad is named by stands for the others.
HasFaceByOneCorner(grid, quad, options) ==
  options.noDataPolicy = "skip" => ~IsNoData(grid, quad)

HasFace(grid, quad, options) ==
  options.noDataPolicy = "skip" => \A cell \in CornersOf(quad) : ~IsNoData(grid, cell)

\* A wrong FaceOf: the way around does not depend on the transform.
FaceOfOneWay(t, grid, quad) ==
  LET topLeft == quad[2] * grid.width + quad[1]
  IN  <<topLeft, topLeft + grid.width, topLeft + grid.width + 1, topLeft + 1>>

\* The vertex indices of a face: around the quad one way, or the other when
\* the transform mirrors.
FaceOf(t, grid, quad) ==
  LET topLeft     == quad[2] * grid.width + quad[1]
      topRight    == topLeft + 1
      bottomLeft  == topLeft + grid.width
      bottomRight == bottomLeft + 1
  IN  IF Determinant(t) < 0 THEN <<topLeft, bottomLeft, bottomRight, topRight>>
                            ELSE <<topLeft, topRight, bottomRight, bottomLeft>>

IndexLimitExceeded(grid, options) ==
  \E quad \in Quads(grid) : HasFace(grid, quad, options)
                              /\ (quad[2] + 1) * grid.width + quad[1] + 1 > MaxMeshIndex

InsideSource(metadata, grid) ==
  \A cell \in Cells(grid) : LET pixel == SourcePixel(grid, cell)
                            IN  pixel.i < metadata.width /\ pixel.j < metadata.height

\* The mesh: its points in row-major order, their extent, its faces, and the
\* bounds and the origin that are authored with it.
Mesh(metadata, grid, options) ==
  LET bounds == MeshBounds(metadata, grid, options)
      origin == FromBounds(bounds)
      points == [n \in 0 .. grid.width * grid.height - 1 |->
                   StagePoint(Position(metadata, grid, <<n % grid.width, n \div grid.width>>, options), origin)]
  IN  [origin |-> origin,
       bounds |-> bounds,
       points |-> points,
       extent |-> [min |-> [axis \in {"x", "y", "z"} |-> Least({points[n][axis] : n \in DOMAIN points})],
                   max |-> [axis \in {"x", "y", "z"} |-> Most({points[n][axis] : n \in DOMAIN points})]],
       faces  |-> {FaceOf(metadata.geoTransform, grid, quad) :
                     quad \in {q \in Quads(grid) : HasFace(grid, q, options)}}]
=============================================================================
