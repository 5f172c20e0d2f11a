---------------------------- MODULE RasterWindows ----------------------------
(***************************************************************************)
(* The window algebra of usd-raster-core: rectangles of full-resolution    *)
(* source pixels, their intersection, subdivision into tiles, translation  *)
(* to and from an overview level, and the size of a decimated read.        *)
(*                                                                         *)
(* Coordinates are unsigned machine words.  MaxCoord is the largest one    *)
(* (2^64 - 1 in the code); the operations the code guards saturate at it,  *)
(* the ones it does not guard wrap around it.                              *)
(***************************************************************************)
EXTENDS Integers, Sequences

CONSTANT MaxCoord   \* the largest coordinate, kMaxCoord

ASSUME MaxCoordAssumption == MaxCoord \in Nat \ {0}

Coord == 0 .. MaxCoord

Window == [x : Coord, y : Coord, width : Coord, height : Coord]

EmptyWindow == [x |-> 0, y |-> 0, width |-> 0, height |-> 0]

(***************************************************************************)
(* Unguarded unsigned arithmetic, and the two guarded helpers.             *)
(***************************************************************************)
Wrapped(n) == n % (MaxCoord + 1)

SmallerOf(a, b) == IF a <= b THEN a ELSE b
LargerOf(a, b)  == IF a >= b THEN a ELSE b

SaturatingAdd(a, b) == IF a > MaxCoord - b THEN MaxCoord ELSE a + b

SaturatingMultiply(a, b) ==
  IF a = 0 \/ b = 0 THEN 0
  ELSE IF a > MaxCoord \div b THEN MaxCoord ELSE a * b

PixelCount(width, height) == SaturatingMultiply(width, height)

(***************************************************************************)
(* Windows.  The far edges are exclusive and saturate.                     *)
(***************************************************************************)
EndX(w) == SaturatingAdd(w.x, w.width)
EndY(w) == SaturatingAdd(w.y, w.height)

IsEmptyWindow(w) == w.width = 0 \/ w.height = 0

ContainsPixel(w, px, py) ==
  /\ ~IsEmptyWindow(w)
  /\ px >= w.x /\ px < EndX(w)
  /\ py >= w.y /\ py < EndY(w)

ContainsWindow(w, other) ==
  \/ IsEmptyWindow(other)
  \/ /\ ~IsEmptyWindow(w)
     /\ other.x >= w.x /\ other.y >= w.y
     /\ EndX(other) <= EndX(w) /\ EndY(other) <= EndY(w)

\* operator==: two empty windows are the same request wherever they are.
SameWindow(v, w) == v = w \/ (IsEmptyWindow(v) /\ IsEmptyWindow(w))

\* A wrong Intersect: the disjoint case is not recognised before the
\* subtraction, which wraps to a huge width.
IntersectUnchecked(v, w) ==
  LET left == LargerOf(v.x, w.x)  right  == SmallerOf(EndX(v), EndX(w))
      top  == LargerOf(v.y, w.y)  bottom == SmallerOf(EndY(v), EndY(w))
  IN  [x |-> left, y |-> top, width |-> Wrapped(right - left), height |-> Wrapped(bottom - top)]

Intersect(v, w) ==
  LET left == LargerOf(v.x, w.x)  right  == SmallerOf(EndX(v), EndX(w))
      top  == LargerOf(v.y, w.y)  bottom == SmallerOf(EndY(v), EndY(w))
  IN  IF right <= left \/ bottom <= top
      THEN EmptyWindow
      ELSE [x |-> left, y |-> top, width |-> right - left, height |-> bottom - top]

(***************************************************************************)
(* Subdivision, in row-major order.  The counts across and down and the    *)
(* edges of the last tiles are plain unsigned arithmetic.                  *)
(***************************************************************************)
TilesAlong(extent, tile) == Wrapped(extent + tile - 1) \div tile

\* A wrong tile: the last one is padded to the full tile size.
PaddedTile(w, tileWidth, tileHeight, column, row) ==
  [x |-> Wrapped(w.x + column * tileWidth), y |-> Wrapped(w.y + row * tileHeight),
   width |-> tileWidth, height |-> tileHeight]

TileAt(w, tileWidth, tileHeight, column, row) ==
  LET left == Wrapped(w.x + column * tileWidth)
      top  == Wrapped(w.y + row * tileHeight)
  IN  [x |-> left, y |-> top,
       width  |-> SmallerOf(tileWidth, Wrapped(EndX(w) - left)),
       height |-> SmallerOf(tileHeight, Wrapped(EndY(w) - top))]

Subdivide(w, tileWidth, tileHeight) ==
  LET across == TilesAlong(w.width, tileWidth)
      down   == TilesAlong(w.height, tileHeight)
  IN  IF IsEmptyWindow(w) \/ tileWidth = 0 \/ tileHeight = 0
      THEN << >>
      ELSE [i \in 1 .. across * down |->
              TileAt(w, tileWidth, tileHeight, (i - 1) % across, (i - 1) \div across)]

(***************************************************************************)
(* To the coordinates of an overview that is `factor' times coarser, and   *)
(* back.                                                                   *)
(***************************************************************************)
CeilDiv(n, factor) == n \div factor + (IF n % factor # 0 THEN 1 ELSE 0)

\* A wrong ToOverview: the far edge rounds down, like the origin.
ToOverviewRoundingDown(w, factor) ==
  IF factor <= 1 THEN w
  ELSE IF IsEmptyWindow(w) THEN EmptyWindow
  ELSE LET left == w.x \div factor  top == w.y \div factor
       IN  [x |-> left, y |-> top,
            width |-> EndX(w) \div factor - left, height |-> EndY(w) \div factor - top]

ToOverview(w, factor) ==
  IF factor <= 1 THEN w
  ELSE IF IsEmptyWindow(w) THEN EmptyWindow
  ELSE LET left == w.x \div factor  top == w.y \div factor
       IN  [x |-> left, y |-> top,
            width  |-> CeilDiv(EndX(w), factor) - left,
            height |-> CeilDiv(EndY(w), factor) - top]

\* A wrong FromOverview: the extent wraps where the code saturates it.
FromOverviewWrapping(w, factor) ==
  IF factor <= 1 \/ IsEmptyWindow(w) THEN w
  ELSE [x |-> Wrapped(w.x * factor), y |-> Wrapped(w.y * factor),
        width |-> Wrapped(w.width * factor), height |-> Wrapped(w.height * factor)]

FromOverview(w, factor) ==
  IF factor <= 1 \/ IsEmptyWindow(w) THEN w
  ELSE [x |-> SaturatingMultiply(w.x, factor), y |-> SaturatingMultiply(w.y, factor),
        width  |-> SaturatingMultiply(w.width, factor),
        height |-> SaturatingMultiply(w.height, factor)]

\* A wrong GetOverviewFactor: truncated where the code rounds.
OverviewFactorTruncated(width, overviewWidth) ==
  IF width = 0 \/ overviewWidth = 0 THEN 0 ELSE width \div overviewWidth

\* GetOverviewFactor: rounded to nearest; the code derives it from the widths
\* alone and uses it on both axes.  0 is "no such level".
OverviewFactor(width, overviewWidth) ==
  IF width = 0 \/ overviewWidth = 0
  THEN 0
  ELSE Wrapped(width + overviewWidth \div 2) \div overviewWidth

(***************************************************************************)
(* The size of a decimated read.                                           *)
(***************************************************************************)

\* A wrong GetSampledExtent: the last, partial step gets no sample.
SampledExtentTruncated(extent, step) == IF step <= 1 THEN extent ELSE extent \div step

SampledExtent(extent, step) ==
  IF extent = 0 THEN 0
  ELSE IF step <= 1 THEN extent
  ELSE Wrapped(extent + step - 1) \div step

SampledSize(w, step) ==
  [width |-> SampledExtent(w.width, step), height |-> SampledExtent(w.height, step)]
=============================================================================
