-------------------------- MODULE RasterWindowsCheck --------------------------
(***************************************************************************)
(* The window algebra against reference definitions over sets of pixels.   *)
(*                                                                         *)
(* A state holds one request: a window, a second window and a grain (tile  *)
(* size, overview factor and sampling step are all grains).  A step asks   *)
(* one question about the window and the behaviour ends: these operators   *)
(* keep no state.  The invariants compare what RasterWindows answers with  *)
(* what the headers promise.                                               *)
(***************************************************************************)
EXTENDS RasterWindows, FiniteSets

CONSTANTS Windows,   \* the windows asked about
          Grains     \* the tile sizes asked about

ASSUME WindowsAssumption == Windows \subseteq Window /\ EmptyWindow \in Windows
ASSUME GrainsAssumption  == Grains \subseteq [width : Coord, height : Coord]

VARIABLES window, other, grain

windowVars == <<window, other, grain>>

NoGrain == [width |-> 0, height |-> 0]

WindowInit ==
  /\ window \in Windows
  /\ other = EmptyWindow
  /\ grain = NoGrain

Unasked == other = EmptyWindow /\ grain = NoGrain

\* Ask how the window relates to another one.
Compare(w) ==
  /\ Unasked
  /\ other' = w
  /\ grain' = NoGrain
  /\ UNCHANGED window

\* Ask how the window is divided, decimated or seen by an overview.
Divide(g) ==
  /\ Unasked
  /\ grain' = g
  /\ other' = EmptyWindow
  /\ UNCHANGED window

WindowNext == (\E w \in Windows : Compare(w)) \/ (\E g \in Grains : Divide(g))

WindowSpec == WindowInit /\ [][WindowNext]_windowVars

-----------------------------------------------------------------------------
(***************************************************************************)
(* Reference definitions.                                                  *)
(***************************************************************************)
Pixels(w) == {p \in Coord \X Coord : ContainsPixel(w, p[1], p[2])}

\* The far edges of the window are coordinates: nothing saturates.
Unsaturated(w) == w.x + w.width <= MaxCoord /\ w.y + w.height <= MaxCoord

\* The window and the grain also leave room for the arithmetic the code does
\* not guard: an extent rounded up to a whole tile.
Representable(w, g) ==
  /\ Unsaturated(w)
  /\ w.width + g.width - 1 <= MaxCoord
  /\ w.height + g.height - 1 <= MaxCoord

CoversExactly(w, tiles) ==
  /\ \A p \in Pixels(w) : \E i \in DOMAIN tiles : p \in Pixels(tiles[i])
  /\ \A i \in DOMAIN tiles : Pixels(tiles[i]) # {} /\ Pixels(tiles[i]) \subseteq Pixels(w)
  /\ \A i, j \in DOMAIN tiles : i # j => Pixels(tiles[i]) \cap Pixels(tiles[j]) = {}

IsCeiling(n, extent, step) ==
  /\ n * step >= extent
  /\ n > 0 => (n - 1) * step < extent

-----------------------------------------------------------------------------
(***************************************************************************)
(* Properties.                                                             *)
(***************************************************************************)

\* Intersect keeps exactly the common pixels, also when a far edge saturates
\* and when the windows are disjoint (RasterWindow::Intersect).
IntersectIsExact ==
  Pixels(Intersect(window, other)) = Pixels(window) \cap Pixels(other)

\* ToOverview serves every pixel of the request, also one whose far edge
\* saturates, and where nothing saturates it is the smallest window that does:
\* each of its pixels serves some pixel of the request.
OverviewWindowIsTight ==
  LET coarse == Pixels(ToOverview(window, grain.width))
      served == {<<p[1] \div grain.width, p[2] \div grain.width>> : p \in Pixels(window)}
  IN  grain.width > 1 => served \subseteq coarse /\ (Unsaturated(window) => coarse \subseteq served)

\* Going to an overview and back only widens a window that holds a pixel, for
\* every factor and also where a product saturates (RasterWindow::FromOverview).
RoundTripOnlyWidens ==
  Pixels(window) # {} =>
    ContainsWindow(FromOverview(ToOverview(window, grain.width), grain.width), window)

\* Subdivide's tiles cover the window with no gap and no overlap, as long as
\* the extent can be rounded up to a whole tile (RasterWindow::Subdivide).
SubdivisionTilesTheWindow ==
  Representable(window, grain) /\ grain.width > 0 /\ grain.height > 0 =>
    CoversExactly(window, Subdivide(window, grain.width, grain.height))

\* A decimated read takes ceil(extent / step) samples, so that its last sample
\* is still a pixel of the window (GetSampledExtent).
SampledExtentIsCeiling ==
  Representable(window, grain) /\ grain.width > 0 =>
    IsCeiling(SampledExtent(window.width, grain.width), window.width, grain.width)

\* The factor derived from two widths is the factor the overview was built
\* with, when the overview is at least twice as many pixels wide as that
\* factor less one (RasterMetadata::GetOverviewFactor).
OverviewFactorIsRecovered ==
  LET overviewWidth == CeilDiv(window.width, grain.width)
  IN  /\ window.width > 0 /\ grain.width > 0
      /\ overviewWidth >= 2 * (grain.width - 1)
      /\ window.width + overviewWidth \div 2 <= MaxCoord
      => OverviewFactor(window.width, overviewWidth) = grain.width
=============================================================================
