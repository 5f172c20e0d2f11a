---------------------------- MODULE WindowLemmas ----------------------------
(***************************************************************************)
(* Facts about natural numbers and about the operators of RasterWindows,   *)
(* for every largest coordinate.                                           *)
(***************************************************************************)
EXTENDS RasterWindows, NumberLemmas

-----------------------------------------------------------------------------
(***************************************************************************)
(* What the operators return.                                              *)
(***************************************************************************)
NatWindow == [x : Nat, y : Nat, width : Nat, height : Nat]

\* A RasterWindow has natural fields.
LEMMA WindowIsNatWindow == ASSUME NEW w \in Window PROVE w \in NatWindow
  BY MaxCoordAssumption DEF Window, Coord, NatWindow

\* Unsigned arithmetic stays within a word (size_t).
LEMMA WrappedType ==
  ASSUME NEW n \in Int
  PROVE  Wrapped(n) \in Coord
  BY MaxCoordAssumption DEF Wrapped, Coord

\* A value that fits in a word does not wrap (size_t).
LEMMA WrappedIdentity ==
  ASSUME NEW n \in Coord
  PROVE  Wrapped(n) = n
  BY MaxCoordAssumption DEF Wrapped, Coord

\* The smaller of two numbers is below both (std::min).
LEMMA SmallerOfType ==
  ASSUME NEW a \in Nat, NEW b \in Nat
  PROVE  SmallerOf(a, b) \in Nat /\ SmallerOf(a, b) <= a /\ SmallerOf(a, b) <= b
  BY DEF SmallerOf

\* The larger of two numbers is above both (std::max).
LEMMA LargerOfType ==
  ASSUME NEW a \in Nat, NEW b \in Nat
  PROVE  LargerOf(a, b) \in Nat /\ LargerOf(a, b) >= a /\ LargerOf(a, b) >= b
  BY DEF LargerOf

\* A saturated sum is a natural number (SaturatingAdd).
LEMMA SaturatingAddType ==
  ASSUME NEW a \in Nat, NEW b \in Nat
  PROVE  SaturatingAdd(a, b) \in Nat
  BY MaxCoordAssumption DEF SaturatingAdd

\* A saturated product is a coordinate, and it is zero only when a factor is.
LEMMA SaturatingMultiplyType ==
  ASSUME NEW a \in Nat, NEW b \in Nat
  PROVE  /\ SaturatingMultiply(a, b) \in Coord
         /\ SaturatingMultiply(a, b) = 0 <=> a = 0 \/ b = 0
  <1>1. CASE a = 0 \/ b = 0
    BY <1>1, MaxCoordAssumption DEF SaturatingMultiply, Coord
  <1>2. CASE a > 0 /\ b > 0
    <2>1. a * b \in Nat /\ a * b > 0
      BY <1>2, ProductFacts
    <2>2. CASE a > MaxCoord \div b
      BY <1>2, <2>2, MaxCoordAssumption DEF SaturatingMultiply, Coord
    <2>3. CASE ~(a > MaxCoord \div b)
      <3>1. MaxCoord \div b \in Nat /\ a <= MaxCoord \div b /\ b * (MaxCoord \div b) <= MaxCoord
        BY <1>2, <2>3, DivisionFacts, ProductFacts, MaxCoordAssumption
      <3>2. b * a <= b * (MaxCoord \div b) /\ b * a = a * b
        BY <3>1, ProductMonotone, ProductFacts
      <3>3. b * (MaxCoord \div b) \in Nat
        BY <3>1, ProductFacts
      <3>4. a * b <= MaxCoord
        BY <2>1, <3>1, <3>2, <3>3, MaxCoordAssumption
      <3> QED
        BY <1>2, <2>1, <2>3, <3>4, MaxCoordAssumption DEF SaturatingMultiply, Coord
    <2> QED
      BY <2>2, <2>3
  <1> QED
    BY <1>1, <1>2

\* The pixel count is zero exactly when one extent is (GetPixelCount).
LEMMA PixelCountZero ==
  ASSUME NEW a \in Nat, NEW b \in Nat
  PROVE  PixelCount(a, b) \in Coord /\ (PixelCount(a, b) = 0 <=> a = 0 \/ b = 0)
  BY SaturatingMultiplyType DEF PixelCount

\* The intersection of two windows is a window (Intersect).
LEMMA IntersectType ==
  ASSUME NEW v \in NatWindow, NEW w \in NatWindow
  PROVE  Intersect(v, w) \in NatWindow
  <1>1. EndX(v) \in Nat /\ EndX(w) \in Nat /\ EndY(v) \in Nat /\ EndY(w) \in Nat
    BY SaturatingAddType DEF EndX, EndY, NatWindow
  <1> QED
    BY <1>1 DEF Intersect, NatWindow, SmallerOf, LargerOf, EmptyWindow

\* A window scaled back up is a window (FromOverview).
LEMMA FromOverviewType ==
  ASSUME NEW w \in NatWindow, NEW factor \in Nat
  PROVE  FromOverview(w, factor) \in NatWindow
  <1>1. \A n \in Nat : SaturatingMultiply(n, factor) \in Nat
    BY SaturatingMultiplyType, MaxCoordAssumption DEF Coord
  <1>2. w.x \in Nat /\ w.y \in Nat /\ w.width \in Nat /\ w.height \in Nat
    BY DEF NatWindow
  <1> QED
    BY <1>1, <1>2 DEF FromOverview, NatWindow, IsEmptyWindow

\* The factor between two widths is a natural number (GetOverviewFactor).
LEMMA OverviewFactorType ==
  ASSUME NEW width \in Nat, NEW overviewWidth \in Nat
  PROVE  OverviewFactor(width, overviewWidth) \in Nat
  <1>1. CASE width = 0 \/ overviewWidth = 0
    BY <1>1 DEF OverviewFactor
  <1>2. CASE width # 0 /\ overviewWidth # 0
    <2>1. overviewWidth \div 2 \in Nat
      BY DivisionFacts
    <2>2. Wrapped(width + overviewWidth \div 2) \in Nat
      BY <2>1, WrappedType, MaxCoordAssumption DEF Coord
    <2> QED
      BY <1>2, <2>2, DivisionFacts DEF OverviewFactor
  <1> QED
    BY <1>1, <1>2

\* A sampled extent is a natural number (GetSampledExtent).
LEMMA SampledExtentType ==
  ASSUME NEW extent \in Nat, NEW step \in Nat
  PROVE  SampledExtent(extent, step) \in Nat
  <1>1. CASE step <= 1
    BY <1>1 DEF SampledExtent
  <1>2. CASE step > 1
    <2>1. Wrapped(extent + step - 1) \in Nat
      BY WrappedType, MaxCoordAssumption DEF Coord
    <2> QED
      BY <1>2, <2>1, DivisionFacts DEF SampledExtent
  <1> QED
    BY <1>1, <1>2

\* The fields and the far edges of a window are coordinates (GetEndX, GetEndY).
LEMMA WindowFields ==
  ASSUME NEW w \in Window
  PROVE  /\ w.x \in Coord /\ w.y \in Coord /\ w.width \in Coord /\ w.height \in Coord
         /\ EndX(w) \in Coord /\ EndY(w) \in Coord
         /\ w.width > 0 /\ w.x < MaxCoord => w.x < EndX(w)
         /\ w.height > 0 /\ w.y < MaxCoord => w.y < EndY(w)
  <1>1. w.x \in Coord /\ w.y \in Coord /\ w.width \in Coord /\ w.height \in Coord
    BY DEF Window
  <1> QED
    BY <1>1, MaxCoordAssumption DEF EndX, EndY, SaturatingAdd, Coord

\* A window given by its edges ends where it says.
LEMMA EdgesOf ==
  ASSUME NEW left \in Coord, NEW top \in Coord, NEW right \in Coord, NEW bottom \in Coord,
         left <= right, top <= bottom
  PROVE  LET w == [x |-> left, y |-> top, width |-> right - left, height |-> bottom - top]
         IN  w \in Window /\ EndX(w) = right /\ EndY(w) = bottom
  BY MaxCoordAssumption DEF Window, Coord, EndX, EndY, SaturatingAdd

\* Rounding up: the least number of factors that reaches n (ceilDiv).
LEMMA CeilDivFacts ==
  ASSUME NEW n \in Nat, NEW factor \in Nat \ {0}
  PROVE  /\ CeilDiv(n, factor) \in Nat
         /\ CeilDiv(n, factor) <= n
         /\ factor * CeilDiv(n, factor) >= n
         /\ factor * CeilDiv(n, factor) < n + factor
         /\ \A k \in Nat : k < CeilDiv(n, factor) <=> factor * k < n
  <1> DEFINE q == n \div factor
             r == n % factor
             c == CeilDiv(n, factor)
  <1>1. q \in Nat /\ r \in 0 .. factor - 1 /\ n = factor * q + r /\ q <= n
    BY DivisionFacts
  <1>2. c = IF r # 0 THEN q + 1 ELSE q
    BY <1>1 DEF CeilDiv
  <1>3. factor * q \in Nat /\ factor * (q + 1) = factor * q + factor
    BY <1>1, ProductFacts
  <1>4. c \in Nat /\ factor * c \in Nat
    BY <1>1, <1>2, ProductFacts
  <1> HIDE DEF q, r, c
  <1>5. factor * c >= n /\ factor * c < n + factor
    BY <1>1, <1>2, <1>3
  <1>6. c <= n
    <2>1. CASE r = 0
      BY <1>1, <1>2, <2>1
    <2>2. CASE r # 0
      <3>1. factor * q >= q
        BY <1>1, ProductFacts
      <3> QED
        BY <1>1, <1>2, <1>3, <2>2, <3>1
    <2> QED
      BY <2>1, <2>2
  <1>7. ASSUME NEW k \in Nat
        PROVE  k < c <=> factor * k < n
    <2>1. factor * k \in Nat /\ factor * (k + 1) = factor * k + factor
      BY ProductFacts
    <2>2. k < c => factor * (k + 1) <= factor * c
      BY <1>4, ProductMonotone
    <2>3. c <= k => factor * c <= factor * k
      BY <1>4, ProductMonotone
    <2> QED
      BY <1>4, <1>5, <2>1, <2>2, <2>3
  <1> QED
    BY <1>4, <1>5, <1>6, <1>7 DEF c

\* A value below the end of the word is itself after unsigned arithmetic.
LEMMA NoWrap ==
  ASSUME NEW n \in Nat, n <= MaxCoord
  PROVE  Wrapped(n) = n
  BY WrappedIdentity, MaxCoordAssumption DEF Coord

\* The edges of the overview window, when it is not the request itself.
LEMMA OverviewEdges ==
  ASSUME NEW w \in Window, NEW factor \in Coord, factor > 1, ~IsEmptyWindow(w)
  PROVE  LET v == ToOverview(w, factor)
         IN  /\ v \in Window
             /\ v.x = w.x \div factor /\ v.y = w.y \div factor
             /\ EndX(v) = CeilDiv(EndX(w), factor) /\ EndY(v) = CeilDiv(EndY(w), factor)
             /\ v.width = EndX(v) - v.x /\ v.height = EndY(v) - v.y
  <1>1. /\ w.x \in Coord /\ w.y \in Coord /\ EndX(w) \in Coord /\ EndY(w) \in Coord
        /\ factor \in Nat \ {0}
    BY WindowFields, MaxCoordAssumption DEF Coord
  <1>2. w.x <= EndX(w) /\ w.y <= EndY(w)
    BY WindowFields, MaxCoordAssumption DEF Coord, EndX, EndY, SaturatingAdd
  <1>3. ASSUME NEW a \in Coord, NEW b \in Coord, a <= b
        PROVE  a \div factor \in Coord /\ CeilDiv(b, factor) \in Coord
               /\ a \div factor <= CeilDiv(b, factor)
    <2>1. a \in Nat /\ b \in Nat
      BY MaxCoordAssumption DEF Coord
    <2>2. /\ a \div factor \in Nat /\ a \div factor <= a
          /\ b \div factor \in Nat /\ CeilDiv(b, factor) >= b \div factor
          /\ CeilDiv(b, factor) \in Nat /\ CeilDiv(b, factor) <= b
      <3>1. a \div factor \in Nat /\ a \div factor <= a /\ b \div factor \in Nat
        BY <1>1, <2>1, DivisionFacts
      <3>2. CeilDiv(b, factor) \in Nat /\ CeilDiv(b, factor) <= b
        BY <1>1, <2>1, CeilDivFacts
      <3>3. CeilDiv(b, factor) >= b \div factor
        BY <3>1 DEF CeilDiv
      <3> QED
        BY <3>1, <3>2, <3>3
    <2>3. a \div factor <= b \div factor
      BY <1>1, <1>3, <2>1, QuotientMonotone
    <2> QED
      BY <2>1, <2>2, <2>3, MaxCoordAssumption DEF Coord
  <1> DEFINE left  == w.x \div factor               top    == w.y \div factor
             right == CeilDiv(EndX(w), factor)      bottom == CeilDiv(EndY(w), factor)
             v     == [x |-> left, y |-> top, width |-> right - left, height |-> bottom - top]
  <1>4. ToOverview(w, factor) = v
    BY <1>1 DEF ToOverview
  <1>5. /\ left \in Coord /\ top \in Coord /\ right \in Coord /\ bottom \in Coord
        /\ left <= right /\ top <= bottom
    BY <1>1, <1>2, <1>3
  <1> HIDE DEF left, top, right, bottom
  <1>6. v \in Window /\ EndX(v) = right /\ EndY(v) = bottom
    BY <1>5, EdgesOf
  <1> HIDE DEF v
  <1>7. v.x = left /\ v.y = top /\ v.width = right - left /\ v.height = bottom - top
    BY DEF v
  <1> QED
    BY <1>4, <1>6, <1>7 DEF left, top, right, bottom

\* Unsigned arithmetic never makes a value larger (size_t).
LEMMA WrappedBelow ==
  ASSUME NEW n \in Nat
  PROVE  Wrapped(n) \in Nat /\ Wrapped(n) <= n
  <1>1. PICK word \in Nat \ {0} : word = MaxCoord + 1
    BY MaxCoordAssumption
  <1>2. n \div word \in Nat /\ n % word \in Nat /\ n = word * (n \div word) + (n % word)
    BY DivisionFacts
  <1>3. word * (n \div word) \in Nat
    BY <1>2, ProductFacts
  <1> QED
    BY <1>1, <1>2, <1>3 DEF Wrapped
=============================================================================
