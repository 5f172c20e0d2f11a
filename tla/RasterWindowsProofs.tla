------------------------- MODULE RasterWindowsProofs -------------------------
(***************************************************************************)
(* The window algebra answers as RasterWindowsCheck says, for every        *)
(* largest coordinate, every window and every grain.                       *)
(***************************************************************************)
EXTENDS RasterWindowsCheck, WindowLemmas

Grain == [width : Coord, height : Coord]

\* The windows and the grain of a request are words.
Typed == window \in Window /\ other \in Window /\ grain \in Grain

\* Requests stay windows and grains.
LEMMA RequestsAreTyped == WindowSpec => []Typed
  <1>1. EmptyWindow \in Window /\ NoGrain \in Grain
    BY MaxCoordAssumption DEF EmptyWindow, Window, NoGrain, Grain, Coord
  <1>2. WindowInit => Typed
    BY <1>1, WindowsAssumption DEF WindowInit, Typed
  <1>3. Typed /\ [WindowNext]_windowVars => Typed'
    BY <1>1, WindowsAssumption, GrainsAssumption
       DEF Typed, WindowNext, Compare, Divide, windowVars, Grain
  <1> QED
    BY <1>2, <1>3, PTL DEF WindowSpec

-----------------------------------------------------------------------------
\* The intersection holds the pixels of both windows (RasterWindow::Intersect).
LEMMA IntersectionPixels ==
  ASSUME NEW v \in Window, NEW w \in Window
  PROVE  Pixels(Intersect(v, w)) = Pixels(v) \cap Pixels(w)
  <1> DEFINE left  == LargerOf(v.x, w.x)   right  == SmallerOf(EndX(v), EndX(w))
             top   == LargerOf(v.y, w.y)   bottom == SmallerOf(EndY(v), EndY(w))
             both  == [x |-> left, y |-> top, width |-> right - left, height |-> bottom - top]
  <1>1. /\ v.x \in Coord /\ v.y \in Coord /\ EndX(v) \in Coord /\ EndY(v) \in Coord
        /\ w.x \in Coord /\ w.y \in Coord /\ EndX(w) \in Coord /\ EndY(w) \in Coord
        /\ v.width \in Coord /\ v.height \in Coord /\ w.width \in Coord /\ w.height \in Coord
    BY WindowFields
  <1>2. left \in Coord /\ top \in Coord /\ right \in Coord /\ bottom \in Coord
    BY <1>1 DEF LargerOf, SmallerOf
  <1>3. \A n \in Coord : /\ n >= left <=> n >= v.x /\ n >= w.x
                         /\ n < right <=> n < EndX(v) /\ n < EndX(w)
                         /\ n >= top <=> n >= v.y /\ n >= w.y
                         /\ n < bottom <=> n < EndY(v) /\ n < EndY(w)
    BY <1>1, MaxCoordAssumption DEF LargerOf, SmallerOf, Coord
  <1>4. \A n \in Coord : /\ v.width = 0 => ~(n >= v.x /\ n < EndX(v))
                         /\ w.width = 0 => ~(n >= w.x /\ n < EndX(w))
                         /\ v.height = 0 => ~(n >= v.y /\ n < EndY(v))
                         /\ w.height = 0 => ~(n >= w.y /\ n < EndY(w))
    BY <1>1, MaxCoordAssumption DEF EndX, EndY, SaturatingAdd, Coord
  <1> HIDE DEF left, top, right, bottom
  <1>5. Intersect(v, w) = IF right <= left \/ bottom <= top THEN EmptyWindow ELSE both
    BY DEF Intersect, left, top, right, bottom
  <1>6. ASSUME NEW px \in Coord, NEW py \in Coord
        PROVE  ContainsPixel(Intersect(v, w), px, py)
                 <=> ContainsPixel(v, px, py) /\ ContainsPixel(w, px, py)
    <2>1. ContainsPixel(v, px, py) /\ ContainsPixel(w, px, py)
            <=> px >= left /\ px < right /\ py >= top /\ py < bottom
      BY <1>3, <1>4 DEF ContainsPixel, IsEmptyWindow
    <2>2. CASE right <= left \/ bottom <= top
      <3>1. ~(px >= left /\ px < right /\ py >= top /\ py < bottom)
        BY <1>2, <2>2, MaxCoordAssumption DEF Coord
      <3>2. ~ContainsPixel(Intersect(v, w), px, py)
        BY <1>5, <2>2 DEF ContainsPixel, IsEmptyWindow, EmptyWindow
      <3> QED
        BY <2>1, <3>1, <3>2
    <2>3. CASE ~(right <= left \/ bottom <= top)
      <3>1. /\ Intersect(v, w) = both
            /\ both.width # 0 /\ both.height # 0
            /\ left <= right /\ top <= bottom
        BY <1>2, <1>5, <2>3, MaxCoordAssumption DEF Coord
      <3>2. EndX(both) = right /\ EndY(both) = bottom
        BY <1>2, <3>1, EdgesOf
      <3>3. ContainsPixel(both, px, py) <=> px >= left /\ px < right /\ py >= top /\ py < bottom
        BY <3>1, <3>2 DEF ContainsPixel, IsEmptyWindow
      <3> QED
        BY <2>1, <3>1, <3>3
    <2> QED
      BY <2>2, <2>3
  <1> QED
    BY <1>6 DEF Pixels

\* Intersect keeps exactly the common pixels of any two windows, saturated and
\* disjoint ones included (RasterWindow::Intersect).
THEOREM IntersectionIsExact == WindowSpec => []IntersectIsExact
  <1>1. Typed => IntersectIsExact
    BY IntersectionPixels DEF Typed, IntersectIsExact
  <1> QED
    BY <1>1, RequestsAreTyped, PTL

-----------------------------------------------------------------------------
\* Along one axis, the overview pixel q serves a pixel between the edges.
Serves(q, first, end, factor) ==
  \E n \in Nat : n >= first /\ n < end /\ q = n \div factor

\* An overview pixel lies between the rounded edges when, and only when, it
\* serves a pixel between the edges.
LEMMA ServedAlongAxis ==
  ASSUME NEW first \in Nat, NEW end \in Nat, NEW factor \in Nat \ {0}, NEW q \in Nat,
         first < end
  PROVE  q >= first \div factor /\ q < CeilDiv(end, factor) <=> Serves(q, first, end, factor)
  <1>1. ASSUME q >= first \div factor, q < CeilDiv(end, factor)
        PROVE  \E n \in Nat : n >= first /\ n < end /\ q = n \div factor
    <2>1. factor * q \in Nat /\ factor * q < end /\ factor * (q + 1) = factor * q + factor
      BY <1>1, CeilDivFacts, ProductFacts
    <2>2. CASE first <= factor * q
      <3>1. (factor * q) \div factor = q
        <4>1. ~(factor * q < factor * q) /\ factor * q < factor * (q + 1)
          BY <2>1
        <4>2. ~((factor * q) \div factor < q) /\ (factor * q) \div factor < q + 1
          BY <2>1, <4>1, QuotientBelow
        <4> QED
          BY <2>1, <4>2, DivisionFacts
      <3> QED
        BY <2>1, <2>2, <3>1
    <2>3. CASE factor * q < first
      <3>1. ~(first \div factor < q)
        <4>1. ~(first < factor * q)
          BY <2>1, <2>3
        <4> QED
          BY <4>1, QuotientBelow
      <3>2. first \div factor = q
        BY <1>1, <3>1, DivisionFacts
      <3> QED
        BY <3>2
    <2> QED
      BY <2>1, <2>2, <2>3
  <1>2. ASSUME NEW n \in Nat, n >= first, n < end, q = n \div factor
        PROVE  q >= first \div factor /\ q < CeilDiv(end, factor)
    <2>1. first \div factor <= n \div factor
      BY <1>2, QuotientMonotone
    <2>2. factor * q <= n /\ factor * q \in Nat
      BY <1>2, DivisionFacts, ProductFacts
    <2>3. factor * q < end
      BY <1>2, <2>2
    <2>4. q < CeilDiv(end, factor)
      BY <2>3, CeilDivFacts
    <2>5. first \div factor \in Nat
      BY DivisionFacts
    <2> QED
      BY <1>2, <2>1, <2>4, <2>5
  <1> QED
    BY <1>1, <1>2 DEF Serves

\* Every pixel that serves the request is in the overview window; and, where no
\* far edge saturates, every pixel of the overview window serves the request.
LEMMA OverviewPixels ==
  ASSUME NEW w \in Window, NEW factor \in Coord, factor > 1
  PROVE  LET coarse == Pixels(ToOverview(w, factor))
             served == {<<p[1] \div factor, p[2] \div factor>> : p \in Pixels(w)}
         IN  served \subseteq coarse /\ (Unsaturated(w) => coarse \subseteq served)
  <1> DEFINE v      == ToOverview(w, factor)
             served == {<<p[1] \div factor, p[2] \div factor>> : p \in Pixels(w)}
  <1>1. CASE IsEmptyWindow(w)
    <2>1. v = EmptyWindow
      BY <1>1, MaxCoordAssumption DEF ToOverview, Coord
    <2>2. Pixels(v) = {} /\ Pixels(w) = {}
      BY <1>1, <2>1 DEF Pixels, ContainsPixel, IsEmptyWindow, EmptyWindow
    <2> QED
      BY <2>2
  <1>2. CASE ~IsEmptyWindow(w)
    <2>1. /\ w.x \in Coord /\ w.y \in Coord /\ EndX(w) \in Coord /\ EndY(w) \in Coord
          /\ factor \in Nat \ {0}
      BY WindowFields, MaxCoordAssumption DEF Coord
    <2>2. /\ v.x = w.x \div factor /\ v.y = w.y \div factor
          /\ EndX(v) = CeilDiv(EndX(w), factor) /\ EndY(v) = CeilDiv(EndY(w), factor)
          /\ v.width = EndX(v) - v.x /\ v.height = EndY(v) - v.y
      BY <1>2, OverviewEdges
    <2>3. w.x \in Nat /\ w.y \in Nat /\ EndX(w) \in Nat /\ EndY(w) \in Nat
      BY <2>1, MaxCoordAssumption DEF Coord
    <2>4. v.x \in Nat /\ v.y \in Nat /\ EndX(v) \in Nat /\ EndY(v) \in Nat
      BY <2>1, <2>2, <2>3, DivisionFacts, CeilDivFacts
    <2>5. ASSUME NEW px \in Coord, NEW py \in Coord
          PROVE  <<px, py>> \in Pixels(v)
                   <=> px >= v.x /\ px < EndX(v) /\ py >= v.y /\ py < EndY(v)
      <3>1. px \in Nat /\ py \in Nat
        BY MaxCoordAssumption DEF Coord
      <3>2. px >= v.x /\ px < EndX(v) => v.width # 0
        BY <2>2, <2>4, <3>1
      <3>3. py >= v.y /\ py < EndY(v) => v.height # 0
        BY <2>2, <2>4, <3>1
      <3> QED
        BY <3>2, <3>3 DEF Pixels, ContainsPixel, IsEmptyWindow
    <2>6. ASSUME NEW px \in Coord, NEW py \in Coord
          PROVE  <<px, py>> \in Pixels(w)
                   <=> px >= w.x /\ px < EndX(w) /\ py >= w.y /\ py < EndY(w)
      BY <1>2 DEF Pixels, ContainsPixel
    <2> HIDE DEF v
    <2>7. ASSUME NEW p \in Pixels(w)
          PROVE  <<p[1] \div factor, p[2] \div factor>> \in Pixels(v)
      <3>1. /\ p[1] \in Coord /\ p[2] \in Coord /\ p = <<p[1], p[2]>>
        BY DEF Pixels
      <3>2. p[1] >= w.x /\ p[1] < EndX(w) /\ p[2] >= w.y /\ p[2] < EndY(w)
        BY <2>6, <3>1
      <3>3. p[1] \in Nat /\ p[2] \in Nat
        BY <3>1, MaxCoordAssumption DEF Coord
      <3>4. w.x < EndX(w) /\ w.y < EndY(w)
        BY <2>3, <3>2, <3>3
      <3>5. /\ p[1] \div factor \in Nat /\ p[1] \div factor <= p[1]
            /\ p[2] \div factor \in Nat /\ p[2] \div factor <= p[2]
        BY <2>1, <3>3, DivisionFacts
      <3>6. p[1] \div factor \in Coord /\ p[2] \div factor \in Coord
        BY <3>1, <3>3, <3>5, MaxCoordAssumption DEF Coord
      <3>7. p[1] \div factor >= v.x /\ p[1] \div factor < EndX(v)
        <4> DEFINE a == p[1]
        <4>1. a \in Nat /\ a >= w.x /\ a < EndX(w) /\ a \div factor \in Nat
          BY <3>2, <3>3, <3>5
        <4> HIDE DEF a
        <4>2. Serves(a \div factor, w.x, EndX(w), factor)
          BY <4>1 DEF Serves
        <4>3. a \div factor >= w.x \div factor /\ a \div factor < CeilDiv(EndX(w), factor)
          BY <2>1, <2>3, <3>4, <4>1, <4>2, ServedAlongAxis
        <4> QED
          BY <2>2, <4>3 DEF a
      <3>8. p[2] \div factor >= v.y /\ p[2] \div factor < EndY(v)
        <4> DEFINE a == p[2]
        <4>1. a \in Nat /\ a >= w.y /\ a < EndY(w) /\ a \div factor \in Nat
          BY <3>2, <3>3, <3>5
        <4> HIDE DEF a
        <4>2. Serves(a \div factor, w.y, EndY(w), factor)
          BY <4>1 DEF Serves
        <4>3. a \div factor >= w.y \div factor /\ a \div factor < CeilDiv(EndY(w), factor)
          BY <2>1, <2>3, <3>4, <4>1, <4>2, ServedAlongAxis
        <4> QED
          BY <2>2, <4>3 DEF a
      <3> QED
        BY <2>5, <3>6, <3>7, <3>8
    <2>8. ASSUME Unsaturated(w), NEW q \in Pixels(v)
          PROVE  \E p \in Pixels(w) : q = <<p[1] \div factor, p[2] \div factor>>
      <3>1. /\ q[1] \in Coord /\ q[2] \in Coord /\ q = <<q[1], q[2]>>
        BY DEF Pixels
      <3>2. q[1] >= v.x /\ q[1] < EndX(v) /\ q[2] >= v.y /\ q[2] < EndY(v)
        BY <2>5, <3>1
      <3>3. q[1] \in Nat /\ q[2] \in Nat
        BY <3>1, MaxCoordAssumption DEF Coord
      <3>4. w.x < EndX(w) /\ w.y < EndY(w)
        <4>1. w.width \in Nat \ {0} /\ w.height \in Nat \ {0}
          BY <1>2, WindowFields, MaxCoordAssumption DEF IsEmptyWindow, Coord
        <4> QED
          BY <2>3, <2>8, <4>1, MaxCoordAssumption DEF Unsaturated, EndX, EndY, SaturatingAdd
      <3>5. PICK px \in Nat : px >= w.x /\ px < EndX(w) /\ q[1] = px \div factor
        <4> DEFINE a == q[1]
        <4>1. a \in Nat /\ a >= w.x \div factor /\ a < CeilDiv(EndX(w), factor)
          BY <2>2, <3>2, <3>3
        <4> HIDE DEF a
        <4>2. Serves(a, w.x, EndX(w), factor)
          BY <2>1, <2>3, <3>4, <4>1, ServedAlongAxis
        <4> QED
          BY <4>2 DEF Serves, a
      <3>6. PICK py \in Nat : py >= w.y /\ py < EndY(w) /\ q[2] = py \div factor
        <4> DEFINE a == q[2]
        <4>1. a \in Nat /\ a >= w.y \div factor /\ a < CeilDiv(EndY(w), factor)
          BY <2>2, <3>2, <3>3
        <4> HIDE DEF a
        <4>2. Serves(a, w.y, EndY(w), factor)
          BY <2>1, <2>3, <3>4, <4>1, ServedAlongAxis
        <4> QED
          BY <4>2 DEF Serves, a
      <3>7. px \in Coord /\ py \in Coord
        BY <2>1, <3>5, <3>6, MaxCoordAssumption DEF Coord
      <3>8. <<px, py>> \in Pixels(w)
        BY <2>6, <3>5, <3>6, <3>7
      <3> QED
        BY <3>1, <3>5, <3>6, <3>8
    <2>9. served \subseteq Pixels(v)
      BY <2>7
    <2>10. Unsaturated(w) => Pixels(v) \subseteq served
      BY <2>8
    <2> QED
      BY <2>9, <2>10 DEF v
  <1> QED
    BY <1>1, <1>2

\* A decimated level serves every pixel asked for, and where no far edge
\* saturates nothing else (RasterWindow::ToOverview).
THEOREM OverviewIsTight == WindowSpec => []OverviewWindowIsTight
  <1>1. Typed => OverviewWindowIsTight
    <2> SUFFICES ASSUME Typed, grain.width > 1 PROVE OverviewWindowIsTight
      BY DEF OverviewWindowIsTight
    <2>1. window \in Window /\ grain.width \in Coord
      BY DEF Typed, Grain
    <2> QED
      BY <2>1, OverviewPixels DEF OverviewWindowIsTight
  <1> QED
    BY <1>1, RequestsAreTyped, PTL

-----------------------------------------------------------------------------
\* One axis: scaled back up, the rounded edges enclose the edges.
LEMMA WidenedAlongAxis ==
  ASSUME NEW first \in Coord, NEW end \in Coord, NEW factor \in Coord \ {0}, first < end
  PROVE  LET left  == first \div factor
             width == CeilDiv(end, factor) - left
         IN  /\ SaturatingMultiply(left, factor) <= first
             /\ end <= SaturatingAdd(SaturatingMultiply(left, factor),
                                     SaturatingMultiply(width, factor))
             /\ width \in Nat \ {0}
             /\ SaturatingMultiply(width, factor) # 0
  <1> DEFINE left  == first \div factor
             right == CeilDiv(end, factor)
             width == right - left
  <1>1. first \in Nat /\ end \in Nat /\ factor \in Nat \ {0} /\ first < MaxCoord
    BY MaxCoordAssumption DEF Coord
  <1>2. left \in Nat /\ factor * left <= first /\ factor * left \in Nat
    BY <1>1, DivisionFacts, ProductFacts
  <1>3. right \in Nat /\ factor * right >= end /\ factor * right \in Nat
    BY <1>1, CeilDivFacts, ProductFacts
  <1>4. left < right
    <2>1. factor * left < end
      BY <1>1, <1>2
    <2> QED
      BY <1>1, <1>2, <2>1, CeilDivFacts
  <1>5. width \in Nat \ {0}
    BY <1>2, <1>3, <1>4
  <1>6. width * factor = factor * right - factor * left /\ left * factor = factor * left
        /\ width * factor \in Nat
    <2>1. factor * right = factor * (left + width)
      BY <1>2, <1>3
    <2> HIDE DEF left, right, width
    <2>2. factor * (left + width) = factor * left + factor * width
      BY <1>1, <1>2, <1>5
    <2>3. factor * width = width * factor /\ left * factor = factor * left
          /\ width * factor \in Nat
      BY <1>1, <1>2, <1>5, ProductFacts
    <2> QED
      BY <1>2, <1>3, <2>1, <2>2, <2>3
  <1> HIDE DEF left, right, width
  <1>7. SaturatingMultiply(left, factor) = factor * left
    <2>1. CASE left = 0
      BY <1>1, <2>1 DEF SaturatingMultiply
    <2>2. CASE left # 0
      <3>1. ~(left > MaxCoord \div factor)
        <4>1. ~(MaxCoord < factor * left)
          BY <1>1, <1>2, MaxCoordAssumption
        <4> QED
          BY <1>1, <1>2, <4>1, QuotientBelow, DivisionFacts, MaxCoordAssumption
      <3> QED
        BY <1>1, <1>6, <2>2, <3>1 DEF SaturatingMultiply
    <2> QED
      BY <2>1, <2>2
  <1>8. SaturatingMultiply(width, factor) \in {MaxCoord, factor * right - factor * left}
    BY <1>1, <1>5, <1>6 DEF SaturatingMultiply
  <1>9. SaturatingMultiply(width, factor) \in Nat /\ SaturatingMultiply(width, factor) # 0
    BY <1>1, <1>5, SaturatingMultiplyType, MaxCoordAssumption DEF Coord
  <1>10. end <= SaturatingAdd(factor * left, SaturatingMultiply(width, factor))
    BY <1>1, <1>2, <1>3, <1>8, <1>9, MaxCoordAssumption DEF SaturatingAdd, Coord
  <1> QED
    BY <1>1, <1>2, <1>5, <1>7, <1>9, <1>10 DEF left, right, width

\* A window that holds a pixel lies inside its round trip through an overview
\* (RasterWindow::FromOverview).
LEMMA RoundTripContains ==
  ASSUME NEW w \in Window, NEW factor \in Coord, Pixels(w) # {}
  PROVE  ContainsWindow(FromOverview(ToOverview(w, factor), factor), w)
  <1>1. /\ w.x \in Coord /\ w.y \in Coord /\ EndX(w) \in Coord /\ EndY(w) \in Coord
        /\ factor \in Nat
    BY WindowFields, MaxCoordAssumption DEF Coord
  <1>2. ~IsEmptyWindow(w) /\ w.x < EndX(w) /\ w.y < EndY(w)
    <2>1. PICK p \in Coord \X Coord : ContainsPixel(w, p[1], p[2])
      BY DEF Pixels
    <2>2. p[1] \in Nat /\ p[2] \in Nat
      BY MaxCoordAssumption DEF Coord
    <2>3. w.x \in Nat /\ w.y \in Nat /\ EndX(w) \in Nat /\ EndY(w) \in Nat
      BY <1>1, MaxCoordAssumption DEF Coord
    <2> QED
      BY <2>1, <2>2, <2>3 DEF ContainsPixel
  <1>3. CASE factor <= 1
    <2>1. FromOverview(ToOverview(w, factor), factor) = w
      BY <1>1, <1>3 DEF FromOverview, ToOverview
    <2> QED
      BY <1>1, <1>2, <2>1, MaxCoordAssumption DEF ContainsWindow, Coord
  <1>4. CASE factor > 1
    <2> DEFINE v    == ToOverview(w, factor)
               back == FromOverview(v, factor)
    <2>1. /\ v \in Window
          /\ v.x = w.x \div factor /\ v.y = w.y \div factor
          /\ v.width = CeilDiv(EndX(w), factor) - w.x \div factor
          /\ v.height = CeilDiv(EndY(w), factor) - w.y \div factor
      BY <1>2, <1>4, OverviewEdges
    <2>2. factor \in Coord \ {0}
      BY <1>1, <1>4
    <2>3. /\ SaturatingMultiply(v.x, factor) <= w.x
          /\ EndX(w) <= SaturatingAdd(SaturatingMultiply(v.x, factor),
                                      SaturatingMultiply(v.width, factor))
          /\ v.width # 0 /\ SaturatingMultiply(v.width, factor) # 0
      BY <1>1, <1>2, <2>1, <2>2, WidenedAlongAxis
    <2>4. /\ SaturatingMultiply(v.y, factor) <= w.y
          /\ EndY(w) <= SaturatingAdd(SaturatingMultiply(v.y, factor),
                                      SaturatingMultiply(v.height, factor))
          /\ v.height # 0 /\ SaturatingMultiply(v.height, factor) # 0
      BY <1>1, <1>2, <2>1, <2>2, WidenedAlongAxis
    <2> HIDE DEF v
    <2>5. /\ back.x = SaturatingMultiply(v.x, factor) /\ back.y = SaturatingMultiply(v.y, factor)
          /\ back.width = SaturatingMultiply(v.width, factor)
          /\ back.height = SaturatingMultiply(v.height, factor)
      BY <1>1, <1>4, <2>3, <2>4 DEF FromOverview, IsEmptyWindow
    <2> HIDE DEF back
    <2>6. EndX(w) <= EndX(back) /\ EndY(w) <= EndY(back)
      BY <2>3, <2>4, <2>5 DEF EndX, EndY
    <2>7. back.x <= w.x /\ back.y <= w.y /\ ~IsEmptyWindow(back)
      BY <2>3, <2>4, <2>5 DEF IsEmptyWindow
    <2>8. ContainsWindow(back, w)
      <3>1. v.x \in Nat /\ v.y \in Nat
        BY <2>1, WindowFields, MaxCoordAssumption DEF Coord
      <3>2. SaturatingMultiply(v.x, factor) \in Coord /\ SaturatingMultiply(v.y, factor) \in Coord
        BY <1>1, <3>1, SaturatingMultiplyType
      <3>3. back.x \in Nat /\ back.y \in Nat
        BY <2>5, <3>2, MaxCoordAssumption DEF Coord
      <3> QED
        BY <1>1, <2>6, <2>7, <3>3, MaxCoordAssumption DEF ContainsWindow, Coord
    <2> QED
      BY <2>8 DEF back, v
  <1> QED
    BY <1>1, <1>3, <1>4

\* Going to an overview and back only widens a window that holds a pixel.
THEOREM RoundTripWidens == WindowSpec => []RoundTripOnlyWidens
  <1>1. Typed => RoundTripOnlyWidens
    BY RoundTripContains DEF Typed, Grain, RoundTripOnlyWidens
  <1> QED
    BY <1>1, RequestsAreTyped, PTL

-----------------------------------------------------------------------------
\* Adding step - 1 before the division is rounding up.
LEMMA RoundedUp ==
  ASSUME NEW n \in Nat, NEW step \in Nat \ {0}
  PROVE  IsCeiling((n + step - 1) \div step, n, step)
  <1> DEFINE q == (n + step - 1) \div step
             r == (n + step - 1) % step
  <1>1. q \in Nat /\ r \in 0 .. step - 1 /\ n + step - 1 = step * q + r
    <2>1. n + step - 1 \in Nat
      OBVIOUS
    <2> QED
      BY <2>1, DivisionFacts
  <1>2. q * step = step * q /\ step * q \in Nat /\ (q - 1) * step = step * q - step
    BY <1>1
  <1> HIDE DEF q, r
  <1>3. IsCeiling(q, n, step)
    BY <1>1, <1>2 DEF IsCeiling
  <1> QED
    BY <1>3 DEF q

\* The last sample of a decimated read is a pixel of the window, and none is
\* missing after it (GetSampledExtent).
THEOREM SampledExtentIsRoundedUp == WindowSpec => []SampledExtentIsCeiling
  <1>1. Typed => SampledExtentIsCeiling
    <2> DEFINE extent == window.width
               step   == grain.width
    <2> SUFFICES ASSUME Typed, Representable(window, grain), grain.width > 0
                 PROVE  IsCeiling(SampledExtent(extent, step), extent, step)
      BY DEF SampledExtentIsCeiling
    <2>1. extent \in Nat /\ step \in Nat \ {0} /\ extent + step - 1 <= MaxCoord
      BY MaxCoordAssumption DEF Typed, Window, Grain, Coord, Representable
    <2> HIDE DEF extent, step
    <2>2. CASE extent = 0
      BY <2>1, <2>2 DEF SampledExtent, IsCeiling
    <2>3. CASE extent # 0 /\ step = 1
      BY <2>1, <2>3 DEF SampledExtent, IsCeiling
    <2>4. CASE extent # 0 /\ step # 1
      <3>1. Wrapped(extent + step - 1) = extent + step - 1
        BY <2>1, NoWrap
      <3>2. SampledExtent(extent, step) = (extent + step - 1) \div step
        BY <2>1, <2>4, <3>1 DEF SampledExtent
      <3> QED
        BY <2>1, <3>2, RoundedUp
    <2> QED
      BY <2>2, <2>3, <2>4
  <1> QED
    BY <1>1, RequestsAreTyped, PTL

-----------------------------------------------------------------------------
\* The factor an overview was built with is recovered by rounding the quotient
\* of the widths (RasterMetadata::GetOverviewFactor).
LEMMA RecoveredFactor ==
  ASSUME NEW width \in Nat \ {0}, NEW factor \in Nat \ {0},
         CeilDiv(width, factor) >= 2 * (factor - 1),
         width + CeilDiv(width, factor) \div 2 <= MaxCoord
  PROVE  OverviewFactor(width, CeilDiv(width, factor)) = factor
  <1> DEFINE c    == CeilDiv(width, factor)
             half == c \div 2
  <1>1. c \in Nat /\ factor * c >= width /\ factor * c < width + factor /\ factor * c \in Nat
    BY CeilDivFacts, ProductFacts
  <1>2. c # 0
    BY <1>1
  <1>3. half \in Nat /\ half >= factor - 1 /\ half < c
    BY <1>1, <1>2
  <1> HIDE DEF c, half
  <1>4. Wrapped(width + half) = width + half
    BY <1>1, <1>3, NoWrap DEF c, half
  <1>5. c * factor = factor * c /\ c * (factor + 1) = factor * c + c
    BY <1>1
  <1>6. c * factor <= width + half /\ width + half < c * (factor + 1)
    BY <1>1, <1>3, <1>5
  <1>7. (width + half) \div c = factor
    BY <1>1, <1>2, <1>3, <1>6, QuotientIs
  <1> QED
    BY <1>2, <1>4, <1>7 DEF OverviewFactor, c, half

\* Rounding recovers the factor of every overview wide enough to hold it.
THEOREM OverviewFactorIsTheOneBuilt == WindowSpec => []OverviewFactorIsRecovered
  <1>1. Typed => OverviewFactorIsRecovered
    BY RecoveredFactor, MaxCoordAssumption
       DEF Typed, Window, Grain, Coord, OverviewFactorIsRecovered
  <1> QED
    BY <1>1, RequestsAreTyped, PTL

-----------------------------------------------------------------------------
\* Along one axis, piece k of a subdivision: it lies inside the extent, is not
\* empty, and holds the pixels whose distance from the origin divides to k.
IsPiece(first, extent, size, k, left, wide) ==
  /\ left \in Nat /\ wide \in Nat \ {0} /\ left + wide <= first + extent
  /\ \A n \in Nat : n >= left /\ n < left + wide
       <=> n >= first /\ n < first + extent /\ (n - first) \div size = k

\* The pieces the code computes are the pieces, and each pixel is in one.
LEMMA PiecesAlongAxis ==
  ASSUME NEW first \in Nat, NEW extent \in Nat \ {0}, NEW size \in Nat \ {0},
         first + extent <= MaxCoord, extent + size - 1 <= MaxCoord
  PROVE  /\ TilesAlong(extent, size) \in Nat \ {0}
         /\ \A k \in 0 .. TilesAlong(extent, size) - 1 :
              LET left == Wrapped(first + k * size)
                  wide == SmallerOf(size, Wrapped((first + extent) - left))
              IN  IsPiece(first, extent, size, k, left, wide)
         /\ \A n \in Nat : n >= first /\ n < first + extent
              => (n - first) \div size \in 0 .. TilesAlong(extent, size) - 1
  <1> DEFINE count == TilesAlong(extent, size)
  <1>1. /\ extent + size - 1 \in Nat /\ Wrapped(extent + size - 1) = extent + size - 1
        /\ count = (extent + size - 1) \div size
    <2>1. extent + size - 1 \in Nat
      OBVIOUS
    <2> QED
      BY <2>1, NoWrap DEF TilesAlong
  <1>2. count \in Nat /\ IsCeiling(count, extent, size)
    BY <1>1, RoundedUp, DivisionFacts
  <1>3. count # 0 /\ count * size >= extent
    BY <1>2 DEF IsCeiling
  <1> HIDE DEF count
  <1>4. ASSUME NEW k \in Nat
        PROVE  k < count <=> k * size < extent
    <2>1. count * size \in Nat /\ k * size \in Nat /\ (count - 1) * size < extent
      BY <1>2, <1>3, ProductFacts DEF IsCeiling
    <2>2. k < count => k * size <= (count - 1) * size
      <3>1. count - 1 \in Nat /\ (k < count => k <= count - 1)
        BY <1>2, <1>3
      <3> QED
        BY <3>1, ProductMonotone
    <2>3. (count - 1) * size = count * size - size
      BY <1>2
    <2>4. count <= k => count * size <= k * size
      BY <1>2, ProductMonotone
    <2> QED
      BY <1>2, <1>3, <2>1, <2>2, <2>3, <2>4
  <1>5. ASSUME NEW n \in Nat, n >= first, n < first + extent
        PROVE  (n - first) \div size \in 0 .. count - 1
    <2> DEFINE d == n - first
    <2>1. d \in Nat /\ d < extent /\ size * count = count * size
      BY <1>2, <1>5
    <2> HIDE DEF d
    <2>2. d < size * count
      <3>1. count * size \in Nat
        BY <1>2, ProductFacts
      <3> QED
        BY <1>3, <2>1, <3>1
    <2>3. d \div size \in Nat /\ d \div size < count
      BY <1>2, <2>1, <2>2, DivisionFacts, QuotientBelow
    <2> QED
      BY <1>2, <2>3 DEF d
  <1>6. ASSUME NEW k \in 0 .. count - 1
        PROVE  LET left == Wrapped(first + k * size)
                   wide == SmallerOf(size, Wrapped((first + extent) - left))
               IN  IsPiece(first, extent, size, k, left, wide)
    <2> DEFINE start == k * size
               left  == Wrapped(first + start)
               piece == SmallerOf(size, Wrapped((first + extent) - left))
    <2>1. k \in Nat /\ k < count
      BY <1>2
    <2>2. start \in Nat /\ start < extent
      BY <1>4, <2>1, ProductFacts
    <2> HIDE DEF start
    <2>3. left = first + start
      BY <2>2, NoWrap, MaxCoordAssumption
    <2>4. Wrapped((first + extent) - left) = extent - start
      <3>1. (first + extent) - left = extent - start /\ extent - start \in Nat
        BY <2>2, <2>3
      <3>2. extent - start <= MaxCoord
        BY <2>2, <3>1, MaxCoordAssumption
      <3> QED
        BY <3>1, <3>2, NoWrap
    <2>5. piece = IF size <= extent - start THEN size ELSE extent - start
      BY <2>4 DEF SmallerOf
    <2> HIDE DEF left, piece
    <2>6. left \in Nat /\ piece \in Nat \ {0} /\ left + piece <= first + extent
      BY <2>2, <2>3, <2>5
    <2>7. ASSUME NEW n \in Nat
          PROVE  n >= left /\ n < left + piece
                   <=> n >= first /\ n < first + extent /\ (n - first) \div size = k
      <3>1. n >= left /\ n < left + piece
              <=> n >= first /\ n < first + extent /\ start <= n - first /\ n - first < start + size
        BY <2>2, <2>3, <2>5
      <3>2. ASSUME n >= first
            PROVE  start <= n - first /\ n - first < start + size <=> (n - first) \div size = k
        <4> DEFINE d == n - first
        <4>1. d \in Nat
          BY <3>2
        <4>2. size * k = start /\ size * (k + 1) = start + size
          BY <2>1 DEF start
        <4> HIDE DEF d
        <4>3. start <= d /\ d < start + size => d \div size = k
          BY <2>1, <4>1, <4>2, QuotientIs
        <4>4. d \div size = k => start <= d /\ d < start + size
          <5>1. d % size \in 0 .. size - 1 /\ d = size * (d \div size) + (d % size)
            BY <4>1, DivisionFacts
          <5> QED
            BY <2>2, <4>1, <4>2, <5>1
        <4> QED
          BY <4>3, <4>4 DEF d
      <3> QED
        BY <3>1, <3>2
    <2> QED
      BY <2>6, <2>7 DEF IsPiece, left, piece, start
  <1> QED
    BY <1>2, <1>3, <1>5, <1>6 DEF count

\* The tile in a column and row holds the pixels of the window whose distances
\* from its origin divide to that column and row (RasterWindow::Subdivide).
LEMMA TilePixels ==
  ASSUME NEW w \in Window, NEW g \in Grain, Representable(w, g), ~IsEmptyWindow(w),
         g.width > 0, g.height > 0,
         NEW column \in 0 .. TilesAlong(w.width, g.width) - 1,
         NEW row \in 0 .. TilesAlong(w.height, g.height) - 1
  PROVE  /\ Pixels(TileAt(w, g.width, g.height, column, row))
              = {p \in Pixels(w) : /\ (p[1] - w.x) \div g.width = column
                                   /\ (p[2] - w.y) \div g.height = row}
         /\ Pixels(TileAt(w, g.width, g.height, column, row)) # {}
  <1> DEFINE left  == Wrapped(w.x + column * g.width)
             top   == Wrapped(w.y + row * g.height)
             wide  == SmallerOf(g.width, Wrapped((w.x + w.width) - left))
             high  == SmallerOf(g.height, Wrapped((w.y + w.height) - top))
             tile  == [x |-> left, y |-> top, width |-> wide, height |-> high]
  <1>1. /\ w.x \in Nat /\ w.y \in Nat /\ w.width \in Nat \ {0} /\ w.height \in Nat \ {0}
        /\ g.width \in Nat \ {0} /\ g.height \in Nat \ {0}
        /\ w.x + w.width <= MaxCoord /\ w.y + w.height <= MaxCoord
        /\ w.width + g.width - 1 <= MaxCoord /\ w.height + g.height - 1 <= MaxCoord
    BY MaxCoordAssumption DEF Window, Grain, Coord, IsEmptyWindow, Representable, Unsaturated
  <1>2. EndX(w) = w.x + w.width /\ EndY(w) = w.y + w.height
    BY <1>1, MaxCoordAssumption DEF EndX, EndY, SaturatingAdd
  <1>3. TileAt(w, g.width, g.height, column, row) = tile
    <2> DEFINE there == [x |-> left, y |-> top,
                         width  |-> SmallerOf(g.width, Wrapped(EndX(w) - left)),
                         height |-> SmallerOf(g.height, Wrapped(EndY(w) - top))]
    <2>1. TileAt(w, g.width, g.height, column, row) = there
      BY DEF TileAt
    <2> HIDE DEF left, top
    <2>2. EndX(w) - left = (w.x + w.width) - left /\ EndY(w) - top = (w.y + w.height) - top
      BY <1>2, Zenon
    <2>3. there = tile
      BY <2>2, Zenon
    <2> HIDE DEF there, tile
    <2> QED
      BY <2>1, <2>3
  <1>4. /\ left \in Nat /\ wide \in Nat \ {0} /\ left + wide <= w.x + w.width
        /\ \A n \in Nat : n >= left /\ n < left + wide
             <=> n >= w.x /\ n < w.x + w.width /\ (n - w.x) \div g.width = column
    <2>1. IsPiece(w.x, w.width, g.width, column, left, wide)
      BY <1>1, PiecesAlongAxis
    <2> QED
      BY <2>1 DEF IsPiece
  <1>5. /\ top \in Nat /\ high \in Nat \ {0} /\ top + high <= w.y + w.height
        /\ \A n \in Nat : n >= top /\ n < top + high
             <=> n >= w.y /\ n < w.y + w.height /\ (n - w.y) \div g.height = row
    <2>1. IsPiece(w.y, w.height, g.height, row, top, high)
      BY <1>1, PiecesAlongAxis
    <2> QED
      BY <2>1 DEF IsPiece
  <1> HIDE DEF left, top, wide, high
  <1>6. EndX(tile) = left + wide /\ EndY(tile) = top + high /\ ~IsEmptyWindow(tile)
        /\ tile.x = left /\ tile.y = top
    BY <1>1, <1>4, <1>5, MaxCoordAssumption DEF EndX, EndY, SaturatingAdd, IsEmptyWindow
  <1> HIDE DEF tile
  <1>7. ASSUME NEW px \in Coord, NEW py \in Coord
        PROVE  ContainsPixel(tile, px, py)
                 <=> /\ ContainsPixel(w, px, py)
                     /\ (px - w.x) \div g.width = column /\ (py - w.y) \div g.height = row
    <2>1. px \in Nat /\ py \in Nat
      BY MaxCoordAssumption DEF Coord
    <2>2. ContainsPixel(tile, px, py)
            <=> px >= left /\ px < left + wide /\ py >= top /\ py < top + high
      BY <1>6 DEF ContainsPixel
    <2>3. ContainsPixel(w, px, py)
            <=> px >= w.x /\ px < w.x + w.width /\ py >= w.y /\ py < w.y + w.height
      BY <1>2 DEF ContainsPixel
    <2> QED
      BY <1>4, <1>5, <2>1, <2>2, <2>3
  <1>8. <<left, top>> \in Pixels(tile)
    <2>1. left \in Coord /\ top \in Coord
      BY <1>1, <1>4, <1>5, MaxCoordAssumption DEF Coord
    <2>2. ContainsPixel(tile, left, top)
      BY <1>4, <1>5, <1>6 DEF ContainsPixel
    <2> QED
      BY <2>1, <2>2 DEF Pixels
  <1>9. Pixels(tile) = {p \in Pixels(w) : /\ (p[1] - w.x) \div g.width = column
                                          /\ (p[2] - w.y) \div g.height = row}
    BY <1>7 DEF Pixels
  <1> QED
    BY <1>3, <1>8, <1>9

\* The tiles in row-major order, each once (RasterWindow::Subdivide).
LEMMA TilesCover ==
  ASSUME NEW w \in Window, NEW g \in Grain, Representable(w, g), g.width > 0, g.height > 0
  PROVE  CoversExactly(w, Subdivide(w, g.width, g.height))
  <1> DEFINE across == TilesAlong(w.width, g.width)
             down   == TilesAlong(w.height, g.height)
             tiles  == Subdivide(w, g.width, g.height)
             tile(column, row) == TileAt(w, g.width, g.height, column, row)
  <1>1. CASE IsEmptyWindow(w)
    <2>1. tiles = << >>
      BY <1>1 DEF Subdivide
    <2>2. Pixels(w) = {}
      BY <1>1 DEF Pixels, ContainsPixel
    <2> QED
      BY <2>1, <2>2 DEF CoversExactly
  <1>2. CASE ~IsEmptyWindow(w)
    <2>1. /\ w.x \in Nat /\ w.y \in Nat /\ w.width \in Nat \ {0} /\ w.height \in Nat \ {0}
          /\ g.width \in Nat \ {0} /\ g.height \in Nat \ {0}
          /\ w.x + w.width <= MaxCoord /\ w.y + w.height <= MaxCoord
          /\ w.width + g.width - 1 <= MaxCoord /\ w.height + g.height - 1 <= MaxCoord
      BY <1>2, MaxCoordAssumption DEF Window, Grain, Coord, IsEmptyWindow, Representable, Unsaturated
    <2>2. /\ across \in Nat \ {0}
          /\ \A n \in Nat : n >= w.x /\ n < w.x + w.width
               => (n - w.x) \div g.width \in 0 .. across - 1
      BY <2>1, PiecesAlongAxis
    <2>3. /\ down \in Nat \ {0}
          /\ \A n \in Nat : n >= w.y /\ n < w.y + w.height
               => (n - w.y) \div g.height \in 0 .. down - 1
      BY <2>1, PiecesAlongAxis
    <2>4. tiles = [i \in 1 .. across * down |-> tile((i - 1) % across, (i - 1) \div across)]
      BY <1>2, <2>1 DEF Subdivide
    <2>5. ASSUME NEW column \in 0 .. across - 1, NEW row \in 0 .. down - 1
          PROVE  /\ Pixels(tile(column, row))
                      = {p \in Pixels(w) : /\ (p[1] - w.x) \div g.width = column
                                           /\ (p[2] - w.y) \div g.height = row}
                 /\ Pixels(tile(column, row)) # {}
      BY <1>2, TilePixels
    <2>6. ASSUME NEW p \in Pixels(w)
          PROVE  /\ (p[1] - w.x) \div g.width \in 0 .. across - 1
                 /\ (p[2] - w.y) \div g.height \in 0 .. down - 1
      <3>1. p[1] \in Nat /\ p[2] \in Nat /\ ContainsPixel(w, p[1], p[2])
        BY MaxCoordAssumption DEF Pixels, Coord
      <3>2. /\ p[1] >= w.x /\ p[1] < w.x + w.width
            /\ p[2] >= w.y /\ p[2] < w.y + w.height
        BY <2>1, <3>1, MaxCoordAssumption DEF ContainsPixel, EndX, EndY, SaturatingAdd
      <3> QED
        BY <2>2, <2>3, <3>1, <3>2
    <2> HIDE DEF across, down, tiles, tile
    <2>7. ASSUME NEW i \in DOMAIN tiles
          PROVE  /\ (i - 1) % across \in 0 .. across - 1 /\ (i - 1) \div across \in 0 .. down - 1
                 /\ i = across * ((i - 1) \div across) + ((i - 1) % across) + 1
                 /\ tiles[i] = tile((i - 1) % across, (i - 1) \div across)
      <3>1. across * down \in Nat
        BY <2>2, <2>3, ProductFacts
      <3>2. i \in 1 .. across * down
        BY <2>4
      <3>3. i - 1 \in Nat /\ i - 1 < across * down
        BY <3>1, <3>2
      <3>4. /\ (i - 1) % across \in 0 .. across - 1 /\ (i - 1) \div across \in Nat
            /\ i - 1 = across * ((i - 1) \div across) + ((i - 1) % across)
        BY <2>2, <3>3, DivisionFacts
      <3>5. (i - 1) \div across < down
        BY <2>2, <2>3, <3>3, QuotientBelow
      <3>6. i = across * ((i - 1) \div across) + ((i - 1) % across) + 1
        BY <2>2, <3>2, <3>4, ProductFacts
      <3> QED
        BY <2>3, <2>4, <3>2, <3>4, <3>5, <3>6
    <2>8. ASSUME NEW p \in Pixels(w)
          PROVE  \E i \in DOMAIN tiles : p \in Pixels(tiles[i])
      <3> DEFINE column == (p[1] - w.x) \div g.width
                 row    == (p[2] - w.y) \div g.height
                 k      == across * row + column
      <3>1. column \in 0 .. across - 1 /\ row \in 0 .. down - 1
        BY <2>6
      <3>2. p \in Pixels(tile(column, row))
        BY <2>5, <3>1
      <3> HIDE DEF column, row
      <3>3. /\ column \in Nat /\ row \in Nat /\ across * row \in Nat /\ across * down \in Nat
            /\ across * (row + 1) = across * row + across
        BY <2>2, <2>3, <3>1, ProductFacts
      <3>4. across * (row + 1) <= across * down
        BY <2>2, <2>3, <3>1, <3>3, ProductMonotone
      <3>5. k \in Nat /\ k < across * down /\ k < across * (row + 1) /\ across * row <= k
        BY <2>2, <3>1, <3>3, <3>4
      <3>6. k \div across = row
        BY <2>2, <3>3, <3>5, QuotientIs
      <3>7. k % across = column
        <4>0. k % across \in 0 .. across - 1 /\ k = across * (k \div across) + (k % across)
          BY <2>2, <3>5, DivisionFacts
        <4>1. k % across \in Nat /\ k = across * row + (k % across)
          BY <2>2, <3>6, <4>0
        <4> QED
          BY <3>3, <4>1
      <3> HIDE DEF k
      <3>8. k + 1 \in 1 .. across * down /\ (k + 1) - 1 = k
        BY <3>3, <3>5
      <3>9. tiles[k + 1] = tile(column, row) /\ k + 1 \in DOMAIN tiles
        BY <2>4, <3>6, <3>7, <3>8
      <3> QED
        BY <3>2, <3>9
    <2>9. ASSUME NEW i \in DOMAIN tiles
          PROVE  Pixels(tiles[i]) # {} /\ Pixels(tiles[i]) \subseteq Pixels(w)
      BY <2>5, <2>7
    <2>10. ASSUME NEW i \in DOMAIN tiles, NEW j \in DOMAIN tiles, i # j
           PROVE  Pixels(tiles[i]) \cap Pixels(tiles[j]) = {}
      <3>1. \/ (i - 1) % across # (j - 1) % across
            \/ (i - 1) \div across # (j - 1) \div across
        BY <2>7, <2>10
      <3> QED
        BY <2>5, <2>7, <3>1
    <2> QED
      BY <2>8, <2>9, <2>10 DEF CoversExactly, tiles
  <1> QED
    BY <1>1, <1>2

\* Subdivide's tiles cover the window with no gap and no overlap as long as its
\* extent can be rounded up to a whole tile.
THEOREM SubdivisionCovers == WindowSpec => []SubdivisionTilesTheWindow
  <1>1. Typed => SubdivisionTilesTheWindow
    BY TilesCover DEF Typed, SubdivisionTilesTheWindow
  <1> QED
    BY <1>1, RequestsAreTyped, PTL
=============================================================================
