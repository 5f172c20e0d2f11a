----------------------------- MODULE WindowRead -----------------------------
(***************************************************************************)
(* What a read of one raster promises its caller, with no segments, no     *)
(* batches and no bytes: every read ends, and it ends either with all the  *)
(* samples it was asked for and no error, or with one error and no sample. *)
(*                                                                         *)
(* The raster has levels: level 0 is the full resolution, level k is       *)
(* raster.reduction[k] times coarser on both axes, and each level is cut   *)
(* into native tiles.  A sample is named by the level, the pixel of that   *)
(* level and the band it is taken from.                                    *)
(***************************************************************************)
EXTENDS Integers

CONSTANTS Questions,    \* what a caller may ask
          NoQuestion,   \* the request before the first one
          SampleSize    \* bytes of one delivered sample

VARIABLES raster,   \* the raster read; it never changes
          phase,    \* "idle" or "reading"
          request,  \* what the caller asked for last
          answer    \* what the caller got for it

vars == <<raster, phase, request, answer>>

Nothing  == << >>
NoAnswer == [ok |-> FALSE, errors |-> 0, samples |-> Nothing]
Refusal  == [ok |-> FALSE, errors |-> 1, samples |-> Nothing]
Delivery(samples) == [ok |-> TRUE, errors |-> 0, samples |-> samples]

Levels == DOMAIN raster.reduction

(***************************************************************************)
(* The full-resolution rectangle a question is about: a window as given,   *)
(* whole rows, or what the native tile (x, y) of a level covers.           *)
(***************************************************************************)
Less(a, b) == IF a <= b THEN a ELSE b
More(a, b) == IF a >= b THEN a ELSE b

CoveredByTile(q, level) ==
  LET across == raster.tileWidth[level] * raster.reduction[level]
      down   == raster.tileHeight[level] * raster.reduction[level]
      left   == q.x * across
      top    == q.y * down
  IN  [x |-> left, y |-> top,
       width  |-> Less(across, raster.width - left),
       height |-> Less(down, raster.height - top)]

Region(q, level) ==
  CASE q.kind = "window"    -> [x |-> q.x, y |-> q.y, width |-> q.width, height |-> q.height]
    [] q.kind = "scanlines" -> [x |-> 0, y |-> q.y, width |-> raster.width, height |-> q.height]
    [] q.kind = "tile"      -> CoveredByTile(q, level)

Inside(region) ==
  /\ region.x + region.width <= raster.width
  /\ region.y + region.height <= raster.height

(***************************************************************************)
(* The samples of a region served from one level.                          *)
(***************************************************************************)
Ceiling(n, step) == (n + step - 1) \div step

\* Full-resolution pixels between two delivered samples.
Spacing(q, level) == More(More(q.step, 1), raster.reduction[level])

Columns(q, level) == Ceiling(Region(q, level).width, Spacing(q, level))
Rows(q, level)    == Ceiling(Region(q, level).height, Spacing(q, level))

SamplesOf(q, level) ==
  [p \in (0 .. Columns(q, level) - 1) \X (0 .. Rows(q, level) - 1) |->
     [level |-> level, band |-> q.band,
      x |-> (Region(q, level).x + p[1] * Spacing(q, level)) \div raster.reduction[level],
      y |-> (Region(q, level).y + p[2] * Spacing(q, level)) \div raster.reduction[level]]]

(***************************************************************************)
(* When a question may be answered with samples: the level is the one      *)
(* asked for, or one no coarser than the sampling step; the region is in   *)
(* the raster, the band exists, and the samples fit the memory budget.     *)
(***************************************************************************)
MayServe(q, level) ==
  IF q.level # 0 THEN level = q.level ELSE raster.reduction[level] <= More(q.step, 1)

Answerable(q, level) ==
  /\ MayServe(q, level)
  /\ q.band \in 1 .. raster.bands
  /\ Inside(Region(q, level))
  /\ q.kind = "tile" => Region(q, level).width > 0 /\ Region(q, level).height > 0
  /\ q.budget # 0 => Columns(q, level) * Rows(q, level) * SampleSize <= q.budget

-----------------------------------------------------------------------------
Init ==
  /\ phase = "idle"
  /\ request = NoQuestion
  /\ answer = NoAnswer

Ask ==
  /\ phase = "idle"
  /\ phase' = "reading"
  /\ request' \in Questions
  /\ answer' = NoAnswer
  /\ UNCHANGED raster

Deliver(level) ==
  /\ phase = "reading"
  /\ Answerable(request, level)
  /\ phase' = "idle"
  /\ answer' = Delivery(SamplesOf(request, level))
  /\ UNCHANGED <<raster, request>>

\* A read may always be refused: the source may fail, the host may cancel.
Refuse ==
  /\ phase = "reading"
  /\ phase' = "idle"
  /\ answer' = Refusal
  /\ UNCHANGED <<raster, request>>

Next ==
  \/ Ask
  \/ \E level \in Levels : Deliver(level)
  \/ Refuse

Spec == Init /\ [][Next]_vars

-----------------------------------------------------------------------------
\* A caller need never ask, but a read that was asked for ends.
EveryReadEnds == phase = "reading" ~> phase = "idle"
=============================================================================
