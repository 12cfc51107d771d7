----------------------------- MODULE Placement ------------------------------
(***************************************************************************)
(* Where create_diff_image puts a matched new segment (image.cc): template  *)
(* matching in the old image, the rectangle around the place found, and the *)
(* loop that compares pixel by pixel with unchecked access.  Sizes are      *)
(* <<width, height>>, pixels <<x, y>>; pixel values are left open.          *)
(***************************************************************************)
EXTENDS Integers

CONSTANT MaxSide   \* bound on the width and height of an image

ASSUME SideAssumption == MaxSide \in Nat \ {0}

VARIABLES
  oldSize, newSize,  \* of the two images; result is as large as the old one
  area,              \* image_segment2.area, a part of the new image
  pc,                \* "search", "frame", "compare", "done", "threw" or "undefined"
  rect,              \* the place in the old image
  i, j,              \* row and column in rect
  red                \* pixels of result that have been painted

given == <<oldSize, newSize, area>>
placeVars == <<given, pc, rect, i, j, red>>

Sizes == (1 .. MaxSide) \X (1 .. MaxSide)
Image(size) == (0 .. size[1] - 1) \X (0 .. size[2] - 1)
Rects == [x : Nat, y : Nat, width : Nat, height : Nat]
Inside(r) == (r.x .. r.x + r.width - 1) \X (r.y .. r.y + r.height - 1)

PlaceTypeOK ==
  /\ oldSize \in Sizes /\ newSize \in Sizes
  /\ area \in Rects /\ rect \in Rects
  /\ pc \in {"search", "frame", "compare", "done", "threw", "undefined"}
  /\ i \in Nat /\ j \in Nat
  /\ red \in SUBSET (Nat \X Nat)

(* A segment has at least one pixel, or it would have no descriptor.        *)
PlaceInit ==
  /\ oldSize \in Sizes /\ newSize \in Sizes
  /\ area \in [x : 0 .. MaxSide, y : 0 .. MaxSide, width : 1 .. MaxSide, height : 1 .. MaxSide]
  /\ area.x + area.width <= newSize[1] /\ area.y + area.height <= newSize[2]
  /\ pc = "search"
  /\ rect = area
  /\ i = 0 /\ j = 0
  /\ red = {}

-----------------------------------------------------------------------------
Fits == area.width <= oldSize[1] /\ area.height <= oldSize[2]
Contains == area.width >= oldSize[1] /\ area.height >= oldSize[2]

(* matchTemplate tries all offsets at which the smaller of the old image    *)
(* and the segment lies in the larger one, whichever that is; minMaxLoc     *)
(* picks one.  It throws when neither contains the other.                   *)
OffsetsByOne(a, b) == IF a <= b THEN 0 .. b - a + 1 ELSE 0 .. a - b
Offsets(a, b) == IF a <= b THEN 0 .. b - a ELSE 0 .. a - b

MatchTemplate ==
  /\ pc = "search"
  /\ Fits \/ Contains
  /\ \E px \in Offsets(area.width, oldSize[1]), py \in Offsets(area.height, oldSize[2]) :
       rect' = [area EXCEPT !.x = px, !.y = py]
  /\ pc' = "frame"
  /\ UNCHANGED <<given, i, j, red>>

MatchTemplateThrows ==
  /\ pc = "search"
  /\ ~Fits /\ ~Contains
  /\ pc' = "threw"
  /\ UNCHANGED <<given, rect, i, j, red>>

(* cv::rectangle: the outermost pixels of rect, those in the image.         *)
Border(r) ==
  {p \in Inside(r) : p[1] \in {r.x, r.x + r.width - 1} \/ p[2] \in {r.y, r.y + r.height - 1}}

DrawFrame ==
  /\ pc = "frame"
  /\ red' = Border(rect) \cap Image(oldSize)
  /\ pc' = "compare"
  /\ UNCHANGED <<given, rect, i, j>>

InOld == <<j + rect.x, i + rect.y>>
InNew == <<j + area.x, i + area.y>>

(* The next position of the two loops.                                      *)
AdvanceRowEarly ==
  /\ j' = IF j + 1 < rect.width - 1 THEN j + 1 ELSE 0
  /\ i' = IF j + 1 < rect.width - 1 THEN i ELSE i + 1
Advance ==
  /\ j' = IF j + 1 < rect.width THEN j + 1 ELSE 0
  /\ i' = IF j + 1 < rect.width THEN i ELSE i + 1

(* One pixel of the old and one of the new image are equal, or differ.      *)
ComparePixel ==
  /\ pc = "compare"
  /\ i < rect.height
  /\ InOld \in Image(oldSize)
  /\ red' \in {red, red \cup {InOld}}
  /\ Advance
  /\ UNCHANGED <<given, pc, rect>>

(* at<> does not check: what happens now is not up to this program.         *)
OutOfImage ==
  /\ pc = "compare"
  /\ i < rect.height
  /\ InOld \notin Image(oldSize)
  /\ pc' = "undefined"
  /\ UNCHANGED <<given, rect, i, j, red>>

EndCompare ==
  /\ pc = "compare"
  /\ i >= rect.height
  /\ pc' = "done"
  /\ UNCHANGED <<given, rect, i, j, red>>

PlaceNext ==
  \/ MatchTemplate \/ MatchTemplateThrows \/ DrawFrame
  \/ ComparePixel \/ OutOfImage \/ EndCompare

PlaceSpec == PlaceInit /\ [][PlaceNext]_placeVars

-----------------------------------------------------------------------------
(* Every pixel that the loop reads in the new image or paints is in its     *)
(* image, and red stays inside the place.  In the old image this is so      *)
(* exactly for a segment that is not larger than that image: only with a    *)
(* larger one does the loop ever leave it, and then always before its end.  *)
AccessInside ==
  /\ pc = "compare" /\ i < rect.height =>
       InNew \in Image(newSize) /\ (Fits => InOld \in Image(oldSize))
  /\ red \subseteq Inside(rect) \cap Image(oldSize)
  /\ pc = "undefined" => ~Fits
  /\ pc = "done" => Fits

(* Each pixel of the segment is compared with the pixel at the same place   *)
(* in the rectangle, and none is left out: a pixel that has not come up yet *)
(* does so before the loop ends.                                            *)
EveryPixelCompared ==
  \A p \in (0 .. MaxSide - 1) \X (0 .. MaxSide - 1) :
    (pc = "search" /\ Fits /\ p[1] < area.width /\ p[2] < area.height)
      ~> (pc = "compare" /\ <<j, i>> = p)
=============================================================================
