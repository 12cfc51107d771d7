---------------------------- MODULE Image_proofs ----------------------------
(***************************************************************************)
(* Theorems about four functions of image.cc that work on one image or one  *)
(* pair of segments: detect_segments, the placing of a segment,             *)
(* descriptor_match and check_histogram_differential.                       *)
(***************************************************************************)
EXTENDS Detect, Placement, DescriptorMatch, Histogram, FiniteSetTheorems,
        SequenceTheorems, NaturalsInduction, WellFoundedInduction, TLAPS

(* A set of naturals has a least element.                                   *)
LEMMA LeastNat ==
  ASSUME NEW S \in SUBSET Nat, S # {}
  PROVE  \E m \in S : \A y \in S : m <= y
  <1> DEFINE R == OpToRel(<, Nat)
  <1>1. PICK m \in S : \A y \in S : ~(<<y, m>> \in R)
    BY NatLessThanWellFounded, WFMin
  <1>2. \A y \in S : ~(y < m)
    BY <1>1 DEF OpToRel
  <1> QED BY <1>2

-----------------------------------------------------------------------------
(* detect_segments, for any number of segments and in either build.         *)

(* While a vector is filled it is a prefix of the rectangles, without       *)
(* descriptors; the loop over the descriptors starts with all of them.      *)
FillInv ==
  \A side \in Sides :
    /\ Len(segments[side]) <= Len(rects[side])
    /\ task[side] \in {"describing", "done"} => Len(segments[side]) = Len(rects[side])
    /\ task[side] # "describing" => waiting[side] = {}
    /\ \A k \in 1 .. Len(segments[side]) : segments[side][k].roi = rects[side][k]

(* A segment has a descriptor once its task is over, if it ever will.       *)
DescribeInv ==
  \A side \in Sides : \A k \in 1 .. Len(segments[side]) :
    segments[side][k].described <=>
      (/\ task[side] \in {"describing", "done"}
       /\ k \notin waiting[side]
       /\ segments[side][k].roi = "textured")

ReturnInv == returned => \A side \in Sides : task[side] = "done"

DInv == TypeOK /\ FillInv /\ DescribeInv /\ ReturnInv

-----------------------------------------------------------------------------
LEMMA InitDInv == Init => DInv
  <1> SUFFICES ASSUME Init PROVE DInv
    OBVIOUS
  <1>1. \A n \in Nat : [1 .. n -> Regions] \subseteq Seq(Regions)
    BY SeqDef
  <1>2. rects \in [Sides -> Seq(Regions)]
    BY <1>1, DetectAssumption DEF Init
  <1>3. TypeOK
    <2>0. <<>> \in Seq(Segment)
      BY EmptySeq
    <2>1. segments \in [Sides -> Seq(Segment)] /\ returned \in BOOLEAN
      BY <2>0, Zenon DEF Init
    <2>2. /\ task \in [Sides -> {"todo", "splitting", "describing", "done"}]
          /\ waiting \in [Sides -> SUBSET Nat]
          /\ \A side \in Sides : waiting[side] \subseteq 1 .. Len(segments[side])
      BY DEF Init
    <2> QED BY <1>2, <2>1, <2>2 DEF TypeOK
  <1>4. FillInv /\ DescribeInv /\ ReturnInv
    BY <1>2 DEF Init, FillInv, DescribeInv, ReturnInv
  <1> QED BY <1>3, <1>4 DEF DInv

LEMMA EmplaceBackStep ==
  ASSUME DInv, NEW side \in Sides, EmplaceBack(side)
  PROVE  DInv'
  <1> DEFINE k == Len(segments[side]) + 1
             item == [roi |-> rects[side][k], described |-> FALSE]
  <1>1. /\ task[side] = "splitting" /\ k <= Len(rects[side])
        /\ segments' = [segments EXCEPT ![side] = Append(segments[side], item)]
        /\ UNCHANGED <<rects, task, waiting, returned>>
    BY DEF EmplaceBack
  <1>2. segments[side] \in Seq(Segment) /\ rects[side] \in Seq(Regions) /\ k \in Nat
    BY DEF DInv, TypeOK
  <1>3. item \in Segment /\ item.roi = rects[side][k] /\ item.described = FALSE
    BY <1>1, <1>2 DEF Segment
  <1> HIDE DEF item
  <1>4. /\ Append(segments[side], item) \in Seq(Segment)
        /\ Len(Append(segments[side], item)) = k
        /\ Append(segments[side], item)[k] = item
        /\ \A l \in 1 .. Len(segments[side]) :
             Append(segments[side], item)[l] = segments[side][l]
    BY <1>2, <1>3
  <1>5. /\ segments'[side] = Append(segments[side], item)
        /\ \A s \in Sides : s # side => segments'[s] = segments[s]
    BY <1>1 DEF DInv, TypeOK
  <1>6. TypeOK'
    <2>1. segments' \in [Sides -> Seq(Segment)]
      BY <1>1, <1>4 DEF DInv, TypeOK
    <2>2. \A s \in Sides : waiting'[s] \subseteq 1 .. Len(segments'[s])
      BY <1>1, <1>4, <1>5 DEF DInv, TypeOK, FillInv
    <2> QED BY <1>1, <2>1, <2>2 DEF DInv, TypeOK
  <1>7. FillInv'
    <2> SUFFICES ASSUME NEW s \in Sides
                 PROVE  /\ Len(segments'[s]) <= Len(rects[s])
                        /\ task[s] \in {"describing", "done"} => Len(segments'[s]) = Len(rects[s])
                        /\ task[s] # "describing" => waiting[s] = {}
                        /\ \A l \in 1 .. Len(segments'[s]) : segments'[s][l].roi = rects[s][l]
      BY <1>1 DEF FillInv
    <2>1. CASE s = side
      BY <2>1, <1>1, <1>2, <1>3, <1>4, <1>5 DEF DInv, FillInv
    <2>2. CASE s # side
      BY <2>2, <1>5 DEF DInv, FillInv
    <2> QED BY <2>1, <2>2
  <1>8. DescribeInv'
    <2> SUFFICES ASSUME NEW s \in Sides, NEW l \in 1 .. Len(segments'[s])
                 PROVE  segments'[s][l].described <=>
                          (/\ task[s] \in {"describing", "done"}
                           /\ l \notin waiting[s]
                           /\ segments'[s][l].roi = "textured")
      BY <1>1 DEF DescribeInv
    <2>1. CASE s = side
      BY <2>1, <1>1, <1>2, <1>3, <1>4, <1>5 DEF DInv, DescribeInv
    <2>2. CASE s # side
      BY <2>2, <1>5 DEF DInv, DescribeInv
    <2> QED BY <2>1, <2>2
  <1> QED BY <1>1, <1>6, <1>7, <1>8 DEF DInv, ReturnInv

LEMMA DescribeStep ==
  ASSUME DInv, NEW side \in Sides, NEW k \in waiting[side], Describe(side, k)
  PROVE  DInv'
  <1>1. /\ task[side] = "describing"
        /\ segments' = Described(side, k)
        /\ waiting' = [waiting EXCEPT ![side] = waiting[side] \ {k}]
        /\ UNCHANGED <<rects, task, returned>>
    BY DEF Describe
  <1>2. /\ segments[side] \in Seq(Segment) /\ k \in 1 .. Len(segments[side])
        /\ segments \in [Sides -> Seq(Segment)]
        /\ segments[side][k] \in Segment
    BY DEF DInv, TypeOK
  <1> DEFINE item == [segments[side][k] EXCEPT
                        !.described = segments[side][k].described
                                        \/ Describes(segments[side][k].roi)]
             filled == [segments[side] EXCEPT ![k] = item]
  <1>3. /\ item \in Segment /\ item.roi = segments[side][k].roi
        /\ item.described <=> (segments[side][k].described \/ Describes(segments[side][k].roi))
    BY <1>2 DEF Segment, Describes
  <1>4. segments' = [segments EXCEPT ![side] = filled]
    BY <1>1, <1>2 DEF Described
  <1> HIDE DEF item
  <1>5. /\ filled \in Seq(Segment) /\ Len(filled) = Len(segments[side])
        /\ filled[k] = item
        /\ \A l \in 1 .. Len(segments[side]) : l # k => filled[l] = segments[side][l]
    BY <1>2, <1>3
  <1> HIDE DEF filled
  <1>6. /\ segments'[side] = filled
        /\ \A s \in Sides : s # side => segments'[s] = segments[s] /\ waiting'[s] = waiting[s]
        /\ \A s \in Sides : Len(segments'[s]) = Len(segments[s])
    BY <1>1, <1>2, <1>4, <1>5 DEF DInv, TypeOK
  <1>7. waiting'[side] = waiting[side] \ {k} /\ k \notin waiting'[side]
    BY <1>1 DEF DInv, TypeOK
  <1>8. TypeOK'
    <2>1. segments' \in [Sides -> Seq(Segment)]
      BY <1>2, <1>4, <1>5
    <2>2. \A s \in Sides : waiting'[s] \subseteq 1 .. Len(segments'[s])
      BY <1>6, <1>7 DEF DInv, TypeOK
    <2> QED BY <1>1, <2>1, <2>2 DEF DInv, TypeOK
  <1>9. FillInv'
    BY <1>1, <1>3, <1>5, <1>6, <1>7 DEF DInv, FillInv
  <1>10. DescribeInv'
    <2> SUFFICES ASSUME NEW s \in Sides, NEW l \in 1 .. Len(segments'[s])
                 PROVE  segments'[s][l].described <=>
                          (/\ task[s] \in {"describing", "done"}
                           /\ l \notin waiting'[s]
                           /\ segments'[s][l].roi = "textured")
      BY <1>1 DEF DescribeInv
    <2>1. CASE s = side /\ l = k
      BY <2>1, <1>1, <1>2, <1>3, <1>5, <1>6, <1>7 DEF DInv, DescribeInv, Describes
    <2>2. CASE s = side /\ l # k
      BY <2>2, <1>1, <1>5, <1>6, <1>7 DEF DInv, DescribeInv
    <2>3. CASE s # side
      BY <2>3, <1>6 DEF DInv, DescribeInv
    <2> QED BY <2>1, <2>2, <2>3
  <1> QED BY <1>1, <1>8, <1>9, <1>10 DEF DInv, ReturnInv

LEMMA TaskStep ==
  ASSUME DInv, NEW side \in Sides,
         BeginDetect(side) \/ BeginDescriptors(side) \/ EndDetect(side)
  PROVE  DInv'
  <1> USE DEF DInv, TypeOK, FillInv, DescribeInv, ReturnInv
  <1>1. CASE BeginDetect(side)
    BY <1>1 DEF BeginDetect
  <1>2. CASE BeginDescriptors(side)
    BY <1>2 DEF BeginDescriptors
  <1>3. CASE EndDetect(side)
    BY <1>3 DEF EndDetect, LoopOver
  <1> QED BY <1>1, <1>2, <1>3

LEMMA NextDInv == DInv /\ [Next]_vars => DInv'
  <1> SUFFICES ASSUME DInv, [Next]_vars PROVE DInv'
    OBVIOUS
  <1>1. CASE Next
    <2>1. CASE Return
      BY <2>1 DEF Return, DInv, TypeOK, FillInv, DescribeInv, ReturnInv
    <2> QED BY <1>1, <2>1, EmplaceBackStep, DescribeStep, TaskStep DEF Next
  <1>2. CASE UNCHANGED vars
    BY <1>2 DEF vars, DInv, TypeOK, FillInv, DescribeInv, ReturnInv
  <1> QED BY <1>1, <1>2

LEMMA DetectInductive == Spec => []DInv
  BY InitDInv, NextDInv, PTL DEF Spec

-----------------------------------------------------------------------------
(* Vectors, tasks and the indices handed to the descriptor tasks keep their *)
(* types: no task gets an index beyond the vector.                          *)
THEOREM DetectTypeCorrect == Spec => []TypeOK
  BY DetectInductive, PTL DEF DInv

(* When detect_segments returns, the vectors list the rectangles in order   *)
(* and exactly the segments that can be described have a descriptor.        *)
THEOREM SegmentsAreReady == Spec => []SegmentsReady
  <1>1. DInv => SegmentsReady
    <2> SUFFICES ASSUME DInv, returned, NEW side \in Sides
                 PROVE  segments[side] = [k \in 1 .. Len(rects[side]) |->
                          [roi |-> rects[side][k], described |-> rects[side][k] = "textured"]]
      BY DEF SegmentsReady
    <2>1. task[side] = "done" /\ waiting[side] = {}
      BY DEF DInv, ReturnInv, FillInv
    <2>2. segments[side] \in Seq(Segment) /\ Len(segments[side]) = Len(rects[side])
      BY <2>1 DEF DInv, TypeOK, FillInv
    <2>3. ASSUME NEW k \in 1 .. Len(segments[side])
          PROVE  segments[side][k] =
                   [roi |-> rects[side][k], described |-> rects[side][k] = "textured"]
      <3>1. segments[side][k] \in Segment
        BY <2>2
      <3>2. segments[side][k].roi = rects[side][k]
        BY DEF DInv, FillInv
      <3>3. segments[side][k].described <=> (segments[side][k].roi = "textured")
        BY <2>1 DEF DInv, DescribeInv
      <3>4. segments[side][k].described = (rects[side][k] = "textured")
        BY <3>1, <3>2, <3>3 DEF Segment
      <3>5. segments[side][k] = [roi |-> segments[side][k].roi,
                                 described |-> segments[side][k].described]
        BY <3>1 DEF Segment
      <3> QED BY <3>2, <3>4, <3>5
    <2> DEFINE item(k) ==
                 [roi |-> rects[side][k], described |-> rects[side][k] = "textured"]
    <2>4. \A k \in 1 .. Len(segments[side]) : segments[side][k] = item(k)
      BY <2>3
    <2> HIDE DEF item
    <2>5. segments[side] = [k \in 1 .. Len(rects[side]) |-> item(k)]
      BY <2>2, <2>4
    <2> QED BY <2>5 DEF item
  <1> QED BY <1>1, DetectInductive, PTL

-----------------------------------------------------------------------------
(* The placing of a segment, for images and segments of any size: the pixel *)
(* loop stays in the images if and only if the segment fits into the old    *)
(* one.                                                                     *)

(* The segment is a part of the new image and has a pixel.                  *)
AreaInv ==
  /\ oldSize[1] \in Nat /\ oldSize[2] \in Nat /\ newSize[1] \in Nat /\ newSize[2] \in Nat
  /\ area.width > 0 /\ area.height > 0
  /\ area.x + area.width <= newSize[1] /\ area.y + area.height <= newSize[2]

(* The rectangle has the size of the segment; if the segment fits, it lies  *)
(* in the old image.                                                        *)
RectInv ==
  /\ rect.width = area.width /\ rect.height = area.height
  /\ Fits /\ pc # "search" =>
       rect.x + rect.width <= oldSize[1] /\ rect.y + rect.height <= oldSize[2]

(* The loop's position, and what may be red by now.  The rows behind it     *)
(* were in the old image.                                                   *)
LoopInv ==
  /\ j < rect.width
  /\ Fits => pc # "undefined"
  /\ pc \in {"search", "frame"} => i = 0
  /\ pc = "compare" /\ i > 0 =>
       rect.x + rect.width <= oldSize[1] /\ rect.y + i <= oldSize[2]
  /\ pc = "done" => Fits
  /\ pc \in {"search", "frame", "threw"} => red = {}
  /\ red \subseteq Inside(rect) \cap Image(oldSize)

PInv == PlaceTypeOK /\ AreaInv /\ RectInv /\ LoopInv

-----------------------------------------------------------------------------
LEMMA InitPInv == PlaceInit => PInv
  <1> SUFFICES ASSUME PlaceInit PROVE PInv
    OBVIOUS
  <1> USE SideAssumption
  <1>1. PlaceTypeOK /\ AreaInv
    BY DEF PlaceInit, PlaceTypeOK, Sizes, Rects, AreaInv
  <1>2. RectInv /\ LoopInv
    BY DEF PlaceInit, RectInv, LoopInv
  <1> QED BY <1>1, <1>2 DEF PInv

(* The position of the loop is in the place and, in the new image, a pixel; *)
(* in the old image it is one if the segment fits.                          *)
LEMMA PositionInside ==
  ASSUME PInv, pc = "compare", i < rect.height
  PROVE  /\ InOld \in Inside(rect)
         /\ Fits => InOld \in Image(oldSize)
         /\ InNew \in Image(newSize)
  <1>1. /\ rect.x \in Nat /\ rect.y \in Nat /\ rect.width \in Nat /\ rect.height \in Nat
        /\ area.x \in Nat /\ area.y \in Nat /\ area.width \in Nat /\ area.height \in Nat
        /\ i \in Nat /\ j \in Nat
    BY DEF PInv, PlaceTypeOK, Rects
  <1>2. j + rect.x \in rect.x .. rect.x + rect.width - 1
        /\ i + rect.y \in rect.y .. rect.y + rect.height - 1
    BY <1>1 DEF PInv, LoopInv
  <1>3. Fits => j + rect.x \in 0 .. oldSize[1] - 1 /\ i + rect.y \in 0 .. oldSize[2] - 1
    BY <1>1, <1>2 DEF PInv, RectInv, AreaInv
  <1>4. j + area.x \in 0 .. newSize[1] - 1 /\ i + area.y \in 0 .. newSize[2] - 1
    BY <1>1 DEF PInv, RectInv, AreaInv, LoopInv
  <1> QED BY <1>2, <1>3, <1>4 DEF InOld, InNew, Inside, Image

LEMMA SearchStep ==
  ASSUME PInv, MatchTemplate \/ MatchTemplateThrows
  PROVE  PInv'
  <1>1. CASE MatchTemplate
    <2>1. PICK px \in Offsets(area.width, oldSize[1]), py \in Offsets(area.height, oldSize[2]) :
            rect' = [area EXCEPT !.x = px, !.y = py]
      BY <1>1 DEF MatchTemplate
    <2>2. px \in Nat /\ py \in Nat
      BY <2>1 DEF Offsets, PInv, PlaceTypeOK, Rects, AreaInv
    <2>3. /\ area \in Rects /\ rect' \in Rects
          /\ rect'.x = px /\ rect'.y = py
          /\ rect'.width = area.width /\ rect'.height = area.height
      BY <2>1, <2>2 DEF PInv, PlaceTypeOK, Rects
    <2>4. Fits => px + area.width <= oldSize[1] /\ py + area.height <= oldSize[2]
      BY <2>1, <2>3 DEF Fits, Offsets, PInv, AreaInv, Rects
    <2>5. pc = "search" /\ pc' = "frame" /\ UNCHANGED <<given, i, j, red>>
      BY <1>1 DEF MatchTemplate
    <2>6. PlaceTypeOK' /\ AreaInv'
      BY <2>3, <2>5 DEF PInv, PlaceTypeOK, AreaInv, given
    <2>7. RectInv'
      BY <2>3, <2>4, <2>5 DEF RectInv, Fits, given
    <2>8. LoopInv'
      BY <2>3, <2>5 DEF PInv, LoopInv, RectInv
    <2> QED BY <2>6, <2>7, <2>8 DEF PInv
  <1>2. CASE MatchTemplateThrows
    BY <1>2 DEF MatchTemplateThrows, PInv, PlaceTypeOK, AreaInv, RectInv, LoopInv, Fits,
                given, Inside, Image
  <1> QED BY <1>1, <1>2

LEMMA FrameStep ==
  ASSUME PInv, DrawFrame
  PROVE  PInv'
  <1>1. pc' = "compare" /\ pc = "frame" /\ UNCHANGED <<given, rect, i, j>>
    BY DEF DrawFrame
  <1>2. red' \subseteq Inside(rect) \cap Image(oldSize)
    BY DEF DrawFrame, Border
  <1>3. Image(oldSize) \subseteq Nat \X Nat
    BY DEF Image, PInv, AreaInv
  <1>4. PlaceTypeOK'
    BY <1>1, <1>2, <1>3 DEF PInv, PlaceTypeOK, given
  <1>5. AreaInv' /\ RectInv'
    BY <1>1 DEF PInv, AreaInv, RectInv, Fits, given
  <1>6. LoopInv'
    BY <1>1, <1>2 DEF PInv, LoopInv, Inside, Image, given
  <1> QED BY <1>4, <1>5, <1>6 DEF PInv

LEMMA LoopStep ==
  ASSUME PInv, ComparePixel \/ OutOfImage \/ EndCompare
  PROVE  PInv'
  <1>0. pc = "compare" /\ UNCHANGED <<given, rect>>
    BY DEF ComparePixel, OutOfImage, EndCompare
  <1>1. CASE ComparePixel
    <2>1. /\ InOld \in Image(oldSize) /\ i < rect.height /\ pc' = pc
          /\ red' \subseteq red \cup {InOld} /\ Advance
      BY <1>1 DEF ComparePixel
    <2>2. /\ rect.x \in Nat /\ rect.y \in Nat /\ rect.width \in Nat /\ rect.height \in Nat
          /\ rect.width > 0 /\ i \in Nat /\ j \in Nat /\ j < rect.width
      BY DEF PInv, PlaceTypeOK, Rects, RectInv, AreaInv, LoopInv
    <2>3. i' \in Nat /\ j' \in Nat /\ j' < rect.width
      BY <2>1, <2>2 DEF Advance
    <2>4. j + rect.x \in rect.x .. rect.x + rect.width - 1
          /\ i + rect.y \in rect.y .. rect.y + rect.height - 1
      BY <2>1, <2>2
    <2>5. red' \subseteq Inside(rect) \cap Image(oldSize)
      BY <2>1, <2>4 DEF InOld, Inside, PInv, LoopInv
    <2>6. Image(oldSize) \subseteq Nat \X Nat
      BY DEF Image, PInv, AreaInv
    <2>7. PlaceTypeOK'
      BY <1>0, <2>1, <2>3, <2>5, <2>6 DEF PInv, PlaceTypeOK, given
    <2>8. AreaInv' /\ RectInv'
      BY <1>0, <2>1 DEF PInv, AreaInv, RectInv, Fits, given
    <2>9. i' > 0 => rect.x + rect.width <= oldSize[1] /\ rect.y + i' <= oldSize[2]
      <3>1. j + rect.x <= oldSize[1] - 1 /\ i + rect.y <= oldSize[2] - 1
        BY <2>1 DEF InOld, Image
      <3>2. oldSize[1] \in Nat /\ oldSize[2] \in Nat
        BY DEF PInv, AreaInv
      <3>3. CASE j + 1 < rect.width
        BY <1>0, <2>1, <3>3 DEF Advance, PInv, LoopInv
      <3>4. CASE ~(j + 1 < rect.width)
        BY <2>1, <2>2, <3>1, <3>2, <3>4 DEF Advance
      <3> QED BY <3>3, <3>4
    <2>10. LoopInv'
      BY <1>0, <2>1, <2>3, <2>5, <2>9 DEF LoopInv, Inside, Image, given
    <2> QED BY <2>7, <2>8, <2>10 DEF PInv
  <1>2. CASE OutOfImage
    <2>1. ~Fits
      BY <1>2, PositionInside DEF OutOfImage
    <2> QED BY <1>2, <2>1 DEF OutOfImage, PInv, PlaceTypeOK, AreaInv, RectInv, LoopInv, Fits,
                              given, Inside, Image
  <1>3. CASE EndCompare
    <2>1. Fits
      <3>1. /\ rect.x \in Nat /\ rect.y \in Nat /\ rect.width \in Nat /\ rect.height \in Nat
            /\ rect.width = area.width /\ rect.height = area.height /\ rect.height > 0
            /\ i \in Nat /\ i >= rect.height
            /\ oldSize[1] \in Nat /\ oldSize[2] \in Nat
        BY <1>3 DEF EndCompare, PInv, PlaceTypeOK, Rects, AreaInv, RectInv
      <3>2. rect.x + rect.width <= oldSize[1] /\ rect.y + i <= oldSize[2]
        BY <1>0, <3>1 DEF PInv, LoopInv
      <3> QED BY <3>1, <3>2 DEF Fits
    <2> QED BY <1>3, <2>1 DEF EndCompare, PInv, PlaceTypeOK, AreaInv, RectInv, LoopInv, Fits,
                              given, Inside, Image
  <1> QED BY <1>1, <1>2, <1>3

LEMMA NextPInv == PInv /\ [PlaceNext]_placeVars => PInv'
  <1> SUFFICES ASSUME PInv, [PlaceNext]_placeVars PROVE PInv'
    OBVIOUS
  <1>1. CASE PlaceNext
    BY <1>1, SearchStep, FrameStep, LoopStep DEF PlaceNext
  <1>2. CASE UNCHANGED placeVars
    BY <1>2 DEF placeVars, given, PInv, PlaceTypeOK, AreaInv, RectInv, LoopInv, Fits, Inside, Image
  <1> QED BY <1>1, <1>2

LEMMA PlaceInductive == PlaceSpec => []PInv
  BY InitPInv, NextPInv, PTL DEF PlaceSpec

-----------------------------------------------------------------------------
(* Sizes, rectangle and position keep their types; in particular the place  *)
(* never has a negative coordinate.                                         *)
THEOREM PlaceTypeCorrect == PlaceSpec => []PlaceTypeOK
  BY PlaceInductive, PTL DEF PInv

(* A segment that is not larger than the old image is compared and painted  *)
(* with accesses inside the images only, wherever it was found; with any    *)
(* other one that matchTemplate accepts, the comparison leaves the old      *)
(* image before it is through.                                              *)
THEOREM AccessesInside == PlaceSpec => []AccessInside
  <1>1. PInv => AccessInside
    BY PositionInside DEF AccessInside, PInv, LoopInv
  <1> QED BY <1>1, PlaceInductive, PTL

(* The pixels of the place, row by row: how many the loop has dealt with is *)
(* the number of the pixel it is at.                                        *)
PixelNumber == i * rect.width + j
PixelCount == rect.height * rect.width

(* A turn of the loop goes on to the next pixel.                            *)
PixelsInTurn ==
  [][pc = "compare" /\ pc' = "compare" => PixelNumber' = PixelNumber + 1]_placeVars

(* The loops start at the first pixel and stop behind the last.             *)
TurnInv ==
  /\ pc \in {"search", "frame", "threw"} => i = 0 /\ j = 0
  /\ i <= rect.height /\ (i = rect.height => j = 0)
  /\ pc = "done" => i = rect.height

LEMMA RowNumbers ==
  ASSUME NEW a \in Nat, NEW b \in Nat, NEW c \in Nat, a <= b
  PROVE  a * c \in Nat /\ a * c <= b * c /\ (a + 1) * c = a * c + c
  <1>1. a * c \in Nat /\ (a + 1) * c = a * c + c
    OBVIOUS
  <1>2. b - a \in Nat /\ (b - a) * c \in Nat /\ (b - a) * c = b * c - a * c
    OBVIOUS
  <1>3. b * c \in Nat
    OBVIOUS
  <1> QED BY <1>1, <1>2, <1>3

LEMMA NextTurn ==
  ASSUME PInv, TurnInv, PlaceNext
  PROVE  /\ TurnInv'
         /\ pc = "compare" /\ pc' = "compare" => PixelNumber' = PixelNumber + 1
  <1>1. i \in Nat /\ j \in Nat /\ rect.width \in Nat /\ rect.height \in Nat /\ j < rect.width
    BY DEF PInv, PlaceTypeOK, Rects, LoopInv
  <1>2. CASE ComparePixel
    <2>1. /\ UNCHANGED <<pc, rect>> /\ pc = "compare" /\ i < rect.height
          /\ j' = IF j + 1 < rect.width THEN j + 1 ELSE 0
          /\ i' = IF j + 1 < rect.width THEN i ELSE i + 1
      BY <1>2 DEF ComparePixel, Advance
    <2>2. TurnInv'
      BY <1>1, <2>1 DEF TurnInv
    <2>3. (i + 1) * rect.width = i * rect.width + rect.width /\ i * rect.width \in Nat
      BY <1>1, RowNumbers
    <2>4. CASE j + 1 < rect.width
      BY <1>1, <2>1, <2>2, <2>3, <2>4 DEF PixelNumber
    <2>5. CASE ~(j + 1 < rect.width)
      <3>1. j' = 0 /\ i' = i + 1 /\ j = rect.width - 1
        BY <1>1, <2>1, <2>5
      <3>2. PixelNumber' = (i + 1) * rect.width + 0
        BY <2>1, <3>1 DEF PixelNumber
      <3> QED BY <1>1, <2>2, <2>3, <3>1, <3>2 DEF PixelNumber
    <2> QED BY <2>4, <2>5
  <1>3. CASE MatchTemplate
    <2>1. pc = "search" /\ pc' = "frame" /\ UNCHANGED <<i, j>>
      BY <1>3 DEF MatchTemplate
    <2>2. rect'.height = rect.height
      BY <1>3 DEF MatchTemplate, PInv, PlaceTypeOK, RectInv, Rects
    <2> QED BY <1>1, <2>1, <2>2 DEF TurnInv
  <1>4. CASE MatchTemplateThrows \/ DrawFrame
    BY <1>4 DEF MatchTemplateThrows, DrawFrame, TurnInv
  <1>5. CASE OutOfImage
    BY <1>5 DEF OutOfImage, TurnInv
  <1>6. CASE EndCompare
    BY <1>1, <1>6 DEF EndCompare, TurnInv
  <1> QED BY <1>2, <1>3, <1>4, <1>5, <1>6 DEF PlaceNext

(* Wherever the place is, and whatever the sizes are, the pixel loop takes  *)
(* the pixels of the segment one after the other from the first to the      *)
(* last: it starts at number 0, no turn skips or repeats one, and it ends   *)
(* with all of them dealt with.                                             *)
THEOREM PixelsOneByOne ==
  PlaceSpec => /\ PixelsInTurn
               /\ [](pc = "frame" => PixelNumber = 0)
               /\ [](PixelNumber \in 0 .. PixelCount)
               /\ [](pc = "done" => PixelNumber = PixelCount)
  <1>1. PlaceInit => TurnInv
    <2> SUFFICES ASSUME PlaceInit PROVE TurnInv
      OBVIOUS
    <2>1. i = 0 /\ j = 0 /\ pc = "search" /\ rect.height \in Nat
      BY InitPInv DEF PlaceInit, PInv, PlaceTypeOK, Rects
    <2> QED BY <2>1 DEF TurnInv
  <1>2. PInv /\ TurnInv /\ [PlaceNext]_placeVars => TurnInv'
    <2>1. TurnInv /\ UNCHANGED placeVars => TurnInv'
      BY DEF TurnInv, placeVars
    <2> QED BY <2>1, NextTurn
  <1>3. PInv /\ TurnInv /\ [PlaceNext]_placeVars =>
          [pc = "compare" /\ pc' = "compare" => PixelNumber' = PixelNumber + 1]_placeVars
    BY NextTurn
  <1>4. PInv /\ TurnInv => /\ pc = "frame" => PixelNumber = 0
                           /\ PixelNumber \in 0 .. PixelCount
                           /\ pc = "done" => PixelNumber = PixelCount
    <2> SUFFICES ASSUME PInv, TurnInv
                 PROVE  /\ pc = "frame" => PixelNumber = 0
                        /\ PixelNumber \in 0 .. PixelCount
                        /\ pc = "done" => PixelNumber = PixelCount
      OBVIOUS
    <2>1. i \in Nat /\ j \in Nat /\ rect.width \in Nat /\ rect.height \in Nat
          /\ j < rect.width
      BY DEF PInv, PlaceTypeOK, Rects, LoopInv
    <2>2. CASE i = rect.height
      <3>1. PixelNumber = rect.height * rect.width + 0 /\ rect.height * rect.width \in Nat
        BY <2>1, <2>2 DEF TurnInv, PixelNumber
      <3>2. PixelNumber = PixelCount /\ PixelCount \in Nat
        BY <3>1 DEF PixelCount
      <3>3. pc = "frame" => PixelNumber = 0
        BY <2>1 DEF TurnInv, PixelNumber
      <3> QED BY <3>2, <3>3
    <2>3. CASE i < rect.height
      <3>1. /\ i * rect.width \in Nat /\ i + 1 \in Nat /\ i + 1 <= rect.height
            /\ (i + 1) * rect.width = i * rect.width + rect.width
        BY <2>1, <2>3, RowNumbers
      <3>2. (i + 1) * rect.width <= rect.height * rect.width
        BY <2>1, <3>1, RowNumbers
      <3>3. PixelNumber \in 0 .. PixelCount
        BY <2>1, <3>1, <3>2 DEF PixelNumber, PixelCount
      <3>4. pc = "frame" => PixelNumber = 0
        BY <2>1 DEF TurnInv, PixelNumber
      <3> QED BY <2>1, <2>3, <3>3, <3>4 DEF TurnInv
    <2> QED BY <2>1, <2>2, <2>3 DEF TurnInv
  <1> QED BY <1>1, <1>2, <1>3, <1>4, PlaceInductive, PTL DEF PlaceSpec, PixelsInTurn

-----------------------------------------------------------------------------
(* descriptor_match, for descriptors of any size.                           *)

(* The pair of rows that a match in list l is about: in the second list the *)
(* searches have their roles swapped.                                       *)
Pair(l, m) == IF l = 1 THEN <<m.queryIdx, m.trainIdx>> ELSE <<m.trainIdx, m.queryIdx>>

(* The pairs that list l is to hold.                                        *)
Wanted(l) ==
  IF cross_check THEN {p \in Pairs12 \cap Pairs21 : p[1] <= looked}
  ELSE IF l = 1 THEN Pairs12 ELSE Pairs21

(* list holds each pair of P once, with its distance.                       *)
Lists(list, l, P) ==
  /\ \A k \in 1 .. Len(list) :
       /\ Pair(l, list[k]) \in P
       /\ list[k].distance = distance[Pair(l, list[k])[1]][Pair(l, list[k])[2]]
  /\ \A g, k \in 1 .. Len(list) : Pair(l, list[g]) = Pair(l, list[k]) => g = k
  /\ \A p \in P : \E k \in 1 .. Len(list) : Pair(l, list[k]) = p

SearchInv ==
  /\ step = "match" => lists = <<>> /\ looked = 0
  /\ step # "match" => /\ match12 \in [1 .. size[1] -> 1 .. size[2]]
                       /\ match21 \in [1 .. size[2] -> 1 .. size[1]]

ListInv ==
  step # "match" =>
    /\ Len(lists) = IF cross_check THEN 1 ELSE IF step = "select" THEN 0 ELSE 2
    /\ \A l \in 1 .. Len(lists) : Lists(lists[l], l, Wanted(l))
    /\ cross_check /\ step # "select" => looked = size[1]

OrderInv ==
  step \in {"decide", "done"} => \A l \in 1 .. Len(lists) : Ordered(lists[l])

MInv == MatchTypeOK /\ SearchInv /\ ListInv /\ OrderInv /\ MajorityDecides

-----------------------------------------------------------------------------
(* A sorted list is the same list in another order.                         *)
LEMMA SortedLists ==
  ASSUME NEW list \in Seq(Matches), NEW l, NEW P, Lists(list, l, P), NEW s \in Sorted(list)
  PROVE  s \in Seq(Matches) /\ Lists(s, l, P) /\ Ordered(s)
  <1> DEFINE D == 1 .. Len(list)
  <1>1. Ordered(s) /\ DOMAIN list = D /\ Len(list) \in Nat
    BY DEF Sorted
  <1>2. PICK p \in Orders(D) : s = [k \in D |-> list[p[k]]]
    BY <1>1 DEF Sorted
  <1>3. p \in [D -> D] /\ \A k \in D : \E g \in D : p[g] = k
    BY <1>2 DEF Orders
  <1>4. \A g, k \in D : p[g] = p[k] => g = k
    <2>1. p \in Surjection(D, D)
      BY <1>3 DEF Surjection
    <2>2. IsFiniteSet(D)
      BY <1>1, FS_Interval
    <2> HIDE DEF D
    <2>3. p \in Injection(D, D)
      BY <2>1, <2>2, FS_SurjSameCardinalityImpliesInj
    <2> QED BY <2>3 DEF Injection, IsInjective
  <1>5. /\ s \in Seq(Matches) /\ Len(s) = Len(list)
        /\ \A k \in D : s[k] = list[p[k]] /\ p[k] \in D
    <2>1. \A k \in D : s[k] = list[p[k]] /\ p[k] \in D /\ list[p[k]] \in Matches
      <3>1. \A k \in D : list[k] \in Matches
        BY ElementOfSeq
      <3> HIDE DEF D
      <3> QED BY <1>2, <1>3, <3>1
    <2>2. s \in [1 .. Len(list) -> Matches]
      BY <1>2, <2>1
    <2>3. s \in Seq(Matches)
      BY <1>1, <2>2, SeqDef
    <2> QED BY <1>1, <2>1, <2>2, <2>3, LenProperties
  <1>6. Lists(s, l, P)
    <2>1. \A k \in D : /\ Pair(l, s[k]) \in P
                       /\ s[k].distance = distance[Pair(l, s[k])[1]][Pair(l, s[k])[2]]
      BY <1>5 DEF Lists
    <2>2. \A g, k \in D : Pair(l, s[g]) = Pair(l, s[k]) => g = k
      BY <1>4, <1>5 DEF Lists
    <2>3. ASSUME NEW q \in P PROVE \E k \in D : Pair(l, s[k]) = q
      <3>1. PICK k \in D : Pair(l, list[k]) = q
        BY DEF Lists
      <3>2. PICK g \in D : p[g] = k
        BY <1>3
      <3> QED BY <1>5, <3>1, <3>2
    <2> QED BY <1>5, <2>1, <2>2, <2>3 DEF Lists
  <1> QED BY <1>1, <1>5, <1>6

(* The median of a sorted list is close exactly when most of the pairs are. *)
LEMMA MedianIsMajority ==
  ASSUME NEW list \in Seq(Matches), NEW l, NEW P, Lists(list, l, P), Ordered(list)
  PROVE  MedianClose(list) <=> MostlyClose(P)
  <1> DEFINE n == Len(list)
             C == {k \in 1 .. n : list[k].distance <= Threshold}
             Bounds == {b \in Nat : \A k \in C : k <= b}
  <1>1. /\ n \in Nat /\ DOMAIN list = 1 .. n /\ C \subseteq 1 .. n
        /\ \A k \in 1 .. n : list[k].distance \in Int
    <2>1. \A m \in Matches : m.distance \in Int
      BY MatchAssumption DEF Matches
    <2>2. \A k \in 1 .. n : list[k] \in Matches
      OBVIOUS
    <2> QED BY <2>1, <2>2
  <1>2. \A g, k \in 1 .. n : g <= k /\ k \in C => g \in C
    BY <1>1, MatchAssumption DEF Ordered
  <1>3. PICK m \in Bounds : \A b \in Bounds : m <= b
    <2>1. n \in Bounds /\ Bounds \in SUBSET Nat
      BY <1>1
    <2> HIDE DEF Bounds
    <2> QED BY <2>1, LeastNat
  <1>4. m \in Nat /\ C = 1 .. m
    <2>1. m \in Nat /\ \A k \in C : k <= m
      BY <1>3
    <2>2. CASE m = 0
      BY <1>1, <2>1, <2>2
    <2>3. CASE m > 0
      <3>1. m - 1 \in Nat /\ m - 1 \notin Bounds
        <4> HIDE DEF Bounds
        <4> QED BY <1>3, <2>1, <2>3
      <3>2. PICK k \in C : ~(k <= m - 1)
        BY <3>1
      <3>3. m \in C
        <4>1. k = m
          BY <1>1, <2>1, <3>2
        <4> QED BY <3>2, <4>1
      <3>4. \A g \in 1 .. m : g \in C
        <4> HIDE DEF C
        <4> QED BY <1>1, <1>2, <2>1, <3>3
      <3> HIDE DEF C
      <3>5. C \subseteq 1 .. m
        BY <1>1, <2>1
      <3>6. 1 .. m \subseteq C
        BY <3>4
      <3> QED BY <2>1, <3>5, <3>6
    <2> QED BY <2>1, <2>2, <2>3
  <1>5. Cardinality(P) = n
    <2> DEFINE all == [k \in 1 .. n |-> Pair(l, list[k])]
    <2>1. all \in Bijection(1 .. n, P)
      <3>1. /\ \A k \in 1 .. n : Pair(l, list[k]) \in P
            /\ \A p \in P : \E k \in 1 .. n : Pair(l, list[k]) = p
            /\ \A g, k \in 1 .. n : Pair(l, list[g]) = Pair(l, list[k]) => g = k
        BY DEF Lists
      <3> HIDE DEF n
      <3> QED BY <3>1 DEF Bijection, Injection, IsInjective, Surjection
    <2>2. ExistsBijection(1 .. n, P)
      <3> HIDE DEF all, n
      <3> QED BY <2>1 DEF ExistsBijection
    <2>3. IsFiniteSet(1 .. n) /\ Cardinality(1 .. n) = n
      <3>1. n \in Nat
        BY <1>1
      <3> HIDE DEF n
      <3> QED BY <3>1, FS_Interval
    <2> QED BY <2>2, <2>3, FS_Bijection
  <1>6. Cardinality(Close(P)) = m
    <2> DEFINE f == [k \in C |-> Pair(l, list[k])]
    <2>1. \A k \in C : Pair(l, list[k]) \in Close(P)
      BY DEF Lists, Close
    <2>2. \A p \in Close(P) : \E k \in C : Pair(l, list[k]) = p
      BY DEF Lists, Close
    <2>3. \A g, k \in C : Pair(l, list[g]) = Pair(l, list[k]) => g = k
      BY DEF Lists
    <2> HIDE DEF C
    <2>4. f \in Bijection(C, Close(P))
      BY <2>1, <2>2, <2>3 DEF Bijection, Injection, IsInjective, Surjection
    <2>5. ExistsBijection(C, Close(P))
      BY <2>4 DEF ExistsBijection
    <2>6. IsFiniteSet(1 .. m) /\ Cardinality(1 .. m) = m
      BY <1>4, FS_Interval
    <2> QED BY <1>4, <2>5, <2>6, FS_Bijection
  <1>7. MostlyClose(P) <=> 2 * m > n
    BY <1>5, <1>6 DEF MostlyClose
  <1>8. CASE n = 0
    <2>1. list = <<>> /\ m = 0
      BY <1>1, <1>4, <1>8, EmptySeq
    <2> QED BY <1>7, <1>8, <2>1 DEF MedianClose
  <1>9. CASE n > 0
    <2>1. list # <<>> /\ n \div 2 + 1 \in 1 .. n
      BY <1>1, <1>9
    <2>2. MedianClose(list) <=> n \div 2 + 1 \in C
      BY <2>1 DEF MedianClose
    <2> HIDE DEF C
    <2>3. n \div 2 + 1 \in C <=> n \div 2 + 1 <= m
      BY <1>4, <2>1
    <2>4. n \div 2 + 1 <= m <=> 2 * m > n
      BY <1>1, <1>4
    <2> QED BY <1>7, <2>2, <2>3, <2>4
  <1> HIDE DEF n
  <1> QED BY <1>1, <1>8, <1>9

-----------------------------------------------------------------------------
LEMMA InitMInv ==
  ASSUME MatchInit
  PROVE  MInv
  <1>1. /\ match12 \in Seq(1 .. size[2]) /\ match21 \in Seq(1 .. size[1])
        /\ lists \in Seq(Seq(Matches)) /\ Len(match12) = 0
    BY EmptySeq DEF MatchInit
  <1>2. looked \in 0 .. Len(match12)
    BY <1>1 DEF MatchInit
  <1>3. MatchTypeOK
    BY <1>1, <1>2 DEF MatchInit, MatchTypeOK
  <1> QED BY <1>3 DEF MatchInit, MInv, SearchInv, ListInv, OrderInv, MajorityDecides

(* A function on an initial interval is a sequence of that length.          *)
LEMMA FunctionIsSequence ==
  ASSUME NEW n \in Nat, NEW S, NEW f \in [1 .. n -> S]
  PROVE  f \in Seq(S) /\ Len(f) = n
  <1>1. f \in Seq(S) /\ DOMAIN f = 1 .. n
    BY SeqDef
  <1>2. Len(f) \in Nat /\ DOMAIN f = 1 .. Len(f)
    BY <1>1, LenProperties
  <1> QED BY <1>1, <1>2

LEMMA MatchStep ==
  ASSUME MInv, Match
  PROVE  MInv'
  <1>1. /\ step = "match" /\ step' = "select"
        /\ match12' \in [1 .. size[1] -> 1 .. size[2]]
        /\ match21' \in [1 .. size[2] -> 1 .. size[1]]
        /\ UNCHANGED <<size, distance, cross_check, looked, similar>>
        /\ lists' = IF cross_check THEN << <<>> >> ELSE <<>>
    BY DEF Match, descriptors
  <1>2. MatchTypeOK /\ looked = 0 /\ size[1] \in Nat /\ size[2] \in Nat
    BY <1>1 DEF MInv, SearchInv, MatchTypeOK
  <1>3. match12' \in Seq(1 .. size[2]) /\ match21' \in Seq(1 .. size[1])
    BY <1>1, <1>2, FunctionIsSequence
  <1>4. lists' \in Seq(Seq(Matches)) /\ Len(lists') = IF cross_check THEN 1 ELSE 0
    <2>1. <<>> \in Seq(Matches) /\ <<>> \in Seq(Seq(Matches))
      BY EmptySeq
    <2> QED BY <1>1, <2>1
  <1>5. MatchTypeOK'
    <2>1. looked' \in 0 .. Len(match12')
      BY <1>1, <1>2, <1>3, LenProperties
    <2>2. Len(match12') = size[1] /\ Len(match21') = size[2]
      BY <1>1, <1>2, FunctionIsSequence
    <2> QED BY <1>1, <1>2, <1>3, <1>4, <2>1, <2>2 DEF MatchTypeOK
  <1>6. ListInv'
    <2>1. cross_check => Wanted(1)' = {}
      BY <1>1, <1>2 DEF Wanted, Pairs12
    <2>2. \A l \in 1 .. Len(lists') : Lists(lists[l], l, Wanted(l))'
      <3>1. CASE cross_check
        <4>1. lists'[1] = <<>> /\ Len(lists') = 1
          BY <1>1, <3>1
        <4>2. Lists(lists[1], 1, Wanted(1))'
          BY <2>1, <3>1, <4>1 DEF Lists
        <4>3. \A l \in 1 .. Len(lists') : l = 1
          BY <4>1
        <4> QED BY <4>2, <4>3
      <3>2. CASE ~cross_check
        BY <1>4, <3>2
      <3> QED BY <3>1, <3>2
    <2> QED BY <1>1, <1>4, <2>2 DEF ListInv
  <1>7. SearchInv'
    BY <1>1 DEF SearchInv
  <1> QED BY <1>1, <1>5, <1>6, <1>7 DEF MInv, OrderInv, MajorityDecides

(* What the cross check asks of a match is that its pair is found both ways. *)
LEMMA MutualIsBothWays ==
  ASSUME MatchTypeOK, SearchInv, step # "match", NEW q \in 1 .. size[1]
  PROVE  /\ Forward[q] \in Matches
         /\ Forward[q] = [queryIdx |-> q, trainIdx |-> match12[q],
                          distance |-> distance[q][match12[q]]]
         /\ Mutual(Forward[q]) <=> <<q, match12[q]>> \in Pairs12 \cap Pairs21
  <1>1. /\ size[1] \in Nat /\ size[2] \in Nat
        /\ match12 \in [1 .. size[1] -> 1 .. size[2]]
        /\ match21 \in [1 .. size[2] -> 1 .. size[1]]
    <2>1. size[1] \in Nat /\ size[2] \in Nat
      <3>1. size[1] \in 1 .. Rows1 /\ size[2] \in 1 .. Rows2
        BY DEF MatchTypeOK
      <3> QED BY <3>1, MatchAssumption
    <2> QED BY <2>1 DEF SearchInv
  <1>2. Len(match12) = size[1] /\ Len(match21) = size[2]
    BY <1>1, FunctionIsSequence
  <1>3. Forward[q] = [queryIdx |-> q, trainIdx |-> match12[q],
                      distance |-> distance[q][match12[q]]]
    BY <1>2 DEF Forward
  <1>4. match12[q] \in 1 .. size[2] /\ distance[q][match12[q]] \in Distances
    BY <1>1 DEF MatchTypeOK
  <1>5. Forward[q] \in Matches
    BY <1>1, <1>3, <1>4 DEF Matches
  <1>6. Backward[match12[q]].trainIdx = match21[match12[q]]
    BY <1>2, <1>4 DEF Backward
  <1>7. Mutual(Forward[q]) <=> match21[match12[q]] = q
    BY <1>3, <1>6 DEF Mutual
  <1>8. <<q, match12[q]>> \in Pairs21 <=> match21[match12[q]] = q
    BY <1>4 DEF Pairs21
  <1>9. <<q, match12[q]>> \in Pairs12
    BY DEF Pairs12
  <1> QED BY <1>3, <1>5, <1>7, <1>8, <1>9

LEMMA CrossCheckStep ==
  ASSUME MInv, CrossCheck
  PROVE  MInv'
  <1> DEFINE q == looked + 1
  <1>1. /\ step = "select" /\ cross_check /\ looked < Len(match12)
        /\ lists' = IF Mutual(Forward[q]) THEN <<Append(lists[1], Forward[q])>> ELSE lists
        /\ looked' = q
        /\ UNCHANGED <<size, distance, cross_check, match12, match21, step, similar>>
    BY DEF CrossCheck, descriptors
  <1>2. /\ MatchTypeOK /\ SearchInv /\ Len(lists) = 1 /\ Lists(lists[1], 1, Wanted(1))
        /\ match12 \in [1 .. size[1] -> 1 .. size[2]]
    <2>1. MatchTypeOK /\ SearchInv /\ match12 \in [1 .. size[1] -> 1 .. size[2]]
      BY <1>1 DEF MInv, SearchInv
    <2>2. Len(lists) = 1 /\ \A l \in 1 .. Len(lists) : Lists(lists[l], l, Wanted(l))
      BY <1>1 DEF MInv, ListInv
    <2> QED BY <2>1, <2>2
  <1>3. Len(match12) = size[1] /\ size[1] \in Nat /\ looked \in Nat /\ q \in 1 .. size[1]
    BY <1>1, <1>2, LenProperties DEF MatchTypeOK
  <1>4. lists[1] \in Seq(Matches) /\ Len(lists[1]) \in Nat
    <2>1. lists \in Seq(Seq(Matches))
      BY <1>2 DEF MatchTypeOK
    <2>2. lists[1] \in Seq(Matches)
      BY <1>2, <2>1, ElementOfSeq
    <2> QED BY <2>2, LenProperties
  <1> DEFINE pair == <<q, match12[q]>>
             F == Forward[q]
  <1>5. /\ F \in Matches
        /\ F = [queryIdx |-> q, trainIdx |-> match12[q], distance |-> distance[q][match12[q]]]
        /\ Mutual(F) <=> pair \in Pairs12 \cap Pairs21
    BY <1>1, <1>2, <1>3, MutualIsBothWays
  <1>6. Wanted(1)' = IF Mutual(F) THEN Wanted(1) \cup {pair} ELSE Wanted(1)
    <2>1. Pairs12' = Pairs12 /\ Pairs21' = Pairs21
      BY <1>1 DEF Pairs12, Pairs21
    <2>2. Wanted(1)' = {p \in Pairs12 \cap Pairs21 : p[1] <= q}
      BY <1>1, <2>1 DEF Wanted
    <2>3. Wanted(1) = {p \in Pairs12 \cap Pairs21 : p[1] <= looked}
      BY <1>1 DEF Wanted
    <2>4. \A p \in Pairs12 : p[1] \in Int /\ p = <<p[1], match12[p[1]]>>
      BY DEF Pairs12
    <2>5. \A p \in Pairs12 : p[1] <= q <=> p[1] <= looked \/ p = pair
      BY <1>3, <2>4
    <2> HIDE DEF F, q
    <2> QED BY <1>5, <2>2, <2>3, <2>5
  <1> HIDE DEF F
  <1>7. lists'[1] \in Seq(Matches) /\ Len(lists') = 1 /\ Lists(lists[1], 1, Wanted(1))'
    <2>1. CASE Mutual(F)
      <3> DEFINE n == Len(lists[1])
      <3>0. PICK s, W : s = lists'[1] /\ W = Wanted(1)'
        OBVIOUS
      <3>1. /\ s = Append(lists[1], F) /\ Len(lists') = 1 /\ s \in Seq(Matches)
            /\ Len(s) = n + 1 /\ s[n + 1] = F /\ \A k \in 1 .. n : s[k] = lists[1][k]
        BY <1>1, <1>4, <1>5, <2>1, <3>0 DEF F
      <3>2. Pair(1, F) = pair
        BY <1>5 DEF Pair
      <3>3. W = Wanted(1) \cup {pair} /\ pair \notin Wanted(1)
        <4>1. pair \notin Wanted(1)
          BY <1>1, <1>3 DEF Wanted
        <4> QED BY <1>6, <2>1, <3>0, <4>1
      <3>4. F.distance = distance[pair[1]][pair[2]]
        BY <1>5
      <3>5. \A k \in 1 .. n + 1 : k \in 1 .. n \/ k = n + 1
        BY <1>4
      <3>6. \A k \in 1 .. n + 1 :
              /\ Pair(1, s[k]) \in W
              /\ s[k].distance = distance[Pair(1, s[k])[1]][Pair(1, s[k])[2]]
        <4> HIDE DEF pair, q
        <4> QED BY <1>1, <1>2, <3>1, <3>2, <3>3, <3>4, <3>5 DEF Lists
      <3>7. \A g, k \in 1 .. n + 1 : Pair(1, s[g]) = Pair(1, s[k]) => g = k
        <4>1. \A k \in 1 .. n : Pair(1, s[k]) # pair
          <5> HIDE DEF pair
          <5> QED BY <1>2, <3>1, <3>3 DEF Lists
        <4> HIDE DEF pair, q
        <4> QED BY <1>2, <3>1, <3>2, <3>5, <4>1 DEF Lists
      <3>8. \A p \in W : \E k \in 1 .. n + 1 : Pair(1, s[k]) = p
        <4> SUFFICES ASSUME NEW p \in W PROVE \E k \in 1 .. n + 1 : Pair(1, s[k]) = p
          OBVIOUS
        <4>1. CASE p = pair
          <5> HIDE DEF pair
          <5> QED BY <1>4, <3>1, <3>2, <4>1
        <4>2. CASE p \in Wanted(1)
          <5>1. PICK k \in 1 .. n : Pair(1, lists[1][k]) = p
            BY <1>2, <4>2 DEF Lists
          <5>2. k \in 1 .. n + 1 /\ s[k] = lists[1][k]
            BY <1>4, <3>1
          <5> QED BY <5>1, <5>2
        <4> QED BY <3>3, <4>1, <4>2
      <3>9. Lists(s, 1, W)
        <4> HIDE DEF pair, q, n
        <4> QED BY <3>1, <3>6, <3>7, <3>8 DEF Lists
      <3>10. Lists(lists[1], 1, Wanted(1))'
        <4>1. Lists(s, 1, W)'
          <5> HIDE DEF pair, q, n
          <5> QED BY <1>1, <3>9 DEF Lists, Pair
        <4> HIDE DEF pair, q, n
        <4> QED BY <3>0, <4>1 DEF Lists, Pair
      <3> QED BY <3>0, <3>1, <3>10
    <2>2. CASE ~Mutual(F)
      <3>1. lists' = lists /\ Wanted(1)' = Wanted(1)
        BY <1>1, <1>6, <2>2 DEF F
      <3>2. Lists(lists[1], 1, Wanted(1))'
        BY <1>1, <1>2, <3>1 DEF Lists
      <3> QED BY <1>2, <1>4, <3>1, <3>2
    <2> QED BY <2>1, <2>2
  <1>8. MatchTypeOK'
    <2>1. lists' \in Seq(Seq(Matches))
      <3>1. CASE Mutual(F)
        BY <1>1, <1>4, <1>5, <3>1 DEF F
      <3>2. CASE ~Mutual(F)
        BY <1>1, <1>2, <3>2 DEF MatchTypeOK, F
      <3> QED BY <3>1, <3>2
    <2>2. looked' \in 0 .. Len(match12')
      BY <1>1, <1>3
    <2> QED BY <1>1, <1>2, <2>1, <2>2 DEF MatchTypeOK
  <1>9. SearchInv' /\ ListInv' /\ OrderInv' /\ MajorityDecides'
    <2>1. \A l \in 1 .. Len(lists') : Lists(lists[l], l, Wanted(l))'
      <3>1. \A l \in 1 .. Len(lists') : l = 1
        BY <1>7
      <3> QED BY <1>7, <3>1
    <2> QED BY <1>1, <1>2, <1>7, <2>1 DEF SearchInv, ListInv, OrderInv, MajorityDecides
  <1> QED BY <1>8, <1>9 DEF MInv

LEMMA EndSelectStep ==
  ASSUME MInv, EndSelect
  PROVE  MInv'
  <1>1. /\ step = "select" /\ step' = "sort"
        /\ UNCHANGED <<size, distance, cross_check, match12, match21, looked, similar>>
    BY DEF EndSelect, descriptors
  <1>2. MatchTypeOK /\ SearchInv /\ ListInv
    BY DEF MInv
  <1>3. /\ match12 \in [1 .. size[1] -> 1 .. size[2]]
        /\ match21 \in [1 .. size[2] -> 1 .. size[1]]
        /\ size[1] \in Nat /\ size[2] \in Nat
        /\ cross_check \in BOOLEAN
    <2>1. /\ match12 \in [1 .. size[1] -> 1 .. size[2]]
          /\ match21 \in [1 .. size[2] -> 1 .. size[1]]
      BY <1>1, <1>2 DEF SearchInv
    <2> QED BY <1>2, <2>1 DEF MatchTypeOK
  <1>4. Len(match12) = size[1] /\ Len(match21) = size[2]
    BY <1>3, LenProperties, SeqDef
  <1>5. SearchInv'
    BY <1>1, <1>2 DEF SearchInv
  <1>6. \A l : Wanted(l)' = Wanted(l)
    BY <1>1 DEF Wanted, Pairs12, Pairs21
  <1>7. CASE cross_check
    <2>1. looked = size[1] /\ lists' = lists
      BY <1>4, <1>7 DEF EndSelect
    <2>2. MatchTypeOK'
      BY <1>1, <1>2, <2>1 DEF MatchTypeOK
    <2>3. \A l \in 1 .. Len(lists) : Lists(lists[l], l, Wanted(l))
      BY <1>1, <1>2 DEF ListInv
    <2>4. \A l \in 1 .. Len(lists') : Lists(lists[l], l, Wanted(l))'
      BY <1>1, <1>6, <2>1, <2>3 DEF Lists
    <2>5. ListInv'
      BY <1>1, <1>2, <1>7, <2>1, <2>4 DEF ListInv
    <2> QED BY <1>1, <1>5, <2>2, <2>5 DEF MInv, OrderInv, MajorityDecides
  <1>8. CASE ~cross_check
    <2>1. lists' = <<Forward, Backward>>
      BY <1>8 DEF EndSelect
    <2>2. /\ Forward = [q \in 1 .. size[1] |-> [queryIdx |-> q, trainIdx |-> match12[q],
                                                distance |-> distance[q][match12[q]]]]
          /\ Backward = [k \in 1 .. size[2] |-> [queryIdx |-> k, trainIdx |-> match21[k],
                                                 distance |-> distance[match21[k]][k]]]
      BY <1>4 DEF Forward, Backward
    <2>3. /\ \A q \in 1 .. size[1] : /\ Forward[q] \in Matches
                                      /\ Pair(1, Forward[q]) = <<q, match12[q]>>
                                      /\ Forward[q].distance = distance[q][match12[q]]
          /\ \A k \in 1 .. size[2] : /\ Backward[k] \in Matches
                                      /\ Pair(2, Backward[k]) = <<match21[k], k>>
                                      /\ Backward[k].distance = distance[match21[k]][k]
      <3>1. ASSUME NEW q \in 1 .. size[1]
            PROVE  /\ Forward[q] \in Matches
                   /\ Pair(1, Forward[q]) = <<q, match12[q]>>
                   /\ Forward[q].distance = distance[q][match12[q]]
        <4>1. match12[q] \in Nat /\ distance[q][match12[q]] \in Distances
          <5>1. distance \in [1 .. size[1] -> [1 .. size[2] -> Distances]]
            BY <1>2 DEF MatchTypeOK
          <5>2. match12[q] \in 1 .. size[2]
            BY <1>3
          <5>3. distance[q] \in [1 .. size[2] -> Distances]
            BY <5>1
          <5>4. match12[q] \in Nat
            BY <1>3, <5>2
          <5> QED BY <5>2, <5>3, <5>4
        <4>2. Forward[q] = [queryIdx |-> q, trainIdx |-> match12[q],
                            distance |-> distance[q][match12[q]]]
          BY <2>2
        <4> QED BY <4>1, <4>2 DEF Matches, Pair
      <3>2. ASSUME NEW k \in 1 .. size[2]
            PROVE  /\ Backward[k] \in Matches
                   /\ Pair(2, Backward[k]) = <<match21[k], k>>
                   /\ Backward[k].distance = distance[match21[k]][k]
        <4>1. match21[k] \in Nat /\ distance[match21[k]][k] \in Distances
          <5>1. distance \in [1 .. size[1] -> [1 .. size[2] -> Distances]]
            BY <1>2 DEF MatchTypeOK
          <5>2. match21[k] \in 1 .. size[1]
            BY <1>3
          <5>3. distance[match21[k]] \in [1 .. size[2] -> Distances]
            BY <5>1, <5>2
          <5>4. match21[k] \in Nat
            BY <1>3, <5>2
          <5> QED BY <5>3, <5>4
        <4>2. Backward[k] = [queryIdx |-> k, trainIdx |-> match21[k],
                             distance |-> distance[match21[k]][k]]
          BY <2>2
        <4> QED BY <4>1, <4>2 DEF Matches, Pair
      <3> QED BY <3>1, <3>2
    <2>4. /\ Forward \in Seq(Matches) /\ Len(Forward) = size[1]
          /\ Backward \in Seq(Matches) /\ Len(Backward) = size[2]
      <3>1. Forward \in [1 .. size[1] -> Matches] /\ Backward \in [1 .. size[2] -> Matches]
        BY <2>2, <2>3
      <3> HIDE DEF Matches
      <3>2. Forward \in Seq(Matches) /\ Backward \in Seq(Matches)
        <4>1. \A n \in Nat : [1 .. n -> Matches] \subseteq Seq(Matches)
          BY SeqDef
        <4> QED BY <1>3, <3>1, <4>1
      <3> QED BY <1>3, <3>1, <3>2, LenProperties
    <2>5. Lists(Forward, 1, Pairs12) /\ Lists(Backward, 2, Pairs21)
      <3>1. Lists(Forward, 1, Pairs12)
        <4>1. \A q \in 1 .. size[1] :
                /\ Pair(1, Forward[q]) \in Pairs12
                /\ Forward[q].distance = distance[Pair(1, Forward[q])[1]][Pair(1, Forward[q])[2]]
          BY <2>3 DEF Pairs12
        <4>2. \A g, k \in 1 .. size[1] : Pair(1, Forward[g]) = Pair(1, Forward[k]) => g = k
          BY <2>3
        <4>3. \A p \in Pairs12 : \E q \in 1 .. size[1] : Pair(1, Forward[q]) = p
          BY <2>3 DEF Pairs12
        <4> QED BY <2>4, <4>1, <4>2, <4>3 DEF Lists
      <3>2. Lists(Backward, 2, Pairs21)
        <4>1. \A k \in 1 .. size[2] :
                /\ Pair(2, Backward[k]) \in Pairs21
                /\ Backward[k].distance = distance[Pair(2, Backward[k])[1]][Pair(2, Backward[k])[2]]
          BY <2>3 DEF Pairs21
        <4>2. \A g, k \in 1 .. size[2] : Pair(2, Backward[g]) = Pair(2, Backward[k]) => g = k
          BY <2>3
        <4>3. \A p \in Pairs21 : \E k \in 1 .. size[2] : Pair(2, Backward[k]) = p
          BY <2>3 DEF Pairs21
        <4> QED BY <2>4, <4>1, <4>2, <4>3 DEF Lists
      <3> QED BY <3>1, <3>2
    <2>6. /\ lists' \in Seq(Seq(Matches)) /\ Len(lists') = 2
          /\ lists'[1] = Forward /\ lists'[2] = Backward
      BY <2>1, <2>4
    <2>7. \A l \in 1 .. Len(lists') : Lists(lists[l], l, Wanted(l))'
      <3>1. Wanted(1)' = Pairs12 /\ Wanted(2)' = Pairs21
        <4>1. Wanted(1) = Pairs12 /\ Wanted(2) = Pairs21
          BY <1>8 DEF Wanted
        <4> QED BY <1>6, <4>1
      <3>2. Lists(lists[1], 1, Wanted(1))' /\ Lists(lists[2], 2, Wanted(2))'
        BY <1>1, <2>5, <2>6, <3>1 DEF Lists
      <3>3. \A l \in 1 .. Len(lists') : l = 1 \/ l = 2
        BY <2>6
      <3> QED BY <3>2, <3>3
    <2>8. MatchTypeOK'
      BY <1>1, <1>2, <2>6 DEF MatchTypeOK
    <2>9. ListInv'
      BY <1>1, <1>8, <2>6, <2>7 DEF ListInv
    <2> QED BY <1>1, <1>5, <2>8, <2>9 DEF MInv, OrderInv, MajorityDecides
  <1> QED BY <1>7, <1>8

LEMMA SortStep ==
  ASSUME MInv, Sort
  PROVE  MInv'
  <1>1. /\ step = "sort" /\ step' = "decide"
        /\ UNCHANGED <<size, distance, cross_check, match12, match21, looked, similar>>
    BY DEF Sort, descriptors
  <1>2. MatchTypeOK /\ SearchInv /\ ListInv
    BY DEF MInv
  <1>3. /\ Len(lists) = IF cross_check THEN 1 ELSE 2
        /\ \A l \in 1 .. Len(lists) : Lists(lists[l], l, Wanted(l))
        /\ cross_check => looked = size[1]
    BY <1>1, <1>2 DEF ListInv
  <1>4. lists \in Seq(Seq(Matches))
    BY <1>2 DEF MatchTypeOK
  <1>5. /\ Len(lists') = Len(lists)
        /\ \A l \in 1 .. Len(lists) : lists'[l] \in Sorted(lists[l])
        /\ \A S : (\A l \in 1 .. Len(lists) : lists'[l] \in S) => lists' \in Seq(S)
    <2>1. CASE cross_check
      <3>1. PICK s \in Sorted(lists[1]) : lists' = <<s>>
        BY <2>1 DEF Sort
      <3>2. Len(lists) = 1
        BY <1>3, <2>1
      <3> QED BY <3>1, <3>2
    <2>2. CASE ~cross_check
      <3>1. PICK s \in Sorted(lists[1]), r \in Sorted(lists[2]) : lists' = <<s, r>>
        BY <2>2 DEF Sort
      <3>2. Len(lists) = 2
        BY <1>3, <2>2
      <3> QED BY <3>1, <3>2
    <2> QED BY <2>1, <2>2
  <1>6. ASSUME NEW l \in 1 .. Len(lists)
        PROVE  /\ lists'[l] \in Seq(Matches) /\ Ordered(lists'[l])
               /\ Lists(lists[l], l, Wanted(l))'
    <2>1. lists[l] \in Seq(Matches)
      BY <1>4, ElementOfSeq
    <2>2. /\ lists'[l] \in Seq(Matches) /\ Ordered(lists'[l])
          /\ Lists(lists'[l], l, Wanted(l))
      <3>1. PICK s : s = lists'[l]
        OBVIOUS
      <3> QED BY <1>3, <1>5, <2>1, <3>1, SortedLists
    <2>3. Wanted(l)' = Wanted(l)
      BY <1>1 DEF Wanted, Pairs12, Pairs21
    <2> QED BY <1>1, <2>2, <2>3 DEF Lists
  <1>7. MatchTypeOK'
    <2>1. lists' \in Seq(Seq(Matches))
      BY <1>5, <1>6
    <2> QED BY <1>1, <1>2, <2>1 DEF MatchTypeOK
  <1>8. ListInv'
    BY <1>1, <1>3, <1>5, <1>6 DEF ListInv
  <1>9. OrderInv'
    <2>1. \A l \in 1 .. Len(lists') : Ordered(lists[l])'
      BY <1>5, <1>6 DEF Ordered
    <2> QED BY <2>1 DEF OrderInv
  <1>10. SearchInv' /\ MajorityDecides'
    BY <1>1, <1>2 DEF SearchInv, MajorityDecides
  <1> QED BY <1>7, <1>8, <1>9, <1>10 DEF MInv

LEMMA DecideStep ==
  ASSUME MInv, Decide
  PROVE  MInv'
  <1>1. /\ step = "decide" /\ step' = "done"
        /\ UNCHANGED <<size, distance, cross_check, match12, match21, looked, lists>>
        /\ similar' = \E k \in DOMAIN lists : MedianClose(lists[k])
    BY DEF Decide, descriptors
  <1>2. MatchTypeOK /\ SearchInv /\ ListInv /\ OrderInv
    BY DEF MInv
  <1>3. /\ Len(lists) = IF cross_check THEN 1 ELSE 2
        /\ \A l \in 1 .. Len(lists) : Lists(lists[l], l, Wanted(l))
        /\ cross_check => looked = size[1]
        /\ \A l \in 1 .. Len(lists) : Ordered(lists[l])
    BY <1>1, <1>2 DEF ListInv, OrderInv
  <1>4. lists \in Seq(Seq(Matches)) /\ DOMAIN lists = 1 .. Len(lists)
    BY <1>2 DEF MatchTypeOK
  <1>5. ASSUME NEW l \in 1 .. Len(lists)
        PROVE  MedianClose(lists[l]) <=> MostlyClose(Wanted(l))
    <2>1. lists[l] \in Seq(Matches)
      BY <1>4, ElementOfSeq
    <2> QED BY <1>3, <2>1, MedianIsMajority
  <1>6. /\ similar' \in BOOLEAN
        /\ similar' <=> \E l \in 1 .. Len(lists) : MostlyClose(Wanted(l))
    <2>1. similar' = \E k \in 1 .. Len(lists) : MedianClose(lists[k])
      BY <1>1, <1>4
    <2> QED BY <1>5, <2>1, Zenon
  <1>7. similar' <=> IF cross_check THEN MostlyClose(Pairs12 \cap Pairs21)
                     ELSE MostlyClose(Pairs12) \/ MostlyClose(Pairs21)
    <2>1. CASE cross_check
      <3>1. Wanted(1) = Pairs12 \cap Pairs21
        <4>1. \A p \in Pairs12 : p[1] \in 1 .. size[1]
          BY DEF Pairs12
        <4>2. looked = size[1] /\ \A p \in Pairs12 : p[1] <= looked
          BY <1>2, <1>3, <2>1, <4>1 DEF MatchTypeOK
        <4> QED BY <2>1, <4>2 DEF Wanted
      <3>2. Len(lists) = 1
        BY <1>3, <2>1
      <3> QED BY <1>6, <2>1, <3>1, <3>2
    <2>2. CASE ~cross_check
      <3>1. Wanted(1) = Pairs12 /\ Wanted(2) = Pairs21
        BY <2>2 DEF Wanted
      <3>2. Len(lists) = 2 /\ \A l : l \in 1 .. 2 <=> l = 1 \/ l = 2
        BY <1>3, <2>2
      <3> QED BY <1>6, <2>2, <3>1, <3>2
    <2> QED BY <2>1, <2>2
  <1>8. MajorityDecides'
    <2>1. /\ \A P : MostlyClose(P)' <=> MostlyClose(P)
          /\ Pairs12' = Pairs12 /\ Pairs21' = Pairs21
      BY <1>1 DEF MostlyClose, Close, Pairs12, Pairs21
    <2> QED BY <1>1, <1>7, <2>1 DEF MajorityDecides
  <1>9. MatchTypeOK'
    BY <1>1, <1>2, <1>6 DEF MatchTypeOK
  <1>10. SearchInv'
    BY <1>1, <1>2 DEF SearchInv
  <1>11. ListInv' /\ OrderInv'
    <2>1. \A l : Wanted(l)' = Wanted(l)
      BY <1>1 DEF Wanted, Pairs12, Pairs21
    <2>2. \A l \in 1 .. Len(lists') : Lists(lists[l], l, Wanted(l))' /\ Ordered(lists[l])'
      <3> SUFFICES ASSUME NEW l \in 1 .. Len(lists)
                   PROVE  Lists(lists[l], l, Wanted(l))' /\ Ordered(lists[l])'
        BY <1>1
      <3>1. Lists(lists[l], l, Wanted(l)) /\ Ordered(lists[l]) /\ Wanted(l)' = Wanted(l)
        BY <1>3, <2>1
      <3>2. Lists(lists[l], l, Wanted(l))'
        BY <1>1, <3>1 DEF Lists
      <3>3. Ordered(lists[l])'
        BY <1>1, <3>1 DEF Ordered
      <3> QED BY <3>2, <3>3
    <2> QED BY <1>1, <1>3, <2>2 DEF ListInv, OrderInv
  <1> QED BY <1>8, <1>9, <1>10, <1>11 DEF MInv

LEMMA StutterMInv ==
  ASSUME MInv, UNCHANGED matchVars
  PROVE  MInv'
  <1>1. /\ UNCHANGED <<size, distance, cross_check, match12, match21>>
        /\ UNCHANGED <<lists, looked, step, similar>>
    BY DEF matchVars, descriptors
  <1>2. MatchTypeOK' /\ SearchInv'
    BY <1>1 DEF MInv, MatchTypeOK, SearchInv
  <1>3. /\ \A l : Wanted(l)' = Wanted(l)
        /\ \A P : MostlyClose(P)' <=> MostlyClose(P)
        /\ Pairs12' = Pairs12 /\ Pairs21' = Pairs21
    BY <1>1 DEF Wanted, Pairs12, Pairs21, MostlyClose, Close
  <1>4. ListInv'
    BY <1>1, <1>3 DEF MInv, ListInv, Lists
  <1>5. OrderInv' /\ MajorityDecides'
    BY <1>1, <1>3 DEF MInv, OrderInv, Ordered, MajorityDecides
  <1> QED BY <1>2, <1>4, <1>5 DEF MInv

(* The lists hold the pairs they should, once each.                         *)
LEMMA MatchInductive == MatchSpec => []MInv
  <1>1. MatchInit => MInv
    BY InitMInv
  <1>2. MInv /\ [MatchNext]_matchVars => MInv'
    BY MatchStep, CrossCheckStep, EndSelectStep, SortStep, DecideStep, StutterMInv
       DEF MatchNext
  <1> QED BY <1>1, <1>2, PTL DEF MatchSpec

(* The elements that descriptor_match reads are there: the match back that  *)
(* the cross check looks up for the row found, and the middle of a list     *)
(* that is not empty.                                                       *)
ReadsInside ==
  /\ step = "select" /\ looked < Len(match12) =>
       looked + 1 \in DOMAIN Forward /\ Forward[looked + 1].trainIdx \in DOMAIN Backward
  /\ step = "decide" => \A l \in DOMAIN lists :
       lists[l] # <<>> => Len(lists[l]) \div 2 + 1 \in DOMAIN lists[l]

(* descriptor_match keeps its vectors and its answer typed: either search   *)
(* has an answer for every row, which is a row of the other descriptor, and *)
(* every index of the cross check and of the medians is inside its vector.  *)
THEOREM MatchTypeCorrect == MatchSpec => [](MatchTypeOK /\ ReadsInside)
  <1>1. MInv => MatchTypeOK
    BY DEF MInv
  <1>2. ASSUME MInv PROVE ReadsInside
    <2>1. ASSUME step = "select", looked < Len(match12)
          PROVE  looked + 1 \in DOMAIN Forward /\ Forward[looked + 1].trainIdx \in DOMAIN Backward
      <3>1. /\ match12 \in [1 .. size[1] -> 1 .. size[2]]
            /\ Len(match12) = size[1] /\ Len(match21) = size[2]
            /\ size[1] \in Nat /\ looked \in Nat
        BY <1>2, <2>1 DEF MInv, SearchInv, MatchTypeOK
      <3>2. looked + 1 \in 1 .. size[1]
        BY <2>1, <3>1
      <3>3. DOMAIN Forward = 1 .. size[1] /\ DOMAIN Backward = 1 .. size[2]
        BY <3>1 DEF Forward, Backward
      <3>4. Forward[looked + 1].trainIdx = match12[looked + 1]
        BY <3>1, <3>2 DEF Forward
      <3> QED BY <3>1, <3>2, <3>3, <3>4
    <2>2. ASSUME NEW l \in DOMAIN lists, lists[l] # <<>>
          PROVE  Len(lists[l]) \div 2 + 1 \in DOMAIN lists[l]
      <3>1. lists \in Seq(Seq(Matches))
        BY <1>2 DEF MInv, MatchTypeOK
      <3>2. lists[l] \in Seq(Matches)
        BY <3>1, ElementOfSeq
      <3>3. Len(lists[l]) \in Nat \ {0} /\ DOMAIN lists[l] = 1 .. Len(lists[l])
        BY <2>2, <3>2, EmptySeq, LenProperties
      <3> DEFINE n == Len(lists[l])
      <3> HIDE DEF n
      <3>4. n \in Nat \ {0} => n \div 2 + 1 \in 1 .. n
        OBVIOUS
      <3> QED BY <3>3, <3>4 DEF n
    <2> QED BY <2>1, <2>2 DEF ReadsInside
  <1>3. MInv => ReadsInside
    BY <1>2
  <1> QED BY <1>1, <1>3, MatchInductive, PTL

(* Whatever the descriptors and whatever the searches find, sorting and     *)
(* looking at the element in the middle decides by strict majority.         *)
THEOREM MajorityDecidesAlways == MatchSpec => []MajorityDecides
  <1>1. MInv => MajorityDecides
    BY DEF MInv
  <1> QED BY <1>1, MatchInductive, PTL

(* The cross check never leaves a row in two matches, at any point of its   *)
(* loop and of the sort.                                                    *)
THEOREM OneToOneAlways == MatchSpec => []OneToOne
  <1>1. ASSUME MInv PROVE OneToOne
    <2> SUFFICES ASSUME cross_check, NEW l \in DOMAIN lists,
                        NEW g \in DOMAIN lists[l], NEW k \in DOMAIN lists[l], g # k
                 PROVE  /\ lists[l][g].queryIdx # lists[l][k].queryIdx
                        /\ lists[l][g].trainIdx # lists[l][k].trainIdx
      BY DEF OneToOne
    <2>1. lists \in Seq(Seq(Matches)) /\ DOMAIN lists = 1 .. Len(lists)
      BY <1>1 DEF MInv, MatchTypeOK
    <2>2. lists[l] \in Seq(Matches)
      BY <2>1, ElementOfSeq
    <2>3. step # "match"
      BY <1>1, <2>1 DEF MInv, SearchInv
    <2>4. l = 1 /\ Lists(lists[l], l, Wanted(l))
      BY <1>1, <2>1, <2>3 DEF MInv, ListInv
    <2> DEFINE a == lists[l][g]
               b == lists[l][k]
    <2>5. DOMAIN lists[l] = 1 .. Len(lists[l])
      BY <2>2
    <2>6. Pair(1, a) \in Wanted(1) /\ Pair(1, b) \in Wanted(1) /\ Pair(1, a) # Pair(1, b)
      BY <2>4, <2>5 DEF Lists
    <2>7. /\ <<a.queryIdx, a.trainIdx>> \in Pairs12 \cap Pairs21
          /\ <<b.queryIdx, b.trainIdx>> \in Pairs12 \cap Pairs21
          /\ <<a.queryIdx, a.trainIdx>> # <<b.queryIdx, b.trainIdx>>
      BY <2>6 DEF Wanted, Pair
    <2> HIDE DEF a, b
    <2>8. a.trainIdx = match12[a.queryIdx] /\ b.trainIdx = match12[b.queryIdx]
      BY <2>7 DEF Pairs12
    <2>9. a.queryIdx = match21[a.trainIdx] /\ b.queryIdx = match21[b.trainIdx]
      BY <2>7 DEF Pairs21
    <2>10. a.queryIdx # b.queryIdx /\ a.trainIdx # b.trainIdx
      BY <2>7, <2>8, <2>9
    <2> QED BY <2>10 DEF a, b
  <1>2. MInv => OneToOne
    BY <1>1
  <1> QED BY <1>2, MatchInductive, PTL

-----------------------------------------------------------------------------
(* check_histogram_differential, for any number of bins and any counts.     *)

(* Arithmetic.                                                              *)
LEMMA SquareNat ==
  ASSUME NEW d \in Int
  PROVE  d * d \in Nat
  OBVIOUS

LEMMA ProductNat ==
  ASSUME NEW a \in Nat, NEW b \in Nat
  PROVE  a * b \in Nat /\ (a > 0 /\ b > 0 => a * b > 0)
  OBVIOUS

LEMMA ProductOrder ==
  ASSUME NEW a \in Nat, NEW b \in Nat, NEW c \in Nat, a <= b
  PROVE  a * c <= b * c
  OBVIOUS

(* The term that is added is not above the sum, ...                         *)
LEMMA TermBelowSum ==
  ASSUME NEW n \in Nat, NEW d \in Nat, NEW s \in Nat, NEW a \in Nat
  PROVE  s * (d * a) <= (n * a + s * d) * a
  <1>1. (n * a + s * d) * a = (n * a) * a + s * (d * a)
    OBVIOUS
  <1>2. (n * a) * a \in Nat /\ s * (d * a) \in Nat
    BY ProductNat
  <1> QED BY <1>1, <1>2

(* ... nor are the terms that were there.                                   *)
LEMMA TermsStayBelow ==
  ASSUME NEW n \in Nat, NEW d \in Nat, NEW s \in Nat, NEW a \in Nat,
         NEW r \in Nat, NEW c \in Nat, r * d <= n * c
  PROVE  r * (d * a) <= (n * a + s * d) * c
  <1>1. (n * a + s * d) * c = (n * c) * a + (s * d) * c
    OBVIOUS
  <1>2. r * (d * a) = (r * d) * a
    OBVIOUS
  <1>3. r * d \in Nat /\ n * c \in Nat /\ (s * d) * c \in Nat /\ (n * c) * a \in Nat
    BY ProductNat
  <1>4. (r * d) * a <= (n * c) * a
    BY <1>3, ProductOrder
  <1>5. (r * d) * a \in Nat
    BY <1>3, ProductNat
  <1> QED BY <1>1, <1>2, <1>3, <1>4, <1>5

LEMMA Cancel ==
  ASSUME NEW x \in Nat, NEW y \in Nat, NEW d \in Nat, d > 0, x * d <= y * d
  PROVE  x <= y
  <1> SUFFICES ASSUME y + 1 <= x PROVE FALSE
    OBVIOUS
  <1>1. (y + 1) * d <= x * d
    BY ProductOrder
  <1>2. (y + 1) * d = y * d + d
    OBVIOUS
  <1>3. x * d \in Nat /\ y * d \in Nat
    BY ProductNat
  <1> QED BY <1>1, <1>2, <1>3

(* A sum within the tolerance has all terms within it.                      *)
LEMMA TermWithin ==
  ASSUME NEW t \in Nat, NEW s \in Nat, NEW n \in Nat, NEW d \in Nat,
         NEW k \in Nat, NEW a \in Nat, d > 0, s * d <= n * a, t * n <= d * k
  PROVE  t * s <= a * k
  <1>1. s * d \in Nat /\ n * a \in Nat /\ t * n \in Nat /\ d * k \in Nat
    BY ProductNat
  <1>2. (s * d) * t <= (n * a) * t
    BY <1>1, ProductOrder
  <1>3. (t * n) * a <= (d * k) * a
    BY <1>1, ProductOrder
  <1>4. (s * d) * t = (t * s) * d /\ (n * a) * t = (t * n) * a /\ (d * k) * a = (a * k) * d
    OBVIOUS
  <1>5. t * s \in Nat /\ a * k \in Nat
    BY ProductNat
  <1>6. (t * s) * d \in Nat /\ (a * k) * d \in Nat /\ (t * n) * a \in Nat
    BY <1>1, <1>5, ProductNat
  <1>7. (t * s) * d <= (a * k) * d
    BY <1>2, <1>3, <1>4, <1>6
  <1> QED BY <1>5, <1>7, Cancel

-----------------------------------------------------------------------------
(* A histogram has an empty bin and one that is not: scaling divides the    *)
(* counts as they are by the largest of them.                               *)
LEMMA Scaled ==
  ASSUME NEW h \in Histograms
  PROVE  /\ Span(h) \in Nat /\ Span(h) > 0
         /\ \A b \in Bins : Above(h, b) = h[b] /\ h[b] \in Nat
  <1>1. /\ h \in [Bins -> 0 .. MaxCount] /\ MaxCount \in Nat
        /\ \E b \in Bins : h[b] = 0
        /\ \E b \in Bins : h[b] > 0
    BY HistAssumption DEF Histograms
  <1>2. /\ Range(h) \subseteq 0 .. MaxCount
        /\ 0 \in Range(h)
        /\ \E x \in Range(h) : x > 0
        /\ \A b \in Bins : h[b] \in Nat
    BY <1>1 DEF Range
  <1>3. Min(Range(h)) = 0
    <2>1. \A x \in Range(h) : (\A y \in Range(h) : x <= y) <=> x = 0
      BY <1>1, <1>2
    <2> QED BY <1>2, <2>1 DEF Min
  <1>4. Max(Range(h)) \in Range(h) /\ \A y \in Range(h) : Max(Range(h)) >= y
    <2> DEFINE S == {MaxCount - x : x \in Range(h)}
    <2>1. S \in SUBSET Nat /\ S # {}
      <3>1. \A x \in Range(h) : MaxCount - x \in Nat
        BY <1>1, <1>2
      <3> QED BY <1>2, <3>1
    <2> HIDE DEF S
    <2>2. PICK m \in S : \A y \in S : m <= y
      BY <2>1, LeastNat
    <2>3. PICK x \in Range(h) : m = MaxCount - x
      BY <2>2 DEF S
    <2>4. ASSUME NEW y \in Range(h) PROVE x >= y
      <3>1. MaxCount - x <= MaxCount - y
        BY <2>2, <2>3 DEF S
      <3>2. x \in Int /\ y \in Int
        BY <1>2
      <3> QED BY <1>1, <3>1, <3>2
    <2> QED BY <2>4 DEF Max
  <1>5. Span(h) \in Nat /\ Span(h) > 0
    BY <1>1, <1>2, <1>3, <1>4 DEF Span
  <1> QED BY <1>2, <1>3, <1>5 DEF Above

Proportional == \A b \in Bins : old[b] * Span(new) = new[b] * Span(old)

(* The sum so far: 0 for images in proportion, and at least every term.     *)
SumInv ==
  /\ Proportional => num = 0
  /\ \A b \in 1 .. bin - 1 : Above(old, b) > 0 => Square(b) * den <= num * Above(old, b)
  /\ answer # "none" => bin = NumBins + 1

HInv == HistTypeOK /\ SumInv /\ ProportionalIsSame /\ OldColoursCompared

LEMMA InitHInv ==
  ASSUME HistInit
  PROVE  HInv
  <1>1. HistTypeOK
    BY HistAssumption DEF HistInit, HistTypeOK
  <1>2. SumInv
    BY DEF HistInit, SumInv
  <1> QED BY <1>1, <1>2 DEF HistInit, HInv, ProportionalIsSame, OldColoursCompared

LEMMA Terms ==
  ASSUME HistTypeOK, NEW b \in Bins
  PROVE  /\ Above(old, b) = old[b] /\ Above(new, b) = new[b]
         /\ old[b] \in Nat /\ new[b] \in Nat
         /\ Deviation(b) \in Int /\ Square(b) \in Nat /\ Unit \in Nat /\ Unit > 0
         /\ Span(old) \in Nat /\ Span(new) \in Nat
  <1>1. /\ Above(old, b) = old[b] /\ Above(new, b) = new[b]
        /\ old[b] \in Nat /\ new[b] \in Nat
        /\ Span(old) \in Nat /\ Span(new) \in Nat /\ Span(old) > 0 /\ Span(new) > 0
    BY Scaled DEF HistTypeOK
  <1>2. Deviation(b) \in Int
    <2>1. old[b] * Span(new) \in Int /\ new[b] * Span(old) \in Int
      BY <1>1
    <2> QED BY <1>1, <2>1 DEF Deviation
  <1>3. Square(b) \in Nat
    BY <1>2, SquareNat DEF Square
  <1>4. Unit \in Nat /\ Unit > 0
    <2>1. Span(new) * Span(new) \in Nat /\ Span(new) * Span(new) > 0
      BY <1>1, ProductNat
    <2> QED BY <1>1, <2>1, ProductNat DEF Unit
  <1> QED BY <1>1, <1>2, <1>3, <1>4

LEMMA AddBinStep ==
  ASSUME HInv, AddBin
  PROVE  HInv'
  <1>1. /\ bin <= NumBins /\ bin' = bin + 1 /\ UNCHANGED <<old, new, answer>>
        /\ HistTypeOK /\ SumInv
    BY DEF AddBin, HInv
  <1>2. bin \in Bins /\ bin \in Nat /\ num \in Nat /\ den \in Nat /\ den > 0
    BY <1>1, HistAssumption DEF HistTypeOK, Bins
  <1> DEFINE a == Above(old, bin)
             s == Square(bin)
  <1>3. a \in Nat /\ s \in Nat
    BY <1>1, <1>2, Terms
  <1>4. answer = "none"
    BY <1>1, <1>2, HistAssumption DEF SumInv
  <1>5. \A b : Square(b)' = Square(b) /\ Above(old, b)' = Above(old, b)
    BY <1>1 DEF Square, Deviation, Above, Span
  <1>6. Proportional' <=> Proportional
    BY <1>1 DEF Proportional, Span
  <1>7. CASE a > 0
    <2>1. num' = num * a + s * den /\ den' = den * a
      BY <1>7 DEF AddBin
    <2> HIDE DEF a, s
    <2>2. num' \in Nat /\ den' \in Nat /\ den' > 0
      <3>1. num * a \in Nat /\ s * den \in Nat /\ den * a \in Nat /\ den * a > 0
        BY <1>2, <1>3, <1>7, ProductNat
      <3> QED BY <2>1, <3>1
    <2>3. Proportional => num' = 0
      <3> SUFFICES ASSUME Proportional PROVE num' = 0
        OBVIOUS
      <3>1. num = 0
        BY <1>1 DEF SumInv
      <3>2. Deviation(bin) = 0
        <4>1. old[bin] * Span(new) = new[bin] * Span(old)
          BY <1>2 DEF Proportional
        <4>2. /\ Above(old, bin) = old[bin] /\ Above(new, bin) = new[bin]
              /\ old[bin] \in Nat /\ Span(new) \in Nat
          BY <1>1, <1>2, Terms
        <4>3. old[bin] * Span(new) \in Nat
          BY <4>2, ProductNat
        <4> QED BY <4>1, <4>2, <4>3 DEF Deviation
      <3>3. s = 0
        BY <3>2 DEF s, Square
      <3> QED BY <1>2, <1>3, <2>1, <3>1, <3>3
    <2>4. ASSUME NEW b \in 1 .. bin, Above(old, b) > 0
          PROVE  Square(b) * den' <= num' * Above(old, b)
      <3>1. CASE b = bin
        BY <1>2, <1>3, <2>1, <3>1, TermBelowSum DEF a, s
      <3>2. CASE b # bin
        <4>1. b \in 1 .. bin - 1 /\ b \in Bins
          BY <1>2, <3>2, HistAssumption DEF Bins
        <4>2. Square(b) * den <= num * Above(old, b)
          BY <1>1, <2>4, <4>1 DEF SumInv
        <4>3. Square(b) \in Nat /\ Above(old, b) \in Nat
          BY <1>1, <4>1, Terms
        <4> QED BY <1>2, <1>3, <2>1, <4>2, <4>3, TermsStayBelow
      <3> QED BY <3>1, <3>2
    <2>5. HistTypeOK'
      BY <1>1, <1>2, <2>2, HistAssumption DEF HistTypeOK, Bins
    <2>6. SumInv'
      <3>1. 1 .. bin' - 1 = 1 .. bin
        BY <1>1, <1>2
      <3> QED BY <1>1, <1>4, <1>5, <1>6, <2>3, <2>4, <3>1 DEF SumInv
    <2> QED BY <1>1, <1>4, <2>5, <2>6 DEF HInv, ProportionalIsSame, OldColoursCompared
  <1>8. CASE ~(a > 0)
    <2>1. num' = num /\ den' = den
      BY <1>8 DEF AddBin
    <2>2. HistTypeOK'
      BY <1>1, <1>2, <2>1, HistAssumption DEF HistTypeOK, Bins
    <2>3. \A b \in 1 .. bin' - 1 : b \in 1 .. bin - 1 \/ b = bin
      BY <1>1, <1>2
    <2>4. SumInv'
      BY <1>1, <1>4, <1>5, <1>6, <1>8, <2>1, <2>3 DEF SumInv
    <2> QED BY <1>1, <1>4, <2>2, <2>4 DEF HInv, ProportionalIsSame, OldColoursCompared
  <1> QED BY <1>7, <1>8

LEMMA CompareStep ==
  ASSUME HInv, Compare
  PROVE  HInv'
  <1>1. /\ bin > NumBins /\ answer' = IF Within THEN "same" ELSE "different"
        /\ UNCHANGED <<old, new, bin, num, den>>
        /\ HistTypeOK /\ SumInv
    BY DEF Compare, HInv
  <1>2. bin = NumBins + 1 /\ num \in Nat /\ den \in Nat /\ den > 0 /\ InverseTolerance \in Nat
    BY <1>1, HistAssumption DEF HistTypeOK
  <1>3. PICK b0 : b0 \in Bins
    BY <1>1 DEF HistTypeOK, Histograms
  <1>4. Unit \in Nat /\ Unit > 0
    BY <1>1, <1>3, Terms
  <1>5. /\ \A b : Square(b)' = Square(b) /\ Above(old, b)' = Above(old, b)
        /\ Unit' = Unit /\ Span(old)' = Span(old) /\ Span(new)' = Span(new)
    BY <1>1 DEF Square, Deviation, Above, Span, Unit
  <1>6. HistTypeOK' /\ SumInv'
    <2>1. Proportional' <=> Proportional
      BY <1>1 DEF Proportional, Span
    <2> QED BY <1>1, <1>2, <1>5, <2>1 DEF HistTypeOK, SumInv
  <1>7. ProportionalIsSame'
    <2> SUFFICES ASSUME Proportional PROVE answer' # "different"
      BY <1>1, <1>5 DEF ProportionalIsSame, Proportional
    <2>1. num = 0
      BY <1>1 DEF SumInv
    <2>2. InverseTolerance * num = 0 /\ den * Unit \in Nat
      BY <1>2, <1>4, <2>1, ProductNat
    <2> QED BY <1>1, <2>2 DEF Within
  <1>8. OldColoursCompared'
    <2> SUFFICES ASSUME Within, NEW b \in Bins, Above(old, b) > 0
                 PROVE  InverseTolerance * Square(b) <= Above(old, b) * Unit
      BY <1>1, <1>5 DEF OldColoursCompared
    <2>1. Square(b) * den <= num * Above(old, b)
      BY <1>1, <1>2, HistAssumption DEF SumInv, Bins
    <2>2. Square(b) \in Nat /\ Above(old, b) \in Nat
      BY <1>1, Terms
    <2> QED BY <1>2, <1>4, <2>1, <2>2, TermWithin DEF Within
  <1> QED BY <1>6, <1>7, <1>8 DEF HInv

LEMMA NextHInv ==
  ASSUME HInv, [HistNext]_histVars
  PROVE  HInv'
  <1>1. ASSUME UNCHANGED histVars PROVE HInv'
    <2>1. UNCHANGED <<old, new, bin, num, den, answer>>
      BY <1>1 DEF histVars
    <2>2. /\ \A b : Square(b)' = Square(b) /\ Above(old, b)' = Above(old, b)
          /\ Unit' = Unit /\ Span(old)' = Span(old) /\ Span(new)' = Span(new)
      BY <2>1 DEF Square, Deviation, Above, Span, Unit
    <2>3. HistTypeOK'
      BY <2>1 DEF HInv, HistTypeOK
    <2>4. SumInv'
      BY <2>1, <2>2 DEF HInv, SumInv, Proportional
    <2>5. ProportionalIsSame' /\ OldColoursCompared'
      BY <2>1, <2>2 DEF HInv, ProportionalIsSame, OldColoursCompared
    <2> QED BY <2>3, <2>4, <2>5 DEF HInv
  <1> QED BY <1>1, AddBinStep, CompareStep DEF HistNext

LEMMA HistInductive == HistSpec => []HInv
  <1>1. HistInit => HInv
    BY InitHInv
  <1>2. HInv /\ [HistNext]_histVars => HInv'
    BY NextHInv
  <1> QED BY <1>1, <1>2, PTL DEF HistSpec

(* compareHist never divides by 0, and its sum never is negative.           *)
THEOREM HistTypeCorrect == HistSpec => []HistTypeOK
  <1>1. HInv => HistTypeOK
    BY DEF HInv
  <1> QED BY <1>1, HistInductive, PTL

(* For any number of bins and any counts: images in proportion are "same".  *)
THEOREM ProportionalIsSameAlways == HistSpec => []ProportionalIsSame
  <1>1. HInv => ProportionalIsSame
    BY DEF HInv
  <1> QED BY <1>1, HistInductive, PTL

(* For any number of bins and any counts: no colour of the old image is     *)
(* outweighed by the others.                                                *)
THEOREM OldColoursComparedAlways == HistSpec => []OldColoursCompared
  <1>1. HInv => OldColoursCompared
    BY DEF HInv
  <1> QED BY <1>1, HistInductive, PTL
=============================================================================
