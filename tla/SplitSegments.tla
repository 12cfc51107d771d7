--------------------------- MODULE SplitSegments ----------------------------
(***************************************************************************)
(* split_segments (image.cc): the image processing that labels the pixels   *)
(* (a library's work, taken here as a choice of any labelling it can give), *)
(* then the scan that groups labelled pixels with a breadth-first search    *)
(* and returns one rectangle per group.  A pixel is <<x, y>>.               *)
(***************************************************************************)
EXTENDS Integers, Sequences, Functions

CONSTANTS
  Cols, Rows,   \* the size of the image
  MaxLabel      \* bound on the labels that findContours leads to

ASSUME SizeAssumption ==
  /\ Cols \in Nat \ {0}
  /\ Rows \in Nat \ {0}
  /\ MaxLabel \in Nat \ {0}

Grid == (0 .. Cols - 1) \X (0 .. Rows - 1)

VARIABLES
  pc,           \* "label", "scan", "bfs" or "done"
  markers,      \* markers[p]: -1 border, 1 background, 0 processed, else label
  x, y,         \* the scan's position
  minP, maxP,   \* corners of the group being searched
  Q,            \* the queue of the search
  cur, d,       \* the pixel taken from Q, and the next neighbour to look at
  segments,     \* the rectangles found so far
  labelled      \* auxiliary: the pixels that had a label before the scan

search == <<minP, maxP, Q, cur, d>>
vars == <<pc, markers, x, y, search, segments, labelled>>

(* The neighbours in the order of the loops over dy and dx; the pixel       *)
(* itself is skipped.  (Here and below, a definition is preceded by a       *)
(* faulty variant of it where a property guards against that fault.)        *)
DirsStraight == <<<<0, -1>>, <<-1, 0>>, <<1, 0>>, <<0, 1>>>>
Dirs == <<<<-1, -1>>, <<0, -1>>, <<1, -1>>, <<-1, 0>>,
          <<1, 0>>, <<-1, 1>>, <<0, 1>>, <<1, 1>>>>

Neighbour(p, k) == <<p[1] + Dirs[k][1], p[2] + Dirs[k][2]>>

Lesser(a, b) == IF a <= b THEN a ELSE b
Greater(a, b) == IF a <= b THEN b ELSE a

Rects == [x : Int, y : Int, width : Int, height : Int]

(* cv::Rect(p, q): x, y, width, height; the corner q is outside.            *)
RectFromCorners(p, q) ==
  [x |-> p[1], y |-> p[2], width |-> q[1], height |-> q[2]]
RectFrom(p, q) ==
  [x |-> p[1], y |-> p[2], width |-> q[1] - p[1], height |-> q[2] - p[2]]

(* What cv::watershed leaves: every pixel had a label or is background, so  *)
(* all it does is to set the image's border to -1.                          *)
OnBorder(p) == p[1] \in {0, Cols - 1} \/ p[2] \in {0, Rows - 1}

(* Any labels inside it.  Filled contours cannot leave all of these, so the *)
(* properties are shown for more labellings than there are.                 *)
Labellings ==
  {[p \in Grid |-> IF OnBorder(p) THEN -1 ELSE label[p]] :
     label \in [{p \in Grid : ~OnBorder(p)} -> 1 .. MaxLabel]}

TypeOK ==
  /\ pc \in {"label", "scan", "bfs", "done"}
  /\ markers \in [Grid -> -1 .. MaxLabel]
  /\ x \in 0 .. Cols - 1 /\ y \in 0 .. Rows
  /\ minP \in Grid /\ maxP \in Grid
  /\ Q \in Seq(Grid)
  /\ cur \in Grid /\ d \in 1 .. Len(Dirs) + 1
  /\ segments \in Seq(Rects)
  /\ labelled \in SUBSET Grid

Init ==
  /\ pc = "label"
  /\ markers = [p \in Grid |-> 0]
  /\ x = 0 /\ y = 0
  /\ minP = <<0, 0>> /\ maxP = <<0, 0>>
  /\ Q = <<>>
  /\ cur = <<0, 0>> /\ d = Len(Dirs) + 1
  /\ segments = <<>>
  /\ labelled = {}

-----------------------------------------------------------------------------
(* Everything up to the grouping; without contours, return at once.         *)
Label ==
  /\ pc = "label"
  /\ \/ /\ pc' = "done"
        /\ UNCHANGED <<markers, labelled>>
     \/ /\ pc' = "scan"
        /\ markers' \in Labellings
        /\ labelled' = {p \in Grid : markers'[p] > 1}
  /\ UNCHANGED <<x, y, search, segments>>

(* The next pixel of the scan, row by row.                                  *)
AdvancePastRow ==
  /\ x' = x + 1
  /\ UNCHANGED y
AdvanceInRow ==
  /\ x' = IF x + 1 < Cols THEN x + 1 ELSE 0
  /\ UNCHANGED y
Advance ==
  /\ x' = IF x + 1 < Cols THEN x + 1 ELSE 0
  /\ y' = IF x + 1 < Cols THEN y ELSE y + 1

Skip ==
  /\ pc = "scan"
  /\ y < Rows
  /\ markers[<<x, y>>] <= 1
  /\ Advance
  /\ UNCHANGED <<pc, markers, search, segments, labelled>>

(* The scan meets a label and calls bfs.  The seed itself is not marked: a  *)
(* neighbour does that, and puts it into the queue a second time.           *)
Start ==
  /\ pc = "scan"
  /\ y < Rows
  /\ markers[<<x, y>>] > 1
  /\ pc' = "bfs"
  /\ minP' = <<x, y>>
  /\ maxP' = <<x, y>>
  /\ Q' = <<<<x, y>>>>
  /\ UNCHANGED <<markers, x, y, cur, d, segments, labelled>>

Pop ==
  /\ pc = "bfs"
  /\ d > Len(Dirs)
  /\ Q # <<>>
  /\ cur' = Head(Q)
  /\ Q' = Tail(Q)
  /\ d' = 1
  /\ UNCHANGED <<pc, markers, x, y, minP, maxP, segments, labelled>>

(* A neighbour outside the image, or without a label, or processed.         *)
Ignored(q) == q \notin Grid \/ markers[q] <= 1

Pass ==
  /\ pc = "bfs"
  /\ d <= Len(Dirs)
  /\ Ignored(Neighbour(cur, d))
  /\ d' = d + 1
  /\ UNCHANGED <<pc, markers, x, y, minP, maxP, Q, cur, segments, labelled>>

ReachedUnmarked(q) == markers
Reached(q) == [markers EXCEPT ![q] = 0]

Enqueue ==
  /\ pc = "bfs"
  /\ d <= Len(Dirs)
  /\ LET q == Neighbour(cur, d)
     IN  /\ ~Ignored(q)
         /\ markers' = Reached(q)
         /\ minP' = <<Lesser(minP[1], q[1]), Lesser(minP[2], q[2])>>
         /\ maxP' = <<Greater(maxP[1], q[1]), Greater(maxP[2], q[2])>>
         /\ Q' = Append(Q, q)
  /\ d' = d + 1
  /\ UNCHANGED <<pc, x, y, cur, segments, labelled>>

(* The queue is empty: return the rectangle, or nothing for a lone pixel.   *)
FinishLone ==
  /\ pc = "bfs"
  /\ d > Len(Dirs)
  /\ Q = <<>>
  /\ segments' = Append(segments, RectFrom(minP, maxP))
  /\ pc' = "scan"
  /\ Advance
  /\ UNCHANGED <<markers, search, labelled>>
Finish ==
  /\ pc = "bfs"
  /\ d > Len(Dirs)
  /\ Q = <<>>
  /\ segments' = IF minP = <<x, y>> /\ maxP = <<x, y>>
                   THEN segments ELSE Append(segments, RectFrom(minP, maxP))
  /\ pc' = "scan"
  /\ Advance
  /\ UNCHANGED <<markers, search, labelled>>

End ==
  /\ pc = "scan"
  /\ y = Rows
  /\ pc' = "done"
  /\ UNCHANGED <<markers, x, y, search, segments, labelled>>

Next == Label \/ Skip \/ Start \/ Pop \/ Pass \/ Enqueue \/ Finish \/ End

Spec == Init /\ [][Next]_vars

(* One thread, that waits for nothing.                                      *)
FairSpec == Spec /\ WF_vars(Next)

-----------------------------------------------------------------------------
Near(p, q) == p[1] - q[1] \in -1 .. 1 /\ p[2] - q[2] \in -1 .. 1

(* The 8-connected groups of labelled pixels, lone pixels left out: what a  *)
(* pixel has in common with all sets that are closed under neighbourhood    *)
(* and contain it.                                                          *)
Groups ==
  LET closed == {S \in SUBSET labelled :
                   \A p \in S, q \in labelled \ S : ~Near(p, q)}
      group(p) == {q \in labelled : \A S \in closed : p \in S => q \in S}
  IN {C \in {group(p) : p \in labelled} : \E p, q \in C : p # q}

(* The rectangle from the least to the greatest coordinates in C.           *)
IsBox(r, C) ==
  /\ \A p \in C : /\ p[1] \in r.x .. r.x + r.width
                  /\ p[2] \in r.y .. r.y + r.height
  /\ \E p \in C : p[1] = r.x
  /\ \E p \in C : p[1] = r.x + r.width
  /\ \E p \in C : p[2] = r.y
  /\ \E p \in C : p[2] = r.y + r.height

(* The rectangles returned are the boxes of the 8-connected groups of at    *)
(* least two labelled pixels, one for each, although the search overwrites  *)
(* the markers that the scan still reads and leaves lone pixels unmarked.   *)
OneRectPerGroup ==
  pc = "done" =>
    LET groups == Groups
    IN \E group \in Bijection(1 .. Len(segments), groups) :
         \A k \in 1 .. Len(segments) : IsBox(segments[k], group[k])

(* detect_segments takes gray_mat(rect), which throws unless the rectangle  *)
(* lies within the image.                                                   *)
InImage ==
  \A k \in 1 .. Len(segments) :
    LET r == segments[k]
    IN  /\ r.x >= 0 /\ r.y >= 0
        /\ r.width >= 0 /\ r.height >= 0
        /\ r.x + r.width <= Cols /\ r.y + r.height <= Rows

(* A pixel never waits twice in the queue, the seed included, which enters  *)
(* it twice: the queue cannot outgrow the image.                            *)
QueueDistinct ==
  \A k, l \in 1 .. Len(Q) : Q[k] = Q[l] => k = l

(* Between two searches no processed pixel has a neighbour that is still    *)
(* labelled: a group is never cut into several rectangles.                  *)
WholeGroups ==
  pc = "scan" =>
    \A p, q \in Grid : Near(p, q) /\ markers[p] = 0 => markers[q] <= 1

(* The scan ends.                                                           *)
Termination == <>(pc = "done")

(* "grouping pixels and calculate group rectangle": every pixel of a group  *)
(* lies in a rectangle.  Not so: cv::Rect(minP, maxP) leaves out the last   *)
(* row and the last column of the group.                                    *)
RectsCoverGroups ==
  pc = "done" =>
    \A C \in Groups, p \in Grid :
      p \in C => \E k \in 1 .. Len(segments) :
        LET r == segments[k]
        IN  /\ p[1] \in r.x .. r.x + r.width - 1
            /\ p[2] \in r.y .. r.y + r.height - 1
=============================================================================
