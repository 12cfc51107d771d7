------------------------ MODULE SplitSegments_proofs ------------------------
(***************************************************************************)
(* Proofs about SplitSegments, for images of any size and any labelling:    *)
(* the rectangles lie in the image, no pixel waits twice in the queue, no   *)
(* group is left half processed, each has one rectangle at the end, and the *)
(* whole takes a number of steps linear in the size of the image.           *)
(***************************************************************************)
EXTENDS SplitSegments, FiniteSetTheorems, TLAPS

LEMMA DirsFacts ==
  /\ Len(Dirs) = 8
  /\ \A k \in 1 .. 8 : Dirs[k][1] \in Int /\ Dirs[k][2] \in Int
BY DEF Dirs

LEMMA GridPair ==
  ASSUME NEW a \in 0 .. Cols - 1, NEW b \in 0 .. Rows - 1
  PROVE  <<a, b>> \in Grid
BY DEF Grid

LEMMA GridElement ==
  ASSUME NEW p \in Grid
  PROVE  /\ p = <<p[1], p[2]>>
         /\ p[1] \in 0 .. Cols - 1
         /\ p[2] \in 0 .. Rows - 1
BY DEF Grid

LEMMA RectBetween ==
  ASSUME NEW p \in Grid, NEW q \in Grid
  PROVE  RectFrom(p, q) \in Rects
<1>1. p[1] \in Int /\ p[2] \in Int /\ q[1] \in Int /\ q[2] \in Int
  BY GridElement
<1>2. q[1] - p[1] \in Int /\ q[2] - p[2] \in Int
  BY <1>1
<1>3. QED
  BY <1>1, <1>2 DEF RectFrom, Rects

(* The search runs at a pixel of the image.                                 *)
ScanInv == pc = "bfs" => y < Rows

(* A pixel's scan position stays in the image until the last row is done.   *)
LEMMA AdvanceStays ==
  ASSUME x \in 0 .. Cols - 1, y \in 0 .. Rows, y < Rows, Advance
  PROVE  x' \in 0 .. Cols - 1 /\ y' \in 0 .. Rows
BY SizeAssumption DEF Advance

LEMMA TypeInit == Init => TypeOK /\ ScanInv
<1> SUFFICES ASSUME Init PROVE TypeOK /\ ScanInv
  OBVIOUS
<1>1. <<0, 0>> \in Grid
  BY SizeAssumption, GridPair
<1>2. 0 \in -1 .. MaxLabel /\ 0 \in 0 .. Cols - 1 /\ 0 \in 0 .. Rows
  BY SizeAssumption
<1>3. Len(Dirs) + 1 \in 1 .. Len(Dirs) + 1
  BY DirsFacts
<1>4. QED
  BY <1>1, <1>2, <1>3 DEF Init, TypeOK, ScanInv

LEMMA TypeStep ==
  ASSUME TypeOK, ScanInv, [Next]_vars
  PROVE  TypeOK' /\ ScanInv'
<1> USE DEF TypeOK, ScanInv, search
<1>1. CASE Label
  <2>1. ASSUME markers' \in Labellings
        PROVE  markers' \in [Grid -> -1 .. MaxLabel]
    <3>1. PICK label \in [{p \in Grid : ~OnBorder(p)} -> 1 .. MaxLabel] :
            markers' = [p \in Grid |-> IF OnBorder(p) THEN -1 ELSE label[p]]
      BY <2>1 DEF Labellings
    <3>2. \A p \in Grid :
            (IF OnBorder(p) THEN -1 ELSE label[p]) \in -1 .. MaxLabel
      BY SizeAssumption
    <3>3. QED
      BY <3>1, <3>2
  <2>2. QED
    BY <1>1, <2>1 DEF Label
<1>2. CASE Skip
  BY <1>2, AdvanceStays DEF Skip
<1>3. CASE Start
  <2>1. <<x, y>> \in Grid
    BY <1>3, SizeAssumption, GridPair DEF Start
  <2>2. QED
    BY <1>3, <2>1 DEF Start
<1>4. CASE Pop
  <2>1. Head(Q) \in Grid /\ Tail(Q) \in Seq(Grid)
    BY <1>4 DEF Pop
  <2>2. 1 \in 1 .. Len(Dirs) + 1
    BY DirsFacts
  <2>3. QED
    BY <1>4, <2>1, <2>2 DEF Pop
<1>5. CASE Pass
  <2>1. d' \in 1 .. Len(Dirs) + 1
    BY <1>5, DirsFacts DEF Pass
  <2>2. QED
    BY <1>5, <2>1 DEF Pass
<1>6. CASE Enqueue
  <2> DEFINE q == Neighbour(cur, d)
             low == <<Lesser(minP[1], q[1]), Lesser(minP[2], q[2])>>
             high == <<Greater(maxP[1], q[1]), Greater(maxP[2], q[2])>>
  <2>1. q \in Grid
    BY <1>6 DEF Enqueue, Ignored
  <2>2. low \in Grid /\ high \in Grid
    <3>1. /\ low[1] \in 0 .. Cols - 1 /\ low[2] \in 0 .. Rows - 1
          /\ high[1] \in 0 .. Cols - 1 /\ high[2] \in 0 .. Rows - 1
      <4> HIDE DEF q
      <4>1. QED
        BY <2>1, GridElement DEF Lesser, Greater
    <3>2. QED
      BY <3>1, GridPair
  <2>3. d' \in 1 .. Len(Dirs) + 1
    BY <1>6, DirsFacts DEF Enqueue
  <2>4. Reached(q) \in [Grid -> -1 .. MaxLabel]
    BY <2>1, SizeAssumption DEF Reached
  <2>5. /\ markers' = Reached(q) /\ minP' = low /\ maxP' = high
        /\ Q' = Append(Q, q)
        /\ UNCHANGED <<pc, x, y, cur, segments, labelled>>
    BY <1>6 DEF Enqueue
  <2> HIDE DEF q, low, high
  <2>6. Q' \in Seq(Grid)
    BY <2>1, <2>5
  <2>7. markers' \in [Grid -> -1 .. MaxLabel] /\ minP' \in Grid /\ maxP' \in Grid
    BY <2>2, <2>4, <2>5
  <2>8. QED
    BY <2>3, <2>5, <2>6, <2>7
<1>7. CASE Finish
  <2>1. RectFrom(minP, maxP) \in Rects
    BY RectBetween
  <2>2. x' \in 0 .. Cols - 1 /\ y' \in 0 .. Rows
    BY <1>7, AdvanceStays DEF Finish
  <2>3. segments' \in Seq(Rects)
    BY <1>7, <2>1 DEF Finish
  <2>4. QED
    BY <1>7, <2>2, <2>3 DEF Finish
<1>8. CASE End
  BY <1>8 DEF End
<1>9. CASE UNCHANGED vars
  BY <1>9 DEF vars
<1>10. QED
  BY <1>1, <1>2, <1>3, <1>4, <1>5, <1>6, <1>7, <1>8, <1>9 DEF Next

(* TypeOK holds together with ScanInv, which makes it inductive.            *)
LEMMA TypeInductive == Spec => [](TypeOK /\ ScanInv)
<1>1. TypeOK /\ ScanInv /\ [Next]_vars => (TypeOK /\ ScanInv)'
  BY TypeStep
<1>2. QED
  BY <1>1, TypeInit, PTL DEF Spec

(* Type correctness: markers, positions, corners and queue keep to the      *)
(* image, whatever labelling the scan starts from.                          *)
THEOREM TypeCorrect == Spec => []TypeOK
BY TypeInductive, PTL

-----------------------------------------------------------------------------
(* The rectangles.                                                          *)

(* The corners of a group are in order.                                     *)
BoxInv == minP[1] <= maxP[1] /\ minP[2] <= maxP[2]

LEMMA BoxStep ==
  ASSUME TypeOK, BoxInv, [Next]_vars
  PROVE  BoxInv'
<1>1. CASE Start
  <2>1. x <= x /\ y <= y
    BY DEF TypeOK
  <2>2. QED
    BY <1>1, <2>1 DEF Start, BoxInv
<1>2. CASE Enqueue
  <2> DEFINE q == Neighbour(cur, d)
  <2>1. q \in Grid
    BY <1>2 DEF Enqueue, Ignored
  <2>2. /\ minP' = <<Lesser(minP[1], q[1]), Lesser(minP[2], q[2])>>
        /\ maxP' = <<Greater(maxP[1], q[1]), Greater(maxP[2], q[2])>>
    BY <1>2 DEF Enqueue
  <2>3. minP \in Grid /\ maxP \in Grid
    BY DEF TypeOK
  <2> HIDE DEF q
  <2>4. QED
    BY <2>1, <2>2, <2>3, GridElement DEF BoxInv, Lesser, Greater
<1>3. CASE UNCHANGED <<minP, maxP>>
  BY <1>3 DEF BoxInv
<1>4. QED
  BY <1>1, <1>2, <1>3
     DEF Next, vars, search, Label, Skip, Pop, Pass, Finish, End

(* A step adds at most the rectangle of the corners.                        *)
LEMMA InImageStep ==
  ASSUME TypeOK, BoxInv, InImage, [Next]_vars
  PROVE  InImage'
<1> DEFINE Fits(r) == /\ r.x >= 0 /\ r.y >= 0
                      /\ r.width >= 0 /\ r.height >= 0
                      /\ r.x + r.width <= Cols /\ r.y + r.height <= Rows
           r0 == RectFrom(minP, maxP)
<1>1. \A k \in 1 .. Len(segments) : Fits(segments[k])
  BY DEF InImage
<1>2. CASE UNCHANGED segments
  BY <1>2 DEF InImage
<1>3. CASE segments' = Append(segments, r0)
  <2>1. Fits(r0)
    <3>1. /\ minP[1] \in 0 .. Cols - 1 /\ minP[2] \in 0 .. Rows - 1
          /\ maxP[1] \in 0 .. Cols - 1 /\ maxP[2] \in 0 .. Rows - 1
      BY GridElement DEF TypeOK
    <3>2. /\ minP[1] \in Nat /\ minP[2] \in Nat /\ maxP[1] \in Nat /\ maxP[2] \in Nat
          /\ minP[1] <= maxP[1] /\ minP[2] <= maxP[2]
          /\ maxP[1] <= Cols /\ maxP[2] <= Rows
      BY <3>1, SizeAssumption DEF BoxInv
    <3>3. /\ r0.x = minP[1] /\ r0.y = minP[2]
          /\ r0.width = maxP[1] - minP[1] /\ r0.height = maxP[2] - minP[2]
      BY DEF RectFrom
    <3> HIDE DEF r0
    <3>4. QED
      BY <3>2, <3>3, SizeAssumption
  <2>2. r0 \in Rects /\ segments \in Seq(Rects)
    BY RectBetween DEF TypeOK
  <2> HIDE DEF Fits, r0
  <2>3. \A k \in 1 .. Len(segments') : Fits(segments'[k])
    BY <1>1, <1>3, <2>1, <2>2
  <2>4. QED
    BY <2>3 DEF InImage, Fits
<1>4. QED
  BY <1>2, <1>3
     DEF Next, vars, search, Label, Skip, Start, Pop, Pass, Enqueue, Finish, End

(* gray_mat(rect) in detect_segments never throws: every rectangle is       *)
(* inside the image, for any size and labelling.                            *)
THEOREM RectsInImage == Spec => []InImage
<1>1. Init => BoxInv /\ InImage
  BY DEF Init, BoxInv, InImage
<1>2. TypeOK /\ BoxInv /\ InImage /\ [Next]_vars => BoxInv' /\ InImage'
  BY BoxStep, InImageStep
<1>3. QED
  BY <1>1, <1>2, TypeCorrect, PTL DEF Spec

-----------------------------------------------------------------------------
(* The queue.                                                               *)

(* Only a fresh seed waits in the queue without being processed, and it     *)
(* waits alone.                                                             *)
QueueInv ==
  /\ \A k \in 1 .. Len(Q) :
       markers[Q[k]] = 0 \/ (Len(Q) = 1 /\ d > Len(Dirs))
  /\ pc # "bfs" => Q = <<>> /\ d > Len(Dirs)

LEMMA QueueStep ==
  ASSUME TypeOK, QueueInv, QueueDistinct, [Next]_vars
  PROVE  QueueInv' /\ QueueDistinct'
<1>1. CASE Label
  BY <1>1 DEF Label, search, QueueInv, QueueDistinct
<1>2. CASE Start
  BY <1>2 DEF Start, QueueInv, QueueDistinct
<1>3. CASE Pop
  <2>1. /\ Q' = Tail(Q) /\ d' = 1 /\ UNCHANGED <<pc, markers>> /\ pc = "bfs"
        /\ Q \in Seq(Grid) /\ Q # <<>>
    BY <1>3 DEF Pop, TypeOK
  <2>2. \A k \in 1 .. Len(Q') : Q'[k] = Q[k + 1] /\ k + 1 \in 1 .. Len(Q)
    BY <2>1
  <2>3. QueueInv'
    BY <2>1, <2>2 DEF QueueInv
  <2>4. QueueDistinct'
    BY <2>1, <2>2 DEF QueueDistinct
  <2>5. QED
    BY <2>3, <2>4
<1>4. CASE Pass
  <2>1. \A k \in 1 .. Len(Q) : markers[Q[k]] = 0
    BY <1>4, DirsFacts DEF Pass, QueueInv, TypeOK
  <2>2. QED
    BY <1>4, <2>1 DEF Pass, QueueInv, QueueDistinct
<1>5. CASE Enqueue
  <2> DEFINE q == Neighbour(cur, d)
  <2>0. q \in Grid /\ ~(markers[q] <= 1)
    BY <1>5 DEF Enqueue, Ignored
  <2>1. /\ pc = "bfs" /\ UNCHANGED pc /\ d <= Len(Dirs)
        /\ q \in Grid /\ markers[q] > 1
        /\ markers' = [markers EXCEPT ![q] = 0]
        /\ Q' = Append(Q, q)
    <3>1. markers[q] \in Int
      BY <2>0 DEF TypeOK
    <3>2. QED
      BY <1>5, <2>0, <3>1 DEF Enqueue, Reached
  <2>2. Q \in Seq(Grid) /\ markers \in [Grid -> -1 .. MaxLabel] /\ d \in Int
    BY DEF TypeOK
  <2>3. \A k \in 1 .. Len(Q) : markers[Q[k]] = 0
    <3>1. ~(d > Len(Dirs))
      BY <2>1, <2>2, DirsFacts
    <3>2. QED
      BY <3>1 DEF QueueInv
  <2> HIDE DEF q
  <2>4. /\ Len(Q') = Len(Q) + 1
        /\ Q'[Len(Q) + 1] = q
        /\ \A k \in 1 .. Len(Q) : Q'[k] = Q[k] /\ Q[k] \in Grid
    BY <2>1, <2>2
  <2>5. \A k \in 1 .. Len(Q) : Q[k] # q
    BY <2>1, <2>3
  <2>6. \A k \in 1 .. Len(Q') : markers'[Q'[k]] = 0
    BY <2>1, <2>2, <2>3, <2>4
  <2>7. QueueInv'
    BY <2>1, <2>6 DEF QueueInv
  <2>8. QueueDistinct'
    <3> SUFFICES ASSUME NEW k \in 1 .. Len(Q'), NEW l \in 1 .. Len(Q'),
                        Q'[k] = Q'[l]
                 PROVE  k = l
      BY DEF QueueDistinct
    <3>1. Len(Q) \in Nat
      BY <2>2
    <3>2. QED
      BY <2>4, <2>5, <3>1 DEF QueueDistinct
  <2>9. QED
    BY <2>7, <2>8
<1>6. CASE Finish
  BY <1>6 DEF Finish, search, QueueInv, QueueDistinct
<1>7. CASE UNCHANGED <<pc, markers, Q, d>>
  BY <1>7 DEF QueueInv, QueueDistinct
<1>8. CASE End
  BY <1>8 DEF End, search, QueueInv, QueueDistinct
<1>9. QED
  BY <1>1, <1>2, <1>3, <1>4, <1>5, <1>6, <1>7, <1>8 DEF Next, vars, search, Skip

(* QueueDistinct holds together with QueueInv, which makes it inductive.    *)
LEMMA QueueInductive == Spec => [](QueueDistinct /\ QueueInv)
<1>1. Init => QueueInv /\ QueueDistinct
  BY DirsFacts DEF Init, QueueInv, QueueDistinct
<1>2. TypeOK /\ QueueInv /\ QueueDistinct /\ [Next]_vars
        => QueueInv' /\ QueueDistinct'
  BY QueueStep
<1>3. QED
  BY <1>1, <1>2, TypeCorrect, PTL DEF Spec

(* No pixel is in the queue twice at a time, although the seed is put into  *)
(* it twice, so the queue never holds more entries than the image pixels.   *)
THEOREM QueueNeverRepeats == Spec => []QueueDistinct
BY QueueInductive, PTL

-----------------------------------------------------------------------------
(* The groups.                                                              *)

(* The loops over dy and dx reach every neighbour.                          *)
LEMMA EveryNeighbour ==
  ASSUME NEW p \in Grid, NEW q \in Grid, Near(p, q), p # q
  PROVE  \E k \in 1 .. 8 : q = Neighbour(p, k)
<1>1. /\ p = <<p[1], p[2]>> /\ q = <<q[1], q[2]>>
      /\ p[1] \in Int /\ p[2] \in Int /\ q[1] \in Int /\ q[2] \in Int
  BY GridElement, SizeAssumption
<1> DEFINE dx == q[1] - p[1]
           dy == q[2] - p[2]
<1>2. dx \in {-1, 0, 1} /\ dy \in {-1, 0, 1} /\ ~(dx = 0 /\ dy = 0)
  BY <1>1 DEF Near
<1>3. \E k \in 1 .. 8 : Dirs[k][1] = dx /\ Dirs[k][2] = dy
  <2> HIDE DEF dx, dy
  <2>1. QED
    BY <1>2 DEF Dirs
<1>4. PICK k \in 1 .. 8 : Dirs[k][1] = dx /\ Dirs[k][2] = dy
  BY <1>3
<1>5. q = <<p[1] + Dirs[k][1], p[2] + Dirs[k][2]>>
  BY <1>1, <1>4
<1>6. QED
  BY <1>5 DEF Neighbour

(* Some entry of the queue is p.                                            *)
Waiting(p) == \E k \in 1 .. Len(Q) : Q[k] = p

(* Where the search stands: a processed pixel with a neighbour that is      *)
(* still labelled waits in the queue, or is the current one and that        *)
(* neighbour is yet to come.                                                *)
FrontierInv ==
  pc \in {"scan", "bfs"} =>
    \A p, q \in Grid :
      Near(p, q) /\ markers[p] = 0 /\ markers[q] > 1 =>
        /\ pc = "bfs"
        /\ Waiting(p) \/ (p = cur /\ \E k \in d .. 8 : q = Neighbour(p, k))

LEMMA FrontierStep ==
  ASSUME TypeOK, QueueInv, FrontierInv, [Next]_vars
  PROVE  FrontierInv'
<1> SUFFICES ASSUME pc' \in {"scan", "bfs"},
                    NEW p \in Grid, NEW q \in Grid, Near(p, q),
                    markers'[p] = 0, markers'[q] > 1
             PROVE  /\ pc' = "bfs"
                    /\ Waiting(p)' \/ (p = cur' /\ \E k \in d' .. 8 : q = Neighbour(p, k))
  BY DEF FrontierInv
<1> USE DirsFacts
<1>1. CASE Label
  <2>1. markers' \in Labellings
    BY <1>1 DEF Label
  <2>2. PICK label \in [{r \in Grid : ~OnBorder(r)} -> 1 .. MaxLabel] :
          markers' = [r \in Grid |-> IF OnBorder(r) THEN -1 ELSE label[r]]
    BY <2>1 DEF Labellings
  <2>3. QED
    BY <2>2
<1>2. CASE pc = "scan" /\ UNCHANGED markers
  BY <1>2 DEF FrontierInv
<1>3. CASE Pop
  <2>1. /\ pc = "bfs" /\ UNCHANGED <<pc, markers>>
        /\ Q \in Seq(Grid) /\ Q # <<>> /\ d > Len(Dirs) /\ d \in Int
        /\ cur' = Head(Q) /\ Q' = Tail(Q) /\ d' = 1
    BY <1>3 DEF Pop, TypeOK
  <2>2. \E k \in 1 .. Len(Q) : Q[k] = p
    <3>1. Waiting(p) \/ \E k \in d .. 8 : q = Neighbour(p, k)
      BY <2>1 DEF FrontierInv
    <3>2. d .. 8 = {}
      BY <2>1
    <3>3. QED
      BY <3>1, <3>2 DEF Waiting
  <2>3. PICK k \in 1 .. Len(Q) : Q[k] = p
    BY <2>2
  <2>4. CASE k = 1
    <3>1. p # q
      <4>1. markers[p] = 0 /\ markers[q] > 1
        BY <2>1
      <4>2. markers[p] # markers[q]
        BY <4>1
      <4>3. QED
        BY <4>2, Zenon
    <3>2. \E m \in 1 .. 8 : q = Neighbour(p, m)
      BY <3>1, EveryNeighbour
    <3>3. p = cur'
      BY <2>1, <2>3, <2>4
    <3>4. QED
      BY <2>1, <3>2, <3>3
  <2>5. CASE k # 1
    <3>1. k - 1 \in 1 .. Len(Q') /\ Q'[k - 1] = p
      <4>1. Q \in Seq(Grid) /\ Q # <<>> /\ Q' = Tail(Q)
        BY <2>1
      <4>2. k - 1 \in 1 .. Len(Q) - 1
        BY <2>5, <4>1
      <4>3. QED
        BY <2>3, <4>1, <4>2
    <3>2. QED
      BY <2>1, <3>1 DEF Waiting
  <2>6. QED
    BY <2>4, <2>5
<1>4. CASE Pass
  <2>1. /\ pc = "bfs" /\ UNCHANGED <<pc, markers, Q, cur>> /\ d' = d + 1
        /\ d \in 1 .. 9
        /\ Ignored(Neighbour(cur, d))
    BY <1>4 DEF Pass, TypeOK
  <2>2. markers[q] \in Int /\ markers[q] > 1
    BY <2>1 DEF TypeOK
  <2>3. q # Neighbour(cur, d)
    BY <2>1, <2>2 DEF Ignored
  <2>4. Waiting(p) \/ (p = cur /\ \E k \in d .. 8 : q = Neighbour(p, k))
    BY <2>1 DEF FrontierInv
  <2>5. ASSUME p = cur, NEW k \in d .. 8, q = Neighbour(p, k)
        PROVE  k \in d' .. 8
    BY <2>1, <2>3, <2>5
  <2>6. QED
    BY <2>1, <2>4, <2>5 DEF Waiting
<1>5. CASE Enqueue
  <2> DEFINE r == Neighbour(cur, d)
  <2>1. /\ pc = "bfs" /\ UNCHANGED <<pc, cur>> /\ d' = d + 1 /\ d \in 1 .. 9
        /\ r \in Grid
        /\ markers' = [markers EXCEPT ![r] = 0]
        /\ markers \in [Grid -> -1 .. MaxLabel]
        /\ Q' = Append(Q, r) /\ Q \in Seq(Grid)
    BY <1>5 DEF Enqueue, Ignored, Reached, TypeOK
  <2>2. q # r /\ markers[q] > 1
    BY <2>1
  <2>3. CASE p = r
    <3>1. Len(Q) + 1 \in 1 .. Len(Q') /\ Q'[Len(Q) + 1] = p
      BY <2>1, <2>3
    <3>2. QED
      BY <2>1, <3>1 DEF Waiting
  <2>4. CASE p # r
    <3>1. markers[p] = 0
      BY <2>1, <2>4
    <3>2. Waiting(p) \/ (p = cur /\ \E k \in d .. 8 : q = Neighbour(p, k))
      BY <2>1, <2>2, <3>1 DEF FrontierInv
    <3>3. ASSUME p = cur, NEW k \in d .. 8, q = Neighbour(p, k)
          PROVE  k \in d' .. 8
      <4>1. d' = d + 1 /\ d \in 1 .. 9 /\ q # Neighbour(cur, d)
        BY <2>1, <2>2
      <4>2. QED
        BY <3>3, <4>1
    <3>4. Waiting(p) => Waiting(p)'
      <4> HIDE DEF r
      <4>1. ASSUME NEW k \in 1 .. Len(Q), Q[k] = p
            PROVE  k \in 1 .. Len(Q') /\ Q'[k] = p
        BY <2>1, <4>1
      <4>2. QED
        BY <4>1 DEF Waiting
    <3>5. QED
      BY <2>1, <3>2, <3>3, <3>4
  <2>5. QED
    BY <2>3, <2>4
<1>6. CASE Finish
  <2>1. ~Waiting(p) /\ d > 8 /\ d \in Int /\ UNCHANGED markers /\ pc = "bfs"
    BY <1>6 DEF Finish, Waiting, TypeOK
  <2>2. QED
    BY <2>1 DEF FrontierInv
<1>7. CASE UNCHANGED vars
  BY <1>7 DEF vars, search, FrontierInv, Waiting
<1>8. QED
  BY <1>1, <1>2, <1>3, <1>4, <1>5, <1>6, <1>7 DEF Next, Skip, Start, End

LEMMA FrontierInductive == Spec => []FrontierInv
<1>1. Init => FrontierInv
  BY DEF Init, FrontierInv
<1>2. TypeOK /\ QueueInv /\ FrontierInv /\ [Next]_vars => FrontierInv'
  BY FrontierStep
<1>3. QED
  BY <1>1, <1>2, TypeCorrect, QueueInductive, PTL DEF Spec

(* Between two searches every processed pixel's neighbours are processed or *)
(* were never labelled, so no group is ever cut in two.                     *)
THEOREM GroupsAreWhole == Spec => []WholeGroups
<1>1. TypeOK /\ FrontierInv => WholeGroups
  <2> SUFFICES ASSUME TypeOK, FrontierInv, pc = "scan", NEW p \in Grid, NEW q \in Grid,
                      Near(p, q), markers[p] = 0
               PROVE  markers[q] <= 1
    BY DEF WholeGroups
  <2>1. markers[q] \in Int
    BY DEF TypeOK
  <2>2. ~(markers[q] > 1)
    BY DEF FrontierInv
  <2>3. QED
    BY <2>1, <2>2
<1>2. QED
  BY <1>1, TypeCorrect, FrontierInductive, PTL

-----------------------------------------------------------------------------
(* What a group is: facts about the neighbourhood in any set L of pixels.   *)
ClosedIn(L) == {S \in SUBSET L : \A p \in S, q \in L \ S : ~Near(p, q)}
GroupIn(L, p) == {q \in L : \A S \in ClosedIn(L) : p \in S => q \in S}
GroupOf(p) == GroupIn(labelled, p)

LEMMA NearSymmetric ==
  ASSUME NEW p \in Grid, NEW q \in Grid, Near(p, q)
  PROVE  Near(q, p)
<1>1. p[1] \in Int /\ p[2] \in Int /\ q[1] \in Int /\ q[2] \in Int
  BY GridElement
<1>2. QED
  BY <1>1 DEF Near

LEMMA NeighbourNear ==
  ASSUME NEW p \in Grid, NEW k \in 1 .. 8
  PROVE  Near(p, Neighbour(p, k))
<1>1. p[1] \in Int /\ p[2] \in Int
  BY GridElement
<1>2. Dirs[k][1] \in {-1, 0, 1} /\ Dirs[k][2] \in {-1, 0, 1}
  BY DEF Dirs
<1>3. QED
  BY <1>1, <1>2 DEF Near, Neighbour

LEMMA GroupClosed ==
  ASSUME NEW L \in SUBSET Grid, NEW p \in L
  PROVE  p \in GroupIn(L, p) /\ GroupIn(L, p) \in ClosedIn(L)
<1>1. p \in GroupIn(L, p) /\ GroupIn(L, p) \subseteq L
  BY DEF GroupIn
<1>2. ASSUME NEW a \in GroupIn(L, p), NEW q \in L \ GroupIn(L, p), Near(a, q)
      PROVE  FALSE
  <2>1. PICK S \in ClosedIn(L) : p \in S /\ q \notin S
    BY <1>2 DEF GroupIn
  <2>2. a \in S
    BY <2>1, <1>2 DEF GroupIn
  <2>3. QED
    BY <1>2, <2>1, <2>2 DEF ClosedIn
<1>3. QED
  BY <1>1, <1>2 DEF ClosedIn

LEMMA RestClosed ==
  ASSUME NEW L \in SUBSET Grid, NEW S \in ClosedIn(L)
  PROVE  L \ S \in ClosedIn(L)
<1>1. ASSUME NEW p \in L \ S, NEW q \in L \ (L \ S), Near(p, q)
      PROVE  FALSE
  <2>1. Near(q, p)
    BY <1>1, NearSymmetric
  <2>2. QED
    BY <2>1 DEF ClosedIn
<1>2. QED
  BY <1>1 DEF ClosedIn

LEMMA GroupLeast ==
  ASSUME NEW L, NEW S \in ClosedIn(L), NEW p \in S
  PROVE  GroupIn(L, p) \subseteq S
BY DEF GroupIn

(* The groups of two pixels are the same or have nothing in common.         *)
LEMMA GroupSame ==
  ASSUME NEW L \in SUBSET Grid, NEW p \in L, NEW q \in GroupIn(L, p)
  PROVE  GroupIn(L, q) = GroupIn(L, p)
<1>1. q \in L /\ q \in GroupIn(L, q)
  BY GroupClosed DEF GroupIn
<1>2. GroupIn(L, q) \subseteq GroupIn(L, p)
  BY GroupClosed, GroupLeast
<1>3. p \in GroupIn(L, q)
  <2> SUFFICES ASSUME p \notin GroupIn(L, q) PROVE FALSE
    OBVIOUS
  <2>1. L \ GroupIn(L, q) \in ClosedIn(L)
    BY <1>1, GroupClosed, RestClosed
  <2>2. GroupIn(L, p) \subseteq L \ GroupIn(L, q)
    BY <2>1, GroupLeast
  <2>3. QED
    BY <1>1, <2>2
<1>4. GroupIn(L, p) \subseteq GroupIn(L, q)
  BY <1>1, <1>3, GroupClosed, GroupLeast
<1>5. QED
  BY <1>2, <1>4

LEMMA GroupsAre ==
  Groups = {C \in {GroupOf(p) : p \in labelled} : \E p, q \in C : p # q}
BY DEF Groups, GroupOf, GroupIn, ClosedIn

(* The group of p is the only one in Groups that contains p.                *)
LEMMA GroupUnique ==
  ASSUME labelled \in SUBSET Grid, NEW C \in Groups, NEW p \in C
  PROVE  p \in labelled /\ C = GroupOf(p)
<1>1. PICK r \in labelled : C = GroupIn(labelled, r)
  BY GroupsAre DEF GroupOf
<1>2. p \in labelled
  BY <1>1 DEF GroupIn
<1>3. QED
  BY <1>1, <1>2, GroupSame DEF GroupOf

-----------------------------------------------------------------------------
(* One rectangle per group.                                                 *)

(* Labels become 0 one by one; nothing else in the markers changes.         *)
MarkInv ==
  /\ pc = "label" => labelled = {} /\ segments = <<>> /\ x = 0 /\ y = 0
  /\ pc \in {"scan", "bfs"} => \A p \in Grid :
       /\ markers[p] > 1 => p \in labelled
       /\ markers[p] = 0 => p \in labelled
       /\ p \in labelled => markers[p] = 0 \/ markers[p] > 1

Seed == <<x, y>>
Processed == {p \in labelled : markers[p] = 0}

(* What the search has reached of the seed's group, and its corners.        *)
Member == {p \in GroupOf(Seed) : markers[p] = 0 \/ p = Seed}

Bounds(C) ==
  /\ \A p \in C : /\ minP[1] <= p[1] /\ p[1] <= maxP[1]
                  /\ minP[2] <= p[2] /\ p[2] <= maxP[2]
  /\ \E p \in C : p[1] = minP[1]
  /\ \E p \in C : p[1] = maxP[1]
  /\ \E p \in C : p[2] = minP[2]
  /\ \E p \in C : p[2] = maxP[2]

(* The seed's neighbours are reached although nothing marks the seed.       *)
SeedFrontier ==
  \A q \in Grid : Near(Seed, q) /\ q # Seed /\ markers[q] > 1 =>
    Waiting(Seed) \/ (Seed = cur /\ \E k \in d .. 8 : q = Neighbour(cur, k))

SearchInv ==
  pc = "bfs" =>
    /\ Seed \in labelled
    /\ \A k \in 1 .. Len(Q) : Q[k] \in Member
    /\ d <= 8 => cur \in Member
    /\ Bounds(Member)
    /\ SeedFrontier

(* The groups that have been searched, each with its rectangle; what the    *)
(* scan has passed is processed, or a lone pixel.                           *)
Found == {C \in Groups : C \subseteq Processed /\ (pc = "bfs" => Seed \notin C)}

Before(p) == p[2] < y \/ (p[2] = y /\ p[1] < x)

Boxed(S) ==
  \E group \in Bijection(1 .. Len(segments), S) :
    \A k \in 1 .. Len(segments) : IsBox(segments[k], group[k])

PassedInv ==
  \A p \in labelled : Before(p) => markers[p] = 0 \/ GroupOf(p) = {p}

FoundInv ==
  /\ pc \in {"scan", "bfs"} => Boxed(Found) /\ PassedInv
  /\ pc = "done" => Boxed(Groups)


LEMMA MarkStep ==
  ASSUME TypeOK, MarkInv, [Next]_vars
  PROVE  MarkInv'
<1>1. CASE Label
  <2>1. CASE pc' = "done"
    BY <2>1 DEF MarkInv
  <2>2. CASE pc' = "scan"
    <3>1. markers' \in Labellings /\ labelled' = {p \in Grid : markers'[p] > 1}
      BY <1>1, <2>2 DEF Label
    <3>2. PICK label \in [{r \in Grid : ~OnBorder(r)} -> 1 .. MaxLabel] :
            markers' = [r \in Grid |-> IF OnBorder(r) THEN -1 ELSE label[r]]
      BY <3>1 DEF Labellings
    <3>3. \A p \in Grid : markers'[p] # 0
      BY <3>2
    <3>4. QED
      BY <2>2, <3>1, <3>3 DEF MarkInv
  <2>3. QED
    BY <1>1, <2>1, <2>2 DEF Label
<1>2. CASE Enqueue
  <2> DEFINE r == Neighbour(cur, d)
  <2>1. /\ pc = "bfs" /\ UNCHANGED <<pc, labelled>>
        /\ r \in Grid /\ ~(markers[r] <= 1)
        /\ markers' = [markers EXCEPT ![r] = 0]
        /\ markers \in [Grid -> -1 .. MaxLabel]
    BY <1>2 DEF Enqueue, Ignored, Reached, TypeOK
  <2>2. r \in labelled
    <3>1. markers[r] > 1
      BY <2>1
    <3>2. QED
      BY <2>1, <3>1 DEF MarkInv
  <2> HIDE DEF r
  <2>3. QED
    BY <2>1, <2>2 DEF MarkInv
<1>3. CASE pc # "label" /\ pc' # "label" /\ UNCHANGED <<markers, labelled>>
           /\ (pc' \in {"scan", "bfs"} => pc \in {"scan", "bfs"})
  BY <1>3 DEF MarkInv
<1>4. CASE UNCHANGED vars
  BY <1>4 DEF vars, MarkInv
<1>5. QED
  BY <1>1, <1>2, <1>3, <1>4 DEF Next, Skip, Start, Pop, Pass, Finish, End, search

(* Between two searches what is processed is a union of groups.             *)
LEMMA ProcessedClosed ==
  ASSUME TypeOK, MarkInv, FrontierInv, pc = "scan"
  PROVE  Processed \in ClosedIn(labelled)
<1>1. labelled \subseteq Grid
  BY DEF TypeOK
<1>2. ASSUME NEW p \in Processed, NEW q \in labelled \ Processed
      PROVE  ~Near(p, q)
  <2>1. p \in Grid /\ markers[p] = 0 /\ q \in Grid /\ markers[q] > 1
    BY <1>1 DEF Processed, MarkInv
  <2>2. QED
    BY <2>1 DEF FrontierInv
<1>3. QED
  BY <1>2 DEF ClosedIn, Processed

(* A fresh seed is all that the search has reached of its group.            *)
LEMMA FreshSeed ==
  ASSUME TypeOK, MarkInv, FrontierInv, pc = "scan", y < Rows, markers[Seed] > 1
  PROVE  Seed \in labelled /\ Member = {Seed}
<1>1. labelled \in SUBSET Grid /\ Seed \in Grid
  <2>1. x \in 0 .. Cols - 1 /\ y \in 0 .. Rows - 1
    BY SizeAssumption DEF TypeOK
  <2>2. QED
    BY <2>1, GridPair DEF TypeOK, Seed
<1>2. Seed \in labelled /\ Seed \notin Processed
  BY <1>1 DEF MarkInv, Processed
<1>3. labelled \ Processed \in ClosedIn(labelled)
  BY <1>1, ProcessedClosed, RestClosed
<1>4. GroupOf(Seed) \subseteq labelled \ Processed
  BY <1>2, <1>3, GroupLeast DEF GroupOf
<1>5. Seed \in GroupOf(Seed)
  BY <1>1, <1>2, GroupClosed DEF GroupOf
<1>6. QED
  BY <1>2, <1>4, <1>5 DEF Member, Processed

(* The search stays within the seed's group.                                *)
LEMMA ReachedInGroup ==
  ASSUME TypeOK, MarkInv, SearchInv, Enqueue
  PROVE  /\ Neighbour(cur, d) \in GroupOf(Seed)
         /\ Member' = Member \cup {Neighbour(cur, d)}
<1> DEFINE r == Neighbour(cur, d)
<1>1. /\ pc = "bfs" /\ UNCHANGED <<x, y, labelled>>
      /\ r \in Grid /\ ~(markers[r] <= 1)
      /\ markers' = [markers EXCEPT ![r] = 0]
      /\ markers \in [Grid -> -1 .. MaxLabel]
      /\ labelled \in SUBSET Grid /\ cur \in Grid /\ d \in 1 .. 8
  <2>1. d \in 1 .. 8
    BY DirsFacts DEF Enqueue, TypeOK
  <2>2. QED
    BY <2>1 DEF Enqueue, Ignored, Reached, TypeOK
<1>2. r \in labelled
  <2>1. markers[r] > 1
    BY <1>1
  <2>2. QED
    BY <1>1, <2>1 DEF MarkInv
<1>3. cur \in GroupOf(Seed) /\ Seed \in labelled
  BY <1>1 DEF SearchInv, Member
<1>4. Near(cur, r)
  BY <1>1, NeighbourNear
<1>5. GroupOf(Seed) \in ClosedIn(labelled)
  BY <1>1, <1>3, GroupClosed DEF GroupOf
<1> HIDE DEF r
<1>6. r \in GroupOf(Seed)
  BY <1>2, <1>3, <1>4, <1>5 DEF ClosedIn
<1>7. GroupOf(Seed)' = GroupOf(Seed) /\ Seed' = Seed
  BY <1>1 DEF GroupOf, Seed
<1>8. \A p \in GroupOf(Seed) : p \in Grid
  BY <1>1, <1>5 DEF ClosedIn
<1>9. \A p \in GroupOf(Seed) : markers'[p] = 0 <=> markers[p] = 0 \/ p = r
  BY <1>1, <1>8
<1>10. Member' = {p \in GroupOf(Seed) : markers'[p] = 0 \/ p = Seed}
  BY <1>7 DEF Member
<1>11. Member' = Member \cup {r}
  BY <1>6, <1>9, <1>10 DEF Member
<1>12. QED
  BY <1>6, <1>11 DEF r

(* A neighbour of the seed that is still labelled is yet to be looked at.   *)
LEMMA SeedFrontierStep ==
  ASSUME TypeOK, QueueInv, SearchInv, Pop \/ Pass \/ Enqueue
  PROVE  SeedFrontier'
<1>0. /\ pc = "bfs" /\ UNCHANGED <<x, y>> /\ Seed' = Seed /\ Seed \in Grid
      /\ markers \in [Grid -> -1 .. MaxLabel]
  <2>1. pc = "bfs" /\ UNCHANGED <<x, y>>
    BY DEF Pop, Pass, Enqueue
  <2>2. QED
    BY <2>1 DEF SearchInv, Seed, TypeOK
<1>s. PICK s \in Grid : s = Seed
  BY <1>0
<1> SUFFICES ASSUME NEW q \in Grid, Near(s, q), q # s, markers'[q] > 1
             PROVE  Waiting(s)' \/ (s = cur' /\ \E k \in d' .. 8 : q = Neighbour(cur', k))
  BY <1>0, <1>s DEF SeedFrontier, Waiting
<1> USE DirsFacts
<1>1. markers[q] > 1
  <2>1. CASE Pop \/ Pass
    BY <2>1 DEF Pop, Pass
  <2>2. CASE Enqueue
    <3>1. /\ Neighbour(cur, d) \in Grid
          /\ markers' = [markers EXCEPT ![Neighbour(cur, d)] = 0]
      BY <2>2 DEF Enqueue, Reached, Ignored
    <3>2. QED
      BY <1>0, <3>1
  <2>3. QED
    BY <2>1, <2>2
<1>2. Waiting(s) \/ (s = cur /\ \E k \in d .. 8 : q = Neighbour(cur, k))
  BY <1>0, <1>1, <1>s DEF SearchInv, SeedFrontier
<1>3. CASE Pop
  <2>1. /\ Q \in Seq(Grid) /\ Q # <<>> /\ d > 8 /\ d \in Int
        /\ cur' = Head(Q) /\ Q' = Tail(Q) /\ d' = 1
    BY <1>3 DEF Pop, TypeOK
  <2>0. d .. 8 = {}
    BY <2>1
  <2>2. PICK k \in 1 .. Len(Q) : Q[k] = s
    BY <1>2, <2>0 DEF Waiting
  <2>3. CASE k = 1
    <3>1. cur' = s
      BY <2>1, <2>2, <2>3
    <3>2. \E m \in 1 .. 8 : q = Neighbour(s, m)
      BY EveryNeighbour
    <3>3. QED
      BY <2>1, <3>1, <3>2
  <2>4. CASE k # 1
    <3>1. k - 1 \in 1 .. Len(Q') /\ Q'[k - 1] = s
      BY <2>1, <2>2, <2>4
    <3>2. QED
      BY <3>1 DEF Waiting
  <2>5. QED
    BY <2>3, <2>4
<1>4. CASE Pass
  <2>1. /\ UNCHANGED <<Q, cur>> /\ d' = d + 1 /\ d \in 1 .. 9
        /\ Ignored(Neighbour(cur, d))
    BY <1>4 DEF Pass, TypeOK
  <2>2. q # Neighbour(cur, d)
    BY <1>0, <1>1, <2>1 DEF Ignored
  <2>3. ASSUME NEW k \in d .. 8, q = Neighbour(cur, k)
        PROVE  k \in d' .. 8
    BY <2>1, <2>2, <2>3
  <2>4. QED
    BY <1>2, <2>1, <2>3 DEF Waiting
<1>5. CASE Enqueue
  <2> DEFINE r == Neighbour(cur, d)
  <2>1. /\ UNCHANGED cur /\ d' = d + 1 /\ d \in 1 .. 9
        /\ r \in Grid /\ markers' = [markers EXCEPT ![r] = 0]
        /\ Q' = Append(Q, r) /\ Q \in Seq(Grid)
    BY <1>5 DEF Enqueue, Ignored, Reached, TypeOK
  <2>2. q # r
    BY <1>0, <2>1
  <2>3. ASSUME NEW k \in d .. 8, q = Neighbour(cur, k)
        PROVE  k \in d' .. 8
    <3>1. k # d /\ d' = d + 1 /\ d \in 1 .. 9
      BY <2>1, <2>2, <2>3
    <3>2. QED
      BY <3>1
  <2> HIDE DEF r
  <2>4. ASSUME NEW k \in 1 .. Len(Q), Q[k] = s
        PROVE  k \in 1 .. Len(Q') /\ Q'[k] = s
    BY <2>1, <2>4
  <2>5. QED
    BY <1>2, <2>1, <2>3, <2>4 DEF Waiting
<1>6. QED
  BY <1>3, <1>4, <1>5

(* The corners follow what the search reaches.                              *)
LEMMA BoundsStep ==
  ASSUME TypeOK, NEW C \in SUBSET Grid, NEW r \in Grid, Bounds(C),
         minP' = <<Lesser(minP[1], r[1]), Lesser(minP[2], r[2])>>,
         maxP' = <<Greater(maxP[1], r[1]), Greater(maxP[2], r[2])>>
  PROVE  Bounds(C \cup {r})'
<1>1. /\ minP[1] \in Int /\ minP[2] \in Int /\ maxP[1] \in Int /\ maxP[2] \in Int
      /\ \A p \in Grid : p[1] \in Int /\ p[2] \in Int
  BY GridElement DEF TypeOK
<1>2. minP'[1] = Lesser(minP[1], r[1]) /\ minP'[2] = Lesser(minP[2], r[2])
  OBVIOUS
<1>3. maxP'[1] = Greater(maxP[1], r[1]) /\ maxP'[2] = Greater(maxP[2], r[2])
  OBVIOUS
<1>4. ASSUME NEW p \in C \cup {r}
      PROVE  /\ minP'[1] <= p[1] /\ p[1] <= maxP'[1]
             /\ minP'[2] <= p[2] /\ p[2] <= maxP'[2]
  BY <1>1, <1>2, <1>3 DEF Bounds, Lesser, Greater
<1>5. (\E p \in C \cup {r} : p[1] = minP'[1]) /\ (\E p \in C \cup {r} : p[1] = maxP'[1])
  BY <1>1, <1>2, <1>3 DEF Bounds, Lesser, Greater
<1>6. (\E p \in C \cup {r} : p[2] = minP'[2]) /\ (\E p \in C \cup {r} : p[2] = maxP'[2])
  BY <1>1, <1>2, <1>3 DEF Bounds, Lesser, Greater
<1>7. QED
  BY <1>4, <1>5, <1>6 DEF Bounds

LEMMA SearchStep ==
  ASSUME TypeOK, QueueInv, FrontierInv, MarkInv, SearchInv, [Next]_vars
  PROVE  SearchInv'
<1>1. CASE Start
  <2>1. /\ pc = "scan" /\ y < Rows /\ markers[Seed] > 1 /\ Seed' = Seed
        /\ minP' = Seed /\ maxP' = Seed /\ Q' = <<Seed>>
        /\ UNCHANGED <<markers, labelled, x, y, cur, d>>
    BY <1>1 DEF Start, Seed
  <2>2. Seed \in labelled /\ Member = {Seed}
    BY <2>1, FreshSeed
  <2>3. Member' = {Seed}
    <3>1. GroupOf(Seed)' = GroupOf(Seed)
      BY <2>1 DEF GroupOf
    <3>2. QED
      BY <2>1, <2>2, <3>1 DEF Member
  <2>4. Seed \in Grid /\ Seed[1] \in Int /\ Seed[2] \in Int
    BY <2>2, GridElement DEF TypeOK
  <2>5. Bounds(Member)'
    BY <2>1, <2>3, <2>4 DEF Bounds
  <2>6. d > 8 /\ d \in Int
    BY <2>1, DirsFacts DEF QueueInv, TypeOK
  <2>7. Waiting(Seed)'
    BY <2>1 DEF Waiting
  <2>8. QED
    BY <2>1, <2>2, <2>3, <2>5, <2>6, <2>7 DEF SearchInv, SeedFrontier
<1>2. CASE Pop
  <2>1. /\ pc = "bfs" /\ UNCHANGED <<x, y, markers, labelled, minP, maxP>>
        /\ Q \in Seq(Grid) /\ Q # <<>>
        /\ cur' = Head(Q) /\ Q' = Tail(Q)
    BY <1>2 DEF Pop, TypeOK
  <2>2. Member' = Member /\ Seed' = Seed
    BY <2>1 DEF Member, GroupOf, Seed
  <2>3. cur' \in Member /\ \A k \in 1 .. Len(Q') : Q'[k] \in Member
    <3>1. \A k \in 1 .. Len(Q) : Q[k] \in Member
      BY <2>1 DEF SearchInv
    <3>2. cur' = Q[1] /\ 1 \in 1 .. Len(Q)
      BY <2>1
    <3>3. \A k \in 1 .. Len(Q') : k + 1 \in 1 .. Len(Q) /\ Q'[k] = Q[k + 1]
      BY <2>1
    <3>4. QED
      BY <3>1, <3>2, <3>3
  <2>4. Bounds(Member)'
    BY <2>1, <2>2 DEF SearchInv, Bounds
  <2>5. SeedFrontier'
    BY <1>2, SeedFrontierStep
  <2>6. QED
    BY <2>1, <2>2, <2>3, <2>4, <2>5 DEF SearchInv
<1>3. CASE Pass
  <2>1. /\ pc = "bfs" /\ UNCHANGED <<x, y, markers, labelled, minP, maxP, Q, cur>>
        /\ d <= 8 /\ d' = d + 1
    BY <1>3, DirsFacts DEF Pass
  <2>2. Member' = Member /\ Seed' = Seed
    BY <2>1 DEF Member, GroupOf, Seed
  <2>3. Bounds(Member)'
    BY <2>1, <2>2 DEF SearchInv, Bounds
  <2>4. SeedFrontier'
    BY <1>3, SeedFrontierStep
  <2>5. QED
    BY <2>1, <2>2, <2>3, <2>4 DEF SearchInv
<1>4. CASE Enqueue
  <2> DEFINE r == Neighbour(cur, d)
  <2>1. /\ pc = "bfs" /\ UNCHANGED <<x, y, labelled, cur>> /\ d <= 8 /\ r \in Grid
        /\ minP' = <<Lesser(minP[1], r[1]), Lesser(minP[2], r[2])>>
        /\ maxP' = <<Greater(maxP[1], r[1]), Greater(maxP[2], r[2])>>
        /\ Q' = Append(Q, r) /\ Q \in Seq(Grid)
    BY <1>4, DirsFacts DEF Enqueue, Ignored, TypeOK
  <2>2. Member' = Member \cup {r} /\ Seed' = Seed
    BY <1>4, <2>1, ReachedInGroup DEF Seed
  <2>3. Member \subseteq Grid
    BY DEF Member, GroupOf, GroupIn, TypeOK
  <2> HIDE DEF r
  <2>4. \A k \in 1 .. Len(Q') : Q'[k] \in Member'
    <3>1. \A k \in 1 .. Len(Q) : Q[k] \in Member
      BY <2>1 DEF SearchInv
    <3>2. Q' = Append(Q, r) /\ Q \in Seq(Grid) /\ r \in Grid
      BY <2>1
    <3>3. /\ Len(Q') = Len(Q) + 1 /\ Len(Q) \in Nat /\ Q'[Len(Q) + 1] = r
          /\ \A k \in 1 .. Len(Q) : Q'[k] = Q[k]
      BY <3>2
    <3>4. \A k \in 1 .. Len(Q) + 1 : Q'[k] \in Member \cup {r}
      <4> SUFFICES ASSUME NEW k \in 1 .. Len(Q) + 1
                   PROVE  Q'[k] \in Member \cup {r}
        OBVIOUS
      <4>1. CASE k = Len(Q) + 1
        BY <3>3, <4>1
      <4>2. CASE k \in 1 .. Len(Q)
        BY <3>1, <3>3, <4>2
      <4>3. QED
        BY <3>3, <4>1, <4>2
    <3>5. QED
      BY <2>2, <3>3, <3>4
  <2>5. Bounds(Member)'
    <3>1. Bounds(Member)
      BY <2>1 DEF SearchInv
    <3>2. PICK C \in SUBSET Grid, s \in Grid : C = Member /\ s = r
      BY <2>1, <2>3
    <3>3. Bounds(C \cup {s})'
      <4>1. Bounds(C)
        BY <3>1, <3>2 DEF Bounds
      <4>2. /\ minP' = <<Lesser(minP[1], s[1]), Lesser(minP[2], s[2])>>
            /\ maxP' = <<Greater(maxP[1], s[1]), Greater(maxP[2], s[2])>>
        BY <2>1, <3>2
      <4>3. QED
        BY <4>1, <4>2, BoundsStep
    <3>4. Member' = C \cup {s}
      BY <2>2, <3>2
    <3>5. QED
      BY <3>3, <3>4 DEF Bounds
  <2>6. SeedFrontier'
    BY <1>4, SeedFrontierStep
  <2>7. QED
    BY <2>1, <2>2, <2>4, <2>5, <2>6 DEF SearchInv
<1>5. CASE pc' # "bfs"
  BY <1>5 DEF SearchInv
<1>6. CASE UNCHANGED vars
  BY <1>6 DEF vars, search, SearchInv, SeedFrontier, Seed, Member, GroupOf, Bounds, Waiting
<1>7. QED
  BY <1>1, <1>2, <1>3, <1>4, <1>5, <1>6 DEF Next, Label, Skip, Finish, End

(* When the queue is empty, the whole group has been reached.               *)
LEMMA SearchComplete ==
  ASSUME TypeOK, QueueInv, FrontierInv, MarkInv, SearchInv, Finish
  PROVE  /\ Member = GroupOf(Seed)
         /\ Member # {Seed} => Seed \in Processed
<1>1. /\ pc = "bfs" /\ Q = <<>> /\ d > 8 /\ d \in Int /\ d .. 8 = {}
      /\ labelled \in SUBSET Grid /\ Seed \in labelled
  <2>1. pc = "bfs" /\ Q = <<>> /\ d > 8 /\ d \in Int
    <3>1. pc = "bfs" /\ Q = <<>> /\ d > Len(Dirs)
      BY DEF Finish
    <3>2. d \in 1 .. Len(Dirs) + 1
      BY DEF TypeOK
    <3>3. QED
      BY <3>1, <3>2, DirsFacts
  <2>2. QED
    BY <2>1 DEF SearchInv, TypeOK
<1>2. \A p : ~Waiting(p)
  BY <1>1 DEF Waiting
<1>3. Seed \in GroupOf(Seed) /\ GroupOf(Seed) \in ClosedIn(labelled)
  BY <1>1, GroupClosed DEF GroupOf
<1>4. \A p, q \in Grid : Near(p, q) /\ markers[p] = 0 => ~(markers[q] > 1)
  BY <1>1, <1>2 DEF FrontierInv
<1>5. \A q \in Grid : Near(Seed, q) /\ q # Seed => ~(markers[q] > 1)
  BY <1>1, <1>2 DEF SearchInv, SeedFrontier
<1>6. \A q \in labelled : q \in Grid /\ (markers[q] = 0 \/ markers[q] > 1)
  BY <1>1 DEF MarkInv
<1>7. Member \subseteq labelled /\ Seed \in Member /\ Member \subseteq GroupOf(Seed)
  BY <1>3 DEF Member, ClosedIn
<1>8. ASSUME NEW p \in Member, NEW q \in labelled \ Member, Near(p, q)
      PROVE  FALSE
  <2>1. q \in GroupOf(Seed) /\ q # Seed
    BY <1>3, <1>7, <1>8 DEF ClosedIn
  <2>2. markers[q] > 1
    BY <1>6, <2>1 DEF Member
  <2>3. QED
    BY <1>4, <1>5, <1>6, <1>7, <1>8, <2>1, <2>2 DEF Member
<1>9. Member \in ClosedIn(labelled)
  BY <1>7, <1>8 DEF ClosedIn
<1>10. Member = GroupOf(Seed)
  BY <1>7, <1>9, GroupLeast DEF GroupOf
<1>11. ASSUME Member # {Seed}, Seed \notin Processed
       PROVE  FALSE
  <2> DEFINE others == Member \ {Seed}
  <2>1. markers[Seed] > 1
    BY <1>1, <1>6, <1>11 DEF Processed
  <2>2. PICK b \in others : TRUE
    BY <1>7, <1>11
  <2>3. ASSUME NEW p \in others, NEW q \in labelled \ others, Near(p, q)
        PROVE  FALSE
    <3>1. q # Seed
      BY <1>1, <1>4, <1>6, <1>7, <2>1, <2>3 DEF Member
    <3>2. QED
      BY <1>8, <2>3, <3>1
  <2>4. others \in ClosedIn(labelled)
    BY <1>7, <2>3 DEF ClosedIn
  <2>5. GroupIn(labelled, b) \subseteq others
    BY <2>2, <2>4, GroupLeast
  <2>6. GroupIn(labelled, b) = GroupOf(Seed)
    BY <1>1, <1>7, <2>2, GroupSame DEF GroupOf
  <2>7. QED
    BY <1>3, <2>5, <2>6
<1>12. QED
  BY <1>10, <1>11

LEMMA NothingToBox == [k \in 1 .. 0 |-> 0] \in Bijection(1 .. 0, {})
BY DEF Bijection, Injection, Surjection, IsInjective

LEMMA BoxedMore ==
  ASSUME NEW S, NEW C, C \notin S, NEW r \in Rects, IsBox(r, C),
         segments \in Seq(Rects), segments' = Append(segments, r), Boxed(S)
  PROVE  Boxed(S \cup {C})'
<1> DEFINE n == Len(segments)
<1>1. /\ n \in Nat /\ Len(segments') = n + 1 /\ segments'[n + 1] = r
      /\ \A k \in 1 .. n : segments'[k] = segments[k]
  OBVIOUS
<1>2. PICK f \in Bijection(1 .. n, S) : \A k \in 1 .. n : IsBox(segments[k], f[k])
  BY DEF Boxed
<1> HIDE DEF n
<1>3. /\ f \in [1 .. n -> S]
      /\ \A j, k \in 1 .. n : f[j] = f[k] => j = k
      /\ \A c \in S : \E k \in 1 .. n : f[k] = c
  BY <1>2 DEF Bijection, Injection, Surjection, IsInjective
<1> DEFINE g == [k \in 1 .. n + 1 |-> IF k = n + 1 THEN C ELSE f[k]]
<1>4. /\ g[n + 1] = C /\ \A k \in 1 .. n : g[k] = f[k] /\ g[k] \in S
      /\ g \in [1 .. n + 1 -> S \cup {C}]
  BY <1>1, <1>3
<1> HIDE DEF g
<1>5. \A j, k \in 1 .. n + 1 : g[j] = g[k] => j = k
  BY <1>1, <1>3, <1>4
<1>6. \A c \in S \cup {C} : \E k \in 1 .. n + 1 : g[k] = c
  BY <1>1, <1>3, <1>4
<1>7. g \in Bijection(1 .. n + 1, S \cup {C})
  BY <1>4, <1>5, <1>6 DEF Bijection, Injection, Surjection, IsInjective
<1>8. \A k \in 1 .. n + 1 : IsBox(segments'[k], g[k])
  BY <1>1, <1>2, <1>4
<1>9. QED
  BY <1>1, <1>7, <1>8 DEF Boxed

(* What the scan has passed after a step: what it had, and its pixel.       *)
LEMMA AdvanceBefore ==
  ASSUME TypeOK, y < Rows, Advance, NEW p \in Grid, Before(p)'
  PROVE  Before(p) \/ p = Seed
<1>1. /\ p = <<p[1], p[2]>> /\ p[1] \in 0 .. Cols - 1 /\ p[2] \in 0 .. Rows - 1
      /\ x \in 0 .. Cols - 1 /\ y \in 0 .. Rows
  BY GridElement DEF TypeOK
<1>2. p[2] < y' \/ (p[2] = y' /\ p[1] < x')
  BY DEF Before
<1>3. Before(p) \/ (p[1] = x /\ p[2] = y)
  BY <1>1, <1>2, SizeAssumption DEF Advance, Before
<1>4. QED
  BY <1>1, <1>3 DEF Seed

LEMMA BoxOfBounds ==
  ASSUME TypeOK, NEW C \in SUBSET Grid, Bounds(C)
  PROVE  RectFrom(minP, maxP) \in Rects /\ IsBox(RectFrom(minP, maxP), C)
<1>1. /\ minP[1] \in Int /\ minP[2] \in Int /\ maxP[1] \in Int /\ maxP[2] \in Int
      /\ \A p \in C : p[1] \in Int /\ p[2] \in Int
  BY GridElement DEF TypeOK
<1> DEFINE r == RectFrom(minP, maxP)
<1>2. /\ r \in Rects /\ r.x = minP[1] /\ r.y = minP[2]
      /\ r.x + r.width = maxP[1] /\ r.y + r.height = maxP[2]
  BY <1>1 DEF RectFrom, Rects
<1> HIDE DEF r
<1>3. IsBox(r, C)
  BY <1>1, <1>2 DEF IsBox, Bounds
<1>4. QED
  BY <1>2, <1>3 DEF r

(* Groups depend on the labelled pixels only.                               *)
LEMMA SameGroups ==
  ASSUME UNCHANGED labelled
  PROVE  Groups' = Groups /\ \A p : GroupOf(p)' = GroupOf(p)
<1>1. \A p : GroupOf(p)' = GroupOf(p)
  BY DEF GroupOf
<1>2. Groups' = Groups
  BY DEF Groups
<1>3. QED
  BY <1>1, <1>2

LEMMA LabelFound ==
  ASSUME TypeOK, MarkInv, Label, TypeOK'
  PROVE  FoundInv'
<1>1. /\ labelled = {} /\ segments' = <<>> /\ x' = 0 /\ y' = 0
  BY DEF Label, MarkInv
<1>2. Boxed({})'
  <2>1. Len(segments') = 0
    BY <1>1
  <2>2. QED
    BY <2>1, NothingToBox DEF Boxed
<1>3. CASE pc' = "done"
  <2>1. labelled' = {}
    BY <1>1, <1>3 DEF Label
  <2>2. Groups' = {}
    BY <2>1 DEF Groups
  <2>3. QED
    BY <1>2, <1>3, <2>2 DEF FoundInv, Boxed
<1>4. CASE pc' = "scan"
  <2>1. markers' \in Labellings /\ labelled' = {p \in Grid : markers'[p] > 1}
    BY <1>4 DEF Label
  <2>2. \A p \in labelled' : markers'[p] # 0 /\ p[1] \in Nat /\ p[2] \in Nat
    BY <2>1, GridElement
  <2>3. Found' = {}
    <3>1. Processed' = {}
      BY <2>2 DEF Processed
    <3>2. \A C \in Groups' : C # {}
      BY DEF Groups
    <3>3. QED
      BY <3>1, <3>2 DEF Found
  <2>4. PassedInv'
    BY <1>1, <2>2 DEF PassedInv, Before
  <2>5. QED
    BY <1>2, <1>4, <2>3, <2>4 DEF FoundInv, Boxed
<1>5. QED
  BY <1>3, <1>4 DEF Label

LEMMA SkipFound ==
  ASSUME TypeOK, MarkInv, FoundInv, Skip
  PROVE  FoundInv'
<1>1. /\ pc = "scan" /\ pc' = "scan" /\ y < Rows /\ markers[Seed] <= 1 /\ Advance
      /\ UNCHANGED <<markers, segments, labelled>>
  BY DEF Skip, Seed
<1>2. Groups' = Groups /\ \A p : GroupOf(p)' = GroupOf(p)
  BY <1>1, SameGroups
<1>3. Found' = Found
  BY <1>1, <1>2 DEF Found, Processed
<1>4. Boxed(Found)'
  BY <1>1, <1>3 DEF FoundInv, Boxed
<1>5. ASSUME NEW p \in labelled, Before(p)'
      PROVE  markers[p] = 0 \/ GroupOf(p) = {p}
  <2>1. p \in Grid /\ markers[p] \in Int
    BY DEF TypeOK
  <2>2. CASE Before(p)
    BY <1>1, <2>2 DEF FoundInv, PassedInv
  <2>3. CASE p = Seed
    BY <1>1, <2>1, <2>3 DEF MarkInv
  <2>4. QED
    BY <1>1, <1>5, <2>1, <2>2, <2>3, AdvanceBefore
<1>6. PassedInv'
  BY <1>1, <1>2, <1>5 DEF PassedInv
<1>7. QED
  BY <1>1, <1>4, <1>6 DEF FoundInv

LEMMA StartFound ==
  ASSUME TypeOK, MarkInv, FoundInv, Start
  PROVE  FoundInv'
<1>1. /\ pc = "scan" /\ pc' = "bfs" /\ markers[Seed] > 1 /\ Seed' = Seed
      /\ UNCHANGED <<markers, segments, labelled, x, y>>
  BY DEF Start, Seed
<1>2. Groups' = Groups /\ \A p : GroupOf(p)' = GroupOf(p)
  BY <1>1, SameGroups
<1>3. Found' = Found
  <2>1. Processed' = Processed /\ Seed \notin Processed
    BY <1>1 DEF Processed
  <2>2. QED
    BY <1>1, <1>2, <2>1 DEF Found
<1>4. Boxed(Found)'
  BY <1>1, <1>3 DEF FoundInv, Boxed
<1>5. PassedInv'
  BY <1>1, <1>2 DEF FoundInv, PassedInv, Before
<1>6. QED
  BY <1>1, <1>4, <1>5 DEF FoundInv

LEMMA EnqueueFound ==
  ASSUME TypeOK, MarkInv, SearchInv, FoundInv, Enqueue
  PROVE  FoundInv'
<1> DEFINE r == Neighbour(cur, d)
<1>1. /\ pc = "bfs" /\ pc' = "bfs" /\ Seed' = Seed /\ r \in Grid
      /\ markers' = [markers EXCEPT ![r] = 0]
      /\ UNCHANGED <<segments, labelled, x, y>>
  BY DEF Enqueue, Ignored, Reached, Seed
<1>2. labelled \in SUBSET Grid /\ markers \in [Grid -> -1 .. MaxLabel]
  BY DEF TypeOK
<1>3. Groups' = Groups /\ \A p : GroupOf(p)' = GroupOf(p)
  BY <1>1, SameGroups
<1>4. r \in GroupOf(Seed) /\ Seed \in labelled
  BY <1>1, ReachedInGroup DEF SearchInv
<1> HIDE DEF r
<1>5. ASSUME NEW C \in Groups, r \in C
      PROVE  Seed \in C
  <2>1. C = GroupIn(labelled, r)
    BY <1>2, <1>5, GroupUnique DEF GroupOf
  <2>2. GroupIn(labelled, r) = GroupIn(labelled, Seed)
    BY <1>2, <1>4, GroupSame DEF GroupOf
  <2>3. QED
    BY <1>2, <1>4, <2>1, <2>2, GroupClosed
<1>6. \A p \in labelled : markers'[p] = 0 <=> markers[p] = 0 \/ p = r
  BY <1>1, <1>2
<1>7. Found' = Found
  <2>1. Processed' = {p \in labelled : markers[p] = 0 \/ p = r}
    BY <1>1, <1>6 DEF Processed
  <2>2. \A C \in Groups : Seed \notin C => (C \subseteq Processed' <=> C \subseteq Processed)
    BY <1>5, <2>1 DEF Processed
  <2>3. QED
    BY <1>1, <1>3, <2>2 DEF Found
<1>8. Boxed(Found)'
  BY <1>1, <1>7 DEF FoundInv, Boxed
<1>9. PassedInv'
  BY <1>1, <1>3, <1>6 DEF FoundInv, PassedInv, Before
<1>10. QED
  BY <1>1, <1>8, <1>9 DEF FoundInv

LEMMA FinishFound ==
  ASSUME TypeOK, QueueInv, FrontierInv, ScanInv, MarkInv, SearchInv, FoundInv, Finish
  PROVE  FoundInv'
<1>1. /\ pc = "bfs" /\ pc' = "scan" /\ Advance /\ y < Rows
      /\ UNCHANGED <<markers, labelled>>
      /\ labelled \in SUBSET Grid
  BY DEF Finish, ScanInv, TypeOK
<1>2. Groups' = Groups /\ \A p : GroupOf(p)' = GroupOf(p)
  BY <1>1, SameGroups
<1> DEFINE G == GroupOf(Seed)
<1>3. /\ Member = G /\ (Member # {Seed} => Seed \in Processed)
      /\ Seed \in labelled /\ Seed \in G /\ G \subseteq labelled
  <2>1. Seed \in labelled
    BY <1>1 DEF SearchInv
  <2>2. QED
    BY <1>1, <2>1, SearchComplete, GroupClosed DEF GroupOf, ClosedIn
<1>4. \A C \in Groups : Seed \in C => C = G
  BY <1>1, GroupUnique
<1>5. Processed' = Processed
  BY <1>1 DEF Processed
<1> HIDE DEF G
<1>6. Found' = {C \in Groups : C \subseteq Processed}
  BY <1>1, <1>2, <1>5 DEF Found
<1>7. PassedInv'
  <2>1. ASSUME NEW p \in labelled, Before(p)'
        PROVE  markers[p] = 0 \/ GroupOf(p) = {p}
    <3>1. CASE Before(p)
      BY <1>1, <3>1 DEF FoundInv, PassedInv
    <3>2. CASE p = Seed
      <4>1. Member = {Seed} \/ Seed \in Processed
        BY <1>3
      <4>2. QED
        BY <1>3, <3>2, <4>1 DEF Processed, G
    <3>3. QED
      BY <1>1, <2>1, <3>1, <3>2, AdvanceBefore
  <2>2. QED
    BY <1>1, <1>2, <2>1 DEF PassedInv
<1>8. Bounds(G)
  BY <1>1, <1>3 DEF SearchInv
<1>9. Boxed(Found)'
  <2>1. CASE minP = Seed /\ maxP = Seed
    <3>1. segments' = segments
      BY <2>1 DEF Finish, Seed
    <3>2. G = {Seed}
      <4>1. ASSUME NEW p \in G PROVE p = Seed
        <5>1. p \in Grid /\ Seed \in Grid
          BY <1>1, <1>3
        <5>2. p[1] \in Int /\ p[2] \in Int /\ Seed[1] \in Int /\ Seed[2] \in Int
              /\ p = <<p[1], p[2]>> /\ Seed = <<Seed[1], Seed[2]>>
          BY <5>1, GridElement
        <5>3. Seed[1] <= p[1] /\ p[1] <= Seed[1] /\ Seed[2] <= p[2] /\ p[2] <= Seed[2]
          BY <1>8, <2>1 DEF Bounds
        <5>4. p[1] = Seed[1] /\ p[2] = Seed[2]
          BY <5>2, <5>3
        <5>5. QED
          BY <5>2, <5>4, Zenon
      <4>2. QED
        BY <1>3, <4>1
    <3>3. \A C \in Groups : Seed \notin C
      BY <1>4, <3>2, GroupsAre
    <3>4. Found' = Found
      BY <1>1, <1>6, <3>3 DEF Found
    <3>5. QED
      BY <1>1, <3>1, <3>4 DEF FoundInv, Boxed
  <2>2. CASE ~(minP = Seed /\ maxP = Seed)
    <3>1. segments' = Append(segments, RectFrom(minP, maxP))
      BY <2>2 DEF Finish, Seed
    <3>2. RectFrom(minP, maxP) \in Rects /\ IsBox(RectFrom(minP, maxP), G)
      BY <1>1, <1>3, <1>8, BoxOfBounds
    <3>3. G # {Seed}
      <4> SUFFICES ASSUME G = {Seed} PROVE FALSE
        OBVIOUS
      <4>1. minP[1] = Seed[1] /\ minP[2] = Seed[2] /\ maxP[1] = Seed[1] /\ maxP[2] = Seed[2]
        BY <1>8 DEF Bounds
      <4>2. minP = <<minP[1], minP[2]>> /\ maxP = <<maxP[1], maxP[2]>>
            /\ Seed = <<Seed[1], Seed[2]>>
        BY <1>1, <1>3, GridElement DEF TypeOK
      <4>3. minP = Seed /\ maxP = Seed
        BY <4>1, <4>2, Zenon
      <4>4. QED
        BY <2>2, <4>3
    <3>4. G \in Groups
      <4>1. \E p, q \in G : p # q
        BY <1>3, <3>3
      <4>2. QED
        BY <1>3, <4>1, GroupsAre DEF G
    <3>5. G \subseteq Processed
      <4>1. \A p \in G : p # Seed => markers[p] = 0
        BY <1>3 DEF Member
      <4>2. QED
        BY <1>3, <3>3, <4>1 DEF Processed
    <3>6. Found' = Found \cup {G} /\ G \notin Found
      BY <1>1, <1>3, <1>4, <1>6, <3>4, <3>5 DEF Found
    <3>7. Boxed(Found) /\ segments \in Seq(Rects)
      BY <1>1 DEF FoundInv, TypeOK
    <3>8. \E S, C, r : S = Found /\ C = G /\ r = RectFrom(minP, maxP)
      OBVIOUS
    <3> PICK S, C, r : S = Found /\ C = G /\ r = RectFrom(minP, maxP)
      BY <3>8
    <3>9. /\ Boxed(S) /\ C \notin S /\ IsBox(r, C) /\ r \in Rects
          /\ segments' = Append(segments, r)
      BY <3>1, <3>2, <3>6, <3>7
    <3>10. Boxed(S \cup {C})'
      BY <3>7, <3>9, BoxedMore
    <3>11. Found' = S \cup {C}
      BY <3>6
    <3>12. QED
      BY <3>10, <3>11 DEF Boxed
  <2>3. QED
    BY <2>1, <2>2
<1>10. QED
  BY <1>1, <1>7, <1>9 DEF FoundInv

(* At the end nothing but lone pixels is left.                              *)
LEMMA EndFound ==
  ASSUME TypeOK, MarkInv, FoundInv, End
  PROVE  FoundInv'
<1>1. /\ pc = "scan" /\ pc' = "done" /\ y = Rows
      /\ UNCHANGED <<segments, labelled>> /\ labelled \in SUBSET Grid
  BY DEF End, TypeOK
<1>2. ASSUME NEW p \in labelled PROVE Before(p)
  <2>1. p[2] \in 0 .. Rows - 1
    BY <1>1, GridElement
  <2>2. QED
    BY <1>1, <2>1, SizeAssumption DEF Before
<1>3. ASSUME NEW C \in Groups
      PROVE  C \subseteq Processed
  <2>1. ASSUME NEW p \in C PROVE p \in Processed
    <3>1. p \in labelled /\ C = GroupOf(p)
      BY <1>1, GroupUnique
    <3>2. \E a, b \in C : a # b
      BY GroupsAre
    <3>3. markers[p] = 0 \/ GroupOf(p) = {p}
      BY <1>1, <1>2, <3>1 DEF FoundInv, PassedInv
    <3>4. QED
      BY <3>1, <3>2, <3>3 DEF Processed
  <2>2. QED
    BY <2>1
<1>4. Found = Groups
  BY <1>1, <1>3 DEF Found
<1>5. Boxed(Groups)
  BY <1>1, <1>4 DEF FoundInv
<1>6. Groups' = Groups
  BY <1>1, SameGroups
<1>7. QED
  BY <1>1, <1>5, <1>6 DEF FoundInv, Boxed

LEMMA FoundStep ==
  ASSUME TypeOK, TypeOK', QueueInv, FrontierInv, ScanInv, MarkInv, SearchInv, FoundInv,
         [Next]_vars
  PROVE  FoundInv'
<1>1. CASE Pop \/ Pass \/ UNCHANGED vars
  <2>1. UNCHANGED <<pc, markers, x, y, segments, labelled>>
    BY <1>1 DEF Pop, Pass, vars, search
  <2>2. Groups' = Groups /\ \A p : GroupOf(p)' = GroupOf(p)
    BY <2>1, SameGroups
  <2>3. Found' = Found
    BY <2>1, <2>2 DEF Found, Processed, Seed
  <2>4. (Boxed(Found)' <=> Boxed(Found)) /\ (Boxed(Groups)' <=> Boxed(Groups))
    BY <2>1, <2>2, <2>3 DEF Boxed
  <2>5. PassedInv' <=> PassedInv
    BY <2>1, <2>2 DEF PassedInv, Before
  <2>6. QED
    BY <2>1, <2>4, <2>5 DEF FoundInv
<1>2. QED
  BY <1>1, LabelFound, SkipFound, StartFound, EnqueueFound, FinishFound, EndFound
     DEF Next

(* split_segments returns the boxes of the 8-connected groups of at least   *)
(* two labelled pixels, one for each, for images of any size: the search    *)
(* reaches all of a group and nothing else, and the scan meets every group  *)
(* exactly once.                                                            *)
THEOREM EveryGroupOnce == Spec => []OneRectPerGroup
<1>1. Init => MarkInv /\ SearchInv /\ FoundInv
  BY DEF Init, MarkInv, SearchInv, FoundInv
<1>2. TypeOK /\ TypeOK' /\ QueueInv /\ FrontierInv /\ ScanInv
        /\ (MarkInv /\ SearchInv /\ FoundInv) /\ [Next]_vars
        => (MarkInv /\ SearchInv /\ FoundInv)'
  BY MarkStep, SearchStep, FoundStep
<1>3. FoundInv => OneRectPerGroup
  BY DEF FoundInv, OneRectPerGroup, Boxed
<1>4. QED
  BY <1>1, <1>2, <1>3, TypeInductive, QueueInductive, FrontierInductive, PTL DEF Spec

-----------------------------------------------------------------------------
(* How long the scan takes.                                                 *)

(* Pixels the scan has passed, and those a search can still reach.          *)
Passed == y * Cols + x
Labelled(m) == {p \in Grid : m[p] > 1}
Unreached == Labelled(markers)

(* A pixel costs the scan at most two steps beside those of a search, and a *)
(* pixel in the queue costs nine: it is taken out, and its neighbours are   *)
(* looked at.  It gets there once as a seed and once as a neighbour.        *)
Ahead == 11 * (Cols * Rows - Passed) + 9 * Cardinality(Unreached)
StepsLeft ==
  CASE pc = "label" -> 20 * (Cols * Rows) + 2
    [] pc = "scan" -> Ahead + 1
    [] pc = "bfs" -> Ahead + 9 * Len(Q) + (9 - d) - 9
    [] pc = "done" -> 0

EveryStepCounts == [][StepsLeft' < StepsLeft]_vars

(* The scan stands at a pixel or just behind the last one, and looks at no  *)
(* neighbours between two searches.                                         *)
LengthInv ==
  /\ y = Rows => x = 0
  /\ pc = "scan" => d = 9
  /\ pc = "label" => x = 0 /\ y = 0 /\ d = 9

(* The arithmetic of rows.                                                  *)
LEMMA RowProducts ==
  ASSUME NEW a \in Int, NEW b \in Int, NEW c \in Nat
  PROVE  /\ a * c \in Int /\ (a + 1) * c = a * c + c
         /\ a <= b => a * c <= b * c
<1>1. a * c \in Int /\ b * c \in Int /\ (a + 1) * c = a * c + c
  OBVIOUS
<1>2. ASSUME a <= b
      PROVE  a * c <= b * c
  <2>1. (b - a) \in Nat /\ (b - a) * c \in Nat
    BY <1>2
  <2>2. (b - a) * c = b * c - a * c
    OBVIOUS
  <2>3. QED
    BY <1>1, <2>1, <2>2
<1>3. QED
  BY <1>1, <1>2

(* The scan never passes more pixels than there are.                        *)
LEMMA PassedBounds ==
  ASSUME TypeOK, LengthInv
  PROVE  /\ Passed \in Nat /\ Cols * Rows \in Nat /\ Passed <= Cols * Rows
         /\ y < Rows => Passed < Cols * Rows
<1>1. Cols \in Nat /\ Rows \in Nat /\ x \in 0 .. Cols - 1 /\ y \in 0 .. Rows
  BY SizeAssumption DEF TypeOK
<1>2. y * Cols \in Nat /\ Cols * Rows \in Nat /\ Cols * Rows = Rows * Cols
  BY <1>1
<1>3. CASE y = Rows
  BY <1>1, <1>2, <1>3 DEF Passed, LengthInv
<1>4. CASE y < Rows
  <2>1. (y + 1) * Cols = y * Cols + Cols
    BY <1>1, RowProducts
  <2>2. (y + 1) * Cols <= Rows * Cols
    <3>1. y + 1 \in Int /\ Rows \in Int /\ y + 1 <= Rows
      BY <1>1, <1>4
    <3>2. QED
      BY <1>1, <3>1, RowProducts
  <2>3. QED
    BY <1>1, <1>2, <2>1, <2>2 DEF Passed
<1>5. QED
  BY <1>1, <1>3, <1>4

LEMMA AdvancePasses ==
  ASSUME TypeOK, y < Rows, Advance
  PROVE  Passed' = Passed + 1 /\ (y' = Rows => x' = 0)
<1>1. Cols \in Nat /\ Rows \in Nat /\ x \in 0 .. Cols - 1 /\ y \in 0 .. Rows /\ Cols > 0
  BY SizeAssumption DEF TypeOK
<1>2. (y + 1) * Cols = y * Cols + Cols /\ y * Cols \in Int
  BY <1>1, RowProducts
<1>3. CASE x + 1 < Cols
  BY <1>1, <1>2, <1>3 DEF Advance, Passed
<1>4. CASE ~(x + 1 < Cols)
  <2>1. x' = 0 /\ y' = y + 1 /\ x = Cols - 1
    BY <1>1, <1>4 DEF Advance
  <2>2. QED
    BY <1>1, <1>2, <2>1 DEF Passed
<1>5. QED
  BY <1>3, <1>4

(* The image has finitely many pixels.                                      *)
LEMMA LabelledBounds ==
  ASSUME NEW m
  PROVE  /\ IsFiniteSet(Labelled(m)) /\ Cardinality(Labelled(m)) \in Nat
         /\ Cardinality(Labelled(m)) <= Cols * Rows
<1>1. ASSUME NEW n \in Nat \ {0}
      PROVE  IsFiniteSet(0 .. n - 1) /\ Cardinality(0 .. n - 1) = n
  <2>1. 0 \in Int /\ n - 1 \in Int /\ ~(0 > n - 1) /\ n - 1 - 0 + 1 = n
    BY <1>1
  <2>2. /\ IsFiniteSet(0 .. n - 1)
        /\ Cardinality(0 .. n - 1) = IF 0 > n - 1 THEN 0 ELSE n - 1 - 0 + 1
    BY <2>1, FS_Interval, Zenon
  <2>3. QED
    BY <2>1, <2>2
<1>2. /\ IsFiniteSet(0 .. Cols - 1) /\ Cardinality(0 .. Cols - 1) = Cols
      /\ IsFiniteSet(0 .. Rows - 1) /\ Cardinality(0 .. Rows - 1) = Rows
  BY <1>1, SizeAssumption
<1>3. IsFiniteSet(Grid) /\ Cardinality(Grid) = Cols * Rows
  <2>1. /\ IsFiniteSet((0 .. Cols - 1) \X (0 .. Rows - 1))
        /\ Cardinality((0 .. Cols - 1) \X (0 .. Rows - 1))
             = Cardinality(0 .. Cols - 1) * Cardinality(0 .. Rows - 1)
    BY <1>2, FS_Product, Zenon
  <2>2. QED
    BY <1>2, <2>1 DEF Grid
<1>4. Labelled(m) \in SUBSET Grid
  BY DEF Labelled
<1>5. QED
  BY <1>3, <1>4, FS_Subset, FS_CardinalityType

(* What is ahead of the scan, and never less than a pixel while it stands   *)
(* at one.                                                                  *)
LEMMA AheadBounds ==
  ASSUME TypeOK, LengthInv
  PROVE  Ahead \in Nat /\ (y < Rows => Ahead >= 11)
<1> DEFINE total == Cols * Rows
           left == Cardinality(Unreached)
<1>1. /\ Passed \in Nat /\ total \in Nat /\ Passed <= total
      /\ y < Rows => Passed < total
  BY PassedBounds
<1>2. left \in Nat
  BY LabelledBounds DEF Unreached
<1>3. Ahead = 11 * (total - Passed) + 9 * left
  BY DEF Ahead
<1> HIDE DEF total, left
<1>4. QED
  BY <1>1, <1>2, <1>3

(* The arithmetic of a labelling, and that of a neighbour that is passed or *)
(* put into the queue.                                                      *)
LEMMA LabelSums ==
  ASSUME NEW a \in Nat, NEW n \in Nat, n <= a
  PROVE  /\ 11 * (a - 0) + 9 * n \in Nat
         /\ 11 * (a - 0) + 9 * n + 1 < 20 * a + 2
         /\ 0 < 20 * a + 2
OBVIOUS

LEMMA StepSums ==
  ASSUME NEW a \in Nat, NEW n \in Nat, NEW k \in 1 .. 9
  PROVE  /\ a + 9 * n + (9 - (k + 1)) - 9 < a + 9 * n + (9 - k) - 9
         /\ (a - 9) + 9 * (n + 1) + (9 - (k + 1)) - 9 < a + 9 * n + (9 - k) - 9
OBVIOUS

LEMMA LengthStep ==
  ASSUME TypeOK, ScanInv, LengthInv, [Next]_vars
  PROVE  LengthInv'
<1> USE DEF ScanInv, search
<1>1. d \in 1 .. 9
  BY DirsFacts DEF TypeOK
<1>2. CASE Skip
  BY <1>2, AdvancePasses DEF Skip, LengthInv
<1>3. CASE Finish
  <2>1. /\ y < Rows /\ Advance /\ pc' = "scan"
        /\ d' = d /\ d > Len(Dirs)
    BY <1>3 DEF Finish
  <2>2. y' = Rows => x' = 0
    BY <2>1, AdvancePasses
  <2>3. d' = 9
    <3>1. Len(Dirs) = 8
      BY DirsFacts
    <3>2. QED
      BY <1>1, <2>1, <3>1
  <2>4. QED
    BY <2>1, <2>2, <2>3 DEF LengthInv
<1>4. CASE Label \/ Start \/ End
  BY <1>4 DEF Label, Start, End, LengthInv
<1>5. CASE Pop \/ Pass \/ Enqueue
  BY <1>5 DEF Pop, Pass, Enqueue, LengthInv
<1>6. CASE UNCHANGED vars
  BY <1>6 DEF vars, LengthInv
<1>7. QED
  BY <1>2, <1>3, <1>4, <1>5, <1>6 DEF Next

LEMMA StepCounts ==
  ASSUME TypeOK, ScanInv, LengthInv, LengthInv', Next
  PROVE  StepsLeft' < StepsLeft
<1> DEFINE total == Cols * Rows
           left == Cardinality(Unreached)
<1>1. /\ Passed \in Nat /\ total \in Nat /\ Passed <= total
      /\ y < Rows => Passed < total
  BY PassedBounds
<1>2. /\ left \in Nat /\ left <= total /\ left' \in Nat /\ left' <= total
  BY LabelledBounds DEF Unreached
<1>3. d \in 1 .. 9 /\ Len(Dirs) = 8 /\ Q \in Seq(Grid) /\ Len(Q) \in Nat
  BY DirsFacts DEF TypeOK
<1>4. /\ UNCHANGED <<x, y>> => Passed' = Passed
      /\ UNCHANGED markers => left' = left
  BY DEF Passed, Unreached
<1>5. Ahead \in Nat /\ Ahead = 11 * (total - Passed) + 9 * left
  BY AheadBounds DEF Ahead
<1>6. Ahead' = 11 * (total - Passed') + 9 * left'
  BY DEF Ahead
<1> HIDE DEF total, left
<1>7. UNCHANGED <<x, y, markers>> => Ahead' = Ahead
  BY <1>4, <1>5, <1>6
<1>8. CASE Label
  <2>1. x = 0 /\ y = 0 /\ UNCHANGED <<x, y>> /\ pc = "label" /\ pc' \in {"scan", "done"}
    BY <1>8 DEF Label, LengthInv
  <2>2. Passed = 0
    BY <2>1, SizeAssumption DEF Passed
  <2>3. Ahead' = 11 * (total - 0) + 9 * left'
    BY <1>4, <1>6, <2>1, <2>2
  <2>4. /\ 11 * (total - 0) + 9 * left' \in Nat
        /\ 11 * (total - 0) + 9 * left' + 1 < 20 * total + 2
        /\ 0 < 20 * total + 2
    <3>1. total \in Nat /\ left' \in Nat /\ left' <= total
      BY <1>1, <1>2
    <3>2. QED
      BY <3>1, LabelSums, Zenon
  <2>5. Ahead' \in Nat /\ Ahead' + 1 < 20 * total + 2
    BY <2>3, <2>4, Zenon
  <2>6. StepsLeft = 20 * total + 2
    BY <2>1 DEF StepsLeft, total
  <2>7. StepsLeft' = Ahead' + 1 \/ StepsLeft' = 0
    BY <2>1, <2>4 DEF StepsLeft
  <2>8. QED
    BY <2>4, <2>5, <2>6, <2>7, Zenon
<1>9. CASE Skip
  <2>1. y < Rows /\ Advance /\ UNCHANGED <<pc, markers>> /\ pc = "scan"
    BY <1>9 DEF Skip
  <2>2. Passed' = Passed + 1
    BY <2>1, AdvancePasses
  <2>3. QED
    <3>1. Ahead' = Ahead - 11
      BY <1>1, <1>2, <1>4, <1>5, <1>6, <2>1, <2>2
    <3>2. QED
      BY <1>5, <2>1, <3>1 DEF StepsLeft
<1>10. CASE Start
  <2>1. /\ pc = "scan" /\ pc' = "bfs" /\ UNCHANGED <<x, y, markers, d>> /\ d = 9
        /\ Len(Q') = 1
    <3>1. Q' = <<<<x, y>>>>
      BY <1>10 DEF Start
    <3>2. Len(Q') = 1
      BY <3>1
    <3>3. QED
      BY <1>10, <3>2 DEF Start, LengthInv
  <2>2. QED
    BY <1>5, <1>7, <2>1 DEF StepsLeft
<1>11. CASE Pop
  <2>1. /\ pc = "bfs" /\ pc' = "bfs" /\ UNCHANGED <<x, y, markers>> /\ d > 8 /\ d' = 1
        /\ Len(Q') = Len(Q) - 1
    <3>1. Q' = Tail(Q) /\ Q # <<>> /\ d > Len(Dirs)
      BY <1>11 DEF Pop
    <3>2. Len(Q') = Len(Q) - 1
      BY <1>3, <3>1
    <3>3. d > 8
      BY <1>3, <3>1
    <3>4. QED
      BY <1>11, <3>2, <3>3 DEF Pop
  <2>2. QED
    BY <1>3, <1>5, <1>7, <2>1 DEF StepsLeft
<1>12. CASE Pass
  <2>1. pc = "bfs" /\ pc' = "bfs" /\ UNCHANGED <<x, y, markers, Q>> /\ d' = d + 1
    BY <1>12 DEF Pass
  <2>2. /\ StepsLeft = Ahead + 9 * Len(Q) + (9 - d) - 9
        /\ StepsLeft' = Ahead + 9 * Len(Q) + (9 - (d + 1)) - 9
    BY <1>7, <2>1 DEF StepsLeft
  <2>3. QED
    BY <1>3, <1>5, <2>2, StepSums
<1>13. CASE Enqueue
  <2> DEFINE q == Neighbour(cur, d)
  <2>1. /\ pc = "bfs" /\ pc' = "bfs" /\ UNCHANGED <<x, y>> /\ d' = d + 1
        /\ q \in Grid /\ markers[q] > 1
        /\ markers' = [markers EXCEPT ![q] = 0]
        /\ Q' = Append(Q, q)
    <3>1. q \in Grid /\ ~(markers[q] <= 1) /\ markers[q] \in -1 .. MaxLabel
      BY <1>13 DEF Enqueue, Ignored, TypeOK
    <3>2. markers[q] > 1
      BY <3>1, SizeAssumption
    <3>3. QED
      BY <1>13, <3>1, <3>2 DEF Enqueue, Reached
  <2> HIDE DEF q
  <2>2. Len(Q') = Len(Q) + 1
    BY <1>3, <2>1
  <2>3. Unreached' = Unreached \ {q} /\ q \in Unreached
    <3>1. /\ markers'[q] = 0
          /\ \A p \in Grid : p # q => markers'[p] = markers[p]
      BY <2>1 DEF TypeOK
    <3>2. q \in Unreached
      BY <2>1 DEF Unreached, Labelled
    <3>3. \A p \in Grid : p \in Unreached' <=> p \in Unreached \ {q}
      BY <3>1 DEF Unreached, Labelled
    <3>4. Unreached \subseteq Grid /\ Unreached' \subseteq Grid
      BY DEF Unreached, Labelled
    <3>5. QED
      BY <3>2, <3>3, <3>4
  <2>4. left' = left - 1
    <3>1. IsFiniteSet(Unreached)
      BY LabelledBounds DEF Unreached
    <3>2. QED
      BY <2>3, <3>1, FS_RemoveElement DEF left
  <2>5. QED
    <3>1. Ahead' = Ahead - 9
      BY <1>1, <1>2, <1>4, <1>5, <1>6, <2>1, <2>4
    <3>2. /\ StepsLeft = Ahead + 9 * Len(Q) + (9 - d) - 9
          /\ StepsLeft' = (Ahead - 9) + 9 * (Len(Q) + 1) + (9 - (d + 1)) - 9
      BY <2>1, <2>2, <3>1 DEF StepsLeft
    <3>3. QED
      BY <1>3, <1>5, <3>2, StepSums
<1>14. CASE Finish
  <2>1. /\ y < Rows /\ Advance /\ UNCHANGED markers /\ pc = "bfs" /\ pc' = "scan"
        /\ Len(Q) = 0 /\ d = 9
    <3>1. Q = <<>> /\ d > Len(Dirs)
      BY <1>14 DEF Finish
    <3>2. d = 9
      BY <1>3, <3>1
    <3>3. QED
      BY <1>14, <3>1, <3>2 DEF Finish, ScanInv
  <2>2. Passed' = Passed + 1
    BY <2>1, AdvancePasses
  <2>3. QED
    <3>1. Ahead' = Ahead - 11
      BY <1>1, <1>2, <1>4, <1>5, <1>6, <2>1, <2>2
    <3>2. QED
      BY <1>5, <2>1, <3>1 DEF StepsLeft
<1>15. CASE End
  <2>1. pc = "scan" /\ pc' = "done"
    BY <1>15 DEF End
  <2>2. QED
    BY <1>5, <2>1 DEF StepsLeft
<1>16. QED
  BY <1>8, <1>9, <1>10, <1>11, <1>12, <1>13, <1>14, <1>15 DEF Next

(* For any image and any labelling split_segments is over after at most     *)
(* 20 * Cols * Rows + 2 steps, although its queue takes a seed twice and    *)
(* the scan meets again what a search has left.                             *)
THEOREM ScanIsLinear ==
  Spec => /\ EveryStepCounts /\ [](StepsLeft \in Nat)
          /\ StepsLeft = 20 * (Cols * Rows) + 2
<1> DEFINE LInv == TypeOK /\ ScanInv /\ LengthInv
<1>1. Init => LInv
  BY TypeInit, SizeAssumption, DirsFacts DEF Init, LengthInv
<1>2. LInv /\ [Next]_vars => LInv'
  BY TypeStep, LengthStep
<1>3. LInv /\ LInv' /\ [Next]_vars => [StepsLeft' < StepsLeft]_vars
  BY StepCounts
<1>4. LInv => StepsLeft \in Nat
  <2> SUFFICES ASSUME LInv PROVE StepsLeft \in Nat
    OBVIOUS
  <2>1. Ahead \in Nat /\ (y < Rows => Ahead >= 11)
    BY AheadBounds
  <2>2. 20 * (Cols * Rows) + 2 \in Nat
    BY SizeAssumption
  <2>3. d \in 1 .. 9 /\ Len(Q) \in Nat /\ pc \in {"label", "scan", "bfs", "done"}
    BY DirsFacts DEF TypeOK
  <2>4. pc = "bfs" => y < Rows
    BY DEF ScanInv
  <2> HIDE DEF LInv
  <2>5. CASE pc = "bfs"
    <3>1. StepsLeft = Ahead + 9 * Len(Q) + (9 - d) - 9
      BY <2>5 DEF StepsLeft
    <3>2. QED
      BY <2>1, <2>3, <2>4, <2>5, <3>1
  <2>6. CASE pc \in {"label", "scan", "done"}
    <3>1. StepsLeft \in {20 * (Cols * Rows) + 2, Ahead + 1, 0}
      BY <2>6 DEF StepsLeft
    <3>2. QED
      BY <2>1, <2>2, <3>1
  <2>7. QED
    BY <2>3, <2>5, <2>6
<1>5. Init => StepsLeft = 20 * (Cols * Rows) + 2
  BY DEF Init, StepsLeft
<1>6. QED
  BY <1>1, <1>2, <1>3, <1>4, <1>5, PTL DEF Spec, EveryStepCounts
=============================================================================
