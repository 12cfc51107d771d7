------------------------------- MODULE Detect -------------------------------
(***************************************************************************)
(* detect_segments (image.cc): do_detect for the old and for the new image, *)
(* as two tasks or one after the other; each turns the rectangles that      *)
(* split_segments returns into segments and gives them their descriptors,   *)
(* by concurrent tasks or in a loop.  What is in a rectangle is an input.   *)
(***************************************************************************)
EXTENDS Integers, Sequences

CONSTANTS
  Parallel,      \* built with ENABLE_PARALLEL
  MaxSegments    \* bound on the rectangles of an image

ASSUME DetectAssumption == Parallel \in BOOLEAN /\ MaxSegments \in Nat

Sides == {"old", "new"}

(* A rectangle without a row or a column, one without key points, or one    *)
(* that AKAZE can describe.                                                 *)
Regions == {"empty", "flat", "textured"}

VARIABLES
  rects,         \* rects[side]: what split_segments returns for the image
  segments,      \* ctx.old_segments and ctx.new_segments
  task,          \* task[side]: "todo", "splitting", "describing" or "done"
  waiting,       \* waiting[side]: the segments whose descriptor is to be computed
  returned

vars == <<rects, segments, task, waiting, returned>>

Segment == [roi : Regions, described : BOOLEAN]

TypeOK ==
  /\ rects \in [Sides -> Seq(Regions)]
  /\ segments \in [Sides -> Seq(Segment)]
  /\ task \in [Sides -> {"todo", "splitting", "describing", "done"}]
  /\ waiting \in [Sides -> SUBSET Nat]
  /\ \A side \in Sides : waiting[side] \subseteq 1 .. Len(segments[side])
  /\ returned \in BOOLEAN

Init ==
  /\ rects \in [Sides -> UNION {[1 .. n -> Regions] : n \in 0 .. MaxSegments}]
  /\ segments = [side \in Sides |-> <<>>]
  /\ task = [side \in Sides |-> "todo"]
  /\ waiting = [side \in Sides |-> {}]
  /\ returned = FALSE

-----------------------------------------------------------------------------
(* Without tasks the old image comes first.                                 *)
MayBegin(side) == Parallel \/ side = "old" \/ task["old"] = "done"

BeginDetect(side) ==
  /\ task[side] = "todo"
  /\ MayBegin(side)
  /\ task' = [task EXCEPT ![side] = "splitting"]
  /\ UNCHANGED <<rects, segments, waiting, returned>>

EmplaceBack(side) ==
  LET k == Len(segments[side]) + 1
  IN /\ task[side] = "splitting"
     /\ k <= Len(rects[side])
     /\ segments' = [segments EXCEPT ![side] =
                       Append(@, [roi |-> rects[side][k], described |-> FALSE])]
     /\ UNCHANGED <<rects, task, waiting, returned>>

BeginDescriptorsPastEnd(side) ==
  /\ task[side] = "splitting"
  /\ Len(segments[side]) = Len(rects[side])
  /\ task' = [task EXCEPT ![side] = "describing"]
  /\ waiting' = [waiting EXCEPT ![side] = 1 .. Len(segments[side]) + 1]
  /\ UNCHANGED <<rects, segments, returned>>
BeginDescriptors(side) ==
  /\ task[side] = "splitting"
  /\ Len(segments[side]) = Len(rects[side])
  /\ task' = [task EXCEPT ![side] = "describing"]
  /\ waiting' = [waiting EXCEPT ![side] = 1 .. Len(segments[side])]
  /\ UNCHANGED <<rects, segments, returned>>

(* compute_descriptor: nothing for an empty region or without key points.   *)
Describes(roi) == roi = "textured"

(* The assignment goes through a reference to the segment in the vector.    *)
Described(side, k) ==
  [segments EXCEPT ![side][k].described = @ \/ Describes(segments[side][k].roi)]

Describe(side, k) ==
  /\ task[side] = "describing"
  /\ k \in waiting[side]
  /\ Parallel \/ \A l \in waiting[side] : k <= l
  /\ segments' = Described(side, k)
  /\ waiting' = [waiting EXCEPT ![side] = @ \ {k}]
  /\ UNCHANGED <<rects, task, returned>>

(* The loop over the descriptors is over, with its tasks if it has any.     *)
LoopAllDescribed(side) == \A k \in 1 .. Len(segments[side]) : segments[side][k].described
LoopUnjoined(side) == TRUE
LoopOver(side) == waiting[side] = {}

EndDetect(side) ==
  /\ task[side] = "describing"
  /\ LoopOver(side)
  /\ task' = [task EXCEPT ![side] = "done"]
  /\ UNCHANGED <<rects, segments, waiting, returned>>

Return ==
  /\ ~returned
  /\ \A side \in Sides : task[side] = "done"
  /\ returned' = TRUE
  /\ UNCHANGED <<rects, segments, task, waiting>>

Next ==
  \/ \E side \in Sides :
       \/ BeginDetect(side) \/ EmplaceBack(side) \/ BeginDescriptors(side)
       \/ \E k \in waiting[side] : Describe(side, k)
       \/ EndDetect(side)
  \/ Return

Spec == Init /\ [][Next]_vars

-----------------------------------------------------------------------------
(* When detect_segments returns, both vectors list the rectangles in their  *)
(* order, and exactly the segments that can be described have a descriptor, *)
(* however the tasks of the two images were interleaved.  create_diff_image *)
(* relies on it (DiffData): it skips what has no descriptor.                *)
SegmentsReady ==
  returned => \A side \in Sides :
    segments[side] = [k \in 1 .. Len(rects[side]) |->
      [roi |-> rects[side][k], described |-> rects[side][k] = "textured"]]

(* detect_segments returns.                                                 *)
Termination == <>returned
=============================================================================
