---------------------------- MODULE DiffParallel ----------------------------
(***************************************************************************)
(* create_diff_image as built with ENABLE_PARALLEL (image.cc).  One outer   *)
(* task per old segment, and inside it one inner task per new segment, all  *)
(* running on at most ThreadCount threads.  The inner tasks share two       *)
(* things without any synchronisation: the `matched` flags (plain bools,    *)
(* tested at the start of a task and set after the slow descriptor_match)   *)
(* and the pixels of `result`.  Every read or write of either is a step.    *)
(***************************************************************************)
EXTENDS DiffData

CONSTANT ThreadCount   \* tbb::global_control::max_allowed_parallelism

ASSUME ThreadAssumption == ThreadCount \in Nat \ {0}

VARIABLES
  main,      \* the thread that called create_diff_image
  outer,     \* outer[o]: the task of old segment o
  inner,     \* inner[o][n]: the task of new segment n inside o's task
  left,      \* left[o][n]: differing pixels the task has still to write
  matched,   \* matched[s]: the flag of segment s
  result,    \* the red pixels of the result image
  change,    \* change[side]: the two tasks of create_change_image
  pending,   \* pending[side]: segments draw_not_matched has still to visit
  outlined,  \* outlined[side]: segments outlined in green so far
  files      \* the output files, as <<name, content>> pairs

tasks == <<outer, inner, left, matched, result>>
drawing == <<change, pending, outlined>>
vars == <<inputs, main, tasks, drawing, files>>

Busy == {"comparing", "claim_old", "claim_new", "placing", "framing", "painting"}
Ended == {"skipped", "painted", "threw"}

TypeOK ==
  /\ InputsOK
  /\ main \in {"matching", "changing", "returned", "aborted"}
  /\ outer \in [Old -> {"todo", "scanning", "done"}]
  /\ inner \in [Old -> [New -> {"todo"} \cup Busy \cup Ended]]
  /\ left \in [Old -> [New -> SUBSET Pixels]]
  /\ matched \in [Segments -> BOOLEAN]
  /\ result \in SUBSET Pixels
  /\ change \in [Sides -> {"todo", "drawing", "done"}]
  /\ pending \in [Sides -> SUBSET Segments]
  /\ outlined \in [Sides -> SUBSET Segments]
  /\ \A side \in Sides :
       pending[side] \cup outlined[side] \subseteq SegmentsOf(side)

(* The inner tasks that occupy a thread.  Starting an outer task and        *)
(* waiting for its inner ones does not: a waiting TBB thread runs tasks.    *)
Running == {p \in Old \X New : inner[p[1]][p[2]] \in Busy}

(* An exception has left some task.  Cancellation is asynchronous: other    *)
(* tasks may still start until the exception reaches the outer loop.        *)
Threw == \E o \in Old, n \in New : inner[o][n] = "threw"

(* The segments each task of create_change_image passes to                  *)
(* draw_not_matched.                                                        *)
SameVectorTwice(side) == Old
VectorOf(side) == SegmentsOf(side)

Init ==
  /\ InputsOK
  /\ main = "matching"
  /\ outer = [o \in Old |-> "todo"]
  /\ inner = [o \in Old |-> [n \in New |-> "todo"]]
  /\ left = [o \in Old |-> [n \in New |-> {}]]
  /\ matched = [s \in Segments |-> FALSE]
  /\ result = {}
  /\ change = [side \in Sides |-> "todo"]
  /\ pending = [side \in Sides |-> VectorOf(side)]
  /\ outlined = [side \in Sides |-> {}]
  /\ files = {}

-----------------------------------------------------------------------------
(* The matching phase.                                                      *)

Step(o, n, from, to) ==
  /\ inner[o][n] = from
  /\ inner' = [inner EXCEPT ![o][n] = to]

(* The outer task: give up on o, or go through the new segments.            *)
BeginOuter(o) ==
  /\ main = "matching"
  /\ outer[o] = "todo"
  /\ outer' = [outer EXCEPT ![o] =
       IF ~descriptor[o] \/ matched[o] THEN "done" ELSE "scanning"]
  /\ UNCHANGED <<inputs, main, inner, left, matched, result, drawing, files>>

(* The part of the inner task's test that comes before descriptor_match     *)
(* (and, first, a faulty variant of it; such variants precede several       *)
(* definitions and are used by no action).                                  *)
SkipsIgnoringFlag(n) == ~descriptor[n]
Skips(n) == ~descriptor[n] \/ matched[n]

BeginInner(o, n) ==
  /\ outer[o] = "scanning"
  /\ main = "matching"
  /\ Cardinality(Running) < ThreadCount
  /\ Step(o, n, "todo", IF Skips(n) THEN "skipped" ELSE "comparing")
  /\ UNCHANGED <<inputs, main, outer, left, matched, result, drawing, files>>

(* descriptor_match has answered; the flag of n is not looked at again.     *)
Compare(o, n) ==
  /\ Step(o, n, "comparing", IF verdict[o][n] THEN "claim_old" ELSE "skipped")
  /\ UNCHANGED <<inputs, main, outer, left, matched, result, drawing, files>>

ClaimOld(o, n) ==
  /\ Step(o, n, "claim_old", "claim_new")
  /\ matched' = [matched EXCEPT ![o] = TRUE]
  /\ UNCHANGED <<inputs, main, outer, left, result, drawing, files>>

ClaimNewForgotten(o, n) ==
  /\ Step(o, n, "claim_new", "placing")
  /\ UNCHANGED <<inputs, main, outer, left, matched, result, drawing, files>>
ClaimNew(o, n) ==
  /\ Step(o, n, "claim_new", "placing")
  /\ matched' = [matched EXCEPT ![n] = TRUE]
  /\ UNCHANGED <<inputs, main, outer, left, result, drawing, files>>

(* cv::matchTemplate and minMaxLoc find n's place in old, or throw.         *)
Place(o, n) ==
  /\ Step(o, n, "placing", IF placeable[n] THEN "framing" ELSE "threw")
  /\ UNCHANGED <<inputs, main, outer, left, matched, result, drawing, files>>

DrawFrame(o, n) ==
  /\ Step(o, n, "framing", "painting")
  /\ result' = result \cup Frame[n]
  /\ left' = [left EXCEPT ![o][n] = Differs[n]]
  /\ UNCHANGED <<inputs, main, outer, matched, drawing, files>>

(* One iteration of the pixel loop that finds a difference.                 *)
PaintPixelAgain(o, n) ==
  /\ inner[o][n] = "painting"
  /\ \E p \in left[o][n] : result' = result \cup {p}
  /\ UNCHANGED <<inputs, main, outer, inner, left, matched, drawing, files>>
PaintPixel(o, n) ==
  /\ inner[o][n] = "painting"
  /\ \E p \in left[o][n] :
       /\ result' = result \cup {p}
       /\ left' = [left EXCEPT ![o][n] = @ \ {p}]
  /\ UNCHANGED <<inputs, main, outer, inner, matched, drawing, files>>

EndInner(o, n) ==
  /\ left[o][n] = {}
  /\ Step(o, n, "painting", "painted")
  /\ UNCHANGED <<inputs, main, outer, left, matched, result, drawing, files>>

(* The inner parallel_for_each returns when all its tasks have ended.       *)
EndOuter(o) ==
  /\ main = "matching"
  /\ outer[o] = "scanning"
  /\ \A n \in New : inner[o][n] \in {"skipped", "painted"}
  /\ outer' = [outer EXCEPT ![o] = "done"]
  /\ UNCHANGED <<inputs, main, inner, left, matched, result, drawing, files>>

(* A task has thrown: parallel_for_each waits for the tasks in progress and *)
(* rethrows; nothing catches it.                                            *)
Abort ==
  /\ main = "matching"
  /\ Threw
  /\ Running = {}
  /\ main' = "aborted"
  /\ UNCHANGED <<inputs, tasks, drawing, files>>

-----------------------------------------------------------------------------
(* The output phase.                                                        *)

(* The outer parallel_for_each returns when every outer task has ended.     *)
NoJoin == ~Threw
Joined == \A o \in Old : outer[o] = "done"

WriteDiff ==
  /\ main = "matching"
  /\ Joined
  /\ files' = Imwrite(files, "diff", result)
  /\ main' = IF CreateChangeImage THEN "changing" ELSE "returned"
  /\ UNCHANGED <<inputs, tasks, drawing>>

(* A task of the task_group decodes its image again.                        *)
BeginChange(side) ==
  /\ main = "changing"
  /\ change[side] = "todo"
  /\ change' = [change EXCEPT ![side] = "drawing"]
  /\ UNCHANGED <<inputs, main, tasks, pending, outlined, files>>

Draws(s) == ~matched[s]

(* One task of draw_not_matched's parallel_for_each.                        *)
DrawNotMatched(side) ==
  /\ change[side] = "drawing"
  /\ \E s \in pending[side] :
       /\ pending' = [pending EXCEPT ![side] = @ \ {s}]
       /\ outlined' = [outlined EXCEPT ![side] =
                         IF Draws(s) THEN @ \cup {s} ELSE @]
  /\ UNCHANGED <<inputs, main, tasks, change, files>>

WriteChange(side) ==
  /\ change[side] = "drawing"
  /\ pending[side] = {}
  /\ files' = Imwrite(files, side, outlined[side])
  /\ change' = [change EXCEPT ![side] = "done"]
  /\ UNCHANGED <<inputs, main, tasks, pending, outlined>>

Return ==
  /\ main = "changing"
  /\ \A side \in Sides : change[side] = "done"
  /\ main' = "returned"
  /\ UNCHANGED <<inputs, tasks, drawing, files>>

-----------------------------------------------------------------------------
InnerTask(o, n) ==
  \/ BeginInner(o, n)
  \/ Compare(o, n)
  \/ ClaimOld(o, n)
  \/ ClaimNew(o, n)
  \/ Place(o, n)
  \/ DrawFrame(o, n)
  \/ PaintPixel(o, n)
  \/ EndInner(o, n)

Next ==
  \/ \E o \in Old : BeginOuter(o)
  \/ \E o \in Old, n \in New : InnerTask(o, n)
  \/ \E o \in Old : EndOuter(o)
  \/ Abort
  \/ WriteDiff
  \/ \E side \in Sides : BeginChange(side)
  \/ \E side \in Sides : DrawNotMatched(side)
  \/ \E side \in Sides : WriteChange(side)
  \/ Return

Spec == Init /\ [][Next]_vars

(* TBB runs every spawned task once a thread is free, and a task body never *)
(* waits for another: as long as something can be done, something is.       *)
FairSpec == Spec /\ WF_vars(Next)

-----------------------------------------------------------------------------
(* The old segments that have taken new segment n for themselves.           *)
Claimants(n) ==
  {o \in Old : inner[o][n] \in (Busy \ {"comparing"}) \cup {"painted", "threw"}}

(* The flag of n is tested before descriptor_match and set after it, so     *)
(* several old segments can take the same n; but all of them were at work   *)
(* at once when the first set the flag, so there are never more of them     *)
(* than threads, and with one thread the pairing is unique.                 *)
ClaimBound == \A n \in New : Cardinality(Claimants(n)) <= ThreadCount

(* Once the parallel loops have joined, no task touches a flag or a pixel   *)
(* of the result again: what imwrite and draw_not_matched read is final.    *)
FrozenAfterJoin == [][main # "matching" => UNCHANGED <<matched, result>>]_vars

(* The outputs are those of DiffOutcome, whatever the interleaving: the     *)
(* diff and the added segments do not depend on it, the deleted ones only   *)
(* within Partners, and an exception leaves no output behind.               *)
Outcome == INSTANCE DiffOutcome WITH
  stage <- IF main = "matching" THEN "comparing" ELSE main,
  written <- {side \in Sides : change[side] = "done"}

ImplementsOutcome == Outcome!Spec

(* The function returns, or an exception ends it.                           *)
Termination == <>(main \in {"returned", "aborted"})
=============================================================================
