------------------------ MODULE DiffParallel_proofs -------------------------
(***************************************************************************)
(* Proofs about DiffParallel, for any numbers of segments, pixels and       *)
(* threads: the type invariant, the bound on double claims, the join, that  *)
(* the parallel loops implement DiffOutcome, and that every step counts.    *)
(***************************************************************************)
EXTENDS DiffParallel, FiniteSetTheorems, TLAPS

(* States of an inner task after it has set the flag of its old segment,    *)
(* and of its new segment.                                                  *)
Flagged == {"claim_new", "placing", "framing", "painting", "painted", "threw"}
Taken == Flagged \ {"claim_new"}

(* What a task's state says about the inputs and about the flags it saw.    *)
TaskInv ==
  \A o \in Old, n \in New :
    /\ inner[o][n] # "todo" => descriptor[o] /\ outer[o] # "todo"
    /\ inner[o][n] \notin {"todo", "skipped"} => descriptor[n]
    /\ inner[o][n] \in Flagged \cup {"claim_old"} => verdict[o][n]
    /\ inner[o][n] = "skipped" => ~descriptor[n] \/ matched[n] \/ ~verdict[o][n]
    /\ inner[o][n] \in {"framing", "painting", "painted"} => placeable[n]
    /\ inner[o][n] = "threw" => ~placeable[n]

(* An outer task scans only for a segment with a descriptor, and when it is *)
(* done has had every new segment looked at.                                *)
OuterInv ==
  \A o \in Old :
    /\ outer[o] = "scanning" => descriptor[o]
    /\ outer[o] = "done" /\ descriptor[o] =>
         \A n \in New : inner[o][n] \in {"skipped", "painted"}

(* A flag is up exactly when some task has claimed the segment.             *)
FlagInv ==
  /\ \A o \in Old : matched[o] <=> \E n \in New : inner[o][n] \in Flagged
  /\ \A n \in New : matched[n] <=> \E o \in Old : inner[o][n] \in Taken

(* What is red belongs to a claimed segment, and a task that has painted    *)
(* its segment has left nothing out, whoever else was painting.             *)
PaintInv ==
  /\ \A p \in result : \E n \in New : matched[n] /\ p \in Frame[n] \cup Differs[n]
  /\ \A o \in Old, n \in New :
       /\ inner[o][n] = "painting" =>
            /\ Frame[n] \subseteq result
            /\ Differs[n] \subseteq result \cup left[o][n]
            /\ left[o][n] \subseteq Differs[n]
       /\ inner[o][n] = "painted" => Frame[n] \cup Differs[n] \subseteq result

(* The main thread leaves the loops only when no task is at work.           *)
JoinInv ==
  /\ main \in {"changing", "returned"} => Joined
  /\ main = "aborted" => \A o \in Old, n \in New : inner[o][n] \notin Busy

(* draw_not_matched has outlined the unmatched among those it has visited.  *)
DrawInv ==
  \A side \in Sides :
    /\ outlined[side] = {s \in SegmentsOf(side) \ pending[side] : ~matched[s]}
    /\ change[side] = "todo" => pending[side] = SegmentsOf(side)
    /\ change[side] = "done" => pending[side] = {}
    /\ change[side] = "drawing" => main = "changing"
    /\ change[side] = "done" => main \in {"changing", "returned"}

IInv ==
  /\ TypeOK
  /\ TaskInv
  /\ OuterInv
  /\ FlagInv
  /\ PaintInv
  /\ JoinInv
  /\ DrawInv

-----------------------------------------------------------------------------
(* Type correctness: every field the tasks and the main thread write keeps  *)
(* its range, and each side's drawing stays within its own segments.        *)
THEOREM TypeCorrect == Spec => []TypeOK
<1> USE DEF TypeOK, InputsOK, Sides
<1>1. Init => TypeOK
  BY DEF Init, Segments, SegmentsOf, VectorOf
<1>2. TypeOK /\ [Next]_vars => TypeOK'
  <2> SUFFICES ASSUME TypeOK, [Next]_vars
               PROVE  TypeOK'
    OBVIOUS
  <2> USE DEF inputs, tasks, drawing
  <2>1. ASSUME NEW o \in Old, BeginOuter(o)
        PROVE  TypeOK'
    BY <2>1 DEF BeginOuter
  <2>2. ASSUME NEW o \in Old, NEW n \in New, InnerTask(o, n)
        PROVE  TypeOK'
    <3>1. CASE BeginInner(o, n)
      BY <3>1 DEF BeginInner, Step, Busy, Ended
    <3>2. CASE Compare(o, n)
      BY <3>2 DEF Compare, Step, Busy, Ended
    <3>3. CASE ClaimOld(o, n)
      BY <3>3 DEF ClaimOld, Step, Busy, Ended, Segments
    <3>4. CASE ClaimNew(o, n)
      BY <3>4 DEF ClaimNew, Step, Busy, Ended, Segments
    <3>5. CASE Place(o, n)
      BY <3>5 DEF Place, Step, Busy, Ended
    <3>6. CASE DrawFrame(o, n)
      BY <3>6, PaintAssumption DEF DrawFrame, Step, Busy, Ended
    <3>7. CASE PaintPixel(o, n)
      BY <3>7 DEF PaintPixel
    <3>8. CASE EndInner(o, n)
      BY <3>8 DEF EndInner, Step, Busy, Ended
    <3>9. QED
      BY <2>2, <3>1, <3>2, <3>3, <3>4, <3>5, <3>6, <3>7, <3>8 DEF InnerTask
  <2>3. ASSUME NEW o \in Old, EndOuter(o)
        PROVE  TypeOK'
    BY <2>3 DEF EndOuter
  <2>4. CASE Abort
    BY <2>4 DEF Abort
  <2>5. CASE WriteDiff
    BY <2>5 DEF WriteDiff
  <2>6. ASSUME NEW side \in Sides, BeginChange(side)
        PROVE  TypeOK'
    BY <2>6 DEF BeginChange
  <2>7. ASSUME NEW side \in Sides, DrawNotMatched(side)
        PROVE  TypeOK'
    BY <2>7 DEF DrawNotMatched
  <2>8. ASSUME NEW side \in Sides, WriteChange(side)
        PROVE  TypeOK'
    BY <2>8 DEF WriteChange
  <2>9. CASE Return
    BY <2>9 DEF Return
  <2>10. CASE UNCHANGED vars
    BY <2>10 DEF vars
  <2>11. QED
    BY <2>1, <2>2, <2>3, <2>4, <2>5, <2>6, <2>7, <2>8, <2>9, <2>10 DEF Next
<1>3. QED
  BY <1>1, <1>2, PTL DEF Spec

-----------------------------------------------------------------------------
(* The inductive invariant.                                                 *)

(* An inner task is at work only while the main thread waits for the loops. *)
LEMMA BusyOnlyMatching ==
  ASSUME IInv, NEW o \in Old, NEW n \in New, inner[o][n] \in Busy
  PROVE  main = "matching"
BY DEF IInv, TypeOK, TaskInv, OuterInv, JoinInv, Joined, Busy

LEMMA InnerTaskMatching ==
  ASSUME IInv, NEW o \in Old, NEW n \in New, InnerTask(o, n)
  PROVE  main = "matching"
<1>1. inner[o][n] \in Busy \/ main = "matching"
  BY DEF InnerTask, BeginInner, Compare, ClaimOld, ClaimNew, Place, DrawFrame,
         PaintPixel, EndInner, Step, Busy
<1>2. QED
  BY <1>1, BusyOnlyMatching

(* A step of an inner task moves that task and no other.                    *)
LEMMA StepMovesOne ==
  ASSUME TypeOK, NEW o \in Old, NEW n \in New, NEW from, NEW to,
         Step(o, n, from, to)
  PROVE  /\ inner[o][n] = from
         /\ inner'[o][n] = to
         /\ \A o2 \in Old, n2 \in New :
              o2 # o \/ n2 # n => inner'[o2][n2] = inner[o2][n2]
BY DEF TypeOK, Step

LEMMA IInvInit == Init => IInv
<1> SUFFICES ASSUME Init PROVE IInv
  OBVIOUS
<1>1. TypeOK
  BY DEF Init, TypeOK, InputsOK, Segments, SegmentsOf, VectorOf, Sides
<1>2. QED
  BY <1>1 DEF Init, IInv, TaskInv, OuterInv, FlagInv, PaintInv, JoinInv,
              DrawInv, Flagged, Taken, Segments, SegmentsOf, VectorOf

(* One step of an inner task.                                               *)
LEMMA IInvInner ==
  ASSUME IInv, TypeOK', NEW o \in Old, NEW n \in New, InnerTask(o, n)
  PROVE  IInv'
<1> USE DEF IInv, inputs, tasks, drawing
<1> DEFINE Others == \A o2 \in Old, n2 \in New :
                       o2 # o \/ n2 # n => inner'[o2][n2] = inner[o2][n2]
<1>1. UNCHANGED <<inputs, main, outer, drawing, files>>
  BY DEF InnerTask, BeginInner, Compare, ClaimOld, ClaimNew, Place, DrawFrame,
         PaintPixel, EndInner
<1>2. main = "matching"
  BY InnerTaskMatching
<1>3. JoinInv'
  BY <1>1, <1>2 DEF JoinInv
<1>4. DrawInv'
  BY <1>1, <1>2 DEF DrawInv, TypeOK, SegmentsOf
<1>5. matched \in [Segments -> BOOLEAN] /\ Old \cup New = Segments
  BY DEF TypeOK, Segments
<1>6. outer[o] = "scanning" /\ descriptor[o] /\ o \notin New /\ n \notin Old
  BY SegmentsAssumption
     DEF InnerTask, BeginInner, Compare, ClaimOld, ClaimNew, Place, DrawFrame,
         PaintPixel, EndInner, Step, TypeOK, TaskInv, OuterInv
<1>7. CASE BeginInner(o, n)
  <2>1. inner[o][n] = "todo" /\ Others
        /\ inner'[o][n] = IF Skips(n) THEN "skipped" ELSE "comparing"
    BY <1>7, StepMovesOne DEF BeginInner
  <2>2. TaskInv'
    BY <1>1, <1>5, <1>6, <1>7, <2>1
       DEF BeginInner, Skips, Flagged, TaskInv
  <2>3. OuterInv'
    BY <1>1, <1>5, <1>6, <1>7, <2>1
       DEF BeginInner, OuterInv
  <2>4. FlagInv'
    BY <1>1, <1>5, <1>6, <1>7, <2>1
       DEF BeginInner, Flagged, Taken, FlagInv
  <2>5. PaintInv'
    BY <1>1, <1>5, <1>6, <1>7, <2>1, PaintAssumption
       DEF BeginInner, PaintInv
  <2>6. QED
    BY <1>3, <1>4, <2>2, <2>3, <2>4, <2>5
<1>8. CASE Compare(o, n)
  <2>1. inner[o][n] = "comparing" /\ Others
        /\ inner'[o][n] = IF verdict[o][n] THEN "claim_old" ELSE "skipped"
    BY <1>8, StepMovesOne DEF Compare
  <2>2. TaskInv'
    BY <1>1, <1>5, <1>6, <1>8, <2>1
       DEF Compare, Flagged, TaskInv
  <2>3. OuterInv'
    BY <1>1, <1>5, <1>6, <1>8, <2>1
       DEF Compare, OuterInv
  <2>4. FlagInv'
    BY <1>1, <1>5, <1>6, <1>8, <2>1
       DEF Compare, Flagged, Taken, FlagInv
  <2>5. PaintInv'
    BY <1>1, <1>5, <1>6, <1>8, <2>1, PaintAssumption
       DEF Compare, PaintInv
  <2>6. QED
    BY <1>3, <1>4, <2>2, <2>3, <2>4, <2>5
<1>9. CASE ClaimOld(o, n)
  <2>1. inner[o][n] = "claim_old" /\ Others
        /\ inner'[o][n] = "claim_new"
    BY <1>9, StepMovesOne DEF ClaimOld
  <2>2. TaskInv'
    BY <1>1, <1>5, <1>6, <1>9, <2>1
       DEF ClaimOld, Flagged, TaskInv
  <2>3. OuterInv'
    BY <1>1, <1>5, <1>6, <1>9, <2>1
       DEF ClaimOld, OuterInv
  <2>4. FlagInv'
    BY <1>1, <1>5, <1>6, <1>9, <2>1
       DEF ClaimOld, Flagged, Taken, FlagInv
  <2>5. PaintInv'
    BY <1>1, <1>5, <1>6, <1>9, <2>1, PaintAssumption
       DEF ClaimOld, PaintInv
  <2>6. QED
    BY <1>3, <1>4, <2>2, <2>3, <2>4, <2>5
<1>10. CASE ClaimNew(o, n)
  <2>1. inner[o][n] = "claim_new" /\ Others
        /\ inner'[o][n] = "placing"
    BY <1>10, StepMovesOne DEF ClaimNew
  <2>2. TaskInv'
    BY <1>1, <1>5, <1>6, <1>10, <2>1
       DEF ClaimNew, Flagged, TaskInv
  <2>3. OuterInv'
    BY <1>1, <1>5, <1>6, <1>10, <2>1
       DEF ClaimNew, OuterInv
  <2>4. FlagInv'
    BY <1>1, <1>5, <1>6, <1>10, <2>1
       DEF ClaimNew, Flagged, Taken, FlagInv
  <2>5. PaintInv'
    BY <1>1, <1>5, <1>6, <1>10, <2>1, PaintAssumption
       DEF ClaimNew, PaintInv
  <2>6. QED
    BY <1>3, <1>4, <2>2, <2>3, <2>4, <2>5
<1>11. CASE Place(o, n)
  <2>1. inner[o][n] = "placing" /\ Others
        /\ inner'[o][n] = IF placeable[n] THEN "framing" ELSE "threw"
    BY <1>11, StepMovesOne DEF Place
  <2>2. TaskInv'
    BY <1>1, <1>5, <1>6, <1>11, <2>1
       DEF Place, Flagged, TaskInv
  <2>3. OuterInv'
    BY <1>1, <1>5, <1>6, <1>11, <2>1
       DEF Place, OuterInv
  <2>4. FlagInv'
    BY <1>1, <1>5, <1>6, <1>11, <2>1
       DEF Place, Flagged, Taken, FlagInv
  <2>5. PaintInv'
    BY <1>1, <1>5, <1>6, <1>11, <2>1, PaintAssumption
       DEF Place, PaintInv
  <2>6. QED
    BY <1>3, <1>4, <2>2, <2>3, <2>4, <2>5
<1>12. CASE DrawFrame(o, n)
  <2>1. inner[o][n] = "framing" /\ Others
        /\ inner'[o][n] = "painting"
    BY <1>12, StepMovesOne DEF DrawFrame
  <2>2. TaskInv'
    BY <1>1, <1>5, <1>6, <1>12, <2>1
       DEF DrawFrame, Flagged, TaskInv
  <2>3. OuterInv'
    BY <1>1, <1>5, <1>6, <1>12, <2>1
       DEF DrawFrame, OuterInv
  <2>4. FlagInv'
    BY <1>1, <1>5, <1>6, <1>12, <2>1
       DEF DrawFrame, Flagged, Taken, FlagInv
  <2>5. PaintInv'
    <3>1. matched[n] /\ UNCHANGED matched
      BY <1>12, <2>1 DEF DrawFrame, FlagInv, Flagged, Taken
    <3>2. result' = result \cup Frame[n]
      BY <1>12 DEF DrawFrame
    <3>3. /\ left'[o][n] = Differs[n]
          /\ \A o2 \in Old, n2 \in New :
               o2 # o \/ n2 # n => left'[o2][n2] = left[o2][n2]
      BY <1>12 DEF DrawFrame, TypeOK
    <3>4. QED
      BY <2>1, <3>1, <3>2, <3>3 DEF PaintInv
  <2>6. QED
    BY <1>3, <1>4, <2>2, <2>3, <2>4, <2>5
<1>13. CASE EndInner(o, n)
  <2>1. inner[o][n] = "painting" /\ Others
        /\ inner'[o][n] = "painted"
    BY <1>13, StepMovesOne DEF EndInner
  <2>2. TaskInv'
    BY <1>1, <1>5, <1>6, <1>13, <2>1
       DEF EndInner, Flagged, TaskInv
  <2>3. OuterInv'
    BY <1>1, <1>5, <1>6, <1>13, <2>1
       DEF EndInner, OuterInv
  <2>4. FlagInv'
    BY <1>1, <1>5, <1>6, <1>13, <2>1
       DEF EndInner, Flagged, Taken, FlagInv
  <2>5. PaintInv'
    BY <1>1, <1>5, <1>6, <1>13, <2>1, PaintAssumption
       DEF EndInner, PaintInv
  <2>6. QED
    BY <1>3, <1>4, <2>2, <2>3, <2>4, <2>5
<1>14. CASE PaintPixel(o, n)
  <2>1. UNCHANGED <<inner, matched>>
    BY <1>14 DEF PaintPixel
  <2>2. TaskInv' /\ OuterInv' /\ FlagInv'
    BY <1>1, <2>1 DEF TaskInv, OuterInv, FlagInv
  <2>3. PaintInv'
    <3>1. PICK p \in left[o][n] : /\ result' = result \cup {p}
                                  /\ left' = [left EXCEPT ![o][n] = @ \ {p}]
      BY <1>14 DEF PaintPixel
    <3>2. /\ left'[o][n] = left[o][n] \ {p}
          /\ \A o2 \in Old, n2 \in New :
               o2 # o \/ n2 # n => left'[o2][n2] = left[o2][n2]
      BY <3>1 DEF TypeOK
    <3>3. inner[o][n] = "painting"
      BY <1>14 DEF PaintPixel
    <3>4. matched[n] /\ p \in Differs[n]
      BY <3>3 DEF FlagInv, Flagged, Taken, PaintInv
    <3>5. QED
      BY <2>1, <3>1, <3>2, <3>3, <3>4 DEF PaintInv
  <2>4. QED
    BY <1>3, <1>4, <2>2, <2>3
<1>15. QED
  BY <1>7, <1>8, <1>9, <1>10, <1>11, <1>12, <1>13, <1>14 DEF InnerTask

(* Every step of the specification.                                         *)
LEMMA IInvStep ==
  ASSUME IInv, TypeOK', [Next]_vars
  PROVE  IInv'
<1> USE DEF IInv, inputs, tasks, drawing
<1>1. ASSUME NEW o \in Old, BeginOuter(o)
      PROVE  IInv'
  <2>1. outer[o] = "todo" /\ ~matched[o]
    BY <1>1 DEF BeginOuter, TaskInv, FlagInv, Flagged
  <2>2. /\ outer'[o] = IF ~descriptor[o] THEN "done" ELSE "scanning"
        /\ \A o2 \in Old : o2 # o => outer'[o2] = outer[o2]
    BY <1>1, <2>1 DEF BeginOuter, TypeOK
  <2>3. UNCHANGED <<inputs, main, inner, left, matched, result, drawing>>
    BY <1>1 DEF BeginOuter
  <2>4. TaskInv' /\ OuterInv'
    BY <2>1, <2>2, <2>3 DEF TaskInv, OuterInv
  <2>5. JoinInv'
    BY <1>1, <2>3 DEF BeginOuter, JoinInv
  <2>6. QED
    BY <2>3, <2>4, <2>5 DEF FlagInv, PaintInv, DrawInv
<1>2. ASSUME NEW o \in Old, NEW n \in New, InnerTask(o, n)
      PROVE  IInv'
  BY <1>2, IInvInner
<1>3. ASSUME NEW o \in Old, EndOuter(o)
      PROVE  IInv'
  <2>1. /\ outer'[o] = "done"
        /\ \A o2 \in Old : o2 # o => outer'[o2] = outer[o2]
    BY <1>3 DEF EndOuter, TypeOK
  <2>2. UNCHANGED <<inputs, main, inner, left, matched, result, drawing>>
    BY <1>3 DEF EndOuter
  <2>3. TaskInv' /\ OuterInv'
    BY <1>3, <2>1, <2>2 DEF EndOuter, TaskInv, OuterInv
  <2>4. JoinInv'
    BY <1>3, <2>2 DEF EndOuter, JoinInv
  <2>5. QED
    BY <2>2, <2>3, <2>4 DEF FlagInv, PaintInv, DrawInv
<1>4. ASSUME UNCHANGED <<inputs, tasks>>
      PROVE  TaskInv' /\ OuterInv' /\ FlagInv' /\ PaintInv'
  BY <1>4 DEF TaskInv, OuterInv, FlagInv, PaintInv
<1>5. CASE Abort
  <2>1. \A o \in Old, n \in New : inner[o][n] \notin Busy
    <3> SUFFICES ASSUME NEW o \in Old, NEW n \in New, inner[o][n] \in Busy
                 PROVE  FALSE
      OBVIOUS
    <3>1. <<o, n>> \in Running
      BY DEF Running
    <3>2. QED
      BY <1>5, <3>1 DEF Abort
  <2>2. QED
    BY <1>4, <1>5, <2>1 DEF Abort, JoinInv, DrawInv
<1>6. CASE WriteDiff
  BY <1>4, <1>6, FlagAssumption DEF WriteDiff, JoinInv, Joined, DrawInv
<1>7. ASSUME NEW side \in Sides, BeginChange(side)
      PROVE  IInv'
  BY <1>4, <1>7 DEF BeginChange, JoinInv, Joined, DrawInv, TypeOK
<1>8. ASSUME NEW side \in Sides, DrawNotMatched(side)
      PROVE  IInv'
  BY <1>4, <1>8 DEF DrawNotMatched, Draws, JoinInv, Joined, DrawInv, TypeOK
<1>9. ASSUME NEW side \in Sides, WriteChange(side)
      PROVE  IInv'
  BY <1>4, <1>9 DEF WriteChange, JoinInv, Joined, DrawInv, TypeOK
<1>10. CASE Return
  BY <1>4, <1>10 DEF Return, JoinInv, Joined, DrawInv
<1>11. CASE UNCHANGED vars
  BY <1>4, <1>11 DEF vars, JoinInv, Joined, DrawInv
<1>12. QED
  BY <1>1, <1>2, <1>3, <1>5, <1>6, <1>7, <1>8, <1>9, <1>10, <1>11 DEF Next

LEMMA Inductive == Spec => []IInv
<1>1. IInv /\ TypeOK' /\ [Next]_vars => IInv'
  BY IInvStep
<1>2. QED
  BY <1>1, IInvInit, TypeCorrect, PTL DEF Spec

-----------------------------------------------------------------------------
(* The join.                                                                *)

(* After the join no flag and no pixel changes any more: an inner task that *)
(* could still change one would belong to an outer task that is not done.   *)
THEOREM JoinFreezes == Spec => FrozenAfterJoin
<1>1. IInv /\ [Next]_vars =>
        [main # "matching" => UNCHANGED <<matched, result>>]_vars
  <2> SUFFICES ASSUME IInv, Next, main # "matching"
               PROVE  UNCHANGED <<matched, result>>
    OBVIOUS
  <2>1. \A o \in Old, n \in New : ~InnerTask(o, n)
    BY InnerTaskMatching
  <2>2. QED
    BY <2>1 DEF Next, BeginOuter, EndOuter, Abort, WriteDiff, BeginChange,
                DrawNotMatched, WriteChange, Return, tasks
<1>2. QED
  BY <1>1, Inductive, PTL DEF Spec, FrozenAfterJoin

-----------------------------------------------------------------------------
(* Several claims on one new segment.                                       *)

(* The tasks that got past the test of n's flag and were not refused since. *)
Contenders(n) ==
  {o \in Old : inner[o][n] \in Busy \cup {"painted", "threw"}}

ContenderInv == \A n \in New : Cardinality(Contenders(n)) <= ThreadCount

(* While n's flag is down every contender for n occupies a thread.          *)
LEMMA ContendersRun ==
  ASSUME IInv, NEW n \in New, ~matched[n]
  PROVE  Cardinality(Contenders(n)) <= Cardinality(Running)
<1> DEFINE f == [o \in Contenders(n) |-> <<o, n>>]
<1>1. IsFiniteSet(Running)
  <2>1. IsFiniteSet(Old \X New)
    BY SegmentsAssumption, FS_Product
  <2>2. QED
    BY <2>1, FS_Subset DEF Running
<1>2. \A o \in Contenders(n) : inner[o][n] \in Busy
  BY DEF Contenders, IInv, FlagInv, Taken, Flagged
<1>3. f \in Injection(Contenders(n), Running)
  BY <1>2 DEF Injection, IsInjective, Contenders, Running
<1>4. QED
  BY <1>1, <1>3, FS_Injection

LEMMA ContendersFinite ==
  ASSUME NEW n \in New
  PROVE  IsFiniteSet(Contenders(n)) /\ Cardinality(Contenders(n)) \in Nat
BY SegmentsAssumption, FS_Subset, FS_CardinalityType DEF Contenders

LEMMA ContenderStep ==
  ASSUME IInv, ContenderInv, [Next]_vars
  PROVE  ContenderInv'
<1> USE ThreadAssumption
<1>1. ASSUME NEW n \in New, Contenders(n)' \subseteq Contenders(n)
      PROVE  Cardinality(Contenders(n)') <= ThreadCount
  BY <1>1, ContendersFinite, FS_Subset, FS_CardinalityType DEF ContenderInv
<1>2. CASE UNCHANGED inner
  BY <1>1, <1>2 DEF Contenders, ContenderInv
<1>3. ASSUME NEW o \in Old, NEW n \in New, InnerTask(o, n)
      PROVE  ContenderInv'
  <2>1. TypeOK
    BY DEF IInv
  <2>2. ASSUME NEW n2 \in New, n2 # n
        PROVE  Contenders(n2)' \subseteq Contenders(n2)
    BY <1>3, <2>1, <2>2, StepMovesOne
       DEF Contenders, InnerTask, BeginInner, Compare, ClaimOld, ClaimNew,
           Place, DrawFrame, PaintPixel, EndInner
  <2>3. CASE BeginInner(o, n)
    <3>1. CASE Skips(n)
      <4>1. Contenders(n)' \subseteq Contenders(n)
        BY <2>1, <2>3, <3>1, StepMovesOne DEF BeginInner, Contenders, Busy
      <4>2. QED
        BY <1>1, <2>2, <4>1 DEF ContenderInv
    <3>2. CASE ~Skips(n)
      <4>1. Contenders(n)' = Contenders(n) \cup {o}
        BY <2>1, <2>3, <3>2, StepMovesOne DEF BeginInner, Contenders, Busy
      <4>2. Cardinality(Contenders(n)) < ThreadCount
        <5>1. Cardinality(Contenders(n)) <= Cardinality(Running)
          BY <3>2, ContendersRun DEF Skips
        <5>2. Cardinality(Running) \in Nat
          BY SegmentsAssumption, FS_Product, FS_Subset, FS_CardinalityType
             DEF Running
        <5>3. Cardinality(Running) < ThreadCount
          BY <2>3 DEF BeginInner
        <5>4. QED
          BY <5>1, <5>2, <5>3, ContendersFinite
      <4>3. Cardinality(Contenders(n)') <= ThreadCount
        <5>1. /\ Cardinality(Contenders(n)) \in Nat
              /\ \/ Cardinality(Contenders(n) \cup {o}) = Cardinality(Contenders(n))
                 \/ Cardinality(Contenders(n) \cup {o}) = Cardinality(Contenders(n)) + 1
          BY ContendersFinite, FS_AddElement, Zenon
        <5>2. Cardinality(Contenders(n) \cup {o}) <= ThreadCount
          BY <4>2, <5>1
        <5>3. QED
          BY <4>1, <5>2
      <4>4. QED
        BY <1>1, <2>2, <4>3 DEF ContenderInv
    <3>3. QED
      BY <3>1, <3>2
  <2>4. CASE ~BeginInner(o, n)
    <3>1. Contenders(n)' \subseteq Contenders(n)
      BY <1>3, <2>1, <2>4, StepMovesOne
         DEF Contenders, Busy, InnerTask, Compare, ClaimOld, ClaimNew,
             Place, DrawFrame, PaintPixel, EndInner
    <3>2. QED
      BY <1>1, <2>2, <3>1 DEF ContenderInv
  <2>5. QED
    BY <2>3, <2>4
<1>4. QED
  BY <1>2, <1>3
     DEF Next, vars, tasks, BeginOuter, EndOuter, Abort, WriteDiff,
         BeginChange, DrawNotMatched, WriteChange, Return

(* At most ThreadCount old segments take the same new segment, for any      *)
(* numbers of segments and threads.                                         *)
THEOREM ClaimsBounded == Spec => []ClaimBound
<1>1. Init => ContenderInv
  <2> SUFFICES ASSUME Init, NEW n \in New
               PROVE  Cardinality(Contenders(n)) <= ThreadCount
    BY DEF ContenderInv
  <2>1. Contenders(n) = {}
    BY DEF Init, Contenders, Busy
  <2>2. QED
    BY <2>1, FS_EmptySet, ThreadAssumption
<1>2. ContenderInv => ClaimBound
  <2> SUFFICES ASSUME ContenderInv, NEW n \in New
               PROVE  Cardinality(Claimants(n)) <= ThreadCount
    BY DEF ClaimBound
  <2>1. Claimants(n) \subseteq Contenders(n)
    BY DEF Claimants, Contenders
  <2>2. QED
    BY <2>1, ContendersFinite, FS_Subset, FS_CardinalityType, ThreadAssumption
       DEF ContenderInv
<1>3. IInv /\ ContenderInv /\ [Next]_vars => ContenderInv'
  BY ContenderStep
<1>4. QED
  BY <1>1, <1>2, <1>3, Inductive, PTL DEF Spec

-----------------------------------------------------------------------------
(* The outputs.                                                             *)

(* An exception has left a task only if matchTemplate rejects a segment     *)
(* that some old segment is similar to.                                     *)
LEMMA ThrewDoomed ==
  ASSUME IInv, Threw
  PROVE  Doomed
<1>1. PICK o \in Old, n \in New : inner[o][n] = "threw"
  BY DEF Threw
<1>2. Similar(o, n) /\ ~placeable[n]
  BY <1>1 DEF IInv, TaskInv, Flagged, Similar
<1>3. QED
  BY <1>2 DEF Doomed, Matchable

(* Once the loops have joined, every pair of similar segments has either    *)
(* been painted or found the flag of the new segment up.                    *)
LEMMA JoinedPairs ==
  ASSUME IInv, Joined
  PROVE  /\ \A o \in Old, n \in New : inner[o][n] \in {"todo", "skipped", "painted"}
         /\ \A o \in Old, n \in New : Similar(o, n) => matched[n]
         /\ \A o \in Old, n \in New : inner[o][n] = "painted" => Similar(o, n)
<1>1. ASSUME NEW o \in Old, NEW n \in New
      PROVE  inner[o][n] \in {"todo", "skipped", "painted"}
  BY DEF IInv, Joined, TaskInv, OuterInv
<1>2. ASSUME NEW o \in Old, NEW n \in New, Similar(o, n)
      PROVE  matched[n]
  <2>1. inner[o][n] \in {"skipped", "painted"}
    BY <1>2 DEF IInv, Joined, OuterInv, Similar
  <2>2. QED
    BY <1>2, <2>1 DEF IInv, TaskInv, FlagInv, Taken, Flagged, Similar
<1>3. ASSUME NEW o \in Old, NEW n \in New, inner[o][n] = "painted"
      PROVE  Similar(o, n)
  BY <1>3 DEF IInv, TaskInv, Flagged, Similar
<1>4. QED
  BY <1>1, <1>2, <1>3

(* So the matched new segments are the matchable ones, all of them painted, *)
(* and the matched old segments are a possible set of partners.             *)
LEMMA JoinedFlags ==
  ASSUME IInv, Joined
  PROVE  /\ \A n \in New : matched[n] <=> n \in Matchable
         /\ {o \in Old : matched[o]} \in Partners
         /\ ~Doomed
<1>1. ASSUME NEW n \in New, matched[n]
      PROVE  \E o \in Old : inner[o][n] = "painted"
  BY <1>1, JoinedPairs DEF IInv, FlagInv, Taken, Flagged
<1>2. ASSUME NEW o \in Old, matched[o]
      PROVE  \E n \in New : inner[o][n] = "painted"
  BY <1>2, JoinedPairs DEF IInv, FlagInv, Flagged
<1>3. ASSUME NEW n \in New
      PROVE  matched[n] <=> n \in Matchable
  BY <1>1, JoinedPairs DEF Matchable
<1>4. ASSUME NEW n \in Matchable
      PROVE  /\ placeable[n]
             /\ \E o \in Old : matched[o] /\ Similar(o, n)
  <2>1. n \in New /\ matched[n]
    BY <1>3 DEF Matchable
  <2>2. PICK o \in Old : inner[o][n] = "painted"
    BY <1>1, <2>1
  <2>3. placeable[n]
    BY <2>1, <2>2 DEF IInv, TaskInv
  <2>4. matched[o] /\ Similar(o, n)
    BY <2>1, <2>2, JoinedPairs DEF IInv, FlagInv, Flagged
  <2>5. QED
    BY <2>3, <2>4
<1>5. QED
  BY <1>2, <1>3, <1>4, JoinedPairs DEF Partners, Doomed

(* ... and the red pixels are exactly theirs.                               *)
LEMMA JoinedPaint ==
  ASSUME IInv, Joined
  PROVE  result = RedOf(Matchable)
<1>1. ASSUME NEW p \in result
      PROVE  p \in RedOf(Matchable)
  BY JoinedFlags DEF IInv, PaintInv, RedOf
<1>2. ASSUME NEW p \in RedOf(Matchable)
      PROVE  p \in result
  <2>1. PICK n \in Matchable : p \in Frame[n] \cup Differs[n]
    BY DEF RedOf
  <2>2. n \in New /\ matched[n]
    BY JoinedFlags DEF Matchable
  <2>3. PICK o \in Old : inner[o][n] = "painted"
    BY <2>2, JoinedPairs DEF IInv, FlagInv, Taken, Flagged
  <2>4. QED
    BY <2>1, <2>2, <2>3 DEF IInv, PaintInv
<1>3. QED
  BY <1>1, <1>2

(* The operators of DiffOutcome are those of DiffData.                      *)
LEMMA SameData ==
  /\ Outcome!Matchable = Matchable
  /\ Outcome!RedOf(Outcome!Matchable) = RedOf(Matchable)
  /\ Outcome!Partners = Partners
  /\ Outcome!Doomed = Doomed
BY DEF Outcome!Matchable, Matchable, Outcome!RedOf, RedOf, Outcome!Partners,
       Partners, Outcome!Doomed, Doomed, Outcome!Similar, Similar

(* Every step of the loops is a step of DiffOutcome or leaves its state     *)
(* alone.                                                                   *)
LEMMA OutcomeStep ==
  ASSUME IInv, IInv', [Next]_vars
  PROVE  [Outcome!Next]_(Outcome!vars)
<1> USE DEF inputs, Outcome!inputs, tasks, drawing
<1> DEFINE Same == UNCHANGED <<inputs, main, change, files>>
<1>1. Same => UNCHANGED Outcome!vars
  BY DEF Outcome!vars
<1>2. CASE Same
  BY <1>1, <1>2
<1>3. CASE Abort
  <2>1. Doomed
    BY <1>3, ThrewDoomed DEF Abort
  <2>2. Outcome!Abort
    BY <1>3, <2>1, SameData DEF Abort, Outcome!Abort
  <2>3. QED
    BY <2>2 DEF Outcome!Next
<1>4. CASE WriteDiff
  <2>1. ~Doomed /\ result = RedOf(Matchable)
    BY <1>4, JoinedFlags, JoinedPaint DEF WriteDiff
  <2>2. Outcome!WriteDiff
    BY <1>4, <2>1, SameData, FlagAssumption
       DEF WriteDiff, Outcome!WriteDiff, Imwrite, Outcome!Imwrite
  <2>3. QED
    BY <2>2 DEF Outcome!Next
<1>5. ASSUME NEW side \in Sides, BeginChange(side)
      PROVE  UNCHANGED Outcome!vars
  <2>1. {s \in Sides : change'[s] = "done"} = {s \in Sides : change[s] = "done"}
    BY <1>5 DEF BeginChange, IInv, TypeOK
  <2>2. QED
    BY <1>5, <2>1 DEF BeginChange, Outcome!vars, Outcome!Sides, Sides
<1>6. ASSUME NEW side \in Sides, WriteChange(side)
      PROVE  Outcome!Next
  <2>1. /\ main = "changing"
        /\ Joined
        /\ outlined[side] = {s \in SegmentsOf(side) : ~matched[s]}
    <3>1. main = "changing"
      BY <1>6 DEF WriteChange, IInv, DrawInv
    <3>2. QED
      BY <1>6, <3>1 DEF WriteChange, IInv, JoinInv, DrawInv
  <2>2. /\ UNCHANGED <<inputs, main>>
        /\ files' = Imwrite(files, side, outlined[side])
        /\ change[side] = "drawing"
        /\ {s \in Sides : change'[s] = "done"}
             = {s \in Sides : change[s] = "done"} \cup {side}
    BY <1>6 DEF WriteChange, IInv, TypeOK
  <2>3. CASE side = "delete"
    <3>1. outlined[side] = Old \ {o \in Old : matched[o]}
      BY <2>1, <2>3 DEF SegmentsOf
    <3>2. Outcome!WriteDelete
      BY <2>1, <2>2, <2>3, <3>1, JoinedFlags, SameData
         DEF Outcome!WriteDelete, Imwrite, Outcome!Imwrite
    <3>3. QED
      BY <3>2 DEF Outcome!Next
  <2>4. CASE side = "add"
    <3>1. outlined[side] = New \ Matchable
      BY <2>1, <2>4, JoinedFlags DEF SegmentsOf
    <3>2. Outcome!WriteAdd
      BY <2>1, <2>2, <2>4, <3>1, SameData
         DEF Outcome!WriteAdd, Imwrite, Outcome!Imwrite
    <3>3. QED
      BY <3>2 DEF Outcome!Next
  <2>5. QED
    BY <2>3, <2>4 DEF Sides
<1>7. CASE Return
  <2>1. Outcome!Return
    BY <1>7 DEF Return, Outcome!Return, Outcome!Sides, Sides
  <2>2. QED
    BY <2>1 DEF Outcome!Next
<1>8. ASSUME NEW o \in Old, NEW n \in New, InnerTask(o, n)
      PROVE  Same
  BY <1>8 DEF InnerTask, BeginInner, Compare, ClaimOld, ClaimNew, Place,
              DrawFrame, PaintPixel, EndInner
<1>9. QED
  BY <1>2, <1>3, <1>4, <1>5, <1>6, <1>7, <1>8
     DEF Next, vars, BeginOuter, EndOuter, DrawNotMatched

(* The parallel loops implement DiffOutcome for any segments, verdicts and  *)
(* number of threads: the claims lost or duplicated by the races on the     *)
(* flags never show in the diff or in the added segments, and in the        *)
(* deleted ones only within Partners.                                       *)
THEOREM OutcomeImplemented == Spec => ImplementsOutcome
<1>1. Init => Outcome!Init
  BY DEF Init, Outcome!Init, InputsOK, Outcome!InputsOK, Segments,
         Outcome!Segments, Sides
<1>2. IInv /\ IInv' /\ [Next]_vars => [Outcome!Next]_(Outcome!vars)
  BY OutcomeStep
<1>3. QED
  BY <1>1, <1>2, Inductive, PTL DEF Spec, ImplementsOutcome, Outcome!Spec

-----------------------------------------------------------------------------
(* How long the tasks take.                                                 *)

(* The states that a task, or the main thread, can still come to.           *)
InnerStages == Busy \cup {"ended"}
InnerRest(s) ==
  CASE s = "todo" -> InnerStages
    [] s = "comparing" -> InnerStages \ {"comparing"}
    [] s = "claim_old" -> InnerStages \ {"comparing", "claim_old"}
    [] s = "claim_new" -> {"placing", "framing", "painting", "ended"}
    [] s = "placing" -> {"framing", "painting", "ended"}
    [] s = "framing" -> {"painting", "ended"}
    [] s = "painting" -> {"ended"}
    [] s \in Ended -> {}

OuterStages == {"scanning", "done"}
OuterRest(s) ==
  CASE s = "todo" -> OuterStages
    [] s = "scanning" -> {"done"}
    [] s = "done" -> {}

MainStages == {"changing", "returned"}
MainRest(s) ==
  CASE s = "matching" -> MainStages
    [] s = "changing" -> {"returned"}
    [] s \in {"returned", "aborted"} -> {}

ChangeStages == {"drawing", "done"}
ChangeRest(s) ==
  CASE s = "todo" -> ChangeStages
    [] s = "drawing" -> {"done"}
    [] s = "done" -> {}

(* What is still to be done, one element for every step at most.            *)
MainLeft == MainRest(main)
OuterLeft == {t \in Old \X OuterStages : t[2] \in OuterRest(outer[t[1]])}
InnerLeft ==
  {t \in (Old \X New) \X InnerStages : t[2] \in InnerRest(inner[t[1][1]][t[1][2]])}
PixelsLeft ==
  {t \in (Old \X New) \X Pixels :
     \/ t[2] \in left[t[1][1]][t[1][2]]
     \/ /\ inner[t[1][1]][t[1][2]] \notin Ended \cup {"painting"}
        /\ t[2] \in Differs[t[1][2]]}
ChangeLeft == {t \in Sides \X ChangeStages : t[2] \in ChangeRest(change[t[1]])}
DrawLeft == {t \in Sides \X Segments : t[2] \in pending[t[1]]}

StepsLeft ==
  (Cardinality(MainLeft) + Cardinality(OuterLeft) + Cardinality(InnerLeft))
    + (Cardinality(PixelsLeft) + Cardinality(ChangeLeft) + Cardinality(DrawLeft))

(* Every step, of whichever task, brings the end closer.                    *)
EveryStepCounts == [][StepsLeft' < StepsLeft]_vars

LEMMA PartsFinite ==
  ASSUME TypeOK
  PROVE  /\ IsFiniteSet(MainLeft) /\ IsFiniteSet(OuterLeft)
         /\ IsFiniteSet(InnerLeft) /\ IsFiniteSet(PixelsLeft)
         /\ IsFiniteSet(ChangeLeft) /\ IsFiniteSet(DrawLeft)
<1>1. /\ IsFiniteSet(Old) /\ IsFiniteSet(New) /\ IsFiniteSet(Pixels)
      /\ IsFiniteSet(Old \cup New)
  BY SegmentsAssumption, ImageAssumption, FS_Union
<1>2. \A a : IsFiniteSet({a})
  BY FS_Singleton
<1>3. IsFiniteSet({"changing", "returned"}) /\ IsFiniteSet({"scanning", "done"})
      /\ IsFiniteSet({"drawing", "done"}) /\ IsFiniteSet({"delete", "add"})
  <2>1. ASSUME NEW a, NEW b
        PROVE  IsFiniteSet({a, b})
    <3>1. {a, b} = {a} \cup {b}
      OBVIOUS
    <3>2. IsFiniteSet({a} \cup {b})
      BY <1>2, FS_Union
    <3>3. QED
      BY <3>1, <3>2
  <2>2. QED
    BY <2>1
<1>4. IsFiniteSet(InnerStages)
  <2>1. InnerStages = ({"comparing"} \cup ({"claim_old"} \cup {"claim_new"}))
                        \cup (({"placing"} \cup {"framing"})
                                \cup ({"painting"} \cup {"ended"}))
    BY DEF InnerStages, Busy
  <2>2. IsFiniteSet({"claim_old"} \cup {"claim_new"})
        /\ IsFiniteSet({"placing"} \cup {"framing"})
        /\ IsFiniteSet({"painting"} \cup {"ended"})
    BY <1>2, FS_Union
  <2>3. IsFiniteSet({"comparing"} \cup ({"claim_old"} \cup {"claim_new"}))
        /\ IsFiniteSet(({"placing"} \cup {"framing"}) \cup ({"painting"} \cup {"ended"}))
    BY <1>2, <2>2, FS_Union
  <2>4. QED
    BY <2>1, <2>3, FS_Union
<1>5. IsFiniteSet(Old \X New)
  BY <1>1, FS_Product
<1>6. IsFiniteSet(MainLeft)
  <2>1. MainLeft \in SUBSET {"changing", "returned"}
    BY DEF TypeOK, MainLeft, MainRest, MainStages
  <2>2. QED
    BY <1>3, <2>1, FS_Subset
<1>7. IsFiniteSet(OuterLeft)
  <2>1. OuterLeft \in SUBSET (Old \X OuterStages) /\ IsFiniteSet(Old \X OuterStages)
    BY <1>1, <1>3, FS_Product DEF OuterLeft, OuterStages
  <2>2. QED
    BY <2>1, FS_Subset
<1>8. IsFiniteSet(InnerLeft)
  <2>1. /\ InnerLeft \in SUBSET ((Old \X New) \X InnerStages)
        /\ IsFiniteSet((Old \X New) \X InnerStages)
    BY <1>4, <1>5, FS_Product DEF InnerLeft
  <2>2. QED
    BY <2>1, FS_Subset
<1>9. IsFiniteSet(PixelsLeft)
  <2>1. /\ PixelsLeft \in SUBSET ((Old \X New) \X Pixels)
        /\ IsFiniteSet((Old \X New) \X Pixels)
    BY <1>1, <1>5, FS_Product DEF PixelsLeft
  <2>2. QED
    BY <2>1, FS_Subset
<1>10. IsFiniteSet(ChangeLeft) /\ IsFiniteSet(DrawLeft)
  <2>1. /\ ChangeLeft \in SUBSET (Sides \X ChangeStages)
        /\ DrawLeft \in SUBSET (Sides \X Segments)
    BY DEF ChangeLeft, DrawLeft
  <2>2. IsFiniteSet(Sides \X ChangeStages) /\ IsFiniteSet(Sides \X Segments)
    BY <1>1, <1>3, FS_Product DEF Sides, ChangeStages, Segments
  <2>3. QED
    BY <2>1, <2>2, FS_Subset
<1>11. QED
  BY <1>6, <1>7, <1>8, <1>9, <1>10

(* A set that only loses elements, and the numbers of six such sets.        *)
LEMMA Shrinks ==
  ASSUME NEW S, IsFiniteSet(S), NEW T, T \subseteq S
  PROVE  /\ Cardinality(S) \in Nat /\ Cardinality(T) \in Nat
         /\ Cardinality(T) <= Cardinality(S)
         /\ T # S => Cardinality(T) < Cardinality(S)
<1>1. T \in SUBSET S
  OBVIOUS
<1>2. /\ IsFiniteSet(T) /\ Cardinality(T) <= Cardinality(S)
      /\ Cardinality(S) = Cardinality(T) => S = T
  BY <1>1, FS_Subset
<1>3. Cardinality(S) \in Nat /\ Cardinality(T) \in Nat
  BY <1>2, FS_CardinalityType
<1>4. QED
  BY <1>2, <1>3

LEMMA PartsShrink ==
  ASSUME TypeOK,
         MainLeft' \subseteq MainLeft, OuterLeft' \subseteq OuterLeft,
         InnerLeft' \subseteq InnerLeft, PixelsLeft' \subseteq PixelsLeft,
         ChangeLeft' \subseteq ChangeLeft, DrawLeft' \subseteq DrawLeft,
         \/ MainLeft' # MainLeft \/ OuterLeft' # OuterLeft
         \/ InnerLeft' # InnerLeft \/ PixelsLeft' # PixelsLeft
         \/ ChangeLeft' # ChangeLeft \/ DrawLeft' # DrawLeft
  PROVE  StepsLeft' < StepsLeft
<1> DEFINE Fewer(T, S) ==
             /\ Cardinality(S) \in Nat /\ Cardinality(T) \in Nat
             /\ Cardinality(T) <= Cardinality(S)
             /\ T # S => Cardinality(T) < Cardinality(S)
<1>1. /\ Fewer(MainLeft', MainLeft) /\ Fewer(OuterLeft', OuterLeft)
      /\ Fewer(InnerLeft', InnerLeft) /\ Fewer(PixelsLeft', PixelsLeft)
      /\ Fewer(ChangeLeft', ChangeLeft) /\ Fewer(DrawLeft', DrawLeft)
  BY PartsFinite, Shrinks
<1>2. QED
  BY <1>1 DEF StepsLeft

(* One step of an inner task: it comes to a later state, or has one pixel   *)
(* less to write.                                                           *)
LEMMA InnerCounts ==
  ASSUME IInv, NEW o \in Old, NEW n \in New, InnerTask(o, n)
  PROVE  StepsLeft' < StepsLeft
<1>1. TypeOK
  BY DEF IInv
<1>2. /\ UNCHANGED <<main, outer, change, pending>>
  BY DEF InnerTask, BeginInner, Compare, ClaimOld, ClaimNew, Place, DrawFrame,
         PaintPixel, EndInner, drawing
<1>3. UNCHANGED <<MainLeft, OuterLeft, ChangeLeft, DrawLeft>>
  BY <1>2 DEF MainLeft, OuterLeft, ChangeLeft, DrawLeft
<1>4. CASE PaintPixel(o, n)
  <2>1. PICK p \in left[o][n] : left' = [left EXCEPT ![o][n] = @ \ {p}]
    BY <1>4 DEF PaintPixel
  <2>2. inner[o][n] = "painting" /\ UNCHANGED inner
    BY <1>4 DEF PaintPixel
  <2>3. p \in Pixels
    BY <1>1, <2>1 DEF TypeOK
  <2>4. /\ left'[o][n] = left[o][n] \ {p}
        /\ \A o2 \in Old, n2 \in New :
             o2 # o \/ n2 # n => left'[o2][n2] = left[o2][n2]
    BY <1>1, <2>1 DEF TypeOK
  <2>5. UNCHANGED InnerLeft
    BY <2>2 DEF InnerLeft
  <2>6. PixelsLeft' \subseteq PixelsLeft
    BY <2>2, <2>4 DEF PixelsLeft
  <2>7. <<<<o, n>>, p>> \in PixelsLeft /\ <<<<o, n>>, p>> \notin PixelsLeft'
    BY <2>1, <2>2, <2>3, <2>4 DEF PixelsLeft
  <2>8. QED
    BY <1>1, <1>3, <2>5, <2>6, <2>7, PartsShrink
<1>5. ASSUME NEW from, NEW to, Step(o, n, from, to),
             InnerRest(to) \subseteq InnerRest(from),
             InnerRest(to) # InnerRest(from),
             InnerRest(from) \subseteq InnerStages,
             \/ UNCHANGED left
             \/ from = "framing" /\ left' = [left EXCEPT ![o][n] = Differs[n]],
             from # "painting", from \notin Ended
      PROVE  StepsLeft' < StepsLeft
  <2>1. /\ inner[o][n] = from /\ inner'[o][n] = to
        /\ \A o2 \in Old, n2 \in New :
             o2 # o \/ n2 # n => inner'[o2][n2] = inner[o2][n2]
    BY <1>1, <1>5, StepMovesOne
  <2>2. InnerLeft' \subseteq InnerLeft
    BY <1>5, <2>1 DEF InnerLeft
  <2>3. InnerLeft' # InnerLeft
    <3>1. PICK s \in InnerRest(from) : s \notin InnerRest(to)
      BY <1>5
    <3>2. <<<<o, n>>, s>> \in InnerLeft /\ <<<<o, n>>, s>> \notin InnerLeft'
      BY <1>5, <2>1, <3>1 DEF InnerLeft
    <3>3. QED
      BY <3>2
  <2>4. PixelsLeft' \subseteq PixelsLeft
    <3>1. /\ left'[o][n] \subseteq left[o][n] \cup Differs[n]
          /\ \A o2 \in Old, n2 \in New :
               o2 # o \/ n2 # n => left'[o2][n2] = left[o2][n2]
      BY <1>1, <1>5 DEF TypeOK
    <3>2. QED
      BY <1>5, <2>1, <3>1 DEF PixelsLeft
  <2>5. QED
    BY <1>1, <1>3, <2>2, <2>3, <2>4, PartsShrink
<1>6. CASE EndInner(o, n)
  <2>1. /\ inner[o][n] = "painting" /\ inner'[o][n] = "painted"
        /\ \A o2 \in Old, n2 \in New :
             o2 # o \/ n2 # n => inner'[o2][n2] = inner[o2][n2]
    BY <1>1, <1>6, StepMovesOne DEF EndInner
  <2>2. UNCHANGED left
    BY <1>6 DEF EndInner
  <2>3. InnerLeft' \subseteq InnerLeft
    <3>1. InnerRest("painted") = {}
      BY DEF InnerRest, Ended
    <3>2. QED
      BY <2>1, <3>1 DEF InnerLeft
  <2>4. <<<<o, n>>, "ended">> \in InnerLeft /\ <<<<o, n>>, "ended">> \notin InnerLeft'
    BY <2>1 DEF InnerLeft, InnerRest, InnerStages, Ended
  <2>5. PixelsLeft' \subseteq PixelsLeft
    BY <2>1, <2>2 DEF PixelsLeft, Ended
  <2>6. QED
    BY <1>1, <1>3, <2>3, <2>4, <2>5, PartsShrink
<1>7. CASE BeginInner(o, n)
  <2>1. /\ Step(o, n, "todo", IF Skips(n) THEN "skipped" ELSE "comparing")
        /\ UNCHANGED left
    BY <1>7 DEF BeginInner
  <2>2. PICK to \in {"skipped", "comparing"} : Step(o, n, "todo", to)
    BY <2>1
  <2>3. QED
    BY <1>5, <2>1, <2>2 DEF InnerRest, InnerStages, Busy, Ended
<1>8. CASE Compare(o, n)
  <2>1. /\ Step(o, n, "comparing", IF verdict[o][n] THEN "claim_old" ELSE "skipped")
        /\ UNCHANGED left
    BY <1>8 DEF Compare
  <2>2. PICK to \in {"claim_old", "skipped"} : Step(o, n, "comparing", to)
    BY <2>1
  <2>3. QED
    BY <1>5, <2>1, <2>2 DEF InnerRest, InnerStages, Busy, Ended
<1>9. CASE ClaimOld(o, n)
  <2>1. Step(o, n, "claim_old", "claim_new") /\ UNCHANGED left
    BY <1>9 DEF ClaimOld
  <2>2. QED
    BY <1>5, <2>1 DEF InnerRest, InnerStages, Busy, Ended
<1>10. CASE ClaimNew(o, n)
  <2>1. Step(o, n, "claim_new", "placing") /\ UNCHANGED left
    BY <1>10 DEF ClaimNew
  <2>2. QED
    BY <1>5, <2>1 DEF InnerRest, InnerStages, Busy, Ended
<1>11. CASE Place(o, n)
  <2>1. /\ Step(o, n, "placing", IF placeable[n] THEN "framing" ELSE "threw")
        /\ UNCHANGED left
    BY <1>11 DEF Place
  <2>2. PICK to \in {"framing", "threw"} : Step(o, n, "placing", to)
    BY <2>1
  <2>3. QED
    BY <1>5, <2>1, <2>2 DEF InnerRest, InnerStages, Busy, Ended
<1>12. CASE DrawFrame(o, n)
  <2>1. /\ Step(o, n, "framing", "painting")
        /\ left' = [left EXCEPT ![o][n] = Differs[n]]
    BY <1>12 DEF DrawFrame
  <2>2. QED
    BY <1>5, <2>1 DEF InnerRest, InnerStages, Busy, Ended
<1>13. QED
  BY <1>4, <1>6, <1>7, <1>8, <1>9, <1>10, <1>11, <1>12 DEF InnerTask

LEMMA StepCounts ==
  ASSUME IInv, Next
  PROVE  StepsLeft' < StepsLeft
<1>1. TypeOK
  BY DEF IInv
<1>2. /\ UNCHANGED main => UNCHANGED MainLeft
      /\ UNCHANGED outer => UNCHANGED OuterLeft
      /\ UNCHANGED <<inner, left>> => UNCHANGED <<InnerLeft, PixelsLeft>>
      /\ UNCHANGED change => UNCHANGED ChangeLeft
      /\ UNCHANGED pending => UNCHANGED DrawLeft
  BY DEF MainLeft, OuterLeft, InnerLeft, PixelsLeft, ChangeLeft, DrawLeft
<1>3. ASSUME NEW o \in Old, BeginOuter(o) \/ EndOuter(o)
      PROVE  StepsLeft' < StepsLeft
  <2>1. UNCHANGED <<main, inner, left, change, pending>>
    BY <1>3 DEF BeginOuter, EndOuter, drawing
  <2>2. /\ outer[o] \in {"todo", "scanning"} /\ outer'[o] \in {"scanning", "done"}
        /\ outer'[o] # outer[o]
        /\ \A o2 \in Old : o2 # o => outer'[o2] = outer[o2]
    BY <1>1, <1>3 DEF BeginOuter, EndOuter, TypeOK
  <2>3. OuterRest(outer'[o]) \subseteq OuterRest(outer[o])
    BY <2>2 DEF OuterRest, OuterStages
  <2>4. OuterLeft' \subseteq OuterLeft
    BY <2>2, <2>3 DEF OuterLeft
  <2>5. /\ <<o, outer'[o]>> \in OuterLeft
        /\ <<o, outer'[o]>> \notin OuterLeft'
    BY <2>2 DEF OuterLeft, OuterRest, OuterStages
  <2>6. QED
    BY <1>1, <1>2, <2>1, <2>4, <2>5, PartsShrink
<1>4. CASE Abort \/ WriteDiff \/ Return
  <2>1. UNCHANGED <<outer, inner, left, change, pending>>
    BY <1>4 DEF Abort, WriteDiff, Return, tasks, drawing
  <2>2. \/ main = "matching" /\ main' \in {"changing", "returned", "aborted"}
        \/ main = "changing" /\ main' = "returned"
    BY <1>4 DEF Abort, WriteDiff, Return
  <2>3. MainLeft' \subseteq MainLeft /\ MainLeft' # MainLeft
    BY <2>2 DEF MainLeft, MainRest, MainStages
  <2>4. QED
    BY <1>1, <1>2, <2>1, <2>3, PartsShrink
<1>5. ASSUME NEW side \in Sides, BeginChange(side) \/ WriteChange(side)
      PROVE  StepsLeft' < StepsLeft
  <2>1. UNCHANGED <<main, outer, inner, left, pending>>
    BY <1>5 DEF BeginChange, WriteChange, tasks
  <2>2. /\ \/ change[side] = "todo" /\ change'[side] = "drawing"
           \/ change[side] = "drawing" /\ change'[side] = "done"
        /\ \A side2 \in Sides : side2 # side => change'[side2] = change[side2]
    BY <1>1, <1>5 DEF BeginChange, WriteChange, TypeOK
  <2>3. ChangeRest(change'[side]) \subseteq ChangeRest(change[side])
    BY <2>2 DEF ChangeRest, ChangeStages
  <2>4. ChangeLeft' \subseteq ChangeLeft
    BY <2>2, <2>3 DEF ChangeLeft
  <2>5. /\ <<side, change'[side]>> \in ChangeLeft
        /\ <<side, change'[side]>> \notin ChangeLeft'
    BY <2>2 DEF ChangeLeft, ChangeRest, ChangeStages
  <2>6. QED
    BY <1>1, <1>2, <2>1, <2>4, <2>5, PartsShrink
<1>6. ASSUME NEW side \in Sides, DrawNotMatched(side)
      PROVE  StepsLeft' < StepsLeft
  <2>1. UNCHANGED <<main, outer, inner, left, change>>
    BY <1>6 DEF DrawNotMatched, tasks
  <2>2. PICK s \in pending[side] : pending' = [pending EXCEPT ![side] = @ \ {s}]
    BY <1>6 DEF DrawNotMatched
  <2>3. /\ s \in Segments
        /\ pending'[side] = pending[side] \ {s}
        /\ \A side2 \in Sides : side2 # side => pending'[side2] = pending[side2]
    BY <1>1, <2>2 DEF TypeOK
  <2>4. DrawLeft' \subseteq DrawLeft
    BY <2>3 DEF DrawLeft
  <2>5. <<side, s>> \in DrawLeft /\ <<side, s>> \notin DrawLeft'
    BY <2>2, <2>3 DEF DrawLeft
  <2>6. QED
    BY <1>1, <1>2, <2>1, <2>4, <2>5, PartsShrink
<1>7. QED
  BY <1>3, <1>4, <1>5, <1>6, InnerCounts DEF Next

(* Whatever the number of threads and the interleaving, no step of a task   *)
(* or of the main thread is ever taken back or repeated: every one of them  *)
(* lowers a number that only the inputs' sizes bound, so create_diff_image  *)
(* cannot run on.                                                           *)
THEOREM TasksAreShort == Spec => EveryStepCounts /\ [](StepsLeft \in Nat)
<1>1. IInv /\ [Next]_vars => [StepsLeft' < StepsLeft]_vars
  BY StepCounts
<1>2. IInv => StepsLeft \in Nat
  <2> SUFFICES ASSUME IInv PROVE StepsLeft \in Nat
    OBVIOUS
  <2>1. TypeOK
    BY DEF IInv
  <2>2. QED
    BY <2>1, PartsFinite, FS_CardinalityType DEF StepsLeft
<1>3. QED
  BY <1>1, <1>2, Inductive, PTL DEF Spec, EveryStepCounts

-----------------------------------------------------------------------------
(* The guards of the steps, one disjunct for each kind of actor: a task at  *)
(* work never waits, so it has no guard but its state.                      *)
OuterCanStep(o) ==
  /\ main = "matching"
  /\ \/ outer[o] = "todo"
     \/ outer[o] = "scanning" /\ \A n \in New : inner[o][n] \in {"skipped", "painted"}
InnerCanStep(o, n) ==
  \/ inner[o][n] \in Busy
  \/ /\ main = "matching" /\ outer[o] = "scanning"
     /\ inner[o][n] = "todo" /\ Cardinality(Running) < ThreadCount
MainCanStep ==
  \/ main = "matching" /\ (Joined \/ (Threw /\ Running = {}))
  \/ main = "changing" /\ \A side \in Sides : change[side] = "done"
ChangeCanStep(side) ==
  (main = "changing" /\ change[side] = "todo") \/ change[side] = "drawing"

(* Until the function has ended, somebody can go on.                        *)
NobodyStuck ==
  \/ main \in {"returned", "aborted"}
  \/ MainCanStep
  \/ \E o \in Old : OuterCanStep(o)
  \/ \E o \in Old, n \in New : InnerCanStep(o, n)
  \/ \E side \in Sides : ChangeCanStep(side)

(* With any number of threads, even one, the nested loops never wait for    *)
(* each other for good: as long as the function has not ended, the main     *)
(* thread or some task meets the conditions of its next step, also after    *)
(* an exception.  Together with TasksAreShort this is why it ends.          *)
THEOREM NoDeadlock == Spec => []NobodyStuck
<1>1. IInv => NobodyStuck
  <2> SUFFICES ASSUME IInv, ~NobodyStuck PROVE FALSE
    OBVIOUS
  <2>1. TypeOK
    BY DEF IInv
  <2>2. main \in {"matching", "changing"}
    BY <2>1 DEF TypeOK, NobodyStuck
  <2>3. CASE main = "changing"
    <3>1. PICK side \in Sides : change[side] # "done"
      BY <2>3 DEF NobodyStuck, MainCanStep
    <3>2. change[side] \in {"todo", "drawing"}
      BY <2>1, <3>1 DEF TypeOK
    <3>3. QED
      BY <2>3, <3>2 DEF NobodyStuck, ChangeCanStep
  <2>4. CASE main = "matching"
    <3>1. \A o \in Old, n \in New : inner[o][n] \notin Busy
      BY DEF NobodyStuck, InnerCanStep
    <3>2. Running = {}
      BY <3>1 DEF Running
    <3>3. Cardinality(Running) < ThreadCount
      <4>1. Cardinality(Running) = 0
        BY <3>2, FS_EmptySet
      <4>2. QED
        BY <4>1, ThreadAssumption
    <3>4. ~Threw /\ ~Joined
      BY <2>4, <3>2 DEF NobodyStuck, MainCanStep
    <3>5. PICK o \in Old : outer[o] # "done"
      BY <3>4 DEF Joined
    <3>6. outer[o] = "scanning"
      BY <2>1, <2>4, <3>5 DEF TypeOK, NobodyStuck, OuterCanStep
    <3>7. PICK n \in New : inner[o][n] \notin {"skipped", "painted"}
      BY <2>4, <3>6 DEF NobodyStuck, OuterCanStep
    <3>8. inner[o][n] = "todo"
      BY <2>1, <3>1, <3>4, <3>7 DEF TypeOK, Ended, Threw
    <3>9. QED
      BY <2>4, <3>3, <3>6, <3>8 DEF NobodyStuck, InnerCanStep
  <2>5. QED
    BY <2>2, <2>3, <2>4
<1>2. QED
  BY <1>1, Inductive, PTL
=============================================================================
