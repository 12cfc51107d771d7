---------------------------- MODULE DiffOutcome -----------------------------
(***************************************************************************)
(* What create_diff_image promises, without loops, tasks or flags: which    *)
(* files it leaves behind for given segments and verdicts.                  *)
(*   - PREFIX_diff.png is a function of the inputs: the places of all       *)
(*     matchable new segments are painted, whoever matched them;            *)
(*   - PREFIX_add.png outlines exactly the new segments nobody is similar   *)
(*     to;                                                                  *)
(*   - PREFIX_delete.png outlines the old segments outside some set of      *)
(*     Partners: here, and only here, the schedule has a say;               *)
(*   - when matchTemplate rejects a segment nothing is written at all.      *)
(***************************************************************************)
EXTENDS DiffData

VARIABLES
  stage,             \* "comparing", "changing", "returned" or "aborted"
  written,           \* the sides of create_change_image that are finished
  files              \* the output files, as <<name, content>> pairs

vars == <<inputs, stage, written, files>>

Init ==
  /\ InputsOK
  /\ stage = "comparing"
  /\ written = {}
  /\ files = {}

WriteDiff ==
  /\ stage = "comparing"
  /\ ~Doomed
  /\ files' = Imwrite(files, "diff", RedOf(Matchable))
  /\ stage' = IF CreateChangeImage THEN "changing" ELSE "returned"
  /\ UNCHANGED <<inputs, written>>

Abort ==
  /\ stage = "comparing"
  /\ Doomed
  /\ stage' = "aborted"
  /\ UNCHANGED <<inputs, written, files>>

WriteDelete ==
  /\ stage = "changing"
  /\ "delete" \notin written
  /\ written' = written \cup {"delete"}
  /\ \E D \in Partners : files' = Imwrite(files, "delete", Old \ D)
  /\ UNCHANGED <<inputs, stage>>

WriteAdd ==
  /\ stage = "changing"
  /\ "add" \notin written
  /\ written' = written \cup {"add"}
  /\ files' = Imwrite(files, "add", New \ Matchable)
  /\ UNCHANGED <<inputs, stage>>

Return ==
  /\ stage = "changing"
  /\ written = Sides
  /\ stage' = "returned"
  /\ UNCHANGED <<inputs, written, files>>

Next == WriteDiff \/ Abort \/ WriteDelete \/ WriteAdd \/ Return

Spec == Init /\ [][Next]_vars
=============================================================================
