----------------------------- MODULE DiffSerial -----------------------------
(***************************************************************************)
(* create_diff_image as built without ENABLE_PARALLEL, the default of       *)
(* CMakeLists.txt (image.cc).  The parallel loops become `for` loops around *)
(* the same bodies, and that changes what the bodies mean:                  *)
(*   - `return`, which ended one task, now leaves create_diff_image (or     *)
(*     draw_not_matched);                                                   *)
(*   - `for (auto image_segment : ...)` iterates over copies, so the flags  *)
(*     set in the body are lost with the copy.                              *)
(***************************************************************************)
EXTENDS DiffData, Sequences

CONSTANTS
  OldOrder,  \* ctx.old_segments, in the order of the vector
  NewOrder   \* ctx.new_segments

(* seq lists every element of S once.                                       *)
Enumerates(seq, S) ==
  /\ seq \in [1 .. Len(seq) -> S]
  /\ \A s \in S : \E k \in 1 .. Len(seq) : seq[k] = s
  /\ \A k, l \in 1 .. Len(seq) : seq[k] = seq[l] => k = l

ASSUME OrderAssumption ==
  /\ Len(OldOrder) \in Nat /\ Enumerates(OldOrder, Old)
  /\ Len(NewOrder) \in Nat /\ Enumerates(NewOrder, New)

VARIABLES
  main,      \* where create_diff_image is
  i, j,      \* the positions of the outer and of the inner loop
  matched,   \* matched[s]: the flag of segment s in the context's vectors
  result,    \* the red pixels of the result image
  files      \* the output files, as <<name, content>> pairs

vars == <<inputs, main, i, j, matched, result, files>>

TypeOK ==
  /\ InputsOK
  /\ main \in {"outer", "inner", "delete", "add", "returned", "aborted"}
  /\ i \in 1 .. Len(OldOrder) + 1
  /\ j \in 1 .. Len(NewOrder) + 1
  /\ matched \in [Segments -> BOOLEAN]
  /\ result \in SUBSET Pixels

Init ==
  /\ InputsOK
  /\ main = "outer"
  /\ i = 1 /\ j = 1
  /\ matched = [s \in Segments |-> FALSE]
  /\ result = {}
  /\ files = {}

-----------------------------------------------------------------------------
(* The head of the outer loop: leave the function, with the `return` meant  *)
(* to end a task, or start the inner loop.                                  *)
BeginOuter ==
  /\ main = "outer"
  /\ i <= Len(OldOrder)
  /\ main' = IF ~descriptor[OldOrder[i]] \/ matched[OldOrder[i]]
               THEN "returned" ELSE "inner"
  /\ j' = 1
  /\ UNCHANGED <<inputs, i, matched, result, files>>

Rejects(o, n) == ~descriptor[n] \/ matched[n] \/ ~verdict[o][n]

(* The test of the inner loop fails: `return`.                              *)
LeaveSkipsOne ==
  /\ main = "inner"
  /\ j <= Len(NewOrder)
  /\ Rejects(OldOrder[i], NewOrder[j])
  /\ j' = j + 1
  /\ UNCHANGED <<inputs, main, i, matched, result, files>>
Leave ==
  /\ main = "inner"
  /\ j <= Len(NewOrder)
  /\ Rejects(OldOrder[i], NewOrder[j])
  /\ main' = "returned"
  /\ UNCHANGED <<inputs, i, j, matched, result, files>>

(* The flags of the vectors after the body has set those of its copies.     *)
FlagsByReference(o, n) == [matched EXCEPT ![o] = TRUE, ![n] = TRUE]
FlagsAfter(o, n) == matched

(* The rest of the inner body, up to an exception or to the next segment.   *)
PaintAgain ==
  /\ main = "inner"
  /\ j <= Len(NewOrder)
  /\ LET o == OldOrder[i]
         n == NewOrder[j]
     IN  /\ ~Rejects(o, n)
         /\ placeable[n]
         /\ result' = result \cup Frame[n] \cup Differs[n]
  /\ UNCHANGED <<inputs, main, i, j, matched, files>>
Paint ==
  /\ main = "inner"
  /\ j <= Len(NewOrder)
  /\ LET o == OldOrder[i]
         n == NewOrder[j]
     IN  /\ ~Rejects(o, n)
         /\ placeable[n]
         /\ matched' = FlagsAfter(o, n)
         /\ result' = result \cup Frame[n] \cup Differs[n]
  /\ j' = j + 1
  /\ UNCHANGED <<inputs, main, i, files>>

(* cv::matchTemplate throws; nothing catches it.                            *)
Throw ==
  /\ main = "inner"
  /\ j <= Len(NewOrder)
  /\ LET o == OldOrder[i]
         n == NewOrder[j]
     IN  /\ ~Rejects(o, n)
         /\ ~placeable[n]
         /\ matched' = FlagsAfter(o, n)
  /\ main' = "aborted"
  /\ UNCHANGED <<inputs, i, j, result, files>>

EndInnerLate ==
  /\ main = "inner"
  /\ j > Len(NewOrder)
  /\ main' = "outer"
  /\ i' = i + 2
  /\ UNCHANGED <<inputs, j, matched, result, files>>
EndInner ==
  /\ main = "inner"
  /\ j > Len(NewOrder)
  /\ main' = "outer"
  /\ i' = i + 1
  /\ UNCHANGED <<inputs, j, matched, result, files>>

(* The loops are through.                                                   *)
WriteDiff ==
  /\ main = "outer"
  /\ i > Len(OldOrder)
  /\ files' = Imwrite(files, "diff", result)
  /\ main' = IF CreateChangeImage THEN "delete" ELSE "returned"
  /\ UNCHANGED <<inputs, i, j, matched, result>>

(* draw_not_matched outlines up to the first matched segment.               *)
Outlined(seq) ==
  {seq[k] : k \in {k \in 1 .. Len(seq) : \A l \in 1 .. k : ~matched[seq[l]]}}

WriteDelete ==
  /\ main = "delete"
  /\ files' = Imwrite(files, "delete", Outlined(OldOrder))
  /\ main' = "add"
  /\ UNCHANGED <<inputs, i, j, matched, result>>

WriteAdd ==
  /\ main = "add"
  /\ files' = Imwrite(files, "add", Outlined(NewOrder))
  /\ main' = "returned"
  /\ UNCHANGED <<inputs, i, j, matched, result>>

Next ==
  \/ BeginOuter \/ Leave \/ Paint \/ Throw \/ EndInner
  \/ WriteDiff \/ WriteDelete \/ WriteAdd

Spec == Init /\ [][Next]_vars

(* A single thread that never waits.                                        *)
FairSpec == Spec /\ WF_vars(Next)

-----------------------------------------------------------------------------
Contents(name) == {f[2] : f \in {g \in files : g[1] = name}}

(* Every old segment matches every new one, and each can be placed.         *)
AllPairs ==
  /\ \A o \in Old : descriptor[o]
  /\ \A o \in Old, n \in New : Similar(o, n) /\ placeable[n]

(* All that is written when the loops are through.                          *)
Complete ==
  LET diff   == Imwrite({}, "diff", RedOf(Matchable))
      change == Imwrite(Imwrite(diff, "delete", Old), "add", New)
  IN  IF CreateChangeImage THEN change ELSE diff

(* The function reaches its outputs exactly when every old segment has a    *)
(* descriptor, no pair is rejected and every new segment can be placed: the *)
(* first `return` or exception leaves it with nothing written.  The diff is *)
(* then that of DiffOutcome, and the change images outline every segment,   *)
(* though all were matched.                                                 *)
AllOrNothing ==
  main \in {"returned", "aborted"} =>
    files = IF AllPairs THEN Complete ELSE {}

(* The function returns, or an exception ends it.                           *)
Termination == <>(main \in {"returned", "aborted"})

(* README.md: gazosan produces PREFIX_diff.png.  Not so in this build: the  *)
(* first old segment without a descriptor (BeginOuter, image.cc:297-298)    *)
(* and the first pair that does not match (Leave, image.cc:304-305) end the *)
(* function without any output.                                             *)
DiffAlwaysWritten ==
  main = "returned" => \A c \in {"diff"} \cap Writable : Contents(c) # {}

(* draw_not_matched outlines the segments that were not matched.  Not so in *)
(* this build: the flags were set on copies, so all segments are outlined.  *)
AddedAreUnmatched ==
  \A drawn \in Contents("add") : drawn \cap Matchable = {}
=============================================================================
