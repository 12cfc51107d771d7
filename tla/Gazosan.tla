------------------------------ MODULE Gazosan -------------------------------
(***************************************************************************)
(* main (main.cc) as the sequence of its stages, with the files on disk.    *)
(* The stages' own modules say how each comes to its result; here a result  *)
(* is named after what it was made from, so that one can tell whose pixels  *)
(* an output shows.  The inputs stay mapped and are decoded a second time   *)
(* after outputs have been written (image.cc:363, 370), and an input may be *)
(* an output, say the PREFIX_diff.png of an earlier run.  parse_args has    *)
(* returned when this begins: that it may end the program itself (-h with   *)
(* status 0, Fatal, an exception of stoi) is in CmdLine.                    *)
(***************************************************************************)
Sides == {"old", "new"}
Outputs == {"diff", "delete", "add"}
Names == {"a", "b"} \cup Outputs
OutputOf(side) == IF side = "old" THEN "delete" ELSE "add"

(* What a file or an image holds.                                           *)
Missing == <<"missing">>
Garbage == <<"garbage">>      \* no image, or part of one
Picture(n) == <<"picture", n>>
DiffOf(o, n) == <<"diff", o, n>>
ChangeOf(segs, img) == <<"change", segs, img>>   \* outlines of segs drawn on img
Decodable(c) == c \notin {Missing, Garbage}

VARIABLES
  parallel,  \* built with ENABLE_PARALLEL
  nameOf,    \* nameOf[side]: arg.old_file and arg.new_file
  change,    \* arg.create_change_image
  writable,  \* the outputs that can be opened for writing
  failing,   \* those of them where writing fails then, say on a full disk
  before,    \* the disk when the program starts
  disk,
  color,     \* color[side]: the image load_image has decoded
  segments,  \* segments[side]: the image whose segments they are
  base,      \* base[side]: the image decoded again, to draw on
  stage,     \* stage[side]: the body that makes the change image
  pc,        \* main's stage
  status     \* "running", "exit0", "exit1", "abort" or "crash"

inputs == <<parallel, nameOf, change, writable, failing, before>>
vars == <<inputs, disk, color, segments, base, stage, pc, status>>

Pictures == {Picture(n) : n \in Names}
Diffs == {DiffOf(o, n) : o, n \in Pictures}
Changes == {ChangeOf(s, img) : s \in Pictures, img \in Pictures \cup Diffs}
Images == Pictures \cup Diffs \cup Changes
  \cup {ChangeOf(s, img) : s \in Pictures, img \in Changes}

TypeOK ==
  /\ parallel \in BOOLEAN
  /\ nameOf \in [Sides -> Names] /\ change \in BOOLEAN
  /\ writable \subseteq Outputs /\ failing \subseteq writable
  /\ before \in [Names -> {Missing, Garbage} \cup Pictures]
  /\ disk \in [Names -> {Missing, Garbage} \cup Images]
  /\ color \in [Sides -> {Missing} \cup Pictures]
  /\ segments \in [Sides -> {Missing} \cup Pictures]
  /\ base \in [Sides -> {Missing} \cup Images]
  /\ stage \in [Sides -> {"todo", "decoded", "writing", "written", "threw"}]
  /\ pc \in {"load", "check", "detect", "compare", "diff", "change", "return"}
  /\ status \in {"running", "exit0", "exit1", "abort", "crash"}

(* Any name for an input; an output may be left from an earlier run.        *)
Init ==
  /\ parallel \in BOOLEAN
  /\ nameOf \in [Sides -> Names] /\ nameOf["old"] # "b"
  /\ change \in BOOLEAN
  /\ writable \in SUBSET Outputs /\ failing \in SUBSET writable
  /\ before \in {d \in [Names -> {Missing, Garbage} \cup Pictures] :
       \A n \in Names : \/ d[n] = Picture(n)
                        \/ d[n] = Missing /\ n \in Outputs
                        \/ d[n] \in {Missing, Garbage} /\ \E side \in Sides : n = nameOf[side]}
  /\ disk = before
  /\ color = [side \in Sides |-> Missing]
  /\ segments = [side \in Sides |-> Missing]
  /\ base = [side \in Sides |-> Missing]
  /\ stage = [side \in Sides |-> "todo"]
  /\ pc = "load"
  /\ status = "running"

-----------------------------------------------------------------------------
(* The stages up to the comparison.                                         *)

At(label) == status = "running" /\ pc = label

Load ==
  /\ At("load")
  /\ \A side \in Sides : Decodable(disk[nameOf[side]])
  /\ color' = [side \in Sides |-> disk[nameOf[side]]]
  /\ pc' = "check"
  /\ UNCHANGED <<inputs, disk, segments, base, stage, status>>

(* Fatal or an exception (Startup).  The serial build loads the new image   *)
(* first, otherwise either file may decide.                                 *)
LoadFails ==
  /\ At("load")
  /\ \E side \in Sides :
       /\ ~Decodable(disk[nameOf[side]])
       /\ parallel \/ side = "new" \/ Decodable(disk[nameOf["new"]])
       /\ status' = IF disk[nameOf[side]] = Missing THEN "exit1" ELSE "abort"
  /\ UNCHANGED <<inputs, disk, color, segments, base, stage, pc>>

(* check_histogram_differential never tells an image from itself            *)
(* (Histogram); of others it may say either.                                *)
Verdicts == IF color["old"] = color["new"] THEN {"same"} ELSE {"same", "different"}

Check ==
  /\ At("check")
  /\ \E verdict \in Verdicts :
       IF verdict = "same" THEN status' = "exit1" /\ UNCHANGED pc
                           ELSE pc' = "detect" /\ UNCHANGED status
  /\ UNCHANGED <<inputs, disk, color, segments, base, stage>>

Detect ==
  /\ At("detect")
  /\ segments' = color
  /\ pc' = "compare"
  /\ UNCHANGED <<inputs, disk, color, base, stage, status>>

-----------------------------------------------------------------------------
(* create_diff_image.                                                       *)

CompareThrows ==
  /\ At("compare")
  /\ status' = "abort"
  /\ UNCHANGED <<inputs, disk, color, segments, base, stage, pc>>

(* The serial build returns at the first old segment without a descriptor   *)
(* and at the first pair that does not match.                               *)
LeaveEarly ==
  /\ At("compare")
  /\ ~parallel
  /\ pc' = "return"
  /\ UNCHANGED <<inputs, disk, color, segments, base, stage, status>>

(* imwrite empties the file and then fills it.  Where it cannot open it or  *)
(* cannot fill it, it returns false, and nobody looks: the program goes on. *)
Put(name, content) ==
  disk' = IF name \in writable THEN [disk EXCEPT ![name] = content] ELSE disk
Filled(name, content) == IF name \in failing THEN Garbage ELSE content

OpenDiff ==
  /\ At("compare")
  /\ Put("diff", Garbage)
  /\ pc' = "diff"
  /\ UNCHANGED <<inputs, color, segments, base, stage, status>>

CloseDiff ==
  /\ At("diff")
  /\ Put("diff", Filled("diff", DiffOf(color["old"], color["new"])))
  /\ pc' = IF change THEN "change" ELSE "return"
  /\ UNCHANGED <<inputs, color, segments, base, stage, status>>

(* Two tasks, or first the image of what was deleted.                       *)
MayChangeAny(side) == TRUE
MayChange(side) == parallel \/ side = "old" \/ stage["old"] = "written"

(* What a mapping shows of a file that was written to after it was mapped   *)
(* is unspecified: the old content, the new, or a mixture of both.          *)
Reread(side) ==
  IF disk[nameOf[side]] = color[side] THEN {color[side]}
  ELSE {color[side], disk[nameOf[side]], Garbage}

RedecodeUnchecked(side) ==
  /\ At("change")
  /\ stage[side] = "todo"
  /\ MayChange(side)
  /\ \E img \in Reread(side) : base' = [base EXCEPT ![side] = img]
  /\ stage' = [stage EXCEPT ![side] = "decoded"]
  /\ UNCHANGED <<inputs, disk, color, segments, pc, status>>
Redecode(side) ==
  /\ At("change")
  /\ stage[side] = "todo"
  /\ MayChange(side)
  /\ \E img \in Reread(side) :
       IF Decodable(img)
         THEN base' = [base EXCEPT ![side] = img] /\ stage' = [stage EXCEPT ![side] = "decoded"]
         ELSE UNCHANGED base /\ stage' = [stage EXCEPT ![side] = "threw"]
  /\ UNCHANGED <<inputs, disk, color, segments, pc, status>>

(* The mapping is longer than the file now is: SIGBUS.                      *)
ReadPastEnd(side) ==
  /\ At("change")
  /\ stage[side] = "todo"
  /\ MayChange(side)
  /\ disk[nameOf[side]] # color[side]
  /\ status' = "crash"
  /\ UNCHANGED <<inputs, disk, color, segments, base, stage, pc>>

OpenChange(side) ==
  /\ At("change")
  /\ stage[side] = "decoded"
  /\ Put(OutputOf(side), Garbage)
  /\ stage' = [stage EXCEPT ![side] = "writing"]
  /\ UNCHANGED <<inputs, color, segments, base, pc, status>>

CloseChange(side) ==
  /\ At("change")
  /\ stage[side] = "writing"
  /\ Put(OutputOf(side), Filled(OutputOf(side), ChangeOf(segments[side], base[side])))
  /\ stage' = [stage EXCEPT ![side] = "written"]
  /\ UNCHANGED <<inputs, color, segments, base, pc, status>>

ChangesUnjoined == \E side \in Sides : stage[side] = "written"
ChangesOver == \A side \in Sides : stage[side] = "written"

EndChange ==
  /\ At("change")
  /\ ChangesOver
  /\ pc' = "return"
  /\ UNCHANGED <<inputs, disk, color, segments, base, stage, status>>

(* task_group::wait: no task is under way.                                  *)
SettledAtOnce == TRUE
SettledWhenWritten == \A side \in Sides : stage[side] = "written"
Settled == \A side \in Sides : stage[side] \in {"todo", "written", "threw"}

RethrowAsFatal ==
  /\ At("change")
  /\ \E side \in Sides : stage[side] = "threw"
  /\ Settled
  /\ status' = "exit1"
  /\ UNCHANGED <<inputs, disk, color, segments, base, stage, pc>>
Rethrow ==
  /\ At("change")
  /\ \E side \in Sides : stage[side] = "threw"
  /\ Settled
  /\ status' = "abort"
  /\ UNCHANGED <<inputs, disk, color, segments, base, stage, pc>>

(* The timers are printed, the mappings go with the context.                *)
Return ==
  /\ At("return")
  /\ status' = "exit0"
  /\ UNCHANGED <<inputs, disk, color, segments, base, stage, pc>>

Next ==
  \/ Load \/ LoadFails \/ Check \/ Detect
  \/ CompareThrows \/ LeaveEarly \/ OpenDiff \/ CloseDiff
  \/ \E side \in Sides :
       Redecode(side) \/ ReadPastEnd(side) \/ OpenChange(side) \/ CloseChange(side)
  \/ EndChange \/ Rethrow \/ Return

Spec == Init /\ [][Next]_vars
FairSpec == Spec /\ WF_vars(Next)

-----------------------------------------------------------------------------
(* The outputs that may be rewritten between the two decodings of an input. *)
Rewritten(side) ==
  {"diff"} \cup (IF side = "new" THEN {"delete"} ELSE IF parallel THEN {"add"} ELSE {})

(* The outlines of a side's segments are drawn on the image the segments    *)
(* were found in, although that image is decoded again after outputs were   *)
(* written, unless the input is itself one of the outputs written by then.  *)
DrawnOnItsImage ==
  \A side \in Sides : base[side] # Missing /\ nameOf[side] \notin Rewritten(side) =>
    base[side] = segments[side]

(* What an imwrite leaves of an output: an image where it could, what was   *)
(* there where the file cannot be opened, and part of an image otherwise.   *)
Left(name, content) ==
  IF name \in writable THEN Filled(name, content) ELSE before[name]

(* Exit status 0 of the parallel build: every output is this run's and made *)
(* from the files as they were when it began, however the two tasks of the  *)
(* change images and earlier runs' files interfere; only a change image     *)
(* whose input is itself an output written by then may show something else. *)
(* The status does not tell whether they could be written: an output that   *)
(* cannot be opened is still an earlier run's, one that fails is cut short. *)
OutputsFresh ==
  LET pic(side) == before[nameOf[side]]
  IN parallel /\ status = "exit0" =>
       /\ disk["diff"] = Left("diff", DiffOf(pic("old"), pic("new")))
       /\ change => \A side \in Sides : nameOf[side] \notin Rewritten(side) =>
            disk[OutputOf(side)] = Left(OutputOf(side), ChangeOf(pic(side), pic(side)))

(* Unless the process is killed, a file is half written only where its own  *)
(* imwrite has failed: an exception in one of the two tasks waits for the   *)
(* other one's imwrite, and main's return for both.                         *)
WholeFiles ==
  status \in {"exit0", "exit1", "abort"} =>
    \A n \in Names : disk[n] = Garbage => before[n] = Garbage \/ n \in failing

(* Exit status 1 means that the program has written nothing.                *)
FatalTouchesNothing == status = "exit1" => disk = before

(* The program ends.                                                        *)
Termination == <>(status # "running")
=============================================================================
