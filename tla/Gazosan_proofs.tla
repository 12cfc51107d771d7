--------------------------- MODULE Gazosan_proofs ---------------------------
(***************************************************************************)
(* Theorems about a whole run, in either build.                             *)
(***************************************************************************)
EXTENDS Gazosan, Naturals, TLAPS

(* The variables are functions on their domains.                            *)
Shapes ==
  /\ nameOf \in [Sides -> Names] /\ writable \subseteq Outputs /\ failing \subseteq writable
  /\ disk = [n \in Names |-> disk[n]] /\ before = [n \in Names |-> before[n]]
  /\ color = [s \in Sides |-> color[s]] /\ segments = [s \in Sides |-> segments[s]]
  /\ base = [s \in Sides |-> base[s]]
  /\ stage \in [Sides -> {"todo", "decoded", "writing", "written", "threw"}]
  /\ pc \in {"load", "check", "detect", "compare", "diff", "change", "return"}
  /\ change \in BOOLEAN

(* How far the program is: the change images are begun in their stage only, *)
(* the serial build makes them one after the other, and each way of ending  *)
(* belongs to certain stages.                                               *)
StageInv ==
  /\ pc \notin {"change", "return"} => \A s \in Sides : stage[s] = "todo"
  /\ pc = "change" => change
  /\ ~parallel => stage["new"] = "todo" \/ stage["old"] = "written"
  /\ pc = "return" => \/ \A s \in Sides : stage[s] = "written"
                      \/ (~change \/ ~parallel) /\ \A s \in Sides : stage[s] = "todo"
  /\ status = "exit0" => pc = "return"
  /\ status = "exit1" => pc \in {"load", "check"}
  /\ status = "abort" => pc \in {"load", "compare"} \/ (pc = "change" /\ Settled)

(* The images in memory are those the files held when the program began.    *)
ImageInv ==
  /\ pc # "load" => \A s \in Sides : color[s] = before[nameOf[s]]
  /\ pc \in {"compare", "diff", "change", "return"} => segments = color
  /\ pc \in {"load", "check", "detect"} => \A s \in Sides : base[s] = Missing
  /\ \A s \in Sides : stage[s] = "todo" => base[s] = Missing
  /\ \A s \in Sides : stage[s] \in {"decoded", "writing", "written"} =>
       (nameOf[s] \notin Rewritten(s) => base[s] = color[s])
  /\ \A s \in Sides : stage[s] = "threw" => base[s] = Missing

(* What is on disk at each stage: an output is as it was until it is opened *)
(* for writing, and this run's once it has been closed, or cut short.       *)
DiskInv ==
  /\ \A n \in Names \ writable : disk[n] = before[n]
  /\ pc \in {"load", "check", "detect", "compare"} => disk = before
  /\ \A s \in Sides : stage[s] \in {"todo", "decoded", "threw"} =>
       disk[OutputOf(s)] = before[OutputOf(s)]
  /\ \A s \in Sides : stage[s] = "written" /\ OutputOf(s) \in writable =>
       disk[OutputOf(s)] = Filled(OutputOf(s), ChangeOf(segments[s], base[s]))
  /\ pc = "change" \/ (pc = "return" /\ parallel) =>
       ("diff" \in writable =>
          disk["diff"] = Filled("diff", DiffOf(color["old"], color["new"])))
  /\ pc = "return" /\ ~parallel /\ "diff" \in writable =>
       disk["diff"] \in {before["diff"], Filled("diff", DiffOf(color["old"], color["new"]))}

GInv == Shapes /\ StageInv /\ ImageInv /\ DiskInv

-----------------------------------------------------------------------------
(* Outputs are images, and no two outputs share a name.                     *)
LEMMA Constructors ==
  /\ \A o, n : DiffOf(o, n) # Garbage /\ ChangeOf(o, n) # Garbage
  /\ \A s \in Sides : OutputOf(s) \in Outputs \ {"diff"}
  /\ OutputOf("old") # OutputOf("new")
  BY DEF DiffOf, ChangeOf, Garbage, OutputOf, Sides, Outputs

LEMMA InitGInv == Init => GInv
  <1> SUFFICES ASSUME Init PROVE GInv
    OBVIOUS
  <1>1. Shapes
    BY DEF Init, Shapes
  <1>2. StageInv /\ ImageInv /\ DiskInv
    BY DEF Init, StageInv, ImageInv, DiskInv, Sides, Names, Outputs, OutputOf
  <1> QED BY <1>1, <1>2 DEF GInv

(* The stages before the first output change neither disk nor change images. *)
LEMMA EarlyStep ==
  ASSUME GInv,
         Load \/ LoadFails \/ Check \/ Detect \/ CompareThrows \/ LeaveEarly
  PROVE  GInv'
  <1> USE DEF GInv, Shapes, StageInv, ImageInv, DiskInv, inputs, At, Sides, Names, Outputs
  <1>1. CASE Load
    BY <1>1 DEF Load, OutputOf, Settled, Rewritten, Filled
  <1>2. CASE LoadFails
    BY <1>2 DEF LoadFails, OutputOf, Settled, Rewritten, Filled
  <1>3. CASE Check
    BY <1>3 DEF Check, OutputOf, Settled, Rewritten, Filled
  <1>4. CASE Detect
    BY <1>4 DEF Detect, OutputOf, Settled, Rewritten, Filled
  <1>5. CASE CompareThrows
    BY <1>5 DEF CompareThrows, OutputOf, Settled, Rewritten, Filled
  <1>6. CASE LeaveEarly
    BY <1>6 DEF LeaveEarly, OutputOf, Settled, Rewritten, Filled
  <1> QED BY <1>1, <1>2, <1>3, <1>4, <1>5, <1>6

LEMMA DiffStep ==
  ASSUME GInv, OpenDiff \/ CloseDiff
  PROVE  GInv'
  <1> USE DEF GInv, Shapes, StageInv, ImageInv, DiskInv, inputs, At, Sides, Names, Outputs
  <1>1. CASE OpenDiff
    BY <1>1 DEF OpenDiff, Put, Filled, OutputOf, Settled, Rewritten
  <1>2. CASE CloseDiff
    BY <1>2 DEF CloseDiff, Put, Filled, OutputOf, Settled, Rewritten
  <1> QED BY <1>1, <1>2

(* A file that is decoded again still holds what it held at the start       *)
(* unless it is an output that may have been written by then.               *)
LEMMA StillThere ==
  ASSUME GInv, NEW s \in Sides, pc = "change", stage[s] = "todo", MayChange(s),
         nameOf[s] \notin Rewritten(s)
  PROVE  disk[nameOf[s]] = color[s]
  <1>1. nameOf[s] \in Names /\ color[s] = before[nameOf[s]]
    BY DEF GInv, Shapes, ImageInv
  <1>2. CASE nameOf[s] \notin Outputs
    BY <1>1, <1>2 DEF GInv, DiskInv, Shapes
  <1>3. CASE nameOf[s] = OutputOf(s)
    BY <1>1, <1>3 DEF GInv, DiskInv
  <1>4. CASE s = "old" /\ nameOf[s] = "add" /\ ~parallel
    BY <1>1, <1>4 DEF GInv, DiskInv, StageInv, OutputOf, Sides
  <1> QED BY <1>1, <1>2, <1>3, <1>4 DEF Rewritten, OutputOf, Outputs, Sides, Names

LEMMA ChangeStep ==
  ASSUME GInv, NEW side \in Sides,
         Redecode(side) \/ ReadPastEnd(side) \/ OpenChange(side) \/ CloseChange(side)
  PROVE  GInv'
  <1>1. CASE Redecode(side)
    <2>1. PICK img \in Reread(side) :
            IF Decodable(img)
              THEN base' = [base EXCEPT ![side] = img]
                     /\ stage' = [stage EXCEPT ![side] = "decoded"]
              ELSE UNCHANGED base /\ stage' = [stage EXCEPT ![side] = "threw"]
      BY <1>1 DEF Redecode
    <2>2. nameOf[side] \notin Rewritten(side) => img = color[side]
      BY <1>1, StillThere DEF Reread, Redecode, At
    <2> USE <2>1 DEF GInv, Redecode, At, inputs
    <2>3. Shapes'
      BY <1>1 DEF Shapes
    <2>4. StageInv'
      BY <1>1 DEF StageInv, MayChange, Shapes, Sides
    <2>5. ImageInv'
      BY <1>1, <2>2 DEF ImageInv, Shapes, Rewritten, Sides
    <2>6. DiskInv'
      BY <1>1 DEF DiskInv, Filled, Shapes, OutputOf, Sides
    <2> QED BY <2>3, <2>4, <2>5, <2>6
  <1>2. CASE ReadPastEnd(side)
    BY <1>2 DEF GInv, Shapes, StageInv, ImageInv, DiskInv, ReadPastEnd, At, inputs, Settled, Rewritten,
                Filled
  <1>3. CASE OpenChange(side)
    <2> USE <1>3 DEF GInv, OpenChange, Put, At, inputs
    <2>1. Shapes'
      BY DEF Shapes
    <2>2. StageInv'
      BY DEF StageInv, Shapes, Sides
    <2>3. ImageInv'
      BY DEF ImageInv, Shapes, Rewritten, Sides
    <2>4. DiskInv'
      BY DEF DiskInv, Filled, Shapes, OutputOf, Sides, Names, Outputs
    <2> QED BY <2>1, <2>2, <2>3, <2>4
  <1>4. CASE CloseChange(side)
    <2> USE <1>4 DEF GInv, CloseChange, Put, At, inputs
    <2>1. Shapes'
      BY DEF Shapes
    <2>2. StageInv'
      BY DEF StageInv, Shapes, Sides
    <2>3. ImageInv'
      BY DEF ImageInv, Shapes, Rewritten, Sides
    <2>4. DiskInv'
      BY DEF DiskInv, Filled, Shapes, OutputOf, Sides, Names, Outputs
    <2> QED BY <2>1, <2>2, <2>3, <2>4
  <1> QED BY <1>1, <1>2, <1>3, <1>4

LEMMA LastStep ==
  ASSUME GInv, EndChange \/ Rethrow \/ Return
  PROVE  GInv'
  <1> USE DEF GInv, Shapes, StageInv, ImageInv, DiskInv, inputs, At, Sides, Names, Outputs
  <1>1. CASE EndChange
    BY <1>1 DEF EndChange, ChangesOver, OutputOf, Rewritten, Filled
  <1>2. CASE Rethrow
    BY <1>2 DEF Rethrow, Settled, OutputOf, Rewritten, Filled
  <1>3. CASE Return
    BY <1>3 DEF Return, Settled, OutputOf, Rewritten, Filled
  <1> QED BY <1>1, <1>2, <1>3

(* No step of the program disturbs the invariant.                           *)
LEMMA NextGInv == GInv /\ [Next]_vars => GInv'
  <1> SUFFICES ASSUME GInv, [Next]_vars PROVE GInv'
    OBVIOUS
  <1>1. CASE Next
    BY <1>1, EarlyStep, DiffStep, ChangeStep, LastStep DEF Next
  <1>2. CASE UNCHANGED vars
    <2>1. Shapes' /\ StageInv'
      BY <1>2 DEF vars, inputs, GInv, Shapes, StageInv, Settled
    <2>2. ImageInv'
      BY <1>2 DEF vars, inputs, GInv, ImageInv, Rewritten
    <2>3. DiskInv'
      BY <1>2 DEF vars, inputs, GInv, DiskInv, Filled
    <2> QED BY <2>1, <2>2, <2>3 DEF GInv
  <1> QED BY <1>1, <1>2

LEMMA Inductive == Spec => []GInv
  BY InitGInv, NextGInv, PTL DEF Spec

-----------------------------------------------------------------------------
(* In either build the outlines of a side's segments are drawn on the image *)
(* that the segments were found in, although it is decoded a second time,   *)
(* unless the input is an output that was written in between.               *)
THEOREM OutlinesOnTheirImage == Spec => []DrawnOnItsImage
  <1>1. GInv => DrawnOnItsImage
    BY DEF GInv, Shapes, ImageInv, StageInv, DrawnOnItsImage, Sides
  <1> QED BY <1>1, Inductive, PTL

(* Exit status 0 of the parallel build means that the outputs, as far as    *)
(* they could be written, are made from the inputs as they were when the    *)
(* program began, except that a change image whose input is itself an       *)
(* output written by then may show that.                                    *)
THEOREM FreshOutputs == Spec => []OutputsFresh
  <1>1. GInv => OutputsFresh
    <2> SUFFICES ASSUME GInv, parallel, status = "exit0"
                 PROVE  OutputsFresh
      BY DEF OutputsFresh
    <2>1. pc = "return"
      BY DEF GInv, StageInv
    <2>2. \A s \in Sides : color[s] = before[nameOf[s]] /\ segments[s] = color[s]
      BY <2>1 DEF GInv, ImageInv
    <2>3. \A n \in Outputs : n \notin writable => disk[n] = before[n]
      BY DEF GInv, DiskInv, Names
    <2>4. disk["diff"] = Left("diff", DiffOf(color["old"], color["new"]))
      BY <2>1, <2>3 DEF GInv, DiskInv, Left, Outputs
    <2>5. ASSUME change, NEW s \in Sides, nameOf[s] \notin Rewritten(s)
          PROVE  disk[OutputOf(s)] = Left(OutputOf(s), ChangeOf(color[s], color[s]))
      <3>1. stage[s] = "written"
        BY <2>1, <2>5 DEF GInv, StageInv
      <3>2. base[s] = color[s] /\ segments[s] = color[s]
        BY <3>1, <2>2, <2>5 DEF GInv, ImageInv
      <3>3. OutputOf(s) \in Outputs
        BY Constructors
      <3> QED BY <3>1, <3>2, <3>3, <2>3 DEF GInv, DiskInv, Left
    <2> QED BY <2>2, <2>4, <2>5 DEF OutputsFresh, Sides
  <1> QED BY <1>1, Inductive, PTL

(* Exit status 1 means that nothing has been written.                       *)
THEOREM FatalWritesNothing == Spec => []FatalTouchesNothing
  <1>1. GInv => FatalTouchesNothing
    BY DEF GInv, StageInv, DiskInv, FatalTouchesNothing
  <1> QED BY <1>1, Inductive, PTL

(* However the program ends by itself, it leaves a file half written only   *)
(* where its imwrite has failed: the tasks of the change images are joined  *)
(* before main returns and before an exception goes on.                     *)
THEOREM FilesAreWhole == Spec => []WholeFiles
  <1>1. GInv => WholeFiles
    <2> SUFFICES ASSUME GInv, status \in {"exit0", "exit1", "abort"}, NEW n \in Names,
                        disk[n] = Garbage, disk[n] # before[n], n \notin failing
                 PROVE  FALSE
      BY DEF WholeFiles
    <2>1. n \in writable /\ n \in {"diff", "delete", "add"}
      BY DEF GInv, DiskInv, Shapes, Outputs
    <2>2. pc = "return" \/ (pc = "change" /\ Settled)
      BY DEF GInv, StageInv, DiskInv
    <2>3. CASE n = "diff"
      BY <2>1, <2>2, <2>3, Constructors DEF GInv, DiskInv, Filled
    <2>4. ASSUME NEW s \in Sides, n = OutputOf(s) PROVE FALSE
      <3>1. stage[s] \in {"todo", "written", "threw"}
        BY <2>2 DEF GInv, StageInv, Settled
      <3> QED BY <2>1, <2>4, <3>1, Constructors DEF GInv, DiskInv, Filled
    <2> QED BY <2>1, <2>3, <2>4 DEF OutputOf, Sides
  <1> QED BY <1>1, Inductive, PTL

-----------------------------------------------------------------------------
(* How deep images nest.  An input that is decoded again may be the other   *)
(* side's change image, but then that one is finished, and was not made     *)
(* from this side's.                                                        *)
Plain == {Missing, Garbage} \cup Pictures
Flat == Pictures \cup Diffs
Drawn(s) == stage[s] \in {"decoded", "writing", "written"}

KindInv ==
  /\ parallel \in BOOLEAN
  /\ before \in [Names -> Plain]
  /\ status \in {"running", "exit0", "exit1", "abort", "crash"}
  /\ \A s \in Sides : color[s] \in Pictures \/ (color[s] = Missing /\ pc = "load")
  /\ \A s \in Sides : segments[s] \in Pictures \cup {Missing}

NestInv ==
  /\ \A s \in Sides : ~Drawn(s) => base[s] = Missing
  /\ \A s \in Sides : Drawn(s) => base[s] \in Flat \cup Changes
  /\ \A s, o \in Sides : s # o /\ Drawn(s) => base[s] \in Flat \/ stage[o] = "written"

FileInv ==
  /\ \A n \in {"a", "b"} : disk[n] \in Plain
  /\ disk["diff"] \in Plain \cup Diffs
  /\ \A s \in Sides : stage[s] # "written" => disk[OutputOf(s)] \in Plain
  /\ \A s \in Sides : disk[OutputOf(s)] \in Plain \cup {ChangeOf(segments[s], base[s])}

TInv == KindInv /\ NestInv /\ FileInv

(* What may be found in the file of a side that has not been redecoded.     *)
LEMMA FoundAgain ==
  ASSUME GInv, TInv, NEW s \in Sides, stage[s] = "todo", pc = "change"
  PROVE  /\ disk[nameOf[s]] \in Plain \cup Diffs \cup Changes
         /\ \A o \in Sides : s # o =>
              disk[nameOf[s]] \in Plain \cup Diffs \/ stage[o] = "written"
  <1>1. nameOf[s] \in {"a", "b", "diff"} \/ \E o \in Sides : nameOf[s] = OutputOf(o)
    BY DEF GInv, Shapes, Names, Outputs, OutputOf, Sides
  <1>2. CASE nameOf[s] \in {"a", "b", "diff"}
    BY <1>2 DEF TInv, FileInv
  <1>3. ASSUME NEW o \in Sides, nameOf[s] = OutputOf(o)
        PROVE  /\ disk[nameOf[s]] \in Plain \cup Diffs \cup Changes
               /\ \A q \in Sides : s # q =>
                    disk[nameOf[s]] \in Plain \cup Diffs \/ stage[q] = "written"
    <2>1. CASE stage[o] # "written"
      BY <1>3, <2>1 DEF TInv, FileInv
    <2>2. CASE stage[o] = "written"
      <3>1. s # o /\ Drawn(o) /\ stage[s] # "written"
        BY <2>2 DEF Drawn
      <3>2. base[o] \in Flat
        BY <3>1 DEF TInv, NestInv
      <3>3. segments[o] \in Pictures
        BY DEF GInv, ImageInv, TInv, KindInv
      <3>4. ChangeOf(segments[o], base[o]) \in Changes
        BY <3>2, <3>3 DEF Changes, Flat
      <3>5. disk[nameOf[s]] \in Plain \cup Changes
        BY <1>3, <3>4 DEF TInv, FileInv
      <3>6. \A q \in Sides : s # q => q = o
        BY <3>1 DEF Sides
      <3> QED BY <2>2, <3>5, <3>6
    <2> QED BY <2>1, <2>2
  <1> QED BY <1>1, <1>2, <1>3

LEMMA InitTInv ==
  ASSUME Init
  PROVE  TInv
  <1>1. before \in [Names -> Plain] /\ disk = before
    BY DEF Init, Plain
  <1>2. KindInv
    BY <1>1 DEF Init, KindInv
  <1>3. NestInv
    BY DEF Init, NestInv, Drawn
  <1>4. FileInv
    <2>1. \A n \in Names : disk[n] \in Plain
      BY <1>1
    <2>2. {"a", "b", "diff"} \subseteq Names /\ \A s \in Sides : OutputOf(s) \in Names
      BY DEF Names, Outputs, OutputOf
    <2> QED BY <2>1, <2>2 DEF FileInv
  <1> QED BY <1>2, <1>3, <1>4 DEF TInv

(* The steps that leave the disk and the change images alone.               *)
LEMMA QuietStep ==
  ASSUME GInv, TInv,
         \/ Load \/ LoadFails \/ Check \/ Detect \/ CompareThrows \/ LeaveEarly
         \/ EndChange \/ Rethrow \/ Return \/ \E side \in Sides : ReadPastEnd(side)
  PROVE  TInv'
  <1>1. UNCHANGED <<parallel, nameOf, writable, failing, before, disk, base, stage>>
    BY DEF Load, LoadFails, Check, Detect, CompareThrows, LeaveEarly, EndChange, Rethrow,
           Return, ReadPastEnd, inputs
  <1>2. status' \in {"running", "exit0", "exit1", "abort", "crash"}
    BY DEF Load, LoadFails, Check, Detect, CompareThrows, LeaveEarly, EndChange, Rethrow,
           Return, ReadPastEnd, TInv, KindInv
  <1>3. \A s \in Sides : color'[s] \in Pictures \/ (color'[s] = Missing /\ pc' = "load")
    <2>1. CASE Load
      <3>1. color' = [s \in Sides |-> before[nameOf[s]]]
        BY <2>1 DEF Load, At, GInv, DiskInv
      <3>2. \A s \in Sides : Decodable(before[nameOf[s]]) /\ nameOf[s] \in Names
        BY <2>1 DEF Load, At, GInv, DiskInv, Shapes
      <3>3. \A s \in Sides : before[nameOf[s]] \in Pictures
        BY <3>2 DEF TInv, KindInv, Plain, Decodable
      <3> QED BY <3>1, <3>3
    <2>2. CASE ~Load
      <3>1. color' = color /\ (pc = "load" => pc' = "load")
        BY <2>2 DEF LoadFails, Check, Detect, CompareThrows, LeaveEarly, EndChange,
                    Rethrow, Return, ReadPastEnd, At
      <3> QED BY <3>1 DEF TInv, KindInv
    <2> QED BY <2>1, <2>2
  <1>4. /\ \A s \in Sides : segments'[s] \in Pictures \cup {Missing}
        /\ \A s \in Sides : stage[s] = "written" => segments'[s] = segments[s]
    <2>1. CASE Detect
      BY <2>1 DEF Detect, At, TInv, KindInv, GInv, StageInv
    <2>2. CASE ~Detect
      <3>1. segments' = segments
        BY <2>2 DEF Load, LoadFails, Check, CompareThrows, LeaveEarly, EndChange,
                    Rethrow, Return, ReadPastEnd
      <3> QED BY <3>1 DEF TInv, KindInv
    <2> QED BY <2>1, <2>2
  <1>5. KindInv'
    BY <1>1, <1>2, <1>3, <1>4 DEF TInv, KindInv
  <1>6. NestInv'
    BY <1>1 DEF TInv, NestInv, Drawn
  <1>7. FileInv'
    <2>1. \A s \in Sides : \/ disk[OutputOf(s)] \in Plain
                           \/ disk[OutputOf(s)] = ChangeOf(segments'[s], base[s])
      BY <1>4 DEF TInv, FileInv
    <2> QED BY <1>1, <2>1 DEF TInv, FileInv
  <1> QED BY <1>5, <1>6, <1>7 DEF TInv

LEMMA WriteDiffStep ==
  ASSUME GInv, TInv, OpenDiff \/ CloseDiff
  PROVE  TInv'
  <1>1. /\ UNCHANGED <<parallel, before, color, segments, base, stage, status>>
        /\ pc \in {"compare", "diff"} /\ pc' # "load"
    BY DEF OpenDiff, CloseDiff, At, inputs
  <1>2. PICK c \in Plain \cup Diffs : Put("diff", c)
    <2>1. Garbage \in Plain /\ DiffOf(color["old"], color["new"]) \in Diffs
      BY <1>1 DEF Plain, Diffs, TInv, KindInv, Sides
    <2>2. CASE OpenDiff
      <3>1. Put("diff", Garbage)
        BY <2>2 DEF OpenDiff
      <3> QED BY <2>1, <3>1
    <2>3. CASE CloseDiff
      <3>1. \/ Put("diff", DiffOf(color["old"], color["new"]))
            \/ Put("diff", Garbage)
        BY <2>3 DEF CloseDiff, Filled
      <3> QED BY <2>1, <3>1
    <2> QED BY <2>2, <2>3
  <1>3. disk'["diff"] \in Plain \cup Diffs /\ \A n \in Names \ {"diff"} : disk'[n] = disk[n]
    <2>1. "diff" \in Names /\ disk = [n \in Names |-> disk[n]]
      BY DEF Names, Outputs, GInv, Shapes
    <2> QED BY <1>2, <2>1 DEF Put, TInv, FileInv
  <1>4. KindInv'
    BY <1>1 DEF TInv, KindInv
  <1>5. NestInv'
    BY <1>1 DEF TInv, NestInv, Drawn
  <1>6. FileInv'
    <2>1. {"a", "b"} \subseteq Names \ {"diff"} /\ \A s \in Sides : OutputOf(s) \in Names \ {"diff"}
      BY DEF Names, Outputs, OutputOf
    <2> QED BY <1>1, <1>3, <2>1 DEF TInv, FileInv
  <1> QED BY <1>4, <1>5, <1>6 DEF TInv

LEMMA RedecodeStep ==
  ASSUME GInv, TInv, NEW side \in Sides, Redecode(side)
  PROVE  TInv'
  <1>1. PICK img \in Reread(side) :
          IF Decodable(img)
            THEN base' = [base EXCEPT ![side] = img]
                   /\ stage' = [stage EXCEPT ![side] = "decoded"]
            ELSE UNCHANGED base /\ stage' = [stage EXCEPT ![side] = "threw"]
    BY DEF Redecode
  <1>2. /\ pc = "change" /\ stage[side] = "todo"
        /\ UNCHANGED <<parallel, before, disk, color, segments, pc, status>>
    BY DEF Redecode, At, inputs
  <1>3. /\ img \in Plain \cup Diffs \cup Changes
        /\ \A o \in Sides : side # o => img \in Plain \cup Diffs \/ stage[o] = "written"
    <2>1. color[side] \in Plain /\ Garbage \in Plain
      BY <1>2 DEF TInv, KindInv, Plain
    <2> QED BY <1>2, <2>1, FoundAgain DEF Reread
  <1>4. /\ stage' \in [Sides -> {"todo", "decoded", "writing", "written", "threw"}]
        /\ stage'[side] \in {"decoded", "threw"}
        /\ \A s \in Sides : s # side => stage'[s] = stage[s] /\ base'[s] = base[s]
        /\ stage'[side] = "decoded" => Decodable(img) /\ base'[side] = img
        /\ stage'[side] = "threw" => base'[side] = base[side]
    BY <1>1 DEF GInv, Shapes
  <1>5. KindInv'
    BY <1>2 DEF TInv, KindInv
  <1>6. NestInv'
    <2>1. img \in Plain \cup Diffs /\ Decodable(img) => img \in Flat
      BY DEF Plain, Flat, Decodable
    <2>2. img \in Plain \cup Diffs \cup Changes /\ Decodable(img) => img \in Flat \cup Changes
      BY DEF Plain, Flat, Decodable
    <2>3. \A s \in Sides : Drawn(s)' <=> (IF s = side THEN stage'[s] = "decoded" ELSE Drawn(s))
      BY <1>4 DEF Drawn
    <2>4. \A s \in Sides : ~Drawn(s)' => base'[s] = Missing
      BY <1>2, <1>4, <2>3 DEF TInv, NestInv, Drawn
    <2>5. \A s \in Sides : Drawn(s)' => base'[s] \in Flat \cup Changes
      BY <1>3, <1>4, <2>2, <2>3 DEF TInv, NestInv
    <2>6. ASSUME NEW s \in Sides, NEW o \in Sides, s # o, Drawn(s)'
          PROVE  base'[s] \in Flat \/ stage'[o] = "written"
      <3>1. CASE s = side
        BY <1>3, <1>4, <2>1, <2>3, <2>6, <3>1
      <3>2. CASE s # side
        <4>1. stage[o] = "written" => o # side
          BY <1>2
        <4> QED BY <1>4, <2>3, <2>6, <3>2, <4>1 DEF TInv, NestInv
      <3> QED BY <3>1, <3>2
    <2> QED BY <2>4, <2>5, <2>6 DEF NestInv
  <1>7. FileInv'
    <2>1. \A s \in Sides : stage'[s] = "written" => stage[s] = "written" /\ base'[s] = base[s]
      BY <1>4
    <2>2. \A s \in Sides : stage'[s] # "written" => disk[OutputOf(s)] \in Plain
      BY <1>2, <1>4 DEF TInv, FileInv
    <2>3. \A s \in Sides : disk[OutputOf(s)] \in Plain \cup {ChangeOf(segments[s], base'[s])}
      BY <2>1, <2>2 DEF TInv, FileInv
    <2> QED BY <1>2, <2>2, <2>3 DEF TInv, FileInv
  <1> QED BY <1>5, <1>6, <1>7 DEF TInv

LEMMA WriteChangeStep ==
  ASSUME GInv, TInv, NEW side \in Sides, OpenChange(side) \/ CloseChange(side)
  PROVE  TInv'
  <1>1. /\ UNCHANGED <<parallel, before, color, segments, base, pc, status>>
        /\ stage[side] \in {"decoded", "writing"} /\ Drawn(side)
    BY DEF OpenChange, CloseChange, At, inputs, Drawn
  <1>2. /\ stage'[side] \in {"writing", "written"}
        /\ \A s \in Sides : s # side => stage'[s] = stage[s]
    BY DEF OpenChange, CloseChange, GInv, Shapes
  <1>3. \A s \in Sides : Drawn(s)' <=> Drawn(s)
    BY <1>1, <1>2 DEF Drawn
  <1>4. KindInv'
    BY <1>1 DEF TInv, KindInv
  <1>5. NestInv'
    <2>1. \A o \in Sides : stage[o] = "written" => stage'[o] = "written"
      BY <1>1, <1>2
    <2> QED BY <1>1, <1>3, <2>1 DEF TInv, NestInv
  <1>6. /\ \A n \in Names : n # OutputOf(side) => disk'[n] = disk[n]
        /\ disk'[OutputOf(side)] \in Plain \cup {ChangeOf(segments[side], base[side])}
        /\ stage'[side] # "written" => disk'[OutputOf(side)] \in Plain
    <2>1. OutputOf(side) \in Names /\ disk = [n \in Names |-> disk[n]] /\ Garbage \in Plain
      BY DEF Names, Outputs, OutputOf, GInv, Shapes, Plain
    <2>2. CASE OpenChange(side)
      BY <1>1, <2>1, <2>2 DEF OpenChange, Put, TInv, FileInv
    <2>3. CASE CloseChange(side)
      <3>1. stage'[side] = "written"
        BY <2>3 DEF CloseChange, GInv, Shapes
      <3> QED BY <1>1, <2>1, <2>3, <3>1 DEF CloseChange, Put, Filled, TInv, FileInv
    <2> QED BY <2>2, <2>3
  <1>7. FileInv'
    <2>1. /\ {"a", "b", "diff"} \subseteq Names
          /\ \A s \in Sides : OutputOf(s) \in Names /\ OutputOf(s) \notin {"a", "b", "diff"}
          /\ \A s \in Sides : OutputOf(s) = OutputOf(side) => s = side
      BY DEF Names, Outputs, OutputOf, Sides
    <2>2. \A n \in {"a", "b", "diff"} : disk'[n] = disk[n]
      BY <1>6, <2>1
    <2>3. \A s \in Sides : s # side => disk'[OutputOf(s)] = disk[OutputOf(s)]
      BY <1>6, <2>1
    <2> QED BY <1>1, <1>2, <1>6, <2>2, <2>3 DEF TInv, FileInv
  <1> QED BY <1>4, <1>5, <1>7 DEF TInv

LEMMA NextTInv == GInv /\ TInv /\ [Next]_vars => TInv'
  <1> SUFFICES ASSUME GInv, TInv, [Next]_vars PROVE TInv'
    OBVIOUS
  <1>1. CASE Next
    BY <1>1, QuietStep, WriteDiffStep, RedecodeStep, WriteChangeStep DEF Next
  <1>2. CASE UNCHANGED vars
    BY <1>2 DEF vars, inputs, TInv, KindInv, NestInv, FileInv, Drawn
  <1> QED BY <1>1, <1>2

(* However inputs and outputs share names, what a run leaves on disk and    *)
(* draws on is an input, the picture of differences or at most two change   *)
(* images upon one another: the two tasks cannot each draw on the other's.  *)
THEOREM RunTypeCorrect == Spec => []TypeOK
  <1>1. Init => TInv
    BY InitTInv
  <1>2. GInv /\ TInv => TypeOK
    <2> SUFFICES ASSUME GInv, TInv PROVE TypeOK
      OBVIOUS
    <2>1. Flat \cup Changes \subseteq Images /\ Plain \cup Diffs \subseteq {Missing, Garbage} \cup Images
      BY DEF Flat, Images, Plain
    <2>2. ASSUME NEW s \in Sides PROVE base[s] \in {Missing} \cup Images
      BY <2>1 DEF TInv, NestInv
    <2>3. ASSUME NEW s \in Sides PROVE disk[OutputOf(s)] \in {Missing, Garbage} \cup Images
      <3>1. CASE stage[s] # "written"
        BY <2>1, <3>1 DEF TInv, FileInv
      <3>2. CASE stage[s] = "written"
        <4>1. base[s] \in Flat \cup Changes
          BY <3>2 DEF TInv, NestInv, Drawn
        <4>2. segments[s] \in Pictures
          <5>1. pc \in {"change", "return"}
            BY <3>2 DEF GInv, StageInv
          <5> QED BY <5>1 DEF GInv, ImageInv, TInv, KindInv
        <4>3. ChangeOf(segments[s], base[s]) \in Images
          BY <4>1, <4>2 DEF Images, Changes, Flat
        <4> QED BY <2>1, <4>3 DEF TInv, FileInv
      <3> QED BY <3>1, <3>2
    <2>4. \A n \in Names : disk[n] \in {Missing, Garbage} \cup Images
      <3>1. \A n \in Names : n \in {"a", "b", "diff"} \/ \E s \in Sides : n = OutputOf(s)
        BY DEF Names, Outputs, OutputOf, Sides
      <3>2. \A n \in {"a", "b", "diff"} : disk[n] \in {Missing, Garbage} \cup Images
        BY <2>1 DEF TInv, FileInv
      <3> QED BY <2>3, <3>1, <3>2
    <2>5. /\ disk \in [Names -> {Missing, Garbage} \cup Images]
          /\ base \in [Sides -> {Missing} \cup Images]
      BY <2>2, <2>4 DEF GInv, Shapes
    <2>6. /\ color \in [Sides -> {Missing} \cup Pictures]
          /\ segments \in [Sides -> {Missing} \cup Pictures]
      BY DEF GInv, Shapes, TInv, KindInv
    <2> QED BY <2>5, <2>6 DEF TypeOK, GInv, Shapes, TInv, KindInv, Plain
  <1> QED BY <1>1, <1>2, Inductive, NextTInv, PTL DEF Spec

-----------------------------------------------------------------------------
(* How long a run is.                                                       *)

(* The steps that main, the body of a change image and the process have     *)
(* before them at most.                                                     *)
MainLeft ==
  CASE pc = "load" -> 6 [] pc = "check" -> 5 [] pc = "detect" -> 4 [] pc = "compare" -> 3
    [] pc = "diff" -> 2 [] pc = "change" -> 1 [] OTHER -> 0
BodyLeft(side) ==
  CASE stage[side] = "todo" -> 3 [] stage[side] = "decoded" -> 2
    [] stage[side] = "writing" -> 1 [] OTHER -> 0
StatusLeft == IF status = "running" THEN 1 ELSE 0
StepsLeft == MainLeft + BodyLeft("old") + BodyLeft("new") + StatusLeft

EveryStepCounts == [][StepsLeft' < StepsLeft]_vars

LEMMA StepCounts ==
  ASSUME GInv, GInv', Next
  PROVE  StepsLeft' < StepsLeft
  <1>1. /\ MainLeft \in 0 .. 6 /\ MainLeft' \in 0 .. 6
        /\ StatusLeft \in 0 .. 1 /\ StatusLeft' \in 0 .. 1
        /\ \A s \in Sides : BodyLeft(s) \in 0 .. 3 /\ BodyLeft(s)' \in 0 .. 3
    BY DEF MainLeft, StatusLeft, BodyLeft
  <1>2. /\ UNCHANGED pc => MainLeft' = MainLeft
        /\ UNCHANGED status => StatusLeft' = StatusLeft
        /\ \A s \in Sides : stage'[s] = stage[s] => BodyLeft(s)' = BodyLeft(s)
    BY DEF MainLeft, StatusLeft, BodyLeft
  <1>3. "old" \in Sides /\ "new" \in Sides
    BY DEF Sides
  <1>4. ASSUME MainLeft' < MainLeft, UNCHANGED <<stage, status>>
        PROVE  StepsLeft' < StepsLeft
    BY <1>1, <1>2, <1>3, <1>4 DEF StepsLeft
  <1>5. ASSUME status = "running", status' # "running", UNCHANGED <<stage, pc>>
        PROVE  StepsLeft' < StepsLeft
    <2>1. StatusLeft' < StatusLeft
      BY <1>5 DEF StatusLeft
    <2> QED BY <1>1, <1>2, <1>3, <1>5, <2>1 DEF StepsLeft
  <1>6. CASE Load \/ Detect \/ LeaveEarly \/ OpenDiff \/ CloseDiff \/ EndChange
    BY <1>4, <1>6 DEF Load, Detect, LeaveEarly, OpenDiff, CloseDiff, EndChange, At, MainLeft
  <1>7. CASE LoadFails \/ CompareThrows \/ Rethrow \/ Return
    BY <1>5, <1>7 DEF LoadFails, CompareThrows, Rethrow, Return, At
  <1>8. CASE Check
    <2>1. CASE pc' = "detect" /\ UNCHANGED status
      BY <1>4, <1>8, <2>1 DEF Check, At, MainLeft
    <2>2. CASE status' = "exit1" /\ UNCHANGED pc
      BY <1>5, <1>8, <2>2 DEF Check, At
    <2> QED BY <1>8, <2>1, <2>2 DEF Check
  <1>9. ASSUME NEW side \in Sides, ReadPastEnd(side)
        PROVE  StepsLeft' < StepsLeft
    BY <1>5, <1>9 DEF ReadPastEnd, At
  <1>10. ASSUME NEW side \in Sides, Redecode(side) \/ OpenChange(side) \/ CloseChange(side)
         PROVE  StepsLeft' < StepsLeft
    <2>1. /\ BodyLeft(side)' < BodyLeft(side) /\ UNCHANGED <<pc, status>>
          /\ \A s \in Sides : s # side => stage'[s] = stage[s]
      BY <1>10 DEF Redecode, OpenChange, CloseChange, BodyLeft, GInv, Shapes
    <2>2. side = "old" \/ side = "new"
      BY DEF Sides
    <2> QED BY <1>1, <1>2, <1>3, <2>1, <2>2 DEF StepsLeft
  <1> QED BY <1>6, <1>7, <1>8, <1>9, <1>10 DEF Next

(* In either build and whatever the files are, a run goes through at most   *)
(* 13 steps, each of which brings it nearer to its end: neither the serial  *)
(* order of the change images nor the join of their tasks sends it back.    *)
THEOREM RunIsShort == Spec => EveryStepCounts /\ [](StepsLeft \in 0 .. 13)
  <1>1. GInv /\ GInv' /\ [Next]_vars => [StepsLeft' < StepsLeft]_vars
    BY StepCounts
  <1>2. GInv => StepsLeft \in 0 .. 13
    BY DEF GInv, Shapes, Sides, StepsLeft, MainLeft, BodyLeft, StatusLeft
  <1> QED BY <1>1, <1>2, Inductive, PTL DEF Spec, EveryStepCounts
=============================================================================
