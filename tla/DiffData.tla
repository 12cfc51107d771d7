------------------------------ MODULE DiffData ------------------------------
(***************************************************************************)
(* The data that create_diff_image (image.cc) works on, and what the pairs  *)
(* of segments it may match say about its outputs.  Shared by the abstract  *)
(* specification of the outputs (DiffOutcome) and by the two builds of the  *)
(* function (DiffParallel with ENABLE_PARALLEL, DiffSerial without).        *)
(***************************************************************************)
EXTENDS Naturals, FiniteSets

CONSTANTS
  Old,               \* ctx.old_segments, as a set of identities
  New,               \* ctx.new_segments
  Pixels,            \* the pixels of the result image
  Frame,             \* Frame[n]: pixels of cv::rectangle around n's place in old
  Differs,           \* Differs[n]: pixels of that place where old and new differ
  CreateChangeImage, \* ctx.arg.create_change_image
  Writable           \* the outputs cv::imwrite manages to write

ASSUME SegmentsAssumption ==
  /\ IsFiniteSet(Old) /\ IsFiniteSet(New)
  /\ Old \cap New = {}

(* Painting keeps to the image.  With a segment larger than the old image   *)
(* it may not (image.cc:313, 322); that case is in Placement, AccessInside. *)
ASSUME PaintAssumption ==
  /\ Frame \in [New -> SUBSET Pixels]
  /\ Differs \in [New -> SUBSET Pixels]

ASSUME ImageAssumption == IsFiniteSet(Pixels)

ASSUME FlagAssumption == CreateChangeImage \in BOOLEAN

VARIABLES
  descriptor,        \* descriptor[s]: s.descriptor is not empty
  verdict,           \* verdict[o][n]: what descriptor_match answers on <<o, n>>
  placeable          \* placeable[n]: cv::matchTemplate accepts n.roi

(* What detect_segments and the libraries hand to create_diff_image.  The   *)
(* function asks descriptor_match about a pair at most once, so a verdict   *)
(* fixed in advance stands for whatever the randomised FLANN search says.   *)
inputs == <<descriptor, verdict, placeable>>

Segments == Old \cup New

InputsOK ==
  /\ descriptor \in [Segments -> BOOLEAN]
  /\ verdict \in [Old -> [New -> BOOLEAN]]
  /\ placeable \in [New -> BOOLEAN]

(* The two images of create_change_image, and the segments each is about.   *)
Sides == {"delete", "add"}
SegmentsOf(side) == IF side = "delete" THEN Old ELSE New

(* imwrite's result is ignored: an output that cannot be written, or not to *)
(* its end, is no image of this run afterwards, and the program goes on.    *)
Imwrite(files, name, content) ==
  IF name \in Writable THEN files \cup {<<name, content>>} ELSE files

Similar(o, n) == descriptor[o] /\ descriptor[n] /\ verdict[o][n]

(* The new segments that some old segment is similar to.                    *)
Matchable == {n \in New : \E o \in Old : Similar(o, n)}

(* All that painting a set of new segments turns red.                       *)
RedOf(N) == UNION {Frame[n] \cup Differs[n] : n \in N}

(* The sets of old segments that may come out as matched: each is similar   *)
(* to a new segment, and together they account for every matchable one.     *)
Partners ==
  {D \in SUBSET Old : /\ \A o \in D : \E n \in New : Similar(o, n)
                      /\ \A n \in Matchable : \E o \in D : Similar(o, n)}

(* A matchable segment that cannot be placed makes matchTemplate throw.     *)
Doomed == \E n \in Matchable : ~placeable[n]
=============================================================================
