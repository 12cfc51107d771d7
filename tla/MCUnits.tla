------------------------------ MODULE MCUnits -------------------------------
(***************************************************************************)
(* Five functions that the program calls one at a time, checked in one run: *)
(* detect_segments, the placing of a segment, descriptor_match, check_      *)
(* histogram_differential and parse_args.  A behaviour exercises one of     *)
(* them, and the variables of the others stay as they are after a call.     *)
(***************************************************************************)
EXTENDS Detect, Placement, DescriptorMatch, Histogram, CmdLine, TLC

CONSTANTS MaxArgs, MaxMore  \* bounds on arguments in all, and after those for the files

(* There is something to call each function with.                           *)
ASSUME UnitsAssumption ==
  /\ Rows1 >= 1 /\ Rows2 >= 1 /\ \E d \in Distances : d <= Threshold
  /\ NumBins >= 2 /\ MaxCount >= 1
  /\ "-h" \in Words

VARIABLE unit    \* the function that is called

unitVars == <<unit, vars, placeVars, matchVars, histVars, cmdVars>>

(* What std::stoi returns for those of the words that begin with a number.  *)
MCNumber == "0" :> 0 @@ "7" :> 7 @@ "-1" :> -1
UpTo(n) == UNION {[1 .. k -> Words] : k \in 0 .. n}
MCCommandLines ==
  UpTo(MaxArgs) \cup {<<"-new", "image", "-old", "image">> \o more : more \in UpTo(MaxMore)}

(* The states in which the functions that are not called are left.          *)
DetectIdle ==
  /\ rects = [side \in Sides |-> <<>>] /\ segments = rects
  /\ task = [side \in Sides |-> "done"] /\ waiting = [side \in Sides |-> {}]
  /\ returned = TRUE

PlaceIdle ==
  /\ oldSize = <<1, 1>> /\ newSize = <<1, 1>>
  /\ area = [x |-> 0, y |-> 0, width |-> 1, height |-> 1] /\ rect = area
  /\ pc = "done" /\ i = 1 /\ j = 0 /\ red = {<<0, 0>>}

MatchIdle ==
  /\ size = <<1, 1>>
  /\ distance = <<<<CHOOSE d \in Distances : d <= Threshold>>>>
  /\ cross_check = FALSE
  /\ match12 = <<1>> /\ match21 = <<1>>
  /\ lists = <<Forward, Backward>> /\ looked = 0
  /\ step = "done" /\ similar = TRUE

HistogramIdle ==
  /\ old = CHOOSE h \in Histograms : \A b \in Bins : h[b] <= 1
  /\ new = old /\ bin = NumBins + 1 /\ num = 0 /\ den = 1 /\ answer = "same"

CmdIdle ==
  /\ args = <<"-h">> /\ index = 1 /\ status = "help"
  /\ arg = [new_file |-> Empty, old_file |-> Empty, output_name |-> Empty,
            bin_threshold |-> 200, thread_count |-> 0, flags |-> {}]

UnitsInit ==
  /\ unit \in {"detect", "place", "match", "histogram", "parse"}
  /\ IF unit = "detect" THEN Init ELSE DetectIdle
  /\ IF unit = "place" THEN PlaceInit ELSE PlaceIdle
  /\ IF unit = "match" THEN MatchInit ELSE MatchIdle
  /\ IF unit = "histogram" THEN HistInit ELSE HistogramIdle
  /\ IF unit = "parse" THEN CmdInit ELSE CmdIdle

UnitsNext ==
  /\ \/ /\ unit = "detect"
        /\ Next
        /\ UNCHANGED <<placeVars, matchVars, histVars, cmdVars>>
     \/ /\ unit = "place"
        /\ PlaceNext
        /\ UNCHANGED <<vars, matchVars, histVars, cmdVars>>
     \/ /\ unit = "match"
        /\ MatchNext
        /\ UNCHANGED <<vars, placeVars, histVars, cmdVars>>
     \/ /\ unit = "histogram"
        /\ HistNext
        /\ UNCHANGED <<vars, placeVars, matchVars, cmdVars>>
     \/ /\ unit = "parse"
        /\ CmdNext
        /\ UNCHANGED <<vars, placeVars, matchVars, histVars>>
  /\ UNCHANGED unit

(* Each function runs on its own and never waits for something outside it.  *)
UnitsSpec == UnitsInit /\ [][UnitsNext]_unitVars /\ WF_unitVars(UnitsNext)

-----------------------------------------------------------------------------
(* All five keep to their types; for detect_segments this says that no task *)
(* holds an index past the end of the vector of segments.                   *)
UnitsTypeOK == TypeOK /\ PlaceTypeOK /\ MatchTypeOK /\ HistTypeOK /\ CmdTypeOK

(* The two functions that might go on for ever both come to an end:         *)
(* detect_segments although tasks of two images and of their segments wait  *)
(* for each other, parse_args although every option decides by itself how   *)
(* far the loop moves on.                                                   *)
CallsEnd == Termination /\ ParseEnds
=============================================================================
