------------------------------- MODULE MCPerf -------------------------------
(***************************************************************************)
(* The timers of a run of gazosan, in the order of the serial build: main,  *)
(* parse_args, load_image, check_histogram_differential with preprocess_    *)
(* image twice, detect_segments with do_detect and what it calls for the    *)
(* old and for the new image (split_segments with "image processing" and    *)
(* "grouping", which an image without contours does not come to, and        *)
(* "compute descriptors"), create_diff_image.                               *)
(***************************************************************************)
EXTENDS Perf

CONSTANTS
  Parallel,   \* the two do_detect run as two tasks
  Stages,     \* the timers of interest; others are left out
  MaxTime

OldTask == {"do old", "split old", "image old", "group old", "desc old"}
NewTask == {"do new", "split new", "image new", "group new", "desc new"}

Path ==
  [s \in {"all"} |-> <<>>]
    @@ [s \in {"parse", "load", "check", "detect", "create"} |-> <<"all">>]
    @@ [s \in {"pre old", "pre new"} |-> <<"all", "check">>]
    @@ [s \in {"do old", "do new"} |-> <<"all", "detect">>]
    @@ [s \in {"split old", "desc old"} |-> <<"all", "detect", "do old">>]
    @@ [s \in {"split new", "desc new"} |-> <<"all", "detect", "do new">>]
    @@ [s \in {"image old", "group old"} |-> <<"all", "detect", "do old", "split old">>]
    @@ [s \in {"image new", "group new"} |-> <<"all", "detect", "do new", "split new">>]
    @@ [s \in {"write"} |-> <<"all", "create">>]
    @@ [s \in {"change"} |-> <<"all", "create", "write">>]

Order == <<"all", "parse", "load", "check", "pre old", "pre new", "detect",
           "do old", "split old", "image old", "group old", "desc old",
           "do new", "split new", "image new", "group new", "desc new",
           "create", "write", "change">>
Rank(s) == CHOOSE k \in DOMAIN Order : Order[k] = s

MCTimes == 0 .. MaxTime
MCNamed ==
  Stages \cap {"do old", "image old", "group old", "desc old",
               "do new", "image new", "group new", "desc new"}
MCOptional == Stages \cap {"group old", "group new", "change"}
MCAround == [s \in Stages |-> ToSet(Path[s]) \cap Stages]
MCEarlier ==
  [s \in Stages |->
     {e \in Stages : /\ Rank(e) < Rank(s)
                     /\ e \notin MCAround[s]
                     /\ ~(Parallel /\ e \in OldTask /\ s \in NewTask)}]
=============================================================================
