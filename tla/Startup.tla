------------------------------ MODULE Startup -------------------------------
(***************************************************************************)
(* From the arguments to two loaded images: load_image (image.cc) with      *)
(* MappedFile::must_open, the verdict of check_histogram_differential as    *)
(* main uses it (main.cc), and the two ways out of the program, Fatal with  *)
(* its SyncOut (gazosan.h) and an exception that nobody catches.  In the    *)
(* parallel build the two files are loaded by two tasks.                    *)
(***************************************************************************)
EXTENDS Naturals, Sequences

CONSTANT Parallel   \* built with ENABLE_PARALLEL

ASSUME BuildAssumption == Parallel \in BOOLEAN

Sides == {"new", "old"}
Threads == Sides \cup {"main"}

(* What may be wrong with an input file: ::open, fstat or mmap fails, it is *)
(* empty, or imdecode makes nothing of it.                                  *)
Unreadable == {"missing", "no_stat", "no_map"}
Undecodable == {"empty", "garbage"}

VARIABLES
  file,      \* file[side]: the state of the input file
  same,      \* the histograms are close enough to count as the same
  task,      \* task[side]: the body that loads the file
  color,     \* color[side]: the colour image is not empty
  main,      \* where main is
  printer,   \* printer[t]: how far thread t's Fatal has got
  mu,        \* SyncOut::mu: its owner, or "free"
  stderr,    \* what was written, as <<thread, "text" or "newline">>
  status     \* "running", "exit1" or "abort"

inputs == <<file, same>>
vars == <<inputs, task, color, main, printer, mu, stderr, status>>

TypeOK ==
  /\ file \in [Sides -> {"image"} \cup Unreadable \cup Undecodable]
  /\ same \in BOOLEAN
  /\ task \in [Sides -> {"todo", "opened", "loaded", "threw", "fatal"}]
  /\ color \in [Sides -> BOOLEAN]
  /\ main \in {"loading", "checking", "fatal", "continuing"}
  /\ printer \in [Threads -> {"quiet", "formatted", "locked", "texted", "printed"}]
  /\ mu \in Threads \cup {"free"}
  /\ stderr \in Seq(Threads \X {"text", "newline"})
  /\ status \in {"running", "exit1", "abort"}

Init ==
  /\ file \in [Sides -> {"image"} \cup Unreadable \cup Undecodable]
  /\ same \in BOOLEAN
  /\ task = [side \in Sides |-> "todo"]
  /\ color = [side \in Sides |-> FALSE]
  /\ main = "loading"
  /\ printer = [t \in Threads |-> "quiet"]
  /\ mu = "free"
  /\ stderr = <<>>
  /\ status = "running"

-----------------------------------------------------------------------------
(* Loading.                                                                 *)

(* The serial build loads the new image first.                              *)
MayStart(side) == Parallel \/ side = "new" \/ task["new"] = "loaded"

(* MappedFile::must_open maps the file (an empty one to nothing), or its    *)
(* Fatal has put its message together.                                      *)
MustOpen(side) ==
  /\ status = "running"
  /\ task[side] = "todo"
  /\ MayStart(side)
  /\ IF file[side] \in Unreadable
       THEN /\ task' = [task EXCEPT ![side] = "fatal"]
            /\ printer' = [printer EXCEPT ![side] = "formatted"]
       ELSE /\ task' = [task EXCEPT ![side] = "opened"]
            /\ UNCHANGED printer
  /\ UNCHANGED <<inputs, color, main, mu, stderr, status>>

(* imdecode and cvtColor; with nothing decoded, one or the other throws.    *)
Decode(side) ==
  /\ status = "running"
  /\ task[side] = "opened"
  /\ color' = [color EXCEPT ![side] = file[side] = "image"]
  /\ task' = [task EXCEPT ![side] =
                IF file[side] = "image" THEN "loaded" ELSE "threw"]
  /\ UNCHANGED <<inputs, main, printer, mu, stderr, status>>

JoinFirst ==
  /\ status = "running"
  /\ main = "loading"
  /\ \E side \in Sides : task[side] = "loaded"
  /\ main' = "checking"
  /\ UNCHANGED <<inputs, task, color, printer, mu, stderr, status>>
Join ==
  /\ status = "running"
  /\ main = "loading"
  /\ \A side \in Sides : task[side] = "loaded"
  /\ main' = "checking"
  /\ UNCHANGED <<inputs, task, color, printer, mu, stderr, status>>

(* No task is under way.  A task in its Fatal is: it never comes back.      *)
SettledTooSoon == TRUE
SettledWhenLoaded == \A side \in Sides : task[side] = "loaded"
Settled == \A side \in Sides : task[side] \in {"todo", "loaded", "threw"}

(* task_group::wait rethrows (a task not yet begun is cancelled), or the    *)
(* exception just passes through; nothing catches it.                       *)
Rethrow ==
  /\ status = "running"
  /\ main = "loading"
  /\ \E side \in Sides : task[side] = "threw"
  /\ Settled
  /\ status' = "abort"
  /\ UNCHANGED <<inputs, task, color, main, printer, mu, stderr>>

(* check_histogram_differential, and main's reaction to it: Fatal when an   *)
(* image is missing or both count as the same.                              *)
Check ==
  /\ status = "running"
  /\ main = "checking"
  /\ IF same \/ \E side \in Sides : ~color[side]
       THEN /\ main' = "fatal"
            /\ printer' = [printer EXCEPT !["main"] = "formatted"]
       ELSE /\ main' = "continuing"
            /\ UNCHANGED printer
  /\ UNCHANGED <<inputs, task, color, mu, stderr, status>>

-----------------------------------------------------------------------------
(* ~Fatal: ~SyncOut, then _exit(1).                                         *)

Proceed(t, from, to) ==
  /\ status = "running"
  /\ printer[t] = from
  /\ printer' = [printer EXCEPT ![t] = to]

LockUnguarded(t) ==
  /\ Proceed(t, "formatted", "locked")
  /\ mu' = t
  /\ UNCHANGED <<inputs, task, color, main, stderr, status>>
Lock(t) ==
  /\ Proceed(t, "formatted", "locked")
  /\ mu = "free"
  /\ mu' = t
  /\ UNCHANGED <<inputs, task, color, main, stderr, status>>

PutText(t) ==
  /\ Proceed(t, "locked", "texted")
  /\ stderr' = Append(stderr, <<t, "text">>)
  /\ UNCHANGED <<inputs, task, color, main, mu, status>>

(* The line is complete, and the lock is released.                          *)
PutNewline(t) ==
  /\ Proceed(t, "texted", "printed")
  /\ stderr' = Append(stderr, <<t, "newline">>)
  /\ mu' = "free"
  /\ UNCHANGED <<inputs, task, color, main, status>>

ExitZero(t) ==
  /\ status = "running"
  /\ printer[t] = "printed"
  /\ status' = "exit0"
  /\ UNCHANGED <<inputs, task, color, main, printer, mu, stderr>>
Exit(t) ==
  /\ status = "running"
  /\ printer[t] = "printed"
  /\ status' = "exit1"
  /\ UNCHANGED <<inputs, task, color, main, printer, mu, stderr>>

Next ==
  \/ \E side \in Sides : MustOpen(side) \/ Decode(side)
  \/ Join \/ Rethrow \/ Check
  \/ \E t \in Threads : Lock(t) \/ PutText(t) \/ PutNewline(t) \/ Exit(t)

Spec == Init /\ [][Next]_vars

(* A thread that can go on does; the owner of the mutex never waits.        *)
FairSpec == Spec /\ WF_vars(Next)

-----------------------------------------------------------------------------
(* Both tasks may be in Fatal at once, and either may end the process while *)
(* the other is printing.  Still no message runs into another one: a text   *)
(* is followed by its own newline, or is the last thing printed.            *)
WholeLines ==
  \A k \in 1 .. Len(stderr) - 1 :
    stderr[k][2] = "text" => stderr[k + 1] = <<stderr[k][1], "newline">>

Loaded == \A side \in Sides : file[side] = "image"

(* A thread that has printed had reason to.                                 *)
Reason(t) == IF t = "main" THEN Loaded /\ same ELSE file[t] \in Unreadable

(* How the program ended tells what was wrong: status 1 comes with a whole  *)
(* line from a thread that had reason to print one; an uncaught exception   *)
(* means that a file could not be decoded and nothing was printed, whatever *)
(* the other task was doing; and it goes on only with two different images. *)
EndExplained ==
  /\ \A k \in 1 .. Len(stderr) : Reason(stderr[k][1])
  /\ status = "exit1" => \E k \in 1 .. Len(stderr) : stderr[k][2] = "newline"
  /\ status = "abort" => stderr = <<>> /\ \E side \in Sides : file[side] \in Undecodable
  /\ main = "continuing" => stderr = <<>> /\ Loaded /\ ~same

(* The files as Gazosan has them: an input that cannot be read is like one  *)
(* that is not there, and one that cannot be decoded holds garbage.         *)
NameOf == [side \in Sides |-> IF side = "old" THEN "a" ELSE "b"]
Content(side) ==
  IF file[side] \in Unreadable THEN <<"missing">>
  ELSE IF file[side] \in Undecodable THEN <<"garbage">>
  ELSE <<"picture", NameOf[side]>>
Disk ==
  [n \in {"a", "b", "diff", "delete", "add"} |->
     IF n = "a" THEN Content("old") ELSE IF n = "b" THEN Content("new") ELSE <<"missing">>]
Nothing == [side \in Sides |-> <<"missing">>]

Main == INSTANCE Gazosan WITH
  parallel <- Parallel, nameOf <- NameOf, change <- FALSE, writable <- {}, failing <- {},
  before <- Disk, disk <- Disk,
  color <- IF main = "loading" THEN Nothing ELSE [side \in Sides |-> Content(side)],
  segments <- Nothing, base <- Nothing, stage <- [side \in Sides |-> "todo"],
  pc <- IF main = "loading" THEN "load"
        ELSE IF main = "continuing" THEN "detect" ELSE "check",
  status <- status

(* The two tasks, their Fatals and main together take no step that Gazosan  *)
(* does not: whichever task comes first, the images are loaded both and     *)
(* once, an end before that has a faulty file as its reason (in the serial  *)
(* build the new one, or else the old one), with the status that belongs to *)
(* the fault, and every thread's Fatal is the end of the stage main is in.  *)
ImplementsMain == Main!Spec

(* The program goes on with two images, or ends.                            *)
Termination == <>(status # "running" \/ main = "continuing")

(* "failed to decode image file" is what check_histogram_differential says  *)
(* of a file that cannot be decoded.  Not so: load_image has thrown before  *)
(* that, and the program is aborted.                                        *)
DecodeFailureReported ==
  (\E side \in Sides : file[side] = "garbage")
    /\ (\A side \in Sides : file[side] \in {"image", "garbage"})
    => status # "abort"
=============================================================================
