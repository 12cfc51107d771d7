------------------------------ MODULE CmdLine -------------------------------
(***************************************************************************)
(* parse_args (cmdline.cc): one pass over the arguments, one action per     *)
(* kind of argument, then the checks and the defaults.  It ends by          *)
(* returning, by Fatal (status 1), by -h (status 0), or with an exception   *)
(* of std::stoi that nobody catches.                                        *)
(***************************************************************************)
EXTENDS Integers, Sequences, FiniteSetsExt

CONSTANTS
  Words,           \* what an argument may be
  Plain,           \* the words that do not begin with '-'
  CommandLines,    \* sequences of words: the command lines to look at
  Number,          \* what std::stoi makes of the words it accepts
  DefaultThreads   \* get_default_thread_count()

Empty == ""   \* an empty argument, or a setting that has no value yet
Help == {"-h", "--help"}
Color == {"-color-diagnostics", "--color-diagnostics"}
Output == {"-o", "--output"}
Numeric == {"-threshold", "-thread_count"}
ReadArgs == Color \cup Output \cup Numeric \cup {"-new", "-old"}
ReadFlags == {"-create_change_image", "-cross_check", "-perf"}
ASSUME CmdAssumption ==
  /\ CommandLines \subseteq Seq(Words)
  /\ Plain \subseteq Words
  /\ Plain \cap (Help \cup ReadArgs \cup ReadFlags) = {}
  /\ \A word \in DOMAIN Number : Number[word] \in Int
  /\ DefaultThreads \in Int

VARIABLES
  args,     \* cmdline_args without the name of the program
  index,    \* the next argument to look at
  arg,      \* ctx.arg: the settings
  status    \* "parsing", "returned", "fatal", "help" or "threw"

cmdVars == <<args, index, arg, status>>

CmdTypeOK ==
  /\ args \in Seq(Words)
  /\ index \in 1 .. Len(args) + 1
  /\ arg \in [new_file : Words \cup {Empty}, old_file : Words \cup {Empty},
              output_name : Words \cup {Empty, "image_difference"},
              bin_threshold : Int, thread_count : Int,
              flags : SUBSET (ReadFlags \cup {"color_diagnostics"})]
  /\ status \in {"parsing", "returned", "fatal", "help", "threw"}

CmdInit ==
  /\ args \in CommandLines
  /\ index = 1
  /\ arg = [new_file |-> Empty, old_file |-> Empty, output_name |-> Empty,
            bin_threshold |-> 200, thread_count |-> 0, flags |-> {}]
  /\ status = "parsing"

-----------------------------------------------------------------------------
(* The loop looks at an argument.                                           *)
Sees(word) == status = "parsing" /\ index <= Len(args) /\ args[index] = word

ExitHelp ==
  /\ \E word \in Help : Sees(word)
  /\ status' = "help"
  /\ UNCHANGED <<args, index, arg>>

(* read_arg: an option that takes the next argument, whatever that is.      *)
ArgumentMissing ==
  /\ \E word \in ReadArgs : Sees(word)
  /\ index = Len(args)
  /\ status' = "fatal"
  /\ UNCHANGED <<args, index, arg>>

Set(word, value) ==
  CASE word \in Color -> [arg EXCEPT !.flags = @ \cup {"color_diagnostics"}]
    [] word = "-new" -> [arg EXCEPT !.new_file = value]
    [] word = "-old" -> [arg EXCEPT !.old_file = value]
    [] word \in Output -> [arg EXCEPT !.output_name = value]
    [] word = "-threshold" -> [arg EXCEPT !.bin_threshold = Number[value]]
    [] word = "-thread_count" -> [arg EXCEPT !.thread_count = Number[value]]

PastArg == index + 2
ReadArg ==
  \E word \in ReadArgs :
    /\ Sees(word)
    /\ index < Len(args)
    /\ word \in Numeric => args[index + 1] \in DOMAIN Number
    /\ arg' = Set(word, args[index + 1])
    /\ index' = PastArg
    /\ UNCHANGED <<args, status>>

StoiThrows ==
  /\ \E word \in Numeric : Sees(word)
  /\ index < Len(args)
  /\ args[index + 1] \notin DOMAIN Number
  /\ status' = "threw"
  /\ UNCHANGED <<args, index, arg>>

ReadFlag ==
  \E word \in ReadFlags :
    /\ Sees(word)
    /\ arg' = [arg EXCEPT !.flags = @ \cup {word}]
    /\ index' = index + 1
    /\ UNCHANGED <<args, status>>

(* Anything else is an error if it begins with '-' ...                      *)
UnknownIgnored ==
  /\ \E word \in Words \ (Help \cup ReadArgs \cup ReadFlags \cup Plain) : Sees(word)
  /\ index' = index + 1
  /\ UNCHANGED <<args, arg, status>>
UnknownOption ==
  /\ \E word \in Words \ (Help \cup ReadArgs \cup ReadFlags \cup Plain) : Sees(word)
  /\ status' = "fatal"
  /\ UNCHANGED <<args, index, arg>>

(* ... and is ignored if not.                                               *)
IgnoreAgain ==
  /\ \E word \in Plain : Sees(word)
  /\ UNCHANGED cmdVars
Ignore ==
  /\ \E word \in Plain : Sees(word)
  /\ index' = index + 1
  /\ UNCHANGED <<args, arg, status>>

(* After the loop: what is required, and the defaults.                      *)
RequiredEither == arg.new_file # Empty \/ arg.old_file # Empty
Required == arg.new_file # Empty /\ arg.old_file # Empty

WithDefaults ==
  [arg EXCEPT !.thread_count = IF @ = 0 THEN DefaultThreads ELSE @,
              !.bin_threshold = IF @ = 0 THEN 200 ELSE @,
              !.output_name = IF @ = Empty THEN "image_difference" ELSE @]

Finish ==
  /\ status = "parsing"
  /\ index > Len(args)
  /\ IF Required
       THEN status' = "returned" /\ arg' = WithDefaults
       ELSE status' = "fatal" /\ UNCHANGED arg
  /\ UNCHANGED <<args, index>>

CmdNext ==
  \/ ExitHelp \/ ArgumentMissing \/ ReadArg \/ StoiThrows \/ ReadFlag
  \/ UnknownOption \/ Ignore \/ Finish

CmdSpec == CmdInit /\ [][CmdNext]_cmdVars

-----------------------------------------------------------------------------
(* The arguments by themselves say which of them are options: those that no *)
(* option before them takes as its value.                                   *)
Options ==
  LET option[k \in 0 .. Len(args)] ==
        k > 0 /\ ~(option[k - 1] /\ args[k - 1] \in ReadArgs)
  IN {k \in 1 .. Len(args) : option[k]}

(* The positions of options among words that have been dealt with.          *)
Given(words) == {k \in Options : k < index /\ args[k] \in words}
LastValue(words, unset) ==
  LET ks == Given(words)
  IN IF ks = {} THEN unset ELSE args[Max(ks) + 1]

LastNumber(word, unset) ==
  IF Given({word}) = {} THEN unset ELSE Number[LastValue({word}, Empty)]

(* Settings come from the last occurrence of their option, and from nothing *)
(* else: not from a word that another option (-color-diagnostics included)  *)
(* has taken as its value.  Only returning replaces what is unset, and then *)
(* both files are there.                                                    *)
SettingsExplained ==
  LET unset(default, value) == IF status = "returned" THEN default ELSE value
      numbers == <<LastNumber("-thread_count", 0), LastNumber("-threshold", 200)>>
      name == LastValue(Output, Empty)
  IN /\ arg.new_file = LastValue({"-new"}, Empty)
     /\ arg.old_file = LastValue({"-old"}, Empty)
     /\ \A w \in ReadFlags : w \in arg.flags <=> Given({w}) # {}
     /\ "color_diagnostics" \in arg.flags <=> Given(Color) # {}
     /\ arg.thread_count = IF numbers[1] = 0 THEN unset(DefaultThreads, 0) ELSE numbers[1]
     /\ arg.bin_threshold = IF numbers[2] = 0 THEN unset(200, 0) ELSE numbers[2]
     /\ arg.output_name = IF name = Empty THEN unset("image_difference", Empty) ELSE name
     /\ status = "returned" =>
          index = Len(args) + 1 /\ Empty \notin {arg.new_file, arg.old_file}

(* What ends the parse is the first argument in option position that can    *)
(* end it, and it decides how; a later -h does not excuse an error, nor a   *)
(* later error a -h.                                                        *)
Enders(st) ==
  {k \in Options :
     CASE st = "help" -> args[k] \in Help
       [] st = "threw" -> /\ args[k] \in Numeric /\ k < Len(args)
                          /\ args[k + 1] \notin DOMAIN Number
       [] st = "fatal" -> \/ args[k] \in ReadArgs /\ k = Len(args)
                          \/ args[k] \notin Help \cup ReadArgs \cup ReadFlags \cup Plain}

FirstEnderDecides ==
  status \in {"help", "threw", "fatal"} =>
    LET all == UNION {Enders(st) : st \in {"help", "threw", "fatal"}}
    IN \/ index \in Enders(status) /\ \A k \in all : index <= k
       \/ status = "fatal" /\ index > Len(args) /\ all = {}
            /\ Empty \in {LastValue({"-new"}, Empty), LastValue({"-old"}, Empty)}

(* parse_args comes to an end, on any arguments.                            *)
ParseEnds == <>(status # "parsing")
=============================================================================
