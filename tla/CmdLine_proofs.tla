--------------------------- MODULE CmdLine_proofs ---------------------------
(***************************************************************************)
(* Theorems about parse_args, for any command lines, and about the five     *)
(* functions of MCUnits together.                                           *)
(***************************************************************************)
EXTENDS MCUnits, Image_proofs

LEMMA LeastExists ==
  ASSUME NEW S \in SUBSET Nat, S # {}
  PROVE  \E m \in S : \A y \in S : m <= y
  <1> DEFINE R == OpToRel(<, Nat)
  <1>1. PICK m \in S : \A y \in S : ~(<<y, m>> \in R)
    BY NatLessThanWellFounded, WFMin
  <1>2. \A y \in S : ~(y < m)
    BY <1>1 DEF OpToRel
  <1> QED BY <1>2

LEMMA EqualBooleans ==
  ASSUME NEW A \in BOOLEAN, NEW B \in BOOLEAN, A <=> B
  PROVE  A = B
  OBVIOUS

(* The positions of the options among the first n arguments: the first, and *)
(* every other unless the one before it is an option that takes a value.    *)
Reading(ks, n) ==
  /\ ks \subseteq 1 .. n
  /\ \A k \in 1 .. n :
       k \in ks <=> k = 1 \/ ~(k - 1 \in ks /\ args[k - 1] \in ReadArgs)

(* There is such a reading up to any position: take the least one without.  *)
LEMMA ReadingExists ==
  ASSUME NEW n \in Nat
  PROVE  \E ks : Reading(ks, n)
  <1> DEFINE S == {m \in Nat : ~\E ks : Reading(ks, m)}
  <1> SUFFICES ASSUME S # {} PROVE FALSE
    OBVIOUS
  <1>1. PICK m \in S : \A y \in S : m <= y
    <2>1. S \in SUBSET Nat
      OBVIOUS
    <2> HIDE DEF S
    <2> QED BY <2>1, LeastExists
  <1>2. m \in Nat /\ \A ks : ~Reading(ks, m)
    BY <1>1
  <1>3. CASE m = 0
    <2>1. Reading({}, 0)
      BY DEF Reading
    <2> QED BY <1>2, <1>3, <2>1
  <1>4. CASE m > 0
    <2>1. m - 1 \in Nat /\ m - 1 \notin S
      <3> HIDE DEF S
      <3> QED BY <1>1, <1>2, <1>4
    <2>2. PICK ks : Reading(ks, m - 1)
      BY <2>1
    <2> DEFINE more == IF m = 1 \/ ~(m - 1 \in ks /\ args[m - 1] \in ReadArgs)
                         THEN ks \cup {m} ELSE ks
    <2>3. Reading(more, m)
      BY <1>2, <1>4, <2>1, <2>2 DEF Reading
    <2> QED BY <1>2, <2>3
  <1> QED BY <1>2, <1>3, <1>4

(* Options is this reading of all arguments.                                *)
LEMMA OptionsAre ==
  ASSUME args \in Seq(Words)
  PROVE  Reading(Options, Len(args))
  <1> DEFINE Body(f) == [k \in 0 .. Len(args) |->
                           k > 0 /\ ~(f[k - 1] /\ args[k - 1] \in ReadArgs)]
             option == CHOOSE f : f = Body(f)
  <1>1. Options = {k \in 1 .. Len(args) : option[k]}
    BY Zenon DEF Options
  <1>2. PICK ks : Reading(ks, Len(args))
    BY ReadingExists
  <1> DEFINE g == [k \in 0 .. Len(args) |-> k \in ks]
  <1>3. g = Body(g)
    <2> SUFFICES ASSUME NEW k \in 0 .. Len(args)
                 PROVE  (k \in ks) = (k > 0 /\ ~(g[k - 1] /\ args[k - 1] \in ReadArgs))
      BY Zenon
    <2> SUFFICES (k \in ks) <=> (k > 0 /\ ~(g[k - 1] /\ args[k - 1] \in ReadArgs))
      BY EqualBooleans
    <2>1. CASE k = 0
      <3>1. ~(k \in ks) /\ ~(k > 0)
        BY <1>2, <2>1 DEF Reading
      <3> QED BY <3>1, Zenon
    <2>2. CASE k > 0
      <3>1. k - 1 \in 0 .. Len(args)
        BY <2>2
      <3>2. g[k - 1] = (k - 1 \in ks)
        BY <3>1, Zenon
      <3>3. k \in ks <=> ~(k - 1 \in ks /\ args[k - 1] \in ReadArgs)
        BY <1>2, <2>2 DEF Reading
      <3> QED BY <2>2, <3>2, <3>3, Zenon
    <2> QED BY <2>1, <2>2
  <1>4. option = Body(option)
    <2> HIDE DEF Body, g
    <2> QED BY <1>3, Zenon
  <1> HIDE DEF option
  <1>5. ASSUME NEW k \in 0 .. Len(args)
        PROVE  option[k] = (k > 0 /\ ~(option[k - 1] /\ args[k - 1] \in ReadArgs))
    <2>1. option[k] = Body(option)[k]
      BY <1>4, Zenon
    <2> QED BY <2>1, Zenon
  <1>6. ASSUME NEW k \in 1 .. Len(args)
        PROVE  k \in Options <=> k = 1 \/ ~(k - 1 \in Options /\ args[k - 1] \in ReadArgs)
    <2>1. k \in 0 .. Len(args) /\ k > 0 /\ k - 1 \in 0 .. Len(args)
      OBVIOUS
    <2>2. k \in Options <=> ~(option[k - 1] /\ args[k - 1] \in ReadArgs)
      BY <1>1, <1>5, <2>1, Zenon
    <2>3. CASE k = 1
      <3>1. k - 1 = 0 /\ 0 \in 0 .. Len(args) /\ ~(0 > 0)
        BY <2>3
      <3>2. ~option[k - 1]
        BY <1>5, <3>1, Zenon
      <3> QED BY <2>2, <2>3, <3>2, Zenon
    <2>4. CASE k # 1
      <3>1. k - 1 \in 1 .. Len(args)
        BY <2>4
      <3>2. k - 1 \in Options <=> option[k - 1]
        BY <1>1, <3>1, Zenon
      <3> QED BY <2>2, <2>4, <3>2, Zenon
    <2> QED BY <2>3, <2>4
  <1> QED BY <1>1, <1>6, Zenon DEF Reading

-----------------------------------------------------------------------------
(* While the loop runs, the argument it looks at is an option, the settings *)
(* are those of the options before it, and none of these could end the      *)
(* parse.                                                                   *)
Plainly ==
  /\ arg.new_file = LastValue({"-new"}, Empty)
  /\ arg.old_file = LastValue({"-old"}, Empty)
  /\ \A w \in ReadFlags : w \in arg.flags <=> Given({w}) # {}
  /\ "color_diagnostics" \in arg.flags <=> Given(Color) # {}
  /\ arg.thread_count = LastNumber("-thread_count", 0)
  /\ arg.bin_threshold = LastNumber("-threshold", 200)
  /\ arg.output_name = LastValue(Output, Empty)

AtOption == index <= Len(args) => index \in Options

Ending == {"help", "threw", "fatal"}
NoneBefore == \A st \in Ending : \A k \in Enders(st) : index <= k

CInv ==
  /\ CmdTypeOK
  /\ status = "parsing" => AtOption /\ Plainly /\ NoneBefore
  /\ SettingsExplained
  /\ FirstEnderDecides

LEMMA PlainlyExplains ==
  ASSUME CmdTypeOK, Plainly, status # "returned"
  PROVE  SettingsExplained
  BY DEF Plainly, SettingsExplained

LEMMA NoEnders ==
  ASSUME CmdTypeOK, index > Len(args), NoneBefore
  PROVE  UNION {Enders(st) : st \in {"help", "threw", "fatal"}} = {}
  <1>1. ASSUME NEW st \in Ending
        PROVE  Enders(st) = {}
    <2>1. Enders(st) \subseteq 1 .. Len(args)
      BY OptionsAre DEF CmdTypeOK, Enders, Reading
    <2> QED BY <2>1 DEF NoneBefore, CmdTypeOK
  <1> QED BY <1>1 DEF Ending

(* How one more option changes what has been given: index moves past the    *)
(* option it is at and past the value, which is no option.                  *)
LEMMA GivenStep ==
  ASSUME CmdTypeOK, index <= Len(args), index \in Options, args' = args,
         \/ index' = index + 1 /\ args[index] \notin ReadArgs
         \/ index' = index + 2 /\ args[index] \in ReadArgs
  PROVE  /\ Options' = Options
         /\ index' <= Len(args) => index' \in Options
         /\ \A W : Given(W)' = IF args[index] \in W THEN Given(W) \cup {index} ELSE Given(W)
  <1>1. Options' = Options
    BY DEF Options
  <1>2. Reading(Options, Len(args))
    BY OptionsAre DEF CmdTypeOK
  <1>3. index' <= Len(args) => index' \in Options
    BY <1>2 DEF Reading, CmdTypeOK
  <1>4. \A k \in Options : k < index' <=> k < index \/ k = index
    BY <1>2 DEF Reading, CmdTypeOK
  <1>5. ASSUME NEW W
        PROVE  Given(W)' = IF args[index] \in W THEN Given(W) \cup {index} ELSE Given(W)
    <2>1. Given(W)' = {k \in Options : k < index' /\ args[k] \in W}
      BY <1>1 DEF Given
    <2> QED BY <1>4, <2>1 DEF Given
  <1> QED BY <1>1, <1>3, <1>5

(* A value is that of the option just read, or as before.                   *)
LEMMA LastStep ==
  ASSUME CmdTypeOK, index <= Len(args), index \in Options, args' = args,
         \/ index' = index + 1 /\ args[index] \notin ReadArgs
         \/ index' = index + 2 /\ args[index] \in ReadArgs,
         NEW W, NEW unset
  PROVE  LastValue(W, unset)' =
           IF args[index] \in W THEN args[index + 1] ELSE LastValue(W, unset)
  <1>1. Given(W)' = IF args[index] \in W THEN Given(W) \cup {index} ELSE Given(W)
    BY GivenStep
  <1>2. CASE args[index] \in W
    <2>1. Given(W)' = Given(W) \cup {index}
      BY <1>1, <1>2
    <2>2. \A k \in Given(W) : k \in Int /\ k < index
      BY OptionsAre DEF Given, Reading, CmdTypeOK
    <2>3. Max(Given(W)') = index
      BY <2>1, <2>2 DEF Max, CmdTypeOK
    <2> QED BY <1>2, <2>1, <2>3 DEF LastValue
  <1>3. CASE args[index] \notin W
    <2>1. Given(W)' = Given(W)
      BY <1>1, <1>3
    <2> QED BY <1>3, <2>1 DEF LastValue
  <1> QED BY <1>2, <1>3

LEMMA SettingsStay ==
  ASSUME args' = args, index' = index
  PROVE  /\ \A W : Given(W)' = Given(W)
         /\ \A W, unset : LastValue(W, unset)' = LastValue(W, unset)
         /\ \A w, unset : LastNumber(w, unset)' = LastNumber(w, unset)
  BY DEF LastNumber, LastValue, Given, Options

(* An argument ends the parse, and it is the first that can.                *)
LEMMA EndStep ==
  ASSUME CInv, status = "parsing", UNCHANGED <<args, index, arg>>,
         NEW st \in Ending, status' = st, index \in Enders(st)
  PROVE  CInv'
  <1>1. CmdTypeOK'
    BY DEF CInv, CmdTypeOK, Ending
  <1>2. status' # "parsing" /\ status' # "returned"
    BY DEF Ending
  <1>3. Plainly'
    BY SettingsStay DEF Plainly, CInv
  <1>4. SettingsExplained'
    BY <1>1, <1>2, <1>3 DEF Plainly, SettingsExplained, CmdTypeOK
  <1>5. FirstEnderDecides'
    <2>1. Enders(status)' = Enders(st) /\ \A s : Enders(s)' = Enders(s)
      BY DEF Enders, Options
    <2>2. \A k \in UNION {Enders(s) : s \in {"help", "threw", "fatal"}} : index <= k
      BY DEF CInv, NoneBefore, Ending
    <2> QED BY <2>1, <2>2 DEF FirstEnderDecides
  <1> QED BY <1>1, <1>2, <1>4, <1>5 DEF CInv

(* The loop goes on past an option that cannot end the parse.               *)
LEMMA GoOn ==
  ASSUME CInv, status = "parsing", status' = status, args' = args,
         index <= Len(args),
         \/ index' = index + 1 /\ args[index] \notin ReadArgs
         \/ index' = index + 2 /\ index < Len(args) /\ args[index] \in ReadArgs,
         \A st \in Ending : index \notin Enders(st),
         CmdTypeOK', Plainly'
  PROVE  CInv'
  <1>1. index \in Options
    BY DEF CInv, AtOption
  <1>2. AtOption'
    BY <1>1, GivenStep DEF CInv, AtOption
  <1>3. NoneBefore'
    <2>1. Options' = Options /\ \A st : Enders(st)' = Enders(st)
      BY DEF Enders, Options
    <2>2. Reading(Options, Len(args))
      BY OptionsAre DEF CInv, CmdTypeOK
    <2>3. \A st \in Ending : \A k \in Enders(st) : k \in Options /\ index < k
      <3>1. \A st : Enders(st) \subseteq Options
        BY DEF Enders
      <3>2. NoneBefore /\ index \in Int /\ Options \subseteq Int
        BY <2>2 DEF CInv, CmdTypeOK, Reading
      <3> SUFFICES ASSUME NEW st \in Ending, NEW k \in Enders(st)
                   PROVE  k \in Options /\ index < k
        OBVIOUS
      <3>3. k \in Options /\ k # index /\ index <= k
        BY <3>1, <3>2 DEF NoneBefore
      <3> QED BY <3>2, <3>3
    <2>4. \A k \in Options : index < k => index' <= k
      BY <1>1, <2>2 DEF Reading, CInv, CmdTypeOK
    <2> QED BY <2>1, <2>3, <2>4 DEF NoneBefore, Ending
  <1>4. SettingsExplained'
    BY DEF Plainly, SettingsExplained, CmdTypeOK
  <1>5. FirstEnderDecides'
    BY DEF FirstEnderDecides
  <1> QED BY <1>2, <1>3, <1>4, <1>5 DEF CInv

LEMMA ReadArgStep ==
  ASSUME CInv, ReadArg
  PROVE  CInv'
  <1>1. PICK word \in ReadArgs :
          /\ Sees(word)
          /\ index < Len(args)
          /\ word \in Numeric => args[index + 1] \in DOMAIN Number
          /\ arg' = Set(word, args[index + 1])
          /\ index' = index + 2
          /\ UNCHANGED <<args, status>>
    BY DEF ReadArg, PastArg
  <1>2. /\ status = "parsing" /\ index <= Len(args) /\ args[index] = word
        /\ CmdTypeOK /\ index \in Options /\ Plainly
        /\ args[index + 1] \in Words
    BY <1>1 DEF Sees, CInv, AtOption, CmdTypeOK
  <1>3. /\ \A W : Given(W)' = IF word \in W THEN Given(W) \cup {index} ELSE Given(W)
        /\ \A W, unset : LastValue(W, unset)' =
             IF word \in W THEN args[index + 1] ELSE LastValue(W, unset)
    BY <1>1, <1>2, GivenStep, LastStep
  <1>4. ASSUME NEW w, NEW unset
        PROVE  LastNumber(w, unset)' =
                 IF w = word THEN Number[args[index + 1]] ELSE LastNumber(w, unset)
    BY <1>3 DEF LastNumber
  <1>5. /\ LastValue({"-new"}, Empty)' =
             IF word = "-new" THEN args[index + 1] ELSE arg.new_file
        /\ LastValue({"-old"}, Empty)' =
             IF word = "-old" THEN args[index + 1] ELSE arg.old_file
        /\ LastValue(Output, Empty)' =
             IF word \in Output THEN args[index + 1] ELSE arg.output_name
        /\ LastNumber("-thread_count", 0)' =
             IF word = "-thread_count" THEN Number[args[index + 1]] ELSE arg.thread_count
        /\ LastNumber("-threshold", 200)' =
             IF word = "-threshold" THEN Number[args[index + 1]] ELSE arg.bin_threshold
    BY <1>2, <1>3, <1>4 DEF Plainly
  <1>6. /\ \A w \in ReadFlags : Given({w})' = Given({w})
        /\ word \in Color => Given(Color)' # {}
        /\ word \notin Color => Given(Color)' = Given(Color)
    <2>1. word \notin ReadFlags
      BY DEF ReadFlags, ReadArgs, Color, Output, Numeric
    <2> QED BY <1>3, <2>1
  <1>7. CmdTypeOK' /\ Plainly'
    <2>1. args' \in Seq(Words) /\ index' \in 1 .. Len(args') + 1 /\ status' = "parsing"
      BY <1>1, <1>2 DEF CmdTypeOK
    <2>2. CASE word \in Color
      <3>1. arg' = [arg EXCEPT !.flags = @ \cup {"color_diagnostics"}]
        BY <1>1, <2>2 DEF Set, Color, Output
      <3>2. word \notin Output \cup {"-new", "-old", "-threshold", "-thread_count"}
        BY <2>2 DEF Color, Output
      <3>3. "color_diagnostics" \notin ReadFlags
        BY DEF ReadFlags
      <3>8. CmdTypeOK'
        BY <1>2, <1>5, <1>6, <2>1, <3>1, <3>2, <3>3 DEF CmdTypeOK
      <3>4. /\ arg'.new_file = arg.new_file /\ arg'.old_file = arg.old_file
            /\ arg'.output_name = arg.output_name
            /\ arg'.thread_count = arg.thread_count
            /\ arg'.bin_threshold = arg.bin_threshold
            /\ arg'.flags = arg.flags \cup {"color_diagnostics"}
        BY <1>2, <3>1 DEF CmdTypeOK
      <3>5. \A w \in ReadFlags : w \in arg'.flags <=> w \in arg.flags
        BY <3>3, <3>4
      <3>9. Plainly'
        BY <1>2, <1>5, <1>6, <2>2, <3>2, <3>4, <3>5 DEF Plainly
      <3> QED BY <3>8, <3>9
    <2>3. CASE word = "-new"
      <3>1. arg' = [arg EXCEPT !.new_file = args[index + 1]]
        BY <1>1, <2>3 DEF Set, Color, Output
      <3>8. CmdTypeOK'
        BY <1>2, <1>5, <1>6, <2>1, <2>3, <3>1 DEF CmdTypeOK, Output
      <3>2. /\ arg'.new_file = args[index + 1] /\ arg'.old_file = arg.old_file
            /\ arg'.output_name = arg.output_name /\ arg'.flags = arg.flags
            /\ arg'.thread_count = arg.thread_count
            /\ arg'.bin_threshold = arg.bin_threshold
        BY <1>2, <3>1 DEF CmdTypeOK
      <3>3. word \notin Output /\ word \notin Color
        BY <2>3 DEF Output, Color
      <3>9. Plainly'
        BY <1>2, <1>5, <1>6, <2>3, <3>2, <3>3 DEF Plainly
      <3> QED BY <3>8, <3>9
    <2>4. CASE word = "-old"
      <3>1. arg' = [arg EXCEPT !.old_file = args[index + 1]]
        BY <1>1, <2>4 DEF Set, Color, Output
      <3>8. CmdTypeOK'
        BY <1>2, <1>5, <1>6, <2>1, <2>4, <3>1 DEF CmdTypeOK, Output
      <3>2. /\ arg'.new_file = arg.new_file /\ arg'.old_file = args[index + 1]
            /\ arg'.output_name = arg.output_name /\ arg'.flags = arg.flags
            /\ arg'.thread_count = arg.thread_count
            /\ arg'.bin_threshold = arg.bin_threshold
        BY <1>2, <3>1 DEF CmdTypeOK
      <3>3. word \notin Output /\ word \notin Color
        BY <2>4 DEF Output, Color
      <3>9. Plainly'
        BY <1>2, <1>5, <1>6, <2>4, <3>2, <3>3 DEF Plainly
      <3> QED BY <3>8, <3>9
    <2>5. CASE word \in Output
      <3>1. arg' = [arg EXCEPT !.output_name = args[index + 1]]
        BY <1>1, <2>5 DEF Set, Color, Output
      <3>2. word \notin {"-new", "-old", "-threshold", "-thread_count"} /\ word \notin Color
        BY <2>5 DEF Output, Color
      <3>8. CmdTypeOK'
        BY <1>2, <1>5, <1>6, <2>1, <2>5, <3>1, <3>2 DEF CmdTypeOK
      <3>3. /\ arg'.new_file = arg.new_file /\ arg'.old_file = arg.old_file
            /\ arg'.thread_count = arg.thread_count /\ arg'.flags = arg.flags
            /\ arg'.bin_threshold = arg.bin_threshold
            /\ arg'.output_name = args[index + 1]
        BY <1>2, <3>1 DEF CmdTypeOK
      <3>9. Plainly'
        BY <1>2, <1>5, <1>6, <2>5, <3>2, <3>3 DEF Plainly
      <3> QED BY <3>8, <3>9
    <2>6. CASE word = "-threshold"
      <3>1. arg' = [arg EXCEPT !.bin_threshold = Number[args[index + 1]]]
        BY <1>1, <2>6 DEF Set, Color, Output
      <3>2. Number[args[index + 1]] \in Int
        BY <1>1, <2>6, CmdAssumption DEF Numeric
      <3>8. CmdTypeOK'
        BY <1>2, <1>5, <1>6, <2>1, <2>6, <3>1, <3>2 DEF CmdTypeOK, Output
      <3>3. /\ arg'.new_file = arg.new_file /\ arg'.old_file = arg.old_file
            /\ arg'.output_name = arg.output_name /\ arg'.flags = arg.flags
            /\ arg'.thread_count = arg.thread_count
            /\ arg'.bin_threshold = Number[args[index + 1]]
        BY <1>2, <3>1 DEF CmdTypeOK
      <3>4. word \notin Output /\ word \notin Color
        BY <2>6 DEF Output, Color
      <3>9. Plainly'
        BY <1>2, <1>5, <1>6, <2>6, <3>3, <3>4 DEF Plainly
      <3> QED BY <3>8, <3>9
    <2>7. CASE word = "-thread_count"
      <3>1. arg' = [arg EXCEPT !.thread_count = Number[args[index + 1]]]
        BY <1>1, <2>7 DEF Set, Color, Output
      <3>2. Number[args[index + 1]] \in Int
        BY <1>1, <2>7, CmdAssumption DEF Numeric
      <3>8. CmdTypeOK'
        BY <1>2, <1>5, <1>6, <2>1, <2>7, <3>1, <3>2 DEF CmdTypeOK, Output
      <3>3. /\ arg'.new_file = arg.new_file /\ arg'.old_file = arg.old_file
            /\ arg'.output_name = arg.output_name /\ arg'.flags = arg.flags
            /\ arg'.bin_threshold = arg.bin_threshold
            /\ arg'.thread_count = Number[args[index + 1]]
        BY <1>2, <3>1 DEF CmdTypeOK
      <3>4. word \notin Output /\ word \notin Color
        BY <2>7 DEF Output, Color
      <3>9. Plainly'
        BY <1>2, <1>5, <1>6, <2>7, <3>3, <3>4 DEF Plainly
      <3> QED BY <3>8, <3>9
    <2> QED BY <2>2, <2>3, <2>4, <2>5, <2>6, <2>7 DEF ReadArgs, Numeric
  <1>8. ASSUME NEW st \in Ending
        PROVE  index \notin Enders(st)
    <2>1. word \notin Help
      BY DEF Help, ReadArgs, Color, Output, Numeric
    <2>2. CASE st = "help"
      BY <1>2, <2>1, <2>2 DEF Enders
    <2>3. CASE st = "threw"
      BY <1>1, <1>2, <2>3 DEF Enders
    <2>4. CASE st = "fatal"
      BY <1>1, <1>2, <2>4 DEF Enders
    <2> QED BY <2>2, <2>3, <2>4 DEF Ending
  <1> QED BY <1>1, <1>2, <1>7, <1>8, GoOn

LEMMA ReadFlagStep ==
  ASSUME CInv, ReadFlag
  PROVE  CInv'
  <1>1. PICK word \in ReadFlags :
          /\ Sees(word)
          /\ arg' = [arg EXCEPT !.flags = @ \cup {word}]
          /\ index' = index + 1
          /\ UNCHANGED <<args, status>>
    BY DEF ReadFlag
  <1>2. /\ status = "parsing" /\ index <= Len(args) /\ args[index] = word
        /\ CmdTypeOK /\ index \in Options /\ Plainly
    BY <1>1 DEF Sees, CInv, AtOption
  <1>3. word \notin ReadArgs /\ word \notin Help
    BY DEF ReadFlags, ReadArgs, Help, Color, Output, Numeric
  <1>4. /\ \A W : Given(W)' = IF word \in W THEN Given(W) \cup {index} ELSE Given(W)
        /\ \A W, unset : LastValue(W, unset)' =
             IF word \in W THEN args[index + 1] ELSE LastValue(W, unset)
    BY <1>1, <1>2, <1>3, GivenStep, LastStep
  <1>5. \A w \in ReadArgs : \A unset :
          /\ LastValue({w}, unset)' = LastValue({w}, unset)
          /\ LastNumber(w, unset)' = LastNumber(w, unset)
    BY <1>3, <1>4 DEF LastNumber
  <1>6. CmdTypeOK' /\ Plainly'
    <2>1. CmdTypeOK'
      <3>1. args' \in Seq(Words) /\ index' \in 1 .. Len(args') + 1 /\ status' = "parsing"
        BY <1>1, <1>2 DEF CmdTypeOK
      <3>2. arg.flags \cup {word} \in SUBSET (ReadFlags \cup {"color_diagnostics"})
        BY <1>2 DEF CmdTypeOK
      <3> QED BY <1>1, <1>2, <3>1, <3>2 DEF CmdTypeOK
    <2>2. LastValue(Output, Empty)' = LastValue(Output, Empty)
      BY <1>3, <1>4 DEF ReadArgs
    <2>3. \A w \in ReadFlags : w \in arg'.flags <=> Given({w})' # {}
      BY <1>1, <1>2, <1>4 DEF Plainly, CmdTypeOK
    <2>4. /\ arg'.new_file = arg.new_file /\ arg'.old_file = arg.old_file
          /\ arg'.output_name = arg.output_name
          /\ arg'.bin_threshold = arg.bin_threshold /\ arg'.thread_count = arg.thread_count
      BY <1>1, <1>2 DEF CmdTypeOK
    <2>5. /\ LastValue({"-new"}, Empty)' = arg.new_file
          /\ LastValue({"-old"}, Empty)' = arg.old_file
          /\ LastNumber("-thread_count", 0)' = arg.thread_count
          /\ LastNumber("-threshold", 200)' = arg.bin_threshold
      <3>1. {"-new", "-old", "-threshold", "-thread_count"} \subseteq ReadArgs
        BY DEF ReadArgs, Numeric
      <3>2. /\ LastValue({"-new"}, Empty)' = LastValue({"-new"}, Empty)
            /\ LastValue({"-old"}, Empty)' = LastValue({"-old"}, Empty)
            /\ LastNumber("-thread_count", 0)' = LastNumber("-thread_count", 0)
            /\ LastNumber("-threshold", 200)' = LastNumber("-threshold", 200)
        BY <1>5, <3>1
      <3> QED BY <1>2, <3>2 DEF Plainly
    <2>6. LastValue(Output, Empty)' = arg.output_name
      BY <1>2, <2>2 DEF Plainly
    <2>7. "color_diagnostics" \in arg'.flags <=> Given(Color)' # {}
      <3>1. Given(Color)' = Given(Color)
        BY <1>3, <1>4 DEF ReadArgs
      <3>2. arg'.flags = arg.flags \cup {word} /\ word # "color_diagnostics"
        BY <1>1, <1>2 DEF CmdTypeOK, ReadFlags
      <3> QED BY <1>2, <3>1, <3>2 DEF Plainly
    <2> QED BY <2>1, <2>3, <2>4, <2>5, <2>6, <2>7 DEF Plainly
  <1>7. \A st \in Ending : index \notin Enders(st)
    BY <1>1, <1>2, <1>3 DEF Ending, Enders, Numeric, ReadArgs
  <1> QED BY <1>1, <1>2, <1>3, <1>6, <1>7, GoOn

(* A word that is no option is passed over.                                 *)
LEMMA IgnoreStep ==
  ASSUME CInv, Ignore
  PROVE  CInv'
  <1>1. PICK word \in Plain :
          Sees(word) /\ index' = index + 1 /\ UNCHANGED <<args, arg, status>>
    BY DEF Ignore
  <1>2. /\ status = "parsing" /\ index <= Len(args) /\ args[index] = word
        /\ CmdTypeOK /\ index \in Options /\ Plainly
    BY <1>1 DEF Sees, CInv, AtOption
  <1>3. word \notin ReadArgs /\ word \notin Help /\ word \notin ReadFlags
    BY CmdAssumption
  <1>4. /\ \A W : Given(W)' = IF word \in W THEN Given(W) \cup {index} ELSE Given(W)
        /\ \A W, unset : LastValue(W, unset)' =
             IF word \in W THEN args[index + 1] ELSE LastValue(W, unset)
    BY <1>1, <1>2, <1>3, GivenStep, LastStep
  <1>5. /\ \A w \in ReadArgs : \A unset :
             /\ LastValue({w}, unset)' = LastValue({w}, unset)
             /\ LastNumber(w, unset)' = LastNumber(w, unset)
        /\ \A w \in ReadFlags : Given({w})' = Given({w})
        /\ LastValue(Output, Empty)' = LastValue(Output, Empty)
        /\ Given(Color)' = Given(Color)
    <2>1. \A w \in ReadArgs : w # word
      BY <1>3
    <2>2. \A w \in ReadFlags : w # word
      BY <1>3
    <2>3. word \notin Output /\ word \notin Color
      BY <1>3 DEF ReadArgs
    <2> QED BY <1>4, <2>1, <2>2, <2>3 DEF LastNumber
  <1>6. CmdTypeOK'
    BY <1>1, <1>2 DEF CmdTypeOK
  <1>7. Plainly'
    <2>1. {"-new", "-old", "-threshold", "-thread_count"} \subseteq ReadArgs
      BY DEF ReadArgs, Numeric
    <2>2. /\ LastValue({"-new"}, Empty)' = LastValue({"-new"}, Empty)
          /\ LastValue({"-old"}, Empty)' = LastValue({"-old"}, Empty)
          /\ LastNumber("-thread_count", 0)' = LastNumber("-thread_count", 0)
          /\ LastNumber("-threshold", 200)' = LastNumber("-threshold", 200)
      BY <1>5, <2>1
    <2> QED BY <1>1, <1>2, <1>5, <2>2 DEF Plainly
  <1>8. \A st \in Ending : index \notin Enders(st)
    BY <1>1, <1>2, <1>3 DEF Ending, Enders, Numeric, ReadArgs
  <1> QED BY <1>1, <1>2, <1>3, <1>6, <1>8, <1>7, GoOn

(* The four arguments that end the parse.                                   *)
LEMMA EnderStep ==
  ASSUME CInv, ExitHelp \/ ArgumentMissing \/ StoiThrows \/ UnknownOption
  PROVE  CInv'
  <1>1. status = "parsing" /\ index <= Len(args) /\ UNCHANGED <<args, index, arg>>
    BY DEF ExitHelp, ArgumentMissing, StoiThrows, UnknownOption, Sees
  <1>2. index \in Options
    BY <1>1 DEF CInv, AtOption
  <1>3. CASE ExitHelp
    <2>1. status' = "help" /\ args[index] \in Help
      BY <1>3 DEF ExitHelp, Sees
    <2>2. index \in Enders("help")
      BY <1>2, <2>1 DEF Enders
    <2> QED BY <1>1, <2>1, <2>2, EndStep DEF Ending
  <1>4. CASE ArgumentMissing
    <2>1. status' = "fatal" /\ args[index] \in ReadArgs /\ index = Len(args)
      BY <1>4 DEF ArgumentMissing, Sees
    <2>2. index \in Enders("fatal")
      BY <1>2, <2>1 DEF Enders
    <2> QED BY <1>1, <2>1, <2>2, EndStep DEF Ending
  <1>5. CASE StoiThrows
    <2>1. /\ status' = "threw" /\ args[index] \in Numeric /\ index < Len(args)
          /\ args[index + 1] \notin DOMAIN Number
      BY <1>5 DEF StoiThrows, Sees
    <2>2. index \in Enders("threw")
      BY <1>2, <2>1 DEF Enders
    <2> QED BY <1>1, <2>1, <2>2, EndStep DEF Ending
  <1>6. CASE UnknownOption
    <2>1. /\ status' = "fatal"
          /\ args[index] \notin Help \cup ReadArgs \cup ReadFlags \cup Plain
      BY <1>6 DEF UnknownOption, Sees
    <2>2. index \in Enders("fatal")
      BY <1>2, <2>1 DEF Enders
    <2> QED BY <1>1, <2>1, <2>2, EndStep DEF Ending
  <1> QED BY <1>3, <1>4, <1>5, <1>6

(* After the loop there was nothing that could end the parse, so that a     *)
(* Fatal is about a file that is not given.                                 *)
LEMMA FinishStep ==
  ASSUME CInv, Finish
  PROVE  CInv'
  <1>1. /\ status = "parsing" /\ index > Len(args) /\ UNCHANGED <<args, index>>
        /\ CmdTypeOK /\ Plainly /\ NoneBefore
    BY DEF Finish, CInv
  <1>2. index = Len(args) + 1
    BY <1>1 DEF CmdTypeOK
  <1>3. /\ \A W : Given(W)' = Given(W)
        /\ \A W, unset : LastValue(W, unset)' = LastValue(W, unset)
        /\ \A w, unset : LastNumber(w, unset)' = LastNumber(w, unset)
    BY <1>1, SettingsStay
  <1>4. CASE Required
    <2>1. status' = "returned" /\ arg' = WithDefaults
      BY <1>4 DEF Finish
    <2>2. /\ arg'.new_file = arg.new_file /\ arg'.old_file = arg.old_file
          /\ arg'.flags = arg.flags
          /\ arg'.thread_count =
               IF arg.thread_count = 0 THEN DefaultThreads ELSE arg.thread_count
          /\ arg'.bin_threshold =
               IF arg.bin_threshold = 0 THEN 200 ELSE arg.bin_threshold
          /\ arg'.output_name =
               IF arg.output_name = Empty THEN "image_difference" ELSE arg.output_name
      BY <1>1, <2>1 DEF WithDefaults, CmdTypeOK
    <2>3. CmdTypeOK'
      <3>1. arg' \in [new_file : Words \cup {Empty}, old_file : Words \cup {Empty},
                      output_name : Words \cup {Empty, "image_difference"},
                      bin_threshold : Int, thread_count : Int,
                      flags : SUBSET (ReadFlags \cup {"color_diagnostics"})]
        <4> DEFINE threads == IF arg.thread_count = 0 THEN DefaultThreads
                                                      ELSE arg.thread_count
                   threshold == IF arg.bin_threshold = 0 THEN 200 ELSE arg.bin_threshold
                   name == IF arg.output_name = Empty THEN "image_difference"
                                                      ELSE arg.output_name
        <4>1. arg' = [arg EXCEPT !.thread_count = threads, !.bin_threshold = threshold,
                                 !.output_name = name]
          BY <1>1, <2>1 DEF WithDefaults, CmdTypeOK
        <4>2. /\ threads \in Int /\ threshold \in Int
              /\ name \in Words \cup {Empty, "image_difference"}
          BY <1>1, CmdAssumption DEF CmdTypeOK
        <4> HIDE DEF threads, threshold, name
        <4> QED BY <1>1, <4>1, <4>2 DEF CmdTypeOK
      <3> QED BY <1>1, <2>1, <3>1 DEF CmdTypeOK
    <2>4. SettingsExplained'
      <3>1. index' = Len(args') + 1 /\ Empty \notin {arg'.new_file, arg'.old_file}
        BY <1>1, <1>2, <1>4, <2>2 DEF Required
      <3> QED BY <1>1, <1>3, <2>1, <2>2, <3>1 DEF SettingsExplained, Plainly
    <2>5. FirstEnderDecides'
      BY <2>1 DEF FirstEnderDecides
    <2> QED BY <2>1, <2>3, <2>4, <2>5 DEF CInv
  <1>5. CASE ~Required
    <2>1. status' = "fatal" /\ UNCHANGED arg
      BY <1>5 DEF Finish
    <2>2. CmdTypeOK'
      BY <1>1, <2>1 DEF CmdTypeOK
    <2>3. Plainly'
      BY <1>1, <1>3, <2>1 DEF Plainly
    <2>4. SettingsExplained'
      BY <2>1, <2>3 DEF Plainly, SettingsExplained
    <2>5. FirstEnderDecides'
      <3>1. UNION {Enders(st) : st \in {"help", "threw", "fatal"}} = {}
        BY <1>1, NoEnders
      <3>2. \A st : Enders(st)' = Enders(st)
        BY <1>1 DEF Enders, Options
      <3>3. (UNION {Enders(st) : st \in {"help", "threw", "fatal"}})' = {}
        BY <3>1, <3>2
      <3>4. Empty \in {LastValue({"-new"}, Empty)', LastValue({"-old"}, Empty)'}
        BY <1>1, <1>3, <1>5 DEF Plainly, Required
      <3>5. index' > Len(args')
        BY <1>1
      <3> QED BY <2>1, <3>3, <3>4, <3>5 DEF FirstEnderDecides
    <2> QED BY <2>1, <2>2, <2>4, <2>5 DEF CInv
  <1> QED BY <1>4, <1>5

LEMMA InitCInv ==
  ASSUME CmdInit
  PROVE  CInv
  <1>1. CmdTypeOK
    BY CmdAssumption DEF CmdInit, CmdTypeOK
  <1>2. Reading(Options, Len(args))
    BY <1>1, OptionsAre DEF CmdTypeOK
  <1>3. AtOption
    BY <1>1, <1>2 DEF CmdInit, AtOption, Reading, CmdTypeOK
  <1>4. \A W : Given(W) = {}
    <2>1. index = 1 /\ \A k \in Options : k \in Int /\ 1 <= k
      BY <1>2 DEF CmdInit, Reading
    <2> QED BY <2>1 DEF Given
  <1>5. Plainly
    BY <1>4 DEF CmdInit, Plainly, LastValue, LastNumber
  <1>6. NoneBefore
    <2>1. \A st : Enders(st) \subseteq Options
      BY DEF Enders
    <2>2. index = 1 /\ \A k \in Options : 1 <= k
      BY <1>2 DEF CmdInit, Reading
    <2> QED BY <2>1, <2>2 DEF NoneBefore
  <1>7. SettingsExplained /\ FirstEnderDecides
    BY <1>1, <1>5, PlainlyExplains DEF CmdInit, FirstEnderDecides
  <1> QED BY <1>1, <1>3, <1>5, <1>6, <1>7 DEF CInv

LEMMA StutterCInv ==
  ASSUME CInv, UNCHANGED cmdVars
  PROVE  CInv'
  <1>1. UNCHANGED <<args, index, arg, status>>
    BY DEF cmdVars
  <1>2. CmdTypeOK'
    BY <1>1 DEF CInv, CmdTypeOK
  <1>3. Options' = Options /\ \A st : Enders(st)' = Enders(st)
    BY <1>1 DEF Enders, Options
  <1>4. /\ \A W : Given(W)' = Given(W)
        /\ \A W, unset : LastValue(W, unset)' = LastValue(W, unset)
        /\ \A w, unset : LastNumber(w, unset)' = LastNumber(w, unset)
    BY <1>1, SettingsStay
  <1>5. status = "parsing" => AtOption' /\ Plainly' /\ NoneBefore'
    BY <1>1, <1>3, <1>4 DEF CInv, AtOption, Plainly, NoneBefore
  <1>6. SettingsExplained'
    BY <1>1, <1>4 DEF CInv, SettingsExplained
  <1>7. FirstEnderDecides'
    BY <1>1, <1>3, <1>4 DEF CInv, FirstEnderDecides
  <1> QED BY <1>1, <1>2, <1>5, <1>6, <1>7 DEF CInv

(* The parse keeps the invariant, for every command line.                   *)
THEOREM CmdInductive == CmdSpec => []CInv
  <1>1. CmdInit => CInv
    BY InitCInv
  <1>2. CInv /\ [CmdNext]_cmdVars => CInv'
    BY ReadArgStep, ReadFlagStep, IgnoreStep, EnderStep, FinishStep, StutterCInv
       DEF CmdNext
  <1> QED BY <1>1, <1>2, PTL DEF CmdSpec

(* parse_args keeps ctx.arg and its position typed.                         *)
THEOREM CmdTypeCorrect == CmdSpec => []CmdTypeOK
  <1>1. CInv => CmdTypeOK
    BY DEF CInv
  <1> QED BY <1>1, CmdInductive, PTL

(* Whatever the arguments are, every setting is that of the last occurrence *)
(* of its option; a value that looks like an option sets nothing, and only  *)
(* returning replaces what is unset by a default.                           *)
THEOREM SettingsExplainedAlways == CmdSpec => []SettingsExplained
  <1>1. CInv => SettingsExplained
    BY DEF CInv
  <1> QED BY <1>1, CmdInductive, PTL

(* Whatever the arguments are, the first one in option position that can    *)
(* end the parse does, and decides how; a Fatal after the loop is about a   *)
(* missing file.                                                            *)
THEOREM FirstEnderDecidesAlways == CmdSpec => []FirstEnderDecides
  <1>1. CInv => FirstEnderDecides
    BY DEF CInv
  <1> QED BY <1>1, CmdInductive, PTL

(* The arguments that are left, and the end.                                *)
ParseLeft == IF status = "parsing" THEN Len(args) + 2 - index ELSE 0

(* Every step of parse_args takes an argument, or ends it.                  *)
EveryArgumentOnce == [][ParseLeft' < ParseLeft]_cmdVars

LEMMA ParseCounts ==
  ASSUME CmdTypeOK, CmdNext
  PROVE  ParseLeft' < ParseLeft
  <1>1. Len(args) \in Nat /\ index \in 1 .. Len(args) + 1
    BY DEF CmdTypeOK
  <1>2. status = "parsing" /\ UNCHANGED args
    BY DEF CmdNext, ExitHelp, ArgumentMissing, ReadArg, StoiThrows, ReadFlag,
           UnknownOption, Ignore, Finish, Sees
  <1>3. CASE status' # "parsing"
    BY <1>1, <1>2, <1>3 DEF ParseLeft
  <1>4. CASE status' = "parsing"
    <2>1. index' \in {index + 1, index + 2}
      BY <1>4 DEF CmdNext, ExitHelp, ArgumentMissing, ReadArg, StoiThrows, ReadFlag,
                  UnknownOption, Ignore, Finish, PastArg
    <2> QED BY <1>1, <1>2, <1>4, <2>1 DEF ParseLeft
  <1> QED BY <1>3, <1>4

(* On any command line parse_args looks at no argument twice, and is over   *)
(* after one step more than there are arguments at the latest.              *)
THEOREM ParseIsLinear ==
  CmdSpec => EveryArgumentOnce /\ [](ParseLeft \in 0 .. Len(args) + 1)
  <1>1. CInv /\ [CmdNext]_cmdVars => [ParseLeft' < ParseLeft]_cmdVars
    BY ParseCounts DEF CInv
  <1>2. CInv => ParseLeft \in 0 .. Len(args) + 1
    <2> SUFFICES ASSUME CInv PROVE ParseLeft \in 0 .. Len(args) + 1
      OBVIOUS
    <2>1. Len(args) \in Nat /\ index \in 1 .. Len(args) + 1
      BY DEF CInv, CmdTypeOK
    <2> QED BY <2>1 DEF ParseLeft
  <1> QED BY <1>1, <1>2, CmdInductive, PTL DEF CmdSpec, EveryArgumentOnce

-----------------------------------------------------------------------------
(* The five functions in one specification: the one that is called keeps    *)
(* its own invariant, the others rest.                                      *)
UInv ==
  /\ UnitsTypeOK
  /\ unit = "detect" => DInv
  /\ unit = "place" => PInv
  /\ unit = "match" => MInv
  /\ unit = "histogram" => HInv
  /\ unit = "parse" => CInv

LEMMA DetectRests == DetectIdle => TypeOK
  <1> SUFFICES ASSUME DetectIdle PROVE TypeOK
    OBVIOUS
  <1>1. \A side \in Sides : segments[side] = <<>> /\ waiting[side] = {}
    BY DEF DetectIdle
  <1>2. rects \in [Sides -> Seq(Regions)] /\ segments \in [Sides -> Seq(Segment)]
    BY EmptySeq DEF DetectIdle
  <1> QED BY <1>1, <1>2 DEF DetectIdle, TypeOK

LEMMA PlaceRests == PlaceIdle => PlaceTypeOK
  BY SideAssumption DEF PlaceIdle, PlaceTypeOK, Sizes, Rects

LEMMA MatchRests == MatchIdle => MatchTypeOK
  <1> SUFFICES ASSUME MatchIdle PROVE MatchTypeOK
    OBVIOUS
  <1> DEFINE close == CHOOSE d \in Distances : d <= Threshold
  <1>1. close \in Distances
    BY UnitsAssumption
  <1>2. size = <<1, 1>> /\ size[1] = 1 /\ size[2] = 1 /\ size \in (1 .. Rows1) \X (1 .. Rows2)
    BY UnitsAssumption, MatchAssumption DEF MatchIdle
  <1>3. distance = <<<<close>>>> /\ distance[1][1] = close
    BY DEF MatchIdle
  <1>4. distance \in [1 .. size[1] -> [1 .. size[2] -> Distances]]
    <2>1. ASSUME NEW S, NEW x \in S PROVE <<x>> \in [1 .. 1 -> S]
      BY <2>1
    <2>2. distance \in [1 .. 1 -> [1 .. 1 -> Distances]]
      BY <1>1, <1>3, <2>1
    <2> QED BY <1>2, <2>2
  <1>5. /\ match12 \in Seq(1 .. size[2]) /\ match21 \in Seq(1 .. size[1])
        /\ Len(match12) = 1 /\ Len(match21) = 1 /\ match12[1] = 1 /\ match21[1] = 1
    BY <1>2 DEF MatchIdle
  <1>6. Forward \in Seq(Matches) /\ Backward \in Seq(Matches)
    <2>1. /\ Forward \in [1 .. 1 -> Matches]
          /\ Backward \in [1 .. 1 -> Matches]
      <3>1. distance[1][1] \in Distances
        BY <1>1, <1>3
      <3>2. [queryIdx |-> 1, trainIdx |-> 1, distance |-> distance[1][1]] \in Matches
        BY <3>1 DEF Matches
      <3>3. \A q \in 1 .. 1 :
              /\ [queryIdx |-> q, trainIdx |-> match12[q],
                  distance |-> distance[q][match12[q]]] \in Matches
              /\ [queryIdx |-> q, trainIdx |-> match21[q],
                  distance |-> distance[match21[q]][q]] \in Matches
        BY <1>5, <3>2
      <3> QED BY <1>5, <3>3 DEF Forward, Backward
    <2>2. \A f \in [1 .. 1 -> Matches] : f \in Seq(Matches)
      BY FunctionIsSequence
    <2> QED BY <2>1, <2>2
  <1>7. lists \in Seq(Seq(Matches))
    BY <1>6 DEF MatchIdle
  <1>8. cross_check \in BOOLEAN /\ looked = 0 /\ step = "done" /\ similar \in BOOLEAN
    BY DEF MatchIdle
  <1> QED BY <1>2, <1>4, <1>5, <1>7, <1>8 DEF MatchTypeOK

LEMMA HistogramRests == HistogramIdle => HistTypeOK
  <1> SUFFICES ASSUME HistogramIdle PROVE HistTypeOK
    OBVIOUS
  <1> DEFINE one == [b \in Bins |-> IF b = 1 THEN 1 ELSE 0]
  <1>1. one \in Histograms /\ \A b \in Bins : one[b] <= 1
    BY UnitsAssumption, HistAssumption DEF Histograms, Bins
  <1>2. old \in Histograms
    BY <1>1 DEF HistogramIdle
  <1> QED BY <1>2, UnitsAssumption, HistAssumption DEF HistogramIdle, HistTypeOK

LEMMA CmdRests == CmdIdle => CmdTypeOK
  BY UnitsAssumption DEF CmdIdle, CmdTypeOK

(* A function that rests keeps its type.                                    *)
LEMMA TypesRest ==
  ASSUME UnitsTypeOK
  PROVE  /\ UNCHANGED vars => TypeOK'
         /\ UNCHANGED placeVars => PlaceTypeOK'
         /\ UNCHANGED matchVars => MatchTypeOK'
         /\ UNCHANGED histVars => HistTypeOK'
         /\ UNCHANGED cmdVars => CmdTypeOK'
  <1> USE DEF UnitsTypeOK
  <1>1. UNCHANGED vars => TypeOK'
    BY DEF vars, TypeOK
  <1>2. UNCHANGED placeVars => PlaceTypeOK'
    BY DEF placeVars, given, PlaceTypeOK
  <1>3. UNCHANGED matchVars => MatchTypeOK'
    BY DEF matchVars, descriptors, MatchTypeOK
  <1>4. UNCHANGED histVars => HistTypeOK'
    BY DEF histVars, HistTypeOK
  <1>5. UNCHANGED cmdVars => CmdTypeOK'
    BY DEF cmdVars, CmdTypeOK
  <1> QED BY <1>1, <1>2, <1>3, <1>4, <1>5

LEMMA UnitsInitUInv == UnitsInit => UInv
  <1> SUFFICES ASSUME UnitsInit PROVE UInv
    OBVIOUS
  <1>1. unit = "detect" => DInv
    BY InitDInv DEF UnitsInit
  <1>2. unit = "place" => PInv
    BY InitPInv DEF UnitsInit
  <1>3. unit = "match" => MInv
    BY InitMInv DEF UnitsInit
  <1>4. unit = "histogram" => HInv
    BY InitHInv DEF UnitsInit
  <1>5. unit = "parse" => CInv
    BY InitCInv DEF UnitsInit
  <1>6. TypeOK
    BY <1>1, DetectRests DEF UnitsInit, DInv
  <1>7. PlaceTypeOK
    BY <1>2, PlaceRests DEF UnitsInit, PInv
  <1>8. MatchTypeOK
    BY <1>3, MatchRests DEF UnitsInit, MInv
  <1>9. HistTypeOK
    BY <1>4, HistogramRests DEF UnitsInit, HInv
  <1>10. CmdTypeOK
    BY <1>5, CmdRests DEF UnitsInit, CInv
  <1> QED BY <1>1, <1>2, <1>3, <1>4, <1>5, <1>6, <1>7, <1>8, <1>9, <1>10
          DEF UInv, UnitsTypeOK

(* One step of the function that is called.                                 *)
LEMMA UnitsStep ==
  ASSUME UInv, [UnitsNext]_unitVars
  PROVE  UInv'
  <1>1. UnitsTypeOK
    BY DEF UInv
  <1>2. UNCHANGED unit
    BY DEF UnitsNext, unitVars
  <1>3. CASE unit = "detect"
    <2>1. [Next]_vars /\ UNCHANGED <<placeVars, matchVars, histVars, cmdVars>>
      BY <1>3 DEF UnitsNext, unitVars
    <2>2. DInv'
      BY <1>3, <2>1, NextDInv DEF UInv
    <2> QED BY <1>1, <1>2, <1>3, <2>1, <2>2, TypesRest DEF UInv, UnitsTypeOK, DInv
  <1>4. CASE unit = "place"
    <2>1. [PlaceNext]_placeVars /\ UNCHANGED <<vars, matchVars, histVars, cmdVars>>
      BY <1>4 DEF UnitsNext, unitVars
    <2>2. PInv'
      BY <1>4, <2>1, NextPInv DEF UInv
    <2> QED BY <1>1, <1>2, <1>4, <2>1, <2>2, TypesRest DEF UInv, UnitsTypeOK, PInv
  <1>5. CASE unit = "match"
    <2>1. [MatchNext]_matchVars /\ UNCHANGED <<vars, placeVars, histVars, cmdVars>>
      BY <1>5 DEF UnitsNext, unitVars
    <2>2. MInv'
      BY <1>5, <2>1, MatchStep, CrossCheckStep, EndSelectStep, SortStep, DecideStep, StutterMInv
         DEF UInv, MatchNext
    <2> QED BY <1>1, <1>2, <1>5, <2>1, <2>2, TypesRest DEF UInv, UnitsTypeOK, MInv
  <1>6. CASE unit = "histogram"
    <2>1. [HistNext]_histVars /\ UNCHANGED <<vars, placeVars, matchVars, cmdVars>>
      BY <1>6 DEF UnitsNext, unitVars
    <2>2. HInv'
      BY <1>6, <2>1, NextHInv DEF UInv
    <2> QED BY <1>1, <1>2, <1>6, <2>1, <2>2, TypesRest DEF UInv, UnitsTypeOK, HInv
  <1>7. CASE unit = "parse"
    <2>1. [CmdNext]_cmdVars /\ UNCHANGED <<vars, placeVars, matchVars, histVars>>
      BY <1>7 DEF UnitsNext, unitVars
    <2>2. CInv'
      BY <1>7, <2>1, ReadArgStep, ReadFlagStep, IgnoreStep, EnderStep, FinishStep, StutterCInv
         DEF UInv, CmdNext
    <2> QED BY <1>1, <1>2, <1>7, <2>1, <2>2, TypesRest DEF UInv, UnitsTypeOK, CInv
  <1>8. CASE unit \notin {"detect", "place", "match", "histogram", "parse"}
    <2>1. UNCHANGED <<vars, placeVars, matchVars, histVars, cmdVars>>
      BY <1>8 DEF UnitsNext, unitVars
    <2> QED BY <1>1, <1>2, <1>8, <2>1, TypesRest DEF UInv, UnitsTypeOK
  <1> QED BY <1>3, <1>4, <1>5, <1>6, <1>7, <1>8

(* detect_segments, the placing of a segment, descriptor_match,             *)
(* check_histogram_differential and parse_args keep to their types, however *)
(* large the inputs: no task holds an index past the end of its vector.     *)
THEOREM UnitsTypeCorrect == UnitsSpec => []UnitsTypeOK
  <1>1. UInv /\ [UnitsNext]_unitVars => UInv'
    BY UnitsStep
  <1>2. UInv => UnitsTypeOK
    BY DEF UInv
  <1> QED BY <1>1, <1>2, UnitsInitUInv, PTL DEF UnitsSpec
=============================================================================
