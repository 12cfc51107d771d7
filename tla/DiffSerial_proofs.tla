------------------------- MODULE DiffSerial_proofs --------------------------
(***************************************************************************)
(* Proofs about DiffSerial, for any segments: the serial build writes all   *)
(* of its outputs or none, and it writes them exactly when every old        *)
(* segment matches every new one.  It takes a step for every pair at most,  *)
(* and two more for every old segment.                                      *)
(***************************************************************************)
EXTENDS DiffSerial, Integers, TLAPS

(* The pair at positions k and l has nothing against it.                    *)
Good(k, l) == Similar(OldOrder[k], NewOrder[l]) /\ placeable[NewOrder[l]]

(* The flags of the context are never set: the bodies work on copies.       *)
FlagInv == matched = [s \in Segments |-> FALSE]

(* The pairs gone through so far were all good.                             *)
PassedInv ==
  main \in {"outer", "inner", "delete", "add"} =>
    /\ \A k \in 1 .. i - 1 :
         /\ descriptor[OldOrder[k]]
         /\ \A l \in 1 .. Len(NewOrder) : Good(k, l)
    /\ main = "inner" =>
         /\ i <= Len(OldOrder)
         /\ descriptor[OldOrder[i]]
         /\ \A l \in 1 .. j - 1 : Good(i, l)
    /\ main \in {"delete", "add"} => i = Len(OldOrder) + 1

(* The positions of the new segments painted so far.                        *)
Painted ==
  {l \in 1 .. Len(NewOrder) : i > 1 \/ (main = "inner" /\ l < j)}

ResultInv ==
  main \in {"outer", "inner"} =>
    result = RedOf({NewOrder[l] : l \in Painted})

(* What is on disk at each point of the function.                           *)
FilesInv ==
  LET diff == Imwrite({}, "diff", RedOf(Matchable))
  IN  /\ main \in {"outer", "inner", "aborted"} => files = {}
      /\ main = "delete" => CreateChangeImage /\ files = diff
      /\ main = "add" => CreateChangeImage /\ files = Imwrite(diff, "delete", Old)
      /\ main = "aborted" => ~AllPairs
      /\ main = "returned" => files = IF AllPairs THEN Complete ELSE {}

SInv == TypeOK /\ FlagInv /\ PassedInv /\ ResultInv /\ FilesInv

LEMMA Orders ==
  /\ Len(OldOrder) \in Nat /\ Len(NewOrder) \in Nat
  /\ \A k \in 1 .. Len(OldOrder) : OldOrder[k] \in Old
  /\ \A l \in 1 .. Len(NewOrder) : NewOrder[l] \in New
  /\ \A o \in Old : \E k \in 1 .. Len(OldOrder) : OldOrder[k] = o
  /\ \A n \in New : \E l \in 1 .. Len(NewOrder) : NewOrder[l] = n
BY OrderAssumption DEF Enumerates

(* Once all positions are through, all pairs match ...                      *)
LEMMA ThroughAllPairs ==
  ASSUME TypeOK, PassedInv, main \in {"outer", "delete", "add"}, i > Len(OldOrder)
  PROVE  AllPairs
<1>1. \A k \in 1 .. Len(OldOrder) :
        /\ descriptor[OldOrder[k]]
        /\ \A l \in 1 .. Len(NewOrder) : Good(k, l)
  BY Orders DEF PassedInv, TypeOK
<1>2. QED
  BY <1>1, Orders DEF AllPairs, Good

(* ... and all that is matchable is painted.                                *)
LEMMA ThroughPainted ==
  ASSUME TypeOK, PassedInv, ResultInv, main = "outer", i > Len(OldOrder)
  PROVE  result = RedOf(Matchable)
<1>1. {NewOrder[l] : l \in Painted} = Matchable
  <2>1. CASE Old = {}
    <3>1. Len(OldOrder) = 0
      BY <2>1, Orders
    <3>2. i = 1
      BY <3>1 DEF TypeOK
    <3>3. QED
      BY <2>1, <3>2 DEF Painted, Matchable
  <2>2. CASE Old # {}
    <3>1. i > 1
      BY <2>2, Orders DEF TypeOK
    <3>2. {NewOrder[l] : l \in Painted} = New
      BY <3>1, Orders DEF Painted
    <3>3. AllPairs
      BY ThroughAllPairs
    <3>4. Matchable = New
      BY <2>2, <3>3 DEF AllPairs, Matchable
    <3>5. QED
      BY <3>2, <3>4
  <2>3. QED
    BY <2>1, <2>2
<1>2. QED
  BY <1>1 DEF ResultInv

LEMMA SInvInit == Init => SInv
<1> SUFFICES ASSUME Init PROVE SInv
  OBVIOUS
<1>1. TypeOK
  BY Orders DEF Init, TypeOK
<1>2. FlagInv /\ PassedInv /\ FilesInv
  BY DEF Init, FlagInv, PassedInv, FilesInv
<1>3. ResultInv
  BY DEF Init, ResultInv, Painted, RedOf
<1>4. QED
  BY <1>1, <1>2, <1>3 DEF SInv

LEMMA SInvStep ==
  ASSUME SInv, [Next]_vars
  PROVE  SInv'
<1> USE DEF SInv, inputs
<1>1. CASE BeginOuter
  <2> DEFINE o == OldOrder[i]
  <2>1. /\ o \in Old /\ ~matched[o]
        /\ i \in 1 .. Len(OldOrder) /\ main = "outer"
        /\ main' = IF descriptor[o] THEN "inner" ELSE "returned"
        /\ j' = 1
        /\ UNCHANGED <<inputs, i, matched, result, files>>
    BY <1>1, Orders DEF BeginOuter, FlagInv, TypeOK, Segments
  <2>2. TypeOK'
    BY <2>1, Orders DEF TypeOK, InputsOK
  <2>3. PassedInv'
    BY <2>1 DEF PassedInv, Good, Similar
  <2>4. ResultInv'
    <3>1. main' = "inner" => Painted' = Painted
      BY <2>1 DEF Painted
    <3>2. QED
      BY <2>1, <3>1 DEF ResultInv, RedOf
  <2>5. ~descriptor[o] => ~AllPairs'
    BY <2>1 DEF AllPairs
  <2>6. FilesInv'
    BY <2>1, <2>5 DEF FilesInv
  <2>7. QED
    BY <2>1, <2>2, <2>3, <2>4, <2>6 DEF FlagInv
<1>2. CASE Leave
  <2> DEFINE o == OldOrder[i]
             n == NewOrder[j]
  <2>1. /\ main = "inner" /\ i \in 1 .. Len(OldOrder) /\ j \in 1 .. Len(NewOrder)
        /\ o \in Old /\ n \in New /\ ~matched[n]
    BY <1>2, Orders DEF Leave, PassedInv, TypeOK, FlagInv, Segments
  <2>2. ~Similar(o, n)
    BY <1>2, <2>1 DEF Leave, Rejects, Similar
  <2>3. ~AllPairs
    BY <2>1, <2>2 DEF AllPairs
  <2>4. /\ main' = "returned" /\ files = {}
        /\ UNCHANGED <<inputs, i, j, matched, result, files>>
    BY <1>2, <2>1 DEF Leave, FilesInv
  <2>5. TypeOK'
    BY <2>4 DEF TypeOK, InputsOK
  <2>6. ~AllPairs'
    BY <2>3, <2>4 DEF AllPairs, Similar
  <2>7. QED
    BY <2>4, <2>5, <2>6 DEF FlagInv, PassedInv, ResultInv, FilesInv
<1>3. CASE Paint
  <2> DEFINE o == OldOrder[i]
             n == NewOrder[j]
  <2>1. /\ main = "inner" /\ i \in 1 .. Len(OldOrder) /\ j \in 1 .. Len(NewOrder)
        /\ o \in Old /\ n \in New
    BY <1>3, Orders DEF Paint, PassedInv, TypeOK
  <2>2. /\ ~Rejects(o, n) /\ placeable[n]
        /\ result' = result \cup Frame[n] \cup Differs[n]
        /\ j' = j + 1
        /\ UNCHANGED <<inputs, main, i, matched, files>>
    BY <1>3 DEF Paint, FlagsAfter
  <2>3. Good(i, j)
    BY <2>1, <2>2 DEF PassedInv, Good, Similar, Rejects
  <2>4. TypeOK'
    BY <2>1, <2>2, Orders, PaintAssumption DEF TypeOK, InputsOK
  <2>5. PassedInv'
    <3>1. \A k, l : Good(k, l)' <=> Good(k, l)
      BY <2>2 DEF Good, Similar
    <3>2. \A l \in 1 .. j' - 1 : Good(i, l)
      BY <2>1, <2>2, <2>3 DEF PassedInv
    <3>3. QED
      BY <2>1, <2>2, <3>1, <3>2 DEF PassedInv
  <2>6. ResultInv'
    <3>1. Painted' = Painted \cup {j}
      BY <2>1, <2>2, Orders DEF Painted
    <3>2. {NewOrder[l] : l \in Painted'} = {NewOrder[l] : l \in Painted} \cup {n}
      BY <3>1
    <3>3. result = RedOf({NewOrder[l] : l \in Painted})
      BY <2>1 DEF ResultInv
    <3>4. RedOf({NewOrder[l] : l \in Painted} \cup {n})
            = RedOf({NewOrder[l] : l \in Painted}) \cup Frame[n] \cup Differs[n]
      BY DEF RedOf
    <3>5. QED
      BY <2>2, <3>2, <3>3, <3>4 DEF ResultInv, RedOf
  <2>7. QED
    BY <2>1, <2>2, <2>4, <2>5, <2>6 DEF FlagInv, FilesInv
<1>4. CASE Throw
  <2> DEFINE o == OldOrder[i]
             n == NewOrder[j]
  <2>1. /\ main = "inner" /\ i \in 1 .. Len(OldOrder) /\ j \in 1 .. Len(NewOrder)
        /\ o \in Old /\ n \in New
    BY <1>4, Orders DEF Throw, PassedInv, TypeOK
  <2>2. /\ ~placeable[n] /\ main' = "aborted" /\ files = {}
        /\ UNCHANGED <<inputs, i, j, matched, result, files>>
    BY <1>4, <2>1 DEF Throw, FlagsAfter, FilesInv
  <2>3. ~AllPairs'
    BY <2>1, <2>2 DEF AllPairs
  <2>4. TypeOK'
    BY <2>2 DEF TypeOK, InputsOK
  <2>5. QED
    BY <2>2, <2>3, <2>4 DEF FlagInv, PassedInv, ResultInv, FilesInv
<1>5. CASE EndInner
  <2>1. /\ main = "inner" /\ i \in 1 .. Len(OldOrder)
        /\ j = Len(NewOrder) + 1
        /\ main' = "outer" /\ i' = i + 1
        /\ UNCHANGED <<inputs, j, matched, result, files>>
    BY <1>5, Orders DEF EndInner, PassedInv, TypeOK
  <2>2. TypeOK'
    BY <2>1, Orders DEF TypeOK, InputsOK
  <2>3. PassedInv'
    <3>1. \A k, l : Good(k, l)' <=> Good(k, l)
      BY <2>1 DEF Good, Similar
    <3>2. /\ descriptor[OldOrder[i]]
          /\ \A l \in 1 .. Len(NewOrder) : Good(i, l)
      BY <2>1, Orders DEF PassedInv
    <3>3. QED
      BY <2>1, <3>1, <3>2 DEF PassedInv
  <2>4. ResultInv'
    <3>1. Painted' = Painted
      BY <2>1, Orders DEF Painted
    <3>2. QED
      BY <2>1, <3>1 DEF ResultInv, RedOf
  <2>5. QED
    BY <2>1, <2>2, <2>3, <2>4 DEF FlagInv, FilesInv
<1>6. ASSUME UNCHANGED inputs
      PROVE  /\ AllPairs' <=> AllPairs
             /\ RedOf(Matchable)' = RedOf(Matchable)
             /\ Complete' = Complete
  BY <1>6 DEF AllPairs, Matchable, RedOf, Similar, Complete
<1>7. CASE WriteDiff
  <2>1. /\ main = "outer" /\ i = Len(OldOrder) + 1 /\ files = {}
        /\ files' = Imwrite({}, "diff", result)
        /\ main' = IF CreateChangeImage THEN "delete" ELSE "returned"
        /\ UNCHANGED <<inputs, i, j, matched, result>>
    <3>1. main = "outer" /\ i > Len(OldOrder) /\ files = {}
      BY <1>7 DEF WriteDiff, FilesInv
    <3>2. i = Len(OldOrder) + 1
      BY <3>1, Orders DEF TypeOK
    <3>3. QED
      BY <1>7, <3>1, <3>2 DEF WriteDiff
  <2>2. AllPairs /\ result = RedOf(Matchable)
    BY <2>1, Orders, ThroughAllPairs, ThroughPainted
  <2>3. TypeOK'
    BY <2>1, FlagAssumption DEF TypeOK, InputsOK
  <2>4. FilesInv'
    BY <1>6, <2>1, <2>2, FlagAssumption DEF FilesInv, Complete
  <2>5. PassedInv'
    BY <2>1, FlagAssumption DEF PassedInv, Good, Similar
  <2>6. QED
    BY <2>1, <2>3, <2>4, <2>5, FlagAssumption DEF FlagInv, ResultInv
<1>8. ASSUME main \in {"delete", "add"}
      PROVE  AllPairs /\ Outlined(OldOrder) = Old /\ Outlined(NewOrder) = New
  <2>1. AllPairs
    BY <1>8, Orders, ThroughAllPairs DEF PassedInv
  <2>2. \A s \in Segments : ~matched[s]
    BY DEF FlagInv
  <2>3. \A k \in 1 .. Len(OldOrder) : \A l \in 1 .. k :
          OldOrder[l] \in Old /\ ~matched[OldOrder[l]]
    BY <2>2, Orders DEF Segments
  <2>4. Outlined(OldOrder) = {OldOrder[k] : k \in 1 .. Len(OldOrder)}
    BY <2>3 DEF Outlined
  <2>5. \A k \in 1 .. Len(NewOrder) : \A l \in 1 .. k :
          NewOrder[l] \in New /\ ~matched[NewOrder[l]]
    BY <2>2, Orders DEF Segments
  <2>6. Outlined(NewOrder) = {NewOrder[k] : k \in 1 .. Len(NewOrder)}
    BY <2>5 DEF Outlined
  <2>7. QED
    BY <2>1, <2>4, <2>6, Orders
<1>9. CASE WriteDelete
  <2>1. /\ main = "delete" /\ main' = "add"
        /\ files' = Imwrite(files, "delete", Old)
        /\ UNCHANGED <<inputs, i, j, matched, result>>
    BY <1>8, <1>9 DEF WriteDelete
  <2>2. TypeOK'
    BY <2>1 DEF TypeOK, InputsOK
  <2>3. FilesInv'
    BY <1>6, <2>1 DEF FilesInv
  <2>4. PassedInv'
    BY <2>1 DEF PassedInv, Good, Similar
  <2>5. QED
    BY <2>1, <2>2, <2>3, <2>4 DEF FlagInv, ResultInv
<1>10. CASE WriteAdd
  <2>1. /\ main = "add" /\ main' = "returned" /\ AllPairs
        /\ files' = Imwrite(files, "add", New)
        /\ UNCHANGED <<inputs, i, j, matched, result>>
    BY <1>8, <1>10 DEF WriteAdd
  <2>2. TypeOK'
    BY <2>1 DEF TypeOK, InputsOK
  <2>3. FilesInv'
    BY <1>6, <2>1 DEF FilesInv, Complete
  <2>4. QED
    BY <2>1, <2>2, <2>3 DEF FlagInv, PassedInv, ResultInv
<1>11. CASE UNCHANGED vars
  <2>1. UNCHANGED <<inputs, main, i, j, matched, result, files>>
    BY <1>11 DEF vars
  <2>2. TypeOK' /\ FlagInv' /\ FilesInv'
    BY <1>6, <2>1 DEF TypeOK, InputsOK, FlagInv, FilesInv
  <2>3. PassedInv'
    BY <2>1 DEF PassedInv, Good, Similar
  <2>4. ResultInv'
    BY <2>1 DEF ResultInv, Painted, RedOf
  <2>5. QED
    BY <2>2, <2>3, <2>4
<1>12. QED
  BY <1>1, <1>2, <1>3, <1>4, <1>5, <1>7, <1>9, <1>10, <1>11 DEF Next

LEMMA Inductive == Spec => []SInv
<1>1. SInv /\ [Next]_vars => SInv'
  BY SInvStep
<1>2. QED
  BY <1>1, SInvInit, PTL DEF Spec

(* Type correctness: the loop positions never run past the vectors.         *)
THEOREM TypeCorrect == Spec => []TypeOK
<1>1. SInv => TypeOK
  BY DEF SInv
<1>2. QED
  BY <1>1, Inductive, PTL

(* The serial build writes all its outputs when every old segment matches   *)
(* every new one and all can be placed, and nothing at all otherwise.       *)
THEOREM SerialAllOrNothing == Spec => []AllOrNothing
<1>1. SInv => AllOrNothing
  BY DEF SInv, FilesInv, AllOrNothing
<1>2. QED
  BY <1>1, Inductive, PTL

-----------------------------------------------------------------------------
(* How long the loops take.                                                 *)

(* The steps of one turn of the outer loop: its head, the new segments and  *)
(* its end.                                                                 *)
Turn == Len(NewOrder) + 2
Turns == (Len(OldOrder) + 1 - i) * Turn

StepsLeft ==
  CASE main = "outer" -> Turns + 3
    [] main = "inner" -> Turns + 3 - j
    [] main = "delete" -> 2
    [] main = "add" -> 1
    [] main \in {"returned", "aborted"} -> 0

(* Every step of create_diff_image brings its end closer.                   *)
EveryStepCounts == [][StepsLeft' < StepsLeft]_vars

LEMMA Products ==
  ASSUME NEW k \in Nat, NEW c \in Nat
  PROVE  k * c \in Nat /\ (k + 1) * c = k * c + c
OBVIOUS

(* The end of a turn takes a whole turn off.                                *)
LEMMA TurnsLeft ==
  ASSUME TypeOK
  PROVE  /\ Turns \in Nat /\ Turn \in Nat /\ Turn = Len(NewOrder) + 2
         /\ i <= Len(OldOrder) => Turns >= Turn
         /\ i <= Len(OldOrder) /\ i' = i + 1 => Turns' = Turns - Turn
<1>1. Len(OldOrder) \in Nat /\ Turn \in Nat /\ Turn = Len(NewOrder) + 2
  BY Orders DEF Turn
<1>2. i \in 1 .. Len(OldOrder) + 1
  BY DEF TypeOK
<1> DEFINE rest == Len(OldOrder) + 1 - i
<1>3. rest \in Nat /\ Turns = rest * Turn
  BY <1>1, <1>2 DEF Turns
<1>4. Turns \in Nat
  BY <1>1, <1>3, Products
<1>5. ASSUME i <= Len(OldOrder)
      PROVE  /\ Turns = (rest - 1) * Turn + Turn
             /\ (rest - 1) * Turn \in Nat
  <2>1. rest - 1 \in Nat /\ (rest - 1) + 1 = rest
    BY <1>1, <1>2, <1>5
  <2>2. QED
    BY <1>1, <1>3, <2>1, Products
<1>6. ASSUME i <= Len(OldOrder), i' = i + 1
      PROVE  Turns' = (rest - 1) * Turn
  <2>1. Len(OldOrder) + 1 - i' = rest - 1
    BY <1>1, <1>2, <1>6
  <2>2. QED
    BY <2>1 DEF Turns, Turn
<1> HIDE DEF rest
<1>7. QED
  BY <1>1, <1>4, <1>5, <1>6

LEMMA StepCounts ==
  ASSUME SInv, Next
  PROVE  StepsLeft' < StepsLeft
<1>1. /\ Turns \in Nat /\ Turn \in Nat /\ Turn = Len(NewOrder) + 2
      /\ i <= Len(OldOrder) => Turns >= Turn
      /\ i <= Len(OldOrder) /\ i' = i + 1 => Turns' = Turns - Turn
  BY TurnsLeft DEF SInv
<1>2. /\ Len(NewOrder) \in Nat /\ Len(OldOrder) \in Nat
      /\ i \in Int /\ j \in 1 .. Len(NewOrder) + 1
  BY Orders DEF SInv, TypeOK
<1>3. main = "inner" => i <= Len(OldOrder)
  BY DEF SInv, PassedInv
<1>4. UNCHANGED i => Turns' = Turns
  BY DEF Turns, Turn
<1>5. CASE BeginOuter
  <2>1. main = "outer" /\ main' \in {"inner", "returned"} /\ j' = 1 /\ UNCHANGED i
    BY <1>5 DEF BeginOuter
  <2>2. StepsLeft = Turns + 3 /\ StepsLeft' \in {Turns + 3 - 1, 0}
    BY <1>4, <2>1 DEF StepsLeft
  <2>3. QED
    BY <1>1, <2>2
<1>6. CASE Leave \/ Throw
  <2>1. main = "inner" /\ main' \in {"returned", "aborted"}
    BY <1>6 DEF Leave, Throw
  <2>2. StepsLeft = Turns + 3 - j /\ StepsLeft' = 0
    BY <2>1 DEF StepsLeft
  <2>3. QED
    BY <1>1, <1>2, <1>3, <2>1, <2>2
<1>7. CASE Paint
  <2>1. main = "inner" /\ main' = "inner" /\ j' = j + 1 /\ UNCHANGED i
    BY <1>7 DEF Paint
  <2>2. StepsLeft = Turns + 3 - j /\ StepsLeft' = Turns + 3 - (j + 1)
    BY <1>4, <2>1 DEF StepsLeft
  <2>3. QED
    BY <1>1, <1>2, <2>2
<1>8. CASE EndInner
  <2>1. main = "inner" /\ main' = "outer" /\ i' = i + 1
    BY <1>8 DEF EndInner
  <2>2. StepsLeft = Turns + 3 - j /\ StepsLeft' = (Turns - Turn) + 3
    BY <1>1, <1>3, <2>1 DEF StepsLeft
  <2>3. QED
    BY <1>1, <1>2, <2>2
<1>9. CASE WriteDiff
  <2>1. main = "outer" /\ main' \in {"delete", "returned"}
    BY <1>9 DEF WriteDiff
  <2>2. StepsLeft = Turns + 3 /\ StepsLeft' \in {2, 0}
    BY <2>1 DEF StepsLeft
  <2>3. QED
    BY <1>1, <2>2
<1>10. CASE WriteDelete \/ WriteAdd
  BY <1>10 DEF WriteDelete, WriteAdd, StepsLeft
<1>11. QED
  BY <1>5, <1>6, <1>7, <1>8, <1>9, <1>10 DEF Next

(* The serial create_diff_image is over after at most a step per pair, two  *)
(* more per old segment and three for the outputs, whatever the flags, the  *)
(* verdicts and the places say: neither loop can be held up by the copies   *)
(* it iterates over.                                                        *)
THEOREM LoopsAreShort ==
  Spec => /\ EveryStepCounts /\ [](StepsLeft \in Nat)
          /\ StepsLeft = Len(OldOrder) * (Len(NewOrder) + 2) + 3
<1>1. SInv /\ [Next]_vars => [StepsLeft' < StepsLeft]_vars
  BY StepCounts
<1>2. SInv => StepsLeft \in Nat
  <2> SUFFICES ASSUME SInv PROVE StepsLeft \in Nat
    OBVIOUS
  <2>1. /\ Turns \in Nat /\ Turn \in Nat /\ Turn = Len(NewOrder) + 2
        /\ i <= Len(OldOrder) => Turns >= Turn
    BY TurnsLeft DEF SInv
  <2>2. /\ Len(NewOrder) \in Nat /\ j \in 1 .. Len(NewOrder) + 1
        /\ main \in {"outer", "inner", "delete", "add", "returned", "aborted"}
        /\ main = "inner" => i <= Len(OldOrder)
    BY Orders DEF SInv, TypeOK, PassedInv
  <2>3. QED
    BY <2>1, <2>2 DEF StepsLeft
<1>3. Init => StepsLeft = Len(OldOrder) * (Len(NewOrder) + 2) + 3
  BY Orders DEF Init, StepsLeft, Turns, Turn
<1>4. QED
  BY <1>1, <1>2, <1>3, Inductive, PTL DEF Spec, EveryStepCounts
=============================================================================
