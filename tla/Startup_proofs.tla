--------------------------- MODULE Startup_proofs ---------------------------
(***************************************************************************)
(* Proofs about Startup: the messages of concurrent Fatals never run into   *)
(* each other, the way the program ends tells what was wrong, loading is    *)
(* what Gazosan takes it for, and it is over after a few steps and without  *)
(* a deadlock.                                                              *)
(***************************************************************************)
EXTENDS Startup, TLAPS

(* The mutex has the owner that is between locking and the newline.         *)
LockInv == \A t \in Threads : printer[t] \in {"locked", "texted"} <=> mu = t

(* A line without its newline is being printed right now.                   *)
LastInv ==
  stderr # <<>> /\ stderr[Len(stderr)][2] = "text" =>
    printer[stderr[Len(stderr)][1]] = "texted"

(* Who has printed, and that a finished printer has left a whole line.      *)
TraceInv ==
  /\ \A k \in 1 .. Len(stderr) : printer[stderr[k][1]] # "quiet"
  /\ \A t \in Threads : printer[t] = "printed" =>
       \E k \in 1 .. Len(stderr) : stderr[k][2] = "newline"

(* A thread is in Fatal for its reason; tasks and main know their files.    *)
TaskInv ==
  /\ \A side \in Sides :
       /\ printer[side] # "quiet" => task[side] = "fatal"
       /\ task[side] = "fatal" => file[side] \in Unreadable
       /\ task[side] = "opened" => file[side] \in {"image"} \cup Undecodable
       /\ task[side] = "threw" => file[side] \in Undecodable
       /\ task[side] = "loaded" => file[side] = "image" /\ color[side]
       /\ main # "loading" => task[side] = "loaded"
  /\ printer["main"] # "quiet" => main = "fatal"
  /\ main = "fatal" => same
  /\ main = "continuing" => ~same

EndInv ==
  /\ status = "exit1" => \E k \in 1 .. Len(stderr) : stderr[k][2] = "newline"
  /\ status = "abort" => stderr = <<>> /\ \E side \in Sides : file[side] \in Undecodable

IInv == TypeOK /\ LockInv /\ LastInv /\ WholeLines /\ TraceInv /\ TaskInv /\ EndInv

LEMMA IInvInit == Init => IInv
BY DEF Init, IInv, TypeOK, LockInv, LastInv, WholeLines, TraceInv, TaskInv,
       EndInv, Threads, Sides, Unreadable, Undecodable

(* Type correctness of a step.                                              *)
LEMMA TypeStep ==
  ASSUME TypeOK, [Next]_vars
  PROVE  TypeOK'
<1> USE DEF TypeOK, inputs
<1>1. ASSUME NEW side \in Sides, MustOpen(side)
      PROVE  TypeOK'
  BY <1>1 DEF MustOpen, Threads
<1>2. ASSUME NEW side \in Sides, Decode(side)
      PROVE  TypeOK'
  BY <1>2 DEF Decode
<1>3. CASE Join \/ Rethrow
  BY <1>3 DEF Join, Rethrow
<1>4. CASE Check
  BY <1>4 DEF Check, Threads
<1>5. ASSUME NEW t \in Threads, Lock(t)
      PROVE  TypeOK'
  BY <1>5 DEF Lock, Proceed
<1>6. ASSUME NEW t \in Threads, PutText(t)
      PROVE  TypeOK'
  BY <1>6 DEF PutText, Proceed
<1>7. ASSUME NEW t \in Threads, PutNewline(t)
      PROVE  TypeOK'
  BY <1>7 DEF PutNewline, Proceed
<1>8. ASSUME NEW t \in Threads, Exit(t)
      PROVE  TypeOK'
  BY <1>8 DEF Exit
<1>9. CASE UNCHANGED vars
  BY <1>9 DEF vars
<1>10. QED
  BY <1>1, <1>2, <1>3, <1>4, <1>5, <1>6, <1>7, <1>8, <1>9 DEF Next

(* A step of a Fatal moves its own thread only.                             *)
LEMMA PrintMovesOne ==
  ASSUME TypeOK, NEW t \in Threads, NEW from, NEW to, Proceed(t, from, to)
  PROVE  /\ printer[t] = from
         /\ printer'[t] = to
         /\ \A u \in Threads : u # t => printer'[u] = printer[u]
BY DEF TypeOK, Proceed

(* What appending one piece of output does.                                 *)
LEMMA Appended ==
  ASSUME TypeOK, NEW e \in Threads \X {"text", "newline"},
         stderr' = Append(stderr, e)
  PROVE  /\ Len(stderr) \in Nat /\ Len(stderr') = Len(stderr) + 1
         /\ stderr' # <<>> /\ stderr'[Len(stderr')] = e
         /\ \A k \in 1 .. Len(stderr) :
              stderr'[k] = stderr[k] /\ stderr[k] \in Threads \X {"text", "newline"}
BY DEF TypeOK

LEMMA PutTextStep ==
  ASSUME IInv, NEW t \in Threads, PutText(t), TypeOK'
  PROVE  IInv'
<1> USE DEF IInv
<1>1. /\ printer[t] = "locked" /\ printer'[t] = "texted"
      /\ \A u \in Threads : u # t => printer'[u] = printer[u]
  BY PrintMovesOne DEF PutText
<1>2. /\ stderr' = Append(stderr, <<t, "text">>)
      /\ UNCHANGED <<file, same, task, color, main, mu, status>>
  BY DEF PutText, inputs
<1>3. <<t, "text">> \in Threads \X {"text", "newline"}
  OBVIOUS
<1>4. /\ Len(stderr) \in Nat /\ Len(stderr') = Len(stderr) + 1
      /\ stderr' # <<>> /\ stderr'[Len(stderr')] = <<t, "text">>
      /\ \A k \in 1 .. Len(stderr) :
           stderr'[k] = stderr[k] /\ stderr[k] \in Threads \X {"text", "newline"}
  BY <1>2, <1>3, Appended
<1>5. LockInv'
  BY <1>1, <1>2 DEF LockInv
<1>6. LastInv'
  BY <1>1, <1>4 DEF LastInv
<1>7. WholeLines'
  <2>1. Len(stderr) > 0 => stderr[Len(stderr)][2] # "text"
    <3> SUFFICES ASSUME Len(stderr) > 0, stderr[Len(stderr)][2] = "text"
                 PROVE  FALSE
      OBVIOUS
    <3>1. stderr # <<>> /\ stderr[Len(stderr)][1] \in Threads
      BY <1>4
    <3>2. printer[stderr[Len(stderr)][1]] = "texted"
      BY <3>1 DEF LastInv
    <3>3. mu = stderr[Len(stderr)][1] /\ mu = t
      BY <1>1, <3>1, <3>2 DEF LockInv
    <3>4. QED
      BY <1>1, <3>2, <3>3
  <2>2. ASSUME NEW k \in 1 .. Len(stderr') - 1, stderr'[k][2] = "text"
        PROVE  stderr'[k + 1] = <<stderr'[k][1], "newline">>
    <3>1. k \in 1 .. Len(stderr) /\ stderr'[k] = stderr[k]
      BY <1>4, <2>2
    <3>2. k # Len(stderr)
      BY <1>4, <2>1, <2>2, <3>1
    <3>3. k \in 1 .. Len(stderr) - 1 /\ k + 1 \in 1 .. Len(stderr)
      BY <1>4, <3>1, <3>2
    <3>4. QED
      BY <1>4, <2>2, <3>1, <3>3 DEF WholeLines
  <2>3. QED
    BY <2>2 DEF WholeLines
<1>8. TraceInv'
  <2>1. ASSUME NEW k \in 1 .. Len(stderr')
        PROVE  printer'[stderr'[k][1]] # "quiet"
    BY <1>1, <1>4 DEF TraceInv
  <2>2. ASSUME NEW u \in Threads, printer'[u] = "printed"
        PROVE  \E k \in 1 .. Len(stderr') : stderr'[k][2] = "newline"
    BY <1>1, <1>4, <2>2 DEF TraceInv
  <2>3. QED
    BY <2>1, <2>2 DEF TraceInv
<1>9. TaskInv'
  BY <1>1, <1>2 DEF TaskInv, Threads
<1>10. EndInv'
  BY <1>2 DEF EndInv, PutText, Proceed
<1>11. QED
  BY <1>5, <1>6, <1>7, <1>8, <1>9, <1>10

LEMMA PutNewlineStep ==
  ASSUME IInv, NEW t \in Threads, PutNewline(t), TypeOK'
  PROVE  IInv'
<1> USE DEF IInv
<1>1. /\ printer[t] = "texted" /\ printer'[t] = "printed"
      /\ \A u \in Threads : u # t => printer'[u] = printer[u]
  BY PrintMovesOne DEF PutNewline
<1>2. /\ stderr' = Append(stderr, <<t, "newline">>) /\ mu' = "free"
      /\ UNCHANGED <<file, same, task, color, main, status>>
  BY DEF PutNewline, inputs
<1>3. <<t, "newline">> \in Threads \X {"text", "newline"}
  OBVIOUS
<1>4. /\ Len(stderr) \in Nat /\ Len(stderr') = Len(stderr) + 1
      /\ stderr' # <<>> /\ stderr'[Len(stderr')] = <<t, "newline">>
      /\ \A k \in 1 .. Len(stderr) :
           stderr'[k] = stderr[k] /\ stderr[k] \in Threads \X {"text", "newline"}
  BY <1>2, <1>3, Appended
<1>5. mu = t
  BY <1>1 DEF LockInv
<1>6. LockInv'
  BY <1>1, <1>2, <1>5 DEF LockInv, Threads, Sides
<1>7. LastInv'
  BY <1>4 DEF LastInv
<1>8. WholeLines'
  <2>1. ASSUME Len(stderr) > 0, stderr[Len(stderr)][2] = "text"
        PROVE  stderr[Len(stderr)][1] = t
    <3>1. stderr # <<>> /\ stderr[Len(stderr)][1] \in Threads
      BY <1>4, <2>1
    <3>2. printer[stderr[Len(stderr)][1]] = "texted"
      BY <2>1, <3>1 DEF LastInv
    <3>3. QED
      BY <1>5, <3>1, <3>2 DEF LockInv
  <2>2. ASSUME NEW k \in 1 .. Len(stderr') - 1, stderr'[k][2] = "text"
        PROVE  stderr'[k + 1] = <<stderr'[k][1], "newline">>
    <3>1. k \in 1 .. Len(stderr) /\ stderr'[k] = stderr[k]
      BY <1>4, <2>2
    <3>2. CASE k = Len(stderr)
      BY <1>4, <2>1, <2>2, <3>1, <3>2
    <3>3. CASE k # Len(stderr)
      <4>1. k \in 1 .. Len(stderr) - 1 /\ k + 1 \in 1 .. Len(stderr)
        BY <1>4, <3>1, <3>3
      <4>2. QED
        BY <1>4, <2>2, <3>1, <4>1 DEF WholeLines
    <3>4. QED
      BY <3>2, <3>3
  <2>3. QED
    BY <2>2 DEF WholeLines
<1>9. TraceInv'
  <2>1. ASSUME NEW k \in 1 .. Len(stderr')
        PROVE  printer'[stderr'[k][1]] # "quiet"
    BY <1>1, <1>4 DEF TraceInv
  <2>2. Len(stderr') \in 1 .. Len(stderr') /\ stderr'[Len(stderr')][2] = "newline"
    BY <1>4
  <2>3. QED
    BY <2>1, <2>2 DEF TraceInv
<1>10. TaskInv'
  BY <1>1, <1>2 DEF TaskInv, Threads
<1>11. EndInv'
  BY <1>2 DEF EndInv, PutNewline, Proceed
<1>12. QED
  BY <1>6, <1>7, <1>8, <1>9, <1>10, <1>11

LEMMA IInvStep ==
  ASSUME IInv, [Next]_vars
  PROVE  IInv'
<1> USE DEF IInv, inputs
<1>1. TypeOK'
  BY TypeStep
<1>2. ASSUME NEW side \in Sides, MustOpen(side)
      PROVE  IInv'
  <2>1. /\ UNCHANGED <<file, same, color, main, mu, stderr, status>>
        /\ status = "running" /\ task[side] = "todo" /\ printer[side] = "quiet"
    BY <1>2 DEF MustOpen, TaskInv
  <2>2. \A u \in Threads :
          \/ printer'[u] = printer[u]
          \/ u = side /\ printer'[u] = "formatted" /\ file[side] \in Unreadable
                      /\ task'[side] = "fatal"
    BY <1>2, <2>1 DEF MustOpen, TypeOK, Threads
  <2>3. /\ task'[side] = IF file[side] \in Unreadable THEN "fatal" ELSE "opened"
        /\ \A s \in Sides : s # side => task'[s] = task[s]
    BY <1>2 DEF MustOpen, TypeOK
  <2>4. LockInv'
    BY <2>1, <2>2 DEF LockInv, Threads
  <2>5. \A k \in 1 .. Len(stderr) : stderr[k][1] \in Threads
    BY DEF TypeOK
  <2>6. LastInv' /\ TraceInv'
    BY <2>1, <2>2, <2>5 DEF LastInv, TraceInv, TypeOK
  <2>7. TaskInv'
    <3>1. file[side] \in {"image"} \cup Unreadable \cup Undecodable
      BY DEF TypeOK
    <3>2. main = "loading"
      BY <2>1 DEF TaskInv
    <3>3. side # "main" /\ side \in Threads /\ "main" \in Threads
      BY DEF Threads, Sides
    <3>4. \A s \in Sides : s \in Threads
      BY DEF Threads
    <3>5. QED
      BY <2>1, <2>2, <2>3, <3>1, <3>2, <3>3, <3>4 DEF TaskInv
  <2>8. QED
    BY <1>1, <2>1, <2>4, <2>6, <2>7 DEF WholeLines, EndInv
<1>3. ASSUME NEW side \in Sides, Decode(side)
      PROVE  IInv'
  <2>1. UNCHANGED <<file, same, main, printer, mu, stderr, status>>
    BY <1>3 DEF Decode
  <2>2. /\ task[side] = "opened"
        /\ task'[side] = IF file[side] = "image" THEN "loaded" ELSE "threw"
        /\ color'[side] = (file[side] = "image")
        /\ \A s \in Sides : s # side => task'[s] = task[s] /\ color'[s] = color[s]
    BY <1>3 DEF Decode, TypeOK
  <2>3. file[side] \in {"image"} \cup Undecodable
    BY <2>2 DEF TaskInv
  <2>4. TaskInv'
    BY <2>1, <2>2, <2>3 DEF TaskInv
  <2>5. QED
    BY <1>1, <2>1, <2>4 DEF LockInv, LastInv, WholeLines, TraceInv, EndInv
<1>4. CASE Join
  BY <1>1, <1>4 DEF Join, LockInv, LastInv, WholeLines, TraceInv, TaskInv, EndInv
<1>5. CASE Rethrow
  <2>1. /\ UNCHANGED <<file, same, task, color, main, printer, mu, stderr>>
        /\ status' = "abort" /\ main = "loading" /\ Settled
    BY <1>5 DEF Rethrow
  <2>2. \E side \in Sides : file[side] \in Undecodable
    BY <1>5 DEF Rethrow, TaskInv
  <2>3. \A t \in Threads : printer[t] = "quiet"
    BY <2>1 DEF Settled, TaskInv, Threads
  <2>4. stderr = <<>>
    <3>1. Len(stderr) \in Nat /\ \A k \in 1 .. Len(stderr) : stderr[k][1] \in Threads
      BY DEF TypeOK
    <3>2. Len(stderr) = 0
      BY <2>3, <3>1 DEF TraceInv
    <3>3. QED
      BY <3>2 DEF TypeOK
  <2>5. EndInv'
    BY <2>1, <2>2, <2>4 DEF EndInv
  <2>6. QED
    BY <1>1, <2>1, <2>5 DEF LockInv, LastInv, WholeLines, TraceInv, TaskInv
<1>6. CASE Check
  <2>1. /\ UNCHANGED <<file, same, task, color, mu, stderr, status>>
        /\ main = "checking" /\ printer["main"] = "quiet"
    BY <1>6 DEF Check, TaskInv
  <2>2. \A side \in Sides : color[side]
    BY <2>1 DEF TaskInv
  <2>3. \/ main' = "fatal" /\ same /\ printer'["main"] = "formatted"
           /\ \A u \in Threads : u # "main" => printer'[u] = printer[u]
        \/ main' = "continuing" /\ ~same /\ UNCHANGED printer
    BY <1>6, <2>2 DEF Check, TypeOK, Threads
  <2>4. LockInv'
    BY <2>1, <2>3 DEF LockInv, Threads
  <2>5. \A k \in 1 .. Len(stderr) : stderr[k][1] \in Threads
    BY DEF TypeOK
  <2>6. LastInv' /\ TraceInv'
    BY <2>1, <2>3, <2>5 DEF LastInv, TraceInv, TypeOK
  <2>7. TaskInv'
    BY <2>1, <2>3 DEF TaskInv, Threads, Sides
  <2>8. QED
    BY <1>1, <2>1, <2>4, <2>6, <2>7 DEF WholeLines, EndInv
<1>7. ASSUME NEW t \in Threads, Lock(t)
      PROVE  IInv'
  <2>1. /\ printer[t] = "formatted" /\ printer'[t] = "locked"
        /\ \A u \in Threads : u # t => printer'[u] = printer[u]
    BY <1>7, PrintMovesOne DEF Lock
  <2>2. /\ UNCHANGED <<file, same, task, color, main, stderr, status>>
        /\ mu = "free" /\ mu' = t
    BY <1>7 DEF Lock
  <2>3. LockInv'
    BY <2>1, <2>2 DEF LockInv, Threads, Sides
  <2>4. \A k \in 1 .. Len(stderr) : stderr[k][1] \in Threads
    BY DEF TypeOK
  <2>5. LastInv' /\ TraceInv'
    <3>1. stderr # <<>> => stderr[Len(stderr)][1] \in Threads
      BY <2>4 DEF TypeOK
    <3>2. LastInv'
      BY <2>1, <2>2, <3>1 DEF LastInv
    <3>3. TraceInv'
      BY <2>1, <2>2, <2>4 DEF TraceInv
    <3>4. QED
      BY <3>2, <3>3
  <2>6. TaskInv'
    BY <2>1, <2>2 DEF TaskInv, Threads
  <2>7. QED
    BY <1>1, <2>2, <2>3, <2>5, <2>6 DEF WholeLines, EndInv
<1>8. ASSUME NEW t \in Threads, Exit(t)
      PROVE  IInv'
  BY <1>1, <1>8
     DEF Exit, LockInv, LastInv, WholeLines, TraceInv, TaskInv, EndInv
<1>9. CASE UNCHANGED vars
  BY <1>1, <1>9
     DEF vars, LockInv, LastInv, WholeLines, TraceInv, TaskInv, EndInv
<1>10. QED
  BY <1>1, <1>2, <1>3, <1>4, <1>5, <1>6, <1>7, <1>8, <1>9,
     PutTextStep, PutNewlineStep DEF Next

LEMMA Inductive == Spec => []IInv
<1>1. IInv /\ [Next]_vars => IInv'
  BY IInvStep
<1>2. QED
  BY <1>1, IInvInit, PTL DEF Spec

(* The loading tasks, Fatal's steps and the mutex keep to their states; in   *)
(* particular no thread can end the program with another status than 1.     *)
THEOREM TypeCorrect == Spec => []TypeOK
<1>1. IInv => TypeOK
  BY DEF IInv
<1>2. QED
  BY <1>1, Inductive, PTL

(* Concurrent Fatals never mix their messages on stderr.                    *)
THEOREM LinesStayWhole == Spec => []WholeLines
<1>1. IInv => WholeLines
  BY DEF IInv
<1>2. QED
  BY <1>1, Inductive, PTL

(* Exit status, output and continuation agree with the state of the input   *)
(* files, whichever task is first.                                          *)
THEOREM EndIsExplained == Spec => []EndExplained
<1>1. IInv => EndExplained
  <2> SUFFICES ASSUME IInv PROVE EndExplained
    OBVIOUS
  <2>1. \A t \in Threads : printer[t] # "quiet" => Reason(t)
    BY DEF IInv, TaskInv, Reason, Loaded, Threads, Sides
  <2>2. \A k \in 1 .. Len(stderr) : stderr[k][1] \in Threads
    BY DEF IInv, TypeOK
  <2>3. \A k \in 1 .. Len(stderr) : Reason(stderr[k][1])
    BY <2>1, <2>2 DEF IInv, TraceInv
  <2>4. main = "continuing" => stderr = <<>> /\ Loaded /\ ~same
    <3> SUFFICES ASSUME main = "continuing"
                 PROVE  stderr = <<>> /\ Loaded /\ ~same
      OBVIOUS
    <3>1. Loaded /\ ~same
      BY DEF IInv, TaskInv, Loaded
    <3>2. \A t \in Threads : ~Reason(t)
      BY <3>1 DEF Loaded, Reason, Threads, Unreadable
    <3>3. Len(stderr) \in Nat
      BY DEF IInv, TypeOK
    <3>4. Len(stderr) = 0
      BY <2>2, <2>3, <3>2, <3>3
    <3>5. QED
      BY <3>1, <3>4 DEF IInv, TypeOK
  <2>5. QED
    BY <2>3, <2>4 DEF IInv, EndInv, EndExplained
<1>2. QED
  BY <1>1, Inductive, PTL

-----------------------------------------------------------------------------
(* The coarse view of main: Gazosan's load and check stages.                *)

(* Gazosan's variables depend on the files, on main and on the status only. *)
LEMMA MainStutters ==
  ASSUME UNCHANGED <<file, main, status>>
  PROVE  UNCHANGED Main!vars
BY DEF Main!vars, Main!inputs, Disk, Content

(* What Gazosan finds on the disk.                                          *)
LEMMA DiskContents ==
  ASSUME TypeOK
  PROVE  /\ \A side \in Sides :
              /\ Disk[NameOf[side]] = Content(side)
              /\ Main!Decodable(Content(side)) <=> file[side] = "image"
              /\ Content(side) = Main!Missing <=> file[side] \in Unreadable
              /\ Content(side) = Main!Garbage <=> file[side] \in Undecodable
         /\ Main!Sides = Sides
BY DEF TypeOK, Disk, NameOf, Content, Sides, Unreadable, Undecodable, Main!Sides,
       Main!Decodable, Main!Missing, Main!Garbage

(* Init: the inputs are the files a and b, and no output is there.          *)
LEMMA MainInit == Init => Main!Init
<1> SUFFICES ASSUME Init PROVE Main!Init
  OBVIOUS
<1>1. Main!Sides = Sides /\ Main!Names = {"a", "b", "diff", "delete", "add"}
  BY DEF Main!Sides, Sides, Main!Names, Main!Outputs
<1>2. NameOf \in [Main!Sides -> Main!Names] /\ NameOf["old"] = "a" /\ NameOf["new"] = "b"
  BY <1>1 DEF NameOf, Sides
<1>3. \A n \in Main!Names :
        \/ Disk[n] = Main!Picture(n)
        \/ Disk[n] = Main!Missing /\ n \in Main!Outputs
        \/ /\ Disk[n] \in {Main!Missing, Main!Garbage}
           /\ \E side \in Main!Sides : n = NameOf[side]
  <2>1. \A side \in Sides : Content(side) \in
          {Main!Missing, Main!Garbage, Main!Picture(NameOf[side])}
    BY DEF Content, Main!Missing, Main!Garbage, Main!Picture
  <2>2. Disk["a"] = Content("old") /\ Disk["b"] = Content("new")
    BY DEF Disk
  <2>3. \A n \in Main!Outputs : Disk[n] = Main!Missing
    BY DEF Disk, Main!Outputs, Main!Missing
  <2>4. QED
    BY <1>1, <1>2, <2>1, <2>2, <2>3 DEF Sides, Main!Outputs
<1>4. Disk \in [Main!Names -> {Main!Missing, Main!Garbage} \cup Main!Pictures]
  <2>1. Disk = [n \in Main!Names |-> Disk[n]]
    BY <1>1 DEF Disk
  <2>2. \A n \in Main!Names : Disk[n] \in {Main!Missing, Main!Garbage} \cup Main!Pictures
    BY <1>3 DEF Main!Pictures
  <2>3. QED
    BY <2>1, <2>2
<1>5. main = "loading" /\ status = "running"
  BY DEF Init
<1>6. QED
  BY <1>1, <1>2, <1>3, <1>4, <1>5, BuildAssumption
     DEF Main!Init, Nothing, Main!Missing

(* The serial build has loaded the new image before it touches the old one. *)
OrderInv == Parallel \/ task["old"] = "todo" \/ task["new"] = "loaded"

LEMMA OrderStep ==
  ASSUME IInv, OrderInv, [Next]_vars
  PROVE  OrderInv'
<1> USE DEF IInv
<1>1. /\ "new" \in Sides /\ "old" \in Sides
      /\ task \in [Sides -> {"todo", "opened", "loaded", "threw", "fatal"}]
  BY DEF TypeOK, Sides
<1>2. ASSUME NEW side \in Sides, MustOpen(side)
      PROVE  OrderInv'
  BY <1>1, <1>2 DEF MustOpen, MayStart, OrderInv, Sides
<1>3. ASSUME NEW side \in Sides, Decode(side)
      PROVE  OrderInv'
  BY <1>1, <1>3 DEF Decode, OrderInv, Sides
<1>4. CASE UNCHANGED task
  BY <1>4 DEF OrderInv
<1>5. QED
  <2>1. CASE Join \/ Rethrow \/ Check \/ UNCHANGED vars
    BY <1>4, <2>1 DEF Join, Rethrow, Check, vars
  <2>2. ASSUME NEW t \in Threads, Lock(t) \/ PutText(t) \/ PutNewline(t) \/ Exit(t)
        PROVE  OrderInv'
    BY <1>4, <2>2 DEF Lock, PutText, PutNewline, Exit
  <2>3. QED
    BY <1>2, <1>3, <2>1, <2>2 DEF Next

(* Every step is one of main's stages, or leaves what Gazosan sees alone.   *)
LEMMA MainStep ==
  ASSUME IInv, OrderInv, [Next]_vars
  PROVE  [Main!Next]_(Main!vars)
<1> USE DEF IInv
<1>1. TypeOK /\ TaskInv
  OBVIOUS
<1>2. ASSUME NEW side \in Sides, MustOpen(side) \/ Decode(side)
      PROVE  UNCHANGED Main!vars
  BY <1>2, MainStutters DEF MustOpen, Decode, inputs
<1>3. ASSUME NEW t \in Threads, Lock(t) \/ PutText(t) \/ PutNewline(t)
      PROVE  UNCHANGED Main!vars
  BY <1>3, MainStutters DEF Lock, PutText, PutNewline, inputs
<1>4. ASSUME UNCHANGED file
      PROVE  UNCHANGED <<Disk, [side \in Sides |-> Content(side)]>>
  BY <1>4 DEF Disk, Content
<1>5. ASSUME Join
      PROVE  Main!Load
  <2>1. /\ status = "running" /\ main = "loading" /\ main' = "checking"
        /\ UNCHANGED <<file, status>>
    BY <1>5 DEF Join, inputs
  <2>2. \A side \in Sides : file[side] = "image"
    BY <1>5 DEF Join, TaskInv
  <2>3. [side \in Main!Sides |-> Disk[NameOf[side]]] = [side \in Sides |-> Content(side)]
    BY DiskContents
  <2>4. \A side \in Main!Sides : Main!Decodable(Disk[NameOf[side]])
    BY <2>2, DiskContents
  <2>5. QED
    BY <1>4, <2>1, <2>3, <2>4 DEF Main!Load, Main!At, Main!inputs
<1>6. ASSUME NEW side \in Sides, task[side] \notin {"todo", "loaded"},
             file[side] \in Unreadable \cup Undecodable,
             status = "running", main = "loading", UNCHANGED <<file, main>>,
             status' = IF file[side] \in Unreadable THEN "exit1" ELSE "abort"
      PROVE  Main!LoadFails
  <2>1. ~Main!Decodable(Disk[NameOf[side]])
    BY <1>6, DiskContents DEF Unreadable, Undecodable
  <2>2. Parallel \/ side = "new" \/ Main!Decodable(Disk[NameOf["new"]])
    <3>1. side = "old" \/ side = "new"
      BY DEF Sides
    <3>2. side = "old" => Parallel \/ task["new"] = "loaded"
      BY <1>6 DEF OrderInv
    <3>3. task["new"] = "loaded" => file["new"] = "image"
      BY DEF TaskInv, Sides
    <3>4. "new" \in Sides
      BY DEF Sides
    <3>5. QED
      BY <3>1, <3>2, <3>3, <3>4, DiskContents
  <2>3. status' = IF Disk[NameOf[side]] = Main!Missing THEN "exit1" ELSE "abort"
    BY <1>6, DiskContents
  <2>4. side \in Main!Sides
    BY DiskContents
  <2>5. QED
    BY <1>4, <1>6, <2>1, <2>2, <2>3, <2>4 DEF Main!LoadFails, Main!At, Main!inputs
<1>7. ASSUME Rethrow
      PROVE  Main!LoadFails
  <2>1. /\ status = "running" /\ main = "loading" /\ status' = "abort"
        /\ UNCHANGED <<file, main>>
    BY <1>7 DEF Rethrow, inputs
  <2>2. PICK side \in Sides : task[side] = "threw"
    BY <1>7 DEF Rethrow
  <2>3. file[side] \in Undecodable /\ file[side] \notin Unreadable
    BY <2>2 DEF TaskInv, Unreadable, Undecodable
  <2>4. QED
    BY <1>6, <2>1, <2>2, <2>3
<1>8. ASSUME Check
      PROVE  Main!Check \/ UNCHANGED Main!vars
  <2>1. /\ status = "running" /\ main = "checking" /\ UNCHANGED <<file, status>>
        /\ main' \in {"fatal", "continuing"}
    BY <1>8 DEF Check, inputs
  <2>2. CASE main' = "fatal"
    BY <1>4, <2>1, <2>2 DEF Main!vars, Main!inputs
  <2>3. CASE main' = "continuing"
    <3>1. "old" \in Sides /\ "new" \in Sides
      BY DEF Sides
    <3>2. file["old"] = "image" /\ file["new"] = "image"
      BY <2>1, <3>1 DEF TaskInv
    <3>3. Content("old") # Content("new")
      BY <3>1, <3>2 DEF Content, NameOf, Unreadable, Undecodable
    <3>4. "different" \in Main!Verdicts
      BY <2>1, <3>1, <3>3 DEF Main!Verdicts
    <3>5. QED
      BY <1>4, <2>1, <2>3, <3>4 DEF Main!Check, Main!At, Main!inputs
  <2>4. QED
    BY <2>1, <2>2, <2>3
<1>9. ASSUME NEW t \in Threads, Exit(t)
      PROVE  Main!LoadFails \/ Main!Check
  <2>1. /\ status = "running" /\ status' = "exit1" /\ printer[t] # "quiet"
        /\ UNCHANGED <<file, main>>
    BY <1>9 DEF Exit, inputs
  <2>2. CASE t \in Sides
    <3>1. task[t] = "fatal" /\ file[t] \in Unreadable
      BY <2>1, <2>2 DEF TaskInv
    <3>2. main = "loading"
      BY <2>2, <3>1 DEF TaskInv
    <3>3. QED
      BY <1>6, <2>1, <2>2, <3>1, <3>2
  <2>3. CASE t = "main"
    <3>1. main = "fatal"
      BY <2>1, <2>3 DEF TaskInv
    <3>2. "same" \in Main!Verdicts
      BY DEF Main!Verdicts
    <3>3. QED
      BY <1>4, <2>1, <3>1, <3>2 DEF Main!Check, Main!At, Main!inputs
  <2>4. QED
    BY <2>2, <2>3 DEF Threads
<1>10. CASE UNCHANGED vars
  BY <1>10, MainStutters DEF vars, inputs
<1>11. QED
  BY <1>2, <1>3, <1>5, <1>7, <1>8, <1>9, <1>10 DEF Next, Main!Next

(* Loading and checking, with their tasks and Fatals, implement the stages  *)
(* of main that the theorems on whole runs start from, in either build.     *)
THEOREM MainImplemented == Spec => ImplementsMain
<1>1. Init => OrderInv
  BY DEF Init, OrderInv, Sides
<1>2. IInv /\ OrderInv /\ [Next]_vars => OrderInv'
  BY OrderStep
<1>3. IInv /\ OrderInv /\ [Next]_vars => [Main!Next]_(Main!vars)
  BY MainStep
<1>4. QED
  BY <1>1, <1>2, <1>3, MainInit, Inductive, PTL DEF Spec, ImplementsMain, Main!Spec

-----------------------------------------------------------------------------
(* How long loading takes.                                                  *)

(* The steps that a task, a Fatal and main have before them at most.        *)
TaskLeft(side) == CASE task[side] = "todo" -> 2 [] task[side] = "opened" -> 1 [] OTHER -> 0
PrinterLeft(t) ==
  CASE printer[t] = "quiet" -> 4 [] printer[t] = "formatted" -> 3
    [] printer[t] = "locked" -> 2 [] printer[t] = "texted" -> 1 [] OTHER -> 0
MainLeft == CASE main = "loading" -> 2 [] main = "checking" -> 1 [] OTHER -> 0
StatusLeft == IF status = "running" THEN 1 ELSE 0

StepsLeft ==
  TaskLeft("new") + TaskLeft("old") + PrinterLeft("new") + PrinterLeft("old")
    + PrinterLeft("main") + MainLeft + StatusLeft

(* Every step counts, for every thread and whatever the others do: none     *)
(* waits by turning in a loop, and the whole of it is over after 19 steps.  *)
EveryStepCounts == [][StepsLeft' < StepsLeft]_vars

(* What a step leaves alone has as much before it as it had.                *)
LEMMA LeftStays ==
  /\ UNCHANGED main => MainLeft' = MainLeft
  /\ UNCHANGED status => StatusLeft' = StatusLeft
  /\ \A t \in Threads : printer'[t] = printer[t] => PrinterLeft(t)' = PrinterLeft(t)
  /\ \A side \in Sides : task'[side] = task[side] => TaskLeft(side)' = TaskLeft(side)
BY DEF MainLeft, StatusLeft, PrinterLeft, TaskLeft

LEMMA StepCounts ==
  ASSUME IInv, IInv', Next
  PROVE  StepsLeft' < StepsLeft
<1> DEFINE Rest == /\ \A side \in Sides : TaskLeft(side)' <= TaskLeft(side)
                   /\ \A t \in Threads : PrinterLeft(t)' <= PrinterLeft(t)
                   /\ MainLeft' <= MainLeft /\ StatusLeft' <= StatusLeft
           Less == \/ \E side \in Sides : TaskLeft(side)' < TaskLeft(side)
                   \/ \E t \in Threads : PrinterLeft(t)' < PrinterLeft(t)
                   \/ MainLeft' < MainLeft
                   \/ StatusLeft' < StatusLeft
<1> USE DEF IInv
<1>1. /\ \A side \in Sides : TaskLeft(side) \in 0 .. 2 /\ TaskLeft(side)' \in 0 .. 2
      /\ \A t \in Threads : PrinterLeft(t) \in 0 .. 4 /\ PrinterLeft(t)' \in 0 .. 4
      /\ MainLeft \in 0 .. 2 /\ StatusLeft \in 0 .. 1
      /\ MainLeft' \in 0 .. 2 /\ StatusLeft' \in 0 .. 1
  BY DEF TaskLeft, PrinterLeft, MainLeft, StatusLeft
<1>2. ASSUME NEW side \in Sides, MustOpen(side)
      PROVE  Rest /\ Less
  <2>1. /\ task[side] = "todo" /\ printer[side] = "quiet" /\ UNCHANGED <<main, status>>
        /\ task'[side] \in {"fatal", "opened"}
        /\ \A s \in Sides : s # side => task'[s] = task[s]
        /\ \A t \in Threads : \/ printer'[t] = printer[t]
                              \/ printer[t] = "quiet" /\ printer'[t] = "formatted"
    <3>1. task[side] = "todo" /\ side \in Threads /\ UNCHANGED <<main, status>>
      BY <1>2 DEF MustOpen, Threads
    <3>2. printer[side] = "quiet"
      BY <3>1 DEF TaskInv
    <3>3. QED
      BY <1>2, <3>1, <3>2 DEF MustOpen, TypeOK
  <2>2. TaskLeft(side)' < TaskLeft(side)
    BY <2>1 DEF TaskLeft
  <2>3. \A t \in Threads : PrinterLeft(t)' <= PrinterLeft(t)
    BY <1>1, <2>1, LeftStays DEF PrinterLeft
  <2>4. \A s \in Sides : TaskLeft(s)' <= TaskLeft(s)
    BY <1>1, <2>1, <2>2, LeftStays
  <2>5. QED
    BY <1>1, <2>1, <2>2, <2>3, <2>4, LeftStays
<1>3. ASSUME NEW side \in Sides, Decode(side)
      PROVE  Rest /\ Less
  <2>1. /\ task[side] = "opened" /\ UNCHANGED <<main, status, printer>>
        /\ task'[side] \in {"loaded", "threw"}
        /\ \A s \in Sides : s # side => task'[s] = task[s]
    BY <1>3 DEF Decode, TypeOK
  <2>2. TaskLeft(side)' < TaskLeft(side)
    BY <2>1 DEF TaskLeft
  <2>3. \A s \in Sides : TaskLeft(s)' <= TaskLeft(s)
    BY <1>1, <2>1, <2>2, LeftStays
  <2>4. QED
    BY <1>1, <2>1, <2>2, <2>3, LeftStays
<1>4. ASSUME Join
      PROVE  Rest /\ Less
  <2>1. MainLeft' < MainLeft /\ UNCHANGED <<task, printer, status>>
    BY <1>4 DEF Join, MainLeft
  <2>2. QED
    BY <1>1, <2>1, LeftStays
<1>5. ASSUME Check
      PROVE  Rest /\ Less
  <2>1. /\ MainLeft' < MainLeft /\ UNCHANGED <<task, status>>
        /\ \A t \in Threads : \/ printer'[t] = printer[t]
                              \/ printer[t] = "quiet" /\ printer'[t] = "formatted"
    BY <1>5 DEF Check, MainLeft, TypeOK, TaskInv
  <2>2. \A t \in Threads : PrinterLeft(t)' <= PrinterLeft(t)
    BY <1>1, <2>1, LeftStays DEF PrinterLeft
  <2>3. QED
    BY <1>1, <2>1, <2>2, LeftStays
<1>6. ASSUME Rethrow \/ \E t \in Threads : Exit(t)
      PROVE  Rest /\ Less
  <2>1. StatusLeft' < StatusLeft /\ UNCHANGED <<task, printer, main>>
    BY <1>6 DEF Rethrow, Exit, StatusLeft
  <2>2. QED
    BY <1>1, <2>1, LeftStays
<1>7. ASSUME NEW t \in Threads, Lock(t) \/ PutText(t) \/ PutNewline(t)
      PROVE  Rest /\ Less
  <2>1. /\ UNCHANGED <<task, main, status>>
        /\ \A u \in Threads : u # t => printer'[u] = printer[u]
        /\ PrinterLeft(t)' < PrinterLeft(t)
    BY <1>7, PrintMovesOne DEF Lock, PutText, PutNewline, PrinterLeft
  <2>2. \A u \in Threads : PrinterLeft(u)' <= PrinterLeft(u)
    BY <1>1, <2>1, LeftStays
  <2>3. QED
    BY <1>1, <2>1, <2>2, LeftStays
<1>8. Rest /\ Less
  BY <1>2, <1>3, <1>4, <1>5, <1>6, <1>7 DEF Next
<1>9. Sides = {"new", "old"} /\ Threads = {"new", "old", "main"}
  BY DEF Sides, Threads
<1> HIDE DEF IInv
<1>10. QED
  BY <1>1, <1>8, <1>9 DEF StepsLeft

(* Loading, with its two tasks and up to three Fatals, makes at most 19     *)
(* steps, each of which brings it nearer to its end.                        *)
THEOREM LoadingIsShort == Spec => EveryStepCounts /\ [](StepsLeft \in 0 .. 19)
<1>1. IInv /\ IInv' /\ [Next]_vars => [StepsLeft' < StepsLeft]_vars
  BY StepCounts
<1>2. IInv => StepsLeft \in 0 .. 19
  BY DEF IInv, TypeOK, Sides, Threads, StepsLeft, TaskLeft, PrinterLeft, MainLeft, StatusLeft
<1>3. QED
  BY <1>1, <1>2, Inductive, PTL DEF Spec, EveryStepCounts

-----------------------------------------------------------------------------
(* Nobody waits in vain.                                                    *)

(* The guards of the steps of a task, of main and of a Fatal.               *)
TaskCanStep(side) ==
  (task[side] = "todo" /\ MayStart(side)) \/ task[side] = "opened"
MainCanStep ==
  \/ main = "loading" /\ \A side \in Sides : task[side] = "loaded"
  \/ main = "loading" /\ Settled /\ \E side \in Sides : task[side] = "threw"
  \/ main = "checking"
PrinterCanStep(t) ==
  \/ printer[t] = "formatted" /\ mu = "free"
  \/ printer[t] \in {"locked", "texted", "printed"}

NobodyStuck ==
  status = "running" /\ main # "continuing" =>
    \/ MainCanStep
    \/ \E side \in Sides : TaskCanStep(side)
    \/ \E t \in Threads : PrinterCanStep(t)

(* Whoever is in Fatal has begun to print.                                  *)
FatalInv ==
  /\ \A side \in Sides : task[side] = "fatal" => printer[side] # "quiet"
  /\ main = "fatal" => printer["main"] # "quiet"

LEMMA FatalStep ==
  ASSUME IInv, FatalInv, [Next]_vars
  PROVE  FatalInv'
<1> USE DEF FatalInv
<1>1. TypeOK /\ \A side \in Sides : side \in Threads
  BY DEF IInv, Threads
<1>2. ASSUME NEW side \in Sides, MustOpen(side) \/ Decode(side)
      PROVE  FatalInv'
  <2>1. /\ UNCHANGED main
        /\ \A s \in Sides : s # side => task'[s] = task[s]
        /\ \A t \in Threads : printer'[t] = "quiet" => printer[t] = "quiet"
    BY <1>1, <1>2 DEF MustOpen, Decode, TypeOK
  <2>2. task'[side] = "fatal" => printer'[side] # "quiet"
    BY <1>1, <1>2 DEF MustOpen, Decode, TypeOK
  <2>3. "main" \in Threads
    BY DEF Threads
  <2>4. QED
    BY <1>1, <2>1, <2>2, <2>3
<1>3. CASE Check
  BY <1>1, <1>3 DEF Check, TypeOK, Threads, Sides
<1>4. CASE Join \/ Rethrow
  BY <1>4 DEF Join, Rethrow
<1>5. ASSUME NEW t \in Threads, Lock(t) \/ PutText(t) \/ PutNewline(t) \/ Exit(t)
      PROVE  FatalInv'
  <2>1. UNCHANGED <<task, main>>
    BY <1>5 DEF Lock, PutText, PutNewline, Exit
  <2>2. \A u \in Threads : printer'[u] = "quiet" => printer[u] = "quiet"
    BY <1>1, <1>5 DEF Lock, PutText, PutNewline, Exit, Proceed, TypeOK
  <2>3. "main" \in Threads
    BY DEF Threads
  <2>4. QED
    BY <1>1, <2>1, <2>2, <2>3
<1>6. CASE UNCHANGED vars
  BY <1>6 DEF vars
<1>7. QED
  BY <1>2, <1>3, <1>4, <1>5, <1>6 DEF Next

(* A Fatal that has begun waits only for the mutex, and its owner for       *)
(* nothing.                                                                 *)
LEMMA PrinterGoesOn ==
  ASSUME IInv, NEW t \in Threads, printer[t] # "quiet"
  PROVE  \E u \in Threads : PrinterCanStep(u)
<1>1. CASE printer[t] # "formatted" \/ mu = "free"
  BY <1>1 DEF IInv, TypeOK, PrinterCanStep
<1>2. CASE mu \in Threads
  BY <1>2 DEF IInv, LockInv, PrinterCanStep
<1>3. QED
  BY <1>1, <1>2 DEF IInv, TypeOK

(* Until the program has ended or goes on with its images, main, a task or  *)
(* a Fatal meets the conditions of its next step, in either build and       *)
(* whatever the files are: also when one task has thrown and main waits for *)
(* the other, which is in its Fatal and never comes back.                   *)
THEOREM NoDeadlock == Spec => []NobodyStuck
<1>1. Init => FatalInv
  BY DEF Init, FatalInv
<1>2. IInv /\ FatalInv /\ [Next]_vars => FatalInv'
  BY FatalStep
<1>3. IInv /\ FatalInv => NobodyStuck
  <2> SUFFICES ASSUME IInv, FatalInv, main # "continuing", ~MainCanStep,
                      \A side \in Sides : ~TaskCanStep(side)
               PROVE  \E t \in Threads : PrinterCanStep(t)
    BY DEF NobodyStuck
  <2>1. CASE main = "fatal"
    BY <2>1, PrinterGoesOn DEF FatalInv, Threads
  <2>2. CASE \E side \in Sides : task[side] = "fatal"
    BY <2>2, PrinterGoesOn DEF FatalInv, Threads
  <2>3. CASE main = "loading" /\ \A side \in Sides : task[side] # "fatal"
    <3>1. \A side \in Sides : task[side] \in {"todo", "loaded", "threw"}
      BY <2>3 DEF IInv, TypeOK, TaskCanStep
    <3>2. \A side \in Sides : task[side] \in {"todo", "loaded"}
      BY <2>3, <3>1 DEF MainCanStep, Settled
    <3>3. task["new"] = "loaded"
      BY <3>2 DEF TaskCanStep, MayStart, Sides
    <3>4. task["old"] = "loaded"
      BY <3>2, <3>3 DEF TaskCanStep, MayStart, Sides
    <3>5. QED
      BY <2>3, <3>3, <3>4 DEF MainCanStep, Sides
  <2>4. QED
    BY <2>1, <2>2, <2>3 DEF IInv, TypeOK, MainCanStep
<1>4. QED
  BY <1>1, <1>2, <1>3, Inductive, PTL DEF Spec
=============================================================================
