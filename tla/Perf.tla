-------------------------------- MODULE Perf --------------------------------
(***************************************************************************)
(* The timers of -perf (gazosan.h, perf.cc): every Timer puts a record into *)
(* ctx.timer_records when it is constructed, from whatever task it is in;   *)
(* at the end print_timer_records gives each record without a parent the    *)
(* nearest earlier record whose interval covers its own, and prints the     *)
(* resulting forest.  User and system times are left out.                   *)
(***************************************************************************)
EXTENDS SequencesExt

CONSTANTS
  Scopes,    \* the Timer objects of a run
  Around,    \* Around[s]: the timers that are alive throughout s's life
  Earlier,   \* Earlier[s]: those gone before s is constructed, on any schedule
  Named,     \* the timers constructed with a parent: always the innermost around
  Optional,  \* the timers that a run may do without
  Times,     \* readings of CLOCK_MONOTONIC
  None

ASSUME ScopeAssumption ==
  /\ None \notin Scopes
  /\ Around \in [Scopes -> SUBSET Scopes]
  /\ Earlier \in [Scopes -> SUBSET Scopes]
  /\ Named \in SUBSET Scopes /\ \A s \in Named : Around[s] # {}
  /\ Times \in SUBSET Nat /\ 0 \in Times
  /\ \A s \in Scopes :
       /\ s \notin Around[s] /\ s \notin Earlier[s]
       /\ Around[s] # {} => \E a \in Around[s] : Around[a] = Around[s] \ {a}
       /\ \E r \in Around[s] \cup {s} : Around[r] = {}

(* The innermost timer around s.                                            *)
Enclosing(s) == CHOOSE a \in Around[s] : Around[a] = Around[s] \ {a}

VARIABLES
  phase,     \* phase[s]: "idle", "constructing", "running" or "stopped"
  clock,     \* the last reading of the clock, by any thread
  start, end,
  records,   \* ctx.timer_records
  parent,    \* parent[s]: TimerRecord::parent
  children,  \* children[s]: TimerRecord::children; its order does not matter
  pc,        \* "running", "adopting", "printing" or "done"
  i,         \* the record that is looking for a parent
  root,      \* the next record that is printed if it has no parent
  todo,      \* what print_rec and its callers have yet to print
  out        \* the lines printed, as <<scope, indent>>

lifetimes == <<phase, clock, start, end, records>>
vars == <<lifetimes, parent, children, pc, i, root, todo, out>>

Init ==
  /\ phase = [s \in Scopes |-> "idle"]
  /\ clock = 0
  /\ start = [s \in Scopes |-> 0] /\ end = [s \in Scopes |-> 0]
  /\ records = <<>>
  /\ parent = [s \in Scopes |-> None]
  /\ children = [s \in Scopes |-> {}]
  /\ pc = "running"
  /\ i = 1 /\ root = 1
  /\ todo = <<>> /\ out = <<>>

-----------------------------------------------------------------------------
(* now_nsec: readings never go back, but two may be the same.               *)
Now == clock' \in {t \in Times : t >= clock}

(* A timer has been destroyed, or the run does without it.                  *)
Gone(s) == phase[s] = "stopped" \/ (s \in Optional /\ phase[s] = "idle")

(* The constructor of TimerRecord ...                                       *)
Construct(s) ==
  /\ pc = "running"
  /\ phase[s] = "idle"
  /\ \A a \in Around[s] : phase[a] = "running"
  /\ \A e \in Earlier[s] : Gone(e)
  /\ \A t \in Scopes : s \in Earlier[t] => phase[t] = "idle"
  /\ Now
  /\ start' = [start EXCEPT ![s] = clock']
  /\ phase' = [phase EXCEPT ![s] = "constructing"]
  /\ IF s \in Named
       THEN /\ parent' = [parent EXCEPT ![s] = Enclosing(s)]
            /\ children' = [children EXCEPT ![Enclosing(s)] = @ \cup {s}]
       ELSE UNCHANGED <<parent, children>>
  /\ UNCHANGED <<end, records, pc, i, root, todo, out>>

(* ... and then that of Timer: another task's record may come in between.   *)
Register(s) ==
  /\ phase[s] = "constructing"
  /\ records' = Append(records, s)
  /\ phase' = [phase EXCEPT ![s] = "running"]
  /\ UNCHANGED <<clock, start, end, parent, children, pc, i, root, todo, out>>

(* What is constructed within the life of s has been destroyed, and tasks   *)
(* started within it have been joined.                                      *)
Over(s) == \A t \in Scopes : s \in Around[t] => Gone(t)

(* TimerRecord::stop, from the destructor or from t_all.stop().             *)
Stop(s) ==
  /\ pc = "running"
  /\ phase[s] = "running"
  /\ Over(s)
  /\ Now
  /\ end' = [end EXCEPT ![s] = clock']
  /\ phase' = [phase EXCEPT ![s] = "stopped"]
  /\ UNCHANGED <<start, records, parent, children, pc, i, root, todo, out>>

-----------------------------------------------------------------------------
(* print_timer_records: stops every record, which changes only those that   *)
(* are not stopped yet.                                                     *)
StopAll ==
  [s \in Scopes |-> IF phase[s] = "running" THEN clock' ELSE end[s]]

BeginPrinting ==
  /\ pc = "running"
  /\ \A s \in Scopes : Around[s] = {} => phase[s] = "stopped"
  /\ Now
  /\ end' = StopAll
  /\ phase' = [s \in Scopes |-> IF phase[s] = "running" THEN "stopped" ELSE phase[s]]
  /\ pc' = "adopting"
  /\ UNCHANGED <<start, records, parent, children, i, root, todo, out>>

Covers(outer, inner) == start[outer] <= start[inner] /\ end[inner] <= end[outer]
CoveringAny == {j \in 1 .. Len(records) : j # i /\ Covers(records[j], records[i])}
Covering == {j \in 1 .. i - 1 : Covers(records[j], records[i])}

FarthestCover == records[Min(Covering)]
NearestCover == records[Max(Covering)]
KeepsParent == parent[records[i]] # None \/ Covering = {}

AdoptOnly ==
  /\ pc = "adopting"
  /\ i <= Len(records)
  /\ ~KeepsParent
  /\ parent' = [parent EXCEPT ![records[i]] = NearestCover]
  /\ i' = i + 1
  /\ UNCHANGED <<lifetimes, children, pc, root, todo, out>>
Adopt ==
  /\ pc = "adopting"
  /\ i <= Len(records)
  /\ IF KeepsParent
       THEN UNCHANGED <<parent, children>>
       ELSE /\ parent' = [parent EXCEPT ![records[i]] = NearestCover]
            /\ children' = [children EXCEPT ![NearestCover] = @ \cup {records[i]}]
  /\ i' = i + 1
  /\ UNCHANGED <<lifetimes, pc, root, todo, out>>

BeginForest ==
  /\ pc = "adopting"
  /\ i > Len(records)
  /\ pc' = "printing"
  /\ UNCHANGED <<lifetimes, parent, children, i, root, todo, out>>

(* The records without a parent are printed in the order of the vector ...  *)
NextRoot ==
  /\ pc = "printing"
  /\ todo = <<>>
  /\ root <= Len(records)
  /\ todo' = IF parent[records[root]] = None THEN <<<<records[root], 0>>>> ELSE <<>>
  /\ root' = root + 1
  /\ UNCHANGED <<lifetimes, parent, children, pc, i, out>>

(* ... and print_rec prints children right after their parent, by start.    *)
SortedChildren(s) ==
  {q \in SetToSeqs(children[s]) :
     \A k \in 1 .. Len(q) - 1 : start[q[k]] <= start[q[k + 1]]}

Indented(seq, indent) == [k \in 1 .. Len(seq) |-> <<seq[k], indent>>]

PrintRecChildrenLast ==
  /\ pc = "printing"
  /\ todo # <<>>
  /\ out' = Append(out, Head(todo))
  /\ \E q \in SortedChildren(Head(todo)[1]) :
       todo' = Tail(todo) \o Indented(q, Head(todo)[2] + 1)
  /\ UNCHANGED <<lifetimes, parent, children, pc, i, root>>
PrintRec ==
  /\ pc = "printing"
  /\ todo # <<>>
  /\ out' = Append(out, Head(todo))
  /\ \E q \in SortedChildren(Head(todo)[1]) :
       todo' = Indented(q, Head(todo)[2] + 1) \o Tail(todo)
  /\ UNCHANGED <<lifetimes, parent, children, pc, i, root>>

EndPrinting ==
  /\ pc = "printing"
  /\ todo = <<>>
  /\ root > Len(records)
  /\ pc' = "done"
  /\ UNCHANGED <<lifetimes, parent, children, i, root, todo, out>>

Next ==
  \/ \E s \in Scopes : Construct(s) \/ Register(s) \/ Stop(s)
  \/ BeginPrinting \/ Adopt \/ BeginForest \/ NextRoot \/ PrintRec \/ EndPrinting

Spec == Init /\ [][Next]_vars
FairSpec == Spec /\ WF_vars(Next)

-----------------------------------------------------------------------------
(* Parents lie around their children in time and precede them in the        *)
(* vector, whether the constructor or the intervals named them; so the      *)
(* forest has no cycle and print_rec ends.                                  *)
ParentsCover ==
  pc \in {"printing", "done"} =>
    \A k \in 1 .. Len(records) : parent[records[k]] # None =>
      /\ Covers(parent[records[k]], records[k])
      /\ \E j \in 1 .. k - 1 : records[j] = parent[records[k]]

(* Two timers that no order relates: they are in different tasks.           *)
Concurrent(s, t) ==
  s # t /\ s \notin Around[t] \cup Earlier[t] /\ t \notin Around[s] \cup Earlier[s]

(* The intervals find the call tree: a timer's parent is the innermost one  *)
(* around it.  The exceptions are a parent that was running concurrently,   *)
(* and a timer that started and stopped in the very nanosecond in which the *)
(* previous one stopped.                                                    *)
Attribution ==
  pc \in {"printing", "done"} =>
    \A s \in Scopes : phase[s] = "stopped" /\ Around[s] # {} =>
      \/ parent[s] = Enclosing(s)
      \/ parent[s] # None /\ Concurrent(s, parent[s])
      \/ parent[s] # None /\ start[s] = end[s] /\ start[s] = end[parent[s]]

(* No record is printed twice, none is missing, and the indentation can be  *)
(* read back: the last line above with a smaller indent is the parent.      *)
ForestPrinted ==
  /\ \A j, k \in 1 .. Len(out) : out[j][1] = out[k][1] => j = k
  /\ pc = "done" =>
       /\ {out[k][1] : k \in 1 .. Len(out)} = ToSet(records)
       /\ \A k \in 1 .. Len(out) :
            LET above == {j \in 1 .. k - 1 : out[j][2] < out[k][2]}
            IN parent[out[k][1]] = IF above = {} THEN None ELSE out[Max(above)][1]

(* The program prints its timers and comes to an end.                       *)
Termination == <>(pc = "done")
=============================================================================
