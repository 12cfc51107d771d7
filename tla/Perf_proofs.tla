----------------------------- MODULE Perf_proofs ----------------------------
(***************************************************************************)
(* The parents of timer records, the forest that is printed and how long    *)
(* that takes, for any timers, tasks and clock readings.                    *)
(***************************************************************************)
EXTENDS Perf, FiniteSetTheorems, SequenceTheorems, WellFoundedInduction, NaturalsInduction, TLAPS

(* The part of TypeOK that the parents depend on.                           *)
Shapes ==
  /\ phase \in [Scopes -> {"idle", "constructing", "running", "stopped"}]
  /\ clock \in Nat
  /\ start \in [Scopes -> Nat] /\ end \in [Scopes -> Nat]
  /\ records \in Seq(Scopes)
  /\ parent \in [Scopes -> Scopes \cup {None}]
  /\ pc \in {"running", "adopting", "printing", "done"}
  /\ i \in Nat \ {0}

(* Lifetimes are nested, and nothing is alive when printing begins.         *)
NestInv ==
  /\ \A s \in Scopes : \A a \in Around[s] :
       /\ phase[a] \in {"idle", "constructing"} => phase[s] = "idle"
       /\ phase[a] = "stopped" => phase[s] \in {"idle", "stopped"}
  /\ pc # "running" => \A s \in Scopes : phase[s] \in {"idle", "stopped"}

(* Nested lifetimes have nested intervals.                                  *)
ClockInv ==
  /\ \A s \in Scopes : start[s] <= clock /\ end[s] <= clock
  /\ \A s \in Scopes : \A a \in Around[s] :
       /\ phase[s] # "idle" => start[a] <= start[s]
       /\ phase[s] = "stopped" /\ phase[a] = "stopped" => end[s] <= end[a]

(* The vector holds what has been registered, once, outer timers first.     *)
RecordInv ==
  /\ \A j, k \in 1 .. Len(records) : records[j] = records[k] => j = k
  /\ \A s \in Scopes : phase[s] \in {"running", "stopped"} =>
       \E k \in 1 .. Len(records) : records[k] = s
  /\ \A k \in 1 .. Len(records) : phase[records[k]] \in {"running", "stopped"}
  /\ \A k \in 1 .. Len(records) : \A a \in Around[records[k]] :
       \E j \in 1 .. k - 1 : records[j] = a

(* A parent is around its child, or was found by its interval.              *)
Found(k) ==
  /\ pc # "running"
  /\ Covers(parent[records[k]], records[k])
  /\ \E j \in 1 .. k - 1 : records[j] = parent[records[k]]

ParentInv ==
  \A k \in 1 .. Len(records) :
    parent[records[k]] \in Around[records[k]] \cup {None} \/ Found(k)

(* A timer under construction has no other parent than its constructor's.   *)
FreshInv ==
  \A s \in Scopes : phase[s] \in {"idle", "constructing"} =>
    parent[s] \in Around[s] \cup {None}

PInv == Shapes /\ NestInv /\ ClockInv /\ RecordInv /\ ParentInv /\ FreshInv

-----------------------------------------------------------------------------
LEMMA TimesNat == Times \subseteq Nat /\ 0 \in Times
  BY ScopeAssumption

LEMMA AroundScopes ==
  ASSUME NEW s \in Scopes
  PROVE  Around[s] \subseteq Scopes /\ s \notin Around[s] /\ None \notin Around[s]
  BY ScopeAssumption

LEMMA EnclosingAround ==
  ASSUME NEW s \in Named
  PROVE  s \in Scopes /\ Enclosing(s) \in Around[s]
  BY ScopeAssumption DEF Enclosing

(* A set of natural numbers with an upper bound has a greatest element.     *)
LEMMA MaxExists ==
  ASSUME NEW n \in Nat, NEW S \in SUBSET (1 .. n), S # {}
  PROVE  Max(S) \in S /\ \A y \in S : Max(S) >= y
  <1> DEFINE T == {n - k : k \in S}
             R == OpToRel(<, Nat)
  <1>1. T \subseteq Nat /\ T # {}
    OBVIOUS
  <1>2. PICK m \in T : \A y \in T : ~(<<y, m>> \in R)
    <2> HIDE DEF T
    <2> QED BY <1>1, NatLessThanWellFounded, WFMin
  <1>3. \A y \in T : ~(y < m)
    BY <1>1, <1>2 DEF OpToRel
  <1>4. PICK k \in S : m = n - k
    BY <1>2
  <1>5. \A y \in S : k >= y
    BY <1>3, <1>4
  <1> QED BY <1>4, <1>5 DEF Max

-----------------------------------------------------------------------------
LEMMA InitPInv == Init => PInv
  <1> SUFFICES ASSUME Init PROVE PInv
    OBVIOUS
  <1>1. Shapes
    BY DEF Init, Shapes
  <1>2. NestInv /\ ClockInv /\ RecordInv /\ ParentInv /\ FreshInv
    BY ScopeAssumption DEF Init, NestInv, ClockInv, RecordInv, ParentInv, FreshInv
  <1> QED BY <1>1, <1>2 DEF PInv

LEMMA NowGoesOn ==
  ASSUME Now, clock \in Nat
  PROVE  clock' \in Nat /\ clock <= clock'
  BY TimesNat DEF Now

LEMMA ConstructStep ==
  ASSUME PInv, NEW s \in Scopes, Construct(s)
  PROVE  PInv'
  <1>1. /\ pc = "running" /\ phase[s] = "idle"
        /\ \A a \in Around[s] : phase[a] = "running"
        /\ start' = [start EXCEPT ![s] = clock']
        /\ phase' = [phase EXCEPT ![s] = "constructing"]
        /\ UNCHANGED <<end, records, pc, i>>
        /\ clock' \in Nat /\ clock <= clock'
    BY NowGoesOn DEF Construct, PInv, Shapes
  <1>2. /\ parent' \in [Scopes -> Scopes \cup {None}]
        /\ \A t \in Scopes : t # s => parent'[t] = parent[t]
        /\ parent'[s] \in Around[s] \cup {None}
    <2>1. CASE s \in Named
      <3>1. parent' = [parent EXCEPT ![s] = Enclosing(s)]
        BY <2>1 DEF Construct
      <3> QED BY <2>1, <3>1, EnclosingAround, AroundScopes DEF PInv, Shapes
    <2>2. CASE s \notin Named
      <3>1. parent' = parent
        BY <2>2 DEF Construct
      <3> QED BY <1>1, <3>1 DEF PInv, Shapes, FreshInv
    <2> QED BY <2>1, <2>2
  <1>3. Shapes'
    BY <1>1, <1>2 DEF PInv, Shapes
  <1>4. NestInv'
    BY <1>1, AroundScopes DEF PInv, Shapes, NestInv
  <1>5. ClockInv'
    <2>1. \A t \in Scopes : start'[t] <= clock' /\ end'[t] <= clock'
      BY <1>1 DEF PInv, Shapes, ClockInv
    <2>2. ASSUME NEW t \in Scopes, NEW a \in Around[t]
          PROVE  /\ phase'[t] # "idle" => start'[a] <= start'[t]
                 /\ phase'[t] = "stopped" /\ phase'[a] = "stopped" => end'[t] <= end'[a]
      <3>0. a \in Scopes
        BY AroundScopes
      <3>1. CASE t = s
        BY <1>1, <3>0, <3>1, AroundScopes DEF PInv, Shapes, ClockInv
      <3>2. CASE t # s /\ a = s
        BY <1>1, <3>0, <3>2 DEF PInv, Shapes, ClockInv, NestInv
      <3>3. CASE t # s /\ a # s
        BY <1>1, <3>0, <3>3 DEF PInv, Shapes, ClockInv
      <3> QED BY <3>1, <3>2, <3>3
    <2> QED BY <2>1, <2>2 DEF ClockInv
  <1>6. ASSUME NEW k \in 1 .. Len(records)
        PROVE  records[k] \in Scopes /\ records[k] # s
    <2>1. records[k] \in Scopes
      BY DEF PInv, Shapes
    <2>2. phase[records[k]] # "idle"
      BY DEF PInv, RecordInv
    <2> QED BY <1>1, <2>1, <2>2
  <1>7. RecordInv'
    <2>1. \A t \in Scopes : phase'[t] \in {"running", "stopped"} =>
            phase[t] \in {"running", "stopped"}
      BY <1>1 DEF PInv, Shapes
    <2>2. \A k \in 1 .. Len(records) : phase'[records[k]] = phase[records[k]]
      BY <1>1, <1>6 DEF PInv, Shapes
    <2> QED BY <1>1, <2>1, <2>2 DEF PInv, RecordInv
  <1>8. ParentInv'
    BY <1>1, <1>2, <1>6 DEF PInv, ParentInv, Found
  <1>9. FreshInv'
    BY <1>1, <1>2 DEF PInv, Shapes, FreshInv
  <1> QED BY <1>3, <1>4, <1>5, <1>7, <1>8, <1>9 DEF PInv

LEMMA RegisterStep ==
  ASSUME PInv, NEW s \in Scopes, Register(s)
  PROVE  PInv'
  <1>1. /\ phase[s] = "constructing"
        /\ records' = Append(records, s)
        /\ phase' = [phase EXCEPT ![s] = "running"]
        /\ UNCHANGED <<clock, start, end, parent, pc, i>>
    BY DEF Register
  <1>2. /\ records \in Seq(Scopes) /\ Len(records) \in Nat
        /\ records' \in Seq(Scopes) /\ Len(records') = Len(records) + 1
        /\ records'[Len(records) + 1] = s
        /\ \A k \in 1 .. Len(records) : records'[k] = records[k] /\ records[k] \in Scopes
    BY <1>1 DEF PInv, Shapes
  <1>3. pc = "running"
    BY <1>1 DEF PInv, NestInv
  <1>4. Shapes'
    BY <1>1, <1>2 DEF PInv, Shapes
  <1>5. NestInv' /\ ClockInv' /\ FreshInv'
    BY <1>1, <1>3, AroundScopes DEF PInv, Shapes, NestInv, ClockInv, FreshInv
  <1>6. RecordInv'
    <2>1. ASSUME NEW t \in Scopes, phase'[t] \in {"running", "stopped"}
          PROVE  \E k \in 1 .. Len(records') : records'[k] = t
      <3>1. CASE t = s
        BY <1>2, <3>1
      <3>2. CASE t # s
        <4>1. PICK k \in 1 .. Len(records) : records[k] = t
          BY <1>1, <2>1, <3>2 DEF PInv, Shapes, RecordInv
        <4> QED BY <1>2, <4>1
      <3> QED BY <3>1, <3>2
    <2>2. \A k \in 1 .. Len(records') : phase'[records'[k]] \in {"running", "stopped"}
      BY <1>1, <1>2 DEF PInv, Shapes, RecordInv
    <2>3. ASSUME NEW k \in 1 .. Len(records'), NEW a \in Around[records'[k]]
          PROVE  \E j \in 1 .. k - 1 : records'[j] = a
      <3>1. CASE k = Len(records) + 1
        <4>1. a \in Scopes /\ a \in Around[s] /\ a # s
          BY <1>2, <3>1, AroundScopes
        <4>2. phase[a] \in {"running", "stopped"}
          BY <1>1, <4>1 DEF PInv, NestInv, Shapes
        <4>3. PICK j \in 1 .. Len(records) : records[j] = a
          BY <4>1, <4>2 DEF PInv, RecordInv
        <4> QED BY <1>2, <3>1, <4>3
      <3>2. CASE k \in 1 .. Len(records)
        <4>1. PICK j \in 1 .. k - 1 : records[j] = a
          BY <1>2, <3>2, <2>3 DEF PInv, RecordInv
        <4> QED BY <1>2, <3>2, <4>1
      <3> QED BY <1>2, <3>1, <3>2
    <2>4. \A k \in 1 .. Len(records) : records[k] # s
      BY <1>1 DEF PInv, RecordInv
    <2>5. \A j, k \in 1 .. Len(records') : records'[j] = records'[k] => j = k
      BY <1>2, <2>4 DEF PInv, RecordInv
    <2> QED BY <2>1, <2>2, <2>3, <2>5 DEF RecordInv
  <1>7. ParentInv'
    <2> SUFFICES ASSUME NEW k \in 1 .. Len(records')
                 PROVE  parent[records'[k]] \in Around[records'[k]] \cup {None}
      BY <1>1 DEF ParentInv
    <2>1. CASE k = Len(records) + 1
      BY <1>1, <1>2, <2>1 DEF PInv, FreshInv
    <2>2. CASE k \in 1 .. Len(records)
      BY <1>2, <1>3, <2>2 DEF PInv, ParentInv, Found
    <2> QED BY <1>2, <2>1, <2>2
  <1> QED BY <1>4, <1>5, <1>6, <1>7 DEF PInv

LEMMA StopStep ==
  ASSUME PInv, NEW s \in Scopes, Stop(s)
  PROVE  PInv'
  <1>1. /\ pc = "running" /\ phase[s] = "running" /\ Over(s)
        /\ end' = [end EXCEPT ![s] = clock']
        /\ phase' = [phase EXCEPT ![s] = "stopped"]
        /\ UNCHANGED <<start, records, parent, pc, i>>
        /\ clock' \in Nat /\ clock <= clock'
    BY NowGoesOn DEF Stop, PInv, Shapes
  <1>2. Shapes'
    BY <1>1 DEF PInv, Shapes
  <1>3. NestInv'
    BY <1>1, AroundScopes DEF PInv, Shapes, NestInv, Over, Gone
  <1>4. ClockInv'
    <2>1. \A t \in Scopes : start'[t] <= clock' /\ end'[t] <= clock'
      BY <1>1 DEF PInv, Shapes, ClockInv
    <2>2. ASSUME NEW t \in Scopes, NEW a \in Around[t]
          PROVE  /\ phase'[t] # "idle" => start'[a] <= start'[t]
                 /\ phase'[t] = "stopped" /\ phase'[a] = "stopped" => end'[t] <= end'[a]
      <3>0. a \in Scopes /\ a # t
        BY AroundScopes
      <3>1. CASE t = s
        BY <1>1, <3>0, <3>1 DEF PInv, Shapes, ClockInv, NestInv
      <3>2. CASE t # s /\ a = s
        BY <1>1, <3>0, <3>2 DEF PInv, Shapes, ClockInv
      <3>3. CASE t # s /\ a # s
        BY <1>1, <3>0, <3>3 DEF PInv, Shapes, ClockInv
      <3> QED BY <3>1, <3>2, <3>3
    <2> QED BY <2>1, <2>2 DEF ClockInv
  <1>5. \A k \in 1 .. Len(records) : records[k] \in Scopes
    BY DEF PInv, Shapes
  <1>6. RecordInv'
    BY <1>1, <1>5 DEF PInv, Shapes, RecordInv
  <1>7. ParentInv'
    BY <1>1 DEF PInv, ParentInv, Found
  <1>8. FreshInv'
    BY <1>1 DEF PInv, Shapes, FreshInv
  <1> QED BY <1>2, <1>3, <1>4, <1>6, <1>7, <1>8 DEF PInv

(* When the outermost timers are stopped, so is everything within them.     *)
LEMMA BeginStep ==
  ASSUME PInv, BeginPrinting
  PROVE  PInv'
  <1>1. \A s \in Scopes : phase[s] \in {"idle", "stopped"}
    <2> SUFFICES ASSUME NEW s \in Scopes PROVE phase[s] \in {"idle", "stopped"}
      OBVIOUS
    <2>1. PICK r \in Around[s] \cup {s} : Around[r] = {}
      BY ScopeAssumption
    <2>2. r \in Scopes /\ phase[r] = "stopped"
      BY <2>1, AroundScopes DEF BeginPrinting
    <2> QED BY <2>1, <2>2 DEF PInv, NestInv
  <1>2. phase' = phase /\ end' = end
    BY <1>1 DEF BeginPrinting, StopAll, PInv, Shapes
  <1>3. /\ pc = "running" /\ pc' = "adopting" /\ UNCHANGED <<start, records, parent, i>>
        /\ clock' \in Nat /\ clock <= clock'
    BY NowGoesOn DEF BeginPrinting, PInv, Shapes
  <1>4. Shapes'
    BY <1>2, <1>3 DEF PInv, Shapes
  <1>5. NestInv' /\ FreshInv' /\ RecordInv'
    BY <1>1, <1>2, <1>3 DEF PInv, NestInv, FreshInv, RecordInv
  <1>6. ClockInv'
    BY <1>2, <1>3 DEF PInv, ClockInv, Shapes
  <1>7. ParentInv'
    BY <1>3 DEF PInv, ParentInv, Found
  <1> QED BY <1>4, <1>5, <1>6, <1>7 DEF PInv

LEMMA AdoptStep ==
  ASSUME PInv, Adopt
  PROVE  PInv'
  <1>1. /\ pc = "adopting" /\ i <= Len(records) /\ i' = i + 1
        /\ UNCHANGED <<lifetimes, pc>>
    BY DEF Adopt
  <1>2. /\ records \in Seq(Scopes) /\ i \in 1 .. Len(records) /\ records[i] \in Scopes
        /\ \A k \in 1 .. Len(records) : records[k] \in Scopes
    BY <1>1 DEF PInv, Shapes
  <1>3. CASE KeepsParent
    BY <1>1, <1>3 DEF Adopt, lifetimes, PInv, Shapes, NestInv, ClockInv, RecordInv,
                      ParentInv, FreshInv, Found, Covers
  <1>4. CASE ~KeepsParent
    <2> DEFINE m == Max(Covering)
    <2>1. m \in Covering
      <3>1. Covering # {} /\ Covering \in SUBSET (1 .. i - 1) /\ i - 1 \in Nat
        BY <1>2, <1>4 DEF KeepsParent, Covering
      <3> QED BY <3>1, MaxExists
    <2> HIDE DEF m
    <2>2. m \in 1 .. i - 1 /\ Covers(records[m], records[i]) /\ records[m] \in Scopes
      BY <1>2, <2>1 DEF Covering
    <2>3. parent' = [parent EXCEPT ![records[i]] = records[m]]
      BY <1>4 DEF Adopt, NearestCover, m
    <2>4. Shapes' /\ NestInv' /\ ClockInv' /\ RecordInv'
      BY <1>1, <2>2, <2>3 DEF lifetimes, PInv, Shapes, NestInv, ClockInv, RecordInv
    <2>5. FreshInv'
      BY <1>1, <1>2, <2>3 DEF lifetimes, PInv, Shapes, FreshInv, RecordInv
    <2>6. ParentInv'
      <3> SUFFICES ASSUME NEW k \in 1 .. Len(records)
                   PROVE  parent'[records[k]] \in Around[records[k]] \cup {None} \/ Found(k)'
        BY <1>1 DEF ParentInv, lifetimes
      <3>1. CASE records[k] = records[i]
        <4>1. parent'[records[k]] = records[m]
          BY <1>2, <2>3, <3>1 DEF PInv, Shapes
        <4>2. Covers(records[m], records[k])
          BY <2>2, <3>1
        <4>3. k = i
          BY <1>2, <3>1 DEF PInv, RecordInv
        <4> QED BY <1>1, <1>2, <2>2, <4>1, <4>2, <4>3 DEF Found, Covers, lifetimes
      <3>2. CASE records[k] # records[i]
        BY <1>1, <1>2, <2>3, <3>2 DEF PInv, Shapes, ParentInv, Found, Covers, lifetimes
      <3> QED BY <3>1, <3>2
    <2> QED BY <2>4, <2>5, <2>6 DEF PInv
  <1> QED BY <1>3, <1>4

LEMMA NextPInv == PInv /\ [Next]_vars => PInv'
  <1> SUFFICES ASSUME PInv, [Next]_vars PROVE PInv'
    OBVIOUS
  <1>1. CASE Next
    <2>1. CASE BeginForest \/ NextRoot \/ PrintRec \/ EndPrinting
      <3>1. UNCHANGED <<lifetimes, parent, i>> /\ pc # "running"
            /\ pc' \in {"printing", "done"}
        BY <2>1 DEF BeginForest, NextRoot, PrintRec, EndPrinting
      <3>2. Shapes' /\ NestInv'
        BY <3>1 DEF lifetimes, PInv, Shapes, NestInv
      <3>3. ClockInv' /\ RecordInv'
        BY <3>1 DEF lifetimes, PInv, ClockInv, RecordInv
      <3>4. ParentInv' /\ FreshInv'
        BY <3>1 DEF lifetimes, PInv, ParentInv, FreshInv, Found, Covers
      <3> QED BY <3>2, <3>3, <3>4 DEF PInv
    <2> QED BY <1>1, <2>1, ConstructStep, RegisterStep, StopStep, BeginStep, AdoptStep DEF Next
  <1>2. CASE UNCHANGED vars
    <2>1. UNCHANGED <<phase, clock, start, end, records, parent, pc, i>>
      BY <1>2 DEF vars, lifetimes
    <2>2. UNCHANGED <<Shapes, NestInv, ClockInv, RecordInv>>
      BY <2>1 DEF Shapes, NestInv, ClockInv, RecordInv
    <2>3. UNCHANGED <<ParentInv, FreshInv>>
      BY <2>1 DEF ParentInv, FreshInv, Found, Covers
    <2> QED BY <2>2, <2>3 DEF PInv
  <1> QED BY <1>1, <1>2

LEMMA Inductive == Spec => []PInv
  BY InitPInv, NextPInv, PTL DEF Spec

-----------------------------------------------------------------------------
(* When the records are printed every parent covers its child's interval    *)
(* and stands before it in the vector, on any schedule of the tasks.        *)
THEOREM ParentsAreAround == Spec => []ParentsCover
  <1>1. PInv => ParentsCover
    <2> SUFFICES ASSUME PInv, pc \in {"printing", "done"}, NEW k \in 1 .. Len(records),
                        parent[records[k]] # None
                 PROVE  /\ Covers(parent[records[k]], records[k])
                        /\ \E j \in 1 .. k - 1 : records[j] = parent[records[k]]
      BY DEF ParentsCover
    <2>1. CASE Found(k)
      BY <2>1 DEF Found
    <2>2. CASE parent[records[k]] \in Around[records[k]]
      <3> DEFINE s == records[k]
                 a == parent[s]
      <3>1. s \in Scopes /\ a \in Around[s] /\ a \in Scopes
        BY <2>2, AroundScopes DEF PInv, Shapes
      <3>2. \E j \in 1 .. k - 1 : records[j] = a
        BY <3>1 DEF PInv, RecordInv
      <3>3. phase[s] = "stopped"
        BY <3>1 DEF PInv, NestInv, RecordInv
      <3>4. phase[a] = "stopped"
        BY <3>1, <3>3 DEF PInv, NestInv
      <3> QED BY <3>1, <3>2, <3>3, <3>4 DEF PInv, ClockInv, Covers
    <2> QED BY <2>1, <2>2 DEF PInv, ParentInv
  <1> QED BY <1>1, Inductive, PTL

-----------------------------------------------------------------------------
(* Attribution.  Timers that are destroyed before others are constructed    *)
(* end before those start, and stand before them in the vector; if the run  *)
(* does without them they never begin.                                      *)
OrderInv ==
  /\ \A s \in Scopes : \A e \in Earlier[s] : phase[s] # "idle" =>
       phase[e] = "idle" \/ (phase[e] = "stopped" /\ end[e] <= start[s])
  /\ \A s \in Scopes : phase[s] = "stopped" => start[s] <= end[s]
  /\ \A k \in 1 .. Len(records) : \A e \in Earlier[records[k]] : phase[e] # "idle" =>
       \E j \in 1 .. k - 1 : records[j] = e

(* What Attribution says of one timer.                                      *)
Right(s) ==
  \/ parent[s] = Enclosing(s)
  \/ parent[s] # None /\ Concurrent(s, parent[s])
  \/ parent[s] # None /\ start[s] = end[s] /\ start[s] = end[parent[s]]

(* A timer has its constructor's parent, or none until its turn, or the     *)
(* right one after it.                                                      *)
TurnInv ==
  /\ pc = "running" => i = 1
  /\ pc \in {"printing", "done"} => i > Len(records)
  /\ \A s \in Named : phase[s] # "idle" => parent[s] = Enclosing(s)
  /\ \A s \in Scopes \ Named :
       parent[s] = None \/ \E k \in 1 .. Len(records) : k < i /\ records[k] = s
  /\ \A k \in 1 .. Len(records) : k < i /\ Around[records[k]] # {} => Right(records[k])

AInv == OrderInv /\ TurnInv

LEMMA EarlierScopes ==
  ASSUME NEW s \in Scopes
  PROVE  Earlier[s] \subseteq Scopes
  BY ScopeAssumption

LEMMA InitAInv ==
  ASSUME Init
  PROVE  AInv
  BY ScopeAssumption DEF Init, AInv, OrderInv, TurnInv

LEMMA ConstructAInv ==
  ASSUME PInv, AInv, NEW s \in Scopes, Construct(s)
  PROVE  AInv'
  <1>1. /\ pc = "running" /\ phase[s] = "idle"
        /\ \A e \in Earlier[s] : phase[e] \in {"stopped", "idle"}
        /\ \A t \in Scopes : s \in Earlier[t] => phase[t] = "idle"
        /\ start' = [start EXCEPT ![s] = clock']
        /\ phase' = [phase EXCEPT ![s] = "constructing"]
        /\ UNCHANGED <<end, records, pc, i>>
        /\ clock' \in Nat /\ clock <= clock'
    BY NowGoesOn DEF Construct, Gone, PInv, Shapes
  <1>2. i = 1 /\ \A k \in 1 .. Len(records) : ~(k < i)
    BY <1>1 DEF AInv, TurnInv
  <1>3. OrderInv'
    <2>1. ASSUME NEW t \in Scopes, NEW e \in Earlier[t], phase'[t] # "idle"
          PROVE  phase'[e] = "idle" \/ (phase'[e] = "stopped" /\ end'[e] <= start'[t])
      <3>0. e \in Scopes
        BY EarlierScopes
      <3>1. CASE t = s
        <4>1. phase[e] \in {"stopped", "idle"} /\ e # s
          BY <1>1, <2>1, <3>1, ScopeAssumption
        <4>2. phase[e] = "stopped" => end[e] <= clock' /\ start'[s] = clock'
          BY <1>1, <3>0 DEF PInv, ClockInv, Shapes
        <4> QED BY <1>1, <3>0, <3>1, <4>1, <4>2 DEF PInv, Shapes
      <3>2. CASE t # s
        <4>1. phase[t] # "idle" /\ start'[t] = start[t] /\ e # s
          BY <1>1, <2>1, <3>2 DEF PInv, Shapes
        <4>2. phase[e] = "idle" \/ (phase[e] = "stopped" /\ end[e] <= start[t])
          BY <2>1, <4>1 DEF AInv, OrderInv
        <4> QED BY <1>1, <3>0, <4>1, <4>2 DEF PInv, Shapes
      <3> QED BY <3>1, <3>2
    <2>2. \A t \in Scopes : phase'[t] = "stopped" => start'[t] <= end'[t]
      BY <1>1 DEF PInv, Shapes, AInv, OrderInv
    <2>3. ASSUME NEW k \in 1 .. Len(records'), NEW e \in Earlier[records'[k]],
                 phase'[e] # "idle"
          PROVE  \E j \in 1 .. k - 1 : records'[j] = e
      <3>0. k \in 1 .. Len(records) /\ e \in Earlier[records[k]]
        BY <1>1, <2>3
      <3>1. records[k] \in Scopes /\ e \in Scopes
        BY <3>0, EarlierScopes DEF PInv, Shapes
      <3>2. e # s
        BY <1>1, <3>0, <3>1 DEF PInv, RecordInv
      <3>3. phase[e] # "idle"
        BY <1>1, <2>3, <3>1, <3>2 DEF PInv, Shapes
      <3> QED BY <1>1, <3>0, <3>3 DEF AInv, OrderInv
    <2> QED BY <2>1, <2>2, <2>3 DEF OrderInv
  <1>4. TurnInv'
    <2>1. ASSUME NEW t \in Named, phase'[t] # "idle"
          PROVE  parent'[t] = Enclosing(t)
      <3>1. CASE t = s
        BY <2>1, <3>1 DEF Construct, PInv, Shapes
      <3>2. CASE t # s
        <4>1. t \in Scopes
          BY EnclosingAround
        <4>2. phase[t] # "idle" /\ parent'[t] = parent[t]
          BY <1>1, <2>1, <3>2, <4>1 DEF Construct, PInv, Shapes
        <4> QED BY <4>2 DEF AInv, TurnInv
      <3> QED BY <3>1, <3>2
    <2>2. \A t \in Scopes \ Named : parent'[t] = None
      <3>1. \A t \in Scopes \ Named : parent'[t] = parent[t]
        BY DEF Construct, PInv, Shapes
      <3>2. \A t \in Scopes \ Named : parent[t] = None
        BY <1>2 DEF AInv, TurnInv
      <3> QED BY <3>1, <3>2
    <2> QED BY <1>1, <1>2, <2>1, <2>2 DEF TurnInv
  <1> QED BY <1>3, <1>4 DEF AInv

LEMMA RegisterAInv ==
  ASSUME PInv, AInv, NEW s \in Scopes, Register(s)
  PROVE  AInv'
  <1>1. /\ phase[s] = "constructing"
        /\ records' = Append(records, s)
        /\ phase' = [phase EXCEPT ![s] = "running"]
        /\ UNCHANGED <<clock, start, end, parent, pc, i>>
    BY DEF Register
  <1>2. /\ records \in Seq(Scopes) /\ Len(records) \in Nat
        /\ Len(records') = Len(records) + 1
        /\ records'[Len(records) + 1] = s
        /\ \A k \in 1 .. Len(records) : records'[k] = records[k]
    BY <1>1 DEF PInv, Shapes
  <1>3. pc = "running" /\ i = 1
    BY <1>1 DEF PInv, NestInv, AInv, TurnInv
  <1>4. OrderInv'
    <2>1. \A t \in Scopes : \A e \in Earlier[t] :
            phase'[t] # "idle" =>
              phase'[e] = "idle" \/ (phase'[e] = "stopped" /\ end'[e] <= start'[t])
      <3>1. \A t \in Scopes : phase'[t] # "idle" => phase[t] # "idle"
        BY <1>1 DEF PInv, Shapes
      <3>2. \A t \in Scopes : phase[t] \in {"stopped", "idle"} => phase'[t] = phase[t]
        BY <1>1 DEF PInv, Shapes
      <3> QED BY <1>1, <3>1, <3>2, EarlierScopes DEF AInv, OrderInv
    <2>2. \A t \in Scopes : phase'[t] = "stopped" => start'[t] <= end'[t]
      BY <1>1 DEF PInv, Shapes, AInv, OrderInv
    <2>3. ASSUME NEW k \in 1 .. Len(records'), NEW e \in Earlier[records'[k]],
                 phase'[e] # "idle"
          PROVE  \E j \in 1 .. k - 1 : records'[j] = e
      <3>1. CASE k = Len(records) + 1
        <4>1. e \in Scopes /\ e \in Earlier[s]
          BY <1>2, <3>1, EarlierScopes
        <4>2. phase[e] = "stopped"
          BY <1>1, <2>3, <4>1 DEF AInv, OrderInv, PInv, Shapes
        <4>3. PICK j \in 1 .. Len(records) : records[j] = e
          BY <4>1, <4>2 DEF PInv, RecordInv
        <4> QED BY <1>2, <3>1, <4>3
      <3>2. CASE k \in 1 .. Len(records)
        <4>1. e \in Earlier[records[k]] /\ e \in Scopes
          BY <1>2, <2>3, <3>2, EarlierScopes DEF PInv, Shapes
        <4>2. phase[e] # "idle"
          BY <1>1, <2>3, <4>1 DEF PInv, Shapes
        <4>3. PICK j \in 1 .. k - 1 : records[j] = e
          BY <3>2, <4>1, <4>2 DEF AInv, OrderInv
        <4> QED BY <1>2, <3>2, <4>3
      <3> QED BY <1>2, <3>1, <3>2
    <2> QED BY <2>1, <2>2, <2>3 DEF OrderInv
  <1>5. TurnInv'
    <2>1. \A t \in Named : t \in Scopes /\ (phase'[t] # "idle" => phase[t] # "idle")
      BY <1>1, EnclosingAround DEF PInv, Shapes
    <2>2. \A t \in Scopes \ Named : parent[t] = None
      BY <1>3 DEF AInv, TurnInv
    <2>3. \A k \in 1 .. Len(records') : ~(k < i')
      BY <1>1, <1>3
    <2> QED BY <1>1, <1>3, <2>1, <2>2, <2>3 DEF AInv, TurnInv
  <1> QED BY <1>4, <1>5 DEF AInv

LEMMA StopAInv ==
  ASSUME PInv, AInv, NEW s \in Scopes, Stop(s)
  PROVE  AInv'
  <1>1. /\ pc = "running" /\ phase[s] = "running"
        /\ end' = [end EXCEPT ![s] = clock']
        /\ phase' = [phase EXCEPT ![s] = "stopped"]
        /\ UNCHANGED <<start, records, parent, pc, i>>
        /\ clock' \in Nat /\ clock <= clock'
    BY NowGoesOn DEF Stop, PInv, Shapes
  <1>2. i = 1
    BY <1>1 DEF AInv, TurnInv
  <1>3. OrderInv'
    <2>1. ASSUME NEW t \in Scopes, NEW e \in Earlier[t], phase'[t] # "idle"
          PROVE  phase'[e] = "idle" \/ (phase'[e] = "stopped" /\ end'[e] <= start'[t])
      <3>1. phase[t] # "idle" /\ e \in Scopes
        BY <1>1, <2>1, EarlierScopes DEF PInv, Shapes
      <3>2. (phase[e] = "idle" \/ (phase[e] = "stopped" /\ end[e] <= start[t])) /\ e # s
        BY <1>1, <3>1 DEF AInv, OrderInv
      <3> QED BY <1>1, <3>1, <3>2 DEF PInv, Shapes
    <2>2. \A t \in Scopes : phase'[t] = "stopped" => start'[t] <= end'[t]
      BY <1>1 DEF PInv, Shapes, ClockInv, AInv, OrderInv
    <2> QED BY <1>1, <2>1, <2>2 DEF OrderInv, AInv
  <1>4. TurnInv'
    <2>1. \A t \in Named : t \in Scopes /\ (phase'[t] # "idle" => phase[t] # "idle")
      BY <1>1, EnclosingAround DEF PInv, Shapes
    <2>2. \A t \in Scopes \ Named : parent[t] = None
      BY <1>2 DEF AInv, TurnInv
    <2>3. \A k \in 1 .. Len(records') : ~(k < i')
      BY <1>1, <1>2
    <2> QED BY <1>1, <1>2, <2>1, <2>2, <2>3 DEF AInv, TurnInv
  <1> QED BY <1>3, <1>4 DEF AInv

LEMMA BeginAInv ==
  ASSUME PInv, AInv, BeginPrinting
  PROVE  AInv'
  <1>1. /\ pc = "running" /\ pc' = "adopting" /\ UNCHANGED <<start, records, parent, i>>
        /\ end' = [s \in Scopes |-> IF phase[s] = "running" THEN clock' ELSE end[s]]
        /\ phase' = [s \in Scopes |-> IF phase[s] = "running" THEN "stopped" ELSE phase[s]]
        /\ clock' \in Nat /\ clock <= clock'
    BY NowGoesOn DEF BeginPrinting, StopAll, PInv, Shapes
  <1>2. i = 1
    BY <1>1 DEF AInv, TurnInv
  <1>3. OrderInv'
    <2>1. ASSUME NEW t \in Scopes, NEW e \in Earlier[t], phase'[t] # "idle"
          PROVE  phase'[e] = "idle" \/ (phase'[e] = "stopped" /\ end'[e] <= start'[t])
      <3>1. phase[t] # "idle" /\ e \in Scopes
        BY <1>1, <2>1, EarlierScopes
      <3>2. phase[e] = "idle" \/ (phase[e] = "stopped" /\ end[e] <= start[t])
        BY <3>1 DEF AInv, OrderInv
      <3> QED BY <1>1, <3>1, <3>2
    <2>2. \A t \in Scopes : phase'[t] = "stopped" => start'[t] <= end'[t]
      BY <1>1 DEF PInv, Shapes, ClockInv, AInv, OrderInv
    <2>3. ASSUME NEW k \in 1 .. Len(records'), NEW e \in Earlier[records'[k]],
                 phase'[e] # "idle"
          PROVE  \E n \in 1 .. k - 1 : records'[n] = e
      <3>1. k \in 1 .. Len(records) /\ e \in Earlier[records[k]]
        BY <1>1, <2>3
      <3>2. e \in Scopes
        BY <3>1, EarlierScopes DEF PInv, Shapes
      <3>3. phase[e] # "idle"
        BY <1>1, <2>3, <3>2
      <3> QED BY <1>1, <3>1, <3>3 DEF AInv, OrderInv
    <2> QED BY <2>1, <2>2, <2>3 DEF OrderInv
  <1>4. TurnInv'
    <2>1. \A t \in Named : t \in Scopes /\ (phase'[t] # "idle" => phase[t] # "idle")
      BY <1>1, EnclosingAround
    <2>2. \A t \in Scopes \ Named : parent[t] = None
      BY <1>2 DEF AInv, TurnInv
    <2>3. \A k \in 1 .. Len(records') : ~(k < i')
      BY <1>1, <1>2
    <2> QED BY <1>1, <1>2, <2>1, <2>2, <2>3 DEF AInv, TurnInv
  <1> QED BY <1>3, <1>4 DEF AInv

(* The timer around a record covers it from before it in the vector, so     *)
(* that a nearest cover always exists and is not farther away; whatever     *)
(* comes between the two is not nested with the record.                     *)
LEMMA NearestIsRight ==
  ASSUME PInv, AInv, pc = "adopting", i \in 1 .. Len(records),
         Around[records[i]] # {}
  PROVE  /\ Covering # {}
         /\ LET p == NearestCover
            IN \/ p = Enclosing(records[i])
               \/ p # None /\ Concurrent(records[i], p)
               \/ p # None /\ start[records[i]] = end[records[i]]
                    /\ start[records[i]] = end[p]
  <1> DEFINE s == records[i]
             m == Max(Covering)
             p == records[m]
             e == Enclosing(s)
  <1>1. /\ s \in Scopes /\ \A k \in 1 .. Len(records) : records[k] \in Scopes
        /\ i \in Nat /\ Len(records) \in Nat /\ None \notin Scopes
    BY ScopeAssumption DEF PInv, Shapes
  <1>2. e \in Around[s] /\ Around[e] = Around[s] \ {e} /\ e \in Scopes
    BY <1>1, ScopeAssumption, AroundScopes DEF Enclosing
  <1> HIDE DEF e
  <1>3. PICK b \in 1 .. i - 1 : records[b] = e
    BY <1>2 DEF PInv, RecordInv
  <1>4. phase[s] = "stopped" /\ phase[e] = "stopped"
    BY <1>1, <1>2 DEF PInv, RecordInv, NestInv
  <1>5. b \in Covering
    BY <1>2, <1>3, <1>4, <1>1 DEF Covering, Covers, PInv, ClockInv
  <1>6. Covering \in SUBSET (1 .. i - 1) /\ i - 1 \in Nat
    BY <1>1 DEF Covering
  <1>7. m \in Covering /\ b <= m
    BY <1>5, <1>6, MaxExists
  <1> HIDE DEF m
  <1>8. m \in 1 .. i - 1 /\ m \in 1 .. Len(records) /\ Covers(p, s) /\ p \in Scopes
    BY <1>1, <1>7 DEF Covering
  <1>9. CASE m = b
    BY <1>3, <1>5, <1>9 DEF NearestCover, m, e
  <1>10. CASE m # b
    <2>1. b < m /\ m < i /\ p # None
      BY <1>1, <1>7, <1>8, <1>10
    <2>2. \A j, k \in 1 .. Len(records) : records[j] = records[k] => j = k
      BY DEF PInv, RecordInv
    <2>3. p # s
      BY <1>1, <1>8, <2>1, <2>2
    <2>4. p \notin Around[s]
      <3> SUFFICES ASSUME p \in Around[s] PROVE FALSE
        OBVIOUS
      <3>1. p # e
        BY <1>1, <1>3, <1>8, <2>1, <2>2
      <3>2. p \in Around[records[b]] /\ b \in 1 .. Len(records)
        BY <1>1, <1>2, <1>3, <3>1
      <3>3. PICK c \in 1 .. b - 1 : records[c] = p
        BY <3>2 DEF PInv, RecordInv
      <3> QED BY <1>1, <1>3, <1>8, <2>1, <2>2, <3>3
    <2>5. s \notin Around[p]
      <3> SUFFICES ASSUME s \in Around[p] PROVE FALSE
        OBVIOUS
      <3>1. \A a \in Around[records[m]] : \E c \in 1 .. m - 1 : records[c] = a
        BY <1>8 DEF PInv, RecordInv
      <3>2. PICK c \in 1 .. m - 1 : records[c] = s
        BY <3>1
      <3> QED BY <1>1, <1>8, <2>1, <2>2, <3>2
    <2>6. s \notin Earlier[p]
      <3> SUFFICES ASSUME s \in Earlier[p] PROVE FALSE
        OBVIOUS
      <3>1. PICK c \in 1 .. m - 1 : records[c] = s
        BY <1>4, <1>8 DEF AInv, OrderInv
      <3> QED BY <1>1, <1>8, <2>1, <2>2, <3>1
    <2>7. p \in Earlier[s] => start[s] = end[s] /\ start[s] = end[p]
      <3> SUFFICES ASSUME p \in Earlier[s] PROVE start[s] = end[s] /\ start[s] = end[p]
        OBVIOUS
      <3>0. phase[p] # "idle"
        BY <1>8 DEF PInv, RecordInv
      <3>1. end[p] <= start[s] /\ start[s] <= end[s]
        BY <1>1, <1>4, <3>0 DEF AInv, OrderInv
      <3>2. end[s] <= end[p]
        BY <1>8 DEF Covers
      <3>3. start[s] \in Nat /\ end[s] \in Nat /\ end[p] \in Nat
        BY <1>1, <1>8 DEF PInv, Shapes
      <3> QED BY <3>1, <3>2, <3>3
    <2>8. p \notin Earlier[s] => Concurrent(s, p)
      BY <2>3, <2>4, <2>5, <2>6 DEF Concurrent
    <2> QED BY <1>5, <2>1, <2>7, <2>8 DEF NearestCover, m
  <1> QED BY <1>9, <1>10

LEMMA AdoptAInv ==
  ASSUME PInv, AInv, Adopt
  PROVE  AInv'
  <1>1. /\ pc = "adopting" /\ i <= Len(records) /\ i' = i + 1 /\ pc' = pc
        /\ UNCHANGED <<phase, clock, start, end, records>>
    BY DEF Adopt, lifetimes
  <1>2. /\ i \in Nat /\ i \in 1 .. Len(records) /\ records[i] \in Scopes
        /\ \A k \in 1 .. Len(records) : records[k] \in Scopes
    BY <1>1 DEF PInv, Shapes
  <1>3. OrderInv'
    BY <1>1 DEF AInv, OrderInv
  <1>4. \A t \in Scopes : t # records[i] => parent'[t] = parent[t]
    BY DEF Adopt, PInv, Shapes
  <1>5. records[i] \in Named => parent'[records[i]] = Enclosing(records[i])
    <2> SUFFICES ASSUME records[i] \in Named
                 PROVE  parent'[records[i]] = Enclosing(records[i])
      OBVIOUS
    <2>1. phase[records[i]] # "idle"
      BY <1>2 DEF PInv, RecordInv
    <2>2. parent[records[i]] = Enclosing(records[i])
      BY <2>1 DEF AInv, TurnInv
    <2>3. parent[records[i]] # None
      BY <1>2, <2>2, EnclosingAround, AroundScopes
    <2> QED BY <2>2, <2>3 DEF Adopt, KeepsParent
  <1>6. ASSUME NEW s \in Scopes, s = records[i], Around[s] # {}
        PROVE  Right(s)'
    <2>1. CASE s \in Named
      BY <1>5, <1>6, <2>1 DEF Right
    <2>2. CASE s \notin Named
      <3>1. parent[s] = None
        <4>1. \A k \in 1 .. Len(records) : k < i => records[k] # s
          BY <1>2, <1>6 DEF PInv, RecordInv
        <4> QED BY <1>6, <2>2, <4>1 DEF AInv, TurnInv
      <3>2. ~KeepsParent
        BY <1>1, <1>2, <1>6, <3>1, NearestIsRight DEF KeepsParent
      <3>3. parent'[s] = NearestCover
        BY <1>2, <1>6, <3>2 DEF Adopt, PInv, Shapes
      <3>4. \/ parent'[s] = Enclosing(s)
            \/ parent'[s] # None /\ Concurrent(s, parent'[s])
            \/ parent'[s] # None /\ start[s] = end[s] /\ start[s] = end[parent'[s]]
        BY <1>1, <1>2, <1>6, <3>3, NearestIsRight
      <3> QED BY <1>1, <3>4 DEF Right, Concurrent
    <2> QED BY <2>1, <2>2
  <1>7. TurnInv'
    <2>1. \A t \in Named : phase'[t] # "idle" => parent'[t] = Enclosing(t)
      <3>1. Named \subseteq Scopes
        BY ScopeAssumption
      <3> QED BY <1>1, <1>4, <1>5, <3>1 DEF AInv, TurnInv
    <2>2. ASSUME NEW t \in Scopes \ Named
          PROVE  parent'[t] = None \/ \E k \in 1 .. Len(records) : k < i + 1 /\ records[k] = t
      <3>1. CASE t = records[i]
        BY <1>2, <3>1
      <3>2. CASE t # records[i]
        <4>1. parent[t] = None \/ \E k \in 1 .. Len(records) : k < i /\ records[k] = t
          BY DEF AInv, TurnInv
        <4> QED BY <1>2, <1>4, <3>2, <4>1
      <3> QED BY <3>1, <3>2
    <2>3. ASSUME NEW k \in 1 .. Len(records), k < i + 1,
                 NEW s \in Scopes, s = records[k], Around[s] # {}
          PROVE  Right(s)'
      <3>1. CASE k = i
        BY <1>6, <2>3, <3>1
      <3>2. CASE k # i
        <4>1. k < i /\ s # records[i]
          BY <1>2, <2>3, <3>2 DEF PInv, RecordInv
        <4>2. Right(s) /\ parent'[s] = parent[s]
          BY <1>4, <2>3, <4>1 DEF AInv, TurnInv
        <4> QED BY <1>1, <4>2 DEF Right, Concurrent
      <3> QED BY <3>1, <3>2
    <2>4. \A k \in 1 .. Len(records') :
            k < i' /\ Around[records'[k]] # {} => Right(records[k])'
      <3> SUFFICES ASSUME NEW k \in 1 .. Len(records), k < i + 1, Around[records[k]] # {}
                   PROVE  Right(records[k])'
        BY <1>1
      <3>1. PICK s \in Scopes : s = records[k]
        BY <1>2
      <3>2. Right(s)'
        BY <2>3, <3>1
      <3> QED BY <1>1, <3>1, <3>2 DEF Right, Concurrent
    <2> QED BY <1>1, <2>1, <2>2, <2>4 DEF TurnInv
  <1> QED BY <1>3, <1>7 DEF AInv

LEMMA NextAInv == PInv /\ AInv /\ [Next]_vars => AInv'
  <1> SUFFICES ASSUME PInv, AInv, [Next]_vars PROVE AInv'
    OBVIOUS
  <1>1. ASSUME UNCHANGED <<lifetimes, parent, i>>,
               pc' = pc \/ (pc' \in {"printing", "done"} /\ i > Len(records))
        PROVE  AInv'
    <2>1. UNCHANGED <<phase, clock, start, end, records, parent, i>>
      BY <1>1 DEF lifetimes
    <2>2. OrderInv'
      BY <2>1 DEF AInv, OrderInv
    <2>3. \A s : Right(s)' <=> Right(s)
      BY <2>1 DEF Right, Concurrent
    <2>4. TurnInv'
      BY <1>1, <2>1, <2>3 DEF AInv, TurnInv
    <2> QED BY <2>2, <2>4 DEF AInv
  <1>2. CASE BeginForest
    BY <1>1, <1>2 DEF BeginForest
  <1>3. CASE NextRoot \/ PrintRec \/ EndPrinting
    <2>1. pc = "printing" /\ pc' \in {"printing", "done"} /\ UNCHANGED <<lifetimes, parent, i>>
      BY <1>3 DEF NextRoot, PrintRec, EndPrinting
    <2>2. i > Len(records)
      BY <2>1 DEF AInv, TurnInv
    <2> QED BY <1>1, <2>1, <2>2
  <1>4. CASE UNCHANGED vars
    BY <1>1, <1>4 DEF vars
  <1> QED BY <1>2, <1>3, <1>4, ConstructAInv, RegisterAInv, StopAInv, BeginAInv, AdoptAInv
          DEF Next

(* On any schedule of the tasks and for any readings of the clock, the      *)
(* parents that the intervals give are those of the call tree, but for      *)
(* concurrent timers and for coincidences to the nanosecond.                *)
THEOREM ParentsFollowCalls == Spec => []Attribution
  <1>1. Init => AInv
    BY InitAInv
  <1>2. PInv /\ AInv => Attribution
    <2> SUFFICES ASSUME PInv, AInv, pc \in {"printing", "done"}, NEW s \in Scopes,
                        phase[s] = "stopped", Around[s] # {}
                 PROVE  Right(s)
      BY DEF Attribution, Right
    <2>1. PICK k \in 1 .. Len(records) : records[k] = s
      BY DEF PInv, RecordInv
    <2>2. k < i
      BY DEF AInv, TurnInv, PInv, Shapes
    <2> QED BY <2>1, <2>2 DEF AInv, TurnInv
  <1> QED BY <1>1, <1>2, Inductive, NextAInv, PTL DEF Spec

-----------------------------------------------------------------------------
(* The forest.  A record is among the children of its parent.               *)
ChildInv ==
  /\ children \in [Scopes -> SUBSET Scopes]
  /\ \A s, t \in Scopes : t \in children[s] <=> parent[t] = s
  /\ \A t \in Scopes : phase[t] = "idle" => parent[t] = None

(* The lines o that are printed, and after them those in w, which wait.     *)
Lines(o, w) == 1 .. Len(o) + Len(w)
Line(o, w, k) == IF k <= Len(o) THEN o[k] ELSE w[k - Len(o)]
Listed(o, w, s) == \E k \in Lines(o, w) : Line(o, w, k)[1] = s

(* A parent is printed above its child, with a smaller indent, and nothing  *)
(* between the two is indented less than the child.                         *)
Under(o, w, j, k) ==
  /\ j < k /\ j <= Len(o)
  /\ Line(o, w, j)[1] = parent[Line(o, w, k)[1]]
  /\ Line(o, w, j)[2] < Line(o, w, k)[2]
  /\ \A l \in Lines(o, w) : j < l /\ l < k => Line(o, w, k)[2] <= Line(o, w, l)[2]

Placed(o, w, k) ==
  \/ parent[Line(o, w, k)[1]] = None /\ Line(o, w, k)[2] = 0
  \/ \E j \in Lines(o, w) : Under(o, w, j, k)

(* Every line is another record's, and is placed; no root before r and no   *)
(* child of a printed record is forgotten.                                  *)
LineInv(o, w, r) ==
  /\ \A j, k \in Lines(o, w) : Line(o, w, j)[1] = Line(o, w, k)[1] => j = k
  /\ \A k \in Lines(o, w) : \E m \in 1 .. Len(records) :
       records[m] = Line(o, w, k)[1] /\ (parent[records[m]] = None => m < r)
  /\ \A m \in 1 .. Len(records) :
       m < r /\ parent[records[m]] = None => Listed(o, w, records[m])
  /\ \A j \in 1 .. Len(o) : \A c \in children[o[j][1]] : Listed(o, w, c)
  /\ \A k \in Lines(o, w) : Placed(o, w, k)

ForestInv ==
  /\ out \in Seq(Scopes \X Nat) /\ todo \in Seq(Scopes \X Nat) /\ root \in Nat \ {0}
  /\ pc \in {"running", "adopting"} => out = <<>> /\ todo = <<>> /\ root = 1
  /\ pc = "done" => todo = <<>> /\ root > Len(records)
  /\ LineInv(out, todo, root)

(* A timer without a parent that gets one.                                  *)
LEMMA GainsParent ==
  ASSUME PInv, ChildInv, NEW s \in Scopes, NEW p \in Scopes, parent[s] = None,
         parent' = [parent EXCEPT ![s] = p],
         children' = [children EXCEPT ![p] = @ \cup {s}]
  PROVE  /\ children' \in [Scopes -> SUBSET Scopes]
         /\ \A a, t \in Scopes : t \in children'[a] <=> parent'[t] = a
  <1>1. /\ children \in [Scopes -> SUBSET Scopes] /\ None \notin Scopes
        /\ parent \in [Scopes -> Scopes \cup {None}]
    BY ScopeAssumption DEF ChildInv, PInv, Shapes
  <1>2. children' \in [Scopes -> SUBSET Scopes]
    BY <1>1
  <1>3. ASSUME NEW a \in Scopes, NEW t \in Scopes
        PROVE  t \in children'[a] <=> parent'[t] = a
    <2>1. t \in children[a] <=> parent[t] = a
      BY DEF ChildInv
    <2>2. children'[a] = IF a = p THEN children[a] \cup {s} ELSE children[a]
      BY <1>1
    <2>3. parent'[t] = IF t = s THEN p ELSE parent[t]
      BY <1>1
    <2> QED BY <1>1, <2>1, <2>2, <2>3
  <1> QED BY <1>2, <1>3

LEMMA NextChildInv == PInv /\ ChildInv /\ [Next]_vars => ChildInv'
  <1> SUFFICES ASSUME PInv, ChildInv, [Next]_vars PROVE ChildInv'
    OBVIOUS
  <1>1. ASSUME UNCHANGED <<parent, children>>,
               \A t \in Scopes : phase'[t] = "idle" => phase[t] = "idle"
        PROVE  ChildInv'
    BY <1>1 DEF ChildInv
  <1>2. ASSUME NEW s \in Scopes, Construct(s)
        PROVE  ChildInv'
    <2>1. /\ phase[s] = "idle" /\ phase' = [phase EXCEPT ![s] = "constructing"]
          /\ phase \in [Scopes -> {"idle", "constructing", "running", "stopped"}]
          /\ parent \in [Scopes -> Scopes \cup {None}]
      BY <1>2 DEF Construct, PInv, Shapes
    <2>2. \A t \in Scopes : phase'[t] = "idle" => phase[t] = "idle" /\ t # s
      BY <2>1
    <2>3. CASE s \in Named
      <3>1. Enclosing(s) \in Scopes
        BY <2>3, EnclosingAround, AroundScopes
      <3>2. /\ parent' = [parent EXCEPT ![s] = Enclosing(s)]
            /\ children' = [children EXCEPT ![Enclosing(s)] = @ \cup {s}]
        BY <1>2, <2>3 DEF Construct
      <3>3. parent[s] = None
        BY <2>1 DEF ChildInv
      <3>4. /\ children' \in [Scopes -> SUBSET Scopes]
            /\ \A a, t \in Scopes : t \in children'[a] <=> parent'[t] = a
        BY <3>1, <3>2, <3>3, GainsParent
      <3>5. \A t \in Scopes : phase'[t] = "idle" => parent'[t] = None
        BY <2>1, <2>2, <3>2 DEF ChildInv
      <3> QED BY <3>4, <3>5 DEF ChildInv
    <2>4. CASE s \notin Named
      BY <1>1, <1>2, <2>2, <2>4 DEF Construct
    <2> QED BY <2>3, <2>4
  <1>3. ASSUME NEW s \in Scopes, Register(s) \/ Stop(s)
        PROVE  ChildInv'
    BY <1>1, <1>3 DEF Register, Stop, PInv, Shapes
  <1>4. CASE BeginPrinting
    BY <1>1, <1>4 DEF BeginPrinting, PInv, Shapes
  <1>5. CASE Adopt
    <2>1. CASE KeepsParent
      BY <1>1, <1>5, <2>1 DEF Adopt, lifetimes
    <2>2. CASE ~KeepsParent
      <3> DEFINE s == records[i]
                 p == NearestCover
      <3>1. /\ parent' = [parent EXCEPT ![s] = p] /\ parent[s] = None
            /\ children' = [children EXCEPT ![p] = @ \cup {s}]
            /\ phase' = phase /\ i <= Len(records) /\ i \in Nat \ {0}
        BY <1>5, <2>2 DEF Adopt, KeepsParent, lifetimes, PInv, Shapes
      <3>2. s \in Scopes /\ p \in Scopes
        <4>1. Covering \in SUBSET (1 .. i - 1) /\ i - 1 \in Nat /\ Covering # {}
          BY <2>2, <3>1 DEF Covering, KeepsParent
        <4>2. Max(Covering) \in 1 .. i - 1
          BY <4>1, MaxExists
        <4>3. records \in Seq(Scopes) /\ Max(Covering) \in 1 .. Len(records)
          BY <3>1, <4>1, <4>2 DEF PInv, Shapes
        <4>4. NearestCover \in Scopes
          BY <4>3 DEF NearestCover
        <4>5. records[i] \in Scopes
          BY <3>1, <4>3
        <4> QED BY <4>4, <4>5
      <3>3. phase[s] # "idle"
        BY <3>1 DEF PInv, RecordInv
      <3> HIDE DEF s, p
      <3>4. /\ children' \in [Scopes -> SUBSET Scopes]
            /\ \A a, t \in Scopes : t \in children'[a] <=> parent'[t] = a
        BY <3>1, <3>2, GainsParent
      <3>5. \A t \in Scopes : phase'[t] = "idle" => parent'[t] = None
        BY <3>1, <3>2, <3>3 DEF ChildInv, PInv, Shapes
      <3> QED BY <3>4, <3>5 DEF ChildInv
    <2> QED BY <2>1, <2>2
  <1>6. CASE BeginForest \/ NextRoot \/ PrintRec \/ EndPrinting
    BY <1>1, <1>6 DEF BeginForest, NextRoot, PrintRec, EndPrinting, lifetimes
  <1>7. CASE UNCHANGED vars
    BY <1>1, <1>7 DEF vars, lifetimes
  <1> QED BY <1>2, <1>3, <1>4, <1>5, <1>6, <1>7 DEF Next

-----------------------------------------------------------------------------
(* What a record's children are when they are printed: a sequence of them   *)
(* all, without repetition, of records that are in the vector.              *)
Enumerates(q, c, s) ==
  /\ \A k \in 1 .. c : q[k] \in children[s]
  /\ \A t \in children[s] : \E k \in 1 .. c : q[k] = t
  /\ \A j, k \in 1 .. c : q[j] = q[k] => j = k
  /\ \A t \in children[s] : parent[t] = s /\ \E m \in 1 .. Len(records) : records[m] = t

LEMMA ChildrenSequence ==
  ASSUME PInv, ChildInv, pc = "printing", NEW s \in Scopes, NEW q \in SortedChildren(s)
  PROVE  q \in Seq(Scopes) /\ Enumerates(q, Len(q), s)
  <1> DEFINE C == children[s]
             R == {records[m] : m \in 1 .. Len(records)}
             n == Cardinality(C)
  <1>1. /\ records \in Seq(Scopes) /\ Len(records) \in Nat /\ None \notin Scopes
        /\ C \subseteq Scopes
    BY ScopeAssumption DEF PInv, Shapes, ChildInv
  <1>2. ASSUME NEW t \in C
        PROVE  t \in Scopes /\ parent[t] = s /\ \E m \in 1 .. Len(records) : records[m] = t
    <2>1. t \in Scopes /\ parent[t] = s
      BY <1>1 DEF ChildInv
    <2>2. phase[t] = "stopped"
      BY <1>1, <2>1 DEF ChildInv, PInv, NestInv
    <2> QED BY <2>1, <2>2 DEF PInv, RecordInv
  <1>3. IsFiniteSet(C)
    <2> DEFINE f == [m \in 1 .. Len(records) |-> records[m]]
    <2>1. f \in Surjection(1 .. Len(records), R)
      BY DEF Surjection
    <2>2. IsFiniteSet(1 .. Len(records))
      BY <1>1, FS_Interval
    <2> HIDE DEF f, R
    <2>3. IsFiniteSet(R)
      BY <2>1, <2>2, FS_Surjection
    <2>4. C \in SUBSET R
      BY <1>2 DEF R
    <2> HIDE DEF C
    <2> QED BY <2>3, <2>4, FS_Subset
  <1> HIDE DEF C
  <1>4. n \in Nat
    BY <1>3, FS_CardinalityType
  <1>5. q \in [1 .. n -> C] /\ \A j, k \in 1 .. n : j # k => q[j] # q[k]
    BY DEF SortedChildren, SetToSeqs, C
  <1>6. q \in Injection(1 .. n, C) /\ IsFiniteSet(1 .. n) /\ Cardinality(1 .. n) = n
    <2> HIDE DEF n
    <2>1. Cardinality(1 .. n) = n
      BY <1>4, FS_Interval
    <2> QED BY <1>4, <1>5, <2>1, FS_Interval DEF Injection, IsInjective
  <1>7. q \in Surjection(1 .. n, C)
    BY <1>3, <1>6, FS_Injection
  <1> HIDE DEF n
  <1>8. q \in Seq(C) /\ Len(q) = n
    BY <1>4, <1>5
  <1>9. q \in Seq(Scopes)
    BY <1>1, <1>4, <1>5
  <1> QED BY <1>2, <1>5, <1>7, <1>8, <1>9 DEF Surjection, C, Enumerates

(* print_rec puts one line out, and the lines of the children in front of   *)
(* those that wait.                                                         *)
Shifted(n, m, c, o, w, o2, w2, q, d) ==
  /\ \A k \in 1 .. n + 1 : Line(o2, w2, k) = Line(o, w, k)
  /\ \A k \in 1 .. c : Line(o2, w2, n + 1 + k) = <<q[k], d>>
  /\ \A k \in n + 2 .. n + m : Line(o2, w2, k + c) = Line(o, w, k)

LEMMA LineShift ==
  ASSUME NEW n \in Nat, NEW m \in Nat \ {0}, NEW c \in Nat,
         NEW o, NEW w, NEW o2, NEW w2, NEW q, NEW d,
         Len(o) = n, Len(w) = m, Len(o2) = n + 1,
         o2[n + 1] = w[1], \A k \in 1 .. n : o2[k] = o[k],
         \A k \in 1 .. c : w2[k] = <<q[k], d>>,
         \A k \in 1 .. m - 1 : w2[c + k] = w[k + 1]
  PROVE  Shifted(n, m, c, o, w, o2, w2, q, d)
  <1>1. ASSUME NEW k \in 1 .. n + 1
        PROVE  Line(o2, w2, k) = Line(o, w, k)
    <2>1. CASE k = n + 1
      <3>1. Line(o2, w2, k) = o2[n + 1] /\ Line(o, w, k) = w[(n + 1) - n]
        BY <2>1 DEF Line
      <3>2. (n + 1) - n = 1
        OBVIOUS
      <3> QED BY <3>1, <3>2
    <2>2. CASE k \in 1 .. n
      BY <2>2 DEF Line
    <2> QED BY <2>1, <2>2
  <1>2. ASSUME NEW k \in 1 .. c
        PROVE  Line(o2, w2, n + 1 + k) = <<q[k], d>>
    <2>1. Line(o2, w2, n + 1 + k) = w2[(n + 1 + k) - (n + 1)]
      BY DEF Line
    <2>2. (n + 1 + k) - (n + 1) = k
      OBVIOUS
    <2> QED BY <2>1, <2>2
  <1>3. ASSUME NEW k \in n + 2 .. n + m
        PROVE  Line(o2, w2, k + c) = Line(o, w, k)
    <2>1. Line(o2, w2, k + c) = w2[(k + c) - (n + 1)] /\ Line(o, w, k) = w[k - n]
      BY DEF Line
    <2>2. k - n - 1 \in 1 .. m - 1
      OBVIOUS
    <2>3. w2[c + (k - n - 1)] = w[(k - n - 1) + 1]
      BY <2>2
    <2>4. (k + c) - (n + 1) = c + (k - n - 1) /\ (k - n - 1) + 1 = k - n
      OBVIOUS
    <2> QED BY <2>1, <2>3, <2>4
  <1> QED BY <1>1, <1>2, <1>3 DEF Shifted

(* The new sequences, element by element.                                   *)
Inserts(T, o, w, o2, w2, q, d) ==
  /\ o2 \in Seq(T) /\ w2 \in Seq(T)
  /\ Len(o2) = Len(o) + 1 /\ Len(w2) = Len(q) + (Len(w) - 1)
  /\ o2[Len(o) + 1] = w[1] /\ \A k \in 1 .. Len(o) : o2[k] = o[k]
  /\ \A k \in 1 .. Len(q) : w2[k] = <<q[k], d>>
  /\ \A k \in 1 .. Len(w) - 1 : w2[Len(q) + k] = w[k + 1]

LEMMA InsertLines ==
  ASSUME NEW T, NEW o \in Seq(T), NEW w \in Seq(T), w # <<>>,
         NEW q, NEW d, NEW u \in Seq(T), u = Indented(q, d), Len(q) \in Nat,
         NEW o2, NEW w2, o2 = Append(o, Head(w)), w2 = u \o Tail(w)
  PROVE  Inserts(T, o, w, o2, w2, q, d)
  <1>1. Len(o) \in Nat /\ Len(w) \in Nat \ {0} /\ Head(w) = w[1] /\ Head(w) \in T
    OBVIOUS
  <1>2. /\ Tail(w) \in Seq(T) /\ Len(Tail(w)) = Len(w) - 1
        /\ \A k \in 1 .. Len(w) - 1 : Tail(w)[k] = w[k + 1]
    BY HeadTailProperties
  <1>3. Len(u) = Len(q) /\ \A k \in 1 .. Len(q) : u[k] = <<q[k], d>>
    BY DEF Indented
  <1>4. /\ u \o Tail(w) \in Seq(T) /\ Len(u \o Tail(w)) = Len(u) + Len(Tail(w))
        /\ \A k \in 1 .. Len(u) + Len(Tail(w)) :
             (u \o Tail(w))[k] = IF k <= Len(u) THEN u[k] ELSE Tail(w)[k - Len(u)]
    BY <1>2, ConcatProperties
  <1>5. /\ Append(o, Head(w)) \in Seq(T)
        /\ Len(Append(o, Head(w))) = Len(o) + 1
        /\ \A k \in 1 .. Len(o) : Append(o, Head(w))[k] = o[k]
        /\ Append(o, Head(w))[Len(o) + 1] = Head(w)
    BY <1>1, AppendProperties
  <1> DEFINE z == u \o Tail(w)
             v == Tail(w)
  <1>6. \A k \in 1 .. Len(q) : z[k] = <<q[k], d>>
    <2> HIDE DEF z, v
    <2>1. \A k \in 1 .. Len(q) : k \in 1 .. Len(u) + Len(Tail(w)) /\ k <= Len(u)
      BY <1>1, <1>2, <1>3
    <2> QED BY <1>3, <1>4, <2>1 DEF z
  <1>7. ASSUME NEW k \in 1 .. Len(w) - 1
        PROVE  z[Len(q) + k] = w[k + 1]
    <2> HIDE DEF z
    <2>1. /\ Len(q) + k \in 1 .. Len(u) + Len(Tail(w)) /\ ~(Len(q) + k <= Len(u))
          /\ (Len(q) + k) - Len(u) = k
      BY <1>1, <1>2, <1>3
    <2> QED BY <1>2, <1>4, <2>1 DEF z
  <1>8. Len(w2) = Len(q) + (Len(w) - 1)
    BY <1>2, <1>3, <1>4
  <1> QED BY <1>1, <1>4, <1>5, <1>6, <1>7, <1>8 DEF Inserts

(* A step of print_rec, from the lines o and w to the lines o2 and w2: it   *)
(* prints h, whose children are q.                                          *)
PrintsLine(n, m, c, o, w, o2, w2, q, h, d) ==
  /\ n \in Nat /\ m \in Nat \ {0} /\ c \in Nat
  /\ Len(o) = n /\ Len(w) = m /\ Len(o2) = n + 1 /\ Len(w2) = c + (m - 1)
  /\ Shifted(n, m, c, o, w, o2, w2, q, d) /\ Enumerates(q, c, h[1])
  /\ \A k \in Lines(o, w) : Line(o, w, k)[2] \in Nat
  /\ h = Line(o, w, n + 1) /\ d = h[2] + 1 /\ h[1] # None

LEMMA InsertKeepsLines ==
  ASSUME NEW n, NEW m, NEW c, NEW o, NEW w, NEW o2, NEW w2, NEW q, NEW h, NEW d, NEW r,
         PrintsLine(n, m, c, o, w, o2, w2, q, h, d), LineInv(o, w, r)
  PROVE  LineInv(o2, w2, r)
  <1> SUFFICES
        ASSUME n \in Nat, m \in Nat \ {0}, c \in Nat,
               Len(o) = n, Len(w) = m, Len(o2) = n + 1, Len(w2) = c + (m - 1),
               Shifted(n, m, c, o, w, o2, w2, q, d), Enumerates(q, c, h[1]),
               \A k \in Lines(o, w) : Line(o, w, k)[2] \in Nat,
               h = Line(o, w, n + 1), d = h[2] + 1, h[1] # None
        PROVE  LineInv(o2, w2, r)
    BY DEF PrintsLine
  <1>1. Lines(o, w) = 1 .. n + m /\ Lines(o2, w2) = 1 .. n + m + c /\ h[2] \in Nat /\ d \in Nat
    BY DEF Lines
  <1>2. /\ \A j, k \in Lines(o, w) : Line(o, w, j)[1] = Line(o, w, k)[1] => j = k
        /\ \A k \in Lines(o, w) : Placed(o, w, k)
    BY DEF LineInv
  (* The children of h are not among the lines yet.                         *)
  <1>3. ASSUME NEW t \in children[h[1]] PROVE ~Listed(o, w, t)
    <2> SUFFICES ASSUME NEW k \in Lines(o, w), Line(o, w, k)[1] = t PROVE FALSE
      BY DEF Listed
    <2>1. parent[Line(o, w, k)[1]] = h[1]
      BY DEF Enumerates
    <2>2. PICK j \in Lines(o, w) : Under(o, w, j, k)
      BY <1>2, <2>1 DEF Placed
    <2>3. j <= n /\ Line(o, w, j)[1] = Line(o, w, n + 1)[1]
      BY <2>1, <2>2 DEF Under
    <2>4. n + 1 \in Lines(o, w)
      BY <1>1
    <2>5. j = n + 1
      BY <1>2, <2>3, <2>4
    <2> QED BY <2>3, <2>5
  (* A line is where it was, or a child's, or has moved down.               *)
  <1> DEFINE Above(k) == k \in 1 .. n + 1
             Fresh(k) == k - n - 1 \in 1 .. c
             Below(k) == k - c \in n + 2 .. n + m
  <1>4. ASSUME NEW k \in Lines(o2, w2)
        PROVE  /\ Above(k) \/ Fresh(k) \/ Below(k)
               /\ Above(k) => k \in Lines(o, w) /\ Line(o2, w2, k) = Line(o, w, k)
               /\ Fresh(k) => Line(o2, w2, k) = <<q[k - n - 1], d>>
               /\ Below(k) => k - c \in Lines(o, w) /\ Line(o2, w2, k) = Line(o, w, k - c)
    <2>1. k \in Int /\ (Above(k) \/ Fresh(k) \/ Below(k))
      <3>1. k \in Int /\ 1 <= k /\ k <= n + m + c
        BY <1>1
      <3>2. k <= n + 1 => Above(k)
        BY <3>1
      <3>3. ~(k <= n + 1) /\ k <= n + 1 + c => Fresh(k)
        BY <3>1
      <3>4. ~(k <= n + 1 + c) => Below(k)
        BY <3>1
      <3> QED BY <3>1, <3>2, <3>3, <3>4
    <2>2. ASSUME Above(k)
          PROVE  k \in Lines(o, w) /\ Line(o2, w2, k) = Line(o, w, k)
      BY <1>1, <2>2 DEF Shifted
    <2>3. ASSUME Fresh(k)
          PROVE  Line(o2, w2, k) = <<q[k - n - 1], d>>
      <3>1. n + 1 + (k - n - 1) = k
        BY <2>1
      <3> QED BY <2>3, <3>1 DEF Shifted
    <2>4. ASSUME Below(k)
          PROVE  k - c \in Lines(o, w) /\ Line(o2, w2, k) = Line(o, w, k - c)
      <3>1. (k - c) + c = k
        BY <2>1
      <3>2. k - c \in Lines(o, w)
        BY <1>1, <2>4
      <3> QED BY <2>4, <3>1, <3>2 DEF Shifted
    <2> QED BY <2>1, <2>2, <2>3, <2>4
  <1> HIDE DEF Above, Fresh, Below
  <1>a. ASSUME NEW k \in Lines(o2, w2), Fresh(k)
        PROVE  /\ Line(o2, w2, k)[1] = q[k - n - 1] /\ Line(o2, w2, k)[2] = d
               /\ q[k - n - 1] \in children[h[1]]
    <2>1. Line(o2, w2, k) = <<q[k - n - 1], d>>
      BY <1>4, <1>a
    <2>2. k - n - 1 \in 1 .. c
      BY <1>a DEF Fresh
    <2> DEFINE b == k - n - 1
    <2>3. q[b] \in children[h[1]]
      BY <2>2 DEF Enumerates
    <2> HIDE DEF b
    <2>4. <<q[b], d>>[1] = q[b] /\ <<q[b], d>>[2] = d
      OBVIOUS
    <2> QED BY <2>1, <2>3, <2>4 DEF b
  <1>5. \A s : Listed(o, w, s) => Listed(o2, w2, s)
    <2> SUFFICES ASSUME NEW k \in Lines(o, w)
                 PROVE  \E l \in Lines(o2, w2) : Line(o2, w2, l) = Line(o, w, k)
      BY DEF Listed
    <2>1. CASE k <= n + 1
      <3>1. k \in Lines(o2, w2) /\ k \in 1 .. n + 1
        BY <1>1, <2>1
      <3> QED BY <3>1 DEF Shifted
    <2>2. CASE ~(k <= n + 1)
      <3>0. k \in Int /\ 1 <= k /\ k <= n + m /\ n + 2 <= k
        BY <1>1, <2>2
      <3>1. k + c \in Lines(o2, w2) /\ k \in n + 2 .. n + m
        <4>1. k \in n + 2 .. n + m
          BY <3>0
        <4>2. k + c \in 1 .. n + m + c
          BY <3>0
        <4> QED BY <1>1, <4>1, <4>2
      <3> QED BY <3>1 DEF Shifted
    <2> QED BY <2>1, <2>2
  <1>6. \A t \in children[h[1]] : Listed(o2, w2, t)
    <2> SUFFICES ASSUME NEW t \in children[h[1]] PROVE Listed(o2, w2, t)
      OBVIOUS
    <2>1. PICK k \in 1 .. c : q[k] = t
      BY DEF Enumerates
    <2>2. n + 1 + k \in Lines(o2, w2)
      BY <1>1
    <2>3. Line(o2, w2, n + 1 + k) = <<q[k], d>>
      BY DEF Shifted
    <2>4. Line(o2, w2, n + 1 + k)[1] = t
      BY <2>1, <2>3
    <2> QED BY <2>2, <2>4 DEF Listed
  <1>7. ASSUME NEW j \in Lines(o2, w2), NEW k \in Lines(o2, w2),
               Line(o2, w2, j)[1] = Line(o2, w2, k)[1]
        PROVE  j = k
    <2>1. ASSUME NEW a \in Lines(o2, w2), NEW b \in Lines(o2, w2), Fresh(a), ~Fresh(b)
          PROVE  Line(o2, w2, a)[1] # Line(o2, w2, b)[1]
      <3>1. Line(o2, w2, a)[1] \in children[h[1]]
        BY <1>a, <2>1
      <3>2. Listed(o, w, Line(o2, w2, b)[1])
        BY <1>4, <2>1 DEF Listed
      <3> QED BY <1>3, <3>1, <3>2
    <2>2. CASE Fresh(j) /\ Fresh(k)
      <3>1. q[j - n - 1] = q[k - n - 1]
        BY <1>a, <1>7, <2>2
      <3>2. j - n - 1 = k - n - 1
        BY <2>2, <3>1 DEF Fresh, Enumerates
      <3> QED BY <1>1, <3>2
    <2>3. CASE ~Fresh(j) /\ ~Fresh(k)
      <3>1. CASE Above(j) /\ Above(k)
        BY <1>2, <1>4, <1>7, <3>1
      <3>2. CASE Below(j) /\ Below(k)
        <4>1. j - c = k - c
          BY <1>2, <1>4, <1>7, <3>2
        <4> QED BY <1>1, <4>1
      <3>3. CASE Above(j) /\ Below(k)
        <4>1. j = k - c
          BY <1>2, <1>4, <1>7, <3>3
        <4> QED BY <3>3, <4>1 DEF Above, Below
      <3>4. CASE Below(j) /\ Above(k)
        <4>1. j - c = k
          BY <1>2, <1>4, <1>7, <3>4
        <4> QED BY <3>4, <4>1 DEF Above, Below
      <3> QED BY <1>4, <2>3, <3>1, <3>2, <3>3, <3>4
    <2> QED BY <1>7, <2>1, <2>2, <2>3
  <1>8. ASSUME NEW k \in Lines(o2, w2)
        PROVE  \E a \in 1 .. Len(records) :
                 records[a] = Line(o2, w2, k)[1] /\ (parent[records[a]] = None => a < r)
    <2>1. \A l \in Lines(o, w) : \E a \in 1 .. Len(records) :
            records[a] = Line(o, w, l)[1] /\ (parent[records[a]] = None => a < r)
      BY DEF LineInv
    <2>2. CASE Fresh(k)
      <3> DEFINE t == Line(o2, w2, k)[1]
      <3>1. t \in children[h[1]] /\ h[1] # None
        BY <1>a, <2>2
      <3> HIDE DEF t
      <3>2. parent[t] # None /\ \E a \in 1 .. Len(records) : records[a] = t
        BY <3>1 DEF Enumerates
      <3> QED BY <3>2 DEF t
    <2>3. CASE Above(k)
      BY <1>4, <2>1, <2>3
    <2>4. CASE Below(k)
      BY <1>4, <2>1, <2>4
    <2> QED BY <1>4, <2>2, <2>3, <2>4
  <1>9. ASSUME NEW j \in 1 .. Len(o2), NEW t \in children[o2[j][1]]
        PROVE  Listed(o2, w2, t)
    <2>1. j \in 1 .. n + 1 /\ o2[j] = Line(o2, w2, j) /\ o2[j] = Line(o, w, j)
      BY DEF Line, Shifted
    <2>2. CASE j = n + 1
      BY <1>6, <2>1, <2>2
    <2>3. CASE j \in 1 .. n
      <3>1. o2[j] = o[j]
        BY <2>1, <2>3 DEF Line
      <3>2. Listed(o, w, t)
        BY <2>3, <3>1 DEF LineInv
      <3> QED BY <1>5, <3>2
    <2> QED BY <2>1, <2>2, <2>3
  <1>10. \A k \in Lines(o2, w2) : Placed(o2, w2, k)
    <2> SUFFICES ASSUME NEW k \in Lines(o2, w2) PROVE Placed(o2, w2, k)
      OBVIOUS
    <2>1. CASE Fresh(k)
      <3>1. /\ n + 1 \in Lines(o2, w2) /\ n + 1 < k /\ n + 1 <= Len(o2)
            /\ Line(o2, w2, n + 1) = h
        BY <1>1, <2>1 DEF Fresh, Shifted
      <3>2. parent[Line(o2, w2, k)[1]] = h[1] /\ Line(o2, w2, k)[2] = d /\ h[2] < d
        <4>1. Line(o2, w2, k)[1] \in children[h[1]] /\ Line(o2, w2, k)[2] = d
          BY <1>a, <2>1
        <4>2. h[2] < d
          BY <1>1
        <4> QED BY <4>1, <4>2 DEF Enumerates
      <3>3. ASSUME NEW l \in Lines(o2, w2), n + 1 < l, l < k
            PROVE  d <= Line(o2, w2, l)[2]
        <4>1. l \in Int /\ k \in Int /\ k <= n + 1 + c
          BY <1>1, <2>1 DEF Fresh
        <4>2. Fresh(l)
          BY <3>3, <4>1 DEF Fresh
        <4>3. Line(o2, w2, l)[2] = d
          BY <1>a, <4>2
        <4>4. d <= d
          BY <1>1
        <4> QED BY <4>3, <4>4
      <3>4. Under(o2, w2, n + 1, k)
        BY <3>1, <3>2, <3>3 DEF Under
      <3> QED BY <3>1, <3>4 DEF Placed
    <2>2. CASE Above(k)
      <3>1. k \in Lines(o, w) /\ Line(o2, w2, k) = Line(o, w, k) /\ Placed(o, w, k)
        BY <1>2, <1>4, <2>2
      <3>2. ASSUME NEW j \in Lines(o, w), Under(o, w, j, k)
            PROVE  j \in Lines(o2, w2) /\ Under(o2, w2, j, k)
        <4>1. /\ j \in Lines(o2, w2) /\ Above(j) /\ j < k /\ j <= Len(o2)
              /\ Line(o2, w2, j) = Line(o, w, j)
          BY <1>1, <2>2, <3>2 DEF Above, Under, Shifted
        <4>2. ASSUME NEW l \in Lines(o2, w2), j < l, l < k
              PROVE  Line(o2, w2, k)[2] <= Line(o2, w2, l)[2]
          <5>1. Above(l) /\ l \in Lines(o, w)
            BY <1>1, <2>2, <4>2 DEF Above
          <5>2. Line(o2, w2, l) = Line(o, w, l)
            BY <1>4, <5>1
          <5> QED BY <3>1, <3>2, <4>2, <5>1, <5>2 DEF Under
        <4> QED BY <3>1, <3>2, <4>1, <4>2 DEF Under
      <3> QED BY <3>1, <3>2 DEF Placed
    <2>3. CASE Below(k)
      <3> DEFINE b == k - c
      <3>1. /\ b \in Lines(o, w) /\ Line(o2, w2, k) = Line(o, w, b) /\ Placed(o, w, b)
            /\ n + 1 < b /\ k = b + c
        <4>1. k - c \in n + 2 .. n + m /\ k \in Int
          BY <1>1, <2>3 DEF Below
        <4>2. b \in Lines(o, w) /\ Line(o2, w2, k) = Line(o, w, b)
          BY <1>4, <2>3
        <4>3. n + 1 < b /\ k = b + c
          BY <4>1
        <4> QED BY <1>2, <4>2, <4>3
      <3> HIDE DEF b
      <3>2. ASSUME NEW j \in Lines(o, w), Under(o, w, j, b)
            PROVE  j \in Lines(o2, w2) /\ Under(o2, w2, j, k)
        <4>1. /\ j \in Lines(o2, w2) /\ Above(j) /\ j < k /\ j <= n /\ j <= Len(o2)
              /\ Line(o2, w2, j) = Line(o, w, j)
          BY <1>1, <3>1, <3>2 DEF Above, Under, Shifted
        <4>2. \A l \in Lines(o, w) : j < l /\ l < b => Line(o, w, b)[2] <= Line(o, w, l)[2]
          BY <3>2 DEF Under
        <4>3. Line(o, w, b)[2] <= h[2] /\ Line(o, w, b)[2] \in Nat
          BY <1>1, <3>1, <4>1, <4>2
        <4>4. ASSUME NEW l \in Lines(o2, w2), j < l, l < k
              PROVE  Line(o, w, b)[2] <= Line(o2, w2, l)[2]
          <5>1. CASE Above(l)
            <6>1. l \in Lines(o, w) /\ Line(o2, w2, l) = Line(o, w, l)
              BY <1>4, <5>1
            <6>2. l \in Int /\ l <= n + 1 /\ b \in Int
              BY <1>1, <3>1, <5>1 DEF Above
            <6>3. l < b
              BY <3>1, <6>2
            <6> QED BY <4>2, <4>4, <6>1, <6>3
          <5>2. CASE Fresh(l)
            <6>1. Line(o2, w2, l)[2] = d
              BY <1>a, <5>2
            <6> DEFINE z == Line(o, w, b)[2]
            <6>0. z \in Nat /\ z <= h[2] /\ h[2] \in Nat
              BY <1>1, <4>3
            <6> HIDE DEF z
            <6>3. z <= d
              BY <6>0
            <6>2. Line(o, w, b)[2] <= d
              BY <6>3 DEF z
            <6> QED BY <6>1, <6>2
          <5>3. CASE Below(l)
            <6>1. l - c \in Lines(o, w) /\ Line(o2, w2, l) = Line(o, w, l - c)
              BY <1>4, <5>3
            <6>2. j < l - c /\ l - c < b
              BY <1>1, <3>1, <4>1, <4>4, <5>3 DEF Below
            <6> QED BY <4>2, <6>1, <6>2
          <5> QED BY <1>4, <5>1, <5>2, <5>3
        <4> QED BY <3>1, <3>2, <4>1, <4>4 DEF Under
      <3> QED BY <3>1, <3>2 DEF Placed
    <2> QED BY <1>4, <2>1, <2>2, <2>3
  <1> QED BY <1>5, <1>7, <1>8, <1>9, <1>10 DEF LineInv

(* The next record is listed if it has no parent.                           *)
LEMMA RootKeepsLines ==
  ASSUME PInv, NEW o \in Seq(Scopes \X Nat), NEW r \in Nat \ {0}, r <= Len(records),
         LineInv(o, <<>>, r), NEW w,
         w = IF parent[records[r]] = None THEN <<<<records[r], 0>>>> ELSE <<>>
  PROVE  LineInv(o, w, r + 1)
  <1> DEFINE n == Len(o)
  <1>1. n \in Nat /\ Len(records) \in Nat /\ r \in 1 .. Len(records) /\ Lines(o, <<>>) = 1 .. n
    BY DEF PInv, Shapes, Lines
  <1>2. /\ \A j, k \in 1 .. n : Line(o, <<>>, j)[1] = Line(o, <<>>, k)[1] => j = k
        /\ \A k \in 1 .. n : \E m \in 1 .. Len(records) :
             records[m] = Line(o, <<>>, k)[1] /\ (parent[records[m]] = None => m < r)
        /\ \A m \in 1 .. Len(records) :
             m < r /\ parent[records[m]] = None => Listed(o, <<>>, records[m])
        /\ \A j \in 1 .. Len(o) : \A c \in children[o[j][1]] : Listed(o, <<>>, c)
        /\ \A k \in 1 .. n : Placed(o, <<>>, k)
    BY <1>1 DEF LineInv
  <1>3. \A m \in 1 .. Len(records) :
          m \in Nat /\ (m < r => m < r + 1) /\ (m < r + 1 => m < r \/ m = r)
    BY <1>1
  <1> HIDE DEF n
  <1>4. CASE parent[records[r]] # None
    <2>1. w = <<>>
      BY <1>4
    <2>2. \A k \in 1 .. n : \E m \in 1 .. Len(records) :
            records[m] = Line(o, <<>>, k)[1] /\ (parent[records[m]] = None => m < r + 1)
      BY <1>2, <1>3
    <2>3. \A m \in 1 .. Len(records) :
            m < r + 1 /\ parent[records[m]] = None => Listed(o, <<>>, records[m])
      BY <1>2, <1>3, <1>4
    <2> QED BY <1>1, <1>2, <2>1, <2>2, <2>3 DEF LineInv
  <1>5. CASE parent[records[r]] = None
    <2>1. w = <<<<records[r], 0>>>> /\ Len(w) = 1 /\ w[1] = <<records[r], 0>>
      BY <1>5
    <2>2. Lines(o, w) = 1 .. n + 1
      BY <1>1, <2>1 DEF Lines, n
    <2>3. \A k \in 1 .. n : k \in Lines(o, w) /\ Line(o, w, k) = Line(o, <<>>, k)
      BY <1>1, <2>2 DEF Line, n
    <2>4. Line(o, w, n + 1) = <<records[r], 0>>
      <3>1. Line(o, w, n + 1) = w[(n + 1) - n]
        BY <1>1 DEF Line, n
      <3>2. (n + 1) - n = 1
        BY <1>1
      <3> QED BY <2>1, <3>1, <3>2
    <2>5. Line(o, w, n + 1)[1] = records[r] /\ Line(o, w, n + 1)[2] = 0
      BY <2>4
    <2> HIDE DEF Line
    <2>6. \A k \in 1 .. n : Line(o, w, k)[1] # records[r]
      <3> SUFFICES ASSUME NEW k \in 1 .. n, Line(o, w, k)[1] = records[r] PROVE FALSE
        OBVIOUS
      <3>1. PICK m \in 1 .. Len(records) :
              records[m] = records[r] /\ (parent[records[m]] = None => m < r)
        BY <1>2, <2>3
      <3>2. m = r
        BY <1>1, <3>1 DEF PInv, RecordInv
      <3> QED BY <1>1, <1>5, <3>1, <3>2
    <2>7. \A k \in Lines(o, w) : k \in 1 .. n \/ k = n + 1
      BY <1>1, <2>2
    <2>8. \A j, k \in Lines(o, w) : Line(o, w, j)[1] = Line(o, w, k)[1] => j = k
      <3> SUFFICES ASSUME NEW j \in Lines(o, w), NEW k \in Lines(o, w),
                          Line(o, w, j)[1] = Line(o, w, k)[1]
                   PROVE  j = k
        OBVIOUS
      <3>1. CASE j \in 1 .. n /\ k \in 1 .. n
        BY <1>2, <2>3, <3>1
      <3>2. CASE j = n + 1 \/ k = n + 1
        BY <2>5, <2>6, <2>7, <3>2
      <3> QED BY <2>7, <3>1, <3>2
    <2>9. \A s : Listed(o, <<>>, s) \/ s = records[r] => Listed(o, w, s)
      <3>1. n + 1 \in Lines(o, w)
        BY <1>1, <2>2
      <3> QED BY <1>1, <2>3, <2>5, <3>1 DEF Listed
    <2>10. \A k \in Lines(o, w) : \E m \in 1 .. Len(records) :
             records[m] = Line(o, w, k)[1] /\ (parent[records[m]] = None => m < r + 1)
      <3> SUFFICES ASSUME NEW k \in Lines(o, w)
                   PROVE  \E m \in 1 .. Len(records) :
                            records[m] = Line(o, w, k)[1] /\ (parent[records[m]] = None => m < r + 1)
        OBVIOUS
      <3>1. CASE k = n + 1
        <4>1. r < r + 1
          OBVIOUS
        <4> QED BY <1>1, <2>5, <3>1, <4>1
      <3>2. CASE k \in 1 .. n
        BY <1>2, <1>3, <2>3, <3>2
      <3> QED BY <2>7, <3>1, <3>2
    <2>11. \A m \in 1 .. Len(records) :
             m < r + 1 /\ parent[records[m]] = None => Listed(o, w, records[m])
      BY <1>2, <1>3, <2>9
    <2>12. \A j \in 1 .. Len(o) : \A c \in children[o[j][1]] : Listed(o, w, c)
      BY <1>2, <2>9
    <2>13. ASSUME NEW k \in Lines(o, w) PROVE Placed(o, w, k)
      <3>1. CASE k = n + 1
        BY <1>5, <2>5, <3>1 DEF Placed
      <3>2. CASE k \in 1 .. n
        <4>1. ASSUME NEW j \in 1 .. n, Under(o, <<>>, j, k) PROVE Under(o, w, j, k)
          <5>1. ASSUME NEW l \in Lines(o, w), j < l, l < k
                PROVE  Line(o, w, k)[2] <= Line(o, w, l)[2]
            <6>1. l \in 1 .. n
              BY <1>1, <2>2, <3>2, <5>1
            <6> QED BY <1>1, <2>3, <3>2, <4>1, <5>1, <6>1 DEF Under
          <5> QED BY <2>3, <3>2, <4>1, <5>1 DEF Under
        <4>2. Placed(o, <<>>, k)
          BY <1>2, <3>2
        <4> QED BY <1>1, <2>3, <3>2, <4>1, <4>2 DEF Placed
      <3> QED BY <2>7, <3>1, <3>2
    <2> QED BY <2>8, <2>10, <2>11, <2>12, <2>13 DEF LineInv
  <1> QED BY <1>4, <1>5

(* What the lines are does not change while they are printed.               *)
LEMMA LinesAfter ==
  ASSUME NEW o, NEW w, NEW r, o = out', w = todo', r = root',
         UNCHANGED <<records, parent, children>>, LineInv(o, w, r)
  PROVE  LineInv(out, todo, root)'
  BY DEF LineInv, Listed, Placed, Under

(* Nothing is printed before every record has looked for a parent.          *)
LEMMA NoLinesYet ==
  ASSUME PInv, NEW o, NEW w, NEW r, o = <<>>, w = <<>>, r = 1
  PROVE  LineInv(o, w, r)
  <1>1. Lines(o, w) = {} /\ 1 .. Len(o) = {}
    BY DEF Lines
  <1>2. \A m \in 1 .. Len(records) : ~(m < r)
    BY DEF PInv, Shapes
  <1> QED BY <1>1, <1>2 DEF LineInv

LEMMA InitForestInv == Init => ForestInv
  <1> SUFFICES ASSUME Init PROVE ForestInv
    OBVIOUS
  <1>1. PInv
    BY InitPInv
  <1>2. LineInv(out, todo, root)
    BY <1>1, NoLinesYet DEF Init
  <1> QED BY <1>2 DEF ForestInv, Init

LEMMA BeforeForest ==
  ASSUME PInv', ForestInv, pc \in {"running", "adopting"},
         pc' \in {"running", "adopting", "printing"}, UNCHANGED <<root, todo, out>>
  PROVE  ForestInv'
  <1>1. out' = <<>> /\ todo' = <<>> /\ root' = 1
    BY DEF ForestInv
  <1>2. Lines(out', todo') = {} /\ 1 .. Len(out') = {}
    BY <1>1 DEF Lines
  <1>3. \A m \in 1 .. Len(records') : ~(m < root')
    BY <1>1 DEF PInv, Shapes
  <1>4. LineInv(out, todo, root)'
    BY <1>2, <1>3 DEF LineInv
  <1> QED BY <1>1, <1>4 DEF ForestInv

LEMMA RootStep ==
  ASSUME PInv, ForestInv, NextRoot
  PROVE  ForestInv'
  <1>1. /\ out \in Seq(Scopes \X Nat) /\ root \in Nat \ {0} /\ root <= Len(records)
        /\ todo = <<>> /\ LineInv(out, todo, root) /\ records \in Seq(Scopes)
    BY DEF ForestInv, NextRoot, PInv, Shapes
  <1>2. PICK o, w, r : o = out /\ r = root /\ w = todo'
    OBVIOUS
  <1>3. LineInv(o, <<>>, r)
    BY <1>1, <1>2
  <1>4. LineInv(o, w, r + 1)
    BY <1>1, <1>2, <1>3, RootKeepsLines DEF NextRoot
  <1>5. PICK s : s = r + 1
    OBVIOUS
  <1>6. LineInv(out, todo, root)'
    <2>1. o = out' /\ w = todo' /\ s = root' /\ UNCHANGED <<records, parent, children>>
      BY <1>2, <1>5 DEF NextRoot, lifetimes
    <2>2. LineInv(o, w, s)
      BY <1>4, <1>5
    <2> QED BY <2>1, <2>2, LinesAfter
  <1>7. todo' \in Seq(Scopes \X Nat)
    <2>1. records[root] \in Scopes
      BY <1>1
    <2>2. <<records[root], 0>> \in Scopes \X Nat
      BY <2>1
    <2>3. <<<<records[root], 0>>>> \in Seq(Scopes \X Nat) /\ <<>> \in Seq(Scopes \X Nat)
      BY <2>2
    <2> QED BY <2>3 DEF NextRoot
  <1> QED BY <1>1, <1>6, <1>7 DEF ForestInv, NextRoot

LEMMA PrintStep ==
  ASSUME PInv, ChildInv, ForestInv, PrintRec
  PROVE  ForestInv'
  <1> DEFINE T == Scopes \X Nat
  <1>1. out \in Seq(T) /\ todo \in Seq(T) /\ todo # <<>> /\ pc = "printing"
    BY DEF ForestInv, PrintRec
  <1>2. PICK o, w, o2, w2, r : o = out /\ w = todo /\ o2 = out' /\ w2 = todo' /\ r = root
    OBVIOUS
  <1>3. o \in Seq(T) /\ w \in Seq(T) /\ w # <<>> /\ LineInv(o, w, r)
    BY <1>1, <1>2 DEF ForestInv
  <1>4. PICK h : h = Head(w)
    OBVIOUS
  <1>5. h \in T /\ Len(o) \in Nat /\ Len(w) \in Nat \ {0} /\ h = w[1]
    BY <1>3, <1>4
  <1>6. h[1] \in Scopes /\ h[2] \in Nat
    BY <1>5
  <1>7. PICK q \in SortedChildren(h[1]) : todo' = Indented(q, h[2] + 1) \o Tail(todo)
    BY <1>2, <1>4 DEF PrintRec
  <1>8. q \in Seq(Scopes) /\ Enumerates(q, Len(q), h[1])
    BY <1>1, <1>6, ChildrenSequence
  <1>9. PICK u : u = Indented(q, h[2] + 1)
    OBVIOUS
  <1>10. Len(q) \in Nat /\ u \in Seq(T)
    <2>1. Len(q) \in Nat /\ \A k \in 1 .. Len(q) : <<q[k], h[2] + 1>> \in T
      BY <1>6, <1>8
    <2> HIDE DEF T
    <2> QED BY <1>9, <2>1 DEF Indented
  <1>11. o2 = Append(o, Head(w)) /\ w2 = u \o Tail(w)
    BY <1>2, <1>7, <1>9 DEF PrintRec
  <1> HIDE DEF T
  <1>12. PICK d : d = h[2] + 1
    OBVIOUS
  <1>13. /\ o2 \in Seq(T) /\ w2 \in Seq(T)
         /\ Len(o2) = Len(o) + 1 /\ Len(w2) = Len(q) + (Len(w) - 1)
         /\ o2[Len(o) + 1] = w[1] /\ \A k \in 1 .. Len(o) : o2[k] = o[k]
         /\ \A k \in 1 .. Len(q) : w2[k] = <<q[k], d>>
         /\ \A k \in 1 .. Len(w) - 1 : w2[Len(q) + k] = w[k + 1]
    <2>1. o \in Seq(T) /\ w \in Seq(T) /\ w # <<>> /\ u = Indented(q, d)
      BY <1>3, <1>9, <1>12
    <2>2. Inserts(T, o, w, o2, w2, q, d)
      BY <1>10, <1>11, <2>1, InsertLines
    <2> QED BY <2>2 DEF Inserts
  <1>14. Shifted(Len(o), Len(w), Len(q), o, w, o2, w2, q, d)
    BY <1>5, <1>10, <1>13, LineShift
  <1>15. \A k \in Lines(o, w) : Line(o, w, k) \in T
    <2> SUFFICES ASSUME NEW k \in Lines(o, w) PROVE Line(o, w, k) \in T
      OBVIOUS
    <2>1. CASE k <= Len(o)
      BY <1>3, <1>5, <2>1 DEF Lines, Line
    <2>2. CASE ~(k <= Len(o))
      <3>1. k - Len(o) \in 1 .. Len(w)
        BY <1>5, <2>2 DEF Lines
      <3> QED BY <1>3, <2>2, <3>1 DEF Line
    <2> QED BY <2>1, <2>2
  <1>16. \A k \in Lines(o, w) : Line(o, w, k)[2] \in Nat
    BY <1>15 DEF T
  <1>17. h = Line(o, w, Len(o) + 1)
    <2>1. Line(o, w, Len(o) + 1) = w[(Len(o) + 1) - Len(o)]
      BY <1>5 DEF Line
    <2>2. (Len(o) + 1) - Len(o) = 1
      BY <1>5
    <2> QED BY <1>5, <2>1, <2>2
  <1>18. h[1] # None
    BY <1>6, ScopeAssumption
  <1>19. LineInv(o2, w2, r)
    <2>1. Len(o2) = Len(o) + 1 /\ Len(w2) = Len(q) + (Len(w) - 1)
      BY <1>13
    <2>2. PrintsLine(Len(o), Len(w), Len(q), o, w, o2, w2, q, h, d)
      BY <1>5, <1>8, <1>10, <1>12, <1>14, <1>16, <1>17, <1>18, <2>1 DEF PrintsLine
    <2> QED BY <1>3, <2>2, InsertKeepsLines
  <1>20. LineInv(out, todo, root)'
    <2>1. r = root' /\ UNCHANGED <<records, parent, children>>
      BY <1>2 DEF PrintRec, lifetimes
    <2> QED BY <1>2, <1>19, <2>1, LinesAfter
  <1>21. pc' = "printing" /\ root' \in Nat \ {0}
    BY DEF PrintRec, ForestInv
  <1>22. out' \in Seq(T) /\ todo' \in Seq(T)
    BY <1>2, <1>13
  <1> QED BY <1>20, <1>21, <1>22 DEF ForestInv, T

LEMMA NextForestInv ==
  PInv /\ ChildInv /\ ForestInv /\ [Next]_vars => ForestInv'
  <1> SUFFICES ASSUME PInv, ChildInv, ForestInv, [Next]_vars
               PROVE  ForestInv'
    OBVIOUS
  <1>1. PInv'
    BY NextPInv
  <1>2. CASE \E s \in Scopes : Construct(s) \/ Register(s) \/ Stop(s)
    <2> SUFFICES ASSUME NEW s \in Scopes, Construct(s) \/ Register(s) \/ Stop(s)
                 PROVE  ForestInv'
      BY <1>2
    <2>1. pc = "running"
      BY DEF Construct, Register, Stop, PInv, NestInv, Shapes
    <2> QED BY <1>1, <2>1, BeforeForest DEF Construct, Register, Stop
  <1>3. CASE BeginPrinting \/ Adopt \/ BeginForest
    BY <1>1, <1>3, BeforeForest DEF BeginPrinting, Adopt, BeginForest
  <1>4. CASE NextRoot
    BY <1>4, RootStep
  <1>5. CASE PrintRec
    BY <1>5, PrintStep
  <1>6. CASE EndPrinting \/ UNCHANGED vars
    <2>1. PICK o, w, r : o = out /\ w = todo /\ r = root
      OBVIOUS
    <2>2. UNCHANGED <<out, todo, root, records, parent, children>>
      BY <1>6 DEF EndPrinting, vars, lifetimes
    <2>3. LineInv(out, todo, root)'
      BY <2>1, <2>2, LinesAfter DEF ForestInv
    <2> QED BY <1>6, <2>2, <2>3 DEF EndPrinting, vars, lifetimes, ForestInv
  <1> QED BY <1>2, <1>3, <1>4, <1>5, <1>6 DEF Next

-----------------------------------------------------------------------------
(* When every root has had its turn and nothing waits, no record is missing: *)
(* the first one would have a parent before it, whose children are listed.  *)
LEMMA NoneMissing ==
  ASSUME PInv, ChildInv, ParentsCover, pc = "done", NEW o, NEW r, r \in Nat,
         r > Len(records), LineInv(o, <<>>, r), Len(o) \in Nat,
         NEW m \in 1 .. Len(records)
  PROVE  Listed(o, <<>>, records[m])
  <1> DEFINE U == {a \in 1 .. Len(records) : ~Listed(o, <<>>, records[a])}
             R == OpToRel(<, Nat)
  <1> SUFFICES ASSUME ~Listed(o, <<>>, records[m]) PROVE FALSE
    OBVIOUS
  <1>0. U # {}
    <2>1. m \in U
      OBVIOUS
    <2> QED BY <2>1
  <1>1. records \in Seq(Scopes) /\ Len(records) \in Nat
    BY DEF PInv, Shapes
  <1>2. U \subseteq Nat
    BY <1>1
  <1>3. PICK a \in U : \A y \in U : ~(<<y, a>> \in R)
    <2> HIDE DEF U
    <2> QED BY <1>0, <1>2, NatLessThanWellFounded, WFMin
  <1>4. a \in 1 .. Len(records) /\ ~Listed(o, <<>>, records[a]) /\ a < r
    BY <1>1
  <1>5. \A y \in U : ~(y < a)
    BY <1>2, <1>3 DEF OpToRel
  <1>6. parent[records[a]] # None
    BY <1>4 DEF LineInv
  <1>7. PICK b \in 1 .. a - 1 : records[b] = parent[records[a]]
    BY <1>4, <1>6 DEF ParentsCover
  <1>8. b \in 1 .. Len(records) /\ b < a
    BY <1>1, <1>4
  <1>9. Listed(o, <<>>, records[b])
    BY <1>5, <1>8
  <1>10. PICK l \in 1 .. Len(o) : o[l][1] = records[b]
    BY <1>9 DEF Listed, Lines, Line
  <1>11. records[a] \in Scopes /\ records[b] \in Scopes
    BY <1>1, <1>4, <1>8
  <1>12. records[a] \in children[o[l][1]]
    BY <1>7, <1>10, <1>11 DEF ChildInv
  <1> QED BY <1>4, <1>12 DEF LineInv

LEMMA ForestRead ==
  ASSUME PInv, ChildInv, ParentsCover, ForestInv
  PROVE  ForestPrinted
  <1> DEFINE n == Len(out)
  <1>1. /\ out \in Seq(Scopes \X Nat) /\ n \in Nat /\ todo \in Seq(Scopes \X Nat)
        /\ Len(todo) \in Nat /\ root \in Nat
        /\ LineInv(out, todo, root) /\ records \in Seq(Scopes) /\ Len(records) \in Nat
    <2>1. /\ out \in Seq(Scopes \X Nat) /\ todo \in Seq(Scopes \X Nat)
          /\ root \in Nat /\ LineInv(out, todo, root)
      BY DEF ForestInv
    <2>2. records \in Seq(Scopes)
      BY DEF PInv, Shapes
    <2>3. n \in Nat /\ Len(todo) \in Nat /\ Len(records) \in Nat
      BY <2>1, <2>2
    <2> QED BY <2>1, <2>2, <2>3
  <1>2. \A j \in 1 .. n : j \in Lines(out, todo) /\ Line(out, todo, j) = out[j]
    BY <1>1 DEF Lines, Line
  <1>3. \A j, k \in 1 .. n : out[j][1] = out[k][1] => j = k
    BY <1>1, <1>2 DEF LineInv
  <1>4. ASSUME pc = "done"
        PROVE  {out[k][1] : k \in 1 .. n} = ToSet(records)
    <2>1. todo = <<>> /\ root > Len(records)
      BY <1>4 DEF ForestInv
    <2>2. ASSUME NEW m \in 1 .. Len(records)
          PROVE  \E k \in 1 .. n : out[k][1] = records[m]
      <3>1. Listed(out, <<>>, records[m])
        BY <1>1, <1>4, <2>1, NoneMissing
      <3>2. PICK k \in Lines(out, <<>>) : Line(out, <<>>, k)[1] = records[m]
        BY <3>1 DEF Listed
      <3>3. k \in 1 .. n /\ Line(out, <<>>, k) = out[k]
        BY <1>1, <1>2, <2>1 DEF Lines
      <3> QED BY <3>2, <3>3
    <2>3. ASSUME NEW k \in 1 .. n
          PROVE  \E m \in 1 .. Len(records) : out[k][1] = records[m]
      <3>1. \A l \in Lines(out, todo) : \E m \in 1 .. Len(records) :
              records[m] = Line(out, todo, l)[1]
        BY <1>1 DEF LineInv
      <3>2. k \in Lines(out, todo) /\ Line(out, todo, k) = out[k]
        BY <1>2
      <3> QED BY <3>1, <3>2
    <2>4. ToSet(records) = {records[m] : m \in 1 .. Len(records)}
      BY <1>1 DEF ToSet
    <2> HIDE DEF n
    <2> DEFINE printed == {out[k][1] : k \in 1 .. n}
    <2>5. \A x \in printed : x \in ToSet(records)
      BY <2>3, <2>4
    <2>6. \A x \in ToSet(records) : x \in printed
      BY <2>2, <2>4
    <2> HIDE DEF printed
    <2>7. printed = ToSet(records)
      BY <2>5, <2>6
    <2> QED BY <2>7 DEF printed
  <1>5. ASSUME pc = "done", NEW k \in 1 .. n
        PROVE  LET above == {j \in 1 .. k - 1 : out[j][2] < out[k][2]}
               IN parent[out[k][1]] = IF above = {} THEN None ELSE out[Max(above)][1]
    <2> DEFINE above == {j \in 1 .. k - 1 : out[j][2] < out[k][2]}
    <2>1. todo = <<>> /\ Lines(out, todo) = 1 .. n
      BY <1>1, <1>5 DEF ForestInv, Lines
    <2>2. Placed(out, todo, k)
      BY <1>1, <1>2 DEF LineInv
    <2>3. \A j \in 1 .. n : out[j][2] \in Nat
      BY <1>1
    <2>4. k \in Nat /\ k - 1 \in Nat /\ \A j \in 1 .. k - 1 : j \in 1 .. n /\ j < k
      BY <1>1
    <2>5. CASE parent[out[k][1]] = None /\ out[k][2] = 0
      <3>1. above = {}
        BY <2>3, <2>4, <2>5
      <3> QED BY <2>5, <3>1
    <2>6. CASE \E j \in 1 .. n : Under(out, todo, j, k)
      <3>1. PICK j \in 1 .. n : Under(out, todo, j, k)
        BY <2>6
      <3>2. /\ j < k /\ out[j][1] = parent[out[k][1]] /\ out[j][2] < out[k][2]
            /\ \A l \in 1 .. n : j < l /\ l < k => out[k][2] <= out[l][2]
        BY <1>2, <2>1, <3>1 DEF Under
      <3>3. j \in above
        BY <1>1, <3>2
      <3>4. \A y \in above : y \in 1 .. n /\ y < k /\ out[y][2] < out[k][2]
        BY <2>4
      <3>5. \A y \in above : y <= j
        <4> SUFFICES ASSUME NEW y \in above, j < y PROVE FALSE
          BY <1>1, <3>4
        <4>1. out[k][2] <= out[y][2] /\ out[y][2] < out[k][2]
          BY <3>2, <3>4
        <4> QED BY <2>3, <3>4, <4>1
      <3>6. above \in SUBSET (1 .. (k - 1)) /\ above # {}
        BY <3>3
      <3>7. Max(above) \in above /\ Max(above) >= j
        <4> HIDE DEF above
        <4> QED BY <2>4, <3>3, <3>6, MaxExists
      <3>8. Max(above) = j
        <4> HIDE DEF above
        <4> QED BY <1>1, <3>4, <3>5, <3>7
      <3> QED BY <3>2, <3>6, <3>8
    <2> QED BY <1>2, <2>1, <2>2, <2>5, <2>6 DEF Placed
  <1> QED BY <1>3, <1>4, <1>5 DEF ForestPrinted

(* print_rec prints every record once, and the indentation can be read      *)
(* back, whatever the timers, the tasks they are in and the clock do.       *)
THEOREM ForestIsPrinted == Spec => []ForestPrinted
  <1>1. Init => ChildInv
    BY ScopeAssumption DEF Init, ChildInv
  <1>2. ChildInv /\ PInv /\ ParentsCover /\ ForestInv => ForestPrinted
    BY ForestRead
  <1>3. Spec => []ChildInv
    BY <1>1, Inductive, NextChildInv, PTL DEF Spec
  <1>4. Spec => []ForestInv
    BY <1>3, Inductive, InitForestInv, NextForestInv, PTL DEF Spec
  <1> QED BY <1>2, <1>3, <1>4, Inductive, ParentsAreAround, PTL

-----------------------------------------------------------------------------
(* How long print_timer_records takes.                                      *)

(* Records that have yet to look for a parent, lines that have yet to be    *)
(* printed, and roots that have not had their turn.                         *)
PrintLeft ==
  CASE pc = "adopting" -> (Len(records) + 1 - i) + 2 * Len(records) + 2
    [] pc = "printing" -> (Len(records) - Len(out)) + (Len(records) + 1 - root) + 1
    [] OTHER -> 0

(* Every step of print_timer_records brings its end closer.                 *)
PrintingCounts == [][pc # "running" => PrintLeft' < PrintLeft]_vars

(* The loops over the records.                                              *)
LoopInv ==
  /\ pc = "running" => i = 1
  /\ i <= Len(records) + 1
  /\ root <= Len(records) + 1

(* No more lines than records: a line is another record's.                  *)
LEMMA LinesFit ==
  ASSUME PInv, ForestInv
  PROVE  Len(out) \in Nat /\ Len(records) \in Nat /\ Len(out) <= Len(records)
  <1>1. Len(out) \in Nat /\ Len(todo) \in Nat /\ Len(records) \in Nat
    <2>1. out \in Seq(Scopes \X Nat) /\ todo \in Seq(Scopes \X Nat) /\ records \in Seq(Scopes)
      BY Zenon DEF PInv, Shapes, ForestInv
    <2> QED BY <2>1
  <1> DEFINE S == 1 .. Len(out)
             T == 1 .. Len(records)
             f == [k \in S |-> CHOOSE m \in T : records[m] = out[k][1]]
  <1>2. \A k \in S : k \in Lines(out, todo) /\ Line(out, todo, k) = out[k]
    BY <1>1 DEF Lines, Line
  <1>3. \A k \in S : \E m \in T : records[m] = out[k][1]
    <2>1. \A k \in Lines(out, todo) : \E m \in T : records[m] = Line(out, todo, k)[1]
      BY Zenon DEF ForestInv, LineInv
    <2> HIDE DEF S, T
    <2> QED BY <1>2, <2>1
  <1>4. \A k \in S : f[k] \in T /\ records[f[k]] = out[k][1]
    BY <1>3
  <1>5. \A k, l \in S : out[k][1] = out[l][1] => k = l
    <2>1. \A k, l \in Lines(out, todo) :
            Line(out, todo, k)[1] = Line(out, todo, l)[1] => k = l
      BY Zenon DEF ForestInv, LineInv
    <2> HIDE DEF S, T
    <2> QED BY <1>2, <2>1
  <1>6. f \in [S -> T] /\ \A k, l \in S : f[k] = f[l] => k = l
    <2>1. f \in [S -> T]
      BY <1>4
    <2> HIDE DEF S, T, f
    <2> QED BY <1>4, <1>5, <2>1
  <1>7. f \in Injection(S, T)
    <2> HIDE DEF S, T, f
    <2> QED BY <1>6 DEF Injection, IsInjective
  <1>8. IsFiniteSet(T) /\ Cardinality(T) = Len(records) /\ Cardinality(S) = Len(out)
    <2>1. ASSUME NEW n \in Nat PROVE IsFiniteSet(1 .. n) /\ Cardinality(1 .. n) = n
      <3>1. 1 \in Int /\ n \in Int /\ (1 > n <=> n = 0) /\ n - 1 + 1 = n
        OBVIOUS
      <3>2. IsFiniteSet(1 .. n) /\ Cardinality(1 .. n) = IF 1 > n THEN 0 ELSE n - 1 + 1
        BY <3>1, FS_Interval, Zenon
      <3> QED BY <3>1, <3>2
    <2> QED BY <1>1, <2>1
  <1>9. Cardinality(S) <= Cardinality(T)
    <2> HIDE DEF S, T, f
    <2> QED BY <1>7, <1>8, FS_Injection
  <1> QED BY <1>1, <1>8, <1>9

LEMMA PrintSteps ==
  ASSUME PInv, ForestInv, PInv', LoopInv, Next
  PROVE  LoopInv' /\ (pc # "running" => PrintLeft' < PrintLeft)
  <1>1. /\ Len(records) \in Nat /\ i \in Nat \ {0} /\ root \in Nat \ {0}
        /\ Len(out) \in Nat /\ Len(out) <= Len(records)
    BY LinesFit, Zenon DEF PInv, Shapes, ForestInv
  <1>2. Len(records') \in Nat
    BY DEF PInv, Shapes
  <1>3. CASE \E s \in Scopes : Construct(s) \/ Register(s) \/ Stop(s)
    <2>1. pc = "running" /\ UNCHANGED <<pc, i, root>>
      BY <1>3 DEF Construct, Register, Stop, PInv, NestInv, Shapes
    <2>2. i = 1 /\ root = 1
      BY <2>1 DEF LoopInv, ForestInv
    <2> QED BY <1>2, <2>1, <2>2 DEF LoopInv
  <1>4. CASE BeginPrinting
    <2>1. pc = "running" /\ pc' = "adopting" /\ UNCHANGED <<records, i, root>>
      BY <1>4 DEF BeginPrinting
    <2> QED BY <2>1 DEF LoopInv
  <1>5. CASE Adopt
    <2>1. /\ pc = "adopting" /\ pc' = "adopting" /\ UNCHANGED <<records, root>>
          /\ i <= Len(records) /\ i' = i + 1
      BY <1>5 DEF Adopt, lifetimes
    <2>2. LoopInv'
      BY <1>1, <2>1 DEF LoopInv
    <2>3. PrintLeft' < PrintLeft
      BY <1>1, <2>1 DEF PrintLeft
    <2> QED BY <2>2, <2>3
  <1>6. CASE BeginForest
    <2>1. pc = "adopting" /\ pc' = "printing" /\ UNCHANGED <<records, i, root, out>>
      BY <1>6 DEF BeginForest, lifetimes
    <2>2. out = <<>> /\ root = 1 /\ i <= Len(records) + 1
      BY <2>1 DEF ForestInv, LoopInv
    <2>3. Len(out') = 0
      BY <2>1, <2>2
    <2>4. PrintLeft' < PrintLeft
      BY <1>1, <2>1, <2>2, <2>3 DEF PrintLeft
    <2> QED BY <2>1, <2>4 DEF LoopInv
  <1>7. CASE NextRoot
    <2>1. /\ pc = "printing" /\ pc' = "printing" /\ UNCHANGED <<records, i, out>>
          /\ root <= Len(records) /\ root' = root + 1
      BY <1>7 DEF NextRoot, lifetimes
    <2>2. PrintLeft' < PrintLeft
      BY <1>1, <2>1 DEF PrintLeft
    <2> QED BY <1>1, <2>1, <2>2 DEF LoopInv
  <1>8. CASE PrintRec
    <2>1. pc = "printing" /\ pc' = "printing" /\ UNCHANGED <<records, i, root>>
      BY <1>8 DEF PrintRec, lifetimes
    <2>2. Len(out') = Len(out) + 1
      <3>1. out' = Append(out, Head(todo)) /\ out \in Seq(Scopes \X Nat)
        BY <1>8 DEF PrintRec, ForestInv
      <3> QED BY <3>1
    <2>3. PrintLeft' < PrintLeft
      BY <1>1, <2>1, <2>2 DEF PrintLeft
    <2> QED BY <2>1, <2>3 DEF LoopInv
  <1>9. CASE EndPrinting
    <2>1. pc = "printing" /\ pc' = "done" /\ UNCHANGED <<records, i, root>>
      BY <1>9 DEF EndPrinting, lifetimes
    <2>2. root <= Len(records) + 1
      BY DEF LoopInv
    <2>3. PrintLeft' < PrintLeft
      BY <1>1, <2>1, <2>2 DEF PrintLeft
    <2> QED BY <2>1, <2>3 DEF LoopInv
  <1> QED BY <1>3, <1>4, <1>5, <1>6, <1>7, <1>8, <1>9 DEF Next

(* print_timer_records is over after three steps per record and two more,   *)
(* whatever the clock has made of the intervals: print_rec, which follows   *)
(* children wherever they lead, never comes to a record a second time.      *)
THEOREM PrintingIsLinear ==
  Spec => /\ PrintingCounts
          /\ [](pc # "running" => PrintLeft \in 0 .. 3 * Len(records) + 2)
  <1>1. Init => ChildInv
    BY ScopeAssumption DEF Init, ChildInv
  <1>2. Spec => []ChildInv
    BY <1>1, Inductive, NextChildInv, PTL DEF Spec
  <1>3. Spec => []ForestInv
    BY <1>2, Inductive, InitForestInv, NextForestInv, PTL DEF Spec
  <1>4. Init => LoopInv
    BY DEF Init, LoopInv
  <1>5. LoopInv /\ UNCHANGED vars => LoopInv'
    BY DEF LoopInv, vars, lifetimes
  <1>6. PInv /\ PInv' /\ ForestInv /\ LoopInv /\ [Next]_vars =>
          LoopInv' /\ [pc # "running" => PrintLeft' < PrintLeft]_vars
    BY <1>5, PrintSteps
  <1>7. PInv /\ ForestInv /\ LoopInv =>
          (pc # "running" => PrintLeft \in 0 .. 3 * Len(records) + 2)
    <2> SUFFICES ASSUME PInv, ForestInv, LoopInv
                 PROVE  PrintLeft \in 0 .. 3 * Len(records) + 2
      OBVIOUS
    <2>1. /\ Len(records) \in Nat /\ i \in Nat \ {0} /\ root \in Nat \ {0}
          /\ Len(out) \in Nat /\ Len(out) <= Len(records)
          /\ i <= Len(records) + 1 /\ root <= Len(records) + 1
      BY LinesFit, Zenon DEF PInv, Shapes, ForestInv, LoopInv
    <2>2. CASE pc = "adopting"
      BY <2>1, <2>2 DEF PrintLeft
    <2>3. CASE pc = "printing"
      BY <2>1, <2>3 DEF PrintLeft
    <2>4. CASE pc # "adopting" /\ pc # "printing"
      <3>1. PrintLeft = 0
        BY <2>4 DEF PrintLeft
      <3> QED BY <2>1, <3>1
    <2> QED BY <2>2, <2>3, <2>4
  <1> QED BY <1>3, <1>4, <1>6, <1>7, Inductive, PTL DEF Spec, PrintingCounts
=============================================================================
