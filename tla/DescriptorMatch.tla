-------------------------- MODULE DescriptorMatch ---------------------------
(***************************************************************************)
(* descriptor_match (image.cc): are two segments similar, by the median     *)
(* distance of the matches between the rows of their descriptors?  What     *)
(* FLANN finds for a row is a choice: its search is approximate.            *)
(***************************************************************************)
EXTENDS Integers, Sequences, FiniteSets

CONSTANTS
  Rows1, Rows2,   \* bounds on the rows of the descriptors
  Distances,      \* distances between rows
  Threshold

ASSUME MatchAssumption ==
  Rows1 \in Nat /\ Rows2 \in Nat /\ Distances \subseteq Int /\ Threshold \in Int

VARIABLES
  size,           \* size[1], size[2]: the numbers of rows, none of them 0
  distance,       \* distance[q][t]: between row q of the first and t of the second
  cross_check,    \* ctx.arg.cross_check
  match12,        \* match12[q]: the row of the second found for row q of the first
  match21,
  lists,          \* the lists of matches whose medians count
  looked,         \* how many of match12 the cross check has looked at
  step,           \* "match", "select", "sort", "decide" or "done"
  similar         \* the answer

descriptors == <<size, distance, cross_check>>
matchVars == <<descriptors, match12, match21, lists, looked, step, similar>>

Matches == [queryIdx : Nat, trainIdx : Nat, distance : Distances]

MatchTypeOK ==
  /\ size \in (1 .. Rows1) \X (1 .. Rows2)
  /\ distance \in [1 .. size[1] -> [1 .. size[2] -> Distances]]
  /\ cross_check \in BOOLEAN
  /\ match12 \in Seq(1 .. size[2]) /\ match21 \in Seq(1 .. size[1])
  /\ step # "match" => Len(match12) = size[1] /\ Len(match21) = size[2]
  /\ lists \in Seq(Seq(Matches))
  /\ looked \in 0 .. Len(match12)
  /\ step \in {"match", "select", "sort", "decide", "done"}
  /\ similar \in BOOLEAN

MatchInit ==
  /\ size \in (1 .. Rows1) \X (1 .. Rows2)
  /\ distance \in [1 .. size[1] -> [1 .. size[2] -> Distances]]
  /\ cross_check \in BOOLEAN
  /\ match12 = <<>> /\ match21 = <<>>
  /\ lists = <<>> /\ looked = 0
  /\ step = "match"
  /\ similar = FALSE

(* Both searches: one match for every row.                                  *)
Match ==
  /\ step = "match"
  /\ match12' \in [1 .. size[1] -> 1 .. size[2]]
  /\ match21' \in [1 .. size[2] -> 1 .. size[1]]
  /\ lists' = IF cross_check THEN << <<>> >> ELSE <<>>
  /\ step' = "select"
  /\ UNCHANGED <<descriptors, looked, similar>>

Forward == [q \in 1 .. Len(match12) |->
  [queryIdx |-> q, trainIdx |-> match12[q], distance |-> distance[q][match12[q]]]]
Backward == [t \in 1 .. Len(match21) |->
  [queryIdx |-> t, trainIdx |-> match21[t], distance |-> distance[match21[t]][t]]]

(* With the cross check only matches that are found both ways count, ...    *)
MutualByQuery(m) == Backward[m.trainIdx].queryIdx = m.trainIdx
Mutual(m) == Backward[m.trainIdx].trainIdx = m.queryIdx

CrossCheck ==
  LET forward == Forward[looked + 1]
  IN /\ step = "select" /\ cross_check
     /\ looked < Len(match12)
     /\ lists' = IF Mutual(forward) THEN <<Append(lists[1], forward)>> ELSE lists
     /\ looked' = looked + 1
     /\ UNCHANGED <<descriptors, match12, match21, step, similar>>

(* ... without it all those of each search.                                 *)
EndSelect ==
  /\ step = "select"
  /\ IF cross_check THEN looked = Len(match12) /\ lists' = lists
                    ELSE lists' = <<Forward, Backward>>
  /\ step' = "sort"
  /\ UNCHANGED <<descriptors, match12, match21, looked, similar>>

(* std::sort by distance, in any order among equals.                        *)
Ordered(list) == \A j, k \in DOMAIN list : j <= k => list[j].distance <= list[k].distance
Orders(D) == {p \in [D -> D] : \A k \in D : \E j \in D : p[j] = k}
Sorted(list) ==
  {s \in {[k \in DOMAIN list |-> list[p[k]]] : p \in Orders(DOMAIN list)} : Ordered(s)}

Sort ==
  /\ step = "sort"
  /\ lists' \in IF cross_check THEN {<<l>> : l \in Sorted(lists[1])}
                 ELSE {<<l, m>> : l \in Sorted(lists[1]), m \in Sorted(lists[2])}
  /\ step' = "decide"
  /\ UNCHANGED <<descriptors, match12, match21, looked, similar>>

(* The element at size() / 2, counted from 0.                               *)
MedianCloseLower(list) ==
  list # <<>> /\ list[(Len(list) + 1) \div 2].distance <= Threshold
MedianClose(list) ==
  list # <<>> /\ list[Len(list) \div 2 + 1].distance <= Threshold

Decide ==
  /\ step = "decide"
  /\ similar' = \E k \in DOMAIN lists : MedianClose(lists[k])
  /\ step' = "done"
  /\ UNCHANGED <<descriptors, match12, match21, looked, lists>>

MatchNext == Match \/ CrossCheck \/ EndSelect \/ Sort \/ Decide

MatchSpec == MatchInit /\ [][MatchNext]_matchVars

-----------------------------------------------------------------------------
(* More than half of the pairs in P are close.                              *)
Close(P) == {p \in P : distance[p[1]][p[2]] <= Threshold}
MostlyClose(P) == 2 * Cardinality(Close(P)) > Cardinality(P)

Pairs12 == {<<q, match12[q]>> : q \in 1 .. size[1]}
Pairs21 == {<<match21[t], t>> : t \in 1 .. size[2]}

(* What sorting and indexing amount to: descriptor_match says "similar"     *)
(* when a strict majority of the matches one way, or of those the other     *)
(* way, are close; with -cross_check, of the pairs found both ways (and     *)
(* never when there is none).  The answer does not depend on which of the   *)
(* two descriptors comes first.                                             *)
MajorityDecides ==
  step = "done" =>
    (similar <=> IF cross_check THEN MostlyClose(Pairs12 \cap Pairs21)
                 ELSE MostlyClose(Pairs12) \/ MostlyClose(Pairs21))

(* With -cross_check every descriptor row is in at most one match.          *)
OneToOne ==
  cross_check => \A l \in DOMAIN lists : \A j, k \in DOMAIN lists[l] :
    j # k => /\ lists[l][j].queryIdx # lists[l][k].queryIdx
             /\ lists[l][j].trainIdx # lists[l][k].trainIdx
=============================================================================
