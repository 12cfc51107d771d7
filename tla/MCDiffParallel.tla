--------------------------- MODULE MCDiffParallel ---------------------------
(***************************************************************************)
(* Small instances of DiffParallel.  The places of two new segments overlap *)
(* in one pixel, so that tasks paint the same pixel concurrently.           *)
(***************************************************************************)
EXTENDS DiffParallel, TLC

MCPixels == {"shared"} \cup New
MCFrame == [n \in New |-> {"shared"}]
MCDiffers == [n \in New |-> {n}]
OldSymmetry == Permutations(Old)
=============================================================================
