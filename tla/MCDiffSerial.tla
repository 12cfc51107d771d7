---------------------------- MODULE MCDiffSerial ----------------------------
(***************************************************************************)
(* Small instances of DiffSerial: three old and two new segments whose      *)
(* places overlap in one pixel.                                             *)
(***************************************************************************)
EXTENDS DiffSerial

CONSTANTS o1, o2, o3, n1, n2

MCOldOrder == <<o1, o2, o3>>
MCNewOrder == <<n1, n2>>
MCPixels == {"shared"} \cup New
MCFrame == [n \in New |-> {"shared"}]
MCDiffers == [n \in New |-> {n}]
=============================================================================
