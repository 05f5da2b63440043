--------------------------- MODULE MCUploadQueue ---------------------------
(***************************************************************************)
(* UploadQueue for TLC.                                                    *)
(***************************************************************************)
EXTENDS UploadQueue, TLC

Symmetry == Permutations(Assets) \cup Permutations(Items)

Edited == (replaced \cup {editing}) \ {None}

\* Bounds: an item that is edited counts as a fault; while one is, none is
\* captured, and only that one is removed.
Bounds == /\ faults + Cardinality(Edited) <= MaxFaults
          /\ Edited # {} => saving = {} /\ dismissed \subseteq Edited
===========================================================================
