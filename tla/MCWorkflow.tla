----------------------------- MODULE MCWorkflow -----------------------------
(***************************************************************************)
(* Workflow for TLC.                                                       *)
(***************************************************************************)
EXTENDS Workflow, TLC

Symmetry == Permutations(Workers) \cup Permutations(BookRuns)
             \cup Permutations(Visits) \cup Permutations(Clients)
===========================================================================
