---------------------------- MODULE WorkflowRuns ----------------------------
(***************************************************************************)
(* The runs of the workflow engine and their nodes (internal/workflow/     *)
(* model.go).  One project: book runs produce its book, and each visit has *)
(* one analysis run.  Every node but the last is a provider job; the       *)
(* worker executes the last itself (render_pdf, visit_persist_analysis).   *)
(***************************************************************************)
EXTENDS Naturals

CONSTANTS BookRuns,    \* identifiers of book runs
          Visits,      \* the visits; the analysis run of a visit has its name
          BookNodes,   \* number of nodes of a book run (NodeSequence)
          VisitNodes   \* number of nodes of an analysis run (VisitAnalysisSequence)

ASSUME WorkflowRunsAssumption ==
    /\ BookRuns \cap Visits = {}
    /\ BookNodes \in Nat \ {0}
    /\ VisitNodes \in Nat \ {0}

Runs == BookRuns \cup Visits

\* A node is known by its run and its position there.
Nodes == (BookRuns \X (1..BookNodes)) \cup (Visits \X (1..VisitNodes))

Last(r) == IF r \in BookRuns THEN BookNodes ELSE VisitNodes

IsLast(n) == n[2] = Last(n[1])

Following(n) == <<n[1], n[2] + 1>>

First(r) == <<r, 1>>
===========================================================================
