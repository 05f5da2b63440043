--------------------------- MODULE WorkflowStore ---------------------------
(***************************************************************************)
(* The PostgreSQL rows of the workflow engine and the transactions on them *)
(* (internal/workflow/repository.go, internal/visitanalysis/repository.go).*)
(* An operation whose UPDATE finds no row is not enabled; the callers say  *)
(* what they do then.                                                      *)
(***************************************************************************)
EXTENDS WorkflowRuns

NodeState == {"queued", "running", "succeeded", "failed"}

RunState == NodeState \cup {"none"}

VisitState == {"draft", "submitted", "analyzing", "completed", "failed"}

ProjectState == {"collecting", "needs_material", "processing", "completed", "exception"}

VARIABLES
    run,        \* run[r]: state of the workflow_runs row, "none" before it exists
    node,       \* node[n]: state of the workflow_nodes row
    visit,      \* visit[v]: state of the visits row
    project,    \* state of the projects row
    delivered   \* runs with a product: an artifact row, or a visit_analyses row

rows == <<run, node, visit, project, delivered>>

StoreTypeOK ==
    /\ run \in [Runs -> RunState]
    /\ node \in [Nodes -> NodeState]
    /\ visit \in [Visits -> VisitState]
    /\ project \in ProjectState
    /\ delivered \subseteq Runs

\* The visits are recorded, with material uploaded, and not yet submitted.
StoreInit ==
    /\ run = [r \in Runs |-> "none"]
    /\ node = [n \in Nodes |-> "queued"]
    /\ visit = [v \in Visits |-> "draft"]
    /\ project = "collecting"
    /\ delivered = {}

---------------------------------------------------------------------------
\* Creating a run, with all its nodes queued.

InsertRun(r) ==
    /\ run[r] = "none"
    /\ run' = [run EXCEPT ![r] = "queued"]
    /\ project' = IF r \in BookRuns THEN "processing" ELSE project
    /\ UNCHANGED <<node, visit, delivered>>

\* FinalizeBook, under the lock of the project row: it gives back a run that
\* is queued or running instead of creating one.
FinalizeBook(r) ==
    /\ \A b \in BookRuns : run[b] \notin {"queued", "running"}
    /\ \A v \in Visits : visit[v] # "draft"
    /\ InsertRun(r)

---------------------------------------------------------------------------
\* Nodes.

\* The first statement of ClaimNode; the second is MarkRunRunning.
ClaimNode(n) ==
    /\ node[n] \in {"queued", "failed"}
    /\ node' = [node EXCEPT ![n] = "running"]
    /\ UNCHANGED <<run, visit, project, delivered>>

MarkRunRunning(r) ==
    /\ run' = [run EXCEPT ![r] = "running"]
    /\ UNCHANGED <<node, visit, project, delivered>>

CanSucceed(n) == node[n] \in {"running", "succeeded"}

\* Idempotent: a node that has succeeded succeeds again.
SucceedNode(n) ==
    /\ CanSucceed(n)
    /\ node' = [node EXCEPT ![n] = "succeeded"]
    /\ run' = IF IsLast(n) THEN [run EXCEPT ![n[1]] = "succeeded"] ELSE run
    /\ project' = IF IsLast(n) /\ n[1] \in BookRuns THEN "completed" ELSE project
    /\ UNCHANGED <<visit, delivered>>

CanFail(n) == node[n] \in {"running", "failed"}

\* Mutant: the run keeps the state it has.
FailNodeAlone(n) ==
    /\ CanFail(n)
    /\ node' = [node EXCEPT ![n] = "failed"]
    /\ visit' = IF n[1] \in Visits THEN [visit EXCEPT ![n[1]] = "failed"] ELSE visit
    /\ UNCHANGED <<run, project, delivered>>

FailNode(n) ==
    /\ CanFail(n)
    /\ node' = [node EXCEPT ![n] = "failed"]
    /\ run' = [run EXCEPT ![n[1]] = "failed"]
    /\ project' = IF n[1] \in BookRuns THEN "exception" ELSE project
    /\ visit' = IF n[1] \in Visits THEN [visit EXCEPT ![n[1]] = "failed"] ELSE visit
    /\ UNCHANGED delivered

---------------------------------------------------------------------------
\* The two local nodes.

\* The manuscript of a book is the output of the node before the rendering.
ManuscriptPresent(b) == BookNodes = 1 \/ node[<<b, BookNodes - 1>>] = "succeeded"

\* The outputs that Persist reads: those of the last two provider nodes.
OutputsPresent(v) ==
    \A k \in {VisitNodes - 2, VisitNodes - 1} : k > 0 => node[<<v, k>>] = "succeeded"

CanProduce(r) == IF r \in BookRuns THEN ManuscriptPresent(r)
                 ELSE r \in delivered \/ OutputsPresent(r)

\* Save of the PDF rendered from the manuscript.
SaveArtifact(b) ==
    /\ b \in BookRuns
    /\ CanProduce(b)
    /\ delivered' = delivered \cup {b}
    /\ UNCHANGED <<run, node, visit, project>>

\* A visit that has its analysis keeps it, and nothing else is written.
Persist(v) ==
    /\ v \in Visits
    /\ CanProduce(v)
    /\ \/ v \in delivered /\ UNCHANGED rows
       \/ /\ v \notin delivered
          /\ delivered' = delivered \cup {v}
          /\ visit' = [visit EXCEPT ![v] = "completed"]
          /\ project' \in {"collecting", "needs_material"}
          /\ UNCHANGED <<run, node>>

---------------------------------------------------------------------------
\* Submitting and retrying a visit.

PrepareSubmit(v) ==
    /\ visit[v] = "draft"
    /\ visit' = [visit EXCEPT ![v] = "submitted"]
    /\ UNCHANGED <<run, node, project, delivered>>

\* Whatever state the visit has reached in the meantime.
AttachRun(v) ==
    /\ run[v] # "none"
    /\ visit' = [visit EXCEPT ![v] = "analyzing"]
    /\ UNCHANGED <<run, node, project, delivered>>

RevertSubmit(v) ==
    /\ visit' = IF visit[v] = "submitted" THEN [visit EXCEPT ![v] = "draft"] ELSE visit
    /\ UNCHANGED <<run, node, project, delivered>>

Unfinished(v) == {k \in 1..VisitNodes : node[<<v, k>>] \in {"queued", "failed"}}

\* Mutant: the order of the nodes is not looked at.
SelectAnyPayload(v, k) == k \in Unfinished(v)

\* The node that RetryPayload selects, without a lock: the first one queued or
\* failed.
SelectPayload(v, k) == k \in Unfinished(v) /\ \A i \in Unfinished(v) : k <= i

\* The updates it commits then, whatever has become of the node.
RequeueRun(v) ==
    /\ run' = [run EXCEPT ![v] = "queued"]
    /\ visit' = [visit EXCEPT ![v] = "analyzing"]
    /\ UNCHANGED <<node, project, delivered>>
===========================================================================
