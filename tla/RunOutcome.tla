----------------------------- MODULE RunOutcome -----------------------------
(***************************************************************************)
(* What the workflow engine promises the rest of the program about a run:  *)
(* how its row, the state of its visit and of the project follow each      *)
(* other, whatever its nodes, tasks, polls and handlers do.  The staff     *)
(* acts in between.                                                        *)
(*                                                                         *)
(* A product is stored once, is there before the run succeeds, and its run *)
(* does not fail any more; unless a retry has put two nodes of an analysis *)
(* to work at once, which doubled records.  A retry that has looked before *)
(* the product was stored may show such a run as queued all the same.      *)
(***************************************************************************)

CONSTANTS BookRuns,   \* identifiers of book runs
          Visits      \* the visits; the analysis run of a visit has its name

VARIABLES run,        \* run[r]: state of the run, "none" before it exists
          visit,      \* visit[v]: state of the visit
          project,    \* state of the project
          delivered,  \* the runs with a product
          doubled     \* the visits with two nodes of their analysis at work

Runs == BookRuns \cup Visits

\* The visits there are from the beginning and those still to be recorded.
Init == /\ run = [r \in Runs |-> "none"]
        /\ visit \in [Visits -> {"none", "draft"}]
        /\ project = "collecting"
        /\ delivered = {}
        /\ doubled = {}

SetRun(r, s) == run' = [run EXCEPT ![r] = s]

SetVisit(r, s) == visit' = IF r \in Visits THEN [visit EXCEPT ![r] = s] ELSE visit

SetProject(r, s) == project' = IF r \in BookRuns THEN s ELSE project

---------------------------------------------------------------------------
\* What a run does.

\* The analysis of a visit begins while the visit is submitted.
Insert(r) == /\ run[r] = "none"
             /\ r \in Visits => visit[r] = "submitted"
             /\ SetRun(r, "queued")
             /\ SetProject(r, "processing")
             /\ UNCHANGED <<visit, delivered, doubled>>

\* A node has been claimed, and perhaps brought to its end since.
Claim(r) == /\ run[r] # "none"
            /\ SetRun(r, "running")
            /\ UNCHANGED <<visit, project, delivered, doubled>>

\* A node may fail until the product is stored.
MayFail(r) == run[r] # "none" /\ (r \in delivered => r \in doubled)

Fail(r) == /\ MayFail(r)
           /\ SetRun(r, "failed")
           /\ SetVisit(r, "failed")
           /\ SetProject(r, "exception")
           /\ UNCHANGED <<delivered, doubled>>

Deliver(r) == /\ run[r] # "none"
              /\ r \notin delivered
              /\ delivered' = delivered \cup {r}
              /\ SetVisit(r, "completed")
              /\ IF r \in Visits THEN project' \in {"collecting", "needs_material"}
                                 ELSE UNCHANGED project
              /\ UNCHANGED <<run, doubled>>

Succeed(r) == /\ r \in delivered
              /\ SetRun(r, "succeeded")
              /\ SetProject(r, "completed")
              /\ UNCHANGED <<visit, delivered, doubled>>

\* The staff retries an analysis: a node is picked, while perhaps one before
\* it is at work, and the run queued whatever has become of it.
Double(v) == /\ MayFail(v)
             /\ doubled' = doubled \cup {v}
             /\ UNCHANGED <<run, visit, project, delivered>>

Requeue(v) == /\ run[v] # "none"
              /\ SetRun(v, "queued")
              /\ SetVisit(v, "analyzing")
              /\ UNCHANGED <<project, delivered, doubled>>

---------------------------------------------------------------------------
\* What the staff does with a visit.

Move(v, s) == /\ SetVisit(v, s)
              /\ UNCHANGED <<run, project, delivered, doubled>>

Record(v) == visit[v] = "none" /\ Move(v, "draft")

Submit(v) == visit[v] = "draft" /\ Move(v, "submitted")

Revert(v) == visit[v] = "submitted" /\ run[v] = "none" /\ Move(v, "draft")

Attach(v) == run[v] # "none" /\ Move(v, "analyzing")

Next ==
    \/ \E r \in Runs : Insert(r) \/ Claim(r) \/ Fail(r) \/ Deliver(r) \/ Succeed(r)
    \/ \E v \in Visits : Double(v) \/ Requeue(v) \/ Record(v) \/ Submit(v) \/ Revert(v) \/ Attach(v)

vars == <<run, visit, project, delivered, doubled>>

Spec == Init /\ [][Next]_vars
===========================================================================
