------------------------------- MODULE Records -------------------------------
(***************************************************************************)
(* The rows that one project's staff works on, and the transactions on     *)
(* them (internal/projects/repository.go, internal/visits/repository.go,   *)
(* internal/visitanalysis/repository.go, internal/workflow/repository.go). *)
(* The tables of artifacts and the object store are in Artifacts.          *)
(*                                                                         *)
(* A transaction that locks the row of the project and reads in several    *)
(* statements holds lock in between; all others are one action.            *)
(***************************************************************************)
EXTENDS Naturals, FiniteSets, FiniteSetsExt

CONSTANTS Visits,     \* identifiers of visits; an analysis run has its visit's
          BookRuns,   \* identifiers of book runs
          Items,      \* the items of the project's collection plan
          Notes,      \* what the staff may note down about a visit
          Clients,    \* requests the API serves concurrently
          None

ASSUME RecordsAssumption ==
    /\ Visits \cap BookRuns = {}
    /\ None \notin Clients \cup Notes \cup BookRuns
    /\ IsFiniteSet(Visits)
    /\ IsFiniteSet(BookRuns)

Runs == Visits \cup BookRuns

VisitState == {"none", "draft", "submitted", "analyzing", "completed", "failed"}

RunState == {"none", "queued", "running", "succeeded", "failed"}

ProjectState == {"collecting", "needs_material", "processing", "completed", "exception"}

ItemStatus == {"pending", "collected", "insufficient"}

\* What an analysis is made from: the notes of a visit and its plan items.
Content == [notes : Notes, plan : SUBSET Items]

VARIABLES
    project,    \* state of the projects row
    lock,       \* the request that holds the lock of that row
    consented,  \* there is a consents row
    item,       \* item[i]: status of the collection_plan_items row
    visit,      \* visit[v]: state of the visits row, "none" before it exists
    sequence,   \* sequence[v]: its number within the project
    content,    \* content[v]: its notes and visit_plan_items
    analysed,   \* the visits with a visit_analyses row
    run         \* run[r]: state of the workflow_runs row

visitRows == <<visit, sequence, content>>
records == <<project, lock, consented, item, visitRows, analysed, run>>

RecordsTypeOK ==
    /\ project \in ProjectState
    /\ lock \in Clients \cup {None}
    /\ consented \in BOOLEAN
    /\ item \in [Items -> ItemStatus]
    /\ visit \in [Visits -> VisitState]
    /\ sequence \in [Visits -> Nat]
    /\ content \in [Visits -> Content \cup {None}]
    /\ analysed \subseteq Visits
    /\ run \in [Runs -> RunState]

Existing == {v \in Visits : visit[v] # "none"}

\* Projects are created with their plan, and nothing else, in a transaction.
RecordsInit ==
    /\ project = "collecting"
    /\ lock = None
    /\ consented = FALSE
    /\ item = [i \in Items |-> "pending"]
    /\ visit = [v \in Visits |-> "none"]
    /\ sequence = [v \in Visits |-> 0]
    /\ content = [v \in Visits |-> None]
    /\ analysed = {}
    /\ run = [r \in Runs |-> "none"]

---------------------------------------------------------------------------
\* SELECT ... FOR UPDATE of the project, and the end of the transaction.

LockProject(c) == /\ lock = None
                  /\ lock' = c

Unlock == lock' = None

\* A row that refers to the project is inserted under a key share of it.
KeyShare == lock = None

\* An UPDATE of the project waits for the lock, and is committed at once.
SetProject(s) == /\ lock = None
                 /\ project' = s
                 /\ UNCHANGED lock

---------------------------------------------------------------------------
\* Consent and visits.

UpsertConsent ==
    /\ consented \/ KeyShare
    /\ consented' = TRUE
    /\ UNCHANGED <<project, lock, item, visitRows, analysed, run>>

NextSequence == 1 + Max({0} \cup {sequence[v] : v \in Existing})

\* The row and its plan items are replaced as a whole.
SetContent(v, recorded) == content' = [content EXCEPT ![v] = recorded]

\* The number has been read before, under the lock of the project.
InsertVisit(v, number, recorded) ==
    /\ visit' = [visit EXCEPT ![v] = "draft"]
    /\ sequence' = [sequence EXCEPT ![v] = number]
    /\ SetContent(v, recorded)
    /\ Unlock
    /\ UNCHANGED <<project, consented, item, analysed, run>>

\* Mutant: the state is not looked at again.
UpdateAnyVisit(v, recorded) ==
    /\ SetContent(v, recorded)
    /\ UNCHANGED <<project, lock, consented, item, visit, sequence, analysed, run>>

\* It looks at the state again, under the lock of the visit, and writes all
\* of the fields.
UpdateVisit(v, recorded) ==
    /\ visit[v] = "draft"
    /\ SetContent(v, recorded)
    /\ UNCHANGED <<project, lock, consented, item, visit, sequence, analysed, run>>

SetVisit(v, s) ==
    /\ visit' = [visit EXCEPT ![v] = s]
    /\ UNCHANGED <<project, lock, consented, item, sequence, content, analysed>>

\* Mutant: a visit is submitted in any state.
PrepareAnySubmit(v) == v \in Existing /\ SetVisit(v, "submitted") /\ UNCHANGED run

PrepareSubmit(v) ==
    /\ visit[v] = "draft"
    /\ SetVisit(v, "submitted")
    /\ UNCHANGED run

RevertSubmit(v) ==
    /\ SetVisit(v, IF visit[v] = "submitted" THEN "draft" ELSE visit[v])
    /\ UNCHANGED run

AttachRun(v) ==
    /\ run[v] # "none"
    /\ SetVisit(v, "analyzing")
    /\ UNCHANGED run

\* The updates of RetryPayload, whatever has become of the node it selected.
RequeueRun(v) ==
    /\ run[v] # "none"
    /\ SetVisit(v, "analyzing")
    /\ run' = [run EXCEPT ![v] = "queued"]

\* What an analysis finds of the items of the project, of one at least.
Assessments == {a \in [covered : SUBSET Items, gaps : SUBSET Items] : a.covered \cup a.gaps # {}}

\* Mutant: the gaps are written before the covered items.
PersistGapsFirst(v, a) ==
    /\ v \notin analysed
    /\ analysed' = analysed \cup {v}
    /\ item' = [i \in Items |-> IF i \in a.covered THEN "collected"
                                ELSE IF i \in a.gaps THEN "insufficient" ELSE item[i]]
    /\ visit' = [visit EXCEPT ![v] = "completed"]
    /\ SetProject(IF a.gaps # {} THEN "needs_material" ELSE "collecting")
    /\ UNCHANGED <<consented, sequence, content, run>>

\* The assessment of the visit, a transaction: an item that is both covered
\* and a gap is insufficient.
Persist(v, a) ==
    /\ v \notin analysed
    /\ analysed' = analysed \cup {v}
    /\ item' = [i \in Items |-> IF i \in a.gaps THEN "insufficient"
                                ELSE IF i \in a.covered THEN "collected" ELSE item[i]]
    /\ visit' = [visit EXCEPT ![v] = "completed"]
    /\ SetProject(IF a.gaps # {} THEN "needs_material" ELSE "collecting")
    /\ UNCHANGED <<consented, sequence, content, run>>

---------------------------------------------------------------------------
\* Runs.

SetRun(r, s) == /\ run' = [run EXCEPT ![r] = s]
                /\ UNCHANGED <<consented, item, sequence, content, analysed>>

\* State of the project, after a change of book run r.
SetProjectOf(r, s) == IF r \in BookRuns THEN SetProject(s) ELSE UNCHANGED <<project, lock>>

InsertRun(r) ==
    /\ run[r] = "none"
    /\ KeyShare
    /\ SetRun(r, "queued")
    /\ SetProjectOf(r, "processing")
    /\ UNCHANGED visit

\* A node of the run is claimed.
ClaimRun(r) ==
    /\ SetRun(r, "running")
    /\ UNCHANGED <<project, lock, visit>>

\* Mutant: the failure of a book run is not shown by its project.
FailRunQuietly(r) ==
    /\ SetRun(r, "failed")
    /\ visit' = IF r \in Visits THEN [visit EXCEPT ![r] = "failed"] ELSE visit
    /\ UNCHANGED <<project, lock>>

FailRun(r) ==
    /\ SetRun(r, "failed")
    /\ SetProjectOf(r, "exception")
    /\ visit' = IF r \in Visits THEN [visit EXCEPT ![r] = "failed"] ELSE visit

\* The last node has succeeded.
SucceedRun(r) ==
    /\ SetRun(r, "succeeded")
    /\ SetProjectOf(r, "completed")
    /\ UNCHANGED visit

ActiveBook == {b \in BookRuns : run[b] \in {"queued", "running"}}

\* The last statements of FinalizeBook, whose transaction holds the lock.
InsertBookRun(b) ==
    /\ run[b] = "none"
    /\ SetRun(b, "queued")
    /\ project' = "processing"
    /\ Unlock
    /\ UNCHANGED visit
===========================================================================
