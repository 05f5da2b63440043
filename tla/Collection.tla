----------------------------- MODULE Collection -----------------------------
(***************************************************************************)
(* A project through its life: the requests of its staff - consent, visits *)
(* and their editing, submission, production of the book - concurrently    *)
(* with the analysis runs and the book runs they start                     *)
(* (internal/projects/service.go, internal/visits/service.go,              *)
(* internal/visitanalysis/service.go, internal/workflow/service.go,        *)
(* internal/book).  The inside of a run is in Workflow; here its nodes     *)
(* read the visit, fail, or produce something.                             *)
(***************************************************************************)
EXTENDS Artifacts

VARIABLES
    step,       \* step[c]: the next statement of request c
    about,      \* about[c]: the visit it is about
    local,      \* local[c]: the content it has read or is to write
    number,     \* number[c]: the sequence it has read
    seen,       \* seen[v]: the notes an analysis node has read so far
    inputs,     \* inputs[v]: what the analysis nodes have been given
    doubled,    \* the visits with a second node of their analysis at work
    submitted   \* history: the visits that have been submitted

requests == <<step, about, local, number>>
analysis == <<seen, inputs, doubled>>
vars == <<records, books, requests, analysis, submitted>>

\* The steps of a request that holds the lock of the project.
LockingSteps == {"insert", "gate", "produce"}

SubmitSteps == {"create", "revert", "attach"}

Steps == LockingSteps \cup SubmitSteps \cup {"idle", "number", "load", "write", "retry", "requeue"}

Init ==
    /\ RecordsInit
    /\ ArtifactsInit
    /\ step = [c \in Clients |-> "idle"]
    /\ about = [c \in Clients |-> None]
    /\ local = [c \in Clients |-> None]
    /\ number = [c \in Clients |-> 0]
    /\ seen = [v \in Visits |-> None]
    /\ inputs = [v \in Visits |-> {}]
    /\ doubled = {}
    /\ submitted = {}

Enter(c, s, v, recorded) ==
    /\ step[c] = "idle"
    /\ step' = [step EXCEPT ![c] = s]
    /\ about' = [about EXCEPT ![c] = v]
    /\ local' = [local EXCEPT ![c] = recorded]
    /\ UNCHANGED number

Proceed(c, s) == /\ step' = [step EXCEPT ![c] = s]
                 /\ UNCHANGED <<about, local, number>>

Leave(c) == /\ step' = [step EXCEPT ![c] = "idle"]
            /\ about' = [about EXCEPT ![c] = None]
            /\ local' = [local EXCEPT ![c] = None]
            /\ number' = [number EXCEPT ![c] = 0]

---------------------------------------------------------------------------
\* Consent, and creating a visit.

ConfirmConsent(c) ==
    /\ step[c] = "idle"
    /\ UpsertConsent
    /\ UNCHANGED <<books, requests, analysis, submitted>>

\* The request makes up the identifier of its visit.
CreateVisit(c, v, recorded) ==
    /\ consented
    /\ v \notin Existing
    /\ \A d \in Clients : about[d] # v
    /\ Enter(c, "number", v, recorded)
    /\ UNCHANGED <<records, books, analysis, submitted>>

\* Mutant: the project is not locked.
NumberUnlocked(c) ==
    /\ step[c] = "number"
    /\ number' = [number EXCEPT ![c] = NextSequence]
    /\ step' = [step EXCEPT ![c] = "insert"]
    /\ UNCHANGED <<records, about, local, books, analysis, submitted>>

NumberVisit(c) ==
    /\ step[c] = "number"
    /\ LockProject(c)
    /\ number' = [number EXCEPT ![c] = NextSequence]
    /\ step' = [step EXCEPT ![c] = "insert"]
    /\ UNCHANGED <<project, consented, item, visitRows, analysed, run,
                   about, local, books, analysis, submitted>>

AddVisit(c) ==
    /\ step[c] = "insert"
    /\ InsertVisit(about[c], number[c], local[c])
    /\ Leave(c)
    /\ UNCHANGED <<books, analysis, submitted>>

---------------------------------------------------------------------------
\* Editing a visit: all its fields are read, some changed, all written.

Edit(c, v) ==
    /\ visit[v] = "draft"
    /\ Enter(c, "load", v, [notes |-> content[v].notes, plan |-> {}])
    /\ UNCHANGED <<records, books, analysis, submitted>>

\* The plan items are read by a second statement.
LoadPlanItems(c, change) ==
    LET read == [local[c] EXCEPT !.plan = content[about[c]].plan] IN
    /\ step[c] = "load"
    /\ \/ change = [read EXCEPT !.notes = change.notes]
       \/ change = [read EXCEPT !.plan = change.plan]
    /\ local' = [local EXCEPT ![c] = change]
    /\ step' = [step EXCEPT ![c] = "write"]
    /\ UNCHANGED <<records, books, about, number, analysis, submitted>>

WriteEdit(c) ==
    /\ step[c] = "write"
    /\ \/ UpdateVisit(about[c], local[c])
       \/ visit[about[c]] # "draft" /\ UNCHANGED records
    /\ Leave(c)
    /\ UNCHANGED <<books, analysis, submitted>>

---------------------------------------------------------------------------
\* Submitting a visit, and retrying its analysis.

Submit(c, v) ==
    /\ PrepareSubmit(v)
    /\ submitted' = submitted \cup {v}
    /\ Enter(c, "create", v, None)
    /\ UNCHANGED <<books, analysis>>

StartAnalysis(c) ==
    /\ step[c] = "create"
    /\ \/ InsertRun(about[c]) /\ Proceed(c, "attach")
       \/ Proceed(c, "revert") /\ UNCHANGED records
    /\ UNCHANGED <<books, analysis, submitted>>

Revert(c) ==
    /\ step[c] = "revert"
    /\ RevertSubmit(about[c])
    /\ Leave(c)
    /\ UNCHANGED <<books, analysis, submitted>>

Attach(c) ==
    /\ step[c] = "attach"
    /\ AttachRun(about[c])
    /\ Leave(c)
    /\ UNCHANGED <<books, analysis, submitted>>

Retry(c, v) ==
    /\ visit[v] = "failed"
    /\ Enter(c, "retry", v, None)
    /\ UNCHANGED <<records, books, analysis, submitted>>

\* Nodes of the run are left until its analysis is stored.
AtWork(v) == run[v] # "none" /\ (v \notin analysed \/ v \in doubled)

\* RetryPayload selects a node, without a lock.  When the one that failed has
\* been claimed again, it is the one after it, or none is left and the request
\* refused.  The run's own state does not tell, as it is written after the
\* node's.
PickNode(c) ==
    LET v == about[c] IN
    /\ step[c] = "retry"
    /\ \/ AtWork(v) /\ Proceed(c, "requeue") /\ doubled' \in {doubled, doubled \cup {v}}
       \/ Leave(c) /\ UNCHANGED doubled
    /\ UNCHANGED <<records, books, seen, inputs, submitted>>

\* The analysis may have been stored in the meantime.
Requeue(c) ==
    /\ step[c] = "requeue"
    /\ RequeueRun(about[c])
    /\ Leave(c)
    /\ UNCHANGED <<books, analysis, submitted>>

---------------------------------------------------------------------------
\* Producing the book.

Start(c, b) ==
    /\ step[c] = "idle"
    /\ InsertRun(b)
    /\ UNCHANGED <<books, requests, analysis, submitted>>

\* Mutant: the project is not locked.
FinalizeUnlocked(c) ==
    /\ ActiveBook = {}
    /\ Enter(c, "gate", None, None)
    /\ UNCHANGED <<records, books, analysis, submitted>>

\* A request that finds a run at work, under the lock, returns it.
Finalize(c) ==
    /\ LockProject(c)
    /\ ActiveBook = {}
    /\ Enter(c, "gate", None, None)
    /\ UNCHANGED <<project, consented, item, visitRows, analysed, run,
                   books, analysis, submitted>>

\* Mutant: visits that are still edited are not looked for.
FinalizeGateOnConsent(c) ==
    /\ step[c] = "gate"
    /\ IF consented THEN Proceed(c, "produce") /\ UNCHANGED lock
                    ELSE Leave(c) /\ Unlock
    /\ UNCHANGED <<project, consented, item, visitRows, analysed, run,
                   books, analysis, submitted>>

FinalizeGate(c) ==
    /\ step[c] = "gate"
    /\ IF consented /\ \A v \in Visits : visit[v] # "draft"
       THEN Proceed(c, "produce") /\ UNCHANGED lock
       ELSE Leave(c) /\ Unlock
    /\ UNCHANGED <<project, consented, item, visitRows, analysed, run,
                   books, analysis, submitted>>

Produce(c, b) ==
    /\ step[c] = "produce"
    /\ InsertBookRun(b)
    /\ Leave(c)
    /\ UNCHANGED <<books, analysis, submitted>>

\* An error or a crash ends a request, and its transaction is rolled back.
Stop(c) ==
    /\ step[c] # "idle"
    /\ Leave(c)
    /\ lock' = IF step[c] \in LockingSteps THEN None ELSE lock
    /\ UNCHANGED <<project, consented, item, visitRows, analysed, run,
                   books, analysis, submitted>>

---------------------------------------------------------------------------
\* A node of r has been claimed, and perhaps brought to its end since: the
\* run is written by a second statement, which may be late or fail.
Claim(r) ==
    /\ run[r] # "none"
    /\ ClaimRun(r)
    /\ UNCHANGED <<books, requests, analysis, submitted>>

\* The analysis run of v.

\* BuildProviderInput, in two statements.
ReadNotes(v) ==
    /\ AtWork(v)
    /\ seen' = [seen EXCEPT ![v] = content[v].notes]
    /\ UNCHANGED <<records, books, requests, inputs, doubled, submitted>>

ReadPlan(v) ==
    /\ AtWork(v)
    /\ seen[v] # None
    /\ inputs' = [inputs EXCEPT ![v] = @ \cup {[notes |-> seen[v], plan |-> content[v].plan]}]
    /\ seen' = [seen EXCEPT ![v] = None]
    /\ UNCHANGED <<records, books, requests, doubled, submitted>>

\* Mutant: a node that has succeeded may fail.
FailAnyAnalysis(v) ==
    /\ run[v] # "none"
    /\ FailRun(v)
    /\ UNCHANGED <<books, requests, analysis, submitted>>

FailAnalysis(v) ==
    /\ AtWork(v)
    /\ FailRun(v)
    /\ UNCHANGED <<books, requests, analysis, submitted>>

StoreAnalysis(v) ==
    /\ AtWork(v)
    /\ inputs[v] # {}
    /\ \E a \in Assessments : Persist(v, a)
    /\ UNCHANGED <<books, requests, analysis, submitted>>

SucceedAnalysis(v) ==
    /\ v \in analysed
    /\ SucceedRun(v)
    /\ UNCHANGED <<books, requests, analysis, submitted>>

---------------------------------------------------------------------------
\* The book run b: its nodes fail, and the last renders the book.

Render(b) ==
    /\ run[b] # "none"
    /\ NextVersion(b) \/ Put(b) \/ (KeyShare /\ Save(b))
    /\ UNCHANGED <<records, requests, analysis, submitted>>

FailBook(b) ==
    /\ run[b] # "none"
    /\ GiveUp(b)
    /\ FailRun(b)
    /\ UNCHANGED <<requests, analysis, submitted>>

SucceedBook(b) ==
    /\ rendering[b].step = "saved"
    /\ SucceedRun(b)
    /\ UNCHANGED <<books, requests, analysis, submitted>>

---------------------------------------------------------------------------
Serve(c) ==
    \/ NumberVisit(c) \/ AddVisit(c) \/ WriteEdit(c)
    \/ StartAnalysis(c) \/ Revert(c) \/ Attach(c) \/ PickNode(c) \/ Requeue(c)
    \/ Finalize(c) \/ FinalizeGate(c) \/ Stop(c) \/ ConfirmConsent(c)
    \/ \E recorded \in Content :
          LoadPlanItems(c, recorded) \/ \E v \in Visits : CreateVisit(c, v, recorded)
    \/ \E v \in Visits : Edit(c, v) \/ Submit(c, v) \/ Retry(c, v)
    \/ \E b \in BookRuns : Start(c, b) \/ Produce(c, b)

Work ==
    \/ \E v \in Visits :
          \/ ReadNotes(v) \/ ReadPlan(v)
          \/ FailAnalysis(v) \/ StoreAnalysis(v) \/ SucceedAnalysis(v)
    \/ \E b \in BookRuns : Render(b) \/ FailBook(b) \/ SucceedBook(b)
    \/ \E r \in Runs : Claim(r)

Next == Work \/ \E c \in Clients : Serve(c)

Spec == Init /\ [][Next]_vars

---------------------------------------------------------------------------
\* Every variable holds what the schema and the types of the code allow.
TypeOK ==
    /\ RecordsTypeOK
    /\ ArtifactsTypeOK
    /\ step \in [Clients -> Steps]
    /\ about \in [Clients -> Visits \cup {None}]
    /\ local \in [Clients -> Content \cup {None}]
    /\ number \in [Clients -> Nat]
    /\ seen \in [Visits -> Notes \cup {None}]
    /\ inputs \in [Visits -> SUBSET Content]
    /\ doubled \subseteq Visits
    /\ submitted \subseteq Visits

\* However many requests create visits at once, and whichever of them fail
\* half-way, the visits of a project are numbered 1 to n, each number once
\* (visits.PostgresRepository.Create, UNIQUE(project_id, sequence)).
VisitsAreNumbered ==
    /\ {sequence[v] : v \in Existing} = 1..Cardinality(Existing)
    /\ \A v, w \in Existing : sequence[v] = sequence[w] => v = w

\* What the nodes of an analysis are given is what the visit says, even if
\* an edit was under way when it was submitted, and if the notes and the
\* plan were read apart (Update, PrepareSubmit, BuildProviderInput).
AnalysedAsRecorded == \A v \in Visits : inputs[v] \subseteq {content[v]}

\* A book that the staff has finalized is made of visits that have been
\* submitted: none that was created or is still edited (FinalizeBook).
FinalizedAfterSubmission ==
    \A c \in Clients : step[c] = "produce" => Existing \subseteq submitted

\* Finalizing adds a run only when no other waits to be carried out, however
\* many requests finalize or start one at once (FinalizeBook).
FinalizeIsExclusive ==
    \A c \in Clients : step[c] = "produce" => \A b \in BookRuns : run[b] # "queued"

\* A project is not shown as in production unless one of its runs is queued
\* or at work: neither a failure nor the analysis of a visit, in whichever
\* order they end, leaves it there.
ProcessingHasRun == project = "processing" => ActiveBook # {}

\* A project that asks for more material says for which items.
NeedsMaterialHasGap ==
    project = "needs_material" => \E i \in Items : item[i] = "insufficient"

\* A visit whose analysis is stored is not shown as failed, and cannot be
\* edited or submitted again, whatever requests were under way; unless a
\* retry has started a second node, which may fail after the last.
AnalysedIsKept ==
    \A v \in analysed \ doubled : visit[v] \in {"analyzing", "completed"}

\* The books of a project have the versions 1 to n, each once, and the one
\* that is downloaded is there, whatever renderings go on at once.
VersionsAreDense ==
    /\ {a.version : a \in artifacts} = 1..Cardinality(artifacts)
    /\ \A a \in artifacts : objects[a.version] # None

\* Renderings that read one version write one object.  Once all the runs that
\* were started have succeeded, the latest artifact is the PDF of its run.
LatestBookIsItsOwn ==
    (\A b \in BookRuns : run[b] \in {"none", "succeeded"}) =>
      \A a \in artifacts : a.version = LatestVersion => objects[a.version] = a.run

\* The runs that have stored an analysis or a book.
delivered == analysed \cup {a.run : a \in artifacts}

Life == INSTANCE RunOutcome

\* The requests, and what the processors store, take a run through its life as
\* the workflow engine does: the same promise, whose other half is Workflow's.
UsesRunOutcome == [][Life!Next]_(Life!vars)
===========================================================================
