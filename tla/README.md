# Verification of the server's workflows and of the capture of material

TLA+ models of the server in this repository: staff record visits with a person,
the material of a visit is analysed, and a book is produced from it.  The
analysis and the writing are done by external providers, asynchronously, behind
a boundary of idempotent jobs.  That boundary, and the workflow engine on top of
it, are where the hard behaviour is: several processes work on the same rows
without holding locks across their steps, every call may be lost, repeated or
late, and any step may be the last one before a crash.  Around it are the
requests of the staff, which read and write the rows of a project in several
statements, beside each other and beside the runs.

`PROJECT.json` lists the components, the runs, the mutants that show each
property can fail, the source lines behind each definition, the hazards, the
findings and the theorems.

## The system

| Component | State | Operations | Talks to |
|---|---|---|---|
| provider jobs (`internal/providerjobs`) | `provider_jobs`, `provider_attempts`, archived responses | Submit, Refresh, ApplyCallback, PeekTerminal, MarkConsumed, LeaseUnconsumedDue | providers (HTTP), object store |
| workflow engine (`internal/workflow`, `cmd/worker`) | `workflow_runs`, `workflow_nodes`, state of the project | Start, StartRun, Finalize; node task, poll task, reconciler | task queue, provider jobs |
| task queue (asynq on Redis) | node tasks identified by run:node, anonymous poll tasks | enqueue, deliver, retry, archive | worker |
| visit analysis (`internal/visitanalysis`) | state of the visit, `visit_analyses`, status of the plan's items | Submit, Retry, building a node's input, persisting node | workflow engine, visits |
| book rendering (`internal/book`) | `artifacts`, PDFs in the object store | rendering node, download | workflow engine |
| projects and consent (`internal/projects`) | `projects`, `consents`, `collection_plan_items` | create, consent | API |
| visits (`internal/visits`) | `visits`, `visit_plan_items` | create, edit | projects, API |
| callback endpoint (`providerjobs/callback.go`) | none | verify, apply, queue a poll | provider jobs, task queue |
| assets (`internal/assets`) | `assets`, objects | ticket, renew, complete, delete | object store, mini-program |
| staff authentication | staff rows, sessions | log in, authenticate, log out | API |
| mini-program (`miniapp`) | persisted upload queue, session | upload, retry, submit | API |
| mock provider (`providers/mock`) | jobs in memory | submit, status, callback | provider jobs |

A *run* is a sequence of nodes.  The worker claims a node and submits a job for
it; the processor then says that it is waiting, and the node stays *running*.
A poll task refreshes the job.  Once the job is settled, the poll lets the node
succeed or fail, queues the next node's task and only then marks the job
consumed.  A callback settles the job earlier and queues a poll; the reconciler
queues polls of every job that is not consumed, every 30 seconds.  The last node
of a run is carried out by the worker itself.

What is hard, and must nevertheless hold:

- **provider jobs**: three kinds of operation read the row, call out and write,
  concurrently.  A job settles once; its output, its identifier and its evidence
  belong together; it settles in the end whatever the provider does.
- **workflow engine**: at-least-once delivery, four places a poll can stop at, two
  retry mechanisms (asynq's and the staff's).  Nodes run in order, on the
  outcome of their own job, and no crash loses a run's continuation.
- **visit analysis**: concurrent requests, compensation (`RevertSubmit`), retry
  against a run that is still moving.
- **book rendering**: a version number read outside the transaction it is used in,
  by two runs that both write the object of that version.
- **projects and visits**: a visit is edited while it is submitted, created while
  the book is finalized; books and analyses set the state of the project without
  looking at it.
- **assets, upload queue**: tickets that outlive decisions, restarts of the
  mini-program between the ticket and its record.

## Modules

| Module | What it models |
|---|---|
| `JobOutcome` | abstract: what the workflow engine may rely on of a job |
| `ProviderJobs` | the job service, one action per SQL transaction or provider call |
| `ProviderJobsProofs` | its theorems |
| `WorkflowRuns` | runs, nodes and their order |
| `WorkflowStore` | the rows of the engine and the transactions on them |
| `TaskQueue` | asynq as the code uses it |
| `WorkflowWorker` | node tasks, poll tasks, callbacks, reconciler; composes the three above with `JobOutcome` |
| `Workflow` | the worker together with the staff's requests: submit, retry, start, finalize |
| `RunOutcome` | abstract: what the rest of the program may rely on of a run |
| `WorkflowProofs` | theorems about the engine: types, order, outcomes, hand-over |
| `WorkflowOutcomeProofs` | the engine implements `RunOutcome` |
| `WorkflowStrandingProofs` | only faults leave behind a node whose turn has come; a retry of the staff takes hold |
| `MaterialOutcome` | abstract: what the staff may rely on of captured material |
| `Materials` | the asset service, its rows and objects, and the requests in flight |
| `UploadQueue` | the mini-program's upload queue and its page, against `Materials` |
| `UploadQueueProofs` | its theorems |
| `Records` | the rows of a project, its visits and its runs, and the transactions on them |
| `Artifacts` | the books of a project: versions, objects, renderings |
| `Collection` | the requests on these rows, statement by statement, with the analysis and book runs |
| `CollectionProofs` | its theorems |
| `CollectionOutcomeProofs` | the collection takes runs through the life `RunOutcome` allows, and leaves the engine free |
| `MCProviderJobs`, `MCWorkflow`, `MCUploadQueue`, `MCCollection` | the same for TLC: the answers of a provider, symmetry, initial states |

### ProviderJobs

`row[j]` is a row of `provider_jobs`; `raw` stands for
`raw_response_object_key` and is the number of the attempt that archived the
response.  `attempts[j]` is its rows of `provider_attempts`, each with the state
it records and the provider identifier in the response.  `pc[a]` and `op[a]` are
the program counter and the locals of a goroutine `a` that executes an operation:

    Submit / Refresh / ApplyCallback
       read the row            Submit, Refresh, ApplyCallback
       number an attempt       StartAttempt     (transaction, locks the row)
       call the provider       Answer           (not for callbacks)
       record the attempt      FinishAttempt
       write the row           Write            (MarkSubmitted or ApplySnapshot)
    Refresh of an overdue job  Expire
    the consumer               PeekTerminal, MarkConsumed

`Abandon` ends an operation between any two steps: a database, network or
archive error, a cancelled context or a crash.  The provider is a set of answers
(`Replies`): any identifier, output and state, also those the envelope and
identity checks have to refuse.  `SubmitVerdict`, `SnapshotVerdict` and
`ErrorVerdict` are those checks and the reaction to them; an output that does not
pass normalization is `None`.  A callback may arrive as soon as the job's row
exists.  All jobs of one instance belong to one provider, so that
`UNIQUE(provider_kind, provider_job_id)` ranges over all of them (`UniqueIds`), and
over `Taken`, the identifiers that its other jobs have.

`JobOutcome` has three actions: a job is created, settles once, and is consumed
after it has settled.  `ImplementsJobOutcome` maps the rows to it (`Outcome`) and
is checked by TLC and proved.  The workflow modules use `JobOutcome` in place of
the job service: `WorkflowWorker` changes a job by its actions `Create`, `Settle` and
`Consume` only, guards included.

### Workflow

`run`, `node`, `visit` and `project` are states of rows, `delivered` the runs that
have a product (an artifact or a visit analysis).  `task[n]` is the node task with
identifier run:node, which is free, waiting, executed or archived; `polls[n]`
counts the waiting polls of the node's job.  A handler `w` of the worker is at
step `pc[w]` of the task for node `at[w]`, a request `c` of the API at `step[c]`.
`Fault` guards everything that goes wrong by chance: a handler may be interrupted
at any step (its task is then redelivered or archived), a request may stop at any
step, a statement whose error the code ignores may fail, a callback may die
between its transaction and the queueing of the poll.

A retry of the staff is four steps: the state of the visit (`Retry`); the SELECT of
`RetryPayload`, which takes no lock (`PickNode`, `SelectPayload`); its two UPDATEs, which
do not look at the node again (`Requeue`, `RequeueRun`); and `EnqueueNode` (`Enqueue`).
asynq's own retry may claim the node, fail it again, or carry it to its end between any
two.  `doubled` remembers the visits of which a later node was picked because the one
before it was at work, `unheard` those whose retry was taken for done although the node
had moved on, or its task was archived or still at work.

### RunOutcome

`RunOutcome` is what the engine promises the rest of the program: the row of a run, the
state of its visit and of the project, and the runs that have a product, without nodes,
tasks, polls, jobs or handlers.  A run is inserted, claimed, fails, delivers its product
and succeeds; the staff submits, reverts, attaches and retries in between.  `Deliver`
happens once, `Succeed` only after it, and `Fail` (`MayFail`) only before, unless a retry
has put two nodes of an analysis to work at once (`Double`, `doubled`).  `Claim` may follow
at any time, as `ClaimNode` writes the run in a second statement that does not look at its
state, and so may `Requeue`, the updates of a retry, also when the product has been stored
since it selected its node.

It is used from both sides, as `JobOutcome` is.  `Workflow` implements it
(`ImplementsRunOutcome`); `Collection`, which has the same rows with everything else that
reads and writes them, takes a run through no other step (`UsesRunOutcome`).

### Materials and UploadQueue

`calls` are the requests being served or answered: what is asked (`kind`), by whom
(`by`), and the statement that comes next, or the answer (`step`).  A request goes
on when its sender has been closed or has stopped waiting; nobody then gets its
answer.  `asset` is the state of the rows, `objects` what the object store holds.

    initiate    CheckVisit, Create         complete   Complete, Stat, MarkUploaded
    list        ListByVisit                delete     DeletePending, Remove
    renew       RenewUpload                put        PutObject

The mini-program has one thread, hence one action per stretch of code between two
awaits.  `loop` is where `resume` is with its current item, `todo` the rest of the
copy of the queue it walks, `listed` and `entry` the queue.  Every change of the
queue that the next await could see is persisted before it, so that memory and
storage are one variable, and `Restart` loses `loop`, `todo`, files still being
saved and the page's `removing`, and turns *uploading* into *local*.

    resume            Resume, NextItem, RemoveLocalFile, Drop, Fail, EndResume
    uploadQueuedAsset NextItem, LookedUp, Renewed, Initiated
    uploadAsset       ReadFile, PutDone, Completed
    addFile           SaveCapturedFile, Add
    renameItem, associateItem   Edit (the field is shown), RenameItem
    removeItem        RemoveItem, Deleted, RemoveSavedFile, RemoveListed
    submitVisit       AskSubmit, SubmitVisit (on the server), SubmitBreaks

An item can be renamed or associated with a task while nothing is uploaded and it has no
asset, but only the field's visibility says so: the event that brings the new name may
come when the upload has begun, as the tap on the button takes the focus from the field.
`add` then puts a copy in the queue in place of the entry, and `resume` goes on writing into
the old one.  `detached` are the items of which that is so: what `Write` records is lost
to their `entry`, and the loop goes on with what it holds itself (`loop.ticket`, the
answers).  `replaced` and `forgetful` remember them.  One item is edited at a time.

The page does not offer removal or submission while it shows an upload, and the
model starts neither then; a removal that has begun goes on beside a later upload,
of the same item too.  `submission` tells who waits for the request that submits the
visit: the page looks at its queue when the staff asks, the server acts two awaits
later, or when the page is gone already, and an upload or a file that is still being
saved may come in between.

`MaterialOutcome` is what all this promises the staff, without requests, rows of assets
or steps of a loop: which items have a file on the device, have been in the queue, are
on the server with their object, have been dismissed.  What the server has stays there; a
file is discarded only for material the server has or the staff has dismissed; and the
staff can ask to submit the visit only when that holds of everything that has been in
the queue.  `UploadQueue` implements it (`ImplementsMaterialOutcome`).

### Collection

`Workflow` has the inside of a run and little of what is around it; `Collection` has
one project with everything that writes its rows, and of a run only what the other
rows see: it is claimed, reads its visit, fails, or produces something.

`Records` is `project`, `consented`, `item` (the plan), `visit`, `sequence`, `content`
(notes and plan items of a visit), `analysed` (rows of `visit_analyses`) and `run`.  A
transaction is one action, unless it locks the row of the project and then reads in
several statements: it holds `lock` meanwhile.  What changes the project's state waits
for the lock, and so does what inserts a row that refers to the project (`KeyShare`:
a foreign key takes a key share of the row).  `step[c]` is the statement that comes
next in request `c`:

    create a visit   CreateVisit, NumberVisit, AddVisit        (number, insert)
    edit a visit     Edit, LoadPlanItems, WriteEdit            (load, write)
    submit           Submit, StartAnalysis, Attach or Revert   (create, attach, revert)
    retry            Retry, PickNode, Requeue                  (retry, requeue)
    finalize         Finalize, FinalizeGate, Produce           (gate, produce)
    consent, start   ConfirmConsent, Start

`Stop` ends a request between any two of them.  The nodes of an analysis read the
notes and the plan in two statements (`ReadNotes`, `ReadPlan`), which is what an
analysis is made of (`inputs`); `FailAnalysis`, `StoreAnalysis` and `SucceedAnalysis`
are their ends.  They may come between `PickNode` and `Requeue`, as the SELECT of
`RetryPayload` takes no lock and its UPDATEs have no condition. The known race of a
retry against a run that moves (`visit_retry_order`) leaves two nodes of one run at
work; `doubled` names these visits, since one node may then fail after the other has
stored the analysis. `Claim` is the late statement of `ClaimNode`: it may come at any
time.
`Artifacts` renders in three steps: read the next version, put the object, insert
the row; a rendering that fails leaves its object behind.

## Runs

| Run | Instance | Shows |
|---|---|---|
| `jobs_safety` | 1 job, 2 operations, 3 calls, 2 identifiers, 11 answers | types, evidence, settlement, ownership of attempts, finality, `JobOutcome` |
| `jobs_liveness` | 1 job, 2 operations, 2 calls, 2 identifiers, one of them another job's, fair | every job is settled and acknowledged, although one write may be refused for ever |
| `workflow_book` | 2 provider nodes and the rendering, 2 handlers, 2 faults | order, outcomes, hand-over, products |
| `workflow_visit` | 1 provider node and the persisting one, 2 handlers, 2 requests, 1 fault | exclusive submission, order, outcomes, hand-over, products; only faults strand, retries take hold; `RunOutcome` |
| `workflow_liveness` | 1 provider node and the rendering, 2 handlers, 2 faults, fair | every job is acknowledged, and a book run ends or is stranded in one of four ways |
| `upload_safety` | 2 items, 3 assets, 2 faults and edited items | no material is lost, taken for uploaded without its object, or left behind by a submission; `MaterialOutcome` |
| `upload_liveness` | 1 item, 3 assets, 2 faults, any number of edits, fair | what is in the queue is uploaded, and once |
| `collection` | 2 visits, 1 item of the plan, 2 book runs, 2 requests | numbering, what analyses and books are made from, what project and visit show, versions, `RunOutcome` |

Four runs end in a violation, each of a sentence of the design documents:

| Run | Sentence | What the code does |
|---|---|---|
| `jobs_transport_timeout` | network interruptions are retryable | a provider call that exceeds the HTTP client's 30 s settles the job as `timed_out` |
| `visit_retry_order` | a retry resumes only the failed step | when asynq has just claimed the failed step again, the retry starts the one after it |
| `visit_retry_hangs` | a failure leaves nothing in processing for ever | a retried node finds its old, consumed job, and is running for ever |
| `late_poll` | repeated polls do not advance a run twice | two polls past `PeekTerminal` both queue the next node, which may have failed meanwhile |

**Bounds.** `MaxAttempts` bounds provider calls of a job: three is one more than what it
takes for two operations to overlap and for a third call to come after both. Two actors
are enough for every overlap of a read and a write, since an operation's locals are its
own and its effect on the row is one transaction. `MaxPolls` caps the waiting polls of
one job at one: the polls carry nothing but the job, the two handlers may each be
executing one more, and a poll taken leaves room for the next. `MaxRetry` is 3 in the
code and 1 here: one retry is what distinguishes a task that comes back from one that is
archived. `MaxFaults` is two: one between two steps and one in the recovery; in
`workflow_visit`, where two requests come in between, it is one. A book run has seven nodes in the code and an analysis five; three have
a first, a middle and a last one, two a first and a last, and the engine looks no
further than the following node. Two items are what the queue needs for one to be added,
removed or passed over while the loop works on the other. The server never runs out of
identifiers: a fault costs an item at most one asset, so that three are enough for one
item and two faults (`upload_liveness`). With two items they are not always enough, and
a behaviour of `upload_safety` then ends early. There an item that is edited counts as a
fault, and while one is, no other is captured or removed (`Bounds`); `upload_liveness`
has no such bound.

The whole life of a project with two visits and two book runs is too large for TLC.
`collection` starts from two kinds of states instead (`BooksProduced`,
`VisitAnalysed`), which the program reaches from `Init`: the books have been produced,
and the visits are recorded and analysed from the beginning; or one visit has been
analysed, and the books are produced beside all that happens to the other one.  That
leaves out two visits that are analysed beside two renderings; the theorems, which
are about all behaviours from `Init`, do not.  Contents of visits differ by their plan
only (`Notes` has one value, the plan two), which is enough to tell a read before an
edit from one after it.  Two requests are what it takes for any two to overlap, and
one item may be covered, lacking or both.  The constraint `Bounds` cuts two corners of
what remains: while two nodes of an analysis are at work, or a run that has its product is
shown as running (the late statement of `ClaimNode`), no request is served but a retry
about to queue that run; and no request is served along with a retry between its SELECT
and its UPDATEs.  The run is then about two million states, or three minutes.

Deadlock is not checked: a system whose runs have ended, whose staff does nothing
and whose bounds are used up has no step left, as it should be.

**Fairness.**  In `ProviderJobs` a step under way is taken (`WF` of `Advance`; it
may be taken as `Abandon`), the reconciler's polls come again and again (`SF` of
`Refresh` and `PeekTerminal`, since the row may change while a poll waits for a
worker) and the two database writes that end a job, `Expire` and `MarkConsumed`,
do not fail every time they are tried.  No fairness is assumed of the provider:
`Answer` may be any answer at any time, and callbacks may never come.  In
`Workflow` handlers and requests go on, asynq delivers a waiting task in the end
although other tasks compete for the workers, the reconciler's ticker ticks, and
deadlines pass.  The staff need not do anything.

A run need not end: the code has no transaction around a row and the queue, and a
fault between the two leaves a node behind.  `BookRunEnds` says exactly where:
`Stranded` lists a first node that was never queued, an archived task, a claimed node
without a job (`Abandoned`), and a claimed node whose job has been acknowledged before
(`AcknowledgedBefore`).  In all other cases the run comes to its last node or to a
failure.  Each of the four occurs in the run; without any one of them the property is
violated.  `OnlyFaultsStrand` is the safety half of it, for analyses too: for a node that
is queued or running and whose turn has come (`Due`) somebody is there in every state, a
task, a poll of an unacknowledged job, a handler or a request, or there has been a fault
and the node is `Abandoned`, or it is one `AcknowledgedBefore`, which needs no fault.

That says nothing of a node that has failed and that the staff wants carried out again.
`RetryTakesHold` does: when the run of a failed node is *queued* again, a task that will
claim the node is there, or a request about to queue one.  Short of a fault a retry is lost
in three ways, and in these the run may be shown as queued, and the visit as *analyzing*,
although nobody is at it: the node that was selected has succeeded before the UPDATEs, and
the one after it has failed; the task that has its identifier is archived, or still at
work, so that `EnqueueNode` adds none (`unheard`); or a second node of the analysis is at
work (`doubled`).  The property is of runs shown as *queued*: a late second statement of
`ClaimNode` may show one as running.

In `UploadQueue` the server serves
the queue's requests, the loop goes on with the answers, and the page is shown
again (`onShow` resumes the queue) or the staff asks for the upload, as long as
something is queued.  Requests of a closed client, removals and submissions need
not go on.

## Proofs

`ProviderJobsProofs` proves for all constants that satisfy `ProviderJobsAssumption`
(any number of jobs, actors, identifiers, answers and calls):

- `TypeCorrect`, `EvidenceHolds`, `OwnershipHolds`, `SettlementHolds`: the four
  invariants of `jobs_safety`;
- `SettledStays`, `ProviderIdStays`: its two action properties;
- `Refinement`: the service implements `JobOutcome`.

`EvidenceMatchesState` is not inductive.  That the attempt a row points to keeps
the state it records depends on nobody else finishing an attempt with that
number, hence on the numbering (`AttemptHasOneOwner`, `OperationInv`); that the
write stores the number of an attempt recorded with the state written depends on
what an operation has done before (`WriterInv`); and that `MarkSubmitted`, which
changes the state and leaves the evidence alone, does no harm depends on its
condition `provider_job_id IS NULL`, which no row with evidence of an open state
meets (`RowInv`), because only answers that carry an identifier leave a job open
(`SoundVerdict`).  `EvidenceInv` is the conjunction; `EvidenceInvariant` proves
it, with one step per action.  The refinement and the action properties follow
from it.  `SettledIsAccountedFor` needs in addition that a recorded attempt stays
recorded (`RecordedStays`) and is proved on top (`SettledInv`).

`WorkflowProofs` proves for any number of runs, nodes, handlers, requests, retries and
faults the types (`EngineTypes`), the four safety invariants of the workflow runs
(`BooksAreInOrder`, `NodesAgreeWithJobs`, `SuccessIsHandedOn`, `ProductsComeFirst`),
and `SubmitsAreExclusive`.  With `Refinement` above, the two proofs meet at
`JobOutcome`: the job service implements what the engine uses.  The properties
speak of rows, but whether the next step keeps them depends on where the handlers
are.  `EngineInv` therefore says what a handler may rely on at each step (`Relies`:
who is about to queue the next node has recorded the success; who is about to
acknowledge a success has queued it), that one handler at most executes a node's
task (`TaskInv`), which jobs exist, are polled or acknowledged (`JobInv`), how far a
book run must have come for a node to be queued (`OrderInv`, which a late poll does
not break, as the node before has succeeded for good), and what a request finds
between its transactions (`RequestInv`).  The rows, the jobs and the queue change by
a few transactions each; the proof first reduces every step to these.

An analysis is in order until a retry of the staff has found one of its nodes at work
and queued the one after it (`AnalysesAreInOrder`).  `doubled` remembers these visits;
`OrderInv` holds of all the others, so that the race of `visit_retry_order` is the only
one that disturbs the order, in analyses of any length.

`WorkflowOutcomeProofs` proves that the engine implements `RunOutcome`
(`RunsAreAsPromised`).  What a step does to the rows is a step of `RunOutcome` at once,
except that a run may not fail once it has its product.  That takes `ProductInv`: from the
moment the product is stored the last node is *running* or *succeeded*, and its handler
is past the step that could fail it; and `LastInv`, that nobody but its handler changes a
last node that has been claimed.  A retry that selected its node before the product was
stored takes the step `Requeue` all the same, and one that finds the node before at work
has its own step, `Double`, which a run with a product cannot take, its nodes having
succeeded.

`WorkflowStrandingProofs` proves `OnlyFaultsStrand` (`FaultsAloneStrand`).  `EngineInv`
already says that a node whose predecessor has succeeded has a task unless the
predecessor's job is still to be acknowledged.  `FaultlessInv` adds what holds as long as
there has been no fault: a new run's first node has a task or a request about to queue
it (`FirstInv`), a claimed node without a job is in its handler's hands (`WorkInv`), and
the task of a queued node is not archived (`ArchiveInv`).  A step of a handler that is
not a fault keeps these (`Calm`), and faults are counted, never taken back.

`RetriesTakeHold`, in the same module, proves `RetryTakesHold`.  The worker fails no node
of a run that is queued again without showing the run as failed (`WorkerRetriesNothing`),
and gives a waiting task up only by claiming its node (`WorkerRestarts`).  That the node
which a retry has selected is the one that has failed takes the order of the nodes: both
have every node before them succeeded, and neither has succeeded (`RequeueTakesHold`).

`UploadQueueProofs` proves for any number of items, assets and faults the types
(`UploadTypes`), `NothingIsLost`, `UploadsAreStored` and `UploadsHappenOnce`.
`UploadInv` says what a request at each of its statements, and an answer that is still
under way, tell about the item and its asset (`CallInv`), that the loop waits for one
answer at most and where it is with its item and its ticket (`OneCall`, `LoopInv`), that
an asset is of the item it was created for, and is the one the entry of an item remembers,
unless that has been forgotten (`OwnerInv`), and that files being saved and the copy of
the queue are of items the rest does not touch (`ItemInv`).  A completion that has seen
the object relies on it until it marks the asset: the object is there, or the asset
is already deleted and the mark is refused.

`MaterialIsAsPromised`, in the same module, is the refinement of `MaterialOutcome`.
Each step is one of its steps or is not seen; `UploadInv` supplies why.  The ticket the
loop records is of an asset nobody has completed (`CallInv`, `OwnerInv`), so that a
material is stored only where the server marks it; an item that a restart sets back to
*local* without an asset is still in the queue (`KeptInv`).  Only the submission needs an
invariant of its own, `CompletedInv`: an item is *completed* only when the server has its
material.

`CollectionProofs` proves for any number of visits, book runs, items and requests all
ten invariants of `collection`, from `Init`.  `CollectionInv` adds to them who holds
the lock and which visit a request works on (`RequestInv`), that what was found under
the lock, the next number or that no run is queued, is still so (`NumberInv`,
`FinalizeInv`), that a submission is alone with its visit until its run exists
(`SubmitInv`), that only visits past draft have runs (`VisitInv`, which is why no edit
reaches an analysis), and for the renderings that a version read is the next one or
one that has been saved since (`VersionInv`).  `LatestBookIsItsOwn` is the subtle one:
two runs may put their PDFs at one key, and the loser's object stays there.
`ObjectInv` says that the loser, which cannot save that version, either has saved none
yet or has saved a later one; once all runs have succeeded, the PDF at the latest
version is thus of the run that saved it.

`CollectionOutcomeProofs` proves that every behaviour of the collection is one of
`RunOutcome` (`LifeIsAsPromised`, `RunsAreUsedAsPromised`), the specification the engine
implements.  That alone would hold of a collection whose runs never do anything, so
`EngineIsFree` states the converse: whenever `RunOutcome` lets a run be claimed, fail or
succeed, and no request holds the lock of the project, the collection has that step.
`Deliver` is left out there, as the collection says more about it: what the product is
made of.  So what is proved about the rows of a project holds whatever the inside of
the engine does, as long as it keeps its promise, which is the theorem on the other side.

Only model-checked are the liveness properties (`CreatedIsConsumed`,
`JobIsAcknowledged`, `BookRunEnds`, `QueuedIsUploaded`), which are out of the prover's reach, and the
four violations.

## What the models show beside the properties

These follow from the code and are modelled; no document promises otherwise, so that
no property or finding is about them.

- `Start` creates a book run without asking for consent, submitted visits or another
  run; only the finalization does.  asynq may also take up the failed node of an old
  run after a new one has been finalized.  Two book runs may therefore be at work.
- The finding of `visit_retry_hangs` has a sibling without the staff: when the
  submission of a job fails it, the processor may end in an error, and asynq's own retry
  claims the node again, whose old job is acknowledged.  It is the fourth
  way to be stranded, and needs no fault.
- The second statement of `ClaimNode` sets the run to *running* without looking at it.
  After a pause before it, the run may have ended meanwhile: it is then shown as
  running for ever, and `Finalize` gives it back instead of creating another.
- A rendering that loses the race for a version has by then overwritten the object of
  the one that is saved: until the loser has a version of its own, the download is
  the loser's PDF (`LatestBookIsItsOwn` is about the time after).
- A retry of the staff that has selected the last node before asynq's own retry claims it,
  and queues the run after that one has stored the analysis, leaves the visit *analyzing*
  for good, although its analysis is there, and the run *queued* if it had succeeded by
  then: the node is not claimed again, and a visit that is *analyzing* not retried.
- A retry whose node has an archived task queues nothing: the run is *queued* and the visit
  *analyzing* with a failed node that nothing takes up.
- Renaming or associating an item may take effect after its upload has begun.  If the
  upload fails, the item in the queue says *uploading*, and neither `resume` nor the page
  takes it up until the mini-program is started again; if the answer to the completion is
  lost, that start uploads it once more, as a second asset, since the copy does not know
  the first.  `QueuedIsUploaded` and `UploadedOnce` exempt such items, and no others.
- `AttachRun` sets a visit to *analyzing* although its analysis may have been stored
  and the visit completed meanwhile.
- A visit stays *submitted* when its request dies before the run is created, or when
  the compensation fails with the request's own cancelled context.
- Of two edits of a visit that overlap, the later one writes all fields.
- The finalization accepts a submitted visit that is set back to draft right after.
- A file that is still being saved when the staff submits joins the queue of a submitted
  visit, where every upload of it is refused.  `MaterialOutcome` calls it late.

## Not modelled, and abstractions

- The mini-program's session and other pages, staff authentication, the mock
  provider and the API wiring: see `PROJECT.json`, with the reason for each.
- Of projects and visits, what changes nothing: listings, the dashboard, ownership of
  a project and validation of one request; of books, the HTML and the manuscript.
- An INSERT whose answer is lost: a rendering that fails has not inserted its row.
- Deadlocks of the database: of two transactions that wait for each other PostgreSQL
  ends one, which is a request that stops or a node that fails.
- Of assets, validation, plan items and listings by kind; a ticket that has expired
  is a refused request.  Completing an asset with another digest does not occur,
  since the file of an item never changes.
- An item's name and association themselves; two fields that are edited at once.
- The material check before a visit is submitted is taken as passed.
- A transaction whose commit reports an error is taken as rolled back.
- A visit has one run, which goes by the visit's name: a second one needs a commit
  whose outcome is unknown.
- The goroutine of a task that asynq has given up on after its timeout is taken as
  stopped.
- How often a poll task is retried is not counted: it may be retried or given up.
- The lease of the reconciler is left out; it spaces polls and excludes nothing.
- The content of outputs, manuscripts and analyses, HTTP details and error texts.

## Plan

1. *Done*: the provider job service with its proofs; the workflow engine.
2. *Done*: the asset service with the mini-program's upload queue and its restarts.
3. *Done*: artifacts; visits, projects and consent; a project with its analysis and
   book runs together.
4. *Done*: proofs for the workflow engine, the upload queue and the collection.
   *Done*: `RunOutcome`, the engine's proof that it implements it and the collection's
   that it asks for no more; what strands a run; `MaterialOutcome` and the upload
   queue's proof that it implements it.
5. The identifier of a settled job's evidence (`providerjobs/service.go:205`), as an
   invariant over `attempts`.
6. The rendering and persisting nodes with an INSERT whose answer is lost, and visits
   with a second run.
7. The mini-program's session and staff authentication, if a document comes to promise
   something of them that two requests could break.
