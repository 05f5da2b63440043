------------------------------ MODULE Workflow ------------------------------
(***************************************************************************)
(* The workflow engine: the worker and, concurrently, the requests of the  *)
(* staff that start it (internal/workflow/service.go, internal/            *)
(* visitanalysis/service.go).  A request to the API goes through several   *)
(* transactions and a call of the queue, and may stop between any two.     *)
(***************************************************************************)
EXTENDS WorkflowWorker

CONSTANT Clients    \* requests the API serves concurrently

VARIABLES
    step,       \* step[c]: the next step of the request c
    subject,    \* subject[c]: the node it is about
    doubled,    \* history: the visits of which a retry has picked a node while
                \* one before it was at work
    unheard     \* history: the visits whose retry was taken for done although
                \* it queued no node that could be carried out

requests == <<step, subject, doubled, unheard>>
vars == <<rows, queue, jobs, overdue, handlers, faults, requests>>

SubmitSteps == {"create", "revert", "start", "attach"}

RequestSteps == SubmitSteps \cup {"idle", "retry", "requeue", "enqueue"}

Init ==
    /\ StoreInit
    /\ QueueInit
    /\ WorkerInit
    /\ step = [c \in Clients |-> "idle"]
    /\ subject = [c \in Clients |-> AnyNode]
    /\ doubled = {}
    /\ unheard = {}

Proceed(c, s) == /\ step' = [step EXCEPT ![c] = s]
                 /\ UNCHANGED <<subject, doubled, unheard>>

Enter(c, s, n) == /\ step[c] = "idle"
                  /\ step' = [step EXCEPT ![c] = s]
                  /\ subject' = [subject EXCEPT ![c] = n]
                  /\ UNCHANGED <<doubled, unheard>>

Finish(c) == /\ step' = [step EXCEPT ![c] = "idle"]
             /\ subject' = [subject EXCEPT ![c] = AnyNode]
             /\ UNCHANGED doubled

Leave(c) == Finish(c) /\ UNCHANGED unheard

---------------------------------------------------------------------------
\* Submitting a visit.

\* Mutant: the state of the visit is not looked at again under its lock.
SubmitAnyState(c, v) ==
    /\ visit' = [visit EXCEPT ![v] = "submitted"]
    /\ Enter(c, "create", First(v))
    /\ UNCHANGED <<run, node, project, delivered, queue, jobs, overdue, handlers, faults>>

Submit(c, v) ==
    /\ PrepareSubmit(v)
    /\ Enter(c, "create", First(v))
    /\ UNCHANGED <<queue, jobs, overdue, handlers, faults>>

\* StartRun creates the run, or fails to.
CreateRun(c) ==
    LET v == subject[c][1] IN
    /\ step[c] = "create"
    /\ \/ InsertRun(v) /\ Proceed(c, "start") /\ UNCHANGED faults
       \/ Fault /\ Proceed(c, "revert") /\ UNCHANGED rows
    /\ UNCHANGED <<queue, jobs, overdue, handlers>>

Revert(c) ==
    /\ step[c] = "revert"
    /\ RevertSubmit(subject[c][1])
    /\ Leave(c)
    /\ UNCHANGED <<queue, jobs, overdue, handlers, faults>>

\* StartRun queues the first node.  The visit is attached to its run even
\* when that fails.
StartFirst(c) ==
    /\ step[c] = "start"
    /\ \/ EnqueueNode(subject[c]) /\ UNCHANGED faults
       \/ Fault /\ UNCHANGED queue
    /\ Proceed(c, "attach")
    /\ UNCHANGED <<rows, jobs, overdue, handlers>>

Attach(c) ==
    /\ step[c] = "attach"
    /\ AttachRun(subject[c][1])
    /\ Leave(c)
    /\ UNCHANGED <<queue, jobs, overdue, handlers, faults>>

---------------------------------------------------------------------------
\* Retrying a visit whose analysis has failed.

Retry(c, v) ==
    /\ visit[v] = "failed"
    /\ Enter(c, "retry", First(v))
    /\ UNCHANGED <<rows, queue, jobs, overdue, handlers, faults>>

\* RetryPayload looks at the nodes, no longer at the state of the visit.
PickNode(c) ==
    LET v == subject[c][1] IN
    /\ step[c] = "retry"
    /\ \/ \E k \in 1..VisitNodes :
             /\ SelectPayload(v, k)
             /\ step' = [step EXCEPT ![c] = "requeue"]
             /\ subject' = [subject EXCEPT ![c] = <<v, k>>]
             /\ doubled' = IF \E i \in 1..(k - 1) : node[<<v, i>>] = "running"
                           THEN doubled \cup {v} ELSE doubled
             /\ UNCHANGED unheard
       \/ Unfinished(v) = {} /\ Leave(c)
    /\ UNCHANGED <<rows, queue, jobs, overdue, handlers, faults>>

\* The node it has picked may have been claimed, and have succeeded, since.
Requeue(c) ==
    LET n == subject[c] IN
    /\ step[c] = "requeue"
    /\ RequeueRun(n[1])
    /\ step' = [step EXCEPT ![c] = "enqueue"]
    /\ unheard' = IF node[n] \in {"queued", "failed"} THEN unheard \ {n[1]}
                                                     ELSE unheard \cup {n[1]}
    /\ UNCHANGED <<subject, doubled, queue, jobs, overdue, handlers, faults>>

---------------------------------------------------------------------------
\* Producing the book.

\* Start creates a run whatever runs there are.
Start(c, r) ==
    /\ InsertRun(r)
    /\ Enter(c, "enqueue", First(r))
    /\ UNCHANGED <<queue, jobs, overdue, handlers, faults>>

Finalize(c, r) ==
    /\ FinalizeBook(r)
    /\ Enter(c, "enqueue", First(r))
    /\ UNCHANGED <<queue, jobs, overdue, handlers, faults>>

\* The last step of Start, Finalize and Retry.  A task that is archived, or at
\* work still, is taken for the new one.
Enqueue(c) ==
    LET n == subject[c] IN
    /\ step[c] = "enqueue"
    /\ EnqueueNode(n)
    /\ Finish(c)
    /\ unheard' = IF n[1] \in Visits /\ task[n] \in {"active", "archived"}
                  THEN unheard \cup {n[1]} ELSE unheard
    /\ UNCHANGED <<rows, jobs, overdue, handlers, faults>>

---------------------------------------------------------------------------
\* An error or a crash ends a request.
Stop(c) ==
    /\ step[c] # "idle"
    /\ Fault
    /\ Leave(c)
    /\ UNCHANGED <<rows, queue, jobs, overdue, handlers>>

Serve(c) == \/ CreateRun(c) \/ Revert(c) \/ StartFirst(c) \/ Attach(c)
            \/ PickNode(c) \/ Requeue(c) \/ Enqueue(c)

Next ==
    \/ WorkerNext /\ UNCHANGED requests
    \/ \E c \in Clients :
          \/ Serve(c) \/ Stop(c)
          \/ \E v \in Visits : Submit(c, v) \/ Retry(c, v)
          \/ \E r \in BookRuns : Start(c, r) \/ Finalize(c, r)

Spec == Init /\ [][Next]_vars

\* A handler and a request go on; asynq delivers every task in the end, the
\* reconciler keeps queueing polls, and deadlines pass.  Nothing makes the
\* staff submit, retry or finalize, and nothing makes a provider call back.
Fairness ==
    /\ \A w \in Workers : WF_vars(Handle(w) /\ UNCHANGED requests)
    /\ \A c \in Clients : WF_vars(Serve(c))
    /\ \A n \in Nodes :
          /\ SF_vars((\E w \in Workers : StartNode(w, n)) /\ UNCHANGED requests)
          /\ SF_vars((\E w \in Workers : StartPoll(w, n)) /\ UNCHANGED requests)
          /\ WF_vars(Reconcile(n) /\ UNCHANGED requests)
          /\ WF_vars(DeadlinePasses(n) /\ UNCHANGED requests)

FairSpec == Spec /\ Fairness

---------------------------------------------------------------------------
\* Every variable holds what the schema and the types of the code allow.
TypeOK ==
    /\ StoreTypeOK
    /\ QueueTypeOK
    /\ WorkerTypeOK
    /\ step \in [Clients -> RequestSteps]
    /\ subject \in [Clients -> Nodes]
    /\ doubled \subseteq Visits
    /\ unheard \subseteq Visits

\* The nodes of r are carried out in order: one that has been started follows
\* one that has succeeded.
InOrder(r) ==
    \A k \in 1..(Last(r) - 1) :
      node[<<r, k + 1>>] # "queued" => node[<<r, k>>] = "succeeded"

\* However tasks are redelivered, polls repeated and handlers interrupted, a
\* node of a book run starts only after the one before it has succeeded, the
\* output of which it is to work on (SucceedNode, EnqueueNode).
BookNodeOrder == \A b \in BookRuns : InOrder(b)

\* The same of analysis runs: a retry starts nothing but the step that failed.
VisitNodeOrder == \A v \in Visits : InOrder(v)

\* A node left running is all that lets a retry disturb that order: an analysis
\* is carried out in order for good, retried or not, unless a retry has found a
\* node at work and queued the one after it (RetryPayload, SucceedNode).
OrderUnlessDoubled == \A v \in Visits \ doubled : InOrder(v)

\* A provider node succeeds by its job's success only: no redelivery, late
\* poll or retry lets it take over another outcome.
NodeAgreesWithJob ==
    \A n \in Nodes :
      ~ IsLast(n) /\ node[n] = "succeeded" => outcome[n] = "succeeded"

\* No crash between two steps of a poll loses the continuation of a run: by
\* the time a successful job counts as consumed, its node has succeeded and
\* the next one has a task or has been started (ProcessProviderPoll).
ConsumedSuccessIsHandedOn ==
    \A n \in consumed :
      outcome[n] = "succeeded" =>
        /\ node[n] = "succeeded"
        /\ node[Following(n)] # "queued" \/ task[Following(n)] # "free"

Predecessor(n) == <<n[1], n[2] - 1>>

\* It is n that its run is to go on with.
Due(n) ==
    /\ run[n[1]] # "none"
    /\ node[n] \in {"queued", "running"}
    /\ n[2] > 1 => node[Predecessor(n)] = "succeeded"

\* A queued node has a task, or is about to be given one, by a request or by a
\* poll of the job before it.
WillStart(n) ==
    \/ task[n] \in {"ready", "active"}
    \/ /\ task[n] = "free"
       /\ \/ \E c \in Clients : step[c] \in {"start", "enqueue"} /\ subject[c] = n
          \/ n[2] > 1 /\ Predecessor(n) \notin consumed

\* A claimed node is at work, or has a job that will be polled.
WillEnd(n) ==
    \/ \E w \in Workers :
          at[w] = n /\ pc[w] \in NodeSteps \ {"claim", "recover", "done", "error"}
    \/ outcome[n] # "none" /\ n \notin consumed

\* What nothing takes up again: a first node that was never queued, one whose
\* task is archived, a claimed node without a job ...
Abandoned(n) ==
    \/ node[n] = "queued" /\ n[2] = 1 /\ task[n] = "free"
    \/ node[n] = "queued" /\ task[n] = "archived"
    \/ node[n] = "running" /\ outcome[n] = "none"

\* ... and one that has been claimed again after the failure of its job had
\* been acknowledged.
AcknowledgedBefore(n) == node[n] = "running" /\ n \in consumed

\* Whatever the order of deliveries, polls and answers, somebody goes on with
\* a node that is queued or running and whose turn has come: only a fault
\* leaves one behind, between creating the run and queueing its first node, by
\* using up the retries of a task, or between the claim of a node and its job
\* (Finalize, EnqueueNode, Process).
OnlyFaultsStrand ==
    \A n \in Nodes :
      Due(n) => \/ node[n] = "queued" /\ WillStart(n)
                \/ node[n] = "running" /\ WillEnd(n)
                \/ AcknowledgedBefore(n)
                \/ faults > 0 /\ Abandoned(n)

\* The staff has had n requeued, which has failed before, and nothing is known
\* that stands in its way.
Retried(n) ==
    /\ node[n] = "failed"
    /\ run[n[1]] = "queued"
    /\ n[1] \in Visits \ (doubled \cup unheard)

\* It has a task that will claim it, or is about to be given one.
WillRestart(n) ==
    \/ task[n] = "ready"
    \/ \E w \in Workers : at[w] = n /\ pc[w] = "claim"
    \/ \E c \in Clients : step[c] = "enqueue" /\ subject[c] = n

\* A retry of the staff takes hold of the node that failed.  Short of a fault
\* it is lost in three ways only, whatever asynq's own retry does meanwhile:
\* the node selected has succeeded by the time the run is queued, or the task
\* that holds its identifier is archived or still at work, or a second node
\* of the analysis is at work (RetryPayload, EnqueueNode).
RetryTakesHold == \A n \in Nodes : Retried(n) => WillRestart(n) \/ faults > 0

\* A run is reported as succeeded only when its product is stored, the PDF of
\* the book or the analysis of the visit, and a project as completed only
\* when a book is.
DeliveredBeforeSucceeded ==
    /\ \A r \in Runs : run[r] = "succeeded" => r \in delivered
    /\ project = "completed" => delivered \cap BookRuns # {}

\* Submitting a visit twice at once starts one analysis: a request about to
\* create the run is alone in doing so and finds no run (PrepareSubmit).
SubmitIsExclusive ==
    \A c \in Clients :
      step[c] = "create" =>
        /\ run[subject[c][1]] = "none"
        /\ \A d \in Clients \ {c} :
             step[d] \in SubmitSteps => subject[d][1] # subject[c][1]

\* A poll carries a run on once: a node that has failed, and whose job is
\* acknowledged, is not started again by another poll of the job before it.
PollsAdvanceOnce ==
    [][\A n \in Nodes :
         node[n] = "failed" /\ n \in consumed /\ task[n] = "free" => task'[n] = "free"]_vars

Life == INSTANCE RunOutcome

\* To the rest of the program the engine is what RunOutcome says, wherever a
\* handler or a request stops and in whichever order the others go on: the
\* product of a run is stored once, before it succeeds, and a run that has it
\* does not fail (FailNode, SucceedNode, Persist, Save).
ImplementsRunOutcome == Life!Spec

\* Callbacks may be lost and handlers interrupted anywhere: every provider
\* job is settled, by its deadline if need be, and acknowledged in the end
\* (ReconcileProviderJobs).  The one exception is a success whose node is
\* failed when it is settled, be it for good or until a retry claims it.
JobIsAcknowledged ==
    \A n \in Nodes :
      outcome[n] # "none" ~> n \in consumed \/ (outcome[n] = "succeeded" /\ node[n] = "failed")

\* A node that has been claimed comes to an end: no run stays in processing
\* for ever.
RunningNodeEnds == \A n \in Nodes : node[n] = "running" ~> node[n] # "running"

Stranded(b) ==
    \E k \in 1..BookNodes : Abandoned(<<b, k>>) \/ AcknowledgedBefore(<<b, k>>)

UnderWay(b) ==
    /\ run[b] # "none"
    /\ \A k \in 1..BookNodes : node[<<b, k>>] # "failed"
    /\ node[<<b, BookNodes>>] # "succeeded"

\* Whatever the provider does and wherever a handler is interrupted, a book
\* run comes to its last node or to a failure; only a run that is stranded
\* stays on its way (Process, ProcessProviderPoll, ReconcileProviderJobs).
BookRunEnds == \A b \in BookRuns : <>[]UnderWay(b) => <>[]Stranded(b)
===========================================================================
