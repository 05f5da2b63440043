--------------------------- MODULE WorkflowProofs ---------------------------
(***************************************************************************)
(* Proofs about the workflow engine, for any number of runs, nodes,        *)
(* handlers, requests, retries and faults.                                 *)
(***************************************************************************)
EXTENDS Workflow, TLAPS

\* What a handler may rely on between its steps, whatever happens meanwhile.
Relies(n, s) ==
    /\ s \in NodeSteps => task[n] = "active"
    /\ s \in NodeSteps \ {"claim"} => node[n] # "queued"
    /\ s \in {"remote", "wait"} \cup PollSteps => outcome[n] # "none"
    /\ s = "succeed" => IsLast(n) /\ n[1] \in delivered
    /\ s \in {"peek", "settle", "hand on", "consume"} => outcome[n] \in Job!Settled
    /\ s = "hand on" => outcome[n] = "succeeded" /\ node[n] = "succeeded"
    /\ s = "consume" /\ outcome[n] = "succeeded" =>
         /\ node[n] = "succeeded"
         /\ node[Following(n)] # "queued" \/ task[Following(n)] # "free"

HandlerInv == \A w \in Workers : Relies(at[w], pc[w])

\* One handler at most executes the task of a node.
TaskInv ==
    \A w, x \in Workers :
      pc[w] \in NodeSteps /\ pc[x] \in NodeSteps /\ at[w] = at[x] => w = x

\* Jobs are created for provider nodes only, and acknowledged only when they
\* have settled.  Only jobs are polled.
JobInv ==
    \A n \in Nodes :
      /\ IsLast(n) => outcome[n] = "none"
      /\ n \in consumed => outcome[n] \in Job!Settled
      /\ polls[n] > 0 => outcome[n] # "none"

\* The run of n has come as far as n.
Reached(n) == \A k \in 1..(n[2] - 1) : node[<<n[1], k>>] = "succeeded"

\* A node that has been queued belongs to a run, and to one that has come this
\* far unless a retry has found a node at work.
OrderInv ==
    \A n \in Nodes :
      node[n] # "queued" \/ task[n] # "free" =>
        /\ run[n[1]] # "none"
        /\ n[1] \notin doubled => Reached(n)

\* A request to submit a visit is alone with it until it has created the run.
\* The node that a request is to queue is one that may be queued.
Serving(c) ==
    LET r == subject[c][1] IN
    /\ step[c] \in SubmitSteps \cup {"retry"} => r \in Visits /\ subject[c] = First(r)
    /\ step[c] \in {"create", "revert"} =>
         /\ visit[r] = "submitted"
         /\ run[r] = "none"
         /\ \A d \in Clients \ {c} : step[d] \in SubmitSteps => subject[d][1] # r
    /\ step[c] \in {"start", "attach", "retry", "requeue", "enqueue"} => run[r] # "none"
    /\ step[c] = "requeue" => r \in Visits
    /\ step[c] \in {"requeue", "enqueue"} /\ r \notin doubled => Reached(subject[c])

RequestInv ==
    /\ \A v \in Visits : visit[v] \in {"draft", "submitted"} \/ run[v] # "none"
    /\ \A v \in Visits : visit[v] = "draft" => run[v] = "none"
    /\ \A c \in Clients : Serving(c)

EngineInv ==
    /\ TypeOK
    /\ HandlerInv
    /\ TaskInv
    /\ JobInv
    /\ OrderInv
    /\ RequestInv
    /\ NodeAgreesWithJob
    /\ ConsumedSuccessIsHandedOn
    /\ DeliveredBeforeSucceeded

---------------------------------------------------------------------------
\* The nodes of a run: the first one is there, every other follows one.
LEMMA NodesOfRuns ==
    /\ AnyNode \in Nodes
    /\ \A r \in Runs : First(r) \in Nodes /\ First(r)[1] = r /\ First(r)[2] = 1
    /\ \A n \in Nodes :
         /\ n[1] \in Runs /\ n[2] \in Nat /\ n[2] >= 1 /\ n = <<n[1], n[2]>>
         /\ \A k \in 1..(n[2] - 1) : <<n[1], k>> \in Nodes
         /\ ~ IsLast(n) => /\ Following(n) \in Nodes
                           /\ Following(n)[1] = n[1]
                           /\ Following(n)[2] = n[2] + 1
                           /\ <<n[1], Following(n)[2] - 1>> = n
PROOF
<1> USE WorkflowRunsAssumption DEF Nodes, Runs, First, Following, IsLast, Last
<1>1. AnyNode \in Nodes
  BY WorkflowWorkerAssumption DEF AnyNode
<1>2. ASSUME NEW n \in Nodes
      PROVE  n[1] \in Runs /\ n[2] \in Nat /\ n[2] >= 1 /\ n = <<n[1], n[2]>>
  OBVIOUS
<1>4. ASSUME NEW n \in Nodes, NEW k \in 1..(n[2] - 1) PROVE <<n[1], k>> \in Nodes
  BY <1>2, <1>4
<1>3. ASSUME NEW n \in Nodes, ~ IsLast(n)
      PROVE  /\ Following(n) \in Nodes
             /\ Following(n)[1] = n[1]
             /\ Following(n)[2] = n[2] + 1
             /\ <<n[1], Following(n)[2] - 1>> = n
  BY <1>2, <1>3
<1> QED
  BY <1>1, <1>2, <1>3, <1>4

\* The initial state satisfies the inductive invariant.
LEMMA EngineInit == Init => EngineInv
PROOF
<1> SUFFICES ASSUME Init PROVE EngineInv
  OBVIOUS
<1> USE DEF Init, StoreInit, QueueInit, WorkerInit, Job!Init
<1>1. TypeOK
  BY NodesOfRuns, TaskQueueAssumption, WorkflowWorkerAssumption
     DEF TypeOK, StoreTypeOK, QueueTypeOK, WorkerTypeOK, RunState, NodeState, VisitState, ProjectState,
         TaskState, OutcomeState, RequestSteps
<1>2. HandlerInv /\ TaskInv
  BY DEF HandlerInv, Relies, TaskInv, NodeSteps, PollSteps
<1>3. JobInv /\ OrderInv
  BY DEF JobInv, OrderInv
<1>4. RequestInv
  BY DEF RequestInv, Serving, SubmitSteps, Runs
<1>5. NodeAgreesWithJob /\ ConsumedSuccessIsHandedOn /\ DeliveredBeforeSucceeded
  BY DEF NodeAgreesWithJob, ConsumedSuccessIsHandedOn, DeliveredBeforeSucceeded
<1> QED
  BY <1>1, <1>2, <1>3, <1>4, <1>5 DEF EngineInv

---------------------------------------------------------------------------
\* The transactions by which a step changes the rows, and where it does.
RowsOf(w) ==
    LET n == at[w] IN
    \/ pc[w] = "claim" /\ ClaimNode(n)
    \/ pc[w] = "claimed" /\ MarkRunRunning(n[1])
    \/ pc[w] = "work" /\ IsLast(n) /\ (SaveArtifact(n[1]) \/ Persist(n[1]))
    \/ pc[w] = "succeed" /\ SucceedNode(n)
    \/ pc[w] = "settle" /\ outcome[n] = "succeeded" /\ SucceedNode(n)
    \/ pc[w] \in {"fail", "settle"} /\ FailNode(n)

RowsOfRequest(c) ==
    LET r == subject[c][1] IN
    \/ step[c] = "create" /\ InsertRun(r)
    \/ step[c] = "revert" /\ RevertSubmit(r)
    \/ step[c] = "attach" /\ AttachRun(r)
    \/ step[c] = "requeue" /\ RequeueRun(r)
    \/ \E v \in Visits : PrepareSubmit(v)
    \/ \E b \in BookRuns : InsertRun(b)

\* The worker writes rows by these transactions only.
LEMMA WorkerRows ==
    ASSUME WorkerNext
    PROVE  UNCHANGED rows \/ \E w \in Workers : RowsOf(w)
PROOF
<1>1. ASSUME NEW w \in Workers, Handle(w) PROVE UNCHANGED rows \/ RowsOf(w)
  <2>1. CASE Claim(w) \/ ClaimRun(w) \/ Produce(w)
    BY <2>1 DEF Claim, ClaimRun, Produce, RowsOf
  <2>2. CASE Succeed(w) \/ Fail(w) \/ Settle(w)
    BY <2>2 DEF Succeed, Fail, Settle, RowsOf
  <2>3. CASE SubmitJob(w) \/ CallProvider(w) \/ Wait(w) \/ Recover(w) \/ EndNode(w) \/ Refresh(w)
    BY <2>3 DEF SubmitJob, CallProvider, Wait, Recover, EndNode, Refresh
  <2>4. CASE SettleOpen(w) \/ FindSettled(w) \/ PollAgain(w) \/ Peek(w) \/ HandOn(w) \/ Consume(w)
    BY <2>4 DEF SettleOpen, FindSettled, PollAgain, Peek, HandOn, Consume
  <2> QED
    BY <1>1, <2>1, <2>2, <2>3, <2>4 DEF Handle
<1>2. ASSUME NEW w \in Workers,
             \/ ProcessorFails(w) \/ Interrupt(w)
             \/ \E n \in Nodes : StartNode(w, n) \/ StartPoll(w, n)
      PROVE  UNCHANGED rows
  BY <1>2 DEF ProcessorFails, Interrupt, StartNode, StartPoll
<1>3. ASSUME NEW n \in Nodes, Callback(n) \/ Reconcile(n) \/ DeadlinePasses(n)
      PROVE  UNCHANGED rows
  BY <1>3 DEF Callback, Reconcile, DeadlinePasses
<1> QED
  BY <1>1, <1>2, <1>3 DEF WorkerNext

\* So do the worker and the requests together.
LEMMA RowsStep ==
    ASSUME Next
    PROVE  \/ UNCHANGED rows
           \/ \E w \in Workers : RowsOf(w)
           \/ \E c \in Clients : RowsOfRequest(c)
PROOF
<1>1. ASSUME NEW c \in Clients, Serve(c) \/ Stop(c) PROVE UNCHANGED rows \/ RowsOfRequest(c)
  BY <1>1 DEF Serve, CreateRun, Revert, StartFirst, Attach, PickNode, Requeue, Enqueue, Stop, RowsOfRequest
<1>2. ASSUME NEW c \in Clients, NEW v \in Visits, Submit(c, v) \/ Retry(c, v)
      PROVE  UNCHANGED rows \/ RowsOfRequest(c)
  BY <1>2 DEF Submit, Retry, RowsOfRequest
<1>3. ASSUME NEW c \in Clients, NEW r \in BookRuns, Start(c, r) \/ Finalize(c, r)
      PROVE  RowsOfRequest(c)
  BY <1>3 DEF Start, Finalize, FinalizeBook, RowsOfRequest
<1> QED
  BY <1>1, <1>2, <1>3, WorkerRows DEF Next

---------------------------------------------------------------------------
\* How a step changes the provider jobs.
JobsOf(w) ==
    LET n == at[w] IN
    \/ ~ IsLast(n) /\ Job!Create(n)
    \/ pc[w] \in {"remote", "expire", "ask"} /\ Job!Settle(n)
    \/ pc[w] = "consume" /\ Job!Consume(n)

\* Jobs are created, settled and acknowledged, and nothing else.
LEMMA JobsStep ==
    ASSUME Next
    PROVE  \/ UNCHANGED jobs
           \/ \E w \in Workers : JobsOf(w)
           \/ \E n \in Nodes : Job!Settle(n)
PROOF
<1>1. ASSUME NEW w \in Workers, Handle(w) PROVE UNCHANGED jobs \/ JobsOf(w)
  <2>1. CASE SubmitJob(w) \/ CallProvider(w) \/ SettleOpen(w) \/ Consume(w)
    BY <2>1 DEF SubmitJob, CallProvider, SettleOpen, Consume, JobsOf
  <2>2. CASE Claim(w) \/ ClaimRun(w) \/ Produce(w) \/ Succeed(w) \/ Fail(w) \/ Settle(w)
    BY <2>2 DEF Claim, ClaimRun, Produce, Succeed, Fail, Settle
  <2>3. CASE Wait(w) \/ Recover(w) \/ EndNode(w) \/ Refresh(w) \/ FindSettled(w) \/ PollAgain(w)
             \/ Peek(w) \/ HandOn(w)
    BY <2>3 DEF Wait, Recover, EndNode, Refresh, FindSettled, PollAgain, Peek, HandOn
  <2> QED
    BY <1>1, <2>1, <2>2, <2>3 DEF Handle
<1>2. ASSUME NEW w \in Workers,
             \/ ProcessorFails(w) \/ Interrupt(w)
             \/ \E n \in Nodes : StartNode(w, n) \/ StartPoll(w, n)
      PROVE  UNCHANGED jobs
  BY <1>2 DEF ProcessorFails, Interrupt, StartNode, StartPoll
<1>3. ASSUME NEW n \in Nodes, Callback(n) \/ Reconcile(n) \/ DeadlinePasses(n)
      PROVE  UNCHANGED jobs \/ Job!Settle(n)
  BY <1>3 DEF Callback, Reconcile, DeadlinePasses
<1>4. ASSUME NEW c \in Clients, Serve(c) \/ Stop(c) PROVE UNCHANGED jobs
  BY <1>4 DEF Serve, CreateRun, Revert, StartFirst, Attach, PickNode, Requeue, Enqueue, Stop
<1>5. ASSUME NEW c \in Clients, NEW v \in Visits, Submit(c, v) \/ Retry(c, v) PROVE UNCHANGED jobs
  BY <1>5 DEF Submit, Retry
<1>6. ASSUME NEW c \in Clients, NEW r \in BookRuns, Start(c, r) \/ Finalize(c, r) PROVE UNCHANGED jobs
  BY <1>6 DEF Start, Finalize
<1> QED
  BY <1>1, <1>2, <1>3, <1>4, <1>5, <1>6 DEF Next, WorkerNext

---------------------------------------------------------------------------
\* How a step changes the queue.  A poll is queued for a job that exists.
QueueOf(w) ==
    LET n == at[w] IN
    \/ pc[w] = "hand on" /\ EnqueueNode(Following(n))
    \/ pc[w] = "done" /\ CompleteTask(n) /\ pc' = [pc EXCEPT ![w] = "idle"]
    \/ pc[w] \in NodeSteps /\ RetryTask(n) /\ pc' = [pc EXCEPT ![w] = "idle"]
    \/ \E m \in Nodes : TakeTask(m)

QueueOfRequest(c) == step[c] \in {"start", "enqueue"} /\ EnqueueNode(subject[c])

\* Only polls of n are touched, and added only if n has a job.
PollsOf(n) ==
    /\ UNCHANGED <<task, tries>>
    /\ polls' \in [Nodes -> 0..MaxPolls]
    /\ \A m \in Nodes : polls'[m] > 0 => polls[m] > 0 \/ outcome[m] # "none"

\* Every step leaves the queue alone or uses one operation of it.
LEMMA QueueStep ==
    ASSUME TypeOK, HandlerInv, Next
    PROVE  \/ UNCHANGED queue
           \/ \E w \in Workers : QueueOf(w)
           \/ \E c \in Clients : QueueOfRequest(c)
           \/ \E n \in Nodes : PollsOf(n)
PROOF
<1> USE TaskQueueAssumption DEF TypeOK, QueueTypeOK, WorkerTypeOK
<1>1. ASSUME NEW n \in Nodes, outcome[n] # "none", EnqueuePoll(n) PROVE PollsOf(n)
  BY <1>1 DEF EnqueuePoll, MorePolls, PollsOf
<1>2. ASSUME NEW n \in Nodes, outcome[n] # "none", RetryPoll(n) PROVE PollsOf(n)
  BY <1>2 DEF RetryPoll, MorePolls, PollsOf
<1>3. ASSUME NEW n \in Nodes, TakePoll(n) PROVE PollsOf(n)
  BY <1>3 DEF TakePoll, PollsOf
<1>4. ASSUME NEW w \in Workers, Handle(w) PROVE UNCHANGED queue \/ QueueOf(w) \/ PollsOf(at[w])
  <2>1. CASE HandOn(w) \/ EndNode(w)
    BY <2>1 DEF HandOn, EndNode, End, QueueOf, NodeSteps
  <2>2. CASE Wait(w) \/ Recover(w) \/ FindSettled(w) \/ PollAgain(w) \/ Settle(w)
    BY <1>1, <1>2, <2>2 DEF Wait, Recover, FindSettled, PollAgain, Settle, HandlerInv, Relies, PollSteps
  <2>3. CASE Claim(w) \/ ClaimRun(w) \/ SubmitJob(w) \/ CallProvider(w) \/ Produce(w) \/ Succeed(w)
    BY <2>3 DEF Claim, ClaimRun, SubmitJob, CallProvider, Produce, Succeed
  <2>4. CASE Fail(w) \/ Refresh(w) \/ SettleOpen(w) \/ Peek(w) \/ Consume(w)
    BY <2>4 DEF Fail, Refresh, SettleOpen, Peek, Consume
  <2> QED
    BY <1>4, <2>1, <2>2, <2>3, <2>4 DEF Handle
<1>5. ASSUME NEW w \in Workers,
             \/ ProcessorFails(w) \/ Interrupt(w)
             \/ \E n \in Nodes : StartNode(w, n) \/ StartPoll(w, n)
      PROVE  UNCHANGED queue \/ QueueOf(w) \/ \E n \in Nodes : PollsOf(n)
  <2>1. CASE Interrupt(w)
    BY <1>2, <2>1 DEF Interrupt, End, QueueOf, HandlerInv, Relies
  <2>2. CASE ProcessorFails(w) \/ \E n \in Nodes : StartNode(w, n) \/ StartPoll(w, n)
    BY <1>3, <2>2 DEF ProcessorFails, StartNode, StartPoll, QueueOf
  <2> QED
    BY <1>5, <2>1, <2>2
<1>6. ASSUME NEW n \in Nodes, Callback(n) \/ Reconcile(n) \/ DeadlinePasses(n)
      PROVE  UNCHANGED queue \/ PollsOf(n)
  BY <1>1, <1>6 DEF Callback, Reconcile, DeadlinePasses
<1>7. ASSUME NEW c \in Clients, Serve(c) \/ Stop(c) PROVE UNCHANGED queue \/ QueueOfRequest(c)
  BY <1>7 DEF Serve, CreateRun, Revert, StartFirst, Attach, PickNode, Requeue, Enqueue, Stop, QueueOfRequest
<1>8. ASSUME NEW c \in Clients, NEW v \in Visits, Submit(c, v) \/ Retry(c, v) PROVE UNCHANGED queue
  BY <1>8 DEF Submit, Retry
<1>9. ASSUME NEW c \in Clients, NEW r \in BookRuns, Start(c, r) \/ Finalize(c, r) PROVE UNCHANGED queue
  BY <1>9 DEF Start, Finalize
<1>10. \A w \in Workers : at[w] \in Nodes
  OBVIOUS
<1>11. CASE WorkerNext
  BY <1>4, <1>5, <1>6, <1>10, <1>11 DEF WorkerNext
<1>12. CASE \E c \in Clients :
               \/ Serve(c) \/ Stop(c)
               \/ \E v \in Visits : Submit(c, v) \/ Retry(c, v)
               \/ \E r \in BookRuns : Start(c, r) \/ Finalize(c, r)
  BY <1>7, <1>8, <1>9, <1>12
<1> QED
  BY <1>11, <1>12 DEF Next

---------------------------------------------------------------------------
\* What no step takes back.
LEMMA RowsProgress ==
    ASSUME TypeOK, HandlerInv, RequestInv, Next
    PROVE  /\ StoreTypeOK'
           /\ \A n \in Nodes :
                /\ node[n] # "queued" => node'[n] # "queued"
                /\ node[n] = "succeeded" => node'[n] = "succeeded"
           /\ \A r \in Runs : run[r] # "none" => run'[r] # "none"
           /\ delivered \subseteq delivered'
PROOF
<1> DEFINE T ==
      /\ StoreTypeOK'
      /\ \A n \in Nodes :
           /\ node[n] # "queued" => node'[n] # "queued"
           /\ node[n] = "succeeded" => node'[n] = "succeeded"
      /\ \A r \in Runs : run[r] # "none" => run'[r] # "none"
      /\ delivered \subseteq delivered'
<1> USE DEF TypeOK, StoreTypeOK, WorkerTypeOK, RunState, NodeState, VisitState, ProjectState, rows
<1>1. CASE UNCHANGED rows
  BY <1>1
<1>2. ASSUME NEW w \in Workers, RowsOf(w) PROVE T
  <2> DEFINE n == at[w]
  <2>1. n \in Nodes /\ n[1] \in Runs
    BY NodesOfRuns
  <2>2. CASE ClaimNode(n) \/ MarkRunRunning(n[1])
    BY <2>1, <2>2 DEF ClaimNode, MarkRunRunning
  <2>3. CASE SaveArtifact(n[1]) \/ Persist(n[1])
    BY <2>1, <2>3 DEF SaveArtifact, Persist, Runs
  <2>4. CASE SucceedNode(n)
    BY <2>1, <2>4 DEF SucceedNode
  <2>5. CASE FailNode(n)
    BY <2>1, <2>5 DEF FailNode, CanFail
  <2> QED
    BY <1>2, <2>2, <2>3, <2>4, <2>5 DEF RowsOf
<1>3. ASSUME NEW c \in Clients, RowsOfRequest(c) PROVE T
  <2> DEFINE r == subject[c][1]
  <2>1. CASE step[c] = "create" /\ InsertRun(r)
    BY <2>1 DEF InsertRun, RequestInv, Serving, SubmitSteps, Runs
  <2>2. CASE step[c] = "revert" /\ RevertSubmit(r)
    BY <2>2 DEF RevertSubmit
  <2>3. CASE step[c] = "attach" /\ AttachRun(r)
    BY <2>3 DEF AttachRun
  <2>4. CASE step[c] = "requeue" /\ RequeueRun(r)
    BY <2>4 DEF RequeueRun
  <2>5. CASE \E v \in Visits : PrepareSubmit(v)
    BY <2>5 DEF PrepareSubmit
  <2>6. CASE \E b \in BookRuns : InsertRun(b)
    BY <2>6 DEF InsertRun
  <2> QED
    BY <1>3, <2>1, <2>2, <2>3, <2>4, <2>5, <2>6 DEF RowsOfRequest
<1> QED
  BY <1>1, <1>2, <1>3, RowsStep

\* A job settles once, and is created for a provider node.
LEMMA JobsProgress ==
    ASSUME TypeOK, HandlerInv, JobInv, Next
    PROVE  /\ outcome' \in [Nodes -> OutcomeState]
           /\ consumed \subseteq consumed' /\ consumed' \subseteq Nodes
           /\ \A n \in Nodes :
                /\ outcome[n] # "none" => outcome'[n] # "none"
                /\ outcome[n] \in Job!Settled => outcome'[n] = outcome[n]
                /\ IsLast(n) => outcome'[n] = "none"
                /\ n \in consumed' \ consumed =>
                     outcome'[n] = outcome[n] /\ \E w \in Workers : pc[w] = "consume" /\ at[w] = n
PROOF
<1> USE DEF TypeOK, WorkerTypeOK, OutcomeState, Job!Settled
<1>1. CASE UNCHANGED jobs
  BY <1>1 DEF jobs, JobInv
<1>2. CASE \E w \in Workers : ~ IsLast(at[w]) /\ Job!Create(at[w])
  BY <1>2 DEF Job!Create, JobInv
<1>3. CASE \E n \in Nodes : Job!Settle(n)
  BY <1>3 DEF Job!Settle, JobInv
<1>4. CASE \E w \in Workers : pc[w] = "consume" /\ Job!Consume(at[w])
  BY <1>4 DEF Job!Consume, JobInv
<1>5. \A w \in Workers : JobsOf(w) =>
         \/ ~ IsLast(at[w]) /\ Job!Create(at[w])
         \/ \E n \in Nodes : Job!Settle(n)
         \/ pc[w] = "consume" /\ Job!Consume(at[w])
  BY DEF JobsOf
<1> QED
  BY <1>1, <1>2, <1>3, <1>4, <1>5, JobsStep

\* A task, once there, is there until its node has been started.
LEMMA QueueProgress ==
    ASSUME TypeOK, HandlerInv, RequestInv, JobInv, Next
    PROVE  /\ QueueTypeOK'
           /\ \A n \in Nodes :
                /\ task[n] # "free" => task'[n] # "free" \/ node[n] # "queued"
                /\ task[n] = "free" /\ task'[n] # "free" =>
                     \/ \E w \in Workers : pc[w] = "hand on" /\ n = Following(at[w])
                     \/ \E c \in Clients : step[c] \in {"start", "enqueue"} /\ n = subject[c]
                /\ task[n] = "active" /\ task'[n] # "active" =>
                     \E w \in Workers : at[w] = n /\ pc[w] \in NodeSteps
                                        /\ pc' = [pc EXCEPT ![w] = "idle"]
                /\ polls'[n] > 0 => polls[n] > 0 \/ outcome[n] # "none"
PROOF
<1> DEFINE T ==
      /\ QueueTypeOK'
      /\ \A n \in Nodes :
           /\ task[n] # "free" => task'[n] # "free" \/ node[n] # "queued"
           /\ task[n] = "free" /\ task'[n] # "free" =>
                \/ \E w \in Workers : pc[w] = "hand on" /\ n = Following(at[w])
                \/ \E c \in Clients : step[c] \in {"start", "enqueue"} /\ n = subject[c]
           /\ task[n] = "active" /\ task'[n] # "active" =>
                \E w \in Workers : at[w] = n /\ pc[w] \in NodeSteps
                                   /\ pc' = [pc EXCEPT ![w] = "idle"]
           /\ polls'[n] > 0 => polls[n] > 0 \/ outcome[n] # "none"
<1> USE TaskQueueAssumption DEF TypeOK, WorkerTypeOK, QueueTypeOK, TaskState
<1>1. CASE UNCHANGED queue
  BY <1>1 DEF queue
<1>2. ASSUME NEW w \in Workers, QueueOf(w) PROVE T
  <2> DEFINE n == at[w]
  <2>1. CASE pc[w] = "hand on" /\ EnqueueNode(Following(n))
    <3>1. /\ task' \in [Nodes -> TaskState]
          /\ \A m \in Nodes : \/ task'[m] = task[m]
                              \/ m = Following(n) /\ task[m] = "free" /\ task'[m] = "ready"
          /\ UNCHANGED <<tries, polls>>
      BY <2>1 DEF EnqueueNode
    <3> QED
      BY <2>1, <3>1
  <2>2. CASE pc[w] = "done" /\ CompleteTask(n) /\ pc' = [pc EXCEPT ![w] = "idle"]
    <3>1. pc[w] \in NodeSteps /\ node[n] # "queued"
      BY <2>2 DEF NodeSteps, HandlerInv, Relies
    <3>2. /\ task' \in [Nodes -> TaskState]
          /\ tries' \in [Nodes -> 0..MaxRetry]
          /\ \A m \in Nodes : task'[m] = task[m] \/ (m = n /\ task'[m] = "free")
          /\ UNCHANGED polls
      BY <2>2 DEF CompleteTask
    <3> QED
      BY <2>2, <3>1, <3>2
  <2>3. CASE pc[w] \in NodeSteps /\ RetryTask(n) /\ pc' = [pc EXCEPT ![w] = "idle"]
    <3>1. /\ task' \in [Nodes -> TaskState]
          /\ tries' \in [Nodes -> 0..MaxRetry]
          /\ \A m \in Nodes : task'[m] = task[m] \/ (m = n /\ task'[m] # "free")
          /\ UNCHANGED polls
      BY <2>3 DEF RetryTask
    <3> QED
      BY <2>3, <3>1 DEF HandlerInv, Relies
  <2>4. CASE \E m \in Nodes : TakeTask(m)
    BY <2>4 DEF TakeTask
  <2> QED
    BY <1>2, <2>1, <2>2, <2>3, <2>4 DEF QueueOf
<1>3. ASSUME NEW c \in Clients, QueueOfRequest(c) PROVE T
  BY <1>3 DEF QueueOfRequest, EnqueueNode
<1>4. ASSUME NEW n \in Nodes, PollsOf(n) PROVE T
  BY <1>4 DEF PollsOf
<1> QED
  BY <1>1, <1>2, <1>3, <1>4, QueueStep

---------------------------------------------------------------------------
\* What a handler relies on is not undone by others: only the task of a node
\* is given back by the handler that executes it.
LEMMA ReliesStays ==
    ASSUME EngineInv, Next, NEW n \in Nodes, NEW s, Relies(n, s),
           s \in NodeSteps => task'[n] = "active"
    PROVE  Relies(n, s)'
PROOF
<1> USE DEF EngineInv
<1>1. n[1] \in Runs
  BY NodesOfRuns
<1>2. s \in NodeSteps \ {"claim"} => node'[n] # "queued"
  BY RowsProgress DEF Relies
<1>3. s \in {"remote", "wait"} \cup PollSteps => outcome'[n] # "none"
  BY JobsProgress DEF Relies
<1>4. s = "succeed" => IsLast(n) /\ n[1] \in delivered'
  BY RowsProgress DEF Relies
<1>5. s \in {"peek", "settle", "hand on", "consume"} =>
        outcome[n] \in Job!Settled /\ outcome'[n] = outcome[n]
  BY JobsProgress DEF Relies
<1>6. s = "hand on" => outcome'[n] = "succeeded" /\ node'[n] = "succeeded"
  BY <1>5, RowsProgress DEF Relies
<1>7. ASSUME s = "consume", outcome'[n] = "succeeded"
      PROVE  /\ node'[n] = "succeeded"
             /\ node'[Following(n)] # "queued" \/ task'[Following(n)] # "free"
  <2>1. outcome[n] = "succeeded" /\ ~ IsLast(n)
    BY <1>5, <1>7 DEF JobInv
  <2>2. Following(n) \in Nodes
    BY <2>1, NodesOfRuns
  <2>3. node[n] = "succeeded" /\ (node[Following(n)] # "queued" \/ task[Following(n)] # "free")
    BY <1>7, <2>1 DEF Relies
  <2> QED
    BY <2>2, <2>3, RowsProgress, QueueProgress
<1> QED
  BY <1>1, <1>2, <1>3, <1>4, <1>5, <1>6, <1>7 DEF Relies

\* A handler that does not move keeps what it relies on.
LEMMA OthersDoNotDisturb ==
    ASSUME EngineInv, Next, NEW x \in Workers, pc'[x] = pc[x], at'[x] = at[x]
    PROVE  Relies(at[x], pc[x])'
PROOF
<1> USE DEF EngineInv, TypeOK, WorkerTypeOK
<1>1. at[x] \in Nodes /\ Relies(at[x], pc[x])
  BY DEF HandlerInv
<1>2. ASSUME NEW w \in Workers, pc[x] \in NodeSteps, at[w] = at[x], pc[w] \in NodeSteps,
             pc' = [pc EXCEPT ![w] = "idle"]
      PROVE  FALSE
  BY <1>2 DEF TaskInv, NodeSteps
<1>3. pc[x] \in NodeSteps => task'[at[x]] = "active"
  BY <1>1, <1>2, QueueProgress DEF Relies
<1> QED
  BY <1>1, <1>3, ReliesStays

\* A handler that goes on, ends or starts finds what it is to rely on, and is
\* alone with its task.
Good(w) ==
    /\ pc' \in [Workers -> NodeSteps \cup PollSteps \cup {"idle"}]
    /\ at' \in [Workers -> Nodes]
    /\ \A x \in Workers \ {w} : pc'[x] = pc[x] /\ at'[x] = at[x]
    /\ Relies(at[w], pc[w])'
    /\ pc'[w] \in NodeSteps => \/ pc[w] \in NodeSteps /\ at'[w] = at[w]
                               \/ task[at'[w]] = "ready"

\* A handler that ends has nothing to rely on.
LEMMA EndIsGood ==
    ASSUME TypeOK, NEW w \in Workers, End(w)
    PROVE  Good(w)
PROOF
<1>1. AnyNode \in Nodes
  BY NodesOfRuns
<1> QED
  BY <1>1 DEF Good, End, Relies, TypeOK, WorkerTypeOK, NodeSteps, PollSteps

\* A handler goes on well if what its next step relies on holds by then.
LEMMA GotoIsGood ==
    ASSUME TypeOK, NEW w \in Workers, NEW n \in Nodes, n = at[w],
           NEW s \in NodeSteps \cup PollSteps, Goto(w, s),
           s \in NodeSteps => pc[w] \in NodeSteps,
           Relies(n, s)'
    PROVE  Good(w)
PROOF
<1>1. /\ pc' = [pc EXCEPT ![w] = s]
      /\ at' = at
  BY DEF Goto
<1>2. pc'[w] = s /\ at'[w] = n
  BY <1>1 DEF TypeOK, WorkerTypeOK
<1>3. Relies(at[w], pc[w])'
  BY <1>2
<1> QED
  BY <1>1, <1>2, <1>3 DEF Good, TypeOK, WorkerTypeOK

\* The steps of a node task.
LEMMA NodeTaskIsGood ==
    ASSUME EngineInv, Next, NEW w \in Workers, NEW n \in Nodes, n = at[w],
           \/ Claim(w) \/ ClaimRun(w) \/ SubmitJob(w) \/ CallProvider(w) \/ Wait(w) \/ Recover(w)
           \/ Produce(w) \/ Succeed(w) \/ Fail(w) \/ EndNode(w) \/ ProcessorFails(w)
    PROVE  Good(w)
PROOF
<1>1. TypeOK /\ n = at[w] /\ Relies(n, pc[w])
  BY DEF EngineInv, TypeOK, WorkerTypeOK, HandlerInv
<1>2. CASE EndNode(w)
  BY <1>1, <1>2, EndIsGood DEF EndNode
<1>3. ASSUME NEW s \in NodeSteps, Goto(w, s), pc[w] \in NodeSteps, Relies(n, s)'
      PROVE  Good(w)
  BY <1>1, <1>3, GotoIsGood
<1>4. ASSUME NEW s \in NodeSteps, Goto(w, s), pc[w] \in NodeSteps, Relies(n, s), UNCHANGED task
      PROVE  Good(w)
  <2>1. task[n] = "active"
    BY <1>1, <1>4 DEF Relies
  <2>2. Relies(n, s)'
    BY <1>1, <1>4, <2>1, ReliesStays
  <2> QED
    BY <1>3, <1>4, <2>2
<1> USE DEF NodeSteps, PollSteps
<1>5. CASE Claim(w)
  <2>1. CASE ClaimNode(n) /\ Goto(w, "claimed")
    <3>1. task'[n] = "active" /\ node'[n] = "running"
      BY <1>1, <1>5, <2>1 DEF Claim, ClaimNode, Relies, TypeOK, StoreTypeOK, queue
    <3>2. Relies(n, "claimed")'
      BY <3>1 DEF Relies
    <3> QED
      BY <1>3, <1>5, <2>1, <3>2 DEF Claim
  <2>2. CASE node[n] \notin {"queued", "failed"} /\ Goto(w, "recover")
    BY <1>1, <1>4, <1>5, <2>2 DEF Claim, Relies, queue
  <2> QED
    BY <1>5, <2>1, <2>2 DEF Claim
<1>6. CASE ClaimRun(w)
  BY <1>1, <1>4, <1>6 DEF ClaimRun, Relies, queue
<1>7. CASE SubmitJob(w)
  <2>1. CASE Job!Create(n) /\ Goto(w, "remote")
    <3>1. outcome'[n] = "open" /\ task'[n] = "active" /\ node'[n] # "queued"
      BY <1>1, <1>7, <2>1 DEF SubmitJob, Job!Create, Relies, TypeOK, WorkerTypeOK, queue, rows
    <3>2. Relies(n, "remote")'
      BY <3>1 DEF Relies
    <3> QED
      BY <1>3, <1>7, <2>1, <3>2 DEF SubmitJob
  <2>2. CASE outcome[n] # "none" /\ (Goto(w, "remote") \/ Goto(w, "wait"))
    BY <1>1, <1>4, <1>7, <2>2 DEF SubmitJob, Relies, queue
  <2> QED
    BY <1>7, <2>1, <2>2 DEF SubmitJob
<1>8. CASE CallProvider(w)
  BY <1>1, <1>4, <1>8 DEF CallProvider, Relies, queue
<1>9. CASE Wait(w) \/ Recover(w)
  BY <1>1, <1>4, <1>9 DEF Wait, Recover, EnqueuePoll, Relies, queue
<1>10. CASE Produce(w)
  <2>1. CASE (SaveArtifact(n[1]) \/ Persist(n[1])) /\ Goto(w, "succeed")
    <3>1. n[1] \in delivered' /\ UNCHANGED <<node, task>>
      BY <1>10, <2>1 DEF Produce, SaveArtifact, Persist, queue, rows
    <3>2. Relies(n, "succeed")'
      BY <1>1, <1>10, <3>1 DEF Produce, Relies
    <3> QED
      BY <1>3, <1>10, <2>1, <3>2 DEF Produce
  <2>2. CASE Goto(w, "fail")
    BY <1>1, <1>4, <1>10, <2>2 DEF Produce, Relies, queue
  <2> QED
    BY <1>10, <2>1, <2>2 DEF Produce
<1>11. CASE Succeed(w) \/ Fail(w) \/ ProcessorFails(w)
  BY <1>1, <1>4, <1>11 DEF Succeed, Fail, ProcessorFails, Relies, queue
<1> QED
  BY <1>2, <1>5, <1>6, <1>7, <1>8, <1>9, <1>10, <1>11

\* The steps of a poll.
LEMMA PollIsGood ==
    ASSUME EngineInv, Next, NEW w \in Workers, NEW n \in Nodes, n = at[w],
           \/ Refresh(w) \/ SettleOpen(w) \/ FindSettled(w) \/ PollAgain(w) \/ Peek(w)
           \/ Settle(w) \/ HandOn(w) \/ Consume(w)
    PROVE  Good(w)
PROOF
<1>1. TypeOK /\ n = at[w] /\ Relies(n, pc[w])
  BY DEF EngineInv, TypeOK, WorkerTypeOK, HandlerInv
<1>2. CASE End(w)
  BY <1>1, <1>2, EndIsGood
<1>3. ASSUME NEW s \in PollSteps, Goto(w, s), Relies(n, s)'
      PROVE  Good(w)
  BY <1>1, <1>3, GotoIsGood DEF NodeSteps, PollSteps
<1>4. ASSUME NEW s \in PollSteps, Goto(w, s), Relies(n, s)
      PROVE  Good(w)
  <2>1. Relies(n, s)'
    BY <1>1, <1>4, ReliesStays DEF NodeSteps, PollSteps
  <2> QED
    BY <1>3, <1>4, <2>1
<1> USE DEF NodeSteps, PollSteps
<1>5. CASE PollAgain(w) \/ Consume(w)
  BY <1>2, <1>5 DEF PollAgain, Consume
<1>6. CASE Refresh(w)
  BY <1>1, <1>4, <1>6 DEF Refresh, Relies
<1>7. CASE SettleOpen(w)
  <2>1. CASE Job!Settle(n) /\ Goto(w, "peek")
    <3>1. outcome'[n] \in Job!Settled /\ outcome'[n] # "none"
      BY <1>1, <2>1 DEF Job!Settle, Job!Settled, TypeOK, WorkerTypeOK
    <3>2. Relies(n, "peek")'
      BY <3>1 DEF Relies
    <3> QED
      BY <1>3, <2>1, <3>2
  <2>2. CASE Goto(w, "again")
    BY <1>1, <1>4, <1>7, <2>2 DEF SettleOpen, Relies
  <2> QED
    BY <1>7, <2>1, <2>2 DEF SettleOpen
<1>8. CASE FindSettled(w) \/ Peek(w)
  BY <1>1, <1>2, <1>4, <1>8 DEF FindSettled, Peek, Relies
<1>9. CASE Settle(w)
  <2>1. CASE outcome[n] = "succeeded" /\ SucceedNode(n) /\ Goto(w, "hand on")
    <3>1. node'[n] = "succeeded" /\ outcome'[n] = "succeeded"
      BY <1>1, <1>9, <2>1 DEF Settle, SucceedNode, TypeOK, StoreTypeOK, jobs
    <3>2. Relies(n, "hand on")'
      BY <3>1 DEF Relies, Job!Settled
    <3> QED
      BY <1>3, <2>1, <3>2
  <2>2. CASE outcome[n] = "failed" /\ Goto(w, "consume")
    BY <1>1, <1>4, <1>9, <2>2 DEF Settle, Relies, Job!Settled
  <2> QED
    BY <1>2, <1>9, <2>1, <2>2 DEF Settle
<1>10. CASE HandOn(w)
  <2>1. ~ IsLast(n)
    BY <1>1, <1>10 DEF HandOn, EngineInv, JobInv, Relies
  <2>2. Following(n) \in Nodes
    BY <1>1, <2>1, NodesOfRuns
  <2>3. task'[Following(n)] # "free"
    BY <1>1, <1>10, <2>2 DEF HandOn, EnqueueNode, TypeOK, QueueTypeOK
  <2>4. node'[n] = "succeeded" /\ outcome'[n] = "succeeded"
    BY <1>1, <1>10 DEF HandOn, Relies, rows, jobs
  <2>5. Relies(n, "consume")'
    BY <2>3, <2>4 DEF Relies, Job!Settled
  <2> QED
    BY <1>3, <1>10, <2>5 DEF HandOn
<1> QED
  BY <1>5, <1>6, <1>7, <1>8, <1>9, <1>10

\* Interrupting a handler and giving it a task.
LEMMA TakingIsGood ==
    ASSUME EngineInv, Next, NEW w \in Workers, NEW n \in Nodes,
           Interrupt(w) \/ StartNode(w, n) \/ StartPoll(w, n)
    PROVE  Good(w)
PROOF
<1>1. TypeOK
  BY DEF EngineInv
<1>2. CASE Interrupt(w)
  BY <1>1, <1>2, EndIsGood DEF Interrupt
<1>3. CASE StartNode(w, n)
  <2>1. /\ pc' = [pc EXCEPT ![w] = "claim"] /\ pc'[w] = "claim"
        /\ at' = [at EXCEPT ![w] = n] /\ at'[w] = n
        /\ task[n] = "ready" /\ task'[n] = "active"
    BY <1>1, <1>3 DEF StartNode, Take, TakeTask, TypeOK, WorkerTypeOK, QueueTypeOK
  <2>2. Relies(n, "claim")'
    BY <2>1 DEF Relies, NodeSteps, PollSteps
  <2> QED
    BY <1>1, <2>1, <2>2 DEF Good, TypeOK, WorkerTypeOK, NodeSteps
<1>4. CASE StartPoll(w, n)
  <2>1. /\ pc' = [pc EXCEPT ![w] = "refresh"] /\ pc'[w] = "refresh"
        /\ at' = [at EXCEPT ![w] = n] /\ at'[w] = n
        /\ polls[n] > 0 /\ outcome' = outcome
    BY <1>1, <1>4 DEF StartPoll, Take, TakePoll, TypeOK, WorkerTypeOK, jobs
  <2>2. outcome'[n] # "none"
    BY <2>1 DEF EngineInv, JobInv
  <2>3. Relies(n, "refresh")'
    BY <2>2 DEF Relies, NodeSteps, PollSteps
  <2> QED
    BY <1>1, <2>1, <2>3 DEF Good, TypeOK, WorkerTypeOK, NodeSteps, PollSteps
<1> QED
  BY <1>2, <1>3, <1>4

\* Every step moves one handler at most.
LEMMA HandlersMove ==
    ASSUME EngineInv, Next
    PROVE  UNCHANGED handlers \/ \E w \in Workers : Good(w)
PROOF
<1>1. TypeOK
  BY DEF EngineInv
<1>2. \A w \in Workers : at[w] \in Nodes
  BY <1>1 DEF TypeOK, WorkerTypeOK
<1>3. ASSUME NEW w \in Workers,
             \/ Handle(w) \/ ProcessorFails(w) \/ Interrupt(w)
             \/ \E n \in Nodes : StartNode(w, n) \/ StartPoll(w, n)
      PROVE  Good(w)
  <2>1. CASE Handle(w)
    BY <1>2, <2>1, NodeTaskIsGood, PollIsGood DEF Handle
  <2>2. CASE ProcessorFails(w)
    BY <1>2, <2>2, NodeTaskIsGood
  <2>3. CASE Interrupt(w)
    BY <1>2, <2>3, TakingIsGood
  <2>4. CASE \E n \in Nodes : StartNode(w, n) \/ StartPoll(w, n)
    BY <2>4, TakingIsGood
  <2> QED
    BY <1>3, <2>1, <2>2, <2>3, <2>4
<1>4. ASSUME NEW n \in Nodes, Callback(n) \/ Reconcile(n) \/ DeadlinePasses(n)
      PROVE  UNCHANGED handlers
  BY <1>4 DEF Callback, Reconcile, DeadlinePasses
<1>5. ASSUME NEW c \in Clients, Serve(c) \/ Stop(c) PROVE UNCHANGED handlers
  BY <1>5 DEF Serve, CreateRun, Revert, StartFirst, Attach, PickNode, Requeue, Enqueue, Stop
<1>6. ASSUME NEW c \in Clients, NEW v \in Visits, Submit(c, v) \/ Retry(c, v)
      PROVE  UNCHANGED handlers
  BY <1>6 DEF Submit, Retry
<1>7. ASSUME NEW c \in Clients, NEW r \in BookRuns, Start(c, r) \/ Finalize(c, r)
      PROVE  UNCHANGED handlers
  BY <1>7 DEF Start, Finalize
<1> QED
  BY <1>3, <1>4, <1>5, <1>6, <1>7 DEF Next, WorkerNext

\* Handlers keep what they rely on, and their tasks to themselves.
LEMMA HandlersStep ==
    ASSUME EngineInv, Next
    PROVE  /\ pc' \in [Workers -> NodeSteps \cup PollSteps \cup {"idle"}]
           /\ at' \in [Workers -> Nodes]
           /\ HandlerInv'
           /\ TaskInv'
PROOF
<1> USE DEF EngineInv
<1>1. CASE UNCHANGED handlers
  <2>1. pc' = pc /\ at' = at
    BY <1>1 DEF handlers
  <2>2. HandlerInv'
    BY <2>1, OthersDoNotDisturb DEF HandlerInv
  <2> QED
    BY <2>1, <2>2 DEF TaskInv, TypeOK, WorkerTypeOK
<1>2. ASSUME NEW w \in Workers, Good(w)
      PROVE  /\ pc' \in [Workers -> NodeSteps \cup PollSteps \cup {"idle"}]
             /\ at' \in [Workers -> Nodes]
             /\ HandlerInv'
             /\ TaskInv'
  <2>1. HandlerInv'
    BY <1>2, OthersDoNotDisturb DEF Good, HandlerInv
  <2>2. ASSUME NEW x \in Workers \ {w}, pc'[w] \in NodeSteps, pc'[x] \in NodeSteps, at'[w] = at'[x]
        PROVE  FALSE
    <3>1. pc[x] \in NodeSteps /\ task[at[x]] = "active" /\ at'[w] = at[x]
      BY <1>2, <2>2 DEF Good, HandlerInv, Relies
    <3>2. pc[w] \in NodeSteps /\ at[w] = at[x]
      BY <1>2, <2>2, <3>1 DEF Good
    <3> QED
      BY <3>1, <3>2 DEF TaskInv
  <2>3. TaskInv'
    BY <1>2, <2>2 DEF TaskInv, Good
  <2> QED
    BY <1>2, <2>1, <2>3 DEF Good
<1> QED
  BY <1>1, <1>2, HandlersMove

---------------------------------------------------------------------------
\* The rest of the types.
LEMMA OtherTypes ==
    ASSUME TypeOK, RequestInv, Next
    PROVE  /\ overdue' \subseteq Nodes
           /\ faults' \in 0..MaxFaults
           /\ step' \in [Clients -> RequestSteps]
           /\ subject' \in [Clients -> Nodes]
           /\ doubled \subseteq doubled' /\ doubled' \subseteq Visits
           /\ unheard' \subseteq Visits
PROOF
<1> DEFINE T ==
      /\ overdue' \subseteq Nodes
      /\ faults' \in 0..MaxFaults
      /\ step' \in [Clients -> RequestSteps]
      /\ subject' \in [Clients -> Nodes]
      /\ doubled \subseteq doubled' /\ doubled' \subseteq Visits
      /\ unheard' \subseteq Visits
<1> USE WorkflowWorkerAssumption DEF TypeOK, WorkerTypeOK
<1>1. Fault => faults' \in 0..MaxFaults
  BY DEF Fault
<1>2. CASE WorkerNext /\ UNCHANGED requests
  <2>1. ASSUME NEW w \in Workers, Handle(w) PROVE overdue' = overdue /\ (Fault \/ faults' = faults)
    <3>1. CASE Claim(w) \/ ClaimRun(w) \/ SubmitJob(w) \/ CallProvider(w) \/ Wait(w) \/ Recover(w)
      BY <3>1 DEF Claim, ClaimRun, SubmitJob, CallProvider, Wait, Recover
    <3>2. CASE Produce(w) \/ Succeed(w) \/ Fail(w) \/ EndNode(w)
      BY <3>2 DEF Produce, Succeed, Fail, EndNode
    <3>3. CASE Refresh(w) \/ SettleOpen(w) \/ FindSettled(w) \/ PollAgain(w)
      BY <3>3 DEF Refresh, SettleOpen, FindSettled, PollAgain
    <3>4. CASE Peek(w) \/ Settle(w) \/ HandOn(w) \/ Consume(w)
      BY <3>4 DEF Peek, Settle, HandOn, Consume
    <3> QED
      BY <2>1, <3>1, <3>2, <3>3, <3>4 DEF Handle
  <2>2. ASSUME NEW w \in Workers,
               \/ ProcessorFails(w) \/ Interrupt(w)
               \/ \E n \in Nodes : StartNode(w, n) \/ StartPoll(w, n)
        PROVE  overdue' = overdue /\ (Fault \/ faults' = faults)
    BY <2>2 DEF ProcessorFails, Interrupt, StartNode, StartPoll
  <2>3. ASSUME NEW n \in Nodes, Callback(n) \/ Reconcile(n) \/ DeadlinePasses(n)
        PROVE  overdue' \subseteq Nodes /\ (Fault \/ faults' = faults)
    BY <2>3 DEF Callback, Reconcile, DeadlinePasses
  <2>4. overdue' \subseteq Nodes /\ (Fault \/ faults' = faults)
    BY <1>2, <2>1, <2>2, <2>3 DEF WorkerNext
  <2> QED
    BY <1>1, <1>2, <2>4 DEF requests
<1>3. ASSUME NEW c \in Clients, Serve(c) \/ Stop(c) PROVE T
  <2>1. overdue' = overdue /\ (Fault \/ faults' = faults)
    BY <1>3 DEF Serve, CreateRun, Revert, StartFirst, Attach, PickNode, Requeue, Enqueue, Stop
  <2>2. CASE CreateRun(c) \/ StartFirst(c)
    BY <1>1, <2>1, <2>2 DEF CreateRun, StartFirst, Proceed, RequestSteps, SubmitSteps
  <2>3. CASE Revert(c) \/ Attach(c) \/ Enqueue(c) \/ Stop(c)
    BY <1>1, <2>1, <2>3, NodesOfRuns
       DEF Revert, Attach, Enqueue, Stop, Leave, Finish, RequestSteps
  <2>4. CASE PickNode(c)
    <3>1. CASE Leave(c)
      BY <1>1, <2>1, <3>1, NodesOfRuns DEF Leave, Finish, RequestSteps
    <3>2. ASSUME NEW k \in 1..VisitNodes,
                 step' = [step EXCEPT ![c] = "requeue"],
                 subject' = [subject EXCEPT ![c] = <<subject[c][1], k>>],
                 doubled' = IF \E i \in 1..(k - 1) : node[<<subject[c][1], i>>] = "running"
                            THEN doubled \cup {subject[c][1]} ELSE doubled
          PROVE  /\ step' \in [Clients -> RequestSteps] /\ subject' \in [Clients -> Nodes]
                 /\ doubled \subseteq doubled' /\ doubled' \subseteq Visits
      <4>1. subject[c][1] \in Visits
        BY <2>4 DEF PickNode, RequestInv, Serving
      <4>2. <<subject[c][1], k>> \in Nodes
        BY <4>1 DEF Nodes
      <4> QED
        BY <3>2, <4>1, <4>2 DEF RequestSteps
    <3> QED
      BY <1>1, <2>1, <2>4, <3>1, <3>2 DEF PickNode
  <2>5. CASE Requeue(c)
    BY <1>1, <2>1, <2>5 DEF Requeue, RequestInv, Serving, RequestSteps
  <2> QED
    BY <1>3, <2>2, <2>3, <2>4, <2>5 DEF Serve
<1>4. ASSUME NEW c \in Clients, NEW v \in Visits, Submit(c, v) \/ Retry(c, v) PROVE T
  BY <1>4, NodesOfRuns DEF Submit, Retry, Enter, Runs, RequestSteps, SubmitSteps
<1>5. ASSUME NEW c \in Clients, NEW r \in BookRuns, Start(c, r) \/ Finalize(c, r) PROVE T
  BY <1>5, NodesOfRuns DEF Start, Finalize, Enter, Runs, RequestSteps
<1> QED
  BY <1>2, <1>3, <1>4, <1>5 DEF Next

---------------------------------------------------------------------------
\* A node is started by a handler that claims it, and succeeds by its job's
\* success or, the last one of a run, by what the worker has produced.
LEMMA NodesStep ==
    ASSUME EngineInv, Next, NEW n \in Nodes
    PROVE  /\ node[n] = "queued" /\ node'[n] # "queued" => task[n] # "free"
           /\ node[n] # "succeeded" /\ node'[n] = "succeeded" =>
                IsLast(n) \/ outcome[n] = "succeeded"
PROOF
<1> DEFINE T == /\ node[n] = "queued" /\ node'[n] # "queued" => task[n] # "free"
                /\ node[n] # "succeeded" /\ node'[n] = "succeeded" =>
                     IsLast(n) \/ outcome[n] = "succeeded"
<1> USE DEF EngineInv, TypeOK, StoreTypeOK, WorkerTypeOK
<1>1. CASE UNCHANGED rows
  BY <1>1 DEF rows
<1>2. ASSUME NEW w \in Workers, RowsOf(w) PROVE T
  <2>1. Relies(at[w], pc[w]) /\ at[w] \in Nodes
    BY DEF HandlerInv
  <2>2. CASE pc[w] = "claim" /\ ClaimNode(at[w])
    BY <2>1, <2>2 DEF ClaimNode, Relies, NodeSteps
  <2>3. CASE \/ pc[w] = "claimed" /\ MarkRunRunning(at[w][1])
             \/ pc[w] = "work" /\ (SaveArtifact(at[w][1]) \/ Persist(at[w][1]))
    BY <2>3 DEF MarkRunRunning, SaveArtifact, Persist, rows
  <2>4. CASE \/ pc[w] = "succeed" /\ SucceedNode(at[w])
             \/ pc[w] = "settle" /\ outcome[at[w]] = "succeeded" /\ SucceedNode(at[w])
    BY <2>1, <2>4 DEF SucceedNode, CanSucceed, Relies
  <2>5. CASE FailNode(at[w])
    BY <2>5 DEF FailNode, CanFail
  <2> QED
    BY <1>2, <2>2, <2>3, <2>4, <2>5 DEF RowsOf
<1>3. ASSUME NEW c \in Clients, RowsOfRequest(c) PROVE T
  BY <1>3 DEF RowsOfRequest, InsertRun, RevertSubmit, AttachRun, RequeueRun, PrepareSubmit
<1> QED
  BY <1>1, <1>2, <1>3, RowsStep

\* The order of the nodes and their agreement with the jobs are kept.
LEMMA JobsKeepOrder ==
    ASSUME EngineInv, Next
    PROVE  JobInv' /\ OrderInv' /\ NodeAgreesWithJob' /\ ConsumedSuccessIsHandedOn'
PROOF
<1> USE DEF EngineInv
<1>1. JobInv'
  <2>1. ASSUME NEW n \in Nodes, n \in consumed' PROVE outcome'[n] \in Job!Settled
    <3>1. n \in consumed \/ \E w \in Workers : pc[w] = "consume" /\ at[w] = n
      BY <2>1, JobsProgress
    <3>2. outcome[n] \in Job!Settled
      BY <3>1 DEF JobInv, HandlerInv, Relies
    <3> QED
      BY <3>2, JobsProgress
  <2> QED
    BY <2>1, JobsProgress, QueueProgress DEF JobInv
<1>2. ASSUME NEW n \in Nodes, node'[n] # "queued" \/ task'[n] # "free"
      PROVE  run'[n[1]] # "none" /\ (n[1] \notin doubled' => Reached(n)')
  <2>1. n[1] \in Runs /\ \A k \in 1..(n[2] - 1) : <<n[1], k>> \in Nodes
    BY NodesOfRuns
  <2>2. SUFFICES run[n[1]] # "none" /\ (n[1] \notin doubled => Reached(n))
    BY <2>1, RowsProgress, OtherTypes DEF Reached
  <2>3. CASE node[n] # "queued" \/ task[n] # "free"
    BY <2>3 DEF OrderInv
  <2>4. CASE node[n] = "queued" /\ task[n] = "free"
    <3>1. \/ \E w \in Workers : pc[w] = "hand on" /\ n = Following(at[w])
          \/ \E c \in Clients : step[c] \in {"start", "enqueue"} /\ n = subject[c]
      BY <1>2, <2>4, NodesStep, QueueProgress
    <3>2. ASSUME NEW w \in Workers, pc[w] = "hand on", n = Following(at[w])
          PROVE  run[n[1]] # "none" /\ (n[1] \notin doubled => Reached(n))
      <4>1. at[w] \in Nodes /\ outcome[at[w]] = "succeeded" /\ node[at[w]] = "succeeded"
        BY <3>2 DEF HandlerInv, Relies, TypeOK, WorkerTypeOK
      <4>2. ~ IsLast(at[w])
        BY <4>1 DEF JobInv
      <4>3. /\ n[1] = at[w][1] /\ n[2] = at[w][2] + 1
            /\ at[w] = <<at[w][1], at[w][2]>> /\ at[w][2] \in Nat
        BY <3>2, <4>1, <4>2, NodesOfRuns
      <4>4. run[at[w][1]] # "none" /\ (at[w][1] \notin doubled => Reached(at[w]))
        BY <4>1 DEF OrderInv
      <4>5. \A k \in 1..(n[2] - 1) : k = at[w][2] \/ k \in 1..(at[w][2] - 1)
        BY <4>3
      <4> QED
        BY <4>1, <4>3, <4>4, <4>5 DEF Reached
    <3>3. ASSUME NEW c \in Clients, step[c] \in {"start", "enqueue"}, n = subject[c]
          PROVE  run[n[1]] # "none" /\ (n[1] \notin doubled => Reached(n))
      <4>1. run[n[1]] # "none"
        BY <3>3 DEF RequestInv, Serving
      <4>2. n[2] = 1 \/ (n[1] \notin doubled => Reached(n))
        BY <3>3 DEF RequestInv, Serving, SubmitSteps, First
      <4>3. n[2] = 1 => Reached(n)
        BY DEF Reached
      <4> QED
        BY <4>1, <4>2, <4>3
    <3> QED
      BY <3>1, <3>2, <3>3
  <2> QED
    BY <2>3, <2>4
<1>3. OrderInv'
  BY <1>2 DEF OrderInv
<1>4. NodeAgreesWithJob'
  <2>1. ASSUME NEW n \in Nodes, ~ IsLast(n), node'[n] = "succeeded" PROVE outcome'[n] = "succeeded"
    <3>1. outcome[n] = "succeeded"
      BY <2>1, NodesStep DEF NodeAgreesWithJob
    <3> QED
      BY <3>1, JobsProgress DEF Job!Settled
  <2> QED
    BY <2>1 DEF NodeAgreesWithJob
<1>5. ASSUME NEW n \in Nodes, n \in consumed', outcome'[n] = "succeeded"
      PROVE  /\ node'[n] = "succeeded"
             /\ node'[Following(n)] # "queued" \/ task'[Following(n)] # "free"
  <2>1. outcome[n] = "succeeded"
    BY <1>5, JobsProgress DEF JobInv
  <2>2. Following(n) \in Nodes
    BY <2>1, NodesOfRuns DEF JobInv
  <2>3. \/ n \in consumed
        \/ \E w \in Workers : pc[w] = "consume" /\ at[w] = n
    BY <1>5, JobsProgress
  <2>4. node[n] = "succeeded" /\ (node[Following(n)] # "queued" \/ task[Following(n)] # "free")
    BY <2>1, <2>3 DEF HandlerInv, Relies, ConsumedSuccessIsHandedOn
  <2> QED
    BY <2>2, <2>4, RowsProgress, QueueProgress
<1>6. ConsumedSuccessIsHandedOn'
  BY <1>5, JobsProgress DEF ConsumedSuccessIsHandedOn
<1> QED
  BY <1>1, <1>3, <1>4, <1>6

\* Runs and projects are reported as done with their product only.
LEMMA DeliveredStays ==
    ASSUME EngineInv, Next
    PROVE  DeliveredBeforeSucceeded'
PROOF
<1> DEFINE T == /\ \A r \in Runs : run'[r] = "succeeded" => run[r] = "succeeded" \/ r \in delivered'
                /\ project' = "completed" =>
                     project = "completed" \/ delivered' \cap BookRuns # {}
<1> USE DEF EngineInv, TypeOK, StoreTypeOK, WorkerTypeOK
<1>1. ASSUME UNCHANGED rows PROVE T
  BY <1>1 DEF rows
<1>2. ASSUME NEW w \in Workers, RowsOf(w) PROVE T
  <2>1. Relies(at[w], pc[w]) /\ at[w] \in Nodes /\ at[w][1] \in Runs
    BY NodesOfRuns DEF HandlerInv
  <2>2. CASE pc[w] = "claim" /\ ClaimNode(at[w])
    BY <2>2 DEF ClaimNode
  <2>3. CASE \/ pc[w] = "claimed" /\ MarkRunRunning(at[w][1])
             \/ pc[w] = "work" /\ (SaveArtifact(at[w][1]) \/ Persist(at[w][1]))
    BY <2>1, <2>3 DEF MarkRunRunning, SaveArtifact, Persist, rows
  <2>4. CASE \/ pc[w] = "succeed" /\ SucceedNode(at[w])
             \/ pc[w] = "settle" /\ outcome[at[w]] = "succeeded" /\ SucceedNode(at[w])
    <3>1. IsLast(at[w]) => at[w][1] \in delivered
      BY <2>1, <2>4 DEF Relies, JobInv
    <3> QED
      BY <2>1, <2>4, <3>1 DEF SucceedNode
  <2>5. CASE FailNode(at[w])
    BY <2>1, <2>5 DEF FailNode
  <2> QED
    BY <1>2, <2>2, <2>3, <2>4, <2>5 DEF RowsOf
<1>3. ASSUME NEW c \in Clients, RowsOfRequest(c) PROVE T
  BY <1>3 DEF RowsOfRequest, InsertRun, RevertSubmit, AttachRun, RequeueRun, PrepareSubmit
<1>4. T
  BY <1>1, <1>2, <1>3, RowsStep
<1>5. delivered \subseteq delivered'
  BY RowsProgress
<1> QED
  BY <1>4, <1>5 DEF DeliveredBeforeSucceeded

---------------------------------------------------------------------------
\* A request finds its visit as it left it: the worker does not touch a visit
\* that has no run, and no other request creates it.
LEMMA WorkerLeavesDrafts ==
    ASSUME EngineInv, WorkerNext, NEW v \in Visits
    PROVE  /\ run[v] = "none" => run'[v] = "none" /\ visit'[v] = visit[v]
           /\ visit'[v] = "draft" => visit[v] = "draft"
PROOF
<1> DEFINE T == /\ run[v] = "none" => run'[v] = "none" /\ visit'[v] = visit[v]
                /\ visit'[v] = "draft" => visit[v] = "draft"
<1> USE DEF EngineInv, TypeOK, StoreTypeOK, WorkerTypeOK
<1>1. CASE UNCHANGED rows
  BY <1>1 DEF rows
<1>2. ASSUME NEW w \in Workers, RowsOf(w) PROVE T
  <2>1. Relies(at[w], pc[w]) /\ at[w] \in Nodes
    BY DEF HandlerInv
  <2>2. node[at[w]] # "queued" => run[at[w][1]] # "none"
    BY <2>1 DEF OrderInv
  <2>3. CASE pc[w] = "claim" /\ ClaimNode(at[w])
    BY <2>3 DEF ClaimNode
  <2>4. CASE pc[w] = "claimed" /\ MarkRunRunning(at[w][1])
    BY <2>1, <2>2, <2>4 DEF MarkRunRunning, Relies, NodeSteps
  <2>5. CASE pc[w] = "work" /\ (SaveArtifact(at[w][1]) \/ Persist(at[w][1]))
    <3>1. run[at[w][1]] # "none"
      BY <2>1, <2>2, <2>5 DEF Relies, NodeSteps
    <3> QED
      BY <2>5, <3>1 DEF SaveArtifact, Persist, rows
  <2>6. CASE SucceedNode(at[w])
    BY <2>2, <2>6 DEF SucceedNode, CanSucceed
  <2>7. CASE FailNode(at[w])
    BY <2>2, <2>7 DEF FailNode, CanFail
  <2> QED
    BY <1>2, <2>3, <2>4, <2>5, <2>6, <2>7 DEF RowsOf
<1> QED
  BY <1>1, <1>2, WorkerRows

\* A request that does not move is still as it should be.
LEMMA StillServing ==
    ASSUME EngineInv, Next, NEW d \in Clients, step'[d] = step[d], subject'[d] = subject[d],
           step[d] \in {"create", "revert"} =>
             /\ visit'[subject[d][1]] = "submitted"
             /\ run'[subject[d][1]] = "none"
             /\ \A e \in Clients \ {d} : step'[e] \in SubmitSteps => subject'[e][1] # subject[d][1]
    PROVE  Serving(d)'
PROOF
<1>1. Serving(d) /\ subject[d] \in Nodes
  BY DEF EngineInv, RequestInv, TypeOK
<1>2. run[subject[d][1]] # "none" => run'[subject[d][1]] # "none"
  BY <1>1, RowsProgress, NodesOfRuns DEF EngineInv
<1>3. Reached(subject[d]) => Reached(subject[d])'
  BY <1>1, RowsProgress, NodesOfRuns DEF EngineInv, Reached
<1>4. doubled \subseteq doubled'
  BY OtherTypes DEF EngineInv
<1> QED
  BY <1>1, <1>2, <1>3, <1>4 DEF Serving

\* The parts of RequestInv about the visits.
VisitsInv ==
    \A v \in Visits : /\ visit[v] \in {"draft", "submitted"} \/ run[v] # "none"
                      /\ visit[v] = "draft" => run[v] = "none"

\* Every request keeps its visit to itself as long as it has to.
LEMMA RequestsKeepTheirVisit ==
    ASSUME EngineInv, Next
    PROVE  RequestInv'
PROOF
<1> DEFINE R == VisitsInv' /\ \A d \in Clients : Serving(d)'
<1> USE DEF EngineInv, TypeOK, StoreTypeOK
<1>1. VisitsInv /\ \A d \in Clients : Serving(d) /\ subject[d] \in Nodes /\ subject[d][1] \in Runs
  BY NodesOfRuns DEF RequestInv, VisitsInv
<1>2. \A n \in Nodes : n[1] \in Visits <=> n[1] \notin BookRuns
  BY WorkflowRunsAssumption DEF Nodes
<1>3. ASSUME WorkerNext, UNCHANGED requests PROVE R
  <2>1. VisitsInv'
    BY <1>1, <1>3, WorkerLeavesDrafts, RowsProgress DEF VisitsInv, Runs
  <2>2. ASSUME NEW d \in Clients PROVE Serving(d)'
    <3>1. step[d] \in {"create", "revert"} => subject[d][1] \in Visits
      BY <1>1 DEF Serving, SubmitSteps
    <3> QED
      BY <1>1, <1>3, <3>1, WorkerLeavesDrafts, StillServing DEF requests, Serving
  <2> QED
    BY <2>1, <2>2
<1> DEFINE A(c) ==
      /\ VisitsInv'
      /\ Serving(c)'
      /\ \A d \in Clients \ {c} :
           /\ step'[d] = step[d] /\ subject'[d] = subject[d]
           /\ step[d] \in {"create", "revert"} =>
                /\ visit'[subject[d][1]] = "submitted"
                /\ run'[subject[d][1]] = "none"
                /\ step'[c] \in SubmitSteps => subject'[c][1] # subject[d][1]
<1>4. ASSUME NEW c \in Clients, A(c) PROVE R
  <2>1. ASSUME NEW d \in Clients \ {c} PROVE Serving(d)'
    BY <1>1, <1>4, <2>1, StillServing DEF Serving
  <2> QED
    BY <1>4, <2>1
<1>5. ASSUME NEW c \in Clients, Serve(c) \/ Stop(c) PROVE A(c)
  <2> DEFINE r == subject[c][1]
  <2>1. CASE CreateRun(c)
    <3>1. CASE InsertRun(r) /\ Proceed(c, "start")
      BY <1>1, <2>1, <3>1 DEF CreateRun, InsertRun, Proceed, Serving, VisitsInv, SubmitSteps, Runs
    <3>2. CASE Proceed(c, "revert") /\ UNCHANGED rows
      BY <1>1, <2>1, <3>2 DEF CreateRun, rows, Proceed, Serving, VisitsInv, SubmitSteps
    <3> QED
      BY <2>1, <3>1, <3>2 DEF CreateRun
  <2>2. CASE Revert(c)
    BY <1>1, <2>2 DEF Revert, RevertSubmit, Leave, Finish, Serving, VisitsInv, SubmitSteps
  <2>3. CASE StartFirst(c)
    BY <1>1, <2>3 DEF StartFirst, Proceed, rows, Serving, VisitsInv, SubmitSteps
  <2>4. CASE Attach(c)
    BY <1>1, <2>4 DEF Attach, AttachRun, Leave, Finish, Serving, VisitsInv, SubmitSteps
  <2>5. CASE PickNode(c)
    <3>1. CASE Leave(c) /\ UNCHANGED rows
      BY <1>1, <3>1 DEF Leave, Finish, rows, Serving, VisitsInv, SubmitSteps
    <3>2. ASSUME NEW k \in 1..VisitNodes,
                 SelectPayload(r, k),
                 step' = [step EXCEPT ![c] = "requeue"],
                 subject' = [subject EXCEPT ![c] = <<r, k>>],
                 doubled' = IF \E i \in 1..(k - 1) : node[<<r, i>>] = "running"
                            THEN doubled \cup {r} ELSE doubled,
                 UNCHANGED rows
          PROVE  A(c)
      <4>1. r \in Visits /\ run[r] # "none" /\ step[c] = "retry"
        BY <1>1, <2>5 DEF PickNode, Serving
      <4>2. step'[c] = "requeue" /\ subject'[c] = <<r, k>> /\ UNCHANGED <<node, run, visit>>
        BY <3>2 DEF rows
      <4>3. ASSUME r \notin doubled' PROVE Reached(<<r, k>>)
        <5>1. ASSUME NEW i \in 1..(k - 1) PROVE node[<<r, i>>] = "succeeded"
          <6>1. i \in 1..VisitNodes /\ i < k /\ <<r, i>> \in Nodes
            BY <4>1, WorkflowRunsAssumption DEF Nodes
          <6>2. node[<<r, i>>] \notin {"queued", "failed"}
            BY <3>2, <6>1 DEF SelectPayload, Unfinished
          <6>3. node[<<r, i>>] # "running"
            BY <3>2, <4>3
          <6> QED
            BY <6>1, <6>2, <6>3 DEF NodeState
        <5> QED
          BY <5>1 DEF Reached
      <4>4. r \notin doubled' => Reached(subject[c])'
        BY <4>2, <4>3 DEF Reached
      <4>5. VisitsInv'
        BY <1>1, <4>2 DEF VisitsInv
      <4>6. Serving(c)'
        BY <4>1, <4>2, <4>4 DEF Serving, SubmitSteps
      <4> QED
        BY <1>1, <3>2, <4>1, <4>2, <4>5, <4>6 DEF Serving, SubmitSteps
    <3> QED
      BY <2>5, <3>1, <3>2 DEF PickNode
  <2>7. CASE Requeue(c)
    <3>1. r \in Visits /\ r \in Runs /\ run[r] # "none" /\ step[c] = "requeue"
      BY <1>1, <2>7 DEF Requeue, Serving
    <3>2. /\ step'[c] = "enqueue" /\ subject' = subject /\ node' = node /\ doubled' = doubled
          /\ run' = [run EXCEPT ![r] = "queued"] /\ visit' = [visit EXCEPT ![r] = "analyzing"]
      BY <2>7 DEF Requeue, RequeueRun
    <3>3. VisitsInv'
      BY <1>1, <3>1, <3>2 DEF VisitsInv
    <3>4. Serving(c)'
      BY <1>1, <3>1, <3>2 DEF Serving, SubmitSteps, Reached
    <3> QED
      BY <1>1, <2>7, <3>1, <3>2, <3>3, <3>4 DEF Requeue, Serving, SubmitSteps
  <2>6. CASE Enqueue(c) \/ Stop(c)
    BY <1>1, <2>6 DEF Enqueue, Stop, Leave, Finish, rows, Serving, VisitsInv, SubmitSteps
  <2> QED
    BY <1>5, <2>1, <2>2, <2>3, <2>4, <2>5, <2>6, <2>7 DEF Serve
<1>6. ASSUME NEW c \in Clients, NEW v \in Visits, Submit(c, v) \/ Retry(c, v) PROVE A(c)
  <2>1. First(v) \in Nodes /\ First(v)[1] = v
    BY NodesOfRuns DEF Runs
  <2>2. CASE Submit(c, v)
    BY <1>1, <2>1, <2>2 DEF Submit, PrepareSubmit, Enter, Serving, VisitsInv, SubmitSteps
  <2>3. CASE Retry(c, v)
    BY <1>1, <2>1, <2>3 DEF Retry, Enter, rows, Serving, VisitsInv, SubmitSteps
  <2> QED
    BY <1>6, <2>2, <2>3
<1>7. ASSUME NEW c \in Clients, NEW b \in BookRuns, Start(c, b) \/ Finalize(c, b) PROVE A(c)
  <2>1. First(b) \in Nodes /\ First(b)[1] = b
    BY NodesOfRuns DEF Runs
  <2>2. InsertRun(b) /\ Enter(c, "enqueue", First(b))
    BY <1>7 DEF Start, Finalize, FinalizeBook
  <2>3. b \notin Visits /\ b \in Runs
    BY WorkflowRunsAssumption DEF Runs
  <2>4. Reached(First(b))'
    BY DEF Reached, First
  <2> QED
    BY <1>1, <2>1, <2>2, <2>3, <2>4 DEF InsertRun, Enter, Serving, VisitsInv, SubmitSteps
<1>8. R
  BY <1>3, <1>4, <1>5, <1>6, <1>7 DEF Next
<1> QED
  BY <1>8 DEF RequestInv, VisitsInv

---------------------------------------------------------------------------
\* The inductive invariant is preserved by every step.
LEMMA EngineNext == EngineInv /\ [Next]_vars => EngineInv'
PROOF
<1> SUFFICES ASSUME EngineInv, [Next]_vars PROVE EngineInv'
  OBVIOUS
<1>1. CASE Next
  <2> USE <1>1 DEF EngineInv
  <2>1. TypeOK'
    <3>1. StoreTypeOK' /\ QueueTypeOK'
      BY RowsProgress, QueueProgress
    <3>2. /\ WorkerTypeOK'
          /\ step' \in [Clients -> RequestSteps] /\ subject' \in [Clients -> Nodes]
          /\ doubled' \subseteq Visits /\ unheard' \subseteq Visits
      <4>1. outcome' \in [Nodes -> OutcomeState] /\ consumed' \subseteq Nodes
        BY JobsProgress
      <4>2. pc' \in [Workers -> NodeSteps \cup PollSteps \cup {"idle"}] /\ at' \in [Workers -> Nodes]
        BY HandlersStep
      <4> QED
        BY <4>1, <4>2, OtherTypes DEF WorkerTypeOK
    <3> QED
      BY <3>1, <3>2 DEF TypeOK
  <2>2. HandlerInv' /\ TaskInv'
    BY HandlersStep
  <2>3. JobInv' /\ OrderInv' /\ NodeAgreesWithJob' /\ ConsumedSuccessIsHandedOn'
    BY JobsKeepOrder
  <2>4. RequestInv' /\ DeliveredBeforeSucceeded'
    BY RequestsKeepTheirVisit, DeliveredStays
  <2> QED
    BY <2>1, <2>2, <2>3, <2>4
<1>2. CASE UNCHANGED vars
  <2>1. UNCHANGED rows /\ UNCHANGED queue /\ UNCHANGED jobs /\ UNCHANGED <<overdue, faults>>
        /\ UNCHANGED handlers /\ UNCHANGED requests
    BY <1>2 DEF vars
  <2> USE <2>1 DEF EngineInv, rows, queue, jobs, handlers, requests
  <2>2. TypeOK'
    BY DEF TypeOK, StoreTypeOK, QueueTypeOK, WorkerTypeOK
  <2>3. HandlerInv' /\ TaskInv'
    BY DEF HandlerInv, TaskInv, Relies
  <2>4. JobInv' /\ OrderInv'
    BY DEF JobInv, OrderInv, Reached
  <2>5. RequestInv'
    BY DEF RequestInv, Serving, Reached
  <2>6. NodeAgreesWithJob' /\ ConsumedSuccessIsHandedOn' /\ DeliveredBeforeSucceeded'
    BY DEF NodeAgreesWithJob, ConsumedSuccessIsHandedOn, DeliveredBeforeSucceeded
  <2> QED
    BY <2>2, <2>3, <2>4, <2>5, <2>6
<1> QED
  BY <1>1, <1>2

\* What handlers, requests, queue, jobs and rows have to do with each other
\* is never disturbed, whichever of them moves and wherever one stops.
THEOREM EngineInvariant == Spec => []EngineInv
PROOF
<1> QED
  BY EngineInit, EngineNext, PTL DEF Spec

---------------------------------------------------------------------------
\* Every variable of the engine has its type.
THEOREM EngineTypes == Spec => []TypeOK
PROOF
<1>1. EngineInv => TypeOK
  BY DEF EngineInv
<1> QED
  BY <1>1, EngineInvariant, PTL

\* A run that no retry has doubled is in order.
LEMMA OrderOfRun ==
    ASSUME EngineInv, NEW r \in Runs, r \notin doubled
    PROVE  InOrder(r)
PROOF
<1> SUFFICES ASSUME NEW k \in 1..(Last(r) - 1), node[<<r, k + 1>>] # "queued"
             PROVE  node[<<r, k>>] = "succeeded"
  BY DEF InOrder
<1> DEFINE n == <<r, k + 1>>
<1>1. Last(r) \in Nat /\ \A i \in 1..Last(r) : <<r, i>> \in Nodes
  BY WorkflowRunsAssumption DEF Last, Runs, Nodes
<1>2. k + 1 \in 1..Last(r) /\ k \in 1..(n[2] - 1)
  BY <1>1
<1>3. n \in Nodes /\ n[1] = r
  BY <1>1, <1>2
<1>4. Reached(n)
  BY <1>3 DEF EngineInv, OrderInv
<1> QED
  BY <1>2, <1>3, <1>4 DEF Reached

\* The nodes of every book run are started in their order (EnqueueNode,
\* SucceedNode), whatever is redelivered, polled or finalized again.
THEOREM BooksAreInOrder == Spec => []BookNodeOrder
PROOF
<1>1. EngineInv => BookNodeOrder
  BY OrderOfRun, WorkflowRunsAssumption DEF EngineInv, TypeOK, Runs, BookNodeOrder
<1> QED
  BY <1>1, EngineInvariant, PTL

\* So are those of every analysis, until a retry finds one of them at work and
\* queues the one after it (RetryPayload): nothing else disturbs the order.
THEOREM AnalysesAreInOrder == Spec => []OrderUnlessDoubled
PROOF
<1>1. EngineInv => OrderUnlessDoubled
  BY OrderOfRun DEF Runs, OrderUnlessDoubled
<1> QED
  BY <1>1, EngineInvariant, PTL

\* A provider node that has succeeded has a job that has (ProcessProviderPoll).
THEOREM NodesAgreeWithJobs == Spec => []NodeAgreesWithJob
PROOF
<1>1. EngineInv => NodeAgreesWithJob
  BY DEF EngineInv
<1> QED
  BY <1>1, EngineInvariant, PTL

\* No crash between settling a node, queueing the next one and acknowledging
\* the job loses the continuation of a run (ProcessProviderPoll).
THEOREM SuccessIsHandedOn == Spec => []ConsumedSuccessIsHandedOn
PROOF
<1>1. EngineInv => ConsumedSuccessIsHandedOn
  BY DEF EngineInv
<1> QED
  BY <1>1, EngineInvariant, PTL

\* A run is reported as succeeded only when its product is stored (Process,
\* SucceedNode).
THEOREM ProductsComeFirst == Spec => []DeliveredBeforeSucceeded
PROOF
<1>1. EngineInv => DeliveredBeforeSucceeded
  BY DEF EngineInv
<1> QED
  BY <1>1, EngineInvariant, PTL

\* A request about to create the analysis run of a visit is alone with it
\* (PrepareSubmit).
THEOREM SubmitsAreExclusive == Spec => []SubmitIsExclusive
PROOF
<1>1. EngineInv => SubmitIsExclusive
  BY DEF EngineInv, RequestInv, Serving, SubmitIsExclusive
<1> QED
  BY <1>1, EngineInvariant, PTL
===========================================================================
