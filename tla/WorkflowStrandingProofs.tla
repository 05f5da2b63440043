----------------------- MODULE WorkflowStrandingProofs -----------------------
(***************************************************************************)
(* Proofs that a node whose turn has come is left behind by faults only,   *)
(* and then in the listed places only, and that a retry of the staff takes *)
(* hold but for faults and the listed ways to lose it, for any number of   *)
(* runs, nodes, handlers, requests, retries and faults.                    *)
(***************************************************************************)
EXTENDS WorkflowProofs

\* The steps of a handler that has claimed its node.
WorkSteps == NodeSteps \ {"claim", "recover", "done", "error"}

\* A request is about to queue n.
Queueing(n) == \E c \in Clients : step[c] \in {"start", "enqueue"} /\ subject[c] = n

\* Somebody sees to the first node of a run until it has been started.
FirstInv ==
    \A r \in Runs :
      run[r] # "none" =>
        node[First(r)] # "queued" \/ task[First(r)] # "free" \/ Queueing(First(r))

\* A claimed node that has no job yet is in the hands of its handler.
WorkInv ==
    \A n \in Nodes :
      node[n] = "running" /\ outcome[n] = "none" =>
        \E w \in Workers : at[w] = n /\ pc[w] \in WorkSteps

\* A task uses up its retries only by failing after it has claimed its node.
ArchiveInv == \A n \in Nodes : task[n] = "archived" => node[n] # "queued"

FaultlessInv == faults = 0 => FirstInv /\ WorkInv /\ ArchiveInv

---------------------------------------------------------------------------
\* What a step of the handler w may do as long as there are no faults.
Calm(w) ==
    /\ \A x \in Workers \ {w} : pc'[x] = pc[x] /\ at'[x] = at[x]
    /\ \A n \in Nodes :
         task'[n] = "archived" => task[n] = "archived" \/ (n = at[w] /\ pc[w] = "error")
    /\ \A n \in Nodes :
         node'[n] = "running" /\ outcome'[n] = "none" =>
           \/ at'[w] = n /\ pc'[w] \in WorkSteps
           \/ /\ node[n] = "running" /\ outcome[n] = "none"
              /\ at[w] = n => pc[w] \notin WorkSteps
    /\ \A n \in Nodes :
         task[n] = "ready" => task'[n] = "ready" \/ (at'[w] = n /\ pc'[w] = "claim")
    /\ pc[w] = "claim" => node'[at[w]] # "failed"

\* Faults are counted, and never taken back.
LEMMA FaultsAreCounted ==
    ASSUME Next, faults \in Nat
    PROVE  faults' = faults \/ Fault
PROOF
<1>1. ASSUME NEW w \in Workers, Handle(w) PROVE faults' = faults \/ Fault
  BY <1>1 DEF Handle, Claim, ClaimRun, SubmitJob, CallProvider, Wait, Recover, Produce, Succeed, Fail,
              EndNode, Refresh, SettleOpen, FindSettled, PollAgain, Peek, Settle, HandOn, Consume
<1>2. ASSUME NEW w \in Workers,
             \/ ProcessorFails(w) \/ Interrupt(w)
             \/ \E n \in Nodes : StartNode(w, n) \/ StartPoll(w, n)
      PROVE  faults' = faults \/ Fault
  BY <1>2 DEF ProcessorFails, Interrupt, StartNode, StartPoll
<1>3. ASSUME NEW n \in Nodes, Callback(n) \/ Reconcile(n) \/ DeadlinePasses(n)
      PROVE  faults' = faults \/ Fault
  BY <1>3 DEF Callback, Reconcile, DeadlinePasses
<1>4. ASSUME NEW c \in Clients,
             \/ Serve(c) \/ Stop(c)
             \/ \E v \in Visits : Submit(c, v) \/ Retry(c, v)
             \/ \E r \in BookRuns : Start(c, r) \/ Finalize(c, r)
      PROVE  faults' = faults \/ Fault
  BY <1>4 DEF Serve, CreateRun, Revert, StartFirst, Attach, PickNode, Requeue, Enqueue, Stop, Submit, Retry,
              Start, Finalize
<1> QED
  BY <1>1, <1>2, <1>3, <1>4 DEF Next, WorkerNext

\* Every step of the worker is such a step, or a fault.
LEMMA WorkerIsCalm ==
    ASSUME EngineInv, WorkerNext, faults' = 0
    PROVE  \/ UNCHANGED <<node, task, pc, at>> /\ \A n \in Nodes : outcome'[n] = "none" => outcome[n] = "none"
           \/ \E w \in Workers : Calm(w)
PROOF
<1>2. ~ Fault
  <2>1. faults \in 0..MaxFaults
    BY DEF EngineInv, TypeOK, WorkerTypeOK
  <2> QED
    BY <2>1, WorkflowWorkerAssumption DEF Fault
<1> USE DEF EngineInv, TypeOK, StoreTypeOK, WorkerTypeOK, QueueTypeOK, WorkSteps, NodeSteps
<1>1. \A w \in Workers : Relies(at[w], pc[w]) /\ at[w] \in Nodes
  BY DEF HandlerInv
<1>3. ASSUME NEW w \in Workers, Handle(w) PROVE Calm(w)
  <2>1. CASE Claim(w)
    <3>1. CASE ClaimNode(at[w]) /\ Goto(w, "claimed")
      BY <1>1, <2>1, <3>1 DEF Claim, ClaimNode, Goto, Calm, queue, jobs
    <3>2. CASE Goto(w, "recover") /\ UNCHANGED rows
      BY <1>1, <2>1, <3>2 DEF Claim, Goto, Calm, rows, queue, jobs
    <3> QED
      BY <2>1, <3>1, <3>2 DEF Claim
  <2>2. CASE ClaimRun(w)
    BY <1>1, <2>2 DEF ClaimRun, MarkRunRunning, Goto, Calm, rows, queue, jobs
  <2>3. CASE SubmitJob(w)
    BY <1>1, <2>3 DEF SubmitJob, Job!Create, Goto, Calm, rows, queue, jobs
  <2>4. CASE CallProvider(w)
    BY <1>1, <2>4 DEF CallProvider, Job!Settle, Relies, Goto, Calm, rows, queue, jobs
  <2>5. CASE Wait(w) \/ Recover(w)
    BY <1>1, <2>5 DEF Wait, Recover, EnqueuePoll, Relies, Goto, Calm, rows, queue, jobs
  <2>6. CASE Produce(w)
    BY <1>1, <2>6 DEF Produce, SaveArtifact, Persist, Goto, Calm, rows, queue, jobs
  <2>7. CASE Succeed(w) \/ Fail(w)
    BY <1>1, <2>7 DEF Succeed, SucceedNode, Fail, FailNode, CanFail, Goto, Calm, rows, queue, jobs
  <2>8. CASE EndNode(w)
    <3>1. /\ at[w] \in Nodes /\ pc[w] \in {"done", "error"} /\ task[at[w]] = "active"
          /\ pc[w] = "done" => CompleteTask(at[w])
          /\ pc[w] = "error" => RetryTask(at[w])
          /\ End(w) /\ UNCHANGED <<node, outcome>>
      BY <1>1, <2>8 DEF EndNode, Relies, rows, jobs
    <3>2. \A m \in Nodes :
            /\ task'[m] = "archived" => task[m] = "archived" \/ (m = at[w] /\ pc[w] = "error")
            /\ task[m] = "ready" => task'[m] = "ready"
      <4>1. CASE pc[w] = "done"
        BY <3>1, <4>1 DEF CompleteTask
      <4>2. CASE pc[w] = "error"
        BY <3>1, <4>2 DEF RetryTask
      <4> QED
        BY <3>1, <4>1, <4>2
    <3> QED
      BY <3>1, <3>2 DEF End, Calm
  <2>9. CASE Refresh(w) \/ Peek(w) \/ HandOn(w)
    BY <1>1, <2>9 DEF Refresh, Peek, HandOn, EnqueueNode, Goto, End, Calm, rows, queue, jobs
  <2>10. CASE SettleOpen(w) \/ FindSettled(w)
    BY <1>1, <2>10 DEF SettleOpen, FindSettled, Job!Settle, Job!Settled, RetryPoll, Goto, End, Calm, rows, queue, jobs
  <2>11. CASE Settle(w)
    BY <1>1, <2>11 DEF Settle, SucceedNode, FailNode, RetryPoll, Goto, End, Calm, rows, queue, jobs
  <2>12. CASE PollAgain(w) \/ Consume(w)
    BY <1>1, <2>12 DEF PollAgain, Consume, EnqueuePoll, Job!Consume, End, Calm, rows, queue, jobs
  <2> QED
    BY <1>3, <2>1, <2>2, <2>3, <2>4, <2>5, <2>6, <2>7, <2>8, <2>9, <2>10, <2>11, <2>12 DEF Handle
<1>4. ASSUME NEW w \in Workers, NEW n \in Nodes, StartNode(w, n) \/ StartPoll(w, n)
      PROVE  Calm(w)
  BY <1>1, <1>4 DEF StartNode, StartPoll, TakeTask, TakePoll, Take, Calm, rows, queue, jobs
<1>5. ASSUME NEW w \in Workers, ProcessorFails(w) \/ Interrupt(w) PROVE FALSE
  BY <1>2, <1>5 DEF ProcessorFails, Interrupt
<1>6. ASSUME NEW n \in Nodes, Callback(n) \/ Reconcile(n) \/ DeadlinePasses(n)
      PROVE  /\ UNCHANGED <<node, task, pc, at>>
             /\ \A m \in Nodes : outcome'[m] = "none" => outcome[m] = "none"
  BY <1>6 DEF Callback, Reconcile, DeadlinePasses, Job!Settle, Job!Settled, EnqueuePoll, rows, queue, jobs, handlers
<1> QED
  BY <1>3, <1>4, <1>5, <1>6 DEF WorkerNext

\* The worker creates no run.
LEMMA WorkerCreatesNoRun ==
    ASSUME EngineInv, WorkerNext, NEW r \in Runs, run[r] = "none"
    PROVE  run'[r] = "none"
PROOF
<1> USE DEF EngineInv, TypeOK, StoreTypeOK, WorkerTypeOK
<1>1. CASE UNCHANGED rows
  BY <1>1 DEF rows
<1>2. ASSUME NEW w \in Workers, RowsOf(w) PROVE run'[r] = "none"
  <2>1. Relies(at[w], pc[w]) /\ at[w] \in Nodes
    BY DEF HandlerInv
  <2>2. pc[w] \in NodeSteps => run[at[w][1]] # "none"
    BY <2>1 DEF Relies, OrderInv
  <2>3. node[at[w]] # "queued" => run[at[w][1]] # "none"
    BY <2>1 DEF OrderInv
  <2>4. CASE pc[w] = "claimed" /\ MarkRunRunning(at[w][1])
    BY <2>1, <2>2, <2>4 DEF MarkRunRunning, NodeSteps
  <2>5. CASE SucceedNode(at[w]) \/ FailNode(at[w])
    BY <2>1, <2>3, <2>5 DEF SucceedNode, CanSucceed, FailNode, CanFail
  <2>6. CASE ClaimNode(at[w]) \/ SaveArtifact(at[w][1]) \/ Persist(at[w][1])
    BY <2>6 DEF ClaimNode, SaveArtifact, Persist, rows
  <2> QED
    BY <1>2, <2>4, <2>5, <2>6 DEF RowsOf
<1> QED
  BY <1>1, <1>2, WorkerRows

\* The requests.
Requested(c) ==
    \/ Serve(c) \/ Stop(c)
    \/ \E v \in Visits : Submit(c, v) \/ Retry(c, v)
    \/ \E r \in BookRuns : Start(c, r) \/ Finalize(c, r)

\* They leave the nodes, the jobs and the handlers alone, and archive no task.
LEMMA RequestsAreCalm ==
    ASSUME TypeOK, NEW c \in Clients, Requested(c)
    PROVE  /\ UNCHANGED <<node, outcome, pc, at>>
           /\ \A n \in Nodes : task'[n] = "archived" => task[n] = "archived"
PROOF
<1> USE DEF rows, jobs, queue, handlers
<1>1. CASE StartFirst(c) \/ Enqueue(c)
  BY <1>1 DEF StartFirst, Enqueue, EnqueueNode, TypeOK, QueueTypeOK
<1>2. CASE CreateRun(c) \/ Revert(c) \/ Attach(c) \/ PickNode(c) \/ Requeue(c) \/ Stop(c)
  BY <1>2 DEF CreateRun, Revert, Attach, PickNode, Requeue, Stop, InsertRun, RevertSubmit, AttachRun,
              RequeueRun
<1>3. CASE \E v \in Visits : Submit(c, v) \/ Retry(c, v)
  BY <1>3 DEF Submit, PrepareSubmit, Retry
<1>4. CASE \E r \in BookRuns : Start(c, r) \/ Finalize(c, r)
  BY <1>4 DEF Start, Finalize, FinalizeBook, InsertRun
<1> QED
  BY <1>1, <1>2, <1>3, <1>4 DEF Requested, Serve

\* Without a fault a request creates a run only to queue its first node, and
\* gives that up only when it has.
LEMMA RequestsQueueFirst ==
    ASSUME EngineInv, faults' = 0, NEW c \in Clients, Requested(c), NEW r \in Runs, run'[r] # "none",
           run[r] # "none" => task[First(r)] # "free" \/ Queueing(First(r))
    PROVE  task'[First(r)] # "free" \/ Queueing(First(r))'
PROOF
<1> DEFINE n == First(r)
           G == task'[n] # "free" \/ Queueing(n)'
<1>1. ~ Fault
  <2>1. faults \in 0..MaxFaults
    BY DEF EngineInv, TypeOK, WorkerTypeOK
  <2> QED
    BY <2>1, WorkflowWorkerAssumption DEF Fault
<1> USE DEF EngineInv, TypeOK, StoreTypeOK, QueueTypeOK
<1>2. n \in Nodes /\ \A q \in Runs : First(q)[1] = q
  BY NodesOfRuns
<1>3. \A d \in Clients : step[d] \in SubmitSteps => subject[d] = First(subject[d][1])
  BY DEF RequestInv, Serving
<1>4. ASSUME run[r] = "none" PROVE G
  <2>1. CASE CreateRun(c)
    <3>1. InsertRun(subject[c][1]) /\ Proceed(c, "start")
      BY <1>1, <2>1 DEF CreateRun
    <3>2. subject[c][1] = r
      BY <1>4, <3>1 DEF InsertRun
    <3>3. subject[c] = n
      BY <1>3, <2>1, <3>2 DEF CreateRun, SubmitSteps
    <3> QED
      BY <3>1, <3>3 DEF Proceed, Queueing
  <2>2. ASSUME NEW b \in BookRuns, Start(c, b) \/ Finalize(c, b) PROVE G
    <3>1. InsertRun(b) /\ Enter(c, "enqueue", First(b))
      BY <2>2 DEF Start, Finalize, FinalizeBook
    <3>2. b = r
      BY <1>4, <3>1 DEF InsertRun
    <3> QED
      BY <3>1, <3>2 DEF Enter, Queueing
  <2>3. CASE \/ Revert(c) \/ StartFirst(c) \/ Attach(c) \/ Enqueue(c) \/ Stop(c)
             \/ \E v \in Visits : Submit(c, v) \/ Retry(c, v)
    <3>1. run' = run
      BY <2>3 DEF Revert, RevertSubmit, StartFirst, Attach, AttachRun, Enqueue, Stop, Submit,
                  PrepareSubmit, Retry, rows
    <3> QED
      BY <1>4, <3>1
  <2>4. CASE PickNode(c)
    BY <1>4, <2>4 DEF PickNode, rows
  <2>5. CASE Requeue(c)
    <3>1. run[subject[c][1]] # "none"
      BY <2>5 DEF Requeue, RequestInv, Serving
    <3> QED
      BY <1>4, <2>5, <3>1 DEF Requeue, RequeueRun
  <2> QED
    BY <2>1, <2>2, <2>3, <2>4, <2>5 DEF Requested, Serve
<1>5. ASSUME run[r] # "none", task[n] # "free" PROVE G
  <2>1. UNCHANGED task \/ \E m \in Nodes : EnqueueNode(m)
    BY <1>5 DEF Requested, Serve, CreateRun, Revert, StartFirst, Attach, PickNode, Requeue, Enqueue,
                Stop, Submit, Retry, Start, Finalize, queue
  <2> QED
    BY <1>2, <1>5, <2>1 DEF EnqueueNode
<1>6. ASSUME NEW d \in Clients, step[d] \in {"start", "enqueue"}, subject[d] = n PROVE G
  <2>1. CASE d # c
    <3>1. step'[d] = step[d] /\ subject'[d] = subject[d]
      BY <2>1 DEF Requested, Serve, CreateRun, Revert, StartFirst, Attach, PickNode, Requeue, Enqueue,
                  Stop, Submit, Retry, Start, Finalize, Proceed, Enter, Leave, Finish
    <3> QED
      BY <1>6, <3>1 DEF Queueing
  <2>2. CASE d = c
    <3>1. CASE StartFirst(c) \/ Enqueue(c)
      <4>1. EnqueueNode(n)
        BY <1>1, <1>6, <2>2, <3>1 DEF StartFirst, Enqueue
      <4> QED
        BY <1>2, <4>1 DEF EnqueueNode
    <3>2. ~ Stop(c)
      BY <1>1 DEF Stop
    <3> QED
      BY <1>6, <2>2, <3>1, <3>2 DEF Requested, Serve, CreateRun, Revert, Attach, PickNode, Requeue,
                  Submit, Retry, Start, Finalize, Enter
  <2> QED
    BY <2>1, <2>2
<1> QED
  BY <1>4, <1>5, <1>6 DEF Queueing

---------------------------------------------------------------------------
\* Initially there is no run, and every node is queued without a task.
LEMMA FaultlessInit == Init => FaultlessInv
PROOF
<1> SUFFICES ASSUME Init PROVE FaultlessInv
  OBVIOUS
<1>1. \A r \in Runs : First(r) \in Nodes
  BY NodesOfRuns
<1> QED
  BY <1>1 DEF Init, StoreInit, QueueInit, WorkerInit, FaultlessInv, FirstInv, WorkInv, ArchiveInv

\* As long as there are no faults no step leaves a run behind.
LEMMA FaultlessNext ==
    ASSUME EngineInv, FaultlessInv, Next
    PROVE  FaultlessInv'
PROOF
<1> SUFFICES ASSUME faults' = 0 PROVE FirstInv' /\ WorkInv' /\ ArchiveInv'
  BY DEF FaultlessInv
<1> USE DEF EngineInv
<1>1. faults = 0
  <2>1. faults \in Nat
    BY WorkflowWorkerAssumption DEF TypeOK, WorkerTypeOK
  <2> QED
    BY <2>1, FaultsAreCounted DEF Fault
<1>2. FirstInv /\ WorkInv /\ ArchiveInv
  BY <1>1 DEF FaultlessInv
<1>3. \A w \in Workers : Relies(at[w], pc[w]) /\ at[w] \in Nodes
  BY DEF HandlerInv, TypeOK, WorkerTypeOK
<1>4. \A n \in Nodes : node[n] # "queued" => node'[n] # "queued"
  BY RowsProgress
<1>5. CASE WorkerNext /\ UNCHANGED requests
  <2>1. FirstInv'
    <3> SUFFICES ASSUME NEW r \in Runs, run'[r] # "none", node'[First(r)] = "queued", task'[First(r)] = "free"
                 PROVE  Queueing(First(r))'
      BY DEF FirstInv
    <3>1. First(r) \in Nodes /\ run[r] # "none"
      BY <1>5, NodesOfRuns, WorkerCreatesNoRun
    <3>2. node[First(r)] = "queued" /\ task[First(r)] = "free"
      BY <1>4, <3>1, QueueProgress
    <3>3. Queueing(First(r))
      BY <1>2, <3>1, <3>2 DEF FirstInv
    <3> QED
      BY <1>5, <3>3 DEF Queueing, requests
  <2>2. CASE /\ UNCHANGED <<node, task, pc, at>>
             /\ \A n \in Nodes : outcome'[n] = "none" => outcome[n] = "none"
    BY <1>2, <2>1, <2>2 DEF WorkInv, ArchiveInv
  <2>3. ASSUME NEW w \in Workers, Calm(w) PROVE WorkInv' /\ ArchiveInv'
    <3>1. ASSUME NEW n \in Nodes, node'[n] = "running", outcome'[n] = "none"
          PROVE  \E x \in Workers : at'[x] = n /\ pc'[x] \in WorkSteps
      <4>1. CASE at'[w] = n /\ pc'[w] \in WorkSteps
        BY <4>1
      <4>2. CASE /\ node[n] = "running" /\ outcome[n] = "none"
                 /\ at[w] = n => pc[w] \notin WorkSteps
        <5>1. PICK x \in Workers : at[x] = n /\ pc[x] \in WorkSteps
          BY <1>2, <4>2 DEF WorkInv
        <5>2. x # w
          BY <4>2, <5>1
        <5> QED
          BY <2>3, <5>1, <5>2 DEF Calm
      <4> QED
        BY <2>3, <3>1, <4>1, <4>2 DEF Calm
    <3>2. ASSUME NEW n \in Nodes, task'[n] = "archived" PROVE node'[n] # "queued"
      <4>1. node[n] # "queued"
        <5>1. task[n] = "archived" \/ (n = at[w] /\ pc[w] = "error")
          BY <2>3, <3>2 DEF Calm
        <5> QED
          BY <1>2, <1>3, <5>1 DEF ArchiveInv, Relies, NodeSteps
      <4> QED
        BY <1>4, <4>1
    <3> QED
      BY <3>1, <3>2 DEF WorkInv, ArchiveInv
  <2> QED
    BY <1>5, <2>1, <2>2, <2>3, WorkerIsCalm
<1>6. ASSUME NEW c \in Clients, Requested(c) PROVE FirstInv' /\ WorkInv' /\ ArchiveInv'
  <2>1. UNCHANGED <<node, outcome, pc, at>> /\ \A n \in Nodes : task'[n] = "archived" => task[n] = "archived"
    BY <1>6, RequestsAreCalm
  <2>2. FirstInv'
    <3> SUFFICES ASSUME NEW r \in Runs, run'[r] # "none", node'[First(r)] = "queued"
                 PROVE  task'[First(r)] # "free" \/ Queueing(First(r))'
      BY DEF FirstInv
    <3>1. run[r] # "none" => task[First(r)] # "free" \/ Queueing(First(r))
      BY <1>2, <2>1 DEF FirstInv
    <3> QED
      BY <1>6, <3>1, RequestsQueueFirst
  <2> QED
    BY <1>2, <2>1, <2>2 DEF WorkInv, ArchiveInv
<1> QED
  BY <1>5, <1>6 DEF Next, Requested

\* So everything a run is waiting for is seen to, or there has been a fault.
LEMMA NothingElseStrands ==
    ASSUME EngineInv, FaultlessInv
    PROVE  OnlyFaultsStrand
PROOF
<1> SUFFICES ASSUME NEW n \in Nodes, Due(n)
             PROVE  \/ node[n] = "queued" /\ WillStart(n)
                    \/ node[n] = "running" /\ WillEnd(n)
                    \/ AcknowledgedBefore(n)
                    \/ faults > 0 /\ Abandoned(n)
  BY DEF OnlyFaultsStrand
<1> USE DEF EngineInv, TypeOK, StoreTypeOK, QueueTypeOK, WorkerTypeOK
<1>1. faults > 0 \/ (FirstInv /\ WorkInv /\ ArchiveInv)
  BY WorkflowWorkerAssumption DEF FaultlessInv
<1>2. /\ n[1] \in Runs /\ n[2] \in Nat /\ n[2] >= 1 /\ n = <<n[1], n[2]>>
      /\ n[2] > 1 => Predecessor(n) \in Nodes
  BY NodesOfRuns DEF Predecessor
<1>3. CASE node[n] = "queued" /\ task[n] = "archived"
  BY <1>1, <1>3 DEF Abandoned, ArchiveInv
<1>4. CASE node[n] = "queued" /\ task[n] = "free" /\ n[2] = 1
  <2>1. n = First(n[1])
    BY <1>2, <1>4 DEF First
  <2> QED
    BY <1>1, <1>2, <1>4, <2>1 DEF Due, Abandoned, FirstInv, Queueing, WillStart
<1>5. CASE node[n] = "queued" /\ task[n] = "free" /\ n[2] > 1
  <2>1. Predecessor(n) \in Nodes /\ node[Predecessor(n)] = "succeeded"
    BY <1>2, <1>5 DEF Due
  <2>2. ~ IsLast(Predecessor(n)) /\ Following(Predecessor(n)) = n
    <3>1. n[2] \in Nat /\ n[2] - 1 + 1 = n[2] /\ n = <<n[1], n[2]>>
      BY <1>2
    <3>2. Last(n[1]) \in Nat /\ n[2] <= Last(n[1])
      BY WorkflowRunsAssumption DEF Nodes, Last
    <3>3. Predecessor(n)[1] = n[1] /\ Predecessor(n)[2] = n[2] - 1
      BY DEF Predecessor
    <3>4. IsLast(Predecessor(n)) <=> n[2] - 1 = Last(n[1])
      BY <3>3 DEF IsLast
    <3> QED
      BY <3>1, <3>2, <3>3, <3>4 DEF Following
  <2>3. outcome[Predecessor(n)] = "succeeded"
    BY <2>1, <2>2 DEF NodeAgreesWithJob
  <2>4. Predecessor(n) \notin consumed
    BY <1>5, <2>2, <2>3 DEF ConsumedSuccessIsHandedOn
  <2> QED
    BY <1>5, <2>4 DEF WillStart
<1>6. CASE node[n] = "queued" /\ task[n] \in {"ready", "active"}
  BY <1>6 DEF WillStart
<1>7. CASE node[n] = "running"
  BY <1>1, <1>7 DEF WillEnd, AcknowledgedBefore, Abandoned, WorkInv, WorkSteps
<1> QED
  BY <1>2, <1>3, <1>4, <1>5, <1>6, <1>7 DEF Due, TaskState

\* Whatever the order of deliveries, polls and answers, and whoever starts,
\* retries or finalizes meanwhile: a queued or running node whose turn has come
\* is in somebody's hands, has been claimed again after its job was
\* acknowledged, or was left by a fault where Abandoned says (Finalize,
\* EnqueueNode, Process).
THEOREM FaultsAloneStrand == Spec => []OnlyFaultsStrand
PROOF
<1>1. EngineInv /\ FaultlessInv /\ [Next]_vars => FaultlessInv'
  <2>1. ASSUME FaultlessInv, UNCHANGED vars PROVE FaultlessInv'
    BY <2>1 DEF vars, rows, queue, jobs, handlers, requests, FaultlessInv, FirstInv, WorkInv, ArchiveInv, Queueing
  <2> QED
    BY <2>1, FaultlessNext
<1>2. EngineInv /\ FaultlessInv => OnlyFaultsStrand
  BY NothingElseStrands
<1> QED
  BY <1>1, <1>2, FaultlessInit, EngineInvariant, PTL DEF Spec

---------------------------------------------------------------------------
\* The worker fails no node of a run that the staff has queued again: a failed
\* node there had failed before.
LEMMA WorkerRetriesNothing ==
    ASSUME EngineInv, WorkerNext, UNCHANGED requests, NEW n \in Nodes, Retried(n)'
    PROVE  Retried(n)
PROOF
<1> USE DEF EngineInv, TypeOK, StoreTypeOK, WorkerTypeOK
<1>1. /\ node'[n] = "failed" /\ run'[n[1]] = "queued"
      /\ n[1] \in Visits \ (doubled \cup unheard) /\ n[1] \in Runs
  BY NodesOfRuns DEF Retried, requests
<1>2. ASSUME NEW w \in Workers, RowsOf(w) PROVE node[n] = "failed" /\ run[n[1]] = "queued"
  <2>1. CASE ClaimNode(at[w]) \/ SaveArtifact(at[w][1]) \/ Persist(at[w][1])
    BY <1>1, <2>1 DEF ClaimNode, SaveArtifact, Persist, rows
  <2>2. CASE MarkRunRunning(at[w][1])
    BY <1>1, <2>2 DEF MarkRunRunning
  <2>3. CASE SucceedNode(at[w])
    BY <1>1, <2>3 DEF SucceedNode
  <2>4. CASE FailNode(at[w])
    BY <1>1, <2>4 DEF FailNode
  <2> QED
    BY <1>2, <2>1, <2>2, <2>3, <2>4 DEF RowsOf
<1>3. node[n] = "failed" /\ run[n[1]] = "queued"
  BY <1>1, <1>2, WorkerRows DEF rows
<1> QED
  BY <1>1, <1>3 DEF Retried

\* Without a fault the worker lets go of a task that is waiting, or in the hands
\* of a handler about to claim its node, only by claiming the node.
LEMMA WorkerRestarts ==
    ASSUME EngineInv, WorkerNext, UNCHANGED requests, faults' = 0,
           NEW n \in Nodes, node'[n] = "failed", WillRestart(n)
    PROVE  WillRestart(n)'
PROOF
<1>1. CASE \E c \in Clients : step[c] = "enqueue" /\ subject[c] = n
  BY <1>1 DEF WillRestart, requests
<1>2. CASE UNCHANGED <<node, task, pc, at>>
  BY <1>2 DEF WillRestart, requests
<1>3. ASSUME NEW w \in Workers, Calm(w), task[n] = "ready" PROVE WillRestart(n)'
  BY <1>3 DEF Calm, WillRestart
<1>4. ASSUME NEW w \in Workers, Calm(w), NEW x \in Workers, at[x] = n, pc[x] = "claim"
      PROVE  WillRestart(n)'
  <2>1. x # w
    BY <1>4 DEF Calm
  <2> QED
    BY <1>4, <2>1 DEF Calm, WillRestart
<1> QED
  BY <1>1, <1>2, <1>3, <1>4, WorkerIsCalm DEF WillRestart

\* The request that queues a run again is about to queue its failed node, which
\* was the first unfinished one, or leaves the retry unheard.
LEMMA RequeueTakesHold ==
    ASSUME EngineInv, NEW c \in Clients, Requeue(c), NEW n \in Nodes, Retried(n)',
           n[1] = subject[c][1]
    PROVE  subject[c] = n
PROOF
<1> DEFINE m == subject[c]
<1> USE DEF EngineInv, TypeOK, StoreTypeOK
<1>1. /\ m \in Nodes /\ m[1] = n[1]
      /\ m[2] \in Nat /\ m[2] >= 1 /\ m = <<m[1], m[2]>>
      /\ n[2] \in Nat /\ n[2] >= 1 /\ n = <<n[1], n[2]>>
  BY NodesOfRuns
<1>2. node[n] = "failed" /\ n[1] \notin doubled /\ n[1] \notin unheard'
  BY DEF Requeue, RequeueRun, Retried
<1>3. node[m] \in {"queued", "failed"}
  BY <1>1, <1>2 DEF Requeue
<1>4. Reached(n) /\ Reached(m)
  BY <1>1, <1>2 DEF OrderInv, RequestInv, Serving, Requeue
<1>5. ~ m[2] < n[2]
  <2>1. m[2] < n[2] => m[2] \in 1..(n[2] - 1)
    BY <1>1
  <2>2. <<n[1], m[2]>> = m
    BY <1>1
  <2> QED
    BY <1>3, <1>4, <2>1, <2>2 DEF Reached
<1>6. ~ n[2] < m[2]
  <2>1. n[2] < m[2] => n[2] \in 1..(m[2] - 1)
    BY <1>1
  <2>2. <<m[1], n[2]>> = n
    BY <1>1
  <2> QED
    BY <1>2, <1>4, <2>1, <2>2 DEF Reached
<1>7. m[2] = n[2]
  BY <1>1, <1>5, <1>6
<1> QED
  BY <1>1, <1>7

\* Without a fault the requests make a failed node of a run that is queued again
\* a matter of somebody's, and leave it so.
LEMMA RequestsRestart ==
    ASSUME EngineInv, faults' = 0, NEW c \in Clients, Requested(c), NEW n \in Nodes, Retried(n)',
           Retried(n) => WillRestart(n)
    PROVE  WillRestart(n)'
PROOF
<1>1. ~ Fault
  <2>1. faults \in 0..MaxFaults
    BY DEF EngineInv, TypeOK, WorkerTypeOK
  <2> QED
    BY <2>1, WorkflowWorkerAssumption DEF Fault
<1>2. n[1] \in Runs /\ subject[c] \in Nodes /\ subject[c][1] \in Runs
  BY NodesOfRuns DEF EngineInv, TypeOK
<1>3. UNCHANGED <<node, outcome, pc, at>>
  BY RequestsAreCalm DEF EngineInv
<1>4. /\ node[n] = "failed" /\ run'[n[1]] = "queued" /\ n[1] \in Visits
      /\ n[1] \notin doubled' /\ n[1] \notin unheard'
  BY <1>3 DEF Retried
<1>5. run[n[1]] # "none"
  BY <1>4 DEF EngineInv, OrderInv
<1> USE DEF EngineInv, TypeOK, StoreTypeOK, QueueTypeOK
<1>6. CASE Requeue(c) /\ subject[c][1] = n[1]
  <2>1. subject[c] = n
    BY <1>6, RequeueTakesHold
  <2> QED
    BY <1>6, <2>1 DEF Requeue, WillRestart
<1>7. CASE ~ (Requeue(c) /\ subject[c][1] = n[1])
  <2>1. run'[n[1]] = run[n[1]] /\ doubled \subseteq doubled'
    <3>1. CASE CreateRun(c) \/ Revert(c) \/ StartFirst(c) \/ Attach(c) \/ PickNode(c)
      BY <1>2, <1>5, <3>1 DEF CreateRun, InsertRun, Revert, RevertSubmit, StartFirst, Attach, AttachRun,
                  PickNode, Proceed, Leave, Finish, rows
    <3>2. CASE Requeue(c) \/ Enqueue(c) \/ Stop(c)
      BY <1>2, <1>7, <3>2 DEF Requeue, RequeueRun, Enqueue, Stop, Leave, Finish, rows
    <3>3. CASE \/ \E v \in Visits : Submit(c, v) \/ Retry(c, v)
               \/ \E r \in BookRuns : Start(c, r) \/ Finalize(c, r)
      BY <1>2, <1>5, <3>3 DEF Submit, PrepareSubmit, Retry, Start, Finalize, FinalizeBook, InsertRun,
                  Enter, rows
    <3> QED
      BY <3>1, <3>2, <3>3 DEF Requested, Serve
  <2>2. n[1] \notin unheard
    BY <1>4, <1>7 DEF Requested, Serve, CreateRun, Revert, StartFirst, Attach, PickNode, Requeue, Enqueue,
                Stop, Submit, Retry, Start, Finalize, Proceed, Enter, Leave, Finish
  <2>3. WillRestart(n)
    BY <1>4, <2>1, <2>2 DEF Retried
  <2>4. CASE task[n] = "ready"
    <3>1. UNCHANGED task \/ \E m \in Nodes : EnqueueNode(m)
      BY <1>2 DEF Requested, Serve, CreateRun, Revert, StartFirst, Attach, PickNode, Requeue, Enqueue,
                  Stop, Submit, Retry, Start, Finalize, queue
    <3> QED
      BY <2>4, <3>1 DEF EnqueueNode, WillRestart
  <2>5. CASE \E w \in Workers : at[w] = n /\ pc[w] = "claim"
    BY <1>3, <2>5 DEF WillRestart
  <2>6. ASSUME NEW d \in Clients, step[d] = "enqueue", subject[d] = n PROVE WillRestart(n)'
    <3>1. CASE d = c
      <4>1. Enqueue(c)
        BY <1>1, <2>6, <3>1 DEF Requested, Serve, CreateRun, Revert, StartFirst, Attach, PickNode, Requeue,
                    Stop, Submit, Retry, Start, Finalize, Enter
      <4>2. task[n] \notin {"active", "archived"}
        BY <1>4, <2>6, <3>1, <4>1 DEF Enqueue
      <4> QED
        BY <2>6, <3>1, <4>1, <4>2 DEF Enqueue, EnqueueNode, WillRestart, TaskState
    <3>2. CASE d # c
      <4>1. step'[d] = step[d] /\ subject'[d] = subject[d]
        BY <3>2 DEF Requested, Serve, CreateRun, Revert, StartFirst, Attach, PickNode, Requeue, Enqueue,
                    Stop, Submit, Retry, Start, Finalize, Proceed, Enter, Leave, Finish
      <4> QED
        BY <2>6, <4>1 DEF WillRestart
    <3> QED
      BY <3>1, <3>2
  <2> QED
    BY <2>3, <2>4, <2>5, <2>6 DEF WillRestart
<1> QED
  BY <1>6, <1>7

\* A retry of the staff takes hold of the node that failed, however asynq's own
\* retry and other requests get between its steps, unless there is a fault or
\* it is lost in one of the listed ways (RetryPayload, EnqueueNode).
THEOREM RetriesTakeHold == Spec => []RetryTakesHold
PROOF
<1>1. Init => RetryTakesHold
  BY DEF Init, StoreInit, RetryTakesHold, Retried
<1>2. EngineInv /\ RetryTakesHold /\ [Next]_vars => RetryTakesHold'
  <2>1. ASSUME RetryTakesHold, UNCHANGED vars PROVE RetryTakesHold'
    BY <2>1 DEF vars, rows, queue, jobs, handlers, requests, RetryTakesHold, Retried, WillRestart
  <2>2. ASSUME EngineInv, RetryTakesHold, Next PROVE RetryTakesHold'
    <3> SUFFICES ASSUME NEW n \in Nodes, Retried(n)', ~ (faults' > 0) PROVE WillRestart(n)'
      BY DEF RetryTakesHold
    <3>1. faults \in Nat /\ faults = 0 /\ faults' = 0
      <4>1. faults \in Nat /\ faults' \in 0..MaxFaults
        BY <2>2, OtherTypes, WorkflowWorkerAssumption DEF EngineInv, TypeOK, WorkerTypeOK
      <4> QED
        BY <2>2, <4>1, FaultsAreCounted, WorkflowWorkerAssumption DEF Fault
    <3>2. Retried(n) => WillRestart(n)
      BY <2>2, <3>1 DEF RetryTakesHold
    <3>3. CASE WorkerNext /\ UNCHANGED requests
      <4>1. Retried(n)
        BY <2>2, <3>3, WorkerRetriesNothing
      <4>2. node'[n] = "failed"
        BY DEF Retried
      <4> QED
        BY <2>2, <3>1, <3>2, <3>3, <4>1, <4>2, WorkerRestarts
    <3>4. ASSUME NEW c \in Clients, Requested(c) PROVE WillRestart(n)'
      BY <2>2, <3>1, <3>2, <3>4, RequestsRestart
    <3> QED
      BY <2>2, <3>3, <3>4 DEF Next, Requested
  <2> QED
    BY <2>1, <2>2
<1> QED
  BY <1>1, <1>2, EngineInvariant, PTL DEF Spec
===========================================================================
