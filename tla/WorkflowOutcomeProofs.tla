------------------------ MODULE WorkflowOutcomeProofs ------------------------
(***************************************************************************)
(* Proof that the workflow engine implements RunOutcome, for any number of *)
(* runs, nodes, handlers, requests, retries and faults.                    *)
(***************************************************************************)
EXTENDS WorkflowProofs

\* The steps of a handler that is carrying out the last node of a run.
LastSteps == {"claimed", "work", "succeed", "fail"}

\* A last node stays as its handler has claimed it.
LastInv ==
    \A w \in Workers : IsLast(at[w]) /\ pc[w] \in LastSteps => node[at[w]] = "running"

LastNode(r) == <<r, Last(r)>>

\* Once the product of a run is stored, its last node is not at the point where
\* it may fail, and does not come there again.
ProductInv ==
    \A r \in delivered \ doubled :
      /\ node[LastNode(r)] \in {"running", "succeeded"}
      /\ \A w \in Workers : at[w] = LastNode(r) => pc[w] \notin LastSteps \ {"succeed"}

---------------------------------------------------------------------------
\* What a step of the handler w does to last nodes and products.
Moves(w) ==
    /\ \A x \in Workers \ {w} : pc'[x] = pc[x] /\ at'[x] = at[x]
    /\ \A n \in Nodes :
         IsLast(n) /\ node'[n] # node[n] =>
           /\ n = at[w]
           /\ \/ pc[w] = "claim" /\ node[n] \in {"queued", "failed"}
              \/ pc[w] = "succeed" /\ node'[n] = "succeeded"
              \/ pc[w] = "fail"
    /\ IsLast(at'[w]) /\ pc'[w] \in LastSteps =>
         /\ at'[w] = at[w]
         /\ \/ /\ pc[w] = "claim" /\ node[at[w]] \in {"queued", "failed"}
               /\ node'[at[w]] = "running"
            \/ pc[w] \in {"claimed", "work"} /\ node' = node
    /\ delivered' # delivered =>
         /\ IsLast(at[w]) /\ delivered' = delivered \cup {at[w][1]}
         /\ pc[w] = "work" /\ pc'[w] = "succeed"
         /\ at'[w] = at[w] /\ node' = node

\* Every step of the worker is such a step, or touches neither.
LEMMA WorkerMoves ==
    ASSUME EngineInv, WorkerNext
    PROVE  UNCHANGED <<node, delivered, pc, at>> \/ \E w \in Workers : Moves(w)
PROOF
<1> USE DEF EngineInv, TypeOK, StoreTypeOK, WorkerTypeOK, LastSteps
<1>1. \A w \in Workers : Relies(at[w], pc[w]) /\ at[w] \in Nodes /\ at[w][1] \in Runs
  BY NodesOfRuns DEF HandlerInv
<1>2. \A n \in Nodes : IsLast(n) => outcome[n] = "none"
  BY DEF JobInv
<1>3. ASSUME NEW w \in Workers, Handle(w) \/ ProcessorFails(w) PROVE Moves(w)
  <2>1. CASE Claim(w)
    BY <1>1, <2>1 DEF Claim, ClaimNode, Goto, Moves, rows
  <2>2. CASE ClaimRun(w) \/ ProcessorFails(w)
    <3>1. pc[w] = "remote" => ~ IsLast(at[w])
      BY <1>1, <1>2 DEF Relies
    <3> QED
      BY <1>1, <2>2, <3>1 DEF ClaimRun, ProcessorFails, MarkRunRunning, Goto, Moves, rows
  <2>3. CASE SubmitJob(w) \/ CallProvider(w) \/ Wait(w) \/ Recover(w)
    <3>1. pc[w] = "remote" => ~ IsLast(at[w])
      BY <1>1, <1>2 DEF Relies
    <3> QED
      BY <1>1, <2>3, <3>1 DEF SubmitJob, CallProvider, Wait, Recover, Goto, Moves, rows
  <2>4. CASE Produce(w)
    BY <1>1, <2>4 DEF Produce, SaveArtifact, Persist, Goto, Moves, rows
  <2>5. CASE Succeed(w) \/ Fail(w)
    BY <1>1, <2>5 DEF Succeed, SucceedNode, Fail, FailNode, Goto, Moves, rows
  <2>6. CASE EndNode(w) \/ PollAgain(w) \/ Consume(w)
    BY <2>6 DEF EndNode, PollAgain, Consume, End, Moves, rows
  <2>7. CASE Refresh(w) \/ SettleOpen(w) \/ FindSettled(w) \/ Peek(w) \/ HandOn(w)
    BY <2>7 DEF Refresh, SettleOpen, FindSettled, Peek, HandOn, Goto, End, Moves, rows
  <2>8. CASE Settle(w)
    <3>1. ~ IsLast(at[w])
      BY <1>1, <1>2, <2>8 DEF Settle, Relies, Job!Settled
    <3> QED
      BY <1>1, <2>8, <3>1 DEF Settle, SucceedNode, FailNode, Goto, End, Moves, rows
  <2> QED
    BY <1>3, <2>1, <2>2, <2>3, <2>4, <2>5, <2>6, <2>7, <2>8 DEF Handle
<1>4. ASSUME NEW w \in Workers, Interrupt(w) \/ \E n \in Nodes : StartNode(w, n) \/ StartPoll(w, n)
      PROVE  Moves(w)
  BY <1>4 DEF Interrupt, StartNode, StartPoll, Take, End, Moves, rows
<1>5. ASSUME NEW n \in Nodes, Callback(n) \/ Reconcile(n) \/ DeadlinePasses(n)
      PROVE  UNCHANGED <<node, delivered, pc, at>>
  BY <1>5 DEF Callback, Reconcile, DeadlinePasses, rows, handlers
<1> QED
  BY <1>3, <1>4, <1>5 DEF WorkerNext

\* The requests leave the nodes, the products and the handlers alone.
LEMMA RequestsDoNotMove ==
    ASSUME NEW c \in Clients,
           \/ Serve(c) \/ Stop(c)
           \/ \E v \in Visits : Submit(c, v) \/ Retry(c, v)
           \/ \E r \in BookRuns : Start(c, r) \/ Finalize(c, r)
    PROVE  UNCHANGED <<node, delivered, pc, at>>
PROOF
<1> USE DEF rows, handlers
<1>1. CASE Serve(c) \/ Stop(c)
  BY <1>1 DEF Serve, CreateRun, Revert, StartFirst, Attach, PickNode, Requeue, Enqueue, Stop,
              InsertRun, RevertSubmit, AttachRun, RequeueRun
<1>2. CASE \E v \in Visits : Submit(c, v) \/ Retry(c, v)
  BY <1>2 DEF Submit, PrepareSubmit, Retry
<1>3. CASE \E r \in BookRuns : Start(c, r) \/ Finalize(c, r)
  BY <1>3 DEF Start, Finalize, FinalizeBook, InsertRun
<1> QED
  BY <1>1, <1>2, <1>3

---------------------------------------------------------------------------
LEMMA LastNodes ==
    \A r \in Runs : LastNode(r) \in Nodes /\ LastNode(r)[1] = r /\ IsLast(LastNode(r))
PROOF
  BY WorkflowRunsAssumption DEF LastNode, IsLast, Last, Nodes, Runs

LEMMA LastOfRun == ASSUME NEW n \in Nodes, IsLast(n) PROVE n = LastNode(n[1])
PROOF
  BY NodesOfRuns DEF IsLast, LastNode

\* Initially nothing is at work or stored.
LEMMA ProductInit == Init => LastInv /\ ProductInv
PROOF
  BY DEF Init, StoreInit, WorkerInit, LastInv, ProductInv, LastSteps

\* Only its own handler changes the state of a last node.
LEMMA LastStays ==
    ASSUME EngineInv, LastInv, NEW w \in Workers, Moves(w)
    PROVE  LastInv'
PROOF
<1> USE DEF EngineInv, TypeOK, StoreTypeOK, WorkerTypeOK
<1>1. ASSUME NEW x \in Workers, IsLast(at'[x]), pc'[x] \in LastSteps
      PROVE  node'[at'[x]] = "running"
  <2>1. CASE x = w
    <3>1. CASE pc[w] = "claim"
      BY <1>1, <2>1, <3>1 DEF Moves
    <3>2. CASE pc[w] \in {"claimed", "work"}
      BY <1>1, <2>1, <3>2 DEF Moves, LastInv, LastSteps
    <3> QED
      BY <1>1, <2>1, <3>1, <3>2 DEF Moves
  <2>2. CASE x # w
    <3>1. pc'[x] = pc[x] /\ at'[x] = at[x] /\ at[x] \in Nodes
      BY <2>2 DEF Moves
    <3>2. node[at[x]] = "running"
      BY <1>1, <3>1 DEF LastInv
    <3>3. pc[w] \in {"claim", "succeed", "fail"} => at[w] # at[x]
      BY <1>1, <2>2, <3>1 DEF TaskInv, NodeSteps, LastSteps
    <3>4. node'[at[x]] = node[at[x]]
      BY <1>1, <3>1, <3>3 DEF Moves
    <3> QED
      BY <3>1, <3>2, <3>4
  <2> QED
    BY <2>1, <2>2
<1> QED
  BY <1>1 DEF LastInv

\* What has been delivered stays out of danger.
LEMMA ProductStays ==
    ASSUME EngineInv, LastInv, ProductInv, NEW w \in Workers, Moves(w), doubled \subseteq doubled'
    PROVE  ProductInv'
PROOF
<1> USE DEF EngineInv, TypeOK, StoreTypeOK, WorkerTypeOK
<1>1. ASSUME NEW r \in delivered', r \notin doubled'
      PROVE  /\ node'[LastNode(r)] \in {"running", "succeeded"}
             /\ \A x \in Workers : at'[x] = LastNode(r) => pc'[x] \notin LastSteps \ {"succeed"}
  <2> DEFINE l == LastNode(r)
  <2>1. CASE r \in delivered
    <3>1. /\ l \in Nodes /\ IsLast(l)
          /\ node[l] \in {"running", "succeeded"}
          /\ \A x \in Workers : at[x] = l => pc[x] \notin {"claimed", "work", "fail"}
      BY <1>1, <2>1, LastNodes DEF ProductInv, LastSteps
    <3>2. node'[l] \in {"running", "succeeded"}
      BY <3>1 DEF Moves
    <3>3. ASSUME NEW x \in Workers, at'[x] = l, pc'[x] \in {"claimed", "work", "fail"} PROVE FALSE
      BY <3>1, <3>3 DEF Moves, LastSteps
    <3> QED
      BY <3>2, <3>3 DEF LastSteps
  <2>2. CASE r \notin delivered
    <3>1. /\ IsLast(at[w]) /\ r = at[w][1] /\ at[w] \in Nodes
          /\ pc[w] = "work" /\ pc'[w] = "succeed" /\ at'[w] = at[w] /\ node' = node
      BY <1>1, <2>2 DEF Moves
    <3>2. l = at[w]
      BY <3>1, LastOfRun
    <3>3. node'[l] = "running"
      BY <3>1, <3>2 DEF LastInv, LastSteps
    <3>4. ASSUME NEW x \in Workers, at'[x] = l, pc'[x] \in {"claimed", "work", "fail"} PROVE FALSE
      BY <3>1, <3>2, <3>4 DEF Moves, TaskInv, NodeSteps
    <3> QED
      BY <3>3, <3>4 DEF LastSteps
  <2> QED
    BY <2>1, <2>2
<1> QED
  BY <1>1 DEF ProductInv, LastNode, Last

\* Both are preserved by every step.
LEMMA ProductNext ==
    EngineInv /\ EngineInv' /\ LastInv /\ ProductInv /\ [Next]_vars => LastInv' /\ ProductInv'
PROOF
<1> SUFFICES ASSUME EngineInv, EngineInv', LastInv, ProductInv, [Next]_vars
             PROVE  LastInv' /\ ProductInv'
  OBVIOUS
<1>1. doubled \subseteq doubled'
  BY OtherTypes DEF EngineInv, vars, requests
<1>2. ASSUME NEW w \in Workers, Moves(w) PROVE LastInv' /\ ProductInv'
  BY <1>1, <1>2, LastStays, ProductStays DEF EngineInv
<1>3. CASE UNCHANGED <<node, delivered, pc, at>>
  BY <1>1, <1>3 DEF LastInv, ProductInv, LastNode, Last, LastSteps
<1>4. CASE UNCHANGED vars
  BY <1>3, <1>4 DEF vars, rows, handlers
<1> QED
  BY <1>2, <1>3, <1>4, WorkerMoves, RequestsDoNotMove DEF Next

\* A product is stored by the last node's handler alone, and from then on
\* nothing that can fail carries the run (Process, Persist, Save).
LEMMA ProductInvariant == Spec => [](LastInv /\ ProductInv)
PROOF
<1>1. Init => LastInv /\ ProductInv
  BY ProductInit
<1>2. EngineInv /\ EngineInv' /\ (LastInv /\ ProductInv) /\ [Next]_vars => (LastInv /\ ProductInv)'
  BY ProductNext
<1> QED
  BY <1>1, <1>2, EngineInvariant, PTL DEF Spec

---------------------------------------------------------------------------
\* A node that may still fail belongs to a run without a product, or to one
\* that a retry has doubled.
LEMMA FailingNodes ==
    ASSUME EngineInv, ProductInv, NEW n \in Nodes, node[n] \in {"queued", "failed"} \/
             (node[n] = "running" /\ (IsLast(n) => \E w \in Workers : at[w] = n /\ pc[w] = "fail")),
           n[1] \in delivered
    PROVE  n[1] \in doubled
PROOF
<1> SUFFICES ASSUME n[1] \notin doubled PROVE FALSE
  OBVIOUS
<1> DEFINE l == LastNode(n[1])
<1>1. n[1] \in Runs /\ l \in Nodes /\ l[1] = n[1] /\ l[2] = Last(n[1])
  BY NodesOfRuns, LastNodes DEF LastNode
<1>2. /\ node[l] \in {"running", "succeeded"}
      /\ \A w \in Workers : at[w] = l => pc[w] # "fail"
  BY DEF ProductInv, LastSteps
<1>3. CASE IsLast(n)
  <2>1. n = l
    BY <1>3, LastOfRun
  <2> QED
    BY <1>2, <1>3, <2>1
<1>4. CASE ~ IsLast(n)
  <2>1. Reached(l)
    BY <1>1, <1>2 DEF EngineInv, OrderInv
  <2>2. n[2] \in 1..(l[2] - 1) /\ n = <<l[1], n[2]>>
    BY <1>1, <1>4, WorkflowRunsAssumption DEF Nodes, IsLast, Last, LastNode
  <2>3. node[n] = "succeeded"
    BY <2>1, <2>2 DEF Reached
  <2> QED
    BY <2>3
<1> QED
  BY <1>3, <1>4

\* A node that has been claimed belongs to a run that exists.
LEMMA StartedRuns ==
    ASSUME EngineInv, NEW n \in Nodes, node[n] # "queued"
    PROVE  run[n[1]] # "none"
PROOF
  BY DEF EngineInv, OrderInv

\* Every transaction of the worker is a step of the abstract run, or none.
LEMMA WorkerImplements ==
    ASSUME EngineInv, LastInv, ProductInv, doubled' = doubled, NEW w \in Workers, RowsOf(w)
    PROVE  Life!Next \/ UNCHANGED Life!vars
PROOF
<1> DEFINE n == at[w]
           r == n[1]
<1> USE DEF EngineInv, TypeOK, StoreTypeOK, WorkerTypeOK, Life!SetRun, Life!SetVisit, Life!SetProject
<1>1. Relies(n, pc[w]) /\ n \in Nodes /\ r \in Runs /\ r \in Life!Runs
  BY NodesOfRuns DEF HandlerInv, Runs, Life!Runs
<1>2. \A v \in Visits : v \notin BookRuns
  BY WorkflowRunsAssumption
<1>3. CASE pc[w] = "claim" /\ ClaimNode(n)
  BY <1>3 DEF ClaimNode, Life!vars
<1>4. CASE pc[w] = "claimed" /\ MarkRunRunning(r)
  <2>1. run[r] # "none"
    BY <1>1, <1>4, StartedRuns DEF Relies, NodeSteps
  <2>2. Life!Claim(r)
    BY <1>4, <2>1 DEF MarkRunRunning, Life!Claim
  <2> QED
    BY <1>1, <2>2 DEF Life!Next
<1>5. CASE pc[w] = "work" /\ IsLast(n) /\ (SaveArtifact(r) \/ Persist(r))
  <2>1. run[r] # "none"
    BY <1>1, <1>5, StartedRuns DEF Relies, NodeSteps
  <2>2. CASE r \in delivered
    BY <1>5, <2>2 DEF SaveArtifact, Persist, rows, Life!vars
  <2>3. CASE r \notin delivered
    <3>1. Life!Deliver(r)
      BY <1>2, <1>5, <2>1, <2>3 DEF SaveArtifact, Persist, Life!Deliver
    <3> QED
      BY <1>1, <3>1 DEF Life!Next
  <2> QED
    BY <2>2, <2>3
<1>6. CASE SucceedNode(n) /\ (pc[w] = "succeed" \/ outcome[n] = "succeeded")
  <2>1. CASE IsLast(n)
    <3>1. r \in delivered
      BY <1>1, <1>6, <2>1 DEF Relies, JobInv
    <3>2. Life!Succeed(r)
      BY <1>6, <2>1, <3>1 DEF SucceedNode, Life!Succeed
    <3> QED
      BY <1>1, <3>2 DEF Life!Next
  <2>2. CASE ~ IsLast(n)
    BY <1>6, <2>2 DEF SucceedNode, Life!vars
  <2> QED
    BY <2>1, <2>2
<1>7. CASE pc[w] \in {"fail", "settle"} /\ FailNode(n)
  <2>1. run[r] # "none"
    BY <1>7, <1>1, StartedRuns DEF FailNode, CanFail
  <2>2. pc[w] = "settle" => ~ IsLast(n)
    BY <1>1 DEF Relies, JobInv, Job!Settled
  <2>3. r \in delivered => r \in doubled
    BY <1>1, <1>7, <2>2, FailingNodes DEF FailNode, CanFail
  <2>4. Life!Fail(r)
    BY <1>7, <2>1, <2>3 DEF FailNode, Life!Fail, Life!MayFail
  <2> QED
    BY <1>1, <2>4 DEF Life!Next
<1> QED
  BY <1>3, <1>4, <1>5, <1>6, <1>7 DEF RowsOf

\* So is every transaction of a request.
LEMMA RequestImplements ==
    ASSUME EngineInv, ProductInv, NEW c \in Clients,
           \/ Serve(c) \/ Stop(c)
           \/ \E v \in Visits : Submit(c, v) \/ Retry(c, v)
           \/ \E b \in BookRuns : Start(c, b) \/ Finalize(c, b)
    PROVE  Life!Next \/ UNCHANGED Life!vars
PROOF
<1> DEFINE r == subject[c][1]
<1> USE DEF EngineInv, TypeOK, StoreTypeOK, Life!SetRun, Life!SetVisit, Life!SetProject, Life!Runs
<1>1. Serving(c) /\ r \in Runs
  BY NodesOfRuns DEF RequestInv
<1>2. \A v \in Visits : v \notin BookRuns
  BY WorkflowRunsAssumption
<1>3. CASE CreateRun(c)
  <2>1. r \in Visits /\ visit[r] = "submitted"
    BY <1>1, <1>3 DEF CreateRun, Serving, SubmitSteps
  <2>2. CASE InsertRun(r) /\ Proceed(c, "start")
    <3>1. Life!Insert(r)
      BY <2>1, <2>2 DEF InsertRun, Proceed, Life!Insert
    <3> QED
      BY <2>1, <3>1 DEF Life!Next
  <2>3. CASE Proceed(c, "revert") /\ UNCHANGED rows
    BY <2>3 DEF Proceed, rows, Life!vars
  <2> QED
    BY <1>3, <2>2, <2>3 DEF CreateRun
<1>4. CASE Revert(c)
  <2>1. r \in Visits /\ visit[r] = "submitted" /\ run[r] = "none"
    BY <1>1, <1>4 DEF Revert, Serving, SubmitSteps
  <2>2. Life!Revert(r)
    BY <1>4, <2>1 DEF Revert, RevertSubmit, Leave, Finish, Life!Revert, Life!Move
  <2> QED
    BY <2>1, <2>2 DEF Life!Next
<1>5. CASE Attach(c)
  <2>1. r \in Visits
    BY <1>1, <1>5 DEF Attach, Serving, SubmitSteps
  <2>2. Life!Attach(r)
    BY <1>5, <2>1 DEF Attach, AttachRun, Leave, Finish, Life!Attach, Life!Move
  <2> QED
    BY <2>1, <2>2 DEF Life!Next
<1>6. CASE PickNode(c)
  <2>1. r \in Visits /\ run[r] # "none"
    BY <1>1, <1>6 DEF PickNode, Serving
  <2>2. ASSUME NEW k \in 1..VisitNodes, SelectPayload(r, k), UNCHANGED rows,
               doubled' = IF \E i \in 1..(k - 1) : node[<<r, i>>] = "running"
                          THEN doubled \cup {r} ELSE doubled
        PROVE  Life!Next \/ UNCHANGED Life!vars
    <3>1. <<r, k>> \in Nodes /\ node[<<r, k>>] \in {"queued", "failed"}
      BY <2>1, <2>2 DEF SelectPayload, Unfinished, Nodes
    <3>2. Life!MayFail(r)
      BY <2>1, <3>1, FailingNodes DEF Life!MayFail
    <3>3. Life!Double(r) \/ UNCHANGED Life!vars
      BY <2>2, <3>2 DEF Life!Double, Life!vars, rows
    <3> QED
      BY <2>1, <3>3 DEF Life!Next
  <2>3. CASE Leave(c) /\ UNCHANGED rows
    BY <2>3 DEF Leave, Finish, rows, Life!vars
  <2> QED
    BY <1>6, <2>2, <2>3 DEF PickNode
<1>7. CASE StartFirst(c) \/ Enqueue(c) \/ Stop(c)
  BY <1>7 DEF StartFirst, Enqueue, Stop, Proceed, Leave, Finish, rows, Life!vars
<1>8. CASE Requeue(c)
  <2>1. r \in Visits /\ run[r] # "none"
    BY <1>1, <1>8 DEF Requeue, Serving
  <2>2. Life!Requeue(r)
    BY <1>8, <2>1 DEF Requeue, RequeueRun, Life!Requeue
  <2> QED
    BY <2>1, <2>2 DEF Life!Next
<1>9. ASSUME NEW v \in Visits, Submit(c, v) \/ Retry(c, v) PROVE Life!Next \/ UNCHANGED Life!vars
  <2>1. CASE Submit(c, v)
    <3>1. Life!Submit(v)
      BY <2>1 DEF Submit, PrepareSubmit, Enter, Life!Submit, Life!Move
    <3> QED
      BY <3>1 DEF Life!Next
  <2>2. CASE Retry(c, v)
    BY <2>2 DEF Retry, Enter, rows, Life!vars
  <2> QED
    BY <1>9, <2>1, <2>2
<1>10. ASSUME NEW b \in BookRuns, Start(c, b) \/ Finalize(c, b) PROVE Life!Next
  <2>1. InsertRun(b) /\ doubled' = doubled
    BY <1>10 DEF Start, Finalize, FinalizeBook, Enter
  <2>2. Life!Insert(b)
    BY <1>2, <2>1 DEF InsertRun, Life!Insert
  <2> QED
    BY <2>2 DEF Life!Next
<1> QED
  BY <1>3, <1>4, <1>5, <1>6, <1>7, <1>8, <1>9, <1>10 DEF Serve

\* The engine implements what RunOutcome promises the rest of the program: a
\* product is stored once and before its run succeeds, and a run that has it
\* does not fail, wherever a handler or a request stops (FailNode, SucceedNode).
THEOREM RunsAreAsPromised == Spec => ImplementsRunOutcome
PROOF
<1>1. Init => Life!Init
  BY DEF Init, StoreInit, Runs, Life!Init, Life!Runs
<1>2. EngineInv /\ (LastInv /\ ProductInv) /\ [Next]_vars => [Life!Next]_(Life!vars)
  <2> SUFFICES ASSUME EngineInv, LastInv, ProductInv, [Next]_vars
               PROVE  Life!Next \/ UNCHANGED Life!vars
    OBVIOUS
  <2>1. CASE WorkerNext /\ UNCHANGED requests
    BY <2>1, WorkerRows, WorkerImplements DEF requests, rows, Life!vars
  <2>2. CASE UNCHANGED vars
    BY <2>2 DEF vars, rows, requests, Life!vars
  <2> QED
    BY <2>1, <2>2, RequestImplements DEF Next
<1> QED
  BY <1>1, <1>2, EngineInvariant, ProductInvariant, PTL DEF Spec, ImplementsRunOutcome, Life!Spec
===========================================================================
