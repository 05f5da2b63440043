--------------------------- MODULE WorkflowWorker ---------------------------
(***************************************************************************)
(* The worker process (internal/workflow/worker.go, provider_processor.go):*)
(* goroutines that execute node tasks and poll tasks of the queue against  *)
(* the rows of the engine and the provider jobs, plus the two that wake a  *)
(* job up, provider callbacks and the reconciler.  Of a provider job the   *)
(* worker sees what JobOutcome promises, one job per node.                 *)
(*                                                                         *)
(* One action is one transaction, one call of the queue or one call of the *)
(* job service.  A fault (an error, a timeout or a crash) may stop a task  *)
(* between any two of them; MaxFaults bounds how often that happens.       *)
(***************************************************************************)
EXTENDS WorkflowStore, TaskQueue

CONSTANTS Workers,    \* concurrent task handlers
          MaxFaults   \* bound: faults in a behaviour

ASSUME WorkflowWorkerAssumption == MaxFaults \in Nat /\ Nodes # {}

VARIABLES
    outcome,    \* outcome[n]: what the job of node n has come to
    consumed,   \* the nodes whose job is marked consumed
    overdue,    \* the nodes whose job is past its deadline
    pc,         \* pc[w]: the next step of the handler that w executes
    at,         \* at[w]: the node of w's task
    faults      \* number of faults so far

Job == INSTANCE JobOutcome WITH Jobs <- Nodes

jobs == <<outcome, consumed>>
handlers == <<pc, at>>

OutcomeState == {"none", "open"} \cup Job!Settled

\* The steps of Process, those of ProcessProviderPoll, and the end of a task.
NodeSteps == {"claim", "claimed", "work", "remote", "wait", "recover", "succeed",
              "fail", "done", "error"}

PollSteps == {"refresh", "expire", "ask", "again", "peek", "settle", "hand on", "consume"}

AnyNode == CHOOSE n \in Nodes : TRUE

WorkerTypeOK ==
    /\ outcome \in [Nodes -> OutcomeState]
    /\ consumed \subseteq Nodes
    /\ overdue \subseteq Nodes
    /\ pc \in [Workers -> NodeSteps \cup PollSteps \cup {"idle"}]
    /\ at \in [Workers -> Nodes]
    /\ faults \in 0..MaxFaults

WorkerInit ==
    /\ Job!Init
    /\ overdue = {}
    /\ pc = [w \in Workers |-> "idle"]
    /\ at = [w \in Workers |-> AnyNode]
    /\ faults = 0

Goto(w, step) == /\ pc' = [pc EXCEPT ![w] = step]
                 /\ UNCHANGED at

Take(w, n, step) == /\ pc[w] = "idle"
                    /\ pc' = [pc EXCEPT ![w] = step]
                    /\ at' = [at EXCEPT ![w] = n]

End(w) == /\ pc' = [pc EXCEPT ![w] = "idle"]
          /\ at' = [at EXCEPT ![w] = AnyNode]

Fault == /\ faults < MaxFaults
         /\ faults' = faults + 1

---------------------------------------------------------------------------
\* A node task: Process.

StartNode(w, n) ==
    /\ TakeTask(n)
    /\ Take(w, n, "claim")
    /\ UNCHANGED <<rows, jobs, overdue, faults>>

\* A node that another delivery of the task claimed is not claimed again.
Claim(w) ==
    /\ pc[w] = "claim"
    /\ \/ ClaimNode(at[w]) /\ Goto(w, "claimed")
       \/ /\ node[at[w]] \notin {"queued", "failed"}
          /\ Goto(w, "recover")
          /\ UNCHANGED rows
    /\ UNCHANGED <<queue, jobs, overdue, faults>>

\* The second statement of ClaimNode, whose error is ignored.
ClaimRun(w) ==
    /\ pc[w] = "claimed"
    /\ \/ MarkRunRunning(at[w][1]) /\ UNCHANGED faults
       \/ Fault /\ UNCHANGED rows
    /\ Goto(w, "work")
    /\ UNCHANGED <<queue, jobs, overdue>>

\* ProviderProcessor.Process calls Submit, which creates the job unless it
\* exists, and calls the provider unless that was already answered.
SubmitJob(w) ==
    /\ pc[w] = "work"
    /\ ~ IsLast(at[w])
    /\ \/ Job!Create(at[w]) /\ Goto(w, "remote")
       \/ outcome[at[w]] = "open" /\ Goto(w, "remote") /\ UNCHANGED jobs
       \/ outcome[at[w]] # "none" /\ Goto(w, "wait") /\ UNCHANGED jobs
    /\ UNCHANGED <<rows, queue, overdue, faults>>

\* The provider's answer to Submit leaves the job open or fails it.  Once a
\* callback has settled the job, the answer is ignored or is a conflict.
CallProvider(w) ==
    /\ pc[w] = "remote"
    /\ \/ Job!Settle(at[w]) /\ outcome'[at[w]] = "failed" /\ Goto(w, "wait")
       \/ UNCHANGED jobs /\ Goto(w, "wait")
       \/ outcome[at[w]] # "open" /\ UNCHANGED jobs /\ Goto(w, "fail")
    /\ UNCHANGED <<rows, queue, overdue, faults>>

\* The processor is waiting for its job: its first poll is queued.
Wait(w) ==
    /\ pc[w] = "wait"
    /\ EnqueuePoll(at[w])
    /\ Goto(w, "done")
    /\ UNCHANGED <<rows, jobs, overdue, faults>>

\* recoverProviderPoll
Recover(w) ==
    /\ pc[w] = "recover"
    /\ IF outcome[at[w]] # "none" /\ at[w] \notin consumed
       THEN EnqueuePoll(at[w]) ELSE UNCHANGED queue
    /\ Goto(w, "done")
    /\ UNCHANGED <<rows, jobs, overdue, faults>>

\* Mutant: the error of the processor is not looked at.
ProduceIgnoringErrors(w) ==
    LET r == at[w][1] IN
    /\ pc[w] = "work"
    /\ IsLast(at[w])
    /\ SaveArtifact(r) \/ Persist(r) \/ UNCHANGED rows
    /\ Goto(w, "succeed")
    /\ UNCHANGED <<queue, jobs, overdue, faults>>

\* The processor of the last node, book.WorkflowProcessor or PersistProcessor,
\* fails when an output it works on is missing.
Produce(w) ==
    LET r == at[w][1] IN
    /\ pc[w] = "work"
    /\ IsLast(at[w])
    /\ \/ (SaveArtifact(r) \/ Persist(r)) /\ Goto(w, "succeed")
       \/ ~ CanProduce(r) /\ Goto(w, "fail") /\ UNCHANGED rows
    /\ UNCHANGED <<queue, jobs, overdue, faults>>

\* The processor returns an error.  What it did before stays done.
ProcessorFails(w) ==
    /\ pc[w] \in {"work", "remote"}
    /\ Fault
    /\ Goto(w, "fail")
    /\ UNCHANGED <<rows, queue, jobs, overdue>>

\* Mutant: a success that cannot be recorded counts as a failure of the node.
SucceedOrFail(w) ==
    /\ pc[w] = "succeed"
    /\ \/ SucceedNode(at[w]) /\ Goto(w, "done") /\ UNCHANGED faults
       \/ Fault /\ Goto(w, "fail") /\ UNCHANGED rows
    /\ UNCHANGED <<queue, jobs, overdue>>

\* Nothing follows a last node.
Succeed(w) ==
    /\ pc[w] = "succeed"
    /\ SucceedNode(at[w])
    /\ Goto(w, "done")
    /\ UNCHANGED <<queue, jobs, overdue, faults>>

\* The error of FailNode is ignored.
Fail(w) ==
    /\ pc[w] = "fail"
    /\ \/ FailNode(at[w])
       \/ ~ CanFail(at[w]) /\ UNCHANGED rows
    /\ Goto(w, "error")
    /\ UNCHANGED <<queue, jobs, overdue, faults>>

EndNode(w) ==
    /\ \/ pc[w] = "done" /\ CompleteTask(at[w])
       \/ pc[w] = "error" /\ RetryTask(at[w])
    /\ End(w)
    /\ UNCHANGED <<rows, jobs, overdue, faults>>

---------------------------------------------------------------------------
\* A poll task: ProcessProviderPoll.

StartPoll(w, n) ==
    /\ TakePoll(n)
    /\ Take(w, n, "refresh")
    /\ UNCHANGED <<rows, jobs, overdue, faults>>

\* Refresh reads the job.
Refresh(w) ==
    LET n == at[w] IN
    /\ pc[w] = "refresh"
    /\ \/ outcome[n] \in Job!Settled /\ Goto(w, "peek")
       \/ outcome[n] = "open" /\ n \in overdue /\ Goto(w, "expire")
       \/ outcome[n] = "open" /\ n \notin overdue /\ Goto(w, "ask")
    /\ UNCHANGED <<rows, queue, jobs, overdue, faults>>

\* It times the job out, or asks the provider about it.
SettleOpen(w) ==
    /\ pc[w] \in {"expire", "ask"}
    /\ \/ /\ Job!Settle(at[w])
          /\ pc[w] = "expire" => outcome'[at[w]] = "failed"
          /\ Goto(w, "peek")
       \/ pc[w] = "ask" /\ outcome[at[w]] = "open" /\ UNCHANGED jobs /\ Goto(w, "again")
    /\ UNCHANGED <<rows, queue, overdue, faults>>

\* Another actor has settled the job in the meantime: the write is a no-op
\* when it agrees, and ends the poll in ErrTerminalConflict otherwise.
FindSettled(w) ==
    /\ pc[w] \in {"expire", "ask"}
    /\ outcome[at[w]] \in Job!Settled
    /\ \/ Goto(w, "peek") /\ UNCHANGED queue
       \/ End(w) /\ RetryPoll(at[w])
    /\ UNCHANGED <<rows, jobs, overdue, faults>>

\* The job is still open: it is polled again after an interval.
PollAgain(w) ==
    /\ pc[w] = "again"
    /\ EnqueuePoll(at[w])
    /\ End(w)
    /\ UNCHANGED <<rows, jobs, overdue, faults>>

Peek(w) ==
    /\ pc[w] = "peek"
    /\ \/ at[w] \in consumed /\ End(w)
       \/ at[w] \notin consumed /\ Goto(w, "settle")
    /\ UNCHANGED <<rows, queue, jobs, overdue, faults>>

\* Mutant: every settled job is taken for a success.
SettleAsSucceeded(w) ==
    /\ pc[w] = "settle"
    /\ SucceedNode(at[w])
    /\ Goto(w, "hand on")
    /\ UNCHANGED <<queue, jobs, overdue, faults>>

\* Mutant: the outcome is acknowledged before the next node is queued.
SettleAndConsume(w) ==
    LET n == at[w] IN
    /\ pc[w] = "settle"
    /\ \/ outcome[n] = "succeeded" /\ SucceedNode(n)
       \/ outcome[n] = "failed" /\ FailNode(n)
    /\ Goto(w, "consume")
    /\ UNCHANGED <<queue, jobs, overdue, faults>>

\* Mutant: the next node is queued although the node could not be recorded.
SettleOrHandOn(w) ==
    LET n == at[w] IN
    /\ pc[w] = "settle"
    /\ \/ outcome[n] = "succeeded" /\ SucceedNode(n) /\ Goto(w, "hand on")
       \/ outcome[n] = "succeeded" /\ ~ CanSucceed(n) /\ Goto(w, "hand on") /\ UNCHANGED rows
       \/ outcome[n] = "failed" /\ FailNode(n) /\ Goto(w, "consume")
    /\ UNCHANGED <<queue, jobs, overdue, faults>>

\* The node takes over the outcome of its job.  When it is in no state to do
\* so the poll ends in an error, and is retried.
Settle(w) ==
    LET n == at[w] IN
    /\ pc[w] = "settle"
    /\ \/ /\ outcome[n] = "succeeded" /\ SucceedNode(n)
          /\ Goto(w, "hand on")
          /\ UNCHANGED queue
       \/ /\ outcome[n] = "failed" /\ FailNode(n)
          /\ Goto(w, "consume")
          /\ UNCHANGED queue
       \/ /\ IF outcome[n] = "succeeded" THEN ~ CanSucceed(n) ELSE ~ CanFail(n)
          /\ RetryPoll(n)
          /\ End(w)
          /\ UNCHANGED rows
    /\ UNCHANGED <<jobs, overdue, faults>>

\* Mutant: the node itself is queued instead of the one after it.
HandOnItself(w) ==
    /\ pc[w] = "hand on"
    /\ EnqueueNode(at[w])
    /\ Goto(w, "consume")
    /\ UNCHANGED <<rows, jobs, overdue, faults>>

HandOn(w) ==
    /\ pc[w] = "hand on"
    /\ EnqueueNode(Following(at[w]))
    /\ Goto(w, "consume")
    /\ UNCHANGED <<rows, jobs, overdue, faults>>

\* MarkConsumed
Consume(w) ==
    /\ pc[w] = "consume"
    /\ Job!Consume(at[w])
    /\ End(w)
    /\ UNCHANGED <<rows, queue, overdue, faults>>

---------------------------------------------------------------------------
\* What else happens to tasks and jobs.

\* A task's handler returns an error, times out or dies with its process.
Interrupt(w) ==
    /\ Fault
    /\ \/ pc[w] \in NodeSteps /\ RetryTask(at[w])
       \/ pc[w] \in PollSteps /\ RetryPoll(at[w])
    /\ End(w)
    /\ UNCHANGED <<rows, jobs, overdue>>

\* A callback may settle an open job.  Then a poll is queued, unless the
\* handler stops in between.
Callback(n) ==
    /\ outcome[n] # "none"
    /\ \/ Job!Settle(n)
       \/ UNCHANGED jobs
    /\ \/ EnqueuePoll(n) /\ UNCHANGED faults
       \/ Fault /\ UNCHANGED queue
    /\ UNCHANGED <<rows, overdue, handlers>>

\* Mutant: settled jobs are left out.
ReconcileOpen(n) ==
    /\ outcome[n] = "open"
    /\ EnqueuePoll(n)
    /\ UNCHANGED <<rows, jobs, overdue, handlers, faults>>

\* ReconcileProviderJobs queues a poll of each job not yet acknowledged.
Reconcile(n) ==
    /\ outcome[n] # "none"
    /\ n \notin consumed
    /\ EnqueuePoll(n)
    /\ UNCHANGED <<rows, jobs, overdue, handlers, faults>>

DeadlinePasses(n) ==
    /\ outcome[n] = "open"
    /\ n \notin overdue
    /\ overdue' = overdue \cup {n}
    /\ UNCHANGED <<rows, queue, jobs, handlers, faults>>

Handle(w) ==
    \/ Claim(w) \/ ClaimRun(w) \/ SubmitJob(w) \/ CallProvider(w) \/ Wait(w)
    \/ Recover(w) \/ Produce(w) \/ Succeed(w) \/ Fail(w) \/ EndNode(w)
    \/ Refresh(w) \/ SettleOpen(w) \/ FindSettled(w) \/ PollAgain(w) \/ Peek(w)
    \/ Settle(w) \/ HandOn(w) \/ Consume(w)

WorkerNext ==
    \/ \E w \in Workers :
          \/ Handle(w) \/ ProcessorFails(w) \/ Interrupt(w)
          \/ \E n \in Nodes : StartNode(w, n) \/ StartPoll(w, n)
    \/ \E n \in Nodes : Callback(n) \/ Reconcile(n) \/ DeadlinePasses(n)
===========================================================================
