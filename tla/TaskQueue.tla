----------------------------- MODULE TaskQueue -----------------------------
(***************************************************************************)
(* The asynq queue, an external Redis-backed service, as the code uses it  *)
(* (internal/workflow/tasks.go): at-least-once delivery of node tasks,     *)
(* whose identifier run:node admits one outstanding task per node, and of  *)
(* poll tasks, which carry no identifier and may be outstanding several    *)
(* times for one job.  A job is known by its node.                         *)
(***************************************************************************)
EXTENDS WorkflowRuns

CONSTANTS MaxRetry,  \* MaxRetry option of a node task
          MaxPolls   \* bound: polls of one job waiting in the queue

ASSUME TaskQueueAssumption == MaxRetry \in Nat /\ MaxPolls \in Nat \ {0}

\* "free": no task has the node's identifier.  An archived task keeps it.
TaskState == {"free", "ready", "active", "archived"}

VARIABLES
    task,    \* task[n]: the task identified by n
    tries,   \* tries[n]: how often that task has been retried
    polls    \* polls[n]: number of poll tasks of n's job waiting

queue == <<task, tries, polls>>

QueueTypeOK ==
    /\ task \in [Nodes -> TaskState]
    /\ tries \in [Nodes -> 0..MaxRetry]
    /\ polls \in [Nodes -> 0..MaxPolls]

QueueInit ==
    /\ task = [n \in Nodes |-> "free"]
    /\ tries = [n \in Nodes |-> 0]
    /\ polls = [n \in Nodes |-> 0]

\* EnqueueNode turns ErrTaskIDConflict into success: the task that already
\* has the identifier stands for the new one, whatever its state.
EnqueueNode(n) ==
    /\ task' = [task EXCEPT ![n] = IF @ = "free" THEN "ready" ELSE @]
    /\ UNCHANGED <<tries, polls>>

TakeTask(n) ==
    /\ task[n] = "ready"
    /\ task' = [task EXCEPT ![n] = "active"]
    /\ UNCHANGED <<tries, polls>>

\* The handler returned nil: the task is deleted.
CompleteTask(n) ==
    /\ task' = [task EXCEPT ![n] = "free"]
    /\ tries' = [tries EXCEPT ![n] = 0]
    /\ UNCHANGED polls

\* Mutant: a task is retried for ever.
RetryTaskAlways(n) ==
    /\ task' = [task EXCEPT ![n] = "ready"]
    /\ tries' = [tries EXCEPT ![n] = @ + 1]
    /\ UNCHANGED polls

\* The handler returned an error, timed out, or its process died.
RetryTask(n) ==
    /\ IF tries[n] < MaxRetry
       THEN /\ task' = [task EXCEPT ![n] = "ready"]
            /\ tries' = [tries EXCEPT ![n] = @ + 1]
       ELSE /\ task' = [task EXCEPT ![n] = "archived"]
            /\ UNCHANGED tries
    /\ UNCHANGED polls

\* At the bound one more waiting poll would make no difference.
MorePolls(n) == [polls EXCEPT ![n] = IF @ < MaxPolls THEN @ + 1 ELSE @]

EnqueuePoll(n) ==
    /\ polls' = MorePolls(n)
    /\ UNCHANGED <<task, tries>>

TakePoll(n) ==
    /\ polls[n] > 0
    /\ polls' = [polls EXCEPT ![n] = @ - 1]
    /\ UNCHANGED <<task, tries>>

\* A poll whose handler failed is retried, or archived when it has no
\* retries left.
RetryPoll(n) ==
    /\ polls' \in {polls, MorePolls(n)}
    /\ UNCHANGED <<task, tries>>
===========================================================================
