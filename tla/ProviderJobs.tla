--------------------------- MODULE ProviderJobs ---------------------------
(***************************************************************************)
(* The provider job service (internal/providerjobs) over its two tables,   *)
(* provider_jobs and provider_attempts.  A worker submitting a node's job, *)
(* a worker polling it and the API applying a provider callback run the    *)
(* same code concurrently.  Each reads the job row without a lock, calls   *)
(* the provider and only then writes, so that everything it decided on may *)
(* have changed in between.  One action is one SQL transaction or one      *)
(* provider call; an operation may stop for good between any two of them.  *)
(***************************************************************************)
EXTENDS Naturals, Sequences

CONSTANTS Jobs,         \* jobs of one provider, each with its idempotency key run:node
          Actors,       \* goroutines that execute an operation of the service
          ProviderIds,  \* identifiers a provider may give a job
          Taken,        \* those that jobs other than Jobs already have
          Outputs,      \* outputs that Normalize accepts
          None,         \* SQL NULL, an absent identifier or output
          Replies,      \* the answers a provider may send
          MaxAttempts   \* bound: provider calls per job

OpenStates == {"pending_submission", "submitted", "processing", "retryable_failed"}

Terminal == {"succeeded", "permanently_failed", "timed_out", "cancelled"}

States == OpenStates \cup Terminal

\* Stands for a state a provider may not report (pending_submission is one)
\* and for a failure without an error code: the envelope check rejects both.
Malformed == "malformed"

NullableId == ProviderIds \cup {None}

NullableOutput == Outputs \cup {None}

\* A provider's answer, from Submit, Status or a callback.  "mine" says that
\* the request ID is the job's.  An output that is None fails normalization.
Reply == [mine: BOOLEAN, id: NullableId, out: NullableOutput,
          state: (States \ {"pending_submission"}) \cup {Malformed}]

\* What stateForError makes of a transport error or an HTTP error status.
RemoteErrors == {"retryable_failed", "permanently_failed", "timed_out"}

ASSUME ProviderJobsAssumption ==
    /\ Jobs # {}
    /\ None \notin ProviderIds
    /\ None \notin Outputs
    /\ Taken \subseteq ProviderIds
    /\ Replies \subseteq Reply
    /\ MaxAttempts \in Nat

\* A provider_jobs row.  raw is the number of the attempt whose archived
\* response the row points to, 0 for none.
Row == [state: States, id: NullableId, out: NullableOutput, raw: Nat]

NewRow == [state |-> "pending_submission", id |-> None, out |-> None, raw |-> 0]

\* What an operation is about to write once its attempt is finished.
Verdict == [how: {"apply", "mark", "reject"}, state: States,
            id: NullableId, out: NullableOutput, archived: BOOLEAN]

VARIABLES
    created,   \* the jobs that have a row
    row,       \* row[j]: the provider_jobs row of j, once created
    attempts,  \* attempts[j][n]: row n of provider_attempts: the state it records
               \* and the provider identifier in the response it archives
    overdue,   \* the jobs whose deadline has passed
    consumed,  \* the jobs with consumed_at set
    pc,        \* pc[a]: the next step of the operation actor a executes
    op         \* op[a]: the operation's job, the row it read and its own locals

store == <<created, row, attempts, overdue, consumed>>
vars == <<created, row, attempts, overdue, consumed, pc, op>>

Steps == {"idle", "expire", "start", "remote", "finish", "write", "consume"}

Kinds == {"submit", "status", "callback"}

Rejecting(id) == [how |-> "reject", state |-> "permanently_failed",
                  id |-> id, out |-> None, archived |-> FALSE]

NoVerdict == Rejecting(None)

Seen == [state: States, id: NullableId]

Operation == [kind: Kinds, job: Jobs, read: Seen, attempt: Nat, verdict: Verdict]

Fresh == [kind |-> "submit", job |-> CHOOSE j \in Jobs : TRUE,
          read |-> [state |-> "pending_submission", id |-> None],
          attempt |-> 0, verdict |-> NoVerdict]

Init == /\ created = {}
        /\ row = [j \in Jobs |-> NewRow]
        /\ attempts = [j \in Jobs |-> <<>>]
        /\ overdue = {}
        /\ consumed = {}
        /\ pc = [a \in Actors |-> "idle"]
        /\ op = [a \in Actors |-> Fresh]

---------------------------------------------------------------------------
\* Steps of an operation.

Goto(a, step) == pc' = [pc EXCEPT ![a] = step]

Begin(a, step, kind, j, seen, verdict) ==
    /\ pc[a] = "idle"
    /\ Goto(a, step)
    /\ op' = [op EXCEPT ![a] = [kind |-> kind, job |-> j, attempt |-> 0,
                                read |-> [state |-> seen.state, id |-> seen.id],
                                verdict |-> verdict]]

\* The operation returns, or its process dies: its locals are gone.
Return(a) == /\ Goto(a, "idle")
             /\ op' = [op EXCEPT ![a] = Fresh]

---------------------------------------------------------------------------
\* Validation and interpretation of what a provider answers.

MatchesIdentity(seen, r) ==
    /\ r.mine
    /\ r.id # None
    /\ seen.id \in {None, r.id}

Applying(state, id, out, archived) ==
    [how |-> "apply", state |-> state, id |-> id, out |-> out, archived |-> archived]

SubmitVerdict(r) ==
    IF r.id # None /\ r.state \in {"submitted", "processing"}
    THEN [how |-> "mark", state |-> r.state, id |-> r.id, out |-> None, archived |-> TRUE]
    ELSE Applying("permanently_failed", r.id, None, TRUE)

\* Mutant: the envelope of a snapshot is not checked.
SnapshotVerdictUnchecked(seen, r) ==
    IF ~ MatchesIdentity(seen, r) THEN Rejecting(r.id)
    ELSE Applying(r.state, r.id, r.out, TRUE)

\* Mutant: a success is stored without normalizing its output.
SnapshotVerdictUnnormalized(seen, r) ==
    IF ~ MatchesIdentity(seen, r) THEN Rejecting(r.id)
    ELSE IF r.state = Malformed
    THEN Applying("permanently_failed", r.id, None, TRUE)
    ELSE Applying(r.state, r.id, r.out, TRUE)

SnapshotVerdict(seen, r) ==
    IF ~ MatchesIdentity(seen, r) THEN Rejecting(r.id)
    ELSE IF r.state = Malformed \/ (r.state = "succeeded" /\ r.out = None)
    THEN Applying("permanently_failed", r.id, None, TRUE)
    ELSE Applying(r.state, r.id, r.out, TRUE)

ErrorVerdict(kind, seen, e) ==
    Applying(e, IF kind = "status" THEN seen.id ELSE None, None, FALSE)

---------------------------------------------------------------------------
\* The repository's transactions.

\* Mutant: a settled job is overwritten by a late answer.
ApplySnapshotToSettled(j, s, raw) ==
    row' = [row EXCEPT ![j] =
        [state |-> s.state, out |-> s.out, raw |-> raw,
         id |-> IF @.id = None THEN s.id ELSE @.id]]

\* Mutant: the identifier of the answer wins over the stored one.
ApplySnapshotReplacingId(j, s, raw) ==
    row' = [row EXCEPT ![j] =
        IF @.state \in Terminal THEN @
        ELSE [state |-> s.state, out |-> s.out, raw |-> raw,
              id |-> IF s.id = None THEN @.id ELSE s.id]]

\* Mutant: an answer without a response keeps the evidence of the last one.
ApplySnapshotKeepingEvidence(j, s, raw) ==
    row' = [row EXCEPT ![j] =
        IF @.state \in Terminal THEN @
        ELSE [state |-> s.state, out |-> s.out, raw |-> IF raw = 0 THEN @.raw ELSE raw,
              id |-> IF @.id = None THEN s.id ELSE @.id]]

\* ApplySnapshot, under the row lock.  A settled job is left alone: the call
\* is a no-op or ErrTerminalConflict.
ApplySnapshot(j, s, raw) ==
    row' = [row EXCEPT ![j] =
        IF @.state \in Terminal THEN @
        ELSE [state |-> s.state, out |-> s.out, raw |-> raw,
              id |-> IF @.id = None THEN s.id ELSE @.id]]

\* Mutant: the state condition is missing from the UPDATE.
MarkSubmittedInAnyState(j, s) ==
    row' = [row EXCEPT ![j] =
        IF @.id = None THEN [@ EXCEPT !.state = s.state, !.id = s.id] ELSE @]

\* MarkSubmitted: when no row qualifies, either the identifier is already
\* stored or the call ends in ErrTerminalConflict.
MarkSubmitted(j, s) ==
    row' = [row EXCEPT ![j] =
        IF @.state \in {"pending_submission", "retryable_failed"} /\ @.id = None
        THEN [@ EXCEPT !.state = s.state, !.id = s.id]
        ELSE @]

---------------------------------------------------------------------------
\* Operations of the service.

\* Submit inserts the row unless the key exists, reads it back and calls the
\* provider unless a call was already answered.
Submit(a, j) ==
    LET seen == row[j] IN
    /\ \/ seen.state = "pending_submission"
       \/ seen.state = "retryable_failed" /\ seen.id = None
    /\ created' = created \cup {j}
    /\ Begin(a, "start", "submit", j, seen, NoVerdict)
    /\ UNCHANGED <<row, attempts, overdue, consumed>>

\* Mutant: the deadline is not looked at.
RefreshWithoutDeadline(a, j) ==
    LET seen == row[j] IN
    /\ j \in created
    /\ seen.state \notin Terminal
    /\ Begin(a, "start", IF seen.id = None THEN "submit" ELSE "status", j, seen, NoVerdict)
    /\ UNCHANGED store

Refresh(a, j) ==
    LET seen == row[j] IN
    /\ j \in created
    /\ seen.state \notin Terminal
    /\ \/ /\ j \in overdue
          /\ Begin(a, "expire", "status", j, seen, NoVerdict)
       \/ /\ j \notin overdue /\ seen.id = None
          /\ Begin(a, "start", "submit", j, seen, NoVerdict)
       \/ /\ j \notin overdue /\ seen.id # None
          /\ Begin(a, "start", "status", j, seen, NoVerdict)
    /\ UNCHANGED store

\* ApplyCallback goes on only with an answer that is valid, says something
\* new and finds the job open.
ApplyCallback(a, j, r) ==
    LET seen == row[j] IN
    /\ j \in created
    /\ MatchesIdentity(seen, r)
    /\ r.state \notin {Malformed, seen.state}
    /\ seen.state \notin Terminal
    /\ Begin(a, "start", "callback", j, seen, SnapshotVerdict(seen, r))
    /\ UNCHANGED store

\* Refresh of an overdue job.
Expire(a) ==
    /\ pc[a] = "expire"
    /\ ApplySnapshot(op[a].job, Applying("timed_out", None, None, FALSE), 0)
    /\ Return(a)
    /\ UNCHANGED <<created, attempts, overdue, consumed>>

\* Mutant: an operation continues the last attempt instead of numbering its own.
StartAttemptReusingNumber(a) ==
    LET j == op[a].job IN
    /\ pc[a] = "start"
    /\ Len(attempts[j]) < MaxAttempts
    /\ attempts' = [attempts EXCEPT ![j] =
                       IF @ = <<>> THEN <<[state |-> op[a].read.state, id |-> None]>> ELSE @]
    /\ op' = [op EXCEPT ![a].attempt = Len(attempts'[j])]
    /\ Goto(a, IF op[a].kind = "callback" THEN "finish" ELSE "remote")
    /\ UNCHANGED <<created, row, overdue, consumed>>

\* The job row's lock serialises the numbering.  The attempt row starts with
\* the job state its operation read.
StartAttempt(a) ==
    LET j == op[a].job IN
    /\ pc[a] = "start"
    /\ Len(attempts[j]) < MaxAttempts
    /\ attempts' = [attempts EXCEPT ![j] = Append(@, [state |-> op[a].read.state, id |-> None])]
    /\ op' = [op EXCEPT ![a].attempt = Len(attempts[j]) + 1]
    /\ Goto(a, IF op[a].kind = "callback" THEN "finish" ELSE "remote")
    /\ UNCHANGED <<created, row, overdue, consumed>>

\* The provider answers, and the answer is archived and interpreted.
Answer(a) ==
    /\ pc[a] = "remote"
    /\ \E v \in    {IF op[a].kind = "submit" THEN SubmitVerdict(r)
                    ELSE SnapshotVerdict(op[a].read, r) : r \in Replies}
            \cup   {ErrorVerdict(op[a].kind, op[a].read, e) : e \in RemoteErrors} :
         op' = [op EXCEPT ![a].verdict = v]
    /\ Goto(a, "finish")
    /\ UNCHANGED store

FinishAttempt(a) ==
    LET v == op[a].verdict IN
    /\ pc[a] = "finish"
    /\ attempts' = [attempts EXCEPT ![op[a].job][op[a].attempt] =
                                     [state |-> v.state, id |-> v.id]]
    /\ \/ /\ v.how = "reject"
          /\ Return(a)
       \/ /\ v.how # "reject"
          /\ Goto(a, "write")
          /\ UNCHANGED op
    /\ UNCHANGED <<created, row, overdue, consumed>>

\* The UNIQUE constraint of the table: an UPDATE that breaks it is an error.
UniqueIds ==
    \A j \in Jobs :
      row[j].id # None => /\ row[j].id \notin Taken
                          /\ \A k \in Jobs \ {j} : row[j].id # row[k].id

Write(a) ==
    LET v == op[a].verdict IN
    /\ pc[a] = "write"
    /\ \/ v.how = "mark"  /\ MarkSubmitted(op[a].job, v)
       \/ v.how = "apply" /\ ApplySnapshot(op[a].job, v,
                                           IF v.archived THEN op[a].attempt ELSE 0)
    /\ UniqueIds'
    /\ Return(a)
    /\ UNCHANGED <<created, attempts, overdue, consumed>>

\* PeekTerminal finds an outcome nobody has acknowledged.
PeekTerminal(a, j) ==
    /\ j \in created \ consumed
    /\ row[j].state \in Terminal
    /\ Begin(a, "consume", "status", j, row[j], NoVerdict)
    /\ UNCHANGED store

MarkConsumed(a) ==
    /\ pc[a] = "consume"
    /\ row[op[a].job].state \in Terminal
    /\ consumed' = consumed \cup {op[a].job}
    /\ Return(a)
    /\ UNCHANGED <<created, row, attempts, overdue>>

\* A database, network or archive error, a cancelled context or a crash: the
\* operation goes no further and nothing it wrote is undone.
Abandon(a) ==
    /\ pc[a] # "idle"
    /\ Return(a)
    /\ UNCHANGED store

DeadlinePasses(j) ==
    /\ j \in created \ overdue
    /\ overdue' = overdue \cup {j}
    /\ UNCHANGED <<created, row, attempts, consumed, pc, op>>

Next ==
    \/ \E a \in Actors, j \in Jobs :
          \/ Submit(a, j)
          \/ Refresh(a, j)
          \/ PeekTerminal(a, j)
          \/ \E r \in Replies : ApplyCallback(a, j, r)
    \/ \E a \in Actors :
          \/ Expire(a) \/ StartAttempt(a) \/ Answer(a) \/ FinishAttempt(a)
          \/ Write(a) \/ MarkConsumed(a) \/ Abandon(a)
    \/ \E j \in Jobs : DeadlinePasses(j)

Spec == Init /\ [][Next]_vars

---------------------------------------------------------------------------
\* The environment and the scheduling liveness rests on.  The deadline
\* passes.  The reconciler queues a poll of every job not yet acknowledged,
\* again and again, and each poll refreshes the job and looks for its
\* outcome.  A step under way ends, and its write does not fail for ever.
Advance(a) == \/ Expire(a) \/ StartAttempt(a) \/ Answer(a) \/ FinishAttempt(a)
              \/ Write(a) \/ MarkConsumed(a) \/ Abandon(a)

Fairness ==
    /\ \A j \in Jobs : /\ WF_vars(DeadlinePasses(j))
                      /\ SF_vars(\E a \in Actors : Refresh(a, j))
                      /\ SF_vars(\E a \in Actors : PeekTerminal(a, j))
    /\ \A a \in Actors : /\ WF_vars(Advance(a))
                        /\ SF_vars(Expire(a))
                        /\ SF_vars(MarkConsumed(a))

FairSpec == Spec /\ Fairness

---------------------------------------------------------------------------
\* Every variable holds what the schema and the types of the code allow.
TypeOK ==
    /\ created \subseteq Jobs
    /\ row \in [Jobs -> Row]
    /\ attempts \in [Jobs -> Seq(Seen)]
    /\ overdue \subseteq created
    /\ consumed \subseteq created
    /\ pc \in [Actors -> Steps]
    /\ op \in [Actors -> Operation]

\* Callbacks and polls may repeat, arrive late or out of order and act on a
\* stale row: once a job is settled, its state, output, provider identifier
\* and evidence never change again (ApplySnapshot, MarkSubmitted).
TerminalIsFinal ==
    [][\A j \in Jobs : row[j].state \in Terminal => row'[j] = row[j]]_vars

\* The identifier under which the provider is asked for a job is stored once,
\* whichever of the submit response and the first callback arrives first.
ProviderIdIsFinal ==
    [][\A j \in Jobs : row[j].id # None => row'[j].id = row[j].id]_vars

\* The archived response a row points to belongs to an attempt recorded with
\* the row's own state, however attempts of several actors interleave.
EvidenceMatchesState ==
    \A j \in Jobs :
      row[j].raw # 0 => /\ row[j].raw \in DOMAIN attempts[j]
                        /\ attempts[j][row[j].raw].state = row[j].state

\* Only the deadline and a provider that says so time a job out: a call that
\* was not answered in time is a transport error, and may be repeated.
TimedOutIsOverdue ==
    \A j \in Jobs : row[j].state = "timed_out" /\ row[j].raw = 0 => j \in overdue

\* Every settled outcome can be traced: to the deadline, or to an attempt
\* recorded with that very state.  A success also carries an output that
\* passed normalization and the archived response it was made from.
SettledIsAccountedFor ==
    \A j \in Jobs :
      row[j].state \in Terminal =>
        /\ \/ row[j].state = "timed_out" /\ j \in overdue
           \/ \E n \in DOMAIN attempts[j] : attempts[j][n].state = row[j].state
        /\ row[j].state = "succeeded" => row[j].out # None /\ row[j].raw # 0

\* Two actors never work under one attempt number, so that neither overwrites
\* the response the other archived under that number.
AttemptHasOneOwner ==
    \A a, b \in Actors :
      /\ a # b
      /\ op[a].job = op[b].job
      /\ op[a].attempt # 0
      => op[a].attempt # op[b].attempt

\* Whatever the provider answers or omits to answer, and whichever calls are
\* lost, a job that was created is settled and acknowledged in the end.
CreatedIsConsumed == \A j \in Jobs : j \in created ~> j \in consumed

\* What the workflow engine sees of a job.
Outcome == [j \in Jobs |->
    IF j \notin created THEN "none"
    ELSE IF row[j].state \in OpenStates THEN "open"
    ELSE IF row[j].state = "succeeded" THEN "succeeded" ELSE "failed"]

Abstract == INSTANCE JobOutcome WITH outcome <- Outcome

\* The service keeps the promise the workflow engine is built on.
ImplementsJobOutcome == Abstract!Spec
===========================================================================
