------------------------- MODULE ProviderJobsProofs -------------------------
(***************************************************************************)
(* Proofs about the provider job service, for any number of jobs, actors   *)
(* and provider calls and for whatever a provider may answer.              *)
(***************************************************************************)
EXTENDS ProviderJobs, TLAPS

\* The steps at which an actor works under an attempt number of its own.
Owning == {"remote", "finish", "write"}

\* What the service has made of an answer.  Only an answer it can attribute
\* keeps a job open; only an archived, normalized one is a success.
SoundVerdict(v) ==
    /\ v.how = "mark" => v.state \in OpenStates
    /\ v.how = "apply" =>
         /\ v.archived /\ v.state \in OpenStates => v.id # None
         /\ v.state = "succeeded" => v.archived /\ v.out # None

\* An operation is about a job that exists, and numbers its own attempt.
OperationInv ==
    \A a \in Actors :
      /\ pc[a] # "idle" => op[a].job \in created
      /\ pc[a] = "expire" => op[a].job \in overdue
      /\ op[a].attempt # 0 <=> pc[a] \in Owning
      /\ pc[a] \in Owning => op[a].attempt \in 1..Len(attempts[op[a].job])

\* An operation that has yet to write has left no trace of its attempt in the
\* row, and has recorded what it is about to write.
WriterInv ==
    \A a \in Actors :
      /\ SoundVerdict(op[a].verdict)
      /\ pc[a] \in Owning => row[op[a].job].raw # op[a].attempt
      /\ pc[a] = "write" =>
           attempts[op[a].job][op[a].attempt].state = op[a].verdict.state

\* MarkSubmitted, which leaves the evidence alone, never meets a row that has any.
RowInv ==
    \A j \in Jobs :
      /\ j \notin created => row[j] = NewRow
      /\ row[j].raw # 0 => row[j].id # None \/ row[j].state \in Terminal

\* The inductive invariant behind the properties of the evidence.
EvidenceInv ==
    /\ TypeOK
    /\ OperationInv
    /\ WriterInv
    /\ RowInv
    /\ EvidenceMatchesState
    /\ AttemptHasOneOwner

---------------------------------------------------------------------------
\* Replacing an element of a sequence (the UPDATE of FinishAttempt) yields a
\* sequence of the same length.
LEMMA ReplaceInSeq ==
    ASSUME NEW S, NEW s \in Seq(S), NEW n, NEW e \in S
    PROVE  /\ [s EXCEPT ![n] = e] \in Seq(S)
           /\ Len([s EXCEPT ![n] = e]) = Len(s)
PROOF
<1>1. Len(s) \in Nat /\ s \in [1..Len(s) -> S]
  OBVIOUS
<1>2. [s EXCEPT ![n] = e] \in [1..Len(s) -> S]
  BY <1>1
<1>3. \A t \in [1..Len(s) -> S] : t \in Seq(S) /\ Len(t) = Len(s)
  BY <1>1
<1> QED
  BY <1>2, <1>3

\* What the service makes of any answer, or of none, is well-formed and sound.
LEMMA VerdictsAreSound ==
    ASSUME NEW seen \in Seen, NEW r \in Reply, NEW e \in RemoteErrors, NEW kind \in Kinds
    PROVE  \A v \in {SubmitVerdict(r), SnapshotVerdict(seen, r), ErrorVerdict(kind, seen, e)} :
             v \in Verdict /\ SoundVerdict(v)
PROOF
<1> USE ProviderJobsAssumption
        DEF Reply, Seen, Verdict, SoundVerdict, Applying, Rejecting, States, OpenStates, Terminal,
            NullableId, NullableOutput, Malformed, RemoteErrors
<1>1. SubmitVerdict(r) \in Verdict /\ SoundVerdict(SubmitVerdict(r))
  BY DEF SubmitVerdict
<1>2. SnapshotVerdict(seen, r) \in Verdict /\ SoundVerdict(SnapshotVerdict(seen, r))
  BY DEF SnapshotVerdict, MatchesIdentity
<1>3. ErrorVerdict(kind, seen, e) \in Verdict /\ SoundVerdict(ErrorVerdict(kind, seen, e))
  BY DEF ErrorVerdict
<1> QED
  BY <1>1, <1>2, <1>3

---------------------------------------------------------------------------
\* The initial state satisfies the inductive invariant.
LEMMA EvidenceInit == Init => EvidenceInv
PROOF
<1> SUFFICES ASSUME Init PROVE EvidenceInv
  OBVIOUS
<1> USE ProviderJobsAssumption DEF Init
<1>1. NewRow \in Row
  BY DEF NewRow, Row, States, OpenStates, NullableId, NullableOutput
<1>2. Fresh \in Operation /\ Fresh.attempt = 0 /\ SoundVerdict(Fresh.verdict)
  BY DEF Fresh, Operation, Kinds, Seen, States, OpenStates, Terminal, NullableId, NullableOutput,
         NoVerdict, Rejecting, Verdict, SoundVerdict
<1>3. TypeOK
  BY <1>1, <1>2 DEF TypeOK, Steps
<1>4. OperationInv
  BY <1>2 DEF OperationInv, Owning
<1>5. WriterInv
  BY <1>2 DEF WriterInv, Owning
<1>6. RowInv /\ EvidenceMatchesState
  BY DEF RowInv, EvidenceMatchesState, NewRow
<1>7. AttemptHasOneOwner
  BY <1>2 DEF AttemptHasOneOwner
<1> QED
  BY <1>3, <1>4, <1>5, <1>6, <1>7 DEF EvidenceInv

\* A step leaves every variable in its type.
LEMMA TypeStep == TypeOK /\ OperationInv /\ [Next]_vars => TypeOK'
PROOF
<1> SUFFICES ASSUME TypeOK, OperationInv, [Next]_vars PROVE TypeOK'
  OBVIOUS
<1> USE ProviderJobsAssumption DEF TypeOK
<1>1. Fresh \in Operation
  BY DEF Fresh, Operation, Kinds, Seen, States, OpenStates, Terminal, NullableId, NullableOutput,
         NoVerdict, Rejecting, Verdict
<1>2. NoVerdict \in Verdict
  BY DEF NoVerdict, Rejecting, Verdict, States, Terminal, NullableId, NullableOutput
<1>3. ASSUME NEW a \in Actors, Return(a) PROVE pc' \in [Actors -> Steps] /\ op' \in [Actors -> Operation]
  BY <1>1, <1>3 DEF Return, Goto, Steps
<1>4. ASSUME NEW a \in Actors, NEW step \in Steps, NEW kind \in Kinds, NEW j \in Jobs,
             NEW v \in Verdict, Begin(a, step, kind, j, row[j], v)
      PROVE  pc' \in [Actors -> Steps] /\ op' \in [Actors -> Operation]
  BY <1>4 DEF Begin, Goto, Operation, Seen, Row
<1>5. ASSUME NEW a \in Actors, NEW j \in Jobs, Submit(a, j) PROVE TypeOK'
  BY <1>2, <1>4, <1>5 DEF Submit, Steps, Kinds
<1>6. ASSUME NEW a \in Actors, NEW j \in Jobs, Refresh(a, j) PROVE TypeOK'
  BY <1>2, <1>4, <1>6 DEF Refresh, store, Steps, Kinds
<1>7. ASSUME NEW a \in Actors, NEW j \in Jobs, PeekTerminal(a, j) PROVE TypeOK'
  BY <1>2, <1>4, <1>7 DEF PeekTerminal, store, Steps, Kinds
<1>8. ASSUME NEW a \in Actors, NEW j \in Jobs, NEW r \in Replies, ApplyCallback(a, j, r)
      PROVE  TypeOK'
  <2>1. SnapshotVerdict(row[j], r) \in Verdict
    BY <1>8 DEF Row, Reply, SnapshotVerdict, Applying, Rejecting, Verdict, NullableId, NullableOutput,
                States, OpenStates, Terminal, Malformed
  <2> QED
    BY <1>4, <1>8, <2>1 DEF ApplyCallback, store, Steps, Kinds
<1>9. ASSUME NEW a \in Actors, NEW v \in Verdict, NEW raw \in Nat, ApplySnapshot(op[a].job, v, raw)
      PROVE  row' \in [Jobs -> Row]
  BY <1>9 DEF ApplySnapshot, Operation, Row, Verdict
<1>10. ASSUME NEW a \in Actors, Expire(a) PROVE TypeOK'
  <2>1. Applying("timed_out", None, None, FALSE) \in Verdict
    BY DEF Applying, Verdict, States, Terminal, NullableId, NullableOutput
  <2> QED
    BY <1>3, <1>9, <1>10, <2>1 DEF Expire
<1>11. ASSUME NEW a \in Actors, StartAttempt(a) PROVE TypeOK'
  <2>1. /\ op[a].job \in Jobs
        /\ [state |-> op[a].read.state, id |-> None] \in Seen
    BY DEF Operation, Seen, NullableId
  <2>2. attempts' \in [Jobs -> Seq(Seen)]
    BY <1>11, <2>1 DEF StartAttempt
  <2>3. Len(attempts[op[a].job]) + 1 \in Nat
    BY <2>1
  <2>4. op' \in [Actors -> Operation]
    BY <1>11, <2>3 DEF StartAttempt, Operation
  <2>5. pc' \in [Actors -> Steps]
    BY <1>11 DEF StartAttempt, Goto, Steps
  <2> QED
    BY <1>11, <2>2, <2>4, <2>5 DEF StartAttempt
<1>12. ASSUME NEW a \in Actors, Answer(a) PROVE TypeOK'
  <2>1. ASSUME NEW r \in Replies
        PROVE  SubmitVerdict(r) \in Verdict /\ SnapshotVerdict(op[a].read, r) \in Verdict
    BY DEF Operation, Seen, Reply, SubmitVerdict, SnapshotVerdict, Applying, Rejecting, Verdict,
           NullableId, NullableOutput, States, OpenStates, Terminal, Malformed
  <2>2. ASSUME NEW e \in RemoteErrors PROVE ErrorVerdict(op[a].kind, op[a].read, e) \in Verdict
    BY DEF Operation, Seen, RemoteErrors, ErrorVerdict, Applying, Verdict, NullableId, NullableOutput,
           States, OpenStates, Terminal
  <2>3. \E v \in Verdict : op' = [op EXCEPT ![a].verdict = v]
    BY <1>12, <2>1, <2>2 DEF Answer
  <2>4. op' \in [Actors -> Operation]
    BY <2>3 DEF Operation
  <2> QED
    BY <1>12, <2>4 DEF Answer, Goto, Steps, store
<1>13. ASSUME NEW a \in Actors, FinishAttempt(a) PROVE TypeOK'
  <2> DEFINE e == [state |-> op[a].verdict.state, id |-> op[a].verdict.id]
             j == op[a].job
  <2>1. j \in Jobs /\ e \in Seen
    BY DEF Operation, Verdict, Seen
  <2>2. [attempts[j] EXCEPT ![op[a].attempt] = e] \in Seq(Seen)
    BY <2>1, ReplaceInSeq
  <2>3. attempts' = [attempts EXCEPT ![j] = [attempts[j] EXCEPT ![op[a].attempt] = e]]
    BY <1>13 DEF FinishAttempt
  <2>4. attempts' \in [Jobs -> Seq(Seen)]
    BY <2>1, <2>2, <2>3
  <2>5. pc' \in [Actors -> Steps] /\ op' \in [Actors -> Operation]
    BY <1>3, <1>13 DEF FinishAttempt, Goto, Steps
  <2> QED
    BY <1>13, <2>4, <2>5 DEF FinishAttempt
<1>14. ASSUME NEW a \in Actors, Write(a) PROVE TypeOK'
  <2>1. op[a].job \in Jobs /\ op[a].verdict \in Verdict /\ op[a].attempt \in Nat
    BY DEF Operation
  <2>2. row' \in [Jobs -> Row]
    <3>1. CASE MarkSubmitted(op[a].job, op[a].verdict)
      BY <2>1, <3>1 DEF MarkSubmitted, Row, Verdict
    <3> QED
      BY <1>9, <1>14, <2>1, <3>1 DEF Write
  <2> QED
    BY <1>3, <1>14, <2>2 DEF Write
<1>15. ASSUME NEW a \in Actors, MarkConsumed(a) PROVE TypeOK'
  BY <1>3, <1>15 DEF MarkConsumed, OperationInv
<1>16. ASSUME NEW a \in Actors, Abandon(a) PROVE TypeOK'
  BY <1>3, <1>16 DEF Abandon, store
<1>17. ASSUME NEW j \in Jobs, DeadlinePasses(j) PROVE TypeOK'
  BY <1>17 DEF DeadlinePasses
<1>18. CASE UNCHANGED vars
  BY <1>18 DEF vars
<1> QED
  BY <1>5, <1>6, <1>7, <1>8, <1>10, <1>11, <1>12, <1>13, <1>14, <1>15, <1>16, <1>17, <1>18 DEF Next

\* Every operation goes on working on its job, and on its own attempt only.
LEMMA OperationStep == TypeOK /\ OperationInv /\ [Next]_vars => OperationInv'
PROOF
<1> SUFFICES ASSUME TypeOK, OperationInv, [Next]_vars PROVE OperationInv'
  OBVIOUS
<1> USE DEF TypeOK, OperationInv, Owning
<1>1. ASSUME NEW a \in Actors, Return(a), created' = created, overdue' = overdue,
             \A j \in Jobs : Len(attempts'[j]) = Len(attempts[j])
      PROVE  OperationInv'
  <2>1. pc'[a] = "idle" /\ op'[a].attempt = 0
    BY <1>1 DEF Return, Goto, Fresh
  <2>2. \A b \in Actors \ {a} : pc'[b] = pc[b] /\ op'[b] = op[b] /\ op[b].job \in Jobs
    BY <1>1 DEF Return, Goto, Operation
  <2> QED
    BY <1>1, <2>1, <2>2
<1>2. ASSUME NEW a \in Actors, NEW j \in created', NEW step \in {"start", "consume", "expire"},
             NEW kind, NEW v, Begin(a, step, kind, j, row[j], v),
             created \subseteq created', overdue' = overdue, attempts' = attempts,
             step = "expire" => j \in overdue
      PROVE  OperationInv'
  <2>1. pc'[a] = step /\ op'[a].attempt = 0 /\ op'[a].job = j
    BY <1>2 DEF Begin, Goto
  <2>2. \A b \in Actors \ {a} : pc'[b] = pc[b] /\ op'[b] = op[b]
    BY <1>2 DEF Begin, Goto
  <2> QED
    BY <1>2, <2>1, <2>2
<1>3. ASSUME NEW a \in Actors, NEW j \in Jobs, Submit(a, j) PROVE OperationInv'
  BY <1>2, <1>3 DEF Submit
<1>4. ASSUME NEW a \in Actors, NEW j \in Jobs, Refresh(a, j) PROVE OperationInv'
  BY <1>2, <1>4 DEF Refresh, store
<1>5. ASSUME NEW a \in Actors, NEW j \in Jobs, PeekTerminal(a, j) PROVE OperationInv'
  BY <1>2, <1>5 DEF PeekTerminal, store
<1>6. ASSUME NEW a \in Actors, NEW j \in Jobs, NEW r \in Replies, ApplyCallback(a, j, r)
      PROVE  OperationInv'
  BY <1>2, <1>6 DEF ApplyCallback, store
<1>7. ASSUME NEW a \in Actors, Expire(a) PROVE OperationInv'
  BY <1>1, <1>7 DEF Expire
<1>8. ASSUME NEW a \in Actors, StartAttempt(a) PROVE OperationInv'
  <2>1. op[a].job \in Jobs /\ Len(attempts[op[a].job]) \in Nat
    BY DEF Operation
  <2>2. /\ op'[a].job = op[a].job
        /\ op'[a].attempt = Len(attempts[op[a].job]) + 1
        /\ pc'[a] \in {"remote", "finish"}
    BY <1>8 DEF StartAttempt, Goto, Operation
  <2>3. \A b \in Actors \ {a} : pc'[b] = pc[b] /\ op'[b] = op[b] /\ op[b].job \in Jobs
    BY <1>8 DEF StartAttempt, Goto, Operation
  <2>4. /\ Len(attempts'[op[a].job]) = Len(attempts[op[a].job]) + 1
        /\ \A j \in Jobs \ {op[a].job} : attempts'[j] = attempts[j]
    BY <1>8, <2>1 DEF StartAttempt
  <2>5. \A j \in Jobs : Len(attempts[j]) \in Nat
    OBVIOUS
  <2>6. created' = created /\ overdue' = overdue /\ pc[a] = "start"
    BY <1>8 DEF StartAttempt
  <2>7. \A j \in Jobs : Len(attempts[j]) <= Len(attempts'[j])
    BY <2>1, <2>4, <2>5
  <2>8. /\ op[a].job \in created
        /\ op'[a].attempt # 0
        /\ op'[a].attempt \in 1..Len(attempts'[op'[a].job])
    BY <2>1, <2>2, <2>4, <2>6
  <2>9. \A b \in Actors \ {a} :
           pc[b] \in Owning => op[b].attempt \in 1..Len(attempts'[op[b].job])
    BY <2>3, <2>5, <2>7
  <2> QED
    BY <2>2, <2>3, <2>6, <2>8, <2>9
<1>9. ASSUME NEW a \in Actors, Answer(a) PROVE OperationInv'
  <2>1. /\ op'[a].job = op[a].job
        /\ op'[a].attempt = op[a].attempt
        /\ pc[a] = "remote" /\ pc'[a] = "finish"
    BY <1>9 DEF Answer, Goto, Operation
  <2>2. \A b \in Actors \ {a} : pc'[b] = pc[b] /\ op'[b] = op[b]
    BY <1>9 DEF Answer, Goto
  <2> QED
    BY <1>9, <2>1, <2>2 DEF Answer, store
<1>10. ASSUME NEW a \in Actors, FinishAttempt(a) PROVE OperationInv'
  <2>1. \A j \in Jobs : Len(attempts'[j]) = Len(attempts[j])
    BY <1>10, ReplaceInSeq DEF FinishAttempt, Operation, Verdict, Seen
  <2>2. CASE Return(a)
    BY <1>1, <1>10, <2>1, <2>2 DEF FinishAttempt
  <2>3. CASE Goto(a, "write") /\ UNCHANGED op
    <3>1. pc[a] = "finish" /\ pc'[a] = "write" /\ \A b \in Actors \ {a} : pc'[b] = pc[b]
      BY <1>10, <2>3 DEF FinishAttempt, Goto
    <3>2. \A b \in Actors : op[b].job \in Jobs
      BY DEF Operation
    <3> QED
      BY <1>10, <2>1, <2>3, <3>1, <3>2 DEF FinishAttempt
  <2> QED
    BY <1>10, <2>2, <2>3 DEF FinishAttempt
<1>11. ASSUME NEW a \in Actors, Write(a) PROVE OperationInv'
  BY <1>1, <1>11 DEF Write
<1>12. ASSUME NEW a \in Actors, MarkConsumed(a) PROVE OperationInv'
  BY <1>1, <1>12 DEF MarkConsumed
<1>13. ASSUME NEW a \in Actors, Abandon(a) PROVE OperationInv'
  BY <1>1, <1>13 DEF Abandon, store
<1>14. ASSUME NEW j \in Jobs, DeadlinePasses(j) PROVE OperationInv'
  BY <1>14 DEF DeadlinePasses
<1>15. CASE UNCHANGED vars
  BY <1>15 DEF vars
<1> QED
  BY <1>3, <1>4, <1>5, <1>6, <1>7, <1>8, <1>9, <1>10, <1>11, <1>12, <1>13, <1>14, <1>15 DEF Next

---------------------------------------------------------------------------
\* How a step changes an operation: the actor returns, begins an operation,
\* which has no attempt yet, or keeps its job.
LEMMA OperationChanges ==
    ASSUME TypeOK, [Next]_vars, NEW b \in Actors
    PROVE  \/ op'[b] = op[b]
           \/ op'[b].attempt = 0 /\ pc'[b] \notin Owning
           \/ op'[b].attempt = op[b].attempt /\ op'[b].job = op[b].job
           \/ StartAttempt(b)
PROOF
<1> USE DEF TypeOK, Owning
<1>1. ASSUME NEW a \in Actors, Return(a) PROVE op'[b] = op[b] \/ (op'[b].attempt = 0 /\ pc'[b] \notin Owning)
  <2>1. CASE b = a
    BY <1>1, <2>1 DEF Return, Goto, Fresh
  <2>2. CASE b # a
    BY <1>1, <2>2 DEF Return
  <2> QED
    BY <2>1, <2>2
<1>2. ASSUME NEW a \in Actors, NEW j, NEW step \in Steps \ Owning, NEW kind, NEW seen, NEW v,
             Begin(a, step, kind, j, seen, v)
      PROVE  op'[b] = op[b] \/ (op'[b].attempt = 0 /\ pc'[b] \notin Owning)
  <2>1. CASE b = a
    BY <1>2, <2>1 DEF Begin, Goto
  <2>2. CASE b # a
    BY <1>2, <2>2 DEF Begin
  <2> QED
    BY <2>1, <2>2
<1>3. ASSUME NEW a \in Actors, NEW j \in Jobs, Submit(a, j) \/ Refresh(a, j) \/ PeekTerminal(a, j)
      PROVE  op'[b] = op[b] \/ (op'[b].attempt = 0 /\ pc'[b] \notin Owning)
  BY <1>2, <1>3 DEF Submit, Refresh, PeekTerminal, Steps
<1>4. ASSUME NEW a \in Actors, NEW j \in Jobs, NEW r \in Replies, ApplyCallback(a, j, r)
      PROVE  op'[b] = op[b] \/ (op'[b].attempt = 0 /\ pc'[b] \notin Owning)
  BY <1>2, <1>4 DEF ApplyCallback, Steps
<1>5. ASSUME NEW a \in Actors, Expire(a) \/ Write(a) \/ MarkConsumed(a) \/ Abandon(a)
      PROVE  op'[b] = op[b] \/ (op'[b].attempt = 0 /\ pc'[b] \notin Owning)
  BY <1>1, <1>5 DEF Expire, Write, MarkConsumed, Abandon
<1>6. ASSUME NEW a \in Actors, StartAttempt(a) PROVE op'[b] = op[b] \/ StartAttempt(b)
  BY <1>6 DEF StartAttempt, Operation
<1>7. ASSUME NEW a \in Actors, Answer(a)
      PROVE  op'[b].attempt = op[b].attempt /\ op'[b].job = op[b].job
  BY <1>7 DEF Answer, Operation
<1>8. ASSUME NEW a \in Actors, FinishAttempt(a)
      PROVE  op'[b] = op[b] \/ (op'[b].attempt = 0 /\ pc'[b] \notin Owning)
  <2>1. CASE Return(a)
    BY <1>1, <2>1
  <2> QED
    BY <1>8, <2>1 DEF FinishAttempt
<1>9. ASSUME NEW j \in Jobs, DeadlinePasses(j) PROVE op'[b] = op[b]
  BY <1>9 DEF DeadlinePasses
<1>10. CASE UNCHANGED vars
  BY <1>10 DEF vars
<1> QED
  BY <1>3, <1>4, <1>5, <1>6, <1>7, <1>8, <1>9, <1>10 DEF Next

\* No two actors come to work under one attempt number.
LEMMA OwnerStep ==
    TypeOK /\ OperationInv /\ AttemptHasOneOwner /\ [Next]_vars => AttemptHasOneOwner'
PROOF
<1> SUFFICES ASSUME TypeOK, OperationInv, AttemptHasOneOwner, [Next]_vars,
                    NEW a \in Actors, NEW b \in Actors, a # b,
                    op'[a].job = op'[b].job, op'[a].attempt # 0
             PROVE  op'[a].attempt # op'[b].attempt
  BY DEF AttemptHasOneOwner
<1> DEFINE Same(c) == op'[c].attempt = op[c].attempt /\ op'[c].job = op[c].job
<1>1. ASSUME NEW c \in Actors, NEW d \in Actors, c # d, StartAttempt(c), op'[c].job = op'[d].job
      PROVE  op'[c].attempt # op'[d].attempt
  <2>1. op'[c].job = op[c].job /\ op'[d] = op[d] /\ op[c].job \in Jobs
    BY <1>1 DEF StartAttempt, TypeOK, Operation
  <2>2. op'[c].attempt = Len(attempts[op[c].job]) + 1 /\ Len(attempts[op[c].job]) \in Nat
    BY <1>1, <2>1 DEF StartAttempt, TypeOK, Operation
  <2>3. op[d].attempt # 0 => op[d].attempt \in 1..Len(attempts[op[d].job])
    BY DEF OperationInv
  <2>4. op'[d].attempt = 0 \/ op'[d].attempt \in 1..Len(attempts[op[c].job])
    BY <1>1, <2>1, <2>3
  <2>5. op'[c].attempt = Len(attempts[op[c].job]) + 1
    BY <2>2
  <2> QED
    BY <2>2, <2>4, <2>5
<1>2. CASE StartAttempt(a) \/ StartAttempt(b)
  BY <1>1, <1>2
<1>3. CASE Same(a) /\ Same(b)
  BY <1>3 DEF AttemptHasOneOwner
<1>4. Same(a) \/ StartAttempt(a)
  BY OperationChanges
<1>5. Same(b) \/ StartAttempt(b) \/ op'[b].attempt = 0
  BY OperationChanges
<1> QED
  BY <1>2, <1>3, <1>4, <1>5

---------------------------------------------------------------------------
\* Only Expire and Write write to a row, and to that of their own job.
LEMMA RowChanges ==
    ASSUME TypeOK, [Next]_vars, NEW j \in Jobs
    PROVE  \/ row'[j] = row[j]
           \/ \E a \in Actors : op[a].job = j /\ (Expire(a) \/ Write(a))
PROOF
<1>1. ASSUME NEW a \in Actors, Expire(a) \/ Write(a)
      PROVE  op[a].job # j => row'[j] = row[j]
  BY <1>1 DEF Expire, Write, ApplySnapshot, MarkSubmitted, TypeOK
<1>2. CASE UNCHANGED vars
  BY <1>2 DEF vars
<1>3. (\A a \in Actors : ~ Expire(a) /\ ~ Write(a)) /\ Next => row' = row
  BY DEF Next, Submit, Refresh, PeekTerminal, ApplyCallback, StartAttempt, Answer, FinishAttempt,
         MarkConsumed, Abandon, DeadlinePasses, store
<1> QED
  BY <1>1, <1>2, <1>3

\* The record of an attempt stays, unless its own operation finishes it.
LEMMA RecordChanges ==
    ASSUME TypeOK, [Next]_vars, NEW j \in Jobs, NEW n \in 1..Len(attempts[j])
    PROVE  /\ n \in 1..Len(attempts'[j])
           /\ \/ attempts'[j][n] = attempts[j][n]
              \/ \E a \in Actors : op[a].job = j /\ op[a].attempt = n /\ FinishAttempt(a)
PROOF
<1>1. ASSUME NEW a \in Actors, StartAttempt(a)
      PROVE  n \in 1..Len(attempts'[j]) /\ attempts'[j][n] = attempts[j][n]
  <2>1. attempts[j] \in Seq(Seen) /\ Len(attempts[j]) \in Nat
    BY DEF TypeOK
  <2>2. CASE op[a].job = j
    BY <1>1, <2>1, <2>2 DEF StartAttempt, TypeOK
  <2>3. CASE op[a].job # j
    BY <1>1, <2>3 DEF StartAttempt, TypeOK
  <2> QED
    BY <2>2, <2>3
<1>2. ASSUME NEW a \in Actors, FinishAttempt(a)
      PROVE  /\ n \in 1..Len(attempts'[j])
             /\ op[a].job # j \/ op[a].attempt # n => attempts'[j][n] = attempts[j][n]
  <2>1. CASE op[a].job = j
    <3>1. attempts'[j] = [attempts[j] EXCEPT ![op[a].attempt] =
                            [state |-> op[a].verdict.state, id |-> op[a].verdict.id]]
      BY <1>2, <2>1 DEF FinishAttempt, TypeOK
    <3>2. /\ attempts[j] \in Seq(Seen)
          /\ [state |-> op[a].verdict.state, id |-> op[a].verdict.id] \in Seen
      BY DEF TypeOK, Operation, Verdict, Seen
    <3>3. Len(attempts'[j]) = Len(attempts[j])
      BY <3>1, <3>2, ReplaceInSeq
    <3>4. n \in DOMAIN attempts[j]
      BY <3>2
    <3> QED
      BY <2>1, <3>1, <3>3, <3>4
  <2>2. CASE op[a].job # j
    BY <1>2, <2>2 DEF FinishAttempt, TypeOK
  <2> QED
    BY <2>1, <2>2
<1>3. CASE UNCHANGED vars
  BY <1>3 DEF vars
<1>4. (\A a \in Actors : ~ StartAttempt(a) /\ ~ FinishAttempt(a)) /\ Next => attempts' = attempts
  BY DEF Next, Submit, Refresh, PeekTerminal, ApplyCallback, Expire, Answer, Write,
         MarkConsumed, Abandon, DeadlinePasses, store
<1> QED
  BY <1>1, <1>2, <1>3, <1>4

\* What the two writers leave in a row: its evidence is the writer's attempt,
\* recorded with the state of the row, or none.
LEMMA WrittenRow ==
    ASSUME EvidenceInv, NEW a \in Actors, Expire(a) \/ Write(a)
    PROVE  LET r == row'[op[a].job] IN
           \/ r = row[op[a].job]
           \/ r.raw = 0
           \/ /\ r.raw = op[a].attempt /\ Write(a)
              /\ r.state = op[a].verdict.state
              /\ r.id # None \/ r.state \in Terminal
PROOF
<1> DEFINE j == op[a].job
           v == op[a].verdict
<1>1. j \in Jobs /\ v \in Verdict /\ row[j] \in Row /\ row \in [Jobs -> Row]
  BY DEF EvidenceInv, TypeOK, Operation
<1>2. CASE Expire(a)
  BY <1>1, <1>2 DEF Expire, ApplySnapshot, Applying
<1>3. CASE Write(a) /\ MarkSubmitted(j, v)
  <2>1. row[j].raw # 0 => row[j].id # None \/ row[j].state \in Terminal
    BY <1>1 DEF EvidenceInv, RowInv
  <2> QED
    BY <1>1, <1>3, <2>1 DEF MarkSubmitted, Row, Terminal
<1>4. CASE Write(a) /\ v.how = "apply" /\ ApplySnapshot(j, v, IF v.archived THEN op[a].attempt ELSE 0)
  <2>1. v.archived /\ v.state \in OpenStates => v.id # None
    BY <1>4 DEF EvidenceInv, WriterInv, SoundVerdict
  <2>2. v.state \in OpenStates \/ v.state \in Terminal
    BY <1>1 DEF Verdict, States
  <2> QED
    BY <1>1, <1>4, <2>1, <2>2 DEF ApplySnapshot
<1> QED
  BY <1>2, <1>3, <1>4 DEF Write

---------------------------------------------------------------------------
\* A step leaves the evidence of every row in agreement with its state.
LEMMA EvidenceStep == EvidenceInv /\ [Next]_vars => EvidenceMatchesState'
PROOF
<1> SUFFICES ASSUME EvidenceInv, [Next]_vars, NEW j \in Jobs, row'[j].raw # 0
             PROVE  /\ row'[j].raw \in 1..Len(attempts'[j])
                    /\ attempts'[j][row'[j].raw].state = row'[j].state
  <2>1. EvidenceInv /\ [Next]_vars => TypeOK'
    BY TypeStep DEF EvidenceInv
  <2>2. TypeOK' => \A k \in Jobs : DOMAIN attempts'[k] = 1..Len(attempts'[k])
    BY DEF TypeOK
  <2> QED
    BY <2>1, <2>2 DEF EvidenceMatchesState
<1> USE DEF EvidenceInv
<1>1. \A k \in Jobs : attempts[k] \in Seq(Seen) /\ DOMAIN attempts[k] = 1..Len(attempts[k])
  BY DEF TypeOK
<1>2. CASE row'[j] = row[j]
  <2> DEFINE n == row[j].raw
  <2>1. n \in 1..Len(attempts[j]) /\ attempts[j][n].state = row[j].state
    BY <1>1, <1>2 DEF EvidenceMatchesState
  <2>2. \A a \in Actors : FinishAttempt(a) => ~ (op[a].job = j /\ op[a].attempt = n)
    BY DEF WriterInv, Owning, FinishAttempt
  <2> QED
    BY <1>2, <2>1, <2>2, RecordChanges
<1>3. ASSUME NEW a \in Actors, op[a].job = j, Expire(a) \/ Write(a), row'[j] # row[j]
      PROVE  /\ row'[j].raw \in 1..Len(attempts'[j])
             /\ attempts'[j][row'[j].raw].state = row'[j].state
  <2>1. row'[j].raw = op[a].attempt /\ Write(a) /\ row'[j].state = op[a].verdict.state
    BY <1>3, WrittenRow
  <2>2. pc[a] = "write" /\ attempts' = attempts
    BY <2>1 DEF Write
  <2> QED
    BY <1>3, <2>1, <2>2 DEF OperationInv, WriterInv, Owning
<1> QED
  BY <1>2, <1>3, RowChanges

\* A step leaves a row without evidence, with an identifier or settled.
LEMMA RowStep == EvidenceInv /\ [Next]_vars => RowInv'
PROOF
<1> SUFFICES ASSUME EvidenceInv, [Next]_vars, NEW j \in Jobs
             PROVE  /\ j \notin created' => row'[j] = NewRow
                    /\ row'[j].raw # 0 => row'[j].id # None \/ row'[j].state \in Terminal
  BY DEF RowInv
<1> USE DEF EvidenceInv
<1>1. created \subseteq created'
  BY DEF Next, vars, Submit, Refresh, PeekTerminal, ApplyCallback, Expire, StartAttempt, Answer,
         FinishAttempt, Write, MarkConsumed, Abandon, DeadlinePasses, store
<1>2. CASE row'[j] = row[j]
  BY <1>1, <1>2 DEF RowInv
<1>3. ASSUME NEW a \in Actors, op[a].job = j, Expire(a) \/ Write(a), row'[j] # row[j]
      PROVE  /\ j \in created'
             /\ row'[j].raw # 0 => row'[j].id # None \/ row'[j].state \in Terminal
  <2>1. pc[a] # "idle"
    BY <1>3 DEF Expire, Write
  <2>2. j \in created
    BY <1>3, <2>1 DEF OperationInv
  <2> QED
    BY <1>1, <1>3, <2>2, WrittenRow
<1> QED
  BY <1>2, <1>3, RowChanges

\* A step leaves every operation with a sound verdict.
LEMMA VerdictStep ==
    ASSUME TypeOK, WriterInv, [Next]_vars, NEW b \in Actors
    PROVE  SoundVerdict(op'[b].verdict)
PROOF
<1> USE ProviderJobsAssumption
<1>1. SoundVerdict(op[b].verdict) /\ SoundVerdict(NoVerdict) /\ SoundVerdict(Fresh.verdict)
  BY DEF WriterInv, SoundVerdict, NoVerdict, Rejecting, Fresh
<1>2. ASSUME NEW a \in Actors, Return(a) PROVE SoundVerdict(op'[b].verdict)
  <2>1. op'[b] = op[b] \/ op'[b] = Fresh
    BY <1>2 DEF Return, TypeOK
  <2> QED
    BY <1>1, <2>1
<1>3. ASSUME NEW a \in Actors, NEW j, NEW step, NEW kind, NEW seen, NEW v, SoundVerdict(v),
             Begin(a, step, kind, j, seen, v)
      PROVE  SoundVerdict(op'[b].verdict)
  <2>1. op'[b] = op[b] \/ op'[b].verdict = v
    BY <1>3 DEF Begin, TypeOK
  <2> QED
    BY <1>1, <1>3, <2>1
<1>4. ASSUME NEW a \in Actors, NEW j \in Jobs, Submit(a, j) \/ Refresh(a, j) \/ PeekTerminal(a, j)
      PROVE  SoundVerdict(op'[b].verdict)
  BY <1>1, <1>3, <1>4 DEF Submit, Refresh, PeekTerminal
<1>5. ASSUME NEW a \in Actors, NEW j \in Jobs, NEW r \in Replies, ApplyCallback(a, j, r)
      PROVE  SoundVerdict(op'[b].verdict)
  <2>1. SoundVerdict(SnapshotVerdict(row[j], r))
    BY DEF TypeOK, Row, Reply, SnapshotVerdict, MatchesIdentity, Applying, Rejecting, SoundVerdict,
           OpenStates, Terminal
  <2> QED
    BY <1>3, <1>5, <2>1 DEF ApplyCallback
<1>6. ASSUME NEW a \in Actors, Answer(a) PROVE SoundVerdict(op'[b].verdict)
  <2>1. op[a].read \in Seen /\ op[a].kind \in Kinds
    BY DEF TypeOK, Operation
  <2>2. RemoteErrors # {}
    BY DEF RemoteErrors
  <2>3. ASSUME NEW r \in Replies
        PROVE  SoundVerdict(SubmitVerdict(r)) /\ SoundVerdict(SnapshotVerdict(op[a].read, r))
    BY <2>1, <2>2, VerdictsAreSound
  <2>4. ASSUME NEW e \in RemoteErrors PROVE SoundVerdict(ErrorVerdict(op[a].kind, op[a].read, e))
    BY DEF RemoteErrors, ErrorVerdict, Applying, SoundVerdict
  <2>5. PICK v \in    {IF op[a].kind = "submit" THEN SubmitVerdict(r)
                      ELSE SnapshotVerdict(op[a].read, r) : r \in Replies}
               \cup {ErrorVerdict(op[a].kind, op[a].read, e) : e \in RemoteErrors} :
             op' = [op EXCEPT ![a].verdict = v]
    BY <1>6 DEF Answer
  <2>6. SoundVerdict(v)
    BY <2>3, <2>4
  <2>7. op'[b] = op[b] \/ op'[b].verdict = v
    BY <2>5 DEF TypeOK, Operation
  <2> QED
    BY <1>1, <2>6, <2>7
<1>7. ASSUME NEW a \in Actors, Expire(a) \/ Write(a) \/ MarkConsumed(a) \/ Abandon(a)
      PROVE  SoundVerdict(op'[b].verdict)
  BY <1>2, <1>7 DEF Expire, Write, MarkConsumed, Abandon
<1>8. ASSUME NEW a \in Actors, StartAttempt(a) PROVE SoundVerdict(op'[b].verdict)
  <2>1. op'[b].verdict = op[b].verdict
    BY <1>8 DEF StartAttempt, TypeOK, Operation
  <2> QED
    BY <1>1, <2>1
<1>9. ASSUME NEW a \in Actors, FinishAttempt(a) PROVE SoundVerdict(op'[b].verdict)
  <2>1. CASE Return(a)
    BY <1>2, <2>1
  <2> QED
    BY <1>1, <1>9, <2>1 DEF FinishAttempt
<1>10. (UNCHANGED vars \/ \E j \in Jobs : DeadlinePasses(j)) => op' = op
  BY DEF vars, DeadlinePasses
<1> QED
  BY <1>1, <1>4, <1>5, <1>6, <1>7, <1>8, <1>9, <1>10 DEF Next

\* A step leaves every operation that has yet to write without trace in its
\* row, and every operation about to write with a record of that.
LEMMA WriterStep == EvidenceInv /\ [Next]_vars => WriterInv'
PROOF
<1> SUFFICES ASSUME EvidenceInv, [Next]_vars, NEW b \in Actors
             PROVE  /\ SoundVerdict(op'[b].verdict)
                    /\ pc'[b] \in Owning => row'[op'[b].job].raw # op'[b].attempt
                    /\ pc'[b] = "write" =>
                         attempts'[op'[b].job][op'[b].attempt].state = op'[b].verdict.state
  BY DEF WriterInv
<1> USE DEF EvidenceInv
<1>1. SoundVerdict(op'[b].verdict)
  BY VerdictStep
<1>2. op[b].job \in Jobs /\ \A j \in Jobs : Len(attempts[j]) \in Nat
  BY DEF TypeOK, Operation
<1>3. ASSUME pc'[b] \in Owning PROVE row'[op'[b].job].raw # op'[b].attempt
  <2>1. op'[b].attempt # 0
    BY <1>3, OperationStep DEF OperationInv
  <2>2. CASE StartAttempt(b)
    <3>1. /\ op'[b].job = op[b].job
          /\ op'[b].attempt = Len(attempts[op[b].job]) + 1
          /\ row' = row
      BY <2>2 DEF StartAttempt, TypeOK, Operation
    <3>2. row[op[b].job].raw = 0 \/ row[op[b].job].raw \in 1..Len(attempts[op[b].job])
      BY <1>2 DEF EvidenceMatchesState, TypeOK
    <3> QED
      BY <1>2, <3>1, <3>2
  <2>3. CASE op'[b].attempt = op[b].attempt /\ op'[b].job = op[b].job
    <3>1. row[op[b].job].raw # op[b].attempt
      BY <2>1, <2>3 DEF OperationInv, WriterInv
    <3>2. ASSUME NEW a \in Actors, op[a].job = op[b].job, Write(a), op[a].attempt = op[b].attempt
          PROVE  FALSE
      <4>1. a = b
        BY <2>1, <2>3, <3>2 DEF AttemptHasOneOwner
      <4>2. pc'[b] = "idle"
        BY <3>2, <4>1 DEF Write, Return, Goto, TypeOK
      <4> QED
        BY <1>3, <4>2 DEF Owning
    <3>3. ASSUME NEW a \in Actors, op[a].job = op[b].job, Expire(a) \/ Write(a)
          PROVE  row'[op[b].job].raw # op[b].attempt
      BY <2>1, <2>3, <3>1, <3>2, <3>3, WrittenRow
    <3> QED
      BY <1>2, <2>3, <3>1, <3>3, RowChanges
  <2> QED
    BY <1>3, <2>1, <2>2, <2>3, OperationChanges
<1>4. ASSUME pc'[b] = "write"
      PROVE  attempts'[op'[b].job][op'[b].attempt].state = op'[b].verdict.state
  <2>1. CASE FinishAttempt(b)
    <3>1. /\ op' = op
          /\ op[b].attempt \in 1..Len(attempts[op[b].job])
          /\ pc[b] = "finish"
      BY <1>4, <2>1 DEF FinishAttempt, Return, Goto, TypeOK, OperationInv, Owning
    <3>2. attempts' = [attempts EXCEPT ![op[b].job][op[b].attempt] =
                         [state |-> op[b].verdict.state, id |-> op[b].verdict.id]]
      BY <2>1 DEF FinishAttempt
    <3>3. attempts[op[b].job] \in Seq(Seen) /\ op[b].attempt \in DOMAIN attempts[op[b].job]
      BY <1>2, <3>1 DEF TypeOK
    <3>4. attempts'[op[b].job] = [attempts[op[b].job] EXCEPT ![op[b].attempt] =
                                    [state |-> op[b].verdict.state, id |-> op[b].verdict.id]]
      BY <1>2, <3>2 DEF TypeOK
    <3> QED
      BY <3>1, <3>3, <3>4
  <2>2. CASE ~ FinishAttempt(b)
    <3>1. pc[b] = "write" /\ op'[b] = op[b]
      <4> USE DEF TypeOK
      <4>1. \A a \in Actors : Return(a) => pc'[b] = pc[b] /\ op'[b] = op[b]
        BY <1>4 DEF Return, Goto
      <4>2. ASSUME NEW a \in Actors, NEW j, NEW step \in {"start", "expire", "consume"}, NEW kind,
                   NEW seen, NEW v, Begin(a, step, kind, j, seen, v)
            PROVE  pc'[b] = pc[b] /\ op'[b] = op[b]
        BY <1>4, <4>2 DEF Begin, Goto
      <4>3. ASSUME NEW a \in Actors, NEW j \in Jobs, Submit(a, j) \/ Refresh(a, j) \/ PeekTerminal(a, j)
            PROVE  pc'[b] = pc[b] /\ op'[b] = op[b]
        BY <4>2, <4>3 DEF Submit, Refresh, PeekTerminal
      <4>4. ASSUME NEW a \in Actors, NEW j \in Jobs, NEW r \in Replies, ApplyCallback(a, j, r)
            PROVE  pc'[b] = pc[b] /\ op'[b] = op[b]
        BY <4>2, <4>4 DEF ApplyCallback
      <4>5. ASSUME NEW a \in Actors, Expire(a) \/ Write(a) \/ MarkConsumed(a) \/ Abandon(a)
            PROVE  pc'[b] = pc[b] /\ op'[b] = op[b]
        BY <4>1, <4>5 DEF Expire, Write, MarkConsumed, Abandon
      <4>6. ASSUME NEW a \in Actors, StartAttempt(a) \/ Answer(a)
            PROVE  pc'[b] = pc[b] /\ op'[b] = op[b]
        BY <1>4, <4>6 DEF StartAttempt, Answer, Goto
      <4>7. ASSUME NEW a \in Actors, FinishAttempt(a) PROVE pc'[b] = pc[b] /\ op'[b] = op[b]
        <5>1. a # b
          BY <2>2, <4>7
        <5>2. CASE Return(a)
          BY <4>1, <5>2
        <5> QED
          BY <4>7, <5>1, <5>2 DEF FinishAttempt, Goto
      <4>8. (UNCHANGED vars \/ \E j \in Jobs : DeadlinePasses(j)) => pc' = pc /\ op' = op
        BY DEF vars, DeadlinePasses
      <4> QED
        BY <1>4, <4>3, <4>4, <4>5, <4>6, <4>7, <4>8 DEF Next
    <3>2. /\ op[b].attempt \in 1..Len(attempts[op[b].job])
          /\ op[b].attempt # 0
          /\ attempts[op[b].job][op[b].attempt].state = op[b].verdict.state
      BY <3>1 DEF OperationInv, WriterInv, Owning
    <3>3. \A a \in Actors : ~ (op[a].job = op[b].job /\ op[a].attempt = op[b].attempt /\ FinishAttempt(a))
      BY <2>2, <3>2 DEF AttemptHasOneOwner
    <3> QED
      BY <1>2, <3>1, <3>2, <3>3, RecordChanges
  <2> QED
    BY <2>1, <2>2
<1> QED
  BY <1>1, <1>3, <1>4

\* The invariant is inductive.
LEMMA EvidenceInductive == EvidenceInv /\ [Next]_vars => EvidenceInv'
PROOF
  BY TypeStep, OperationStep, WriterStep, RowStep, EvidenceStep, OwnerStep DEF EvidenceInv

---------------------------------------------------------------------------
\* The inductive invariant holds in every reachable state of the service.
THEOREM EvidenceInvariant == Spec => []EvidenceInv
PROOF
<1>1. Init => EvidenceInv
  BY EvidenceInit
<1>2. EvidenceInv /\ [Next]_vars => EvidenceInv'
  BY EvidenceInductive
<1> QED
  BY <1>1, <1>2, PTL DEF Spec

\* Whatever a provider answers, the two tables and the locals of every
\* operation hold values of their types.
THEOREM TypeCorrect == Spec => []TypeOK
PROOF
<1>1. EvidenceInv => TypeOK
  BY DEF EvidenceInv
<1> QED
  BY <1>1, EvidenceInvariant, PTL

\* The archived response a job row points to belongs to an attempt recorded
\* with the state of the row.
THEOREM EvidenceHolds == Spec => []EvidenceMatchesState
PROOF
<1>1. EvidenceInv => EvidenceMatchesState
  BY DEF EvidenceInv
<1> QED
  BY <1>1, EvidenceInvariant, PTL

\* No two operations under way archive under one attempt number of one job.
THEOREM OwnershipHolds == Spec => []AttemptHasOneOwner
PROOF
<1>1. EvidenceInv => AttemptHasOneOwner
  BY DEF EvidenceInv
<1> QED
  BY <1>1, EvidenceInvariant, PTL

---------------------------------------------------------------------------
\* A settled job never changes again: of the two writers, ApplySnapshot skips
\* a settled row and MarkSubmitted asks for an open one.
THEOREM SettledStays == Spec => TerminalIsFinal
PROOF
<1>1. ASSUME TypeOK, [Next]_vars, NEW j \in Jobs, row[j].state \in Terminal
      PROVE  row'[j] = row[j]
  <2>1. ASSUME NEW a \in Actors, op[a].job = j, Expire(a) \/ Write(a)
        PROVE  row'[j] = row[j]
    BY <1>1, <2>1 DEF Expire, Write, ApplySnapshot, MarkSubmitted, Terminal, TypeOK
  <2> QED
    BY <1>1, <2>1, RowChanges
<1>2. TypeOK /\ [Next]_vars
        => [\A j \in Jobs : row[j].state \in Terminal => row'[j] = row[j]]_vars
  BY <1>1
<1> QED
  BY <1>2, TypeCorrect, PTL DEF Spec, TerminalIsFinal

\* The provider identifier of a job, once stored, is never replaced.
THEOREM ProviderIdStays == Spec => ProviderIdIsFinal
PROOF
<1>1. ASSUME TypeOK, [Next]_vars, NEW j \in Jobs, row[j].id # None
      PROVE  row'[j].id = row[j].id
  <2>1. ASSUME NEW a \in Actors, op[a].job = j, Expire(a) \/ Write(a)
        PROVE  row'[j].id = row[j].id
    <3>1. row[j] \in Row /\ row \in [Jobs -> Row]
      BY <1>1 DEF TypeOK
    <3>2. ASSUME NEW v, NEW raw, ApplySnapshot(j, v, raw) PROVE row'[j].id = row[j].id
      BY <1>1, <3>1, <3>2 DEF ApplySnapshot
    <3>3. ASSUME NEW v, MarkSubmitted(j, v) PROVE row'[j].id = row[j].id
      BY <1>1, <3>1, <3>3 DEF MarkSubmitted
    <3> QED
      BY <2>1, <3>2, <3>3 DEF Expire, Write
  <2> QED
    BY <1>1, <2>1, RowChanges
<1>2. TypeOK /\ [Next]_vars
        => [\A j \in Jobs : row[j].id # None => row'[j].id = row[j].id]_vars
  BY <1>1
<1> QED
  BY <1>2, TypeCorrect, PTL DEF Spec, ProviderIdIsFinal

---------------------------------------------------------------------------
\* The implementation of JobOutcome.

\* The initial tables show the workflow engine no job.
LEMMA OutcomeInit == Init => Abstract!Init
PROOF
  BY DEF Init, Abstract!Init, Outcome

\* A step of the service creates, settles or acknowledges one job, or shows
\* the workflow engine nothing new.
LEMMA OutcomeStep == EvidenceInv /\ [Next]_vars => [Abstract!Next]_<<Outcome, consumed>>
PROOF
<1> SUFFICES ASSUME EvidenceInv, [Next]_vars
             PROVE  Abstract!Next \/ (Outcome' = Outcome /\ consumed' = consumed)
  OBVIOUS
<1> USE DEF EvidenceInv
<1>1. ASSUME NEW a \in Actors, NEW j \in Jobs, Submit(a, j)
      PROVE  Abstract!Create(j) \/ (Outcome' = Outcome /\ consumed' = consumed)
  <2>1. created' = created \cup {j} /\ row' = row /\ consumed' = consumed
    BY <1>1 DEF Submit
  <2>2. CASE j \in created
    BY <2>1, <2>2 DEF Outcome
  <2>3. CASE j \notin created
    <3>1. row[j].state = "pending_submission"
      BY <2>3 DEF RowInv, NewRow
    <3> QED
      BY <2>1, <2>3, <3>1 DEF Abstract!Create, Outcome, OpenStates
  <2> QED
    BY <2>2, <2>3
<1>2. ASSUME NEW a \in Actors, Expire(a) \/ Write(a)
      PROVE  Abstract!Next \/ (Outcome' = Outcome /\ consumed' = consumed)
  <2> DEFINE j == op[a].job
  <2>1. j \in Jobs /\ j \in created /\ created' = created /\ consumed' = consumed
    BY <1>2 DEF Expire, Write, OperationInv, TypeOK, Operation
  <2>2. \A k \in Jobs : k # j => row'[k] = row[k]
    BY <1>2 DEF Expire, Write, ApplySnapshot, MarkSubmitted, TypeOK
  <2>3. row[j].state \in Terminal => row'[j] = row[j]
    BY <1>2, <2>1 DEF Expire, Write, ApplySnapshot, MarkSubmitted, Terminal, TypeOK
  <2>4. row[j].state \in States /\ row'[j].state \in States
    BY <2>1, TypeStep DEF TypeOK, Row
  <2>5. CASE row'[j] = row[j]
    BY <2>1, <2>2, <2>5 DEF Outcome
  <2>6. CASE row[j].state \in OpenStates /\ row'[j].state \in OpenStates
    BY <2>1, <2>2, <2>6 DEF Outcome
  <2>7. CASE row[j].state \in OpenStates /\ row'[j].state \notin OpenStates
    <3>1. \E s \in {"succeeded", "failed"} : Outcome' = [Outcome EXCEPT ![j] = s]
      BY <2>1, <2>2, <2>7 DEF Outcome
    <3>2. Outcome[j] = "open"
      BY <2>1, <2>7 DEF Outcome
    <3> QED
      BY <2>1, <3>1, <3>2 DEF Abstract!Next, Abstract!Settle, Abstract!Settled
  <2> QED
    BY <2>3, <2>4, <2>5, <2>6, <2>7 DEF States
<1>3. ASSUME NEW a \in Actors, MarkConsumed(a) PROVE Abstract!Consume(op[a].job) /\ op[a].job \in Jobs
  <2>1. /\ op[a].job \in Jobs /\ op[a].job \in created
        /\ row' = row /\ created' = created /\ consumed' = consumed \cup {op[a].job}
        /\ row[op[a].job].state \in Terminal
    BY <1>3 DEF MarkConsumed, OperationInv, TypeOK, Operation
  <2>2. Outcome' = Outcome
    BY <2>1 DEF Outcome
  <2>3. Outcome[op[a].job] \in {"succeeded", "failed"}
    BY <2>1 DEF Outcome, Terminal, OpenStates
  <2> QED
    BY <2>1, <2>2, <2>3 DEF Abstract!Consume, Abstract!Settled
<1>4. ASSUME row' = row, created' = created, consumed' = consumed
      PROVE  Outcome' = Outcome /\ consumed' = consumed
  BY <1>4 DEF Outcome
<1>5. \/ \E a \in Actors, j \in Jobs : Submit(a, j)
      \/ \E a \in Actors : Expire(a) \/ Write(a) \/ MarkConsumed(a)
      \/ row' = row /\ created' = created /\ consumed' = consumed
  BY DEF Next, vars, Refresh, PeekTerminal, ApplyCallback, StartAttempt, Answer, FinishAttempt,
         Abandon, DeadlinePasses, store
<1> QED
  BY <1>1, <1>2, <1>3, <1>4, <1>5 DEF Abstract!Next

\* The service keeps the promise the workflow engine is built on: a job is
\* created once, settles once, and is acknowledged only once it has settled.
THEOREM Refinement == Spec => ImplementsJobOutcome
PROOF
<1>1. Init => Abstract!Init
  BY OutcomeInit
<1>2. EvidenceInv /\ [Next]_vars => [Abstract!Next]_<<Outcome, consumed>>
  BY OutcomeStep
<1> QED
  BY <1>1, <1>2, EvidenceInvariant, PTL DEF Spec, ImplementsJobOutcome, Abstract!Spec

---------------------------------------------------------------------------
\* Where settled outcomes come from.

\* Attempt n of job j has recorded the state of the row, and nobody is left
\* who may record something else.
Recorded(j, n) ==
    /\ attempts[j][n].state = row[j].state
    /\ \A a \in Actors :
         op[a].job = j /\ op[a].attempt = n => pc[a] \notin {"remote", "finish"}

\* The strengthening of SettledIsAccountedFor that every step preserves.
SettledInv ==
    \A j \in Jobs :
      row[j].state \in Terminal =>
        /\ \/ row[j].state = "timed_out" /\ j \in overdue
           \/ \E n \in 1..Len(attempts[j]) : Recorded(j, n)
        /\ row[j].state = "succeeded" => row[j].out # None /\ row[j].raw # 0

\* A finished attempt stays finished: an operation enters its provider call
\* under a new number.
LEMMA FinishedStays ==
    ASSUME EvidenceInv, [Next]_vars, NEW b \in Actors, pc'[b] \in {"remote", "finish"},
           NEW n \in 1..Len(attempts[op'[b].job]), op'[b].attempt = n
    PROVE  pc[b] \in {"remote", "finish"} /\ op[b].attempt = n /\ op[b].job = op'[b].job
PROOF
<1> USE DEF EvidenceInv
<1>1. \A a \in Actors : Return(a) => a = b \/ (pc'[b] = pc[b] /\ op'[b] = op[b])
  BY DEF Return, Goto, TypeOK
<1>2. \A a \in Actors : ~ (Return(a) /\ a = b)
  BY DEF Return, Goto, TypeOK
<1>3. ASSUME NEW a \in Actors, NEW j, NEW step \in {"start", "expire", "consume"}, NEW kind,
             NEW seen, NEW v, Begin(a, step, kind, j, seen, v)
      PROVE  pc'[b] = pc[b] /\ op'[b] = op[b]
  BY <1>3 DEF Begin, Goto, TypeOK
<1>4. ASSUME NEW a \in Actors, NEW j \in Jobs, Submit(a, j) \/ Refresh(a, j) \/ PeekTerminal(a, j)
      PROVE  pc'[b] = pc[b] /\ op'[b] = op[b]
  BY <1>3, <1>4 DEF Submit, Refresh, PeekTerminal
<1>5. ASSUME NEW a \in Actors, NEW j \in Jobs, NEW r \in Replies, ApplyCallback(a, j, r)
      PROVE  pc'[b] = pc[b] /\ op'[b] = op[b]
  BY <1>3, <1>5 DEF ApplyCallback
<1>6. ASSUME NEW a \in Actors, Expire(a) \/ Write(a) \/ MarkConsumed(a) \/ Abandon(a)
      PROVE  pc'[b] = pc[b] /\ op'[b] = op[b]
  BY <1>1, <1>2, <1>6 DEF Expire, Write, MarkConsumed, Abandon
<1>7. ASSUME NEW a \in Actors, FinishAttempt(a)
      PROVE  pc'[b] = pc[b] /\ op'[b] = op[b]
  <2>1. CASE Return(a)
    BY <1>1, <1>2, <2>1
  <2>2. CASE Goto(a, "write") /\ op' = op
    BY <2>2 DEF Goto, TypeOK
  <2> QED
    BY <1>7, <2>1, <2>2 DEF FinishAttempt
<1>8. ASSUME NEW a \in Actors, Answer(a)
      PROVE  /\ pc[b] \in {"remote", "finish"}
             /\ op'[b].attempt = op[b].attempt /\ op'[b].job = op[b].job
  BY <1>8 DEF Answer, Goto, TypeOK, Operation
<1>9. ASSUME NEW a \in Actors, StartAttempt(a)
      PROVE  pc'[b] = pc[b] /\ op'[b] = op[b]
  <2>1. a = b => op'[b].attempt = Len(attempts[op'[b].job]) + 1
    BY <1>9 DEF StartAttempt, TypeOK, Operation
  <2>2. op[b].job \in Jobs /\ op'[b].job = op[b].job
    BY <1>9 DEF StartAttempt, TypeOK, Operation
  <2>3. Len(attempts[op'[b].job]) \in Nat
    BY <2>2 DEF TypeOK
  <2>4. a # b
    BY <2>1, <2>3
  <2> QED
    BY <1>9, <2>4 DEF StartAttempt, Goto
<1>10. (UNCHANGED vars \/ \E j \in Jobs : DeadlinePasses(j)) => pc' = pc /\ op' = op
  BY DEF vars, DeadlinePasses
<1> QED
  BY <1>4, <1>5, <1>6, <1>7, <1>8, <1>9, <1>10 DEF Next

\* A recorded state stays recorded while the row keeps it.
LEMMA RecordedStays ==
    ASSUME EvidenceInv, [Next]_vars, NEW j \in Jobs, NEW n \in 1..Len(attempts[j]),
           Recorded(j, n), row'[j].state = row[j].state
    PROVE  n \in 1..Len(attempts'[j]) /\ Recorded(j, n)'
PROOF
<1>1. \A a \in Actors : ~ (op[a].job = j /\ op[a].attempt = n /\ FinishAttempt(a))
  BY DEF Recorded, FinishAttempt
<1>2. n \in 1..Len(attempts'[j]) /\ attempts'[j][n] = attempts[j][n]
  BY <1>1, RecordChanges DEF EvidenceInv
<1>3. \A a \in Actors : op'[a].job = j /\ op'[a].attempt = n => pc'[a] \notin {"remote", "finish"}
  BY FinishedStays DEF Recorded
<1> QED
  BY <1>2, <1>3 DEF Recorded

\* A row that a step settles is accounted for by that step's own attempt, or
\* by the deadline.
LEMMA SettlingIsRecorded ==
    ASSUME EvidenceInv, EvidenceInv', NEW a \in Actors, Expire(a) \/ Write(a),
           NEW j \in Jobs, op[a].job = j, row'[j] # row[j], row'[j].state \in Terminal
    PROVE  /\ \/ row'[j].state = "timed_out" /\ j \in overdue'
              \/ \E n \in 1..Len(attempts'[j]) : Recorded(j, n)'
           /\ row'[j].state = "succeeded" => row'[j].out # None /\ row'[j].raw # 0
PROOF
<1> DEFINE v == op[a].verdict
<1>1. v \in Verdict /\ row[j] \in Row /\ row \in [Jobs -> Row]
  BY DEF EvidenceInv, TypeOK, Operation
<1>2. CASE Expire(a)
  <2>1. row'[j].state = "timed_out" /\ overdue' = overdue /\ j \in overdue
    BY <1>1, <1>2 DEF Expire, ApplySnapshot, Applying, EvidenceInv, OperationInv
  <2> QED
    BY <2>1
<1>3. CASE Write(a)
  <2>1. PICK n \in 1..Len(attempts[j]) : n = op[a].attempt
    BY <1>3 DEF Write, EvidenceInv, OperationInv, Owning
  <2>2. n # 0 /\ attempts[j][n].state = v.state /\ attempts' = attempts
    BY <1>3, <2>1 DEF Write, EvidenceInv, OperationInv, WriterInv, Owning
  <2>3. ~ MarkSubmitted(j, v) \/ v.how # "mark"
    <3>1. v.how = "mark" => v.state \in OpenStates
      BY DEF EvidenceInv, WriterInv, SoundVerdict
    <3>2. MarkSubmitted(j, v) => row'[j] = row[j] \/ row'[j].state = v.state
      BY <1>1 DEF MarkSubmitted, Row
    <3> QED
      BY <3>1, <3>2 DEF OpenStates, Terminal
  <2>4. v.how = "apply" /\ ApplySnapshot(j, v, IF v.archived THEN n ELSE 0)
    BY <1>3, <2>1, <2>3 DEF Write
  <2>5. /\ row'[j].state = v.state /\ row'[j].out = v.out
        /\ row'[j].raw = (IF v.archived THEN n ELSE 0)
    BY <1>1, <2>4 DEF ApplySnapshot
  <2>6. row'[j].state = "succeeded" => row'[j].out # None /\ row'[j].raw # 0
    BY <2>2, <2>4, <2>5 DEF EvidenceInv, WriterInv, SoundVerdict
  <2>7. ASSUME NEW b \in Actors, op'[b].job = j, op'[b].attempt = n
        PROVE  pc'[b] \notin {"remote", "finish"}
    <3>1. b # a => op'[b] = op[b]
      BY <1>3 DEF Write, Return, EvidenceInv, TypeOK
    <3>2. pc'[a] = "idle"
      BY <1>3 DEF Write, Return, Goto, EvidenceInv, TypeOK
    <3>3. b = a
      BY <2>1, <2>2, <2>7, <3>1 DEF EvidenceInv, AttemptHasOneOwner
    <3> QED
      BY <3>2, <3>3
  <2>8. Recorded(j, n)'
    BY <2>2, <2>5, <2>7 DEF Recorded
  <2> QED
    BY <2>2, <2>6, <2>8
<1> QED
  BY <1>2, <1>3

\* Every step keeps every settled outcome accounted for.
LEMMA SettledStep == EvidenceInv /\ SettledInv /\ [Next]_vars => SettledInv'
PROOF
<1> SUFFICES ASSUME EvidenceInv, SettledInv, [Next]_vars, NEW j \in Jobs, row'[j].state \in Terminal
             PROVE  /\ \/ row'[j].state = "timed_out" /\ j \in overdue'
                       \/ \E n \in 1..Len(attempts'[j]) : Recorded(j, n)'
                    /\ row'[j].state = "succeeded" => row'[j].out # None /\ row'[j].raw # 0
  BY DEF SettledInv
<1>1. overdue \subseteq overdue'
  BY DEF Next, vars, Submit, Refresh, PeekTerminal, ApplyCallback, Expire, StartAttempt, Answer,
         FinishAttempt, Write, MarkConsumed, Abandon, DeadlinePasses, store
<1>2. CASE row'[j] = row[j]
  <2>1. \A n \in 1..Len(attempts[j]) : Recorded(j, n) => n \in 1..Len(attempts'[j]) /\ Recorded(j, n)'
    BY <1>2, RecordedStays
  <2> QED
    BY <1>1, <1>2, <2>1 DEF SettledInv
<1>3. CASE \E a \in Actors : op[a].job = j /\ (Expire(a) \/ Write(a)) /\ row'[j] # row[j]
  BY <1>3, SettlingIsRecorded, EvidenceInductive
<1> QED
  BY <1>2, <1>3, RowChanges DEF EvidenceInv

\* Every settled outcome has its deadline or its attempt, and every success
\* its normalized output and its archived response.
THEOREM SettlementHolds == Spec => []SettledIsAccountedFor
PROOF
<1>1. Init => SettledInv
  BY DEF Init, SettledInv, NewRow, Terminal
<1>2. EvidenceInv /\ SettledInv /\ [Next]_vars => SettledInv'
  BY SettledStep
<1>3. EvidenceInv /\ SettledInv => SettledIsAccountedFor
  <2>1. EvidenceInv => \A j \in Jobs : DOMAIN attempts[j] = 1..Len(attempts[j])
    BY DEF EvidenceInv, TypeOK
  <2> QED
    BY <2>1 DEF SettledInv, SettledIsAccountedFor, Recorded
<1> QED
  BY <1>1, <1>2, <1>3, EvidenceInvariant, PTL DEF Spec
===========================================================================
