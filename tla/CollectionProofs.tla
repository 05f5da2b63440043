-------------------------- MODULE CollectionProofs --------------------------
(***************************************************************************)
(* Proofs about the life of a project, for any number of visits, book      *)
(* runs, plan items and concurrent requests.                               *)
(***************************************************************************)
EXTENDS Collection, FiniteSetTheorems, TLAPS

Creating == {"number", "insert"}

\* A request works on a visit of its own until it is inserted, and afterwards
\* on one that exists; it holds the lock at the steps that need it.
RequestInv ==
    /\ \A c \in Clients :
         /\ step[c] \in LockingSteps <=> lock = c
         /\ step[c] \in Creating => about[c] \in Visits \ Existing /\ local[c] \in Content
         /\ step[c] \in SubmitSteps \cup {"load", "write", "retry", "requeue"} => about[c] \in Existing
         /\ step[c] \in {"load", "write"} => local[c] \in Content
    /\ \A c, d \in Clients :
         step[c] \in Creating /\ step[d] \in Creating /\ about[c] = about[d] => c = d

\* What a visit shows against what has been done for it.
VisitInv ==
    \A v \in Visits :
      /\ visit[v] # "none" => content[v] \in Content
      /\ run[v] # "none" => visit[v] \notin {"none", "draft"}
      /\ visit[v] \notin {"none", "draft"} => v \in submitted
      /\ inputs[v] # {} \/ seen[v] # None \/ v \in analysed => run[v] # "none"
      /\ seen[v] # None => seen[v] = content[v].notes

\* Until a submission has started its run, nobody else works on its visit.
SubmitInv ==
    \A c \in Clients :
      /\ step[c] \in {"create", "revert"} =>
           /\ visit[about[c]] = "submitted"
           /\ run[about[c]] = "none"
           /\ \A d \in Clients : step[d] \in SubmitSteps /\ about[d] = about[c] => d = c
      /\ step[c] = "attach" => run[about[c]] # "none"

\* The number that a request has read under the lock is still the next one.
NumberInv ==
    /\ VisitsAreNumbered
    /\ \A c \in Clients : step[c] = "insert" => number[c] = Cardinality(Existing) + 1

\* A request that passes the gate still meets what it found there.
FinalizeInv ==
    \A c \in Clients :
      /\ step[c] \in {"gate", "produce"} => \A b \in BookRuns : run[b] # "queued"
      /\ step[c] = "produce" => Existing \subseteq submitted

\* A version that has been read is the next one or one that was saved since.
VersionInv ==
    /\ VersionsAreDense
    /\ \A a \in artifacts :
         rendering[a.run].step = "saved" /\ rendering[a.run].version = a.version
    /\ \A a, e \in artifacts : a.version = e.version => a = e
    /\ \A b \in BookRuns :
         LET r == rendering[b] IN
         /\ r.step \in {"put", "save"} => r.version \in 1..(Cardinality(artifacts) + 1)
         /\ r.step = "save" => objects[r.version] # None
         /\ r.step = "saved" => [run |-> b, version |-> r.version] \in artifacts

\* A run whose PDF is at the key of a version that another has saved has a
\* later version, or has yet to save one.
ObjectInv ==
    /\ \A k \in Versions : objects[k] # None =>
         LET d == objects[k] IN
         /\ run[d] # "none"
         /\ k <= Cardinality(artifacts) + 1
         /\ rendering[d].step = "saved" =>
              /\ k <= Cardinality(artifacts)
              /\ [run |-> d, version |-> k] \in artifacts \/ rendering[d].version > k
    /\ \A b \in BookRuns : run[b] = "succeeded" => rendering[b].step = "saved"

CollectionInv ==
    /\ TypeOK
    /\ RequestInv
    /\ VisitInv
    /\ SubmitInv
    /\ NumberInv
    /\ FinalizeInv
    /\ VersionInv
    /\ ObjectInv
    /\ AnalysedAsRecorded
    /\ ProcessingHasRun
    /\ NeedsMaterialHasGap
    /\ AnalysedIsKept

---------------------------------------------------------------------------
\* The largest of 0 and the numbers 1 to n (MAX(sequence), MAX(version)) is n.
LEMMA MaxOfInterval ==
    ASSUME NEW n \in Nat
    PROVE  Max({0} \cup 1..n) = n
PROOF
<1>1. n \in {0} \cup 1..n /\ \A m \in {0} \cup 1..n : n >= m
  OBVIOUS
<1> QED
  BY <1>1 DEF Max

\* The visits are finitely many, and the number that is read is one more.
LEMMA NextNumber ==
    ASSUME VisitsAreNumbered
    PROVE  /\ IsFiniteSet(Existing)
           /\ Cardinality(Existing) \in Nat
           /\ NextSequence = Cardinality(Existing) + 1
PROOF
<1>1. IsFiniteSet(Existing) /\ Cardinality(Existing) \in Nat
  BY RecordsAssumption, FS_Subset, FS_CardinalityType DEF Existing
<1> QED
  BY <1>1, MaxOfInterval DEF VisitsAreNumbered, NextSequence

\* The artifacts are finitely many, no more than the renderings that have
\* ended, and the version that is read is one more.
LEMMA NextVersionIsFree ==
    ASSUME ArtifactsTypeOK, VersionInv
    PROVE  /\ IsFiniteSet(artifacts)
           /\ Cardinality(artifacts) \in Nat
           /\ LatestVersion = Cardinality(artifacts)
           /\ \A b \in BookRuns : rendering[b].step # "saved" =>
                Cardinality(artifacts) + 1 \in Versions
PROOF
<1> DEFINE Saved == {b \in BookRuns : rendering[b].step = "saved"}
           f == [a \in artifacts |-> a.run]
<1>1. IsFiniteSet(Saved)
  BY RecordsAssumption, FS_Subset
<1>2. f \in Injection(artifacts, Saved)
  <2>1. \A a \in artifacts : a.run \in BookRuns
    BY DEF ArtifactsTypeOK
  <2>2. \A a \in artifacts : rendering[a.run].step = "saved" /\ rendering[a.run].version = a.version
    BY DEF VersionInv
  <2>3. \A a, e \in artifacts : f[a] = f[e] => a = e
    BY <2>2 DEF VersionInv
  <2> QED
    BY <2>1, <2>2, <2>3 DEF Injection, IsInjective
<1>3. IsFiniteSet(artifacts) /\ Cardinality(artifacts) <= Cardinality(Saved)
  BY <1>1, <1>2, FS_Injection
<1>4. Cardinality(artifacts) \in Nat
  BY <1>3, FS_CardinalityType
<1>5. LatestVersion = Cardinality(artifacts)
  BY <1>4, MaxOfInterval DEF LatestVersion, VersionInv, VersionsAreDense
<1>6. ASSUME NEW b \in BookRuns, rendering[b].step # "saved"
      PROVE  Cardinality(artifacts) + 1 \in Versions
  <2>1. /\ IsFiniteSet(BookRuns \ {b})
        /\ Cardinality(BookRuns \ {b}) = Cardinality(BookRuns) - 1
        /\ Cardinality(BookRuns) \in Nat
    BY RecordsAssumption, FS_RemoveElement, FS_CardinalityType
  <2>2. Saved \in SUBSET (BookRuns \ {b})
    BY <1>6
  <2>3. Cardinality(Saved) <= Cardinality(BookRuns) - 1 /\ Cardinality(Saved) \in Nat
    BY <1>1, <2>1, <2>2, FS_Subset, FS_CardinalityType
  <2> QED
    BY <1>3, <1>4, <2>1, <2>3 DEF Versions
<1> QED
  BY <1>3, <1>4, <1>5, <1>6

---------------------------------------------------------------------------
\* A new project satisfies the inductive invariant.
LEMMA InvInit == Init => CollectionInv
PROOF
<1> SUFFICES ASSUME Init PROVE CollectionInv
  OBVIOUS
<1> USE RecordsAssumption DEF Init, RecordsInit, ArtifactsInit, Idle
<1>1. TypeOK
  BY DEF TypeOK, RecordsTypeOK, ArtifactsTypeOK, ProjectState, ItemStatus, VisitState, RunState,
         Steps, Runs
<1>2. RequestInv /\ VisitInv /\ SubmitInv /\ FinalizeInv
  BY DEF RequestInv, VisitInv, SubmitInv, FinalizeInv, Creating, LockingSteps, SubmitSteps, Runs
<1>3. Existing = {} /\ Cardinality(Existing) = 0 /\ Cardinality(artifacts) = 0
  BY FS_EmptySet DEF Existing
<1>4. NumberInv
  BY <1>3 DEF NumberInv, VisitsAreNumbered
<1>5. VersionInv /\ ObjectInv
  BY <1>3 DEF VersionInv, VersionsAreDense, ObjectInv, Runs
<1>6. AnalysedAsRecorded /\ ProcessingHasRun /\ NeedsMaterialHasGap /\ AnalysedIsKept
  BY DEF AnalysedAsRecorded, ProcessingHasRun, NeedsMaterialHasGap, AnalysedIsKept
<1> QED
  BY <1>1, <1>2, <1>4, <1>5, <1>6 DEF CollectionInv

---------------------------------------------------------------------------
\* A request changes the bookkeeping of requests within its type.
LEMMA RequestTypes ==
    ASSUME TypeOK, RequestInv, VisitInv, NumberInv, NEW c \in Clients, Serve(c)
    PROVE  /\ step' \in [Clients -> Steps]
           /\ about' \in [Clients -> Visits \cup {None}]
           /\ local' \in [Clients -> Content \cup {None}]
           /\ number' \in [Clients -> Nat]
PROOF
<1> DEFINE T == /\ step' \in [Clients -> Steps]
                /\ about' \in [Clients -> Visits \cup {None}]
                /\ local' \in [Clients -> Content \cup {None}]
                /\ number' \in [Clients -> Nat]
<1> USE DEF TypeOK, Steps, LockingSteps, SubmitSteps, requests
<1>1. CASE Leave(c)
  BY <1>1 DEF Leave
<1>2. ASSUME NEW s \in Steps, Proceed(c, s) PROVE T
  BY <1>2 DEF Proceed
<1>3. ASSUME NEW s \in Steps, NEW v \in Visits \cup {None}, NEW recorded \in Content \cup {None},
             Enter(c, s, v, recorded)
      PROVE  T
  BY <1>3 DEF Enter
<1>4. CASE AddVisit(c) \/ WriteEdit(c) \/ Revert(c) \/ Attach(c) \/ Requeue(c) \/ Stop(c)
  BY <1>1, <1>4 DEF AddVisit, WriteEdit, Revert, Attach, Requeue, Stop
<1>5. CASE StartAnalysis(c) \/ PickNode(c) \/ Finalize(c) \/ FinalizeGate(c)
  BY <1>1, <1>2, <1>3, <1>5 DEF StartAnalysis, PickNode, Finalize, FinalizeGate
<1>6. CASE NumberVisit(c)
  BY <1>6, NextNumber DEF NumberVisit, NumberInv
<1>7. CASE ConfirmConsent(c) \/ \E b \in BookRuns : Start(c, b) \/ Produce(c, b)
  BY <1>1, <1>7 DEF ConfirmConsent, Start, Produce
<1>8. CASE \E recorded \in Content : LoadPlanItems(c, recorded)
  BY <1>8 DEF LoadPlanItems
<1>9. CASE \E recorded \in Content, v \in Visits : CreateVisit(c, v, recorded)
  BY <1>3, <1>9 DEF CreateVisit
<1>10. ASSUME NEW v \in Visits, Edit(c, v) PROVE T
  <2>1. [notes |-> content[v].notes, plan |-> {}] \in Content
    BY <1>10 DEF Edit, VisitInv, Content
  <2> QED
    BY <1>3, <1>10, <2>1 DEF Edit
<1>11. CASE \E v \in Visits : Submit(c, v) \/ Retry(c, v)
  BY <1>3, <1>11 DEF Submit, Retry
<1> QED
  BY <1>4, <1>5, <1>6, <1>7, <1>8, <1>9, <1>10, <1>11 DEF Serve

\* A transaction on the rows keeps them in their types.
LEMMA RecordTypes ==
    ASSUME TypeOK, RequestInv, NumberInv, Next
    PROVE  RecordsTypeOK' /\ submitted' \subseteq Visits /\ doubled' \subseteq Visits
PROOF
<1> DEFINE T == RecordsTypeOK' /\ submitted' \subseteq Visits /\ doubled' \subseteq Visits
<1> USE RecordsAssumption
        DEF TypeOK, RecordsTypeOK, Runs, ProjectState, ItemStatus, VisitState, RunState,
            records, visitRows, requests, analysis, KeyShare, SetProject, SetProjectOf, SetVisit, SetRun,
            SetContent, LockProject, Unlock
<1>1. ASSUME NEW c \in Clients, ConfirmConsent(c) \/ NumberVisit(c) \/ Finalize(c)
                                \/ FinalizeGate(c) \/ Stop(c)
      PROVE  T
  BY <1>1 DEF ConfirmConsent, UpsertConsent, NumberVisit, Finalize, FinalizeGate, Stop
<1>2. ASSUME NEW c \in Clients, AddVisit(c) PROVE T
  BY <1>2 DEF AddVisit, InsertVisit, RequestInv, Creating
<1>3. ASSUME NEW c \in Clients, WriteEdit(c) PROVE T
  BY <1>3 DEF WriteEdit, UpdateVisit, RequestInv
<1>4. ASSUME NEW c \in Clients, StartAnalysis(c) \/ Revert(c) \/ Attach(c)
                                \/ PickNode(c) \/ Requeue(c)
      PROVE  T
  <2>1. about[c] \in Visits
    BY <1>4 DEF RequestInv, Existing, SubmitSteps, StartAnalysis, Revert, Attach, PickNode, Requeue
  <2>2. CASE StartAnalysis(c) \/ Revert(c) \/ Attach(c)
    BY <2>1, <2>2 DEF StartAnalysis, InsertRun, Revert, RevertSubmit, Attach, AttachRun
  <2>3. CASE PickNode(c) \/ Requeue(c)
    BY <2>1, <2>3 DEF PickNode, Requeue, RequeueRun
  <2> QED
    BY <1>4, <2>2, <2>3
<1>5. ASSUME NEW c \in Clients, NEW recorded \in Content,
             \/ LoadPlanItems(c, recorded)
             \/ \E v \in Visits : CreateVisit(c, v, recorded)
      PROVE  T
  BY <1>5 DEF LoadPlanItems, CreateVisit
<1>6. ASSUME NEW c \in Clients, NEW v \in Visits, Edit(c, v) \/ Submit(c, v) \/ Retry(c, v)
      PROVE  T
  BY <1>6 DEF Edit, Submit, PrepareSubmit, Retry
<1>7. ASSUME NEW c \in Clients, NEW b \in BookRuns, Start(c, b) \/ Produce(c, b) PROVE T
  BY <1>7 DEF Start, InsertRun, Produce, InsertBookRun
<1>8. ASSUME NEW v \in Visits, ReadNotes(v) \/ ReadPlan(v) \/ FailAnalysis(v) \/ SucceedAnalysis(v)
      PROVE  T
  BY <1>8 DEF ReadNotes, ReadPlan, FailAnalysis, FailRun, SucceedAnalysis, SucceedRun
<1>9. ASSUME NEW v \in Visits, StoreAnalysis(v) PROVE T
  BY <1>9 DEF StoreAnalysis, Persist
<1>10. ASSUME NEW b \in BookRuns, Render(b) \/ FailBook(b) \/ SucceedBook(b) PROVE T
  BY <1>10 DEF Render, FailBook, FailRun, SucceedBook, SucceedRun
<1>11. ASSUME NEW r \in Runs, Claim(r) PROVE T
  BY <1>11 DEF Claim, ClaimRun
<1>12. CASE Work
  BY <1>8, <1>9, <1>10, <1>11, <1>12 DEF Work
<1>13. CASE \E c \in Clients : Serve(c)
  BY <1>1, <1>2, <1>3, <1>4, <1>5, <1>6, <1>7, <1>13 DEF Serve
<1> QED
  BY <1>12, <1>13 DEF Next

---------------------------------------------------------------------------
\* Visits are added by the requests that create them, and never removed.
LEMMA ExistingStep ==
    ASSUME TypeOK, RequestInv, VisitInv, Next
    PROVE  \/ Existing' = Existing /\ sequence' = sequence /\ submitted \subseteq submitted'
           \/ \E c \in Clients : AddVisit(c)
PROOF
<1> DEFINE T == Existing' = Existing /\ sequence' = sequence /\ submitted \subseteq submitted'
<1> USE RecordsAssumption
        DEF TypeOK, RecordsTypeOK, Runs, records, visitRows, requests, analysis, Existing, SetVisit, SetRun
<1>1. ASSUME NEW c \in Clients, ConfirmConsent(c) \/ NumberVisit(c) \/ WriteEdit(c) \/ Finalize(c)
                                \/ FinalizeGate(c) \/ Stop(c)
      PROVE  T
  BY <1>1 DEF ConfirmConsent, UpsertConsent, NumberVisit, WriteEdit, UpdateVisit, Finalize,
              FinalizeGate, Stop
<1>2. ASSUME NEW c \in Clients, StartAnalysis(c) \/ Revert(c) \/ Attach(c) PROVE T
  BY <1>2 DEF StartAnalysis, InsertRun, Revert, RevertSubmit, Attach, AttachRun, RequestInv,
              SubmitSteps
<1>3. ASSUME NEW c \in Clients, PickNode(c) \/ Requeue(c) PROVE T
  BY <1>3 DEF PickNode, Requeue, RequeueRun, RequestInv
<1>4. ASSUME NEW c \in Clients, NEW recorded \in Content,
             \/ LoadPlanItems(c, recorded)
             \/ \E v \in Visits : CreateVisit(c, v, recorded)
      PROVE  T
  BY <1>4 DEF LoadPlanItems, CreateVisit
<1>5. ASSUME NEW c \in Clients, NEW v \in Visits, Edit(c, v) \/ Submit(c, v) \/ Retry(c, v)
      PROVE  T
  BY <1>5 DEF Edit, Submit, PrepareSubmit, Retry
<1>6. ASSUME NEW c \in Clients, NEW b \in BookRuns, Start(c, b) \/ Produce(c, b) PROVE T
  BY <1>6 DEF Start, InsertRun, Produce, InsertBookRun
<1>7. ASSUME NEW v \in Visits, ReadNotes(v) \/ ReadPlan(v) \/ FailAnalysis(v) \/ StoreAnalysis(v)
                               \/ SucceedAnalysis(v)
      PROVE  T
  BY <1>7 DEF ReadNotes, ReadPlan, FailAnalysis, FailRun, AtWork, VisitInv, StoreAnalysis,
              Persist, SucceedAnalysis, SucceedRun
<1>8. ASSUME NEW b \in BookRuns, Render(b) \/ FailBook(b) \/ SucceedBook(b) PROVE T
  BY <1>8 DEF Render, FailBook, FailRun, SucceedBook, SucceedRun
<1>9. ASSUME NEW r \in Runs, Claim(r) PROVE T
  BY <1>9 DEF Claim, ClaimRun
<1>10. CASE Work
  BY <1>7, <1>8, <1>9, <1>10 DEF Work
<1>11. ASSUME NEW c \in Clients, Serve(c), ~ AddVisit(c) PROVE T
  BY <1>1, <1>2, <1>3, <1>4, <1>5, <1>6, <1>11 DEF Serve
<1> QED
  BY <1>10, <1>11 DEF Next

\* Who works on which visit, and who holds the lock.
LEMMA RequestStep ==
    ASSUME TypeOK, RequestInv, VisitInv, Next
    PROVE  RequestInv'
PROOF
<1> DEFINE T == RequestInv'
<1> USE RecordsAssumption
        DEF TypeOK, RecordsTypeOK, Runs, Steps, LockingSteps, SubmitSteps, Creating, records, visitRows,
            requests, analysis, LockProject, Unlock, KeyShare, SetProject, SetProjectOf, SetRun, SetVisit,
            Enter, Proceed, Leave, RequestInv
<1>1. ASSUME NEW c \in Clients, AddVisit(c) PROVE T
  <2>1. Existing' = Existing \cup {about[c]}
    BY <1>1 DEF AddVisit, InsertVisit, Existing
  <2> QED
    BY <1>1, <2>1 DEF AddVisit, InsertVisit
<1>2. ASSUME Existing' = Existing PROVE T
  <2>1. ASSUME NEW c \in Clients, ConfirmConsent(c) \/ NumberVisit(c) \/ WriteEdit(c) \/ Finalize(c)
                                  \/ FinalizeGate(c) \/ Stop(c)
        PROVE  T
    BY <1>2, <2>1 DEF ConfirmConsent, UpsertConsent, NumberVisit, WriteEdit, UpdateVisit, Finalize,
                      FinalizeGate, Stop
  <2>2. ASSUME NEW c \in Clients, StartAnalysis(c) \/ Revert(c) \/ Attach(c)
                                  \/ PickNode(c) \/ Requeue(c)
        PROVE  T
    BY <1>2, <2>2 DEF StartAnalysis, InsertRun, Revert, RevertSubmit, Attach, AttachRun,
                      PickNode, Requeue, RequeueRun
  <2>3. ASSUME NEW c \in Clients, NEW recorded \in Content,
               \/ LoadPlanItems(c, recorded)
               \/ \E v \in Visits : CreateVisit(c, v, recorded)
        PROVE  T
    BY <1>2, <2>3 DEF LoadPlanItems, CreateVisit
  <2>4. ASSUME NEW c \in Clients, NEW v \in Visits, Edit(c, v) PROVE T
    <3>1. v \in Existing /\ [notes |-> content[v].notes, plan |-> {}] \in Content
      BY <2>4 DEF Edit, VisitInv, Content, Existing
    <3> QED
      BY <1>2, <2>4, <3>1 DEF Edit
  <2>5. ASSUME NEW c \in Clients, NEW v \in Visits, Submit(c, v) \/ Retry(c, v) PROVE T
    <3>1. v \in Existing
      BY <2>5 DEF Submit, PrepareSubmit, Retry, Existing
    <3> QED
      BY <1>2, <2>5, <3>1 DEF Submit, PrepareSubmit, Retry
  <2>6. ASSUME NEW c \in Clients, NEW b \in BookRuns, Start(c, b) \/ Produce(c, b) PROVE T
    BY <1>2, <2>6 DEF Start, InsertRun, Produce, InsertBookRun
  <2>7. ASSUME NEW v \in Visits, ReadNotes(v) \/ ReadPlan(v) \/ FailAnalysis(v) \/ StoreAnalysis(v)
                                 \/ SucceedAnalysis(v)
        PROVE  T
    BY <1>2, <2>7 DEF ReadNotes, ReadPlan, FailAnalysis, FailRun, StoreAnalysis, Persist,
                      SucceedAnalysis, SucceedRun
  <2>8. ASSUME NEW b \in BookRuns, Render(b) \/ FailBook(b) \/ SucceedBook(b)
        PROVE  T
    BY <1>2, <2>8 DEF Render, FailBook, FailRun, SucceedBook, SucceedRun
  <2>9. ASSUME NEW r \in Runs, Claim(r) PROVE T
    BY <1>2, <2>9 DEF Claim, ClaimRun
  <2>10. CASE Work
    BY <2>7, <2>8, <2>9, <2>10 DEF Work
  <2>11. ASSUME NEW c \in Clients, Serve(c) PROVE T
    BY <1>1, <2>1, <2>2, <2>3, <2>4, <2>5, <2>6, <2>11 DEF Serve
  <2> QED
    BY <2>10, <2>11 DEF Next
<1> QED
  BY <1>1, <1>2, ExistingStep

---------------------------------------------------------------------------
\* What is given to an analysis stays what the visit says.
LEMMA VisitStep ==
    ASSUME TypeOK, RequestInv, VisitInv, SubmitInv, AnalysedAsRecorded, Next
    PROVE  VisitInv' /\ AnalysedAsRecorded'
PROOF
<1> DEFINE T == VisitInv' /\ AnalysedAsRecorded'
<1> USE RecordsAssumption
        DEF TypeOK, RecordsTypeOK, Runs, records, visitRows, requests, analysis, SetRun, SetVisit,
            SetContent, VisitInv, AnalysedAsRecorded
<1>1. ASSUME NEW c \in Clients, ConfirmConsent(c) \/ NumberVisit(c) \/ Finalize(c)
                                \/ FinalizeGate(c) \/ Stop(c)
      PROVE  T
  BY <1>1 DEF ConfirmConsent, UpsertConsent, NumberVisit, Finalize, FinalizeGate, Stop
<1>2. ASSUME NEW c \in Clients, AddVisit(c) PROVE T
  BY <1>2 DEF AddVisit, InsertVisit, RequestInv, Creating, Existing
<1>3. ASSUME NEW c \in Clients, WriteEdit(c) PROVE T
  BY <1>3 DEF WriteEdit, UpdateVisit, RequestInv, Existing
<1>4. ASSUME NEW c \in Clients, StartAnalysis(c) \/ Revert(c) \/ Attach(c) PROVE T
  BY <1>4 DEF StartAnalysis, InsertRun, Revert, RevertSubmit, Attach, AttachRun, RequestInv,
              SubmitInv, SubmitSteps, Existing
<1>5. ASSUME NEW c \in Clients, PickNode(c) \/ Requeue(c) PROVE T
  BY <1>5 DEF PickNode, Requeue, RequeueRun
<1>6. ASSUME NEW c \in Clients, NEW recorded \in Content,
             \/ LoadPlanItems(c, recorded)
             \/ \E v \in Visits : CreateVisit(c, v, recorded)
      PROVE  T
  BY <1>6 DEF LoadPlanItems, CreateVisit
<1>7. ASSUME NEW c \in Clients, NEW v \in Visits, Edit(c, v) \/ Submit(c, v) \/ Retry(c, v)
      PROVE  T
  BY <1>7 DEF Edit, Submit, PrepareSubmit, Retry
<1>8. ASSUME NEW c \in Clients, NEW b \in BookRuns, Start(c, b) \/ Produce(c, b) PROVE T
  BY <1>8 DEF Start, InsertRun, Produce, InsertBookRun
<1>9. ASSUME NEW v \in Visits, ReadNotes(v) PROVE T
  BY <1>9 DEF ReadNotes, AtWork
<1>10. ASSUME NEW v \in Visits, ReadPlan(v) PROVE T
  <2>1. content[v] = [notes |-> seen[v], plan |-> content[v].plan]
    BY <1>10 DEF ReadPlan, Content
  <2> QED
    BY <1>10, <2>1 DEF ReadPlan
<1>11. ASSUME NEW v \in Visits, FailAnalysis(v) \/ StoreAnalysis(v) \/ SucceedAnalysis(v) PROVE T
  BY <1>11 DEF FailAnalysis, FailRun, AtWork, StoreAnalysis, Persist, SucceedAnalysis, SucceedRun
<1>12. ASSUME NEW b \in BookRuns, Render(b) \/ FailBook(b) \/ SucceedBook(b) PROVE T
  BY <1>12 DEF Render, FailBook, FailRun, SucceedBook, SucceedRun
<1>13. ASSUME NEW r \in Runs, Claim(r) PROVE T
  BY <1>13 DEF Claim, ClaimRun
<1>14. CASE Work
  BY <1>9, <1>10, <1>11, <1>12, <1>13, <1>14 DEF Work
<1>15. CASE \E c \in Clients : Serve(c)
  BY <1>1, <1>2, <1>3, <1>4, <1>5, <1>6, <1>7, <1>8, <1>15 DEF Serve
<1> QED
  BY <1>14, <1>15 DEF Next

\* While a visit is submitted, and no run has been started for it, nothing but
\* the request that submitted it changes that.
LEMMA SubmitStep ==
    ASSUME TypeOK, RequestInv, VisitInv, SubmitInv, Next
    PROVE  SubmitInv'
PROOF
<1> DEFINE T == SubmitInv'
<1> USE RecordsAssumption
        DEF TypeOK, RecordsTypeOK, Runs, Steps, LockingSteps, SubmitSteps, records, visitRows, requests,
            analysis, SetRun, SetVisit, Enter, Proceed, Leave, RequestInv, Existing, SubmitInv
<1>1. ASSUME NEW c \in Clients, ConfirmConsent(c) \/ NumberVisit(c) \/ WriteEdit(c) \/ Finalize(c)
                                \/ FinalizeGate(c) \/ Stop(c)
      PROVE  T
  BY <1>1 DEF ConfirmConsent, UpsertConsent, NumberVisit, WriteEdit, UpdateVisit, Finalize,
              FinalizeGate, Stop
<1>2. ASSUME NEW c \in Clients, AddVisit(c) PROVE T
  BY <1>2 DEF AddVisit, InsertVisit, Creating
<1>3. ASSUME NEW c \in Clients, StartAnalysis(c) PROVE T
  BY <1>3 DEF StartAnalysis, InsertRun
<1>4. ASSUME NEW c \in Clients, Revert(c) \/ Attach(c) PROVE T
  BY <1>4 DEF Revert, RevertSubmit, Attach, AttachRun
<1>5. ASSUME NEW c \in Clients, PickNode(c) \/ Requeue(c) PROVE T
  BY <1>5 DEF PickNode, Requeue, RequeueRun
<1>6. ASSUME NEW c \in Clients, NEW recorded \in Content,
             \/ LoadPlanItems(c, recorded)
             \/ \E v \in Visits : CreateVisit(c, v, recorded)
      PROVE  T
  BY <1>6 DEF LoadPlanItems, CreateVisit
<1>7. ASSUME NEW c \in Clients, NEW v \in Visits, Edit(c, v) \/ Retry(c, v) PROVE T
  BY <1>7 DEF Edit, Retry
<1>8. ASSUME NEW c \in Clients, NEW v \in Visits, Submit(c, v) PROVE T
  BY <1>8 DEF Submit, PrepareSubmit, VisitInv
<1>9. ASSUME NEW c \in Clients, NEW b \in BookRuns, Start(c, b) \/ Produce(c, b) PROVE T
  BY <1>9 DEF Start, InsertRun, Produce, InsertBookRun
<1>10. ASSUME NEW v \in Visits, ReadNotes(v) \/ ReadPlan(v) \/ FailAnalysis(v) PROVE T
  BY <1>10 DEF ReadNotes, ReadPlan, FailAnalysis, FailRun, AtWork
<1>11. ASSUME NEW v \in Visits, StoreAnalysis(v) PROVE T
  BY <1>11 DEF StoreAnalysis, Persist, AtWork
<1>12. ASSUME NEW v \in Visits, SucceedAnalysis(v) PROVE T
  BY <1>12 DEF SucceedAnalysis, SucceedRun, VisitInv
<1>13. ASSUME NEW b \in BookRuns, Render(b) \/ FailBook(b) \/ SucceedBook(b) PROVE T
  BY <1>13 DEF Render, FailBook, FailRun, SucceedBook, SucceedRun
<1>14. ASSUME NEW r \in Runs, Claim(r) PROVE T
  BY <1>14 DEF Claim, ClaimRun
<1>15. CASE Work
  BY <1>10, <1>11, <1>12, <1>13, <1>14, <1>15 DEF Work
<1>16. CASE \E c \in Clients : Serve(c)
  BY <1>1, <1>2, <1>3, <1>4, <1>5, <1>6, <1>7, <1>8, <1>9, <1>16 DEF Serve
<1> QED
  BY <1>15, <1>16 DEF Next

---------------------------------------------------------------------------
\* A stored analysis stays shown, and the state of the project agrees with its
\* items and its runs.
LEMMA ShownStep ==
    ASSUME TypeOK, RequestInv, VisitInv, AnalysedIsKept, ProcessingHasRun, NeedsMaterialHasGap, Next
    PROVE  AnalysedIsKept' /\ ProcessingHasRun' /\ NeedsMaterialHasGap'
PROOF
<1> DEFINE T == AnalysedIsKept' /\ ProcessingHasRun' /\ NeedsMaterialHasGap'
<1> USE RecordsAssumption
        DEF TypeOK, RecordsTypeOK, Runs, records, visitRows, requests, analysis, SetRun, SetVisit,
            SetProject, SetProjectOf, ActiveBook, AnalysedIsKept, ProcessingHasRun, NeedsMaterialHasGap
<1>1. ASSUME NEW c \in Clients, ConfirmConsent(c) \/ NumberVisit(c) \/ WriteEdit(c) \/ Finalize(c)
                                \/ FinalizeGate(c) \/ Stop(c)
      PROVE  T
  BY <1>1 DEF ConfirmConsent, UpsertConsent, NumberVisit, WriteEdit, UpdateVisit, Finalize,
              FinalizeGate, Stop
<1>2. ASSUME NEW c \in Clients, AddVisit(c) PROVE T
  BY <1>2 DEF AddVisit, InsertVisit, RequestInv, Creating, Existing
<1>3. ASSUME NEW c \in Clients, StartAnalysis(c) \/ Revert(c) \/ Attach(c) PROVE T
  BY <1>3 DEF StartAnalysis, InsertRun, Revert, RevertSubmit, Attach, AttachRun, RequestInv,
              SubmitSteps, Existing
<1>4. ASSUME NEW c \in Clients, PickNode(c) \/ Requeue(c) PROVE T
  BY <1>4 DEF PickNode, Requeue, RequeueRun, RequestInv, Existing
<1>5. ASSUME NEW c \in Clients, NEW recorded \in Content,
             \/ LoadPlanItems(c, recorded)
             \/ \E v \in Visits : CreateVisit(c, v, recorded)
      PROVE  T
  BY <1>5 DEF LoadPlanItems, CreateVisit
<1>6. ASSUME NEW c \in Clients, NEW v \in Visits, Edit(c, v) \/ Submit(c, v) \/ Retry(c, v)
      PROVE  T
  BY <1>6 DEF Edit, Submit, PrepareSubmit, Retry
<1>7. ASSUME NEW c \in Clients, NEW b \in BookRuns, Start(c, b) \/ Produce(c, b) PROVE T
  BY <1>7 DEF Start, InsertRun, Produce, InsertBookRun
<1>8. ASSUME NEW v \in Visits, ReadNotes(v) \/ ReadPlan(v) \/ FailAnalysis(v) PROVE T
  BY <1>8 DEF ReadNotes, ReadPlan, FailAnalysis, FailRun, AtWork
<1>9. ASSUME NEW v \in Visits, StoreAnalysis(v) PROVE T
  BY <1>9 DEF StoreAnalysis, Persist, Assessments
<1>10. ASSUME NEW v \in Visits, SucceedAnalysis(v) PROVE T
  BY <1>10 DEF SucceedAnalysis, SucceedRun
<1>11. ASSUME NEW b \in BookRuns, Render(b) \/ FailBook(b) \/ SucceedBook(b) PROVE T
  BY <1>11 DEF Render, FailBook, FailRun, SucceedBook, SucceedRun
<1>12. ASSUME NEW r \in Runs, Claim(r) PROVE T
  BY <1>12 DEF Claim, ClaimRun
<1>13. CASE Work
  BY <1>8, <1>9, <1>10, <1>11, <1>12, <1>13 DEF Work
<1>14. CASE \E c \in Clients : Serve(c)
  BY <1>1, <1>2, <1>3, <1>4, <1>5, <1>6, <1>7, <1>14 DEF Serve
<1> QED
  BY <1>13, <1>14 DEF Next

---------------------------------------------------------------------------
\* How a request gets to the steps it takes under the lock.
LEMMA LockingStep ==
    ASSUME TypeOK, Next, NEW c \in Clients
    PROVE  /\ step'[c] = "insert" =>
                NumberVisit(c) \/ (step[c] = "insert" /\ number'[c] = number[c])
           /\ step'[c] = "gate" => Finalize(c) \/ step[c] = "gate"
           /\ step'[c] = "produce" => FinalizeGate(c) \/ step[c] = "produce"
PROOF
<1> DEFINE T ==
      /\ step'[c] = "insert" =>
           NumberVisit(c) \/ (step[c] = "insert" /\ number'[c] = number[c])
      /\ step'[c] = "gate" => Finalize(c) \/ step[c] = "gate"
      /\ step'[c] = "produce" => FinalizeGate(c) \/ step[c] = "produce"
<1> USE DEF TypeOK, requests, Enter, Proceed, Leave
<1>1. ASSUME UNCHANGED requests PROVE T
  BY <1>1
<1>2. ASSUME Work PROVE UNCHANGED requests
  <2>1. ASSUME NEW v \in Visits, ReadNotes(v) \/ ReadPlan(v) \/ FailAnalysis(v) \/ StoreAnalysis(v)
                                 \/ SucceedAnalysis(v)
        PROVE  UNCHANGED requests
    BY <2>1 DEF ReadNotes, ReadPlan, FailAnalysis, StoreAnalysis, SucceedAnalysis
  <2>2. ASSUME NEW b \in BookRuns, Render(b) \/ FailBook(b) \/ SucceedBook(b)
        PROVE  UNCHANGED requests
    BY <2>2 DEF Render, FailBook, SucceedBook
  <2>3. ASSUME NEW r \in Runs, Claim(r) PROVE UNCHANGED requests
    BY <2>3 DEF Claim
  <2> QED
    BY <1>2, <2>1, <2>2, <2>3 DEF Work
<1>3. ASSUME NEW d \in Clients, Serve(d) PROVE T
  <2>1. CASE ConfirmConsent(d) \/ AddVisit(d) \/ WriteEdit(d) \/ Stop(d)
    BY <2>1 DEF ConfirmConsent, AddVisit, WriteEdit, Stop
  <2>2. CASE NumberVisit(d)
    BY <2>2 DEF NumberVisit
  <2>3. CASE Finalize(d)
    BY <2>3 DEF Finalize
  <2>4. CASE FinalizeGate(d)
    BY <2>4 DEF FinalizeGate
  <2>5. CASE StartAnalysis(d) \/ Revert(d) \/ Attach(d) \/ PickNode(d) \/ Requeue(d)
    BY <2>5 DEF StartAnalysis, Revert, Attach, PickNode, Requeue
  <2>6. ASSUME NEW recorded \in Content,
               \/ LoadPlanItems(d, recorded)
               \/ \E v \in Visits : CreateVisit(d, v, recorded)
        PROVE  T
    BY <2>6 DEF LoadPlanItems, CreateVisit
  <2>7. ASSUME NEW v \in Visits, Edit(d, v) \/ Submit(d, v) \/ Retry(d, v) PROVE T
    BY <2>7 DEF Edit, Submit, Retry
  <2>8. ASSUME NEW b \in BookRuns, Start(d, b) \/ Produce(d, b) PROVE T
    BY <2>8 DEF Start, Produce
  <2> QED
    BY <1>3, <2>1, <2>2, <2>3, <2>4, <2>5, <2>6, <2>7, <2>8 DEF Serve
<1> QED
  BY <1>1, <1>2, <1>3 DEF Next

---------------------------------------------------------------------------
\* Under the lock, the number that has been read stays the next one.
LEMMA NumberStep ==
    ASSUME TypeOK, RequestInv, VisitInv, NumberInv, Next
    PROVE  NumberInv'
PROOF
<1> USE DEF TypeOK, RecordsTypeOK
<1>1. ASSUME NEW c \in Clients, AddVisit(c) PROVE NumberInv'
  <2> DEFINE n == Cardinality(Existing)
  <2>1. /\ about[c] \in Visits \ Existing
        /\ number[c] = n + 1
        /\ step[c] = "insert"
    BY <1>1 DEF AddVisit, RequestInv, NumberInv, Creating
  <2>2. Existing' = Existing \cup {about[c]}
    BY <1>1, <2>1 DEF AddVisit, InsertVisit, Existing
  <2>3. n \in Nat /\ Cardinality(Existing') = n + 1
    BY <2>1, <2>2, NextNumber, FS_AddElement DEF NumberInv
  <2>4. /\ sequence'[about[c]] = n + 1
        /\ \A v \in Existing : sequence'[v] = sequence[v] /\ sequence[v] \in 1..n
    BY <1>1, <2>1 DEF AddVisit, InsertVisit, NumberInv, VisitsAreNumbered, Existing
  <2>5. {sequence'[v] : v \in Existing'} = 1..(n + 1)
    <3>1. {sequence'[v] : v \in Existing'} = {sequence[v] : v \in Existing} \cup {n + 1}
      BY <2>2, <2>4
    <3>2. {sequence[v] : v \in Existing} = 1..n
      BY DEF NumberInv, VisitsAreNumbered
    <3>3. 1..(n + 1) = (1..n) \cup {n + 1}
      BY <2>3
    <3> QED
      BY <3>1, <3>2, <3>3
  <2>6. \A v, w \in Existing' : sequence'[v] = sequence'[w] => v = w
    BY <2>2, <2>3, <2>4 DEF NumberInv, VisitsAreNumbered
  <2>7. \A d \in Clients : step'[d] # "insert"
    BY <1>1, <2>1, RecordsAssumption DEF AddVisit, Leave, RequestInv, LockingSteps
  <2> QED
    BY <2>3, <2>5, <2>6, <2>7 DEF NumberInv, VisitsAreNumbered
<1>2. ASSUME Existing' = Existing, sequence' = sequence PROVE NumberInv'
  <2>1. VisitsAreNumbered'
    BY <1>2 DEF NumberInv, VisitsAreNumbered
  <2>2. ASSUME NEW c \in Clients, NumberVisit(c) PROVE number'[c] = Cardinality(Existing) + 1
    BY <2>2, NextNumber DEF NumberVisit, NumberInv
  <2>3. ASSUME NEW c \in Clients, step'[c] = "insert"
        PROVE  number'[c] = Cardinality(Existing) + 1
    BY <2>2, <2>3, LockingStep DEF NumberInv
  <2> QED
    BY <1>2, <2>1, <2>3 DEF NumberInv
<1> QED
  BY <1>1, <1>2, ExistingStep

---------------------------------------------------------------------------
\* While a request finalizes, no run is queued and no visit is added.
LEMMA FinalizeStep ==
    ASSUME TypeOK, RequestInv, VisitInv, FinalizeInv, Next
    PROVE  FinalizeInv'
PROOF
<1> USE RecordsAssumption DEF TypeOK, RecordsTypeOK, Runs, records, SetRun, KeyShare, LockingSteps
<1>1. ASSUME NEW b \in BookRuns, run[b] # "queued", run'[b] = "queued"
      PROVE  lock = None \/ \E c \in Clients : step[c] = "produce" /\ step'[c] = "idle"
  <2> DEFINE T == lock = None \/ \E c \in Clients : step[c] = "produce" /\ step'[c] = "idle"
  <2>1. ASSUME NEW c \in Clients, ConfirmConsent(c) \/ NumberVisit(c) \/ AddVisit(c) \/ WriteEdit(c)
                                  \/ Finalize(c) \/ FinalizeGate(c) \/ Stop(c) \/ Revert(c) \/ Attach(c)
        PROVE  T
    BY <1>1, <2>1 DEF ConfirmConsent, UpsertConsent, NumberVisit, AddVisit, InsertVisit, WriteEdit,
                      UpdateVisit, Finalize, FinalizeGate, Stop, Revert, RevertSubmit, Attach, AttachRun
  <2>2. ASSUME NEW c \in Clients, StartAnalysis(c) PROVE T
    BY <1>1, <2>2 DEF StartAnalysis, InsertRun
  <2>3. ASSUME NEW c \in Clients, PickNode(c) \/ Requeue(c) PROVE T
    BY <1>1, <2>3 DEF PickNode, Requeue, RequeueRun, RequestInv, Existing
  <2>4. ASSUME NEW c \in Clients, NEW recorded \in Content,
               \/ LoadPlanItems(c, recorded)
               \/ \E v \in Visits : CreateVisit(c, v, recorded)
        PROVE  T
    BY <1>1, <2>4 DEF LoadPlanItems, CreateVisit
  <2>5. ASSUME NEW c \in Clients, NEW v \in Visits, Edit(c, v) \/ Submit(c, v) \/ Retry(c, v)
        PROVE  T
    BY <1>1, <2>5 DEF Edit, Submit, PrepareSubmit, Retry
  <2>6. ASSUME NEW c \in Clients, NEW d \in BookRuns, Start(c, d) PROVE T
    BY <1>1, <2>6 DEF Start, InsertRun
  <2>7. ASSUME NEW c \in Clients, NEW d \in BookRuns, Produce(c, d) PROVE T
    BY <1>1, <2>7 DEF Produce, Leave
  <2>8. ASSUME NEW v \in Visits, ReadNotes(v) \/ ReadPlan(v) \/ FailAnalysis(v) \/ StoreAnalysis(v)
                                 \/ SucceedAnalysis(v)
        PROVE  T
    BY <1>1, <2>8 DEF ReadNotes, ReadPlan, FailAnalysis, FailRun, StoreAnalysis, Persist,
                      SucceedAnalysis, SucceedRun
  <2>9. ASSUME NEW d \in BookRuns, Render(d) \/ FailBook(d) \/ SucceedBook(d) PROVE T
    BY <1>1, <2>9 DEF Render, FailBook, FailRun, SucceedBook, SucceedRun
  <2>10. ASSUME NEW r \in Runs, Claim(r) PROVE T
    BY <1>1, <2>10 DEF Claim, ClaimRun
  <2>11. CASE Work
    BY <2>8, <2>9, <2>10, <2>11 DEF Work
  <2>12. CASE \E c \in Clients : Serve(c)
    BY <2>1, <2>2, <2>3, <2>4, <2>5, <2>6, <2>7, <2>12 DEF Serve
  <2> QED
    BY <2>11, <2>12 DEF Next
<1>2. ASSUME NEW c \in Clients, step'[c] \in {"gate", "produce"}
      PROVE  \A b \in BookRuns : run'[b] # "queued"
  <2>1. CASE Finalize(c)
    BY <2>1 DEF Finalize, ActiveBook
  <2>2. CASE step[c] \in {"gate", "produce"}
    <3>1. lock = c /\ \A d \in Clients : step[d] = "produce" => d = c
      BY <2>2 DEF RequestInv
    <3> QED
      BY <1>1, <1>2, <2>2, <3>1 DEF FinalizeInv
  <2>3. FinalizeGate(c) => step[c] = "gate"
    BY DEF FinalizeGate
  <2> QED
    BY <1>2, <2>1, <2>2, <2>3, LockingStep
<1>3. ASSUME NEW c \in Clients, step'[c] = "produce"
      PROVE  Existing' \subseteq submitted'
  <2>1. step[c] \in {"gate", "produce"}
    BY <1>3, LockingStep DEF FinalizeGate
  <2>2. \A d \in Clients : ~ AddVisit(d)
    BY <2>1 DEF AddVisit, RequestInv
  <2>3. Existing' = Existing /\ submitted \subseteq submitted'
    BY <2>2, ExistingStep
  <2>4. CASE FinalizeGate(c)
    BY <1>3, <2>3, <2>4 DEF FinalizeGate, Leave, VisitInv, Existing
  <2> QED
    BY <1>3, <2>3, <2>4, LockingStep DEF FinalizeInv
<1> QED
  BY <1>2, <1>3 DEF FinalizeInv

---------------------------------------------------------------------------
\* Books change in the renderings of a run at work, and by its failure.
LEMMA BooksStep ==
    ASSUME TypeOK, RequestInv, Next
    PROVE  \/ /\ UNCHANGED books
              /\ \A b \in BookRuns :
                   /\ run[b] # "none" => run'[b] # "none"
                   /\ run'[b] = "succeeded" => run[b] = "succeeded" \/ rendering[b].step = "saved"
           \/ \E b \in BookRuns :
                /\ run[b] # "none"
                /\ \/ UNCHANGED run /\ (NextVersion(b) \/ Put(b) \/ Save(b))
                   \/ run' = [run EXCEPT ![b] = "failed"] /\ GiveUp(b)
PROOF
<1> DEFINE T == /\ UNCHANGED books
                /\ \A b \in BookRuns :
                     /\ run[b] # "none" => run'[b] # "none"
                     /\ run'[b] = "succeeded" => run[b] = "succeeded" \/ rendering[b].step = "saved"
<1> USE RecordsAssumption DEF TypeOK, RecordsTypeOK, Runs, records, SetRun
<1>1. ASSUME NEW c \in Clients, ConfirmConsent(c) \/ NumberVisit(c) \/ AddVisit(c) \/ WriteEdit(c)
                                \/ Finalize(c) \/ FinalizeGate(c) \/ Stop(c) \/ Revert(c) \/ Attach(c)
      PROVE  T
  BY <1>1 DEF ConfirmConsent, UpsertConsent, NumberVisit, AddVisit, InsertVisit, WriteEdit,
              UpdateVisit, Finalize, FinalizeGate, Stop, Revert, RevertSubmit, Attach, AttachRun
<1>2. ASSUME NEW c \in Clients, StartAnalysis(c) \/ PickNode(c) \/ Requeue(c) PROVE T
  <2>1. about[c] \in Visits
    BY <1>2 DEF RequestInv, Existing, SubmitSteps, StartAnalysis, PickNode, Requeue
  <2> QED
    BY <1>2, <2>1 DEF StartAnalysis, InsertRun, PickNode, Requeue, RequeueRun
<1>3. ASSUME NEW c \in Clients, NEW recorded \in Content,
             \/ LoadPlanItems(c, recorded)
             \/ \E v \in Visits : CreateVisit(c, v, recorded)
      PROVE  T
  BY <1>3 DEF LoadPlanItems, CreateVisit
<1>4. ASSUME NEW c \in Clients, NEW v \in Visits, Edit(c, v) \/ Submit(c, v) \/ Retry(c, v)
      PROVE  T
  BY <1>4 DEF Edit, Submit, PrepareSubmit, Retry
<1>5. ASSUME NEW c \in Clients, NEW b \in BookRuns, Start(c, b) \/ Produce(c, b) PROVE T
  BY <1>5 DEF Start, InsertRun, Produce, InsertBookRun
<1>6. ASSUME NEW v \in Visits, ReadNotes(v) \/ ReadPlan(v) \/ FailAnalysis(v) \/ StoreAnalysis(v)
                               \/ SucceedAnalysis(v)
      PROVE  T
  BY <1>6 DEF ReadNotes, ReadPlan, FailAnalysis, FailRun, StoreAnalysis, Persist,
              SucceedAnalysis, SucceedRun
<1>7. ASSUME NEW b \in BookRuns, SucceedBook(b) PROVE T
  BY <1>7 DEF SucceedBook, SucceedRun
<1>8. ASSUME NEW r \in Runs, Claim(r) PROVE T
  BY <1>8 DEF Claim, ClaimRun
<1>9. CASE \E c \in Clients : Serve(c)
  BY <1>1, <1>2, <1>3, <1>4, <1>5, <1>9 DEF Serve
<1>10. CASE \E v \in Visits : ReadNotes(v) \/ ReadPlan(v) \/ FailAnalysis(v) \/ StoreAnalysis(v)
                               \/ SucceedAnalysis(v)
  BY <1>6, <1>10
<1>11. CASE (\E b \in BookRuns : SucceedBook(b)) \/ \E r \in Runs : Claim(r)
  BY <1>7, <1>8, <1>11
<1>12. CASE \E b \in BookRuns : Render(b) \/ FailBook(b)
  BY <1>12 DEF Render, FailBook, FailRun
<1> QED
  BY <1>9, <1>10, <1>11, <1>12 DEF Next, Work

\* The versions stay dense, and within the number of runs.
LEMMA VersionStep ==
    ASSUME TypeOK, RequestInv, VersionInv, Next
    PROVE  ArtifactsTypeOK' /\ VersionInv'
PROOF
<1> DEFINE n == Cardinality(artifacts)
           T == ArtifactsTypeOK' /\ VersionInv'
<1> USE DEF TypeOK, ArtifactsTypeOK
<1>1. ASSUME UNCHANGED books PROVE T
  BY <1>1 DEF books, VersionInv, VersionsAreDense
<1>2. /\ IsFiniteSet(artifacts)
      /\ n \in Nat
      /\ LatestVersion = n
      /\ \A b \in BookRuns : rendering[b].step # "saved" => n + 1 \in Versions
  BY NextVersionIsFree
<1>3. ASSUME NEW b \in BookRuns, NextVersion(b) PROVE T
  BY <1>2, <1>3 DEF NextVersion, VersionInv, VersionsAreDense
<1>4. ASSUME NEW b \in BookRuns, Put(b) PROVE T
  <2>1. rendering[b].version \in 1..(n + 1) /\ n + 1 \in Versions
    BY <1>2, <1>4 DEF Put, VersionInv
  <2>2. rendering[b].version \in Versions
    BY <1>2, <2>1, RecordsAssumption, FS_CardinalityType DEF Versions
  <2> QED
    BY <1>4, <2>1, <2>2, RecordsAssumption DEF Put, VersionInv, VersionsAreDense
<1>5. ASSUME NEW b \in BookRuns, Save(b) PROVE T
  <2> DEFINE k == rendering[b].version
             new == [run |-> b, version |-> k]
  <2>1. k \in 1..(n + 1) /\ objects[k] # None /\ n + 1 \in Versions
    BY <1>2, <1>5 DEF Save, VersionInv
  <2>2. \A a \in artifacts : a.version # k
    BY <1>5 DEF Save, Taken
  <2>3. {a.version : a \in artifacts} = 1..n
    BY DEF VersionInv, VersionsAreDense
  <2>4. k = n + 1
    BY <1>2, <2>1, <2>2, <2>3
  <2>5. artifacts' = artifacts \cup {new} /\ new \notin artifacts
    BY <1>5, <2>2 DEF Save
  <2>6. Cardinality(artifacts') = n + 1
    BY <1>2, <2>5, FS_AddElement
  <2>7. rendering' = [rendering EXCEPT ![b].step = "saved"] /\ objects' = objects
    BY <1>5 DEF Save
  <2>8. ArtifactsTypeOK'
    BY <2>1, <2>4, <2>5, <2>7
  <2>9. VersionsAreDense'
    <3>1. {a.version : a \in artifacts'} = {a.version : a \in artifacts} \cup {k}
      BY <2>5
    <3>2. 1..(n + 1) = (1..n) \cup {n + 1}
      BY <1>2
    <3>3. {a.version : a \in artifacts'} = 1..Cardinality(artifacts')
      BY <2>3, <2>4, <2>6, <3>1, <3>2
    <3>4. \A a \in artifacts' : objects'[a.version] # None
      BY <2>1, <2>5, <2>7 DEF VersionInv, VersionsAreDense
    <3> QED
      BY <3>3, <3>4 DEF VersionsAreDense
  <2>10. \A a \in artifacts' :
           rendering'[a.run].step = "saved" /\ rendering'[a.run].version = a.version
    BY <2>5, <2>7 DEF VersionInv
  <2>11. \A a, e \in artifacts' : a.version = e.version => a = e
    BY <2>2, <2>5 DEF VersionInv
  <2>12. \A d \in BookRuns :
           LET r == rendering'[d] IN
           /\ r.step \in {"put", "save"} => r.version \in 1..(Cardinality(artifacts') + 1)
           /\ r.step = "save" => objects'[r.version] # None
           /\ r.step = "saved" => [run |-> d, version |-> r.version] \in artifacts'
    BY <1>2, <2>5, <2>6, <2>7 DEF VersionInv
  <2> QED
    BY <2>8, <2>9, <2>10, <2>11, <2>12 DEF VersionInv
<1>6. ASSUME NEW b \in BookRuns, GiveUp(b) PROVE T
  BY <1>6 DEF GiveUp, Idle, VersionInv, VersionsAreDense
<1> QED
  BY <1>1, <1>3, <1>4, <1>5, <1>6, BooksStep

\* An object that another rendering has put at the key of a version is
\* followed by a later version, before the run it was put by succeeds.
LEMMA ObjectStep ==
    ASSUME TypeOK, RequestInv, VersionInv, ObjectInv, Next
    PROVE  ObjectInv'
PROOF
<1> DEFINE n == Cardinality(artifacts)
<1> USE DEF TypeOK, RecordsTypeOK, ArtifactsTypeOK, Runs
<1>1. /\ IsFiniteSet(artifacts)
      /\ n \in Nat
      /\ LatestVersion = n
      /\ \A b \in BookRuns : rendering[b].step # "saved" => n + 1 \in Versions
  BY NextVersionIsFree
<1>2. \A a \in artifacts : a.version \in 1..n
  BY DEF VersionInv, VersionsAreDense
<1>3. \A k \in 1..n : Taken(k)
  BY DEF VersionInv, VersionsAreDense, Taken
<1>4. ASSUME UNCHANGED books,
             \A b \in BookRuns :
               /\ run[b] # "none" => run'[b] # "none"
               /\ run'[b] = "succeeded" => run[b] = "succeeded" \/ rendering[b].step = "saved"
      PROVE  ObjectInv'
  BY <1>4 DEF books, ObjectInv
<1>5. ASSUME NEW b \in BookRuns, run[b] # "none", UNCHANGED run, NextVersion(b)
      PROVE  ObjectInv'
  BY <1>5 DEF NextVersion, ObjectInv
<1>6. ASSUME NEW b \in BookRuns, run[b] # "none", UNCHANGED run, Put(b)
      PROVE  ObjectInv'
  <2>1. rendering[b].version \in 1..(n + 1)
    BY <1>6 DEF Put, VersionInv
  <2> QED
    BY <1>6, <2>1 DEF Put, ObjectInv
<1>7. ASSUME NEW b \in BookRuns, run[b] # "none", UNCHANGED run, Save(b)
      PROVE  ObjectInv'
  <2> DEFINE k == rendering[b].version
             new == [run |-> b, version |-> k]
  <2>1. k = n + 1
    <3>1. k \in 1..(n + 1)
      BY <1>7 DEF Save, VersionInv
    <3>2. ~ Taken(k)
      BY <1>7 DEF Save
    <3> QED
      BY <1>1, <1>3, <3>1, <3>2
  <2>2. /\ artifacts' = artifacts \cup {new}
        /\ rendering' = [rendering EXCEPT ![b].step = "saved"]
        /\ objects' = objects
    BY <1>7 DEF Save
  <2>3. Cardinality(artifacts') = n + 1
    <3>1. new \notin artifacts
      BY <1>1, <1>2, <2>1
    <3> QED
      BY <1>1, <2>2, <3>1, FS_AddElement
  <2>4. ASSUME NEW m \in Versions, NEW d \in BookRuns, objects[m] = d
        PROVE  /\ run[d] # "none"
               /\ m <= n + 1
               /\ rendering'[d].step = "saved" =>
                    [run |-> d, version |-> m] \in artifacts' \/ rendering'[d].version > m
    <3>1. m \in Nat
      BY RecordsAssumption, FS_CardinalityType DEF Versions
    <3>2. run[d] # "none" /\ m <= n + 1
      BY <2>4, RecordsAssumption DEF ObjectInv
    <3>4. CASE d = b
      BY <1>1, <2>1, <2>2, <3>1, <3>2, <3>4
    <3>5. CASE d # b
      BY <1>1, <2>2, <2>4, <3>1, <3>2, <3>5, RecordsAssumption DEF ObjectInv
    <3> QED
      BY <3>4, <3>5
  <2>5. \A d \in BookRuns : run[d] = "succeeded" => rendering'[d].step = "saved"
    BY <2>2 DEF ObjectInv
  <2>6. \A m \in Versions : objects[m] # None => objects[m] \in BookRuns
    OBVIOUS
  <2>7. \A m \in Versions : m \in Nat
    BY RecordsAssumption, FS_CardinalityType DEF Versions
  <2>8. objects' = objects /\ run' = run
    BY <1>7, <2>2
  <2> HIDE DEF n
  <2> QED
    BY <1>1, <2>3, <2>4, <2>5, <2>6, <2>7, <2>8 DEF ObjectInv
<1>8. ASSUME NEW b \in BookRuns, run[b] # "none", run' = [run EXCEPT ![b] = "failed"], GiveUp(b)
      PROVE  ObjectInv'
  BY <1>8, RecordsAssumption DEF GiveUp, Idle, ObjectInv
<1> QED
  BY <1>4, <1>5, <1>6, <1>7, <1>8, BooksStep

---------------------------------------------------------------------------
\* What the nodes of an analysis have read is of its type.
LEMMA AnalysisTypes ==
    ASSUME TypeOK, RequestInv, VisitInv, Next
    PROVE  seen' \in [Visits -> Notes \cup {None}] /\ inputs' \in [Visits -> SUBSET Content]
PROOF
<1> DEFINE T == seen' \in [Visits -> Notes \cup {None}] /\ inputs' \in [Visits -> SUBSET Content]
<1> USE DEF TypeOK
<1>1. ASSUME UNCHANGED <<seen, inputs>> PROVE T
  BY <1>1
<1>2. ASSUME NEW c \in Clients, Serve(c) PROVE UNCHANGED <<seen, inputs>>
  BY <1>2 DEF Serve, analysis, NumberVisit, AddVisit, WriteEdit, StartAnalysis, Revert, Attach, PickNode,
              Requeue, Finalize, FinalizeGate, Stop, ConfirmConsent, LoadPlanItems, CreateVisit, Edit, Submit,
              Retry, Start, Produce
<1>3. ASSUME NEW v \in Visits, ReadNotes(v) PROVE T
  <2>1. content[v] \in Content
    BY <1>3 DEF ReadNotes, AtWork, VisitInv
  <2> QED
    BY <1>3, <2>1 DEF ReadNotes, Content
<1>4. ASSUME NEW v \in Visits, ReadPlan(v) PROVE T
  <2>1. content[v] \in Content /\ seen[v] \in Notes
    BY <1>4 DEF ReadPlan, AtWork, VisitInv
  <2>2. [notes |-> seen[v], plan |-> content[v].plan] \in Content
    BY <2>1 DEF Content
  <2> QED
    BY <1>4, <2>2 DEF ReadPlan
<1>5. ASSUME NEW v \in Visits, FailAnalysis(v) \/ StoreAnalysis(v) \/ SucceedAnalysis(v)
      PROVE  UNCHANGED <<seen, inputs>>
  BY <1>5 DEF FailAnalysis, StoreAnalysis, SucceedAnalysis, analysis
<1>6. ASSUME NEW b \in BookRuns, Render(b) \/ FailBook(b) \/ SucceedBook(b)
      PROVE  UNCHANGED <<seen, inputs>>
  BY <1>6 DEF Render, FailBook, SucceedBook, analysis
<1>7. ASSUME NEW r \in Runs, Claim(r) PROVE UNCHANGED <<seen, inputs>>
  BY <1>7 DEF Claim, analysis
<1> QED
  BY <1>1, <1>2, <1>3, <1>4, <1>5, <1>6, <1>7 DEF Next, Work

\* A step keeps the inductive invariant.
LEMMA InvStep == CollectionInv /\ [Next]_vars => CollectionInv'
PROOF
<1> SUFFICES ASSUME CollectionInv, [Next]_vars PROVE CollectionInv'
  OBVIOUS
<1>1. CASE Next
  <2> USE <1>1 DEF CollectionInv
  <2>1. RecordsTypeOK' /\ submitted' \subseteq Visits /\ doubled' \subseteq Visits
    BY RecordTypes
  <2>2. ArtifactsTypeOK' /\ VersionInv'
    BY VersionStep
  <2>3. seen' \in [Visits -> Notes \cup {None}] /\ inputs' \in [Visits -> SUBSET Content]
    BY AnalysisTypes
  <2>4. /\ step' \in [Clients -> Steps]
        /\ about' \in [Clients -> Visits \cup {None}]
        /\ local' \in [Clients -> Content \cup {None}]
        /\ number' \in [Clients -> Nat]
    <3>1. CASE \E c \in Clients : Serve(c)
      BY <3>1, RequestTypes
    <3>2. CASE Work
      BY <3>2 DEF TypeOK, Work, requests, ReadNotes, ReadPlan, FailAnalysis, StoreAnalysis,
                  SucceedAnalysis, Claim, Render, FailBook, SucceedBook
    <3> QED
      BY <3>1, <3>2 DEF Next
  <2>5. TypeOK'
    BY <2>1, <2>2, <2>3, <2>4 DEF TypeOK
  <2>6. RequestInv' /\ SubmitInv' /\ NumberInv' /\ FinalizeInv'
    BY RequestStep, SubmitStep, NumberStep, FinalizeStep
  <2>7. VisitInv' /\ AnalysedAsRecorded'
    BY VisitStep
  <2>8. AnalysedIsKept' /\ ProcessingHasRun' /\ NeedsMaterialHasGap'
    BY ShownStep
  <2>9. ObjectInv'
    BY ObjectStep
  <2> QED
    BY <2>2, <2>5, <2>6, <2>7, <2>8, <2>9
<1>2. CASE UNCHANGED vars
  <2> USE <1>2 DEF CollectionInv, vars
  <2>1. TypeOK'
    BY DEF records, visitRows, books, requests, analysis, TypeOK, RecordsTypeOK, ArtifactsTypeOK
  <2>2. RequestInv' /\ VisitInv' /\ SubmitInv'
    BY DEF records, visitRows, requests, analysis, RequestInv, VisitInv, SubmitInv, Existing
  <2>3. NumberInv' /\ FinalizeInv'
    BY DEF records, visitRows, requests, NumberInv, VisitsAreNumbered, FinalizeInv, Existing
  <2>4. VersionInv' /\ ObjectInv'
    BY DEF records, books, VersionInv, VersionsAreDense, ObjectInv
  <2>5. AnalysedAsRecorded' /\ ProcessingHasRun' /\ NeedsMaterialHasGap' /\ AnalysedIsKept'
    BY DEF records, visitRows, analysis, AnalysedAsRecorded, ProcessingHasRun, ActiveBook,
           NeedsMaterialHasGap, AnalysedIsKept
  <2> QED
    BY <2>1, <2>2, <2>3, <2>4, <2>5
<1> QED
  BY <1>1, <1>2

\* Requests, analysis runs and book runs never disturb what the others rely on,
\* in whatever order they run and wherever one stops.
THEOREM CollectionInvariant == Spec => []CollectionInv
PROOF
  BY InvInit, InvStep, PTL DEF Spec

---------------------------------------------------------------------------
\* Every variable always holds what the schema and the types of the code allow:
\* the version that a rendering reads never exceeds the number of book runs.
THEOREM TypesHold == Spec => []TypeOK
PROOF
<1>1. CollectionInv => TypeOK
  BY DEF CollectionInv
<1> QED
  BY <1>1, CollectionInvariant, PTL

\* The visits are always numbered 1 to n, however many requests create them at
\* once: the lock covers the reading of the number and the insertion.
THEOREM NumbersAreDense == Spec => []VisitsAreNumbered
PROOF
<1>1. CollectionInv => VisitsAreNumbered
  BY DEF CollectionInv, NumberInv
<1> QED
  BY <1>1, CollectionInvariant, PTL

\* An analysis is always made from what its visit says: a visit that has a run
\* is not a draft, and only drafts are written.
THEOREM AnalysesAreOfTheRecord == Spec => []AnalysedAsRecorded
PROOF
<1>1. CollectionInv => AnalysedAsRecorded
  BY DEF CollectionInv
<1> QED
  BY <1>1, CollectionInvariant, PTL

\* A book is always finalized after every visit that exists has been submitted.
THEOREM FinalizeIsGated == Spec => []FinalizedAfterSubmission
PROOF
<1>1. CollectionInv => FinalizedAfterSubmission
  BY DEF CollectionInv, FinalizeInv, FinalizedAfterSubmission
<1> QED
  BY <1>1, CollectionInvariant, PTL

\* No run is ever queued while a finalization is about to add one.
THEOREM FinalizesAreExclusive == Spec => []FinalizeIsExclusive
PROOF
<1>1. CollectionInv => FinalizeIsExclusive
  BY DEF CollectionInv, FinalizeInv, FinalizeIsExclusive
<1> QED
  BY <1>1, CollectionInvariant, PTL

\* A project that is shown as in production always has a run queued or at work.
THEOREM ProductionIsUnderWay == Spec => []ProcessingHasRun
PROOF
<1>1. CollectionInv => ProcessingHasRun
  BY DEF CollectionInv
<1> QED
  BY <1>1, CollectionInvariant, PTL

\* A project that asks for more material always has an item that lacks it.
THEOREM GapsAreNamed == Spec => []NeedsMaterialHasGap
PROOF
<1>1. CollectionInv => NeedsMaterialHasGap
  BY DEF CollectionInv
<1> QED
  BY <1>1, CollectionInvariant, PTL

\* A visit whose analysis is stored is never shown as failed or open to edits,
\* unless a second node of it is at work.
THEOREM AnalysesAreKept == Spec => []AnalysedIsKept
PROOF
<1>1. CollectionInv => AnalysedIsKept
  BY DEF CollectionInv
<1> QED
  BY <1>1, CollectionInvariant, PTL

\* The versions of the books are always 1 to n, each with an object at its key.
THEOREM BooksAreVersioned == Spec => []VersionsAreDense
PROOF
<1>1. CollectionInv => VersionsAreDense
  BY DEF CollectionInv, VersionInv
<1> QED
  BY <1>1, CollectionInvariant, PTL

\* Whenever no run that was started is still to succeed, the latest book is the
\* one its run has rendered.
THEOREM LatestIsItsOwn == Spec => []LatestBookIsItsOwn
PROOF
<1>1. CollectionInv => LatestBookIsItsOwn
  <2> SUFFICES ASSUME CollectionInv, \A b \in BookRuns : run[b] \in {"none", "succeeded"},
                      NEW a \in artifacts, a.version = LatestVersion
               PROVE  objects[a.version] = a.run
    BY DEF LatestBookIsItsOwn
  <2> DEFINE n == Cardinality(artifacts)
             d == objects[n]
  <2> USE DEF CollectionInv, TypeOK, ArtifactsTypeOK
  <2>1. n \in Nat /\ a.version = n
    BY NextVersionIsFree
  <2>2. n \in Versions /\ d # None /\ d \in BookRuns
    BY <2>1 DEF VersionInv, VersionsAreDense
  <2>3. rendering[d].step = "saved"
    BY <2>2 DEF ObjectInv
  <2>4. [run |-> d, version |-> rendering[d].version] \in artifacts
    BY <2>2, <2>3 DEF VersionInv
  <2>5. rendering[d].version \in 1..n
    BY <2>4 DEF VersionInv, VersionsAreDense
  <2>6. [run |-> d, version |-> n] \in artifacts
    BY <2>1, <2>2, <2>3, <2>5 DEF ObjectInv
  <2>7. [run |-> d, version |-> n] = a
    BY <2>1, <2>6 DEF VersionInv
  <2> QED
    BY <2>1, <2>7
<1> QED
  BY <1>1, CollectionInvariant, PTL
===========================================================================
