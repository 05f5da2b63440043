----------------------- MODULE CollectionOutcomeProofs -----------------------
(***************************************************************************)
(* The life of a project and the promise of the workflow engine about a    *)
(* run (RunOutcome): no step of Collection does to a run what the promise  *)
(* does not allow, and what it allows an engine to do is never refused     *)
(* here.  WorkflowOutcomeProofs proves that the engine keeps the promise.  *)
(***************************************************************************)
EXTENDS CollectionProofs

\* What RunOutcome speaks of.
LifeUnchanged == UNCHANGED <<run, visit, project, analysed, artifacts, doubled>>

LEMMA LifeStutters == LifeUnchanged => UNCHANGED Life!vars
PROOF
  BY DEF LifeUnchanged, Life!vars, delivered

\* The runs of the two modules are the same, and a run has stored a book when
\* its rendering is over.
LEMMA Delivered ==
    ASSUME TypeOK, VersionInv
    PROVE  /\ Life!Runs = Runs
           /\ \A v \in Visits : v \in delivered <=> v \in analysed
           /\ \A b \in BookRuns : b \in delivered <=> rendering[b].step = "saved"
PROOF
<1> USE RecordsAssumption DEF TypeOK, RecordsTypeOK, ArtifactsTypeOK
<1>1. Life!Runs = Runs
  BY DEF Life!Runs, Runs
<1>2. \A v \in Visits : v \in delivered <=> v \in analysed
  BY DEF delivered
<1>3. ASSUME NEW b \in BookRuns PROVE b \in delivered <=> rendering[b].step = "saved"
  <2>1. b \in delivered => \E a \in artifacts : a.run = b
    BY DEF delivered
  <2>2. b \in delivered => rendering[b].step = "saved"
    BY <2>1 DEF VersionInv
  <2>3. rendering[b].step = "saved" => [run |-> b, version |-> rendering[b].version] \in artifacts
    BY DEF VersionInv
  <2>4. rendering[b].step = "saved" => b \in delivered
    BY <2>3 DEF delivered
  <2> QED
    BY <2>2, <2>4
<1> QED
  BY <1>1, <1>2, <1>3

LEMMA RunsOfArtifacts ==
    ASSUME NEW S, NEW b, NEW k
    PROVE  {a.run : a \in S \cup {[run |-> b, version |-> k]}} = {a.run : a \in S} \cup {b}
PROOF
<1> DEFINE new == [run |-> b, version |-> k]
<1>1. new.run = b
  OBVIOUS
<1> HIDE DEF new
<1>2. ASSUME NEW x
      PROVE  x \in {a.run : a \in S \cup {new}} <=> x \in {a.run : a \in S} \cup {new.run}
  OBVIOUS
<1>3. {a.run : a \in S \cup {new}} = {a.run : a \in S} \cup {b}
  BY <1>1, <1>2
<1> QED
  BY <1>3 DEF new

---------------------------------------------------------------------------
\* The steps of a request.
LEMMA ServeInLife ==
    ASSUME CollectionInv, NEW c \in Clients, Serve(c)
    PROVE  [Life!Next]_(Life!vars)
PROOF
<1> DEFINE T == [Life!Next]_(Life!vars)
<1> USE RecordsAssumption
        DEF CollectionInv, TypeOK, RecordsTypeOK, Runs, records, visitRows, books, requests, analysis,
            SetRun, SetVisit, SetProject, SetProjectOf, Existing
<1>1. Life!Runs = Runs /\ \A v \in Visits : v \in delivered <=> v \in analysed
  BY Delivered
<1>2. CASE LifeUnchanged
  BY <1>2, LifeStutters
<1>3. CASE ConfirmConsent(c) \/ NumberVisit(c) \/ WriteEdit(c) \/ Finalize(c) \/ FinalizeGate(c)
           \/ Stop(c)
  BY <1>2, <1>3 DEF ConfirmConsent, UpsertConsent, NumberVisit, WriteEdit, UpdateVisit, Finalize,
                    FinalizeGate, Stop, LifeUnchanged
<1>4. CASE \E recorded \in Content :
             LoadPlanItems(c, recorded) \/ \E v \in Visits : CreateVisit(c, v, recorded)
  BY <1>2, <1>4 DEF LoadPlanItems, CreateVisit, LifeUnchanged
<1>5. CASE \E v \in Visits : Edit(c, v) \/ Retry(c, v)
  BY <1>2, <1>5 DEF Edit, Retry, LifeUnchanged
<1>6. CASE AddVisit(c)
  <2>1. about[c] \in Visits /\ visit[about[c]] = "none"
    BY <1>6 DEF AddVisit, RequestInv, Creating
  <2>2. Life!Record(about[c])
    BY <1>6, <2>1 DEF AddVisit, InsertVisit, Life!Record, Life!Move, Life!SetVisit, delivered
  <2> QED
    BY <2>1, <2>2 DEF Life!Next
<1>7. ASSUME NEW v \in Visits, Submit(c, v) PROVE T
  <2>1. Life!Submit(v)
    BY <1>7 DEF Submit, PrepareSubmit, Life!Submit, Life!Move, Life!SetVisit, delivered
  <2> QED
    BY <2>1 DEF Life!Next
<1>8. CASE StartAnalysis(c)
  <2>1. CASE Proceed(c, "revert") /\ UNCHANGED records
    BY <1>2, <1>8, <2>1 DEF StartAnalysis, LifeUnchanged
  <2>2. CASE InsertRun(about[c])
    <3>1. about[c] \in Visits /\ visit[about[c]] = "submitted"
      BY <1>8 DEF StartAnalysis, SubmitInv, RequestInv, SubmitSteps
    <3>2. Life!Insert(about[c])
      BY <1>1, <1>8, <2>2, <3>1 DEF StartAnalysis, InsertRun, Life!Insert, Life!SetRun,
                                    Life!SetProject, delivered
    <3> QED
      BY <1>1, <3>1, <3>2 DEF Life!Next
  <2> QED
    BY <1>8, <2>1, <2>2 DEF StartAnalysis
<1>9. CASE Revert(c)
  <2>1. about[c] \in Visits /\ visit[about[c]] = "submitted" /\ run[about[c]] = "none"
    BY <1>9 DEF Revert, SubmitInv, RequestInv, SubmitSteps
  <2>2. Life!Revert(about[c])
    BY <1>9, <2>1 DEF Revert, RevertSubmit, Life!Revert, Life!Move, Life!SetVisit, delivered
  <2> QED
    BY <2>1, <2>2 DEF Life!Next
<1>10. CASE Attach(c)
  <2>1. about[c] \in Visits /\ run[about[c]] # "none"
    BY <1>10 DEF Attach, SubmitInv, RequestInv, SubmitSteps
  <2>2. Life!Attach(about[c])
    BY <1>10, <2>1 DEF Attach, AttachRun, Life!Attach, Life!Move, Life!SetVisit, delivered
  <2> QED
    BY <2>1, <2>2 DEF Life!Next
<1>11. CASE PickNode(c)
  <2> DEFINE v == about[c]
  <2>1. v \in Visits
    BY <1>11 DEF PickNode, RequestInv
  <2>2. CASE doubled' = doubled
    BY <1>2, <1>11, <2>2 DEF PickNode, LifeUnchanged
  <2>3. CASE AtWork(v) /\ doubled' = doubled \cup {v}
    <3>1. Life!Double(v)
      BY <1>1, <1>11, <2>1, <2>3 DEF PickNode, AtWork, Life!Double, Life!MayFail, delivered
    <3> QED
      BY <2>1, <3>1 DEF Life!Next
  <2> QED
    BY <1>11, <2>2, <2>3 DEF PickNode
<1>12. CASE Requeue(c)
  <2>1. about[c] \in Visits
    BY <1>12 DEF Requeue, RequestInv
  <2>2. Life!Requeue(about[c])
    BY <1>1, <1>12, <2>1 DEF Requeue, RequeueRun, Life!Requeue, Life!SetRun, Life!SetVisit, delivered
  <2> QED
    BY <2>1, <2>2 DEF Life!Next
<1>13. ASSUME NEW b \in BookRuns, Start(c, b) \/ Produce(c, b) PROVE T
  <2>1. Life!Insert(b)
    BY <1>1, <1>13 DEF Start, InsertRun, Produce, InsertBookRun, Life!Insert, Life!SetRun,
                       Life!SetProject, delivered
  <2> QED
    BY <1>1, <2>1 DEF Life!Next
<1> QED
  BY <1>3, <1>4, <1>5, <1>6, <1>7, <1>8, <1>9, <1>10, <1>11, <1>12,
     <1>13 DEF Serve

\* The steps of the processors.
LEMMA WorkInLife ==
    ASSUME CollectionInv, Work
    PROVE  [Life!Next]_(Life!vars)
PROOF
<1> DEFINE T == [Life!Next]_(Life!vars)
<1> USE RecordsAssumption
        DEF CollectionInv, TypeOK, RecordsTypeOK, Runs, records, visitRows, books, requests, analysis,
            SetRun, SetVisit, SetProject, SetProjectOf
<1>1. /\ Life!Runs = Runs
      /\ \A v \in Visits : v \in delivered <=> v \in analysed
      /\ \A b \in BookRuns : b \in delivered <=> rendering[b].step = "saved"
  BY Delivered
<1>2. ASSUME NEW r \in Runs,
             Life!Claim(r) \/ Life!Fail(r) \/ Life!Deliver(r) \/ Life!Succeed(r)
      PROVE  T
  BY <1>1, <1>2 DEF Life!Next
<1>3. ASSUME NEW v \in Visits, ReadNotes(v) \/ ReadPlan(v) PROVE T
  BY <1>3, LifeStutters DEF ReadNotes, ReadPlan, LifeUnchanged
<1>4. ASSUME NEW r \in Runs, Claim(r) PROVE Life!Claim(r)
  BY <1>4 DEF Claim, ClaimRun, Life!Claim, Life!SetRun, delivered
<1>5. ASSUME NEW v \in Visits, FailAnalysis(v) PROVE Life!Fail(v)
  BY <1>1, <1>5 DEF FailAnalysis, AtWork, FailRun, Life!Fail, Life!MayFail, Life!SetRun,
                    Life!SetVisit, Life!SetProject, delivered
<1>6. ASSUME NEW v \in Visits, StoreAnalysis(v) PROVE Life!Deliver(v)
  <2>1. v \notin delivered /\ delivered' = delivered \cup {v}
    BY <1>1, <1>6 DEF StoreAnalysis, Persist, delivered
  <2> QED
    BY <1>6, <2>1 DEF StoreAnalysis, AtWork, Persist, Life!Deliver, Life!SetVisit
<1>7. ASSUME NEW v \in Visits, SucceedAnalysis(v) PROVE Life!Succeed(v)
  BY <1>1, <1>7 DEF SucceedAnalysis, SucceedRun, Life!Succeed, Life!SetRun, Life!SetProject, delivered
<1>8. ASSUME NEW b \in BookRuns, Render(b) PROVE T
  <2>1. CASE NextVersion(b) \/ Put(b)
    BY <1>8, <2>1, LifeStutters DEF Render, NextVersion, Put, LifeUnchanged
  <2>2. CASE Save(b)
    <3>1. delivered' = delivered \cup {b}
      <4>1. /\ artifacts' = artifacts \cup {[run |-> b, version |-> rendering[b].version]}
            /\ analysed' = analysed
        BY <1>8, <2>2 DEF Render, Save
      <4>2. {a.run : a \in artifacts'} = {a.run : a \in artifacts} \cup {b}
        BY <4>1, RunsOfArtifacts
      <4> QED
        BY <4>1, <4>2 DEF delivered
    <3>2. b \notin delivered
      BY <1>1, <2>2 DEF Save
    <3>3. Life!Deliver(b)
      BY <1>8, <3>1, <3>2 DEF Render, Life!Deliver, Life!SetVisit
    <3> QED
      BY <1>2, <3>3
  <2> QED
    BY <1>8, <2>1, <2>2 DEF Render
<1>9. ASSUME NEW b \in BookRuns, FailBook(b) PROVE Life!Fail(b)
  BY <1>1, <1>9 DEF FailBook, FailRun, GiveUp, Life!Fail, Life!MayFail, Life!SetRun,
                    Life!SetVisit, Life!SetProject, delivered
<1>10. ASSUME NEW b \in BookRuns, SucceedBook(b) PROVE Life!Succeed(b)
  BY <1>1, <1>10 DEF SucceedBook, SucceedRun, Life!Succeed, Life!SetRun, Life!SetProject, delivered
<1> QED
  BY <1>2, <1>3, <1>4, <1>5, <1>6, <1>7, <1>8, <1>9, <1>10 DEF Work

LEMMA StepInLife == CollectionInv /\ [Next]_vars => [Life!Next]_(Life!vars)
PROOF
<1>1. ASSUME CollectionInv, Next PROVE [Life!Next]_(Life!vars)
  BY <1>1, ServeInLife, WorkInLife DEF Next
<1>2. UNCHANGED vars => UNCHANGED Life!vars
  BY LifeStutters DEF vars, records, visitRows, books, analysis, LifeUnchanged
<1> QED
  BY <1>1, <1>2

\* Whatever the staff, the processors and the renderings do, the rows of a run,
\* of its visit and of the project go through the life that the workflow engine
\* promises: Collection relies on nothing that Workflow does not provide.
THEOREM LifeIsAsPromised == Spec => Life!Spec
PROOF
<1>1. Init => Life!Init
  BY DEF Init, RecordsInit, ArtifactsInit, Life!Init, Life!Runs, Runs, delivered
<1> QED
  BY <1>1, StepInLife, CollectionInvariant, PTL DEF Spec, Life!Spec

\* Every step that changes the row of a run, of its visit or of the project is
\* one that the promise names.
THEOREM RunsAreUsedAsPromised == Spec => UsesRunOutcome
PROOF
  BY StepInLife, CollectionInvariant, PTL DEF Spec, UsesRunOutcome

---------------------------------------------------------------------------
\* What a step of the engine leaves alone.
OthersUnchanged ==
    UNCHANGED <<lock, consented, item, sequence, content, analysed, artifacts, objects, requests,
                analysis, submitted>>

\* Conversely, whatever the promise lets the engine write of a run that exists
\* - its claim, however late, its failure and its success - is a step of this
\* module: it leaves out no behaviour of the engine that the promise allows.
\* A book run that fails gives up its rendering; nothing is written to the
\* project while a request holds its lock.
THEOREM EngineIsFree ==
    ASSUME CollectionInv, lock = None, OthersUnchanged, NEW r \in Runs,
           IF r \in BookRuns /\ Life!Fail(r) THEN GiveUp(r) ELSE UNCHANGED rendering,
           Life!Claim(r) \/ Life!Fail(r) \/ Life!Succeed(r)
    PROVE  Next
PROOF
<1> USE RecordsAssumption
        DEF CollectionInv, TypeOK, RecordsTypeOK, Runs, records, visitRows, books, OthersUnchanged,
            SetRun, SetVisit, SetProject, SetProjectOf, Life!SetRun, Life!SetVisit, Life!SetProject
<1>1. /\ \A v \in Visits : v \in delivered <=> v \in analysed
      /\ \A b \in BookRuns : b \in delivered <=> rendering[b].step = "saved"
  BY Delivered
<1>2. CASE Life!Claim(r)
  <2>1. Claim(r)
    BY <1>2 DEF Life!Claim, Life!Fail, Claim, ClaimRun
  <2> QED
    BY <2>1 DEF Next, Work
<1>3. CASE Life!Fail(r) /\ r \in Visits
  <2>1. FailAnalysis(r)
    BY <1>1, <1>3 DEF Life!Fail, Life!MayFail, FailAnalysis, AtWork, FailRun
  <2> QED
    BY <1>3, <2>1 DEF Next, Work
<1>4. CASE Life!Fail(r) /\ r \in BookRuns
  <2>1. FailBook(r)
    BY <1>1, <1>4 DEF Life!Fail, Life!MayFail, FailBook, FailRun, GiveUp
  <2> QED
    BY <1>4, <2>1 DEF Next, Work
<1>5. CASE Life!Succeed(r) /\ r \in Visits
  <2>1. SucceedAnalysis(r)
    BY <1>1, <1>5 DEF Life!Succeed, SucceedAnalysis, SucceedRun
  <2> QED
    BY <1>5, <2>1 DEF Next, Work
<1>6. CASE Life!Succeed(r) /\ r \in BookRuns
  <2>1. SucceedBook(r)
    BY <1>1, <1>6 DEF Life!Succeed, Life!Fail, SucceedBook, SucceedRun
  <2> QED
    BY <1>6, <2>1 DEF Next, Work
<1> QED
  BY <1>2, <1>3, <1>4, <1>5, <1>6
===========================================================================
