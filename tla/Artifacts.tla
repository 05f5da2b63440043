------------------------------ MODULE Artifacts ------------------------------
(***************************************************************************)
(* The books of a project: the rows of artifacts, the PDFs in the object   *)
(* store, and the renderings of the book runs (internal/book/service.go,   *)
(* internal/book/repository.go).  A PDF is known by the run it was         *)
(* rendered for, its object key by the version in it.                      *)
(***************************************************************************)
EXTENDS Records

\* A run stores one artifact at most.
Versions == 1..Cardinality(BookRuns)

VARIABLES
    artifacts,  \* rows of artifacts, each the run and the version
    objects,    \* objects[k]: the run whose PDF is at the key of version k
    rendering   \* rendering[b]: next step of the processor, and the version read

books == <<artifacts, objects, rendering>>

Idle == [step |-> "idle", version |-> 0]

ArtifactsTypeOK ==
    /\ artifacts \subseteq [run : BookRuns, version : Versions]
    /\ objects \in [Versions -> BookRuns \cup {None}]
    /\ rendering \in [BookRuns -> [step : {"idle", "put", "save", "saved"},
                                   version : {0} \cup Versions]]

ArtifactsInit ==
    /\ artifacts = {}
    /\ objects = [k \in Versions |-> None]
    /\ rendering = [b \in BookRuns |-> Idle]

LatestVersion == Max({0} \cup {a.version : a \in artifacts})

\* Mutant: a version is skipped.
SkipVersion(b) ==
    /\ rendering[b].step = "idle"
    /\ rendering' = [rendering EXCEPT ![b] = [step |-> "put", version |-> LatestVersion + 2]]
    /\ UNCHANGED <<artifacts, objects>>

\* The number is read outside the transaction that uses it.
NextVersion(b) ==
    /\ rendering[b].step = "idle"
    /\ rendering' = [rendering EXCEPT ![b] = [step |-> "put", version |-> LatestVersion + 1]]
    /\ UNCHANGED <<artifacts, objects>>

Put(b) ==
    /\ rendering[b].step = "put"
    /\ objects' = [objects EXCEPT ![rendering[b].version] = b]
    /\ rendering' = [rendering EXCEPT ![b].step = "save"]
    /\ UNCHANGED artifacts

Taken(k) == \E a \in artifacts : a.version = k

\* Mutant: the version is not unique.
SaveOver(b) ==
    /\ rendering[b].step = "save"
    /\ artifacts' = artifacts \cup {[run |-> b, version |-> rendering[b].version]}
    /\ rendering' = [rendering EXCEPT ![b].step = "saved"]
    /\ UNCHANGED objects

\* Mutant: the row is inserted before the PDF is stored.
SaveBeforePut(b) ==
    /\ rendering[b].step = "put"
    /\ ~ Taken(rendering[b].version)
    /\ artifacts' = artifacts \cup {[run |-> b, version |-> rendering[b].version]}
    /\ rendering' = [rendering EXCEPT ![b].step = "save"]
    /\ UNCHANGED objects

\* UNIQUE(project_id, kind, version)
Save(b) ==
    LET k == rendering[b].version IN
    /\ rendering[b].step = "save"
    /\ ~ Taken(k)
    /\ artifacts' = artifacts \cup {[run |-> b, version |-> k]}
    /\ rendering' = [rendering EXCEPT ![b].step = "saved"]
    /\ UNCHANGED objects

\* An error on the way.  An object that has been put stays.
GiveUp(b) ==
    /\ rendering[b].step # "saved"
    /\ rendering' = [rendering EXCEPT ![b] = Idle]
    /\ UNCHANGED <<artifacts, objects>>
===========================================================================
