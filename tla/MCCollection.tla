---------------------------- MODULE MCCollection ----------------------------
(***************************************************************************)
(* Collection for TLC, from two points in the life of a project, each of   *)
(* which the program reaches from Init: books have been produced and then  *)
(* visits are recorded, or one visit has been analysed and then books are  *)
(* produced while it is followed by others.                                *)
(***************************************************************************)
EXTENDS Collection, TLC

\* Start has been called twice, and the runs have succeeded in turn.
BooksProduced ==
    \E version \in [BookRuns -> Versions] :
      /\ \A b, d \in BookRuns : version[b] = version[d] => b = d
      /\ run = [r \in Runs |-> IF r \in BookRuns THEN "succeeded" ELSE "none"]
      /\ artifacts = {[run |-> b, version |-> version[b]] : b \in BookRuns}
      /\ objects = [k \in Versions |-> CHOOSE b \in BookRuns : version[b] = k]
      /\ rendering = [b \in BookRuns |-> [step |-> "saved", version |-> version[b]]]
      /\ project = "completed"
      /\ consented = FALSE
      /\ item = [i \in Items |-> "pending"]
      /\ visit = [v \in Visits |-> "none"]
      /\ sequence = [v \in Visits |-> 0]
      /\ content = [v \in Visits |-> None]
      /\ inputs = [v \in Visits |-> {}]
      /\ analysed = {}
      /\ submitted = {}

\* A visit has been recorded, submitted and analysed, and lacks nothing.
VisitAnalysed ==
    \E w \in Visits, recorded \in {r \in Content : r.plan = Items} :
      /\ run = [r \in Runs |-> IF r = w THEN "succeeded" ELSE "none"]
      /\ ArtifactsInit
      /\ project = "collecting"
      /\ consented = TRUE
      /\ item = [i \in Items |-> "collected"]
      /\ visit = [v \in Visits |-> IF v = w THEN "completed" ELSE "none"]
      /\ sequence = [v \in Visits |-> IF v = w THEN 1 ELSE 0]
      /\ content = [v \in Visits |-> IF v = w THEN recorded ELSE None]
      /\ inputs = [v \in Visits |-> IF v = w THEN {recorded} ELSE {}]
      /\ analysed = {w}
      /\ submitted = {w}

MCInit ==
    /\ BooksProduced \/ VisitAnalysed
    /\ lock = None
    /\ step = [c \in Clients |-> "idle"]
    /\ about = [c \in Clients |-> None]
    /\ local = [c \in Clients |-> None]
    /\ number = [c \in Clients |-> 0]
    /\ seen = [v \in Visits |-> None]
    /\ doubled = {}

MCSpec == MCInit /\ [][Next]_vars

UnderWay == {c \in Clients : step[c] # "idle"}

Requeueing == {c \in Clients : step[c] = "requeue"}

\* Bounds: while two nodes of an analysis are at work, or a run that has stored
\* its product is shown as running, no request is served but a retry that is
\* about to queue that run; and no request is served along with such a retry.
Bounds ==
    /\ doubled # {} \/ (\E r \in delivered : run[r] = "running") =>
          \A c \in UnderWay : c \in Requeueing /\ about[c] \in doubled \cup delivered
    /\ Requeueing # {} => Cardinality(UnderWay) < 2

Symmetry == Permutations(Clients) \cup Permutations(Visits)
             \cup Permutations(BookRuns) \cup Permutations(Notes)
===========================================================================
