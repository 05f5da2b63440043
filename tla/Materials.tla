----------------------------- MODULE Materials -----------------------------
(***************************************************************************)
(* The server's side of an upload (internal/assets): asset rows, the       *)
(* objects uploaded under pre-signed URLs, and the requests of the mini-   *)
(* program, each of which runs through several statements while others do, *)
(* and goes on when nobody waits for its answer any more.  One visit.      *)
(***************************************************************************)
EXTENDS Naturals, FiniteSets

CONSTANTS Items,      \* what the staff captures: a recording or a photo each
          Assets,     \* identifiers the server may give assets
          None,       \* no asset, no item
          MaxFaults   \* bound: faults in a behaviour

ASSUME MaterialsAssumption ==
    /\ None \notin Assets \cup Items
    /\ MaxFaults \in Nat

AssetState == {"none", "pending_upload", "uploaded", "deleted"}

\* A request for an item.  by: who waits for its answer.  step: what it does
\* next, or its answer: "ok", "refused" (a status 404, 409 or the like) or
\* "error" (anything the client cannot interpret).
Call == [kind : {"initiate", "list", "renew", "put", "complete", "delete"},
         item : Items, asset : Assets \cup {None},
         by   : {"queue", "page", "nobody"},
         step : {"sent", "checked", "stored", "ok", "refused", "error"}]

VARIABLES
    asset,    \* asset[a]: state of the assets row
    origin,   \* origin[a]: the item the row was created for
    objects,  \* the assets whose object is stored
    visit,    \* state of the visit: "draft" or "submitted"
    calls,    \* the requests being served or answered
    faults    \* number of faults so far

server == <<asset, origin, objects, visit>>

MaterialsTypeOK ==
    /\ asset \in [Assets -> AssetState]
    /\ origin \in [Assets -> Items \cup {None}]
    /\ objects \subseteq Assets
    /\ visit \in {"draft", "submitted"}
    /\ calls \subseteq Call
    /\ \A c \in calls : c.kind # "initiate" => c.asset # None
    /\ faults \in 0..MaxFaults

MaterialsInit ==
    /\ asset = [a \in Assets |-> "none"]
    /\ origin = [a \in Assets |-> None]
    /\ objects = {}
    /\ visit = "draft"
    /\ calls = {}
    /\ faults = 0

Fault == /\ faults < MaxFaults
         /\ faults' = faults + 1

Sent(kind, i, a, by) ==
    [kind |-> kind, item |-> i, asset |-> a, by |-> by, step |-> "sent"]

Answered(c) == c.step \in {"ok", "refused", "error"}

\* The requests once c has gone on as d.  No answer reaches a sender that is gone.
Replaced(c, d) == (calls \ {c}) \cup IF d.by = "nobody" /\ Answered(d) THEN {} ELSE {d}

To(c, step) == /\ calls' = Replaced(c, [c EXCEPT !.step = step])
               /\ UNCHANGED faults

At(c, kind, step) == c.kind = kind /\ c.step = step

---------------------------------------------------------------------------
\* Create looks for a draft visit and inserts the row, in a transaction that
\* does not lock the visit.
CheckVisit(c) ==
    /\ At(c, "initiate", "sent")
    /\ To(c, IF visit = "draft" THEN "checked" ELSE "refused")
    /\ UNCHANGED server

Create(c) ==
    /\ At(c, "initiate", "checked")
    /\ \E a \in Assets :
         /\ asset[a] = "none"
         /\ asset' = [asset EXCEPT ![a] = "pending_upload"]
         /\ origin' = [origin EXCEPT ![a] = c.item]
         /\ calls' = Replaced(c, [c EXCEPT !.asset = a, !.step = "ok"])
    /\ UNCHANGED <<objects, visit, faults>>

\* ListByVisit, of which the client wants to know whether its asset is uploaded.
ListByVisit(c) ==
    /\ At(c, "list", "sent")
    /\ To(c, IF asset[c.asset] = "uploaded" THEN "ok" ELSE "refused")
    /\ UNCHANGED server

RenewUpload(c) ==
    /\ At(c, "renew", "sent")
    /\ To(c, IF asset[c.asset] = "pending_upload" THEN "ok" ELSE "refused")
    /\ UNCHANGED server

\* The object store takes what is sent to a pre-signed URL.
PutObject(c) ==
    /\ At(c, "put", "sent")
    /\ objects' = objects \cup {c.asset}
    /\ To(c, "ok")
    /\ UNCHANGED <<asset, origin, visit>>

\* Complete reads the row, then asks for the object, then marks the row.
Complete(c) ==
    /\ At(c, "complete", "sent")
    /\ To(c, CASE asset[c.asset] = "uploaded"       -> "ok"
               [] asset[c.asset] = "pending_upload" -> "checked"
               [] OTHER                             -> "refused")
    /\ UNCHANGED server

Stat(c) ==
    /\ At(c, "complete", "checked")
    /\ To(c, IF c.asset \in objects THEN "stored" ELSE "error")
    /\ UNCHANGED server

\* The digest of one file is the same each time, so that ErrHashConflict stays out.
MarkUploaded(c) ==
    /\ At(c, "complete", "stored")
    /\ IF asset[c.asset] \in {"pending_upload", "uploaded"}
       THEN asset' = [asset EXCEPT ![c.asset] = "uploaded"] /\ To(c, "ok")
       ELSE UNCHANGED asset /\ To(c, "refused")
    /\ UNCHANGED <<origin, objects, visit>>

\* Mutant: the object goes whatever the state of the row.
DeletePendingAnyState(c) ==
    /\ At(c, "delete", "sent")
    /\ asset' = [asset EXCEPT ![c.asset] = IF @ = "pending_upload" THEN "deleted" ELSE @]
    /\ To(c, "checked")
    /\ UNCHANGED <<origin, objects, visit>>

\* DeletePending deletes the row, then the object.
DeletePending(c) ==
    /\ At(c, "delete", "sent")
    /\ IF asset[c.asset] = "pending_upload"
       THEN asset' = [asset EXCEPT ![c.asset] = "deleted"] /\ To(c, "checked")
       ELSE UNCHANGED asset /\ To(c, "refused")
    /\ UNCHANGED <<origin, objects, visit>>

\* The error of Remove is ignored.
Remove(c) ==
    /\ At(c, "delete", "checked")
    /\ \/ objects' = objects \ {c.asset} /\ To(c, "ok")
       \/ /\ Fault
          /\ calls' = Replaced(c, [c EXCEPT !.step = "ok"])
          /\ UNCHANGED objects
    /\ UNCHANGED <<asset, origin, visit>>

Handle(c) == \/ CheckVisit(c) \/ Create(c) \/ ListByVisit(c) \/ RenewUpload(c)
             \/ PutObject(c) \/ Complete(c) \/ Stat(c) \/ MarkUploaded(c)
             \/ DeletePending(c) \/ Remove(c)

\* A request gets lost, or ends in an error of the database or the store.
Break(c) ==
    /\ ~ Answered(c)
    /\ Fault
    /\ calls' = Replaced(c, [c EXCEPT !.step = "error"])
    /\ UNCHANGED server

\* An answer gets lost, or the request takes too long: its sender goes on
\* while the request is still being served.
GiveUp(c) ==
    /\ c.by # "nobody"
    /\ Fault
    /\ calls' = (calls \ {c}) \cup
                {[c EXCEPT !.step = "error"]} \cup
                IF Answered(c) THEN {} ELSE {[c EXCEPT !.by = "nobody"]}
    /\ UNCHANGED server
===========================================================================
