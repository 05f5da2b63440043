------------------------- MODULE UploadQueueProofs -------------------------
(***************************************************************************)
(* Proofs about the upload queue of the mini-program, for any number of    *)
(* items, assets and faults.                                               *)
(***************************************************************************)
EXTENDS UploadQueue, TLAPS

\* An item nothing has been done about yet.
Fresh(i) == entry[i].state = "local" /\ entry[i].asset = None

\* An item the server has got to know of.
Made(i) == \E a \in Assets : origin[a] = i

\* The server has its material, or nobody wants it, or the device has it.
Safe(i) == Uploaded(i) \/ i \in dismissed \/ i \in files \cap listed

\* Asset a is the item's, and the item remembers it unless it is forgetful.
Own(i, a) == origin[a] = i /\ (i \notin forgetful => entry[i].asset = a)

\* What a request, and its answer, say about the item and its asset.
CallInv(c) ==
    /\ Safe(c.item)
    /\ c.by = "queue" => loop.at = c.kind /\ loop.item = c.item
    /\ c.by = "page" => c.kind = "delete" /\ c.item \in dismissed
    /\ c.kind # "initiate" => Own(c.item, c.asset)
    /\ c.kind = "initiate" /\ c.step = "ok" =>
         c.by = "queue" /\ c.asset \in Assets /\ origin[c.asset] = c.item
    /\ c.kind = "delete" /\ c.step = "checked" => asset[c.asset] = "deleted"
    /\ c.kind = "complete" /\ c.step = "stored" =>
         c.asset \in objects \/ asset[c.asset] = "deleted"
    /\ c.kind \in {"list", "complete"} /\ c.step = "ok" => asset[c.asset] = "uploaded"

CallsInv == \A c \in calls : CallInv(c)

\* The loop waits for one answer at most.
OneCall == \A c, d \in calls : c.by = "queue" /\ d.by = "queue" => c = d

\* The loop holds an item that is safe, and a ticket for an asset of its own.
LoopInv ==
    /\ loop.at \notin {"idle", "next"} => loop.item \in Items /\ Safe(loop.item)
    /\ loop.at = "initiate" => entry[loop.item].asset = None
    /\ loop.at = "read" => loop.ticket \in Assets /\ Own(loop.item, loop.ticket)
    /\ loop.at \in {"unlink", "drop"} => Uploaded(loop.item)

\* Rows have an owner, and an uploaded one is remembered by it, unless it is
\* forgetful: as is an item that is detached without an asset.
OwnerInv ==
    /\ \A a \in Assets : \/ asset[a] = "none" /\ origin[a] = None
                         \/ asset[a] # "none" /\ origin[a] \in Items
    /\ \A i \in Items : entry[i].asset # None => origin[entry[i].asset] = i
    /\ \A a \in Assets :
         asset[a] = "uploaded" /\ origin[a] \notin forgetful => entry[origin[a]].asset = a
    /\ \A i \in detached : entry[i].asset = None => i \in forgetful

\* A file being saved belongs to an item that nothing else knows of.
ItemInv ==
    /\ \A i \in saving : i \in files /\ i \notin listed \cup dismissed /\ Fresh(i) /\ ~ Made(i)
    /\ \A i \in todo : Safe(i)
    /\ \A i \in Items : removing[i] # "no" => i \in dismissed

\* MaterialIsKept, of the fields of an entry.
KeptInv == \A i \in Items : ~ Fresh(i) \/ Made(i) \/ i \in listed => Safe(i)

UploadInv ==
    /\ TypeOK
    /\ CallsInv
    /\ OneCall
    /\ LoopInv
    /\ OwnerInv
    /\ ItemInv
    /\ KeptInv
    /\ UploadedIsStored

---------------------------------------------------------------------------
\* The initial state satisfies the inductive invariant.
LEMMA UploadInit == Init => UploadInv
PROOF
<1> SUFFICES ASSUME Init PROVE UploadInv
  OBVIOUS
<1> USE MaterialsAssumption DEF Init, MaterialsInit, NewEntry, Resting
<1>1. TypeOK
  BY DEF TypeOK, MaterialsTypeOK, AssetState, UploadState, LoopSteps
<1>2. CallsInv /\ OneCall /\ LoopInv /\ OwnerInv
  BY DEF CallsInv, OneCall, LoopInv, OwnerInv
<1>3. ItemInv /\ KeptInv /\ UploadedIsStored
  BY DEF ItemInv, KeptInv, Fresh, Made, UploadedIsStored
<1> QED
  BY <1>1, <1>2, <1>3 DEF UploadInv

---------------------------------------------------------------------------
\* The server's steps.

\* A request goes on as d, with an answer that says what holds, unless nobody
\* gets it.
Goes(c, d) ==
    /\ d \in Call
    /\ d.kind = c.kind /\ d.item = c.item /\ d.by = c.by
    /\ d.kind # "initiate" => d.asset = c.asset
    /\ calls' = Replaced(c, d)
    /\ (d.by = "nobody" /\ Answered(d)) \/ CallInv(d)'

\* What a step of the server does to the rows and the objects.
Serves(i) ==
    /\ asset' \in [Assets -> AssetState] /\ objects' \subseteq Assets
    /\ origin' \in [Assets -> Items \cup {None}]
    /\ visit' \in {"draft", "submitted"} /\ faults' \in 0..MaxFaults
    /\ Safe(i)
    /\ \A a \in Assets :
         /\ asset[a] # "none" => asset'[a] # "none" /\ origin'[a] = origin[a]
         /\ asset[a] = "none" => \/ asset'[a] = "none" /\ origin'[a] = origin[a]
                                 \/ asset'[a] = "pending_upload" /\ origin'[a] = i
         /\ asset[a] \in {"uploaded", "deleted"} => asset'[a] = asset[a]
         /\ a \in objects /\ asset[a] # "deleted" => a \in objects'
         /\ asset'[a] = "uploaded" => asset[a] = "uploaded" \/ (a \in objects' /\ Own(i, a))

\* Whose material the server has, or whose file the device keeps, stays so.
LEMMA SafeStays ==
    ASSUME UploadInv, UNCHANGED device, NEW i \in Items, Serves(i)
    PROVE  /\ \A j \in Items : Uploaded(j) => Uploaded(j)'
           /\ \A j \in Items : Safe(j) => Safe(j)'
           /\ \A j \in Items, a \in Assets : Own(j, a) => Own(j, a)'
PROOF
<1>1. \A j \in Items : Uploaded(j) => Uploaded(j)'
  BY DEF UploadedAs, Uploaded, Serves
<1>2. \A j \in Items : Safe(j) => Safe(j)'
  BY <1>1 DEF Safe, device
<1>3. \A j \in Items, a \in Assets : Own(j, a) => Own(j, a)'
  BY MaterialsAssumption DEF Own, device, edits, Serves, UploadInv, OwnerInv
<1> QED
  BY <1>1, <1>2, <1>3

\* Every step of the server is one of these.
LEMMA ServerGoesOn ==
    ASSUME UploadInv, NEW c \in calls, Handle(c) \/ Break(c), UNCHANGED device
    PROVE  Serves(c.item) /\ \E d : Goes(c, d)
PROOF
<1> DEFINE T == Serves(c.item) /\ \E d : Goes(c, d)
<1>1. /\ c \in Call /\ CallInv(c) /\ (c.kind # "initiate" => c.asset \in Assets)
      /\ c.item \in Items /\ Safe(c.item)
      /\ MaterialsTypeOK
  BY DEF UploadInv, TypeOK, MaterialsTypeOK, CallsInv, CallInv, Call
<1>2. loop' = loop /\ dismissed' = dismissed
  BY DEF device
<1> USE MaterialsAssumption
<1>3. ASSUME NEW s \in {"checked", "stored", "ok", "refused", "error"},
             calls' = Replaced(c, [c EXCEPT !.step = s]),
             Serves(c.item),
             /\ c.kind = "initiate" => s # "ok"
             /\ c.kind = "delete" /\ s = "checked" => asset'[c.asset] = "deleted"
             /\ c.kind = "complete" /\ s = "stored" =>
                  c.asset \in objects' \/ asset'[c.asset] = "deleted"
             /\ c.kind \in {"list", "complete"} /\ s = "ok" => asset'[c.asset] = "uploaded"
      PROVE  T
  <2> DEFINE d == [c EXCEPT !.step = s]
  <2>1. /\ d \in Call
        /\ d.kind = c.kind /\ d.item = c.item /\ d.by = c.by /\ d.asset = c.asset /\ d.step = s
    BY <1>1 DEF Call
  <2>2. Safe(c.item)' /\ (c.kind # "initiate" => Own(c.item, c.asset)')
    BY <1>1, <1>3, SafeStays DEF CallInv
  <2>3. CallInv(d)'
    BY <1>1, <1>2, <1>3, <2>1, <2>2 DEF CallInv
  <2>4. Goes(c, d)
    BY <1>3, <2>1, <2>3 DEF Goes
  <2> QED
    BY <1>3, <2>4
<1>4. CASE CheckVisit(c) \/ ListByVisit(c) \/ RenewUpload(c)
  <2>1. Serves(c.item)
    BY <1>1, <1>4 DEF CheckVisit, ListByVisit, RenewUpload, server, To, Serves, MaterialsTypeOK
  <2> QED
    BY <1>1, <1>3, <1>4, <2>1 DEF CheckVisit, ListByVisit, RenewUpload, At, To, server
<1>5. CASE Create(c)
  <2>1. PICK a \in Assets :
          /\ asset[a] = "none"
          /\ asset' = [asset EXCEPT ![a] = "pending_upload"]
          /\ origin' = [origin EXCEPT ![a] = c.item]
          /\ calls' = Replaced(c, [c EXCEPT !.asset = a, !.step = "ok"])
    BY <1>5 DEF Create
  <2> DEFINE d == [c EXCEPT !.asset = a, !.step = "ok"]
  <2>2. /\ d \in Call /\ c.kind = "initiate"
        /\ d.kind = c.kind /\ d.item = c.item /\ d.by = c.by /\ d.asset = a /\ d.step = "ok"
    BY <1>1, <1>5 DEF Call, Create, At
  <2>3. Serves(c.item)
    BY <1>1, <1>5, <2>1 DEF Create, Serves, MaterialsTypeOK, AssetState
  <2>4. origin'[a] = c.item /\ Safe(c.item)'
    BY <1>1, <2>1, <2>3, SafeStays DEF MaterialsTypeOK
  <2>5. (d.by = "nobody" /\ Answered(d)) \/ CallInv(d)'
    <3>1. c.by = "nobody" \/ (c.by = "queue" /\ loop.at = c.kind /\ loop.item = c.item)
      BY <1>1, <2>2 DEF CallInv, Call
    <3>2. Safe(d.item)' /\ origin'[d.asset] = d.item
      BY <2>2, <2>4
    <3> QED
      BY <1>2, <2>2, <3>1, <3>2 DEF CallInv, Answered
  <2>6. Goes(c, d)
    BY <2>1, <2>2, <2>5 DEF Goes
  <2> QED
    BY <2>3, <2>6
<1>6. CASE PutObject(c) \/ Complete(c) \/ Stat(c)
  <2>1. Serves(c.item)
    BY <1>1, <1>6 DEF PutObject, Complete, Stat, At, server, To, Serves, MaterialsTypeOK
  <2>2. CASE PutObject(c)
    BY <1>1, <1>3, <2>1, <2>2 DEF PutObject, At, To
  <2>3. CASE Complete(c)
    BY <1>1, <1>3, <2>1, <2>3 DEF Complete, At, To, server
  <2>4. CASE Stat(c)
    BY <1>1, <1>3, <2>1, <2>4 DEF Stat, At, To, server
  <2> QED
    BY <1>6, <2>2, <2>3, <2>4
<1>7. CASE MarkUploaded(c)
  <2>1. c.asset \in Assets /\ Own(c.item, c.asset)
        /\ (c.asset \in objects \/ asset[c.asset] = "deleted")
    BY <1>1, <1>7 DEF MarkUploaded, At, CallInv
  <2>2. Serves(c.item)
    BY <1>1, <1>7, <2>1 DEF MarkUploaded, To, Serves, MaterialsTypeOK, AssetState
  <2> QED
    BY <1>1, <1>3, <1>7, <2>1, <2>2 DEF MarkUploaded, At, To, MaterialsTypeOK
<1>8. CASE DeletePending(c)
  <2>1. c.asset \in Assets
    BY <1>1, <1>8 DEF DeletePending, At
  <2>2. Serves(c.item)
    BY <1>1, <1>8, <2>1 DEF DeletePending, To, Serves, MaterialsTypeOK, AssetState
  <2> QED
    BY <1>1, <1>3, <1>8, <2>1, <2>2 DEF DeletePending, At, To, MaterialsTypeOK
<1>9. CASE Remove(c)
  <2>1. c.asset \in Assets /\ asset[c.asset] = "deleted"
    BY <1>1, <1>9 DEF Remove, At, CallInv
  <2>2. Serves(c.item)
    BY <1>1, <1>9, <2>1 DEF Remove, To, Fault, Serves, MaterialsTypeOK
  <2> QED
    BY <1>1, <1>3, <1>9, <2>2 DEF Remove, At, To
<1>10. CASE Break(c)
  <2>1. Serves(c.item)
    BY <1>1, <1>10 DEF Break, Fault, server, Serves, MaterialsTypeOK
  <2> QED
    BY <1>3, <1>10, <2>1 DEF Break
<1> QED
  BY <1>4, <1>5, <1>6, <1>7, <1>8, <1>9, <1>10 DEF Handle

\* What is known of the device and the requests survives a step of the server.
LEMMA KnownStays ==
    ASSUME UploadInv, UNCHANGED device, NEW i \in Items, Serves(i)
    PROVE  /\ LoopInv' /\ OwnerInv' /\ ItemInv' /\ KeptInv' /\ UploadedIsStored'
           /\ \A d \in calls : CallInv(d)'
PROOF
<1> USE DEF device, edits, UploadInv
<1>1. /\ \A j \in Items : Uploaded(j) => Uploaded(j)'
      /\ \A j \in Items : Safe(j) => Safe(j)'
      /\ \A j \in Items, a \in Assets : Own(j, a) => Own(j, a)'
  BY SafeStays
<1>2. LoopInv'
  BY <1>1 DEF LoopInv
<1>3. OwnerInv'
  <2>1. \A a \in Assets : \/ asset'[a] = "none" /\ origin'[a] = None
                          \/ asset'[a] # "none" /\ origin'[a] \in Items
    BY DEF OwnerInv, Serves
  <2>2. \A j \in Items : entry[j].asset # None => origin'[entry[j].asset] = j
    BY MaterialsAssumption DEF OwnerInv, Serves, TypeOK
  <2>3. ASSUME NEW a \in Assets, asset'[a] = "uploaded", origin'[a] \notin forgetful
        PROVE  entry[origin'[a]].asset = a
    <3>1. CASE asset[a] = "uploaded"
      BY <2>3, <3>1 DEF OwnerInv, Serves
    <3>2. CASE asset[a] # "uploaded"
      BY <2>3, <3>2, MaterialsAssumption DEF OwnerInv, Serves, Own
    <3> QED
      BY <3>1, <3>2
  <2> QED
    BY <2>1, <2>2, <2>3 DEF OwnerInv
<1>4. \A j \in Items : Made(j)' => Made(j) \/ j = i
  BY DEF Made, Serves
<1>5. ItemInv'
  <2>1. i \notin saving
    BY DEF ItemInv, Serves, Safe, Made, UploadedAs, Uploaded
  <2> QED
    BY <1>1, <1>4, <2>1 DEF ItemInv, Fresh, TypeOK
<1>6. KeptInv'
  BY <1>1, <1>4 DEF KeptInv, Fresh, Serves
<1>7. UploadedIsStored'
  BY DEF UploadedIsStored, Serves
<1>8. ASSUME NEW d \in calls PROVE CallInv(d)'
  <2>1. CallInv(d) /\ d \in Call /\ d.item \in Items /\ (d.kind # "initiate" => d.asset \in Assets)
    BY DEF CallsInv, TypeOK, MaterialsTypeOK, Call
  <2>2. Safe(d.item)' /\ (d.kind # "initiate" => Own(d.item, d.asset)')
    BY <1>1, <2>1 DEF CallInv
  <2> QED
    BY <2>1, <2>2, MaterialsAssumption DEF CallInv, Serves, OwnerInv
<1> QED
  BY <1>2, <1>3, <1>5, <1>6, <1>7, <1>8

\* The server carries a request on, or an error ends it.
LEMMA ServerStep ==
    ASSUME UploadInv, NEW c \in calls, Handle(c) \/ Break(c), UNCHANGED device
    PROVE  UploadInv'
PROOF
<1>1. c \in Call /\ c.item \in Items
  BY DEF UploadInv, TypeOK, MaterialsTypeOK, Call
<1>2. PICK d : Goes(c, d)
  BY ServerGoesOn
<1>3. Serves(c.item)
  BY ServerGoesOn
<1>4. \A e \in calls' : e \in calls \/ (e = d /\ CallInv(e)')
  BY <1>2 DEF Goes, Replaced
<1>5. CallsInv'
  BY <1>1, <1>3, <1>4, KnownStays DEF CallsInv
<1>6. OneCall'
  <2>1. \A e \in calls' : e.by = "queue" => (e \in calls /\ e # c) \/ (e = d /\ c.by = "queue")
    BY <1>2 DEF Goes, Replaced
  <2> QED
    BY <2>1 DEF OneCall, UploadInv
<1>7. TypeOK'
  <2>1. calls' \subseteq Call /\ \A e \in calls' : e.kind # "initiate" => e.asset # None
    BY <1>2 DEF Goes, Replaced, UploadInv, TypeOK, MaterialsTypeOK
  <2>2. MaterialsTypeOK'
    BY <1>3, <2>1 DEF Serves, MaterialsTypeOK
  <2> QED
    BY <2>2 DEF UploadInv, TypeOK, device, edits
<1> QED
  BY <1>1, <1>3, <1>5, <1>6, <1>7, KnownStays DEF UploadInv

\* A sender goes on without the answer, and the request without its sender.
LEMMA GivingUpStep ==
    ASSUME UploadInv, NEW c \in calls, GiveUp(c), UNCHANGED device
    PROVE  UploadInv'
PROOF
<1>1. c \in Call /\ c.item \in Items /\ CallInv(c) /\ (c.kind # "initiate" => c.asset \in Assets)
  BY DEF UploadInv, TypeOK, MaterialsTypeOK, Call, CallsInv
<1> DEFINE d == [c EXCEPT !.step = "error"]
           o == [c EXCEPT !.by = "nobody"]
<1>2. /\ d \in Call /\ d.kind = c.kind /\ d.item = c.item /\ d.asset = c.asset /\ d.by = c.by
      /\ d.step = "error"
      /\ o \in Call /\ o.kind = c.kind /\ o.item = c.item /\ o.asset = c.asset /\ o.by = "nobody"
      /\ o.step = c.step
  BY <1>1 DEF Call
<1>3. /\ asset' = asset /\ origin' = origin /\ objects' = objects /\ visit' = visit
      /\ faults' \in 0..MaxFaults
  BY MaterialsAssumption DEF GiveUp, Fault, server, UploadInv, TypeOK, MaterialsTypeOK
<1>4. Serves(c.item)
  BY <1>1, <1>3 DEF Serves, UploadInv, TypeOK, MaterialsTypeOK, CallInv
<1>5. /\ loop' = loop /\ dismissed' = dismissed /\ Safe(c.item)'
      /\ c.kind # "initiate" => Own(c.item, c.asset)'
  BY <1>1, <1>4, SafeStays DEF device, CallInv
<1>6. \A e \in calls' : \/ e \in calls \ {c} \/ e = d
                        \/ e = o /\ ~ Answered(c)
  BY DEF GiveUp
<1>7. CallInv(d)'
  BY <1>1, <1>2, <1>3, <1>5 DEF CallInv
<1>8. ~ Answered(c) => CallInv(o)'
  BY <1>1, <1>2, <1>3, <1>5 DEF CallInv, Answered
<1>9. CallsInv'
  BY <1>1, <1>4, <1>6, <1>7, <1>8, KnownStays DEF CallsInv
<1>10. OneCall'
  <2>1. \A e \in calls' : e.by = "queue" => (e \in calls /\ e # c) \/ (e = d /\ c.by = "queue")
    BY <1>2, <1>6
  <2> QED
    BY <2>1 DEF OneCall, UploadInv
<1>11. TypeOK'
  <2>1. \A e \in calls' : e \in Call /\ (e.kind # "initiate" => e.asset # None)
    BY <1>2, <1>6 DEF UploadInv, TypeOK, MaterialsTypeOK
  <2>2. MaterialsTypeOK'
    BY <1>4, <2>1 DEF Serves, MaterialsTypeOK
  <2> QED
    BY <2>2 DEF UploadInv, TypeOK, device, edits
<1> QED
  BY <1>1, <1>4, <1>9, <1>10, <1>11, KnownStays DEF UploadInv

---------------------------------------------------------------------------
\* The steps of the device.

\* The record of an item nothing has been done about.
LEMMA FreshEntry ==
    ASSUME TypeOK, NEW i \in Items
    PROVE  Fresh(i) <=> entry[i] = NewEntry
PROOF
<1>1. entry[i] = [state |-> entry[i].state, asset |-> entry[i].asset]
  BY DEF TypeOK
<1> QED
  BY <1>1 DEF Fresh, NewEntry

\* The requests of a sender on the device, with what they ask.
LEMMA SentIsTyped ==
    ASSUME NEW kind \in {"initiate", "list", "renew", "put", "complete", "delete"},
           NEW i \in Items, NEW a \in Assets \cup {None}, NEW by \in {"queue", "page", "nobody"}
    PROVE  LET d == Sent(kind, i, a, by) IN
           /\ d \in Call
           /\ d.kind = kind /\ d.item = i /\ d.asset = a /\ d.by = by /\ d.step = "sent"
PROOF
<1> QED
  BY DEF Sent, Call

\* The steps that leave requests and loop alone.
LEMMA PageStep ==
    ASSUME UploadInv, NEW i \in Items,
           SaveCapturedFile(i) \/ Add(i) \/ RemoveSavedFile(i) \/ RemoveListed(i)
    PROVE  UploadInv'
PROOF
<1> USE DEF UploadInv, edits
<1>1. /\ asset' = asset /\ origin' = origin /\ objects' = objects /\ visit' = visit
      /\ calls' = calls /\ faults' = faults /\ todo' = todo /\ loop' = loop
      /\ dismissed' = dismissed /\ submission' = submission
      /\ UNCHANGED edits
  BY DEF SaveCapturedFile, Add, RemoveSavedFile, RemoveListed, server
<1>2. /\ files' \cup saving' \cup listed' \subseteq Items
      /\ removing' \in [Items -> {"no", "delete", "unlink", "drop"}]
  BY DEF SaveCapturedFile, Add, RemoveSavedFile, RemoveListed, TypeOK
<1>3. entry' = entry
  <2>1. CASE Add(i)
    BY <2>1, FreshEntry DEF Add, ItemInv, TypeOK
  <2> QED
    BY <2>1 DEF SaveCapturedFile, RemoveSavedFile, RemoveListed
<1>4. /\ \A j \in Items : Uploaded(j)' <=> Uploaded(j)
      /\ \A j \in Items : Made(j)' <=> Made(j)
      /\ \A j \in Items : Fresh(j)' <=> Fresh(j)
      /\ \A j \in Items, d \in Assets : Own(j, d)' <=> Own(j, d)
  BY <1>1, <1>3 DEF Uploaded, UploadedAs, Made, Fresh, Own
<1>5. \A j \in Items : Safe(j) => Safe(j)'
  <2>1. removing[i] # "no" => i \in dismissed
    BY DEF ItemInv
  <2> QED
    BY <1>1, <1>4, <2>1 DEF Safe, SaveCapturedFile, Add, RemoveSavedFile, RemoveListed, TypeOK
<1>6. TypeOK'
  BY <1>1, <1>2, <1>3 DEF TypeOK, MaterialsTypeOK
<1>7. CallsInv' /\ OneCall'
  BY <1>1, <1>3, <1>5 DEF TypeOK, MaterialsTypeOK, Call, CallsInv, CallInv, OneCall, Own
<1>8. LoopInv' /\ OwnerInv' /\ UploadedIsStored'
  BY <1>1, <1>3, <1>4, <1>5 DEF LoopInv, OwnerInv, Own, UploadedIsStored
<1>9. ItemInv'
  <2>1. \A j \in Items : removing'[j] # "no" => j \in dismissed
    BY DEF ItemInv, SaveCapturedFile, Add, RemoveSavedFile, RemoveListed, TypeOK
  <2>2. \A j \in todo : Safe(j)'
    BY <1>5 DEF ItemInv, TypeOK
  <2>3. SaveCapturedFile(i) => Fresh(i) /\ ~ Made(i) /\ i \notin listed \cup dismissed
    BY FreshEntry DEF SaveCapturedFile, added, Made
  <2>4. \A j \in saving' : j \in files' /\ j \notin listed' \cup dismissed' /\ Fresh(j) /\ ~ Made(j)
    BY <1>1, <2>3 DEF ItemInv, SaveCapturedFile, Add, RemoveSavedFile, RemoveListed, TypeOK
  <2> QED
    BY <1>1, <1>2, <1>4, <2>1, <2>2, <2>4 DEF ItemInv
<1>10. KeptInv'
  <2>1. ASSUME NEW j \in Items, j \in listed', j \notin listed PROVE Safe(j)'
    BY <1>1, <2>1 DEF Safe, ItemInv, SaveCapturedFile, Add, RemoveSavedFile, RemoveListed
  <2> QED
    BY <1>4, <1>5, <2>1 DEF KeptInv
<1> QED
  BY <1>6, <1>7, <1>8, <1>9, <1>10

\* The staff begins to edit an item, and the page takes the edit: but for the
\* edits, nothing changes.
LEMMA EditStep ==
    ASSUME UploadInv, RenameItem \/ \E i \in Items : Edit(i)
    PROVE  UploadInv'
PROOF
<1> USE DEF UploadInv
<1>1. /\ asset' = asset /\ origin' = origin /\ objects' = objects /\ visit' = visit
      /\ calls' = calls /\ faults' = faults /\ todo' = todo /\ loop' = loop
      /\ dismissed' = dismissed /\ submission' = submission /\ entry' = entry
      /\ files' = files /\ saving' = saving /\ listed' = listed /\ removing' = removing
  BY DEF RenameItem, Edit, server
<1>2. /\ editing' \in Items \cup {None} /\ detached' \cup replaced' \cup forgetful' \subseteq Items
      /\ forgetful \subseteq forgetful'
      /\ \A i \in detached' : entry[i].asset = None => i \in forgetful'
  BY DEF RenameItem, Edit, OwnerInv, TypeOK
<1>3. /\ \A j \in Items : Safe(j)' <=> Safe(j)
      /\ \A j \in Items : Uploaded(j)' <=> Uploaded(j)
      /\ \A j \in Items : Made(j)' <=> Made(j)
      /\ \A j \in Items : Fresh(j)' <=> Fresh(j)
  BY <1>1 DEF Safe, Uploaded, UploadedAs, Made, Fresh
<1>4. TypeOK'
  BY <1>1, <1>2 DEF TypeOK, MaterialsTypeOK
<1>5. CallsInv' /\ OneCall'
  BY <1>1, <1>2, <1>3 DEF TypeOK, MaterialsTypeOK, Call, CallsInv, CallInv, OneCall, Own
<1>6. LoopInv' /\ OwnerInv' /\ UploadedIsStored'
  BY <1>1, <1>2, <1>3 DEF LoopInv, OwnerInv, Own, UploadedIsStored
<1>7. ItemInv' /\ KeptInv'
  BY <1>1, <1>3 DEF ItemInv, KeptInv, TypeOK
<1> QED
  BY <1>4, <1>5, <1>6, <1>7

\* The staff asks to remove an item, and is answered.
LEMMA RemoveStep ==
    ASSUME UploadInv
    PROVE  /\ \A i \in Items : RemoveItem(i) => UploadInv'
           /\ \A c \in calls : Deleted(c) => UploadInv'
PROOF
<1> USE DEF UploadInv, edits
<1>1. ASSUME NEW i \in Items, RemoveItem(i) PROVE UploadInv'
  <2>1. /\ asset' = asset /\ origin' = origin /\ objects' = objects /\ visit' = visit
        /\ faults' = faults /\ todo' = todo /\ loop' = loop /\ entry' = entry
        /\ files' = files /\ saving' = saving /\ listed' = listed /\ submission' = submission
        /\ UNCHANGED edits
        /\ dismissed' = dismissed \cup {i} /\ i \in listed
    BY <1>1 DEF RemoveItem, server
  <2> DEFINE d == Sent("delete", i, entry[i].asset, "page")
  <2>2. entry[i].asset \in Assets \cup {None}
    BY DEF TypeOK
  <2>3. /\ d \in Call
        /\ d.kind = "delete" /\ d.item = i /\ d.asset = entry[i].asset /\ d.by = "page" /\ d.step = "sent"
    BY <2>2, SentIsTyped
  <2>4. \A e \in calls' : e \in calls \/ (e = d /\ entry[i].asset # None)
    BY <1>1 DEF RemoveItem
  <2>5. /\ \A j \in Items : Uploaded(j)' <=> Uploaded(j)
        /\ \A j \in Items : Made(j)' <=> Made(j)
        /\ \A j \in Items : Safe(j) => Safe(j)'
        /\ Safe(i)'
    BY <2>1 DEF Uploaded, UploadedAs, Made, Safe
  <2>6. TypeOK'
    BY <1>1, <2>1, <2>3, <2>4 DEF RemoveItem, TypeOK, MaterialsTypeOK
  <2>7. CallsInv' /\ OneCall'
    <3>1. entry[i].asset # None => Own(i, entry[i].asset)
      BY DEF OwnerInv, Own
    <3>2. ASSUME NEW e \in calls PROVE CallInv(e)'
      BY <2>1, <2>5 DEF TypeOK, MaterialsTypeOK, Call, CallsInv, CallInv, Own
    <3> QED
      BY <2>1, <2>3, <2>4, <2>5, <3>1, <3>2 DEF CallsInv, CallInv, OneCall, Own
  <2>8. LoopInv' /\ OwnerInv' /\ UploadedIsStored'
    BY <2>1, <2>5 DEF LoopInv, OwnerInv, Own, UploadedIsStored
  <2>9. ItemInv' /\ KeptInv'
    BY <1>1, <2>1, <2>5 DEF RemoveItem, ItemInv, KeptInv, Fresh, TypeOK
  <2> QED
    BY <2>6, <2>7, <2>8, <2>9
<1>2. ASSUME NEW c \in calls, Deleted(c) PROVE UploadInv'
  <2>1. /\ asset' = asset /\ origin' = origin /\ objects' = objects /\ visit' = visit
        /\ faults' = faults /\ todo' = todo /\ loop' = loop /\ entry' = entry
        /\ files' = files /\ saving' = saving /\ listed' = listed /\ submission' = submission
        /\ UNCHANGED edits
        /\ dismissed' = dismissed /\ calls' = calls \ {c} /\ c.item \in dismissed
    BY <1>2 DEF Deleted, server, CallsInv, CallInv
  <2>2. /\ \A j \in Items : Uploaded(j)' <=> Uploaded(j)
        /\ \A j \in Items : Made(j)' <=> Made(j)
        /\ \A j \in Items : Safe(j)' <=> Safe(j)
    BY <2>1 DEF Uploaded, UploadedAs, Made, Safe
  <2>3. TypeOK'
    BY <1>2, <2>1 DEF Deleted, TypeOK, MaterialsTypeOK
  <2>4. CallsInv' /\ OneCall'
    BY <2>1, <2>2 DEF TypeOK, MaterialsTypeOK, Call, CallsInv, CallInv, OneCall, Own
  <2>5. LoopInv' /\ OwnerInv' /\ UploadedIsStored'
    BY <2>1, <2>2 DEF LoopInv, OwnerInv, Own, UploadedIsStored
  <2>6. ItemInv' /\ KeptInv'
    BY <1>2, <2>1, <2>2 DEF Deleted, ItemInv, KeptInv, Fresh, TypeOK
  <2> QED
    BY <2>3, <2>4, <2>5, <2>6
<1> QED
  BY <1>1, <1>2

\* The loop begins with an item, or gives its entry another state or its asset,
\* unless that is detached.
Turns(i) ==
    /\ Safe(i)
    /\ entry' \in [Items -> [state : UploadState, asset : Assets \cup {None}]]
    /\ \A j \in Items \ {i} : entry'[j] = entry[j]
    /\ entry'[i].state = "completed" =>
         entry[i].state = "completed" \/ (loop'.at = "unlink" /\ loop'.item = i)
    /\ \/ entry'[i].asset = entry[i].asset
       \/ /\ entry[i].asset = None /\ entry'[i].asset \in Assets
          /\ origin[entry'[i].asset] = i
    /\ todo' \subseteq todo
    /\ UNCHANGED <<server, edits, faults, files, saving, listed, removing, submission, dismissed>>

\* It asks the server one thing at most.
Asks ==
    \/ \A e \in calls' : e \in calls /\ e.by # "queue"
    \/ \E d \in Call :
         /\ d.by = "queue" /\ d.step = "sent" /\ loop'.at = d.kind /\ loop'.item = d.item
         /\ Safe(d.item)
         /\ d.kind # "initiate" => d.asset # None /\ Own(d.item, d.asset)
         /\ \A e \in calls' : e = d \/ (e \in calls /\ e.by # "queue")

\* The values loop takes.
LoopType == [at : LoopSteps, item : Items \cup {None}, ticket : Assets \cup {None}]

LEMMA TurnOwns ==
    ASSUME UploadInv, NEW i \in Items, Turns(i)
    PROVE  /\ \A j \in Items : Uploaded(j)' <=> Uploaded(j)
           /\ \A j \in Items : Made(j)' <=> Made(j)
           /\ \A j \in Items : Safe(j)' <=> Safe(j)
           /\ \A j \in Items, a \in Assets : Own(j, a) => Own(j, a)'
PROOF
<1>1. /\ asset' = asset /\ origin' = origin /\ dismissed' = dismissed
      /\ files' = files /\ listed' = listed /\ forgetful' = forgetful
  BY DEF Turns, server, edits
<1>2. \A j \in Items : Uploaded(j)' <=> Uploaded(j)
  BY <1>1 DEF Uploaded, UploadedAs
<1>3. /\ \A j \in Items : Made(j)' <=> Made(j)
      /\ \A j \in Items : Safe(j)' <=> Safe(j)
  BY <1>1, <1>2 DEF Made, Safe
<1>4. \A j \in Items, a \in Assets : Own(j, a) => Own(j, a)'
  BY <1>1, MaterialsAssumption DEF Turns, Own
<1> QED
  BY <1>2, <1>3, <1>4

LEMMA TurnKeeps ==
    ASSUME UploadInv, NEW i \in Items, Turns(i), Asks, loop' \in LoopType, LoopInv'
    PROVE  UploadInv'
PROOF
<1> USE MaterialsAssumption DEF UploadInv
<1>1. /\ asset' = asset /\ origin' = origin /\ objects' = objects /\ visit' = visit
      /\ faults' = faults /\ files' = files /\ saving' = saving /\ listed' = listed
      /\ removing' = removing /\ dismissed' = dismissed /\ submission' = submission
      /\ editing' = editing /\ detached' = detached /\ replaced' = replaced
      /\ forgetful' = forgetful
  BY DEF Turns, server, edits
<1>2. \A e \in calls' : e \in Call /\ (e.kind # "initiate" => e.asset # None)
  BY DEF Asks, TypeOK, MaterialsTypeOK
<1>3. TypeOK'
  BY <1>1, <1>2 DEF Turns, TypeOK, MaterialsTypeOK, LoopType
<1>4. /\ \A j \in Items : Uploaded(j)' <=> Uploaded(j)
      /\ \A j \in Items : Made(j)' <=> Made(j)
      /\ \A j \in Items : Safe(j)' <=> Safe(j)
      /\ \A j \in Items, a \in Assets : Own(j, a) => Own(j, a)'
  BY TurnOwns
<1>5. OwnerInv'
  <2>1. \A j \in Items : entry'[j].asset # None => origin[entry'[j].asset] = j
    BY DEF Turns, OwnerInv
  <2>2. \A a \in Assets :
          asset[a] = "uploaded" /\ origin[a] \notin forgetful => entry'[origin[a]].asset = a
    BY DEF Turns, OwnerInv
  <2>3. \A j \in detached : entry'[j].asset = None => j \in forgetful
    BY DEF Turns, OwnerInv, TypeOK
  <2>4. \A a \in Assets : \/ asset[a] = "none" /\ origin[a] = None
                          \/ asset[a] # "none" /\ origin[a] \in Items
    BY DEF OwnerInv
  <2> QED
    BY <1>1, <2>1, <2>2, <2>3, <2>4 DEF OwnerInv
<1>6. ItemInv'
  <2>1. i \notin saving
    BY DEF Turns, ItemInv, Safe, Made, Uploaded, UploadedAs
  <2>2. \A j \in Items : j # i /\ Fresh(j) => Fresh(j)'
    BY DEF Turns, Fresh
  <2>3. saving \subseteq Items /\ todo' \subseteq todo /\ todo \subseteq Items
    BY DEF TypeOK, Turns
  <2> QED
    BY <1>1, <1>4, <2>1, <2>2, <2>3 DEF ItemInv
<1>7. KeptInv'
  <2>1. \A j \in Items : ~ Fresh(j)' => ~ Fresh(j) \/ j = i
    BY DEF Turns, Fresh
  <2> QED
    BY <1>1, <1>4, <2>1 DEF Turns, KeptInv
<1>8. ASSUME NEW e \in calls, e.by # "queue" PROVE CallInv(e)'
  <2>1. CallInv(e) /\ e.item \in Items /\ (e.kind # "initiate" => e.asset \in Assets)
    BY DEF CallsInv, TypeOK, MaterialsTypeOK, Call
  <2> QED
    BY <1>1, <1>4, <1>8, <2>1 DEF CallInv
<1>9. CallsInv' /\ OneCall'
  <2>1. CASE \A e \in calls' : e \in calls /\ e.by # "queue"
    BY <1>8, <2>1 DEF CallsInv, OneCall
  <2>2. ASSUME NEW d \in Call,
               d.by = "queue", d.step = "sent", loop'.at = d.kind, loop'.item = d.item,
               Safe(d.item),
               d.kind # "initiate" => d.asset # None /\ Own(d.item, d.asset),
               \A e \in calls' : e = d \/ (e \in calls /\ e.by # "queue")
        PROVE  CallsInv' /\ OneCall'
    <3>1. d.item \in Items /\ (d.kind # "initiate" => d.asset \in Assets)
      BY <2>2 DEF Call
    <3>2. Safe(d.item)' /\ (d.kind # "initiate" => Own(d.item, d.asset)')
      BY <1>4, <2>2, <3>1
    <3>3. CallInv(d)'
      BY <2>2, <3>2 DEF CallInv
    <3> QED
      BY <1>8, <2>2, <3>3 DEF CallsInv, OneCall
  <2> QED
    BY <2>1, <2>2 DEF Asks
<1>10. UploadedIsStored'
  BY <1>1 DEF UploadedIsStored
<1> QED
  BY <1>3, <1>5, <1>6, <1>7, <1>9, <1>10

\* While it does not wait for an answer there is none for it.
LEMMA NoneAsked ==
    ASSUME UploadInv, loop.at \notin {"initiate", "list", "renew", "put", "complete"}
    PROVE  \A e \in calls : e.by # "queue"
PROOF
<1> QED
  BY DEF UploadInv, TypeOK, MaterialsTypeOK, CallsInv, CallInv, Call, LoopSteps

\* What the loop writes when it goes to another step.
LEMMA TurnWrites ==
    ASSUME TypeOK, NEW i \in Items, NEW step \in LoopSteps, NEW state \in UploadState,
           Turn(step, i, state)
    PROVE  /\ loop' \in LoopType /\ loop'.at = step /\ loop'.item = i
           /\ entry' \in [Items -> [state : UploadState, asset : Assets \cup {None}]]
           /\ \A j \in Items \ {i} : entry'[j] = entry[j]
           /\ entry'[i].asset = entry[i].asset
           /\ entry'[i].state \in {entry[i].state, state}
PROOF
<1>1. /\ entry \in [Items -> [state : UploadState, asset : Assets \cup {None}]]
  BY DEF TypeOK
<1>2. loop' = [at |-> step, item |-> i, ticket |-> None]
  BY DEF Turn
<1>3. CASE i \in detached
  BY <1>1, <1>2, <1>3 DEF Turn, Write, LoopType
<1>4. CASE i \notin detached
  BY <1>1, <1>2, <1>4 DEF Turn, Write, LoopType
<1> QED
  BY <1>3, <1>4

\* The next item of the loop, and the file of its item.
LEMMA AskingStep ==
    ASSUME UploadInv, NEW i \in Items, NextItem(i) \/ (ReadFile /\ i = loop.item)
    PROVE  UploadInv' /\ Turns(i)
PROOF
<1> USE DEF UploadInv
<1>1. /\ entry \in [Items -> [state : UploadState, asset : Assets \cup {None}]]
      /\ loop \in LoopType
  BY DEF TypeOK, LoopType
<1>2. \A e \in calls : e.by # "queue"
  BY NoneAsked DEF NextItem, ReadFile
<1>3. /\ Safe(i)
      /\ UNCHANGED <<server, edits, faults, files, saving, listed, removing, submission, dismissed>>
      /\ todo' \subseteq todo
  BY DEF NextItem, ReadFile, ItemInv, LoopInv
<1>4. ASSUME NEW step \in LoopSteps, NEW state \in UploadState \ {"completed"}, Turn(step, i, state)
      PROVE  /\ Turns(i) /\ loop' \in LoopType /\ loop'.at = step /\ loop'.item = i
             /\ entry'[i].asset = entry[i].asset
             /\ Safe(i)'
  <2>1. /\ loop' \in LoopType /\ loop'.at = step /\ loop'.item = i
        /\ entry' \in [Items -> [state : UploadState, asset : Assets \cup {None}]]
        /\ \A j \in Items \ {i} : entry'[j] = entry[j]
        /\ entry'[i].asset = entry[i].asset
        /\ entry'[i].state \in {entry[i].state, state}
    BY <1>4, TurnWrites
  <2>2. Turns(i)
    BY <1>3, <1>4, <2>1 DEF Turns
  <2> QED
    BY <1>3, <2>1, <2>2, TurnOwns
<1>5. CASE NextItem(i)
  <2> DEFINE a == entry[i].asset
  <2>1. a \in Assets \cup {None}
    BY <1>1
  <2>2. CASE UNCHANGED <<loop, entry, calls>>
    <3>1. Turns(i) /\ Asks
      BY <1>1, <1>2, <1>3, <2>2 DEF Turns, Asks
    <3>2. LoopInv'
      BY <1>5, <2>2 DEF NextItem, LoopInv
    <3> QED
      BY <1>1, <2>2, <3>1, <3>2, TurnKeeps
  <2>3. CASE a # None /\ Turn("list", i, "uploading") /\ calls' = Ask("list", i, a)
    <3> DEFINE d == Sent("list", i, a, "queue")
    <3>1. /\ d \in Call
          /\ d.kind = "list" /\ d.item = i /\ d.asset = a /\ d.by = "queue" /\ d.step = "sent"
      BY <2>1, SentIsTyped
    <3>2. Turns(i) /\ loop' \in LoopType /\ loop'.at = "list" /\ loop'.item = i /\ Safe(i)'
      BY <1>4, <2>3 DEF LoopSteps, UploadState
    <3>3. Own(i, a)
      BY <2>3 DEF OwnerInv, Own
    <3>4. Asks
      BY <1>2, <1>3, <2>3, <3>1, <3>2, <3>3 DEF Ask, Asks
    <3>5. LoopInv'
      BY <3>2 DEF LoopInv
    <3> QED
      BY <3>2, <3>4, <3>5, TurnKeeps
  <2>4. CASE a = None /\ Turn("initiate", i, "uploading") /\ calls' = Ask("initiate", i, None)
    <3> DEFINE d == Sent("initiate", i, None, "queue")
    <3>1. /\ d \in Call
          /\ d.kind = "initiate" /\ d.item = i /\ d.asset = None /\ d.by = "queue" /\ d.step = "sent"
      BY SentIsTyped
    <3>2. /\ Turns(i) /\ loop' \in LoopType /\ loop'.at = "initiate" /\ loop'.item = i /\ Safe(i)'
          /\ entry'[i].asset = None
      BY <1>4, <2>4 DEF LoopSteps, UploadState
    <3>3. Asks
      BY <1>2, <1>3, <2>4, <3>1, <3>2 DEF Ask, Asks
    <3>4. LoopInv'
      BY <3>2 DEF LoopInv
    <3> QED
      BY <3>2, <3>3, <3>4, TurnKeeps
  <2>5. CASE Fail(i) /\ UNCHANGED calls
    <3>1. Turns(i) /\ loop' \in LoopType /\ loop'.at = "next"
      BY <1>4, <2>5 DEF Fail, LoopSteps, UploadState
    <3>2. Asks /\ LoopInv'
      BY <1>2, <2>5, <3>1 DEF Asks, LoopInv
    <3> QED
      BY <3>1, <3>2, TurnKeeps
  <2> QED
    BY <1>5, <2>2, <2>3, <2>4, <2>5 DEF NextItem
<1>6. CASE ReadFile /\ i = loop.item
  <2>1. loop.ticket \in Assets /\ Own(i, loop.ticket)
    BY <1>6 DEF ReadFile, LoopInv
  <2>2. CASE /\ loop' = [loop EXCEPT !.at = "put"]
             /\ calls' = Ask("put", i, loop.ticket)
             /\ UNCHANGED entry
    <3> DEFINE d == Sent("put", i, loop.ticket, "queue")
    <3>1. /\ d \in Call
          /\ d.kind = "put" /\ d.item = i /\ d.asset = loop.ticket /\ d.by = "queue" /\ d.step = "sent"
      BY <2>1, SentIsTyped
    <3>2. loop' \in LoopType /\ loop'.at = "put" /\ loop'.item = i
      BY <1>1, <1>6, <2>2 DEF LoopSteps, LoopType
    <3>3. Turns(i)
      BY <1>1, <1>3, <2>2 DEF Turns
    <3>4. Asks
      BY <1>2, <1>3, <2>1, <2>2, <3>1, <3>2, MaterialsAssumption DEF Ask, Asks
    <3>5. LoopInv'
      BY <1>3, <3>2, <3>3, TurnOwns DEF LoopInv
    <3> QED
      BY <3>2, <3>3, <3>4, <3>5, TurnKeeps
  <2>3. CASE Fail(i) /\ UNCHANGED calls
    <3>1. Turns(i) /\ loop' \in LoopType /\ loop'.at = "next"
      BY <1>4, <2>3 DEF Fail, LoopSteps, UploadState
    <3>2. Asks /\ LoopInv'
      BY <1>2, <2>3, <3>1 DEF Asks, LoopInv
    <3> QED
      BY <3>1, <3>2, TurnKeeps
  <2> QED
    BY <1>6, <2>2, <2>3 DEF ReadFile
<1> QED
  BY <1>5, <1>6

\* The loop gets an answer.
LEMMA AnswerStep ==
    ASSUME UploadInv, NEW c \in calls,
           Initiated(c) \/ LookedUp(c) \/ Renewed(c) \/ PutDone(c) \/ Completed(c)
    PROVE  UploadInv' /\ Turns(c.item)
PROOF
<1> USE DEF UploadInv
<1> DEFINE i == c.item
<1>1. /\ entry \in [Items -> [state : UploadState, asset : Assets \cup {None}]]
      /\ loop \in LoopType
      /\ c \in Call /\ i \in Items /\ c.asset \in Assets \cup {None}
      /\ c.kind # "initiate" => c.asset # None
  BY DEF TypeOK, MaterialsTypeOK, Call, LoopType
<1>2. /\ CallInv(c) /\ Safe(i) /\ c.by = "queue" /\ loop.at = c.kind /\ loop.item = i
      /\ UNCHANGED <<server, edits, faults, files, saving, listed, todo, removing, submission,
                     dismissed>>
  BY DEF CallsInv, CallInv, Initiated, LookedUp, Renewed, PutDone, Completed, Receive
<1>3. loop.at \notin {"idle", "next"}
  BY <1>1, <1>2 DEF Call, LoopInv
<1>4. \A e \in calls \ {c} : e.by # "queue"
  BY <1>2 DEF OneCall
<1>5. CASE Fail(i) /\ Close(c)
  <2>1. /\ loop' \in LoopType /\ loop'.at = "next" /\ loop'.item = i
        /\ entry' \in [Items -> [state : UploadState, asset : Assets \cup {None}]]
        /\ \A j \in Items \ {i} : entry'[j] = entry[j]
        /\ entry'[i].asset = entry[i].asset
        /\ entry'[i].state \in {entry[i].state, "failed"}
    BY <1>1, <1>5, TurnWrites DEF Fail, LoopSteps, UploadState
  <2>2. Turns(i)
    BY <1>2, <2>1 DEF Turns
  <2>3. Asks /\ LoopInv'
    BY <1>4, <1>5, <2>1 DEF Close, Asks, LoopInv
  <2> QED
    BY <1>1, <2>1, <2>2, <2>3, TurnKeeps
<1>6. CASE /\ Turn("unlink", i, "completed") /\ Close(c)
           /\ c.kind \in {"list", "complete"} /\ c.step = "ok"
  <2>1. /\ loop' \in LoopType /\ loop'.at = "unlink" /\ loop'.item = i
        /\ entry' \in [Items -> [state : UploadState, asset : Assets \cup {None}]]
        /\ \A j \in Items \ {i} : entry'[j] = entry[j]
        /\ entry'[i].asset = entry[i].asset
    BY <1>1, <1>6, TurnWrites DEF LoopSteps, UploadState
  <2>2. Turns(i)
    BY <1>2, <2>1 DEF Turns
  <2>3. Uploaded(i)
    BY <1>1, <1>2, <1>6 DEF CallInv, Own, Uploaded, UploadedAs
  <2>4. LoopInv'
    BY <1>1, <1>2, <2>1, <2>2, <2>3, TurnOwns DEF LoopInv
  <2>5. Asks
    BY <1>4, <1>6 DEF Close, Asks
  <2> QED
    BY <1>1, <2>1, <2>2, <2>4, <2>5, TurnKeeps
<1>7. ASSUME NEW kind \in {"renew", "complete"}, Follow(c, kind), c.kind # "initiate"
      PROVE  UploadInv' /\ Turns(i)
  <2> DEFINE d == Sent(kind, i, c.asset, "queue")
  <2>1. /\ d \in Call
        /\ d.kind = kind /\ d.item = i /\ d.asset = c.asset /\ d.by = "queue" /\ d.step = "sent"
    BY <1>1, SentIsTyped
  <2>2. loop' \in LoopType /\ loop'.at = kind /\ loop'.item = i
    BY <1>1, <1>2, <1>7 DEF Follow, LoopSteps, LoopType
  <2>3. entry' = entry /\ Own(i, c.asset)
    BY <1>2, <1>7 DEF Follow, CallInv
  <2>4. Turns(i)
    BY <1>1, <1>2, <2>3 DEF Turns
  <2>5. LoopInv'
    BY <1>1, <1>2, <1>7, <2>2, <2>4, TurnOwns DEF LoopInv
  <2>6. Asks
    BY <1>1, <1>2, <1>4, <1>7, <2>1, <2>2, <2>3 DEF Follow, Asks
  <2> QED
    BY <1>1, <2>2, <2>4, <2>5, <2>6, TurnKeeps
<1>8. CASE Initiated(c) /\ c.step = "ok"
  <2>1. c.kind = "initiate" /\ entry[i].asset = None
    BY <1>2, <1>8 DEF Initiated, Receive, LoopInv
  <2>2. c.asset \in Assets /\ origin[c.asset] = i
    BY <1>2, <1>8, <2>1 DEF CallInv
  <2>3. loop' \in LoopType /\ loop'.at = "read" /\ loop'.item = i /\ loop'.ticket = c.asset
    BY <1>1, <1>8 DEF Initiated, TakeTicket, LoopSteps, LoopType
  <2>4. Write(i, [entry[i] EXCEPT !.asset = c.asset])
    BY <1>8 DEF Initiated
  <2>5. /\ i \in detached => entry' = entry /\ i \in forgetful
        /\ i \notin detached => entry' = [entry EXCEPT ![i] = [entry[i] EXCEPT !.asset = c.asset]]
    BY <2>1, <2>4 DEF Write, OwnerInv
  <2>6. Turns(i) /\ (i \notin forgetful => entry'[i].asset = c.asset)
    <3>1. CASE i \in detached
      BY <1>1, <1>2, <2>5, <3>1 DEF Turns
    <3>2. CASE i \notin detached
      BY <1>1, <1>2, <2>1, <2>2, <2>5, <3>2 DEF Turns
    <3> QED
      BY <3>1, <3>2
  <2>7. Asks
    BY <1>4, <1>8 DEF Initiated, Close, Asks
  <2>8. origin' = origin /\ forgetful' = forgetful
    BY <1>2 DEF server, edits
  <2>9. LoopInv'
    BY <1>1, <1>2, <2>2, <2>3, <2>6, <2>8, TurnOwns DEF LoopInv, Own
  <2> QED
    BY <1>1, <2>3, <2>6, <2>7, <2>9, TurnKeeps
<1>9. CASE Renewed(c) /\ c.step = "ok"
  <2>1. c.kind = "renew" /\ Own(i, c.asset) /\ entry' = entry /\ c.asset \in Assets
    BY <1>1, <1>2, <1>9 DEF Renewed, Receive, CallInv
  <2>2. loop' \in LoopType /\ loop'.at = "read" /\ loop'.item = i /\ loop'.ticket = c.asset
    BY <1>1, <1>9 DEF Renewed, TakeTicket, LoopSteps, LoopType
  <2>3. Turns(i)
    BY <1>1, <1>2, <2>1 DEF Turns
  <2>4. Asks
    BY <1>4, <1>9 DEF Renewed, Close, Asks
  <2>5. LoopInv'
    BY <1>1, <1>2, <2>1, <2>2, <2>3, TurnOwns DEF LoopInv
  <2> QED
    BY <1>1, <2>2, <2>3, <2>4, <2>5, TurnKeeps
<1>10. CASE LookedUp(c)
  <2>1. c.kind = "list"
    BY <1>2, <1>10 DEF LookedUp, Receive
  <2> QED
    BY <1>5, <1>6, <1>7, <1>10, <2>1 DEF LookedUp
<1>11. CASE PutDone(c) \/ Completed(c)
  <2>1. c.kind \in {"put", "complete"} /\ (Completed(c) => c.kind = "complete")
    BY <1>2, <1>11 DEF PutDone, Completed, Receive
  <2> QED
    BY <1>5, <1>6, <1>7, <1>11, <2>1 DEF PutDone, Completed
<1> QED
  BY <1>5, <1>8, <1>9, <1>10, <1>11 DEF Initiated, Renewed

\* The loop lets go of an item, begins or ends.
LEMMA LoopStep ==
    ASSUME UploadInv, Resume \/ EndResume \/ RemoveLocalFile \/ Drop
    PROVE  UploadInv'
PROOF
<1> USE MaterialsAssumption DEF UploadInv
<1>1. /\ asset' = asset /\ origin' = origin /\ objects' = objects /\ visit' = visit
      /\ calls' = calls /\ saving' = saving /\ entry' = entry /\ removing' = removing
      /\ dismissed' = dismissed /\ submission' = submission
      /\ editing' = editing /\ replaced' = replaced /\ forgetful' = forgetful
      /\ detached' \subseteq detached
      /\ listed' \subseteq listed /\ files' \subseteq files /\ todo' \subseteq todo \cup listed
  BY DEF Resume, EndResume, RemoveLocalFile, Drop, server, edits
<1>2. faults' \in 0..MaxFaults
  BY DEF Resume, EndResume, RemoveLocalFile, Drop, Fault, TypeOK, MaterialsTypeOK
<1>3. loop' \in LoopType
  BY DEF Resume, EndResume, RemoveLocalFile, Drop, Resting, LoopSteps, TypeOK, LoopType
<1>4. TypeOK'
  BY <1>1, <1>2, <1>3 DEF TypeOK, MaterialsTypeOK, LoopType
<1>5. /\ \A j \in Items : Uploaded(j)' <=> Uploaded(j)
      /\ \A j \in Items : Made(j)' <=> Made(j)
      /\ \A j \in Items : Fresh(j)' <=> Fresh(j)
  BY <1>1 DEF Uploaded, UploadedAs, Made, Fresh
<1>6. loop.at \in {"unlink", "drop"} => loop.item \in Items /\ Uploaded(loop.item)
  BY DEF LoopInv
<1>7. \A j \in Items : Safe(j) => Safe(j)'
  BY <1>1, <1>5, <1>6 DEF Resume, EndResume, RemoveLocalFile, Drop, Safe
<1>8. CallsInv' /\ OneCall'
  <2>1. \A e \in calls : e.by # "queue"
    BY NoneAsked DEF Resume, EndResume, RemoveLocalFile, Drop
  <2> QED
    BY <1>1, <1>7, <2>1 DEF TypeOK, MaterialsTypeOK, Call, CallsInv, CallInv, OneCall, Own
<1>9. LoopInv'
  BY <1>1, <1>5, <1>6 DEF Resume, EndResume, RemoveLocalFile, Drop, Resting, LoopInv, Safe, TypeOK
<1>10. OwnerInv' /\ UploadedIsStored'
  BY <1>1 DEF OwnerInv, Own, UploadedIsStored
<1>11. ItemInv'
  <2>1. \A j \in todo' : Safe(j)'
    BY <1>1, <1>7 DEF ItemInv, KeptInv, TypeOK
  <2>2. \A j \in saving : j \in files' /\ j \notin listed'
    <3>1. \A j \in saving : ~ Uploaded(j)
      BY DEF ItemInv, Made, Uploaded, UploadedAs
    <3> QED
      BY <1>1, <1>6, <3>1 DEF ItemInv, Resume, EndResume, RemoveLocalFile, Drop
  <2> QED
    BY <1>1, <1>5, <2>1, <2>2 DEF ItemInv, TypeOK
<1>12. KeptInv'
  BY <1>1, <1>5, <1>7 DEF KeptInv
<1> QED
  BY <1>4, <1>8, <1>9, <1>10, <1>11, <1>12

\* A step that changes neither rows, requests nor what is in the queue.
LEMMA SameInv ==
    ASSUME UploadInv, TypeOK',
           UNCHANGED <<asset, origin, objects, calls, files, saving, listed, entry, todo, loop,
                       removing, dismissed, edits>>
    PROVE  UploadInv'
PROOF
<1> USE DEF UploadInv, edits
<1>1. CallsInv' /\ OneCall' /\ LoopInv' /\ OwnerInv'
  BY DEF CallsInv, CallInv, OneCall, LoopInv, OwnerInv, Own, Safe, Uploaded, UploadedAs
<1>2. ItemInv' /\ KeptInv' /\ UploadedIsStored'
  BY DEF ItemInv, KeptInv, Fresh, Made, Safe, UploadedIsStored, Uploaded, UploadedAs
<1> QED
  BY <1>1, <1>2

\* The mini-program is closed and starts again, or the visit is submitted.
LEMMA RestartStep ==
    ASSUME UploadInv, Restart \/ AskSubmit \/ SubmitVisit \/ SubmitBreaks
    PROVE  UploadInv'
PROOF
<1> USE MaterialsAssumption DEF UploadInv, edits
<1>1. CASE Restart
  <2>1. /\ asset' = asset /\ origin' = origin /\ objects' = objects /\ visit' = visit
        /\ files' = files /\ listed' = listed /\ dismissed' = dismissed
        /\ saving' = {} /\ todo' = {} /\ calls' = Orphaned /\ loop' = Resting("idle")
        /\ editing' = None /\ detached' = {} /\ replaced' = replaced /\ forgetful' = forgetful
        /\ removing' = [i \in Items |-> "no"] /\ faults' \in 0..MaxFaults
        /\ submission' \in {"no", "page", "nobody"}
    BY <1>1 DEF Restart, SubmitUnanswered, server, Fault, TypeOK, MaterialsTypeOK
  <2>2. ASSUME NEW i \in Items
        PROVE  /\ entry'[i] \in [state : UploadState, asset : Assets \cup {None}]
               /\ entry'[i].asset = entry[i].asset
               /\ Fresh(i) => Fresh(i)'
    BY <1>1, <2>1 DEF Restart, TypeOK, UploadState, Fresh
  <2>3. entry' \in [Items -> [state : UploadState, asset : Assets \cup {None}]]
    BY <1>1, <2>2 DEF Restart
  <2>4. /\ \A j \in Items : Uploaded(j)' <=> Uploaded(j)
        /\ \A j \in Items : Made(j)' <=> Made(j)
        /\ \A j \in Items : Safe(j)' <=> Safe(j)
        /\ \A j \in Items, a \in Assets : Own(j, a)' <=> Own(j, a)
    BY <2>1, <2>2 DEF Uploaded, UploadedAs, Made, Safe, Own
  <2>5. ASSUME NEW d \in calls, ~ Answered(d)
        PROVE  LET o == [d EXCEPT !.by = "nobody"] IN
               o \in Call /\ (o.kind # "initiate" => o.asset # None) /\ o.by = "nobody" /\ CallInv(o)'
    <3> DEFINE o == [d EXCEPT !.by = "nobody"]
    <3>1. /\ d \in Call /\ d.item \in Items /\ CallInv(d) /\ (d.kind # "initiate" => d.asset \in Assets)
      BY DEF TypeOK, MaterialsTypeOK, Call, CallsInv
    <3>2. /\ o \in Call /\ o.kind = d.kind /\ o.item = d.item /\ o.asset = d.asset
          /\ o.step = d.step /\ o.by = "nobody"
      BY <3>1 DEF Call
    <3>3. Safe(d.item)' /\ (d.kind # "initiate" => Own(d.item, d.asset)')
      BY <2>4, <3>1 DEF CallInv
    <3>4. CallInv(o)'
      BY <2>1, <2>5, <3>1, <3>2, <3>3 DEF CallInv, Answered
    <3> QED
      BY <3>1, <3>2, <3>4
  <2>6. \A e \in calls' :
          e \in Call /\ (e.kind # "initiate" => e.asset # None) /\ e.by = "nobody" /\ CallInv(e)'
    BY <2>1, <2>5 DEF Orphaned
  <2>7. TypeOK'
    BY <2>1, <2>3, <2>6 DEF TypeOK, MaterialsTypeOK, Resting, LoopSteps
  <2>8. CallsInv' /\ OneCall' /\ LoopInv'
    BY <2>1, <2>6 DEF CallsInv, OneCall, LoopInv, Resting
  <2>9. OwnerInv' /\ UploadedIsStored'
    <3>1. \A a \in Assets : asset[a] # "none" => origin[a] \in Items
      BY DEF OwnerInv
    <3> QED
      BY <2>1, <2>2, <3>1 DEF OwnerInv, UploadedIsStored
  <2>10. ItemInv' /\ KeptInv'
    BY <2>1, <2>2, <2>4 DEF ItemInv, KeptInv
  <2> QED
    BY <2>7, <2>8, <2>9, <2>10
<1>2. CASE AskSubmit \/ SubmitVisit \/ SubmitBreaks
  <2>1. /\ asset' = asset /\ origin' = origin /\ objects' = objects /\ calls' = calls
        /\ files' = files /\ saving' = saving /\ listed' = listed /\ entry' = entry
        /\ todo' = todo /\ loop' = loop /\ removing' = removing /\ dismissed' = dismissed
        /\ UNCHANGED edits
    BY <1>2 DEF AskSubmit, SubmitVisit, SubmitBreaks, server
  <2>2. /\ visit' \in {"draft", "submitted"} /\ faults' \in 0..MaxFaults
        /\ submission' \in {"no", "page", "nobody"}
    BY <1>2 DEF AskSubmit, SubmitVisit, SubmitBreaks, SubmitUnanswered, Fault, server,
                TypeOK, MaterialsTypeOK
  <2>3. TypeOK'
    BY <2>1, <2>2 DEF TypeOK, MaterialsTypeOK
  <2> QED
    BY <2>1, <2>3, SameInv
<1> QED
  BY <1>1, <1>2

---------------------------------------------------------------------------
\* The inductive invariant is preserved by every step.
LEMMA UploadNext == UploadInv /\ [Next]_vars => UploadInv'
PROOF
<1> SUFFICES ASSUME UploadInv, [Next]_vars PROVE UploadInv'
  OBVIOUS
<1>1. CASE Resume \/ RenameItem \/ AskSubmit \/ SubmitVisit \/ SubmitBreaks \/ Restart
  BY <1>1, LoopStep, EditStep, RestartStep
<1>2. CASE Upload
  <2>1. ReadFile => loop.item \in Items
    BY DEF ReadFile, UploadInv, LoopInv
  <2> QED
    BY <1>2, <2>1, LoopStep, AskingStep, AnswerStep DEF Upload
<1>3. ASSUME NEW i \in Items,
             \/ SaveCapturedFile(i) \/ Add(i) \/ Edit(i) \/ RemoveItem(i)
             \/ RemoveSavedFile(i) \/ RemoveListed(i)
      PROVE  UploadInv'
  BY <1>3, PageStep, EditStep, RemoveStep
<1>4. ASSUME NEW c \in calls,
             Deleted(c) \/ ((Handle(c) \/ Break(c) \/ GiveUp(c)) /\ UNCHANGED device)
      PROVE  UploadInv'
  BY <1>4, RemoveStep, ServerStep, GivingUpStep
<1>5. CASE UNCHANGED vars
  <2>1. UNCHANGED <<asset, origin, objects, visit, calls, faults>> /\ UNCHANGED device
    BY <1>5 DEF vars, server
  <2>2. TypeOK'
    BY <2>1 DEF UploadInv, TypeOK, MaterialsTypeOK, device, edits
  <2> QED
    BY <2>1, <2>2, SameInv DEF device
<1> QED
  BY <1>1, <1>2, <1>3, <1>4, <1>5 DEF Next

\* Items, requests, rows and objects agree, wherever the mini-program is
\* closed, a request is lost or an answer given up.
THEOREM UploadInvariant == Spec => []UploadInv
PROOF
<1> QED
  BY UploadInit, UploadNext, PTL DEF Spec

---------------------------------------------------------------------------
\* Every variable of device and server has its type.
THEOREM UploadTypes == Spec => []TypeOK
PROOF
<1>1. UploadInv => TypeOK
  BY DEF UploadInv
<1> QED
  BY <1>1, UploadInvariant, PTL

\* A file leaves the device only when its material is on the server or the
\* staff has dismissed it (resume, removeItem).
THEOREM NothingIsLost == Spec => []MaterialIsKept
PROOF
<1>1. UploadInv => MaterialIsKept
  BY FreshEntry DEF UploadInv, KeptInv, MaterialIsKept, added, Made, Safe
<1> QED
  BY <1>1, UploadInvariant, PTL

\* An uploaded asset has its object (DeletePending, Complete).
THEOREM UploadsAreStored == Spec => []UploadedIsStored
PROOF
<1>1. UploadInv => UploadedIsStored
  BY DEF UploadInv
<1> QED
  BY <1>1, UploadInvariant, PTL

\* However often its upload is retried, an item never has two uploaded assets,
\* unless its entry was replaced, while it was uploaded, before it had the
\* first (Initiate, uploadQueuedAsset, add).
THEOREM UploadsHappenOnce == Spec => []UploadedOnce
PROOF
<1>1. UploadInv => UploadedOnce
  <2> SUFFICES ASSUME UploadInv, NEW i \in Items \ forgetful, NEW a \in Assets, NEW b \in Assets,
                      UploadedAs(i, a), UploadedAs(i, b)
               PROVE  a = b
    BY DEF UploadedOnce
  <2>1. entry[i].asset = a /\ entry[i].asset = b
    BY DEF UploadInv, OwnerInv, UploadedAs
  <2> QED
    BY <2>1
<1> QED
  BY <1>1, UploadInvariant, PTL
---------------------------------------------------------------------------
\* Mini-program and server implement MaterialOutcome.

\* An item is completed only when the server has its material.
CompletedInv == \A i \in Items : entry[i].state = "completed" => Uploaded(i)

OutcomeInv == UploadInv /\ CompletedInv

\* An item that has been in the queue: what added says of it.
Known(i) == i \in listed \/ i \in dismissed \/ Made(i)

LEMMA AddedItems ==
    ASSUME UploadInv, UploadInv'
    PROVE  /\ added = {i \in Items : Known(i)}
           /\ added' = {i \in Items : Known(i)'}
PROOF
<1>1. \A e \in [state : UploadState, asset : Assets \cup {None}] :
         e = NewEntry <=> e.state = "local" /\ e.asset = None
  BY DEF NewEntry
<1>2. \A i \in Items : i \in added <=> Known(i)
  BY <1>1 DEF added, Known, Fresh, Made, UploadInv, TypeOK, KeptInv, Safe, Uploaded, UploadedAs
<1>3. \A i \in Items : i \in added' <=> Known(i)'
  BY <1>1 DEF added, Known, Fresh, Made, UploadInv, TypeOK, KeptInv, Safe, Uploaded, UploadedAs
<1> QED
  BY <1>2, <1>3 DEF added

\* What the server has: rows and objects agree on it.
LEMMA StoredItems ==
    ASSUME UploadInv, UploadInv'
    PROVE  /\ stored = {i \in Items : Uploaded(i)}
           /\ stored' = {i \in Items : Uploaded(i)'}
PROOF
<1>1. stored = {i \in Items : Uploaded(i)}
  BY DEF UploadInv, UploadedIsStored, OwnerInv, stored, Uploaded, UploadedAs, TypeOK, MaterialsTypeOK
<1>2. stored' = {i \in Items : Uploaded(i)'}
  BY DEF UploadInv, UploadedIsStored, OwnerInv, stored, Uploaded, UploadedAs, TypeOK, MaterialsTypeOK
<1> QED
  BY <1>1, <1>2

\* Nothing of what MaterialOutcome tells of happens.
Unseen == /\ UNCHANGED <<files, added, stored, dismissed, visit>>
          /\ (submission # "no")' <=> submission # "no"

\* A step that leaves rows and objects alone.
LEMMA SameStored ==
    ASSUME UNCHANGED <<asset, origin, objects>>
    PROVE  /\ stored' = stored
           /\ \A i \in Items : Uploaded(i)' <=> Uploaded(i)
           /\ \A i \in Items : Made(i)' <=> Made(i)
PROOF
<1> QED
  BY DEF stored, Uploaded, UploadedAs, Made

\* The server takes the material of one item, or nothing is seen of its step.
LEMMA ServerOutcome ==
    ASSUME OutcomeInv, UploadInv', NEW c \in calls,
           Handle(c) \/ Break(c) \/ GiveUp(c), UNCHANGED device
    PROVE  CompletedInv' /\ (Unseen \/ Material!Store(c.item))
PROOF
<1> USE DEF OutcomeInv
<1>1. /\ entry' = entry /\ files' = files /\ listed' = listed /\ dismissed' = dismissed
      /\ submission' = submission
      /\ c.item \in Items
  BY DEF device, UploadInv, TypeOK, MaterialsTypeOK, Call
<1>2. visit' = visit
  BY DEF Handle, CheckVisit, Create, ListByVisit, RenewUpload, PutObject, Complete, Stat,
         MarkUploaded, DeletePending, Remove, Break, GiveUp, server
<1>3. CASE GiveUp(c)
  <2>1. UNCHANGED <<asset, origin, objects>>
    BY <1>3 DEF GiveUp, server
  <2>2. CompletedInv' /\ stored' = stored
    BY <1>1, <2>1, SameStored DEF CompletedInv
  <2>3. added' = added
    BY <1>1, <2>1 DEF added
  <2> QED
    BY <1>1, <1>2, <2>2, <2>3 DEF Unseen
<1>4. CASE Handle(c) \/ Break(c)
  <2>1. Serves(c.item)
    BY <1>4, ServerGoesOn
  <2>2. \A i \in Items : Uploaded(i) => Uploaded(i)'
    BY <1>1, <2>1, SafeStays
  <2>3. \A i \in Items : Uploaded(i)' => Uploaded(i) \/ i = c.item
    BY <2>1, MaterialsAssumption DEF Serves, Uploaded, UploadedAs, Own, UploadInv, OwnerInv
  <2>4. Known(c.item)
    BY <2>1 DEF Serves, Safe, Known, Made, Uploaded, UploadedAs
  <2>5. \A i \in Items : Known(i)' <=> Known(i)
    <3>1. \A i \in Items : Made(i)' => Made(i) \/ i = c.item
      BY <2>1 DEF Serves, Made
    <3>2. \A i \in Items : Made(i) => Made(i)'
      BY <2>1, MaterialsAssumption DEF Serves, Made, UploadInv, OwnerInv
    <3> QED
      BY <1>1, <2>4, <3>1, <3>2 DEF Known
  <2>6. added' = added /\ c.item \in added
    BY <1>1, <2>4, <2>5, AddedItems
  <2>7. stored' = stored \/ stored' = stored \cup {c.item}
    BY <1>1, <2>2, <2>3, StoredItems
  <2>8. CompletedInv'
    BY <1>1, <2>2 DEF CompletedInv
  <2> QED
    BY <1>1, <1>2, <2>6, <2>7, <2>8 DEF Unseen, Material!Store
<1> QED
  BY <1>3, <1>4

\* The loop's way from one item to the next is not seen.
LEMMA TurnOutcome ==
    ASSUME OutcomeInv, UploadInv', NEW i \in Items, Turns(i)
    PROVE  CompletedInv' /\ Unseen
PROOF
<1> USE DEF OutcomeInv
<1>1. /\ UNCHANGED <<asset, origin, objects>>
      /\ visit' = visit /\ submission' = submission
      /\ files' = files /\ listed' = listed /\ dismissed' = dismissed
  BY DEF Turns, server
<1>2. /\ stored' = stored
      /\ \A j \in Items : Uploaded(j)' <=> Uploaded(j)
      /\ \A j \in Items : Made(j)' <=> Made(j)
  BY <1>1, SameStored
<1>3. added' = added
  <2>1. \A j \in Items : Known(j)' <=> Known(j)
    BY <1>1, <1>2 DEF Known
  <2> QED
    BY <2>1, AddedItems
<1>4. CompletedInv'
  <2>1. loop'.at = "unlink" /\ loop'.item = i => Uploaded(i)'
    BY DEF UploadInv, LoopInv
  <2> QED
    BY <1>2, <2>1 DEF CompletedInv, Turns
<1> QED
  BY <1>1, <1>2, <1>3, <1>4 DEF Unseen

\* The loop discards the file of what it has uploaded, and then the item.
LEMMA LoopOutcome ==
    ASSUME OutcomeInv, UploadInv', Resume \/ EndResume \/ RemoveLocalFile \/ Drop
    PROVE  CompletedInv' /\ (Unseen \/ \E i \in Items : Material!Discard(i))
PROOF
<1> USE DEF OutcomeInv
<1>1. /\ UNCHANGED <<asset, origin, objects>> /\ visit' = visit /\ submission' = submission
      /\ entry' = entry /\ dismissed' = dismissed
  BY DEF Resume, EndResume, RemoveLocalFile, Drop, server
<1>2. /\ CompletedInv' /\ stored' = stored
      /\ \A j \in Items : Made(j)' <=> Made(j)
  BY <1>1, SameStored DEF CompletedInv
<1>3. loop.at \in {"unlink", "drop"} =>
        loop.item \in Items /\ Uploaded(loop.item) /\ Made(loop.item)
  BY DEF UploadInv, LoopInv, Made, Uploaded, UploadedAs
<1>4. added' = added
  <2>1. \A j \in Items : Known(j)' <=> Known(j)
    BY <1>1, <1>2, <1>3 DEF Resume, EndResume, RemoveLocalFile, Drop, Known
  <2> QED
    BY <2>1, AddedItems
<1>5. CASE UNCHANGED files
  BY <1>1, <1>2, <1>4, <1>5 DEF Unseen
<1>6. CASE RemoveLocalFile /\ files' = files \ {loop.item}
  <2>1. loop.item \in Items /\ loop.item \in stored
    BY <1>3, <1>6, StoredItems DEF RemoveLocalFile
  <2> QED
    BY <1>1, <1>2, <1>4, <1>6, <2>1 DEF Material!Discard
<1> QED
  BY <1>5, <1>6 DEF Resume, EndResume, RemoveLocalFile, Drop

\* The staff captures, edits and dismisses items.
LEMMA PageOutcome ==
    ASSUME OutcomeInv, UploadInv', NEW i \in Items,
           \/ SaveCapturedFile(i) \/ Add(i) \/ RenameItem \/ Edit(i)
           \/ RemoveItem(i) \/ RemoveSavedFile(i) \/ RemoveListed(i)
    PROVE  CompletedInv' /\ (Unseen \/ \E j \in Items : \/ Material!Capture(j) \/ Material!Add(j)
                                                       \/ Material!Dismiss(j) \/ Material!Discard(j))
PROOF
<1> USE DEF OutcomeInv
<1>1. /\ UNCHANGED <<asset, origin, objects>> /\ visit' = visit /\ submission' = submission
  BY DEF SaveCapturedFile, Add, RenameItem, Edit, RemoveItem, RemoveSavedFile, RemoveListed, server
<1>2. entry' = entry
  BY FreshEntry DEF SaveCapturedFile, Add, RenameItem, Edit, RemoveItem, RemoveSavedFile,
                    RemoveListed, UploadInv, ItemInv, TypeOK
<1>3. /\ CompletedInv' /\ stored' = stored
      /\ \A j \in Items : Made(j)' <=> Made(j)
  BY <1>1, <1>2, SameStored DEF CompletedInv
<1>4. /\ added = {j \in Items : Known(j)}
      /\ added' = {j \in Items : Known(j)'}
      /\ \A j \in Items : Known(j)' <=> j \in listed' \/ j \in dismissed' \/ Made(j)
  BY <1>3, AddedItems DEF Known
<1>5. CASE SaveCapturedFile(i)
  <2>1. i \notin files \cup added /\ files' = files \cup {i}
    BY <1>5 DEF SaveCapturedFile
  <2>2. dismissed' = dismissed /\ added' = added
    BY <1>4, <1>5 DEF SaveCapturedFile, Known
  <2> QED
    BY <1>1, <1>3, <2>1, <2>2 DEF Material!Capture
<1>6. CASE Add(i)
  <2>1. i \in files /\ files' = files /\ dismissed' = dismissed
    BY <1>6 DEF Add, UploadInv, ItemInv
  <2>2. added' = added \cup {i}
    BY <1>4, <1>6 DEF Add, Known
  <2> QED
    BY <1>1, <1>3, <2>1, <2>2 DEF Material!Add
<1>7. CASE RenameItem \/ Edit(i)
  <2>1. UNCHANGED <<files, listed, dismissed>>
    BY <1>7 DEF RenameItem, Edit
  <2>2. added' = added
    BY <1>4, <2>1 DEF Known
  <2> QED
    BY <1>1, <1>3, <2>1, <2>2 DEF Unseen
<1>8. CASE RemoveItem(i)
  <2>1. i \in added /\ dismissed' = dismissed \cup {i} /\ files' = files
    BY <1>4, <1>8 DEF RemoveItem, Known
  <2>2. added' = added
    BY <1>4, <1>8 DEF RemoveItem, Known
  <2> QED
    BY <1>1, <1>3, <2>1, <2>2 DEF Material!Dismiss
<1>9. CASE RemoveSavedFile(i)
  <2>1. i \in dismissed /\ dismissed' = dismissed /\ files' = files \ {i}
    BY <1>9 DEF RemoveSavedFile, UploadInv, ItemInv
  <2>2. added' = added
    BY <1>4, <1>9 DEF RemoveSavedFile, Known
  <2> QED
    BY <1>1, <1>3, <2>1, <2>2 DEF Material!Discard
<1>10. CASE RemoveListed(i)
  <2>1. i \in dismissed /\ dismissed' = dismissed /\ files' = files
    BY <1>10 DEF RemoveListed, UploadInv, ItemInv
  <2>2. added' = added
    BY <1>4, <1>10, <2>1 DEF RemoveListed, Known
  <2> QED
    BY <1>1, <1>3, <2>1, <2>2 DEF Unseen
<1> QED
  BY <1>5, <1>6, <1>7, <1>8, <1>9, <1>10

\* The staff asks to submit the visit, and is answered.
LEMMA SubmitOutcome ==
    ASSUME OutcomeInv, UploadInv', AskSubmit \/ SubmitVisit \/ SubmitBreaks
    PROVE  CompletedInv' /\ (Unseen \/ Material!Ask \/ Material!Forget \/ Material!Submit)
PROOF
<1> USE DEF OutcomeInv
<1>1. /\ UNCHANGED <<asset, origin, objects>> /\ entry' = entry /\ files' = files
      /\ listed' = listed /\ dismissed' = dismissed
  BY DEF AskSubmit, SubmitVisit, SubmitBreaks, server
<1>2. CompletedInv' /\ stored' = stored /\ added' = added
  BY <1>1, SameStored DEF CompletedInv, added
<1>3. CASE AskSubmit
  <2>1. visit' = visit /\ submission' = "page"
    BY <1>3 DEF AskSubmit, server
  <2>2. ASSUME NEW i \in Items, Known(i), i \notin dismissed PROVE Uploaded(i)
    BY <1>3, <2>2 DEF AskSubmit, Known, UploadInv, KeptInv, Safe, CompletedInv
  <2>3. added \subseteq stored \cup dismissed
    BY <2>2, AddedItems, StoredItems
  <2>4. \E i \in Items : Uploaded(i)
    BY <1>3 DEF AskSubmit, UploadInv, OwnerInv, Uploaded, UploadedAs
  <2>5. stored # {}
    BY <2>4, StoredItems
  <2> QED
    BY <1>1, <1>2, <2>1, <2>3, <2>5 DEF Material!Ask, Material!material
<1>4. CASE SubmitVisit
  BY <1>1, <1>2, <1>4 DEF SubmitVisit, Material!Submit, Material!Forget, Material!material
<1>5. CASE SubmitBreaks
  BY <1>1, <1>2, <1>5 DEF SubmitBreaks, SubmitUnanswered, server, Unseen, Material!Forget,
                          Material!material
<1> QED
  BY <1>3, <1>4, <1>5

\* The mini-program is closed and starts again.
LEMMA RestartOutcome ==
    ASSUME OutcomeInv, UploadInv', Restart
    PROVE  CompletedInv' /\ (Unseen \/ Material!Forget)
PROOF
<1> USE DEF OutcomeInv
<1>1. /\ UNCHANGED <<asset, origin, objects>> /\ visit' = visit /\ files' = files
      /\ listed' = listed /\ dismissed' = dismissed
      /\ submission' # "no" => submission # "no"
  BY DEF Restart, SubmitUnanswered, server
<1>2. /\ stored' = stored
      /\ \A j \in Items : Uploaded(j)' <=> Uploaded(j)
      /\ \A j \in Items : Made(j)' <=> Made(j)
  BY <1>1, SameStored
<1>3. \A i \in Items : entry'[i].state = "completed" => entry[i].state = "completed"
  BY DEF Restart, UploadInv, TypeOK
<1>4. CompletedInv'
  BY <1>2, <1>3 DEF CompletedInv
<1>5. added' = added
  <2>1. \A j \in Items : Known(j)' <=> Known(j)
    BY <1>1, <1>2 DEF Known
  <2> QED
    BY <2>1, AddedItems
<1> QED
  BY <1>1, <1>2, <1>4, <1>5 DEF Unseen, Material!Forget, Material!material

\* Every step is one of MaterialOutcome, or not seen.
LEMMA OutcomeNext ==
    OutcomeInv /\ UploadInv' /\ [Next]_vars => CompletedInv' /\ [Material!Next]_Material!vars
PROOF
<1> SUFFICES ASSUME OutcomeInv, UploadInv', [Next]_vars
             PROVE  CompletedInv' /\ [Material!Next]_Material!vars
  OBVIOUS
<1> DEFINE Seen == CompletedInv' /\ [Material!Next]_Material!vars
<1>1. CompletedInv' /\ Unseen => Seen
  BY DEF Unseen, Material!vars, Material!material
<1>2. CASE Resume \/ EndResume \/ RemoveLocalFile \/ Drop
  BY <1>1, <1>2, LoopOutcome DEF Material!Next
<1>3. CASE AskSubmit \/ SubmitVisit \/ SubmitBreaks
  BY <1>1, <1>3, SubmitOutcome DEF Material!Next
<1>4. CASE Restart
  BY <1>1, <1>4, RestartOutcome DEF Material!Next
<1>5. ASSUME NEW i \in Items, NextItem(i) \/ (ReadFile /\ i = loop.item)
      PROVE  Seen
  BY <1>1, <1>5, AskingStep, TurnOutcome DEF OutcomeInv
<1>6. ReadFile => loop.item \in Items
  BY DEF ReadFile, OutcomeInv, UploadInv, LoopInv
<1>7. ASSUME NEW c \in calls,
             Initiated(c) \/ LookedUp(c) \/ Renewed(c) \/ PutDone(c) \/ Completed(c)
      PROVE  Seen
  <2>1. c.item \in Items
    BY DEF OutcomeInv, UploadInv, TypeOK, MaterialsTypeOK, Call
  <2> QED
    BY <1>1, <1>7, <2>1, AnswerStep, TurnOutcome DEF OutcomeInv
<1>8. ASSUME NEW i \in Items,
             \/ SaveCapturedFile(i) \/ Add(i) \/ (RenameItem /\ i = editing) \/ Edit(i)
             \/ RemoveItem(i) \/ RemoveSavedFile(i) \/ RemoveListed(i)
      PROVE  Seen
  BY <1>1, <1>8, PageOutcome DEF Material!Next
<1>9. ASSUME NEW c \in calls, (Handle(c) \/ Break(c) \/ GiveUp(c)) /\ UNCHANGED device
      PROVE  Seen
  <2>1. c.item \in Items
    BY DEF OutcomeInv, UploadInv, TypeOK, MaterialsTypeOK, Call
  <2> QED
    BY <1>1, <1>9, <2>1, ServerOutcome DEF Material!Next
<1>10. ASSUME NEW c \in calls, Deleted(c) PROVE Seen
  <2>1. UNCHANGED <<asset, origin, objects, visit, files, listed, entry, submission, dismissed>>
    BY <1>10 DEF Deleted, server
  <2> QED
    BY <1>1, <2>1, SameStored DEF OutcomeInv, CompletedInv, Unseen, added
<1>11. CASE UNCHANGED vars
  <2>1. UNCHANGED <<asset, origin, objects, visit, files, listed, entry, submission, dismissed>>
    BY <1>11 DEF vars, server, device
  <2> QED
    BY <1>1, <2>1, SameStored DEF OutcomeInv, CompletedInv, Unseen, added
<1>12. RenameItem => editing \in Items
  BY DEF RenameItem, OutcomeInv, UploadInv, TypeOK
<1> QED
  BY <1>2, <1>3, <1>4, <1>5, <1>6, <1>7, <1>8, <1>9, <1>10, <1>11, <1>12 DEF Next, Upload

\* What is captured stays on the device until the server has it or the staff
\* dismisses it, and no visit is submitted past what waits in the queue: the
\* mini-program and the server, with their lost answers, restarts and races,
\* implement MaterialOutcome (upload-queue.ts, capture.ts, internal/assets).
THEOREM MaterialIsAsPromised == Spec => ImplementsMaterialOutcome
PROOF
<1>1. Init => Material!Init /\ CompletedInv
  BY MaterialsAssumption DEF Init, MaterialsInit, NewEntry, Material!Init, added, stored,
                             CompletedInv
<1>2. UploadInv /\ UploadInv' /\ CompletedInv /\ [Next]_vars =>
        CompletedInv' /\ [Material!Next]_Material!vars
  BY OutcomeNext DEF OutcomeInv
<1> QED
  BY <1>1, <1>2, UploadInvariant, PTL DEF Spec, ImplementsMaterialOutcome, Material!Spec
===========================================================================
