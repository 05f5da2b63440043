---------------------------- MODULE UploadQueue ----------------------------
(***************************************************************************)
(* The mini-program's upload queue (miniapp/services/upload-queue.ts,      *)
(* asset-upload.ts) and the page that feeds it (pages/visit-capture),      *)
(* against the server.  The mini-program is single-threaded: one action is *)
(* what it does between two awaits.  It may be closed at any of them, and  *)
(* starts again from its storage.                                          *)
(*                                                                         *)
(* Everything in the queue is written to storage before the next await, so *)
(* that one variable stands for both.  An item that has left the queue     *)
(* while the loop still holds it keeps its entry.                          *)
(***************************************************************************)
EXTENDS Materials

VARIABLES
    files,      \* the items with a file on the device
    saving,     \* the items whose file is being saved
    listed,     \* the items in the queue
    entry,      \* entry[i]: state of the item in the queue, and its assetID
    todo,       \* the rest of the copy of the queue that resume walks
    loop,       \* the next step of resume, its item and the asset of its ticket, if any
    removing,   \* removing[i]: the next step of removeItem for i
    submission, \* who waits for the answer to the request to submit the visit
    dismissed,  \* history: the items the staff has asked to remove
    editing,    \* the item whose name or association the staff is changing, if any
    detached,   \* the items whose entry in the queue has been replaced by a copy,
                \* while resume holds the old one
    replaced,   \* history: the items that were ever detached
    forgetful   \* history: those that were before their entry had an asset

edits == <<editing, detached, replaced, forgetful>>
device == <<files, saving, listed, entry, todo, loop, removing, submission, dismissed, edits>>
vars == <<server, calls, faults, device>>

UploadState == {"local", "uploading", "completed", "failed"}

NewEntry == [state |-> "local", asset |-> None]

LoopSteps == {"idle", "next", "initiate", "list", "renew", "read", "put", "complete",
              "unlink", "drop"}

Resting(step) == [at |-> step, item |-> None, ticket |-> None]

Init ==
    /\ MaterialsInit
    /\ files = {}
    /\ saving = {}
    /\ listed = {}
    /\ entry = [i \in Items |-> NewEntry]
    /\ todo = {}
    /\ loop = Resting("idle")
    /\ removing = [i \in Items |-> "no"]
    /\ submission = "no"
    /\ dismissed = {}
    /\ editing = None
    /\ detached = {}
    /\ replaced = {}
    /\ forgetful = {}

UploadedAs(i, a) == origin[a] = i /\ asset[a] = "uploaded"

Uploaded(i) == \E a \in Assets : UploadedAs(i, a)

\* The items that have been in the queue.
added == {i \in Items : \/ i \in listed \cup dismissed
                        \/ entry[i] # NewEntry
                        \/ \E a \in Assets : origin[a] = i}

---------------------------------------------------------------------------
\* Capturing.

\* addFile saves the file, ...
SaveCapturedFile(i) ==
    /\ i \notin files \cup added
    /\ files' = files \cup {i}
    /\ saving' = saving \cup {i}
    /\ UNCHANGED <<server, edits, calls, faults, listed, entry, todo, loop, removing,
                   submission, dismissed>>

\* ... and adds the item, also while the loop is running.
Add(i) ==
    /\ i \in saving
    /\ saving' = saving \ {i}
    /\ listed' = listed \cup {i}
    /\ entry' = [entry EXCEPT ![i] = NewEntry]
    /\ UNCHANGED <<server, edits, calls, faults, files, todo, loop, removing,
                   submission, dismissed>>

---------------------------------------------------------------------------
\* The loop: resume, and uploadQueuedAsset for each item.

\* resume walks a copy of the queue.  Its order is left open.
Resume ==
    /\ loop.at = "idle"
    /\ listed # {}
    /\ todo' = listed
    /\ loop' = Resting("next")
    /\ UNCHANGED <<server, edits, calls, faults, files, saving, listed, entry,
                   removing, submission, dismissed>>

\* What the loop writes into the entry it holds is lost to a detached item.
Write(i, e) == entry' = IF i \in detached THEN entry ELSE [entry EXCEPT ![i] = e]

\* The loop's next step, and the state its item gets.
Turn(step, i, state) ==
    /\ loop' = [at |-> step, item |-> i, ticket |-> None]
    /\ Write(i, [entry[i] EXCEPT !.state = state])

Ask(kind, i, a) == calls \cup {Sent(kind, i, a, "queue")}

\* An error of uploadQueuedAsset: the item fails and the loop goes on.
Fail(i) == Turn("next", i, "failed")

\* The next item: an item whose asset is known is looked up first, any other
\* needs its file.  Items in other states are passed over.
NextItem(i) ==
    LET a == entry[i].asset IN
    /\ loop.at = "next"
    /\ i \in todo
    /\ todo' = todo \ {i}
    /\ CASE entry[i].state \notin {"local", "failed"} -> UNCHANGED <<loop, entry, calls>>
         [] entry[i].state \in {"local", "failed"} /\ a # None ->
              Turn("list", i, "uploading") /\ calls' = Ask("list", i, a)
         [] entry[i].state \in {"local", "failed"} /\ a = None /\ i \in files ->
              Turn("initiate", i, "uploading") /\ calls' = Ask("initiate", i, None)
         [] OTHER -> Fail(i) /\ UNCHANGED calls
    /\ UNCHANGED <<server, edits, faults, files, saving, listed, removing, submission, dismissed>>

EndResume ==
    /\ loop.at = "next"
    /\ todo = {}
    /\ loop' = Resting("idle")
    /\ detached' = {}
    /\ UNCHANGED <<server, editing, replaced, forgetful, calls, faults, files, saving, listed, entry, todo,
                   removing, submission, dismissed>>

\* The loop gets the answer c to its request, of the given kind.
Receive(c, kind) ==
    /\ loop.at = kind
    /\ c.by = "queue"
    /\ Answered(c)
    /\ UNCHANGED <<server, edits, faults, files, saving, listed, todo, removing,
                   submission, dismissed>>

\* It is done with it, or goes on with the next request for the same asset.
Close(c) == calls' = calls \ {c}

Follow(c, kind) == /\ loop' = [loop EXCEPT !.at = kind]
                   /\ calls' = (calls \ {c}) \cup {Sent(kind, c.item, c.asset, "queue")}
                   /\ UNCHANGED entry

TakeTicket(c) == loop' = [at |-> "read", item |-> c.item, ticket |-> c.asset]

\* Mutant: the answer is taken for a ticket whatever its status.
InitiatedAnyStatus(c) ==
    /\ Receive(c, "initiate")
    /\ Close(c)
    /\ TakeTicket(c)
    /\ Write(c.item, [entry[c.item] EXCEPT !.asset = c.asset])

\* The ticket of a new asset: its identifier is kept and stored (onProgress).
Initiated(c) ==
    /\ Receive(c, "initiate")
    /\ Close(c)
    /\ IF c.step = "ok"
       THEN TakeTicket(c) /\ Write(c.item, [entry[c.item] EXCEPT !.asset = c.asset])
       ELSE Fail(c.item)

AskNew(c) == /\ loop' = [loop EXCEPT !.at = "initiate"]
             /\ calls' = (calls \ {c}) \cup {Sent("initiate", c.item, None, "queue")}
             /\ UNCHANGED entry

\* Mutant: another asset is created in place of the one that is pending.
LookedUpInitiating(c) ==
    /\ Receive(c, "list")
    /\ CASE c.step = "ok" -> Turn("unlink", c.item, "completed") /\ Close(c)
         [] c.step = "refused" /\ c.item \in files -> AskNew(c)
         [] OTHER -> Fail(c.item) /\ Close(c)

\* The server has the material already, or the ticket is renewed for it.
LookedUp(c) ==
    /\ Receive(c, "list")
    /\ CASE c.step = "ok" -> Turn("unlink", c.item, "completed") /\ Close(c)
         [] c.step = "refused" /\ c.item \in files -> Follow(c, "renew")
         [] OTHER -> Fail(c.item) /\ Close(c)

Renewed(c) ==
    /\ Receive(c, "renew")
    /\ Close(c)
    /\ IF c.step = "ok" THEN TakeTicket(c) /\ UNCHANGED entry
       ELSE Fail(c.item)

\* uploadAsset reads the file and sends it.
ReadFile ==
    LET i == loop.item IN
    /\ loop.at = "read"
    /\ IF i \in files
       THEN /\ loop' = [loop EXCEPT !.at = "put"]
            /\ calls' = Ask("put", i, loop.ticket)
            /\ UNCHANGED entry
       ELSE Fail(i) /\ UNCHANGED calls
    /\ UNCHANGED <<server, edits, faults, files, saving, listed, todo, removing,
                   submission, dismissed>>

\* Mutant: the upload counts before the server has confirmed it.
PutIsEnough(c) ==
    /\ Receive(c, "put")
    /\ Close(c)
    /\ IF c.step = "ok" THEN Turn("unlink", c.item, "completed") ELSE Fail(c.item)

PutDone(c) ==
    /\ Receive(c, "put")
    /\ IF c.step = "ok" THEN Follow(c, "complete") ELSE Fail(c.item) /\ Close(c)

Completed(c) ==
    /\ Receive(c, "complete")
    /\ Close(c)
    /\ IF c.step = "ok" THEN Turn("unlink", c.item, "completed") ELSE Fail(c.item)

\* removeLocalFile, whose error is ignored, ...
RemoveLocalFile ==
    /\ loop.at = "unlink"
    /\ \/ files' = files \ {loop.item} /\ UNCHANGED faults
       \/ Fault /\ UNCHANGED files
    /\ loop' = [loop EXCEPT !.at = "drop"]
    /\ UNCHANGED <<server, edits, calls, saving, listed, entry, todo, removing,
                   submission, dismissed>>

\* ... and then the item leaves the queue.
Drop ==
    /\ loop.at = "drop"
    /\ listed' = listed \ {loop.item}
    /\ loop' = Resting("next")
    /\ UNCHANGED <<server, edits, calls, faults, files, saving, entry, todo, removing,
                   submission, dismissed>>

---------------------------------------------------------------------------
\* The page.

\* An item can be renamed and associated with a part of the plan while nothing
\* is uploaded or submitted and it has no asset ...
Edit(i) ==
    /\ editing = None
    /\ i \in listed
    /\ loop.at = "idle"
    /\ submission # "page"
    /\ entry[i].asset = None
    /\ editing' = i
    /\ UNCHANGED <<server, detached, replaced, forgetful, calls, faults, files, saving, listed, entry,
                   todo, loop, removing, submission, dismissed>>

Holds(i) == i \in todo \/ (loop.item = i /\ loop.at \notin {"idle", "next"})

\* ... but the page takes the new name or association when it comes, be it after
\* the upload has begun (the field loses its focus by the tap on the button):
\* add replaces the entry, not that in resume's copy of the queue.  Nothing comes
\* in between while resume goes from one item to the next.
RenameItem ==
    /\ editing # None
    /\ loop.at # "next"
    /\ editing' = None
    /\ IF editing \in listed /\ Holds(editing)
       THEN /\ detached' = detached \cup {editing}
            /\ replaced' = replaced \cup {editing}
            /\ forgetful' = IF entry[editing].asset = None THEN forgetful \cup {editing}
                            ELSE forgetful
       ELSE UNCHANGED <<detached, replaced, forgetful>>
    /\ UNCHANGED <<server, calls, faults, files, saving, listed, entry, todo, loop,
                   removing, submission, dismissed>>

\* removeItem, which the page offers while it neither uploads nor submits.
RemoveItem(i) ==
    /\ loop.at = "idle"
    /\ submission # "page"
    /\ i \in listed
    /\ removing[i] = "no"
    /\ dismissed' = dismissed \cup {i}
    /\ IF entry[i].asset # None
       THEN /\ removing' = [removing EXCEPT ![i] = "delete"]
            /\ calls' = calls \cup {Sent("delete", i, entry[i].asset, "page")}
       ELSE /\ removing' = [removing EXCEPT ![i] = "unlink"]
            /\ UNCHANGED calls
    /\ UNCHANGED <<server, edits, faults, files, saving, listed, entry, todo, loop, submission>>

\* A refusal says that the asset is gone or uploaded: the item goes either way.
Deleted(c) ==
    /\ c.by = "page"
    /\ Answered(c)
    /\ calls' = calls \ {c}
    /\ removing' = [removing EXCEPT ![c.item] = IF c.step = "error" THEN "no" ELSE "unlink"]
    /\ UNCHANGED <<server, edits, faults, files, saving, listed, entry, todo, loop,
                   submission, dismissed>>

RemoveSavedFile(i) ==
    /\ removing[i] = "unlink"
    /\ files' = files \ {i}
    /\ removing' = [removing EXCEPT ![i] = "drop"]
    /\ UNCHANGED <<server, edits, calls, faults, saving, listed, entry, todo, loop,
                   submission, dismissed>>

RemoveListed(i) ==
    /\ removing[i] = "drop"
    /\ listed' = listed \ {i}
    /\ removing' = [removing EXCEPT ![i] = "no"]
    /\ UNCHANGED <<server, edits, calls, faults, files, saving, entry, todo, loop,
                   submission, dismissed>>

\* Mutant: an item whose upload has failed does not count as left to upload.
AskSubmitWithFailed ==
    /\ loop.at = "idle"
    /\ submission # "page"
    /\ \A i \in listed : entry[i].state \in {"completed", "failed"}
    /\ \E a \in Assets : asset[a] = "uploaded"
    /\ submission' = "page"
    /\ UNCHANGED <<server, edits, calls, faults, files, saving, listed, entry, todo, loop,
                   removing, dismissed>>

\* submitVisit, which the page offers when nothing in the queue is left to
\* upload.  A file that is still being saved is not yet in the queue.
AskSubmit ==
    /\ loop.at = "idle"
    /\ submission # "page"
    /\ \A i \in listed : entry[i].state = "completed"
    /\ \E a \in Assets : asset[a] = "uploaded"
    /\ submission' = "page"
    /\ UNCHANGED <<server, edits, calls, faults, files, saving, listed, entry, todo, loop,
                   removing, dismissed>>

\* The server submits the visit (PrepareSubmit), once the page has stored its
\* notes: the queue may have changed since the staff asked.
SubmitVisit ==
    /\ submission # "no"
    /\ submission' = "no"
    /\ visit' = IF \E a \in Assets : asset[a] = "uploaded" THEN "submitted" ELSE visit
    /\ UNCHANGED <<asset, origin, objects, edits, calls, faults, files, saving, listed, entry, todo, loop,
                   removing, dismissed>>

\* The page gets an error, and the request may still be on its way, or the
\* mini-program is closed while it is.
SubmitUnanswered ==
    \/ submission = "page" /\ submission' \in {"no", "nobody"}
    \/ submission # "page" /\ UNCHANGED submission

SubmitBreaks ==
    /\ submission = "page"
    /\ Fault
    /\ SubmitUnanswered
    /\ UNCHANGED <<server, edits, calls, files, saving, listed, entry, todo, loop, removing, dismissed>>

\* The requests that are still being served when their sender is gone.
Orphaned == {[c EXCEPT !.by = "nobody"] : c \in {d \in calls : ~ Answered(d)}}

\* Mutant: the queue is taken from storage as it was.
RestartAsStored ==
    /\ Fault
    /\ loop' = Resting("idle")
    /\ todo' = {}
    /\ saving' = {}
    /\ removing' = [i \in Items |-> "no"]
    /\ calls' = Orphaned
    /\ editing' = None
    /\ detached' = {}
    /\ SubmitUnanswered
    /\ UNCHANGED <<server, replaced, forgetful, files, listed, entry, dismissed>>

\* The mini-program is closed, and starts again: an upload that was under way
\* is to be done again (createUploadQueue).
Restart ==
    /\ Fault
    /\ loop' = Resting("idle")
    /\ todo' = {}
    /\ saving' = {}
    /\ removing' = [i \in Items |-> "no"]
    /\ calls' = Orphaned
    /\ editing' = None
    /\ detached' = {}
    /\ SubmitUnanswered
    /\ entry' = [i \in Items |->
                   IF entry[i].state = "uploading" THEN [entry[i] EXCEPT !.state = "local"]
                   ELSE entry[i]]
    /\ UNCHANGED <<server, replaced, forgetful, files, listed, dismissed>>

---------------------------------------------------------------------------
Upload == \/ EndResume \/ ReadFile \/ RemoveLocalFile \/ Drop
          \/ \E i \in Items : NextItem(i)
          \/ \E c \in calls : \/ Initiated(c) \/ LookedUp(c) \/ Renewed(c)
                              \/ PutDone(c) \/ Completed(c)

Next ==
    \/ Resume \/ Upload \/ RenameItem \/ AskSubmit \/ SubmitVisit \/ SubmitBreaks \/ Restart
    \/ \E i \in Items : \/ SaveCapturedFile(i) \/ Add(i) \/ Edit(i) \/ RemoveItem(i)
                        \/ RemoveSavedFile(i) \/ RemoveListed(i)
    \/ \E c \in calls :
          \/ Deleted(c)
          \/ (Handle(c) \/ Break(c) \/ GiveUp(c)) /\ UNCHANGED device

Spec == Init /\ [][Next]_vars

\* The mini-program and the server go on, and the page is shown again, or the
\* staff asks for the upload, as long as there is something in the queue.
Fairness ==
    /\ WF_vars(Resume)
    /\ WF_vars(Upload)
    /\ WF_vars((\E c \in calls : c.by = "queue" /\ Handle(c)) /\ UNCHANGED device)

FairSpec == Spec /\ Fairness

---------------------------------------------------------------------------
\* Every variable holds what the schema and the types of the code allow.
TypeOK ==
    /\ MaterialsTypeOK
    /\ files \cup saving \cup listed \cup todo \cup dismissed \subseteq Items
    /\ detached \cup replaced \cup forgetful \subseteq Items
    /\ entry \in [Items -> [state : UploadState, asset : Assets \cup {None}]]
    /\ loop \in [at : LoopSteps, item : Items \cup {None}, ticket : Assets \cup {None}]
    /\ editing \in Items \cup {None}
    /\ removing \in [Items -> {"no", "delete", "unlink", "drop"}]
    /\ submission \in {"no", "page", "nobody"}

\* A file leaves the device only when the server has confirmed its material
\* or the staff has dismissed it, and until then the item stays in the queue,
\* whichever requests, answers or restarts come in between (resume).
MaterialIsKept ==
    \A i \in added : Uploaded(i) \/ i \in dismissed \/ i \in files \cap listed

\* An uploaded asset has its object: a deletion that races the completion of
\* an upload never takes the object of the asset it leaves (DeletePending,
\* Complete).
UploadedIsStored == \A a \in Assets : asset[a] = "uploaded" => a \in objects

\* However often an item is retried, and whatever answers are lost, the server
\* gets it once: every other asset created for it stays pending, as the item
\* remembers the one it may complete.  Only an entry that is replaced while it
\* is uploaded, before it has its asset, forgets it (uploadQueuedAsset, add).
UploadedOnce ==
    \A i \in Items \ forgetful : \A a, b \in Assets :
      UploadedAs(i, a) /\ UploadedAs(i, b) => a = b

\* The items the server has, with the object.
stored == {origin[a] : a \in {b \in objects : asset[b] = "uploaded"}}

\* Seen from outside, mini-program and server implement MaterialOutcome: the
\* server never loses what it has, a file is discarded only for material the
\* server has or the staff has dismissed, and the staff can ask to submit the
\* visit only when the same holds of everything that has been in the queue
\* (resume, canSubmitVisit, PrepareSubmit).
Material == INSTANCE MaterialOutcome WITH held <- files, asked <- submission # "no"

ImplementsMaterialOutcome == Material!Spec

\* A replaced entry that says uploading although nobody uploads its item.
LeftUploading(i) == i \in replaced /\ entry[i].state = "uploading" /\ ~ Holds(i)

\* Closing the mini-program, lost answers and failures only delay an upload:
\* what is in the queue is uploaded in the end, unless the staff removes it
\* or the visit is submitted before, or its entry was replaced while it was
\* uploaded and the failure marked the old one (resume, createUploadQueue).
QueuedIsUploaded ==
    \A i \in Items :
      i \in listed ~> Uploaded(i) \/ i \in dismissed \/ visit # "draft" \/ LeftUploading(i)
===========================================================================
