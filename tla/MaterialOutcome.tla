-------------------------- MODULE MaterialOutcome --------------------------
(***************************************************************************)
(* What the capture of material promises the staff: what is captured stays *)
(* on the device until the server has it, and a visit is not submitted     *)
(* past material that waits in the queue; whatever is closed, lost,        *)
(* repeated or removed meanwhile.                                          *)
(***************************************************************************)

CONSTANT Items        \* what the staff captures

VARIABLES held,       \* the items with a file on the device
          added,      \* the items that have been in the queue
          stored,     \* the items the server has, with the object
          dismissed,  \* the items the staff has asked to remove
          asked,      \* whether a request to submit the visit is on its way
          visit       \* state of the visit

material == <<held, added, stored, dismissed>>

Init == /\ held = {} /\ added = {} /\ stored = {} /\ dismissed = {}
        /\ asked = FALSE
        /\ visit = "draft"

\* An item is captured once.  The mini-program may be closed before it is added.
Capture(i) == /\ i \notin held \cup added
              /\ held' = held \cup {i}
              /\ UNCHANGED <<added, stored, dismissed, asked, visit>>

Add(i) == /\ i \in held
          /\ added' = added \cup {i}
          /\ UNCHANGED <<held, stored, dismissed, asked, visit>>

Store(i) == /\ i \in added
            /\ stored' = stored \cup {i}
            /\ UNCHANGED <<held, added, dismissed, asked, visit>>

Dismiss(i) == /\ i \in added
              /\ dismissed' = dismissed \cup {i}
              /\ UNCHANGED <<held, added, stored, asked, visit>>

\* The only copy is never discarded on anyone's own account.
Discard(i) == /\ i \in stored \cup dismissed
              /\ held' = held \ {i}
              /\ UNCHANGED <<added, stored, dismissed, asked, visit>>

\* Nothing may wait in the queue when the staff asks; what is added later is late.
Ask == /\ added \subseteq stored \cup dismissed
       /\ stored # {}
       /\ asked' = TRUE
       /\ UNCHANGED <<material, visit>>

Forget == /\ asked' = FALSE
          /\ UNCHANGED <<material, visit>>

Submit == /\ asked
          /\ asked' = FALSE
          /\ visit' = "submitted"
          /\ UNCHANGED material

Next == \/ \E i \in Items : Capture(i) \/ Add(i) \/ Store(i) \/ Dismiss(i) \/ Discard(i)
        \/ Ask \/ Forget \/ Submit

vars == <<material, asked, visit>>

Spec == Init /\ [][Next]_vars
===========================================================================
