---------------------------- MODULE JobOutcome ----------------------------
(***************************************************************************)
(* What the provider job service promises the workflow engine.  A job is   *)
(* created once, settles once, on success or on failure, and is            *)
(* acknowledged by its consumer only after it has settled.  How often the  *)
(* provider is called, in which order its answers arrive and who applies   *)
(* them is none of the consumer's business.                                *)
(***************************************************************************)

CONSTANT Jobs       \* the provider jobs, one per workflow node and run

VARIABLES outcome,  \* outcome[j]: "none", "open", "succeeded" or "failed"
          consumed  \* the jobs whose outcome the workflow has acknowledged

Settled == {"succeeded", "failed"}

Init == /\ outcome = [j \in Jobs |-> "none"]
        /\ consumed = {}

Create(j) == /\ outcome[j] = "none"
             /\ outcome' = [outcome EXCEPT ![j] = "open"]
             /\ UNCHANGED consumed

Settle(j) == /\ outcome[j] = "open"
             /\ \E s \in Settled : outcome' = [outcome EXCEPT ![j] = s]
             /\ UNCHANGED consumed

Consume(j) == /\ outcome[j] \in Settled
              /\ consumed' = consumed \cup {j}
              /\ UNCHANGED outcome

Next == \E j \in Jobs : Create(j) \/ Settle(j) \/ Consume(j)

Spec == Init /\ [][Next]_<<outcome, consumed>>
===========================================================================
