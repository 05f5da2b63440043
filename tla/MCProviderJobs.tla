-------------------------- MODULE MCProviderJobs --------------------------
(***************************************************************************)
(* ProviderJobs for TLC: a provider that answers in every way the service  *)
(* tells apart.                                                            *)
(***************************************************************************)
EXTENDS ProviderJobs, TLC

CONSTANT p1          \* the identifier most answers carry

From(id, state, out) == [mine |-> TRUE, id |-> id, state |-> state, out |-> out]

\* An open answer, a success, a success that fails normalization, a failure,
\* an answer outside the contract and one that belongs to another job.
MCReplies ==
    UNION {{From(id, "processing", None), From(id, "succeeded", o)} : id \in ProviderIds, o \in Outputs}
    \cup {From(id, state, None) : id \in {p1}, state \in {"succeeded", "retryable_failed", "cancelled", Malformed}}
    \cup {[From(None, "submitted", None) EXCEPT !.mine = FALSE]}

\* Answers that leave the job open, one that settles it, one to refuse.
FewReplies == {From(id, "processing", None) : id \in ProviderIds}
    \cup {From(p1, "cancelled", None),
          [From(None, "submitted", None) EXCEPT !.mine = FALSE]}

ActorSymmetry == Permutations(Actors)
===========================================================================
