---------------------------- MODULE MCRunControl ----------------------------
(* Instances of RunControl for TLC. *)
EXTENDS RunControl, TLC

\* Occurrences and plans are interchangeable; so are Run uids.
SafetySymmetry == Permutations(Occ) \union Permutations(Run) \union Permutations(Plan)

\* ... and the callers of the RPCs.
FullSymmetry == SafetySymmetry \union Permutations(Client)

\* What a live daemon owes its accepted work.  Which phase a Run ends in, how many
\* Runs one collection takes and a Reconcile RPC, which only helps the loop, make
\* no difference here.
LiveNext ==
    \/ Accept
    \/ \E i \in Id : Elapse(i)
    \/ Dispatch
    \/ \E c \in Client, r \in Run : RequestRunCancellation(c, r)
    \/ Deliver("loop")
    \/ \E c \in Client : MarkDelivered(c) \/ MarkDeliveredIfStartImpossible(c) \/ DeliveryDone(c)
    \/ \E c \in Client, r \in Run : Cancel(c, r) \/ CancelFails(c, r)
    \/ \E r \in Run : CompleteRun(r, "succeeded") \/ WorkflowFinish(r)
    \/ \E c \in Client, r \in Run : PlanRunRetention(c, {r}) \/ BeginRemove(c, r)
    \/ \E c \in Client : EndRemove(c) \/ RemoveTimeout(c) \/ CollectRetainedRuns(c)
    \/ Crash
LiveSpec == Init /\ [][LiveNext]_vars /\ LoopFairness /\ TimeFairness /\ WorkflowFairness
=============================================================================
