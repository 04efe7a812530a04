-------------------------- MODULE MCNodeExecution --------------------------
(***************************************************************************)
(* What the nodes of a Run do: the attempts and calls of plugin nodes, and *)
(* the waits of event nodes.  The two share no state: a behaviour          *)
(* exercises one of them, chosen at the start.                             *)
(***************************************************************************)
EXTENDS NodeExecution, EventNodes

VARIABLE part

\* Both nodes have failed and nothing is left to do.
NodesParked ==
    /\ phase = "running" /\ canceller = "idle" /\ snapshot = {} /\ stopping = FALSE
    /\ state = [n \in Node |-> [k \in Attempt |-> "absent"]]
    /\ framework = [n \in Node |-> [k \in Attempt |-> 0]]
    /\ last = [n \in Node |-> 0] /\ ordinal = [n \in Node |-> 1]
    /\ task = [n \in Node |-> "done"] /\ hist = [n \in Node |-> "failed"]
    /\ pc = [w \in Worker |-> "idle"] /\ node = [w \in Worker |-> NoNode]
    /\ att = [w \in Worker |-> 0] /\ res = [w \in Worker |-> "none"]
    /\ tokens = 0 /\ agents = 0 /\ active = {} /\ doomed = {}
    /\ crashes = 0 /\ faults = 0

MCInit ==
    /\ part \in {"plugin", "event"} /\ EventsInit
    /\ IF part = "plugin" THEN Init ELSE NodesParked

Calling(A)    == part = "plugin" /\ A /\ UNCHANGED <<eventVars, part>>
Signalling(A) == part = "event" /\ A /\ UNCHANGED <<vars, part>>

MCNext == Calling(Next) \/ Signalling(EventsNext)

all == <<vars, eventVars, part>>

MCSpec ==
    /\ MCInit /\ [][MCNext]_all
    /\ \A w \in Worker : WF_all(Calling(ExecuteNode(w)))
    /\ \A n \in Node : WF_all(Calling(\E w \in Worker : Take(w, n)))
    /\ WF_all(Calling(Deliver)) /\ WF_all(Calling(stopping /\ Restart))
    /\ \A g \in Gates : WF_all(Signalling(Subscription(g)))
    /\ WF_all(Signalling(Dispatching))
    /\ \A t \in Targets : WF_all(Signalling(EventNode(t)))
=============================================================================
