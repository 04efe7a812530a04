---------------------------- MODULE Interpreter ----------------------------
(***************************************************************************)
(* InterpreterWorkflow: the scheduler that runs a compiled plan inside the *)
(* durable workflow.  The plan's nodes are grouped into strongly connected *)
(* components; a coroutine per admitted component executes its nodes, and  *)
(* hands its result to the scheduler through a buffered channel.           *)
(*                                                                         *)
(* The plan is any graph over Node, chosen in Init.  What a node returns   *)
(* (which outgoing edges it activates, rejection, error) is arbitrary, and *)
(* activity results arrive in any order.  Cancellation of the whole Run is *)
(* RunControl's subject and does not occur here.                           *)
(***************************************************************************)
EXTENDS Naturals, FiniteSets

CONSTANTS N,            \* nodes of the plan; ids are compared like strings
          MaxParallel,  \* largest policies.maxParallel considered
          MaxLoop       \* largest loop.maxIterations considered

ASSUME InterpreterAssumption ==
    /\ N \in Nat \ {0} /\ MaxParallel \in Nat \ {0} /\ MaxLoop \in Nat \ {0}

Node == 1..N

VARIABLES
    edges, par, loop, \* the plan: edges, maxParallel, loop bound
    comp,      \* componentByNode, a component being named by its least node
    rank,      \* position of a component in componentModel.order
    pending,   \* components not admitted
    active,    \* admitted and not yet received
    completed, \* received
    mailbox,   \* completions: finished coroutines not yet received
    status,    \* coroutine of a component
    queue,     \* executePlanComponent: nodes to execute
    current,   \* executePlanComponent: the node in flight, 0 for none
    counts,    \* executePlanComponent: executions of a node
    skipped,   \* nodes with a node.skipped event
    produced,  \* componentResult.edgeActive
    inputs,    \* inputEdges: active incoming edges at admission
    edgeActive,
    main,      \* scheduler: admit, stop, done
    stopAdmission, firstError, rejected,
    cancelled, \* schedulerContext
    outcome    \* terminal event of the Run, "none" before

planVars   == <<edges, par, loop, comp, rank>>
schedVars  == <<pending, active, completed, edgeActive, main, stopAdmission,
                firstError, rejected, cancelled, outcome>>
coVars     == <<mailbox, status, queue, current, counts, skipped, produced, inputs>>
vars       == <<planVars, schedVars, coVars>>

-----------------------------------------------------------------------------
(* The component model.                                                    *)

Least(S) == CHOOSE x \in S : \A y \in S : x <= y

\* Nodes reachable from n, n itself included.
ReachableFrom(n, E) ==
    LET Within[k \in 0..N] ==
          IF k = 0 THEN {n}
          ELSE LET w == Within[k - 1] IN w \union {e[2] : e \in {d \in E : d[1] \in w}}
    IN Within[N]

\* The strongly connected component of n, by its least node.
ComponentOf(n, E) ==
    Least({m \in Node : m \in ReachableFrom(n, E) /\ n \in ReachableFrom(m, E)})

Components   == {comp[n] : n \in Node}
Nodes(c)     == {n \in Node : comp[n] = c}
Incoming(c)  == {e \in edges : comp[e[2]] = c /\ comp[e[1]] # c}
Outgoing(n)  == {e \in edges : e[1] = n}
Cyclic(c)    == \E e \in edges : comp[e[1]] = c /\ comp[e[2]] = c
Limit(c)     == IF Cyclic(c) THEN loop ELSE 1

Predecessors(c) == {comp[e[1]] : e \in Incoming(c)}

\* Kahn's algorithm; among the components without a predecessor left, the one
\* with the least node comes first.  Placed[k] holds the first k of the order.
Order ==
    LET Placed[k \in 0..N] ==
          IF k = 0 THEN {}
          ELSE LET w    == Placed[k - 1]
                   free == {c \in Components \ w : Predecessors(c) \subseteq w}
               IN IF free = {} THEN w ELSE w \union {Least(free)}
    IN [c \in Node |-> Cardinality({k \in 0..N : c \notin Placed[k]})]

Init ==
    /\ edges \in SUBSET (Node \X Node)
    /\ par \in 1..MaxParallel /\ loop \in 1..MaxLoop
    /\ comp = [n \in Node |-> ComponentOf(n, edges)]
    /\ rank = Order
    /\ pending = Components
    /\ active = 0 /\ completed = {} /\ mailbox = {}
    /\ status = [c \in Node |-> "new"]
    /\ queue = [c \in Node |-> {}]
    /\ current = [c \in Node |-> 0]
    /\ counts = [n \in Node |-> 0]
    /\ skipped = {}
    /\ produced = [c \in Node |-> {}]
    /\ inputs = [c \in Node |-> {}]
    /\ edgeActive = {}
    /\ main = "admit"
    /\ stopAdmission = FALSE /\ firstError = FALSE /\ rejected = FALSE
    /\ cancelled = FALSE
    /\ outcome = "none"

TypeOK ==
    /\ edges \subseteq Node \X Node /\ par \in 1..MaxParallel /\ loop \in 1..MaxLoop
    /\ comp \in [Node -> Node] /\ rank \in [Node -> Nat]
    /\ pending \subseteq Node /\ completed \subseteq Node /\ mailbox \subseteq Node
    /\ active \in Nat
    /\ status \in [Node -> {"new", "run", "skip", "ok", "rejected", "error"}]
    /\ queue \in [Node -> SUBSET Node]
    /\ current \in [Node -> 0..N] /\ counts \in [Node -> 0..MaxLoop]
    /\ skipped \subseteq Node
    /\ produced \in [Node -> SUBSET (Node \X Node)]
    /\ inputs \in [Node -> SUBSET (Node \X Node)]
    /\ edgeActive \subseteq edges
    /\ main \in {"admit", "stop", "done"}
    /\ {stopAdmission, firstError, rejected, cancelled} \subseteq BOOLEAN
    /\ outcome \in {"none", "succeeded", "rejected", "failed", "deadlock"}

-----------------------------------------------------------------------------
(* Admission.                                                              *)

\* Mutant: a join is ready as soon as one predecessor has completed.
AnyPredecessor(c) == \/ Predecessors(c) = {}
                     \/ Predecessors(c) \intersect completed # {}

Ready(c) == Predecessors(c) \subseteq completed

\* nextReady: the first pending component in compiled order.
NextReady(c) == /\ c \in pending /\ Ready(c)
                /\ \A d \in pending : Ready(d) => rank[c] <= rank[d]

ComponentActive(c) == Incoming(c) = {} \/ Incoming(c) \intersect edgeActive # {}

\* executePlanComponent's first queue.
StartQueue(c) ==
    IF ~ Cyclic(c) \/ Incoming(c) = {} THEN {Least(Nodes(c))}
    ELSE {e[2] : e \in Incoming(c) \intersect edgeActive}

CanAdmit == /\ main = "admit" /\ ~ stopAdmission /\ active < par
            /\ \E c \in pending : Ready(c)

Admit ==
    /\ CanAdmit
    /\ \E c \in pending :
         /\ NextReady(c)
         /\ pending' = pending \ {c}
         /\ inputs' = [inputs EXCEPT ![c] = Incoming(c) \intersect edgeActive]
         /\ status' = [status EXCEPT ![c] = IF ComponentActive(c) THEN "run" ELSE "skip"]
         /\ queue' = [queue EXCEPT ![c] = IF ComponentActive(c) THEN StartQueue(c) ELSE {}]
    /\ active' = active + 1
    /\ UNCHANGED <<planVars, completed, edgeActive, main, stopAdmission, firstError, rejected,
                   cancelled, outcome, mailbox, current, counts, skipped, produced>>

-----------------------------------------------------------------------------
(* The coroutine of a component.                                           *)

Running(c) == status[c] \in {"run", "skip"}

\* Nodes of the component that were neither executed nor skipped so far.
ToSkip(c) == {n \in Nodes(c) : counts[n] = 0 /\ n \notin skipped}

\* SendNonblocking on the completion channel.
Send(c, result) ==
    /\ status' = [status EXCEPT ![c] = result]
    /\ mailbox' = mailbox \union {c}

\* Nodes of the same component an activated edge leads to, below their bound.
\* A queued node is not executed meanwhile, so that the same test on taking it
\* from the queue never fails.
Requeue(c, targets) == {n \in targets : counts[n] < Limit(c)}

Idle(c) == status[c] = "run" /\ current[c] = 0

\* The next node's activity is scheduled, unless the context is cancelled.
CallNode(c) ==
    /\ Idle(c) /\ ~ cancelled
    /\ \E n \in queue[c] :
         /\ queue' = [queue EXCEPT ![c] = @ \ {n}]
         /\ current' = [current EXCEPT ![c] = n]
         /\ counts' = [counts EXCEPT ![n] = @ + 1]
    /\ UNCHANGED <<planVars, schedVars, mailbox, status, skipped, produced, inputs>>

\* It returned, possibly after the context was cancelled: the activated edges
\* are recorded, edges within the component put their targets into the queue.
NodeReturns(c, activated) ==
    /\ current[c] # 0
    /\ current' = [current EXCEPT ![c] = 0]
    /\ produced' = [produced EXCEPT ![c] = @ \union activated]
    /\ queue' = [queue EXCEPT ![c] = @ \union
                   Requeue(c, {e[2] : e \in {d \in activated : comp[d[2]] = c}})]
    /\ UNCHANGED <<planVars, schedVars, mailbox, status, counts, skipped, inputs>>

\* An approval was rejected: its edges are recorded, the component ends.
NodeRejects(c, activated) ==
    /\ current[c] # 0
    /\ current' = [current EXCEPT ![c] = 0]
    /\ produced' = [produced EXCEPT ![c] = @ \union activated]
    /\ Send(c, "rejected")
    /\ UNCHANGED <<planVars, schedVars, queue, counts, skipped, inputs>>

\* Mutant: an error return that does not reach SendNonblocking.
FailsSilently(c) ==
    /\ Running(c) /\ current[c] # 0
    /\ current' = [current EXCEPT ![c] = 0]
    /\ status' = [status EXCEPT ![c] = "error"]
    /\ UNCHANGED <<planVars, schedVars, mailbox, queue, counts, skipped, produced, inputs>>

\* The activity of a node, or of a skip, failed or was cancelled.
ComponentFails(c) ==
    /\ Running(c)
    /\ \/ current[c] # 0
       \/ queue[c] # {} /\ cancelled
       \/ queue[c] = {} /\ ToSkip(c) # {}
    /\ current' = [current EXCEPT ![c] = 0]
    /\ Send(c, "error")
    /\ UNCHANGED <<planVars, schedVars, queue, counts, skipped, produced, inputs>>

\* The queue is empty: a node never executed is skipped.
SkipNode(c) ==
    /\ Running(c) /\ current[c] = 0 /\ queue[c] = {}
    /\ \E n \in ToSkip(c) : skipped' = skipped \union {n}
    /\ UNCHANGED <<planVars, schedVars, mailbox, status, queue, current, counts, produced, inputs>>

ComponentEnds(c) ==
    /\ Running(c) /\ current[c] = 0 /\ queue[c] = {} /\ ToSkip(c) = {}
    /\ Send(c, "ok")
    /\ UNCHANGED <<planVars, schedVars, queue, current, counts, skipped, produced, inputs>>

-----------------------------------------------------------------------------
(* The scheduler.                                                          *)

\* completions.Receive, once admission can go no further.
Receive(c) ==
    /\ main = "admit" /\ ~ CanAdmit /\ c \in mailbox
    /\ mailbox' = mailbox \ {c}
    /\ active' = active - 1
    /\ completed' = completed \union {c}
    /\ IF status[c] = "error"
         THEN /\ main' = IF firstError THEN "admit" ELSE "stop"
              /\ firstError' = TRUE
              /\ stopAdmission' = TRUE
              /\ UNCHANGED <<edgeActive, rejected>>
         ELSE /\ edgeActive' = edgeActive \union produced[c]
              /\ LET first == status[c] = "rejected" /\ ~ rejected
                 IN /\ rejected' = (rejected \/ first)
                    /\ stopAdmission' = (stopAdmission \/ first)
                    /\ main' = IF first THEN "stop" ELSE "admit"
              /\ UNCHANGED firstError
    /\ UNCHANGED <<planVars, pending, cancelled, outcome, status, queue, current, counts,
                   skipped, produced, inputs>>

\* CancelActiveCalls, then cancelScheduler.
CancelScheduler ==
    /\ main = "stop"
    /\ cancelled' = TRUE
    /\ main' = "admit"
    /\ UNCHANGED <<planVars, pending, active, completed, edgeActive, stopAdmission, firstError,
                   rejected, outcome, coVars>>

End(result) ==
    /\ outcome' = result
    /\ main' = "done"
    /\ UNCHANGED <<planVars, pending, active, completed, edgeActive, stopAdmission, firstError,
                   rejected, cancelled, coVars>>

NoneActive == active = 0

\* Nothing is in flight and nothing can be admitted: FailRun or CompleteRun
\* records the terminal event.
Terminate ==
    /\ main = "admit" /\ ~ CanAdmit /\ NoneActive
    /\ End(CASE firstError -> "failed"
            [] ~ firstError /\ rejected -> "rejected"
            [] ~ stopAdmission /\ pending # {} -> "deadlock"
            [] OTHER -> "succeeded")

-----------------------------------------------------------------------------
Coroutine(c) == \/ \E activated \in SUBSET Outgoing(current[c]) :
                     NodeReturns(c, activated) \/ NodeRejects(c, activated)
                \/ CallNode(c) \/ SkipNode(c) \/ ComponentEnds(c) \/ ComponentFails(c)

Scheduler == \/ Admit \/ (\E c \in Node : Receive(c)) \/ CancelScheduler
             \/ Terminate

Next == Scheduler \/ \E c \in Node : Coroutine(c)

Spec == Init /\ [][Next]_vars

\* The engine's workers return every activity and run the workflow on.
FairSpec == /\ Spec
            /\ WF_vars(Scheduler)
            /\ \A c \in Node : WF_vars(Coroutine(c))

-----------------------------------------------------------------------------
(* What a Run may rely on.                                                 *)

\* The branch "component scheduler reached a dependency deadlock" is dead code
\* for every plan graph, whatever is skipped and however loops end.
NoDependencyDeadlock == outcome # "deadlock"

\* The panic "component completion buffer is exhausted" cannot happen: the
\* coroutines that still have to send fit into the channel.
BufferSuffices ==
    Cardinality(mailbox) + Cardinality({c \in Node : Running(c)}) <= par

\* What a component was admitted with is what its predecessors produced in the
\* end: no edge into it becomes active after its admission.
InputsAreFinal ==
    \A c \in Components \ pending : inputs[c] = Incoming(c) \intersect edgeActive

\* The interpreter "drains the admitted components, and only then records the
\* terminal Run event".
DrainedBeforeTerminal ==
    outcome # "none" => mailbox = {} /\ \A c \in Node : ~ Running(c)

\* A succeeded Run accounts for every node: it was executed, at most as often
\* as its loop allows, because something activated it, or it was skipped
\* because nothing did.
SuccessCoversPlan ==
    outcome = "succeeded" =>
        \A n \in Node :
            LET reached == edgeActive \intersect {e \in edges : e[2] = n} # {}
                entry   == Incoming(comp[n]) = {} /\ n = comp[n]
            IN /\ n \in skipped <=> counts[n] = 0
               /\ counts[n] > 0 <=> reached \/ entry
               /\ counts[n] <= Limit(comp[n])

\* Every Run of every plan ends, cycles included.
InterpreterTerminates == <>(main = "done")

\* For every plan graph, parallelism and outcome of its nodes the scheduler
\* neither deadlocks nor panics, feeds a component with final inputs, drains
\* before it ends the Run, and succeeds only with the whole plan accounted for.
SchedulerInv ==
    /\ TypeOK
    /\ NoDependencyDeadlock
    /\ BufferSuffices
    /\ InputsAreFinal
    /\ DrainedBeforeTerminal
    /\ SuccessCoversPlan
=============================================================================
