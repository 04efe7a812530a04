--------------------------- MODULE NodeExecution ---------------------------
(***************************************************************************)
(* Execution of the plugin nodes of one Run: the ExecuteNode activity, the *)
(* node_attempts table, the concurrency limiters and active-call table of  *)
(* the plugin manager, and the propagation of a cancellation to calls.     *)
(*                                                                         *)
(* A node's activity is delivered at least once.  Each delivery records a  *)
(* physical attempt before it calls the plugin and the outcome afterwards; *)
(* the durable engine's retry ordinal (framework_attempt) tells a          *)
(* redelivery from a retry.  go-workflows is external: it hands a task to  *)
(* one live worker at a time, and hands it out again after a restart.      *)
(***************************************************************************)
EXTENDS Naturals, FiniteSets

CONSTANTS Node,           \* plugin nodes admitted by the interpreter
          AgentNode,      \* those that use the agent-command plugin
          Worker,         \* goroutines of the activity worker
          NoNode,
          RetryLimit,     \* PlanNode.RetryLimit
          MaxActivities,  \* Limits.MaxConcurrentActivities
          MaxAgents,      \* Limits.MaxAgentProcesses
          MaxAttempt,     \* the last physical attempt number (2^32 - 1)
          MaxCrashes,     \* bound: daemon exits, graceful or not
          MaxFaults       \* bound: transactions that fail to commit

ASSUME NodeExecutionAssumption ==
    /\ NoNode \notin Node
    /\ AgentNode \subseteq Node
    /\ IsFiniteSet(Worker)
    /\ RetryLimit \in Nat /\ MaxAttempt \in Nat \ {0}
    /\ MaxActivities \in Nat \ {0} /\ MaxAgents \in Nat \ {0}
    /\ MaxCrashes \in Nat /\ MaxFaults \in Nat

VARIABLES
    phase,     \* runs.phase of the Run: "running" or "cancelled"
    state,     \* node_attempts: node |-> attempt |-> phase and outcome
    framework, \* node_attempts.framework_attempt
    last,      \* MAX(attempt) of the node, 0 without rows
    task,      \* the node's activity in the engine: queued, leased, done
    ordinal,   \* the engine's retry ordinal, from 1
    hist,      \* the result in the workflow history
    pc,        \* worker: control point in ExecuteNode and Manager.Execute
    node,      \* worker: the node at hand
    att,       \* worker: its physical attempt
    res,       \* worker: what Execute returned
    tokens,    \* taken tokens of the activity limiter
    agents,    \* taken tokens of the agent limiter
    active,    \* Manager.active: workers with a registered call
    doomed,    \* registered calls whose context was cancelled
    canceller, \* Adapter.Cancel: idle, calls, wait, done
    snapshot,  \* the calls CancelRun collected
    stopping,  \* the daemon's context is cancelled
    crashes, faults

storeVars  == <<phase, state, framework, last>>
engineVars == <<task, ordinal, hist>>
workerVars == <<pc, node, att, res>>
callVars   == <<tokens, agents, active, doomed>>
cancelVars == <<canceller, snapshot>>
boundVars  == <<stopping, crashes, faults>>
vars == <<storeVars, engineVars, workerVars, callVars, cancelVars, boundVars>>

-----------------------------------------------------------------------------
Attempt  == 1..MaxAttempt
Recorded == {"succeeded", "failed", "lost"}   \* completed_at is set
Result   == {"none", "succeeded", "failed", "cancelled", "interrupted", "permanent"}
Point    == {"idle", "begin", "acquire", "launch", "registered", "agent", "calling",
             "complete", "report"}

\* Control points at which the plugin may still be called.
Executing == {"acquire", "launch", "registered", "agent", "calling"}
\* ... and at which an activity token, or an agent token, is held.
Holding      == {"launch", "registered", "agent", "calling"}
HoldsAgent(w) == pc[w] = "calling" /\ node[w] \in AgentNode

TypeOK ==
    /\ phase \in {"running", "cancelled"}
    /\ state \in [Node -> [Attempt -> {"absent", "running"} \union Recorded]]
    /\ framework \in [Node -> [Attempt -> 0..RetryLimit + 1]]
    /\ last \in [Node -> 0..MaxAttempt]
    /\ task \in [Node -> {"queued", "leased", "done"}]
    /\ ordinal \in [Node -> 1..RetryLimit + 1]
    /\ hist \in [Node -> {"none", "succeeded", "failed"}]
    /\ pc \in [Worker -> Point]
    /\ node \in [Worker -> Node \union {NoNode}]
    /\ att \in [Worker -> 0..MaxAttempt]
    /\ res \in [Worker -> Result]
    /\ tokens \in Nat /\ agents \in Nat
    /\ active \subseteq Worker /\ doomed \subseteq Worker
    /\ canceller \in {"idle", "calls", "wait", "done"}
    /\ snapshot \subseteq Worker
    /\ stopping \in BOOLEAN
    /\ crashes \in 0..MaxCrashes /\ faults \in 0..MaxFaults

Init ==
    /\ phase = "running"
    /\ state = [n \in Node |-> [k \in Attempt |-> "absent"]]
    /\ framework = [n \in Node |-> [k \in Attempt |-> 0]]
    /\ last = [n \in Node |-> 0]
    /\ task = [n \in Node |-> "queued"]
    /\ ordinal = [n \in Node |-> 1]
    /\ hist = [n \in Node |-> "none"]
    /\ pc = [w \in Worker |-> "idle"]
    /\ node = [w \in Worker |-> NoNode]
    /\ att = [w \in Worker |-> 0]
    /\ res = [w \in Worker |-> "none"]
    /\ tokens = 0 /\ agents = 0
    /\ active = {} /\ doomed = {}
    /\ canceller = "idle" /\ snapshot = {}
    /\ stopping = FALSE
    /\ crashes = 0 /\ faults = 0

Goto(w, label)       == pc' = [pc EXCEPT ![w] = label]
Finish(w, result)    == Goto(w, "complete") /\ res' = [res EXCEPT ![w] = result]
Reply(w, result)     == Goto(w, "report") /\ res' = [res EXCEPT ![w] = result]

-----------------------------------------------------------------------------
(* ExecuteNode up to the call.                                             *)

\* The engine leases the activity to an idle worker.
Take(w, n) ==
    /\ pc[w] = "idle" /\ task[n] = "queued" /\ ~ stopping
    /\ task' = [task EXCEPT ![n] = "leased"]
    /\ node' = [node EXCEPT ![w] = n]
    /\ Goto(w, "begin")
    /\ UNCHANGED <<storeVars, ordinal, hist, att, res, callVars, cancelVars, boundVars>>

\* nodeAttemptForFrameworkTx: the newest row of the current retry ordinal.
OfOrdinal(n) == {k \in Attempt : k <= last[n] /\ framework[n][k] = ordinal[n]}
Latest(n, k) == k \in OfOrdinal(n) /\ \A j \in OfOrdinal(n) : j <= k

\* BeginNodeAttempt finds a terminal row: the activity replays it.
ReplayAttempt(w) ==
    /\ pc[w] = "begin"
    /\ \E k \in Attempt :
         /\ Latest(node[w], k)
         /\ state[node[w]][k] \in Recorded
         /\ Reply(w, IF state[node[w]][k] = "succeeded" THEN "succeeded" ELSE "failed")
    /\ UNCHANGED <<storeVars, engineVars, node, att, callVars, cancelVars, boundVars>>

\* The newest row, if any, is not terminal.
Unrecorded(n) == \A k \in OfOrdinal(n) : Latest(n, k) => state[n][k] = "running"

\* BeginNodeAttempt refuses: the Run is terminal, or the numbers are used up.
RefuseAttempt(w) ==
    /\ pc[w] = "begin"
    /\ Unrecorded(node[w])
    /\ phase = "cancelled" \/ last[node[w]] = MaxAttempt
    /\ Reply(w, "failed")
    /\ UNCHANGED <<storeVars, engineVars, node, att, callVars, cancelVars, boundVars>>

\* Mutant: the delivery that disappeared keeps its row.
ForgetLost(n, rows) == rows
\* An incomplete delivery of this ordinal becomes delivery-lost.
MarkLost(n, rows) == [k \in Attempt |-> IF Latest(n, k) THEN "lost" ELSE rows[k]]

\* BeginNodeAttempt records a new physical attempt.
BeginNodeAttempt(w) ==
    /\ pc[w] = "begin"
    /\ LET n == node[w]
           k == last[n] + 1
       IN /\ Unrecorded(n)
          /\ phase # "cancelled" /\ last[n] < MaxAttempt
          /\ state' = [state EXCEPT ![n] = [MarkLost(n, @) EXCEPT ![k] = "running"]]
          /\ framework' = [framework EXCEPT ![n][k] = ordinal[n]]
          /\ last' = [last EXCEPT ![n] = k]
          /\ att' = [att EXCEPT ![w] = k]
    /\ Goto(w, "acquire")
    /\ UNCHANGED <<phase, engineVars, node, res, callVars, cancelVars, boundVars>>

-----------------------------------------------------------------------------
(* Manager.Execute.                                                        *)

\* activities.acquire: the delivery waits for a token.
AcquireActivity(w) ==
    /\ pc[w] = "acquire" /\ tokens < MaxActivities
    /\ tokens' = tokens + 1
    /\ Goto(w, "launch")
    /\ UNCHANGED <<storeVars, engineVars, node, att, res, agents, active, doomed, cancelVars, boundVars>>

\* Mutant: the error path keeps the token.
LaunchLeaks(w) ==
    /\ pc[w] = "launch"
    /\ Finish(w, "failed")
    /\ UNCHANGED <<storeVars, engineVars, node, att, callVars, cancelVars, boundVars>>

\* processFor: the plugin process is there, or launched, or cannot be; a
\* failure returns the token on the way out.
LaunchFails(w) ==
    /\ pc[w] = "launch"
    /\ tokens' = tokens - 1
    /\ Finish(w, "failed")
    /\ UNCHANGED <<storeVars, engineVars, node, att, agents, active, doomed, cancelVars, boundVars>>

\* registerActiveCall.
RegisterActiveCall(w) ==
    /\ pc[w] = "launch"
    /\ active' = active \union {w}
    /\ Goto(w, IF node[w] \in AgentNode THEN "agent" ELSE "registered")
    /\ UNCHANGED <<storeVars, engineVars, node, att, res, tokens, agents, doomed, cancelVars, boundVars>>

\* The deferred releases of Execute.
Leave(w) ==
    /\ tokens' = tokens - 1
    /\ agents' = IF HoldsAgent(w) THEN agents - 1 ELSE agents
    /\ active' = active \ {w}
    /\ doomed' = doomed \ {w}

\* agents.acquire, then the call; both only under a live context.
CallAgent(w) ==
    /\ pc[w] = "agent" /\ agents < MaxAgents /\ w \notin doomed
    /\ agents' = agents + 1
    /\ Goto(w, "calling")
    /\ UNCHANGED <<storeVars, engineVars, node, att, res, tokens, active, doomed, cancelVars, boundVars>>

CallTask(w) ==
    /\ pc[w] = "registered" /\ w \notin doomed
    /\ Goto(w, "calling")
    /\ UNCHANGED <<storeVars, engineVars, node, att, res, callVars, cancelVars, boundVars>>

\* The plugin's stream ends with a terminal event, or breaks.
CallReturns(w, result) ==
    /\ pc[w] = "calling"
    /\ Leave(w)
    /\ Finish(w, result)
    /\ UNCHANGED <<storeVars, engineVars, node, att, cancelVars, boundVars>>

\* The call's context was cancelled by CancelRun while the activity's was not.
CallCancelled(w) ==
    /\ pc[w] \in {"registered", "agent", "calling"} /\ w \in doomed
    /\ Leave(w)
    /\ Finish(w, "cancelled")
    /\ UNCHANGED <<storeVars, engineVars, node, att, cancelVars, boundVars>>

\* A graceful shutdown cancels the activity's own context.
CallInterrupted(w) ==
    /\ stopping
    /\ \/ pc[w] = "acquire" /\ UNCHANGED callVars
       \/ pc[w] \in Holding /\ Leave(w)
    /\ Finish(w, "interrupted")
    /\ UNCHANGED <<storeVars, engineVars, node, att, cancelVars, boundVars>>

-----------------------------------------------------------------------------
(* ExecuteNode after the call.                                             *)

\* What an outcome becomes in the row and for the engine.
RowOf(result) ==
    CASE result = "succeeded" -> "succeeded"
      [] result = "interrupted" /\ phase # "cancelled" -> "lost"
      [] OTHER -> "failed"
ReplyOf(result) ==
    CASE result = "succeeded" -> "succeeded"
      [] result = "cancelled" -> "permanent"
      [] OTHER -> "failed"

\* CompleteNodeAttempt: the first terminal outcome stays.
Record(n, k, row) ==
    state' = [state EXCEPT ![n][k] = IF @ = "running" THEN row ELSE @]

CompleteNodeAttempt(w) ==
    /\ pc[w] = "complete"
    /\ Record(node[w], att[w], RowOf(res[w]))
    /\ Reply(w, ReplyOf(res[w]))
    /\ UNCHANGED <<phase, framework, last, engineVars, node, att, callVars, cancelVars, boundVars>>

\* The transaction fails.  A failure path ignores that; the success path
\* reports an error instead of its result.
CompleteFails(w) ==
    /\ pc[w] = "complete"
    /\ faults < MaxFaults
    /\ faults' = faults + 1
    /\ Reply(w, IF res[w] = "succeeded" THEN "failed" ELSE ReplyOf(res[w]))
    /\ UNCHANGED <<storeVars, engineVars, node, att, callVars, cancelVars, stopping, crashes>>

\* The engine records the activity's result, or schedules the next ordinal.
Report(w) ==
    /\ pc[w] = "report"
    /\ LET n == node[w]
           retry == res[w] = "failed" /\ ordinal[n] <= RetryLimit
       IN /\ ordinal' = [ordinal EXCEPT ![n] = IF retry THEN @ + 1 ELSE @]
          /\ task' = [task EXCEPT ![n] = IF retry THEN "queued" ELSE "done"]
          /\ hist' = [hist EXCEPT ![n] = IF retry THEN "none"
                                         ELSE IF res[w] = "succeeded" THEN "succeeded" ELSE "failed"]
    /\ pc' = [pc EXCEPT ![w] = "idle"]
    /\ node' = [node EXCEPT ![w] = NoNode]
    /\ att' = [att EXCEPT ![w] = 0]
    /\ res' = [res EXCEPT ![w] = "none"]
    /\ UNCHANGED <<storeVars, callVars, cancelVars, boundVars>>

-----------------------------------------------------------------------------
(* Cancellation of the Run.                                                *)

\* RequestRunCancellation, then Adapter.Cancel.
RequestRunCancellation ==
    /\ phase = "running" /\ canceller = "idle" /\ ~ stopping
    /\ phase' = "cancelled"
    /\ canceller' = "calls"
    /\ UNCHANGED <<state, framework, last, engineVars, workerVars, callVars, snapshot, boundVars>>

\* CancelRun collects the registered calls of the Run ...
CancelRun ==
    /\ canceller = "calls"
    /\ snapshot' = active
    /\ canceller' = "wait"
    /\ UNCHANGED <<storeVars, engineVars, workerVars, callVars, boundVars>>

\* ... and cancelProviderCall ends each: the provider's Cancel RPC first, the
\* call's context when that does not end the call in time.
CancelProviderCall(w) ==
    /\ canceller = "wait" /\ w \in snapshot
    /\ doomed' = doomed \union ({w} \intersect active)
    /\ snapshot' = snapshot \ {w}
    /\ UNCHANGED <<storeVars, engineVars, workerVars, tokens, agents, active, canceller, boundVars>>

\* MarkRunCancellationDelivered, once the workflow was cancelled too.
MarkDelivered ==
    /\ canceller = "wait" /\ snapshot = {}
    /\ canceller' = "done"
    /\ UNCHANGED <<storeVars, engineVars, workerVars, callVars, snapshot, boundVars>>

-----------------------------------------------------------------------------
\* SIGTERM: the daemon's context is cancelled and its workers drain.
Shutdown ==
    /\ ~ stopping /\ crashes < MaxCrashes
    /\ stopping' = TRUE
    /\ UNCHANGED <<storeVars, engineVars, workerVars, callVars, cancelVars, crashes, faults>>

Reset == /\ crashes < MaxCrashes
         /\ crashes' = crashes + 1
         /\ stopping' = FALSE
         /\ task' = [n \in Node |-> IF task[n] = "leased" THEN "queued" ELSE task[n]]
         /\ pc' = [w \in Worker |-> "idle"]
         /\ node' = [w \in Worker |-> NoNode]
         /\ att' = [w \in Worker |-> 0]
         /\ res' = [w \in Worker |-> "none"]
         /\ tokens' = 0 /\ agents' = 0
         /\ active' = {} /\ doomed' = {}
         /\ snapshot' = {}
         /\ UNCHANGED <<storeVars, ordinal, hist, faults>>

\* The process ends, drained or killed, and starts again: leases run out, an
\* undelivered cancellation is taken up by reconciliation.
Restart == Reset /\ canceller' = IF canceller = "wait" THEN "calls" ELSE canceller

-----------------------------------------------------------------------------
Execute(w) == \/ AcquireActivity(w) \/ LaunchFails(w) \/ RegisterActiveCall(w)
              \/ CallAgent(w) \/ CallTask(w) \/ CallCancelled(w) \/ CallInterrupted(w)
              \/ \E result \in {"succeeded", "failed"} : CallReturns(w, result)

ExecuteNode(w) == \/ ReplayAttempt(w) \/ RefuseAttempt(w) \/ BeginNodeAttempt(w)
                  \/ Execute(w) \/ CompleteNodeAttempt(w) \/ CompleteFails(w)
                  \/ Report(w)

Deliver == CancelRun \/ MarkDelivered \/ \E w \in Worker : CancelProviderCall(w)

Next == \/ \E w \in Worker, n \in Node : Take(w, n)
        \/ \E w \in Worker : ExecuteNode(w)
        \/ RequestRunCancellation \/ Deliver
        \/ Shutdown \/ Restart

Spec == Init /\ [][Next]_vars

(***************************************************************************)
(* Fairness: a worker that can move does, the engine hands out what is     *)
(* queued, a stopping daemon is started again, and a plugin call ends (its *)
(* context carries the node's deadline).                                   *)
(***************************************************************************)
FairSpec == /\ Spec
            /\ \A w \in Worker : WF_vars(ExecuteNode(w))
            /\ \A n \in Node : WF_vars(\E w \in Worker : Take(w, n))
            /\ WF_vars(Deliver)
            /\ WF_vars(stopping /\ Restart)

-----------------------------------------------------------------------------
(* What the evidence is worth.                                             *)

\* Durable history never reports a success the attempt evidence does not hold,
\* whichever deliveries were lost, interrupted, replayed or not persisted.
HistoryNotAheadOfEvidence ==
    \A n \in Node : hist[n] = "succeeded" =>
        \E k \in Attempt : framework[n][k] = ordinal[n] /\ state[n][k] = "succeeded"

\* "A redelivered framework attempt with an already-recorded terminal result is
\* replayed locally instead of invoking the external operation again": whoever
\* may call the plugin owns the newest, running row, and every earlier delivery
\* of the same ordinal was lost.
RecordedResultIsReplayed ==
    \A w \in Worker : pc[w] \in Executing =>
        LET n == node[w] IN
        /\ att[w] = last[n] /\ state[n][last[n]] = "running"
        /\ \A k \in OfOrdinal(n) : k < last[n] => state[n][k] = "lost"

\* One retry ordinal has one outcome: every delivery of it but the newest was
\* lost, so the evidence never holds two results for the engine to choose from.
OneOutcomePerOrdinal ==
    \A n \in Node : \A j, k \in Attempt :
        j < k /\ k <= last[n] /\ framework[n][j] = framework[n][k] => state[n][j] = "lost"

\* The limiters never leak a token and never admit more calls than they may.
TokensMatchCalls ==
    /\ tokens = Cardinality({w \in Worker : pc[w] \in Holding}) /\ tokens <= MaxActivities
    /\ agents = Cardinality({w \in Worker : HoldsAgent(w)}) /\ agents <= MaxAgents

\* Every admitted node comes to a result, and a cancellation is acknowledged.
NodeSettles == \A n \in Node : <>(task[n] = "done")
CancellationSettles == phase = "cancelled" ~> canceller = "done"

\* Across lost, interrupted and repeated deliveries the attempt rows, the
\* engine's history and the limiters tell one story of a node: a success in
\* history has its evidence, a recorded result is not executed again, an
\* ordinal has one outcome and every token belongs to a call.
NodesInv ==
    /\ TypeOK
    /\ HistoryNotAheadOfEvidence
    /\ RecordedResultIsReplayed
    /\ OneOutcomePerOrdinal
    /\ TokensMatchCalls

\* Neither a node nor a cancellation is left hanging, whichever launch fails
\* and whichever token it held.
NodesSettle == NodeSettles /\ CancellationSettles
=============================================================================
