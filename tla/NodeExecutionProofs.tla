------------------------ MODULE NodeExecutionProofs ------------------------
(***************************************************************************)
(* Proofs about NodeExecution and EventNodes, for any nodes, any finite    *)
(* pool of workers, any cycle of event nodes and any limits: NodesInv is   *)
(* an invariant of the ExecuteNode activity, its attempt rows and the      *)
(* limiters, EventAdvancesOnce one of the event nodes.                     *)
(***************************************************************************)
EXTENDS NodeExecution, EventNodes, FiniteSetTheorems, TLAPS

(***************************************************************************)
(* The inductive invariant.  NodesInv says nothing of who may write a row; *)
(* these conjuncts do, and AgentPath says who queues at which limiter.     *)
(***************************************************************************)

\* The engine's lease: a busy worker holds the only lease of its node.
Leases ==
    /\ \A w \in Worker : pc[w] = "idle" <=> node[w] = NoNode
    /\ \A w \in Worker : pc[w] # "idle" => task[node[w]] = "leased"
    /\ \A v, w \in Worker : pc[v] # "idle" /\ node[v] = node[w] => v = w

\* Rows are numbered without gaps, and the ordinals they carry never fall: the
\* newest row of the current ordinal, if any, is the newest row of the node.
RowsInOrder ==
    \A n \in Node :
        /\ \A k \in Attempt : k > last[n] => framework[n][k] = 0
        /\ \A k \in Attempt : k <= last[n] => framework[n][k] >= 1 /\ framework[n][k] <= ordinal[n]
        /\ \A j, k \in Attempt : j <= k /\ k <= last[n] => framework[n][j] <= framework[n][k]

\* From BeginNodeAttempt to CompleteNodeAttempt the worker's attempt is the
\* newest row, of the current ordinal and still running.
OwnsRow ==
    \A w \in Worker : pc[w] \in Executing \union {"complete"} =>
        /\ att[w] \in Attempt /\ att[w] = last[node[w]]
        /\ framework[node[w]][att[w]] = ordinal[node[w]]
        /\ state[node[w]][att[w]] = "running"

\* A success on its way to the engine, or in history, has its evidence.
Evidence(n) == \E k \in Attempt : framework[n][k] = ordinal[n] /\ state[n][k] = "succeeded"
ReportsEvidence ==
    /\ \A w \in Worker : pc[w] = "report" /\ res[w] = "succeeded" => Evidence(node[w])
    /\ \A n \in Node : hist[n] = "succeeded" => task[n] = "done" /\ Evidence(n)

\* Only agent nodes queue at the agent limiter, and they never bypass it.
AgentPath ==
    \A w \in Worker : /\ pc[w] = "agent" => node[w] \in AgentNode
                      /\ pc[w] = "registered" => node[w] \notin AgentNode

RowsInv == Leases /\ RowsInOrder /\ OwnsRow /\ ReportsEvidence /\ OneOutcomePerOrdinal
IInv == TypeOK /\ RowsInv /\ AgentPath /\ TokensMatchCalls

-----------------------------------------------------------------------------
(* The limiters.                                                           *)

Holders      == {w \in Worker : pc[w] \in Holding}
AgentHolders == {w \in Worker : HoldsAgent(w)}

\* Counting a set of workers that gains or loses one of them.
LEMMA WorkerCount ==
    ASSUME NEW S \in SUBSET Worker
    PROVE  /\ Cardinality(S) \in Nat
           /\ \A w \in S : Cardinality(S \ {w}) = Cardinality(S) - 1 /\ Cardinality(S) >= 1
           /\ \A w \in Worker \ S : Cardinality(S \union {w}) = Cardinality(S) + 1
<1>1. IsFiniteSet(S)
  BY FS_Subset, NodeExecutionAssumption
<1>2. Cardinality(S) \in Nat
  BY <1>1, FS_CardinalityType
<1>3. ASSUME NEW w \in S
      PROVE  Cardinality(S \ {w}) = Cardinality(S) - 1 /\ Cardinality(S) >= 1
  <2>1. Cardinality(S \ {w}) = Cardinality(S) - 1 /\ IsFiniteSet(S \ {w})
    BY <1>1, FS_RemoveElement
  <2>2. Cardinality(S \ {w}) \in Nat
    BY <2>1, FS_CardinalityType
  <2> QED  BY <1>2, <2>1, <2>2
<1>4. ASSUME NEW w \in Worker \ S
      PROVE  Cardinality(S \union {w}) = Cardinality(S) + 1
  BY <1>1, FS_AddElement
<1> QED  BY <1>2, <1>3, <1>4

\* A step that moves no worker into or out of a limiter keeps the counts.
LEMMA TokensUnmoved ==
    ASSUME TokensMatchCalls, UNCHANGED <<tokens, agents>>,
           \A w \in Worker : (pc[w] \in Holding)' <=> pc[w] \in Holding,
           \A w \in Worker : HoldsAgent(w)' <=> HoldsAgent(w)
    PROVE  TokensMatchCalls'
<1>1. Holders' = Holders /\ AgentHolders' = AgentHolders
  BY DEF Holders, AgentHolders
<1> QED  BY <1>1 DEF TokensMatchCalls, Holders, AgentHolders

\* A worker that takes, or returns, an activity token.
LEMMA TokenTaken ==
    ASSUME TypeOK, TokensMatchCalls, NEW w \in Worker,
           pc[w] \notin Holding, tokens < MaxActivities, tokens' = tokens + 1, UNCHANGED agents,
           \A v \in Worker : (pc[v] \in Holding)' <=> v = w \/ pc[v] \in Holding,
           \A v \in Worker : HoldsAgent(v)' <=> HoldsAgent(v)
    PROVE  TokensMatchCalls' /\ tokens' \in Nat
<1>1. Holders' = Holders \union {w} /\ AgentHolders' = AgentHolders
  BY DEF Holders, AgentHolders
<1>2. Cardinality(Holders \union {w}) = Cardinality(Holders) + 1
  BY WorkerCount DEF Holders
<1>3. /\ tokens = Cardinality(Holders) /\ tokens \in Nat
      /\ agents = Cardinality(AgentHolders) /\ agents <= MaxAgents
  BY DEF TokensMatchCalls, Holders, AgentHolders, TypeOK
<1>4. tokens' = Cardinality(Holders') /\ tokens' <= MaxActivities /\ tokens' \in Nat
  BY <1>1, <1>2, <1>3, NodeExecutionAssumption
<1> QED  BY <1>1, <1>3, <1>4 DEF TokensMatchCalls, Holders, AgentHolders

\* A slot comes back when one call stops holding it, the agent slot with it.
LEMMA TokensReturned ==
    ASSUME TypeOK, TokensMatchCalls, NEW w \in Worker,
           pc[w] \in Holding, tokens' = tokens - 1,
           agents' = IF HoldsAgent(w) THEN agents - 1 ELSE agents,
           \A v \in Worker : (pc[v] \in Holding)' <=> v # w /\ pc[v] \in Holding,
           \A v \in Worker : HoldsAgent(v)' <=> v # w /\ HoldsAgent(v)
    PROVE  TokensMatchCalls' /\ tokens' \in Nat /\ agents' \in Nat
<1>1. /\ Holders' = Holders \ {w}
      /\ AgentHolders' = IF HoldsAgent(w) THEN AgentHolders \ {w} ELSE AgentHolders
  BY DEF Holders, AgentHolders
<1>2. Cardinality(Holders \ {w}) = Cardinality(Holders) - 1 /\ Cardinality(Holders) >= 1
  BY WorkerCount DEF Holders
<1>3. HoldsAgent(w) => /\ Cardinality(AgentHolders \ {w}) = Cardinality(AgentHolders) - 1
                       /\ Cardinality(AgentHolders) >= 1
  <2>1. AgentHolders \in SUBSET Worker /\ (HoldsAgent(w) => w \in AgentHolders)
    BY DEF AgentHolders
  <2> QED  BY <2>1, WorkerCount
<1>4. /\ tokens = Cardinality(Holders) /\ tokens <= MaxActivities /\ tokens \in Nat
      /\ agents = Cardinality(AgentHolders) /\ agents <= MaxAgents /\ agents \in Nat
  BY DEF TokensMatchCalls, Holders, AgentHolders, TypeOK
<1>5. tokens' = Cardinality(Holders') /\ tokens' <= MaxActivities /\ tokens' \in Nat
  BY <1>1, <1>2, <1>4, NodeExecutionAssumption
<1>6. agents' = Cardinality(AgentHolders') /\ agents' <= MaxAgents /\ agents' \in Nat
  BY <1>1, <1>3, <1>4, NodeExecutionAssumption
<1> QED  BY <1>5, <1>6 DEF TokensMatchCalls, Holders, AgentHolders

\* A worker that takes an agent token on top of the one it holds.
LEMMA AgentTaken ==
    ASSUME TypeOK, TokensMatchCalls, NEW w \in Worker,
           ~ HoldsAgent(w), agents < MaxAgents, agents' = agents + 1, UNCHANGED tokens,
           \A v \in Worker : (pc[v] \in Holding)' <=> pc[v] \in Holding,
           \A v \in Worker : HoldsAgent(v)' <=> v = w \/ HoldsAgent(v)
    PROVE  TokensMatchCalls' /\ agents' \in Nat
<1>1. Holders' = Holders /\ AgentHolders' = AgentHolders \union {w}
  BY DEF Holders, AgentHolders
<1>2. Cardinality(AgentHolders \union {w}) = Cardinality(AgentHolders) + 1
  <2>1. AgentHolders \in SUBSET Worker /\ w \in Worker \ AgentHolders
    BY DEF AgentHolders
  <2> QED  BY <2>1, WorkerCount
<1>4. /\ tokens = Cardinality(Holders) /\ tokens <= MaxActivities
      /\ agents = Cardinality(AgentHolders) /\ agents \in Nat
  BY DEF TokensMatchCalls, Holders, AgentHolders, TypeOK
<1>5. agents' = Cardinality(AgentHolders') /\ agents' <= MaxAgents /\ agents' \in Nat
  BY <1>1, <1>2, <1>4, NodeExecutionAssumption
<1> QED  BY <1>1, <1>4, <1>5 DEF TokensMatchCalls, Holders, AgentHolders

-----------------------------------------------------------------------------
(* Rows, leases and evidence.                                              *)

\* Manager.Execute moves a worker between its control points and towards
\* CompleteNodeAttempt; it writes no row and tells the engine nothing.
CallMoves(w) ==
    /\ pc[w] \in Executing
    /\ \E x \in Executing \union {"complete"} : Goto(w, x)
    /\ UNCHANGED res \/ \E r \in Result : res' = [res EXCEPT ![w] = r]
    /\ UNCHANGED <<storeVars, engineVars, node, att>>

\* A call that moves on without writing leaves what the rows say true.
LEMMA CallMovesKeepsRows ==
    ASSUME TypeOK, RowsInv, NEW w \in Worker, CallMoves(w)
    PROVE  RowsInv'
<1> USE DEF CallMoves, Goto, storeVars, engineVars, Executing
<1>1. Leases'
  BY DEF TypeOK, RowsInv, Leases
<1>2. RowsInOrder' /\ OneOutcomePerOrdinal'
  BY DEF RowsInv, RowsInOrder, OneOutcomePerOrdinal
<1>3. OwnsRow'
  BY DEF TypeOK, RowsInv, OwnsRow
<1>4. ReportsEvidence'
  BY DEF TypeOK, RowsInv, ReportsEvidence, Evidence
<1> QED  BY <1>1, <1>2, <1>3, <1>4 DEF RowsInv

\* Each step of Manager.Execute is such a move, and accounts for its tokens.
LEMMA ExecuteKeeps ==
    ASSUME IInv, NEW w \in Worker, Execute(w)
    PROVE  IInv'
<1> USE DEF IInv
<1>1. CallMoves(w)
  <2>1. CASE CallInterrupted(w)
    BY <2>1 DEF CallInterrupted, CallMoves, Finish, Goto, Executing, Holding, Result
  <2>2. CASE CallCancelled(w)
    BY <2>2 DEF CallCancelled, CallMoves, Finish, Goto, Executing, Result
  <2>3. CASE \E result \in {"succeeded", "failed"} : CallReturns(w, result)
    BY <2>3 DEF CallReturns, CallMoves, Finish, Goto, Executing, Result
  <2>4. CASE AcquireActivity(w) \/ LaunchFails(w)
    BY <2>4 DEF AcquireActivity, LaunchFails, CallMoves, Finish, Goto, Executing, Result
  <2>5. CASE RegisterActiveCall(w) \/ CallAgent(w) \/ CallTask(w)
    BY <2>5 DEF RegisterActiveCall, CallAgent, CallTask, CallMoves, Goto, Executing
  <2> QED  BY <2>1, <2>2, <2>3, <2>4, <2>5 DEF Execute
<1>2. RowsInv'
  BY <1>1, CallMovesKeepsRows
<1>3. /\ active' \subseteq Worker /\ doomed' \subseteq Worker
      /\ UNCHANGED <<cancelVars, boundVars>>
  <2>1. CASE CallInterrupted(w)
    BY <2>1 DEF CallInterrupted, Leave, callVars, TypeOK
  <2>2. CASE CallCancelled(w) \/ \E result \in {"succeeded", "failed"} : CallReturns(w, result)
    BY <2>2 DEF CallCancelled, CallReturns, Leave, TypeOK
  <2>3. CASE AcquireActivity(w) \/ LaunchFails(w) \/ RegisterActiveCall(w) \/ CallAgent(w) \/ CallTask(w)
    BY <2>3 DEF AcquireActivity, LaunchFails, RegisterActiveCall, CallAgent, CallTask, callVars, TypeOK
  <2> QED  BY <2>1, <2>2, <2>3 DEF Execute
<1>4. TokensMatchCalls' /\ tokens' \in Nat /\ agents' \in Nat
  <2> USE DEF Goto, Finish, Holding, HoldsAgent, TypeOK, Point
  <2>1. CASE AcquireActivity(w)
    BY <2>1, TokenTaken DEF AcquireActivity
  <2>2. CASE LaunchFails(w)
    BY <2>2, TokensReturned DEF LaunchFails
  <2>3. CASE RegisterActiveCall(w)
    BY <2>3, TokensUnmoved DEF RegisterActiveCall
  <2>4. CASE CallAgent(w)
    BY <2>4, AgentTaken DEF CallAgent, AgentPath
  <2>5. CASE CallTask(w)
    BY <2>5, TokensUnmoved DEF CallTask, callVars, AgentPath
  <2>6. CASE \E result \in {"succeeded", "failed"} : CallReturns(w, result)
    BY <2>6, TokensReturned DEF CallReturns, Leave
  <2>7. CASE CallCancelled(w)
    BY <2>7, TokensReturned DEF CallCancelled, Leave
  <2>8. CASE CallInterrupted(w)
    BY <2>8, TokensReturned, TokensUnmoved DEF CallInterrupted, Leave, callVars
  <2> QED  BY <2>1, <2>2, <2>3, <2>4, <2>5, <2>6, <2>7, <2>8 DEF Execute
<1>5. TypeOK'
  BY <1>1, <1>3, <1>4, SMTT(30) DEF TypeOK, CallMoves, Goto, storeVars, engineVars, cancelVars, boundVars,
                          Executing, Point
<1>6. AgentPath'
  BY <1>1 DEF Execute, AgentPath, CallMoves, Goto, Finish, TypeOK, Executing, AcquireActivity,
              LaunchFails, RegisterActiveCall, CallAgent, CallTask, CallReturns, CallCancelled,
              CallInterrupted
<1> QED  BY <1>2, <1>4, <1>5, <1>6

\* The engine leases a queued node: nobody else had it.
LEMMA TakeKeeps ==
    ASSUME IInv, NEW w \in Worker, NEW n \in Node, Take(w, n)
    PROVE  IInv'
<1> USE DEF IInv, RowsInv, Take, Goto, storeVars, TypeOK
<1>1. TypeOK'
  BY DEF Point, callVars, cancelVars, boundVars
<1>2. Leases'
  BY NodeExecutionAssumption DEF Leases
<1>3. RowsInOrder' /\ OneOutcomePerOrdinal'
  BY DEF RowsInOrder, OneOutcomePerOrdinal
<1>4. OwnsRow'
  BY DEF OwnsRow, Executing
<1>5. ReportsEvidence'
  <2>1. \A m \in Node : Evidence(m)' <=> Evidence(m)
    BY DEF Evidence
  <2> QED  BY <2>1 DEF ReportsEvidence, Leases
<1>6. TokensMatchCalls'
  BY TokensUnmoved DEF Holding, HoldsAgent, callVars
<1>7. AgentPath'
  BY DEF AgentPath
<1> QED  BY <1>1, <1>2, <1>3, <1>4, <1>5, <1>6, <1>7

\* BeginNodeAttempt or CompleteNodeAttempt answered: the worker goes on to
\* Report, without a row of its own and with evidence when it reports success.
Replies(w) ==
    /\ pc[w] \in {"begin", "complete"}
    /\ Goto(w, "report")
    /\ \E r \in Result : res' = [res EXCEPT ![w] = r] /\ (r = "succeeded" => Evidence(node[w])')
    /\ UNCHANGED <<phase, framework, last, engineVars, node, att, callVars, cancelVars,
                   stopping, crashes>>

\* An activity that answers its worker stores nothing it has not evidence of.
LEMMA RepliesKeeps ==
    ASSUME IInv, NEW w \in Worker, Replies(w), UNCHANGED state
    PROVE  RowsInv' /\ AgentPath' /\ TokensMatchCalls'
<1> USE DEF IInv, RowsInv, Replies, Goto, engineVars, TypeOK
<1>1. Leases'
  BY DEF Leases
<1>2. RowsInOrder' /\ OneOutcomePerOrdinal'
  BY DEF RowsInOrder, OneOutcomePerOrdinal
<1>3. OwnsRow'
  BY DEF OwnsRow, Executing
<1>4. ReportsEvidence'
  BY DEF ReportsEvidence, Evidence
<1>5. TokensMatchCalls'
  BY TokensUnmoved DEF Holding, HoldsAgent, callVars
<1>6. AgentPath'
  BY DEF AgentPath
<1> QED  BY <1>1, <1>2, <1>3, <1>4, <1>5, <1>6

\* A redelivery replays a recorded row; a delivery is refused.
LEMMA ReplayOrRefuseKeeps ==
    ASSUME IInv, NEW w \in Worker, ReplayAttempt(w) \/ RefuseAttempt(w)
    PROVE  IInv'
<1>1. Replies(w) /\ UNCHANGED <<state, faults>>
  <2>1. CASE ReplayAttempt(w)
    BY <2>1 DEF ReplayAttempt, Replies, Reply, Result, Evidence, Latest, OfOrdinal,
                storeVars, engineVars, boundVars, callVars, cancelVars
  <2>2. CASE RefuseAttempt(w)
    BY <2>2 DEF RefuseAttempt, Replies, Reply, Result, storeVars, boundVars
  <2> QED  BY <2>1, <2>2
<1>2. RowsInv' /\ AgentPath' /\ TokensMatchCalls'
  BY <1>1, RepliesKeeps
<1>3. TypeOK'
  BY <1>1 DEF IInv, TypeOK, Replies, Goto, Point, engineVars, callVars, cancelVars
<1> QED  BY <1>2, <1>3 DEF IInv

\* The newest row of the current ordinal, if there is one, is the newest row of
\* the node: the ordinals of the rows never fall.
LEMMA LatestIsLast ==
    ASSUME TypeOK, RowsInOrder, NEW n \in Node, NEW j \in OfOrdinal(n)
    PROVE  Latest(n, last[n]) /\ last[n] \in Attempt
BY NodeExecutionAssumption DEF TypeOK, RowsInOrder, OfOrdinal, Latest, Attempt

\* BeginNodeAttempt gives up the lost delivery and records a new one.
LEMMA BeginKeeps ==
    ASSUME IInv, NEW w \in Worker, BeginNodeAttempt(w)
    PROVE  IInv'
<1> DEFINE n == node[w]
           k == last[n] + 1
<1> USE DEF IInv, RowsInv
<1>1. n \in Node
  BY DEF BeginNodeAttempt, Leases, TypeOK
<1>2. k \in Attempt /\ last[n] \in Nat /\ ordinal[n] \in 1..RetryLimit + 1
  BY <1>1, NodeExecutionAssumption DEF BeginNodeAttempt, TypeOK, Attempt
<1>3. /\ framework' = [framework EXCEPT ![n][k] = ordinal[n]]
      /\ last' = [last EXCEPT ![n] = k] /\ att' = [att EXCEPT ![w] = k]
      /\ pc[w] = "begin" /\ pc' = [pc EXCEPT ![w] = "acquire"]
      /\ UNCHANGED <<phase, task, ordinal, hist, node, res, tokens, agents, active, doomed,
                     canceller, snapshot, stopping, crashes, faults>>
  BY DEF BeginNodeAttempt, Goto, engineVars, callVars, cancelVars, boundVars
<1>4. /\ \A m \in Node \ {n} : state'[m] = state[m]
      /\ \A i \in Attempt : state'[n][i] = IF i = k THEN "running"
                                           ELSE IF Latest(n, i) THEN "lost" ELSE state[n][i]
      /\ state' \in [Node -> [Attempt -> {"absent", "running"} \union Recorded]]
  BY <1>1, <1>2 DEF BeginNodeAttempt, MarkLost, TypeOK, Recorded
<1>5. TypeOK'
  <2>1. framework' \in [Node -> [Attempt -> 0..RetryLimit + 1]]
    BY <1>1, <1>2, <1>3, NodeExecutionAssumption DEF TypeOK
  <2>2. last' \in [Node -> 0..MaxAttempt] /\ att' \in [Worker -> 0..MaxAttempt]
    BY <1>1, <1>2, <1>3 DEF TypeOK, Attempt
  <2> QED  BY <1>3, <1>4, <2>1, <2>2 DEF TypeOK, Point
<1>6. Leases'
  BY <1>3 DEF Leases, TypeOK
<1>7. RowsInOrder'
  <2>1. ASSUME NEW m \in Node, m # n
        PROVE  /\ framework'[m] = framework[m] /\ last'[m] = last[m] /\ ordinal'[m] = ordinal[m]
    BY <1>1, <1>3, <2>1 DEF TypeOK
  <2>2. /\ last'[n] = k /\ ordinal'[n] = ordinal[n]
        /\ \A i \in Attempt : framework'[n][i] = IF i = k THEN ordinal[n] ELSE framework[n][i]
    BY <1>1, <1>2, <1>3 DEF TypeOK
  <2>3. \A m \in Node, i \in Attempt : framework[m][i] \in Nat /\ last[m] \in Nat
    BY NodeExecutionAssumption DEF TypeOK
  <2>4. \A i \in Attempt : i \in Nat
    BY DEF Attempt
  <2> QED  BY <1>1, <1>2, <2>1, <2>2, <2>3, <2>4 DEF RowsInOrder
<1>8. OwnsRow'
  <2> SUFFICES ASSUME NEW v \in Worker, pc'[v] \in Executing \union {"complete"}
               PROVE  /\ att'[v] \in Attempt /\ att'[v] = last'[node'[v]]
                      /\ framework'[node'[v]][att'[v]] = ordinal'[node'[v]]
                      /\ state'[node'[v]][att'[v]] = "running"
    BY DEF OwnsRow
  <2>1. CASE v = w
    BY <1>1, <1>2, <1>3, <1>4, <2>1 DEF TypeOK
  <2>2. CASE v # w
    <3>1. pc[v] = pc'[v] /\ node[v] \in Node /\ node[v] # n /\ node'[v] = node[v] /\ att'[v] = att[v]
      BY <1>3, <2>2 DEF Leases, TypeOK, Executing
    <3> QED  BY <1>1, <1>3, <1>4, <3>1 DEF OwnsRow, TypeOK
  <2> QED  BY <2>1, <2>2
<1>9. ReportsEvidence'
  <2>1. ASSUME NEW m \in Node, m # n
        PROVE  Evidence(m)' <=> Evidence(m)
    BY <1>1, <1>3, <1>4, <2>1 DEF Evidence, TypeOK
  <2>2. hist[n] # "succeeded"
    BY <1>1, <1>3 DEF Leases, ReportsEvidence
  <2> QED  BY <1>1, <1>3, <2>1, <2>2 DEF ReportsEvidence, Leases, TypeOK
<1>10. OneOutcomePerOrdinal'
  <2> SUFFICES ASSUME NEW m \in Node, NEW i \in Attempt, NEW j \in Attempt,
                      i < j, j <= last'[m], framework'[m][i] = framework'[m][j]
               PROVE  state'[m][i] = "lost"
    BY DEF OneOutcomePerOrdinal
  <2>1. CASE m # n
    BY <1>1, <1>3, <1>4, <2>1 DEF OneOutcomePerOrdinal, TypeOK
  <2>2. CASE m = n /\ j = k
    <3>1. i \in OfOrdinal(n)
      <4>1. i # k /\ i <= last[n]
        BY <1>2, <2>2 DEF Attempt
      <4>2. framework'[n][i] = framework[n][i] /\ framework'[n][k] = ordinal[n]
        BY <1>1, <1>2, <1>3, <4>1 DEF TypeOK
      <4> QED  BY <2>2, <4>1, <4>2 DEF OfOrdinal
    <3>2. Latest(n, last[n]) /\ last[n] \in Attempt
      BY <1>1, <3>1, LatestIsLast
    <3>3. i < last[n] => state[n][i] = "lost"
      BY <1>1, <3>1, <3>2 DEF Latest, OfOrdinal, OneOutcomePerOrdinal
    <3> QED  BY <1>2, <1>4, <2>2, <3>1, <3>2, <3>3 DEF Attempt, OfOrdinal
  <2>3. CASE m = n /\ j # k
    <3>1. j <= last[n] /\ i # k /\ framework[n][i] = framework[n][j]
      BY <1>1, <1>2, <1>3, <2>3 DEF TypeOK, Attempt
    <3> QED  BY <1>1, <1>4, <2>3, <3>1 DEF OneOutcomePerOrdinal
  <2> QED  BY <2>1, <2>2, <2>3
<1>11. TokensMatchCalls'
  BY <1>3, TokensUnmoved DEF Holding, HoldsAgent, TypeOK
<1>12. AgentPath'
  BY <1>3 DEF AgentPath, TypeOK
<1> QED  BY <1>5, <1>6, <1>7, <1>8, <1>9, <1>10, <1>11, <1>12

\* CompleteNodeAttempt records the outcome of the call in the worker's own row.
LEMMA CompleteKeeps ==
    ASSUME IInv, NEW w \in Worker, CompleteNodeAttempt(w)
    PROVE  IInv'
<1> DEFINE n == node[w]
           k == att[w]
           row == RowOf(res[w])
<1> USE DEF IInv, RowsInv
<1>1. /\ n \in Node /\ k \in Attempt /\ k = last[n]
      /\ framework[n][k] = ordinal[n] /\ state[n][k] = "running"
  BY DEF CompleteNodeAttempt, Leases, OwnsRow, TypeOK
<1>2. row \in Recorded /\ (res[w] = "succeeded" => row = "succeeded")
  BY DEF RowOf, Recorded
<1>3. ReplyOf(res[w]) \in Result /\ (ReplyOf(res[w]) = "succeeded" => res[w] = "succeeded")
  BY DEF ReplyOf, Result
<1>4. /\ pc[w] = "complete" /\ pc' = [pc EXCEPT ![w] = "report"]
      /\ res' = [res EXCEPT ![w] = ReplyOf(res[w])]
      /\ UNCHANGED <<phase, framework, last, task, ordinal, hist, node, att, tokens, agents, active,
                     doomed, canceller, snapshot, stopping, crashes, faults>>
  BY DEF CompleteNodeAttempt, Reply, Goto, engineVars, callVars, cancelVars, boundVars
<1>5. /\ \A m \in Node \ {n} : state'[m] = state[m]
      /\ \A i \in Attempt : state'[n][i] = IF i = k THEN row ELSE state[n][i]
      /\ state' \in [Node -> [Attempt -> {"absent", "running"} \union Recorded]]
  <2>1. state' = [state EXCEPT ![n][k] = row]
    BY <1>1 DEF CompleteNodeAttempt, Record, TypeOK
  <2> QED  BY <1>1, <1>2, <2>1 DEF TypeOK
<1>6. TypeOK'
  BY <1>3, <1>4, <1>5 DEF TypeOK, Point
<1>7. Leases' /\ AgentPath'
  BY <1>4 DEF Leases, AgentPath, TypeOK
<1>8. RowsInOrder'
  BY <1>4 DEF RowsInOrder
<1>9. OwnsRow'
  <2> SUFFICES ASSUME NEW v \in Worker, pc'[v] \in Executing \union {"complete"}
               PROVE  /\ att'[v] \in Attempt /\ att'[v] = last'[node'[v]]
                      /\ framework'[node'[v]][att'[v]] = ordinal'[node'[v]]
                      /\ state'[node'[v]][att'[v]] = "running"
    BY DEF OwnsRow
  <2>1. v # w /\ pc[v] = pc'[v]
    BY <1>4 DEF TypeOK, Executing
  <2>2. node[v] \in Node /\ node[v] # n
    BY <1>4, <2>1 DEF Leases, TypeOK, Executing
  <2> QED  BY <1>4, <1>5, <2>1, <2>2 DEF OwnsRow
<1>10. ReportsEvidence'
  <2>1. ASSUME NEW m \in Node, m # n
        PROVE  Evidence(m)' <=> Evidence(m)
    BY <1>4, <1>5, <2>1 DEF Evidence
  <2>2. hist[n] # "succeeded"
    BY <1>1, <1>4 DEF Leases, ReportsEvidence
  <2>3. res'[w] = "succeeded" => Evidence(n)'
    <3>1. res'[w] = "succeeded" => state'[n][k] = "succeeded" /\ framework'[n][k] = ordinal'[n]
      BY <1>1, <1>2, <1>3, <1>4, <1>5 DEF TypeOK
    <3> QED  BY <1>1, <1>4, <3>1 DEF Evidence
  <2>4. ASSUME NEW v \in Worker, pc'[v] = "report", res'[v] = "succeeded"
        PROVE  Evidence(node[v])'
    BY <1>4, <2>1, <2>3, <2>4 DEF ReportsEvidence, Leases, TypeOK
  <2>5. node' = node
    BY <1>4
  <2> QED  BY <1>1, <1>4, <2>1, <2>2, <2>4, <2>5 DEF ReportsEvidence
<1>11. OneOutcomePerOrdinal'
  <2> SUFFICES ASSUME NEW m \in Node, NEW i \in Attempt, NEW j \in Attempt,
                      i < j, j <= last[m], framework[m][i] = framework[m][j]
               PROVE  state'[m][i] = "lost"
    BY <1>4 DEF OneOutcomePerOrdinal
  <2>1. m = n => i # k
    BY <1>1 DEF Attempt
  <2> QED  BY <1>5, <2>1 DEF OneOutcomePerOrdinal
<1>12. TokensMatchCalls'
  BY <1>4, TokensUnmoved DEF Holding, HoldsAgent, TypeOK
<1> QED  BY <1>6, <1>7, <1>8, <1>9, <1>10, <1>11, <1>12

\* A completion that is not persisted never reports a success.
LEMMA CompleteFailsKeeps ==
    ASSUME IInv, NEW w \in Worker, CompleteFails(w)
    PROVE  IInv'
<1>1. Replies(w) /\ UNCHANGED state
  BY DEF CompleteFails, Replies, Reply, ReplyOf, Result, storeVars
<1>2. RowsInv' /\ AgentPath' /\ TokensMatchCalls'
  BY <1>1, RepliesKeeps
<1>3. TypeOK'
  BY <1>1, NodeExecutionAssumption
     DEF IInv, TypeOK, Replies, Goto, Point, engineVars, callVars, cancelVars, CompleteFails
<1> QED  BY <1>2, <1>3 DEF IInv

\* The engine ends the node, or moves it to the next ordinal, which no row has.
LEMMA ReportKeeps ==
    ASSUME IInv, NEW w \in Worker, Report(w)
    PROVE  IInv'
<1> USE DEF IInv, RowsInv
<1>1. PICK n \in Node : n = node[w] /\ pc[w] = "report" /\ task[n] = "leased"
  BY DEF Report, Leases, TypeOK
<1> DEFINE retry == res[w] = "failed" /\ ordinal[n] <= RetryLimit
<1>2. /\ pc' = [pc EXCEPT ![w] = "idle"] /\ node' = [node EXCEPT ![w] = NoNode]
      /\ att' = [att EXCEPT ![w] = 0] /\ res' = [res EXCEPT ![w] = "none"]
      /\ UNCHANGED <<phase, state, framework, last, tokens, agents, active, doomed, canceller,
                     snapshot, stopping, crashes, faults>>
  BY DEF Report, storeVars, callVars, cancelVars, boundVars
<1>3. /\ ordinal' = [ordinal EXCEPT ![n] = IF retry THEN ordinal[n] + 1 ELSE ordinal[n]]
      /\ task' = [task EXCEPT ![n] = IF retry THEN "queued" ELSE "done"]
      /\ hist' = [hist EXCEPT ![n] = IF retry THEN "none"
                                     ELSE IF res[w] = "succeeded" THEN "succeeded" ELSE "failed"]
  BY <1>1 DEF Report, TypeOK
<1>4. ordinal[n] \in Nat /\ ordinal'[n] \in Nat /\ ordinal'[n] >= ordinal[n]
  BY <1>1, <1>3, NodeExecutionAssumption DEF TypeOK
<1>5. TypeOK'
  <2>1. ordinal' \in [Node -> 1..RetryLimit + 1]
    BY <1>1, <1>3, NodeExecutionAssumption DEF TypeOK
  <2>2. task' \in [Node -> {"queued", "leased", "done"}] /\ hist' \in [Node -> {"none", "succeeded", "failed"}]
    BY <1>3 DEF TypeOK
  <2> QED  BY <1>2, <2>1, <2>2, NodeExecutionAssumption DEF TypeOK, Point, Result
<1>6. Leases'
  BY <1>1, <1>2, <1>3, NodeExecutionAssumption DEF Leases, TypeOK
<1>7. RowsInOrder'
  <2>1. \A m \in Node : ordinal'[m] \in Nat /\ ordinal[m] \in Nat /\ ordinal'[m] >= ordinal[m]
    BY <1>3, <1>4, NodeExecutionAssumption DEF TypeOK
  <2>2. \A m \in Node, i \in Attempt : framework[m][i] \in Nat
    BY NodeExecutionAssumption DEF TypeOK
  <2> QED  BY <1>2, <2>1, <2>2 DEF RowsInOrder
<1>8. OwnsRow'
  <2> SUFFICES ASSUME NEW v \in Worker, pc'[v] \in Executing \union {"complete"}
               PROVE  /\ att'[v] \in Attempt /\ att'[v] = last'[node'[v]]
                      /\ framework'[node'[v]][att'[v]] = ordinal'[node'[v]]
                      /\ state'[node'[v]][att'[v]] = "running"
    BY DEF OwnsRow
  <2>1. v # w /\ pc[v] = pc'[v] /\ node'[v] = node[v] /\ att'[v] = att[v]
    BY <1>2 DEF TypeOK, Executing
  <2>2. node[v] \in Node /\ node[v] # n
    BY <1>1, <2>1 DEF Leases, TypeOK, Executing
  <2> QED  BY <1>2, <1>3, <2>1, <2>2 DEF OwnsRow, TypeOK
<1>9. ReportsEvidence'
  <2>1. ASSUME NEW m \in Node, m # n
        PROVE  /\ Evidence(m)' <=> Evidence(m)
               /\ hist'[m] = hist[m] /\ task'[m] = task[m]
    BY <1>2, <1>3, <2>1 DEF Evidence, TypeOK
  <2>2. hist'[n] = "succeeded" => task'[n] = "done" /\ Evidence(n)'
    <3>1. hist'[n] = "succeeded" => ~ retry /\ res[w] = "succeeded"
      BY <1>1, <1>3 DEF TypeOK
    <3>2. res[w] = "succeeded" => Evidence(n) /\ ~ retry
      BY <1>1 DEF ReportsEvidence
    <3>3. ~ retry => task'[n] = "done" /\ ordinal'[n] = ordinal[n]
      BY <1>1, <1>3 DEF TypeOK
    <3>4. ordinal'[n] = ordinal[n] /\ Evidence(n) => Evidence(n)'
      BY <1>1, <1>2 DEF Evidence
    <3> QED  BY <3>1, <3>2, <3>3, <3>4
  <2>3. ASSUME NEW v \in Worker, pc'[v] = "report", res'[v] = "succeeded"
        PROVE  \E m \in Node : m = node'[v] /\ Evidence(m)'
    <3>1. v # w /\ pc[v] = "report" /\ res[v] = "succeeded" /\ node'[v] = node[v]
      BY <1>2, <2>3 DEF TypeOK
    <3>2. node[v] \in Node /\ node[v] # n /\ Evidence(node[v])
      BY <1>1, <3>1 DEF Leases, ReportsEvidence, TypeOK
    <3> QED  BY <2>1, <3>1, <3>2
  <2> QED  BY <2>1, <2>2, <2>3 DEF ReportsEvidence
<1>10. OneOutcomePerOrdinal'
  BY <1>2 DEF OneOutcomePerOrdinal
<1>11. TokensMatchCalls'
  BY <1>1, <1>2, TokensUnmoved DEF Holding, HoldsAgent, TypeOK
<1>12. AgentPath'
  BY <1>2 DEF AgentPath, TypeOK
<1> QED  BY <1>5, <1>6, <1>7, <1>8, <1>9, <1>10, <1>11, <1>12

\* Cancellation and shutdown leave rows, leases and tokens alone.
LEMMA CancelKeeps ==
    ASSUME IInv, RequestRunCancellation \/ Deliver \/ Shutdown \/ UNCHANGED vars
    PROVE  IInv'
<1>1. /\ UNCHANGED <<state, framework, last, engineVars, workerVars, tokens, agents, crashes, faults>>
      /\ phase' \in {"running", "cancelled"} /\ active' \subseteq Worker /\ doomed' \subseteq Worker
      /\ canceller' \in {"idle", "calls", "wait", "done"} /\ snapshot' \subseteq Worker
      /\ stopping' \in BOOLEAN
  <2> USE DEF IInv, TypeOK, storeVars, callVars, cancelVars, boundVars
  <2>1. CASE RequestRunCancellation
    BY <2>1 DEF RequestRunCancellation
  <2>2. CASE Deliver
    BY <2>2 DEF Deliver, CancelRun, MarkDelivered, CancelProviderCall
  <2>3. CASE Shutdown
    BY <2>3 DEF Shutdown
  <2>4. CASE UNCHANGED vars
    BY <2>4 DEF vars
  <2> QED  BY <2>1, <2>2, <2>3, <2>4
<1>2. TypeOK'
  BY <1>1 DEF IInv, TypeOK, engineVars, workerVars
<1>3. RowsInv'
  BY <1>1 DEF IInv, RowsInv, Leases, RowsInOrder, OwnsRow, ReportsEvidence, Evidence,
              OneOutcomePerOrdinal, engineVars, workerVars
<1>4. AgentPath' /\ TokensMatchCalls'
  BY <1>1 DEF IInv, AgentPath, TokensMatchCalls, HoldsAgent, workerVars
<1> QED  BY <1>2, <1>3, <1>4 DEF IInv

\* A restart forgets the workers and requeues what they had leased.
LEMMA RestartKeeps ==
    ASSUME IInv, Restart
    PROVE  IInv'
<1> USE DEF IInv, RowsInv, Restart, Reset, storeVars
<1>1. TypeOK'
  <2>1. crashes' \in 0..MaxCrashes /\ 0 \in 0..MaxAttempt /\ 0 \in Nat
    BY NodeExecutionAssumption DEF TypeOK
  <2>2. task' \in [Node -> {"queued", "leased", "done"}]
    BY DEF TypeOK
  <2>3. canceller' \in {"idle", "calls", "wait", "done"}
    BY DEF TypeOK
  <2>4. /\ pc' \in [Worker -> Point] /\ node' \in [Worker -> Node \union {NoNode}]
        /\ att' \in [Worker -> 0..MaxAttempt] /\ res' \in [Worker -> Result]
    BY <2>1 DEF Point, Result
  <2> QED  BY <2>1, <2>2, <2>3, <2>4 DEF TypeOK
<1>2. Leases' /\ OwnsRow' /\ AgentPath'
  <2>1. \A w \in Worker : pc'[w] = "idle" /\ node'[w] = NoNode
    OBVIOUS
  <2> QED  BY <2>1 DEF Leases, OwnsRow, AgentPath, Executing
<1>3. RowsInOrder' /\ OneOutcomePerOrdinal'
  BY DEF RowsInOrder, OneOutcomePerOrdinal
<1>4. ReportsEvidence'
  <2>1. \A m \in Node : Evidence(m)' <=> Evidence(m)
    BY DEF Evidence
  <2> QED  BY <2>1 DEF ReportsEvidence
<1>5. TokensMatchCalls'
  <2>1. Holders' = {} /\ AgentHolders' = {}
    BY DEF Holders, AgentHolders, Holding, HoldsAgent
  <2>2. Cardinality({}) = 0
    BY FS_EmptySet
  <2>3. tokens' = 0 /\ agents' = 0 /\ 0 <= MaxActivities /\ 0 <= MaxAgents
    BY NodeExecutionAssumption
  <2> QED  BY <2>1, <2>2, <2>3 DEF TokensMatchCalls, Holders, AgentHolders
<1> QED  BY <1>1, <1>2, <1>3, <1>4, <1>5

\* A daemon starts without rows, calls and tokens in use.
LEMMA InitIInv ==
    ASSUME Init
    PROVE  IInv
<1> USE DEF Init
<1>1. TypeOK
  <2>1. /\ 0 \in 0..RetryLimit + 1 /\ 1 \in 1..RetryLimit + 1 /\ 0 \in 0..MaxAttempt
        /\ 0 \in 0..MaxCrashes /\ 0 \in 0..MaxFaults /\ 0 \in Nat
    BY NodeExecutionAssumption
  <2>2. /\ state \in [Node -> [Attempt -> {"absent", "running"} \union Recorded]]
        /\ framework \in [Node -> [Attempt -> 0..RetryLimit + 1]]
    BY <2>1
  <2> QED  BY <2>1, <2>2 DEF TypeOK, Point, Result
<1>2. Leases /\ OwnsRow /\ AgentPath
  BY DEF Leases, OwnsRow, AgentPath, Executing
<1>3. RowsInOrder /\ OneOutcomePerOrdinal
  BY DEF RowsInOrder, OneOutcomePerOrdinal, Attempt
<1>4. ReportsEvidence
  BY DEF ReportsEvidence
<1>5. TokensMatchCalls
  <2>1. Holders = {} /\ AgentHolders = {}
    BY DEF Holders, AgentHolders, Holding, HoldsAgent
  <2>2. Cardinality({}) = 0 /\ 0 <= MaxActivities /\ 0 <= MaxAgents
    BY FS_EmptySet, NodeExecutionAssumption
  <2> QED  BY <2>1, <2>2 DEF TokensMatchCalls, Holders, AgentHolders
<1> QED  BY <1>1, <1>2, <1>3, <1>4, <1>5 DEF IInv, RowsInv

\* Every step of the activity, of the engine and of the operator.
LEMMA StepIInv ==
    ASSUME IInv, [Next]_vars
    PROVE  IInv'
<1>1. ASSUME NEW w \in Worker, ExecuteNode(w)
      PROVE  IInv'
  BY <1>1, ReplayOrRefuseKeeps, BeginKeeps, ExecuteKeeps, CompleteKeeps, CompleteFailsKeeps, ReportKeeps
     DEF ExecuteNode
<1>2. CASE \E w \in Worker, n \in Node : Take(w, n)
  BY <1>2, TakeKeeps
<1>3. CASE Restart
  BY <1>3, RestartKeeps
<1>4. CASE RequestRunCancellation \/ Deliver \/ Shutdown \/ UNCHANGED vars
  BY <1>4, CancelKeeps
<1> QED  BY <1>1, <1>2, <1>3, <1>4 DEF Next

-----------------------------------------------------------------------------
(***************************************************************************)
(* Whatever is lost, interrupted, replayed or not persisted: a success in  *)
(* history has its evidence, a recorded result is not executed again, a    *)
(* retry ordinal has one outcome and every token belongs to a call.        *)
(***************************************************************************)
THEOREM NodesInvariant == Spec => []NodesInv
<1>1. Init => IInv
  BY InitIInv
<1>2. IInv /\ [Next]_vars => IInv'
  BY StepIInv
<1>3. IInv => NodesInv
  <2> SUFFICES ASSUME IInv
               PROVE  NodesInv
    OBVIOUS
  <2>1. HistoryNotAheadOfEvidence
    BY DEF IInv, RowsInv, ReportsEvidence, Evidence, HistoryNotAheadOfEvidence
  <2>2. RecordedResultIsReplayed
    <3> SUFFICES ASSUME NEW w \in Worker, pc[w] \in Executing
                 PROVE  LET n == node[w] IN
                        /\ att[w] = last[n] /\ state[n][last[n]] = "running"
                        /\ \A k \in OfOrdinal(n) : k < last[n] => state[n][k] = "lost"
      BY DEF RecordedResultIsReplayed
    <3>1. /\ node[w] \in Node /\ att[w] \in Attempt /\ att[w] = last[node[w]]
          /\ framework[node[w]][att[w]] = ordinal[node[w]] /\ state[node[w]][att[w]] = "running"
      BY DEF IInv, RowsInv, Leases, OwnsRow, TypeOK, Executing
    <3> QED  BY <3>1 DEF IInv, RowsInv, OneOutcomePerOrdinal, OfOrdinal, Attempt
  <2> QED  BY <2>1, <2>2 DEF IInv, RowsInv, NodesInv
<1> QED  BY <1>1, <1>2, <1>3, PTL DEF Spec

-----------------------------------------------------------------------------
(* Event nodes.                                                            *)

Event == 1..MaxPosted

EventsTypeOK ==
    /\ posted \in Seq(Targets \union {Nobody}) /\ Len(posted) <= MaxPosted
    /\ receipts \subseteq Gates \X Event
    /\ \A s \in receipts : s[2] <= Len(posted) /\ posted[s[2]] \in Targets
    /\ DOMAIN signals = receipts
    /\ inbox \in [Targets -> [Gates -> Seq(Event)]]
    /\ wait \in [Targets -> [at : Gates, event : Event \union {NoEvent},
                             step : {"idle", "waiting", "duplicate", "ending", "over"}]]
    /\ seen \in [Targets -> SUBSET Event]
    /\ passed \in [Targets -> Seq(Gates \X (Event \union {NoEvent}))]

\* What has passed was seen, and what is about to pass has not passed yet.
PassesFresh ==
    \A t \in Targets :
        /\ \A i \in DOMAIN passed[t] : passed[t][i][2] \in seen[t]
        /\ wait[t].step = "ending" =>
             /\ wait[t].event \in seen[t]
             /\ \A i \in DOMAIN passed[t] : passed[t][i][2] # wait[t].event

EventsIInv == EventsTypeOK /\ PassesFresh /\ EventAdvancesOnce

\* The provider, the subscription, the dispatch loop and the Run's end leave
\* the interpreter's own state alone.
LEMMA DeliveryKeeps ==
    ASSUME EventsIInv, UNCHANGED <<wait, seen, passed>>, EventsTypeOK'
    PROVE  EventsIInv'
BY DEF EventsIInv, PassesFresh, EventAdvancesOnce

\* Accepting, refusing and replaying an event keep the tables typed.
LEMMA SubscriptionTyped ==
    ASSUME EventsTypeOK,
           \/ \E g \in Gates : Subscription(g) \/ StreamBreaks(g) \/ EditTrigger(g)
           \/ \E t \in Targets \union {Nobody} : Post(t)
           \/ \E t \in Targets : CloseRun(t) \/ FinishRun(t)
    PROVE  EventsTypeOK' /\ UNCHANGED <<wait, seen, passed>>
<1> USE DEF waitVars, streamVars, EventsTypeOK
<1>1. ASSUME NEW t \in Targets \union {Nobody}, Post(t)
      PROVE  EventsTypeOK' /\ UNCHANGED <<wait, seen, passed>>
  <2>1. /\ posted' = Append(posted, t) /\ Len(posted) < MaxPosted
        /\ UNCHANGED <<receipts, signals, inbox, wait, seen, passed>>
    BY <1>1 DEF Post
  <2>2. /\ posted' \in Seq(Targets \union {Nobody})
        /\ Len(posted') = Len(posted) + 1 /\ Len(posted) \in Nat
        /\ \A i \in 1..Len(posted) : posted'[i] = posted[i]
    BY <2>1
  <2>3. \A s \in receipts : s[2] \in Nat /\ s[2] \in 1..Len(posted)
    BY <2>2 DEF Event
  <2>4. /\ Len(posted') <= MaxPosted
        /\ \A s \in receipts : s[2] <= Len(posted') /\ posted'[s[2]] \in Targets
    BY <2>1, <2>2, <2>3, EventNodesAssumption
  <2> QED  BY <2>1, <2>2, <2>4
<1>2. ASSUME NEW g \in Gates, NEW e \in 1..MaxPosted, AcceptProviderSignal(g, e)
      PROVE  EventsTypeOK' /\ UNCHANGED <<wait, seen, passed>>
  <2>1. UNCHANGED <<posted, inbox, wait, seen, passed>> /\ e <= Len(posted)
    BY <1>2 DEF AcceptProviderSignal, Coming
  <2>2. CASE UNCHANGED <<receipts, signals>>
    BY <2>1, <2>2
  <2>3. CASE /\ posted[e] \in Targets
             /\ receipts' = receipts \union {<<g, e>>}
             /\ signals' = [s \in receipts' |-> IF s = <<g, e>> THEN "pending" ELSE signals[s]]
    <3>1. /\ receipts' \subseteq Gates \X Event
          /\ \A s \in receipts' : s[2] <= Len(posted) /\ posted[s[2]] \in Targets
      BY <2>1, <2>3 DEF Event
    <3> QED  BY <2>1, <2>3, <3>1
  <2> QED  BY <1>2, <2>2, <2>3 DEF AcceptProviderSignal, ValidTarget
<1>3. ASSUME NEW g \in Gates,
             \/ OpenStream(g) \/ StreamBreaks(g) \/ EditTrigger(g)
             \/ \E e \in 1..MaxPosted : SignalRefused(g, e)
      PROVE  EventsTypeOK' /\ UNCHANGED <<wait, seen, passed>>
  BY <1>3 DEF OpenStream, StreamBreaks, EditTrigger, SignalRefused
<1>4. ASSUME NEW t \in Targets, CloseRun(t) \/ FinishRun(t)
      PROVE  EventsTypeOK' /\ UNCHANGED <<wait, seen, passed>>
  BY <1>4 DEF CloseRun, FinishRun
<1> QED  BY <1>1, <1>2, <1>3, <1>4 DEF Subscription

\* So does sending a command, however often.
LEMMA DispatchTyped ==
    ASSUME EventsTypeOK, Dispatching \/ \E s \in DOMAIN signals : LoseCompletion(s)
    PROVE  EventsTypeOK' /\ UNCHANGED <<wait, seen, passed>>
<1> USE DEF waitVars, streamVars
<1>1. ASSUME NEW s \in DOMAIN signals, ReconcileSignal(s)
      PROVE  EventsTypeOK' /\ UNCHANGED <<wait, seen, passed>>
  <2> DEFINE t == posted[s[2]]
             g == s[1]
  <2>1. s \in receipts /\ s[2] \in Event /\ g \in Gates /\ t \in Targets
    <3>1. s \in Gates \X Event /\ posted[s[2]] \in Targets
      BY DEF EventsTypeOK
    <3> QED  BY <3>1 DEF EventsTypeOK
  <2>2. inbox[t][g] \in Seq(Event) /\ Append(inbox[t][g], s[2]) \in Seq(Event)
    BY <2>1 DEF EventsTypeOK
  <2>3. inbox' \in [Targets -> [Gates -> Seq(Event)]]
    BY <1>1, <2>1, <2>2 DEF ReconcileSignal, EventsTypeOK
  <2> QED  BY <1>1, <2>3 DEF ReconcileSignal, EventsTypeOK
<1>2. ASSUME NEW s \in DOMAIN signals, CompleteOutbox(s) \/ LoseCompletion(s)
      PROVE  EventsTypeOK' /\ UNCHANGED <<wait, seen, passed>>
  BY <1>2 DEF CompleteOutbox, LoseCompletion, EventsTypeOK
<1> QED  BY <1>1, <1>2 DEF Dispatching

\* executeEventNode takes a signal from its channel: only a new identity may pass.
LEMMA ReceiveKeeps ==
    ASSUME EventsIInv, NEW t \in Targets, ReceiveEvent(t)
    PROVE  EventsIInv'
<1> DEFINE g == wait[t].at
           e == Head(inbox[t][g])
<1> USE DEF EventsIInv
<1>1. g \in Gates /\ inbox[t][g] \in Seq(Event) /\ inbox[t][g] # <<>>
  BY DEF EventsTypeOK, ReceiveEvent
<1>2. e \in Event /\ Tail(inbox[t][g]) \in Seq(Event)
  BY <1>1
<1>3. /\ inbox' = [inbox EXCEPT ![t][g] = Tail(inbox[t][g])]
      /\ wait' = [wait EXCEPT ![t].event = e, ![t].step = IF e \in seen[t] THEN "duplicate" ELSE "ending"]
      /\ seen' = [seen EXCEPT ![t] = seen[t] \union {e}]
      /\ UNCHANGED <<posted, receipts, signals, passed>>
  BY DEF ReceiveEvent, EventsTypeOK, streamVars
<1>4. EventsTypeOK'
  <2>1. inbox' \in [Targets -> [Gates -> Seq(Event)]]
    BY <1>1, <1>2, <1>3 DEF EventsTypeOK
  <2>2. wait' \in [Targets -> [at : Gates, event : Event \union {NoEvent},
                               step : {"idle", "waiting", "duplicate", "ending", "over"}]]
    <3>1. wait[t] \in [at : Gates, event : Event \union {NoEvent},
                       step : {"idle", "waiting", "duplicate", "ending", "over"}]
      BY DEF EventsTypeOK
    <3>2. [wait[t] EXCEPT !.event = e, !.step = IF e \in seen[t] THEN "duplicate" ELSE "ending"]
            \in [at : Gates, event : Event \union {NoEvent},
                 step : {"idle", "waiting", "duplicate", "ending", "over"}]
      BY <1>2, <3>1
    <3> QED  BY <1>3, <3>2 DEF EventsTypeOK
  <2>3. seen' \in [Targets -> SUBSET Event]
    BY <1>2, <1>3 DEF EventsTypeOK
  <2> QED  BY <1>3, <2>1, <2>2, <2>3 DEF EventsTypeOK
<1>5. PassesFresh'
  BY <1>2, <1>3 DEF PassesFresh, EventsTypeOK
<1>6. EventAdvancesOnce'
  BY <1>3 DEF EventAdvancesOnce
<1> QED  BY <1>4, <1>5, <1>6

\* EndEvent: the event that passes is new.
LEMMA EndKeeps ==
    ASSUME EventsIInv, NEW t \in Targets, EndEvent(t)
    PROVE  EventsIInv'
<1> DEFINE g == wait[t].at
           e == wait[t].event
           entry == <<g, e>>
<1> USE DEF EventsIInv
<1>1. /\ entry \in Gates \X (Event \union {NoEvent}) /\ entry[2] = e
      /\ passed[t] \in Seq(Gates \X (Event \union {NoEvent}))
      /\ e \in seen[t] /\ \A i \in DOMAIN passed[t] : passed[t][i][2] # e
  BY DEF EndEvent, Stands, EventsTypeOK, PassesFresh
<1>2. /\ passed' = [passed EXCEPT ![t] = Append(passed[t], entry)]
      /\ wait'[t].step # "ending" /\ \A u \in Targets \ {t} : wait'[u] = wait[u]
      /\ UNCHANGED <<posted, receipts, signals, inbox, seen>>
  BY DEF EndEvent, EventsTypeOK, streamVars
<1>3. /\ Append(passed[t], entry) \in Seq(Gates \X (Event \union {NoEvent}))
      /\ DOMAIN Append(passed[t], entry) = 1..Len(passed[t]) + 1
      /\ DOMAIN passed[t] = 1..Len(passed[t]) /\ Len(passed[t]) \in Nat
      /\ \A i \in 1..Len(passed[t]) : Append(passed[t], entry)[i] = passed[t][i]
      /\ Append(passed[t], entry)[Len(passed[t]) + 1] = entry
  BY <1>1
<1>4. wait' \in [Targets -> [at : Gates, event : Event \union {NoEvent},
                             step : {"idle", "waiting", "duplicate", "ending", "over"}]]
  <2>1. 1 \in Gates
    BY EventNodesAssumption
  <2>2. ASSUME NEW next \in Gates,
               wait' = [wait EXCEPT ![t] = [at |-> next, step |-> "idle", event |-> NoEvent]]
        PROVE  wait' \in [Targets -> [at : Gates, event : Event \union {NoEvent},
                             step : {"idle", "waiting", "duplicate", "ending", "over"}]]
    BY <2>2 DEF EventsTypeOK
  <2>3. CASE wait' = [wait EXCEPT ![t].event = NoEvent, ![t].step = "over"]
    BY <2>3 DEF EventsTypeOK
  <2> QED  BY <2>1, <2>2, <2>3 DEF EndEvent
<1>5. EventsTypeOK'
  <2>1. passed' \in [Targets -> Seq(Gates \X (Event \union {NoEvent}))]
    BY <1>2, <1>3 DEF EventsTypeOK
  <2> QED  BY <1>2, <1>4, <2>1 DEF EventsTypeOK
<1>6. passed'[t] = Append(passed[t], entry) /\ \A u \in Targets \ {t} : passed'[u] = passed[u]
  BY <1>2 DEF EventsTypeOK
<1>7. PassesFresh'
  BY <1>1, <1>2, <1>3, <1>6 DEF PassesFresh
<1>8. EventAdvancesOnce'
  <2> SUFFICES ASSUME NEW u \in Targets, NEW i \in DOMAIN passed'[u], NEW j \in DOMAIN passed'[u],
                      passed'[u][i][2] = passed'[u][j][2]
               PROVE  i = j
    BY DEF EventAdvancesOnce
  <2>1. CASE u # t
    BY <1>6, <2>1 DEF EventAdvancesOnce
  <2>2. CASE u = t
    <3>1. i \in 1..Len(passed[t]) + 1 /\ j \in 1..Len(passed[t]) + 1
      BY <1>3, <1>6, <2>2
    <3>2. CASE i \in 1..Len(passed[t]) /\ j \in 1..Len(passed[t])
      BY <1>3, <1>6, <2>2, <3>2 DEF EventAdvancesOnce
    <3>3. CASE i = Len(passed[t]) + 1 /\ j \in 1..Len(passed[t])
      BY <1>1, <1>3, <1>6, <2>2, <3>3
    <3>4. CASE i \in 1..Len(passed[t]) /\ j = Len(passed[t]) + 1
      BY <1>1, <1>3, <1>6, <2>2, <3>4
    <3> QED  BY <1>3, <3>1, <3>2, <3>3, <3>4
  <2> QED  BY <2>1, <2>2
<1> QED  BY <1>5, <1>7, <1>8

\* The other steps of the node neither see nor pass an event.
LEMMA WaitKeeps ==
    ASSUME EventsIInv, NEW t \in Targets, BeginEvent(t) \/ IgnoreEvent(t) \/ EventTimesOut(t)
    PROVE  EventsIInv'
<1>0. /\ UNCHANGED <<posted, receipts, signals, inbox, seen, passed>>
      /\ \/ wait' = [wait EXCEPT ![t].step = "waiting"]
         \/ wait' = [wait EXCEPT ![t].event = NoEvent, ![t].step = "waiting"]
         \/ wait' = [wait EXCEPT ![t].step = "over"]
  BY DEF BeginEvent, IgnoreEvent, EventTimesOut, streamVars
<1> USE DEF EventsIInv
<1>1. EventsTypeOK'
  <2>1. wait' \in [Targets -> [at : Gates, event : Event \union {NoEvent},
                               step : {"idle", "waiting", "duplicate", "ending", "over"}]]
    <3>1. CASE wait' = [wait EXCEPT ![t].step = "waiting"]
      BY <3>1 DEF EventsTypeOK
    <3>2. CASE wait' = [wait EXCEPT ![t].event = NoEvent, ![t].step = "waiting"]
      BY <3>2 DEF EventsTypeOK
    <3>3. CASE wait' = [wait EXCEPT ![t].step = "over"]
      BY <3>3 DEF EventsTypeOK
    <3> QED  BY <1>0, <3>1, <3>2, <3>3
  <2> QED  BY <1>0, <2>1 DEF EventsTypeOK
<1>2. PassesFresh'
  <2>1. wait'[t].step # "ending" /\ \A u \in Targets \ {t} : wait'[u] = wait[u]
    BY <1>0 DEF EventsTypeOK
  <2> QED  BY <1>0, <2>1 DEF PassesFresh
<1>3. EventAdvancesOnce'
  BY <1>0 DEF EventAdvancesOnce
<1> QED  BY <1>1, <1>2, <1>3

(***************************************************************************)
(* An event advances the graph of its Run once: however often its command  *)
(* is sent, the Trigger replays it or the cycle comes back to the node.    *)
(***************************************************************************)
THEOREM EventAdvancesOnceInvariant == EventsSpec => []EventAdvancesOnce
<1>1. EventsInit => EventsIInv
  <2> SUFFICES ASSUME EventsInit
               PROVE  EventsIInv
    OBVIOUS
  <2>1. 1 \in Gates /\ Len(<<>>) <= MaxPosted /\ DOMAIN <<>> = {}
    BY EventNodesAssumption
  <2>2. EventsTypeOK
    BY <2>1 DEF EventsInit, EventsTypeOK
  <2>3. \A t \in Targets : DOMAIN passed[t] = {} /\ wait[t].step = "idle"
    BY <2>1 DEF EventsInit
  <2> QED  BY <2>2, <2>3 DEF EventsIInv, PassesFresh, EventAdvancesOnce
<1>2. EventsIInv /\ [EventsNext]_eventVars => EventsIInv'
  <2> SUFFICES ASSUME EventsIInv, [EventsNext]_eventVars
               PROVE  EventsIInv'
    OBVIOUS
  <2>1. CASE UNCHANGED eventVars
    BY <2>1 DEF eventVars, EventsIInv, EventsTypeOK, PassesFresh, EventAdvancesOnce
  <2>2. CASE \/ \E g \in Gates : Subscription(g) \/ StreamBreaks(g) \/ EditTrigger(g)
             \/ \E t \in Targets \union {Nobody} : Post(t)
             \/ \E t \in Targets : CloseRun(t) \/ FinishRun(t)
    BY <2>2, SubscriptionTyped, DeliveryKeeps DEF EventsIInv
  <2>3. CASE Dispatching \/ \E s \in DOMAIN signals : LoseCompletion(s)
    BY <2>3, DispatchTyped, DeliveryKeeps DEF EventsIInv
  <2>4. ASSUME NEW t \in Targets, EventNode(t) \/ EventTimesOut(t)
        PROVE  EventsIInv'
    BY <2>4, ReceiveKeeps, EndKeeps, WaitKeeps DEF EventNode
  <2> QED  BY <2>1, <2>2, <2>3, <2>4 DEF EventsNext
<1> QED  BY <1>1, <1>2, PTL DEF EventsSpec, EventsIInv
=============================================================================
