--------------------------- MODULE OperatorProofs ---------------------------
(***************************************************************************)
(* Proofs about Approvals, Daemon, Backup and Upgrade, for any approvals,  *)
(* operators, webhooks, Runs, plugin versions and bounds: that a decision  *)
(* is taken once and followed, what is open at every point of the daemon's *)
(* life and that a webhook is accepted once, that an archive restores to a *)
(* state the daemon could have crashed in, and that an installation leaves *)
(* one release whole.                                                      *)
(***************************************************************************)
EXTENDS Approvals, Daemon, Backup, Upgrade, FiniteSetTheorems, SequenceTheorems, TLAPS

-----------------------------------------------------------------------------
(***************************************************************************)
(* Approvals.  The stored row, the workflow's wait and what was answered   *)
(* agree on one decision.                                                  *)
(***************************************************************************)
\* DecisionInv and the two properties read nothing else.
decisionVars == <<row, wf, iteration, outcome, acked>>

(***************************************************************************)
(* The steps of the Approve, Reject and Reconcile RPCs that come after the *)
(* decision was stored (SendDecision to CancellationsDone) touch only the  *)
(* delivery state.                                                         *)
(***************************************************************************)
LEMMA DeliveryStep ==
    ASSUME NEW p \in Proc,
           SendDecision(p) \/ SendDecisionFails(p) \/ AckDecision(p) \/ Reconcile(p)
    PROVE  UNCHANGED decisionVars
<1>1. CASE SendDecision(p) \/ SendDecisionFails(p) \/ AckDecision(p)
  BY <1>1 DEF SendDecision, SendDecisionFails, AckDecision, decisionVars, tableVars, instanceVars
<1>2. CASE Reconcile(p)
  BY <1>2 DEF Reconcile, ListSignals, Redeliver, RedeliverFails, MarkSignaled, SignalsDone,
              CancellationsDone, decisionVars, tableVars, instanceVars
<1> QED  BY <1>1, <1>2

\* An unchanged decision state keeps DecisionInv.
LEMMA StutterKeepsDecisionInv ==
    ASSUME DecisionInv, UNCHANGED decisionVars
    PROVE  DecisionInv'
BY DEF DecisionInv, decisionVars

(***************************************************************************)
(* A step of the approval node of the interpreter, its timer, loop,        *)
(* cancellation and the collection of its Run keep DecisionInv.            *)
(***************************************************************************)
LEMMA NodeStep ==
    ASSUME DecisionInv, NEW a \in Approval,
           Node(a) \/ TimerFires(a) \/ NextIteration(a) \/ CancelRun(a) \/ CollectApproval(a)
    PROVE  DecisionInv'
<1>1. CASE BeginApproval(a)
  BY <1>1 DEF DecisionInv, BeginApproval, Move, At, WfPoint, Decision, tableVars
<1>2. CASE ReceiveSignal(a)
  BY <1>2 DEF DecisionInv, ReceiveSignal, Move, At, WfPoint, Decision, tableVars
<1>3. CASE ReadApproval(a)
  BY <1>3 DEF DecisionInv, ReadApproval, Move, At, WfPoint, Decision, tableVars
<1>4. CASE SettleApproval(a)
  <2>1. CASE row[a] = "pending"
    <3>1. /\ row' = [row EXCEPT ![a] = got[a]] /\ outcome' = [outcome EXCEPT ![a] = got[a]]
          /\ got[a] \in Decision /\ row[a] = "pending" /\ UNCHANGED <<iteration, acked>>
          /\ wf' = [wf EXCEPT ![a] = "ended"]
      BY <1>4, <2>1 DEF SettleApproval, DecideApproval, Move
    <3> QED  BY <3>1 DEF DecisionInv, WfPoint, Decision
  <2>2. CASE row[a] # "pending"
    BY <1>4, <2>2 DEF DecisionInv, SettleApproval, DecideApproval, Move, At, WfPoint, Decision, tableVars
  <2> QED  BY <2>1, <2>2
<1>5. CASE RecordOutcome(a)
  BY <1>5 DEF DecisionInv, RecordOutcome, Move, At, WfPoint, Decision, tableVars
<1>6. CASE EndInstance(a)
  BY <1>6 DEF DecisionInv, EndInstance, Move, At, WfPoint, Decision, tableVars
<1>7. CASE TimerFires(a)
  BY <1>7 DEF DecisionInv, TimerFires, Move, At, WfPoint, Decision, tableVars
<1>8. CASE NextIteration(a)
  BY <1>8 DEF DecisionInv, NextIteration, Move, At, WfPoint, Decision, tableVars
<1>9. CASE CancelRun(a)
  BY <1>9 DEF DecisionInv, CancelRun, Move, At, WfPoint, Decision, tableVars
<1>10. CASE CollectApproval(a)
  BY <1>10 DEF DecisionInv, CollectApproval, WfPoint, Decision, instanceVars
<1> QED  BY <1>1, <1>2, <1>3, <1>4, <1>5, <1>6, <1>7, <1>8, <1>9, <1>10 DEF Node

\* The Approve and Reject RPCs store a decision only into an open row.
LEMMA DecideStep ==
    ASSUME DecisionInv, NEW c \in Client, NEW a \in Approval, NEW d \in Decision, Decide(c, a, d)
    PROVE  DecisionInv'
BY DEF DecisionInv, Decide, DecideApproval, Decision, WfPoint, instanceVars

\* A restart moves a re-delivered EndApproval back to its first read.
LEMMA CrashStep ==
    ASSUME DecisionInv, Crash
    PROVE  DecisionInv'
BY DEF DecisionInv, Crash, WfPoint, Decision, tableVars

\* DecisionInv is inductive: what the approvals table, the operators and the
\* workflow believe about a decision never drifts apart.
THEOREM DecisionInvariant == Spec => []DecisionInv
<1>1. Init => DecisionInv
  BY DEF Init, DecisionInv, WfPoint, Decision
<1>2. DecisionInv /\ [Next]_vars => DecisionInv'
  <2> SUFFICES ASSUME DecisionInv, [Next]_vars PROVE DecisionInv'
    OBVIOUS
  <2>1. CASE \E c \in Client : Rpc(c)
    BY <2>1, DecideStep, DeliveryStep, StutterKeepsDecisionInv DEF Rpc, Proc
  <2>2. CASE \E p \in Proc : Reconcile(p)
    BY <2>2, DeliveryStep, StutterKeepsDecisionInv
  <2>3. CASE \E a \in Approval : Node(a) \/ TimerFires(a) \/ NextIteration(a)
                                 \/ CancelRun(a) \/ CollectApproval(a)
    BY <2>3, NodeStep
  <2>4. CASE Crash
    BY <2>4, CrashStep
  <2>5. CASE UNCHANGED vars
    BY <2>5, StutterKeepsDecisionInv DEF vars, decisionVars, tableVars, instanceVars
  <2> QED  BY <2>1, <2>2, <2>3, <2>4, <2>5 DEF Next
<1> QED  BY <1>1, <1>2, PTL DEF Spec

\* A decision acknowledged by Approve or Reject is the one EndApproval
\* reports, against timers, second operators, redelivery and restarts.
THEOREM DecisionSafety == Spec => []AcknowledgedDecisionWins
<1>1. DecisionInv => AcknowledgedDecisionWins
  BY DEF DecisionInv, AcknowledgedDecisionWins
<1> QED  BY <1>1, DecisionInvariant, PTL

\* A re-executed EndApproval repeats the outcome it reported before.
THEOREM OutcomeSafety == Spec => OutcomeIsStable
<1> DEFINE Stable(a) == outcome[a] # "none" /\ iteration'[a] = iteration[a]
                          => outcome'[a] = outcome[a]
<1>1. DecisionInv /\ [Next]_vars => [\A a \in Approval : Stable(a)]_vars
  <2> SUFFICES ASSUME DecisionInv, Next, NEW a \in Approval PROVE Stable(a)
    OBVIOUS
  <2>1. CASE UNCHANGED outcome
    BY <2>1
  <2>2. CASE \E b \in Approval : ReadApproval(b)
    BY <2>2 DEF ReadApproval, DecisionInv, Decision
  <2>3. CASE \E b \in Approval : SettleApproval(b)
    BY <2>3 DEF SettleApproval, DecideApproval, DecisionInv
  <2>4. CASE \E b \in Approval : NextIteration(b)
    BY <2>4 DEF NextIteration, DecisionInv
  <2>5. CASE \E b \in Approval : BeginApproval(b) \/ ReceiveSignal(b) \/ RecordOutcome(b)
               \/ EndInstance(b) \/ TimerFires(b) \/ CancelRun(b) \/ CollectApproval(b)
    BY <2>5, <2>1 DEF BeginApproval, ReceiveSignal, RecordOutcome, EndInstance, TimerFires,
                      CancelRun, CollectApproval, instanceVars
  <2>6. CASE \E c \in Client : Rpc(c)
    BY <2>6, <2>1, DeliveryStep DEF Rpc, Proc, Decide, instanceVars, decisionVars
  <2>7. CASE \E p \in Proc : Reconcile(p)
    BY <2>7, <2>1, DeliveryStep DEF decisionVars
  <2>8. CASE Crash
    BY <2>8, <2>1 DEF Crash
  <2> QED  BY <2>2, <2>3, <2>4, <2>5, <2>6, <2>7, <2>8 DEF Next, Node
<1> QED  BY <1>1, DecisionInvariant, PTL DEF Spec, OutcomeIsStable

-----------------------------------------------------------------------------
(***************************************************************************)
(* The daemon.  The control point determines what is open; that of a       *)
(* handler says nothing, so a receipt is only bounded by the transaction   *)
(* that writes it.                                                         *)
(***************************************************************************)
WhileOpening == {"socket", "store", "artifacts", "controller", "engine", "listen", "mode", "ingress"}

ProcPoint == WhileOpening \cup {"down", "serving", "closeListener", "closeIngress", "closeEngine",
                                "closePlugins", "closeStore", "closed"}

OpenAt(point) ==
    UNION {IF point \in {"artifacts", "controller", "engine", "listen", "mode", "ingress", "serving",
                         "closeListener", "closeIngress", "closeEngine", "closePlugins", "closeStore"}
           THEN {"store"} ELSE {},
           IF point \in {"artifacts", "controller", "engine", "listen", "mode", "ingress", "serving",
                         "closeListener", "closeIngress", "closeEngine", "closePlugins"}
           THEN {"plugins"} ELSE {},
           IF point \in {"listen", "mode", "ingress", "serving", "closeListener", "closeIngress",
                         "closeEngine"}
           THEN {"engine"} ELSE {},
           IF point \in {"mode", "ingress", "serving", "closeListener"} THEN {"listener"} ELSE {},
           IF point \in {"serving", "closeListener", "closeIngress"} THEN {"ingress"} ELSE {}}

Request == [at : {"idle", "lookup", "state", "body", "receipt", "accept"},
            key : HookKeys \cup {"none"}, seen : Nat]

DaemonTypeOK ==
    /\ proc \in ProcPoint
    /\ hook \in [gen : Nat, enabled : BOOLEAN]
    /\ receipts \in [HookKeys -> {0, 1}]
    /\ request \in [Deliveries -> Request]

\* What a handler read is not later than the row, which is the operator's.
HookRead == hookState = hook /\ \A d \in Deliveries : request[d].seen <= hook.gen

DaemonIInv == DaemonTypeOK /\ held = OpenAt(proc) /\ HookRead

\* The stages of Open in their order.
LEMMA StageOrder ==
    /\ DOMAIN OpenOrder = WhileOpening
    /\ OpenOrder["socket"] = "store" /\ OpenOrder["store"] = "artifacts"
    /\ OpenOrder["artifacts"] = "controller" /\ OpenOrder["controller"] = "engine"
    /\ OpenOrder["engine"] = "listen" /\ OpenOrder["listen"] = "mode"
    /\ OpenOrder["mode"] = "ingress" /\ OpenOrder["ingress"] = "serving"
BY DEF OpenOrder, WhileOpening

\* A stage that succeeds opens what is open at the next one; one that fails
\* closes everything.
LEMMA StagesMatch ==
    ASSUME NEW point \in WhileOpening
    PROVE  /\ OpenOrder[point] \in ProcPoint
           /\ OpenAt(OpenOrder[point]) = OpenAt(point) \cup Opened(point)
           /\ OpenAt(point) \ (ErrorCloses(point) \cup {"plugins"}) = {}
<1> USE StageOrder DEF OpenAt, Opened, ErrorCloses, ProcPoint, WhileOpening
<1>1. CASE point = "socket"
  BY <1>1
<1>2. CASE point = "store"
  BY <1>2
<1>3. CASE point = "artifacts"
  BY <1>3
<1>4. CASE point = "controller"
  BY <1>4
<1>5. CASE point = "engine"
  BY <1>5
<1>6. CASE point = "listen"
  BY <1>6
<1>7. CASE point = "mode"
  BY <1>7
<1>8. CASE point = "ingress"
  BY <1>8
<1> QED  BY <1>1, <1>2, <1>3, <1>4, <1>5, <1>6, <1>7, <1>8

\* The steps of Close, and the points at which nothing is open.
LEMMA ClosesMatch ==
    /\ OpenAt("down") = {} /\ OpenAt("closed") = {} /\ OpenAt("socket") = {}
    /\ OpenAt("closeListener") = OpenAt("serving")
    /\ OpenAt("closeIngress") = OpenAt("closeListener") \ {"listener"}
    /\ OpenAt("closeEngine") = OpenAt("closeIngress") \ {"ingress"}
    /\ OpenAt("closePlugins") = OpenAt("closeEngine") \ {"engine"}
    /\ OpenAt("closeStore") = OpenAt("closePlugins") \ {"plugins"}
    /\ OpenAt("closed") = OpenAt("closeStore") \ {"store"}
BY DEF OpenAt

\* The steps of the process.
LEMMA ProcessKeeps ==
    ASSUME DaemonIInv,
           BeginOpen \/ OpenFails \/ StopServing \/ CrashDaemon \/ DaemonStep
    PROVE  DaemonIInv'
<1>1. UNCHANGED <<hook, hookState, receipts>>
  BY DEF BeginOpen, OpenFails, StopServing, CrashDaemon, DaemonStep, OpenStage, CloseListener,
         CloseIngress, CloseRest, Leave
<1>2. request' \in [Deliveries -> Request]
  <2>1. NoRequest \in Request
    BY DEF NoRequest, Request
  <2>2. request' = request \/ request' = [d \in Deliveries |-> NoRequest]
    BY DEF BeginOpen, OpenFails, StopServing, CrashDaemon, DaemonStep, OpenStage, CloseListener,
           CloseIngress, CloseRest, Leave
  <2> QED  BY <2>1, <2>2 DEF DaemonIInv, DaemonTypeOK
<1>4. HookRead'
  <2>1. NoRequest.seen = 0 /\ hook.gen \in Nat
    BY DEF NoRequest, DaemonIInv, DaemonTypeOK
  <2>2. request' = request \/ request' = [d \in Deliveries |-> NoRequest]
    BY DEF BeginOpen, OpenFails, StopServing, CrashDaemon, DaemonStep, OpenStage, CloseListener,
           CloseIngress, CloseRest, Leave
  <2> QED  BY <1>1, <2>1, <2>2 DEF DaemonIInv, HookRead
<1>3. proc' \in ProcPoint /\ held' = OpenAt(proc')
  <2>1. held = OpenAt(proc) /\ proc \in ProcPoint
    BY DEF DaemonIInv, DaemonTypeOK
  <2>2. CASE OpenStage
    <3>1. proc \in WhileOpening /\ held' = held \cup Opened(proc) /\ proc' = OpenOrder[proc]
      BY <2>2, StageOrder DEF OpenStage
    <3> QED  BY <2>1, <3>1, StagesMatch
  <2>3. CASE OpenFails
    <3>1. proc \in WhileOpening /\ held' = held \ (ErrorCloses(proc) \cup {"plugins"}) /\ proc' = "down"
      BY <2>3, StageOrder DEF OpenFails
    <3>2. held' = {}
      BY <2>1, <3>1, StagesMatch
    <3> QED  BY <3>1, <3>2, ClosesMatch DEF ProcPoint
  <2>4. CASE BeginOpen
    BY <2>1, <2>4, ClosesMatch DEF BeginOpen, ProcPoint, WhileOpening
  <2>5. CASE StopServing
    BY <2>1, <2>5, ClosesMatch DEF StopServing, ProcPoint
  <2>6. CASE CrashDaemon
    BY <2>6, ClosesMatch DEF CrashDaemon, ProcPoint
  <2>7. CASE CloseListener \/ CloseIngress
    BY <2>1, <2>7, ClosesMatch DEF CloseListener, CloseIngress, ProcPoint
  <2>8. CASE CloseRest
    BY <2>1, <2>8, ClosesMatch DEF CloseRest, ProcPoint
  <2>9. CASE Leave
    BY <2>1, <2>9, ClosesMatch DEF Leave, ProcPoint
  <2> QED  BY <2>2, <2>3, <2>4, <2>5, <2>6, <2>7, <2>8, <2>9 DEF DaemonStep
<1> QED  BY <1>1, <1>2, <1>3, <1>4 DEF DaemonIInv, DaemonTypeOK

\* A handler moves its own request, and writes at most a first receipt.
LEMMA HandlerKeeps ==
    ASSUME DaemonIInv, NEW d \in Deliveries,
           \/ LookupHook(d) \/ EnsureHookState(d) \/ ReadHookBody(d) \/ FindReceipt(d) \/ AcceptHook(d)
           \/ \E k \in HookKeys : SendHook(d, k)
    PROVE  DaemonIInv'
<1>1. UNCHANGED <<proc, held, hook>>
  BY DEF LookupHook, EnsureHookState, ReadHookBody, FindReceipt, AcceptHook, SendHook, HookQuiet
<1>4. UNCHANGED hookState
  <2>1. request[d].seen <= hookState.gen /\ request[d].seen \in Nat /\ hookState.gen \in Nat
    BY DEF DaemonIInv, DaemonTypeOK, HookRead, Request
  <2>2. ~ (hookState.gen < request[d].seen)
    BY <2>1
  <2> QED  BY <2>2 DEF LookupHook, EnsureHookState, ReadHookBody, FindReceipt, AcceptHook, SendHook
<1>2. PICK r \in Request : request' = [request EXCEPT ![d] = r] /\ r.seen <= hook.gen
  <2> DEFINE old == request[d]
  <2>0. /\ old \in Request /\ hook.gen \in Nat /\ NoRequest \in Request
        /\ old.seen <= hook.gen /\ NoRequest.seen = 0
    BY DEF DaemonIInv, DaemonTypeOK, HookRead, NoRequest, Request
  <2>1. \A label \in {"body", "receipt", "accept"} :
           [old EXCEPT !.at = label] \in Request /\ [old EXCEPT !.at = label].seen <= hook.gen
    BY <2>0 DEF Request
  <2>2. /\ [old EXCEPT !.at = "state", !.seen = hook.gen] \in Request
        /\ [old EXCEPT !.at = "state", !.seen = hook.gen].seen <= hook.gen
    <3>1. [old EXCEPT !.at = "state", !.seen = hook.gen] \in Request
      BY <2>0 DEF Request
    <3>2. [old EXCEPT !.at = "state", !.seen = hook.gen].seen = hook.gen
      BY <2>0 DEF Request
    <3> QED  BY <2>0, <3>1, <3>2
  <2>3. \A k \in HookKeys : /\ [at |-> "lookup", key |-> k, seen |-> 0] \in Request
                             /\ [at |-> "lookup", key |-> k, seen |-> 0].seen <= hook.gen
    BY <2>0 DEF Request
  <2>4. \/ request' = [request EXCEPT ![d] = NoRequest]
        \/ request' = [request EXCEPT ![d] = [old EXCEPT !.at = "state", !.seen = hook.gen]]
        \/ \E label \in {"body", "receipt", "accept"} :
              request' = [request EXCEPT ![d] = [old EXCEPT !.at = label]]
        \/ \E k \in HookKeys : request' = [request EXCEPT ![d] = [at |-> "lookup", key |-> k, seen |-> 0]]
    BY DEF LookupHook, EnsureHookState, ReadHookBody, FindReceipt, AcceptHook, SendHook, Reply, ToStep
  <2>5. NoRequest.seen <= hook.gen
    BY <2>0
  <2>6. CASE request' = [request EXCEPT ![d] = NoRequest]
    BY <2>0, <2>5, <2>6
  <2>7. CASE request' = [request EXCEPT ![d] = [old EXCEPT !.at = "state", !.seen = hook.gen]]
    BY <2>2, <2>7
  <2>8. ASSUME NEW label \in {"body", "receipt", "accept"},
               request' = [request EXCEPT ![d] = [old EXCEPT !.at = label]]
        PROVE  \E r \in Request : request' = [request EXCEPT ![d] = r] /\ r.seen <= hook.gen
    BY <2>1, <2>8
  <2>9. ASSUME NEW k \in HookKeys,
               request' = [request EXCEPT ![d] = [at |-> "lookup", key |-> k, seen |-> 0]]
        PROVE  \E r \in Request : request' = [request EXCEPT ![d] = r] /\ r.seen <= hook.gen
    BY <2>3, <2>9
  <2> QED  BY <2>4, <2>6, <2>7, <2>8, <2>9
<1>3. receipts' \in [HookKeys -> {0, 1}]
  <2>1. \/ UNCHANGED receipts
        \/ \E k : receipts[k] = 0 /\ receipts' = [receipts EXCEPT ![k] = receipts[k] + 1]
    BY DEF LookupHook, EnsureHookState, ReadHookBody, FindReceipt, AcceptHook, SendHook
  <2> QED  BY <2>1 DEF DaemonIInv, DaemonTypeOK
<1>5. HookRead'
  BY <1>1, <1>2, <1>4 DEF DaemonIInv, DaemonTypeOK, HookRead
<1> QED  BY <1>1, <1>2, <1>3, <1>5 DEF DaemonIInv, DaemonTypeOK

\* Every step of the daemon and its handlers keeps the invariant.
LEMMA DaemonKeeps ==
    ASSUME DaemonIInv, [DaemonNext]_daemonVars
    PROVE  DaemonIInv'
<1>1. CASE UNCHANGED daemonVars
  BY <1>1 DEF daemonVars, DaemonIInv, DaemonTypeOK, HookRead
<1>2. CASE BeginOpen \/ OpenFails \/ StopServing \/ CrashDaemon \/ DaemonStep
  BY <1>2, ProcessKeeps
<1>3. CASE EditHook
  <2>1. hook'.gen = hook.gen + 1 /\ hook' \in [gen : Nat, enabled : BOOLEAN] /\ hookState' = hook'
    BY <1>3 DEF EditHook, DaemonIInv, DaemonTypeOK
  <2>2. HookRead'
    <3>1. ASSUME NEW d \in Deliveries PROVE request'[d].seen <= hook'.gen
      <4>1. request' = request /\ request[d].seen \in Nat /\ hook.gen \in Nat /\ request[d].seen <= hook.gen
        BY <1>3 DEF EditHook, DaemonIInv, DaemonTypeOK, HookRead, Request
      <4> QED  BY <2>1, <4>1
    <3> QED  BY <2>1, <3>1 DEF HookRead
  <2> QED  BY <1>3, <2>1, <2>2 DEF EditHook, DaemonIInv, DaemonTypeOK
<1> QED  BY <1>1, <1>2, <1>3, HandlerKeeps DEF DaemonNext

\* The invariant holds in every state of the daemon.
LEMMA DaemonInductive == DaemonSpec => []DaemonIInv
<1>1. DaemonInit => DaemonIInv
  <2> SUFFICES ASSUME DaemonInit
               PROVE  DaemonIInv
    OBVIOUS
  <2>1. NoRequest \in Request /\ NoRequest.seen = 0
    BY DEF NoRequest, Request
  <2> QED  BY <2>1, ClosesMatch DEF DaemonInit, DaemonIInv, DaemonTypeOK, ProcPoint, HookRead
<1> QED  BY <1>1, DaemonKeeps, PTL DEF DaemonSpec

(***************************************************************************)
(* A daemon that is down holds nothing, whichever stage of Open failed;    *)
(* the store and the plugins outlive their users; and one webhook makes    *)
(* one receipt, however its deliveries interleave with stops and crashes;  *)
(* a handler never sets the Trigger's row back behind an edit.             *)
(***************************************************************************)
THEOREM DaemonInvariant == DaemonSpec => []DaemonInv
<1>1. DaemonIInv => DaemonInv
  <2> SUFFICES ASSUME DaemonIInv
               PROVE  DaemonInv
    OBVIOUS
  <2>1. UsersAreClosedFirst
    <3>1. proc = "down" => held = {}
      BY ClosesMatch DEF DaemonIInv
    <3>2. "engine" \in held => {"store", "plugins"} \subseteq held
      BY DEF DaemonIInv, OpenAt
    <3>3. "ingress" \in held => "engine" \in held
      BY DEF DaemonIInv, OpenAt
    <3> QED  BY <3>1, <3>2, <3>3 DEF UsersAreClosedFirst
  <2>2. HookIsAcceptedOnce
    BY DEF DaemonIInv, DaemonTypeOK, HookIsAcceptedOnce
  <2>3. HookRowFollowsEdits
    BY DEF DaemonIInv, HookRead, HookRowFollowsEdits
  <2> QED  BY <2>1, <2>2, <2>3 DEF DaemonInv
<1> QED  BY <1>1, DaemonInductive, PTL

-----------------------------------------------------------------------------
(***************************************************************************)
(* The backup.  What BackupInv says of the running daemon has to hold of   *)
(* every archive too, and an archive is put together from three instants.  *)
(* So the invariant relates the snapshot of the workflow history to the    *)
(* product database as it is until it is copied as well, and the plugin    *)
(* rows of that copy to the tree until it is walked: a directory that was  *)
(* there once is there or was removed by retention.                        *)
(***************************************************************************)
JobRow == [start : {"none", "pending", "completed", "collected"}, pin : Builds \cup {"none"},
           evidence : BOOLEAN, ended : BOOLEAN]
ProductState == [jobs : [Jobs -> JobRow], plugins : SUBSET Builds]
HistoryState == [Jobs -> {"none", "active", "recorded", "finished"}]
Archive == [product : ProductState, history : HistoryState, tree : SUBSET Builds, pruned : SUBSET Builds]
BackupRecord == [at : {"idle", "one", "both", "walked"}, product : ProductState,
                 history : HistoryState, tree : SUBSET Builds, pruned : SUBSET Builds]

Unfinished(job) == job.start \in {"pending", "completed"} /\ ~ job.ended

HasEvidence(p, h) ==
    \A j \in Jobs : h[j] \in {"recorded", "finished"}
                    => p.jobs[j].evidence \/ p.jobs[j].start = "collected"

HasPlugin(p, t) ==
    p.plugins \subseteq t /\ \A j \in Jobs : Unfinished(p.jobs[j]) => p.jobs[j].pin \in p.plugins

FreshRows(p) ==
    \A j \in Jobs : p.jobs[j].start = "none" => ~ p.jobs[j].evidence /\ ~ p.jobs[j].ended

Restorable(a) ==
    /\ HasEvidence(a.product, a.history) /\ HasPlugin(a.product, a.tree \cup a.pruned)
    /\ FreshRows(a.product)

BackupTypeOK ==
    /\ product \in ProductState /\ history \in HistoryState /\ tree \in SUBSET Builds
    /\ pruned \in SUBSET Builds /\ backup \in BackupRecord /\ archives \in SUBSET Archive

\* After the first snapshot, the workflow history.
FirstSnapshot == backup.at = "one" => HasEvidence(product, backup.history)

\* After the second one, the product database.
SecondSnapshot ==
    backup.at \in {"both", "walked"} =>
        HasEvidence(backup.product, backup.history) /\ FreshRows(backup.product)

\* The plugins of its rows are in the tree still, or were removed from it.
TreeStillHolds == backup.at = "both" => HasPlugin(backup.product, tree \cup pruned)

Walked == backup.at = "walked" => HasPlugin(backup.product, backup.tree \cup backup.pruned)

BackupIInv ==
    /\ BackupTypeOK /\ HasEvidence(product, history) /\ HasPlugin(product, tree \cup pruned)
    /\ FreshRows(product) /\ FirstSnapshot /\ SecondSnapshot /\ TreeStillHolds
    /\ Walked /\ \A a \in archives : Restorable(a)

\* A step of one Run's row.
LEMMA JobStepKeeps ==
    ASSUME BackupIInv, NEW j \in Jobs, NEW r \in JobRow, SetJob(j, r),
           UNCHANGED <<history, tree, pruned, backup, archives>>,
           Job(j).evidence \/ Job(j).start = "collected" => r.evidence \/ r.start = "collected",
           Unfinished(r) => r.pin \in product.plugins,
           r.start = "none" => ~ r.evidence /\ ~ r.ended
    PROVE  BackupIInv'
<1>1. /\ product \in ProductState /\ product.jobs \in [Jobs -> JobRow]
      /\ product'.plugins = product.plugins
      /\ product'.jobs = [product.jobs EXCEPT ![j] = r]
  BY DEF BackupIInv, BackupTypeOK, ProductState, SetJob
<1>2. product' \in ProductState
  <2>1. product' = [product EXCEPT !.jobs = [product.jobs EXCEPT ![j] = r]]
    BY DEF SetJob
  <2>2. [product.jobs EXCEPT ![j] = r] \in [Jobs -> JobRow]
    BY <1>1
  <2> QED  BY <1>1, <2>1, <2>2 DEF ProductState
<1>3. /\ product'.jobs[j] = r /\ Job(j) = product.jobs[j]
      /\ \A i \in Jobs \ {j} : product'.jobs[i] = product.jobs[i]
  BY <1>1 DEF Job
<1>4. BackupTypeOK'
  BY <1>2 DEF BackupIInv, BackupTypeOK
<1>5. \A h : HasEvidence(product, h) => HasEvidence(product, h)'
  BY <1>3 DEF HasEvidence
<1>6. HasPlugin(product, tree \cup pruned)' /\ FreshRows(product)'
  BY <1>1, <1>3 DEF BackupIInv, HasPlugin, FreshRows
<1>7. FirstSnapshot'
  BY <1>5 DEF BackupIInv, FirstSnapshot
<1>8. (TreeStillHolds /\ SecondSnapshot /\ Walked /\ \A a \in archives : Restorable(a))'
  BY DEF BackupIInv, SecondSnapshot, Walked, TreeStillHolds
<1> QED  BY <1>4, <1>5, <1>6, <1>7, <1>8 DEF BackupIInv

\* A step of one workflow instance.
LEMMA HistoryStepKeeps ==
    ASSUME BackupIInv, NEW j \in Jobs, NEW h \in {"none", "active", "recorded", "finished"},
           history' = [history EXCEPT ![j] = h], UNCHANGED <<product, tree, pruned, backup, archives>>,
           h \in {"recorded", "finished"} => Job(j).evidence \/ Job(j).start = "collected"
    PROVE  BackupIInv'
<1>1. history \in HistoryState /\ history' \in HistoryState
  BY DEF BackupIInv, BackupTypeOK, HistoryState
<1>2. history'[j] = h /\ \A i \in Jobs \ {j} : history'[i] = history[i]
  BY <1>1 DEF HistoryState
<1>3. BackupTypeOK'
  BY <1>1 DEF BackupIInv, BackupTypeOK
<1>4. HasEvidence(product, history)'
  BY <1>2 DEF BackupIInv, HasEvidence, Job
<1>5. /\ HasPlugin(product, tree \cup pruned)' /\ FreshRows(product)' /\ FirstSnapshot' /\ SecondSnapshot'
      /\ TreeStillHolds' /\ Walked' /\ (\A a \in archives : Restorable(a))'
  BY DEF BackupIInv, FirstSnapshot, SecondSnapshot, TreeStillHolds, Walked
<1> QED  BY <1>3, <1>4, <1>5 DEF BackupIInv

\* What a Run, its workflow instance and their retention do.
LEMMA JobKeeps ==
    ASSUME BackupIInv, NEW j \in Jobs,
           \/ \E v \in Builds : AcceptJob(j, v)
           \/ Launch(j) \/ CompleteStart(j) \/ RecordEvidence(j) \/ RecordResult(j)
           \/ EndJob(j) \/ FinishHistory(j) \/ EndOrphan(j) \/ CollectHistory(j) \/ CollectJob(j)
    PROVE  BackupIInv'
<1>0. Job(j) \in JobRow /\ Job(j) = product.jobs[j]
  BY DEF BackupIInv, BackupTypeOK, ProductState, Job
<1>1. /\ Unfinished(Job(j)) => Job(j).pin \in product.plugins
      /\ Job(j).start = "none" => ~ Job(j).evidence /\ ~ Job(j).ended
      /\ history[j] \in {"recorded", "finished"} => Job(j).evidence \/ Job(j).start = "collected"
  BY DEF BackupIInv, HasPlugin, FreshRows, HasEvidence, Job
<1>2. ASSUME NEW v \in Builds, AcceptJob(j, v)
      PROVE  BackupIInv'
  <2> DEFINE r == [NoJob EXCEPT !.start = "pending", !.pin = v]
  <2>1. r \in JobRow /\ r.start = "pending" /\ r.pin = v /\ ~ r.evidence /\ ~ r.ended
    BY DEF JobRow, NoJob
  <2>2. SetJob(j, r) /\ UNCHANGED <<history, tree, pruned, backup, archives>> /\ Job(j).start = "none"
        /\ v \in product.plugins
    BY <1>2 DEF AcceptJob, Quiet
  <2> HIDE DEF r
  <2> QED  BY <1>1, <2>1, <2>2, JobStepKeeps DEF Unfinished
<1>3. CASE Launch(j)
  BY <1>1, <1>3, HistoryStepKeeps DEF Launch, Quiet
<1>4. CASE CompleteStart(j)
  <2> DEFINE r == [Job(j) EXCEPT !.start = "completed"]
  <2>1. /\ r \in JobRow /\ r.start = "completed" /\ r.pin = Job(j).pin
        /\ r.evidence = Job(j).evidence /\ r.ended = Job(j).ended
    BY <1>0 DEF JobRow
  <2>2. SetJob(j, r) /\ UNCHANGED <<history, tree, pruned, backup, archives>> /\ Job(j).start = "pending"
    BY <1>4 DEF CompleteStart, Quiet
  <2> HIDE DEF r
  <2> QED  BY <1>1, <2>1, <2>2, JobStepKeeps DEF Unfinished
<1>5. CASE RecordEvidence(j)
  <2> DEFINE r == [Job(j) EXCEPT !.evidence = TRUE]
  <2>1. /\ r \in JobRow /\ r.start = Job(j).start /\ r.pin = Job(j).pin
        /\ r.evidence /\ r.ended = Job(j).ended
    BY <1>0 DEF JobRow
  <2>2. SetJob(j, r) /\ UNCHANGED <<history, tree, pruned, backup, archives>> /\ HasRow(j)
    BY <1>5 DEF RecordEvidence, Quiet
  <2> HIDE DEF r
  <2> QED  BY <1>1, <2>1, <2>2, JobStepKeeps DEF Unfinished, HasRow
<1>6. CASE RecordResult(j)
  BY <1>1, <1>6, HistoryStepKeeps DEF RecordResult, Quiet
<1>7. CASE EndJob(j)
  <2> DEFINE r == [Job(j) EXCEPT !.ended = TRUE]
  <2>1. /\ r \in JobRow /\ r.start = Job(j).start /\ r.pin = Job(j).pin
        /\ r.evidence = Job(j).evidence /\ r.ended
    BY <1>0 DEF JobRow
  <2>2. SetJob(j, r) /\ UNCHANGED <<history, tree, pruned, backup, archives>> /\ HasRow(j)
        /\ history[j] = "recorded"
    BY <1>7 DEF EndJob, Quiet
  <2> HIDE DEF r
  <2> QED  BY <1>1, <2>1, <2>2, JobStepKeeps DEF Unfinished, HasRow
<1>8. CASE FinishHistory(j)
  BY <1>1, <1>8, HistoryStepKeeps DEF FinishHistory, Quiet
<1>9. CASE CollectHistory(j)
  BY <1>1, <1>9, HistoryStepKeeps DEF CollectHistory, Quiet
<1>10. CASE EndOrphan(j)
  BY <1>1, <1>10, HistoryStepKeeps DEF EndOrphan, Quiet
<1>11. CASE CollectJob(j)
  <2> DEFINE r == [NoJob EXCEPT !.start = "collected"]
  <2>1. r \in JobRow /\ r.start = "collected" /\ ~ r.ended
    BY DEF JobRow, NoJob
  <2>2. SetJob(j, r) /\ UNCHANGED <<history, tree, pruned, backup, archives>>
        /\ history[j] = "none" /\ Job(j).ended
    BY <1>11 DEF CollectJob, Quiet
  <2> HIDE DEF r
  <2> QED  BY <1>1, <2>1, <2>2, JobStepKeeps DEF Unfinished
<1> QED  BY <1>2, <1>3, <1>4, <1>5, <1>6, <1>7, <1>8, <1>9, <1>10, <1>11

\* Installation adds, and the collection of a plugin takes no pinned version.
LEMMA PluginKeeps ==
    ASSUME BackupIInv, NEW v \in Builds,
           InstallFiles(v) \/ InstallRow(v) \/ CollectPluginRow(v) \/ RemovePluginTree(v)
    PROVE  BackupIInv'
<1> DEFINE t == tree \cup pruned
<1>1. UNCHANGED <<history, backup, archives>>
  BY DEF InstallFiles, InstallRow, CollectPluginRow, RemovePluginTree, Quiet
<1>2. /\ product \in ProductState /\ product' \in ProductState /\ product'.jobs = product.jobs
      /\ tree' \in SUBSET Builds /\ pruned' \in SUBSET Builds /\ t \subseteq t'
      /\ \A w \in product.plugins : w \in product'.plugins \/ (w = v /\ v \notin Pinned)
      /\ \A w \in product'.plugins : w \in product.plugins \/ w \in t'
  BY DEF BackupIInv, BackupTypeOK, ProductState, InstallFiles, InstallRow, CollectPluginRow,
         RemovePluginTree, Quiet
<1>3. \A j \in Jobs : /\ Job(j) = product.jobs[j] /\ Job(j)' = Job(j)
                      /\ Job(j).pin \in product.plugins => Job(j).pin \in product'.plugins
  BY <1>2 DEF Job, Pinned
<1>4. BackupTypeOK'
  BY <1>1, <1>2 DEF BackupIInv, BackupTypeOK
<1>5. \A h : HasEvidence(product, h) => HasEvidence(product, h)'
  BY <1>2 DEF HasEvidence
<1>6. HasPlugin(product, t)' /\ FreshRows(product)'
  BY <1>2, <1>3 DEF BackupIInv, HasPlugin, FreshRows
<1>7. FirstSnapshot' /\ SecondSnapshot' /\ Walked' /\ (\A a \in archives : Restorable(a))'
  BY <1>1, <1>5 DEF BackupIInv, FirstSnapshot, SecondSnapshot, Walked
<1>8. TreeStillHolds'
  BY <1>1, <1>2 DEF BackupIInv, TreeStillHolds, HasPlugin
<1> QED  BY <1>1, <1>4, <1>5, <1>6, <1>7, <1>8 DEF BackupIInv

\* The two databases are copied one after the other.
LEMMA SnapshotKeeps ==
    ASSUME BackupIInv, SnapshotDatabases
    PROVE  BackupIInv'
<1>0. /\ UNCHANGED <<product, history, tree, pruned, archives>>
      /\ product \in ProductState /\ history \in HistoryState
  BY DEF SnapshotDatabases, BackupIInv, BackupTypeOK
<1>1. HasEvidence(product, history)' /\ HasPlugin(product, tree \cup pruned)' /\ FreshRows(product)'
      /\ (\A a \in archives : Restorable(a))'
  BY <1>0 DEF BackupIInv
<1>2. CASE backup' = [backup EXCEPT !.at = "one", !.history = history]
  <2>1. backup'.at = "one" /\ backup'.history = history /\ backup' \in BackupRecord
    BY <1>0, <1>2 DEF BackupIInv, BackupTypeOK, BackupRecord
  <2>2. FirstSnapshot'
    BY <1>0, <2>1 DEF BackupIInv, FirstSnapshot
  <2> QED  BY <1>0, <1>1, <2>1, <2>2
           DEF BackupIInv, BackupTypeOK, SecondSnapshot, TreeStillHolds, Walked
<1>3. CASE backup.at = "one" /\ backup' = [backup EXCEPT !.at = "both", !.product = product]
  <2>1. /\ backup'.at = "both" /\ backup'.product = product /\ backup'.history = backup.history
        /\ backup' \in BackupRecord
    BY <1>0, <1>3 DEF BackupIInv, BackupTypeOK, BackupRecord
  <2>2. SecondSnapshot' /\ TreeStillHolds'
    BY <1>0, <1>3, <2>1 DEF BackupIInv, FirstSnapshot, SecondSnapshot, TreeStillHolds
  <2> QED  BY <1>0, <1>1, <2>1, <2>2 DEF BackupIInv, BackupTypeOK, FirstSnapshot, Walked
<1> QED  BY <1>2, <1>3 DEF SnapshotDatabases

\* When no backup is under way, nothing is asked of one.
LEMMA NoBackupIdle ==
    /\ NoBackup \in BackupRecord
    /\ backup' = NoBackup => FirstSnapshot' /\ SecondSnapshot' /\ TreeStillHolds' /\ Walked'
    /\ backup = NoBackup => FirstSnapshot /\ SecondSnapshot /\ TreeStillHolds /\ Walked
<1>1. NoJob \in JobRow
  BY DEF NoJob, JobRow
<1>2. NoProduct \in ProductState /\ NoHistory \in HistoryState
  BY <1>1 DEF NoProduct, NoHistory, ProductState, HistoryState
<1>3. NoBackup.at = "idle"
  BY DEF NoBackup
<1> QED  BY <1>2, <1>3 DEF NoBackup, BackupRecord, FirstSnapshot, SecondSnapshot, TreeStillHolds, Walked

\* The walk of the plugin tree, the archive, and the end of a backup.
LEMMA ArchiveKeeps ==
    ASSUME BackupIInv, ArchiveTree \/ Publish \/ AbandonBackup
    PROVE  BackupIInv'
<1>0. /\ UNCHANGED <<product, history, tree, pruned>>
      /\ product \in ProductState /\ history \in HistoryState /\ tree \in SUBSET Builds
      /\ pruned \in SUBSET Builds
  BY DEF ArchiveTree, Publish, AbandonBackup, BackupIInv, BackupTypeOK
<1>1. HasEvidence(product, history)' /\ HasPlugin(product, tree \cup pruned)' /\ FreshRows(product)'
  BY <1>0 DEF BackupIInv
<1>2. CASE ArchiveTree
  <2>1. /\ backup.at = "both" /\ backup'.at = "walked" /\ backup'.tree = tree /\ backup'.pruned = pruned
        /\ backup'.history = backup.history /\ backup'.product = backup.product
        /\ UNCHANGED archives /\ backup' \in BackupRecord
    BY <1>0, <1>2 DEF ArchiveTree, BackupIInv, BackupTypeOK, BackupRecord
  <2>2. SecondSnapshot' /\ Walked'
    BY <2>1 DEF BackupIInv, SecondSnapshot, Walked, TreeStillHolds
  <2> QED  BY <1>0, <1>1, <2>1, <2>2
           DEF BackupIInv, BackupTypeOK, FirstSnapshot, TreeStillHolds
<1>3. ASSUME backup' = NoBackup, archives' \in SUBSET Archive, \A a \in archives' : Restorable(a)
      PROVE  BackupIInv'
  BY <1>0, <1>1, <1>3, NoBackupIdle DEF BackupIInv, BackupTypeOK
<1>4. CASE Publish
  <2> DEFINE a == [product |-> backup.product, history |-> backup.history, tree |-> backup.tree,
                   pruned |-> backup.pruned]
  <2>1. /\ a \in Archive /\ a.product = backup.product /\ a.history = backup.history
        /\ a.tree = backup.tree /\ a.pruned = backup.pruned
    BY DEF BackupIInv, BackupTypeOK, Archive, BackupRecord
  <2>2. backup.at = "walked" /\ archives' = archives \cup {a} /\ backup' = NoBackup
    BY <1>4 DEF Publish
  <2> HIDE DEF a
  <2>3. Restorable(a)
    BY <2>1, <2>2 DEF BackupIInv, Restorable, SecondSnapshot, Walked
  <2> QED  BY <1>3, <2>1, <2>2, <2>3 DEF BackupIInv, BackupTypeOK
<1>5. CASE AbandonBackup
  BY <1>3, <1>5 DEF AbandonBackup, BackupIInv, BackupTypeOK
<1> QED  BY <1>2, <1>4, <1>5

\* The restored state is one of an archive.
LEMMA RestoreKeeps ==
    ASSUME BackupIInv, RestoreArchive
    PROVE  BackupIInv'
<1>1. PICK a \in archives : /\ product' = a.product /\ history' = a.history
                           /\ tree' = a.tree /\ pruned' = a.pruned
  BY DEF RestoreArchive
<1>2. /\ Restorable(a) /\ a.product \in ProductState /\ a.history \in HistoryState
      /\ a.tree \in SUBSET Builds /\ a.pruned \in SUBSET Builds
  BY <1>1 DEF BackupIInv, BackupTypeOK, Archive
<1>3. backup' = NoBackup /\ UNCHANGED archives
  BY DEF RestoreArchive
<1>4. HasEvidence(product, history)' /\ HasPlugin(product, tree \cup pruned)' /\ FreshRows(product)'
  BY <1>1, <1>2 DEF Restorable
<1> QED  BY <1>1, <1>2, <1>3, <1>4, NoBackupIdle DEF BackupIInv, BackupTypeOK

(***************************************************************************)
(* A state restored from any archive, taken while Runs ran and plugins     *)
(* came and went: no result in the history without its evidence, unless    *)
(* the Run was collected, and no unfinished Run without the row of its     *)
(* plugin, nor without its directory unless retention removed that.        *)
(***************************************************************************)
THEOREM BackupInvariant == BackupSpec => []BackupInv
<1>1. BackupInit => BackupIInv
  <2> SUFFICES ASSUME BackupInit
               PROVE  BackupIInv
    OBVIOUS
  <2>1. NoJob \in JobRow /\ NoJob.start = "none" /\ ~ NoJob.evidence /\ ~ NoJob.ended
    BY DEF NoJob, JobRow
  <2>2. /\ NoProduct \in ProductState /\ NoHistory \in HistoryState
        /\ \A j \in Jobs : NoProduct.jobs[j] = NoJob /\ NoHistory[j] = "none"
    BY <2>1 DEF NoProduct, NoHistory, ProductState, HistoryState
  <2>3. product = NoProduct /\ history = NoHistory /\ tree = {} /\ pruned = {}
        /\ backup = NoBackup /\ archives = {} /\ product.plugins = {}
    BY DEF BackupInit, NoProduct
  <2>4. HasEvidence(product, history) /\ HasPlugin(product, tree \cup pruned) /\ FreshRows(product)
    BY <2>1, <2>2, <2>3 DEF HasEvidence, HasPlugin, FreshRows, Unfinished
  <2> QED  BY <2>2, <2>3, <2>4, NoBackupIdle
           DEF BackupIInv, BackupTypeOK, FirstSnapshot, SecondSnapshot, TreeStillHolds, Walked
<1>2. BackupIInv /\ [BackupNext]_backupVars => BackupIInv'
  <2> SUFFICES ASSUME BackupIInv, [BackupNext]_backupVars
               PROVE  BackupIInv'
    OBVIOUS
  <2>1. CASE UNCHANGED backupVars
    BY <2>1 DEF backupVars, BackupIInv, BackupTypeOK, FirstSnapshot, SecondSnapshot,
                TreeStillHolds, Walked
  <2>2. CASE BackupNext
    BY <2>2, JobKeeps, PluginKeeps, SnapshotKeeps, ArchiveKeeps, RestoreKeeps DEF BackupNext
  <2> QED  BY <2>1, <2>2
<1>3. BackupIInv => BackupInv
  BY DEF BackupIInv, BackupInv, HasEvidence, HasPlugin, Unfinished, RestoredHistoryHasEvidence,
         MissingPluginWasRemoved, HasRow, Job
<1> QED  BY <1>1, <1>2, <1>3, PTL DEF BackupSpec

-----------------------------------------------------------------------------
(***************************************************************************)
(* The installer.  A rollback can be trusted because of what every earlier *)
(* phase left alone: the snapshot of the files until it is used, the       *)
(* activations until the bootstrap, the archive, which was taken before a  *)
(* daemon of the new release could migrate the databases.                  *)
(***************************************************************************)
Release == {"none", "old", "new"}
Early == {"begin", "inspect", "archive"}
Replaced == {"reload", "restart", "bootstrap", "health", "done"}
Undoing == {"undoService", "stop", "swap", "carry", "start", "activations"}
InstallPoint == Early \cup {"copy", "undoFiles", "ended"} \cup Replaced \cup Undoing

DbState == [schema : Release, active : [Bundled -> Release], work : SUBSET Nat]
InstallerState == [at : InstallPoint, left : Seq(Targets), through : {"files", "service"},
                   strayed : BOOLEAN, clean : BOOLEAN]

UpgradeTypeOK ==
    /\ disk \in [Targets -> Release] /\ service \in Release
    /\ db \in DbState /\ archive \in DbState /\ previous \in [Bundled -> Release]
    /\ data \in [Trees -> {"state", "failed", "aside"}]
    /\ saved \in [Targets -> Release] /\ installer \in InstallerState
    /\ accepted \in SUBSET Nat /\ IsFiniteSet(accepted)
    /\ before \in [disk : [Targets -> Release], active : [Bundled -> Release]]

FoundRelease == before.disk \in {NoFiles, [f \in Targets |-> "old"]}

\* Which points of the installer belong to which rollback.
PhaseIsKnown ==
    /\ installer.at \in Early \cup {"copy", "undoFiles"} \cup Replaced => installer.through = "files"
    /\ installer.at \in Undoing => installer.through = "service"
    /\ installer.at \in {"inspect", "archive", "swap", "carry"} => Upgrading

FilesPhase ==
    installer.at \in Early \cup {"copy", "undoFiles"} \/ (installer.at = "ended" /\ installer.through = "files")

\* The files: found, copied one by one, restored from the snapshot.
FilesInOrder ==
    /\ installer.at \in Early => disk = before.disk
    /\ installer.at \in (InstallPoint \ (Undoing \cup {"begin", "ended", "done"})) \cup {"undoService"}
       => saved = before.disk
    /\ installer.at \in Early \cup {"copy"} =>
          \A f \in Targets \ {"config"} :
              disk[f] = "new" \/ \E i \in 1..Len(installer.left) : installer.left[i] = f
    /\ installer.at \in Replaced => \A f \in Targets \ {"config"} : disk[f] = "new"
    /\ installer.clean /\ installer.at \in (Undoing \ {"undoService"}) \cup {"ended"}
       => disk = before.disk

\* While only files were replaced, a daemon that did not stray to the new ones
\* is the old one, on the old schema; nobody has changed an activation.
OldUntouched ==
    FilesPhase =>
        /\ db.active = before.active
        /\ installer.at \in Early => ~ installer.strayed
        /\ ~ installer.strayed /\ service # "none" => service = "old" /\ db.schema = "old"

NewInPlace ==
    /\ installer.at \in {"bootstrap", "health", "done"} => service \in {"new", "none"}
    /\ installer.at \in {"health", "done"} => \A p \in Bundled : db.active[p] = "new"

\* What the rollback of the service relies on.
ArchiveIsOld ==
    /\ installer.at \in ({"archive", "copy"} \cup Replaced \cup Undoing) /\ Upgrading
       => previous = before.active
    /\ installer.at \in ({"copy"} \cup Replaced \cup Undoing) /\ Upgrading
       => archive.schema = "old" /\ archive.active = before.active

\* What a rollback that met no error of its own has restored.
Restored ==
    installer.clean =>
        /\ installer.at # "carry" => \A t \in Trees : data[t] = "state"
        /\ installer.at \in {"carry", "start"} /\ Upgrading
           => db.schema = "old" /\ db.active = before.active
        /\ installer.at = "activations" \/ (installer.at = "ended" /\ installer.through = "service")
           => /\ Upgrading /\ db.schema = "old" /\ db.active = before.active
              /\ service \in {"old", "none"}

\* The state directory stays aside only after the swap, and it is reported.
WorkIsKept ==
    /\ data # Aside => archive.work \subseteq db.work
    /\ data = Aside => installer.at \in {"start", "activations", "ended"} /\ ~ installer.clean
                       /\ installer.through = "service"
    /\ installer.through = "files" => db.work = accepted

UpgradeIInv ==
    /\ UpgradeTypeOK /\ FoundRelease /\ PhaseIsKnown /\ FilesInOrder /\ OldUntouched /\ NewInPlace
    /\ ArchiveIsOld /\ Restored /\ WorkIsKept

\* How the installer moves.
LEMMA InstallerMoves ==
    ASSUME UpgradeTypeOK, NEW label \in InstallPoint
    PROVE  /\ Proceed(label) =>
                /\ installer'.at = label /\ installer' \in InstallerState
                /\ installer'.left = installer.left /\ installer'.through = installer.through
                /\ installer'.strayed = installer.strayed /\ installer'.clean = installer.clean
           /\ Unclean(label) =>
                /\ installer'.at = label /\ installer' \in InstallerState
                /\ installer'.left = installer.left /\ installer'.through = installer.through
                /\ installer'.strayed = installer.strayed /\ ~ installer'.clean
           /\ AbandonInstall(label) =>
                /\ installer'.at = label /\ installer' \in InstallerState
                /\ installer'.left = installer.left
                /\ installer'.through = IF label = "undoFiles" THEN "files" ELSE "service"
                /\ installer'.strayed = installer.strayed /\ installer'.clean = installer.clean
<1> installer \in InstallerState
  BY DEF UpgradeTypeOK
<1>1. Proceed(label) =>
        /\ installer'.at = label /\ installer' \in InstallerState
        /\ installer'.left = installer.left /\ installer'.through = installer.through
        /\ installer'.strayed = installer.strayed /\ installer'.clean = installer.clean
  BY DEF Proceed, InstallerState
<1>2. Unclean(label) =>
        /\ installer'.at = label /\ installer' \in InstallerState
        /\ installer'.left = installer.left /\ installer'.through = installer.through
        /\ installer'.strayed = installer.strayed /\ ~ installer'.clean
  BY DEF Unclean, InstallerState
<1>3. AbandonInstall(label) =>
        /\ installer'.at = label /\ installer' \in InstallerState
        /\ installer'.left = installer.left
        /\ installer'.through = IF label = "undoFiles" THEN "files" ELSE "service"
        /\ installer'.strayed = installer.strayed /\ installer'.clean = installer.clean
  BY DEF AbandonInstall, InstallerState
<1> QED  BY <1>1, <1>2, <1>3

\* A start of the service runs the release on disk, or nothing, and moves only
\* the schema: to the release that runs.
LEMMA StartEffect ==
    ASSUME UpgradeTypeOK, StartService
    PROVE  /\ service' \in Release /\ db' \in DbState
           /\ db'.active = db.active /\ db'.work = db.work
           /\ service' # "none" => service' = disk["binary"] /\ db'.schema = service'
           /\ disk["unit"] = "new" /\ disk["binary"] = "new" => service' = "new"
           /\ disk["binary"] = "old" /\ db.schema = "old" => db'.schema = "old"
           /\ disk["unit"] = "none" => service' = "none"
           /\ disk["unit"] = "old" /\ disk["binary"] = "old" /\ db.schema = "old" => service' = "old"
<1>1. /\ "binary" \in Targets /\ "unit" \in Targets /\ disk["binary"] \in Release
      /\ disk["unit"] \in Release /\ db \in DbState
  BY DEF UpgradeTypeOK, Targets
<1>2. ASSUME NEW release \in Release
      PROVE  /\ [db EXCEPT !.schema = release] \in DbState
             /\ [db EXCEPT !.schema = release].schema = release
             /\ [db EXCEPT !.schema = release].active = db.active
             /\ [db EXCEPT !.schema = release].work = db.work
  BY <1>1 DEF DbState
<1> QED  BY <1>1, <1>2 DEF StartService, Migrated, Opens, Release

\* The steps up to the copying of the files.
LEMMA PrepareKeeps ==
    ASSUME UpgradeIInv, CaptureFiles \/ InspectActivations \/ BackupState \/ ReloadUnit
    PROVE  UpgradeIInv'
<1> USE DEF UpgradeIInv, UpgradeTypeOK, FoundRelease, PhaseIsKnown, FilesInOrder, OldUntouched,
            NewInPlace, ArchiveIsOld, Restored, WorkIsKept, FilesPhase, Upgrading, Early, Replaced,
            Undoing, InstallPoint
<1>1. CASE CaptureFiles
  <2>0. /\ UNCHANGED <<disk, service, db, data, previous, archive, accepted, before>>
        /\ installer.at = "begin"
    BY <1>1 DEF CaptureFiles
  <2>1. CASE Proceed("ended") /\ UNCHANGED saved
    <3>1. /\ installer'.at = "ended" /\ installer' \in InstallerState
          /\ installer'.left = installer.left /\ installer'.through = installer.through
          /\ installer'.strayed = installer.strayed /\ installer'.clean = installer.clean
      BY <2>1, InstallerMoves
    <3> QED  BY <2>0, <2>1, <3>1
  <2>2. ASSUME NEW label \in {"inspect", "copy"}, Proceed(label), saved' = disk,
               label = IF Upgrading THEN "inspect" ELSE "copy"
        PROVE  UpgradeIInv'
    <3>1. /\ installer'.at = label /\ installer' \in InstallerState
          /\ installer'.left = installer.left /\ installer'.through = installer.through
          /\ installer'.strayed = installer.strayed /\ installer'.clean = installer.clean
      BY <2>2, InstallerMoves
    <3> QED  BY <2>0, <2>2, <3>1
  <2> QED  BY <1>1, <2>1, <2>2 DEF CaptureFiles
<1>2. CASE InspectActivations
  <2>0. /\ UNCHANGED <<disk, service, db, data, saved, archive, accepted, before>>
        /\ installer.at = "inspect"
    BY <1>2 DEF InspectActivations
  <2>1. CASE AbandonInstall("undoFiles") /\ UNCHANGED previous
    <3>1. /\ installer'.at = "undoFiles" /\ installer' \in InstallerState
          /\ installer'.left = installer.left /\ installer'.through = "files"
          /\ installer'.strayed = installer.strayed /\ installer'.clean = installer.clean
      BY <2>1, InstallerMoves
    <3> QED  BY <2>0, <2>1, <3>1
  <2>2. CASE previous' = db.active /\ Proceed("archive")
    <3>1. /\ installer'.at = "archive" /\ installer' \in InstallerState
          /\ installer'.left = installer.left /\ installer'.through = installer.through
          /\ installer'.strayed = installer.strayed /\ installer'.clean = installer.clean
      BY <2>2, InstallerMoves
    <3>2. db.active \in [Bundled -> Release]
      BY DEF DbState
    <3> QED  BY <2>0, <2>2, <3>1, <3>2
  <2> QED  BY <1>2, <2>1, <2>2 DEF InspectActivations
<1>3. CASE BackupState
  <2>0. /\ UNCHANGED <<disk, service, db, data, saved, previous, accepted, before>>
        /\ installer.at = "archive"
    BY <1>3 DEF BackupState
  <2>1. CASE AbandonInstall("undoFiles") /\ UNCHANGED archive
    <3>1. /\ installer'.at = "undoFiles" /\ installer' \in InstallerState
          /\ installer'.left = installer.left /\ installer'.through = "files"
          /\ installer'.strayed = installer.strayed /\ installer'.clean = installer.clean
      BY <2>1, InstallerMoves
    <3> QED  BY <2>0, <2>1, <3>1
  <2>2. CASE service # "none" /\ archive' = db /\ Proceed("copy")
    <3>1. /\ installer'.at = "copy" /\ installer' \in InstallerState
          /\ installer'.left = installer.left /\ installer'.through = installer.through
          /\ installer'.strayed = installer.strayed /\ installer'.clean = installer.clean
      BY <2>2, InstallerMoves
    <3> QED  BY <2>0, <2>2, <3>1
  <2> QED  BY <1>3, <2>1, <2>2 DEF BackupState
<1>4. CASE ReloadUnit
  <2>0. /\ UNCHANGED <<disk, service, db, data, saved, previous, archive, accepted, before>>
        /\ installer.at = "reload"
    BY <1>4 DEF ReloadUnit
  <2>1. CASE AbandonInstall("undoService")
    <3>1. /\ installer'.at = "undoService" /\ installer' \in InstallerState
          /\ installer'.left = installer.left /\ installer'.through = "service"
          /\ installer'.strayed = installer.strayed /\ installer'.clean = installer.clean
      BY <2>1, InstallerMoves
    <3> QED  BY <2>0, <3>1
  <2>2. CASE Proceed("restart")
    <3>1. /\ installer'.at = "restart" /\ installer' \in InstallerState
          /\ installer'.left = installer.left /\ installer'.through = installer.through
          /\ installer'.strayed = installer.strayed /\ installer'.clean = installer.clean
      BY <2>2, InstallerMoves
    <3> QED  BY <2>0, <3>1
  <2> QED  BY <1>4, <2>1, <2>2 DEF ReloadUnit
<1> QED  BY <1>1, <1>2, <1>3, <1>4

\* One file after the other is of the new release, but a config stays.
LEMMA CopyKeeps ==
    ASSUME UpgradeIInv, CopyNext
    PROVE  UpgradeIInv'
<1> DEFINE left == installer.left
           f == Head(left)
<1> USE DEF UpgradeIInv, UpgradeTypeOK, FoundRelease, PhaseIsKnown, FilesInOrder, OldUntouched,
            NewInPlace, ArchiveIsOld, Restored, WorkIsKept, FilesPhase, Upgrading, Early, Replaced,
            Undoing, InstallPoint
<1>0. /\ UNCHANGED <<service, db, data, saved, previous, archive, accepted, before>>
      /\ installer.at = "copy" /\ left \in Seq(Targets)
  BY DEF CopyNext, InstallerState
<1>1. CASE left = << >> /\ UNCHANGED disk /\ Proceed("reload")
  <2>1. /\ installer'.at = "reload" /\ installer' \in InstallerState
        /\ installer'.left = installer.left /\ installer'.through = installer.through
        /\ installer'.strayed = installer.strayed /\ installer'.clean = installer.clean
    BY <1>1, InstallerMoves
  <2>2. \A g \in Targets \ {"config"} : disk[g] = "new"
    BY <1>0, <1>1
  <2> QED  BY <1>0, <1>1, <2>1, <2>2
<1>2. CASE AbandonInstall("undoFiles") /\ UNCHANGED disk
  <2>1. /\ installer'.at = "undoFiles" /\ installer' \in InstallerState
        /\ installer'.left = installer.left /\ installer'.through = "files"
        /\ installer'.strayed = installer.strayed /\ installer'.clean = installer.clean
    BY <1>2, InstallerMoves
  <2> QED  BY <1>0, <1>2, <2>1
<1>3. CASE /\ left # << >> /\ installer' = [installer EXCEPT !.left = Tail(left)]
           /\ disk' = [disk EXCEPT ![f] = IF f = "config" /\ disk[f] # "none" THEN disk[f] ELSE "new"]
  <2>1. /\ Len(left) \in Nat \ {0} /\ f = left[1] /\ f \in Targets
        /\ Tail(left) \in Seq(Targets) /\ Len(Tail(left)) = Len(left) - 1
        /\ \A i \in 1..Len(Tail(left)) : Tail(left)[i] = left[i + 1]
    BY <1>0, <1>3, HeadTailProperties
  <2>2. /\ installer'.at = "copy" /\ installer' \in InstallerState
        /\ installer'.left = Tail(left) /\ installer'.through = installer.through
        /\ installer'.strayed = installer.strayed /\ installer'.clean = installer.clean
    BY <1>0, <1>3, <2>1 DEF InstallerState
  <2>3. disk' \in [Targets -> Release]
    BY <1>3, <2>1 DEF Release
  <2>4. \A g \in Targets \ {"config"} :
            disk'[g] = "new" \/ \E i \in 1..Len(Tail(left)) : Tail(left)[i] = g
    <3> SUFFICES ASSUME NEW g \in Targets \ {"config"}, disk'[g] # "new"
                 PROVE  \E i \in 1..Len(Tail(left)) : Tail(left)[i] = g
      OBVIOUS
    <3>1. g # f /\ disk[g] # "new"
      BY <1>3, <2>1
    <3>2. PICK i \in 1..Len(left) : left[i] = g
      BY <1>0, <3>1
    <3> HIDE DEF left, f
    <3>3. i # 1 /\ i - 1 \in 1..Len(Tail(left)) /\ (i - 1) + 1 = i
      BY <2>1, <3>1, <3>2
    <3>4. Tail(left)[i - 1] = left[(i - 1) + 1]
      BY <2>1, <3>3
    <3>5. Tail(left)[i - 1] = g
      BY <3>2, <3>3, <3>4
    <3> QED  BY <3>3, <3>5
  <2> HIDE DEF left, f
  <2> QED  BY <1>0, <2>2, <2>3, <2>4
<1> QED  BY <1>1, <1>2, <1>3 DEF CopyNext

\* The new release is started, its plugins are activated, its health required.
LEMMA ActivateKeeps ==
    ASSUME UpgradeIInv, RestartService \/ BootstrapPlugin \/ RequireHealth
    PROVE  UpgradeIInv'
<1> USE DEF UpgradeIInv, UpgradeTypeOK, FoundRelease, PhaseIsKnown, FilesInOrder, OldUntouched,
            NewInPlace, ArchiveIsOld, Restored, WorkIsKept, FilesPhase, Upgrading, Early, Replaced,
            Undoing, InstallPoint
<1>0. /\ UNCHANGED <<disk, data, previous, archive, accepted, before>>
      /\ installer.at \in {"restart", "bootstrap", "health"}
      /\ \A f \in Targets \ {"config"} : disk[f] = "new"
  BY DEF RestartService, BootstrapPlugin, RequireHealth
<1>1. /\ "binary" \in Targets \ {"config"} /\ "unit" \in Targets \ {"config"}
      /\ Bundled \subseteq Targets \ {"config"} /\ db \in DbState
  BY BundledAssumption DEF Targets
<1>2. disk["binary"] = "new" /\ disk["unit"] = "new" /\ \A p \in Bundled : disk[p] = "new"
  BY <1>0, <1>1
<1>3. ASSUME AbandonInstall("undoService"), UNCHANGED <<db, saved>>, service' \in Release
      PROVE  UpgradeIInv'
  <2>1. /\ installer'.at = "undoService" /\ installer' \in InstallerState
        /\ installer'.left = installer.left /\ installer'.through = "service"
        /\ installer'.strayed = installer.strayed /\ installer'.clean = installer.clean
    BY <1>3, InstallerMoves
  <2> QED  BY <1>0, <1>3, <2>1
<1>4. CASE RestartService
  <2>1. ASSUME Proceed("bootstrap"), UNCHANGED saved, db' \in DbState, service' \in {"new", "none"},
               db'.active = db.active, db'.work = db.work
        PROVE  UpgradeIInv'
    <3>1. /\ installer'.at = "bootstrap" /\ installer' \in InstallerState
          /\ installer'.left = installer.left /\ installer'.through = installer.through
          /\ installer'.strayed = installer.strayed /\ installer'.clean = installer.clean
      BY <2>1, InstallerMoves
    <3> QED  BY <1>0, <1>4, <2>1, <3>1 DEF RestartService, Release
  <2>2. CASE StartService /\ Proceed("bootstrap")
    <3>1. db' \in DbState /\ service' = "new" /\ db'.active = db.active /\ db'.work = db.work
      BY <1>2, <2>2, StartEffect
    <3> QED  BY <1>4, <2>1, <2>2, <3>1 DEF RestartService
  <2>3. CASE Proceed("bootstrap") /\ service' = "none" /\ db' = Migrated(disk["binary"], db)
    <3>1. db' = [db EXCEPT !.schema = "new"]
      BY <1>2, <2>3 DEF Migrated, Opens
    <3>2. db' \in DbState /\ db'.active = db.active /\ db'.work = db.work
      BY <1>1, <3>1 DEF DbState, Release
    <3> QED  BY <1>4, <2>1, <2>3, <3>2 DEF RestartService
  <2> QED  BY <1>3, <1>4, <2>2, <2>3 DEF RestartService, Release
<1>5. CASE BootstrapPlugin
  <2>0. UNCHANGED <<service, saved>> /\ installer.at = "bootstrap"
    BY <1>5 DEF BootstrapPlugin
  <2>1. ASSUME NEW p \in Bundled, Proceed("bootstrap"), db' = [db EXCEPT !.active[p] = disk[p]]
        PROVE  UpgradeIInv'
    <3>1. /\ installer'.at = "bootstrap" /\ installer' \in InstallerState
          /\ installer'.left = installer.left /\ installer'.through = installer.through
          /\ installer'.strayed = installer.strayed /\ installer'.clean = installer.clean
      BY <2>1, InstallerMoves
    <3>2. [db.active EXCEPT ![p] = disk[p]] \in [Bundled -> Release] /\ db.work \in SUBSET Nat
      BY <1>1, <1>2 DEF DbState, Release
    <3>3. db' \in DbState /\ db'.work = db.work
      BY <1>1, <2>1, <3>2 DEF DbState
    <3> QED  BY <1>0, <2>0, <3>1, <3>3
  <2>2. CASE (\A p \in Bundled : db.active[p] = disk[p]) /\ Proceed("health") /\ UNCHANGED db
    <3>1. /\ installer'.at = "health" /\ installer' \in InstallerState
          /\ installer'.left = installer.left /\ installer'.through = installer.through
          /\ installer'.strayed = installer.strayed /\ installer'.clean = installer.clean
      BY <2>2, InstallerMoves
    <3> QED  BY <1>0, <1>2, <2>0, <2>2, <3>1
  <2> QED  BY <1>3, <1>5, <2>0, <2>1, <2>2 DEF BootstrapPlugin
<1>6. CASE RequireHealth
  <2>0. UNCHANGED <<service, db>> /\ installer.at = "health"
    BY <1>6 DEF RequireHealth
  <2>1. CASE saved' = NoFiles /\ Proceed("done")
    <3>1. /\ installer'.at = "done" /\ installer' \in InstallerState
          /\ installer'.left = installer.left /\ installer'.through = installer.through
          /\ installer'.strayed = installer.strayed /\ installer'.clean = installer.clean
      BY <2>1, InstallerMoves
    <3>2. NoFiles \in [Targets -> Release]
      BY DEF NoFiles, Release
    <3> QED  BY <1>0, <2>0, <2>1, <3>1, <3>2
  <2> QED  BY <1>3, <1>6, <2>0, <2>1 DEF RequireHealth
<1> QED  BY <1>4, <1>5, <1>6

\* The files are written back, all of them or all but one.
LEMMA UndoFilesKeeps ==
    ASSUME UpgradeIInv, UndoFiles
    PROVE  UpgradeIInv'
<1> USE DEF UpgradeIInv, UpgradeTypeOK, FoundRelease, PhaseIsKnown, FilesInOrder, OldUntouched,
            NewInPlace, ArchiveIsOld, Restored, WorkIsKept, FilesPhase, Upgrading, Early, Replaced,
            Undoing, InstallPoint
<1> DEFINE label == IF installer.at = "undoFiles" THEN "ended" ELSE "stop"
<1>0. /\ UNCHANGED <<service, db, data, previous, archive, accepted, before>>
      /\ installer.at \in {"undoFiles", "undoService"} /\ saved' = NoFiles /\ saved = before.disk
  BY DEF UndoFiles
<1>1. NoFiles \in [Targets -> Release]
  BY DEF NoFiles, Release
<1>2. CASE disk' = saved /\ Proceed(label)
  <2>1. /\ installer'.at = label /\ installer' \in InstallerState
        /\ installer'.left = installer.left /\ installer'.through = installer.through
        /\ installer'.strayed = installer.strayed /\ installer'.clean = installer.clean
    BY <1>2, InstallerMoves
  <2> QED  BY <1>0, <1>1, <1>2, <2>1
<1>3. CASE /\ \E f \in Targets : disk' = [saved EXCEPT ![f] = disk[f]]
           /\ installer' = [installer EXCEPT !.clean = FALSE, !.at = label]
  <2>1. /\ installer'.at = label /\ installer' \in InstallerState
        /\ installer'.left = installer.left /\ installer'.through = installer.through
        /\ installer'.strayed = installer.strayed /\ ~ installer'.clean
    BY <1>3 DEF InstallerState
  <2>2. disk' \in [Targets -> Release]
    BY <1>3
  <2> QED  BY <1>0, <1>1, <2>1, <2>2
<1> QED  BY <1>2, <1>3 DEF UndoFiles

\* The service is stopped, the databases are those of the archive, and the
\* operator's trees are carried over.
LEMMA UndoStateKeeps ==
    ASSUME UpgradeIInv, StopService \/ SwapState \/ CarryTrees
    PROVE  UpgradeIInv'
<1> USE DEF UpgradeIInv, UpgradeTypeOK, FoundRelease, PhaseIsKnown, FilesInOrder, OldUntouched,
            NewInPlace, ArchiveIsOld, Restored, WorkIsKept, FilesPhase, Upgrading, Early, Replaced,
            Undoing, InstallPoint
<1>0. /\ UNCHANGED <<disk, saved, previous, archive, accepted, before>>
      /\ installer.at \in {"stop", "swap", "carry"}
  BY DEF StopService, SwapState, CarryTrees
<1>1. ASSUME Unclean("start"), UNCHANGED <<service, db>>, data' # Aside,
             data' \in [Trees -> {"state", "failed", "aside"}]
      PROVE  UpgradeIInv'
  <2>1. /\ installer'.at = "start" /\ installer' \in InstallerState
        /\ installer'.left = installer.left /\ installer'.through = installer.through
        /\ installer'.strayed = installer.strayed /\ ~ installer'.clean
    BY <1>1, InstallerMoves
  <2> QED  BY <1>0, <1>1, <2>1
<1>2. CASE StopService
  <2>1. ASSUME NEW label \in {"swap", "start"}, Proceed(label), service' = "none",
               label = IF Upgrading THEN "swap" ELSE "start"
        PROVE  UpgradeIInv'
    <3>1. /\ installer'.at = label /\ installer' \in InstallerState
          /\ installer'.left = installer.left /\ installer'.through = installer.through
          /\ installer'.strayed = installer.strayed /\ installer'.clean = installer.clean
      BY <2>1, InstallerMoves
    <3> QED  BY <1>0, <1>2, <2>1, <3>1 DEF StopService, Release
  <2>2. data # Aside
    BY <1>2 DEF StopService
  <2> QED  BY <1>1, <1>2, <2>1, <2>2 DEF StopService
<1>3. CASE SwapState
  <2>1. CASE db' = archive /\ data' = [t \in Trees |-> "failed"] /\ Proceed("carry")
    <3>1. /\ installer'.at = "carry" /\ installer' \in InstallerState
          /\ installer'.left = installer.left /\ installer'.through = installer.through
          /\ installer'.strayed = installer.strayed /\ installer'.clean = installer.clean
      BY <2>1, InstallerMoves
    <3>2. data' \in [Trees -> {"state", "failed", "aside"}] /\ data' # Aside
      BY <2>1 DEF Trees, Aside
    <3> QED  BY <1>0, <1>3, <2>1, <3>1, <3>2 DEF SwapState
  <2>2. CASE Unclean("start") /\ db' = NoState /\ data' = Aside
    <3>1. /\ installer'.at = "start" /\ installer' \in InstallerState
          /\ installer'.left = installer.left /\ installer'.through = installer.through
          /\ installer'.strayed = installer.strayed /\ ~ installer'.clean
      BY <2>2, InstallerMoves
    <3>2. NoState \in DbState
      BY DEF NoState, DbState, Release
    <3>3. data' \in [Trees -> {"state", "failed", "aside"}]
      BY <2>2 DEF Aside
    <3>4. installer'.through = "service"
      BY <1>0, <3>1
    <3> QED  BY <1>0, <1>3, <2>2, <3>1, <3>2, <3>3, <3>4 DEF SwapState
  <2>3. data # Aside
    BY <1>3 DEF SwapState
  <2> QED  BY <1>1, <1>3, <2>1, <2>2, <2>3 DEF SwapState
<1>4. CASE CarryTrees
  <2>1. CASE data' = [t \in Trees |-> "state"] /\ Proceed("start")
    <3>1. /\ installer'.at = "start" /\ installer' \in InstallerState
          /\ installer'.left = installer.left /\ installer'.through = installer.through
          /\ installer'.strayed = installer.strayed /\ installer'.clean = installer.clean
      BY <2>1, InstallerMoves
    <3>2. data' \in [Trees -> {"state", "failed", "aside"}] /\ data' # Aside
      BY <2>1 DEF Trees, Aside
    <3> QED  BY <1>0, <1>4, <2>1, <3>1, <3>2 DEF CarryTrees
  <2>2. CASE /\ Unclean("start")
             /\ data' \in {[t \in Trees |-> IF t \in moved THEN "state" ELSE "failed"] :
                              moved \in {{}, {"workspaces"}, {"workspaces", "artifacts"}}}
    <3> DEFINE Carried(moved) == [t \in Trees |-> IF t \in moved THEN "state" ELSE "failed"]
    <3>1. \A moved : Carried(moved) \in [Trees -> {"state", "failed", "aside"}]
                      /\ Carried(moved)["backups"] \in {"state", "failed"}
      BY DEF Trees
    <3>2. /\ data' \in [Trees -> {"state", "failed", "aside"}]
          /\ data'["backups"] \in {"state", "failed"}
      <4>1. data' \in {Carried(moved) : moved \in {{}, {"workspaces"}, {"workspaces", "artifacts"}}}
        BY <2>2
      <4> HIDE DEF Carried
      <4> QED  BY <3>1, <4>1
    <3>3. data' # Aside
      BY <3>2 DEF Aside, Trees
    <3> QED  BY <1>1, <1>4, <2>2, <3>2, <3>3 DEF CarryTrees
  <2> QED  BY <1>4, <2>1, <2>2 DEF CarryTrees
<1> QED  BY <1>2, <1>3, <1>4

\* The previous release runs again, with the activations it had.
LEMMA UndoServiceKeeps ==
    ASSUME UpgradeIInv, StartPrevious \/ RestoreActivations
    PROVE  UpgradeIInv'
<1> USE DEF UpgradeIInv, UpgradeTypeOK, FoundRelease, PhaseIsKnown, FilesInOrder, OldUntouched,
            NewInPlace, ArchiveIsOld, Restored, WorkIsKept, FilesPhase, Upgrading, Early, Replaced,
            Undoing, InstallPoint
<1>0. /\ UNCHANGED <<disk, data, saved, previous, archive, accepted, before>>
      /\ installer.at \in {"start", "activations"} /\ db \in DbState
      /\ "binary" \in Targets /\ "unit" \in Targets
  BY DEF StartPrevious, RestoreActivations, Targets
<1>1. CASE StartPrevious
  <2>1. /\ service' \in Release /\ db' \in DbState
        /\ db'.active = db.active /\ db'.work = db.work
        /\ service' # "none" => service' = disk["binary"] /\ db'.schema = service'
        /\ disk["unit"] = "none" => service' = "none"
    BY <1>1, StartEffect DEF StartPrevious
  <2>2. CASE service' = "none" /\ Unclean("activations")
    <3>1. /\ installer'.at = "activations" /\ installer' \in InstallerState
          /\ installer'.left = installer.left /\ installer'.through = installer.through
          /\ installer'.strayed = installer.strayed /\ ~ installer'.clean
      BY <2>2, InstallerMoves
    <3> QED  BY <1>0, <1>1, <2>1, <3>1 DEF StartPrevious
  <2>3. CASE service' # "none" /\ Proceed("activations")
    <3>1. /\ installer'.at = "activations" /\ installer' \in InstallerState
          /\ installer'.left = installer.left /\ installer'.through = installer.through
          /\ installer'.strayed = installer.strayed /\ installer'.clean = installer.clean
      BY <2>3, InstallerMoves
    <3>2. installer.clean => Upgrading /\ service' = "old" /\ db'.schema = "old"
      <4>1. installer.clean => disk = before.disk
        BY <1>1 DEF StartPrevious
      <4>2. disk = NoFiles => disk["unit"] = "none"
        BY <1>0 DEF NoFiles
      <4>3. disk = [f \in Targets |-> "old"] => disk["binary"] = "old"
        BY <1>0
      <4> QED  BY <1>0, <2>1, <2>3, <4>1, <4>2, <4>3
    <3> QED  BY <1>0, <1>1, <2>1, <3>1, <3>2 DEF StartPrevious
  <2> QED  BY <1>1, <2>2, <2>3 DEF StartPrevious
<1>2. CASE RestoreActivations
  <2>0. UNCHANGED service /\ installer.at = "activations"
    BY <1>2 DEF RestoreActivations
  <2>1. CASE Unclean("ended") /\ UNCHANGED db
    <3>1. /\ installer'.at = "ended" /\ installer' \in InstallerState
          /\ installer'.left = installer.left /\ installer'.through = installer.through
          /\ installer'.strayed = installer.strayed /\ ~ installer'.clean
      BY <2>1, InstallerMoves
    <3> QED  BY <1>0, <2>0, <2>1, <3>1
  <2>2. ASSUME Proceed("ended"), db' \in DbState, db'.schema = db.schema, db'.work = db.work,
               db'.active = IF Upgrading THEN previous ELSE db.active
        PROVE  UpgradeIInv'
    <3>1. /\ installer'.at = "ended" /\ installer' \in InstallerState
          /\ installer'.left = installer.left /\ installer'.through = installer.through
          /\ installer'.strayed = installer.strayed /\ installer'.clean = installer.clean
      BY <2>2, InstallerMoves
    <3> QED  BY <1>0, <2>0, <2>2, <3>1
  <2>3. /\ [db EXCEPT !.active = previous] \in DbState
        /\ [db EXCEPT !.active = previous].schema = db.schema
        /\ [db EXCEPT !.active = previous].work = db.work
        /\ [db EXCEPT !.active = previous].active = previous
    BY <1>0 DEF DbState
  <2> HIDE DEF UpgradeIInv
  <2> QED  BY <1>0, <1>2, <2>1, <2>2, <2>3 DEF RestoreActivations
<1> QED  BY <1>1, <1>2

\* A daemon that crashes is started again on what is on disk, and nowhere does
\* that matter but where it strays from the release that ran.
LEMMA CrashKeeps ==
    ASSUME UpgradeIInv, DaemonCrash
    PROVE  UpgradeIInv'
<1>0. /\ UNCHANGED <<disk, data, saved, previous, archive, accepted, before>>
      /\ service # "none" /\ "binary" \in Targets \ {"config"} /\ "unit" \in Targets \ {"config"}
  BY DEF DaemonCrash, Targets
<1>1. /\ installer'.at = installer.at /\ installer' \in InstallerState
      /\ installer'.left = installer.left /\ installer'.through = installer.through
      /\ installer'.strayed = (installer.strayed \/ service' \notin {service, "none"})
      /\ installer'.clean = installer.clean
  BY DEF DaemonCrash, InstallerState, UpgradeIInv, UpgradeTypeOK
<1>2. /\ service' \in Release /\ db' \in DbState
      /\ db'.active = db.active /\ db'.work = db.work
      /\ service' # "none" => service' = disk["binary"] /\ db'.schema = service'
      /\ disk["binary"] = "old" /\ db.schema = "old" => db'.schema = "old"
      /\ disk["unit"] = "none" => service' = "none"
  BY StartEffect DEF DaemonCrash, Release, UpgradeIInv, UpgradeTypeOK
<1>3. /\ disk = NoFiles => disk["unit"] = "none"
      /\ disk = [f \in Targets |-> "old"] => disk["binary"] = "old"
  BY <1>0 DEF NoFiles
<1>4. OldUntouched'
  <2> SUFFICES ASSUME FilesPhase'
               PROVE  /\ (db.active = before.active)'
                      /\ (installer.at \in Early => ~ installer.strayed)'
                      /\ (~ installer.strayed /\ service # "none" => service = "old" /\ db.schema = "old")'
    BY DEF OldUntouched
  <2>1. FilesPhase
    BY <1>1 DEF FilesPhase
  <2>2. /\ db.active = before.active
        /\ installer.at \in Early => ~ installer.strayed /\ disk = before.disk
        /\ ~ installer.strayed => service = "old" /\ db.schema = "old"
    BY <1>0, <2>1 DEF UpgradeIInv, OldUntouched, FilesInOrder
  <2>3. installer.at \in Early => service' \in {service, "none"}
    BY <1>2, <1>3, <2>2 DEF UpgradeIInv, FoundRelease
  <2> QED  BY <1>0, <1>1, <1>2, <2>2, <2>3
<1>5. NewInPlace'
  BY <1>0, <1>1, <1>2 DEF UpgradeIInv, NewInPlace, FilesInOrder, Replaced
<1>6. Restored'
  <2> SUFFICES ASSUME installer.clean
               PROVE  Restored'
    BY <1>1 DEF Restored
  <2>1. installer.at \in {"carry", "start", "activations", "ended"} /\ Upgrading => disk["binary"] = "old"
    <3>1. installer.at \in {"carry", "start", "activations", "ended"} => disk = before.disk
      BY DEF UpgradeIInv, FilesInOrder, Undoing
    <3>2. NoFiles["binary"] = "none"
      BY <1>0 DEF NoFiles
    <3> QED  BY <1>3, <3>1, <3>2 DEF UpgradeIInv, FoundRelease, Upgrading
  <2> QED  BY <1>0, <1>1, <1>2, <2>1 DEF UpgradeIInv, Restored, Upgrading
<1>7. UpgradeTypeOK' /\ FoundRelease' /\ PhaseIsKnown' /\ FilesInOrder' /\ ArchiveIsOld' /\ WorkIsKept'
  BY <1>0, <1>1, <1>2 DEF UpgradeIInv, UpgradeTypeOK, FoundRelease, PhaseIsKnown, FilesInOrder,
     ArchiveIsOld, WorkIsKept, Upgrading
<1> QED  BY <1>4, <1>5, <1>6, <1>7 DEF UpgradeIInv

\* An accepted Run is in the databases as they are, and only there.
LEMMA WorkKeeps ==
    ASSUME UpgradeIInv, Work
    PROVE  UpgradeIInv'
<1> DEFINE w == Cardinality(accepted) + 1
<1>0. /\ UNCHANGED <<disk, service, data, saved, previous, archive, installer, before>>
      /\ accepted' = accepted \cup {w} /\ db' = [db EXCEPT !.work = db.work \cup {w}]
  BY DEF Work
<1>1. w \in Nat /\ IsFiniteSet(accepted') /\ accepted' \in SUBSET Nat
  <2>1. Cardinality(accepted) \in Nat /\ IsFiniteSet(accepted \cup {w})
    BY FS_CardinalityType, FS_AddElement DEF UpgradeIInv, UpgradeTypeOK
  <2> QED  BY <1>0, <2>1 DEF UpgradeIInv, UpgradeTypeOK
<1> HIDE DEF w
<1>2. /\ db' \in DbState /\ db'.schema = db.schema /\ db'.active = db.active
      /\ db'.work = db.work \cup {w}
  BY <1>0, <1>1 DEF UpgradeIInv, UpgradeTypeOK, DbState
<1> USE DEF UpgradeIInv, UpgradeTypeOK, FoundRelease, PhaseIsKnown, FilesInOrder, OldUntouched,
            NewInPlace, ArchiveIsOld, Restored, WorkIsKept, FilesPhase, Upgrading, Early, Replaced,
            Undoing, InstallPoint
<1> QED  BY <1>0, <1>1, <1>2

\* The order of the copies names every file, and no other.
LEMMA CopyOrderCovers ==
    /\ CopyOrder \in Seq(Targets)
    /\ \A f \in Targets : \E i \in 1..Len(CopyOrder) : CopyOrder[i] = f
<1> DEFINE n == Cardinality(Bundled)
           s == SetToSeq(Bundled)
<1>1. n \in Nat /\ ExistsBijection(1..n, Bundled)
  BY BundledAssumption, FS_CardinalityType
<1>2. s \in [1..n -> Bundled] /\ IsInjective(s)
  <2>1. \E g \in [1..n -> Bundled] : IsInjective(g)
    BY <1>1 DEF ExistsBijection, Bijection, Injection
  <2> QED  BY <2>1 DEF SetToSeq
<1> HIDE DEF s
<1>3. \A f \in Bundled : \E i \in 1..n : s[i] = f
  <2>1. s \in Injection(1..n, Bundled)
    BY <1>2 DEF Injection
  <2>2. Cardinality(1..n) = n
    BY <1>1, FS_Interval
  <2>3. s \in Surjection(1..n, Bundled)
    BY <2>1, <2>2, BundledAssumption, FS_Injection
  <2> QED  BY <2>3 DEF Surjection
<1>4. s \in Seq(Targets) /\ Len(s) = n
  BY <1>1, <1>2 DEF Targets
<1> HIDE DEF n
<1>5. << "binary" >> \in Seq(Targets) /\ << "config", "unit" >> \in Seq(Targets)
  BY DEF Targets
<1> DEFINE front == << "binary" >> \o s
<1>6. /\ front \in Seq(Targets) /\ Len(front) = n + 1 /\ front[1] = "binary"
      /\ \A i \in 1..n : front[i + 1] = s[i]
  <2>1. /\ front \in Seq(Targets) /\ Len(front) = 1 + n
        /\ \A i \in 1..(1 + n) : front[i] = IF i <= 1 THEN << "binary" >>[i] ELSE s[i - 1]
    BY <1>4, <1>5, ConcatProperties
  <2> HIDE DEF front
  <2>2. front[1] = "binary"
    BY <1>1, <2>1
  <2>3. ASSUME NEW i \in 1..n
        PROVE  front[i + 1] = s[i]
    BY <1>1, <2>1
  <2> QED  BY <1>1, <2>1, <2>2, <2>3
<1>7. CopyOrder = front \o << "config", "unit" >>
  BY DEF CopyOrder, s
<1> HIDE DEF front
<1>8. /\ CopyOrder \in Seq(Targets) /\ Len(CopyOrder) = n + 3
      /\ \A i \in 1..(n + 1) : CopyOrder[i] = front[i]
      /\ CopyOrder[n + 2] = "config" /\ CopyOrder[n + 3] = "unit"
  <2>1. /\ CopyOrder \in Seq(Targets) /\ Len(CopyOrder) = (n + 1) + 2
        /\ \A i \in 1..((n + 1) + 2) :
              CopyOrder[i] = IF i <= n + 1 THEN front[i] ELSE << "config", "unit" >>[i - (n + 1)]
    BY <1>5, <1>6, <1>7, ConcatProperties
  <2>2. (n + 2) - (n + 1) = 1 /\ (n + 3) - (n + 1) = 2
    BY <1>1
  <2> QED  BY <1>1, <2>1, <2>2
<1>9. ASSUME NEW f \in Targets
      PROVE  \E i \in 1..Len(CopyOrder) : CopyOrder[i] = f
  <2>0. Len(CopyOrder) = n + 3
    BY <1>8
  <2>1. CASE f = "binary"
    <3>1. 1 \in 1..(n + 3) /\ 1 \in 1..(n + 1)
      BY <1>1
    <3> QED  BY <1>6, <1>8, <2>0, <2>1, <3>1
  <2>2. CASE f = "config"
    <3>1. n + 2 \in 1..(n + 3)
      BY <1>1
    <3> QED  BY <1>8, <2>0, <2>2, <3>1
  <2>3. CASE f = "unit"
    <3>1. n + 3 \in 1..(n + 3)
      BY <1>1
    <3> QED  BY <1>8, <2>0, <2>3, <3>1
  <2>4. CASE f \in Bundled
    <3>1. PICK i \in 1..n : s[i] = f
      BY <1>3, <2>4
    <3>2. i + 1 \in 1..(n + 1) /\ i + 1 \in 1..(n + 3)
      BY <1>1, <3>1
    <3> QED  BY <1>6, <1>8, <2>0, <3>1, <3>2
  <2> QED  BY <2>1, <2>2, <2>3, <2>4 DEF Targets
<1> QED  BY <1>8, <1>9

\* The installer finds nothing, or the old release.
LEMMA UpgradeStarts ==
    ASSUME UpgradeInit
    PROVE  UpgradeIInv
<1>1. /\ data = [t \in Trees |-> "state"] /\ accepted = {}
      /\ saved = NoFiles /\ previous = NoState.active /\ archive = NoState
      /\ before = [disk |-> disk, active |-> db.active]
      /\ installer = [at |-> "begin", left |-> CopyOrder, through |-> "files", strayed |-> FALSE,
                      clean |-> TRUE]
  BY DEF UpgradeInit
<1>2. /\ NoFiles \in [Targets -> Release] /\ NoState \in DbState /\ NoState.work = {}
      /\ NoState.active \in [Bundled -> Release]
  BY DEF NoFiles, NoState, DbState, Release
<1>3. /\ installer \in InstallerState /\ installer.at = "begin" /\ installer.left = CopyOrder
      /\ installer.through = "files" /\ ~ installer.strayed /\ installer.clean
  BY <1>1, CopyOrderCovers DEF InstallerState, InstallPoint, Early
<1>4. /\ disk \in {NoFiles, [f \in Targets |-> "old"]} /\ service \in {"old", "none"}
      /\ db \in DbState /\ db.work = {} /\ (service = "old" => db.schema = "old")
  <2>1. CASE disk = NoFiles /\ service = "none" /\ db = NoState
    BY <1>2, <2>1
  <2>2. CASE /\ disk = [f \in Targets |-> "old"] /\ service \in {"old", "none"}
             /\ \E some \in SUBSET Bundled :
                   db = [schema |-> "old", work |-> {},
                         active |-> [p \in Bundled |-> IF p \in some THEN "old" ELSE "none"]]
    BY <2>2 DEF DbState, Release
  <2> QED  BY <2>1, <2>2 DEF UpgradeInit
<1>5. disk \in [Targets -> Release] /\ db.active \in [Bundled -> Release]
  BY <1>2, <1>4 DEF DbState, Release
<1>6. /\ before.disk = disk /\ before.active = db.active
      /\ before \in [disk : [Targets -> Release], active : [Bundled -> Release]]
  BY <1>1, <1>5
<1>7. UpgradeTypeOK
  BY <1>1, <1>2, <1>3, <1>4, <1>5, <1>6, FS_EmptySet DEF UpgradeTypeOK, Release
<1>8. FilesInOrder
  BY <1>3, <1>6, CopyOrderCovers DEF FilesInOrder, Early, Replaced, Undoing, InstallPoint
<1>9. WorkIsKept
  <2>1. data # Aside
    BY <1>1 DEF Aside, Trees
  <2> QED  BY <1>1, <1>2, <1>4, <2>1 DEF WorkIsKept
<1>10. FoundRelease /\ PhaseIsKnown /\ OldUntouched /\ NewInPlace /\ ArchiveIsOld
  BY <1>3, <1>4, <1>6 DEF FoundRelease, PhaseIsKnown, OldUntouched, NewInPlace, ArchiveIsOld, FilesPhase,
     Early, Replaced, Undoing
<1>11. Restored
  BY <1>1, <1>3 DEF Restored
<1> QED  BY <1>7, <1>8, <1>9, <1>10, <1>11 DEF UpgradeIInv

(***************************************************************************)
(* Whatever step of an installation fails, and wherever a daemon crashes   *)
(* meanwhile: a rollback that met no error leaves the old release whole,   *)
(* an installation that succeeded the new one, and no Run accepted before  *)
(* the installer's backup is lost but with the state directory that a      *)
(* rollback could not put back.                                            *)
(***************************************************************************)
THEOREM UpgradeInvariant == UpgradeSpec => []UpgradeInv
<1>1. UpgradeInit => UpgradeIInv
  BY UpgradeStarts
<1>2. UpgradeIInv /\ [UpgradeNext]_upgradeVars => UpgradeIInv'
  <2> SUFFICES ASSUME UpgradeIInv, [UpgradeNext]_upgradeVars
               PROVE  UpgradeIInv'
    OBVIOUS
  <2>1. CASE UNCHANGED upgradeVars
    <3>1. UNCHANGED <<disk, service, db, data, saved, previous, archive, installer, accepted, before>>
      BY <2>1 DEF upgradeVars
    <3>2. UpgradeTypeOK' /\ FoundRelease' /\ PhaseIsKnown' /\ FilesInOrder'
      BY <3>1 DEF UpgradeIInv, UpgradeTypeOK, FoundRelease, PhaseIsKnown, FilesInOrder, Upgrading
    <3>3. OldUntouched' /\ NewInPlace' /\ ArchiveIsOld' /\ Restored'
      BY <3>1 DEF UpgradeIInv, OldUntouched, NewInPlace, ArchiveIsOld, Restored, FilesPhase, Upgrading
    <3>4. WorkIsKept'
      BY <3>1 DEF UpgradeIInv, WorkIsKept
    <3> QED  BY <3>2, <3>3, <3>4 DEF UpgradeIInv
  <2>2. CASE InstallStep
    BY <2>2, PrepareKeeps, CopyKeeps, ActivateKeeps, UndoFilesKeeps, UndoStateKeeps, UndoServiceKeeps
       DEF InstallStep
  <2> QED  BY <2>1, <2>2, CrashKeeps, WorkKeeps DEF UpgradeNext
<1>3. UpgradeIInv => UpgradeInv
  <2> SUFFICES ASSUME UpgradeIInv
               PROVE  UpgradeInv
    OBVIOUS
  <2>1. FailedInstallIsUndone
    BY DEF UpgradeIInv, UpgradeTypeOK, FailedInstallIsUndone, FilesInOrder, OldUntouched, Restored,
           FilesPhase, Early, Undoing, InstallerState
  <2>2. SuccessIsComplete
    BY DEF UpgradeIInv, SuccessIsComplete, FilesInOrder, NewInPlace, Replaced
  <2>3. AcceptedWorkSurvives
    BY DEF UpgradeIInv, AcceptedWorkSurvives, WorkIsKept, PhaseIsKnown, Replaced
  <2> QED  BY <2>1, <2>2, <2>3 DEF UpgradeInv
<1> QED  BY <1>1, <1>2, <1>3, PTL DEF UpgradeSpec

=============================================================================
