----------------------------- MODULE Approvals -----------------------------
(***************************************************************************)
(* Durable approvals: the approvals table, the Approve and Reject RPCs,    *)
(* their redelivery by Adapter.Reconcile, and the core.approval node of    *)
(* the interpreter with its timeout.                                       *)
(*                                                                         *)
(* A decision is written first and signalled to the workflow afterwards;   *)
(* the workflow waits for the signal or its timer and then asks the table  *)
(* which decision counts.  Each member of Approval is the approval node of *)
(* a Run of its own.                                                       *)
(***************************************************************************)
EXTENDS Naturals, Sequences

CONSTANTS Approval,       \* (run_uid, node_id) keys of the approvals table
          Client,         \* callers of the Approve, Reject and Reconcile RPCs
          NoApproval,
          Timed,          \* approvals whose timeout can run out
          MaxIterations,  \* loop.maxIterations of the node's component
          MaxCrashes,     \* bound: daemon restarts
          MaxFaults       \* bound: transient failures of SignalWorkflow

ASSUME ApprovalsAssumption ==
    /\ MaxIterations \in Nat \ {0} /\ MaxCrashes \in Nat /\ MaxFaults \in Nat
    /\ Timed \subseteq Approval
    /\ NoApproval \notin Approval
    /\ "loop" \notin Client

VARIABLES
    row,        \* approvals.state, "none" without a row
    delivered,  \* approvals with signal_delivered = 1
    order,      \* decided approvals by decided_at
    wf,         \* control point of the approval node inside the instance
    iteration,  \* NodeRequest.Iteration
    channel,    \* signals in the instance's history not yet received
    got,        \* the signal handed to EndApproval
    outcome,    \* the state EndApproval returned, "none" before
    acked,      \* history: decisions acknowledged to an operator
    pc, cur, queue, \* per process: control point, approval at hand, list
    crashes, faults

tableVars    == <<row, delivered, order>>
instanceVars == <<wf, iteration, channel, got, outcome>>
procVars     == <<pc, cur, queue>>
boundVars    == <<crashes, faults>>
vars         == <<tableVars, instanceVars, acked, procVars, boundVars>>

-----------------------------------------------------------------------------
Proc     == Client \union {"loop"}
Decision == {"approved", "rejected"}
WfPoint  == {"begin", "waiting", "end", "settle", "ended", "after", "finished"}

TypeOK ==
    /\ row \in [Approval -> {"none", "pending"} \union Decision]
    /\ delivered \subseteq Approval
    /\ order \in Seq(Approval)
    /\ wf \in [Approval -> WfPoint]
    /\ iteration \in [Approval -> 0..MaxIterations - 1]
    /\ channel \in [Approval -> Seq(Decision)]
    /\ got \in [Approval -> {"none"} \union Decision]
    /\ outcome \in [Approval -> {"none"} \union Decision]
    /\ acked \in [Approval -> SUBSET Decision]
    /\ pc \in [Proc -> {"idle", "send", "ack", "signal", "mark", "cancellations"}]
    /\ cur \in [Proc -> Approval \union {NoApproval}]
    /\ queue \in [Proc -> Seq(Approval)]
    /\ crashes \in 0..MaxCrashes
    /\ faults \in 0..MaxFaults

Init ==
    /\ row = [a \in Approval |-> "none"]
    /\ delivered = {}
    /\ order = <<>>
    /\ wf = [a \in Approval |-> "begin"]
    /\ iteration = [a \in Approval |-> 0]
    /\ channel = [a \in Approval |-> <<>>]
    /\ got = [a \in Approval |-> "none"]
    /\ outcome = [a \in Approval |-> "none"]
    /\ acked = [a \in Approval |-> {}]
    /\ pc = [p \in Proc |-> "idle"]
    /\ cur = [p \in Proc |-> NoApproval]
    /\ queue = [p \in Proc |-> <<>>]
    /\ crashes = 0
    /\ faults = 0

-----------------------------------------------------------------------------
(* The table.                                                              *)

\* Mutant: the last writer wins.
Overwrite(a, d) ==
    /\ row[a] # "none"
    /\ row' = [row EXCEPT ![a] = d]
    /\ delivered' = delivered \ {a}
    /\ order' = Append(SelectSeq(order, LAMBDA b : b # a), a)

\* DecideApproval: the first decision, from an operator or from EndApproval.
DecideApproval(a, d) ==
    /\ d \in Decision
    /\ row[a] = "pending"
    /\ row' = [row EXCEPT ![a] = d]
    /\ delivered' = delivered \ {a}
    /\ order' = Append(order, a)

Undelivered(a) == row[a] \in Decision /\ a \notin delivered

-----------------------------------------------------------------------------
(* Delivery to the workflow.                                               *)

Goto(p, label) == pc' = [pc EXCEPT ![p] = label]

\* SignalWorkflow reaches an instance that has not finished.
Reachable(a) == wf[a] # "finished"
SignalWorkflow(a) == channel' = [channel EXCEPT ![a] = Append(@, row[a])]

\* The Approve and Reject RPCs: the decision is durable before delivery.
Decide(c, a, d) ==
    /\ pc[c] = "idle"
    /\ DecideApproval(a, d)
    /\ acked' = [acked EXCEPT ![a] = @ \union {d}]
    /\ cur' = [cur EXCEPT ![c] = a]
    /\ Goto(c, "send")
    /\ UNCHANGED <<instanceVars, queue, boundVars>>

\* engine.Signal from the RPC.
SendDecision(c) ==
    /\ pc[c] = "send"
    /\ Reachable(cur[c])
    /\ SignalWorkflow(cur[c])
    /\ Goto(c, "ack")
    /\ UNCHANGED <<tableVars, wf, iteration, got, outcome, acked, cur, queue, boundVars>>

\* Signal fails: the RPC still succeeds and leaves redelivery to Reconcile.
SendDecisionFails(c) ==
    /\ pc[c] = "send"
    /\ \/ ~ Reachable(cur[c]) /\ UNCHANGED faults
       \/ faults < MaxFaults /\ faults' = faults + 1
    /\ Goto(c, "idle")
    /\ cur' = [cur EXCEPT ![c] = NoApproval]
    /\ UNCHANGED <<tableVars, instanceVars, acked, queue, crashes>>

\* MarkApprovalSignaled, a no-op on a row that is gone.
MarkApprovalSignaled(a) ==
    delivered' = IF row[a] \in Decision THEN delivered \union {a} ELSE delivered

AckDecision(c) ==
    /\ pc[c] = "ack"
    /\ MarkApprovalSignaled(cur[c])
    /\ Goto(c, "idle")
    /\ cur' = [cur EXCEPT ![c] = NoApproval]
    /\ UNCHANGED <<row, order, instanceVars, acked, queue, boundVars>>

\* Mutant: a decision is assumed to have been delivered by its RPC.
NothingToRedeliver == <<>>

\* UndeliveredApprovalSignals, the first half of Adapter.Reconcile.
UndeliveredApprovalSignals == SelectSeq(order, Undelivered)
ListSignals(p) ==
    /\ pc[p] = "idle"
    /\ queue' = [queue EXCEPT ![p] = UndeliveredApprovalSignals]
    /\ Goto(p, "signal")
    /\ UNCHANGED <<tableVars, instanceVars, acked, cur, boundVars>>

Redeliver(p) ==
    /\ pc[p] = "signal" /\ queue[p] # <<>>
    /\ Reachable(Head(queue[p]))
    /\ SignalWorkflow(Head(queue[p]))
    /\ Goto(p, "mark")
    /\ UNCHANGED <<tableVars, wf, iteration, got, outcome, acked, cur, queue, boundVars>>

\* The first error ends the whole reconciliation: later signals and every
\* cancellation wait for another call.
RedeliverFails(p) ==
    /\ pc[p] = "signal" /\ queue[p] # <<>>
    /\ \/ ~ Reachable(Head(queue[p])) /\ UNCHANGED faults
       \/ faults < MaxFaults /\ faults' = faults + 1
    /\ Goto(p, "idle")
    /\ queue' = [queue EXCEPT ![p] = <<>>]
    /\ UNCHANGED <<tableVars, instanceVars, acked, cur, crashes>>

MarkSignaled(p) ==
    /\ pc[p] = "mark"
    /\ MarkApprovalSignaled(Head(queue[p]))
    /\ queue' = [queue EXCEPT ![p] = Tail(@)]
    /\ Goto(p, "signal")
    /\ UNCHANGED <<row, order, instanceVars, acked, cur, boundVars>>

\* Only now come the undelivered cancellations (RunControl).
SignalsDone(p) ==
    /\ pc[p] = "signal" /\ queue[p] = <<>>
    /\ Goto(p, "cancellations")
    /\ UNCHANGED <<tableVars, instanceVars, acked, cur, queue, boundVars>>

CancellationsDone(p) ==
    /\ pc[p] = "cancellations"
    /\ Goto(p, "idle")
    /\ UNCHANGED <<tableVars, instanceVars, acked, cur, queue, boundVars>>

-----------------------------------------------------------------------------
(* The approval node inside the workflow.                                  *)

At(a, label)   == wf[a] = label
Move(a, label) == wf' = [wf EXCEPT ![a] = label]

\* EnsureApproval: INSERT OR IGNORE.  The iteration is not part of the key.
BeginApproval(a) ==
    /\ At(a, "begin")
    /\ row' = [row EXCEPT ![a] = IF @ = "none" THEN "pending" ELSE @]
    /\ Move(a, "waiting")
    /\ UNCHANGED <<delivered, order, iteration, channel, got, outcome, acked, procVars, boundVars>>

\* Select returns the oldest signal in the channel.
ReceiveSignal(a) ==
    /\ At(a, "waiting") /\ channel[a] # <<>>
    /\ got' = [got EXCEPT ![a] = Head(channel[a])]
    /\ channel' = [channel EXCEPT ![a] = Tail(@)]
    /\ Move(a, "end")
    /\ UNCHANGED <<tableVars, iteration, outcome, acked, procVars, boundVars>>

\* ... or the timer, which stands for a rejection.
TimerFires(a) ==
    /\ At(a, "waiting") /\ a \in Timed
    /\ got' = [got EXCEPT ![a] = "rejected"]
    /\ Move(a, "end")
    /\ UNCHANGED <<tableVars, iteration, channel, outcome, acked, procVars, boundVars>>

\* Mutant: the activity trusts the signal it was given.
TrustSignal(a) ==
    /\ At(a, "end")
    /\ outcome' = [outcome EXCEPT ![a] = got[a]]
    /\ Move(a, IF row[a] = "pending" THEN "settle" ELSE "ended")
    /\ UNCHANGED <<tableVars, iteration, channel, got, acked, procVars, boundVars>>

\* EndApproval reads the stored state: a decision there beats the signal.
ReadApproval(a) ==
    /\ At(a, "end")
    /\ \/ row[a] = "pending" /\ Move(a, "settle") /\ UNCHANGED outcome
       \/ /\ row[a] \in Decision
          /\ outcome' = [outcome EXCEPT ![a] = row[a]]
          /\ Move(a, "ended")
    /\ UNCHANGED <<tableVars, iteration, channel, got, acked, procVars, boundVars>>

\* Nobody had decided: DecideApproval as "system", which may lose to an
\* operator since the read; then the activity fails and is retried.
SettleApproval(a) ==
    /\ At(a, "settle")
    /\ \/ /\ DecideApproval(a, got[a])
          /\ outcome' = [outcome EXCEPT ![a] = got[a]]
          /\ Move(a, "ended")
       \/ /\ row[a] # "pending"
          /\ Move(a, "end")
          /\ UNCHANGED <<tableVars, outcome>>
    /\ UNCHANGED <<iteration, channel, got, acked, procVars, boundVars>>

\* The activity's result is in the history and is not computed again.
RecordOutcome(a) ==
    /\ At(a, "ended")
    /\ Move(a, "after")
    /\ UNCHANGED <<tableVars, iteration, channel, got, outcome, acked, procVars, boundVars>>

\* An approved node in a cycle may be reached again.
NextIteration(a) ==
    /\ At(a, "after")
    /\ outcome[a] = "approved" /\ iteration[a] + 1 < MaxIterations
    /\ iteration' = [iteration EXCEPT ![a] = @ + 1]
    /\ outcome' = [outcome EXCEPT ![a] = "none"]
    /\ Move(a, "begin")
    /\ UNCHANGED <<tableVars, channel, got, acked, procVars, boundVars>>

\* The rest of the plan runs and the interpreter returns.
EndInstance(a) ==
    /\ At(a, "after")
    /\ Move(a, "finished")
    /\ UNCHANGED <<tableVars, iteration, channel, got, outcome, acked, procVars, boundVars>>

\* The Run is cancelled, or fails elsewhere, and its instance ends; the table
\* is not touched.
CancelRun(a) ==
    /\ wf[a] # "finished"
    /\ Move(a, "finished")
    /\ UNCHANGED <<tableVars, iteration, channel, got, outcome, acked, procVars, boundVars>>

\* CollectRetainedRuns deletes the approvals of a collected Run.
CollectApproval(a) ==
    /\ wf[a] = "finished" /\ row[a] # "none"
    /\ row' = [row EXCEPT ![a] = "none"]
    /\ delivered' = delivered \ {a}
    /\ order' = SelectSeq(order, LAMBDA b : b # a)
    /\ UNCHANGED <<instanceVars, acked, procVars, boundVars>>

\* A restart: RPCs are gone, and an activity whose result was not recorded is
\* delivered again with the same input (as it is when a later step of
\* EndApproval fails: evaluate, AppendRunEvent).
Crash ==
    /\ crashes < MaxCrashes
    /\ crashes' = crashes + 1
    /\ pc' = [p \in Proc |-> "idle"]
    /\ cur' = [p \in Proc |-> NoApproval]
    /\ queue' = [p \in Proc |-> <<>>]
    /\ wf' = [a \in Approval |-> IF wf[a] \in {"settle", "ended"} THEN "end" ELSE wf[a]]
    /\ UNCHANGED <<tableVars, iteration, channel, got, outcome, acked, faults>>

-----------------------------------------------------------------------------
Rpc(c) == \/ \E a \in Approval, d \in Decision : Decide(c, a, d)
          \/ SendDecision(c) \/ SendDecisionFails(c) \/ AckDecision(c)

Reconcile(p) == \/ ListSignals(p) \/ Redeliver(p) \/ RedeliverFails(p)
                \/ MarkSignaled(p) \/ SignalsDone(p) \/ CancellationsDone(p)

Node(a) == \/ BeginApproval(a) \/ ReceiveSignal(a) \/ ReadApproval(a)
           \/ SettleApproval(a) \/ RecordOutcome(a) \/ EndInstance(a)

Next == \/ \E c \in Client : Rpc(c)
        \/ \E p \in Proc : Reconcile(p)
        \/ \E a \in Approval : Node(a) \/ TimerFires(a) \/ NextIteration(a)
                               \/ CancelRun(a) \/ CollectApproval(a)
        \/ Crash

Spec == Init /\ [][Next]_vars

(***************************************************************************)
(* Fairness: the loop ticks, an RPC in progress goes on, the engine's      *)
(* worker runs activities.  Operators, timers, cancellations and restarts  *)
(* get none: a decision has to arrive without their help.                  *)
(***************************************************************************)
FairSpec == /\ Spec
            /\ WF_vars(Reconcile("loop"))
            /\ \A c \in Client : WF_vars(SendDecision(c) \/ SendDecisionFails(c) \/ AckDecision(c))
            /\ \A a \in Approval : WF_vars(Node(a))

-----------------------------------------------------------------------------
(* What operators may rely on.                                             *)

\* A decision the Approve or Reject RPC acknowledged is the one the node
\* reports, whatever the timer, a second operator, a redelivery or a
\* re-executed EndApproval does in between.
AcknowledgedDecisionWins ==
    \A a \in Approval : \A d \in acked[a] :
        /\ acked[a] = {d}
        /\ outcome[a] \in {"none", d}

\* An EndApproval that is delivered again reports the outcome it reported
\* before; downstream edges may already depend on it.
OutcomeIsStable ==
    [][\A a \in Approval : outcome[a] # "none" /\ iteration'[a] = iteration[a]
                             => outcome'[a] = outcome[a]]_vars

\* The inductive invariant behind both: an open row has no acknowledged
\* decision and no outcome, a decided row agrees with every acknowledgement
\* and every outcome, and a row disappears only after its instance finished.
DecisionInv ==
    /\ row \in [Approval -> {"none", "pending"} \union Decision]
    /\ wf \in [Approval -> WfPoint]
    /\ iteration \in [Approval -> Nat]
    /\ outcome \in [Approval -> {"none"} \union Decision]
    /\ acked \in [Approval -> SUBSET Decision]
    /\ \A a \in Approval :
          /\ row[a] = "none" => \/ wf[a] = "begin" /\ acked[a] = {} /\ outcome[a] = "none"
                                \/ wf[a] = "finished"
          /\ row[a] = "pending" => acked[a] = {} /\ outcome[a] = "none"
          /\ row[a] \in Decision => /\ acked[a] \subseteq {row[a]}
                                    /\ outcome[a] \in {"none", row[a]}
          /\ wf[a] = "begin" => outcome[a] = "none"
          /\ wf[a] \in {"ended", "after"} => outcome[a] = row[a]
          /\ \A d \in acked[a] : acked[a] = {d} /\ outcome[a] \in {"none", d}

\* "Decision remains durable and engine reconciliation redelivers it": a node
\* that waits for the first time although its decision is stored does not wait
\* for its timer.  (The row never tells later iterations apart.)
DecisionIsDelivered ==
    \A a \in Approval :
        wf[a] = "waiting" /\ iteration[a] = 0 /\ row[a] \in Decision ~> wf[a] # "waiting"
=============================================================================
