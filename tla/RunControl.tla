----------------------------- MODULE RunControl -----------------------------
(***************************************************************************)
(* The durable control path of a Run, from the transaction that accepts an *)
(* occurrence to the one that collects the Run's evidence:                 *)
(*                                                                         *)
(*   store        trigger_receipts, occurrence_tombstones, outbox,         *)
(*                compiled_plans, runs, run_cancellations                  *)
(*   orchestrator the single dispatch loop (ReconcileOne, then Reconcile)  *)
(*   engine       Adapter.Start / Cancel / Reconcile / RemoveFinishedRun,  *)
(*                serialized by the lifecycle mutex                        *)
(*   server       the Cancel and Reconcile RPCs                            *)
(*   retention    the collection RPC                                       *)
(*                                                                         *)
(* Every store call is one transaction on the only connection, hence one   *)
(* step; between two store calls any other process may move, and the       *)
(* daemon may die.  The durable workflow engine (go-workflows) is outside  *)
(* this repository: inst[r] is all that its adapter observes of it.        *)
(***************************************************************************)
EXTENDS Naturals, FiniteSets

CONSTANTS Occ,            \* occurrence identities (trigger uid, occurrence id)
          Run,            \* Run uids; each is minted at most once (uuid)
          Plan,           \* plan hashes, a digest of the plan's content
          Client,         \* callers of the Cancel, Reconcile and Collect RPCs
          NoRun,          \* no row, or no Run at hand
          NoPlan,         \* a signal-run command pins no plan of its own
          MaxActiveRuns,  \* Config.MaxActiveRuns, the admission bound
          ListLimit,      \* instances one findInstance listing can see (1000)
          MaxCommands,    \* bound: outbox rows ever inserted
          MaxCrashes,     \* bound: daemon restarts
          MaxFaults       \* bound: redeliveries of approvals and provider
                          \* cancellations that fail

ASSUME BoundsAssumption ==
    /\ MaxActiveRuns \in Nat \ {0}
    /\ ListLimit \in Nat \ {0}
    /\ MaxCommands \in Nat /\ MaxCrashes \in Nat /\ MaxFaults \in Nat

ASSUME NamesAssumption ==
    /\ NoRun \notin Run
    /\ NoPlan \notin Plan
    /\ "loop" \notin Client /\ "free" \notin Client

VARIABLES
    receipt,    \* trigger_receipts: occurrence |-> Run, or NoRun
    tombstone,  \* occurrence_tombstones, likewise
    minted,     \* Run uids handed out by acceptance so far
    cmd,        \* outbox: row id |-> [kind, run, plan]
    outbox,     \* outbox: row id |-> state
    due,        \* row ids whose available_at / claimed_at lets them be claimed
    lastId,     \* AUTOINCREMENT
    plans,      \* compiled_plans
    phase,      \* runs.phase, "absent" without a row
    runPlan,    \* runs.plan_hash
    intent,     \* run_cancellations: none, pending, delivered
    inst,       \* the workflow instance of a Run (external)
    launched,   \* history: Runs for which an instance was ever created
    lock,       \* Adapter.lifecycle: the process holding it, or "free"
    pc, cur, todo, \* per process: control point, Run at hand, Runs to visit
    batch,      \* per process: the Runs a retention plan selected
    claimed,    \* the row the loop dispatches, 0 when none
    crashes, faults

storeVars  == <<receipt, tombstone, minted, cmd, outbox, due, lastId, plans, phase, runPlan, intent>>
engineVars == <<inst, launched, lock>>
procVars   == <<pc, cur, todo, batch, claimed>>
boundVars  == <<crashes, faults>>
vars       == <<storeVars, engineVars, procVars, boundVars>>

-----------------------------------------------------------------------------
Proc     == Client \union {"loop"}
Id       == 1..MaxCommands
Terminal == {"succeeded", "failed", "rejected", "cancelled"}
Active   == {"pending", "running", "waiting"}
Phase    == {"absent"} \union Active \union Terminal
Command  == [kind : {"none", "start-run", "signal-run"},
             run  : Run \union {NoRun},
             plan : Plan \union {NoPlan}]
NoCommand == [kind |-> "none", run |-> NoRun, plan |-> NoPlan]

\* Control points.  The first group belongs to the loop, the second to the
\* delivery of cancellations (loop and RPCs), the third to a collection.
LoopPoint     == {"claim", "getplan", "admit", "ensure", "suppress", "start",
                  "create", "created", "complete", "signal", "list"}
DeliveryPoint == {"cancel", "mark", "markif"}
CollectPoint  == {"remove", "poll"}

\* Where a process waits when it has nothing in hand.
Home(p) == IF p = "loop" THEN "claim" ELSE "idle"

\* An outbox row that is not in state 'completed'.
Incomplete(i) == outbox[i] \in {"pending", "inflight"}
IncompleteFor(r)      == \E i \in Id : Incomplete(i) /\ cmd[i].run = r
IncompleteStartFor(r) == \E i \in Id : /\ Incomplete(i)
                                       /\ cmd[i].kind = "start-run"
                                       /\ cmd[i].run = r

Instances   == {r \in Run : inst[r] # "none"}
ActiveRuns  == {r \in Run : phase[r] \in Active}

\* findInstance lists at most ListLimit instances and scans them for the uid.
ListingFits == Cardinality(Instances) <= ListLimit
MayFind(r)  == inst[r] # "none"
MayMiss(r)  == inst[r] = "none" \/ ~ ListingFits

TypeOK ==
    /\ receipt   \in [Occ -> Run \union {NoRun}]
    /\ tombstone \in [Occ -> Run \union {NoRun}]
    /\ minted \subseteq Run
    /\ cmd    \in [Id -> Command]
    /\ outbox \in [Id -> {"absent", "pending", "inflight", "completed"}]
    /\ due \subseteq Id
    /\ lastId \in 0..MaxCommands
    /\ plans \subseteq Plan
    /\ phase   \in [Run -> Phase]
    /\ runPlan \in [Run -> Plan \union {NoPlan}]
    /\ intent  \in [Run -> {"none", "pending", "delivered"}]
    /\ inst    \in [Run -> {"none", "active", "cancelling", "finished"}]
    /\ launched \subseteq Run
    /\ lock \in Proc \union {"free"}
    /\ pc   \in [Proc -> LoopPoint \union DeliveryPoint \union CollectPoint \union {"idle"}]
    /\ cur  \in [Proc -> Run \union {NoRun}]
    /\ todo  \in [Proc -> SUBSET Run]
    /\ batch \in [Proc -> SUBSET Run]
    /\ claimed \in 0..MaxCommands
    /\ crashes \in 0..MaxCrashes
    /\ faults  \in 0..MaxFaults

Init ==
    /\ receipt   = [o \in Occ |-> NoRun]
    /\ tombstone = [o \in Occ |-> NoRun]
    /\ minted = {}
    /\ cmd    = [i \in Id |-> NoCommand]
    /\ outbox = [i \in Id |-> "absent"]
    /\ due = {}
    /\ lastId = 0
    /\ plans = {}
    /\ phase   = [r \in Run |-> "absent"]
    /\ runPlan = [r \in Run |-> NoPlan]
    /\ intent  = [r \in Run |-> "none"]
    /\ inst    = [r \in Run |-> "none"]
    /\ launched = {}
    /\ lock = "free"
    /\ pc   = [p \in Proc |-> Home(p)]
    /\ cur  = [p \in Proc |-> NoRun]
    /\ todo  = [p \in Proc |-> {}]
    /\ batch = [p \in Proc |-> {}]
    /\ claimed = 0
    /\ crashes = 0
    /\ faults = 0

-----------------------------------------------------------------------------
(* Acceptance: one transaction writes receipt, plan and command together.  *)

\* Mutant: the tombstone is not consulted.
KnownByReceipt(o) == receipt[o] # NoRun

\* receiptByOccurrence: a receipt or the tombstone that outlives it.
Known(o) == receipt[o] # NoRun \/ tombstone[o] # NoRun

Insert(row) ==
    /\ lastId < MaxCommands
    /\ lastId' = lastId + 1
    /\ cmd'    = [cmd EXCEPT ![lastId + 1] = row]
    /\ outbox' = [outbox EXCEPT ![lastId + 1] = "pending"]
    /\ due'    = due \union {lastId + 1}

\* acceptTrigger on an occurrence not seen before.  A replayed occurrence
\* returns the stored receipt and writes nothing that is modelled here.
AcceptTrigger(o, r, p) ==
    /\ ~ Known(o)
    /\ r \notin minted
    /\ minted'  = minted \union {r}
    /\ receipt' = [receipt EXCEPT ![o] = r]
    /\ plans'   = plans \union {p}
    /\ Insert([kind |-> "start-run", run |-> r, plan |-> p])
    /\ UNCHANGED <<tombstone, phase, runPlan, intent, engineVars, procVars, boundVars>>

\* AcceptProviderSignal: the target Run must exist, be active, and have its
\* pinned plan (validateSignalTargetTx).
AcceptProviderSignal(o, r) ==
    /\ ~ Known(o)
    /\ phase[r] \in Active
    /\ runPlan[r] \in plans
    /\ receipt' = [receipt EXCEPT ![o] = r]
    /\ Insert([kind |-> "signal-run", run |-> r, plan |-> NoPlan])
    /\ UNCHANGED <<tombstone, minted, plans, phase, runPlan, intent,
                   engineVars, procVars, boundVars>>

-----------------------------------------------------------------------------
(* The dispatch loop.                                                      *)

Goto(p, label) == pc' = [pc EXCEPT ![p] = label]
LoopAt(label)  == pc["loop"] = label
Target         == cmd[claimed].run

\* Wall-clock time: a retry delay or the stale-claim timeout runs out.
Elapse(i) ==
    /\ Incomplete(i) /\ i # claimed /\ i \notin due
    /\ due' = due \union {i}
    /\ UNCHANGED <<receipt, tombstone, minted, cmd, outbox, lastId, plans, phase,
                   runPlan, intent, engineVars, procVars, boundVars>>

\* Mutant: a claim left behind by a dead daemon is never taken over.
PendingOnly == {i \in due : outbox[i] = "pending"}

\* ClaimNext: the oldest eligible row of either kind.
Eligible == {i \in due : Incomplete(i)}
ClaimNext ==
    /\ LoopAt("claim")
    /\ \E i \in Eligible :
         /\ \A j \in Eligible : i <= j
         /\ claimed' = i
         /\ outbox' = [outbox EXCEPT ![i] = "inflight"]
         /\ due'    = due \ {i}
         /\ Goto("loop", IF cmd[i].kind = "start-run" THEN "getplan" ELSE "signal")
    /\ UNCHANGED <<receipt, tombstone, minted, cmd, lastId, plans, phase, runPlan,
                   intent, engineVars, cur, todo, batch, boundVars>>

\* ClaimNext returns ErrNotFound; the loop goes on to Adapter.Reconcile.
NothingToClaim ==
    /\ LoopAt("claim")
    /\ Eligible = {}
    /\ Goto("loop", "list")
    /\ UNCHANGED <<storeVars, engineVars, cur, todo, batch, claimed, boundVars>>

\* The command leaves the loop's hands; Adapter.Reconcile comes next.
Release(state) ==
    /\ outbox'  = [outbox EXCEPT ![claimed] = state]
    /\ claimed' = 0
    /\ Goto("loop", "list")

\* Mutant: a failed dispatch is written off.
GiveUp == Release("completed")

RetryOutbox    == Release("pending")
CompleteOutbox == Release("completed")

\* GetPlan of the hash the command pins.
GetPlan ==
    /\ LoopAt("getplan")
    /\ IF cmd[claimed].plan \in plans
         THEN Goto("loop", "admit") /\ UNCHANGED <<outbox, claimed>>
         ELSE RetryOutbox
    /\ UNCHANGED <<receipt, tombstone, minted, cmd, due, lastId, plans, phase,
                   runPlan, intent, engineVars, cur, todo, batch, boundVars>>

\* Mutant: off by one.
RoomForOneMore == Cardinality(ActiveRuns) <= MaxActiveRuns
HasCapacity    == Cardinality(ActiveRuns) < MaxActiveRuns

\* Capacity admission: only a Run without a row is counted against the bound.
Admit ==
    /\ LoopAt("admit")
    /\ IF phase[Target] # "absent" \/ HasCapacity
         THEN Goto("loop", "ensure") /\ UNCHANGED <<outbox, claimed>>
         ELSE RetryOutbox
    /\ UNCHANGED <<receipt, tombstone, minted, cmd, due, lastId, plans, phase,
                   runPlan, intent, engineVars, cur, todo, batch, boundVars>>

\* EnsureRun creates the row and stores the plan it was given again; for an
\* existing row the loop rereads the plan the row pins.
EnsureRun ==
    /\ LoopAt("ensure")
    /\ \/ /\ phase[Target] = "absent"
          /\ phase'   = [phase EXCEPT ![Target] = "pending"]
          /\ runPlan' = [runPlan EXCEPT ![Target] = cmd[claimed].plan]
          /\ plans'   = plans \union {cmd[claimed].plan}
          /\ Goto("loop", "suppress")
          /\ UNCHANGED <<outbox, claimed>>
       \/ /\ phase[Target] # "absent"
          /\ IF runPlan[Target] \in plans
               THEN Goto("loop", "suppress") /\ UNCHANGED <<outbox, claimed>>
               ELSE RetryOutbox
          /\ UNCHANGED <<phase, runPlan, plans>>
    /\ UNCHANGED <<receipt, tombstone, minted, cmd, due, lastId, intent,
                   engineVars, cur, todo, batch, boundVars>>

\* CompleteStartIfRunCancelled: the conditional update is the serialization
\* point with RequestRunCancellation.
SuppressStart ==
    /\ LoopAt("suppress")
    /\ IF intent[Target] # "none"
         THEN CompleteOutbox
         ELSE Goto("loop", "start") /\ UNCHANGED <<outbox, claimed>>
    /\ UNCHANGED <<receipt, tombstone, minted, cmd, due, lastId, plans, phase,
                   runPlan, intent, engineVars, cur, todo, batch, boundVars>>

\* Mutant: callers do not exclude one another.
Unlocked == TRUE
\* lifecycle.Lock() can return.
Free     == lock = "free"

\* Adapter.Start up to findInstance, under the lifecycle mutex.  A cancelled
\* Run, or an instance already there, makes Start return at once.
Start ==
    /\ LoopAt("start")
    /\ Free
    /\ \/ /\ phase[Target] = "cancelled" \/ MayFind(Target)
          /\ Goto("loop", "complete")
          /\ UNCHANGED lock
       \/ /\ phase[Target] # "cancelled" /\ MayMiss(Target)
          /\ Goto("loop", "create")
          /\ lock' = "loop"
    /\ UNCHANGED <<storeVars, inst, launched, cur, todo, batch, claimed, boundVars>>

\* CreateWorkflowInstance, which refuses an instance id that exists; then
\* findInstance decides whether that was an earlier attempt of this Start.
CreateInstance ==
    /\ LoopAt("create")
    /\ \/ /\ inst[Target] = "none"
          /\ inst' = [inst EXCEPT ![Target] = "active"]
          /\ launched' = launched \union {Target}
          /\ Goto("loop", "created")
          /\ UNCHANGED <<lock, outbox, claimed>>
       \/ /\ inst[Target] # "none"
          /\ lock' = "free"
          /\ \/ MayFind(Target) /\ Goto("loop", "complete") /\ UNCHANGED <<outbox, claimed>>
             \/ MayMiss(Target) /\ RetryOutbox
          /\ UNCHANGED <<inst, launched>>
    /\ UNCHANGED <<receipt, tombstone, minted, cmd, due, lastId, plans, phase,
                   runPlan, intent, cur, todo, batch, boundVars>>

\* Mutant: the request is dropped.
IgnoreCancel(r) == UNCHANGED inst

\* CancelWorkflowInstance records the request in the instance's history.
CancelInstance(r) ==
    inst' = [inst EXCEPT ![r] = IF @ = "active" THEN "cancelling" ELSE @]

\* cancelCreatedRunIfRequested, still under the mutex that Start holds.
CancelCreatedRunIfRequested ==
    /\ LoopAt("created")
    /\ lock' = "free"
    /\ \/ /\ phase[Target] # "cancelled"
          /\ Goto("loop", "complete")
          /\ UNCHANGED <<inst, outbox, claimed>>
       \/ /\ phase[Target] = "cancelled" /\ MayFind(Target)
          /\ CancelInstance(Target)
          /\ Goto("loop", "complete")
          /\ UNCHANGED <<outbox, claimed>>
       \/ /\ phase[Target] = "cancelled" /\ MayMiss(Target)
          /\ RetryOutbox
          /\ UNCHANGED inst
    /\ UNCHANGED <<receipt, tombstone, minted, cmd, due, lastId, plans, phase,
                   runPlan, intent, launched, cur, todo, batch, boundVars>>

\* The last step of reconcileStart and of reconcileSignal.
CompleteDispatch ==
    /\ LoopAt("complete")
    /\ CompleteOutbox
    /\ UNCHANGED <<receipt, tombstone, minted, cmd, due, lastId, plans, phase,
                   runPlan, intent, engineVars, cur, todo, batch, boundVars>>

\* SignalEvent: SignalWorkflow reaches only an instance that has not finished.
SignalEvent ==
    /\ LoopAt("signal")
    /\ IF inst[Target] \in {"active", "cancelling"}
         THEN Goto("loop", "complete") /\ UNCHANGED <<outbox, claimed>>
         ELSE RetryOutbox
    /\ UNCHANGED <<receipt, tombstone, minted, cmd, due, lastId, plans, phase,
                   runPlan, intent, engineVars, cur, todo, batch, boundVars>>

-----------------------------------------------------------------------------
(* Cancellation: the intent is durable first, delivery is retried.         *)

\* The Cancel RPC: RequestRunCancellation, after which the same call goes on
\* to Adapter.Cancel whatever the Run's phase was.
RequestRunCancellation(c, r) ==
    /\ pc[c] = "idle"
    /\ phase[r] # "absent"
    /\ IF phase[r] \in Terminal
         THEN UNCHANGED <<phase, intent>>
         ELSE /\ phase'  = [phase EXCEPT ![r] = "cancelled"]
              /\ intent' = [intent EXCEPT ![r] = "pending"]
    /\ Goto(c, "cancel")
    /\ todo' = [todo EXCEPT ![c] = {r}]
    /\ UNCHANGED <<receipt, tombstone, minted, cmd, outbox, due, lastId, plans,
                   runPlan, engineVars, cur, batch, claimed, boundVars>>

\* Adapter.Reconcile, from the loop after each ReconcileOne and from the
\* Reconcile RPC: UndeliveredRunCancellations.
ListCancellations(p) ==
    /\ pc[p] = IF p = "loop" THEN "list" ELSE "idle"
    /\ todo' = [todo EXCEPT ![p] = {r \in Run : intent[r] = "pending"}]
    /\ Goto(p, "cancel")
    /\ UNCHANGED <<storeVars, engineVars, cur, batch, claimed, boundVars>>

\* Reconcile redelivers the decided approvals first: a signal that fails, as one
\* for a workflow that has ended does, returns before any cancellation is listed.
RedeliveryFails(p) ==
    /\ pc[p] = IF p = "loop" THEN "list" ELSE "idle"
    /\ faults < MaxFaults
    /\ faults' = faults + 1
    /\ Goto(p, Home(p))
    /\ UNCHANGED <<storeVars, engineVars, cur, todo, batch, claimed, crashes>>

\* Adapter.Cancel under the mutex; ErrNotFound leads to the conditional mark.
Cancel(p, r) ==
    /\ pc[p] = "cancel" /\ r \in todo[p]
    /\ Free
    /\ \/ MayFind(r) /\ CancelInstance(r) /\ Goto(p, "mark")
       \/ MayMiss(r) /\ UNCHANGED inst /\ Goto(p, "markif")
    /\ cur'  = [cur EXCEPT ![p] = r]
    /\ todo' = [todo EXCEPT ![p] = @ \ {r}]
    /\ UNCHANGED <<storeVars, launched, lock, batch, claimed, boundVars>>

\* Provider calls could not be cancelled: the instance is still cancelled when
\* it is found, but the error ends this delivery attempt, the rest of the
\* list included, and the intent stays undelivered.
CancelFails(p, r) ==
    /\ pc[p] = "cancel" /\ r \in todo[p]
    /\ Free
    /\ faults < MaxFaults
    /\ faults' = faults + 1
    /\ \/ MayFind(r) /\ CancelInstance(r)
       \/ MayMiss(r) /\ UNCHANGED inst
    /\ Goto(p, Home(p))
    /\ todo' = [todo EXCEPT ![p] = {}]
    /\ UNCHANGED <<storeVars, launched, lock, cur, batch, claimed, crashes>>

\* MarkRunCancellationDelivered.
MarkDelivered(p) ==
    /\ pc[p] = "mark"
    /\ intent' = [intent EXCEPT ![cur[p]] = IF @ = "none" THEN @ ELSE "delivered"]
    /\ cur' = [cur EXCEPT ![p] = NoRun]
    /\ Goto(p, "cancel")
    /\ UNCHANGED <<receipt, tombstone, minted, cmd, outbox, due, lastId, plans,
                   phase, runPlan, engineVars, todo, batch, claimed, boundVars>>

StartImpossible(r) == ~ IncompleteStartFor(r)

\* MarkRunCancellationDeliveredIfStartImpossible.
MarkDeliveredIfStartImpossible(p) ==
    /\ pc[p] = "markif"
    /\ intent' = [intent EXCEPT ![cur[p]] =
                    IF @ = "pending" /\ StartImpossible(cur[p]) THEN "delivered" ELSE @]
    /\ cur' = [cur EXCEPT ![p] = NoRun]
    /\ Goto(p, "cancel")
    /\ UNCHANGED <<receipt, tombstone, minted, cmd, outbox, due, lastId, plans,
                   phase, runPlan, engineVars, todo, batch, claimed, boundVars>>

\* The list is exhausted: the RPC returns, the loop waits for its next tick.
DeliveryDone(p) ==
    /\ pc[p] = "cancel" /\ todo[p] = {}
    /\ Goto(p, Home(p))
    /\ UNCHANGED <<storeVars, engineVars, cur, todo, batch, claimed, boundVars>>

-----------------------------------------------------------------------------
(* The workflow instance, as its adapter and its activities show it.       *)

\* Activities append non-terminal events; a terminal Run ignores them.
WorkflowProgress(r, ph) ==
    /\ inst[r] = "active"
    /\ phase[r] \in Active
    /\ ph \in {"running", "waiting"} \ {phase[r]}
    /\ phase' = [phase EXCEPT ![r] = ph]
    /\ UNCHANGED <<receipt, tombstone, minted, cmd, outbox, due, lastId, plans,
                   runPlan, intent, engineVars, procVars, boundVars>>

\* Mutant: the terminal phase is not reread in the transaction.
CompleteRunBlindly(r, ph) ==
    /\ inst[r] = "active"
    /\ phase[r] # "absent"
    /\ phase' = [phase EXCEPT ![r] = ph]
    /\ UNCHANGED <<receipt, tombstone, minted, cmd, outbox, due, lastId, plans,
                   runPlan, intent, engineVars, procVars, boundVars>>

\* CompleteRun and FailRun, the last activity of the interpreter.
CompleteRun(r, ph) ==
    /\ inst[r] = "active"
    /\ phase[r] \in Active
    /\ phase' = [phase EXCEPT ![r] = ph]
    /\ UNCHANGED <<receipt, tombstone, minted, cmd, outbox, due, lastId, plans,
                   runPlan, intent, engineVars, procVars, boundVars>>

\* The interpreter returned.
WorkflowFinish(r) ==
    /\ inst[r] \in {"active", "cancelling"}
    /\ phase[r] \in Terminal
    /\ inst' = [inst EXCEPT ![r] = "finished"]
    /\ UNCHANGED <<storeVars, launched, lock, procVars, boundVars>>

-----------------------------------------------------------------------------
(* Retention: plan, remove the finished histories, then collect the rows.  *)

\* Mutant: incomplete dispatch work is not looked at.
CollectibleWhenTerminal(r) == phase[r] \in Terminal

\* What the planning query selects and the collecting transaction rechecks.
Collectible(r) == phase[r] \in Terminal /\ ~ IncompleteFor(r)

\* PlanRunRetention.  The age and keep-recent filters select any subset.
PlanRunRetention(c, selected) ==
    /\ pc[c] = "idle"
    /\ selected # {} /\ \A r \in selected : Collectible(r)
    /\ batch' = [batch EXCEPT ![c] = selected]
    /\ todo'  = [todo EXCEPT ![c] = selected]
    /\ Goto(c, "remove")
    /\ UNCHANGED <<storeVars, engineVars, cur, claimed, boundVars>>

\* RemoveFinishedRun takes the mutex and keeps it while it polls.
BeginRemove(c, r) ==
    /\ pc[c] = "remove" /\ r \in todo[c]
    /\ Free
    /\ lock' = c
    /\ cur'  = [cur EXCEPT ![c] = r]
    /\ Goto(c, "poll")
    /\ todo' = [todo EXCEPT ![c] = @ \ {r}]
    /\ UNCHANGED <<storeVars, inst, launched, batch, claimed, boundVars>>

\* The instance is finished and removed, or findInstance does not list it.
EndRemove(c) ==
    /\ pc[c] = "poll"
    /\ \/ inst[cur[c]] = "finished" /\ inst' = [inst EXCEPT ![cur[c]] = "none"]
       \/ MayMiss(cur[c]) /\ UNCHANGED inst
    /\ lock' = "free"
    /\ cur'  = [cur EXCEPT ![c] = NoRun]
    /\ Goto(c, "remove")
    /\ UNCHANGED <<storeVars, launched, todo, batch, claimed, boundVars>>

Abandon(c) ==
    /\ cur'  = [cur EXCEPT ![c] = NoRun]
    /\ todo'  = [todo EXCEPT ![c] = {}]
    /\ batch' = [batch EXCEPT ![c] = {}]
    /\ Goto(c, "idle")

\* The five-second deadline passes first: the whole collection is abandoned.
RemoveTimeout(c) ==
    /\ pc[c] = "poll"
    /\ inst[cur[c]] \in {"active", "cancelling"}
    /\ lock' = "free"
    /\ Abandon(c)
    /\ UNCHANGED <<storeVars, inst, launched, claimed, boundVars>>

\* DELETE FROM compiled_plans ... AND NOT EXISTS (SELECT 1 FROM runs ...).
OrphanPlans(gone, rest) == {runPlan[r] : r \in gone} \ {runPlan[r] : r \in rest}

\* CollectRetainedRuns rechecks every Run, then deletes rows, tombstones the
\* occurrences, and drops each plan no remaining Run references.
CollectRetainedRuns(c) ==
    /\ pc[c] = "remove" /\ todo[c] = {}
    /\ LET present == {r \in batch[c] : phase[r] # "absent"}
           rest    == {r \in Run \ present : phase[r] # "absent"}
       IN \/ /\ \A r \in present : Collectible(r)
             /\ phase'   = [r \in Run |-> IF r \in present THEN "absent" ELSE phase[r]]
             /\ runPlan' = [r \in Run |-> IF r \in present THEN NoPlan ELSE runPlan[r]]
             /\ intent'  = [r \in Run |-> IF r \in present THEN "none" ELSE intent[r]]
             /\ outbox'  = [i \in Id |-> IF cmd[i].run \in present THEN "absent" ELSE outbox[i]]
             /\ tombstone' = [o \in Occ |-> IF receipt[o] \in present THEN receipt[o] ELSE tombstone[o]]
             /\ receipt' = [o \in Occ |-> IF receipt[o] \in present THEN NoRun ELSE receipt[o]]
             /\ plans'   = plans \ OrphanPlans(present, rest)
          \/ /\ \E r \in present : ~ Collectible(r)
             /\ UNCHANGED <<phase, runPlan, intent, outbox, tombstone, receipt, plans>>
    /\ Abandon(c)
    /\ UNCHANGED <<minted, cmd, due, lastId, engineVars, claimed, boundVars>>

-----------------------------------------------------------------------------
\* The daemon dies and restarts: the store and the workflow database survive.
Crash ==
    /\ crashes < MaxCrashes
    /\ crashes' = crashes + 1
    /\ lock' = "free"
    /\ pc'   = [p \in Proc |-> Home(p)]
    /\ cur'  = [p \in Proc |-> NoRun]
    /\ todo'  = [p \in Proc |-> {}]
    /\ batch' = [p \in Proc |-> {}]
    /\ claimed' = 0
    /\ UNCHANGED <<storeVars, inst, launched, faults>>

-----------------------------------------------------------------------------
Accept   == \/ \E o \in Occ, r \in Run, p \in Plan : AcceptTrigger(o, r, p)
            \/ \E o \in Occ, r \in Run : AcceptProviderSignal(o, r)

Dispatch == \/ ClaimNext \/ NothingToClaim \/ GetPlan \/ Admit \/ EnsureRun
            \/ SuppressStart \/ Start \/ CreateInstance
            \/ CancelCreatedRunIfRequested \/ CompleteDispatch \/ SignalEvent

Deliver(p) == \/ ListCancellations(p) \/ RedeliveryFails(p) \/ MarkDelivered(p)
              \/ MarkDeliveredIfStartImpossible(p) \/ DeliveryDone(p)
              \/ \E r \in Run : Cancel(p, r) \/ CancelFails(p, r)

Workflow(r) == \/ \E ph \in {"running", "waiting"} : WorkflowProgress(r, ph)
               \/ \E ph \in Terminal \ {"cancelled"} : CompleteRun(r, ph)
               \/ WorkflowFinish(r)

Retain(c) == \/ \E selected \in SUBSET Run : PlanRunRetention(c, selected)
             \/ \E r \in Run : BeginRemove(c, r)
             \/ EndRemove(c) \/ RemoveTimeout(c) \/ CollectRetainedRuns(c)

Next == \/ Accept
        \/ \E i \in Id : Elapse(i)
        \/ Dispatch
        \/ \E c \in Client, r \in Run : RequestRunCancellation(c, r)
        \/ \E p \in Proc : Deliver(p)
        \/ \E r \in Run : Workflow(r)
        \/ \E c \in Client : Retain(c)
        \/ Crash

Spec == Init /\ [][Next]_vars

(***************************************************************************)
(* Fairness.  The loop is a goroutine with a ticker, so it keeps moving;   *)
(* time passes; an RPC handler and the worker of the durable engine are    *)
(* scheduled.  Acceptance, RPC arrivals, faults and crashes are the        *)
(* environment's and get none.  A workflow is assumed to end: every node   *)
(* has a timeout or an operator that answers it.                           *)
(***************************************************************************)
LoopFairness == /\ WF_vars(Dispatch)
                /\ \A p \in Proc : /\ WF_vars(MarkDelivered(p))
                                   /\ WF_vars(MarkDeliveredIfStartImpossible(p))
                                   /\ WF_vars(DeliveryDone(p))
                                   /\ WF_vars(\E r \in Run : Cancel(p, r))
                /\ WF_vars(ListCancellations("loop"))
                /\ \A c \in Client : WF_vars(EndRemove(c) \/ RemoveTimeout(c)
                                             \/ CollectRetainedRuns(c)
                                             \/ \E r \in Run : BeginRemove(c, r))
TimeFairness == \A i \in Id : WF_vars(Elapse(i))
WorkflowFairness == \A r \in Run :
    /\ WF_vars(\E ph \in Terminal \ {"cancelled"} : CompleteRun(r, ph))
    /\ WF_vars(WorkflowFinish(r))

FairSpec == Spec /\ LoopFairness /\ TimeFairness /\ WorkflowFairness

-----------------------------------------------------------------------------
(* What makes the control path correct.                                    *)

RunOf(o) == IF receipt[o] # NoRun THEN receipt[o] ELSE tombstone[o]

\* At-least-once sources replay: once acceptTrigger or AcceptProviderSignal
\* bound an occurrence to a Run, no later acceptance, retention or restart
\* forgets the binding or changes it.
OccurrenceKeepsItsRun ==
    [][\A o \in Occ : RunOf(o) # NoRun => RunOf(o)' = RunOf(o)]_vars

\* One accepted start executes at most once: across redelivered commands,
\* stale claims, restarts and the removal of finished histories, Start never
\* creates a second workflow instance for the same Run.
LaunchedAtMostOnce ==
    [][\A r \in Run : inst[r] = "none" /\ inst'[r] # "none" => r \notin launched]_vars

\* appendRunEventTx and RequestRunCancellation race for the last word: the
\* first terminal phase is final until retention deletes the row.
TerminalPhaseIsFinal ==
    [][\A r \in Run : phase[r] \in Terminal => phase'[r] \in {phase[r], "absent"}]_vars

\* An acknowledged cancellation is never lost: once delivery_completed is set
\* no instance of the Run is, or becomes, runnable with nobody to cancel it.
DeliveredMeansStopped ==
    \A r \in Run : intent[r] = "delivered" => inst[r] # "active"

\* The dispatcher may only forget a start it carried out or suppressed: a
\* completed start-run row has had its instance, or its Run is cancelled.
CompletedStartTookEffect ==
    \A i \in Id : outbox[i] = "completed" /\ cmd[i].kind = "start-run" =>
        \/ cmd[i].run \in launched
        \/ phase[cmd[i].run] = "cancelled"

\* Config.MaxActiveRuns holds although admission reads the count in one
\* transaction and EnsureRun inserts the row in another.
CapacityRespected == Cardinality(ActiveRuns) <= MaxActiveRuns

\* Retention deletes a Run's evidence only once its instance is gone, so no
\* instance runs activities against a missing row.
InstanceHasRun == \A r \in Run : inst[r] # "none" => phase[r] # "absent"

\* The plan a Run row pins can always be read back (signal validation and the
\* retry path of reconcileStart need it).
RunHasPlan == \A r \in Run : phase[r] # "absent" => runPlan[r] \in plans

\* What the durability document says of an accepted occurrence: nothing may
\* alter or strand the plan it pinned before the start is dispatched.
AcceptedStartKeepsPlan ==
    \A i \in Id : Incomplete(i) /\ cmd[i].kind = "start-run" => cmd[i].plan \in plans

\* Every accepted start is eventually dispatched or suppressed, past retries,
\* capacity deferral, restarts and collections of other Runs, unless retention
\* took its plan away (AcceptedStartKeepsPlan).
StartIsDispatched ==
    \A i \in Id : Incomplete(i) /\ cmd[i].kind = "start-run"
                   ~> ~ Incomplete(i) \/ cmd[i].plan \notin plans

\* A recorded cancellation is eventually acknowledged, and the instance that
\* was running, if any, comes to an end, although a failing approval or provider
\* call ends a whole round of Reconcile.  Such failures are finitely many here:
\* one that lasts holds every cancellation up (DecisionIsDelivered).
CancellationIsDelivered ==
    \A r \in Run : intent[r] = "pending" ~> intent[r] # "pending" /\ inst[r] # "active"

\* What the dispatch loop owes the two durable intents: a start is dispatched
\* and a cancellation delivered, whatever order retries, capacity, retention and
\* restarts bring them in.
IntentsAreServed == StartIsDispatched /\ CancellationIsDelivered

-----------------------------------------------------------------------------
(***************************************************************************)
(* The inductive invariant, in named parts.  It says what a control point  *)
(* implies about the store (DispatchInv, LockInv), which rows belong       *)
(* together (IdentityInv, RowInv), and what can no longer happen once a    *)
(* process has a Run in hand (ClosedInv, BatchInv, StopInv).               *)
(***************************************************************************)
StartPoint    == {"getplan", "admit", "ensure", "suppress", "start", "create", "created"}
HoldingPoint  == StartPoint \union {"complete", "signal"}
CreatingPoint == {"create", "created"}

\* The loop holds exactly one inflight row between claim and release.
DispatchInv ==
    /\ pc["loop"] \in LoopPoint \union DeliveryPoint
    /\ \A c \in Client : pc[c] \in DeliveryPoint \union CollectPoint \union {"idle"}
    /\ pc["loop"] \notin HoldingPoint => claimed = 0
    /\ pc["loop"] \in HoldingPoint =>
         claimed \in Id /\ outbox[claimed] = "inflight" /\ Target \in Run
    /\ pc["loop"] \in StartPoint => cmd[claimed].kind = "start-run" /\ cmd[claimed].plan \in Plan
    /\ pc["loop"] = "signal" => cmd[claimed].kind # "start-run"
    /\ pc["loop"] \in {"suppress", "start", "create", "created"} => phase[Target] # "absent"
    /\ pc["loop"] = "created" => Target \in launched
    /\ pc["loop"] = "complete" /\ cmd[claimed].kind = "start-run" =>
         Target \in launched \/ phase[Target] = "cancelled"

\* Who is inside the lifecycle mutex.
LockInv ==
    /\ lock = "loop" <=> pc["loop"] \in CreatingPoint
    /\ \A c \in Client : lock = c <=> pc[c] = "poll"

\* Row ids and Run uids are used once.
IdentityInv ==
    /\ \A i \in Id : i > lastId => outbox[i] = "absent" /\ cmd[i] = NoCommand
    /\ \A i \in Id : i <= lastId => /\ cmd[i].run \in minted
                                    /\ cmd[i].kind \in {"start-run", "signal-run"}
                                    /\ cmd[i].kind = "start-run" => cmd[i].plan \in Plan
    /\ \A i, j \in Id : /\ cmd[i].kind = "start-run" /\ cmd[j].kind = "start-run"
                        /\ cmd[i].run = cmd[j].run
                        => i = j

\* The tables agree about a Run, and a launched Run whose history is gone can
\* not be started again.
RowInv ==
    \A r \in Run :
        /\ phase[r] # "absent" \/ r \in launched => r \in minted
        /\ intent[r] # "none" <=> phase[r] = "cancelled"
        /\ inst[r] # "none" => phase[r] # "absent" /\ r \in launched
        /\ r \in launched /\ inst[r] = "none" => ~ IncompleteStartFor(r)
        /\ phase[r] # "absent" => runPlan[r] \in plans

\* The Run is over: no phase of it can become "cancelled" any more.
Closed(r) == /\ r \in minted
             /\ phase[r] \in Terminal \/ (phase[r] = "absent" /\ ~ IncompleteStartFor(r))

\* Whatever a deliverer has in hand or still has to visit is over.
ClosedInv ==
    \A p \in Proc :
        /\ pc[p] = "cancel" => \A r \in todo[p] : Closed(r)
        /\ pc[p] \in {"mark", "markif"} =>
             cur[p] \in Run /\ Closed(cur[p]) /\ \A r \in todo[p] : Closed(r)

\* A retention plan stays valid, and the Runs it has visited have no instance.
BatchInv ==
    \A c \in Client : pc[c] \in CollectPoint =>
        /\ todo[c] \subseteq batch[c]
        /\ \A r \in batch[c] : Closed(r) /\ ~ IncompleteStartFor(r)
        /\ pc[c] = "poll" => cur[c] \in batch[c]
        /\ \A r \in batch[c] \ todo[c] :
             inst[r] = "none" \/ (pc[c] = "poll" /\ r = cur[c])

\* Nobody is about to make the instance of r runnable.
Stopped(r) == inst[r] # "active" /\ ~ (pc["loop"] \in CreatingPoint /\ Target = r)

StopInv ==
    /\ \A r \in Run : intent[r] = "delivered" => Stopped(r)
    /\ \A p \in Proc : pc[p] \in {"mark", "markif"} /\ phase[cur[p]] = "cancelled"
                         => Stopped(cur[p])

\* Everything the safety theorems rest on, in one inductive formula: the tables,
\* the control points and the mutex agree at every step of every process.
IndInv == /\ TypeOK
          /\ DispatchInv
          /\ LockInv
          /\ IdentityInv
          /\ RowInv
          /\ ClosedInv
          /\ BatchInv
          /\ StopInv
          /\ CompletedStartTookEffect

\* The loop is the only process that inserts Runs, so the count it read at
\* admission can only have fallen by the time EnsureRun runs.
CapacityInv ==
    /\ IsFiniteSet(ActiveRuns)
    /\ CapacityRespected
    /\ LoopAt("ensure") /\ phase[Target] = "absent" => Cardinality(ActiveRuns) < MaxActiveRuns
=============================================================================
