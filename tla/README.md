# A verification project for Orchigram

Orchigram is a local daemon that turns occurrences (schedules, HTTP calls,
provider events, manual requests) into durable Runs of compiled Flows, and
executes their nodes through plugin processes. This directory holds TLA+ models
of its control and execution paths, of the operations around them, TLC
configurations for small instances, and TLAPS proofs of the results that matter
most.

* `PROJECT.json` maps every definition to the lines it models, and lists runs,
  mutants, hazards, findings and theorems.
* A definition preceded by "Mutant" is a plausible bug; no specification uses
  it. Replacing the definition it belongs to must break a property, which keeps
  the properties honest.
* A property whose name ends in `Inv`, and a few others, is the conjunction of
  named parts, each of which has its own definition and comment.

## 1. The system

### Processes and stores

One daemon process, two SQLite databases, plugin processes, and the tools an
operator uses beside the daemon:

| Part | State | Operations |
|---|---|---|
| product store (`internal/store`) | `resources`, `compiled_plans`, `runs`, `run_events`, `trigger_receipts`, `occurrence_tombstones`, `outbox`, `approvals`, `run_cancellations`, `node_attempts`, cursors, plugin records | one transaction per method on a single connection |
| orchestrator (`internal/orchestrator`) | none of its own | one loop: claim an outbox row, dispatch it, complete or retry it; every tick also reconciles the engine |
| engine adapter (`internal/engine`) | `lifecycle` mutex; go-workflows' database | Start, Signal, Cancel, Reconcile, RemoveFinishedRun; the interpreter workflow and its activities |
| plan interpreter (`InterpreterWorkflow`) | workflow-local: pending, active and completed components, active edges, the completion channel, the events its event nodes have seen | admission, node execution, skips, loops, first-failure cancellation |
| flow compiler, action contracts, references (`internal/flow`, `actioncontract`, `references`) | none; a plan is stored | Compile, schema compatibility, placeholders, conditions, diagnostics of references, copies bound into the plan |
| trigger controller (`internal/trigger`) | table of subscriptions; durable cursors and skips | schedules, provider subscriptions, signals, generation fences |
| plugin controller (`internal/plugincontroller`) | desired and observed installations, the activation | convergence, install, enable, disable |
| plugin manager (`internal/pluginmanager`) | map of processes, active calls, two limiters, raw logs | Execute, CancelRun, WatchTrigger, Enable, Disable, probe, Close |
| plugin side (`internal/pluginruntime`, `sdk`, `internal/process`) | table of calls, sinks, processes and their groups | handlers, cancel, drain, escalation from SIGTERM to SIGKILL |
| GitHub plugin and workspaces (`internal/githubplugin`, `internal/workspace`) | none durable but GitHub and the git checkout | watches, comments, pull requests, waits for checks, checkout, commit and push |
| control API and clients (`internal/server`, `internal/tui`) | a client's live model | RPCs, paged lists, watches, editors |
| retention (`internal/retention`, `store/retention.go`) | none | plan, remove histories, collect rows, plugins and artifacts |
| daemon, ingress, contexts (`internal/daemon`, `httpingress`, `contexttransport`) | open resources, the socket, ssh processes | Open, Serve, Close, webhooks, Connect |
| backup and installer (`internal/backup`, `internal/install`) | archives, installed files | create, restore, install with rollback |

Components meet in these ways: through rows of the product store (acceptance
inserts an outbox row that the loop claims later); through calls into the
engine adapter under its mutex; through activities that the durable engine
delivers at least once; through the active-call table of the plugin manager,
which a cancellation walks; through streams (plugin events, trigger events,
watches) that may break at any point; and through directories that a tool
copies while the daemon works.

### What is hard about it

* *At-least-once everywhere.* Sources replay occurrences, a dead daemon's outbox
  claims are taken over, activities are delivered again, signals are lost and
  sent again, requests to GitHub are repeated after their answer was lost.
* *Steps between transactions.* Every operation is several store transactions
  with engine calls, launches or file operations between them; any other RPC,
  a loop, or a crash may come in between.
* *Cancellation* races acceptance, dispatch, creation, completion, collection,
  plugin launch, process exit and restart.
* *Retention* works from a plan that is stale by the time it is applied.
* *Reading in parts*: pages of resources, of issue events, of pull requests and
  their reviews, of check runs, while all of them change.
* *Partial failure* of long procedures: an upgrade, a checkout, a backup, the
  start of the daemon.
* *Limits*: active Runs, activity and agent tokens, the completion channel, the
  engine's instance listing, loop bounds, attempt numbers.

### What makes each part correct

| Part | Correct when |
|---|---|
| acceptance | an occurrence is bound to one Run for ever, also after collection |
| dispatch | an accepted start takes effect exactly once or its Run is cancelled; it is dispatched eventually; the number of active Runs stays within its limit |
| cancellation | acknowledged means stopped; every intent is acknowledged eventually; the first terminal phase stays |
| retention | an instance has its Run, a Run its plan, an accepted start its plan, a pinned plugin its row and bundle |
| approvals | the acknowledged decision is the reported one; it is delivered without waiting for a timer |
| node attempts | history never runs ahead of the evidence; a recorded result is replayed, not executed again; one outcome per retry ordinal; tokens never leak |
| event nodes | an event advances a Run once; an accepted event never starves the node that waits for it |
| interpreter | joins see final inputs; the scheduler neither starves nor overflows its channel; nothing runs after the terminal event; loops end |
| compiler | components are the strongly connected ones; a plan exists exactly for a well-formed Flow; what it accepts a Run can execute |
| triggers | a cursor passes neither an event nor an instant that is undecided, and never moves back over one; an instant fires once whatever edits intervene; forbid holds; due work is decided eventually |
| resources and views | one history; a client shows whole versions of it in order and catches up; a status describes the spec it claims |
| plugin control | the activation follows the desired state; a running process is known to somebody who closes it |
| plugin calls | the evidence is a prefix of what was said; an output stands for all of it; a cancelled call ends with its process |
| GitHub, workspaces | what a poll has to find is not passed over, nothing is made twice, success was good, an edit is committed once |
| upgrade, backup, daemon, contexts | complete or undone; a restored history has its evidence; nothing outlives what it uses; a lost tunnel comes back |

Some of these the code keeps with exceptions. An exception is named in the property
that has it, so that nothing beyond it is excused, and section 6 lists them all.

## 2. The models

### RunControl

The control path of a Run, from the transaction that accepts an occurrence to
the one that collects its evidence. A store method is one step; the control
points of the loop (`pc["loop"]`) and of every RPC client are explicit, and so is
the lifecycle mutex (`lock`). `due` stands for the `available_at` and
`claimed_at` comparisons: `Elapse` makes a row claimable at any time.

go-workflows is external. The model assumes what the adapter relies on: creating
an instance under an existing id is refused; cancelling a finished instance does
nothing; the instance's last activity records the terminal phase. `inst[r]` is
none, active, cancelling or finished. `findInstance` reads one listing, which
sees everything while there are at most `ListLimit` instances and may miss any
instance beyond that.

`Adapter.Reconcile` redelivers approvals before it lists cancellations. The
redelivery itself is in Approvals; here it matters that it may fail, which ends the
round (`RedeliveryFails`), as a failing delivery of a cancellation does
(`CancelFails`). One round lists every undelivered cancellation, where the code takes
the first 100.

### Approvals

The approvals table, the Approve and Reject RPCs (decide, signal, mark), the
redelivery of `Adapter.Reconcile`, and the approval node: BeginApproval, the wait
for a signal or a timer, EndApproval with its read and its own DecideApproval,
repeated delivery of EndApproval after a restart, further iterations of a cycle,
the end, cancellation and collection of the Run. `channel` is the workflow's
signal queue; `acked` and `outcome` record what operators and the workflow were
told. Signalling a finished instance is an error, as in go-workflows.

### NodeExecution

The plugin nodes of one Run: the ExecuteNode activity on several workers, the
`node_attempts` rows, both limiters, the active-call table, and a cancellation
that walks it. `state[n][k]` merges phase and exit outcome of a row (`lost` is
failed with `delivery-lost`). `task`, `ordinal` and `hist` are the engine's: a task
is leased to one worker at a time (workers renew their lease), is queued again
after a restart, and the first reported result enters the history. The plugin's
answer is arbitrary; its duration is bounded by the node's deadline. Core nodes
that call nothing (`core.noop`, `core.fail`) are left out.

### EventNodes

From a provider's event to the `core.event` node that waits for it. A Trigger per
event node watches the stream (`Gates`); accepting an event validates its target
and stores receipt, command and cursor in one transaction; a target that is not
there, has ended or is of another Flow or without the node (`Nobody` stands for a
target that never was right) is refused, which ends the stream in front of the event.
Editing the Trigger takes its cursor away and puts an activation fence in its place,
so that the next stream begins with what is posted after the edit, or with the first
event for a provider that replays (`Replay`). `ReconcileSignal`
sends the command, and a crash before its completion sends it again; the node
takes from its channel, records a duplicate with IgnoreEvent, or times out. The
event nodes lie on one cycle of their Run and share `seen`, as `seenEventIDs` does.

### Interpreter

The scheduler of `InterpreterWorkflow` for *every* plan graph over `1..N`, chosen in
`Init` with its `maxParallel` and loop bound. `comp` and `rank` are the component
model: strongly connected components by definition (mutual reachability), the
order by Kahn's algorithm with the least node first. A coroutine executes the
nodes of a component one after another: a call in flight is `current[c]`, and it
may return normally after `cancelScheduler`, because the engine does not abort a
scheduled activity. Abstractions, all of which only add behaviours: the queue of a
component and the completion channel are sets, and a node activates any subset of
its outgoing edges. The test of the loop bound on taking a node from the queue is
not repeated, since a queued node's count cannot change. Cancellation of the whole
Run is RunControl's subject.

### FlowCompiler, ActionContracts, Admission

*FlowCompiler* takes `Compile` in its order: nodes with duplicates and broken
ones, edges with unknown ends, reachability for mappings, then
`stronglyConnected` one visit at a time with the recursion's stack as state, the
bounded-cycle test, and the sorted plan. The reference definitions are reachability,
as membership in every set that is closed under edges, and a statement of
well-formedness over the document.

*ActionContracts* is one mapping and one condition: what `Compatible`, the
placeholder and the inference of a condition say when the Flow is compiled, and what
the Run says of any value the source schema allows. A schema has the types of the
field, the types of the members of an object or the items of an array, whether a
member is required or forbidden, and further assertions that only the schema library
looks at. A field of the source may be missing, and a literal null may lie on the way
into the target. The reference is the set of values.

*Admission* is an AgentProfile that names a SecretRef: the diagnostics of the profile
look the secret up before the write, `BindAction` copies one referent after another
into the plan, and the Run uses the copies. Operators edit and delete between any two
reads.

### Triggers

One Trigger, its durable rows and the controller. `pass` is the one goroutine that
runs schedule passes and provider synchronisation, so the two never interleave;
`watch` holds the subscription goroutines, of which two exist while a cancelled one
has not ended; `op` is an EnableTrigger or DisableTrigger call. `Apply` may change
the kind of the Trigger, which keeps its UID. Each store call is one step:
`EnsureTriggerState` creates or resets the row (also after a deletion, when a
goroutine still holds the old resource), `Acceptable` is the validation inside
the acceptance transaction, and `AdvanceTriggerCursor` names no generation, as in
the code. Time is a counter; a provider event advances it, so that no two share a
timestamp. A receipt is pending (no Run row yet), running or done; a tombstone
counts as done. The provider is assumed to send its events in order, after the
cursor it was given or, without one, after the activation time. `activated`
records when each generation was applied and guides no step.

Several Triggers share a pass in the code: an error of one ends the pass for those
listed after it. Health diagnostics are not in the model.

### ResourceStore, Snapshots, LiveView, LiveRuns

*ResourceStore* is the resources table with revision, generation, version and
watch log, under editors that read, change and write back, and a controller that
reads, computes and writes status. *LiveView* adds the client: a paged listing
that has to start again when the revision moves, a watch opened from the revision
applied, pages of events on the wire, breaks. *Snapshots* is the promise: one
linear history of tables; a client shows whole versions and never an older one
after a newer one. LiveView implements it with `history` the replay of the log:
`Replay` takes, for each revision and key, the document of the latest event.

*LiveRuns* is the Run half: the rows and events of Runs on one side; a poll that
replaces what is listed unless an event made it newer, and a watch per Run, on the
other. A Run that leaves the list is forgotten with its events, and of a history the
newest `EventLimit` events are kept (2000 in the code). What `projectResource` does to
a document on its way to the client is the same on every path and is left out.

### Plugins, PluginProcesses

*Plugins* is one plugin's versions: bundles on disk, rows, activation, desired
resources with generation and status. A pass of the controller is taken read by
read and write by write, from the adoption of rows that have no resource to the health
check and the status of each; install, SetEnabled, compilation (the read of the active
version, then the transaction that stores the plan) and retention (its transaction,
then the removal of the directory) interleave with it. Some bundles are
`Incompatible` with the daemon. A resource is identified with its version: two
resources of one version under different names are not modelled.

*PluginProcesses* is the manager's map: lookup, launch outside the mutex, insert
or lose the race, evict, Enable with its own look at readiness, which closes what is
not ready and replaces the entry of its version, Disable, the probe, exits, and Close.
`left` are the processes that Enable replaced in the map.

### PluginCalls

A call from both sides. The host consumes the stream: for a log event it appends
to the raw log, registers the artifact row and only then stores the event, and the
outcome an event carries is one more write; a write may fail and the daemon may die
between any two, and restart reconciles rows with files. The plugin keeps the table of
calls, one terminal event per stream, the check of a result against the output
contract, and a drain. The handler runs a process group that may ignore SIGTERM, exit
with any status and leave a descendant, which holds the output open and may go on
printing, or has let go of it; `GiveUpCall` is the canceller that ends the stream when
the plugin takes too long.

### GitHubWatch, GitHubMutations, GitHubChecks, Workspaces

GitHub and git are external and change between two requests. *GitHubWatch* reads
pages of issue events newest first, or pages of pull requests last updated first with
the reviews of each in between, and sends what it found in order, one event per
acknowledgement. The sorted lists of the code are sets with an order: `First` is the
next event sent, `Place` the number of newer issue events, which says on which page
one lies while the list moves; a pull request that is opened or updated goes to the
front of its listing, perhaps to a page already read. A poll reads
`MaxPages` pages (100 in the code). An event may lack fields the plugin requires, the
daemon may refuse one for good, and a request, a stream or an acknowledgement may be
lost: these, and updates of pull requests that are not reviews, are the *mishaps* that
`MaxMishaps` counts. *GitHubMutations* lists before it creates; an
answer may be lost after, or before, GitHub applied the request. A listing reads
`MaxListed` objects (100 pages of 100) and takes the rest for absent. *GitHubChecks*
reads head, check runs page by page (one required check on each), statuses and head
again; any of the requests may fail and end the call (`WaitFails`). *Workspaces* runs
each git command of Checkout and CommitPush as a step, the `checkout -b` after a clone
included, any of which may be killed: a killed clone leaves a repository without
commits or without its remote, a killed index command its lock, a killed `clean` some
of the files. `checkout -B` refuses when an edit is in its way, and `clean -fdx` keeps
nested repositories.

### Upgrade, Backup, Daemon, Tunnel

*Upgrade* is `install.Run` step by step, its two rollbacks, in which a step may fail
too, and a daemon that works and crashes meanwhile on whatever files are there.
*Backup* copies two databases and the plugin tree one after another while Runs,
installation and retention go on; retention deletes the row of a plugin and removes
its directory in a later step (`pruned`). *Daemon* opens its parts in order with the
error path of each, and closes them in order while webhook handlers are under way; an
edit of the Trigger writes the resource and its state row, and acceptance tests the
row. *Tunnel* is the supervising goroutine of an SSH context with its processes: one
may not start, bind late, be given up after ten seconds without being killed, exit, or
die slower than Close waits.

### How the runs compose them

The MC modules of `operator`, `node_execution`, `flows`, `terminal`, `plugins` and
`providers` hold several components. Components of one MC module share no
variables: a variable `part` (or `half`) chosen in `Init` says which of them a
behaviour exercises, and the others keep their initial or an idle state. The
reachable states are the sum, not the product, of those of the parts, every
property is checked on every part, and fairness is stated per part. Components
that do interact are modelled in one module, or one extends the other (LiveView
over ResourceStore, PluginProcesses over Plugins).

## 3. The runs

| Run | Checks | Bounds |
|---|---|---|
| `run_control` | `IndInv` (the inductive invariant, with `InstanceHasRun` and `RunHasPlan` in it); occurrences keep their Run, at most one launch, completed starts took effect, capacity, acknowledged cancellations stop, terminal phases are final | 2 occurrences, 2 Runs, capacity 1, two clients, one provider fault, one restart |
| `run_control_live` | `IntentsAreServed`: starts are dispatched, cancellations acknowledged | 2 Runs, capacity 1, signals, one client that cancels and collects, one failing redelivery or delivery, one restart |
| `plan_collected_early` | *violation*, see 6 | 2 Runs of one plan |
| `approval_redelivery_blocked` | *violation*, see 6 | two approvals |
| `operator` | approvals: acknowledged decision wins, outcomes are stable, a stored decision arrives; `UpgradeInv`, `BackupInv`, `DaemonInv`, `ContextServes` | one approval, two operators, two iterations, two restarts, one lost signal; two bundled plugins, two failing steps, one daemon crash, two Runs; one Run and two plugin versions across two restores; two deliveries of one key, two starts, one failing stage, two edits; five ssh processes, two exits, two slow ones |
| `node_execution` | `NodesInv`, `NodesSettle`; `EventAdvancesOnce`, `EventsAreHeard` | two nodes (one agent), two workers, one retry, one token per limiter, one restart, one failing transaction; two event nodes on a cycle of two turns, one of whose providers replays, two events for a Run or nobody, one break or edit |
| `flows` | `CompilerInv`, `ContractsInv`, `RunSeesPinnedCopies`, `SchedulerInv`, `InterpreterTerminates` | every document of three nodes and thousands of four; four types, also inside objects; two secrets, four edits; all 512 graphs of three nodes, one or two slots, one or two iterations |
| `triggers` | `TriggersInv`, `CursorMovesForward`, `ForbidHolds` | 2 instants, 2 events, 2 generations of either kind, two disturbances (enable, disable, restart, failing acceptance, broken stream) |
| `triggers_live` | `DueWorkIsDecided`: due instants are decided, events accepted | 1 instant, 1 event, 2 generations, two disturbances |
| `terminal` | `StoreInv`, the refinement `ImplementsSnapshots`, `ShownHistoryIsGapless`, `ViewSettles` | two keys, one editor and the controller, four revisions, pages of one, one break; two Runs, a list of one, four events of which two are kept, one break |
| `plugins` | `PluginsInv`, `ReferencedRowIsKept`, `PluginsConverge` | two versions with two digests, one of them incompatible, two generations, three operator calls, one fault; six processes, one caller, one crash, two changes of mind |
| `providers` | `CallsInv`, `GitHubInv`, `WorkspacesInv`, `ProvidersSettle` | one call with two chunks, one failing write, one crash; three events of which two may be reviews, two pages of one, three pulls, one mishap; two calls and two keys, listings of two of three objects, one lost answer; two checks, four reports, one push, any failing request; three edits of any kind, two commits of main, two cuts |

*Why these bounds.* The control path couples Runs only through capacity, the
shared plan, the mutex and the listing; two Runs and one unit of each already
contend for all of them. A second restart repeats what the first reached,
because a restart clears all volatile state; where something survives it
(approvals) two are allowed. An occurrence may be replayed at any time, also
after its Run was collected. Three nodes give every shape of join, fork, chain, diamond
side and cycle with an entry; a limit of one makes every limiter contended.
Two disturbances of a Trigger allow a disable and an enable, after which two
goroutines of one generation exist, and two events are what one of them needs to
move the cursor back. A page of one item makes every second item a new request, so
that a change falls between any two. With two pages of one, three pull requests, and
listings of two of three objects, every limit of the GitHub plugin is reached. Three
issue events are what a poll needs to find the list moved under its second page, and
one update is what a pull request needs to go from the second page to the first. With
two events kept of four, a terminal drops the oldest. Two failing steps let
a rollback fail in its turn. Two cuts hit an attempt and its retry. One plugin call suffices because
calls share nothing but the drain and the limiters (NodeExecution).
`CatchupLimit` is not reached: beyond it (10000 occurrences in the code) every pass
fails before it moves the cursor, and `DueInstantIsDecided` does not hold until the
Trigger is edited.

*Deadlock* is checked where the system runs for ever (RunControl, the violation run
of Approvals, Triggers). The other runs hold components that end, or whose bounds
on operators and faults exhaust them; there progress is stated as a property:
`NodesSettle`, `InterpreterTerminates`, `EventsAreHeard`, `ViewSettles`,
`PluginsConverge`, `ProvidersSettle`, `ContextServes`, `DecisionIsDelivered`.
Upgrade, Backup, Daemon, FlowCompiler, ActionContracts and Admission have no liveness
property: nothing but failures, which the models bound, keeps their sequential steps
from ending. Workspaces has none because none holds: after a lock or a clone without
remote every attempt of the Run fails.

*Fairness.* RunControl: the dispatch loop and a started RPC go on (a goroutine
that can run does), time passes (`Elapse`), the engine's workers run a workflow to
its end. Crashes, faults, clients and new occurrences get none. Failing redeliveries
and deliveries are bounded by `MaxFaults`: one that fails for ever ends every round and
holds up every cancellation, which the run `approval_redelivery_blocked` is about. Approvals: the
loop ticks, an RPC in progress goes on and the worker runs activities; operators
and timers get none, so that a decision has to arrive by itself. NodeExecution:
workers move, the engine hands out queued tasks, a stopping daemon starts again,
calls end by their deadline; nothing is assumed of the limiters, because every
holder of a token gives it back and the nodes are finitely many. EventNodes: the
watch of each Trigger is restarted, the loop dispatches, a node that can take an
event does; the provider, timeouts and the ends of Runs get none. Triggers: both
tickers keep firing and Go's select takes any ready case, hence strong fairness of
the two ways out of the idle state; passes and subscriptions go on, and the provider
sends what it has. Interpreter: activities return and the workflow is resumed.
Terminal: the client's goroutines and the server's ticker run; editors get none.
Plugins: the controller's ticker fires and its pass goes on, calls in progress go
on; operators, crashes and the shutdown get none. PluginCalls: handler, host and
the kill timer of a process go on; the process itself owes nothing, it may run for
ever. GitHubWatch and GitHubChecks: the poll goes on after each interval; mishaps and
failing requests get none. Tunnel: the supervising goroutine and
Close go on, a started ssh binds its path in the end unless it exits, and a killed one
dies; how often one is slower than ten seconds, or exits, is bounded.

## 4. What is proved

Proofs hold for every value of the constants, under the assumptions named in the
modules. Most say that bounds are naturals, that limits and page sizes are at least
one, and that a "none" value is not a member of its set. The others are facts of
the code: the pool of workers, the keys of the store and the versions of a plugin
are finite; event nodes are numbered from one; no bundled plugin has the name of another installed
file; instants of a schedule are later than the first moment; GitHub numbers from
one; "integer" and "number" are JSON types. TLC evaluates each of them in the runs.

Each proof module states an inductive invariant (`IndInv`, `IInv`, or one per
component), which TLC checked on the instances of the runs before it was proved,
and has one lemma per action. The prover has no induction over data, so "the first",
"the latest" and "the least" of a set are obtained from the well-foundedness of
`<` on the naturals (`LeastNat`, `SmallestNat`, `LatestExists`, `MinIs`, `MaxIs`), and
an induction over steps is the least step at which it fails (`FirstOne`,
`StepByStep`).

| Module | Theorems | Of |
|---|---|---|
| RunControlProofs | `InductiveInvariant`, `TypeCorrect`, `CancellationSafety`, `DispatchSafety`, `RetentionSafety`, `TerminalSafety`, `LaunchSafety`, `OccurrenceSafety`, `CapacitySafety` | RunControl |
| NodeExecutionProofs | `NodesInvariant`, `EventAdvancesOnceInvariant` | NodeExecution, EventNodes |
| TriggersProofs | `TriggersInvariant`, `CursorForward`, `ForbidSafety` | Triggers |
| TerminalProofs | `StoreInvariant`, `SnapshotsImplemented`, `ShownHistoryInvariant` | ResourceStore, LiveView, LiveRuns |
| PluginsProofs | `PluginsInvariant`, `ReferencedRowSafety` | Plugins, PluginProcesses |
| FlowProofs | `SchedulerInvariant`, `PinnedCopiesSafety`, `ContractsInvariant`, `CompilerInvariant` | Interpreter, Admission, ActionContracts, FlowCompiler |
| OperatorProofs | `DecisionInvariant`, `DecisionSafety`, `OutcomeSafety`, `DaemonInvariant`, `BackupInvariant`, `UpgradeInvariant` | Approvals, Daemon, Backup, Upgrade |
| ProviderProofs | `WorkspacesInvariant`, `GitHubInvariant` (from one theorem per part, `DueReviewInvariant` among them), `CallsInvariant` | Workspaces, GitHubWatch, GitHubMutations, GitHubChecks, PluginCalls |

### RunControl and Approvals

**RunControlProofs** proves `Spec /\ []ListingFits => []IndInv` and from it type
correctness, `DeliveredMeansStopped`, `CompletedStartTookEffect`, `InstanceHasRun`,
`RunHasPlan`, `TerminalPhaseIsFinal`, `LaunchedAtMostOnce`,
`OccurrenceKeepsItsRun` and `CapacityRespected`. `ListingFits` says that the
instances fit into one listing; without it the first fails (section 6). None of
the properties is inductive by itself. `IndInv` adds

* `DispatchInv`: what the loop's control point says about the row it claimed;
* `LockInv`: the mutex is held exactly by the process inside Start or Remove;
* `IdentityInv`: one Run per occurrence, one start command per Run, no row,
  instance or command for a Run that was never minted;
* `RowInv`: a Run row has its plan, an instance has its row;
* `ClosedInv`, `BatchInv`: a Run whose row was collected has no incomplete
  command, no instance and can get neither again, and every Run in a retention
  batch is terminal and stays so;
* `StopInv`: if an intent is delivered, or a deliverer is about to mark it, then
  the Run has no active instance and the loop is not creating one.

The last is the reason why creation, the check for a cancellation after it, and
delivery all run under the mutex. `MarkDeliveredIfStartImpossible` would be safe
with any one of three guards (its own predicate, the phase test in Start, the
mutex); the code has all of them.

There is one lemma per action for `IndInv`. The action properties use frame
lemmas that say which actions change a phase, an instance, a receipt or the
set of active Runs.

**OperatorProofs** proves `DecisionInv` inductive, and from it
`AcknowledgedDecisionWins` and `OutcomeIsStable`, for any number of approvals,
operators, iterations and restarts. The invariant says that an open row has
neither acknowledgement nor outcome, that a decided row agrees with all of them,
and that a row disappears only after its instance finished.

### Node attempts and event nodes

`NodesInv` says what attempt rows, history and tokens look like, and nothing of who
may write them. The invariant adds the engine's lease (`Leases`: a busy worker holds
the only lease of its node), the order of the rows (`RowsInOrder`: numbered without
gaps, ordinals never fall), the worker's claim on the newest row from
BeginNodeAttempt to CompleteNodeAttempt (`OwnsRow`), the evidence behind a result
about to be reported, and which limiter a worker queues at. That tokens match calls
is a statement about cardinalities of sets of workers, hence the finite pool.
`EventAdvancesOnce` needs `PassesFresh`: what a node passed on is in `seen`.

### Plans

`SchedulerInvariant` holds for graphs of any size, so that it starts with what the
component model computes. `ReachableFrom` is the least closed set around a node
(`ReachableIs`): every step of the search that does not end it adds a node, and
there are `N` of them. Hence nodes that reach each other, and no others, carry the
same name (`ComponentIs`), a component without a cycle has one node (`PlanIs`), and
an edge between components leads to one that reaches fewer nodes (`EdgesDescend`). A
pending component that reaches the most nodes has all its predecessors behind it,
which is why nothing deadlocks with nothing in flight (`SomeReady`); the rank of a
component only orders admissions and no property depends on it.

The invariant `SchedulerIInv` has three parts beside types. `Accounted`: the status
of a coroutine says in which list of the scheduler its component is, and `active`
counts those in flight, which is what bounds the channel. `EdgesFit`: an active edge
was produced by a component that was received, and the predecessors of an admitted
component were, so that no later result can change its inputs. `Local`: in a running
component the nodes with a reason to run (the entry, or an active edge into them) are
those that ran or are queued; it ends with an empty queue, and then `SuccessCoversPlan`
follows from the three. An error leaves `Local` weaker than success does, and
`Ended` excludes errors and rejections behind a success.

`PinnedCopiesSafety`: once the plan holds copies nothing is bound any more, and
`BindSecret` read the secret that its own copy of the profile names.
`ContractsInvariant` speaks of schemas one level deep: a verdict fixes what the types
of the two fields have in common; the subtle step is that "number" in the source
forces "number" in the target, so that the "integer" it also admits is admitted there.
What the compiler does not look at is a case of the statement and not of the
hypotheses: a mapping accepted without a warning may still be refused by the Run for a
missing optional field, a null on the way, what an object or an array holds, or a
further assertion, and for nothing else (`AcceptedMappingFits`).

`CompilerInvariant` is the correctness of `stronglyConnected` and of what `Compile`
makes of it, for documents over any finite set of identifiers. `SearchInv` says of the
search: numbers are distinct and count the visited nodes (`Numbered`); both stacks
have the latest on top, and what was visited is on the stack or in a component, never
in both (`Stacked`); an edge already looked at leads to a visited node, from a
component only into a component, and counts for the low mark on the stack (`Looked`);
a low mark is the number of a node on the stack that can be reached (`Marked`); a node
being visited leads to all above it, and all on the stack lead to one being visited
below them (`Connected`); low marks have reached the node being visited
(`Collected`); the components made so far are classes of mutual reachability
(`Classes`). When a node is left whose low mark is its own number, what lies from it
to the top has edges only into itself and into components, so that together they are
closed: nothing outside reaches back, and all of it reaches the node, which makes it a
class (`RootClass`). `CompileInv` says what each phase of `Compile` has established:
positions of first declarations, edges between declared nodes, diagnostics that are
empty exactly when the document is well formed (`NoRepetition`, `HashIs`). The sorted lists exist
because an identifier has its rank (`AscendingIs`), and `reaches` is closed after as
many waves as there are identifiers (`ReachesIs`).

### Triggers

Every store call is a transaction, and what a goroutine carries from one to the next
has to be right. The argument rests on one fact: the row of a live Trigger is of its
generation, because Apply writes both and every other caller of
`ensureTriggerStateTx` has read an older or the same one. So a pass or subscription
of an older generation is refused at its next validation, and the one write that
names no generation, `AdvanceTriggerCursor`, is harmless because the pass is no later
than the edit that replaced it (`PassIsOld`). `InstantFiresOnce` needs that what
older generations fired lies at or before the cursor (`OlderFiredPassed`) and before
the selected instant (`PassIsCurrent`); `ForbidHolds` that only this goroutine fires
schedules and that a Trigger of the other kind has another generation. The
provider cursor follows because at most one subscription is not cancelled
(`OneWatch`), and its stream stands at the cursor or holds the next event
(`WatchIsCurrent`).

### The terminal

`StoreInv` needs that a document is numbered within the log (`DocsNumbered`) and that
what an editor or the status controller read is a document of its version or older
(`CopiesHold`, `ObservationHolds`). It exempts a status whose uid is not the document's:
the generations of a re-created object start again and the store compares no identity.
`SnapshotsImplemented` is the refinement: initial
states map to initial states, a write to a step of the history, and a step of the
client to a stutter or to showing a later version. Its invariant says that the
client shows the replay at its revision (`ShowsTable`), that the pages read so far
are of the revision they claim (`PagesCurrent`), and that the wire holds the events
from there on (`WireInOrder`). `ShownHistoryIsGapless` needs that a wire continues
where the shown events end, or that the Run was forgotten and starts over; of a
history longer than the limit it says that the newest events are shown, as many as
the limit allows.

### Plugins

`PluginsInvariant` joins two specifications without common state. For the versions,
`InstallHasBundle` says that an Install call in flight has its bundle on disk, or lost
it to retention, and takes back only a directory that no row needed, which makes
`RowHasBundle` inductive. The one exception, `unbundled`, is entered by the removal of a
directory under an installation, for that version alone, and left when the version is
installed or collected again. A pass acts on resources it read some steps ago; `ActiveStatusIsTrue`
holds nevertheless because a change of `enabled` raises the generation past the
status (`StatusIsBehind`): a status that claims Active for the current generation
was there when the pass read, so the pass does not move the activation away from it
(`ClaimsAreTrue`). The proof shows it during a pass too. For the processes,
`RunningIsKnown` is not inductive, since a call that uses a process also refers to
it: `Accounted` names the owner of each running process (the map, the shutdown, or
the actor that launched it and has not inserted it), and whoever takes one out of
the map closes it. Only Enable does not close the process it replaces: that one becomes
`left`, and the theorem does not speak of it. `ReferencedRowSafety` follows from the
checks inside the two transactions that write a row; it is about plans that are stored.

### Daemon, backup, upgrade

In `DaemonIInv` the control point determines what is open; `HookRowFollowsEdits` needs
that a handler holds no generation later than the resource's, so that the row it
raises is not set back. `BackupIInv` relates the copy of one database to the live state
until the next is copied. Retention does not wait for a backup, so that what a Run in
the product snapshot pins is in the tree or was removed by retention until the tree is
walked (`TreeStillHolds`), and the restored state inherits just that
(`MissingPluginWasRemoved`). `UpgradeIInv` says for every control point which release
each file, the archive and the databases are of, also inside both rollbacks; the one
rollback that loses the state, whose two renames both fail, is exempt and reported.

### Workspaces and GitHub

No edit is committed twice because a commit takes what it contains from the edits,
and what is still an edit is in no commit of the history (`Apart`). The theorem speaks
of attempts that succeed, whatever earlier ones were cut at, and claims no repair. A
wait for checks keeps what it read good, page by page. A mutation that is alone (`Alone`) knows everything
made before it, among what a listing reads. A poll of issue events counts from the
newest: an event moves away from the front by as much as the list grows, so that a
page still to come holds it (`PagesToCome`, `QueueHasNoGap`); the proof showed that
this ends with the last page read, and the properties now name that limit. A poll of
reviews has to find those that were there when it began; a pull request that is
updated before its page is read takes its reviews out of that set, and the rest stay on
pages to come because only an update moves a pull request forward (`FrontKeeps`,
`TouchPullKeeps`, `ReadPullsKeeps`). The three GitHub components share no state: `GitHubInvariant` is about all of them side
by side.

### Calls

`CallsInvariant` holds for any number of calls, chunks, failing writes and crashes.
The invariant describes a stream from both ends. The daemon's (`Consumed`,
`Recorded`): the evidence is what was read, but for the event being worked on, none
is read after a terminal one, and a chunk is in the file before the row and in the
row before its event is evidence. The plugin's (`Spoken`): the logs said are the
chunks printed unless a sender failed, which fails the task, so that a stream with
`completed` in it has all of them and its process ended well. `OutputIsComplete`
needs both, `DrainedProcessesAreGone` that only a running task has a process while the
plugin lives (`Quiet`); it is about the processes the plugin started and descendants
that hold their output. A step changes one end, and two frame lemmas (`SpeakerKeeps`,
`ConsumerKeeps`) carry the other over.

### Only model-checked

* Liveness under fairness, and with it ENABLED: out of the prover's reach.
* The two violations; the Tunnel, whose properties are liveness.

## 5. Not modelled

`PROJECT.json` lists every component. Left out:

* *Outbox schedule*: `available_at`, `claimed_at` and deferral with explicit time.
  RunControl's `due` set allows every schedule.
* *Bundles and release packing*: reading and writing archives with digests, one
  caller, no state between calls.
* *Command line, forms, layout, graph drawing*: presentation and single RPC calls.
* *Catalogues, configuration, health*: static tables, parsing, diagnostics that
  guide no step.
* *Generated protocol code.*
* Inside modelled parts: DST arithmetic of the cron library, several Triggers in one
  pass, resolution of secret values, Doctor, validation of GitHub configurations,
  SDK registration, archive formats and path checks.

## 6. Where documents and code part

Two runs show it:

| Run | The code | The claim |
|---|---|---|
| `plan_collected_early` | collecting the last Run of a plan deletes it although an accepted start pins it | durability.md: "cannot alter or strand the accepted execution" |
| `approval_redelivery_blocked` | one decision for a finished instance stops every redelivery round | api.go: "engine reconciliation redelivers it" |

Further behaviours that the models contain, and that the properties are worded to
leave room for. Where a document or a comment of the repository reads otherwise, its
place is given.

*Runs, approvals, nodes, events, triggers*

* With more than 1000 instances `findInstance` may miss one: a cancellation is then
  acknowledged while its workflow runs on (RunControl with a small `ListLimit`).
* The second iteration of an approval node in a cycle suspends on the decided row
  of the first (Approvals).
* A call that waited for a token starts after the cancellation of its Run was
  acknowledged; a redelivery to a cancelled Run is refused before it marks the lost
  attempt, whose row stays running (NodeExecution).
* One approval whose signal keeps failing ends every round of Reconcile before the
  cancellations are listed: they are not delivered while that lasts (RunControl).
* An event whose target has ended, is missing or is of another Flow is refused for ever
  and holds up every later event of its stream, until the Trigger is edited; what had
  not been accepted when a Trigger is edited lies before the new activation and is
  never heard, unless the provider replays (EventNodes, `PostedEventIsAccepted`).
* An occurrence may be recorded as skipped and started after a restart (Triggers).

*Flows*

* A condition with a choice between a boolean path and one of unknown type is refused,
  although flow-contracts.md:39-41 reads as if an open schema gave a warning.
* The placeholder of an object is `{}`: a mapping of an object to a target with required
  members is always refused. Beyond that, members and items are not compared, and such
  a mapping may be accepted and refused by the Run; so may one whose optional source is
  missing. Validation takes a literal null on the way into the target for an object,
  which the Run does not (ActionContracts).

*Resources, views, plugins*

* A status computed for a resource that was deleted and created again is taken when
  the generations agree, although the comment at store.go:331-333 says that comparing
  generations closes the race (ResourceStore, `StatusDescribesSpec`).
* Of a Run with more than 2000 events the terminal shows the newest ones (LiveRuns).
* Retention may remove the directory of a version that was installed again after
  its transaction (`unbundled` in Plugins). A plan that is compiled and not stored yet
  does not protect its version, which may be collected before the plan is stored,
  although durability.md:158-160 says that a referenced plugin is kept.
* plugin-installations.md:30-31 says that a deleted disabled resource is recreated as
  the disabled projection; `ensureProjection` (controller.go:354) takes `enabled` from
  the activation it has read, so that a version whose resource is disabled and deleted
  before a pass deactivates it comes back enabled and stays active (Plugins).
* Enable replaces the entry of its own version in the map without closing the process
  a call had put there (manager.go:264-272): it runs on, also past the shutdown (`left`
  in PluginProcesses). Close leaves a process that a call inserts after it took the map.
* A descendant that let go of the output and ignores SIGTERM survives its cancelled
  call: `terminate` returns once Wait does, before the SIGKILL (runner.go:170-187), while
  runtime.go:225 has the agent and all descendants terminated (PluginCalls).
* A daemon that finds the raw log of a completed attempt longer than its artifact
  row, after a registration that failed, refuses to start (PluginCalls).

*GitHub and workspaces*

* A review may be passed over that is submitted during a poll, or whose pull request
  was updated, and so moved to a page already read, before the poll came to its page
  (`due` in GitHubWatch holds those that cannot).
* A poll fails, and so does every later one, on an event, comment or review that lacks
  a required field (github.go:510, 527-529, 571-590, 671-672), wanted or not in the case
  of a review; with more than 100 pages of pull requests the watch of reviews ends for
  good (547-549); and an event that the daemon refuses holds up those after it
  (`Blocked` in GitHubWatch).
* Two overlapping calls, or one after an abandoned request, may make two comments
  (`loose` in GitHubMutations).
* Both listings of the GitHub plugin stop after 100 pages without an error: issue
  events further back are passed over by the cursor, and a comment or pull request
  further on is not found and made a second time. `ReadyEventIsNotLost`,
  `ExistingIsReused` and `RetriesMakeOne` speak of what lies within the pages.
* A git command killed with SIGKILL leaves `.git/index.lock`, and a clone killed before
  its remote was configured a directory that is fetched into from then on: nothing
  removes either, and every later attempt of the Run fails. `checkout -B`
  (workspace.go:107) runs before `reset --hard` and refuses when an edit is in its way,
  although Checkout's comment says that it clones or resets; `clean -fdx` keeps nested
  repositories (Workspaces).

*Upgrade, backup, contexts, time*

* Work accepted between the backup of an upgrade and a rollback of the service is
  lost. A rollback whose second rename fails and whose undo fails too (install.go:421)
  leaves the state directory aside and the daemon with an empty one; both errors are
  reported (Upgrade, `AcceptedWorkSurvives`).
* A start launched between the two snapshots of a backup is completed in the restored
  outbox and has no instance in the restored history. Retention does not wait for a
  backup: a Run that is unfinished in the product snapshot may end and be collected with
  its plugin before the tree is walked, and is then restored without the plugin's
  directory; an instance whose Run was collected between the two snapshots is restored
  without its row and ends in error (Backup).
* An ssh that is given up after ten seconds is not killed. When it binds late it takes
  the socket path from its successor, and when it then exits nothing listens there
  although the goroutine waits for a process that runs: the connection does not recover,
  while Connect's comment (transport.go:33-36) says that reconnects preserve the path
  (Tunnel, `TunnelRecovers`).
* When the retries of the workflow's last activity are exhausted, the workflow ends
  and its row stays non-terminal: excluded by RunControl's assumption on go-workflows.
* Timestamps are RFC 3339 texts without trailing zeros and compared as strings,
  which may reorder claims within a second.

## 7. Plan

Done: models of every component that keeps state, the refinement of Snapshots, and
the proofs of section 4. Next, in this order:

1. **RunLifecycle**: an abstract Run (accepted, running, ended, collected) that
   RunControl implements under a refinement mapping.
2. **OutboxSchedule**: `available_at`, `claimed_at`, capacity deferral and the
   order of claims with explicit time; refines the `due` set of RunControl.
3. A second Trigger in the controller's pass, and several calls in PluginCalls.
