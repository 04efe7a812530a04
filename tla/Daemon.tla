------------------------------- MODULE Daemon -------------------------------
(***************************************************************************)
(* The daemon process: Open with its error paths, Serve, Close, a crash,   *)
(* and the webhook handlers that run meanwhile, among them handlers that   *)
(* outlive the bounded shutdown of their server and meet a closed store.   *)
(* Two deliveries of one webhook carry the same idempotency key.           *)
(***************************************************************************)
EXTENDS Naturals, FiniteSets

CONSTANTS Deliveries,     \* webhook requests
          HookKeys,       \* idempotency keys
          MaxOpens,       \* bound: starts of the daemon
          MaxOpenFaults,  \* bound: failing steps of Open
          MaxHookEdits    \* bound: edits of the Trigger

VARIABLES proc,      \* the control point of the process
          held,      \* the resources that are open
          socket,    \* the socket path exists
          hook,      \* the Trigger: its generation, enabled
          hookState, \* its trigger_states row
          receipts,  \* HookKeys -> the number of receipts
          request,   \* Deliveries -> the handler's control point and what it read
          opens, openFaults

daemonVars == <<proc, held, socket, hook, hookState, receipts, request, opens, openFaults>>

NoRequest == [at |-> "idle", key |-> "none", seen |-> 0]

DaemonInit ==
    /\ proc = "down" /\ held = {} /\ socket = FALSE
    /\ hook = [gen |-> 1, enabled |-> TRUE] /\ hookState = [gen |-> 1, enabled |-> TRUE]
    /\ receipts = [k \in HookKeys |-> 0] /\ request = [d \in Deliveries |-> NoRequest]
    /\ opens = 0 /\ openFaults = 0

-----------------------------------------------------------------------------
(* Open: each stage either opens its resource or fails; a failure closes   *)
(* what the error path names, and the deferred call closes the plugins.    *)

OpenOrder == [socket |-> "store", store |-> "artifacts", artifacts |-> "controller",
              controller |-> "engine", engine |-> "listen", listen |-> "mode", mode |-> "ingress",
              ingress |-> "serving"]
Opened(stage) == CASE stage = "store" -> {"store", "plugins"} [] stage = "engine" -> {"engine"}
                   [] stage = "listen" -> {"listener"} [] stage = "ingress" -> {"ingress"}
                   [] OTHER -> {}

ErrorCloses(stage) ==
    CASE stage \in {"socket", "store"} -> {}
      [] stage \in {"artifacts", "controller", "engine"} -> {"store"}
      [] stage = "listen" -> {"engine", "store"}
      [] OTHER -> {"listener", "engine", "store"}

BeginOpen ==
    /\ proc = "down" /\ opens < MaxOpens
    /\ opens' = opens + 1 /\ proc' = "socket"
    /\ UNCHANGED <<held, socket, hook, hookState, receipts, request, openFaults>>

\* prepareSocket removes a stale socket, Listen creates it.
OpenStage ==
    /\ proc \in DOMAIN OpenOrder
    /\ proc = "listen" => ~socket
    /\ held' = held \cup Opened(proc) /\ proc' = OpenOrder[proc]
    /\ socket' = CASE proc = "socket" -> FALSE [] proc = "listen" -> TRUE [] OTHER -> socket
    /\ UNCHANGED <<hook, hookState, receipts, request, opens, openFaults>>

OpenFails ==
    /\ proc \in DOMAIN OpenOrder /\ openFaults < MaxOpenFaults /\ openFaults' = openFaults + 1
    /\ held' = held \ (ErrorCloses(proc) \cup {"plugins"}) /\ proc' = "down"
    /\ socket' = (socket /\ "listener" \notin ErrorCloses(proc))
    /\ UNCHANGED <<hook, hookState, receipts, request, opens>>

-----------------------------------------------------------------------------
(* Serve and Close.                                                        *)

\* The context ends, or a server fails.
StopServing ==
    /\ proc = "serving" /\ proc' = "closeListener"
    /\ UNCHANGED <<held, socket, hook, hookState, receipts, request, opens, openFaults>>

CloseListener ==
    /\ proc = "closeListener" /\ proc' = "closeIngress"
    /\ held' = held \ {"listener"} /\ socket' = FALSE
    /\ UNCHANGED <<hook, hookState, receipts, request, opens, openFaults>>

\* Shutdown waits for the handlers, five seconds at most.
CloseIngress ==
    /\ proc = "closeIngress"
    /\ proc' = "closeEngine" /\ held' = held \ {"ingress"}
    /\ UNCHANGED <<socket, hook, hookState, receipts, request, opens, openFaults>>

CloseRest ==
    /\ \/ proc = "closeEngine" /\ proc' = "closePlugins" /\ held' = held \ {"engine"}
       \/ proc = "closePlugins" /\ proc' = "closeStore" /\ held' = held \ {"plugins"}
       \/ proc = "closeStore" /\ proc' = "closed" /\ held' = held \ {"store"}
    /\ UNCHANGED <<socket, hook, hookState, receipts, request, opens, openFaults>>

\* The process ends, and its handlers with it.
Leave ==
    /\ proc = "closed" /\ proc' = "down"
    /\ request' = [d \in Deliveries |-> NoRequest] /\ socket' = FALSE
    /\ UNCHANGED <<held, hook, hookState, receipts, opens, openFaults>>

CrashDaemon ==
    /\ proc # "down" /\ opens < MaxOpens
    /\ proc' = "down" /\ held' = {} /\ request' = [d \in Deliveries |-> NoRequest]
    /\ UNCHANGED <<socket, hook, hookState, receipts, opens, openFaults>>

DaemonStep ==
    OpenStage \/ CloseListener \/ CloseIngress \/ CloseRest \/ Leave

-----------------------------------------------------------------------------
(* ServeHTTP.                                                              *)

Reply(d) == request' = [request EXCEPT ![d] = NoRequest]
ToStep(d, label) == request' = [request EXCEPT ![d].at = label]
HookQuiet == UNCHANGED <<proc, held, socket, hook, opens, openFaults>>

SendHook(d, k) ==
    /\ proc = "serving" /\ request[d].at = "idle"
    /\ request' = [request EXCEPT ![d] = [at |-> "lookup", key |-> k, seen |-> 0]]
    /\ HookQuiet /\ UNCHANGED <<hookState, receipts>>

\* ResourceByUID and the Trigger's own switch; a closed store answers 404.
LookupHook(d) ==
    /\ request[d].at = "lookup"
    /\ IF "store" \in held /\ hook.enabled
       THEN request' = [request EXCEPT ![d].at = "state", ![d].seen = hook.gen]
       ELSE Reply(d)
    /\ HookQuiet /\ UNCHANGED <<hookState, receipts>>

\* EnsureTriggerState raises the row to the generation it was given.
EnsureHookState(d) ==
    /\ request[d].at = "state"
    /\ IF "store" \notin held \/ hookState.gen > request[d].seen
       THEN Reply(d) /\ UNCHANGED hookState
       ELSE IF hookState.gen < request[d].seen
       THEN ToStep(d, "body") /\ hookState' = [gen |-> request[d].seen, enabled |-> TRUE]
       ELSE (IF hookState.enabled THEN ToStep(d, "body") ELSE Reply(d)) /\ UNCHANGED hookState
    /\ HookQuiet /\ UNCHANGED receipts

\* The secret, the token, the body and the key are in order, or the request ends.
ReadHookBody(d) ==
    /\ request[d].at = "body"
    /\ ToStep(d, "receipt") \/ Reply(d)
    /\ HookQuiet /\ UNCHANGED <<hookState, receipts>>

\* ReceiptByOccurrence answers a known occurrence; otherwise the Flow is
\* compiled, which may fail.
FindReceipt(d) ==
    /\ request[d].at = "receipt"
    /\ IF "store" \notin held \/ receipts[request[d].key] > 0 THEN Reply(d)
       ELSE ToStep(d, "accept") \/ Reply(d)
    /\ HookQuiet /\ UNCHANGED <<hookState, receipts>>

\* validateTriggerAcceptanceTx: the resource and the row are of the generation
\* the handler read, and the row is enabled.
HookValid(d) == hook.gen = request[d].seen /\ hookState.gen = request[d].seen /\ hookState.enabled

\* Mutant: the occurrence is not looked up again.
AcceptHookAgain(d) ==
    /\ request[d].at = "accept"
    /\ IF "store" \in held /\ HookValid(d)
       THEN receipts' = [receipts EXCEPT ![request[d].key] = @ + 1]
       ELSE UNCHANGED receipts
    /\ Reply(d) /\ HookQuiet /\ UNCHANGED hookState

\* acceptTrigger: the validation and the occurrence in one transaction.
AcceptHook(d) ==
    /\ request[d].at = "accept"
    /\ IF "store" \in held /\ HookValid(d) /\ receipts[request[d].key] = 0
       THEN receipts' = [receipts EXCEPT ![request[d].key] = @ + 1]
       ELSE UNCHANGED receipts
    /\ Reply(d) /\ HookQuiet /\ UNCHANGED hookState

\* An operator edits the Trigger: Apply writes the resource and its row in one
\* transaction.
EditHook ==
    /\ proc = "serving" /\ hook.gen <= MaxHookEdits
    /\ \E b \in BOOLEAN : hook' = [gen |-> hook.gen + 1, enabled |-> b]
    /\ hookState' = hook'
    /\ UNCHANGED <<proc, held, socket, receipts, request, opens, openFaults>>

DaemonNext ==
    \/ BeginOpen \/ OpenFails \/ StopServing \/ CrashDaemon \/ DaemonStep \/ EditHook
    \/ \E d \in Deliveries : \/ LookupHook(d) \/ EnsureHookState(d) \/ ReadHookBody(d)
                             \/ FindReceipt(d) \/ AcceptHook(d)
                             \/ \E k \in HookKeys : SendHook(d, k)

DaemonSpec == DaemonInit /\ [][DaemonNext]_daemonVars

-----------------------------------------------------------------------------
(* Properties.                                                             *)

\* A daemon that is down, after a clean stop or after an Open that failed at
\* any stage, holds nothing; and while workers of the engine or handlers of
\* the server may run, the store and the plugins they use are open.
UsersAreClosedFirst ==
    /\ proc = "down" => held = {}
    /\ "engine" \in held => {"store", "plugins"} \subseteq held
    /\ "ingress" \in held => "engine" \in held

\* Deliveries of one webhook, however they interleave, are retried or cut off
\* by a stop or a crash, make one receipt.
HookIsAcceptedOnce == \A k \in HookKeys : receipts[k] <= 1

\* The row that acceptance tests says what the operator wrote last: a handler
\* that read the Trigger before an edit does not set its row back, so that a
\* disabled Trigger takes no webhook that was under way.
HookRowFollowsEdits == hookState = hook

\* What a stop, a crash or a failed Open leaves behind is closed in order, no
\* webhook caught by it is accepted a second time, and none for a Trigger that
\* was disabled meanwhile.
DaemonInv == UsersAreClosedFirst /\ HookIsAcceptedOnce /\ HookRowFollowsEdits
=============================================================================
