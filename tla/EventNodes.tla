----------------------------- MODULE EventNodes -----------------------------
(***************************************************************************)
(* Signals from a provider to the core.event nodes of waiting Runs.  A     *)
(* Trigger watches a stream of events; each names the Run it is meant for. *)
(* Accepting one stores a receipt, a signal command and the cursor; the    *)
(* dispatch loop sends the command at least once; the node takes it from   *)
(* its signal channel.  The event nodes of a Run lie on one cycle and      *)
(* share the identities they have seen; the nodes between them, and        *)
(* whether an edge is activated, are Interpreter's.                        *)
(***************************************************************************)
EXTENDS Naturals, Sequences

CONSTANTS Targets,    \* the Runs
          Nobody,     \* what an event is meant for that names no Run, a Run that is
                      \* not there, one of another Flow or one without the node
          Replay,     \* Triggers whose configuration asks for existing events
          Gates,      \* 1..n: the event nodes of the cycle; Trigger g signals node g
          MaxPosted,  \* bound: events of the provider
          MaxTurns,   \* loop.maxIterations of the cycle
          MaxBreaks   \* bound: broken streams, edits and restarts

ASSUME EventNodesAssumption ==
    /\ 1 \in Gates /\ Gates \subseteq Nat /\ Nobody \notin Targets
    /\ MaxPosted \in Nat /\ MaxTurns \in Nat /\ MaxBreaks \in Nat

VARIABLES posted,    \* the provider's events, each with the Run it is meant for
          offset,    \* Trigger -> how far its stream has been read, or Off
          mark,      \* Trigger -> its stored cursor, 0 for none
          fence,     \* Trigger -> the events before its generation was activated
          receipts,  \* <<Trigger, event>> accepted
          signals,   \* the signal-run commands: <<Trigger, event>> -> state
          life,       \* Run -> open; closed, its phase is terminal; finished, so is its instance
          inbox,     \* Run -> node -> the signal channel kept by the history
          wait,      \* Run -> where its interpreter is
          turns,     \* Run -> node -> executions
          seen,      \* Run -> seenEventIDs of the component
          passed,    \* Run -> the node executions that succeeded, with their events
          breaks

eventVars == <<posted, offset, mark, fence, receipts, signals, life, inbox, wait, turns, seen, passed, breaks>>
streamVars == <<posted, offset, mark, fence, receipts>>
waitVars == <<inbox, wait, turns, seen, passed>>

Off == MaxPosted + 1
NoEvent == 0

EventsInit ==
    /\ posted = <<>> /\ receipts = {} /\ breaks = 0
    /\ offset = [g \in Gates |-> Off] /\ mark = [g \in Gates |-> 0]
    /\ fence = [g \in Gates |-> 0]
    /\ signals = <<>>
    /\ life = [t \in Targets |-> "open"]
    /\ inbox = [t \in Targets |-> [g \in Gates |-> <<>>]]
    /\ wait = [t \in Targets |-> [at |-> 1, step |-> "idle", event |-> NoEvent]]
    /\ turns = [t \in Targets |-> [g \in Gates |-> 0]]
    /\ seen = [t \in Targets |-> {}]
    /\ passed = [t \in Targets |-> <<>>]

Break == breaks < MaxBreaks /\ breaks' = breaks + 1

-----------------------------------------------------------------------------
(* The provider and the subscription.                                      *)

Post(t) ==
    /\ Len(posted) < MaxPosted
    /\ posted' = Append(posted, t)
    /\ UNCHANGED <<offset, mark, fence, receipts, signals, life, waitVars, breaks>>

\* watchProvider resumes the stream behind the stored cursor; without one the
\* provider begins at the activation, or at its first event when asked to.
OpenStream(g) ==
    /\ offset[g] = Off
    /\ offset' = [offset EXCEPT ![g] = IF mark[g] = 0 /\ g \notin Replay THEN fence[g] ELSE mark[g]]
    /\ UNCHANGED <<posted, mark, fence, receipts, signals, life, waitVars, breaks>>

Coming(g, e) == offset[g] # Off /\ e = offset[g] + 1 /\ e <= Len(posted)

Passes(g, e) == mark' = [mark EXCEPT ![g] = e] /\ offset' = [offset EXCEPT ![g] = e]

\* validateSignalTargetTx: the Run is there, not terminal, of the Trigger's Flow,
\* and its plan has the node.
ValidTarget(e) == posted[e] \in Targets /\ life[posted[e]] = "open"

\* One transaction: receipt, command and cursor, or the cursor alone when the
\* receipt exists.
AcceptProviderSignal(g, e) ==
    /\ Coming(g, e)
    /\ \/ <<g, e>> \in receipts /\ UNCHANGED <<receipts, signals>>
       \/ /\ <<g, e>> \notin receipts /\ ValidTarget(e)
          /\ receipts' = receipts \union {<<g, e>>}
          /\ signals' = [s \in receipts' |-> IF s = <<g, e>> THEN "pending" ELSE signals[s]]
    /\ Passes(g, e)
    /\ UNCHANGED <<posted, fence, life, waitVars, breaks>>

\* The error ends the stream; the cursor stays behind the event.
SignalRefused(g, e) ==
    /\ Coming(g, e) /\ <<g, e>> \notin receipts /\ ~ ValidTarget(e)
    /\ offset' = [offset EXCEPT ![g] = Off]
    /\ UNCHANGED <<posted, mark, fence, receipts, signals, life, waitVars, breaks>>

StreamBreaks(g) ==
    /\ Break /\ offset[g] # Off
    /\ offset' = [offset EXCEPT ![g] = Off]
    /\ UNCHANGED <<posted, mark, fence, receipts, signals, life, waitVars>>

\* A new generation of the Trigger starts without a cursor, from now on, and what
\* the older stream still delivers is refused.
EditTrigger(g) ==
    /\ Break
    /\ mark' = [mark EXCEPT ![g] = 0] /\ offset' = [offset EXCEPT ![g] = Off]
    /\ fence' = [fence EXCEPT ![g] = Len(posted)]
    /\ UNCHANGED <<posted, receipts, signals, life, waitVars>>

-----------------------------------------------------------------------------
(* The dispatch loop, one command at a time.                               *)

\* Mutant: completed before it is sent; what a crash in between interrupts is lost.
ReconcileSignalLate(s) ==
    LET t == posted[s[2]]  g == s[1] IN
    /\ signals[s] = "pending"
    /\ \A r \in DOMAIN signals : signals[r] # "sent"
    /\ life[t] # "finished"
    /\ \/ inbox' = [inbox EXCEPT ![t][g] = Append(@, s[2])] /\ UNCHANGED breaks
       \/ Break /\ UNCHANGED inbox
    /\ signals' = [signals EXCEPT ![s] = "completed"]
    /\ UNCHANGED <<streamVars, life, wait, turns, seen, passed>>

\* reconcileSignal: SignalWorkflow reaches an instance that has not finished;
\* otherwise the command is retried and nothing changes.
ReconcileSignal(s) ==
    LET t == posted[s[2]]  g == s[1] IN
    /\ signals[s] = "pending"
    /\ \A r \in DOMAIN signals : signals[r] # "sent"
    /\ life[t] # "finished"
    /\ inbox' = [inbox EXCEPT ![t][g] = Append(@, s[2])]
    /\ signals' = [signals EXCEPT ![s] = "sent"]
    /\ UNCHANGED <<streamVars, life, wait, turns, seen, passed, breaks>>

CompleteOutbox(s) ==
    /\ signals[s] = "sent"
    /\ signals' = [signals EXCEPT ![s] = "completed"]
    /\ UNCHANGED <<streamVars, life, waitVars, breaks>>

\* The daemon dies between the two: the claim goes stale and is taken over.
LoseCompletion(s) ==
    /\ Break /\ signals[s] = "sent"
    /\ signals' = [signals EXCEPT ![s] = "pending"]
    /\ UNCHANGED <<streamVars, life, waitVars>>

-----------------------------------------------------------------------------
(* executeEventNode inside the cycle.                                      *)

Stands(t, step) == life[t] # "finished" /\ wait[t].step = step

BeginEvent(t) ==
    /\ Stands(t, "idle")
    /\ turns' = [turns EXCEPT ![t][wait[t].at] = @ + 1]
    /\ wait' = [wait EXCEPT ![t].step = "waiting"]
    /\ UNCHANGED <<streamVars, signals, life, inbox, seen, passed, breaks>>

\* Mutant: the identity is stored and not asked for.
ReceiveForgetful(t) ==
    LET g == wait[t].at  e == Head(inbox[t][g]) IN
    /\ Stands(t, "waiting") /\ inbox[t][g] # <<>>
    /\ inbox' = [inbox EXCEPT ![t][g] = Tail(@)]
    /\ wait' = [wait EXCEPT ![t].event = e, ![t].step = "ending"]
    /\ seen' = [seen EXCEPT ![t] = @ \union {e}]
    /\ UNCHANGED <<streamVars, signals, life, turns, passed, breaks>>

\* Select takes a signal: its identity is new to the component or it is not.
ReceiveEvent(t) ==
    LET g == wait[t].at  e == Head(inbox[t][g]) IN
    /\ Stands(t, "waiting") /\ inbox[t][g] # <<>>
    /\ inbox' = [inbox EXCEPT ![t][g] = Tail(@)]
    /\ wait' = [wait EXCEPT ![t].event = e,
                            ![t].step = IF e \in seen[t] THEN "duplicate" ELSE "ending"]
    /\ seen' = [seen EXCEPT ![t] = @ \union {e}]
    /\ UNCHANGED <<streamVars, signals, life, turns, passed, breaks>>

IgnoreEvent(t) ==
    /\ Stands(t, "duplicate")
    /\ wait' = [wait EXCEPT ![t].event = NoEvent, ![t].step = "waiting"]
    /\ UNCHANGED <<streamVars, signals, life, inbox, turns, seen, passed, breaks>>

\* EndEvent, and the way to the next event node if its edge is activated and
\* the loop bound allows it.
EndEvent(t) ==
    LET g == wait[t].at
        next == IF g + 1 \in Gates THEN g + 1 ELSE 1
    IN
    /\ Stands(t, "ending")
    /\ passed' = [passed EXCEPT ![t] = Append(@, <<g, wait[t].event>>)]
    /\ \/ /\ turns[t][next] < MaxTurns
          /\ wait' = [wait EXCEPT ![t] = [at |-> next, step |-> "idle", event |-> NoEvent]]
       \/ wait' = [wait EXCEPT ![t].event = NoEvent, ![t].step = "over"]
    /\ UNCHANGED <<streamVars, signals, life, inbox, turns, seen, breaks>>

\* The timer wins the Select: the node, and with it the Run, fails.
EventTimesOut(t) ==
    /\ Stands(t, "waiting")
    /\ wait' = [wait EXCEPT ![t].step = "over"]
    /\ UNCHANGED <<streamVars, signals, life, inbox, turns, seen, passed, breaks>>

\* The Run's phase becomes terminal, for whatever reason, and its instance
\* ends later.
CloseRun(t) ==
    /\ life[t] = "open" /\ life' = [life EXCEPT ![t] = "closed"]
    /\ UNCHANGED <<streamVars, signals, waitVars, breaks>>
FinishRun(t) ==
    /\ life[t] = "closed" /\ life' = [life EXCEPT ![t] = "finished"]
    /\ UNCHANGED <<streamVars, signals, waitVars, breaks>>

-----------------------------------------------------------------------------
Subscription(g) ==
    OpenStream(g) \/ \E e \in 1..MaxPosted : AcceptProviderSignal(g, e) \/ SignalRefused(g, e)
Dispatching == \E s \in DOMAIN signals : ReconcileSignal(s) \/ CompleteOutbox(s)
EventNode(t) == BeginEvent(t) \/ ReceiveEvent(t) \/ IgnoreEvent(t) \/ EndEvent(t)

EventsNext ==
    \/ \E g \in Gates : Subscription(g) \/ StreamBreaks(g) \/ EditTrigger(g)
    \/ Dispatching \/ \E s \in DOMAIN signals : LoseCompletion(s)
    \/ \E t \in Targets \union {Nobody} : Post(t)
    \/ \E t \in Targets : EventNode(t) \/ EventTimesOut(t) \/ CloseRun(t) \/ FinishRun(t)

EventsSpec == EventsInit /\ [][EventsNext]_eventVars

-----------------------------------------------------------------------------
(* Properties.                                                             *)

\* An event advances the graph of its Run once: not again when its command is
\* sent twice, when the Trigger replays it without a cursor, or when the cycle
\* comes back to the node (executeEventNode's seenEventIDs, IgnoreEvent).
EventAdvancesOnce ==
    \A t \in Targets : \A i, j \in DOMAIN passed[t] :
        passed[t][i][2] = passed[t][j][2] => i = j

\* An event was accepted for a node that waits and has not seen it.
Starving ==
    \E s \in receipts : LET t == posted[s[2]] IN
        /\ life[t] = "open" /\ wait[t].at = s[1] /\ wait[t].step \in {"waiting", "duplicate"}
        /\ s[2] \notin seen[t]

\* No node waits for ever for an event that was accepted for it: commands
\* survive a crash and a signal sent before the wait is kept until the node
\* gets there (reconcileSignal, the signal channel of executeEventNode).
AcceptedEventIsHeard == []<> ~ Starving

\* Before the activation of the generation that is watched.
Fenced(g, e) == g \notin Replay /\ e <= fence[g]

\* Every event of the provider is accepted in the end, across broken streams,
\* edits and refusals, with two exceptions the code makes: an event that had not
\* been accepted when the Trigger was edited lies before the new activation; and
\* one whose target is refused is refused for ever and holds up what comes after
\* it, until an edit passes over it (watchProvider, validateSignalTargetTx).
PostedEventIsAccepted ==
    []<> (\A g \in Gates, e \in DOMAIN posted :
            \/ <<g, e>> \in receipts \/ Fenced(g, e)
            \/ \E d \in 1..e : ~ Fenced(g, d) /\ <<g, d>> \notin receipts /\ ~ ValidTarget(d))

\* The way of an event from the provider to the node that waits for it has no
\* other place where it is dropped: posted events are accepted, accepted ones heard.
EventsAreHeard == AcceptedEventIsHeard /\ PostedEventIsAccepted
=============================================================================
