------------------------------ MODULE Triggers ------------------------------
(***************************************************************************)
(* The trigger controller and the durable state of one Trigger: the        *)
(* resource, its trigger_states row, the provider cursor, the receipts and *)
(* the recorded skips.                                                     *)
(*                                                                         *)
(* One goroutine of the controller runs the schedule passes and the        *)
(* provider synchronisation; each provider subscription is a goroutine of  *)
(* its own.  Operators edit, enable, disable and delete the Trigger at any *)
(* time, and every store call is a transaction of its own, so each of them *)
(* may find another generation than the step before it.                    *)
(*                                                                         *)
(* External: the clock, the provider (it sends its events in order, after  *)
(* the cursor, or after the activation time when there is no cursor) and   *)
(* the life of the Runs.  A Trigger that is deleted and applied again has  *)
(* a new UID and is another Trigger.                                       *)
(***************************************************************************)
EXTENDS Naturals, Sequences, FiniteSets, FiniteSetsExt

CONSTANTS Occurrences,      \* the instants of the cron expression
          StartingDeadline, \* spec.schedule.startingDeadline
          CatchupLimit,     \* maxCatchupScan
          Watch,            \* goroutines that run watchProvider
          NoWatch,
          MaxTime,          \* bound: the clock
          MaxGeneration,    \* bound: edits of the Trigger
          MaxEvents,        \* bound: events of the provider
          MaxDisturbances   \* bound: enable and disable calls, restarts, failing
                            \* acceptances and broken streams, together

ASSUME TriggersAssumption ==
    /\ MaxTime \in Nat /\ MaxEvents \in Nat /\ MaxGeneration \in Nat \ {0}
    /\ Occurrences \subseteq 1..MaxTime
    /\ StartingDeadline \in Nat /\ CatchupLimit \in Nat \ {0}
    /\ NoWatch \notin Watch
    /\ MaxDisturbances \in Nat

VARIABLES
    res,       \* the Trigger resource: live, generation, kind, spec.enabled
    row,       \* its trigger_states row, generation 0 without one
    cursor,    \* its provider_cursors row: the last event, 0 without one
    receipt,   \* occurrence identity |-> its receipt and Run
    skips,     \* trigger_skips
    now,       \* the clock
    born,      \* times of the provider's events
    pass,      \* the controller's goroutine: control point and locals
    sub,       \* Controller.subscriptions of this Trigger
    watch,     \* watchProvider goroutines: control point and locals
    op,        \* an EnableTrigger or DisableTrigger call
    activated, \* history: when each generation was applied
    disturbances

storeVars == <<res, row, cursor, receipt, skips, activated>>
loopVars  == <<pass, sub>>
worldVars == <<now, born>>
vars == <<storeVars, loopVars, watch, op, worldVars, disturbances>>

-----------------------------------------------------------------------------
Time       == 0..MaxTime
Generation == 1..MaxGeneration
Event      == 1..MaxEvents
Kind       == {"schedule", "provider"}

\* OccurrenceIdentity of a schedule holds its generation; a provider's event
\* is identified by the provider alone (generation 0).
Identity == (Generation \X Occurrences) \union ({0} \X Event)

NoRow == [gen |-> 0, on |-> FALSE, at |-> 0]
Row   == [gen : 0..MaxGeneration, on : BOOLEAN, at : Time]
Idle  == [pc |-> "idle", gen |-> 0, on |-> FALSE, now |-> 0, at |-> 0]
Pass  == [pc : {"idle", "list", "ensure", "decide", "skip", "accept", "advance",
                "syncEnsure", "subscribe"},
          gen : 0..MaxGeneration, on : BOOLEAN, now : Time, at : Time]
NoCall   == [pc |-> "idle", gen |-> 0, on |-> FALSE, enabled |-> FALSE]
Call     == [pc : {"idle", "ensure", "set"}, gen : 0..MaxGeneration, on : BOOLEAN,
             enabled : BOOLEAN]
Stopped  == [pc |-> "none", gen |-> 0, at |-> 0, pos |-> 0,
             cancelled |-> FALSE]
Watching == [pc : {"none", "ensure", "cursor", "stream", "accept", "backoff"},
             gen : 0..MaxGeneration, at : Time, pos : 0..MaxEvents,
             cancelled : BOOLEAN]

TypeOK ==
    /\ res \in [live : BOOLEAN, gen : 0..MaxGeneration, kind : Kind, on : BOOLEAN]
    /\ row \in Row
    /\ cursor \in 0..MaxEvents
    /\ receipt \in [Identity -> {"none", "pending", "running", "done"}]
    /\ skips \subseteq Generation \X Occurrences
    /\ now \in Time
    /\ born \in Seq(Time) /\ Len(born) <= MaxEvents
    /\ pass \in Pass
    /\ sub \in Watch \union {NoWatch}
    /\ watch \in [Watch -> Watching]
    /\ op \in Call
    /\ activated \in [Generation -> Time]
    /\ disturbances \in 0..MaxDisturbances

Init ==
    /\ res = [live |-> FALSE, gen |-> 0, kind |-> "schedule", on |-> FALSE]
    /\ row = NoRow
    /\ cursor = 0
    /\ receipt = [i \in Identity |-> "none"]
    /\ skips = {}
    /\ now = 0 /\ born = <<>>
    /\ pass = Idle /\ sub = NoWatch
    /\ watch = [w \in Watch |-> Stopped]
    /\ op = NoCall
    /\ activated = [g \in Generation |-> 0]
    /\ disturbances = 0

Disturb ==
    /\ disturbances < MaxDisturbances
    /\ disturbances' = disturbances + 1

-----------------------------------------------------------------------------
(* The store.                                                              *)

\* The row after ensureTriggerStateTx(generation, enabled, initial cursor).
ResetRow(g, on, t) == [gen |-> g, on |-> on, at |-> t]

EnsureTriggerState(g, on, t) ==
    /\ row.gen <= g
    /\ row' = IF row.gen = g THEN row ELSE ResetRow(g, on, t)
    /\ cursor' = IF row.gen \in {0, g} THEN cursor ELSE 0

\* ... and the call that finds a later generation: StaleTriggerGenerationError.
Stale(g) == row.gen > g

\* validateTriggerAcceptanceTx.
Acceptable(g) ==
    /\ res.live /\ res.gen = g
    /\ row.gen = g /\ row.on

\* Mutant: only receipts with a Run row are counted.
HasStartedRun == \E i \in Identity : receipt[i] = "running"

\* HasActiveRunForTrigger: a receipt without a Run row counts as active.
HasActiveRun == \E i \in Identity : receipt[i] \in {"pending", "running"}

\* Apply of a new Trigger, or of an edited specification.
Apply(kind, on) ==
    /\ res.live \/ res.gen = 0
    /\ res.gen < MaxGeneration
    /\ res' = [live |-> TRUE, gen |-> res.gen + 1, kind |-> kind, on |-> on]
    /\ EnsureTriggerState(res.gen + 1, on, now)
    /\ activated' = [activated EXCEPT ![res.gen + 1] = now]
    /\ UNCHANGED <<receipt, skips, loopVars, watch, op, worldVars, disturbances>>

Delete ==
    /\ res.live
    /\ res' = [res EXCEPT !.live = FALSE]
    /\ row' = NoRow
    /\ cursor' = 0
    /\ UNCHANGED <<receipt, skips, activated, loopVars, watch, op, worldVars, disturbances>>

-----------------------------------------------------------------------------
(* API.SetTriggerEnabled: read the resource, ensure the row, set the flag. *)

ReadTrigger(enabled) ==
    /\ op.pc = "idle"
    /\ res.live
    /\ Disturb
    /\ op' = [pc |-> "ensure", gen |-> res.gen, on |-> res.on, enabled |-> enabled]
    /\ UNCHANGED <<storeVars, loopVars, watch, worldVars>>

EnsureForCall ==
    /\ op.pc = "ensure"
    /\ \/ /\ EnsureTriggerState(op.gen, op.on, now)
          /\ op' = [op EXCEPT !.pc = "set"]
       \/ /\ Stale(op.gen)
          /\ op' = NoCall
          /\ UNCHANGED <<row, cursor>>
    /\ UNCHANGED <<res, receipt, skips, activated, loopVars, watch, worldVars, disturbances>>

SetTriggerEnabled ==
    /\ op.pc = "set"
    /\ row' = IF row = NoRow THEN row ELSE [row EXCEPT !.on = op.enabled]
    /\ op' = NoCall
    /\ UNCHANGED <<res, cursor, receipt, skips, activated, loopVars, watch, worldVars, disturbances>>

-----------------------------------------------------------------------------
(* ReconcileSchedules.                                                     *)

Goto(label) == pass' = [pass EXCEPT !.pc = label]
Return      == pass' = Idle

\* The ticker's time is the pass's time, however late the pass goes on.
ScheduleTick ==
    /\ pass.pc = "idle"
    /\ pass' = [Idle EXCEPT !.pc = "list", !.now = now]
    /\ UNCHANGED <<storeVars, sub, watch, op, worldVars, disturbances>>

ListSchedules ==
    /\ pass.pc = "list"
    /\ IF res.live /\ res.kind = "schedule"
       THEN pass' = [pass EXCEPT !.pc = "ensure", !.gen = res.gen, !.on = res.on]
       ELSE Return
    /\ UNCHANGED <<storeVars, sub, watch, op, worldVars, disturbances>>

EnsureSchedule ==
    /\ pass.pc = "ensure"
    /\ \/ /\ EnsureTriggerState(pass.gen, pass.on, pass.now)
          /\ IF row'.on THEN pass' = [pass EXCEPT !.pc = "decide", !.on = FALSE, !.at = row'.at]
                        ELSE Return
       \/ /\ Stale(pass.gen)
          /\ Return
          /\ UNCHANGED <<row, cursor>>
    /\ UNCHANGED <<res, receipt, skips, activated, sub, watch, op, worldVars, disturbances>>

\* The occurrences after the cursor that are due at the pass's time.
Due == {t \in Occurrences : pass.at < t /\ t <= pass.now}

\* Mutant: an occurrence with a receipt needs no work, not even its cursor.
BranchStays(selected) ==
    IF pass.now - selected > StartingDeadline          THEN "skip"
    ELSE IF receipt[<<pass.gen, selected>>] # "none"   THEN "idle"
    ELSE IF HasActiveRun                               THEN "skip"
                                                       ELSE "accept"

\* The branch that reconcileSchedule takes for the selected occurrence.  Only
\* this goroutine writes receipts of the generation, so that the receipt and
\* the active Runs may be read in one step.
Branch(selected) ==
    IF pass.now - selected > StartingDeadline          THEN "skip"
    ELSE IF receipt[<<pass.gen, selected>>] # "none"   THEN "advance"
    ELSE IF HasActiveRun                               THEN "skip"
                                                       ELSE "accept"

\* Only the most recent due occurrence is selected; a longer backlog than the
\* scan limit is an error.
SelectOccurrence ==
    /\ pass.pc = "decide"
    /\ IF Due = {} \/ Cardinality(Due) > CatchupLimit
       THEN Return
       ELSE pass' = [pass EXCEPT !.pc = Branch(Max(Due)), !.now = 0, !.at = Max(Due)]
    /\ UNCHANGED <<storeVars, sub, watch, op, worldVars, disturbances>>

RecordTriggerSkip ==
    /\ pass.pc = "skip"
    /\ skips' = skips \union {<<pass.gen, pass.at>>}
    /\ Goto("advance")
    /\ UNCHANGED <<res, row, cursor, receipt, activated, sub, watch, op, worldVars, disturbances>>

AcceptTrigger ==
    /\ pass.pc = "accept"
    /\ Acceptable(pass.gen)
    /\ receipt' = [receipt EXCEPT ![<<pass.gen, pass.at>>] = IF @ = "none" THEN "pending" ELSE @]
    /\ Goto("advance")
    /\ UNCHANGED <<res, row, cursor, skips, activated, sub, watch, op, worldVars, disturbances>>

\* The Trigger changed since it was listed: the pass ends with an error.
AcceptRefused ==
    /\ pass.pc = "accept"
    /\ ~ Acceptable(pass.gen)
    /\ Return
    /\ UNCHANGED <<storeVars, sub, watch, op, worldVars, disturbances>>

\* Mutant: the cursor moves although the acceptance failed.
AcceptFailsAdvance ==
    /\ pass.pc = "accept"
    /\ Disturb
    /\ Goto("advance")
    /\ UNCHANGED <<storeVars, sub, watch, op, worldVars>>

\* The Flow does not compile, or the transaction fails.
AcceptFails ==
    /\ pass.pc = "accept"
    /\ Disturb
    /\ Return
    /\ UNCHANGED <<storeVars, sub, watch, op, worldVars>>

\* The update names the Trigger, not the generation it was computed for.
AdvanceTriggerCursor ==
    /\ pass.pc = "advance"
    /\ row' = IF row = NoRow THEN row ELSE [row EXCEPT !.at = pass.at]
    /\ Return
    /\ UNCHANGED <<res, cursor, receipt, skips, activated, sub, watch, op, worldVars, disturbances>>

ReconcileSchedules ==
    \/ ListSchedules \/ EnsureSchedule \/ SelectOccurrence \/ RecordTriggerSkip
    \/ AcceptTrigger \/ AcceptRefused \/ AcceptFails \/ AdvanceTriggerCursor

-----------------------------------------------------------------------------
(* syncProviders.                                                          *)

ListProviders ==
    /\ pass.pc = "idle"
    /\ pass' = IF res.live /\ res.kind = "provider"
               THEN [Idle EXCEPT !.pc = "syncEnsure", !.gen = res.gen, !.on = res.on]
               ELSE [Idle EXCEPT !.pc = "subscribe"]
    /\ UNCHANGED <<storeVars, sub, watch, op, worldVars, disturbances>>

\* An enabled Trigger is wanted; a stale one ends the synchronisation.
EnsureProvider ==
    /\ pass.pc = "syncEnsure"
    /\ \/ /\ EnsureTriggerState(pass.gen, pass.on, now)
          /\ pass' = IF row'.on THEN [pass EXCEPT !.pc = "subscribe", !.on = FALSE]
                                ELSE [Idle EXCEPT !.pc = "subscribe"]
       \/ /\ Stale(pass.gen)
          /\ Return
          /\ UNCHANGED <<row, cursor>>
    /\ UNCHANGED <<res, receipt, skips, activated, sub, watch, op, worldVars, disturbances>>

\* The subscription stays when its generation is the wanted one.
Unwanted == sub # NoWatch /\ watch[sub].gen # pass.gen

Cancelled(local) == [local EXCEPT !.cancelled = TRUE]

\* A goroutine that is not running; which one does not matter.
FreeWatch == CHOOSE w \in Watch : watch[w] = Stopped

Subscribe ==
    /\ pass.pc = "subscribe"
    /\ LET kept    == sub # NoWatch /\ ~ Unwanted
           stopped == [w \in Watch |-> IF w = sub /\ Unwanted THEN Cancelled(watch[w]) ELSE watch[w]]
       IN  \/ /\ kept \/ pass.gen = 0
              /\ sub' = IF kept THEN sub ELSE NoWatch
              /\ watch' = stopped
           \/ /\ ~ kept /\ pass.gen # 0
              /\ \E w \in Watch : watch[w] = Stopped
              /\ sub' = FreeWatch
              /\ watch' = [stopped EXCEPT ![FreeWatch] = [Stopped EXCEPT !.pc = "ensure", !.gen = pass.gen]]
    /\ Return
    /\ UNCHANGED <<storeVars, op, worldVars, disturbances>>

SyncProviders == EnsureProvider \/ Subscribe

-----------------------------------------------------------------------------
(* watchProvider and the stream of WatchTrigger.  A call under a cancelled *)
(* context fails.                                                          *)

Runs(w, label) == watch[w].pc = label /\ ~ watch[w].cancelled
Move(w, label) == watch' = [watch EXCEPT ![w].pc = label]
Back(w)        == watch' = [watch EXCEPT ![w] = [@ EXCEPT !.pc = "backoff", !.at = 0, !.pos = 0]]

EnsureWatch(w) ==
    /\ Runs(w, "ensure")
    /\ \/ /\ EnsureTriggerState(watch[w].gen, TRUE, now)
          /\ watch' = [watch EXCEPT ![w].pc = "cursor", ![w].at = row'.at]
       \/ /\ Stale(watch[w].gen)
          /\ Back(w)
          /\ UNCHANGED <<row, cursor>>
    /\ UNCHANGED <<res, receipt, skips, activated, loopVars, op, worldVars, disturbances>>

ProviderCursor(w) ==
    /\ Runs(w, "cursor")
    /\ watch' = [watch EXCEPT ![w].pc = "stream", ![w].pos = cursor,
                              ![w].at = IF cursor = 0 THEN @ ELSE 0]
    /\ UNCHANGED <<storeVars, loopVars, op, worldVars, disturbances>>

\* The events that the provider still has to send on this stream.
Remaining(w) ==
    {e \in DOMAIN born : IF watch[w].pos > 0 THEN e > watch[w].pos ELSE born[e] > watch[w].at}

Receive(w) ==
    /\ Runs(w, "stream")
    /\ Remaining(w) # {}
    /\ watch' = [watch EXCEPT ![w].pc = "accept", ![w].pos = Min(Remaining(w)), ![w].at = 0]
    /\ UNCHANGED <<storeVars, loopVars, op, worldVars, disturbances>>

\* Mutant: the acceptance does not use the context of its subscription.
AcceptDetached(w) ==
    /\ watch[w].pc = "accept"
    /\ Acceptable(watch[w].gen)
    /\ receipt' = [receipt EXCEPT ![<<0, watch[w].pos>>] = IF @ = "none" THEN "pending" ELSE @]
    /\ cursor' = watch[w].pos
    /\ Move(w, "stream")
    /\ UNCHANGED <<res, row, skips, activated, loopVars, op, worldVars, disturbances>>

\* AcceptProviderTrigger: receipt and cursor commit together, and an event
\* with a receipt only moves the cursor.
AcceptEvent(w) ==
    /\ Runs(w, "accept")
    /\ Acceptable(watch[w].gen)
    /\ receipt' = [receipt EXCEPT ![<<0, watch[w].pos>>] = IF @ = "none" THEN "pending" ELSE @]
    /\ cursor' = watch[w].pos
    /\ Move(w, "stream")
    /\ UNCHANGED <<res, row, skips, activated, loopVars, op, worldVars, disturbances>>

\* The acceptance fails and WatchTrigger returns its error.
EventRefused(w) ==
    /\ Runs(w, "accept")
    /\ ~ Acceptable(watch[w].gen)
    /\ Back(w)
    /\ UNCHANGED <<storeVars, loopVars, op, worldVars, disturbances>>

\* The stream breaks, before or after the acceptance of an event.
StreamFails(w) ==
    /\ Runs(w, "stream") \/ Runs(w, "accept")
    /\ Disturb
    /\ Back(w)
    /\ UNCHANGED <<storeVars, loopVars, op, worldVars>>

Retry(w) ==
    /\ Runs(w, "backoff")
    /\ Move(w, "ensure")
    /\ UNCHANGED <<storeVars, loopVars, op, worldVars, disturbances>>

\* The goroutine of a cancelled subscription ends at its next step.
WatchEnds(w) ==
    /\ watch[w].cancelled
    /\ watch' = [watch EXCEPT ![w] = Stopped]
    /\ UNCHANGED <<storeVars, loopVars, op, worldVars, disturbances>>

WatchProvider(w) ==
    \/ EnsureWatch(w) \/ ProviderCursor(w) \/ Receive(w) \/ AcceptEvent(w)
    \/ EventRefused(w) \/ StreamFails(w) \/ Retry(w) \/ WatchEnds(w)

-----------------------------------------------------------------------------
(* The clock, the provider, the Runs and the daemon.                       *)

Tick ==
    /\ now < MaxTime
    /\ now' = now + 1
    /\ UNCHANGED <<storeVars, loopVars, watch, op, born, disturbances>>

\* Something happens at the provider; no two events share a timestamp.
Produce ==
    /\ now < MaxTime /\ Len(born) < MaxEvents
    /\ now' = now + 1
    /\ born' = Append(born, now + 1)
    /\ UNCHANGED <<storeVars, loopVars, watch, op, disturbances>>

\* The start of an accepted Run is dispatched; the Run ends, and may be
\* collected, which leaves a tombstone of its receipt.
RunAdvances(i) ==
    /\ receipt[i] \in {"pending", "running"}
    /\ receipt' = [receipt EXCEPT ![i] = IF @ = "pending" THEN "running" ELSE "done"]
    /\ UNCHANGED <<res, row, cursor, skips, activated, loopVars, watch, op, worldVars, disturbances>>

Restart ==
    /\ Disturb
    /\ pass' = Idle /\ sub' = NoWatch
    /\ watch' = [w \in Watch |-> Stopped]
    /\ op' = NoCall
    /\ UNCHANGED <<storeVars, worldVars>>

-----------------------------------------------------------------------------
Next ==
    \/ \E kind \in Kind, on \in BOOLEAN : Apply(kind, on)
    \/ Delete
    \/ \E enabled \in BOOLEAN : ReadTrigger(enabled)
    \/ EnsureForCall \/ SetTriggerEnabled
    \/ ScheduleTick \/ ReconcileSchedules
    \/ ListProviders \/ SyncProviders
    \/ \E w \in Watch : WatchProvider(w)
    \/ Tick \/ Produce
    \/ \E i \in Identity : RunAdvances(i)
    \/ Restart

Spec == Init /\ [][Next]_vars

\* Both tickers keep firing and select takes either of two ready cases, the
\* goroutines run, and the provider sends what it has.  Nothing is assumed
\* of operators, of the clock, of the Runs or of restarts.
Fairness ==
    /\ SF_vars(ScheduleTick) /\ SF_vars(ListProviders)
    /\ WF_vars(ReconcileSchedules) /\ WF_vars(SyncProviders)
    /\ \A w \in Watch : WF_vars(WatchProvider(w))

FairSpec == Spec /\ Fairness

-----------------------------------------------------------------------------
(* Properties.                                                             *)

\* The provider cursor never passes an event of the current generation that
\* has no receipt: what the cursor has passed is never delivered again.
CursorNotAheadOfReceipts ==
    res.live =>
        \A e \in DOMAIN born :
            e <= cursor /\ born[e] > activated[res.gen] => receipt[<<0, e>>] # "none"

\* Within a generation the provider cursor never moves back, although the
\* upsert is unconditional and two goroutines may exist for one Trigger.
CursorMovesForward ==
    [][row'.gen = row.gen => cursor' >= cursor]_vars

\* The schedule cursor stands on an instant of its generation only when that
\* instant is decided: it has a receipt or a recorded skip.
CursorOnDecidedInstant ==
    row.at \in Occurrences /\ row.gen # 0 /\ res.live /\ row.at > activated[row.gen]
        => receipt[<<row.gen, row.at>>] # "none" \/ <<row.gen, row.at>> \in skips

\* An instant starts one Run at most, whatever edits and restarts fall
\* between the steps of a pass: the identity alone would allow one Run per
\* generation.
InstantFiresOnce ==
    \A t \in Occurrences, g, h \in Generation :
        receipt[<<g, t>>] # "none" /\ receipt[<<h, t>>] # "none" => g = h

\* concurrencyPolicy forbid: when a schedule fires, no other Run that this
\* Trigger started is active, although the check precedes the transaction.
ForbidHolds ==
    [][\A i \in Generation \X Occurrences :
          receipt[i] = "none" /\ receipt'[i] # "none"
              => \A j \in Identity : receipt[j] \notin {"pending", "running"}]_vars

\* The operator has not disabled or deleted the Trigger.
Serving(kind) == res.live /\ res.kind = kind /\ row.on

\* A due instant of an enabled schedule is passed by the cursor in the end.
\* (An edit sets the cursor to the time of the edit and passes it too.)
DueInstantIsDecided ==
    \A t \in Occurrences :
        (Serving("schedule") /\ t <= now) ~> (row.at >= t \/ ~ Serving("schedule"))

\* An event that follows the activation of an enabled provider Trigger gets
\* its receipt in the end, unless an edit sets a later activation.
Owed(e) ==
    /\ Serving("provider")
    /\ e \in DOMAIN born /\ born[e] > activated[res.gen]
    /\ receipt[<<0, e>>] = "none"

EventIsAccepted == \A e \in Event : Owed(e) ~> ~ Owed(e)

\* The two cursors of a Trigger only ever pass what has been decided, and an
\* instant is decided once.
TriggersInv ==
    /\ TypeOK
    /\ CursorNotAheadOfReceipts
    /\ CursorOnDecidedInstant
    /\ InstantFiresOnce

\* An enabled Trigger does not stop: every due instant is decided and every
\* event of its provider accepted, past edits, restarts and broken streams.
DueWorkIsDecided == DueInstantIsDecided /\ EventIsAccepted
=============================================================================
