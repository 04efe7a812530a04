--------------------------- MODULE TriggersProofs ---------------------------
(***************************************************************************)
(* Proofs about the trigger controller, for any instants, deadlines, scan  *)
(* limits, goroutines and number of edits and events: both cursors of a    *)
(* Trigger only pass what is decided, an instant fires once, and a Run is  *)
(* only started by a schedule when none is active.                         *)
(*                                                                         *)
(* None of this is inductive alone: every store call is a transaction, and *)
(* what a goroutine carries from one to the next is what has to be right.  *)
(* The invariant relates it to the generation, the clock and the rows; the *)
(* argument is that a row of a live Trigger is always of its generation,   *)
(* so that what was read for an older one is refused, or is no later than  *)
(* the edit that replaced it.                                              *)
(***************************************************************************)
EXTENDS Triggers, FiniteSetTheorems, SequenceTheorems, WellFoundedInduction, TLAPS

Fired(g, t) == receipt[<<g, t>>] # "none"
IsDecided(g, t) == receipt[<<g, t>>] # "none" \/ <<g, t>> \in skips

-----------------------------------------------------------------------------
(* The store, by itself.                                                   *)

RowFollows ==
    /\ row.gen <= res.gen /\ row.at <= now
    /\ res.live => row.gen = res.gen /\ res.gen # 0
    /\ ~ res.live => cursor = 0

\* What older generations fired the schedule cursor has passed.
OlderFiredPassed ==
    \A g \in Generation, t \in Occurrences : Fired(g, t) =>
        /\ g <= res.gen /\ t <= now
        /\ res.live /\ g < res.gen => t <= row.at

\* A provider's stream starts at the activation, or before it.
ActivationIsOld == res.live /\ res.kind = "provider" => row.at <= activated[res.gen]

TablesInv ==
    /\ RowFollows /\ OlderFiredPassed /\ InstantFiresOnce /\ CursorOnDecidedInstant
    /\ ActivationIsOld /\ cursor <= Len(born) /\ CursorNotAheadOfReceipts

-----------------------------------------------------------------------------
(* What a pass carries.                                                    *)

Reading   == {"ensure", "decide"}
Deciding  == {"skip", "accept", "advance"}
Schedules == Reading \union Deciding

PassClock ==
    /\ pass.gen <= res.gen /\ pass.now <= now /\ pass.at <= now
    /\ pass.pc \in Schedules => pass.gen # 0
    /\ pass.pc \in Deciding => pass.at \in Occurrences

\* Only this goroutine fires instants, and its time moves forward.
NoneFiredAhead ==
    \A g \in Generation, t \in Occurrences : Fired(g, t) =>
        /\ pass.pc \in Reading \union {"list"} => t <= pass.now
        /\ pass.pc \in Deciding => t <= pass.at

PassDecides == pass.pc = "advance" => IsDecided(pass.gen, pass.at)

\* A pass of an older generation is no later than the edit.
PassIsOld ==
    res.live /\ pass.gen < res.gen =>
        /\ pass.pc \in Reading => pass.now <= activated[res.gen]
        /\ pass.pc \in Deciding => pass.at <= activated[res.gen]

\* A pass of the current one.
PassIsCurrent ==
    res.live /\ pass.gen = res.gen =>
        /\ pass.pc \in Schedules => res.kind = "schedule"
        /\ pass.pc \in {"syncEnsure", "subscribe"} => res.kind = "provider"
        /\ \A g \in Generation, t \in Occurrences : Fired(g, t) /\ g < res.gen =>
              /\ pass.pc = "decide" => t <= pass.at
              /\ pass.pc \in {"skip", "accept"} => t < pass.at
        /\ pass.pc = "accept" => ~ HasActiveRun

PassInv == PassClock /\ NoneFiredAhead /\ PassDecides /\ PassIsOld /\ PassIsCurrent

-----------------------------------------------------------------------------
(* What a subscription carries.                                            *)

\* One goroutine at most is not cancelled.
OneWatch == \A w \in Watch : w # sub /\ ~ watch[w].cancelled => watch[w].pc = "none"

\* Everything older than the event to accept has its receipt.
EventIsNext(e) ==
    /\ e \in DOMAIN born /\ e > cursor
    /\ \A d \in DOMAIN born : d < e /\ born[d] > activated[res.gen] => receipt[<<0, d>>] # "none"

WatchIsCurrent(w) ==
    res.live /\ watch[w].gen = res.gen =>
        /\ res.kind = "provider"
        /\ ~ watch[w].cancelled =>
             /\ watch[w].pc = "cursor" => watch[w].at <= activated[res.gen]
             /\ watch[w].pc = "stream" => /\ watch[w].pos = cursor
                                          /\ cursor = 0 => watch[w].at <= activated[res.gen]
             /\ watch[w].pc = "accept" => EventIsNext(watch[w].pos)

WatchInv == OneWatch /\ \A w \in Watch : watch[w].gen <= res.gen /\ WatchIsCurrent(w)

IInv == TypeOK /\ TablesInv /\ PassInv /\ WatchInv /\ op.gen <= res.gen

-----------------------------------------------------------------------------
(* The earliest event and the latest instant.                              *)

\* A non-empty set of natural numbers has a smallest element.
LEMMA SmallestNat ==
    ASSUME NEW T \in SUBSET Nat, T # {}
    PROVE  \E m \in T : \A n \in T : m <= n
<1>1. PICK m \in T : \A n \in T : ~ (<<n, m>> \in OpToRel(<, Nat))
  BY NatLessThanWellFounded, WFMin, Zenon
<1>2. \A n \in T : ~ (n < m)
  BY <1>1 DEF OpToRel
<1> QED  BY <1>2

\* Min is that element.
LEMMA MinIs ==
    ASSUME NEW T \in SUBSET Nat, T # {}
    PROVE  Min(T) \in T /\ \A n \in T : Min(T) <= n
BY SmallestNat DEF Min

\* Max is the largest element of a set with a bound.
LEMMA MaxIs ==
    ASSUME NEW b \in Nat, NEW T \in SUBSET (0..b), T # {}
    PROVE  Max(T) \in T /\ \A n \in T : n <= Max(T)
<1> DEFINE D == {b - n : n \in T}
<1>1. D \in SUBSET Nat /\ D # {}
  <2>1. \A n \in T : n \in 0..b
    OBVIOUS
  <2>2. \A n \in T : b - n \in Nat
    BY <2>1
  <2>3. PICK n \in T : TRUE
    OBVIOUS
  <2> QED  BY <2>2, <2>3
<1> HIDE DEF D
<1>2. PICK d \in D : \A e \in D : d <= e
  BY <1>1, SmallestNat
<1>3. PICK m \in T : d = b - m
  BY <1>2 DEF D
<1>4. ASSUME NEW n \in T
      PROVE  n <= m
  <2>1. b - n \in D
    BY DEF D
  <2>2. n \in Nat /\ m \in Nat /\ b - m <= b - n
    BY <1>2, <1>3, <2>1
  <2> QED  BY <2>2
<1>5. \A n \in T : m >= n
  BY <1>4
<1> QED  BY <1>5 DEF Max

-----------------------------------------------------------------------------
(* Frames: which variables a part of the invariant depends on.             *)

\* The types that the comparisons need.
LEMMA Numbers ==
    ASSUME TypeOK
    PROVE  /\ res.gen \in 0..MaxGeneration /\ row.gen \in 0..MaxGeneration /\ row.at \in Time
           /\ now \in Time /\ Time \subseteq Nat /\ cursor \in Nat /\ Len(born) \in Nat
           /\ DOMAIN born = 1..Len(born) /\ (\A e \in DOMAIN born : born[e] \in Time)
           /\ pass.gen \in 0..MaxGeneration /\ pass.now \in Time /\ pass.at \in Time
           /\ (\A g \in Generation : activated[g] \in Time)
           /\ Occurrences \subseteq 1..MaxTime /\ MaxTime \in Nat /\ MaxGeneration \in Nat
           /\ MaxEvents \in Nat
<1>1. res.gen \in 0..MaxGeneration /\ row.gen \in 0..MaxGeneration /\ row.at \in Time
      /\ pass.gen \in 0..MaxGeneration /\ pass.now \in Time /\ pass.at \in Time
  BY DEF TypeOK, Row, Pass
<1>2. born \in Seq(Time) /\ Len(born) \in Nat /\ DOMAIN born = 1..Len(born)
  BY DEF TypeOK
<1>3. \A e \in DOMAIN born : born[e] \in Time
  BY <1>2
<1>4. Time \subseteq Nat /\ cursor \in Nat
  BY TriggersAssumption DEF TypeOK, Time
<1> QED  BY <1>1, <1>2, <1>3, <1>4, TriggersAssumption DEF TypeOK

\* What the tables say depends on them, the clock and the events.
LEMMA TablesFrame ==
    ASSUME TablesInv, UNCHANGED <<res, row, cursor, receipt, skips, activated, now, born>>
    PROVE  TablesInv'
BY DEF TablesInv, RowFollows, OlderFiredPassed, InstantFiresOnce, CursorOnDecidedInstant,
       ActivationIsOld, CursorNotAheadOfReceipts, Fired

\* What a pass carries does not depend on the rows.
LEMMA PassFrame ==
    ASSUME PassInv, UNCHANGED <<res, pass, now, receipt, skips, activated>>
    PROVE  PassInv'
BY DEF PassInv, PassClock, NoneFiredAhead, PassDecides, PassIsOld, PassIsCurrent, Fired, IsDecided,
       HasActiveRun

\* What a subscription carries does not depend on the schedule.
LEMMA WatchFrame ==
    ASSUME WatchInv, UNCHANGED <<res, sub, watch, born, activated, receipt>>,
           res.live => cursor' = cursor
    PROVE  WatchInv'
BY DEF WatchInv, OneWatch, WatchIsCurrent, EventIsNext

\* Ensuring the row of a live Trigger finds it: whoever calls it has read no
\* later generation.
LEMMA EnsureFinds ==
    ASSUME TypeOK, RowFollows, NEW g \in 0..MaxGeneration, g <= res.gen, NEW on \in BOOLEAN,
           NEW t \in Time, t <= now, EnsureTriggerState(g, on, t)
    PROVE  /\ row' \in Row /\ cursor' \in 0..MaxEvents
           /\ res.live => UNCHANGED <<row, cursor>> /\ row.gen = g
           /\ ~ res.live => cursor' = cursor
           /\ row'.gen <= res.gen /\ row'.at <= now
<1>0. row \in Row /\ row.gen \in 0..MaxGeneration /\ res.gen \in 0..MaxGeneration
      /\ cursor \in 0..MaxEvents /\ MaxGeneration \in Nat /\ MaxEvents \in Nat
  BY Numbers DEF TypeOK
<1>1. ResetRow(g, on, t) \in Row /\ ResetRow(g, on, t).gen = g /\ ResetRow(g, on, t).at = t
  BY DEF ResetRow, Row
<1>2. row' \in Row /\ row'.gen <= res.gen /\ row'.at <= now
  BY <1>0, <1>1 DEF EnsureTriggerState, RowFollows
<1>3. res.live => UNCHANGED <<row, cursor>> /\ row.gen = g
  BY <1>0 DEF EnsureTriggerState, RowFollows
<1>4. ~ res.live => cursor' = cursor
  BY DEF EnsureTriggerState, RowFollows
<1>5. cursor' \in 0..MaxEvents
  BY <1>0 DEF EnsureTriggerState
<1> QED  BY <1>2, <1>3, <1>4, <1>5

\* ... and leaves the tables as they should be.
LEMMA EnsureKeeps ==
    ASSUME TypeOK, TablesInv, NEW g \in 0..MaxGeneration, g <= res.gen, NEW on \in BOOLEAN,
           NEW t \in Time, t <= now, EnsureTriggerState(g, on, t),
           UNCHANGED <<res, receipt, skips, activated, now, born>>
    PROVE  TablesInv'
<1>1. /\ res.live => UNCHANGED <<row, cursor>>
      /\ ~ res.live => cursor' = cursor
      /\ row'.gen <= res.gen /\ row'.at <= now
  BY EnsureFinds DEF TablesInv
<1>2. CASE res.live
  BY <1>1, <1>2, TablesFrame
<1>3. CASE ~ res.live
  BY <1>1, <1>3 DEF TablesInv, RowFollows, OlderFiredPassed, InstantFiresOnce,
       CursorOnDecidedInstant, ActivationIsOld, CursorNotAheadOfReceipts, Fired
<1> QED  BY <1>2, <1>3

-----------------------------------------------------------------------------
(* The operator.                                                           *)

\* An edit: what passes and subscriptions carry is now of an older generation,
\* and no later than the edit.
LEMMA ApplyKeeps ==
    ASSUME IInv, NEW kind \in Kind, NEW on \in BOOLEAN, Apply(kind, on)
    PROVE  IInv'
<1> DEFINE g == res.gen + 1
<1>0. /\ TypeOK /\ TablesInv /\ PassInv /\ WatchInv /\ op.gen <= res.gen
      /\ UNCHANGED <<receipt, skips, pass, sub, watch, op, now, born, disturbances>>
  BY DEF IInv, Apply, loopVars, worldVars
<1>1. /\ res' \in [live : BOOLEAN, gen : 0..MaxGeneration, kind : Kind, on : BOOLEAN]
      /\ res'.live /\ res'.gen = g /\ res'.kind = kind /\ g \in Generation /\ g # 0
      /\ res.gen \in Nat
  BY <1>0, Numbers DEF Apply, Generation
<1>2. /\ row' = ResetRow(g, on, now) /\ row' \in Row /\ row'.gen = g /\ row'.at = now
      /\ cursor' = 0
  <2>1. row.gen \in Nat /\ row.gen <= res.gen /\ now \in Time
        /\ (res.live => row.gen # 0) /\ (~ res.live => cursor = 0)
    BY <1>0, Numbers DEF TablesInv, RowFollows
  <2>2. ResetRow(g, on, now) \in Row /\ ResetRow(g, on, now).gen = g /\ ResetRow(g, on, now).at = now
    BY <1>1, <2>1, Numbers, <1>0 DEF ResetRow, Row, Generation
  <2>3. row.gen # g /\ EnsureTriggerState(g, on, now)
    BY <1>1, <2>1 DEF Apply
  <2>4. row' = ResetRow(g, on, now) /\ cursor' = 0
    BY <2>1, <2>3 DEF EnsureTriggerState
  <2> QED  BY <2>2, <2>4
<1>3. /\ activated' \in [Generation -> Time] /\ activated'[g] = now
  BY <1>0, <1>1, Numbers DEF Apply, TypeOK
<1> HIDE DEF g
<1>4. TypeOK'
  BY <1>0, <1>1, <1>2, <1>3, TriggersAssumption DEF TypeOK
<1>5. TablesInv'
  <2>1. RowFollows' /\ OlderFiredPassed' /\ InstantFiresOnce'
    <3>1. RowFollows'
      BY <1>0, <1>1, <1>2, Numbers DEF RowFollows
    <3>2. ASSUME NEW h \in Generation, NEW t \in Occurrences, Fired(h, t)
          PROVE  h <= g /\ t <= now
      BY <1>0, <1>1, <3>2, TriggersAssumption DEF TablesInv, OlderFiredPassed, Generation, g
    <3>3. OlderFiredPassed'
      BY <1>0, <1>1, <1>2, <3>2 DEF OlderFiredPassed, Fired
    <3>4. InstantFiresOnce'
      BY <1>0 DEF TablesInv, InstantFiresOnce
    <3> QED  BY <3>1, <3>3, <3>4
  <2>2. CursorOnDecidedInstant' /\ ActivationIsOld'
    BY <1>0, <1>1, <1>2, <1>3, Numbers DEF CursorOnDecidedInstant, ActivationIsOld
  <2>3. cursor' <= Len(born)' /\ CursorNotAheadOfReceipts'
    BY <1>0, <1>2, Numbers DEF CursorNotAheadOfReceipts
  <2> QED  BY <2>1, <2>2, <2>3 DEF TablesInv
<1>6. PassInv'
  <2>1. pass.gen \in Nat /\ pass.gen <= res.gen /\ pass.now <= now /\ pass.at <= now /\ pass.gen < g
    BY <1>0, <1>1, Numbers DEF PassInv, PassClock, g
  <2>2. PassClock' /\ NoneFiredAhead' /\ PassDecides'
    BY <1>0, <1>1, <2>1 DEF PassInv, PassClock, NoneFiredAhead, PassDecides, Fired, IsDecided
  <2>3. PassIsOld' /\ PassIsCurrent'
    BY <1>0, <1>1, <1>3, <2>1 DEF PassIsOld, PassIsCurrent
  <2> QED  BY <2>2, <2>3 DEF PassInv
<1>7. WatchInv'
  <2>1. \A w \in Watch : watch[w].gen \in Nat
    BY <1>0, TriggersAssumption DEF TypeOK, Watching
  <2>2. \A w \in Watch : watch[w].gen <= res'.gen /\ watch[w].gen # res'.gen
    BY <1>0, <1>1, <2>1 DEF WatchInv, g
  <2> QED  BY <1>0, <2>2 DEF WatchInv, OneWatch, WatchIsCurrent
<1>8. op'.gen <= res'.gen
  <2>1. op.gen \in Nat
    BY <1>0, TriggersAssumption DEF TypeOK, Call
  <2> QED  BY <1>0, <1>1, <2>1 DEF g
<1> QED  BY <1>4, <1>5, <1>6, <1>7, <1>8 DEF IInv

\* A Trigger that is deleted stays so.
LEMMA DeleteKeeps ==
    ASSUME IInv, Delete
    PROVE  IInv'
<1>0. /\ TypeOK /\ TablesInv /\ PassInv /\ WatchInv /\ op.gen <= res.gen
      /\ UNCHANGED <<receipt, skips, activated, pass, sub, watch, op, now, born, disturbances>>
      /\ row' = NoRow /\ cursor' = 0
  BY DEF IInv, Delete, loopVars, worldVars
<1>1. /\ res' \in [live : BOOLEAN, gen : 0..MaxGeneration, kind : Kind, on : BOOLEAN]
      /\ ~ res'.live /\ res'.gen = res.gen
  BY <1>0 DEF Delete, TypeOK
<1>2. NoRow \in Row /\ NoRow.gen = 0 /\ NoRow.at = 0
  BY TriggersAssumption DEF NoRow, Row, Time
<1>3. TypeOK'
  BY <1>0, <1>1, <1>2, TriggersAssumption DEF TypeOK
<1>4. TablesInv'
  BY <1>0, <1>1, <1>2, Numbers DEF TablesInv, RowFollows, OlderFiredPassed, InstantFiresOnce,
       CursorOnDecidedInstant, ActivationIsOld, CursorNotAheadOfReceipts, Fired
<1>5. PassInv'
  BY <1>0, <1>1 DEF PassInv, PassClock, NoneFiredAhead, PassDecides, PassIsOld, PassIsCurrent, Fired,
                    IsDecided
<1>6. WatchInv'
  BY <1>0, <1>1 DEF WatchInv, OneWatch, WatchIsCurrent
<1> QED  BY <1>0, <1>1, <1>3, <1>4, <1>5, <1>6 DEF IInv

\* An EnableTrigger or DisableTrigger call, at each of its three steps.
LEMMA CallKeeps ==
    ASSUME IInv, (\E enabled \in BOOLEAN : ReadTrigger(enabled)) \/ EnsureForCall \/ SetTriggerEnabled
    PROVE  IInv'
<1>0. /\ TypeOK /\ TablesInv /\ PassInv /\ WatchInv /\ op \in Call /\ op.gen <= res.gen
      /\ op.gen \in 0..MaxGeneration /\ op.on \in BOOLEAN
      /\ UNCHANGED <<res, receipt, skips, activated, pass, sub, watch, now, born>>
      /\ NoCall \in Call /\ NoCall.gen = 0 /\ 0 <= res.gen /\ now \in Time /\ now <= now
  <2>1. op \in Call
    BY DEF IInv, TypeOK
  <2>2. op.gen \in 0..MaxGeneration /\ op.on \in BOOLEAN
    BY <2>1 DEF Call
  <2>3. NoCall \in Call /\ NoCall.gen = 0
    BY TriggersAssumption DEF NoCall, Call
  <2>4. UNCHANGED <<res, receipt, skips, activated, pass, sub, watch, now, born>>
    BY DEF ReadTrigger, EnsureForCall, SetTriggerEnabled, storeVars, loopVars, worldVars
  <2>5. 0 <= res.gen /\ now \in Time /\ now <= now
    BY Numbers DEF IInv
  <2> QED  BY <2>1, <2>2, <2>3, <2>4, <2>5 DEF IInv
<1>1. ASSUME NEW enabled \in BOOLEAN, ReadTrigger(enabled)
      PROVE  IInv'
  <2>1. /\ op' = [pc |-> "ensure", gen |-> res.gen, on |-> res.on, enabled |-> enabled]
        /\ UNCHANGED <<row, cursor>> /\ disturbances' \in 0..MaxDisturbances
    BY <1>0, <1>1, TriggersAssumption DEF ReadTrigger, storeVars, Disturb, TypeOK
  <2>2. op' \in Call /\ op'.gen = res.gen
    BY <1>0, <2>1 DEF Call, TypeOK
  <2>3. TypeOK'
    BY <1>0, <2>1, <2>2 DEF TypeOK
  <2> QED  BY <1>0, <2>1, <2>2, <2>3, TablesFrame, PassFrame, WatchFrame, Numbers DEF IInv
<1>2. CASE EnsureForCall
  <2>1. op' \in Call /\ op'.gen <= res.gen /\ UNCHANGED disturbances
    <3>1. op' = NoCall \/ op' = [op EXCEPT !.pc = "set"]
      BY <1>2 DEF EnsureForCall
    <3>2. [op EXCEPT !.pc = "set"] \in Call /\ [op EXCEPT !.pc = "set"].gen = op.gen
      BY <1>0 DEF Call
    <3> QED  BY <1>0, <1>2, <3>1, <3>2 DEF EnsureForCall
  <2>2. CASE EnsureTriggerState(op.gen, op.on, now)
    <3>1. row' \in Row /\ cursor' \in 0..MaxEvents /\ (res.live => cursor' = cursor) /\ TablesInv'
      BY <1>0, <2>2, EnsureFinds, EnsureKeeps DEF TablesInv
    <3>2. TypeOK'
      BY <1>0, <2>1, <3>1 DEF TypeOK
    <3> QED  BY <1>0, <2>1, <3>1, <3>2, PassFrame, WatchFrame DEF IInv
  <2>3. CASE UNCHANGED <<row, cursor>>
    <3>1. TypeOK'
      BY <1>0, <2>1, <2>3 DEF TypeOK
    <3> QED  BY <1>0, <2>1, <2>3, <3>1, TablesFrame, PassFrame, WatchFrame DEF IInv
  <2> QED  BY <1>2, <2>2, <2>3 DEF EnsureForCall
<1>3. CASE SetTriggerEnabled
  <2>1. op' = NoCall /\ UNCHANGED <<cursor, disturbances>>
        /\ row' = IF row = NoRow THEN row ELSE [row EXCEPT !.on = op.enabled]
    BY <1>3 DEF SetTriggerEnabled
  <2>2. row' \in Row /\ row'.gen = row.gen /\ row'.at = row.at
    <3>1. row \in Row /\ op.enabled \in BOOLEAN
      BY <1>0 DEF TypeOK, Call
    <3> QED  BY <2>1, <3>1 DEF Row
  <2>3. TypeOK'
    BY <1>0, <2>1, <2>2 DEF TypeOK
  <2>4. TablesInv'
    BY <1>0, <2>1, <2>2 DEF TablesInv, RowFollows, OlderFiredPassed, InstantFiresOnce,
         CursorOnDecidedInstant, ActivationIsOld, CursorNotAheadOfReceipts, Fired
  <2> QED  BY <1>0, <2>1, <2>3, <2>4, PassFrame, WatchFrame DEF IInv
<1> QED  BY <1>1, <1>2, <1>3

-----------------------------------------------------------------------------
(* The controller's goroutine.                                             *)

\* A step of the goroutine that touches nothing else keeps everything but what
\* a pass carries.
LEMMA PassOnly ==
    ASSUME IInv, pass' \in Pass, PassInv', UNCHANGED <<storeVars, sub, watch, op, worldVars>>,
           disturbances' \in 0..MaxDisturbances
    PROVE  IInv'
<1>1. UNCHANGED <<res, row, cursor, receipt, skips, activated, sub, watch, op, now, born>>
  BY DEF storeVars, worldVars
<1>2. TypeOK'
  BY <1>1 DEF IInv, TypeOK
<1> QED  BY <1>1, <1>2, TablesFrame, WatchFrame DEF IInv

\* A pass that is over carries nothing.
LEMMA IdleIs ==
    ASSUME TypeOK, UNCHANGED <<res, now>>, pass' = Idle
    PROVE  pass' \in Pass /\ PassInv'
<1>1. Idle \in Pass /\ Idle.pc = "idle" /\ Idle.gen = 0 /\ Idle.now = 0 /\ Idle.at = 0
  BY TriggersAssumption DEF Idle, Pass, Time
<1>2. 0 <= res.gen /\ 0 <= now
  BY Numbers
<1> QED  BY <1>1, <1>2 DEF PassInv, PassClock, NoneFiredAhead, PassDecides, PassIsOld,
            PassIsCurrent, Reading, Deciding, Schedules

\* The locals of a synchronisation.
LEMMA SyncIs ==
    /\ \A g \in 0..MaxGeneration, on \in BOOLEAN :
         LET p == [Idle EXCEPT !.pc = "syncEnsure", !.gen = g, !.on = on]
         IN  p \in Pass /\ p.pc = "syncEnsure" /\ p.gen = g /\ p.now = 0 /\ p.at = 0
    /\ LET p == [Idle EXCEPT !.pc = "subscribe"]
       IN  p \in Pass /\ p.pc = "subscribe" /\ p.gen = 0 /\ p.now = 0 /\ p.at = 0
<1>1. Idle \in Pass /\ Idle.gen = 0 /\ Idle.now = 0 /\ Idle.at = 0
  BY TriggersAssumption DEF Idle, Pass, Time
<1> QED  BY <1>1 DEF Pass

\* The pass starts with the time of its ticker.
LEMMA ScheduleTickKeeps ==
    ASSUME IInv, ScheduleTick
    PROVE  IInv'
<1>0. TypeOK /\ TablesInv /\ UNCHANGED <<storeVars, sub, watch, op, worldVars, disturbances>>
      /\ disturbances' \in 0..MaxDisturbances
      /\ UNCHANGED <<res, receipt, now>>
  BY DEF IInv, ScheduleTick, TypeOK, storeVars, worldVars
<1>1. pass' \in Pass /\ pass'.pc = "list" /\ pass'.gen = 0 /\ pass'.now = now /\ pass'.at = 0
  <2>1. pass' = [pc |-> "list", gen |-> 0, on |-> FALSE, now |-> now, at |-> 0]
    BY DEF ScheduleTick, Idle
  <2>2. now \in Time /\ 0 \in Time /\ 0 \in 0..MaxGeneration
    BY <1>0, TriggersAssumption DEF TypeOK, Time
  <2> QED  BY <2>1, <2>2 DEF Pass
<1>2. PassInv'
  BY <1>0, <1>1, Numbers DEF TablesInv, OlderFiredPassed, PassInv, PassClock, NoneFiredAhead,
     PassDecides, PassIsOld, PassIsCurrent, Reading, Deciding, Schedules, Fired
<1> QED  BY <1>0, <1>1, <1>2, PassOnly

\* The Trigger is read, whatever its row says.
LEMMA ListSchedulesKeeps ==
    ASSUME IInv, ListSchedules
    PROVE  IInv'
<1>0. TypeOK /\ TablesInv /\ PassInv
      /\ UNCHANGED <<storeVars, sub, watch, op, worldVars, disturbances>>
      /\ disturbances' \in 0..MaxDisturbances
      /\ UNCHANGED <<res, receipt, now>>
  BY DEF IInv, ListSchedules, TypeOK, storeVars, worldVars
<1>1. CASE res.live /\ res.kind = "schedule"
  <2>1. pass' = [pass EXCEPT !.pc = "ensure", !.gen = res.gen, !.on = res.on] /\ pass.pc = "list"
    BY <1>1 DEF ListSchedules
  <2>2. pass' \in Pass /\ pass'.pc = "ensure" /\ pass'.gen = res.gen /\ pass'.now = pass.now
        /\ pass'.at = pass.at
    BY <1>0, <2>1 DEF Pass, TypeOK
  <2>3. PassInv'
    BY <1>0, <1>1, <2>1, <2>2, Numbers DEF TablesInv, RowFollows, PassInv, PassClock,
       NoneFiredAhead, PassDecides, PassIsOld, PassIsCurrent, Reading, Deciding, Schedules, Fired
  <2> QED  BY <1>0, <2>2, <2>3, PassOnly
<1>2. CASE ~ (res.live /\ res.kind = "schedule")
  BY <1>0, <1>2, IdleIs, PassOnly DEF ListSchedules, Return
<1> QED  BY <1>1, <1>2

\* A step that ensures the row and touches the goroutine's locals alone.
LEMMA PassEnsures ==
    ASSUME IInv, NEW g \in 0..MaxGeneration, g <= res.gen, NEW on \in BOOLEAN,
           NEW t \in Time, t <= now, EnsureTriggerState(g, on, t) \/ UNCHANGED <<row, cursor>>,
           UNCHANGED <<res, receipt, skips, activated, sub, op, watch, now, born, disturbances>>,
           pass' \in Pass, PassInv'
    PROVE  IInv'
<1>0. TypeOK /\ TablesInv /\ WatchInv /\ op.gen <= res.gen
  BY DEF IInv
<1>1. CASE EnsureTriggerState(g, on, t)
  <2>1. row' \in Row /\ cursor' \in 0..MaxEvents /\ (res.live => cursor' = cursor) /\ TablesInv'
    BY <1>0, <1>1, EnsureFinds, EnsureKeeps DEF TablesInv
  <2>2. TypeOK'
    BY <1>0, <2>1 DEF TypeOK
  <2> QED  BY <1>0, <2>1, <2>2, WatchFrame DEF IInv
<1>2. CASE UNCHANGED <<row, cursor>>
  <2>1. TypeOK'
    BY <1>0, <1>2 DEF TypeOK
  <2> QED  BY <1>0, <1>2, <2>1, TablesFrame, WatchFrame DEF IInv
<1> QED  BY <1>1, <1>2

\* The cursor of the row is at or after what older generations fired.
LEMMA EnsureScheduleKeeps ==
    ASSUME IInv, EnsureSchedule
    PROVE  IInv'
<1>0. TypeOK /\ TablesInv /\ PassInv /\ pass.pc = "ensure"
      /\ UNCHANGED <<res, receipt, skips, activated, sub, op, watch, now, born, disturbances>>
  BY DEF IInv, EnsureSchedule, worldVars
<1>1. pass \in Pass /\ pass.gen \in 0..MaxGeneration /\ pass.on \in BOOLEAN /\ pass.now \in Time
      /\ pass.gen <= res.gen /\ pass.now <= now
  BY <1>0 DEF TypeOK, Pass, PassInv, PassClock
<1>2. CASE EnsureTriggerState(pass.gen, pass.on, pass.now) /\ row'.on
  <2>1. row' \in Row /\ row'.at <= now /\ (res.live => row' = row /\ row.gen = pass.gen)
    BY <1>0, <1>1, <1>2, EnsureFinds DEF TablesInv
  <2>2. row'.at \in Time
    BY <2>1 DEF Row
  <2>3. pass' = [pass EXCEPT !.pc = "decide", !.on = FALSE, !.at = row'.at] \/ pass' = Idle
    BY <1>2 DEF EnsureSchedule, Return
  <2>4. CASE pass' = [pass EXCEPT !.pc = "decide", !.on = FALSE, !.at = row'.at]
    <3>1. pass' \in Pass /\ pass'.pc = "decide" /\ pass'.gen = pass.gen /\ pass'.now = pass.now
          /\ pass'.at = row'.at
      BY <1>1, <2>2, <2>4 DEF Pass
    <3>2. PassInv'
      BY <1>0, <1>1, <2>1, <3>1, Numbers DEF TablesInv, OlderFiredPassed, RowFollows, PassInv,
         PassClock, NoneFiredAhead, PassDecides, PassIsOld, PassIsCurrent, Reading, Deciding,
         Schedules, Fired
    <3> QED  BY <1>0, <1>1, <1>2, <3>1, <3>2, PassEnsures
  <2>5. CASE pass' = Idle
    BY <1>0, <1>1, <1>2, <2>5, IdleIs, PassEnsures
  <2> QED  BY <2>3, <2>4, <2>5
<1>3. CASE pass' = Idle /\ (EnsureTriggerState(pass.gen, pass.on, pass.now) \/ UNCHANGED <<row, cursor>>)
  BY <1>0, <1>1, <1>3, IdleIs, PassEnsures
<1> QED  BY <1>2, <1>3 DEF EnsureSchedule, Return

\* The latest due instant is later than everything fired before it.
LEMMA SelectOccurrenceKeeps ==
    ASSUME IInv, SelectOccurrence
    PROVE  IInv'
<1> DEFINE m == Max(Due)
<1>0. TypeOK /\ TablesInv /\ PassInv /\ pass.pc = "decide" /\ pass \in Pass
      /\ UNCHANGED <<storeVars, sub, watch, op, worldVars, disturbances>>
      /\ disturbances' \in 0..MaxDisturbances
      /\ UNCHANGED <<res, receipt, skips, activated, now>>
  BY DEF IInv, SelectOccurrence, TypeOK, storeVars, worldVars
<1>1. CASE pass' = Idle
  BY <1>0, <1>1, IdleIs, PassOnly
<1>2. CASE Due # {} /\ pass' = [pass EXCEPT !.pc = Branch(m), !.now = 0, !.at = m]
  <2>1. m \in Due /\ \A n \in Due : n <= m
    <3>0. \A n \in Occurrences : n \in 0..MaxTime
      BY TriggersAssumption
    <3>1. Due \in SUBSET (0..MaxTime)
      BY <3>0 DEF Due
    <3> QED  BY <1>2, <3>1, MaxIs, TriggersAssumption
  <2> HIDE DEF m
  <2>2. m \in Occurrences /\ m \in Time /\ pass.at < m /\ m <= pass.now
    BY <2>1, TriggersAssumption DEF Due, Time
  <2>3. Branch(m) \in Deciding
    BY DEF Branch, Deciding
  <2>4. pass' \in Pass /\ pass'.pc = Branch(m) /\ pass'.gen = pass.gen /\ pass'.now = 0
        /\ pass'.at = m
    <3>1. 0 \in Time
      BY TriggersAssumption DEF Time
    <3>2. pass' \in Pass
      BY <1>0, <1>2, <2>2, <2>3, <3>1 DEF Pass, Deciding
    <3> QED  BY <1>0, <1>2, <3>2 DEF Pass
  <2>5. \A g \in Generation, t \in Occurrences : Fired(g, t) => t <= m
    <3>1. ASSUME NEW g \in Generation, NEW t \in Occurrences, Fired(g, t)
          PROVE  t <= m
      <4>1. t <= pass.now
        BY <1>0, <3>1 DEF PassInv, NoneFiredAhead, Reading
      <4>2. CASE pass.at < t
        BY <2>1, <4>1, <4>2 DEF Due
      <4>3. CASE ~ (pass.at < t)
        BY <1>0, <2>2, <4>3, Numbers
      <4> QED  BY <4>2, <4>3
    <3> QED  BY <3>1
  <2>6. PassClock' /\ NoneFiredAhead'
    <3>1. pass.gen <= res.gen /\ pass.now <= now /\ pass.gen # 0
      BY <1>0 DEF PassInv, PassClock, Schedules, Reading
    <3>2. pass.now \in Nat /\ now \in Nat /\ m \in Nat
      BY <1>0, <2>2, Numbers
    <3>3. m <= now /\ 0 <= now
      BY <2>2, <3>1, <3>2
    <3>4. PassClock'
      BY <1>0, <2>2, <2>4, <3>1, <3>3 DEF PassClock
    <3>5. pass'.pc \notin Reading \union {"list"}
      BY <2>3, <2>4 DEF Reading, Deciding
    <3> QED  BY <1>0, <2>4, <2>5, <3>4, <3>5 DEF NoneFiredAhead, Fired
  <2>7. PassDecides'
    BY <1>0, <2>4 DEF PassDecides, Branch, IsDecided
  <2>8. PassIsOld'
    <3>1. pass.gen < res.gen => activated[res.gen] \in Nat
      BY <1>0, Numbers DEF Generation
    <3>2. res.live /\ pass.gen < res.gen => m <= activated[res.gen]
      <4>1. res.live /\ pass.gen < res.gen => pass.now <= activated[res.gen]
        BY <1>0 DEF PassInv, PassIsOld, Reading
      <4> QED  BY <1>0, <2>2, <3>1, <4>1, Numbers
    <3> QED  BY <1>0, <2>3, <2>4, <3>2 DEF PassIsOld, Reading, Deciding
  <2>9. PassIsCurrent'
    <3>1. \A g \in Generation, t \in Occurrences :
             res.live /\ pass.gen = res.gen /\ Fired(g, t) /\ g < res.gen => t < m
      BY <1>0, <2>2, Numbers DEF PassInv, PassIsCurrent
    <3>2. Branch(m) = "accept" => ~ HasActiveRun
      BY DEF Branch
    <3> QED  BY <1>0, <2>3, <2>4, <3>1, <3>2 DEF PassInv, PassIsCurrent, Deciding, Schedules,
                Reading, Fired, HasActiveRun
  <2> QED  BY <1>0, <2>4, <2>6, <2>7, <2>8, <2>9, PassOnly DEF PassInv
<1> QED  BY <1>1, <1>2 DEF SelectOccurrence, Return

\* A skip decides its instant.
LEMMA RecordTriggerSkipKeeps ==
    ASSUME IInv, RecordTriggerSkip
    PROVE  IInv'
<1>0. TypeOK /\ TablesInv /\ PassInv /\ WatchInv /\ op.gen <= res.gen /\ pass.pc = "skip"
      /\ pass \in Pass /\ skips' = skips \union {<<pass.gen, pass.at>>}
      /\ UNCHANGED <<res, row, cursor, receipt, activated, sub, watch, op, now, born, disturbances>>
  BY DEF IInv, RecordTriggerSkip, TypeOK, worldVars
<1>1. pass' \in Pass /\ pass'.pc = "advance" /\ pass'.gen = pass.gen /\ pass'.now = pass.now
      /\ pass'.at = pass.at
  BY <1>0 DEF RecordTriggerSkip, Goto, Pass
<1>2. <<pass.gen, pass.at>> \in Generation \X Occurrences
  BY <1>0, Numbers DEF PassInv, PassClock, Schedules, Deciding, Generation
<1>3. TypeOK'
  BY <1>0, <1>1, <1>2 DEF TypeOK
<1>4. TablesInv'
  BY <1>0 DEF TablesInv, RowFollows, OlderFiredPassed, InstantFiresOnce, CursorOnDecidedInstant,
     ActivationIsOld, CursorNotAheadOfReceipts, Fired
<1>5. PassInv'
  BY <1>0, <1>1 DEF PassInv, PassClock, NoneFiredAhead, PassDecides, PassIsOld, PassIsCurrent, Fired,
     IsDecided, Reading, Deciding, Schedules
<1> QED  BY <1>0, <1>3, <1>4, <1>5, WatchFrame DEF IInv

\* The identity of an event is its own.
LEMMA EventIdentity ==
    ASSUME TypeOK, NEW e \in DOMAIN born
    PROVE  e \in Event /\ <<0, e>> \in Identity
<1>1. e \in Event
  BY Numbers, TriggersAssumption DEF TypeOK, Event
<1> QED  BY <1>1 DEF Identity

\* More receipts do not disturb what a subscription carries.
LEMMA WatchGrows ==
    ASSUME TypeOK, WatchInv, UNCHANGED <<res, sub, watch, born, activated, cursor>>,
           \A i \in Identity : receipt[i] # "none" => receipt'[i] # "none"
    PROVE  WatchInv'
<1>1. \A d \in DOMAIN born : receipt[<<0, d>>] # "none" => receipt'[<<0, d>>] # "none"
  BY EventIdentity
<1> QED  BY <1>1 DEF WatchInv, OneWatch, WatchIsCurrent, EventIsNext

\* ... nor the cursors.
LEMMA CursorsGrow ==
    ASSUME TypeOK, TablesInv, UNCHANGED <<res, row, cursor, activated, born, skips>>,
           \A i \in Identity : receipt[i] # "none" => receipt'[i] # "none"
    PROVE  CursorOnDecidedInstant' /\ CursorNotAheadOfReceipts'
<1>1. \A d \in DOMAIN born : receipt[<<0, d>>] # "none" => receipt'[<<0, d>>] # "none"
  BY EventIdentity
<1>2. CursorNotAheadOfReceipts'
  BY <1>1 DEF TablesInv, CursorNotAheadOfReceipts
<1>3. row.gen # 0 => row.gen \in Generation
  BY Numbers DEF Generation
<1>4. row.at \in Occurrences /\ row.gen # 0 => <<row.gen, row.at>> \in Identity
  BY <1>3 DEF Identity
<1>5. CursorOnDecidedInstant'
  BY <1>4 DEF TablesInv, CursorOnDecidedInstant
<1> QED  BY <1>2, <1>5

\* The identity of an occurrence.
LEMMA OccurrenceIdentity ==
    ASSUME NEW g \in Generation, NEW t \in Occurrences
    PROVE  <<g, t>> \in Identity
BY DEF Identity

\* An accepted instant is later than what older generations fired.
LEMMA AcceptTriggerKeeps ==
    ASSUME IInv, AcceptTrigger
    PROVE  IInv'
<1> DEFINE i == <<pass.gen, pass.at>>
<1>0. TypeOK /\ TablesInv /\ PassInv /\ WatchInv /\ op.gen <= res.gen /\ pass.pc = "accept"
      /\ pass \in Pass /\ res.live /\ pass.gen = res.gen
      /\ UNCHANGED <<res, row, cursor, skips, activated, sub, watch, op, now, born, disturbances>>
  BY DEF IInv, AcceptTrigger, Acceptable, TypeOK, worldVars
<1>1. pass' \in Pass /\ pass'.pc = "advance" /\ pass'.gen = pass.gen /\ pass'.now = pass.now
      /\ pass'.at = pass.at
  BY <1>0 DEF AcceptTrigger, Goto, Pass
<1>2. pass.gen \in Generation /\ pass.at \in Occurrences /\ i \in Identity
  <2>1. pass.gen \in Generation /\ pass.at \in Occurrences
    BY <1>0, Numbers DEF PassInv, PassClock, Schedules, Deciding, Generation
  <2> QED  BY <2>1, OccurrenceIdentity
<1>3. /\ receipt' \in [Identity -> {"none", "pending", "running", "done"}]
      /\ receipt'[i] # "none" /\ \A j \in Identity : j # i => receipt'[j] = receipt[j]
  <2>1. receipt' = [receipt EXCEPT ![i] = IF @ = "none" THEN "pending" ELSE @]
    BY DEF AcceptTrigger
  <2>2. receipt \in [Identity -> {"none", "pending", "running", "done"}]
    BY <1>0 DEF TypeOK
  <2> HIDE DEF i
  <2> QED  BY <1>2, <2>1, <2>2
<1>4. \A g \in Generation, t \in Occurrences :
         receipt'[<<g, t>>] # "none" => Fired(g, t) \/ (g = pass.gen /\ t = pass.at)
  BY <1>3, OccurrenceIdentity DEF Fired
<1>5. \A j \in Identity : receipt[j] # "none" => receipt'[j] # "none"
  BY <1>3
<1>6. TypeOK'
  BY <1>0, <1>1, <1>3 DEF TypeOK
<1>7. TablesInv'
  <2>1. OlderFiredPassed'
    BY <1>0, <1>1, <1>2, <1>4, Numbers DEF TablesInv, PassInv, PassClock, OlderFiredPassed, Fired
  <2>2. InstantFiresOnce'
    <3>1. ASSUME NEW g \in Generation, Fired(g, pass.at)
          PROVE  g = pass.gen
      <4>1. g <= res.gen /\ ~ (g < res.gen)
        BY <1>0, <1>2, <3>1, Numbers DEF TablesInv, OlderFiredPassed, PassInv, PassIsCurrent
      <4> QED  BY <1>0, <4>1, Numbers DEF Generation
    <3> QED  BY <1>0, <1>2, <1>4, <3>1 DEF TablesInv, InstantFiresOnce, Fired
  <2>3. RowFollows' /\ ActivationIsOld' /\ (cursor <= Len(born))'
    BY <1>0 DEF TablesInv, RowFollows, ActivationIsOld
  <2> QED  BY <1>0, <1>5, <2>1, <2>2, <2>3, CursorsGrow DEF TablesInv
<1>8. PassInv'
  <2>1. PassClock' /\ PassDecides' /\ PassIsOld' /\ PassIsCurrent'
    BY <1>0, <1>1, <1>3 DEF PassInv, PassClock, PassDecides, PassIsOld, PassIsCurrent, IsDecided,
       Reading, Deciding, Schedules
  <2>2. NoneFiredAhead'
    BY <1>0, <1>1, <1>2, <1>4, Numbers DEF PassInv, NoneFiredAhead, Fired, Reading, Deciding
  <2> QED  BY <2>1, <2>2 DEF PassInv
<1> QED  BY <1>0, <1>5, <1>6, <1>7, <1>8, WatchGrows DEF IInv

\* A refused acceptance ends the pass.
LEMMA AcceptReturns ==
    ASSUME IInv, AcceptRefused \/ AcceptFails
    PROVE  IInv'
<1>1. TypeOK /\ UNCHANGED <<storeVars, sub, watch, op, worldVars>> /\ pass' = Idle
      /\ UNCHANGED <<res, now>> /\ disturbances' \in 0..MaxDisturbances
  BY TriggersAssumption DEF IInv, AcceptRefused, AcceptFails, Return, Disturb, TypeOK, storeVars,
     worldVars
<1> QED  BY <1>1, IdleIs, PassOnly

\* The cursor moves onto a decided instant, or, when the Trigger was edited
\* since it was listed, onto one that the edit has passed.
LEMMA AdvanceTriggerCursorKeeps ==
    ASSUME IInv, AdvanceTriggerCursor
    PROVE  IInv'
<1>0. TypeOK /\ TablesInv /\ PassInv /\ WatchInv /\ op.gen <= res.gen /\ pass.pc = "advance"
      /\ row \in Row /\ pass' = Idle
      /\ (row' = row \/ row' = [row EXCEPT !.at = pass.at])
      /\ UNCHANGED <<res, cursor, receipt, skips, activated, sub, watch, op, now, born, disturbances>>
  BY DEF IInv, AdvanceTriggerCursor, Return, TypeOK, worldVars
<1>1. row' \in Row /\ row'.gen = row.gen /\ (row'.at = pass.at \/ row' = row)
  BY <1>0, Numbers DEF Row
<1>2. pass' \in Pass /\ PassInv'
  BY <1>0, IdleIs
<1>3. TypeOK'
  BY <1>0, <1>1, <1>2 DEF TypeOK
<1>4. TablesInv'
  <2>1. CASE row' = row
    BY <1>0, <2>1, TablesFrame
  <2>2. CASE row'.at = pass.at
    <3>1. pass.at <= now /\ pass.gen <= res.gen
          /\ (\A g \in Generation, t \in Occurrences : Fired(g, t) => t <= pass.at)
          /\ IsDecided(pass.gen, pass.at)
          /\ (res.live /\ pass.gen < res.gen => pass.at <= activated[res.gen])
          /\ (res.live /\ pass.gen = res.gen => res.kind = "schedule")
      BY <1>0 DEF PassInv, PassClock, NoneFiredAhead, PassDecides, PassIsOld, PassIsCurrent,
         Reading, Deciding, Schedules
    <3>2. pass.gen < res.gen \/ pass.gen = res.gen
      BY <1>0, <3>1, Numbers
    <3>3. RowFollows' /\ OlderFiredPassed' /\ InstantFiresOnce' /\ CursorNotAheadOfReceipts'
          /\ (cursor <= Len(born))'
      BY <1>0, <1>1, <2>2, <3>1 DEF TablesInv, RowFollows, OlderFiredPassed, InstantFiresOnce,
         CursorNotAheadOfReceipts, Fired
    <3>4. ActivationIsOld'
      BY <1>0, <2>2, <3>1, <3>2, <1>1 DEF ActivationIsOld
    <3>5. CursorOnDecidedInstant'
      <4>1. res.live /\ row.gen = res.gen /\ pass.at > activated[res.gen] /\ res.gen # 0
              => pass.gen = res.gen
        <5>1. res.gen # 0 => activated[res.gen] \in Nat
          BY <1>0, Numbers DEF Generation
        <5> QED  BY <1>0, <3>1, <3>2, <5>1, Numbers
      <4> QED  BY <1>0, <1>1, <2>2, <3>1, <4>1 DEF TablesInv, RowFollows, CursorOnDecidedInstant,
                  IsDecided
    <3> QED  BY <3>3, <3>4, <3>5 DEF TablesInv
  <2> QED  BY <1>1, <2>1, <2>2
<1> QED  BY <1>0, <1>2, <1>3, <1>4, WatchFrame DEF IInv

\* The Trigger is read for the synchronisation.
LEMMA ListProvidersKeeps ==
    ASSUME IInv, ListProviders
    PROVE  IInv'
<1>0. TypeOK /\ TablesInv /\ UNCHANGED <<storeVars, sub, watch, op, worldVars, disturbances>>
      /\ disturbances' \in 0..MaxDisturbances
      /\ UNCHANGED <<res, receipt, now>> /\ 0 \in Time
  BY TriggersAssumption DEF IInv, ListProviders, TypeOK, storeVars, worldVars, Time
<1>2. CASE res.live /\ res.kind = "provider"
  <2>1. pass' \in Pass /\ pass'.pc = "syncEnsure" /\ pass'.gen = res.gen /\ pass'.now = 0
        /\ pass'.at = 0
    <3>1. res.gen \in 0..MaxGeneration /\ res.on \in BOOLEAN
      BY <1>0 DEF TypeOK
    <3> QED  BY <1>2, <3>1, SyncIs DEF ListProviders
  <2>2. PassInv'
    BY <1>0, <1>2, <2>1, Numbers DEF PassInv, PassClock, NoneFiredAhead, PassDecides, PassIsOld,
       PassIsCurrent, Reading, Deciding, Schedules
  <2> QED  BY <1>0, <2>1, <2>2, PassOnly
<1>3. CASE ~ (res.live /\ res.kind = "provider")
  <2>1. pass' \in Pass /\ pass'.pc = "subscribe" /\ pass'.gen = 0 /\ pass'.now = 0 /\ pass'.at = 0
    BY <1>3, SyncIs DEF ListProviders
  <2>2. PassInv'
    BY <1>0, <2>1, Numbers DEF TablesInv, RowFollows, PassInv, PassClock, NoneFiredAhead,
       PassDecides, PassIsOld, PassIsCurrent, Reading, Deciding, Schedules
  <2> QED  BY <1>0, <2>1, <2>2, PassOnly
<1> QED  BY <1>2, <1>3

\* The row is ensured for the synchronisation.
LEMMA EnsureProviderKeeps ==
    ASSUME IInv, EnsureProvider
    PROVE  IInv'
<1>0. TypeOK /\ TablesInv /\ PassInv /\ pass.pc = "syncEnsure" /\ 0 \in Time
      /\ UNCHANGED <<res, receipt, skips, activated, sub, op, watch, now, born, disturbances>>
  BY TriggersAssumption DEF IInv, EnsureProvider, worldVars, Time
<1>1. pass \in Pass /\ pass.gen \in 0..MaxGeneration /\ pass.on \in BOOLEAN /\ now \in Time
      /\ pass.gen <= res.gen /\ now <= now
  BY <1>0, Numbers DEF TypeOK, Pass, PassInv, PassClock
<1>2. EnsureTriggerState(pass.gen, pass.on, now) \/ UNCHANGED <<row, cursor>>
  BY DEF EnsureProvider
<1>3. CASE pass' = Idle
  BY <1>0, <1>1, <1>2, <1>3, IdleIs, PassEnsures
<1>4. CASE pass' = [pass EXCEPT !.pc = "subscribe", !.on = FALSE]
  <2>1. pass' \in Pass /\ pass'.pc = "subscribe" /\ pass'.gen = pass.gen /\ pass'.now = pass.now
        /\ pass'.at = pass.at
    BY <1>1, <1>4 DEF Pass
  <2>2. PassInv'
    BY <1>0, <2>1 DEF PassInv, PassClock, NoneFiredAhead, PassDecides, PassIsOld, PassIsCurrent,
       Reading, Deciding, Schedules, Fired
  <2> QED  BY <1>0, <1>1, <1>2, <2>1, <2>2, PassEnsures
<1>5. CASE pass' = [Idle EXCEPT !.pc = "subscribe"]
  <2>1. pass' \in Pass /\ pass'.pc = "subscribe" /\ pass'.gen = 0 /\ pass'.now = 0 /\ pass'.at = 0
    BY <1>5, SyncIs
  <2>2. PassInv'
    BY <1>0, <2>1, Numbers DEF TablesInv, RowFollows, PassInv, PassClock, NoneFiredAhead,
       PassDecides, PassIsOld, PassIsCurrent, Reading, Deciding, Schedules
  <2> QED  BY <1>0, <1>1, <1>2, <2>1, <2>2, PassEnsures
<1> QED  BY <1>3, <1>4, <1>5 DEF EnsureProvider, Return

\* The old subscription is cancelled before the new one runs.
LEMMA SubscribeKeeps ==
    ASSUME IInv, Subscribe
    PROVE  IInv'
<1> DEFINE kept    == sub # NoWatch /\ ~ Unwanted
           stopped == [w \in Watch |-> IF w = sub /\ Unwanted THEN Cancelled(watch[w]) ELSE watch[w]]
           started == [Stopped EXCEPT !.pc = "ensure", !.gen = pass.gen]
<1>0. TypeOK /\ TablesInv /\ PassInv /\ WatchInv /\ op.gen <= res.gen /\ pass.pc = "subscribe"
      /\ pass' = Idle /\ watch \in [Watch -> Watching] /\ sub \in Watch \union {NoWatch}
      /\ UNCHANGED <<res, row, cursor, receipt, skips, activated, op, now, born, disturbances>>
  BY DEF IInv, Subscribe, Return, TypeOK, worldVars, storeVars
<1>1. pass' \in Pass /\ PassInv'
  BY <1>0, IdleIs
<1>2. \A w \in Watch : /\ stopped[w] \in Watching /\ stopped[w].gen = watch[w].gen
                       /\ stopped[w] = watch[w] \/ stopped[w].cancelled
                       /\ w = sub /\ Unwanted => stopped[w].cancelled
  <2>1. \A l \in Watching : Cancelled(l) \in Watching /\ Cancelled(l).gen = l.gen
                            /\ Cancelled(l).cancelled
    BY DEF Cancelled, Watching
  <2> QED  BY <1>0, <2>1
<1>3. /\ (sub' = sub /\ kept) \/ (sub' = NoWatch /\ (sub = NoWatch \/ Unwanted))
      /\ watch' = stopped
      => sub' \in Watch \union {NoWatch} /\ watch' \in [Watch -> Watching] /\ WatchInv'
  <2> SUFFICES ASSUME (sub' = sub /\ kept) \/ (sub' = NoWatch /\ (sub = NoWatch \/ Unwanted)),
                      watch' = stopped
               PROVE  sub' \in Watch \union {NoWatch} /\ watch' \in [Watch -> Watching] /\ WatchInv'
    OBVIOUS
  <2> HIDE DEF stopped
  <2>1. watch' \in [Watch -> Watching]
    BY <1>2 DEF stopped
  <2>2. OneWatch'
    BY <1>0, <1>2, TriggersAssumption DEF WatchInv, OneWatch
  <2>3. \A w \in Watch : (watch[w].gen <= res.gen /\ WatchIsCurrent(w))'
    BY <1>0, <1>2 DEF WatchInv, WatchIsCurrent, EventIsNext
  <2> QED  BY <1>0, <2>1, <2>2, <2>3 DEF WatchInv
<1>4. ~ kept /\ pass.gen # 0 /\ (\E w \in Watch : watch[w] = Stopped) /\ sub' = FreeWatch
      /\ watch' = [stopped EXCEPT ![FreeWatch] = started]
      => sub' \in Watch \union {NoWatch} /\ watch' \in [Watch -> Watching] /\ WatchInv'
  <2> SUFFICES ASSUME ~ kept, pass.gen # 0, \E w \in Watch : watch[w] = Stopped, sub' = FreeWatch,
                      watch' = [stopped EXCEPT ![FreeWatch] = started]
               PROVE  sub' \in Watch \union {NoWatch} /\ watch' \in [Watch -> Watching] /\ WatchInv'
    OBVIOUS
  <2>1. FreeWatch \in Watch
    BY DEF FreeWatch
  <2>2. started \in Watching /\ started.pc = "ensure" /\ started.gen = pass.gen
    <3>1. Stopped \in Watching
      BY TriggersAssumption DEF Stopped, Watching, Time
    <3>2. pass.gen \in 0..MaxGeneration
      BY <1>0, Numbers
    <3> QED  BY <3>1, <3>2 DEF Watching
  <2>3. stopped \in [Watch -> Watching]
    BY <1>2
  <2> HIDE DEF stopped, started
  <2>4. watch' \in [Watch -> Watching] /\ watch'[FreeWatch] = started
        /\ \A w \in Watch : w # FreeWatch => watch'[w] = stopped[w]
    BY <2>1, <2>2, <2>3
  <2>5. OneWatch'
    <3>1. \A w \in Watch : w = sub => stopped[w].cancelled
      BY <1>2, TriggersAssumption
    <3> QED  BY <1>0, <1>2, <2>4, <3>1 DEF WatchInv, OneWatch
  <2>6. started.gen <= res.gen /\ (res.live /\ started.gen = res.gen => res.kind = "provider")
    BY <1>0, <2>2 DEF PassInv, PassClock, PassIsCurrent
  <2>7. \A w \in Watch : (watch[w].gen <= res.gen /\ WatchIsCurrent(w))'
    BY <1>0, <1>2, <2>2, <2>4, <2>6 DEF WatchInv, WatchIsCurrent, EventIsNext
  <2> QED  BY <2>1, <2>4, <2>5, <2>7 DEF WatchInv
<1>5. sub' \in Watch \union {NoWatch} /\ watch' \in [Watch -> Watching] /\ WatchInv'
  <2> HIDE DEF stopped, started
  <2> QED  BY <1>3, <1>4 DEF Subscribe, stopped, started
<1>6. TypeOK'
  BY <1>0, <1>1, <1>5 DEF TypeOK
<1> QED  BY <1>0, <1>1, <1>5, <1>6, TablesFrame DEF IInv

-----------------------------------------------------------------------------
(* The goroutine of a subscription.                                        *)

\* The types of its locals.
LEMMA WatchTypes ==
    ASSUME TypeOK, NEW w \in Watch
    PROVE  watch[w] \in Watching /\ watch[w].gen \in 0..MaxGeneration /\ watch[w].at \in Time
           /\ watch[w].pos \in 0..MaxEvents /\ watch[w].cancelled \in BOOLEAN
<1>1. watch[w] \in Watching
  BY DEF TypeOK
<1> QED  BY <1>1 DEF Watching

\* A step that changes the locals of one goroutine alone.
LEMMA WatchOnly ==
    ASSUME IInv, NEW w \in Watch, NEW l \in Watching, watch' = [watch EXCEPT ![w] = l],
           UNCHANGED <<storeVars, loopVars, op, worldVars>>,
           disturbances' \in 0..MaxDisturbances,
           l.gen <= res.gen, w # sub /\ ~ l.cancelled => l.pc = "none", WatchIsCurrent(w)'
    PROVE  IInv'
<1>1. UNCHANGED <<res, row, cursor, receipt, skips, activated, pass, sub, op, now, born>>
  BY DEF storeVars, worldVars, loopVars
<1>2. TypeOK /\ TablesInv /\ PassInv /\ WatchInv /\ op.gen <= res.gen
      /\ watch \in [Watch -> Watching]
  BY DEF IInv, TypeOK
<1>3. watch' \in [Watch -> Watching] /\ watch'[w] = l
      /\ \A v \in Watch : v # w => watch'[v] = watch[v]
  BY <1>2
<1>4. TypeOK'
  BY <1>1, <1>2, <1>3 DEF TypeOK
<1>5. WatchInv'
  <2>1. ASSUME NEW v \in Watch, v # w
        PROVE  (watch[v].gen <= res.gen /\ WatchIsCurrent(v))'
    BY <1>1, <1>2, <1>3, <2>1 DEF WatchInv, WatchIsCurrent, EventIsNext
  <2>2. OneWatch'
    BY <1>1, <1>2, <1>3 DEF WatchInv, OneWatch
  <2>3. (watch[w].gen <= res.gen)'
    BY <1>1, <1>3
  <2> QED  BY <2>1, <2>2, <2>3 DEF WatchInv
<1> QED  BY <1>1, <1>2, <1>4, <1>5, TablesFrame, PassFrame DEF IInv

\* The goroutine that is not cancelled is the subscription.
LEMMA RunningIsSub ==
    ASSUME WatchInv, NEW w \in Watch, ~ watch[w].cancelled, watch[w].pc # "none"
    PROVE  w = sub
BY DEF WatchInv, OneWatch

\* The row of a current subscription is at its activation.
LEMMA EnsureWatchKeeps ==
    ASSUME IInv, NEW w \in Watch, EnsureWatch(w)
    PROVE  IInv'
<1>0. TypeOK /\ TablesInv /\ PassInv /\ WatchInv /\ op.gen <= res.gen /\ watch[w].pc = "ensure"
      /\ ~ watch[w].cancelled /\ watch \in [Watch -> Watching]
      /\ UNCHANGED <<res, receipt, skips, activated, pass, sub, op, now, born, disturbances>>
  BY DEF IInv, EnsureWatch, Runs, TypeOK, worldVars, loopVars
<1>1. watch[w] \in Watching /\ watch[w].gen \in 0..MaxGeneration /\ watch[w].gen <= res.gen
      /\ now \in Time /\ now <= now /\ 0 \in Time /\ 0 \in 0..MaxEvents /\ w = sub
  BY <1>0, WatchTypes, Numbers, RunningIsSub, TriggersAssumption DEF WatchInv, Time
<1>2. CASE /\ EnsureTriggerState(watch[w].gen, TRUE, now)
           /\ watch' = [watch EXCEPT ![w].pc = "cursor", ![w].at = row'.at]
  <2>1. row' \in Row /\ cursor' \in 0..MaxEvents /\ (res.live => row' = row /\ cursor' = cursor)
        /\ TablesInv'
    BY <1>0, <1>1, <1>2, EnsureFinds, EnsureKeeps DEF TablesInv
  <2>2. row'.at \in Time
    BY <2>1 DEF Row
  <2>3. watch' \in [Watch -> Watching] /\ watch'[w].pc = "cursor" /\ watch'[w].gen = watch[w].gen
        /\ watch'[w].at = row'.at /\ watch'[w].cancelled = watch[w].cancelled
        /\ \A v \in Watch : v # w => watch'[v] = watch[v]
    BY <1>0, <1>1, <1>2, <2>2 DEF Watching
  <2>4. TypeOK'
    BY <1>0, <2>1, <2>3 DEF TypeOK
  <2>5. ASSUME NEW v \in Watch
        PROVE  (watch[v].gen <= res.gen /\ WatchIsCurrent(v))'
    <3>1. CASE v # w
      BY <1>0, <2>1, <2>3, <3>1 DEF WatchInv, WatchIsCurrent, EventIsNext
    <3>2. CASE v = w
      BY <1>0, <1>1, <2>1, <2>3, <3>2 DEF TablesInv, ActivationIsOld, WatchInv, WatchIsCurrent
    <3> QED  BY <3>1, <3>2
  <2>6. OneWatch'
    BY <1>0, <1>1, <2>3 DEF WatchInv, OneWatch
  <2> QED  BY <1>0, <2>1, <2>4, <2>5, <2>6, PassFrame DEF IInv, WatchInv
<1>3. CASE UNCHANGED <<row, cursor>> /\ Back(w)
  <2> DEFINE l == [watch[w] EXCEPT !.pc = "backoff", !.at = 0, !.pos = 0]
  <2>1. l \in Watching /\ l.pc = "backoff" /\ l.gen = watch[w].gen
        /\ l.cancelled = watch[w].cancelled /\ watch' = [watch EXCEPT ![w] = l]
    BY <1>1, <1>3 DEF Watching, Back
  <2> HIDE DEF l
  <2>2. watch'[w] = l
    BY <1>0, <2>1
  <2>3. WatchIsCurrent(w)'
    BY <1>0, <2>1, <2>2 DEF WatchInv, WatchIsCurrent
  <2>4. UNCHANGED <<storeVars, loopVars, op, worldVars>> /\ disturbances' \in 0..MaxDisturbances
    BY <1>0, <1>3 DEF storeVars, loopVars, worldVars, TypeOK
  <2> QED  BY <1>1, <2>1, <2>3, <2>4, WatchOnly
<1> QED  BY <1>2, <1>3 DEF EnsureWatch

\* A failed stream is retried, and a cancelled goroutine ends.
LEMMA BackKeeps ==
    ASSUME IInv, NEW w \in Watch, EventRefused(w) \/ StreamFails(w) \/ Retry(w) \/ WatchEnds(w)
    PROVE  IInv'
<1>0. TypeOK /\ TablesInv /\ WatchInv /\ watch \in [Watch -> Watching]
      /\ UNCHANGED <<storeVars, loopVars, op, worldVars>> /\ disturbances' \in 0..MaxDisturbances
      /\ UNCHANGED <<res, cursor, activated, born, receipt>>
  BY TriggersAssumption DEF IInv, EventRefused, StreamFails, Retry, WatchEnds, Disturb, TypeOK,
     storeVars, worldVars
<1>1. watch[w] \in Watching /\ watch[w].gen <= res.gen /\ 0 \in Time /\ 0 \in 0..MaxEvents
      /\ 0 <= res.gen
  BY <1>0, WatchTypes, Numbers, TriggersAssumption DEF WatchInv, Time
<1>2. ASSUME NEW l \in Watching, watch' = [watch EXCEPT ![w] = l], l.pc \in {"backoff", "ensure"},
             l.gen = watch[w].gen, ~ watch[w].cancelled, watch[w].pc # "none"
      PROVE  IInv'
  <2>1. w = sub
    BY <1>0, <1>2, RunningIsSub
  <2>2. watch'[w] = l
    BY <1>0, <1>2
  <2>3. WatchIsCurrent(w)'
    BY <1>0, <1>2, <2>2 DEF WatchInv, WatchIsCurrent
  <2> QED  BY <1>0, <1>1, <1>2, <2>1, <2>3, WatchOnly
<1>3. CASE EventRefused(w) \/ StreamFails(w)
  <2> DEFINE l == [watch[w] EXCEPT !.pc = "backoff", !.at = 0, !.pos = 0]
  <2>1. l \in Watching /\ l.pc = "backoff" /\ l.gen = watch[w].gen
        /\ watch' = [watch EXCEPT ![w] = l] /\ ~ watch[w].cancelled /\ watch[w].pc # "none"
    BY <1>1, <1>3 DEF Watching, Back, EventRefused, StreamFails, Runs
  <2> HIDE DEF l
  <2> QED  BY <1>2, <2>1
<1>4. CASE Retry(w)
  <2> DEFINE l == [watch[w] EXCEPT !.pc = "ensure"]
  <2>1. l \in Watching /\ l.pc = "ensure" /\ l.gen = watch[w].gen
        /\ watch' = [watch EXCEPT ![w] = l] /\ ~ watch[w].cancelled /\ watch[w].pc # "none"
    BY <1>1, <1>4 DEF Watching, Move, Retry, Runs
  <2> HIDE DEF l
  <2> QED  BY <1>2, <2>1
<1>5. CASE WatchEnds(w)
  <2>1. Stopped \in Watching /\ Stopped.pc = "none" /\ Stopped.gen = 0
    BY TriggersAssumption DEF Stopped, Watching, Time
  <2>2. watch' = [watch EXCEPT ![w] = Stopped]
    BY <1>5 DEF WatchEnds
  <2>3. watch'[w] = Stopped
    BY <1>0, <2>2
  <2>4. WatchIsCurrent(w)'
    BY <1>0, <2>1, <2>3 DEF TablesInv, RowFollows, WatchIsCurrent
  <2> QED  BY <1>0, <1>1, <2>1, <2>2, <2>4, WatchOnly
<1> QED  BY <1>3, <1>4, <1>5

\* The stream is opened at the cursor.
LEMMA ProviderCursorKeeps ==
    ASSUME IInv, NEW w \in Watch, ProviderCursor(w)
    PROVE  IInv'
<1> DEFINE l == [watch[w] EXCEPT !.pc = "stream", !.pos = cursor,
                                 !.at = IF cursor = 0 THEN @ ELSE 0]
<1>0. TypeOK /\ WatchInv /\ watch \in [Watch -> Watching] /\ watch[w].pc = "cursor"
      /\ ~ watch[w].cancelled
      /\ UNCHANGED <<storeVars, loopVars, op, worldVars>> /\ disturbances' \in 0..MaxDisturbances
      /\ UNCHANGED <<res, cursor, activated, born, receipt>>
  BY DEF IInv, ProviderCursor, Runs, TypeOK, storeVars, worldVars
<1>1. watch[w] \in Watching /\ watch[w].gen <= res.gen /\ 0 \in Time /\ cursor \in 0..MaxEvents
      /\ w = sub
  BY <1>0, WatchTypes, RunningIsSub, TriggersAssumption DEF WatchInv, Time, TypeOK
<1>2. watch' = [watch EXCEPT ![w] = l]
  BY <1>0 DEF ProviderCursor
<1>3. l \in Watching /\ l.pc = "stream" /\ l.gen = watch[w].gen /\ l.pos = cursor
      /\ (cursor = 0 => l.at = watch[w].at)
  BY <1>1 DEF Watching
<1> HIDE DEF l
<1>4. watch'[w] = l
  BY <1>0, <1>2
<1>5. WatchIsCurrent(w)'
  BY <1>0, <1>3, <1>4 DEF WatchInv, WatchIsCurrent
<1> QED  BY <1>0, <1>1, <1>2, <1>3, <1>5, WatchOnly

\* The next event of the stream: what precedes it has its receipt, or is older
\* than the activation.
LEMMA ReceiveKeeps ==
    ASSUME IInv, NEW w \in Watch, Receive(w)
    PROVE  IInv'
<1> DEFINE m == Min(Remaining(w))
           l == [watch[w] EXCEPT !.pc = "accept", !.pos = m, !.at = 0]
<1>0. TypeOK /\ TablesInv /\ WatchInv /\ watch \in [Watch -> Watching] /\ watch[w].pc = "stream"
      /\ ~ watch[w].cancelled /\ Remaining(w) # {}
      /\ UNCHANGED <<storeVars, loopVars, op, worldVars>> /\ disturbances' \in 0..MaxDisturbances
      /\ UNCHANGED <<res, cursor, activated, born, receipt>>
  BY DEF IInv, Receive, Runs, TypeOK, storeVars, worldVars
<1>1. watch[w] \in Watching /\ watch[w].gen <= res.gen /\ 0 \in Time /\ watch[w].at \in Nat
      /\ watch[w].pos \in Nat /\ w = sub
  BY <1>0, WatchTypes, RunningIsSub, TriggersAssumption DEF WatchInv, Time
<1>2. m \in Remaining(w) /\ (\A n \in Remaining(w) : m <= n) /\ m \in DOMAIN born
  <2>1. \A e \in Remaining(w) : e \in DOMAIN born
    BY DEF Remaining
  <2>2. \A e \in DOMAIN born : e \in Nat
    BY <1>0, Numbers
  <2>3. Remaining(w) \in SUBSET Nat
    BY <2>1, <2>2
  <2> QED  BY <1>0, <2>1, <2>3, MinIs
<1>3. watch' = [watch EXCEPT ![w] = l]
  BY <1>0 DEF Receive
<1> HIDE DEF m
<1>4. l \in Watching /\ l.pc = "accept" /\ l.gen = watch[w].gen /\ l.pos = m
  <2>1. m \in 0..MaxEvents
    <3>1. m \in Event
      BY <1>0, <1>2, EventIdentity
    <3> QED  BY <3>1, TriggersAssumption DEF Event
  <2> QED  BY <1>1, <2>1 DEF Watching
<1> HIDE DEF l
<1>5. watch'[w] = l
  BY <1>0, <1>3
<1>6. ASSUME res.live, watch[w].gen = res.gen
      PROVE  EventIsNext(m)
  <2>1. watch[w].pos = cursor /\ (cursor = 0 => watch[w].at <= activated[res.gen])
        /\ res.gen # 0
    BY <1>0, <1>6 DEF WatchInv, WatchIsCurrent, TablesInv, RowFollows
  <2>2. activated[res.gen] \in Nat
    BY <1>0, <2>1, Numbers DEF Generation
  <2>3. cursor \in Nat /\ m \in Nat /\ m # 0
    BY <1>0, <1>2, Numbers
  <2>4. m > cursor
    BY <1>2, <2>1, <2>3 DEF Remaining
  <2>5. ASSUME NEW d \in DOMAIN born, d < m, born[d] > activated[res.gen]
        PROVE  receipt[<<0, d>>] # "none"
    <3>1. d \in Nat /\ born[d] \in Nat
      BY <1>0, Numbers
    <3>2. d \notin Remaining(w)
      BY <1>2, <2>3, <2>5, <3>1
    <3>3. CASE cursor = 0
      <4>1. ~ (born[d] > watch[w].at)
        BY <2>1, <3>2, <3>3 DEF Remaining
      <4> QED  BY <1>1, <2>1, <2>2, <2>5, <3>1, <3>3, <4>1
    <3>4. CASE cursor # 0
      <4>1. d <= cursor
        BY <2>1, <2>3, <3>1, <3>2, <3>4 DEF Remaining
      <4> QED  BY <1>0, <1>6, <2>5, <4>1 DEF TablesInv, CursorNotAheadOfReceipts
    <3> QED  BY <3>3, <3>4
  <2> QED  BY <1>2, <2>4, <2>5 DEF EventIsNext
<1>7. WatchIsCurrent(w)'
  BY <1>0, <1>4, <1>5, <1>6 DEF WatchInv, WatchIsCurrent, EventIsNext
<1> QED  BY <1>0, <1>1, <1>3, <1>4, <1>7, WatchOnly

\* Receipt and cursor move together, and a pass that is about to fire is of
\* another generation.
LEMMA AcceptEventKeeps ==
    ASSUME IInv, NEW w \in Watch, AcceptEvent(w)
    PROVE  IInv'
<1> DEFINE e == watch[w].pos
           i == <<0, e>>
           l == [watch[w] EXCEPT !.pc = "stream"]
<1>0. TypeOK /\ TablesInv /\ PassInv /\ WatchInv /\ op.gen <= res.gen
      /\ watch \in [Watch -> Watching] /\ watch[w].pc = "accept"
      /\ ~ watch[w].cancelled /\ res.live /\ watch[w].gen = res.gen
      /\ UNCHANGED <<res, row, skips, activated, pass, sub, op, now, born, disturbances>>
  BY DEF IInv, AcceptEvent, Acceptable, Runs, TypeOK, loopVars, worldVars
<1>1. watch[w] \in Watching /\ w = sub /\ e \in 0..MaxEvents
  BY <1>0, WatchTypes, RunningIsSub
<1>2. res.kind = "provider" /\ EventIsNext(e)
  BY <1>0 DEF WatchInv, WatchIsCurrent
<1>3. e \in DOMAIN born /\ e \in Nat /\ e > cursor /\ cursor \in Nat /\ e <= Len(born)
      /\ i \in Identity
  BY <1>0, <1>2, Numbers, EventIdentity DEF EventIsNext
<1>4. watch' = [watch EXCEPT ![w] = l] /\ l \in Watching /\ l.pc = "stream" /\ l.gen = res.gen
      /\ l.pos = e /\ l.cancelled = watch[w].cancelled
  BY <1>0, <1>1 DEF AcceptEvent, Move, Watching
<1> HIDE DEF l
<1>5. watch' \in [Watch -> Watching] /\ watch'[w] = l
      /\ \A v \in Watch : v # w => watch'[v] = watch[v]
  BY <1>0, <1>4
<1>6. cursor' = e /\ receipt' = [receipt EXCEPT ![i] = IF @ = "none" THEN "pending" ELSE @]
      /\ receipt \in [Identity -> {"none", "pending", "running", "done"}]
  BY <1>0 DEF AcceptEvent, TypeOK
<1> HIDE DEF i
<1>7. receipt' \in [Identity -> {"none", "pending", "running", "done"}] /\ receipt'[i] # "none"
      /\ \A j \in Identity : j # i => receipt'[j] = receipt[j]
  BY <1>3, <1>6
<1>8. \A g \in Generation, t \in Occurrences : receipt'[<<g, t>>] = receipt[<<g, t>>]
  <2>1. \A g \in Generation, t \in Occurrences : <<g, t>> # i
    BY TriggersAssumption DEF Generation, i
  <2> QED  BY <1>7, <2>1, OccurrenceIdentity
<1>9. \A j \in Identity : receipt[j] # "none" => receipt'[j] # "none"
  BY <1>7
<1> HIDE DEF e
<1>10. TypeOK'
  BY <1>0, <1>1, <1>5, <1>6, <1>7 DEF TypeOK
<1>11. TablesInv'
  <2>1. RowFollows' /\ ActivationIsOld' /\ cursor' <= Len(born')
    BY <1>0, <1>3, <1>6 DEF TablesInv, RowFollows, ActivationIsOld
  <2>2. OlderFiredPassed' /\ InstantFiresOnce'
    BY <1>0, <1>8 DEF TablesInv, OlderFiredPassed, InstantFiresOnce, Fired
  <2>3. CursorOnDecidedInstant'
    <3>1. row.gen # 0 => row.gen \in Generation
      BY <1>0, Numbers DEF Generation
    <3> QED  BY <1>0, <1>8, <3>1 DEF TablesInv, CursorOnDecidedInstant
  <2>4. CursorNotAheadOfReceipts'
    <3>1. ASSUME NEW d \in DOMAIN born, d <= e, born[d] > activated[res.gen]
          PROVE  receipt'[<<0, d>>] # "none"
      <4>1. CASE d = e
        BY <1>7, <4>1 DEF i
      <4>2. CASE d < e
        BY <1>0, <1>2, <1>9, <3>1, <4>2, EventIdentity DEF EventIsNext
      <4> QED  BY <1>0, <1>3, <3>1, <4>1, <4>2, Numbers
    <3> QED  BY <1>0, <1>6, <3>1 DEF CursorNotAheadOfReceipts
  <2> QED  BY <2>1, <2>2, <2>3, <2>4 DEF TablesInv
<1>12. PassInv'
  <2>1. PassClock' /\ NoneFiredAhead' /\ PassIsOld'
    BY <1>0, <1>8 DEF PassInv, PassClock, NoneFiredAhead, PassIsOld, Fired
  <2>2. PassDecides'
    <3>1. pass.pc = "advance" => pass.gen \in Generation /\ pass.at \in Occurrences
      BY <1>0, Numbers DEF PassInv, PassClock, Deciding, Schedules, Generation
    <3> QED  BY <1>0, <1>8, <3>1 DEF PassInv, PassDecides, IsDecided
  <2>3. PassIsCurrent'
    <3>1. pass.gen = res.gen => pass.pc \notin Schedules
      BY <1>0, <1>2 DEF PassInv, PassIsCurrent
    <3> QED  BY <1>0, <1>2, <3>1 DEF PassIsCurrent, Schedules, Reading, Deciding
  <2> QED  BY <2>1, <2>2, <2>3 DEF PassInv
<1>13. WatchInv'
  <2>1. OneWatch'
    BY <1>0, <1>1, <1>5 DEF WatchInv, OneWatch
  <2>2. ASSUME NEW v \in Watch, v # w
        PROVE  (watch[v].gen <= res.gen /\ WatchIsCurrent(v))'
    <3>1. watch[v].cancelled \/ watch[v].pc = "none"
      BY <1>0, <1>1, <2>2 DEF WatchInv, OneWatch
    <3> QED  BY <1>0, <1>2, <1>5, <2>2, <3>1 DEF WatchInv, WatchIsCurrent
  <2>3. (watch[w].gen <= res.gen /\ WatchIsCurrent(w))'
    BY <1>0, <1>2, <1>3, <1>4, <1>5, <1>6, Numbers DEF WatchIsCurrent
  <2> QED  BY <2>1, <2>2, <2>3 DEF WatchInv
<1> QED  BY <1>0, <1>10, <1>11, <1>12, <1>13 DEF IInv

-----------------------------------------------------------------------------
(* The world.                                                              *)

\* The clock moves, and an event may be born.
LEMMA ClockKeeps ==
    ASSUME IInv, Tick \/ Produce
    PROVE  IInv'
<1>0. TypeOK /\ TablesInv /\ PassInv /\ WatchInv /\ op.gen <= res.gen /\ now' = now + 1
      /\ now < MaxTime /\ now' \in Time
      /\ UNCHANGED <<res, row, cursor, receipt, skips, activated, pass, sub, watch, op, disturbances>>
  <2>1. TypeOK /\ now < MaxTime /\ now' = now + 1
    BY DEF IInv, Tick, Produce
  <2>2. now' \in Time
    BY <2>1, TriggersAssumption DEF TypeOK, Time
  <2> QED  BY <2>1, <2>2 DEF IInv, Tick, Produce, storeVars, loopVars
<1>1. /\ born' \in Seq(Time) /\ Len(born') <= MaxEvents /\ Len(born') \in Nat
      /\ Len(born) <= Len(born') /\ DOMAIN born \subseteq DOMAIN born'
      /\ DOMAIN born' = 1..Len(born')
      /\ \A e \in DOMAIN born : born'[e] = born[e]
  <2>1. born \in Seq(Time) /\ Len(born) \in Nat /\ Len(born) <= MaxEvents
    BY <1>0 DEF TypeOK
  <2>2. CASE born' = born
    BY <2>1, <2>2
  <2>3. CASE born' = Append(born, now') /\ Len(born) < MaxEvents
    <3>1. born' \in Seq(Time) /\ Len(born') = Len(born) + 1
          /\ \A e \in 1..Len(born) : born'[e] = born[e]
      BY <1>0, <2>1, <2>3
    <3>2. DOMAIN born' = 1..Len(born') /\ DOMAIN born = 1..Len(born)
      BY <2>1, <3>1
    <3>3. Len(born') <= MaxEvents
      BY <2>1, <2>3, <3>1, TriggersAssumption
    <3> QED  BY <2>1, <3>1, <3>2, <3>3
  <2> QED  BY <1>0, <2>2, <2>3 DEF Tick, Produce
<1>2. TypeOK'
  BY <1>0, <1>1 DEF TypeOK
<1>3. now <= now' /\ now \in Nat /\ now' \in Nat /\ row.at \in Nat /\ pass.now \in Nat
      /\ pass.at \in Nat
  <2>1. now \in Nat /\ row.at \in Nat /\ pass.now \in Nat /\ pass.at \in Nat
    BY <1>0, Numbers
  <2> QED  BY <1>0, <2>1
<1>4. TablesInv'
  <2>1. RowFollows' /\ ActivationIsOld' /\ InstantFiresOnce' /\ CursorOnDecidedInstant'
    BY <1>0, <1>3 DEF TablesInv, RowFollows, ActivationIsOld, InstantFiresOnce,
       CursorOnDecidedInstant
  <2>2. OlderFiredPassed'
    <3>1. \A t \in Occurrences : t <= now => t <= now'
      BY <1>3, TriggersAssumption
    <3> QED  BY <1>0, <3>1 DEF TablesInv, OlderFiredPassed, Fired
  <2>3. (cursor <= Len(born))'
    BY <1>0, <1>1, Numbers DEF TablesInv
  <2>4. CursorNotAheadOfReceipts'
    <3>1. ASSUME NEW e \in DOMAIN born', e <= cursor
          PROVE  e \in DOMAIN born
      BY <1>0, <1>1, <3>1, Numbers DEF TablesInv
    <3> QED  BY <1>0, <1>1, <3>1 DEF TablesInv, CursorNotAheadOfReceipts
  <2> QED  BY <2>1, <2>2, <2>3, <2>4 DEF TablesInv
<1>5. PassInv'
  BY <1>0, <1>3 DEF PassInv, PassClock, NoneFiredAhead, PassDecides, PassIsOld, PassIsCurrent, Fired,
     IsDecided, HasActiveRun
<1>6. WatchInv'
  <2>1. ASSUME NEW e, EventIsNext(e)
        PROVE  EventIsNext(e)'
    <3>1. ASSUME NEW d \in DOMAIN born', d < e
          PROVE  d \in DOMAIN born
      BY <1>0, <1>1, <2>1, <3>1, Numbers DEF EventIsNext
    <3> QED  BY <1>0, <1>1, <2>1, <3>1 DEF EventIsNext
  <2>2. \A e : EventIsNext(e) => EventIsNext(e)'
    BY <2>1
  <2>3. ASSUME NEW w \in Watch
        PROVE  WatchIsCurrent(w)'
    <3>1. WatchIsCurrent(w)
      BY <1>0 DEF WatchInv
    <3>2. EventIsNext(watch[w].pos) => EventIsNext(watch[w].pos)'
      BY <1>0, <2>2
    <3> QED  BY <1>0, <3>1, <3>2 DEF WatchIsCurrent
  <2> QED  BY <1>0, <2>3 DEF WatchInv, OneWatch
<1> QED  BY <1>0, <1>2, <1>4, <1>5, <1>6 DEF IInv

\* A Run that starts or ends keeps its receipt, and none becomes active.
LEMMA RunAdvancesKeeps ==
    ASSUME IInv, NEW i \in Identity, RunAdvances(i)
    PROVE  IInv'
<1>0. TypeOK /\ TablesInv /\ PassInv /\ WatchInv /\ op.gen <= res.gen
      /\ receipt \in [Identity -> {"none", "pending", "running", "done"}]
      /\ UNCHANGED <<res, row, cursor, skips, activated, pass, sub, watch, op, now, born, disturbances>>
  BY DEF IInv, RunAdvances, TypeOK, loopVars, worldVars
<1>1. receipt' \in [Identity -> {"none", "pending", "running", "done"}]
      /\ HasActiveRun
      /\ \A j \in Identity : receipt[j] # "none" <=> receipt'[j] # "none"
  <2>1. receipt' = [receipt EXCEPT ![i] = IF @ = "pending" THEN "running" ELSE "done"]
        /\ receipt[i] \in {"pending", "running"}
    BY DEF RunAdvances
  <2> QED  BY <1>0, <2>1 DEF HasActiveRun
<1>2. \A g \in Generation, t \in Occurrences : Fired(g, t) <=> Fired(g, t)'
  BY <1>1, OccurrenceIdentity DEF Fired
<1>3. TypeOK'
  BY <1>0, <1>1 DEF TypeOK
<1>4. TablesInv'
  <2>1. CursorOnDecidedInstant' /\ CursorNotAheadOfReceipts'
    BY <1>0, <1>1, CursorsGrow
  <2>2. RowFollows' /\ OlderFiredPassed' /\ ActivationIsOld' /\ (cursor <= Len(born))'
    BY <1>0, <1>2 DEF TablesInv, RowFollows, OlderFiredPassed, ActivationIsOld
  <2>3. InstantFiresOnce'
    BY <1>0, <1>2 DEF TablesInv, InstantFiresOnce, Fired
  <2> QED  BY <2>1, <2>2, <2>3 DEF TablesInv
<1>5. PassInv'
  <2>1. PassClock' /\ NoneFiredAhead' /\ PassIsOld'
    BY <1>0, <1>2 DEF PassInv, PassClock, NoneFiredAhead, PassIsOld
  <2>2. PassDecides'
    <3>1. pass.pc = "advance" => pass.gen \in Generation /\ pass.at \in Occurrences
      BY <1>0, Numbers DEF PassInv, PassClock, Deciding, Schedules, Generation
    <3>2. pass.pc = "advance" => receipt'[<<pass.gen, pass.at>>] # "none"
                                 \/ <<pass.gen, pass.at>> \in skips
      BY <1>0, <1>1, <3>1, OccurrenceIdentity DEF PassInv, PassDecides, IsDecided
    <3> QED  BY <1>0, <3>2 DEF PassDecides, IsDecided
  <2>3. PassIsCurrent'
    BY <1>0, <1>1, <1>2 DEF PassInv, PassIsCurrent
  <2> QED  BY <2>1, <2>2, <2>3 DEF PassInv
<1> QED  BY <1>0, <1>1, <1>3, <1>4, <1>5, WatchGrows DEF IInv

\* After a restart nothing is carried.
LEMMA RestartKeeps ==
    ASSUME IInv, Restart
    PROVE  IInv'
<1>0. TypeOK /\ TablesInv /\ UNCHANGED <<res, row, cursor, receipt, skips, activated, now, born>>
      /\ pass' = Idle /\ sub' = NoWatch /\ watch' = [w \in Watch |-> Stopped] /\ op' = NoCall
      /\ disturbances' \in 0..MaxDisturbances
  BY TriggersAssumption DEF IInv, Restart, Disturb, TypeOK, storeVars, worldVars
<1>1. Stopped \in Watching /\ Stopped.pc = "none" /\ Stopped.gen = 0
      /\ NoCall \in Call /\ NoCall.gen = 0 /\ 0 <= res.gen
  <2>1. Stopped \in Watching /\ Stopped.pc = "none" /\ Stopped.gen = 0
    BY TriggersAssumption DEF Stopped, Watching, Time
  <2>2. NoCall \in Call /\ NoCall.gen = 0
    BY TriggersAssumption DEF NoCall, Call
  <2> QED  BY <1>0, <2>1, <2>2, Numbers
<1>2. pass' \in Pass /\ PassInv'
  BY <1>0, IdleIs
<1>3. TypeOK'
  BY <1>0, <1>1, <1>2 DEF TypeOK
<1>4. WatchInv'
  BY <1>0, <1>1 DEF TablesInv, RowFollows, WatchInv, OneWatch, WatchIsCurrent
<1> QED  BY <1>0, <1>1, <1>2, <1>3, <1>4, TablesFrame DEF IInv

-----------------------------------------------------------------------------
(* The invariant.                                                          *)

\* No Trigger, no rows, no goroutine.
LEMMA InitIInv == Init => IInv
<1> SUFFICES ASSUME Init PROVE IInv
  OBVIOUS
<1>1. NoRow \in Row /\ NoRow.gen = 0 /\ NoRow.at = 0 /\ Idle \in Pass /\ Idle.pc = "idle"
      /\ Idle.gen = 0 /\ Idle.now = 0 /\ Idle.at = 0
  BY TriggersAssumption DEF NoRow, Row, Idle, Pass, Time
<1>2. Stopped \in Watching /\ Stopped.pc = "none" /\ Stopped.gen = 0
  BY TriggersAssumption DEF Stopped, Watching, Time
<1>3. NoCall \in Call /\ NoCall.gen = 0
  BY TriggersAssumption DEF NoCall, Call
<1>4. res \in [live : BOOLEAN, gen : 0..MaxGeneration, kind : Kind, on : BOOLEAN]
      /\ ~ res.live /\ res.gen = 0
  BY TriggersAssumption DEF Init, Kind
<1>5. 0 \in Time /\ 0 \in 0..MaxEvents /\ 0 \in 0..MaxDisturbances /\ <<>> \in Seq(Time)
      /\ Len(<<>>) = 0 /\ 0 <= MaxEvents
  BY TriggersAssumption DEF Time
<1>6. TypeOK
  BY <1>1, <1>2, <1>3, <1>4, <1>5 DEF Init, TypeOK
<1>7. \A g \in Generation, t \in Occurrences : ~ Fired(g, t)
  BY OccurrenceIdentity DEF Init, Fired
<1>8. TablesInv
  BY <1>1, <1>4, <1>5, <1>7 DEF Init, TablesInv, RowFollows, OlderFiredPassed, InstantFiresOnce,
     CursorOnDecidedInstant, ActivationIsOld, CursorNotAheadOfReceipts, Fired
<1>9. PassInv
  BY <1>1, <1>4, <1>7 DEF Init, PassInv, PassClock, NoneFiredAhead, PassDecides, PassIsOld,
     PassIsCurrent, Reading, Deciding, Schedules
<1>10. WatchInv
  BY <1>2, <1>4 DEF Init, WatchInv, OneWatch, WatchIsCurrent
<1> QED  BY <1>3, <1>4, <1>6, <1>8, <1>9, <1>10 DEF Init, IInv

\* Every step keeps the invariant.
LEMMA StepIInv == IInv /\ [Next]_vars => IInv'
<1> SUFFICES ASSUME IInv, [Next]_vars PROVE IInv'
  OBVIOUS
<1>1. ASSUME NEW kind \in Kind, NEW on \in BOOLEAN, Apply(kind, on)
      PROVE  IInv'
  BY <1>1, ApplyKeeps
<1>2. CASE Delete
  BY <1>2, DeleteKeeps
<1>3. CASE (\E enabled \in BOOLEAN : ReadTrigger(enabled)) \/ EnsureForCall \/ SetTriggerEnabled
  BY <1>3, CallKeeps
<1>4. CASE ScheduleTick \/ ListProviders
  BY <1>4, ScheduleTickKeeps, ListProvidersKeeps
<1>5. CASE ReconcileSchedules
  BY <1>5, ListSchedulesKeeps, EnsureScheduleKeeps, SelectOccurrenceKeeps, RecordTriggerSkipKeeps,
     AcceptTriggerKeeps, AcceptReturns, AdvanceTriggerCursorKeeps DEF ReconcileSchedules
<1>6. CASE SyncProviders
  BY <1>6, EnsureProviderKeeps, SubscribeKeeps DEF SyncProviders
<1>7. ASSUME NEW w \in Watch, WatchProvider(w)
      PROVE  IInv'
  BY <1>7, EnsureWatchKeeps, ProviderCursorKeeps, ReceiveKeeps, AcceptEventKeeps, BackKeeps
     DEF WatchProvider
<1>8. CASE Tick \/ Produce
  BY <1>8, ClockKeeps
<1>9. ASSUME NEW i \in Identity, RunAdvances(i)
      PROVE  IInv'
  BY <1>9, RunAdvancesKeeps
<1>10. CASE Restart
  BY <1>10, RestartKeeps
<1>11. CASE UNCHANGED vars
  <2>1. UNCHANGED <<storeVars, pass, sub, watch, op, worldVars, disturbances>>
        /\ UNCHANGED <<res, receipt, skips, activated, now>>
    BY <1>11 DEF vars, storeVars, loopVars, worldVars
  <2>2. PassInv' /\ pass' \in Pass /\ disturbances' \in 0..MaxDisturbances
    BY <2>1, PassFrame DEF IInv, TypeOK
  <2> QED  BY <2>1, <2>2, PassOnly
<1> QED  BY <1>1, <1>2, <1>3, <1>4, <1>5, <1>6, <1>7, <1>8, <1>9, <1>10, <1>11 DEF Next

\* The inductive invariant of the trigger controller.
LEMMA InductiveInvariant == Spec => []IInv
BY InitIInv, StepIInv, PTL DEF Spec

\* The two cursors of a Trigger only pass what has been decided, and an
\* instant starts one Run at most: for any edits, restarts and broken streams
\* between the store calls of a pass or a subscription.
THEOREM TriggersInvariant == Spec => []TriggersInv
<1>1. IInv => TriggersInv
  BY DEF IInv, TablesInv, TriggersInv
<1> QED  BY <1>1, InductiveInvariant, PTL

\* Within a generation the provider cursor never moves back: an event is
\* accepted by the one goroutine that is not cancelled, which read the cursor
\* and received a later event; every other step leaves the cursor or starts a
\* generation.
THEOREM CursorForward == Spec => CursorMovesForward
<1>1. ASSUME IInv, [Next]_vars
      PROVE  row'.gen = row.gen => cursor' >= cursor
  <2>0. TypeOK /\ TablesInv /\ PassInv /\ WatchInv /\ op.gen <= res.gen /\ RowFollows
        /\ cursor \in Nat /\ row.gen \in Nat
    BY <1>1, Numbers DEF IInv, TablesInv
  <2>1. CASE UNCHANGED cursor
    BY <2>0, <2>1
  <2>2. ASSUME NEW g \in 0..MaxGeneration, NEW on, NEW t, EnsureTriggerState(g, on, t)
        PROVE  row'.gen = row.gen => cursor' >= cursor
    <3>1. row.gen # g => row'.gen = g
      BY <2>2 DEF EnsureTriggerState, ResetRow
    <3> QED  BY <2>0, <2>2, <3>1 DEF EnsureTriggerState
  <2>3. ASSUME NEW kind \in Kind, NEW on \in BOOLEAN, Apply(kind, on)
        PROVE  row'.gen = row.gen => cursor' >= cursor
    BY <2>0, <2>2, <2>3, Numbers, SMTT(30) DEF Apply
  <2>4. CASE Delete
    <3>1. row.gen = 0 => cursor = 0
      BY <2>0, <2>4 DEF Delete, RowFollows
    <3> QED  BY <2>0, <2>4, <3>1 DEF Delete, NoRow
  <2>5. ASSUME NEW w \in Watch, AcceptEvent(w)
        PROVE  row'.gen = row.gen => cursor' >= cursor
    <3>1. EventIsNext(watch[w].pos) /\ cursor' = watch[w].pos
      BY <2>0, <2>5 DEF AcceptEvent, Acceptable, Runs, WatchInv, WatchIsCurrent
    <3>2. watch[w].pos \in Nat
      BY <2>0, WatchTypes, TriggersAssumption
    <3> QED  BY <2>0, <3>1, <3>2 DEF EventIsNext
  <2>6. CASE EnsureForCall \/ EnsureSchedule \/ EnsureProvider
    <3>1. op.gen \in 0..MaxGeneration /\ pass.gen \in 0..MaxGeneration
      BY <2>0, Numbers DEF TypeOK, Call
    <3> QED  BY <2>1, <2>2, <2>6, <3>1 DEF EnsureForCall, EnsureSchedule, EnsureProvider
  <2>7. ASSUME NEW w \in Watch, EnsureWatch(w)
        PROVE  row'.gen = row.gen => cursor' >= cursor
    BY <2>0, <2>1, <2>2, <2>7, WatchTypes DEF EnsureWatch
  <2>8. CASE ReconcileSchedules /\ ~ EnsureSchedule
    BY <2>1, <2>8 DEF ReconcileSchedules, ListSchedules, SelectOccurrence, RecordTriggerSkip,
       AcceptTrigger, AcceptRefused, AcceptFails, AdvanceTriggerCursor, storeVars
  <2>9. ASSUME NEW w \in Watch, WatchProvider(w), ~ EnsureWatch(w), ~ AcceptEvent(w)
        PROVE  UNCHANGED cursor
    BY <2>9 DEF WatchProvider, ProviderCursor, Receive, EventRefused, StreamFails, Retry,
       WatchEnds, storeVars
  <2>10. CASE \/ \E enabled \in BOOLEAN : ReadTrigger(enabled)
              \/ SetTriggerEnabled \/ ScheduleTick \/ ListProviders \/ Subscribe \/ Tick \/ Produce
              \/ \E i \in Identity : RunAdvances(i)
              \/ Restart \/ UNCHANGED vars
    BY <2>1, <2>10 DEF ReadTrigger, SetTriggerEnabled, ScheduleTick, ListProviders, Subscribe, Tick,
       Produce, RunAdvances, Restart, vars, storeVars
  <2> QED  BY <1>1, <2>1, <2>3, <2>4, <2>5, <2>6, <2>7, <2>8, <2>9, <2>10 DEF Next, SyncProviders
<1>2. IInv /\ [Next]_vars => [row'.gen = row.gen => cursor' >= cursor]_vars
  BY <1>1
<1> QED  BY <1>2, InductiveInvariant, PTL DEF Spec, CursorMovesForward

\* A schedule fires only when no Run of its Trigger is active, although the
\* check and the acceptance are transactions of their own: in between, the
\* goroutine that could start another Run is this one, or the Trigger is no
\* longer the one that was checked, and the acceptance is refused.
THEOREM ForbidSafety == Spec => ForbidHolds
<1> DEFINE Fires == \E i \in Generation \X Occurrences : receipt[i] = "none" /\ receipt'[i] # "none"
<1>1. ASSUME IInv, [Next]_vars, Fires
      PROVE  \A j \in Identity : receipt[j] \notin {"pending", "running"}
  <2>0. TypeOK /\ PassInv /\ (\E i \in Identity : receipt[i] = "none" /\ receipt'[i] # "none")
        /\ receipt \in [Identity -> {"none", "pending", "running", "done"}]
        /\ receipt' # receipt
    BY <1>1 DEF IInv, TypeOK, Identity
  <2>1. ASSUME NEW i \in Identity, RunAdvances(i)
        PROVE  FALSE
    BY <2>0, <2>1 DEF RunAdvances
  <2>2. ASSUME NEW w \in Watch, AcceptEvent(w)
        PROVE  FALSE
    <3>1. \A i \in Identity : i # <<0, watch[w].pos>> => receipt'[i] = receipt[i]
      BY <2>0, <2>2 DEF AcceptEvent
    <3>2. \A i \in Generation \X Occurrences : i \in Identity /\ i # <<0, watch[w].pos>>
      BY TriggersAssumption DEF Generation, Identity
    <3> QED  BY <1>1, <3>1, <3>2
  <2>3. AcceptTrigger
    <3>1. ASSUME NEW w \in Watch, WatchProvider(w)
          PROVE  UNCHANGED receipt \/ AcceptEvent(w)
      BY <3>1 DEF WatchProvider, EnsureWatch, ProviderCursor, Receive, EventRefused, StreamFails,
         Retry, WatchEnds, storeVars
    <3>2. ReconcileSchedules => UNCHANGED receipt \/ AcceptTrigger
      BY DEF ReconcileSchedules, ListSchedules, EnsureSchedule, SelectOccurrence, RecordTriggerSkip,
         AcceptRefused, AcceptFails, AdvanceTriggerCursor, storeVars
    <3>3. \/ \E kind \in Kind, on \in BOOLEAN : Apply(kind, on)
          \/ \E enabled \in BOOLEAN : ReadTrigger(enabled)
          \/ Delete \/ EnsureForCall \/ SetTriggerEnabled \/ ScheduleTick \/ ListProviders
          \/ SyncProviders \/ Tick \/ Produce \/ Restart \/ UNCHANGED vars
          => UNCHANGED receipt
      BY DEF Apply, ReadTrigger, Delete, EnsureForCall, SetTriggerEnabled, ScheduleTick,
         ListProviders, SyncProviders, EnsureProvider, Subscribe, Tick, Produce, Restart, vars,
         storeVars
    <3> QED  BY <1>1, <2>0, <2>1, <2>2, <3>1, <3>2, <3>3 DEF Next
  <2>4. ~ HasActiveRun
    BY <2>0, <2>3 DEF AcceptTrigger, Acceptable, PassInv, PassIsCurrent
  <2> QED  BY <2>4 DEF HasActiveRun
<1>2. IInv /\ [Next]_vars => [\A i \in Generation \X Occurrences :
          receipt[i] = "none" /\ receipt'[i] # "none"
              => \A j \in Identity : receipt[j] \notin {"pending", "running"}]_vars
  BY <1>1
<1> QED  BY <1>2, InductiveInvariant, PTL DEF Spec, ForbidHolds

=============================================================================
