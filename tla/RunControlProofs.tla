-------------------------- MODULE RunControlProofs --------------------------
(***************************************************************************)
(* Proofs about RunControl.  IndInv is inductive: one lemma per action     *)
(* shows that the action preserves each of its parts; the theorems at the  *)
(* end read the correctness properties off it.                             *)
(***************************************************************************)
EXTENDS RunControl, FiniteSetTheorems, TLAPS

\* A new command carries a Run uid that nothing else mentions yet.
LEMMA AcceptTriggerStep ==
  ASSUME IndInv, ListingFits,
         NEW o \in Occ, NEW r \in Run, NEW q \in Plan,
         AcceptTrigger(o, r, q)
  PROVE  IndInv'
<1> USE BoundsAssumption, NamesAssumption DEF IndInv, AcceptTrigger, Insert,
        Known, vars, storeVars, engineVars, procVars, boundVars, Incomplete,
        Proc, Id, Active, Terminal
<1>1. TypeOK'
  BY DEF TypeOK, Command, NoCommand, Phase, LoopPoint, DeliveryPoint,
         CollectPoint
<1>2. DispatchInv'
  BY DEF DispatchInv, HoldingPoint, StartPoint, LoopPoint, DeliveryPoint,
         CollectPoint, Target, TypeOK, RowInv, IdentityInv, IncompleteStartFor
<1>3. LockInv'
  BY DEF LockInv, CreatingPoint
<1>4. IdentityInv'
  BY DEF IdentityInv, NoCommand, TypeOK
<1>5. RowInv'
  <2> USE DEF TypeOK, RowInv, IdentityInv, IncompleteStartFor
  <2>1. \A x \in Run : x # r => IncompleteStartFor(x)' <=> IncompleteStartFor(x)
    OBVIOUS
  <2> QED
    BY <2>1
<1>6. ClosedInv'
  BY DEF ClosedInv, Closed, IncompleteStartFor, TypeOK
<1>7. BatchInv'
  BY DEF BatchInv, CollectPoint, Closed, IncompleteStartFor, TypeOK
<1>8. StopInv'
  BY DEF StopInv, Stopped, CreatingPoint, Target, Closed, TypeOK, DispatchInv,
         StartPoint, HoldingPoint, LoopPoint, DeliveryPoint, CollectPoint,
         RowInv, IdentityInv, IncompleteStartFor
<1>9. CompletedStartTookEffect'
  BY DEF CompletedStartTookEffect, TypeOK
<1> QED
  BY <1>1, <1>2, <1>3, <1>4, <1>5, <1>6, <1>7, <1>8, <1>9

\* A signal is accepted only for an active Run and never becomes a start.
LEMMA AcceptProviderSignalStep ==
  ASSUME IndInv, ListingFits,
         NEW o \in Occ, NEW r \in Run,
         AcceptProviderSignal(o, r)
  PROVE  IndInv'
<1> USE BoundsAssumption, NamesAssumption DEF IndInv, AcceptProviderSignal,
        Insert, Known, vars, storeVars, engineVars, procVars, boundVars,
        Incomplete, Proc, Id, Active, Terminal
<1>1. TypeOK'
  BY DEF TypeOK, Command, NoCommand, Phase, LoopPoint, DeliveryPoint,
         CollectPoint
<1>2. DispatchInv'
  BY DEF DispatchInv, HoldingPoint, StartPoint, LoopPoint, DeliveryPoint,
         CollectPoint, Target, TypeOK, RowInv, IdentityInv, IncompleteStartFor
<1>3. LockInv'
  BY DEF LockInv, CreatingPoint
<1>4. IdentityInv'
  BY DEF IdentityInv, NoCommand, TypeOK, DispatchInv, StartPoint,
         HoldingPoint, Target, LoopPoint, DeliveryPoint, CollectPoint, RowInv,
         IncompleteStartFor
<1>5. RowInv'
  BY DEF RowInv, IncompleteStartFor, TypeOK
<1>6. ClosedInv'
  BY DEF ClosedInv, Closed, IncompleteStartFor, TypeOK
<1>7. BatchInv'
  BY DEF BatchInv, CollectPoint, Closed, IncompleteStartFor, TypeOK
<1>8. StopInv'
  BY DEF StopInv, Stopped, CreatingPoint, Target, Closed, TypeOK, DispatchInv,
         StartPoint, HoldingPoint, LoopPoint, DeliveryPoint, CollectPoint,
         RowInv, IdentityInv, IncompleteStartFor
<1>9. CompletedStartTookEffect'
  BY DEF CompletedStartTookEffect
<1> QED
  BY <1>1, <1>2, <1>3, <1>4, <1>5, <1>6, <1>7, <1>8, <1>9

\* Time only makes rows claimable.
LEMMA ElapseStep ==
  ASSUME IndInv, ListingFits,
         NEW i \in Id,
         Elapse(i)
  PROVE  IndInv'
<1> USE BoundsAssumption, NamesAssumption DEF IndInv, Elapse, vars, storeVars,
        engineVars, procVars, boundVars, Incomplete, Proc, Id, Active,
        Terminal
<1>1. TypeOK'
  BY DEF TypeOK, Command, NoCommand, Phase, LoopPoint, DeliveryPoint,
         CollectPoint
<1>2. DispatchInv'
  BY DEF DispatchInv, HoldingPoint, StartPoint, LoopPoint, DeliveryPoint,
         CollectPoint, Target
<1>3. LockInv'
  BY DEF LockInv, CreatingPoint
<1>4. IdentityInv'
  BY DEF IdentityInv, NoCommand
<1>5. RowInv'
  BY DEF RowInv, IncompleteStartFor
<1>6. ClosedInv'
  BY DEF ClosedInv, Closed, IncompleteStartFor
<1>7. BatchInv'
  BY DEF BatchInv, CollectPoint, Closed, IncompleteStartFor
<1>8. StopInv'
  BY DEF StopInv, Stopped, CreatingPoint, Target, Closed
<1>9. CompletedStartTookEffect'
  BY DEF CompletedStartTookEffect
<1> QED
  BY <1>1, <1>2, <1>3, <1>4, <1>5, <1>6, <1>7, <1>8, <1>9

\* The claimed row was incomplete, so its Run is not yet forgotten.
LEMMA ClaimNextStep ==
  ASSUME IndInv, ListingFits,
         ClaimNext
  PROVE  IndInv'
<1> USE BoundsAssumption, NamesAssumption DEF IndInv, ClaimNext, Eligible,
        LoopAt, Goto, vars, storeVars, engineVars, procVars, boundVars,
        Incomplete, Proc, Id, Active, Terminal
<1>1. TypeOK'
  BY DEF TypeOK, Command, NoCommand, Phase, LoopPoint, DeliveryPoint,
         CollectPoint
<1>2. DispatchInv'
  BY DEF DispatchInv, HoldingPoint, StartPoint, LoopPoint, DeliveryPoint,
         CollectPoint, Target, TypeOK, RowInv, IdentityInv, IncompleteStartFor
<1>3. LockInv'
  BY DEF LockInv, CreatingPoint
<1>4. IdentityInv'
  BY DEF IdentityInv, NoCommand
<1>5. RowInv'
  BY DEF RowInv, IncompleteStartFor
<1>6. ClosedInv'
  BY DEF ClosedInv, Closed, IncompleteStartFor
<1>7. BatchInv'
  BY DEF BatchInv, CollectPoint, Closed, IncompleteStartFor
<1>8. StopInv'
  BY DEF StopInv, Stopped, CreatingPoint, Target, Closed
<1>9. CompletedStartTookEffect'
  BY DEF CompletedStartTookEffect
<1> QED
  BY <1>1, <1>2, <1>3, <1>4, <1>5, <1>6, <1>7, <1>8, <1>9

\* The loop turns to deliveries with no row in hand.
LEMMA NothingToClaimStep ==
  ASSUME IndInv, ListingFits,
         NothingToClaim
  PROVE  IndInv'
<1> USE BoundsAssumption, NamesAssumption DEF IndInv, NothingToClaim, LoopAt,
        Goto, vars, storeVars, engineVars, procVars, boundVars, Incomplete,
        Proc, Id, Active, Terminal
<1>1. TypeOK'
  BY DEF TypeOK, Command, NoCommand, Phase, LoopPoint, DeliveryPoint,
         CollectPoint
<1>2. DispatchInv'
  BY DEF DispatchInv, HoldingPoint, StartPoint, LoopPoint, DeliveryPoint,
         CollectPoint, Target
<1>3. LockInv'
  BY DEF LockInv, CreatingPoint
<1>4. IdentityInv'
  BY DEF IdentityInv, NoCommand
<1>5. RowInv'
  BY DEF RowInv, IncompleteStartFor
<1>6. ClosedInv'
  BY DEF ClosedInv, Closed, IncompleteStartFor
<1>7. BatchInv'
  BY DEF BatchInv, CollectPoint, Closed, IncompleteStartFor
<1>8. StopInv'
  BY DEF StopInv, Stopped, CreatingPoint, Target, Closed
<1>9. CompletedStartTookEffect'
  BY DEF CompletedStartTookEffect
<1> QED
  BY <1>1, <1>2, <1>3, <1>4, <1>5, <1>6, <1>7, <1>8, <1>9

\* A missing plan sends the command back, still incomplete.
LEMMA GetPlanStep ==
  ASSUME IndInv, ListingFits,
         GetPlan
  PROVE  IndInv'
<1> USE BoundsAssumption, NamesAssumption DEF IndInv, GetPlan, RetryOutbox,
        Release, LoopAt, Goto, vars, storeVars, engineVars, procVars,
        boundVars, Incomplete, Proc, Id, Active, Terminal
<1>1. TypeOK'
  BY DEF TypeOK, Command, NoCommand, Phase, LoopPoint, DeliveryPoint,
         CollectPoint
<1>2. DispatchInv'
  <2> USE DEF DispatchInv, HoldingPoint, StartPoint, LoopPoint, DeliveryPoint, Target, TypeOK
  <2>1. CASE pc' = [pc EXCEPT !["loop"] = "admit"] /\ UNCHANGED <<outbox, claimed>>
    BY <2>1
  <2>2. CASE pc' = [pc EXCEPT !["loop"] = "list"] /\ claimed' = 0
    BY <2>2
  <2> QED
    BY <2>1, <2>2
<1>3. LockInv'
  BY DEF LockInv, CreatingPoint, TypeOK
<1>4. IdentityInv'
  BY DEF IdentityInv, NoCommand, TypeOK, DispatchInv, StartPoint,
         HoldingPoint, Target, LoopPoint, DeliveryPoint, CollectPoint
<1>5. RowInv'
  BY DEF RowInv, IncompleteStartFor, TypeOK, DispatchInv, StartPoint,
         HoldingPoint, Target, LoopPoint, DeliveryPoint, CollectPoint
<1>6. ClosedInv'
  BY DEF ClosedInv, Closed, IncompleteStartFor, TypeOK, DispatchInv,
         StartPoint, HoldingPoint, Target, LoopPoint, DeliveryPoint,
         CollectPoint
<1>7. BatchInv'
  BY DEF BatchInv, CollectPoint, Closed, IncompleteStartFor, TypeOK,
         DispatchInv, StartPoint, HoldingPoint, Target, LoopPoint,
         DeliveryPoint
<1>8. StopInv'
  BY DEF StopInv, Stopped, CreatingPoint, Target, Closed, TypeOK
<1>9. CompletedStartTookEffect'
  BY DEF CompletedStartTookEffect, TypeOK
<1> QED
  BY <1>1, <1>2, <1>3, <1>4, <1>5, <1>6, <1>7, <1>8, <1>9

\* Deferral sends the command back, still incomplete.
LEMMA AdmitStep ==
  ASSUME IndInv, ListingFits,
         Admit
  PROVE  IndInv'
<1> USE BoundsAssumption, NamesAssumption DEF IndInv, Admit, HasCapacity,
        RetryOutbox, Release, LoopAt, Goto, vars, storeVars, engineVars,
        procVars, boundVars, Incomplete, Proc, Id, Active, Terminal
<1>1. TypeOK'
  BY DEF TypeOK, Command, NoCommand, Phase, LoopPoint, DeliveryPoint,
         CollectPoint
<1>2. DispatchInv'
  <2> USE DEF DispatchInv, HoldingPoint, StartPoint, LoopPoint, DeliveryPoint, Target, TypeOK
  <2>1. CASE pc' = [pc EXCEPT !["loop"] = "ensure"] /\ UNCHANGED <<outbox, claimed>>
    BY <2>1
  <2>2. CASE pc' = [pc EXCEPT !["loop"] = "list"] /\ claimed' = 0
    BY <2>2
  <2> QED
    BY <2>1, <2>2
<1>3. LockInv'
  BY DEF LockInv, CreatingPoint, TypeOK
<1>4. IdentityInv'
  BY DEF IdentityInv, NoCommand, TypeOK, DispatchInv, StartPoint,
         HoldingPoint, Target, LoopPoint, DeliveryPoint, CollectPoint
<1>5. RowInv'
  BY DEF RowInv, IncompleteStartFor, TypeOK, DispatchInv, StartPoint,
         HoldingPoint, Target, LoopPoint, DeliveryPoint, CollectPoint,
         IdentityInv
<1>6. ClosedInv'
  BY DEF ClosedInv, Closed, IncompleteStartFor, TypeOK, DispatchInv,
         StartPoint, HoldingPoint, Target, LoopPoint, DeliveryPoint,
         CollectPoint
<1>7. BatchInv'
  BY DEF BatchInv, CollectPoint, Closed, IncompleteStartFor, TypeOK,
         DispatchInv, StartPoint, HoldingPoint, Target, LoopPoint,
         DeliveryPoint
<1>8. StopInv'
  BY DEF StopInv, Stopped, CreatingPoint, Target, Closed, TypeOK
<1>9. CompletedStartTookEffect'
  BY DEF CompletedStartTookEffect, TypeOK
<1> QED
  BY <1>1, <1>2, <1>3, <1>4, <1>5, <1>6, <1>7, <1>8, <1>9

\* The row a start creates pins a plan that is stored with it.
LEMMA EnsureRunStep ==
  ASSUME IndInv, ListingFits,
         EnsureRun
  PROVE  IndInv'
<1> USE BoundsAssumption, NamesAssumption DEF IndInv, EnsureRun, RetryOutbox,
        Release, LoopAt, Goto, vars, storeVars, engineVars, procVars,
        boundVars, Incomplete, Proc, Id, Active, Terminal
<1>1. TypeOK'
  <2>1. claimed \in Id /\ Target \in Run /\ cmd[claimed].plan \in Plan
    BY DEF DispatchInv, StartPoint, HoldingPoint
  <2>2. CASE phase[Target] = "absent"
    <3>1. /\ phase'   = [phase EXCEPT ![Target] = "pending"]
          /\ runPlan' = [runPlan EXCEPT ![Target] = cmd[claimed].plan]
          /\ plans'   = plans \union {cmd[claimed].plan}
          /\ pc' = [pc EXCEPT !["loop"] = "suppress"]
          /\ UNCHANGED <<outbox, claimed>>
      BY <2>2
    <3>2. phase' \in [Run -> Phase] /\ runPlan' \in [Run -> Plan \union {NoPlan}]
      BY <2>1, <3>1 DEF TypeOK, Phase
    <3> QED
      BY <2>1, <3>1, <3>2 DEF TypeOK, LoopPoint
  <2>3. CASE phase[Target] # "absent"
    <3>1. UNCHANGED <<phase, runPlan, plans>>
      BY <2>3
    <3>2. \/ pc' = [pc EXCEPT !["loop"] = "suppress"] /\ UNCHANGED <<outbox, claimed>>
          \/ /\ pc' = [pc EXCEPT !["loop"] = "list"]
             /\ outbox' = [outbox EXCEPT ![claimed] = "pending"]
             /\ claimed' = 0
      BY <2>3
    <3> QED
      BY <2>1, <3>1, <3>2 DEF TypeOK, LoopPoint
  <2> QED
    BY <2>2, <2>3
<1>2. DispatchInv'
  <2> USE DEF DispatchInv, HoldingPoint, StartPoint, LoopPoint, DeliveryPoint, Target, TypeOK
  <2>1. CASE pc' = [pc EXCEPT !["loop"] = "suppress"] /\ UNCHANGED <<outbox, claimed>>
    BY <2>1
  <2>2. CASE pc' = [pc EXCEPT !["loop"] = "list"] /\ claimed' = 0
    BY <2>2
  <2> QED
    BY <2>1, <2>2
<1>3. LockInv'
  BY DEF LockInv, CreatingPoint, TypeOK
<1>4. IdentityInv'
  BY DEF IdentityInv, NoCommand, TypeOK, DispatchInv, StartPoint,
         HoldingPoint, Target, LoopPoint, DeliveryPoint, CollectPoint
<1>5. RowInv'
  <2> USE DEF TypeOK, DispatchInv, StartPoint, HoldingPoint, Target, RowInv
  <2>1. \A r \in Run : IncompleteStartFor(r)' => IncompleteStartFor(r)
    BY DEF IncompleteStartFor
  <2>2. CASE phase[Target] = "absent"
    BY <2>1, <2>2 DEF IdentityInv
  <2>3. CASE phase[Target] # "absent"
    BY <2>1, <2>3
  <2> QED
    BY <2>2, <2>3
<1>6. ClosedInv'
  <2> USE DEF ClosedInv, Closed, IncompleteStartFor, TypeOK, DispatchInv, StartPoint,
              HoldingPoint, Target
  <2>1. \A r \in Run : Closed(r) => Closed(r)'
    OBVIOUS
  <2>2. \A p \in Proc : pc'[p] \in {"cancel", "mark", "markif"} => pc'[p] = pc[p]
    OBVIOUS
  <2> QED
    BY <2>1, <2>2
<1>7. BatchInv'
  <2>1. \A r \in Run : IncompleteStartFor(r)' => IncompleteStartFor(r)
    BY DEF TypeOK, DispatchInv, StartPoint, HoldingPoint, IncompleteStartFor
  <2>2. IncompleteStartFor(Target)
    BY DEF TypeOK, DispatchInv, StartPoint, HoldingPoint, IncompleteStartFor,
           Target
  <2>3. \A r \in Run : Closed(r) => Closed(r)'
    BY <2>1, <2>2 DEF Closed, TypeOK
  <2> QED
    BY <2>1, <2>3 DEF BatchInv, TypeOK, CollectPoint
<1>8. StopInv'
  BY DEF StopInv, Stopped, CreatingPoint, Target, Closed, TypeOK, DispatchInv,
         StartPoint, HoldingPoint, LoopPoint, DeliveryPoint, CollectPoint,
         RowInv, IdentityInv, IncompleteStartFor, ClosedInv, LockInv
<1>9. CompletedStartTookEffect'
  BY DEF CompletedStartTookEffect, TypeOK, DispatchInv, StartPoint,
         HoldingPoint, Target, LoopPoint, DeliveryPoint, CollectPoint, RowInv,
         IdentityInv, IncompleteStartFor
<1> QED
  BY <1>1, <1>2, <1>3, <1>4, <1>5, <1>6, <1>7, <1>8, <1>9

\* A start is dropped only when the cancellation is already durable.
LEMMA SuppressStartStep ==
  ASSUME IndInv, ListingFits,
         SuppressStart
  PROVE  IndInv'
<1> USE BoundsAssumption, NamesAssumption DEF IndInv, SuppressStart,
        CompleteOutbox, Release, LoopAt, Goto, vars, storeVars, engineVars,
        procVars, boundVars, Incomplete, Proc, Id, Active, Terminal
<1>1. TypeOK'
  BY DEF TypeOK, Command, NoCommand, Phase, LoopPoint, DeliveryPoint,
         CollectPoint
<1>2. DispatchInv'
  <2> USE DEF DispatchInv, HoldingPoint, StartPoint, LoopPoint, DeliveryPoint, Target, TypeOK
  <2>1. CASE pc' = [pc EXCEPT !["loop"] = "start"] /\ UNCHANGED <<outbox, claimed>>
    BY <2>1
  <2>2. CASE pc' = [pc EXCEPT !["loop"] = "list"] /\ claimed' = 0
    BY <2>2
  <2> QED
    BY <2>1, <2>2
<1>3. LockInv'
  BY DEF LockInv, CreatingPoint, TypeOK
<1>4. IdentityInv'
  BY DEF IdentityInv, NoCommand, TypeOK, DispatchInv, StartPoint,
         HoldingPoint, Target, LoopPoint, DeliveryPoint, CollectPoint
<1>5. RowInv'
  <2> USE DEF TypeOK, DispatchInv, StartPoint, HoldingPoint, Target, RowInv
  <2>1. \A r \in Run : IncompleteStartFor(r)' => IncompleteStartFor(r)
    BY DEF IncompleteStartFor
  <2> QED
    BY <2>1
<1>6. ClosedInv'
  BY DEF ClosedInv, Closed, IncompleteStartFor, TypeOK
<1>7. BatchInv'
  <2>1. \A r \in Run : IncompleteStartFor(r)' => IncompleteStartFor(r)
    BY DEF TypeOK, DispatchInv, StartPoint, HoldingPoint, IncompleteStartFor
  <2>2. \A r \in Run : Closed(r) => Closed(r)'
    BY <2>1 DEF Closed
  <2> QED
    BY <2>1, <2>2 DEF BatchInv, TypeOK, CollectPoint
<1>8. StopInv'
  BY DEF StopInv, Stopped, CreatingPoint, Target, Closed, TypeOK
<1>9. CompletedStartTookEffect'
  BY DEF CompletedStartTookEffect, TypeOK, DispatchInv, StartPoint,
         HoldingPoint, Target, LoopPoint, DeliveryPoint, CollectPoint, RowInv,
         IdentityInv, IncompleteStartFor, ClosedInv, Closed, LockInv,
         CreatingPoint
<1> QED
  BY <1>1, <1>2, <1>3, <1>4, <1>5, <1>6, <1>7, <1>8, <1>9

\* Start goes on to create only with no instance in the engine.
LEMMA StartStep ==
  ASSUME IndInv, ListingFits,
         Start
  PROVE  IndInv'
<1> USE BoundsAssumption, NamesAssumption DEF IndInv, Start, Free, MayFind,
        LoopAt, Goto, vars, storeVars, engineVars, procVars, boundVars,
        Incomplete, Proc, Id, Active, Terminal
<1>1. TypeOK'
  BY DEF TypeOK, Command, NoCommand, Phase, LoopPoint, DeliveryPoint,
         CollectPoint
<1>2. DispatchInv'
  <2> USE DEF DispatchInv, HoldingPoint, StartPoint, LoopPoint, DeliveryPoint, Target, TypeOK,
              RowInv
  <2>1. CASE pc' = [pc EXCEPT !["loop"] = "complete"]
    BY <2>1
  <2>2. CASE pc' = [pc EXCEPT !["loop"] = "create"]
    BY <2>2
  <2> QED
    BY <2>1, <2>2
<1>3. LockInv'
  <2> USE DEF LockInv, CreatingPoint, TypeOK
  <2>1. CASE pc' = [pc EXCEPT !["loop"] = "complete"] /\ UNCHANGED lock
    BY <2>1
  <2>2. CASE pc' = [pc EXCEPT !["loop"] = "create"] /\ lock' = "loop"
    BY <2>2
  <2> QED
    BY <2>1, <2>2
<1>4. IdentityInv'
  BY DEF IdentityInv, NoCommand
<1>5. RowInv'
  BY DEF RowInv, IncompleteStartFor
<1>6. ClosedInv'
  BY DEF ClosedInv, Closed, IncompleteStartFor, TypeOK
<1>7. BatchInv'
  BY DEF BatchInv, CollectPoint, Closed, IncompleteStartFor, TypeOK
<1>8. StopInv'
  BY DEF StopInv, Stopped, CreatingPoint, Target, Closed, TypeOK, DispatchInv,
         StartPoint, HoldingPoint, LoopPoint, DeliveryPoint, CollectPoint,
         RowInv, IdentityInv, IncompleteStartFor
<1>9. CompletedStartTookEffect'
  BY DEF CompletedStartTookEffect
<1> QED
  BY <1>1, <1>2, <1>3, <1>4, <1>5, <1>6, <1>7, <1>8, <1>9

\* The one step that makes an instance runnable; the mutex keeps deliverers
\* out until the phase has been reread.
LEMMA CreateInstanceStep ==
  ASSUME IndInv, ListingFits,
         CreateInstance
  PROVE  IndInv'
<1> USE BoundsAssumption, NamesAssumption DEF IndInv, CreateInstance, MayFind,
        RetryOutbox, Release, LoopAt, Goto, vars, storeVars, engineVars,
        procVars, boundVars, Incomplete, Proc, Id, Active, Terminal
<1>1. TypeOK'
  <2>1. claimed \in Id /\ Target \in Run /\ cmd[claimed].plan \in Plan
    BY DEF DispatchInv, StartPoint, HoldingPoint
  <2>2. inst' \in [Run -> {"none", "active", "cancelling", "finished"}] /\ launched' \subseteq Run
    BY <2>1 DEF TypeOK
  <2>3. /\ pc' \in [Proc -> LoopPoint \union DeliveryPoint \union CollectPoint \union {"idle"}]
        /\ outbox' \in [Id -> {"absent", "pending", "inflight", "completed"}]
        /\ claimed' \in 0..MaxCommands
    BY <2>1 DEF TypeOK, LoopPoint
  <2>4. lock' \in Proc \union {"free"}
    BY DEF TypeOK
  <2> QED
    BY <2>2, <2>3, <2>4 DEF TypeOK
<1>2. DispatchInv'
  <2> USE DEF DispatchInv, HoldingPoint, StartPoint, LoopPoint, DeliveryPoint, Target, TypeOK,
              RowInv
  <2>1. CASE inst[Target] = "none"
    BY <2>1
  <2>2. CASE inst[Target] # "none"
    BY <2>2
  <2> QED
    BY <2>1, <2>2
<1>3. LockInv'
  BY DEF LockInv, CreatingPoint, TypeOK
<1>4. IdentityInv'
  BY DEF IdentityInv, NoCommand, TypeOK, DispatchInv, StartPoint,
         HoldingPoint, Target, LoopPoint, DeliveryPoint, CollectPoint
<1>5. RowInv'
  BY DEF RowInv, IncompleteStartFor, TypeOK, DispatchInv, StartPoint,
         HoldingPoint, Target, LoopPoint, DeliveryPoint, CollectPoint
<1>6. ClosedInv'
  BY DEF ClosedInv, Closed, IncompleteStartFor, TypeOK, DispatchInv,
         StartPoint, HoldingPoint, Target, LoopPoint, DeliveryPoint,
         CollectPoint
<1>7. BatchInv'
  BY DEF BatchInv, CollectPoint, Closed, IncompleteStartFor, TypeOK,
         DispatchInv, StartPoint, HoldingPoint, Target, LoopPoint,
         DeliveryPoint
<1>8. StopInv'
  BY DEF StopInv, Stopped, CreatingPoint, Target, Closed, TypeOK, DispatchInv,
         StartPoint, HoldingPoint, LoopPoint, DeliveryPoint, CollectPoint,
         RowInv, IdentityInv, IncompleteStartFor, ClosedInv, LockInv
<1>9. CompletedStartTookEffect'
  BY DEF CompletedStartTookEffect, TypeOK
<1> QED
  BY <1>1, <1>2, <1>3, <1>4, <1>5, <1>6, <1>7, <1>8, <1>9

\* A cancellation that arrived during creation reaches the new instance
\* before the mutex is released.
LEMMA CancelCreatedRunIfRequestedStep ==
  ASSUME IndInv, ListingFits,
         CancelCreatedRunIfRequested
  PROVE  IndInv'
<1> USE BoundsAssumption, NamesAssumption DEF IndInv,
        CancelCreatedRunIfRequested, CancelInstance, MayFind, RetryOutbox,
        Release, LoopAt, Goto, vars, storeVars, engineVars, procVars,
        boundVars, Incomplete, Proc, Id, Active, Terminal
<1>1. TypeOK'
  <2>1. claimed \in Id /\ Target \in Run
    BY DEF DispatchInv, StartPoint, HoldingPoint
  <2>2. inst' \in [Run -> {"none", "active", "cancelling", "finished"}]
    BY <2>1 DEF TypeOK
  <2>3. /\ pc' \in [Proc -> LoopPoint \union DeliveryPoint \union CollectPoint \union {"idle"}]
        /\ outbox' \in [Id -> {"absent", "pending", "inflight", "completed"}]
        /\ claimed' \in 0..MaxCommands
    BY <2>1 DEF TypeOK, LoopPoint
  <2> QED
    BY <2>2, <2>3 DEF TypeOK
<1>2. DispatchInv'
  <2> USE DEF DispatchInv, HoldingPoint, StartPoint, LoopPoint, DeliveryPoint, Target, TypeOK, RowInv
  <2>1. CASE pc' = [pc EXCEPT !["loop"] = "complete"] /\ UNCHANGED <<outbox, claimed>>
    BY <2>1
  <2>2. CASE pc' = [pc EXCEPT !["loop"] = "list"] /\ claimed' = 0
    BY <2>2
  <2> QED
    BY <2>1, <2>2
<1>3. LockInv'
  <2>1. lock = "loop" /\ lock' = "free"
    BY DEF LockInv, CreatingPoint
  <2>2. pc'["loop"] \notin CreatingPoint
    BY DEF TypeOK, CreatingPoint
  <2>3. \A c \in Client : pc'[c] = pc[c]
    BY DEF TypeOK
  <2> HIDE DEF CancelCreatedRunIfRequested, RetryOutbox, CancelInstance
  <2> QED
    BY <2>1, <2>2, <2>3 DEF LockInv
<1>4. IdentityInv'
  BY DEF IdentityInv, NoCommand, TypeOK, DispatchInv, StartPoint,
         HoldingPoint, Target, LoopPoint, DeliveryPoint, CollectPoint
<1>5. RowInv'
  BY DEF RowInv, IncompleteStartFor, TypeOK, DispatchInv, StartPoint,
         HoldingPoint, Target, LoopPoint, DeliveryPoint, CollectPoint
<1>6. ClosedInv'
  BY DEF ClosedInv, Closed, IncompleteStartFor, TypeOK, DispatchInv,
         StartPoint, HoldingPoint, Target, LoopPoint, DeliveryPoint,
         CollectPoint
<1>7. BatchInv'
  BY DEF BatchInv, CollectPoint, Closed, IncompleteStartFor, TypeOK,
         DispatchInv, StartPoint, HoldingPoint, Target, LoopPoint,
         DeliveryPoint
<1>8. StopInv'
  BY DEF StopInv, Stopped, CreatingPoint, Target, Closed, TypeOK, DispatchInv,
         StartPoint, HoldingPoint, LoopPoint, DeliveryPoint, CollectPoint,
         RowInv, IdentityInv, IncompleteStartFor, ClosedInv, LockInv
<1>9. CompletedStartTookEffect'
  BY DEF CompletedStartTookEffect, TypeOK
<1> QED
  BY <1>1, <1>2, <1>3, <1>4, <1>5, <1>6, <1>7, <1>8, <1>9

\* The row is completed after its effect.
LEMMA CompleteDispatchStep ==
  ASSUME IndInv, ListingFits,
         CompleteDispatch
  PROVE  IndInv'
<1> USE BoundsAssumption, NamesAssumption DEF IndInv, CompleteDispatch,
        CompleteOutbox, Release, LoopAt, Goto, vars, storeVars, engineVars,
        procVars, boundVars, Incomplete, Proc, Id, Active, Terminal
<1>1. TypeOK'
  BY DEF TypeOK, Command, NoCommand, Phase, LoopPoint, DeliveryPoint,
         CollectPoint, DispatchInv, StartPoint, HoldingPoint, Target
<1>2. DispatchInv'
  BY DEF DispatchInv, HoldingPoint, StartPoint, LoopPoint, DeliveryPoint,
         CollectPoint, Target, TypeOK
<1>3. LockInv'
  BY DEF LockInv, CreatingPoint
<1>4. IdentityInv'
  BY DEF IdentityInv, NoCommand, TypeOK, DispatchInv, StartPoint,
         HoldingPoint, Target, LoopPoint, DeliveryPoint, CollectPoint
<1>5. RowInv'
  BY DEF RowInv, IncompleteStartFor
<1>6. ClosedInv'
  BY DEF ClosedInv, Closed, IncompleteStartFor
<1>7. BatchInv'
  BY DEF BatchInv, CollectPoint, Closed, IncompleteStartFor
<1>8. StopInv'
  BY DEF StopInv, Stopped, CreatingPoint, Target, Closed
<1>9. CompletedStartTookEffect'
  BY DEF CompletedStartTookEffect, TypeOK, DispatchInv, StartPoint,
         HoldingPoint, Target, LoopPoint, DeliveryPoint, CollectPoint
<1> QED
  BY <1>1, <1>2, <1>3, <1>4, <1>5, <1>6, <1>7, <1>8, <1>9

\* A signal touches no Run.
LEMMA SignalEventStep ==
  ASSUME IndInv, ListingFits,
         SignalEvent
  PROVE  IndInv'
<1> USE BoundsAssumption, NamesAssumption DEF IndInv, SignalEvent,
        RetryOutbox, Release, LoopAt, Goto, vars, storeVars, engineVars,
        procVars, boundVars, Incomplete, Proc, Id, Active, Terminal
<1>1. TypeOK'
  BY DEF TypeOK, Command, NoCommand, Phase, LoopPoint, DeliveryPoint,
         CollectPoint
<1>2. DispatchInv'
  <2> USE DEF DispatchInv, HoldingPoint, StartPoint, LoopPoint, DeliveryPoint, Target, TypeOK
  <2>1. CASE pc' = [pc EXCEPT !["loop"] = "complete"] /\ UNCHANGED <<outbox, claimed>>
    BY <2>1
  <2>2. CASE pc' = [pc EXCEPT !["loop"] = "list"] /\ claimed' = 0
    BY <2>2
  <2> QED
    BY <2>1, <2>2
<1>3. LockInv'
  BY DEF LockInv, CreatingPoint, TypeOK
<1>4. IdentityInv'
  BY DEF IdentityInv, NoCommand, TypeOK, DispatchInv, StartPoint,
         HoldingPoint, Target, LoopPoint, DeliveryPoint, CollectPoint
<1>5. RowInv'
  BY DEF RowInv, IncompleteStartFor, TypeOK, DispatchInv, StartPoint,
         HoldingPoint, Target, LoopPoint, DeliveryPoint, CollectPoint
<1>6. ClosedInv'
  BY DEF ClosedInv, Closed, IncompleteStartFor, TypeOK, DispatchInv,
         StartPoint, HoldingPoint, Target, LoopPoint, DeliveryPoint,
         CollectPoint
<1>7. BatchInv'
  BY DEF BatchInv, CollectPoint, Closed, IncompleteStartFor, TypeOK,
         DispatchInv, StartPoint, HoldingPoint, Target, LoopPoint,
         DeliveryPoint
<1>8. StopInv'
  BY DEF StopInv, Stopped, CreatingPoint, Target, Closed, TypeOK
<1>9. CompletedStartTookEffect'
  <2>1. \A i \in Id : outbox'[i] = "completed" => outbox[i] = "completed"
    BY DEF TypeOK
  <2> HIDE DEF SignalEvent
  <2> QED
    BY <2>1 DEF SignalEvent, CompletedStartTookEffect
<1> QED
  BY <1>1, <1>2, <1>3, <1>4, <1>5, <1>6, <1>7, <1>8, <1>9

\* The intent is new, so nobody has acknowledged it yet.
LEMMA RequestRunCancellationStep ==
  ASSUME IndInv, ListingFits,
         NEW c \in Client, NEW r \in Run,
         RequestRunCancellation(c, r)
  PROVE  IndInv'
<1> USE BoundsAssumption, NamesAssumption DEF IndInv, RequestRunCancellation,
        Goto, vars, storeVars, engineVars, procVars, boundVars, Incomplete,
        Proc, Id, Active, Terminal
<1>1. TypeOK'
  <2>1. phase' \in [Run -> Phase]
    BY DEF TypeOK, Phase
  <2>2. intent' \in [Run -> {"none", "pending", "delivered"}]
    BY DEF TypeOK
  <2>3. pc' \in [Proc -> LoopPoint \union DeliveryPoint \union CollectPoint \union {"idle"}]
    BY DEF TypeOK, DeliveryPoint
  <2> QED
    BY <2>1, <2>2, <2>3 DEF TypeOK
<1>2. DispatchInv'
  BY DEF DispatchInv, HoldingPoint, StartPoint, LoopPoint, DeliveryPoint,
         CollectPoint, Target, TypeOK
<1>3. LockInv'
  BY DEF LockInv, CreatingPoint
<1>4. IdentityInv'
  BY DEF IdentityInv, NoCommand
<1>5. RowInv'
  BY DEF RowInv, IncompleteStartFor, TypeOK
<1>6. ClosedInv'
  <2>1. \A x \in Run : Closed(x) => Closed(x)'
    BY DEF TypeOK, Closed, IncompleteStartFor
  <2>2. Closed(r)'
    BY DEF TypeOK, Closed, IncompleteStartFor, RowInv, Phase
  <2> QED
    BY <2>1, <2>2 DEF TypeOK, ClosedInv
<1>7. BatchInv'
  BY DEF BatchInv, CollectPoint, Closed, IncompleteStartFor, TypeOK
<1>8. StopInv'
  BY DEF StopInv, Stopped, CreatingPoint, Target, Closed, TypeOK, DispatchInv,
         StartPoint, HoldingPoint, LoopPoint, DeliveryPoint, CollectPoint,
         RowInv, IdentityInv, IncompleteStartFor, ClosedInv, LockInv
<1>9. CompletedStartTookEffect'
  BY DEF CompletedStartTookEffect, TypeOK, DispatchInv, StartPoint,
         HoldingPoint, Target, LoopPoint, DeliveryPoint, CollectPoint, RowInv,
         IdentityInv, IncompleteStartFor
<1> QED
  BY <1>1, <1>2, <1>3, <1>4, <1>5, <1>6, <1>7, <1>8, <1>9

\* Every Run with an intent is closed.
LEMMA ListCancellationsStep ==
  ASSUME IndInv, ListingFits,
         NEW p \in Proc,
         ListCancellations(p)
  PROVE  IndInv'
<1> USE BoundsAssumption, NamesAssumption DEF IndInv, ListCancellations, Goto,
        vars, storeVars, engineVars, procVars, boundVars, Incomplete, Proc,
        Id, Active, Terminal
<1>1. TypeOK'
  BY DEF TypeOK, Command, NoCommand, Phase, LoopPoint, DeliveryPoint,
         CollectPoint
<1>2. DispatchInv'
  BY DEF DispatchInv, HoldingPoint, StartPoint, LoopPoint, DeliveryPoint,
         CollectPoint, Target
<1>3. LockInv'
  BY DEF LockInv, CreatingPoint
<1>4. IdentityInv'
  BY DEF IdentityInv, NoCommand
<1>5. RowInv'
  BY DEF RowInv, IncompleteStartFor
<1>6. ClosedInv'
  BY DEF ClosedInv, Closed, IncompleteStartFor, TypeOK, DispatchInv,
         StartPoint, HoldingPoint, Target, LoopPoint, DeliveryPoint,
         CollectPoint, RowInv, IdentityInv
<1>7. BatchInv'
  BY DEF BatchInv, CollectPoint, Closed, IncompleteStartFor
<1>8. StopInv'
  BY DEF StopInv, Stopped, CreatingPoint, Target, Closed
<1>9. CompletedStartTookEffect'
  BY DEF CompletedStartTookEffect
<1> QED
  BY <1>1, <1>2, <1>3, <1>4, <1>5, <1>6, <1>7, <1>8, <1>9

\* A round that ends at an approval has listed nothing.
LEMMA RedeliveryFailsStep ==
  ASSUME IndInv, ListingFits,
         NEW p \in Proc,
         RedeliveryFails(p)
  PROVE  IndInv'
<1> USE BoundsAssumption, NamesAssumption DEF IndInv, RedeliveryFails, Goto, Home,
        vars, storeVars, engineVars, procVars, boundVars, Incomplete, Proc,
        Id, Active, Terminal
<1>1. TypeOK'
  BY DEF TypeOK, Command, NoCommand, Phase, LoopPoint, DeliveryPoint,
         CollectPoint
<1>2. DispatchInv'
  BY DEF DispatchInv, HoldingPoint, StartPoint, LoopPoint, DeliveryPoint,
         CollectPoint, Target
<1>3. LockInv'
  BY DEF LockInv, CreatingPoint
<1>4. IdentityInv'
  BY DEF IdentityInv, NoCommand
<1>5. RowInv'
  BY DEF RowInv, IncompleteStartFor
<1>6. ClosedInv'
  BY DEF ClosedInv, Closed, IncompleteStartFor, TypeOK, DispatchInv,
         StartPoint, HoldingPoint, Target, LoopPoint, DeliveryPoint,
         CollectPoint, RowInv, IdentityInv
<1>7. BatchInv'
  BY DEF BatchInv, CollectPoint, Closed, IncompleteStartFor
<1>8. StopInv'
  BY DEF StopInv, Stopped, CreatingPoint, Target, Closed
<1>9. CompletedStartTookEffect'
  BY DEF CompletedStartTookEffect
<1> QED
  BY <1>1, <1>2, <1>3, <1>4, <1>5, <1>6, <1>7, <1>8, <1>9

\* After Adapter.Cancel the Run has no runnable instance and nobody is
\* creating one.
LEMMA CancelStep ==
  ASSUME IndInv, ListingFits,
         NEW p \in Proc, NEW r \in Run,
         Cancel(p, r)
  PROVE  IndInv'
<1> USE BoundsAssumption, NamesAssumption DEF IndInv, Cancel, Free,
        CancelInstance, MayFind, Goto, vars, storeVars, engineVars, procVars,
        boundVars, Incomplete, Proc, Id, Active, Terminal
<1>1. TypeOK'
  <2>1. inst' \in [Run -> {"none", "active", "cancelling", "finished"}]
    <3>1. CASE UNCHANGED inst
      BY <3>1 DEF TypeOK
    <3>2. CASE inst' = [inst EXCEPT ![r] = IF inst[r] = "active" THEN "cancelling" ELSE inst[r]]
      BY <3>2 DEF TypeOK
    <3> QED
      BY <3>1, <3>2
  <2>2. pc' \in [Proc -> LoopPoint \union DeliveryPoint \union CollectPoint \union {"idle"}]
    BY DEF TypeOK, DeliveryPoint, LoopPoint
  <2> QED
    BY <2>1, <2>2 DEF TypeOK
<1>2. DispatchInv'
  <2> USE DEF TypeOK, DispatchInv, Target
  <2>1. pc' \in {[pc EXCEPT ![p] = "mark"], [pc EXCEPT ![p] = "markif"]}
    OBVIOUS
  <2>2. CASE p = "loop"
    BY <2>1, <2>2 DEF HoldingPoint, StartPoint, LoopPoint, DeliveryPoint
  <2>3. CASE p # "loop"
    BY <2>1, <2>3 DEF DeliveryPoint
  <2> QED
    BY <2>2, <2>3
<1>3. LockInv'
  BY DEF LockInv, CreatingPoint, TypeOK
<1>4. IdentityInv'
  BY DEF IdentityInv, NoCommand
<1>5. RowInv'
  BY DEF RowInv, IncompleteStartFor, TypeOK
<1>6. ClosedInv'
  BY DEF ClosedInv, Closed, IncompleteStartFor, TypeOK
<1>7. BatchInv'
  BY DEF BatchInv, CollectPoint, Closed, IncompleteStartFor, TypeOK
<1>8. StopInv'
  BY DEF StopInv, Stopped, CreatingPoint, Target, Closed, TypeOK, DispatchInv,
         StartPoint, HoldingPoint, LoopPoint, DeliveryPoint, CollectPoint,
         RowInv, IdentityInv, IncompleteStartFor, ClosedInv, LockInv, MayMiss
<1>9. CompletedStartTookEffect'
  BY DEF CompletedStartTookEffect
<1> QED
  BY <1>1, <1>2, <1>3, <1>4, <1>5, <1>6, <1>7, <1>8, <1>9

\* A failed delivery acknowledges nothing.
LEMMA CancelFailsStep ==
  ASSUME IndInv, ListingFits,
         NEW p \in Proc, NEW r \in Run,
         CancelFails(p, r)
  PROVE  IndInv'
<1> USE BoundsAssumption, NamesAssumption DEF IndInv, CancelFails, Free,
        CancelInstance, MayFind, Goto, Home, vars, storeVars, engineVars,
        procVars, boundVars, Incomplete, Proc, Id, Active, Terminal
<1>1. TypeOK'
  <2>1. inst' \in [Run -> {"none", "active", "cancelling", "finished"}]
    <3>1. CASE UNCHANGED inst
      BY <3>1 DEF TypeOK
    <3>2. CASE inst' = [inst EXCEPT ![r] = IF inst[r] = "active" THEN "cancelling" ELSE inst[r]]
      BY <3>2 DEF TypeOK
    <3> QED
      BY <3>1, <3>2
  <2>2. pc' \in [Proc -> LoopPoint \union DeliveryPoint \union CollectPoint \union {"idle"}]
    BY DEF TypeOK, DeliveryPoint, LoopPoint
  <2> QED
    BY <2>1, <2>2 DEF TypeOK
<1>2. DispatchInv'
  BY DEF DispatchInv, HoldingPoint, StartPoint, LoopPoint, DeliveryPoint,
         CollectPoint, Target
<1>3. LockInv'
  BY DEF LockInv, CreatingPoint
<1>4. IdentityInv'
  BY DEF IdentityInv, NoCommand
<1>5. RowInv'
  BY DEF RowInv, IncompleteStartFor, TypeOK
<1>6. ClosedInv'
  BY DEF ClosedInv, Closed, IncompleteStartFor
<1>7. BatchInv'
  <2>1. \A x \in Run : IncompleteStartFor(x)' <=> IncompleteStartFor(x)
    BY DEF IncompleteStartFor
  <2>2. \A x \in Run : Closed(x)' <=> Closed(x)
    BY <2>1 DEF Closed
  <2>3. \A x \in Run : inst[x] = "none" => inst'[x] = "none"
    BY DEF TypeOK
  <2>4. \A c \in Client : pc'[c] \in CollectPoint =>
          pc'[c] = pc[c] /\ todo'[c] = todo[c] /\ batch'[c] = batch[c] /\ cur'[c] = cur[c]
    BY DEF TypeOK, CollectPoint
  <2>5. \A c \in Client : batch[c] \subseteq Run
    BY DEF TypeOK
  <2> HIDE DEF CancelFails, CancelInstance
  <2>6. SUFFICES ASSUME NEW c \in Client, pc'[c] \in CollectPoint
                 PROVE  /\ todo[c] \subseteq batch[c]
                        /\ \A x \in batch[c] : Closed(x)' /\ ~ IncompleteStartFor(x)'
                        /\ pc[c] = "poll" => cur[c] \in batch[c]
                        /\ \A x \in batch[c] \ todo[c] :
                             inst'[x] = "none" \/ (pc[c] = "poll" /\ x = cur[c])
    BY <2>4 DEF BatchInv
  <2>7. pc[c] \in CollectPoint
    BY <2>4, <2>6
  <2> QED
    BY <2>1, <2>2, <2>3, <2>5, <2>7 DEF BatchInv
<1>8. StopInv'
  BY DEF StopInv, Stopped, CreatingPoint, Target, Closed, TypeOK, DispatchInv,
         StartPoint, HoldingPoint, LoopPoint, DeliveryPoint, CollectPoint,
         RowInv, IdentityInv, IncompleteStartFor, ClosedInv, LockInv
<1>9. CompletedStartTookEffect'
  BY DEF CompletedStartTookEffect
<1> QED
  BY <1>1, <1>2, <1>3, <1>4, <1>5, <1>6, <1>7, <1>8, <1>9

\* What is acknowledged was stopped under the mutex.
LEMMA MarkDeliveredStep ==
  ASSUME IndInv, ListingFits,
         NEW p \in Proc,
         MarkDelivered(p)
  PROVE  IndInv'
<1> USE BoundsAssumption, NamesAssumption DEF IndInv, MarkDelivered, Goto,
        vars, storeVars, engineVars, procVars, boundVars, Incomplete, Proc,
        Id, Active, Terminal
<1>1. TypeOK'
  BY DEF TypeOK, Command, NoCommand, Phase, LoopPoint, DeliveryPoint,
         CollectPoint
<1>2. DispatchInv'
  BY DEF DispatchInv, HoldingPoint, StartPoint, LoopPoint, DeliveryPoint,
         CollectPoint, Target
<1>3. LockInv'
  BY DEF LockInv, CreatingPoint
<1>4. IdentityInv'
  BY DEF IdentityInv, NoCommand
<1>5. RowInv'
  BY DEF RowInv, IncompleteStartFor
<1>6. ClosedInv'
  BY SMTT(30) DEF ClosedInv, Closed, IncompleteStartFor, TypeOK, DispatchInv,
         StartPoint, HoldingPoint, Target, LoopPoint, DeliveryPoint,
         CollectPoint
<1>7. BatchInv'
  BY DEF BatchInv, CollectPoint, Closed, IncompleteStartFor
<1>8. StopInv'
  BY DEF StopInv, Stopped, CreatingPoint, Target, Closed, TypeOK, DispatchInv,
         StartPoint, HoldingPoint, LoopPoint, DeliveryPoint, CollectPoint,
         RowInv, IdentityInv, IncompleteStartFor
<1>9. CompletedStartTookEffect'
  BY DEF CompletedStartTookEffect
<1> QED
  BY <1>1, <1>2, <1>3, <1>4, <1>5, <1>6, <1>7, <1>8, <1>9

\* Without an instance and without a start command the Run can not become
\* runnable.
LEMMA MarkDeliveredIfStartImpossibleStep ==
  ASSUME IndInv, ListingFits,
         NEW p \in Proc,
         MarkDeliveredIfStartImpossible(p)
  PROVE  IndInv'
<1> USE BoundsAssumption, NamesAssumption DEF IndInv,
        MarkDeliveredIfStartImpossible, StartImpossible, Goto, vars,
        storeVars, engineVars, procVars, boundVars, Incomplete, Proc, Id,
        Active, Terminal
<1>1. TypeOK'
  BY DEF TypeOK, Command, NoCommand, Phase, LoopPoint, DeliveryPoint,
         CollectPoint
<1>2. DispatchInv'
  BY DEF DispatchInv, HoldingPoint, StartPoint, LoopPoint, DeliveryPoint,
         CollectPoint, Target
<1>3. LockInv'
  BY DEF LockInv, CreatingPoint
<1>4. IdentityInv'
  BY DEF IdentityInv, NoCommand
<1>5. RowInv'
  BY DEF RowInv, IncompleteStartFor
<1>6. ClosedInv'
  BY SMTT(30) DEF ClosedInv, Closed, IncompleteStartFor, TypeOK
<1>7. BatchInv'
  BY DEF BatchInv, CollectPoint, Closed, IncompleteStartFor
<1>8. StopInv'
  BY DEF StopInv, Stopped, CreatingPoint, Target, Closed, TypeOK, DispatchInv,
         StartPoint, HoldingPoint, LoopPoint, DeliveryPoint, CollectPoint,
         RowInv, IdentityInv, IncompleteStartFor
<1>9. CompletedStartTookEffect'
  BY DEF CompletedStartTookEffect
<1> QED
  BY <1>1, <1>2, <1>3, <1>4, <1>5, <1>6, <1>7, <1>8, <1>9

\* An empty list changes nothing.
LEMMA DeliveryDoneStep ==
  ASSUME IndInv, ListingFits,
         NEW p \in Proc,
         DeliveryDone(p)
  PROVE  IndInv'
<1> USE BoundsAssumption, NamesAssumption DEF IndInv, DeliveryDone, Goto,
        Home, vars, storeVars, engineVars, procVars, boundVars, Incomplete,
        Proc, Id, Active, Terminal
<1>1. TypeOK'
  BY DEF TypeOK, Command, NoCommand, Phase, LoopPoint, DeliveryPoint,
         CollectPoint
<1>2. DispatchInv'
  BY DEF DispatchInv, HoldingPoint, StartPoint, LoopPoint, DeliveryPoint,
         CollectPoint, Target
<1>3. LockInv'
  BY DEF LockInv, CreatingPoint
<1>4. IdentityInv'
  BY DEF IdentityInv, NoCommand
<1>5. RowInv'
  BY DEF RowInv, IncompleteStartFor
<1>6. ClosedInv'
  BY DEF ClosedInv, Closed, IncompleteStartFor
<1>7. BatchInv'
  BY DEF BatchInv, CollectPoint, Closed, IncompleteStartFor
<1>8. StopInv'
  BY DEF StopInv, Stopped, CreatingPoint, Target, Closed
<1>9. CompletedStartTookEffect'
  BY DEF CompletedStartTookEffect
<1> QED
  BY <1>1, <1>2, <1>3, <1>4, <1>5, <1>6, <1>7, <1>8, <1>9

\* Progress stays among the active phases.
LEMMA WorkflowProgressStep ==
  ASSUME IndInv, ListingFits,
         NEW r \in Run, NEW ph \in {"running", "waiting"},
         WorkflowProgress(r, ph)
  PROVE  IndInv'
<1> USE BoundsAssumption, NamesAssumption DEF IndInv, WorkflowProgress, vars,
        storeVars, engineVars, procVars, boundVars, Incomplete, Proc, Id,
        Active, Terminal
<1>1. TypeOK'
  BY DEF TypeOK, Command, NoCommand, Phase, LoopPoint, DeliveryPoint,
         CollectPoint
<1>2. DispatchInv'
  BY DEF DispatchInv, HoldingPoint, StartPoint, LoopPoint, DeliveryPoint,
         CollectPoint, Target
<1>3. LockInv'
  BY DEF LockInv, CreatingPoint
<1>4. IdentityInv'
  BY DEF IdentityInv, NoCommand
<1>5. RowInv'
  BY DEF RowInv, IncompleteStartFor
<1>6. ClosedInv'
  BY DEF ClosedInv, Closed, IncompleteStartFor
<1>7. BatchInv'
  BY DEF BatchInv, CollectPoint, Closed, IncompleteStartFor
<1>8. StopInv'
  BY DEF StopInv, Stopped, CreatingPoint, Target, Closed
<1>9. CompletedStartTookEffect'
  BY DEF CompletedStartTookEffect
<1> QED
  BY <1>1, <1>2, <1>3, <1>4, <1>5, <1>6, <1>7, <1>8, <1>9

\* A terminal phase closes the Run.
LEMMA CompleteRunStep ==
  ASSUME IndInv, ListingFits,
         NEW r \in Run, NEW ph \in Terminal \ {"cancelled"},
         CompleteRun(r, ph)
  PROVE  IndInv'
<1> USE BoundsAssumption, NamesAssumption DEF IndInv, CompleteRun, vars,
        storeVars, engineVars, procVars, boundVars, Incomplete, Proc, Id,
        Active, Terminal
<1>1. TypeOK'
  BY DEF TypeOK, Command, NoCommand, Phase, LoopPoint, DeliveryPoint,
         CollectPoint
<1>2. DispatchInv'
  BY DEF DispatchInv, HoldingPoint, StartPoint, LoopPoint, DeliveryPoint,
         CollectPoint, Target
<1>3. LockInv'
  BY DEF LockInv, CreatingPoint
<1>4. IdentityInv'
  BY DEF IdentityInv, NoCommand
<1>5. RowInv'
  BY DEF RowInv, IncompleteStartFor
<1>6. ClosedInv'
  BY DEF ClosedInv, Closed, IncompleteStartFor
<1>7. BatchInv'
  BY DEF BatchInv, CollectPoint, Closed, IncompleteStartFor
<1>8. StopInv'
  BY DEF StopInv, Stopped, CreatingPoint, Target, Closed
<1>9. CompletedStartTookEffect'
  BY DEF CompletedStartTookEffect
<1> QED
  BY <1>1, <1>2, <1>3, <1>4, <1>5, <1>6, <1>7, <1>8, <1>9

\* An ended instance is not runnable.
LEMMA WorkflowFinishStep ==
  ASSUME IndInv, ListingFits,
         NEW r \in Run,
         WorkflowFinish(r)
  PROVE  IndInv'
<1> USE BoundsAssumption, NamesAssumption DEF IndInv, WorkflowFinish, vars,
        storeVars, engineVars, procVars, boundVars, Incomplete, Proc, Id,
        Active, Terminal
<1>1. TypeOK'
  BY DEF TypeOK, Command, NoCommand, Phase, LoopPoint, DeliveryPoint,
         CollectPoint
<1>2. DispatchInv'
  BY DEF DispatchInv, HoldingPoint, StartPoint, LoopPoint, DeliveryPoint,
         CollectPoint, Target
<1>3. LockInv'
  BY DEF LockInv, CreatingPoint
<1>4. IdentityInv'
  BY DEF IdentityInv, NoCommand
<1>5. RowInv'
  BY DEF RowInv, IncompleteStartFor
<1>6. ClosedInv'
  BY DEF ClosedInv, Closed, IncompleteStartFor
<1>7. BatchInv'
  BY DEF BatchInv, CollectPoint, Closed, IncompleteStartFor
<1>8. StopInv'
  BY DEF StopInv, Stopped, CreatingPoint, Target, Closed
<1>9. CompletedStartTookEffect'
  BY DEF CompletedStartTookEffect
<1> QED
  BY <1>1, <1>2, <1>3, <1>4, <1>5, <1>6, <1>7, <1>8, <1>9

\* A selected Run is closed and has no start left.
LEMMA PlanRunRetentionStep ==
  ASSUME IndInv, ListingFits,
         NEW c \in Client, NEW selected \in SUBSET Run,
         PlanRunRetention(c, selected)
  PROVE  IndInv'
<1> USE BoundsAssumption, NamesAssumption DEF IndInv, PlanRunRetention,
        Collectible, IncompleteFor, Goto, vars, storeVars, engineVars,
        procVars, boundVars, Incomplete, Proc, Id, Active, Terminal
<1>1. TypeOK'
  BY DEF TypeOK, Command, NoCommand, Phase, LoopPoint, DeliveryPoint,
         CollectPoint
<1>2. DispatchInv'
  BY DEF DispatchInv, HoldingPoint, StartPoint, LoopPoint, DeliveryPoint,
         CollectPoint, Target
<1>3. LockInv'
  BY DEF LockInv, CreatingPoint
<1>4. IdentityInv'
  BY DEF IdentityInv, NoCommand
<1>5. RowInv'
  BY DEF RowInv, IncompleteStartFor
<1>6. ClosedInv'
  BY DEF ClosedInv, Closed, IncompleteStartFor
<1>7. BatchInv'
  BY DEF BatchInv, CollectPoint, Closed, IncompleteStartFor, TypeOK,
         DispatchInv, StartPoint, HoldingPoint, Target, LoopPoint,
         DeliveryPoint, RowInv, IdentityInv
<1>8. StopInv'
  BY DEF StopInv, Stopped, CreatingPoint, Target, Closed
<1>9. CompletedStartTookEffect'
  BY DEF CompletedStartTookEffect
<1> QED
  BY <1>1, <1>2, <1>3, <1>4, <1>5, <1>6, <1>7, <1>8, <1>9

\* The mutex keeps Start out while the history is removed.
LEMMA BeginRemoveStep ==
  ASSUME IndInv, ListingFits,
         NEW c \in Client, NEW r \in Run,
         BeginRemove(c, r)
  PROVE  IndInv'
<1> USE BoundsAssumption, NamesAssumption DEF IndInv, BeginRemove, Free, Goto,
        vars, storeVars, engineVars, procVars, boundVars, Incomplete, Proc,
        Id, Active, Terminal
<1>1. TypeOK'
  BY DEF TypeOK, Command, NoCommand, Phase, LoopPoint, DeliveryPoint,
         CollectPoint
<1>2. DispatchInv'
  BY DEF DispatchInv, HoldingPoint, StartPoint, LoopPoint, DeliveryPoint,
         CollectPoint, Target
<1>3. LockInv'
  BY DEF LockInv, CreatingPoint, TypeOK
<1>4. IdentityInv'
  BY DEF IdentityInv, NoCommand
<1>5. RowInv'
  BY DEF RowInv, IncompleteStartFor
<1>6. ClosedInv'
  BY DEF ClosedInv, Closed, IncompleteStartFor
<1>7. BatchInv'
  BY DEF BatchInv, CollectPoint, Closed, IncompleteStartFor, TypeOK
<1>8. StopInv'
  BY DEF StopInv, Stopped, CreatingPoint, Target, Closed
<1>9. CompletedStartTookEffect'
  BY DEF CompletedStartTookEffect
<1> QED
  BY <1>1, <1>2, <1>3, <1>4, <1>5, <1>6, <1>7, <1>8, <1>9

\* A visited Run has no instance.
LEMMA EndRemoveStep ==
  ASSUME IndInv, ListingFits,
         NEW c \in Client,
         EndRemove(c)
  PROVE  IndInv'
<1> USE BoundsAssumption, NamesAssumption DEF IndInv, EndRemove, Goto, vars,
        storeVars, engineVars, procVars, boundVars, Incomplete, Proc, Id,
        Active, Terminal
<1>1. TypeOK'
  BY DEF TypeOK, Command, NoCommand, Phase, LoopPoint, DeliveryPoint,
         CollectPoint
<1>2. DispatchInv'
  BY DEF DispatchInv, HoldingPoint, StartPoint, LoopPoint, DeliveryPoint,
         CollectPoint, Target
<1>3. LockInv'
  BY DEF LockInv, CreatingPoint, TypeOK
<1>4. IdentityInv'
  BY DEF IdentityInv, NoCommand
<1>5. RowInv'
  BY DEF RowInv, IncompleteStartFor, TypeOK, DispatchInv, StartPoint,
         HoldingPoint, Target, LoopPoint, DeliveryPoint, CollectPoint,
         IdentityInv, ClosedInv, Closed, LockInv, CreatingPoint, BatchInv,
         StopInv, Stopped, CompletedStartTookEffect, Command, Phase
<1>6. ClosedInv'
  BY DEF ClosedInv, Closed, IncompleteStartFor
<1>7. BatchInv'
  BY DEF BatchInv, CollectPoint, Closed, IncompleteStartFor, TypeOK, MayMiss
<1>8. StopInv'
  BY DEF StopInv, Stopped, CreatingPoint, Target, Closed, TypeOK, DispatchInv,
         StartPoint, HoldingPoint, LoopPoint, DeliveryPoint, CollectPoint,
         RowInv, IdentityInv, IncompleteStartFor, ClosedInv, LockInv
<1>9. CompletedStartTookEffect'
  BY DEF CompletedStartTookEffect
<1> QED
  BY <1>1, <1>2, <1>3, <1>4, <1>5, <1>6, <1>7, <1>8, <1>9

\* An abandoned collection forgets its plan.
LEMMA RemoveTimeoutStep ==
  ASSUME IndInv, ListingFits,
         NEW c \in Client,
         RemoveTimeout(c)
  PROVE  IndInv'
<1> USE BoundsAssumption, NamesAssumption DEF IndInv, RemoveTimeout, Abandon,
        Goto, vars, storeVars, engineVars, procVars, boundVars, Incomplete,
        Proc, Id, Active, Terminal
<1>1. TypeOK'
  BY DEF TypeOK, Command, NoCommand, Phase, LoopPoint, DeliveryPoint,
         CollectPoint
<1>2. DispatchInv'
  BY DEF DispatchInv, HoldingPoint, StartPoint, LoopPoint, DeliveryPoint,
         CollectPoint, Target
<1>3. LockInv'
  BY DEF LockInv, CreatingPoint, TypeOK
<1>4. IdentityInv'
  BY DEF IdentityInv, NoCommand
<1>5. RowInv'
  BY DEF RowInv, IncompleteStartFor
<1>6. ClosedInv'
  BY DEF ClosedInv, Closed, IncompleteStartFor
<1>7. BatchInv'
  BY DEF BatchInv, CollectPoint, Closed, IncompleteStartFor, TypeOK
<1>8. StopInv'
  BY DEF StopInv, Stopped, CreatingPoint, Target, Closed
<1>9. CompletedStartTookEffect'
  BY DEF CompletedStartTookEffect
<1> QED
  BY <1>1, <1>2, <1>3, <1>4, <1>5, <1>6, <1>7, <1>8, <1>9

\* Rows go away only for Runs without instance and without dispatch work.
LEMMA CollectRetainedRunsStep ==
  ASSUME IndInv, ListingFits,
         NEW c \in Client,
         CollectRetainedRuns(c)
  PROVE  IndInv'
<1> USE BoundsAssumption, NamesAssumption DEF IndInv, CollectRetainedRuns,
        OrphanPlans, Collectible, IncompleteFor, Abandon, Goto, vars,
        storeVars, engineVars, procVars, boundVars, Incomplete, Proc, Id,
        Active, Terminal
<1>1. TypeOK'
  <2>1. plans' \subseteq plans
    BY DEF TypeOK
  <2>2. outbox' \in [Id -> {"absent", "pending", "inflight", "completed"}]
    <3> DEFINE present == {r \in batch[c] : phase[r] # "absent"}
               cleared == [i \in Id |-> IF cmd[i].run \in present THEN "absent" ELSE outbox[i]]
    <3>1. outbox' \in {outbox, cleared}
      BY Zenon DEF CollectRetainedRuns
    <3>2. outbox \in [Id -> {"absent", "pending", "inflight", "completed"}]
      BY DEF TypeOK
    <3>3. cleared \in [Id -> {"absent", "pending", "inflight", "completed"}]
      BY <3>2
    <3> HIDE DEF cleared, CollectRetainedRuns, IndInv
    <3> QED
      BY <3>1, <3>2, <3>3
  <2>3. receipt' \in [Occ -> Run \union {NoRun}] /\ tombstone' \in [Occ -> Run \union {NoRun}]
    <3> DEFINE present == {r \in batch[c] : phase[r] # "absent"}
               kept    == [o \in Occ |-> IF receipt[o] \in present THEN NoRun ELSE receipt[o]]
               stones  == [o \in Occ |-> IF receipt[o] \in present THEN receipt[o] ELSE tombstone[o]]
    <3>1. receipt' \in {receipt, kept} /\ tombstone' \in {tombstone, stones}
      BY Zenon DEF CollectRetainedRuns
    <3>2. receipt \in [Occ -> Run \union {NoRun}] /\ tombstone \in [Occ -> Run \union {NoRun}]
      BY DEF TypeOK
    <3>3. kept \in [Occ -> Run \union {NoRun}] /\ stones \in [Occ -> Run \union {NoRun}]
      BY <3>2
    <3> HIDE DEF kept, stones, CollectRetainedRuns, IndInv
    <3> QED
      BY <3>1, <3>2, <3>3
  <2>4. phase' \in [Run -> Phase] /\ runPlan' \in [Run -> Plan \union {NoPlan}]
    BY DEF TypeOK, Phase
  <2>5. intent' \in [Run -> {"none", "pending", "delivered"}]
    BY DEF TypeOK
  <2>6. /\ pc' \in [Proc -> LoopPoint \union DeliveryPoint \union CollectPoint \union {"idle"}]
        /\ cur' \in [Proc -> Run \union {NoRun}]
        /\ todo' \in [Proc -> SUBSET Run] /\ batch' \in [Proc -> SUBSET Run]
    BY DEF TypeOK
  <2>7. UNCHANGED <<minted, cmd, due, lastId, engineVars, claimed, boundVars>>
    OBVIOUS
  <2> HIDE DEF CollectRetainedRuns, OrphanPlans, Abandon, Collectible, Incomplete, IncompleteFor
  <2> QED
    BY <2>1, <2>2, <2>3, <2>4, <2>5, <2>6, <2>7 DEF TypeOK
<1>2. DispatchInv'
  BY DEF DispatchInv, HoldingPoint, StartPoint, LoopPoint, DeliveryPoint,
         CollectPoint, Target
<1>3. LockInv'
  BY DEF LockInv, CreatingPoint
<1>4. IdentityInv'
  BY DEF IdentityInv, NoCommand
<1>5. RowInv'
  BY DEF RowInv, IncompleteStartFor, TypeOK, DispatchInv, StartPoint,
         HoldingPoint, Target, LoopPoint, DeliveryPoint, CollectPoint,
         IdentityInv, ClosedInv, Closed, LockInv, CreatingPoint, BatchInv,
         StopInv, Stopped, CompletedStartTookEffect, Command, Phase
<1>6. ClosedInv'
  <2>1. \A r \in Run : IncompleteStartFor(r)' => IncompleteStartFor(r)
    BY DEF IncompleteStartFor, TypeOK
  <2>2. \A r \in Run : phase'[r] = phase[r]
                       \/ (phase'[r] = "absent" /\ ~ IncompleteFor(r))
    BY DEF TypeOK
  <2>3. \A r \in Run : ~ IncompleteFor(r) => ~ IncompleteStartFor(r)
    BY DEF IncompleteStartFor
  <2>4. \A r \in Run : Closed(r) => Closed(r)'
    <3> HIDE DEF IncompleteFor
    <3> QED
      BY <2>1, <2>2, <2>3 DEF Closed
  <2>5. \A p \in Proc : pc'[p] \in {"cancel", "mark", "markif"} =>
          pc'[p] = pc[p] /\ cur'[p] = cur[p] /\ todo'[p] = todo[p]
    BY DEF TypeOK
  <2>6. \A p \in Proc : todo[p] \subseteq Run
    BY DEF TypeOK
  <2> HIDE DEF CollectRetainedRuns, OrphanPlans, Abandon, Collectible, Incomplete, IncompleteFor
  <2> QED
    BY <2>4, <2>5, <2>6 DEF ClosedInv
<1>7. BatchInv'
  BY DEF BatchInv, CollectPoint, Closed, IncompleteStartFor, TypeOK
<1>8. StopInv'
  BY DEF StopInv, Stopped, CreatingPoint, Target, Closed, TypeOK, DispatchInv,
         StartPoint, HoldingPoint, LoopPoint, DeliveryPoint, CollectPoint,
         RowInv, IdentityInv, IncompleteStartFor, ClosedInv, LockInv
<1>9. CompletedStartTookEffect'
  BY DEF CompletedStartTookEffect, TypeOK, DispatchInv, StartPoint,
         HoldingPoint, Target, LoopPoint, DeliveryPoint, CollectPoint, RowInv,
         IdentityInv, IncompleteStartFor
<1> QED
  BY <1>1, <1>2, <1>3, <1>4, <1>5, <1>6, <1>7, <1>8, <1>9

\* The tables survive; every process starts from its home point.
LEMMA CrashStep ==
  ASSUME IndInv, ListingFits,
         Crash
  PROVE  IndInv'
<1> USE BoundsAssumption, NamesAssumption DEF IndInv, Crash, Home, vars,
        storeVars, engineVars, procVars, boundVars, Incomplete, Proc, Id,
        Active, Terminal
<1>1. TypeOK'
  BY DEF TypeOK, Command, NoCommand, Phase, LoopPoint, DeliveryPoint,
         CollectPoint
<1>2. DispatchInv'
  BY DEF DispatchInv, HoldingPoint, StartPoint, LoopPoint, DeliveryPoint,
         CollectPoint, Target
<1>3. LockInv'
  BY DEF LockInv, CreatingPoint
<1>4. IdentityInv'
  BY DEF IdentityInv, NoCommand
<1>5. RowInv'
  BY DEF RowInv, IncompleteStartFor
<1>6. ClosedInv'
  BY DEF ClosedInv, Closed, IncompleteStartFor
<1>7. BatchInv'
  BY DEF BatchInv, CollectPoint, Closed, IncompleteStartFor
<1>8. StopInv'
  BY DEF StopInv, Stopped, CreatingPoint, Target, Closed
<1>9. CompletedStartTookEffect'
  BY DEF CompletedStartTookEffect
<1> QED
  BY <1>1, <1>2, <1>3, <1>4, <1>5, <1>6, <1>7, <1>8, <1>9
-----------------------------------------------------------------------------
\* The empty store and the idle processes satisfy the invariant.
LEMMA InitIndInv == Init => IndInv
  BY BoundsAssumption, NamesAssumption
  DEF Init, IndInv, TypeOK, Command, NoCommand, Phase, Active, Terminal, LoopPoint,
      DeliveryPoint, CollectPoint, DispatchInv, HoldingPoint, StartPoint, LockInv,
      CreatingPoint, IdentityInv, RowInv, ClosedInv, BatchInv, StopInv,
      CompletedStartTookEffect, Proc, Id, Home

\* A step of the whole daemon preserves the invariant, one action at a time.
LEMMA NextIndInv ==
  ASSUME IndInv, ListingFits, [Next]_vars
  PROVE  IndInv'
<1>1. CASE Accept
  BY <1>1, AcceptTriggerStep, AcceptProviderSignalStep DEF Accept
<1>2. CASE \E i \in Id : Elapse(i)
  BY <1>2, ElapseStep
<1>3. CASE Dispatch
  BY <1>3, ClaimNextStep, NothingToClaimStep, GetPlanStep, AdmitStep, EnsureRunStep,
     SuppressStartStep, StartStep, CreateInstanceStep, CancelCreatedRunIfRequestedStep,
     CompleteDispatchStep, SignalEventStep DEF Dispatch
<1>4. CASE \E c \in Client, r \in Run : RequestRunCancellation(c, r)
  BY <1>4, RequestRunCancellationStep
<1>5. CASE \E p \in Proc : Deliver(p)
  BY <1>5, ListCancellationsStep, RedeliveryFailsStep, CancelStep, CancelFailsStep, MarkDeliveredStep,
     MarkDeliveredIfStartImpossibleStep, DeliveryDoneStep DEF Deliver
<1>6. CASE \E r \in Run : Workflow(r)
  BY <1>6, WorkflowProgressStep, CompleteRunStep, WorkflowFinishStep DEF Workflow
<1>7. CASE \E c \in Client : Retain(c)
  BY <1>7, PlanRunRetentionStep, BeginRemoveStep, EndRemoveStep, RemoveTimeoutStep,
     CollectRetainedRunsStep DEF Retain
<1>8. CASE Crash
  BY <1>8, CrashStep
<1>9. CASE UNCHANGED vars
  <2> USE <1>9 DEF vars, storeVars, engineVars, procVars, boundVars, IndInv
  <2>1. TypeOK' /\ DispatchInv' /\ LockInv' /\ IdentityInv'
    BY DEF TypeOK, DispatchInv, Target, LockInv, IdentityInv
  <2>2. RowInv' /\ ClosedInv' /\ BatchInv'
    BY DEF RowInv, ClosedInv, BatchInv, Closed, IncompleteStartFor, Incomplete
  <2>3. StopInv' /\ CompletedStartTookEffect'
    BY DEF StopInv, Stopped, Target, CompletedStartTookEffect
  <2> QED
    BY <2>1, <2>2, <2>3
<1> QED
  BY <1>1, <1>2, <1>3, <1>4, <1>5, <1>6, <1>7, <1>8, <1>9 DEF Next

\* The inductive invariant holds of every behaviour of the control path: with
\* any number of occurrences, commands, RPC callers, provider faults and
\* restarts, as long as one findInstance listing shows every instance.
THEOREM InductiveInvariant ==
  Spec /\ []ListingFits => []IndInv
<1>1. Init => IndInv
  BY InitIndInv
<1>2. IndInv /\ ListingFits /\ [Next]_vars => IndInv'
  BY NextIndInv
<1> QED
  BY <1>1, <1>2, PTL DEF Spec

\* Every table, control point and process register keeps its type.
THEOREM TypeCorrect ==
  Spec /\ []ListingFits => []TypeOK
<1>1. IndInv => TypeOK
  BY DEF IndInv
<1> QED
  BY <1>1, InductiveInvariant, PTL

\* An acknowledged cancellation is never lost (MarkRunCancellationDelivered and
\* MarkRunCancellationDeliveredIfStartImpossible against Start).
THEOREM CancellationSafety ==
  Spec /\ []ListingFits => []DeliveredMeansStopped
<1>1. IndInv => DeliveredMeansStopped
  BY DEF IndInv, StopInv, Stopped, DeliveredMeansStopped
<1> QED
  BY <1>1, InductiveInvariant, PTL

\* The dispatcher completes a start-run command only if the Run was launched
\* or cancelled: no accepted occurrence is dropped.
THEOREM DispatchSafety ==
  Spec /\ []ListingFits => []CompletedStartTookEffect
<1>1. IndInv => CompletedStartTookEffect
  BY DEF IndInv
<1> QED
  BY <1>1, InductiveInvariant, PTL

\* Retention never leaves an instance without its Run row, nor a Run row
\* without its pinned plan.
THEOREM RetentionSafety ==
  Spec /\ []ListingFits => [](InstanceHasRun /\ RunHasPlan)
<1>1. IndInv => InstanceHasRun /\ RunHasPlan
  BY DEF IndInv, RowInv, InstanceHasRun, RunHasPlan
<1> QED
  BY <1>1, InductiveInvariant, PTL

-----------------------------------------------------------------------------
(* Action properties.  Each rests on which actions write a table at all.   *)

\* The actions that write runs.phase.
LEMMA PhaseFrame ==
  ASSUME [Next]_vars
  PROVE  \/ UNCHANGED phase
         \/ EnsureRun
         \/ \E c \in Client, r \in Run : RequestRunCancellation(c, r)
         \/ \E r \in Run, ph \in {"running", "waiting"} : WorkflowProgress(r, ph)
         \/ \E r \in Run, ph \in Terminal \ {"cancelled"} : CompleteRun(r, ph)
         \/ \E c \in Client : CollectRetainedRuns(c)
<1> USE DEF vars, storeVars, engineVars, procVars, boundVars
<1>1. CASE Accept
  BY <1>1 DEF Accept, AcceptTrigger, AcceptProviderSignal
<1>2. CASE \E i \in Id : Elapse(i)
  BY <1>2 DEF Elapse
<1>3. CASE Dispatch
  BY <1>3 DEF Dispatch, ClaimNext, NothingToClaim, GetPlan, Admit, SuppressStart, Start,
              CreateInstance, CancelCreatedRunIfRequested, CompleteDispatch, SignalEvent
<1>4. CASE \E p \in Proc : Deliver(p)
  BY <1>4 DEF Deliver, ListCancellations, RedeliveryFails, Cancel, CancelFails, MarkDelivered,
              MarkDeliveredIfStartImpossible, DeliveryDone
<1>5. CASE \E r \in Run : Workflow(r)
  BY <1>5 DEF Workflow, WorkflowFinish
<1>6. CASE \E c \in Client : Retain(c)
  BY <1>6 DEF Retain, PlanRunRetention, BeginRemove, EndRemove, RemoveTimeout
<1>7. CASE Crash
  BY <1>7 DEF Crash
<1>8. CASE UNCHANGED vars
  BY <1>8
<1> QED
  BY <1>1, <1>2, <1>3, <1>4, <1>5, <1>6, <1>7, <1>8 DEF Next

\* The first terminal phase is final: appendRunEventTx and
\* RequestRunCancellation both refuse to touch a terminal Run, and only
\* CollectRetainedRuns removes it.
THEOREM TerminalSafety ==
  Spec /\ []ListingFits => TerminalPhaseIsFinal
<1> DEFINE Final == \A r \in Run : phase[r] \in Terminal => phase'[r] \in {phase[r], "absent"}
<1>1. IndInv /\ [Next]_vars => [Final]_vars
  <2> SUFFICES ASSUME IndInv, [Next]_vars PROVE Final
    OBVIOUS
  <2> USE DEF IndInv, TypeOK, Terminal, Active
  <2>1. CASE UNCHANGED phase
    BY <2>1
  <2>2. CASE EnsureRun
    <3>1. Target \in Run
      BY <2>2 DEF DispatchInv, HoldingPoint, StartPoint, EnsureRun, LoopAt
    <3> QED
      BY <2>2, <3>1 DEF EnsureRun
  <2>3. CASE \E c \in Client, r \in Run : RequestRunCancellation(c, r)
    BY <2>3 DEF RequestRunCancellation
  <2>4. CASE \E r \in Run, ph \in {"running", "waiting"} : WorkflowProgress(r, ph)
    BY <2>4 DEF WorkflowProgress
  <2>5. CASE \E r \in Run, ph \in Terminal \ {"cancelled"} : CompleteRun(r, ph)
    BY <2>5 DEF CompleteRun
  <2>6. CASE \E c \in Client : CollectRetainedRuns(c)
    BY <2>6 DEF CollectRetainedRuns
  <2> HIDE DEF IndInv
  <2> QED
    BY <2>1, <2>2, <2>3, <2>4, <2>5, <2>6, PhaseFrame
<1> QED
  BY <1>1, InductiveInvariant, PTL DEF Spec, TerminalPhaseIsFinal

\* Only CreateInstance brings an instance into being.
LEMMA InstanceFrame ==
  ASSUME [Next]_vars, NEW r \in Run, TypeOK, inst[r] = "none", inst'[r] # "none"
  PROVE  CreateInstance
<1> USE DEF vars, storeVars, engineVars, procVars, boundVars, TypeOK
<1>1. CASE Accept
  BY <1>1 DEF Accept, AcceptTrigger, AcceptProviderSignal
<1>2. CASE \E i \in Id : Elapse(i)
  BY <1>2 DEF Elapse
<1>3. CASE Dispatch
  <2>1. ~ CancelCreatedRunIfRequested
    BY DEF CancelCreatedRunIfRequested, CancelInstance
  <2> QED
    BY <1>3, <2>1 DEF Dispatch, ClaimNext, NothingToClaim, GetPlan, Admit, EnsureRun,
              SuppressStart, Start, CompleteDispatch, SignalEvent
<1>4. CASE \E c \in Client, x \in Run : RequestRunCancellation(c, x)
  BY <1>4 DEF RequestRunCancellation
<1>5. CASE \E p \in Proc : Deliver(p)
  <2>1. \A p \in Proc, x \in Run : ~ Cancel(p, x) /\ ~ CancelFails(p, x)
    BY DEF Cancel, CancelFails, CancelInstance
  <2> QED
    BY <1>5, <2>1 DEF Deliver, ListCancellations, RedeliveryFails, MarkDelivered,
                      MarkDeliveredIfStartImpossible, DeliveryDone
<1>6. CASE \E x \in Run : Workflow(x)
  BY <1>6 DEF Workflow, WorkflowProgress, CompleteRun, WorkflowFinish
<1>7. CASE \E c \in Client : Retain(c)
  BY <1>7 DEF Retain, PlanRunRetention, BeginRemove, EndRemove, RemoveTimeout,
              CollectRetainedRuns
<1>8. CASE Crash
  BY <1>8 DEF Crash
<1>9. CASE UNCHANGED vars
  BY <1>9
<1> QED
  BY <1>1, <1>2, <1>3, <1>4, <1>5, <1>6, <1>7, <1>8, <1>9 DEF Next

\* Start creates at most one workflow instance per Run: when the instance is
\* gone, retention removed it, and then no start-run command is left.
THEOREM LaunchSafety ==
  Spec /\ []ListingFits => LaunchedAtMostOnce
<1> DEFINE Once == \A r \in Run : inst[r] = "none" /\ inst'[r] # "none" => r \notin launched
<1>1. IndInv /\ [Next]_vars => [Once]_vars
  <2> SUFFICES ASSUME IndInv, [Next]_vars, NEW r \in Run, inst[r] = "none", inst'[r] # "none"
               PROVE  r \notin launched
    OBVIOUS
  <2>1. CreateInstance
    BY InstanceFrame DEF IndInv
  <2>2. r = Target
    BY <2>1 DEF CreateInstance, IndInv, TypeOK
  <2>3. IncompleteStartFor(r)
    BY <2>1, <2>2 DEF CreateInstance, LoopAt, IndInv, DispatchInv, StartPoint, HoldingPoint,
                      IncompleteStartFor, Incomplete, Target
  <2> QED
    BY <2>3 DEF IndInv, RowInv
<1> QED
  BY <1>1, InductiveInvariant, PTL DEF Spec, LaunchedAtMostOnce

\* The actions that write receipts or tombstones.
LEMMA ReceiptFrame ==
  ASSUME [Next]_vars
  PROVE  \/ UNCHANGED <<receipt, tombstone>>
         \/ \E o \in Occ, r \in Run, p \in Plan : AcceptTrigger(o, r, p)
         \/ \E o \in Occ, r \in Run : AcceptProviderSignal(o, r)
         \/ \E c \in Client : CollectRetainedRuns(c)
<1> USE DEF vars, storeVars, engineVars, procVars, boundVars
<1>1. CASE Accept
  BY <1>1 DEF Accept
<1>2. CASE \E i \in Id : Elapse(i)
  BY <1>2 DEF Elapse
<1>3. CASE Dispatch
  BY <1>3 DEF Dispatch, ClaimNext, NothingToClaim, GetPlan, Admit, EnsureRun, SuppressStart,
              Start, CreateInstance, CancelCreatedRunIfRequested, CompleteDispatch, SignalEvent
<1>4. CASE \E c \in Client, r \in Run : RequestRunCancellation(c, r)
  BY <1>4 DEF RequestRunCancellation
<1>5. CASE \E p \in Proc : Deliver(p)
  BY <1>5 DEF Deliver, ListCancellations, RedeliveryFails, Cancel, CancelFails, MarkDelivered,
              MarkDeliveredIfStartImpossible, DeliveryDone
<1>6. CASE \E r \in Run : Workflow(r)
  BY <1>6 DEF Workflow, WorkflowProgress, CompleteRun, WorkflowFinish
<1>7. CASE \E c \in Client : Retain(c)
  BY <1>7 DEF Retain, PlanRunRetention, BeginRemove, EndRemove, RemoveTimeout
<1>8. CASE Crash
  BY <1>8 DEF Crash
<1>9. CASE UNCHANGED vars
  BY <1>9
<1> QED
  BY <1>1, <1>2, <1>3, <1>4, <1>5, <1>6, <1>7, <1>8, <1>9 DEF Next

\* The binding of an occurrence to its Run outlives the receipt: retention
\* writes the tombstone in the transaction that deletes it.
THEOREM OccurrenceSafety ==
  Spec /\ []ListingFits => OccurrenceKeepsItsRun
<1> DEFINE Kept == \A o \in Occ : RunOf(o) # NoRun => RunOf(o)' = RunOf(o)
<1>1. IndInv /\ [Next]_vars => [Kept]_vars
  <2> SUFFICES ASSUME IndInv, [Next]_vars PROVE Kept
    OBVIOUS
  <2> USE NamesAssumption DEF Known, RunOf
  <2>0. TypeOK
    BY DEF IndInv
  <2>1. CASE UNCHANGED <<receipt, tombstone>>
    BY <2>1
  <2>2. CASE \E o \in Occ, r \in Run, p \in Plan : AcceptTrigger(o, r, p)
    BY <2>0, <2>2 DEF AcceptTrigger, TypeOK
  <2>3. CASE \E o \in Occ, r \in Run : AcceptProviderSignal(o, r)
    BY <2>0, <2>3 DEF AcceptProviderSignal, TypeOK
  <2>4. CASE \E c \in Client : CollectRetainedRuns(c)
    <3>1. PICK c \in Client : CollectRetainedRuns(c)
      BY <2>4
    <3> DEFINE present == {r \in batch[c] : phase[r] # "absent"}
    <3>2. CASE UNCHANGED <<receipt, tombstone>>
      BY <3>2
    <3>3. CASE /\ tombstone' = [o \in Occ |-> IF receipt[o] \in present THEN receipt[o] ELSE tombstone[o]]
               /\ receipt' = [o \in Occ |-> IF receipt[o] \in present THEN NoRun ELSE receipt[o]]
      <4>1. NoRun \notin present
        BY <2>0 DEF TypeOK, Proc
      <4> QED
        BY <2>0, <3>3, <4>1 DEF TypeOK
    <3> QED
      BY <3>1, <3>2, <3>3 DEF CollectRetainedRuns
  <2> QED
    BY <2>1, <2>2, <2>3, <2>4, ReceiptFrame
<1> QED
  BY <1>1, InductiveInvariant, PTL DEF Spec, OccurrenceKeepsItsRun

\* Only EnsureRun adds to the active Runs, and it adds the one it dispatches.
LEMMA ActiveFrame ==
  ASSUME IndInv, [Next]_vars
  PROVE  \/ ActiveRuns' \subseteq ActiveRuns
         \/ /\ EnsureRun /\ phase[Target] = "absent"
            /\ ActiveRuns' = ActiveRuns \union {Target}
<1> USE DEF IndInv, TypeOK, ActiveRuns, Active, Terminal
<1>1. CASE UNCHANGED phase
  BY <1>1
<1>2. CASE EnsureRun
  <2>1. Target \in Run
    BY <1>2 DEF DispatchInv, HoldingPoint, StartPoint, EnsureRun, LoopAt
  <2> QED
    BY <1>2, <2>1 DEF EnsureRun
<1>3. CASE \E c \in Client, r \in Run : RequestRunCancellation(c, r)
  BY <1>3 DEF RequestRunCancellation
<1>4. CASE \E r \in Run, ph \in {"running", "waiting"} : WorkflowProgress(r, ph)
  BY <1>4 DEF WorkflowProgress
<1>5. CASE \E r \in Run, ph \in Terminal \ {"cancelled"} : CompleteRun(r, ph)
  BY <1>5 DEF CompleteRun
<1>6. CASE \E c \in Client : CollectRetainedRuns(c)
  BY <1>6 DEF CollectRetainedRuns
<1> HIDE DEF IndInv
<1> QED
  BY <1>1, <1>2, <1>3, <1>4, <1>5, <1>6, PhaseFrame

\* The loop reaches "ensure" only through admission; while it is there its
\* command and the absence of the Run's row are stable.
LEMMA EnsureFrame ==
  ASSUME IndInv, [Next]_vars, LoopAt("ensure")'
  PROVE  \/ Admit
         \/ LoopAt("ensure") /\ Target' = Target
            /\ (phase'[Target] = "absent" => phase[Target] = "absent")
<1> USE NamesAssumption DEF vars, storeVars, engineVars, procVars, boundVars, LoopAt, Goto, Target
<1>0. /\ TypeOK
      /\ LoopAt("ensure") => /\ claimed \in Id /\ Target \in Run /\ claimed # lastId + 1
                             /\ outbox[claimed] = "inflight"
  <2>1. TypeOK /\ DispatchInv /\ IdentityInv
    BY DEF IndInv
  <2> QED
    BY <2>1, BoundsAssumption
    DEF DispatchInv, HoldingPoint, StartPoint, IdentityInv, NoCommand, Id, TypeOK
<1> USE <1>0 DEF TypeOK, Proc
<1>1. CASE Accept
  <2>1. UNCHANGED <<pc, claimed, phase>>
    BY <1>1 DEF Accept, AcceptTrigger, AcceptProviderSignal
  <2>2. PICK row \in Command : cmd' = [cmd EXCEPT ![lastId + 1] = row]
    BY <1>1 DEF Accept, AcceptTrigger, AcceptProviderSignal, Insert, Command
  <2>3. cmd'[claimed] = cmd[claimed]
    BY <2>1, <2>2
  <2> QED
    BY <2>1, <2>3
<1>2. CASE \E i \in Id : Elapse(i)
  BY <1>2 DEF Elapse
<1>3. CASE Dispatch
  <2>1. ~ (ClaimNext \/ NothingToClaim \/ SignalEvent \/ CompleteDispatch)
    BY DEF ClaimNext, NothingToClaim, SignalEvent, RetryOutbox, CompleteDispatch,
           CompleteOutbox, Release
  <2>2. ~ (GetPlan \/ EnsureRun \/ SuppressStart)
    BY DEF GetPlan, EnsureRun, SuppressStart, RetryOutbox, CompleteOutbox, Release
  <2>3. ~ (Start \/ CreateInstance \/ CancelCreatedRunIfRequested)
    BY DEF Start, CreateInstance, CancelCreatedRunIfRequested, RetryOutbox, Release
  <2> QED
    BY <1>3, <2>1, <2>2, <2>3 DEF Dispatch
<1>4. CASE \E c \in Client, r \in Run : RequestRunCancellation(c, r)
  BY <1>4 DEF RequestRunCancellation
<1>5. CASE \E p \in Proc : Deliver(p)
  BY <1>5 DEF Deliver, ListCancellations, RedeliveryFails, Cancel, CancelFails, MarkDelivered,
              MarkDeliveredIfStartImpossible, DeliveryDone, Home
<1>6. CASE \E r \in Run : Workflow(r)
  BY <1>6 DEF Workflow, WorkflowProgress, CompleteRun, WorkflowFinish, Terminal
<1>7. CASE \E c \in Client : Retain(c)
  <2>1. CASE \E c \in Client : CollectRetainedRuns(c)
    <3>1. LoopAt("ensure") /\ UNCHANGED <<claimed, cmd>>
      BY <2>1 DEF CollectRetainedRuns, Abandon
    <3>2. ~ Collectible(Target)
      BY <3>1 DEF Collectible, IncompleteFor, Incomplete
    <3>3. phase'[Target] = "absent" => phase[Target] = "absent"
      BY <2>1, <3>1, <3>2 DEF CollectRetainedRuns
    <3> QED
      BY <3>1, <3>3
  <2>2. CASE \E c \in Client : \/ \E selected \in SUBSET Run : PlanRunRetention(c, selected)
                               \/ \E r \in Run : BeginRemove(c, r)
                               \/ EndRemove(c) \/ RemoveTimeout(c)
    BY <2>2 DEF PlanRunRetention, BeginRemove, EndRemove, RemoveTimeout, Abandon
  <2> QED
    BY <1>7, <2>1, <2>2 DEF Retain
<1>8. CASE Crash
  BY <1>8 DEF Crash, Home
<1>9. CASE UNCHANGED vars
  BY <1>9
<1> QED
  BY <1>1, <1>2, <1>3, <1>4, <1>5, <1>6, <1>7, <1>8, <1>9 DEF Next

\* The admission bound of reconcileStart holds in every state, although the
\* count and the insertion are two transactions.
THEOREM CapacitySafety ==
  Spec /\ []ListingFits => []CapacityRespected
<1>1. Init => CapacityInv
  <2> SUFFICES ASSUME Init PROVE CapacityInv
    OBVIOUS
  <2>1. ActiveRuns = {}
    BY DEF Init, ActiveRuns, Active
  <2>2. Cardinality(ActiveRuns) = 0
    BY <2>1, FS_EmptySet
  <2> QED
    BY <2>1, <2>2, FS_EmptySet, BoundsAssumption DEF CapacityInv, CapacityRespected, LoopAt, Init, Home, Proc
<1>2. IndInv /\ CapacityInv /\ [Next]_vars => CapacityInv'
  <2> SUFFICES ASSUME IndInv, CapacityInv, [Next]_vars PROVE CapacityInv'
    OBVIOUS
  <2>1. IsFiniteSet(ActiveRuns) /\ IsFiniteSet(ActiveRuns')
    <3>1. IsFiniteSet(ActiveRuns)
      BY DEF CapacityInv
    <3>2. CASE ActiveRuns' \subseteq ActiveRuns
      BY <3>1, <3>2, FS_Subset
    <3>3. CASE ActiveRuns' = ActiveRuns \union {Target}
      BY <3>1, <3>3, FS_AddElement
    <3> QED
      BY <3>1, <3>2, <3>3, ActiveFrame
  <2>2. Cardinality(ActiveRuns) \in Nat /\ Cardinality(ActiveRuns') \in Nat
    BY <2>1, FS_CardinalityType
  <2>3. ActiveRuns' \subseteq ActiveRuns => Cardinality(ActiveRuns') <= Cardinality(ActiveRuns)
    BY <2>1, FS_Subset
  <2>4. ActiveRuns' = ActiveRuns \union {Target} => Cardinality(ActiveRuns') <= Cardinality(ActiveRuns) + 1
    BY <2>1, <2>2, FS_AddElement
  <2>5. CapacityRespected'
    BY <2>2, <2>3, <2>4, ActiveFrame, BoundsAssumption
    DEF CapacityInv, CapacityRespected, EnsureRun, LoopAt
  <2>6. ASSUME LoopAt("ensure")', phase'[Target'] = "absent"
        PROVE  Cardinality(ActiveRuns') < MaxActiveRuns
    <3>1. CASE Admit
      BY <2>6, <3>1 DEF Admit, HasCapacity, Target, ActiveRuns, RetryOutbox, Release, Goto, LoopAt, IndInv, TypeOK, Proc
    <3>2. CASE LoopAt("ensure") /\ Target' = Target /\ phase[Target] = "absent"
      <4>1. Cardinality(ActiveRuns) < MaxActiveRuns
        BY <3>2 DEF CapacityInv
      <4>2. ~ EnsureRun
        BY <2>6 DEF EnsureRun, Goto, LoopAt, RetryOutbox, Release, IndInv, TypeOK, Proc
      <4> QED
        BY <4>1, <4>2, <2>2, <2>3, ActiveFrame, BoundsAssumption
    <3> QED
      BY <2>6, <3>1, <3>2, EnsureFrame
  <2> QED
    BY <2>1, <2>5, <2>6 DEF CapacityInv
<1>3. CapacityInv => CapacityRespected
  BY DEF CapacityInv
<1> QED
  BY <1>1, <1>2, <1>3, InductiveInvariant, PTL DEF Spec
=============================================================================
