--------------------------- MODULE TerminalProofs ---------------------------
(***************************************************************************)
(* Proofs about ResourceStore, LiveView and LiveRuns, for any keys, specs, *)
(* editors, Runs and bounds: StoreInv is an invariant, a client that lists *)
(* in pages, watches, and recovers from broken streams implements          *)
(* Snapshots, and the history it shows of a Run has no gap.                *)
(***************************************************************************)
EXTENDS LiveView, LiveRuns, FiniteSetTheorems, SequenceTheorems, WellFoundedInduction, TLAPS

-----------------------------------------------------------------------------
(* The latest of a set of revisions, or of keys.                           *)

\* A non-empty set of natural numbers has a least element.
LEMMA LeastNat ==
    ASSUME NEW T \in SUBSET Nat, T # {}
    PROVE  \E m \in T : \A n \in T : m <= n
<1>1. PICK m \in T : \A n \in T : ~ (<<n, m>> \in OpToRel(<, Nat))
  BY NatLessThanWellFounded, WFMin, Zenon
<1>2. \A n \in T : ~ (n < m)
  BY <1>1 DEF OpToRel
<1> QED  BY <1>2

\* A finite, non-empty set of natural numbers has a largest one.
LEMMA LatestExists ==
    ASSUME NEW S \in SUBSET Nat, IsFiniteSet(S), S # {}
    PROVE  Latest(S) \in S /\ \A j \in S : j <= Latest(S)
<1> DEFINE HasMax(X) == \E m \in X : \A j \in X : j <= m
           Bad == {n \in Nat : \E X \in SUBSET S : X # {} /\ Cardinality(X) = n /\ ~ HasMax(X)}
<1>1. Bad = {}
  <2> SUFFICES ASSUME Bad # {}
               PROVE  FALSE
    OBVIOUS
  <2>1. PICK n \in Bad : \A m \in Bad : n <= m
    <3> HIDE DEF HasMax
    <3> QED  BY LeastNat
  <2>2. PICK X \in SUBSET S : X # {} /\ Cardinality(X) = n /\ ~ HasMax(X)
    BY <2>1
  <2>3. PICK x \in X : TRUE
    BY <2>2
  <2>4. /\ IsFiniteSet(X) /\ IsFiniteSet(X \ {x}) /\ Cardinality(X \ {x}) = n - 1
        /\ Cardinality(X \ {x}) \in Nat
    BY <2>2, <2>3, FS_Subset, FS_RemoveElement, FS_CardinalityType
  <2>5. X \ {x} # {}
    BY <2>2, <2>3
  <2>6. HasMax(X \ {x})
    <3>1. n - 1 \notin Bad
      BY <2>1
    <3> HIDE DEF HasMax
    <3> QED  BY <2>2, <2>4, <2>5, <3>1
  <2>7. PICK m \in X \ {x} : \A j \in X \ {x} : j <= m
    BY <2>6
  <2>8. m \in Nat /\ x \in Nat /\ \A j \in X : j \in Nat
    BY <2>2, <2>3, <2>7
  <2>9. HasMax(X)
    <3>1. CASE m <= x
      BY <2>3, <2>7, <2>8, <3>1
    <3>2. CASE x < m
      BY <2>7, <2>8, <3>2
    <3> QED  BY <2>8, <3>1, <3>2
  <2> QED  BY <2>2, <2>9
<1>2. Cardinality(S) \in Nat
  BY FS_CardinalityType
<1>3. HasMax(S)
  <2> HIDE DEF HasMax
  <2> QED  BY <1>1, <1>2
<1>4. PICK m \in S : \A j \in S : j <= m
  BY <1>3
<1> QED  BY <1>4 DEF Latest

-----------------------------------------------------------------------------
(* What a log replays to.                                                  *)

\* The latest event of a key among the first r, when it has one.
LEMMA LatestEvent ==
    ASSUME NEW L \in Seq(Event), NEW r \in 0..Len(L), NEW k \in Keys, EventsOf(L, k, r) # {}
    PROVE  /\ Latest(EventsOf(L, k, r)) \in EventsOf(L, k, r)
           /\ \A j \in EventsOf(L, k, r) : j <= Latest(EventsOf(L, k, r))
<1>1. EventsOf(L, k, r) \in SUBSET Nat
  BY DEF EventsOf
<1>2. IsFiniteSet(EventsOf(L, k, r))
  <2>1. \A i \in EventsOf(L, k, r) : i <= r
    BY DEF EventsOf
  <2>2. r \in Nat
    OBVIOUS
  <2> QED  BY <1>1, <2>1, <2>2, FS_BoundedSetOfNaturals
<1> QED  BY <1>1, <1>2, LatestExists

\* The replay of a log is a history of whole stores.
LEMMA ReplayType ==
    ASSUME NEW L \in Seq(Event)
    PROVE  Replay(L) \in [0..Len(L) -> [Keys -> Doc]]
<1> SUFFICES ASSUME NEW r \in 0..Len(L), NEW k \in Keys, EventsOf(L, k, r) # {}
             PROVE  L[Latest(EventsOf(L, k, r))].doc \in Doc
  BY DEF Replay, Doc
<1>1. Latest(EventsOf(L, k, r)) \in 1..Len(L)
  BY LatestEvent DEF EventsOf
<1>2. L[Latest(EventsOf(L, k, r))] \in Event
  BY <1>1, ElementOfSeq
<1> QED  BY <1>2 DEF Event

\* Replaying one more event writes its document at its key.
LEMMA ReplayStep ==
    ASSUME NEW L \in Seq(Event), NEW r \in 1..Len(L)
    PROVE  Replay(L)[r] = [Replay(L)[r - 1] EXCEPT ![L[r].key] = L[r].doc]
<1>1. r - 1 \in 0..Len(L) /\ r \in 0..Len(L) /\ L[r] \in Event
  OBVIOUS
<1>2. ASSUME NEW k \in Keys
      PROVE  Replay(L)[r][k] = IF k = L[r].key THEN L[r].doc ELSE Replay(L)[r - 1][k]
  <2>1. CASE k = L[r].key
    <3>1. r \in EventsOf(L, k, r) /\ \A j \in EventsOf(L, k, r) : j \in Nat /\ j <= r
      BY <2>1 DEF EventsOf
    <3>2. Latest(EventsOf(L, k, r)) = r
      BY <1>1, <3>1, LatestEvent
    <3> QED  BY <1>1, <2>1, <3>1, <3>2 DEF Replay
  <2>2. CASE k # L[r].key
    <3>1. EventsOf(L, k, r) = EventsOf(L, k, r - 1)
      BY <2>2 DEF EventsOf
    <3> QED  BY <1>1, <2>2, <3>1 DEF Replay
  <2> QED  BY <2>1, <2>2
<1>3. Replay(L)[r] \in [Keys -> Doc] /\ Replay(L)[r - 1] \in [Keys -> Doc]
  BY <1>1, ReplayType
<1> QED  BY <1>1, <1>2, <1>3

\* Before its first event a log says nothing is there.
LEMMA ReplayStart ==
    ASSUME NEW L \in Seq(Event)
    PROVE  Replay(L)[0] = Empty
<1>1. 0 \in 0..Len(L) /\ \A k \in Keys : EventsOf(L, k, 0) = {}
  BY DEF EventsOf
<1> QED  BY <1>1 DEF Replay, Empty

\* A longer log replays to the same tables at the revisions it already had.
LEMMA ReplayAppend ==
    ASSUME NEW L \in Seq(Event), NEW e \in Event
    PROVE  /\ \A r \in 0..Len(L) : Replay(Append(L, e))[r] = Replay(L)[r]
           /\ Replay(Append(L, e))[Len(L) + 1] = [Replay(L)[Len(L)] EXCEPT ![e.key] = e.doc]
<1> DEFINE M == Append(L, e)
<1>1. /\ M \in Seq(Event) /\ Len(M) = Len(L) + 1 /\ M[Len(L) + 1] = e /\ Len(L) \in Nat
      /\ \A i \in 1..Len(L) : M[i] = L[i]
  <2>1. Append(L, e) \in Seq(Event) /\ Len(Append(L, e)) = Len(L) + 1 /\ Append(L, e)[Len(L) + 1] = e
    BY AppendProperties
  <2>2. \A i \in 1..Len(L) : Append(L, e)[i] = L[i]
    BY AppendProperties
  <2> QED  BY <2>1, <2>2
<1> HIDE DEF M
<1>2. ASSUME NEW r \in 0..Len(L)
      PROVE  Replay(M)[r] = Replay(L)[r]
  <2>1. r \in 0..Len(M) /\ r \in 0..Len(L)
    BY <1>1
  <2>2. \A k \in Keys : EventsOf(M, k, r) = EventsOf(L, k, r)
    BY <1>1 DEF EventsOf
  <2>3. \A k \in Keys : EventsOf(L, k, r) # {} => M[Latest(EventsOf(L, k, r))] = L[Latest(EventsOf(L, k, r))]
    BY <1>1, LatestEvent DEF EventsOf
  <2> QED  BY <2>1, <2>2, <2>3 DEF Replay
<1>3. Replay(M)[Len(L) + 1] = [Replay(M)[Len(L)] EXCEPT ![e.key] = e.doc]
  <2>1. PICK n : n = Len(L) + 1
    OBVIOUS
  <2>2. n \in 1..Len(M) /\ n - 1 = Len(L) /\ M[n] = e
    BY <1>1, <2>1
  <2>3. Replay(M)[n] = [Replay(M)[n - 1] EXCEPT ![M[n].key] = M[n].doc]
    BY <1>1, <2>2, ReplayStep
  <2> QED  BY <2>1, <2>2, <2>3
<1>4. Replay(M)[Len(L)] = Replay(L)[Len(L)]
  BY <1>1, <1>2
<1> QED  BY <1>1, <1>2, <1>3, <1>4 DEF M

-----------------------------------------------------------------------------
(***************************************************************************)
(* The store.  Beside what StoreInv says, the inductive invariant bounds   *)
(* versions, generations and uids by the revision, says the same of every  *)
(* copy a caller still holds, and that a generation of an object has one   *)
(* spec for as long as the controller may still report on it.              *)
(***************************************************************************)
FullDoc == [uid : 1..MaxRevision, version : 1..MaxRevision,
            generation : 1..MaxRevision, spec : Specs, status : Status]

Numbered(doc) == doc.version <= revision /\ doc.generation <= doc.version /\ doc.uid <= doc.version

\* A status is of a generation the object has had, and of its spec.
Fits(doc) ==
    doc.status # NoStatus =>
        /\ doc.status.uid <= doc.uid
        /\ doc.status.uid = doc.uid =>
             /\ doc.status.generation <= doc.generation
             /\ doc.status.generation = doc.generation => doc.status.of = doc.spec

DocsNumbered == \A k \in Keys : resources[k] # NoDoc => Numbered(resources[k]) /\ Fits(resources[k])

CopyHolds(copy) ==
    copy # NoCopy /\ copy.doc # NoDoc =>
        /\ Numbered(copy.doc)
        /\ resources[copy.key] # NoDoc /\ resources[copy.key].version = copy.doc.version
             => resources[copy.key] = copy.doc
CopiesHold == \A e \in Editors : CopyHolds(editors[e])

ObservationHolds ==
    observation # NoCopy =>
        /\ observation.doc # NoDoc /\ Numbered(observation.doc)
        /\ LET doc == resources[observation.key] IN
           doc # NoDoc =>
             /\ observation.doc.uid <= doc.uid
             /\ doc.uid = observation.doc.uid =>
                  /\ observation.doc.generation <= doc.generation
                  /\ observation.doc.generation = doc.generation =>
                       observation.doc.spec = doc.spec

StoreIInv ==
    /\ StoreTypeOK /\ LogReplaysToTable
    /\ DocsNumbered /\ CopiesHold /\ ObservationHolds

\* A document is NoDoc or a whole one, a status NoStatus or a whole one.
LEMMA DocCases ==
    /\ Doc = {NoDoc} \cup FullDoc /\ NoDoc \notin FullDoc
    /\ \A doc \in FullDoc : doc.status # NoStatus =>
         doc.status \in [generation : 1..MaxRevision, result : Results, of : Specs, uid : 1..MaxRevision]
BY DEF Doc, FullDoc, NoDoc, Status

\* A copy an editor or the controller holds is of a key.
LEMMA CopyCases ==
    ASSUME NEW copy \in Copy, copy # NoCopy
    PROVE  copy.key \in Keys /\ copy.doc \in Doc
BY DEF Copy

\* What a transaction may put in the place of a key's document.
Successor(k, doc) ==
    LET old == resources[k] IN
    /\ doc \in FullDoc /\ doc.version = revision + 1 /\ Fits(doc)
    /\ \/ old = NoDoc /\ doc.uid = revision + 1 /\ doc.generation = 1
       \/ /\ old # NoDoc /\ doc.uid = old.uid
          /\ \/ doc.generation = old.generation /\ doc.spec = old.spec
             \/ doc.generation = old.generation + 1

Writes(k, type, doc) ==
    /\ Commit(k, type, doc)
    /\ \/ Successor(k, doc)
       \/ doc = NoDoc /\ resources[k] # NoDoc

EventType == {"ADDED", "MODIFIED", "DELETED"}

\* Apply writes a successor: a created document starts at generation 1
\* without a status, a modified one keeps its identity and status.
LEMMA AppliedIsSuccessor ==
    ASSUME StoreIInv, NEW k \in Keys, NEW spec \in Specs, revision < MaxRevision
    PROVE  Successor(k, Applied(k, spec))
<1>1. revision \in Nat /\ revision + 1 \in 1..MaxRevision
  BY MaxRevisionAssumption DEF StoreIInv, StoreTypeOK, revision
<1>2. CASE resources[k] = NoDoc
  <2>1. Applied(k, spec) = [uid |-> revision + 1, version |-> revision + 1, generation |-> 1,
                            spec |-> spec, status |-> NoStatus]
    BY <1>2 DEF Applied
  <2>2. 1 \in 1..MaxRevision /\ NoStatus \in Status
    BY <1>1, MaxRevisionAssumption DEF Status
  <2> QED  BY <1>1, <1>2, <2>1, <2>2 DEF Successor, FullDoc, Fits
<1>3. CASE resources[k] # NoDoc
  <2> DEFINE old == resources[k]
             new == Applied(k, spec)
  <2>1. old \in FullDoc /\ Numbered(old) /\ Fits(old)
    BY <1>3, DocCases DEF StoreIInv, StoreTypeOK, DocsNumbered
  <2>2. new = [old EXCEPT !.version = revision + 1,
                          !.generation = IF old.spec = spec THEN old.generation ELSE old.generation + 1,
                          !.spec = spec]
    BY <1>3 DEF Applied
  <2>3. /\ new.uid = old.uid /\ new.version = revision + 1 /\ new.spec = spec /\ new.status = old.status
        /\ new.generation = IF old.spec = spec THEN old.generation ELSE old.generation + 1
    BY <2>1, <2>2 DEF FullDoc
  <2>4. old.generation \in Nat /\ old.version \in Nat
    BY <2>1 DEF FullDoc
  <2>5. old.generation + 1 \in 1..MaxRevision
    <3>1. old.generation <= revision
      BY <1>1, <2>1, <2>4 DEF Numbered
    <3> QED  BY <1>1, <2>4, <3>1, MaxRevisionAssumption
  <2>6. new \in FullDoc
    BY <1>1, <2>1, <2>2, <2>5 DEF FullDoc
  <2>7. Fits(new)
    <3>1. old.status # NoStatus => old.status.generation \in Nat
      BY <2>1, DocCases
    <3> QED  BY <2>1, <2>3, <2>4, <3>1 DEF Fits
  <2> QED  BY <1>3, <2>3, <2>6, <2>7 DEF Successor
<1> QED  BY <1>2, <1>3

\* UpdateResourceStatus writes a successor: the generation it was computed for
\* is the current one, so the spec is the one the controller read.
LEMMA StatusIsSuccessor ==
    ASSUME StoreIInv, observation # NoCopy, NEW r \in Results, revision < MaxRevision,
           resources[observation.key] # NoDoc,
           resources[observation.key].generation = observation.doc.generation
    PROVE  Successor(observation.key,
             [resources[observation.key] EXCEPT
                !.version = revision + 1,
                !.status = [generation |-> observation.doc.generation, result |-> r,
                            of |-> observation.doc.spec, uid |-> observation.doc.uid]])
<1> DEFINE k == observation.key
           old == resources[k]
           read == observation.doc
           status == [generation |-> read.generation, result |-> r, of |-> read.spec, uid |-> read.uid]
           new == [old EXCEPT !.version = revision + 1, !.status = status]
<1>1. revision \in Nat /\ revision + 1 \in 1..MaxRevision
  BY MaxRevisionAssumption DEF StoreIInv, StoreTypeOK, revision
<1>2. k \in Keys /\ read \in FullDoc /\ old \in FullDoc
  BY CopyCases, DocCases DEF StoreIInv, StoreTypeOK, ObservationHolds
<1>3. status \in Status
  BY <1>2 DEF Status, FullDoc
<1>4. new \in FullDoc
  BY <1>1, <1>2, <1>3 DEF FullDoc
<1>5. /\ new.uid = old.uid /\ new.version = revision + 1 /\ new.spec = old.spec /\ new.status = status
      /\ new.generation = old.generation /\ old.generation \in Nat
  BY <1>2 DEF FullDoc
<1>6. Fits(new)
  <2>1. read.uid <= old.uid /\ (old.uid = read.uid => read.spec = old.spec)
    BY DEF StoreIInv, ObservationHolds
  <2>2. /\ status.uid = read.uid /\ status.of = read.spec
        /\ status.generation = read.generation /\ read.generation = old.generation
    OBVIOUS
  <2> HIDE DEF new, status, old, read
  <2> QED  BY <1>5, <2>1, <2>2 DEF Fits
<1> HIDE DEF new
<1>7. Successor(k, new)
  BY <1>4, <1>5, <1>6 DEF Successor
<1> QED  BY <1>7 DEF new

\* A copy that was read before a write is behind it; a version is never reused.
LEMMA CopySurvivesWrite ==
    ASSUME StoreIInv, NEW copy \in Copy, CopyHolds(copy),
           NEW k \in Keys, NEW type \in EventType, NEW doc \in Doc, Writes(k, type, doc)
    PROVE  CopyHolds(copy)'
<1> SUFFICES ASSUME copy # NoCopy, copy.doc # NoDoc
             PROVE  /\ Numbered(copy.doc)'
                    /\ resources'[copy.key] # NoDoc /\ resources'[copy.key].version = copy.doc.version
                         => resources'[copy.key] = copy.doc
  BY DEF CopyHolds
<1>1. copy.key \in Keys /\ copy.doc \in FullDoc /\ Numbered(copy.doc)
  BY CopyCases, DocCases DEF CopyHolds
<1>2. revision \in Nat /\ revision' = revision + 1
  BY DEF Writes, Commit, revision, StoreIInv, StoreTypeOK
<1>3. copy.doc.version \in Nat /\ copy.doc.version <= revision
  BY <1>1 DEF Numbered, FullDoc
<1>4. Numbered(copy.doc)'
  BY <1>1, <1>2, <1>3 DEF Numbered
<1>5. resources' = [resources EXCEPT ![k] = doc] /\ resources \in [Keys -> Doc]
  BY DEF Writes, Commit, StoreIInv, StoreTypeOK
<1>6. CASE copy.key # k
  BY <1>1, <1>4, <1>5, <1>6 DEF CopyHolds
<1>7. CASE copy.key = k
  <2>1. doc # NoDoc => doc.version = revision + 1
    BY DEF Writes, Successor
  <2> QED  BY <1>1, <1>2, <1>3, <1>4, <1>5, <1>7, <2>1
<1> QED  BY <1>6, <1>7

\* Every transaction that writes keeps the invariant.
LEMMA WriteKeeps ==
    ASSUME StoreIInv, NEW k \in Keys, NEW type \in EventType, NEW doc \in Doc, Writes(k, type, doc),
           editors' \in [Editors -> Copy],
           \A e \in Editors : editors'[e] \in {editors[e], NoCopy},
           observation' \in {observation, NoCopy}
    PROVE  StoreIInv'
<1> DEFINE event == [type |-> type, key |-> k, doc |-> doc]
<1> USE DEF StoreIInv
<1>1. /\ revision \in Nat /\ revision' = revision + 1 /\ revision < MaxRevision
      /\ resources' = [resources EXCEPT ![k] = doc] /\ log' = Append(log, event)
      /\ event \in Event /\ log \in Seq(Event)
  BY DEF Writes, Commit, revision, StoreTypeOK, Event, EventType
<1>2. StoreTypeOK'
  <2>1. log' \in Seq(Event) /\ Len(log') <= MaxRevision
    BY <1>1, MaxRevisionAssumption DEF revision
  <2>2. resources' \in [Keys -> Doc] /\ observation' \in Copy
    BY <1>1 DEF StoreTypeOK, Copy
  <2> QED  BY <2>1, <2>2 DEF StoreTypeOK
<1>3. LogReplaysToTable'
  <2>1. Replay(log')[revision + 1] = [Replay(log)[revision] EXCEPT ![event.key] = event.doc]
    BY <1>1, ReplayAppend DEF revision
  <2> QED  BY <1>1, <2>1 DEF LogReplaysToTable, StateAt
<1>4. doc # NoDoc => Numbered(doc)' /\ Fits(doc)
  <2> SUFFICES ASSUME doc # NoDoc
               PROVE  Numbered(doc)' /\ Fits(doc)
    OBVIOUS
  <2>1. Successor(k, doc)
    BY DEF Writes
  <2>2. Fits(doc) /\ doc.version = revision'
    BY <1>1, <2>1 DEF Successor
  <2>3. doc.uid <= revision + 1 /\ doc.generation <= revision + 1
    <3>1. CASE resources[k] = NoDoc
      BY <1>1, <2>1, <3>1 DEF Successor
    <3>2. CASE resources[k] # NoDoc
      <4>1. resources[k] \in FullDoc /\ Numbered(resources[k])
        BY <3>2, DocCases DEF StoreTypeOK, DocsNumbered
      <4>2. resources[k].uid \in Nat /\ resources[k].generation \in Nat /\ resources[k].version \in Nat
        BY <4>1 DEF FullDoc
      <4> QED  BY <1>1, <2>1, <3>2, <4>1, <4>2 DEF Successor, Numbered
    <3> QED  BY <3>1, <3>2
  <2> QED  BY <1>1, <2>2, <2>3 DEF Numbered
<1>5. DocsNumbered'
  <2> SUFFICES ASSUME NEW j \in Keys, resources'[j] # NoDoc
               PROVE  Numbered(resources[j])' /\ Fits(resources[j])'
    BY DEF DocsNumbered
  <2>1. CASE j = k
    <3>1. resources'[j] = doc
      BY <1>1, <2>1 DEF StoreTypeOK
    <3> QED  BY <1>4, <3>1 DEF Numbered, Fits
  <2>2. CASE j # k
    <3>1. resources'[j] = resources[j] /\ resources[j] \in FullDoc
      BY <1>1, <2>2, DocCases DEF StoreTypeOK
    <3>2. Numbered(resources[j]) /\ Fits(resources[j]) /\ resources[j].version \in Nat
      BY <3>1 DEF DocsNumbered, FullDoc
    <3> QED  BY <1>1, <3>1, <3>2 DEF Numbered, Fits
  <2> QED  BY <2>1, <2>2
<1>6. CopiesHold'
  <2> SUFFICES ASSUME NEW e \in Editors
               PROVE  CopyHolds(editors[e])'
    BY DEF CopiesHold
  <2>1. PICK copy \in Copy : copy = editors[e] /\ CopyHolds(copy)
    BY DEF StoreTypeOK, CopiesHold
  <2>2. CopyHolds(copy)'
    BY <2>1, CopySurvivesWrite
  <2> QED  BY <2>1, <2>2 DEF CopyHolds
<1>7. ObservationHolds'
  <2> SUFFICES ASSUME observation' # NoCopy
               PROVE  ObservationHolds'
    BY DEF ObservationHolds
  <2>1. PICK copy \in Copy : copy = observation /\ copy = observation' /\ copy # NoCopy
    BY DEF StoreTypeOK
  <2> DEFINE old == resources[copy.key]
             new == resources'[copy.key]
  <2>2. copy.doc # NoDoc /\ copy.key \in Keys /\ copy.doc \in FullDoc /\ Numbered(copy.doc)
    BY <2>1, CopyCases, DocCases DEF ObservationHolds
  <2>3. copy.doc.uid \in Nat /\ copy.doc.version \in Nat /\ copy.doc.generation \in Nat
    BY <2>2 DEF FullDoc
  <2>4. Numbered(copy.doc)'
    BY <1>1, <2>2, <2>3 DEF Numbered
  <2>5. ASSUME new # NoDoc PROVE copy.doc.uid <= new.uid
    <3>1. CASE copy.key # k
      BY <1>1, <2>1, <2>2, <2>5, <3>1 DEF ObservationHolds, StoreTypeOK
    <3>2. CASE copy.key = k
      <4>1. new = doc /\ Successor(k, doc)
        BY <1>1, <2>2, <2>5, <3>2 DEF Writes, StoreTypeOK
      <4>2. CASE old = NoDoc
        BY <1>1, <2>2, <2>3, <3>2, <4>1, <4>2 DEF Successor, Numbered
      <4>3. CASE old # NoDoc
        BY <2>1, <3>2, <4>1, <4>3 DEF Successor, ObservationHolds
      <4> QED  BY <4>2, <4>3
    <3> QED  BY <3>1, <3>2
  <2>6. ASSUME new # NoDoc, new.uid = copy.doc.uid
        PROVE  /\ copy.doc.generation <= new.generation
               /\ copy.doc.generation = new.generation => copy.doc.spec = new.spec
    <3>1. CASE copy.key # k
      BY <1>1, <2>1, <2>2, <2>6, <3>1 DEF ObservationHolds, StoreTypeOK
    <3>2. CASE copy.key = k
      <4>1. new = doc /\ Successor(k, doc)
        BY <1>1, <2>2, <2>6, <3>2 DEF Writes, StoreTypeOK
      <4>2. old # NoDoc
        BY <1>1, <2>2, <2>3, <2>6, <3>2, <4>1 DEF Successor, Numbered
      <4>3. old \in FullDoc
        BY <2>2, <4>2, DocCases DEF StoreTypeOK
      <4>4. /\ copy.doc.generation <= old.generation
            /\ copy.doc.generation = old.generation => copy.doc.spec = old.spec
            /\ old.generation \in Nat
        BY <2>1, <2>6, <3>2, <4>1, <4>2, <4>3 DEF Successor, ObservationHolds, FullDoc
      <4> QED  BY <2>3, <3>2, <4>1, <4>2, <4>4 DEF Successor
    <3> QED  BY <3>1, <3>2
  <2> QED  BY <2>1, <2>2, <2>4, <2>5, <2>6 DEF ObservationHolds
<1> QED  BY <1>2, <1>3, <1>5, <1>6, <1>7

\* A store step writes one key, or leaves the table and its log alone.
WriteStep ==
    /\ \E k \in Keys, type \in EventType, doc \in Doc : Writes(k, type, doc)
    /\ editors' \in [Editors -> Copy]
    /\ \A e \in Editors : editors'[e] \in {editors[e], NoCopy}
    /\ observation' \in {observation, NoCopy}

\* An apply writes one event at the next revision, or is refused.
LEMMA SubmitApplyStep ==
    ASSUME StoreIInv, NEW e \in Editors, SubmitApply(e)
    PROVE  WriteStep \/ UNCHANGED <<resources, log>>
<1>1. PICK spec \in Specs : Apply(editors[e].key, spec, VersionOf(editors[e].doc))
  BY DEF SubmitApply
<1> DEFINE k == editors[e].key
<1>2. k \in Keys /\ editors' = [editors EXCEPT ![e] = NoCopy] /\ observation' = observation
  BY CopyCases DEF SubmitApply, StoreIInv, StoreTypeOK
<1>3. editors' \in [Editors -> Copy] /\ \A d \in Editors : editors'[d] \in {editors[d], NoCopy}
  BY <1>2 DEF StoreIInv, StoreTypeOK, Copy
<1>4. ASSUME ~ UNCHANGED <<resources, log>>
      PROVE  \E type \in EventType, doc \in Doc : Writes(k, type, doc)
  <2>1. PICK type \in EventType : Commit(k, type, Applied(k, spec))
    BY <1>1, <1>4 DEF Apply, EventType
  <2>2. Successor(k, Applied(k, spec))
    BY <1>2, <2>1, AppliedIsSuccessor DEF Commit
  <2>3. Applied(k, spec) \in Doc
    BY <2>2, DocCases DEF Successor
  <2>4. Writes(k, type, Applied(k, spec))
    BY <2>1, <2>2 DEF Writes
  <2> QED  BY <2>3, <2>4
<1> QED  BY <1>2, <1>3, <1>4 DEF WriteStep

\* A delete writes one event at the next revision, or is refused.
LEMMA SubmitDeleteStep ==
    ASSUME StoreIInv, NEW e \in Editors, SubmitDelete(e)
    PROVE  WriteStep \/ UNCHANGED <<resources, log>>
<1> DEFINE k == editors[e].key
<1>2. k \in Keys /\ editors' = [editors EXCEPT ![e] = NoCopy] /\ observation' = observation
  BY CopyCases DEF SubmitDelete, StoreIInv, StoreTypeOK
<1>3. editors' \in [Editors -> Copy] /\ \A d \in Editors : editors'[d] \in {editors[d], NoCopy}
  BY <1>2 DEF StoreIInv, StoreTypeOK, Copy
<1>4. ASSUME ~ UNCHANGED <<resources, log>>
      PROVE  Writes(k, "DELETED", NoDoc)
  BY <1>4 DEF SubmitDelete, Delete, Writes
<1>5. NoDoc \in Doc /\ "DELETED" \in EventType
  BY DEF Doc, EventType
<1> QED  BY <1>2, <1>3, <1>4, <1>5 DEF WriteStep

\* A status of the generation observed is written, a stale one is not.
LEMMA RecordStatusStep ==
    ASSUME StoreIInv, RecordStatus
    PROVE  WriteStep \/ UNCHANGED <<resources, log>>
<1> DEFINE k == observation.key
           read == observation.doc
           status(r) == [generation |-> read.generation, result |-> r, of |-> read.spec, uid |-> read.uid]
           new(r) == [resources[k] EXCEPT !.version = revision + 1, !.status = status(r)]
<1>1. PICK r \in Results : UpdateResourceStatus(k, read.generation, status(r))
  BY DEF RecordStatus
<1>2. k \in Keys /\ editors' = editors /\ observation' = NoCopy /\ observation # NoCopy
  BY CopyCases DEF RecordStatus, StoreIInv, StoreTypeOK
<1>3. editors' \in [Editors -> Copy] /\ \A d \in Editors : editors'[d] \in {editors[d], NoCopy}
  BY <1>2 DEF StoreIInv, StoreTypeOK
<1>4. ASSUME ~ UNCHANGED <<resources, log>>
      PROVE  \E type \in EventType, doc \in Doc : Writes(k, type, doc)
  <2>1. /\ Commit(k, "MODIFIED", new(r)) /\ resources[k] # NoDoc
        /\ resources[k].generation = read.generation
    BY <1>1, <1>4 DEF UpdateResourceStatus
  <2>2. Successor(k, new(r))
    BY <1>2, <2>1, StatusIsSuccessor DEF Commit
  <2> HIDE DEF new
  <2>3. new(r) \in Doc /\ "MODIFIED" \in EventType
    BY <2>2, DocCases DEF Successor, EventType
  <2> QED  BY <2>1, <2>2, <2>3 DEF Writes
<1> QED  BY <1>2, <1>3, <1>4 DEF WriteStep

\* What the callers read is current when they read it.
LEMMA ReadKeeps ==
    ASSUME StoreIInv, UNCHANGED <<resources, log>>,
           editors' \in [Editors -> Copy], observation' \in Copy,
           \A e \in Editors :
              \/ editors'[e] \in {editors[e], NoCopy}
              \/ \E k \in Keys : editors'[e] \in {[key |-> k, doc |-> resources[k]], [key |-> k, doc |-> NoDoc]},
           \/ observation' \in {observation, NoCopy}
           \/ \E k \in Keys : resources[k] # NoDoc /\ observation' = [key |-> k, doc |-> resources[k]]
    PROVE  StoreIInv'
<1> USE DEF StoreIInv
<1>1. StoreTypeOK' /\ LogReplaysToTable' /\ revision' = revision
  BY DEF StoreTypeOK, LogReplaysToTable, StateAt, revision
<1>2. DocsNumbered'
  BY <1>1 DEF DocsNumbered, Numbered, Fits
<1>3. \A k \in Keys : resources[k] # NoDoc =>
        /\ Numbered(resources[k]) /\ resources[k].generation <= resources[k].generation
        /\ resources[k].uid <= resources[k].uid
  BY DocCases DEF DocsNumbered, StoreTypeOK, FullDoc
<1>4. CopiesHold'
  <2> SUFFICES ASSUME NEW e \in Editors
               PROVE  CopyHolds(editors[e])'
    BY DEF CopiesHold
  <2>1. CASE editors'[e] \in {editors[e], NoCopy}
    BY <1>1, <2>1 DEF CopiesHold, CopyHolds, Numbered
  <2>2. CASE \E k \in Keys : editors'[e] \in {[key |-> k, doc |-> resources[k]], [key |-> k, doc |-> NoDoc]}
    BY <1>1, <1>3, <2>2 DEF CopyHolds, Numbered
  <2> QED  BY <2>1, <2>2
<1>5. ObservationHolds'
  <2>1. CASE observation' \in {observation, NoCopy}
    BY <1>1, <2>1 DEF ObservationHolds, Numbered
  <2>2. CASE \E k \in Keys : resources[k] # NoDoc /\ observation' = [key |-> k, doc |-> resources[k]]
    BY <1>1, <1>3, <2>2 DEF ObservationHolds, Numbered
  <2> QED  BY <2>1, <2>2
<1> QED  BY <1>1, <1>2, <1>4, <1>5

\* Whatever the store does keeps its log and its resources in step.
LEMMA StoreStep ==
    ASSUME StoreIInv, StoreNext \/ UNCHANGED storeVars
    PROVE  StoreIInv' /\ (WriteStep \/ UNCHANGED <<resources, log>>)
<1>1. CASE WriteStep
  BY <1>1, WriteKeeps DEF WriteStep
<1>2. CASE ~ WriteStep
  <2>1. UNCHANGED <<resources, log>>
    <3>1. ASSUME NEW e \in Editors, SubmitApply(e) \/ SubmitDelete(e)
          PROVE  UNCHANGED <<resources, log>>
      BY <1>2, <3>1, SubmitApplyStep, SubmitDeleteStep
    <3>2. CASE RecordStatus
      BY <1>2, <3>2, RecordStatusStep
    <3> QED  BY <3>1, <3>2 DEF StoreNext, Get, OpenCreate, GiveUp, Observe, storeVars
  <2>2. NoCopy \in Copy /\ NoDoc \in Doc
        /\ \A k \in Keys, d \in Doc : [key |-> k, doc |-> d] \in Copy
    BY DEF Copy, Doc
  <2>3. ASSUME NEW e \in Editors, NEW c \in Copy, editors' = [editors EXCEPT ![e] = c],
               observation' = observation,
               c = NoCopy \/ \E k \in Keys : c \in {[key |-> k, doc |-> resources[k]], [key |-> k, doc |-> NoDoc]}
        PROVE  StoreIInv'
    BY <2>1, <2>3, ReadKeeps DEF StoreIInv, StoreTypeOK
  <2>4. ASSUME NEW e \in Editors, NEW k \in Keys, Get(e, k) \/ OpenCreate(e, k)
        PROVE  StoreIInv'
    <3>1. resources[k] \in Doc
      BY DEF StoreIInv, StoreTypeOK
    <3> QED  BY <2>2, <2>3, <2>4, <3>1 DEF Get, OpenCreate
  <2>5. ASSUME NEW e \in Editors, SubmitApply(e) \/ SubmitDelete(e) \/ GiveUp(e)
        PROVE  StoreIInv'
    BY <2>2, <2>3, <2>5 DEF SubmitApply, SubmitDelete, GiveUp
  <2>6. ASSUME NEW k \in Keys, Observe(k)
        PROVE  StoreIInv'
    BY <2>1, <2>2, <2>6, ReadKeeps DEF Observe, StoreIInv, StoreTypeOK
  <2>7. CASE RecordStatus \/ UNCHANGED storeVars
    BY <2>1, <2>2, <2>7, ReadKeeps DEF RecordStatus, storeVars, StoreIInv, StoreTypeOK
  <2> QED  BY <2>1, <2>4, <2>5, <2>6, <2>7 DEF StoreNext
<1> QED  BY <1>1, <1>2

-----------------------------------------------------------------------------
(* Pages.                                                                  *)

\* A page that is not the last ends at a key up to which the listing has seen
\* every document there is.
LEMMA PageCovers ==
    ASSUME NEW after \in Nat, More(after)
    PROVE  /\ PageKeys(after) \subseteq {k \in Keys : k > after}
           /\ LastKey(PageKeys(after)) \in PageKeys(after)
           /\ \A k \in PageKeys(after) : k <= LastKey(PageKeys(after))
           /\ \A k \in Keys : after < k /\ k <= LastKey(PageKeys(after)) /\ resources[k] # NoDoc
                              => k \in PageKeys(after)
<1> DEFINE rest == Present({k \in Keys : k > after})
           upTo(k) == {j \in rest : j <= k}
           page == PageKeys(after)
           m == LastKey(page)
<1>1. /\ rest \in SUBSET Nat /\ rest \subseteq {k \in Keys : k > after}
      /\ \A k \in Keys : k > after /\ resources[k] # NoDoc => k \in rest
  BY KeysAssumption DEF Present
<1>2. IsFiniteSet(rest)
  BY KeysAssumption, FS_Subset DEF Present
<1>3. page = {k \in rest : Cardinality(upTo(k)) <= PageSize} /\ page # rest
  BY DEF PageKeys, More
<1> HIDE DEF rest, page
<1>4. page # {}
  <2>1. rest # {}
    BY <1>3
  <2>2. PICK l \in rest : \A n \in rest : l <= n
    BY <1>1, <2>1, LeastNat
  <2>3. upTo(l) = {l}
    <3>1. \A j \in rest : j \in Nat /\ l \in Nat /\ l <= j
      BY <1>1, <2>2
    <3>2. \A j \in rest : j <= l <=> j = l
      BY <3>1
    <3> QED  BY <2>2, <3>2
  <2>4. Cardinality(upTo(l)) = 1
    BY <2>3, FS_Singleton
  <2> QED  BY <1>3, <2>2, <2>4, PageSizeAssumption
<1>5. m \in page /\ \A k \in page : k <= m
  <2>1. page \in SUBSET Nat /\ IsFiniteSet(page)
    BY <1>1, <1>2, <1>3, FS_Subset
  <2>2. m = Latest(page)
    BY DEF LastKey, Latest
  <2> QED  BY <1>4, <2>1, <2>2, LatestExists
<1>6. ASSUME NEW k \in rest, k <= m
      PROVE  k \in page
  <2>1. upTo(k) \in SUBSET upTo(m) /\ upTo(m) \in SUBSET rest
    <3>1. k \in Nat /\ m \in Nat
      BY <1>1, <1>3, <1>5
    <3>2. \A j \in rest : j \in Nat
      BY <1>1
    <3>3. \A j \in rest : j <= k => j <= m
      BY <1>6, <3>1, <3>2
    <3> QED  BY <3>3
  <2>2. IsFiniteSet(upTo(m)) /\ IsFiniteSet(upTo(k)) /\ Cardinality(upTo(k)) <= Cardinality(upTo(m))
    BY <1>2, <2>1, FS_Subset
  <2>3. Cardinality(upTo(k)) \in Nat /\ Cardinality(upTo(m)) \in Nat
    BY <2>2, FS_CardinalityType
  <2>4. Cardinality(upTo(m)) <= PageSize
    BY <1>3, <1>5
  <2>5. Cardinality(upTo(k)) <= PageSize
    BY <2>2, <2>3, <2>4, PageSizeAssumption
  <2> QED  BY <1>3, <1>6, <2>5
<1> QED  BY <1>1, <1>3, <1>5, <1>6 DEF page

-----------------------------------------------------------------------------
(***************************************************************************)
(* The client.  What it shows is the table of the revision it claims; the  *)
(* pages of a listing that can still be continued are of the current       *)
(* table; the wire holds the next events in order.                         *)
(***************************************************************************)
LiveTypeOK ==
    /\ live \in [docs : [Keys -> Doc], revision : 0..MaxRevision]
    /\ listing \in [started : BOOLEAN, revision : 0..MaxRevision,
                    after : Nat, docs : [Keys -> Doc]]
    /\ stream \in [sent : 0..MaxRevision, wire : Seq(1..MaxRevision)]
    /\ mode \in {"listing", "opening", "watching"}
    /\ breaks \in 0..MaxBreaks

ShowsTable == live.revision <= revision /\ live.docs = StateAt[live.revision]

PagesCurrent ==
    /\ listing.revision <= revision
    /\ listing.revision = 0 => listing.after = 0 /\ listing.docs = Empty
    /\ listing.revision = revision =>
         \A k \in Keys : listing.docs[k] = IF k <= listing.after THEN resources[k] ELSE NoDoc

WireInOrder ==
    mode = "watching" =>
        /\ stream.sent = live.revision + Len(stream.wire) /\ stream.sent <= revision
        /\ \A i \in 1..Len(stream.wire) : stream.wire[i] = live.revision + i

IInv == StoreIInv /\ LiveTypeOK /\ ShowsTable /\ PagesCurrent /\ WireInOrder

\* The store moves under the client: what it shows stays what it was, and the
\* pages of a listing under way can no longer be continued.
LEMMA StoreStepKeeps ==
    ASSUME IInv, StoreNext \/ UNCHANGED storeVars, UNCHANGED liveVars
    PROVE  IInv'
<1> USE DEF IInv
<1>1. StoreIInv' /\ (WriteStep \/ UNCHANGED <<resources, log>>)
  BY StoreStep
<1>2. UNCHANGED <<live, listing, stream, mode, breaks>>
  BY DEF liveVars
<1>3. LiveTypeOK'
  BY <1>2 DEF LiveTypeOK
<1>4. CASE UNCHANGED <<resources, log>>
  <2>1. UNCHANGED revision /\ UNCHANGED StateAt
    BY <1>4 DEF revision, StateAt
  <2> QED  BY <1>1, <1>2, <1>3, <1>4, <2>1 DEF ShowsTable, PagesCurrent, WireInOrder
<1>5. CASE WriteStep
  <2>1. PICK k \in Keys, type \in EventType, doc \in Doc : Writes(k, type, doc)
    BY <1>5 DEF WriteStep
  <2>2. PICK event \in Event : log' = Append(log, event)
    BY <2>1 DEF Writes, Commit, Event, EventType
  <2>3. log \in Seq(Event) /\ revision \in Nat /\ revision' = revision + 1
    BY <2>2 DEF StoreIInv, StoreTypeOK, revision
  <2>4. live.revision \in 0..revision /\ listing.revision \in Nat /\ stream.sent \in Nat
    BY <2>3 DEF LiveTypeOK, ShowsTable
  <2>5. StateAt'[live.revision] = StateAt[live.revision]
    BY <2>2, <2>3, <2>4, ReplayAppend DEF StateAt, revision
  <2>6. ShowsTable'
    BY <1>2, <2>3, <2>4, <2>5 DEF ShowsTable
  <2>7. PagesCurrent'
    BY <1>2, <2>3, <2>4 DEF PagesCurrent
  <2>8. WireInOrder'
    BY <1>2, <2>3, <2>4 DEF WireInOrder
  <2> QED  BY <1>1, <1>3, <2>6, <2>7, <2>8
<1> QED  BY <1>1, <1>4, <1>5

\* A page extends the listing, or completes it with the current table.
LEMMA ListPageKeeps ==
    ASSUME IInv, ListPage, UNCHANGED storeVars
    PROVE  IInv' /\ live'.revision >= live.revision
<1> DEFINE after == listing.after
           page == PageKeys(after)
           docs == [k \in Keys |-> IF k \in page THEN resources[k] ELSE listing.docs[k]]
           first == IF listing.revision = 0 THEN revision ELSE listing.revision
           m == LastKey(page)
<1> USE DEF IInv
<1>1. /\ UNCHANGED <<resources, log, editors, observation>>
      /\ UNCHANGED revision /\ UNCHANGED StateAt /\ revision \in 0..MaxRevision /\ log \in Seq(Event)
  BY MaxRevisionAssumption DEF storeVars, revision, StateAt, StoreIInv, StoreTypeOK
<1>2. StoreIInv'
  BY StoreStep DEF storeVars
<1>3. first = revision /\ mode = "listing" /\ after \in Nat
  BY DEF ListPage, PageRefused, LiveTypeOK
<1>4. \A k \in Keys : listing.docs[k] = IF k <= after THEN resources[k] ELSE NoDoc
  <2>1. CASE listing.revision = 0
    <3>1. after = 0 /\ listing.docs = Empty
      BY <2>1 DEF PagesCurrent
    <3>2. \A k \in Keys : ~ (k <= 0) /\ Empty[k] = NoDoc
      BY KeysAssumption DEF Empty
    <3> QED  BY <3>1, <3>2
  <2>2. CASE listing.revision = revision
    BY <2>2 DEF PagesCurrent
  <2> QED  BY <2>1, <2>2 DEF ListPage, PageRefused
<1>5. /\ docs \in [Keys -> Doc] /\ page \subseteq {k \in Keys : k > after}
      /\ \A k \in Keys : k \in Nat
  BY KeysAssumption DEF LiveTypeOK, StoreIInv, StoreTypeOK, PageKeys, Present
<1>6. CASE More(after)
  <2>1. /\ listing' = [started |-> TRUE, revision |-> first, after |-> m, docs |-> docs]
        /\ UNCHANGED <<live, mode, stream, breaks>>
    BY <1>6 DEF ListPage
  <2>2. /\ m \in page /\ \A k \in page : k <= m
        /\ \A k \in Keys : after < k /\ k <= m /\ resources[k] # NoDoc => k \in page
    BY <1>3, <1>6, PageCovers
  <2> HIDE DEF docs, first, m, page
  <2>3. listing'.revision = revision /\ listing'.after = m /\ listing'.docs = docs
    BY <1>3, <2>1
  <2>4. m \in Keys /\ m \in Nat /\ m > after
    BY <1>5, <2>2
  <2>5. revision # 0
    <3>1. resources[m] # NoDoc
      BY <2>2 DEF page, PageKeys, Present
    <3>2. resources[m] \in FullDoc /\ Numbered(resources[m])
      BY <2>4, <3>1, DocCases DEF StoreIInv, StoreTypeOK, DocsNumbered
    <3> QED  BY <1>1, <3>2 DEF FullDoc, Numbered
  <2>6. \A k \in Keys : docs[k] = IF k <= m THEN resources[k] ELSE NoDoc
    <3> SUFFICES ASSUME NEW k \in Keys
                 PROVE  docs[k] = IF k <= m THEN resources[k] ELSE NoDoc
      OBVIOUS
    <3>1. docs[k] = IF k \in page THEN resources[k] ELSE listing.docs[k]
      BY DEF docs
    <3>2. CASE k \in page
      BY <2>2, <3>1, <3>2
    <3>3. CASE k \notin page /\ k <= after
      BY <1>3, <1>4, <1>5, <2>4, <3>1, <3>3
    <3>4. CASE k \notin page /\ ~ (k <= after)
      <4>1. after < k /\ listing.docs[k] = NoDoc
        BY <1>3, <1>4, <1>5, <3>4
      <4> QED  BY <2>2, <3>1, <3>4, <4>1
    <3> QED  BY <3>2, <3>3, <3>4
  <2>7. PagesCurrent'
    BY <1>1, <2>3, <2>5, <2>6 DEF PagesCurrent
  <2>8. LiveTypeOK'
    BY <1>1, <1>3, <1>5, <2>1, <2>4 DEF LiveTypeOK
  <2>9. ShowsTable' /\ WireInOrder'
    BY <1>1, <2>1 DEF ShowsTable, WireInOrder
  <2>10. live'.revision >= live.revision
    BY <2>1 DEF LiveTypeOK
  <2> QED  BY <1>2, <2>7, <2>8, <2>9, <2>10
<1>7. CASE ~ More(after)
  <2>1. /\ live' = [docs |-> docs, revision |-> first] /\ listing' = NotListing
        /\ mode' = "opening" /\ UNCHANGED <<stream, breaks>>
    BY <1>7 DEF ListPage
  <2>2. docs = resources
    <3>1. \A k \in Keys : k > after /\ resources[k] # NoDoc => k \in page
      BY <1>7 DEF More, Present
    <3>2. \A k \in Keys : docs[k] = resources[k]
      BY <1>3, <1>4, <1>5, <3>1
    <3> QED  BY <1>5, <3>2 DEF StoreIInv, StoreTypeOK
  <2>3. ShowsTable'
    <3>1. resources = StateAt[revision] /\ live'.docs = resources /\ live'.revision = revision
      BY <1>3, <2>1, <2>2 DEF StoreIInv, LogReplaysToTable
    <3> QED  BY <1>1, <3>1 DEF ShowsTable
  <2>4. LiveTypeOK'
    <3>1. Empty \in [Keys -> Doc]
      BY DEF Empty, Doc
    <3> QED  BY <1>1, <1>3, <1>5, <2>1, <3>1, MaxRevisionAssumption DEF LiveTypeOK, NotListing
  <2>5. PagesCurrent' /\ WireInOrder'
    <3>1. \A k \in Keys : ~ (k <= 0) /\ Empty[k] = NoDoc
      BY KeysAssumption DEF Empty
    <3> QED  BY <1>1, <2>1, <3>1 DEF PagesCurrent, WireInOrder, NotListing
  <2>6. live'.revision >= live.revision
    BY <1>1, <1>3, <2>1 DEF LiveTypeOK, ShowsTable
  <2> QED  BY <1>2, <2>3, <2>4, <2>5, <2>6
<1> QED  BY <1>6, <1>7

\* A listing given up, a watch opened or broken: what is shown stays.
LEMMA ReconnectKeeps ==
    ASSUME IInv, RestartListing \/ ListingFails \/ OpenWatch \/ StreamFails, UNCHANGED storeVars
    PROVE  IInv' /\ UNCHANGED live
<1> USE DEF IInv
<1>1. /\ UNCHANGED <<resources, log, editors, observation, live>>
      /\ UNCHANGED revision /\ UNCHANGED StateAt /\ revision \in Nat
  BY DEF storeVars, revision, StateAt, StoreIInv, StoreTypeOK, RestartListing, ListingFails, OpenWatch, StreamFails
<1>2. StoreIInv' /\ ShowsTable'
  BY <1>1, StoreStep DEF storeVars, ShowsTable
<1>3. /\ listing' \in {listing, NotListing}
      /\ \/ stream' = stream /\ mode' # "watching"
         \/ stream' = [sent |-> live.revision, wire |-> << >>]
         \/ stream' = NoStream /\ mode' # "watching"
      /\ mode' \in {"listing", "opening", "watching"} /\ breaks' \in 0..MaxBreaks
  BY MaxBreaksAssumption DEF RestartListing, ListingFails, OpenWatch, StreamFails, LiveTypeOK
<1>4. LiveTypeOK'
  <2>1. NotListing \in [started : BOOLEAN, revision : 0..MaxRevision, after : Nat, docs : [Keys -> Doc]]
    BY MaxRevisionAssumption DEF NotListing, Empty, Doc
  <2>2. stream' \in [sent : 0..MaxRevision, wire : Seq(1..MaxRevision)]
    <3>1. << >> \in Seq(1..MaxRevision) /\ 0 \in 0..MaxRevision /\ live.revision \in 0..MaxRevision
      BY MaxRevisionAssumption DEF LiveTypeOK
    <3>2. CASE stream' = stream
      BY <3>2 DEF LiveTypeOK
    <3>3. CASE stream' = [sent |-> live.revision, wire |-> << >>] \/ stream' = NoStream
      <4>1. \A n \in 0..MaxRevision, w \in Seq(1..MaxRevision) :
              [sent |-> n, wire |-> w] \in [sent : 0..MaxRevision, wire : Seq(1..MaxRevision)]
        OBVIOUS
      <4>2. /\ [sent |-> live.revision, wire |-> << >>] \in [sent : 0..MaxRevision, wire : Seq(1..MaxRevision)]
            /\ NoStream \in [sent : 0..MaxRevision, wire : Seq(1..MaxRevision)]
        BY <3>1, <4>1 DEF NoStream
      <4> QED  BY <3>3, <4>2
    <3> QED  BY <1>3, <3>2, <3>3
  <2> QED  BY <1>1, <1>3, <2>1, <2>2 DEF LiveTypeOK
<1>5. PagesCurrent'
  <2>1. CASE listing' = listing
    BY <1>1, <2>1 DEF PagesCurrent
  <2>2. CASE listing' = NotListing
    <3>1. \A k \in Keys : ~ (k <= 0) /\ Empty[k] = NoDoc
      BY KeysAssumption DEF Empty
    <3> QED  BY <1>1, <2>2, <3>1 DEF PagesCurrent, NotListing
  <2> QED  BY <1>3, <2>1, <2>2
<1>6. WireInOrder'
  <2>1. Len(<< >>) = 0 /\ live.revision \in Nat
    BY DEF LiveTypeOK
  <2> QED  BY <1>1, <1>3, <2>1 DEF WireInOrder, ShowsTable
<1> QED  BY <1>1, <1>2, <1>4, <1>5, <1>6

\* The server sends the next page of events.
LEMMA SendKeeps ==
    ASSUME IInv, SendEvents, UNCHANGED storeVars
    PROVE  IInv' /\ UNCHANGED live
<1> DEFINE last == IF stream.sent + PageSize < revision THEN stream.sent + PageSize ELSE revision
           count == last - stream.sent
           wire == [i \in 1..count |-> stream.sent + i]
<1> USE DEF IInv
<1>1. /\ UNCHANGED <<resources, log, editors, observation, live, listing, mode, breaks>>
      /\ UNCHANGED revision /\ UNCHANGED StateAt /\ revision \in 0..MaxRevision
      /\ stream' = [sent |-> last, wire |-> wire] /\ mode = "watching"
      /\ stream.wire = << >> /\ stream.sent < revision
  BY MaxRevisionAssumption DEF storeVars, revision, StateAt, StoreIInv, StoreTypeOK, SendEvents
<1>2. stream.sent \in Nat /\ stream.sent = live.revision
  <2>1. Len(<< >>) = 0 /\ live.revision \in Nat
    BY DEF LiveTypeOK
  <2> QED  BY <1>1, <2>1 DEF LiveTypeOK, WireInOrder
<1>3. last \in 0..MaxRevision /\ last <= revision /\ count \in Nat /\ last = stream.sent + count
  BY <1>1, <1>2, PageSizeAssumption, MaxRevisionAssumption
<1>4. wire \in Seq(1..MaxRevision) /\ Len(wire) = count
  <2>1. \A i \in 1..count : stream.sent + i \in 1..MaxRevision
    BY <1>2, <1>3, MaxRevisionAssumption
  <2> HIDE DEF count
  <2> QED  BY <1>3, <2>1
<1>5. \A i \in 1..count : wire[i] = live.revision + i
  BY <1>2
<1> HIDE DEF last, count, wire
<1>6. stream'.sent = last /\ stream'.wire = wire
  BY <1>1
<1>7. LiveTypeOK'
  BY <1>1, <1>3, <1>4 DEF LiveTypeOK
<1>8. StoreIInv' /\ ShowsTable' /\ PagesCurrent'
  BY <1>1, StoreStep DEF storeVars, ShowsTable, PagesCurrent
<1>9. WireInOrder'
  BY <1>1, <1>2, <1>3, <1>4, <1>5, <1>6 DEF WireInOrder
<1> QED  BY <1>1, <1>7, <1>8, <1>9

\* What is left of the wire after its first event.
LEMMA HeadAndTail ==
    ASSUME NEW S, NEW s \in Seq(S), s # << >>
    PROVE  /\ Len(s) \in Nat \ {0} /\ Head(s) = s[1]
           /\ Tail(s) \in Seq(S) /\ Len(Tail(s)) = Len(s) - 1
           /\ \A i \in 1..Len(Tail(s)) : Tail(s)[i] = s[i + 1]
<1>1. Len(s) \in Nat \ {0} /\ Head(s) = s[1]
  OBVIOUS
<1>2. Tail(s) \in Seq(S) /\ Len(Tail(s)) = Len(s) - 1
  BY HeadTailProperties
<1>3. \A i \in 1..Len(Tail(s)) : Tail(s)[i] = s[i + 1]
  BY HeadTailProperties
<1> QED  BY <1>1, <1>2, <1>3

\* The client applies the next event: it moves to the next table.
LEMMA ReceiveKeeps ==
    ASSUME IInv, Receive, UNCHANGED storeVars
    PROVE  IInv' /\ live'.revision >= live.revision
<1> DEFINE wire == stream.wire
           r == Head(wire)
<1> USE DEF IInv
<1>1. /\ UNCHANGED <<resources, log, editors, observation, listing, mode, breaks>>
      /\ UNCHANGED revision /\ UNCHANGED StateAt /\ revision \in Nat /\ log \in Seq(Event)
      /\ revision = Len(log) /\ revision <= MaxRevision
      /\ stream' = [stream EXCEPT !.wire = Tail(wire)] /\ mode = "watching" /\ wire # << >>
      /\ ApplyResourceEvent(r)
  BY DEF storeVars, revision, StateAt, StoreIInv, StoreTypeOK, Receive, LiveTypeOK
<1>2. wire \in Seq(1..MaxRevision) /\ live.revision \in Nat /\ stream.sent \in Nat
  BY DEF LiveTypeOK
<1>3. /\ Len(wire) \in Nat \ {0} /\ r = wire[1]
      /\ Tail(wire) \in Seq(1..MaxRevision) /\ Len(Tail(wire)) = Len(wire) - 1
      /\ \A i \in 1..Len(Tail(wire)) : Tail(wire)[i] = wire[i + 1]
  BY <1>1, <1>2, HeadAndTail
<1>4. r = live.revision + 1 /\ r \in 1..Len(log) /\ r <= MaxRevision
  <2>1. /\ stream.sent = live.revision + Len(wire) /\ stream.sent <= revision
        /\ \A i \in 1..Len(wire) : wire[i] = live.revision + i
    BY <1>1 DEF WireInOrder
  <2>2. 1 \in 1..Len(wire)
    BY <1>3
  <2>3. r = live.revision + 1
    BY <1>3, <2>1, <2>2
  <2>4. r <= revision /\ r \in Nat \ {0}
    BY <1>1, <1>2, <1>3, <2>1, <2>3
  <2> QED  BY <1>1, <2>3, <2>4, MaxRevisionAssumption
<1>5. live' = [docs |-> [live.docs EXCEPT ![log[r].key] = log[r].doc], revision |-> r]
  <2>1. ~ (r <= live.revision)
    BY <1>2, <1>4
  <2> QED  BY <1>1, <2>1 DEF ApplyResourceEvent
<1>6. stream'.wire = Tail(wire) /\ stream'.sent = stream.sent
  BY <1>1 DEF LiveTypeOK
<1> HIDE DEF wire, r
<1>7. live'.docs = StateAt[r] /\ live'.revision = r
  <2>1. StateAt[r] = [StateAt[r - 1] EXCEPT ![log[r].key] = log[r].doc]
    BY <1>1, <1>4, ReplayStep DEF StateAt
  <2>2. live.docs = StateAt[r - 1]
    BY <1>2, <1>4 DEF ShowsTable
  <2> QED  BY <1>5, <2>1, <2>2
<1>8. ShowsTable'
  BY <1>1, <1>4, <1>7 DEF ShowsTable
<1>9. LiveTypeOK'
  <2>1. StateAt[r] \in [Keys -> Doc]
    BY <1>1, <1>4, ReplayType DEF StateAt
  <2>2. live' \in [docs : [Keys -> Doc], revision : 0..MaxRevision]
    <3>1. r \in 0..MaxRevision
      BY <1>2, <1>4, MaxRevisionAssumption
    <3> QED  BY <1>5, <1>7, <2>1, <3>1
  <2>3. stream' \in [sent : 0..MaxRevision, wire : Seq(1..MaxRevision)]
    BY <1>1, <1>3 DEF LiveTypeOK
  <2> QED  BY <1>1, <2>2, <2>3 DEF LiveTypeOK
<1>10. StoreIInv' /\ PagesCurrent'
  BY <1>1, StoreStep DEF storeVars, PagesCurrent
<1>11. WireInOrder'
  <2>1. \A i \in 1..Len(Tail(wire)) : Tail(wire)[i] = r + i
    <3>1. \A i \in 1..Len(wire) : wire[i] = live.revision + i
      BY <1>1 DEF WireInOrder, wire
    <3>2. \A i \in 1..Len(Tail(wire)) : i + 1 \in 1..Len(wire) /\ live.revision + (i + 1) = r + i
      BY <1>2, <1>3, <1>4
    <3> QED  BY <1>3, <3>1, <3>2
  <2>2. stream.sent = live.revision + Len(wire) /\ stream.sent <= revision
    BY <1>1 DEF WireInOrder, wire
  <2>3. stream.sent = r + Len(Tail(wire))
    BY <1>2, <1>3, <1>4, <2>2
  <2> QED  BY <1>1, <1>6, <1>7, <2>1, <2>2, <2>3 DEF WireInOrder
<1>12. live'.revision >= live.revision
  BY <1>2, <1>4, <1>7
<1> QED  BY <1>8, <1>9, <1>10, <1>11, <1>12

\* Whatever the view does, it stays a snapshot and never goes back.
LEMMA ClientStep ==
    ASSUME IInv, ClientNext, UNCHANGED storeVars
    PROVE  IInv' /\ live'.revision >= live.revision
<1>1. live.revision >= live.revision
  BY DEF IInv, LiveTypeOK
<1> QED  BY <1>1, ListPageKeeps, ReconnectKeeps, SendKeeps, ReceiveKeeps DEF ClientNext

\* An empty store and a view that has listed nothing.
LEMMA InitIInv ==
    ASSUME Init
    PROVE  IInv
<1>1. StoreIInv
  <2>1. StoreTypeOK /\ log = << >> /\ revision = 0 /\ resources = Empty
    BY MaxRevisionAssumption DEF Init, StoreInit, StoreTypeOK, Empty, Doc, Copy, revision
  <2>2. LogReplaysToTable
    BY <2>1, ReplayStart DEF LogReplaysToTable, StateAt, StoreTypeOK
  <2>3. DocsNumbered /\ CopiesHold /\ ObservationHolds
    BY <2>1 DEF Init, StoreInit, Empty, DocsNumbered, CopiesHold, CopyHolds, ObservationHolds
  <2> QED  BY <2>1, <2>2, <2>3 DEF StoreIInv
<1>2. revision = 0 /\ StateAt[0] = Empty
  BY <1>1 DEF Init, StoreInit, StoreIInv, LogReplaysToTable, revision
<1>3. /\ live = [docs |-> Empty, revision |-> 0] /\ listing = NotListing /\ stream = NoStream
      /\ mode = "listing" /\ breaks = 0
  BY DEF Init
<1>4. LiveTypeOK
  <2>1. Empty \in [Keys -> Doc] /\ 0 \in 0..MaxRevision /\ 0 \in 0..MaxBreaks
        /\ << >> \in Seq(1..MaxRevision)
    BY MaxRevisionAssumption, MaxBreaksAssumption DEF Empty, Doc
  <2>2. \A n \in 0..MaxRevision, w \in Seq(1..MaxRevision) :
          [sent |-> n, wire |-> w] \in [sent : 0..MaxRevision, wire : Seq(1..MaxRevision)]
    OBVIOUS
  <2>3. stream \in [sent : 0..MaxRevision, wire : Seq(1..MaxRevision)]
    BY <1>3, <2>1, <2>2 DEF NoStream
  <2> QED  BY <1>3, <2>1, <2>3 DEF LiveTypeOK, NotListing
<1>5. ShowsTable /\ WireInOrder
  BY <1>2, <1>3 DEF ShowsTable, WireInOrder
<1>6. PagesCurrent
  <2>1. \A k \in Keys : ~ (k <= 0) /\ Empty[k] = NoDoc
    BY KeysAssumption DEF Empty
  <2> QED  BY <1>2, <1>3, <2>1 DEF PagesCurrent, NotListing
<1> QED  BY <1>1, <1>4, <1>5, <1>6 DEF IInv

\* A step of the store or of the view.
LEMMA StepIInv ==
    ASSUME IInv, [Next]_vars
    PROVE  IInv'
<1>1. CASE StoreNext /\ UNCHANGED liveVars
  BY <1>1, StoreStepKeeps
<1>2. CASE ClientNext /\ UNCHANGED storeVars
  BY <1>2, ClientStep
<1>3. CASE UNCHANGED vars
  BY <1>3, StoreStepKeeps DEF vars, storeVars, liveVars
<1> QED  BY <1>1, <1>2, <1>3 DEF Next

\* The invariant of the store and its view.
LEMMA Inductive == Spec => []IInv
<1>1. Init => IInv
  BY InitIInv
<1>2. IInv /\ [Next]_vars => IInv'
  BY StepIInv
<1> QED  BY <1>1, <1>2, PTL DEF Spec

-----------------------------------------------------------------------------
(***************************************************************************)
(* A version names one document for ever, so that what an editor replaces  *)
(* is what it read, and a status that claims the current generation was    *)
(* computed from the current spec, or for an object of the same name that  *)
(* was deleted since.                                                      *)
(***************************************************************************)
THEOREM StoreInvariant == Spec => []StoreInv
<1>1. IInv => StoreInv
  <2> SUFFICES ASSUME IInv
               PROVE  StoreInv
    OBVIOUS
  <2>1. TypeOK
    BY DEF IInv, StoreIInv, LiveTypeOK, TypeOK
  <2>2. VersionNamesDocument
    BY DEF IInv, StoreIInv, CopiesHold, CopyHolds, VersionNamesDocument
  <2>3. StatusDescribesSpec
    <3> SUFFICES ASSUME NEW k \in Keys, resources[k] # NoDoc, resources[k].status # NoStatus,
                        resources[k].status.generation = resources[k].generation
                 PROVE  \/ resources[k].status.of = resources[k].spec
                        \/ resources[k].status.uid < resources[k].uid
      BY DEF StatusDescribesSpec
    <3>1. Fits(resources[k]) /\ resources[k] \in FullDoc
      BY DocCases DEF IInv, StoreIInv, DocsNumbered, StoreTypeOK
    <3>2. resources[k].uid \in Nat /\ resources[k].status.uid \in Nat
      BY <3>1, DocCases DEF FullDoc
    <3> QED  BY <3>1, <3>2 DEF Fits
  <2> QED  BY <2>1, <2>2, <2>3 DEF StoreInv
<1> QED  BY <1>1, Inductive, PTL

-----------------------------------------------------------------------------
(* The refinement: one linear history, shown in order and whole.           *)

Table == [Keys -> Doc]

\* The history is a sequence of tables, one more than there are events.
LEMMA HistorySeq ==
    ASSUME NEW L \in Seq(Event), NEW H, H = [i \in 1..(Len(L) + 1) |-> Replay(L)[i - 1]]
    PROVE  /\ H \in Seq(Table) /\ Len(H) = Len(L) + 1
           /\ \A i \in 1..(Len(L) + 1) : H[i] = Replay(L)[i - 1]
<1>1. \A i \in 1..(Len(L) + 1) : Replay(L)[i - 1] \in Table
  BY ReplayType DEF Table
<1>2. Len(L) + 1 \in Nat
  OBVIOUS
<1> QED  BY <1>1, <1>2

\* A transaction that writes is a Write: it appends one version, one key away.
LEMMA WriteImplements ==
    ASSUME IInv, IInv', WriteStep, UNCHANGED live
    PROVE  Promise!Write
<1>1. PICK k \in Keys, type \in EventType, doc \in Doc : Writes(k, type, doc)
  BY DEF WriteStep
<1> DEFINE event == [type |-> type, key |-> k, doc |-> doc]
           n == Len(log)
<1>2. /\ log \in Seq(Event) /\ event \in Event /\ log' = Append(log, event) /\ n \in Nat
      /\ log' \in Seq(Event) /\ Len(log') = n + 1
      /\ resources' = [resources EXCEPT ![k] = doc] /\ resources \in [Keys -> Doc]
  BY <1>1 DEF Writes, Commit, Event, EventType, IInv, StoreIInv, StoreTypeOK
<1>3. /\ History \in Seq(Table) /\ Len(History) = n + 1
      /\ \A i \in 1..(n + 1) : History[i] = Replay(log)[i - 1]
  BY <1>2, HistorySeq DEF History, StateAt
<1>4. /\ History' \in Seq(Table) /\ Len(History') = n + 2
      /\ \A i \in 1..(n + 2) : History'[i] = Replay(log')[i - 1]
  <2>1. History' = [i \in 1..(Len(log') + 1) |-> Replay(log')[i - 1]]
    BY DEF History, StateAt
  <2>2. /\ History' \in Seq(Table) /\ Len(History') = Len(log') + 1
        /\ \A i \in 1..(Len(log') + 1) : History'[i] = Replay(log')[i - 1]
    BY <1>2, <2>1, HistorySeq
  <2> QED  BY <1>2, <2>2
<1>5. \A i \in 1..(n + 1) : History'[i] = History[i]
  <2>1. \A r \in 0..n : Replay(log')[r] = Replay(log)[r]
    <3> HIDE DEF event
    <3>1. \A r \in 0..Len(log) : Replay(Append(log, event))[r] = Replay(log)[r]
      BY <1>2, ReplayAppend
    <3> QED  BY <1>2, <3>1
  <2>2. \A i \in 1..(n + 1) : i - 1 \in 0..n /\ i \in 1..(n + 2)
    BY <1>2
  <2> QED  BY <1>3, <1>4, <2>1, <2>2
<1>6. SubSeq(History', 1, Len(History)) = History
  <2>1. \A H, G \in Seq(Table) : Len(G) = Len(H) + 1 /\ (\A i \in 1..Len(H) : G[i] = H[i])
                                 => SubSeq(G, 1, Len(H)) = H
    BY SubSeqProperties, SeqEqual
  <2>2. Len(History') = Len(History) + 1
    BY <1>2, <1>3, <1>4
  <2> QED  BY <1>3, <1>4, <1>5, <2>1, <2>2
<1>7. Promise!OneKeyApart(History[n + 1], History'[n + 2])
  <2>1. History[n + 1] = resources
    BY <1>2, <1>3 DEF IInv, StoreIInv, LogReplaysToTable, StateAt, revision
  <2>2. History'[n + 2] = resources'
    <3>1. Replay(log')[n + 1] = resources'
      BY <1>2 DEF IInv, StoreIInv, LogReplaysToTable, StateAt, revision
    <3> QED  BY <1>2, <1>4, <3>1
  <2>3. resources[k] # doc
    <3>1. CASE resources[k] = NoDoc
      BY <1>1, <3>1, DocCases DEF Writes, Successor
    <3>2. CASE resources[k] # NoDoc
      <4>1. resources[k] \in FullDoc /\ Numbered(resources[k])
        BY <1>2, <3>2, DocCases DEF IInv, StoreIInv, DocsNumbered
      <4>2. resources[k].version \in Nat /\ resources[k].version <= n
        BY <4>1 DEF FullDoc, Numbered, revision
      <4> QED  BY <1>1, <1>2, <3>2, <4>2 DEF Writes, Successor, revision
    <3> QED  BY <3>1, <3>2
  <2> QED  BY <1>2, <2>1, <2>2, <2>3 DEF Promise!OneKeyApart
<1> QED  BY <1>2, <1>3, <1>4, <1>6, <1>7 DEF Promise!Write

\* Whatever the client does is a Show: it moves to a version at or after the
\* one it showed, and shows it whole.
LEMMA ClientImplements ==
    ASSUME IInv, IInv', UNCHANGED log, live'.revision >= live.revision
    PROVE  Promise!Show
<1> DEFINE n == live'.revision
<1>1. log \in Seq(Event) /\ Len(log) \in Nat /\ UNCHANGED History
  BY DEF IInv, StoreIInv, StoreTypeOK, History, StateAt
<1>2. /\ History \in Seq(Table) /\ Len(History) = Len(log) + 1
      /\ \A i \in 1..(Len(log) + 1) : History[i] = Replay(log)[i - 1]
  BY <1>1, HistorySeq DEF History, StateAt
<1>3. n \in Nat /\ live.revision \in Nat /\ n <= Len(log) /\ live'.docs = Replay(log)[n]
  BY DEF IInv, LiveTypeOK, ShowsTable, revision, StateAt
<1> HIDE DEF n
<1>4. n \in live.revision..(Len(History) - 1) /\ n + 1 \in 1..(Len(log) + 1) /\ n + 1 - 1 = n
  BY <1>1, <1>2, <1>3 DEF n
<1>5. live'.docs = History[n + 1]
  BY <1>2, <1>3, <1>4
<1> QED  BY <1>1, <1>4, <1>5 DEF Promise!Show, n

(***************************************************************************)
(* The store and the terminal's live model implement Snapshots: whichever  *)
(* page, event, broken stream or failed listing comes between, the client  *)
(* shows versions of one linear history, whole and never going back.       *)
(***************************************************************************)
THEOREM SnapshotsImplemented == Spec => ImplementsSnapshots
<1>1. Init => Promise!Init
  <2> SUFFICES ASSUME Init
               PROVE  Promise!Init
    OBVIOUS
  <2>0. log \in Seq(Event)
    BY DEF Init, StoreInit
  <2>1. Len(log) = 0 /\ live.revision = 0 /\ live.docs = Empty
    BY DEF Init, StoreInit
  <2>2. History = << Empty >>
    <3>0. Replay(log)[0] = Empty
      BY <2>0, ReplayStart
    <3>1. Replay(log)[0] = Empty /\ Len(log) + 1 = 1
      BY <2>1, <3>0
    <3>2. History = [i \in 1..1 |-> Replay(log)[i - 1]]
      BY <3>1 DEF History, StateAt
    <3>3. \A i \in 1..1 : Replay(log)[i - 1] = Empty
      BY <3>1
    <3> QED  BY <3>2, <3>3
  <2> QED  BY <2>1, <2>2 DEF Promise!Init, Empty
<1>2. IInv /\ IInv' /\ [Next]_vars => [Promise!Next]_(Promise!vars)
  <2> SUFFICES ASSUME IInv, IInv', [Next]_vars
               PROVE  Promise!Next \/ UNCHANGED Promise!vars
    OBVIOUS
  <2>1. CASE UNCHANGED <<log, live>>
    BY <2>1 DEF Promise!vars, History, StateAt
  <2>2. CASE StoreNext /\ UNCHANGED liveVars
    <3>1. WriteStep \/ UNCHANGED <<resources, log>>
      BY <2>2, StoreStep DEF IInv
    <3>2. UNCHANGED live
      BY <2>2 DEF liveVars
    <3> QED  BY <2>1, <3>1, <3>2, WriteImplements DEF Promise!Next
  <2>3. CASE ClientNext /\ UNCHANGED storeVars
    <3>1. live'.revision >= live.revision /\ UNCHANGED log
      BY <2>3, ClientStep DEF storeVars
    <3> QED  BY <3>1, ClientImplements DEF Promise!Next
  <2> QED  BY <2>1, <2>2, <2>3 DEF Next, vars
<1> QED  BY <1>1, <1>2, Inductive, PTL DEF Spec, ImplementsSnapshots, Promise!Spec

-----------------------------------------------------------------------------
(***************************************************************************)
(* Runs.  The history of a Run has no gap because the wire continues it:   *)
(* the next event to come is the one after the last shown, except for a    *)
(* Run that was forgotten and whose history starts again with that event.  *)
(***************************************************************************)
Logged == EventTypes \cup {"runAccepted", Evidence}

RunsTypeOK ==
    /\ events \in [Runs -> Seq(Logged)]
    /\ shownEvents \in [Runs -> Seq(Nat)]
    /\ shownSequence \in [Runs -> Nat]
    /\ watch \in [Runs -> {"none", "opening", "open", "ended"}]
    /\ runWire \in [Runs -> [sent : Nat, wire : Seq(Nat)]]

\* The events shown of u, and the wire that continues them.
Consecutive(shown, sequence) ==
    /\ Len(shown) <= sequence
    /\ \A i \in 1..Len(shown) : shown[i] = sequence - Len(shown) + i

StartsOver(u) == u \in forgotten /\ shownEvents[u] = << >> /\ shownSequence[u] = 0

WireContinues(u) ==
    LET wire == runWire[u].wire
        start == runWire[u].sent - Len(wire)
    IN /\ Len(wire) <= runWire[u].sent
       /\ \A i \in 1..Len(wire) : wire[i] = start + i
       /\ start = shownSequence[u] \/ StartsOver(u)

RunInv(u) ==
    /\ Consecutive(shownEvents[u], shownSequence[u])
    /\ Len(shownEvents[u]) <= EventLimit
    /\ u \notin forgotten => Len(shownEvents[u]) \in {shownSequence[u], EventLimit}
    /\ watch[u] = "open" => WireContinues(u)

RunsIInv == RunsTypeOK /\ \A u \in Runs : RunInv(u)

\* A Run whose shown history and watch do not move keeps its invariant.
LEMMA RunUnmoved ==
    ASSUME NEW u \in Runs, RunInv(u), u \in forgotten' <=> u \in forgotten,
           shownEvents'[u] = shownEvents[u], shownSequence'[u] = shownSequence[u],
           watch'[u] = "open" => watch[u] = "open" /\ runWire'[u] = runWire[u]
    PROVE  RunInv(u)'
BY DEF RunInv, WireContinues, StartsOver

\* The store, the poll and the selection of a Run move no shown history.
LEMMA RunStoreKeeps ==
    ASSUME RunsIInv, RunStoreNext,
           UNCHANGED <<shownRuns, shownEvents, shownSequence, answer, watch, runWire, runBreaks, forgotten>>
    PROVE  RunsIInv'
<1>1. events' \in [Runs -> Seq(Logged)]
  <2>1. ASSUME NEW u \in Runs, NEW type \in Logged, events' = [events EXCEPT ![u] = Append(events[u], type)]
        PROVE  events' \in [Runs -> Seq(Logged)]
    <3>1. Append(events[u], type) \in Seq(Logged)
      BY <2>1, AppendProperties DEF RunsIInv, RunsTypeOK
    <3> QED  BY <2>1, <3>1 DEF RunsIInv, RunsTypeOK
  <2>2. ASSUME NEW u \in Runs, CreateRun(u)
        PROVE  events' \in [Runs -> Seq(Logged)]
    <3>1. "runAccepted" \in Logged
      BY DEF Logged
    <3>2. << "runAccepted" >> \in Seq(Logged)
      BY <3>1
    <3> QED  BY <2>2, <3>2 DEF CreateRun, RunsIInv, RunsTypeOK
  <2>3. ASSUME NEW u \in Runs, AppendRunEvent(u)
        PROVE  events' \in [Runs -> Seq(Logged)]
    <3>1. PICK type \in EventTypes : events' = [events EXCEPT ![u] = Append(events[u], type)]
      BY <2>3 DEF AppendRunEvent
    <3>2. type \in Logged
      BY <3>1 DEF Logged
    <3> QED  BY <2>1, <3>1, <3>2
  <2>4. ASSUME NEW u \in Runs, AppendEvidence(u)
        PROVE  events' \in [Runs -> Seq(Logged)]
    <3>1. Evidence \in Logged /\ events' = [events EXCEPT ![u] = Append(events[u], Evidence)]
      BY <2>4 DEF AppendEvidence, Logged
    <3> QED  BY <2>1, <3>1
  <2>5. ASSUME NEW u \in Runs, CollectRun(u)
        PROVE  events' \in [Runs -> Seq(Logged)]
    BY <2>5 DEF CollectRun, RunsIInv, RunsTypeOK
  <2> QED  BY <2>2, <2>3, <2>4, <2>5 DEF RunStoreNext
<1> QED  BY <1>1, RunUnmoved DEF RunsIInv, RunsTypeOK

\* Opening a watch puts nothing on the wire; a broken stream takes it away.
LEMMA RunOpenKeeps ==
    ASSUME RunsIInv, UNCHANGED events, NEW u \in Runs,
           SelectRun(u) \/ OpenRunWatch(u) \/ RunStreamFails(u)
    PROVE  RunsIInv'
<1> USE DEF RunsIInv
<1>1. UNCHANGED <<shownEvents, shownSequence, forgotten>>
  BY DEF SelectRun, OpenRunWatch, RunStreamFails
<1>3. CASE SelectRun(u)
  BY <1>1, <1>3, RunUnmoved DEF SelectRun, RunsTypeOK
<1>4. CASE RunStreamFails(u)
  <2>1. /\ watch' = [watch EXCEPT ![u] = "opening"]
        /\ runWire' = [runWire EXCEPT ![u] = ClosedWire]
    BY <1>4 DEF RunStreamFails
  <2>2. ClosedWire \in [sent : Nat, wire : Seq(Nat)]
    BY DEF ClosedWire
  <2>3. RunsTypeOK'
    BY <1>1, <2>1, <2>2 DEF RunsTypeOK
  <2> QED  BY <1>1, <2>1, <2>3, RunUnmoved DEF RunsTypeOK
<1>5. CASE OpenRunWatch(u)
  <2> DEFINE fresh == [sent |-> shownSequence[u], wire |-> << >>]
  <2>1. /\ watch' = [watch EXCEPT ![u] = "open"]
        /\ runWire' = [runWire EXCEPT ![u] = fresh]
    BY <1>5 DEF OpenRunWatch
  <2>2. /\ << >> \in Seq(Nat) /\ Len(<< >>) = 0 /\ shownSequence[u] \in Nat
        /\ fresh.sent = shownSequence[u] /\ fresh.wire = << >>
    BY DEF RunsTypeOK
  <2>3. \A n \in Nat, w \in Seq(Nat) : [sent |-> n, wire |-> w] \in [sent : Nat, wire : Seq(Nat)]
    OBVIOUS
  <2>4. fresh \in [sent : Nat, wire : Seq(Nat)]
    BY <2>2, <2>3
  <2> HIDE DEF fresh
  <2>5. RunsTypeOK'
    BY <1>1, <2>1, <2>4 DEF RunsTypeOK
  <2>6. RunInv(u)'
    <3>1. runWire'[u] = fresh /\ watch'[u] = "open"
      BY <2>1 DEF RunsTypeOK
    <3>2. WireContinues(u)'
      BY <1>1, <2>2, <3>1 DEF WireContinues
    <3> QED  BY <1>1, <3>2 DEF RunInv
  <2>7. ASSUME NEW v \in Runs, v # u
        PROVE  RunInv(v)'
    BY <1>1, <2>1, <2>7, RunUnmoved DEF RunsTypeOK
  <2> QED  BY <2>5, <2>6, <2>7
<1> QED  BY <1>3, <1>4, <1>5

\* A tick sends the events after the last one sent, in order.
LEMMA RunSendKeeps ==
    ASSUME RunsIInv, UNCHANGED events, NEW u \in Runs, SendRunEvents(u)
    PROVE  RunsIInv'
<1> DEFINE sent == runWire[u].sent
           count == Len(events[u]) - sent
           wire == [i \in 1..count |-> sent + i]
           next == [sent |-> Len(events[u]), wire |-> wire]
<1> USE DEF RunsIInv
<1>1. /\ runWire' = [runWire EXCEPT ![u] = next] /\ watch[u] = "open"
      /\ runWire[u].wire = << >> /\ sent < Len(events[u])
      /\ UNCHANGED <<shownEvents, shownSequence, watch, forgotten>>
  BY DEF SendRunEvents
<1>2. sent \in Nat /\ Len(events[u]) \in Nat /\ count \in Nat /\ count <= Len(events[u])
  BY <1>1 DEF RunsTypeOK
<1>3. wire \in Seq(Nat) /\ Len(wire) = count /\ \A i \in 1..count : wire[i] = sent + i
  <2>1. \A i \in 1..count : sent + i \in Nat
    BY <1>2
  <2> HIDE DEF count
  <2> QED  BY <1>2, <2>1
<1> HIDE DEF wire
<1>4. next \in [sent : Nat, wire : Seq(Nat)] /\ next.wire = wire /\ next.sent = Len(events[u])
  BY <1>2, <1>3
<1>5. sent = shownSequence[u] \/ StartsOver(u)
  <2>1. WireContinues(u) /\ Len(<< >>) = 0
    BY <1>1 DEF RunInv
  <2> QED  BY <1>1, <1>2, <2>1 DEF WireContinues
<1> HIDE DEF next
<1>6. RunsTypeOK'
  BY <1>1, <1>4 DEF RunsTypeOK
<1>7. RunInv(u)'
  <2>1. runWire'[u] = next /\ runWire'[u].wire = wire /\ runWire'[u].sent = Len(events[u])
    BY <1>1, <1>4 DEF RunsTypeOK
  <2>2. Len(events[u]) - Len(wire) = sent
    BY <1>2, <1>3
  <2>3. WireContinues(u)'
    BY <1>1, <1>2, <1>3, <1>5, <2>1, <2>2 DEF WireContinues, StartsOver
  <2> QED  BY <1>1, <2>3 DEF RunInv
<1>8. ASSUME NEW v \in Runs, v # u
      PROVE  RunInv(v)'
  BY <1>1, <1>8, RunUnmoved DEF RunsTypeOK
<1> QED  BY <1>6, <1>7, <1>8

\* One more event, and the oldest dropped when there are too many.
LEMMA NewestContinues ==
    ASSUME NEW shown \in Seq(Nat), NEW m \in Nat, NEW n \in Nat \ {0},
           Consecutive(shown, m), Len(shown) <= EventLimit, Len(shown) = 0 \/ n = m + 1
    PROVE  LET next == Newest(Append(shown, n)) IN
           /\ next \in Seq(Nat) /\ Len(next) <= EventLimit /\ Consecutive(next, n)
           /\ Len(next) \in {Len(shown) + 1, EventLimit}
<1> DEFINE a == Append(shown, n)
           l == Len(shown)
<1> USE EventLimitAssumption
<1>1. /\ l \in Nat /\ a \in Seq(Nat) /\ Len(a) = l + 1
      /\ \A i \in 1..l : a[i] = shown[i]
      /\ a[l + 1] = n
  BY AppendProperties
<1>2. l + 1 <= n /\ \A i \in 1..(l + 1) : a[i] = n - (l + 1) + i
  <2>1. CASE l = 0
    BY <1>1, <2>1
  <2>2. CASE n = m + 1
    <3>1. l <= m /\ \A i \in 1..l : shown[i] = m - l + i
      BY DEF Consecutive
    <3> HIDE DEF a, l
    <3>2. l + 1 <= n
      BY <1>1, <2>2, <3>1
    <3>3. ASSUME NEW i \in 1..(l + 1) PROVE a[i] = n - (l + 1) + i
      <4>1. CASE i = l + 1
        BY <1>1, <2>2, <3>1, <4>1
      <4>2. CASE i \in 1..l
        BY <1>1, <2>2, <3>1, <4>2
      <4> QED  BY <1>1, <4>1, <4>2
    <3> QED  BY <3>2, <3>3
  <2> QED  BY <2>1, <2>2
<1> HIDE DEF a
<1>3. CASE l + 1 <= EventLimit
  <2>1. Newest(a) = a
    BY <1>1, <1>3 DEF Newest
  <2> QED  BY <1>1, <1>2, <1>3, <2>1 DEF Consecutive, a
<1>4. CASE l = EventLimit
  <2>1. Newest(a) = SubSeq(a, 2, l + 1)
    BY <1>1, <1>4 DEF Newest
  <2>2. /\ SubSeq(a, 2, l + 1) \in Seq(Nat) /\ Len(SubSeq(a, 2, l + 1)) = l
        /\ \A i \in 1..l : SubSeq(a, 2, l + 1)[i] = a[i + 1]
    <3>1. 2 \in Int /\ l + 1 \in Int /\ 2 <= l + 1
      BY <1>1, <1>4
    <3>2. \A i \in 2..(l + 1) : a[i] \in Nat
      <4> TAKE i \in 2..(l + 1)
      <4>1. i \in 1..Len(a)
        BY <1>1
      <4> QED  BY <1>1, <4>1, ElementOfSeq
    <3>3. /\ SubSeq(a, 2, l + 1) \in Seq(Nat)
          /\ Len(SubSeq(a, 2, l + 1)) = IF 2 <= l + 1 THEN (l + 1) - 2 + 1 ELSE 0
          /\ \A i \in 1..((l + 1) - 2 + 1) : SubSeq(a, 2, l + 1)[i] = a[2 + i - 1]
      <4> HIDE DEF l
      <4> QED  BY <3>1, <3>2, SubSeqProperties
    <3> HIDE DEF l
    <3>4. (l + 1) - 2 + 1 = l /\ \A i \in 1..l : 2 + i - 1 = i + 1
      BY <1>1
    <3> QED  BY <3>1, <3>3, <3>4
  <2>3. \A i \in 1..l : SubSeq(a, 2, l + 1)[i] = n - l + i
    <3> HIDE DEF l
    <3> TAKE i \in 1..l
    <3>1. i + 1 \in 1..(l + 1) /\ n - (l + 1) + (i + 1) = n - l + i
      BY <1>1
    <3> QED  BY <1>2, <2>2, <3>1
  <2>4. Consecutive(Newest(a), n) /\ Newest(a) \in Seq(Nat) /\ Len(Newest(a)) = l
    <3> HIDE DEF l
    <3>1. l <= n
      BY <1>1, <1>2
    <3> QED  BY <2>1, <2>2, <2>3, <3>1 DEF Consecutive
  <2> QED  BY <1>1, <1>4, <2>4 DEF a
<1> QED  BY <1>1, <1>3, <1>4

\* A received event is the one after the last shown, or starts the history
\* of a forgotten Run over; the terminal event ends the watch.
LEMMA RunReceiveKeeps ==
    ASSUME RunsIInv, UNCHANGED events, NEW u \in Runs, ReceiveRunEvent(u)
    PROVE  RunsIInv'
<1> DEFINE wire == runWire[u].wire
           sent == runWire[u].sent
           n == Head(wire)
           shown == shownEvents[u]
<1> USE DEF RunsIInv
<1>1. /\ watch[u] = "open" /\ wire # << >> /\ ApplyRunEvent(u, n)
      /\ UNCHANGED forgotten
      /\ \/ /\ watch' = [watch EXCEPT ![u] = "ended"]
            /\ runWire' = [runWire EXCEPT ![u] = ClosedWire]
         \/ /\ runWire' = [runWire EXCEPT ![u].wire = Tail(wire)]
            /\ UNCHANGED watch
  BY DEF ReceiveRunEvent
<1>2. /\ sent \in Nat /\ wire \in Seq(Nat) /\ shown \in Seq(Nat) /\ Len(shown) \in Nat
      /\ shownSequence[u] \in Nat
  BY DEF RunsTypeOK
<1>3. /\ Len(wire) \in Nat \ {0} /\ n = wire[1]
      /\ Tail(wire) \in Seq(Nat) /\ Len(Tail(wire)) = Len(wire) - 1
      /\ \A i \in 1..Len(Tail(wire)) : Tail(wire)[i] = wire[i + 1]
  BY <1>1, <1>2, HeadAndTail
<1>4. /\ Len(wire) <= sent /\ n = sent - Len(wire) + 1
      /\ \A i \in 1..Len(wire) : wire[i] = sent - Len(wire) + i
      /\ \/ n = shownSequence[u] + 1
         \/ StartsOver(u)
  <2>1. WireContinues(u)
    BY <1>1 DEF RunInv
  <2>2. 1 \in 1..Len(wire)
    BY <1>3
  <2>3. /\ Len(wire) <= sent
        /\ \A i \in 1..Len(wire) : wire[i] = sent - Len(wire) + i
        /\ sent - Len(wire) = shownSequence[u] \/ StartsOver(u)
    BY <2>1 DEF WireContinues
  <2> QED  BY <1>2, <1>3, <2>2, <2>3
<1>5. n \in Nat /\ n > shownSequence[u]
  BY <1>2, <1>3, <1>4, SMTT(30) DEF StartsOver
<1> HIDE DEF n
<1> DEFINE next == Newest(Append(shown, n))
<1>6. /\ shownSequence' = [shownSequence EXCEPT ![u] = n]
      /\ shownEvents' = [shownEvents EXCEPT ![u] = next]
  BY <1>1, <1>2, <1>5 DEF ApplyRunEvent
<1>11. Consecutive(shown, shownSequence[u]) /\ Len(shown) <= EventLimit
       /\ (u \notin forgotten => Len(shown) \in {shownSequence[u], EventLimit})
  BY DEF RunInv
<1>7. /\ next \in Seq(Nat) /\ Len(next) <= EventLimit /\ Consecutive(next, n)
      /\ u \notin forgotten => Len(next) \in {n, EventLimit}
  <2>1. Len(shown) = 0 \/ n = shownSequence[u] + 1
    BY <1>4 DEF StartsOver
  <2>2. u \notin forgotten => n = shownSequence[u] + 1
    BY <1>4 DEF StartsOver
  <2> HIDE DEF next, shown
  <2>3. /\ next \in Seq(Nat) /\ Len(next) <= EventLimit /\ Consecutive(next, n)
        /\ Len(next) \in {Len(shown) + 1, EventLimit}
    BY <1>2, <1>5, <1>11, <2>1, NewestContinues DEF next
  <2> QED  BY <1>2, <1>5, <1>11, <2>2, <2>3, EventLimitAssumption DEF Consecutive
<1> HIDE DEF next
<1>8. RunsTypeOK'
  <2>1. ClosedWire \in [sent : Nat, wire : Seq(Nat)]
    BY DEF ClosedWire
  <2> DEFINE rest == [runWire[u] EXCEPT !.wire = Tail(wire)]
  <2>2. rest \in [sent : Nat, wire : Seq(Nat)]
    <3>1. runWire[u] \in [sent : Nat, wire : Seq(Nat)]
      BY DEF RunsTypeOK
    <3> HIDE DEF wire
    <3> QED  BY <1>3, <3>1
  <2>3. runWire' \in [Runs -> [sent : Nat, wire : Seq(Nat)]]
    <3>1. \/ runWire' = [runWire EXCEPT ![u] = ClosedWire]
          \/ runWire' = [runWire EXCEPT ![u] = rest]
      BY <1>1
    <3> HIDE DEF rest
    <3> QED  BY <2>1, <2>2, <3>1 DEF RunsTypeOK
  <2> HIDE DEF wire
  <2>4. watch' \in [Runs -> {"none", "opening", "open", "ended"}]
    BY <1>1 DEF RunsTypeOK
  <2> HIDE DEF shown
  <2> QED  BY <1>5, <1>6, <1>7, <2>3, <2>4 DEF RunsTypeOK
<1>9. RunInv(u)'
  <2>1. shownSequence'[u] = n /\ shownEvents'[u] = next
    BY <1>6 DEF RunsTypeOK
  <2>5. watch'[u] = "open" => WireContinues(u)'
    <3> SUFFICES ASSUME watch'[u] = "open"
                 PROVE  WireContinues(u)'
      OBVIOUS
    <3>1. runWire'[u].wire = Tail(wire) /\ runWire'[u].sent = sent
      <4>1. runWire' = [runWire EXCEPT ![u].wire = Tail(wire)]
        BY <1>1 DEF RunsTypeOK
      <4>2. runWire[u] \in [sent : Nat, wire : Seq(Nat)] /\ runWire \in [Runs -> [sent : Nat, wire : Seq(Nat)]]
        BY DEF RunsTypeOK
      <4> QED  BY <4>1, <4>2
    <3>2. Len(Tail(wire)) <= sent /\ sent - Len(Tail(wire)) = n
      BY <1>2, <1>3, <1>4
    <3>3. \A i \in 1..Len(Tail(wire)) : Tail(wire)[i] = n + i
      <4> TAKE i \in 1..Len(Tail(wire))
      <4>1. i + 1 \in 1..Len(wire) /\ i \in Nat
        BY <1>3
      <4>2. wire[i + 1] = sent - Len(wire) + (i + 1)
        BY <1>4, <4>1
      <4> QED  BY <1>2, <1>3, <1>4, <4>1, <4>2, SMTT(30)
    <3> HIDE DEF wire, sent
    <3> QED  BY <2>1, <3>1, <3>2, <3>3 DEF WireContinues
  <2> QED  BY <1>1, <1>7, <2>1, <2>5 DEF RunInv, Consecutive
<1>10. ASSUME NEW v \in Runs, v # u
       PROVE  RunInv(v)'
  <2>1. /\ shownEvents'[v] = shownEvents[v] /\ shownSequence'[v] = shownSequence[v]
        /\ watch'[v] = watch[v] /\ runWire'[v] = runWire[v]
    BY <1>1, <1>6, <1>10 DEF RunsTypeOK
  <2> QED  BY <1>1, <2>1, RunUnmoved
<1> QED  BY <1>8, <1>9, <1>10

\* A poll that forgets a Run empties its history, and its watch, which goes
\* on, starts it over; every other history stays as it is.
LEMMA ReplaceRunsKeeps ==
    ASSUME RunsIInv, UNCHANGED events, ReplaceRuns
    PROVE  RunsIInv'
<1> USE DEF RunsIInv
<1>1. /\ shownEvents' = [u \in Runs |-> IF Forgotten(u) THEN << >> ELSE shownEvents[u]]
      /\ shownSequence' = [u \in Runs |-> IF Forgotten(u) THEN 0 ELSE shownSequence[u]]
      /\ forgotten' = forgotten \cup {u \in Runs : Forgotten(u)}
      /\ UNCHANGED runWire
  BY DEF ReplaceRuns
<1>2. /\ watch' \in [Runs -> {"none", "opening", "open", "ended"}]
      /\ \A u \in Runs : watch'[u] = "open" => watch[u] = "open"
  BY DEF ReplaceRuns, RunsTypeOK
<1>3. << >> \in Seq(Nat) /\ Len(<< >>) = 0
  OBVIOUS
<1>4. shownEvents' \in [Runs -> Seq(Nat)] /\ shownSequence' \in [Runs -> Nat]
  BY <1>1, <1>3 DEF RunsTypeOK
<1>5. RunsTypeOK'
  BY <1>1, <1>2, <1>4 DEF RunsTypeOK
<1>6. ASSUME NEW u \in Runs
      PROVE  RunInv(u)'
  <2>1. CASE ~ Forgotten(u)
    BY <1>1, <1>2, <2>1, RunUnmoved
  <2>2. CASE Forgotten(u)
    <3>1. shownEvents'[u] = << >> /\ shownSequence'[u] = 0 /\ u \in forgotten'
      BY <1>1, <2>2
    <3>2. watch'[u] = "open" => WireContinues(u)'
      BY <1>1, <1>2, <3>1 DEF RunInv, WireContinues, StartsOver
    <3> QED  BY <1>3, <3>1, <3>2, EventLimitAssumption DEF RunInv, Consecutive
  <2> QED  BY <2>1, <2>2
<1> QED  BY <1>5, <1>6

(***************************************************************************)
(* The events the terminal shows of a Run are consecutive, end where its   *)
(* next watch resumes, and are the newest liveEventLimit ones or all from  *)
(* the first, unless a poll dropped the Run: poll, resume and break never  *)
(* lose or repeat one.                                                     *)
(***************************************************************************)
THEOREM ShownHistoryInvariant == RunsSpec => []ShownHistoryIsGapless
<1>1. RunsInit => RunsIInv
  <2> SUFFICES ASSUME RunsInit
               PROVE  RunsIInv
    OBVIOUS
  <2>1. << >> \in Seq(Nat) /\ << >> \in Seq(Logged) /\ Len(<< >>) = 0
    OBVIOUS
  <2>2. ClosedWire \in [sent : Nat, wire : Seq(Nat)]
    BY DEF ClosedWire
  <2> HIDE DEF Logged
  <2>3. RunsTypeOK
    BY <2>1, <2>2 DEF RunsInit, RunsTypeOK
  <2>4. \A u \in Runs : shownEvents[u] = << >> /\ shownSequence[u] = 0 /\ watch[u] = "none"
    BY DEF RunsInit
  <2>5. \A u \in Runs : RunInv(u)
    BY <2>1, <2>4, EventLimitAssumption DEF RunInv, Consecutive
  <2> QED  BY <2>3, <2>5 DEF RunsIInv
<1>2. RunsIInv /\ [RunsNext]_runsVars => RunsIInv'
  <2> SUFFICES ASSUME RunsIInv, [RunsNext]_runsVars
               PROVE  RunsIInv'
    OBVIOUS
  <2>1. CASE UNCHANGED runsVars
    BY <2>1, RunUnmoved DEF runsVars, RunsIInv, RunsTypeOK
  <2>2. CASE /\ RunStoreNext
             /\ UNCHANGED <<shownRuns, shownEvents, shownSequence, answer,
                            watch, runWire, runBreaks, forgotten>>
    BY <2>2, RunStoreKeeps
  <2>3. CASE RunClientNext /\ UNCHANGED <<rows, events>>
    <3>1. CASE PollRuns
      BY <2>3, <3>1, RunUnmoved DEF PollRuns, RunsIInv, RunsTypeOK
    <3>2. CASE ReplaceRuns
      BY <2>3, <3>2, ReplaceRunsKeeps
    <3>3. ASSUME NEW u \in Runs, SelectRun(u) \/ OpenRunWatch(u) \/ RunStreamFails(u)
          PROVE  RunsIInv'
      BY <2>3, <3>3, RunOpenKeeps
    <3>4. ASSUME NEW u \in Runs, SendRunEvents(u)
          PROVE  RunsIInv'
      BY <2>3, <3>4, RunSendKeeps
    <3>5. ASSUME NEW u \in Runs, ReceiveRunEvent(u)
          PROVE  RunsIInv'
      BY <2>3, <3>5, RunReceiveKeeps
    <3> QED  BY <2>3, <3>1, <3>2, <3>3, <3>4, <3>5 DEF RunClientNext
  <2> QED  BY <2>1, <2>2, <2>3 DEF RunsNext
<1>3. RunsIInv => ShownHistoryIsGapless
  BY DEF RunsIInv, RunInv, Consecutive, ShownHistoryIsGapless
<1> QED  BY <1>1, <1>2, <1>3, PTL DEF RunsSpec

=============================================================================
