--------------------------- MODULE ResourceStore ---------------------------
(***************************************************************************)
(* Desired state: the resources table, the global revision, the watch log  *)
(* and the compare-and-swap writes of the Store, reached through the       *)
(* control API by editors (a terminal form, the command line) and by the   *)
(* controller that owns status.  A document is its identity, version,      *)
(* generation, desired spec and status; labels, hashes and audit rows are  *)
(* left out.  All four writes are single transactions.                     *)
(***************************************************************************)
EXTENDS Naturals, Sequences, FiniteSets

CONSTANTS Keys,          \* (kind, namespace, name), numbered in key order
          Specs,         \* desired specs
          Results,       \* what a reconciliation may conclude about a spec
          Editors,
          MaxRevision    \* bound: writes of one behaviour

ASSUME KeysAssumption == Keys \subseteq Nat \ {0} /\ IsFiniteSet(Keys)
ASSUME MaxRevisionAssumption == MaxRevision \in Nat

VARIABLES resources,   \* the table: key -> document, or NoDoc
          log,         \* resource_events; the revision is its length
          editors,     \* what each editor last read and has not yet submitted
          observation  \* what the status controller last read

storeVars == <<resources, log, editors, observation>>

NoDoc == [uid |-> 0]
NoCopy == [key |-> 0]
NoStatus == [generation |-> 0]
Empty == [k \in Keys |-> NoDoc]

revision == Len(log)

\* A status names the generation it was computed for; of and uid record, for
\* the properties, the spec and the object the controller had read.
Status == {NoStatus} \cup
    [generation : 1..MaxRevision, result : Results, of : Specs, uid : 1..MaxRevision]
Doc == {NoDoc} \cup
    [uid : 1..MaxRevision, version : 1..MaxRevision,
     generation : 1..MaxRevision, spec : Specs, status : Status]
Event == [type : {"ADDED", "MODIFIED", "DELETED"}, key : Keys, doc : Doc]
Copy == {NoCopy} \cup [key : Keys, doc : Doc]

StoreTypeOK ==
    /\ resources \in [Keys -> Doc]
    /\ log \in Seq(Event) /\ Len(log) <= MaxRevision
    /\ editors \in [Editors -> Copy]
    /\ observation \in Copy

StoreInit ==
    /\ resources = Empty
    /\ log = << >>
    /\ editors = [e \in Editors |-> NoCopy]
    /\ observation = NoCopy

-----------------------------------------------------------------------------
(* The transactions.                                                       *)

Commit(k, type, doc) ==
    /\ revision < MaxRevision
    /\ resources' = [resources EXCEPT ![k] = doc]
    /\ log' = Append(log, [type |-> type, key |-> k, doc |-> doc])

\* Apply's outcome for the key: the caller's status is discarded, identity
\* and status survive a modification, the generation counts spec changes.
Applied(k, spec) ==
    LET current == resources[k] IN
    IF current = NoDoc
    THEN [uid |-> revision + 1, version |-> revision + 1, generation |-> 1,
          spec |-> spec, status |-> NoStatus]
    ELSE [current EXCEPT !.version = revision + 1,
                         !.generation = IF current.spec = spec THEN @ ELSE @ + 1,
                         !.spec = spec]

VersionOf(doc) == IF doc = NoDoc THEN 0 ELSE doc.version

Conflict(k, expected) == VersionOf(resources[k]) # expected

Apply(k, spec, expected) ==
    IF Conflict(k, expected)
    THEN UNCHANGED <<resources, log>>
    ELSE Commit(k, IF resources[k] = NoDoc THEN "ADDED" ELSE "MODIFIED",
                Applied(k, spec))

\* delete refuses a missing key before it compares the version.
Delete(k, expected) ==
    IF resources[k] = NoDoc \/ Conflict(k, expected)
    THEN UNCHANGED <<resources, log>>
    ELSE Commit(k, "DELETED", NoDoc)

\* Mutant: a status is taken for whatever generation is current.
UpdateResourceStatus_AnyGeneration(k, expectedGeneration, status) ==
    IF resources[k] = NoDoc
    THEN UNCHANGED <<resources, log>>
    ELSE Commit(k, "MODIFIED", [resources[k] EXCEPT !.version = revision + 1,
                     !.status = [status EXCEPT !.generation = resources[k].generation]])

\* A missing key and a moved generation are refused, an equal status is not
\* written, and a written one leaves the generation alone.
UpdateResourceStatus(k, expectedGeneration, status) ==
    LET current == resources[k] IN
    IF \/ current = NoDoc
       \/ current.generation # expectedGeneration
       \/ current.status # NoStatus
          /\ current.status.generation = status.generation
          /\ current.status.result = status.result
    THEN UNCHANGED <<resources, log>>
    ELSE Commit(k, "MODIFIED",
                [current EXCEPT !.version = revision + 1, !.status = status])

-----------------------------------------------------------------------------
(* The callers.                                                            *)

\* An editor opens a document to change or delete it.
Get(e, k) ==
    /\ editors[e] = NoCopy /\ resources[k] # NoDoc
    /\ editors' = [editors EXCEPT ![e] = [key |-> k, doc |-> resources[k]]]
    /\ UNCHANGED <<resources, log, observation>>

\* A form for a new document names a key without looking whether it exists.
OpenCreate(e, k) ==
    /\ editors[e] = NoCopy
    /\ editors' = [editors EXCEPT ![e] = [key |-> k, doc |-> NoDoc]]
    /\ UNCHANGED <<resources, log, observation>>

\* It submits, with the version it read (0 for a new document), or gives up;
\* a form whose validation reports errors is not written and stays open.
SubmitApply(e) ==
    /\ editors[e] # NoCopy
    /\ \E spec \in Specs :
          Apply(editors[e].key, spec, VersionOf(editors[e].doc))
    /\ editors' = [editors EXCEPT ![e] = NoCopy]
    /\ UNCHANGED observation

SubmitDelete(e) ==
    /\ editors[e] # NoCopy /\ editors[e].doc # NoDoc
    /\ Delete(editors[e].key, VersionOf(editors[e].doc))
    /\ editors' = [editors EXCEPT ![e] = NoCopy]
    /\ UNCHANGED observation

GiveUp(e) ==
    /\ editors[e] # NoCopy
    /\ editors' = [editors EXCEPT ![e] = NoCopy]
    /\ UNCHANGED <<resources, log, observation>>

\* The controller reads a document, works, and records what it concluded.
Observe(k) ==
    /\ observation = NoCopy /\ resources[k] # NoDoc
    /\ observation' = [key |-> k, doc |-> resources[k]]
    /\ UNCHANGED <<resources, log, editors>>

RecordStatus ==
    /\ observation # NoCopy
    /\ \E r \in Results :
          UpdateResourceStatus(observation.key, observation.doc.generation,
              [generation |-> observation.doc.generation, result |-> r,
               of |-> observation.doc.spec, uid |-> observation.doc.uid])
    /\ observation' = NoCopy
    /\ UNCHANGED editors

StoreNext ==
    \/ \E e \in Editors :
          \/ \E k \in Keys : Get(e, k) \/ OpenCreate(e, k)
          \/ SubmitApply(e)
          \/ SubmitDelete(e)
          \/ GiveUp(e)
    \/ \E k \in Keys : Observe(k)
    \/ RecordStatus

-----------------------------------------------------------------------------
(* Properties of the store.                                                *)

\* The table a client reconstructs from a watch log up to a revision: of
\* every key, the document of its latest event.
EventsOf(l, k, r) == {i \in 1..r : l[i].key = k}
Latest(S) == CHOOSE i \in S : \A j \in S : j <= i
Replay(l) == [r \in 0..Len(l) |-> [k \in Keys |->
    LET S == EventsOf(l, k, r) IN IF S = {} THEN NoDoc ELSE l[Latest(S)].doc]]
StateAt == Replay(log)

\* The watch log replays to the table, which Commit alone writes.
LogReplaysToTable == StateAt[revision] = resources

\* A version names one document for ever, across status writes, deletion and
\* re-creation: what an editor read is what its compare-and-swap replaces.
VersionNamesDocument ==
    \A e \in Editors : LET copy == editors[e] IN
        (copy # NoCopy /\ copy.doc # NoDoc /\ resources[copy.key] # NoDoc
         /\ resources[copy.key].version = copy.doc.version)
        => resources[copy.key] = copy.doc

\* A status that claims the current generation was computed from the current
\* spec: an Apply between the controller's read and its write makes the write
\* be refused.  The one exception is a status of an earlier object of the same
\* name: UpdateResourceStatus compares generations and not identities, and the
\* object that replaced a deleted one counts its generations from 1 again.
StatusDescribesSpec ==
    \A k \in Keys : LET doc == resources[k] IN
        (doc # NoDoc /\ doc.status # NoStatus
         /\ doc.status.generation = doc.generation)
        => doc.status.of = doc.spec \/ doc.status.uid < doc.uid
=============================================================================
