------------------------------ MODULE LiveView ------------------------------
(***************************************************************************)
(* The resource half of the terminal's live model, over ResourceStore: a   *)
(* paged listing that must see one revision, then a watch that resumes     *)
(* from the revision the client has applied.  The stream may break at any  *)
(* point and loses what is on the wire; a failure that means the revision  *)
(* cannot be resumed makes the client list again.  A document is shown as  *)
(* it is stored: the status that projectResource computes on every read of *)
(* a Flow, a SecretRef or a document with references, from what they refer *)
(* to at that moment, is left out.                                         *)
(***************************************************************************)
EXTENDS ResourceStore

CONSTANTS PageSize,    \* liveResourcePageSize and Watch's page of events
          MaxBreaks    \* bound: broken streams and failed listings

ASSUME PageSizeAssumption == PageSize \in Nat \ {0}
ASSUME MaxBreaksAssumption == MaxBreaks \in Nat

VARIABLES live,     \* what the client shows: documents and their revision
          listing,  \* the pages of a listing under way, or NotListing
          stream,   \* the watch: where the server is, and the wire
          mode,     \* the client goroutine: "listing", "opening", "watching"
          breaks

liveVars == <<live, listing, stream, mode, breaks>>
vars == <<resources, log, editors, observation, live, listing, stream, mode, breaks>>

NotListing == [started |-> FALSE, revision |-> 0, after |-> 0, docs |-> Empty]
NoStream == [sent |-> 0, wire |-> << >>]

TypeOK ==
    /\ StoreTypeOK
    /\ live \in [docs : [Keys -> Doc], revision : 0..MaxRevision]
    /\ listing \in [started : BOOLEAN, revision : 0..MaxRevision,
                    after : Nat, docs : [Keys -> Doc]]
    /\ stream \in [sent : 0..MaxRevision, wire : Seq(1..MaxRevision)]
    /\ mode \in {"listing", "opening", "watching"}
    /\ breaks \in 0..MaxBreaks

Init ==
    /\ StoreInit
    /\ live = [docs |-> Empty, revision |-> 0]
    /\ listing = NotListing
    /\ stream = NoStream
    /\ mode = "listing"
    /\ breaks = 0

-----------------------------------------------------------------------------
(* Listing.                                                                *)

Present(S) == {k \in S : resources[k] # NoDoc}

\* One page: the first PageSize present keys after the token's key.
PageKeys(after) ==
    LET rest == Present({k \in Keys : k > after})
    IN  {k \in rest : Cardinality({j \in rest : j <= k}) <= PageSize}

More(after) == PageKeys(after) # Present({k \in Keys : k > after})

LastKey(S) == CHOOSE k \in S : \A j \in S : j <= k

\* A continuation names the revision of the first page and is refused with
\* Aborted when the table has moved; revision 0 never needs a second page.
PageRefused == listing.revision # 0 /\ listing.revision # revision

\* replaceResources takes the pages and the revision of the first one.
ListPage ==
    /\ mode = "listing" /\ ~PageRefused
    /\ LET page == PageKeys(listing.after)
           docs == [k \in Keys |-> IF k \in page THEN resources[k] ELSE listing.docs[k]]
           first == IF listing.revision = 0 THEN revision ELSE listing.revision
       IN  IF More(listing.after)
           THEN /\ listing' = [started |-> TRUE, revision |-> first,
                               after |-> LastKey(page), docs |-> docs]
                /\ UNCHANGED <<live, mode>>
           ELSE /\ live' = [docs |-> docs, revision |-> first]
                /\ listing' = NotListing
                /\ mode' = "opening"
    /\ UNCHANGED <<stream, breaks>>

\* retryResourceSnapshot starts over after Aborted and a pause.
RestartListing ==
    /\ mode = "listing" /\ PageRefused
    /\ listing' = NotListing
    /\ UNCHANGED <<live, stream, mode, breaks>>

\* Any other failure of a listing sends the client back to the watch, with
\* the revision it already has.
ListingFails ==
    /\ mode = "listing" /\ live.revision # 0 /\ breaks < MaxBreaks
    /\ listing' = NotListing
    /\ mode' = "opening"
    /\ breaks' = breaks + 1
    /\ UNCHANGED <<live, stream>>

-----------------------------------------------------------------------------
(* Watching.                                                               *)

OpenWatch ==
    /\ mode = "opening"
    /\ stream' = [sent |-> live.revision, wire |-> << >>]
    /\ mode' = "watching"
    /\ UNCHANGED <<live, listing, breaks>>

\* One tick of the server: up to a page of events after the last one sent.
\* The next page is read only when the previous one has been sent.
SendEvents ==
    /\ mode = "watching" /\ stream.wire = << >> /\ stream.sent < revision
    /\ LET last == IF stream.sent + PageSize < revision
                   THEN stream.sent + PageSize ELSE revision
       IN  stream' = [sent |-> last,
                      wire |-> [i \in 1..(last - stream.sent) |-> stream.sent + i]]
    /\ UNCHANGED <<live, listing, mode, breaks>>

\* Mutant: a deletion is not applied.
ApplyResourceEvent_KeepsDeleted(r) ==
    live' = IF r <= live.revision \/ log[r].doc = NoDoc THEN live
            ELSE [docs |-> [live.docs EXCEPT ![log[r].key] = log[r].doc],
                  revision |-> r]

\* applyResourceEvent ignores a revision it has; a deletion has no document.
ApplyResourceEvent(r) ==
    live' = IF r <= live.revision THEN live
            ELSE [docs |-> [live.docs EXCEPT ![log[r].key] = log[r].doc],
                  revision |-> r]

Receive ==
    /\ mode = "watching" /\ stream.wire # << >>
    /\ ApplyResourceEvent(Head(stream.wire))
    /\ stream' = [stream EXCEPT !.wire = Tail(@)]
    /\ UNCHANGED <<listing, mode, breaks>>

\* The stream ends: an answer that the revision cannot be resumed makes the
\* client list, any other failure reopen the watch where it stands.
StreamFails ==
    /\ mode = "watching" /\ breaks < MaxBreaks
    /\ mode' \in {"opening", "listing"}
    /\ stream' = NoStream
    /\ breaks' = breaks + 1
    /\ UNCHANGED <<live, listing>>

ClientNext ==
    \/ ListPage \/ RestartListing \/ ListingFails
    \/ OpenWatch \/ SendEvents \/ Receive \/ StreamFails

Next ==
    \/ StoreNext /\ UNCHANGED liveVars
    \/ ClientNext /\ UNCHANGED storeVars

\* The client goroutine and the server's ticker keep running; nobody has to
\* edit anything, and nothing has to break.
ListStep == (ListPage \/ RestartListing) /\ UNCHANGED storeVars
StreamStep == (OpenWatch \/ SendEvents \/ Receive) /\ UNCHANGED storeVars
Fairness == WF_vars(ListStep) /\ WF_vars(StreamStep)

Spec == Init /\ [][Next]_vars /\ Fairness

-----------------------------------------------------------------------------
(* Properties.                                                             *)

\* What an editor replaces is what it read, and a status that claims the
\* current generation was computed from the current spec, or for an object of
\* the same name that was deleted since.
StoreInv ==
    /\ TypeOK
    /\ VersionNamesDocument
    /\ StatusDescribesSpec

\* LiveView implements Snapshots: the store has one linear history, and what
\* the client shows is exactly the table as of the revision it claims, whether
\* it came from pages, from events or from both, with breaks between.
History == [i \in 1..(Len(log) + 1) |-> StateAt[i - 1]]

Promise == INSTANCE Snapshots
    WITH history <- History, shown <- live.revision, view <- live.docs

ImplementsSnapshots == Promise!Spec

\* When the writes end, the client comes to show the table: a broken stream,
\* a moved revision and a failed listing are all repaired.
ViewCatchesUp == <>[](live.docs = resources)

=============================================================================
