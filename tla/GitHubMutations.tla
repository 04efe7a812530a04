--------------------------- MODULE GitHubMutations ---------------------------
(***************************************************************************)
(* The GitHub plugin's two mutations, issueComment and ensurePullRequest.  *)
(* A call lists what exists, page after page up to a limit, and creates    *)
(* what it did not find.  Retries of a node carry the marker of its        *)
(* idempotency key; the nodes of one Run share its branch.  A request      *)
(* whose client gave up may still be applied; GitHub keeps one open pull   *)
(* request per branch.                                                     *)
(***************************************************************************)
EXTENDS Naturals, FiniteSets, Sequences

CONSTANTS Askers,       \* calls under way at one time
          Markers,      \* idempotency keys of the nodes that mutate
          MaxListed,    \* comments or pull requests a listing reads: 100 pages of 100
          MaxObjects,   \* bound: comments and pull requests on GitHub
          MaxLost       \* bound: requests that fail or whose answer is lost

ASSUME MaxListedAssumption == MaxListed \in Nat \ {0}

VARIABLES kind,     \* the mutation of this behaviour: "comment" or "pull"
          objects,  \* what GitHub has: number -> marker and state
          asks,     \* the calls: step, marker, page, what they know
          flying,   \* abandoned POSTs that may still be applied
          lost,
          loose     \* history: whether calls overlapped, a request was abandoned

mutationVars == <<kind, objects, asks, flying, lost, loose>>

NoAsk == [pc |-> "idle", marker |-> "none", page |-> 0, known |-> {}, made |-> FALSE]

MutationsInit ==
    /\ kind \in {"comment", "pull"}
    /\ objects = <<>> /\ flying = {} /\ lost = 0 /\ loose = FALSE
    /\ asks = [a \in Askers |-> NoAsk]

\* What a call takes for its own: the marker, or for a pull request any of the
\* branch, whatever its state.
Matches(o, marker) == kind = "pull" \/ o.marker = marker
Existing(marker) == {n \in DOMAIN objects : Matches(objects[n], marker)}

Ask(a, s) == asks' = [asks EXCEPT ![a] = s]

\* Execute; known records what existed by then, for the properties.
BeginAsk(a, m) ==
    /\ asks[a].pc = "idle"
    /\ Ask(a, [pc |-> "list", marker |-> m, page |-> 1, known |-> Existing(m), made |-> FALSE])
    /\ loose' = (loose \/ \E b \in Askers : asks[b].pc \in {"list", "post"})
    /\ UNCHANGED <<kind, objects, flying, lost>>

\* One page, here of one object, oldest first; the list may grow meanwhile.
\* At the limit the rest is taken for absent.
ListNext(a) ==
    LET s == asks[a] IN
    /\ s.pc = "list"
    /\ Ask(a, IF s.page \in Existing(s.marker) THEN [s EXCEPT !.pc = "done"]
              ELSE IF s.page < Len(objects) /\ s.page < MaxListed THEN [s EXCEPT !.page = @ + 1]
              ELSE [s EXCEPT !.pc = "post"])
    /\ UNCHANGED <<kind, objects, flying, lost, loose>>

\* GitHub's side of a POST.
Refuses == kind = "pull" /\ \E n \in DOMAIN objects : objects[n].open
Made(m) == objects' = Append(objects, [marker |-> m, open |-> TRUE])

PostObject(a) ==
    LET s == asks[a] IN
    /\ s.pc = "post" /\ Len(objects) < MaxObjects
    /\ IF Refuses
       THEN Ask(a, [s EXCEPT !.pc = "failed"]) /\ UNCHANGED objects
       ELSE Made(s.marker) /\ Ask(a, [s EXCEPT !.pc = "done", !.made = TRUE])
    /\ UNCHANGED <<kind, flying, lost, loose>>

Lose == lost < MaxLost /\ lost' = lost + 1

\* A request fails, or the plugin dies: a POST may have been applied, may still
\* be under way, or is gone.
RequestLost(a) ==
    LET s == asks[a] IN
    /\ s.pc \in {"list", "post"} /\ Lose
    /\ Ask(a, [s EXCEPT !.pc = "failed"])
    /\ \/ UNCHANGED <<objects, flying, loose>>
       \/ /\ s.pc = "post" /\ ~Refuses /\ Len(objects) < MaxObjects
          /\ Made(s.marker) /\ UNCHANGED <<flying, loose>>
       \/ /\ s.pc = "post"
          /\ flying' = flying \cup {s.marker} /\ loose' = TRUE /\ UNCHANGED objects
    /\ UNCHANGED kind

LateApply(m) ==
    /\ m \in flying /\ Len(objects) < MaxObjects
    /\ flying' = flying \ {m}
    /\ IF Refuses THEN UNCHANGED objects ELSE Made(m)
    /\ UNCHANGED <<kind, asks, lost, loose>>

\* The engine retries a failed call; another node of the Run follows one that
\* is done.
NextAsk(a) ==
    /\ asks[a].pc \in {"done", "failed"}
    /\ Ask(a, NoAsk)
    /\ UNCHANGED <<kind, objects, flying, lost, loose>>

\* An operator closes or merges.
ClosePull(n) ==
    /\ kind = "pull" /\ n \in DOMAIN objects /\ objects[n].open
    /\ objects' = [objects EXCEPT ![n].open = FALSE]
    /\ UNCHANGED <<kind, asks, flying, lost, loose>>

MutationsNext ==
    \/ \E a \in Askers : \/ ListNext(a) \/ PostObject(a) \/ RequestLost(a) \/ NextAsk(a)
                         \/ \E m \in Markers : BeginAsk(a, m)
    \/ \E m \in Markers : LateApply(m)
    \/ \E n \in 1..MaxObjects : ClosePull(n)

MutationsSpec == MutationsInit /\ [][MutationsNext]_mutationVars

-----------------------------------------------------------------------------
(* Properties.                                                             *)

\* A call creates nothing when what it is to ensure existed before it began
\* within the limit of the listing, closed or merged meanwhile, made by another
\* node or by an attempt whose answer was lost.
ExistingIsReused ==
    \A a \in Askers : asks[a].pc = "done" /\ asks[a].made => asks[a].known \cap 1..MaxListed = {}

\* Retries one after the other make one comment of a node, and one pull
\* request of a branch, however many answers were lost after the object was
\* made; a second one needs calls that overlap, an abandoned request, or more
\* of them than a listing reads.
RetriesMakeOne ==
    ~loose /\ Len(objects) <= MaxListed => \A m \in Markers : Cardinality(Existing(m)) <= 1

=============================================================================
