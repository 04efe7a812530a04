---------------------------- MODULE FlowCompiler ----------------------------
(***************************************************************************)
(* Compile: a Flow document, whose lists come in any order and may repeat  *)
(* or omit nodes, becomes a plan or a set of diagnostics.  The depth-first *)
(* search of stronglyConnected is taken one step at a time, with its call  *)
(* stack as state.  Node identifiers are numbers, so that sorting them is  *)
(* the order of numbers; actions, retries, timeouts and schemas of a node  *)
(* are sound or broken as a whole, and a condition is sound.               *)
(***************************************************************************)
EXTENDS Naturals, FiniteSets, Sequences, FiniteSetsExt, SequencesExt

CONSTANTS Ids,        \* node identifiers, numbers
          Flows       \* documents: the list of nodes, the edges, the positions of
                      \* nodes with a loop policy and of broken nodes

ASSUME CompilerAssumption ==
    /\ Ids \subseteq Nat /\ IsFiniteSet(Ids)
    /\ \A f \in Flows : f.nodes \in Seq(Ids) /\ f.edges \subseteq Ids \X Ids

VARIABLES flow,       \* the document
          phase,      \* where Compile is
          nodes,      \* identifier -> position of its first declaration, 0 if none
          adjacency,  \* identifier -> successors
          diagnostics,
          search,     \* the local variables of stronglyConnected
          plan

compileVars == <<flow, phase, nodes, adjacency, diagnostics, search, plan>>

NoPlan == [nodes |-> <<>>, edges |-> {}, components |-> <<>>, hashed |-> FALSE]
NoSearch == [calls |-> <<>>, stack |-> <<>>, indices |-> [v \in Ids |-> 0],
             low |-> [v \in Ids |-> 0], index |-> 1, components |-> {}]

CompileInit ==
    /\ flow \in Flows
    /\ phase = "nodes"
    /\ nodes = [v \in Ids |-> 0]
    /\ adjacency = [v \in Ids |-> {}]
    /\ diagnostics = {} /\ search = NoSearch /\ plan = NoPlan

Declared == {v \in Ids : nodes[v] # 0}
Ascending(S) ==
    CHOOSE s \in [1..Cardinality(S) -> S] :
        \A i, j \in 1..Cardinality(S) : i < j => s[i] < s[j]

-----------------------------------------------------------------------------
(* The passes over the lists.                                              *)

\* The first declaration of an identifier counts; a broken node still does.
CompileNodes ==
    LET at(v) == {p \in DOMAIN flow.nodes : flow.nodes[p] = v} IN
    /\ phase = "nodes"
    /\ nodes' = [v \in Ids |-> IF at(v) = {} THEN 0 ELSE Min(at(v))]
    /\ diagnostics' =
         {<<"duplicate_node_id", p>> : p \in {q \in DOMAIN flow.nodes :
                                                 q # Min(at(flow.nodes[q]))}}
         \cup {<<"broken_node", p>> : p \in {q \in flow.broken \cap DOMAIN flow.nodes :
                                                 q = Min(at(flow.nodes[q]))}}
    /\ phase' = "edges"
    /\ UNCHANGED <<flow, adjacency, search, plan>>

\* An edge with an unknown end is reported and left out of the graph.
CompileEdges ==
    /\ phase = "edges"
    /\ diagnostics' = diagnostics \cup
         {<<"unknown_node", e>> : e \in {d \in flow.edges : ~(d[1] \in Declared /\ d[2] \in Declared)}}
    /\ adjacency' = [v \in Ids |-> {w \in Declared : v \in Declared /\ <<v, w>> \in flow.edges}]
    /\ phase' = "search"
    /\ UNCHANGED <<flow, nodes, search, plan>>

\* reaches: breadth-first from the source; the source itself counts only when
\* an edge leads back to it.
Reaches(source, target) ==
    LET wave[n \in 0..Cardinality(Ids)] ==
            IF n = 0 THEN {source}
            ELSE wave[n - 1] \cup UNION {adjacency[v] : v \in wave[n - 1]}
    IN  target \in UNION {adjacency[v] : v \in wave[Cardinality(Ids)]}

-----------------------------------------------------------------------------
(* stronglyConnected, one step of the search at a time.                    *)

Top == Head(search.calls)
OnStack(v) == v \in ToSet(search.stack)
Lower(v, n) == [search.low EXCEPT ![v] = IF n < @ THEN n ELSE @]

\* The entry of visit: a number, a place on the stack, the neighbours to see.
Entered(v) ==
    [calls |-> <<[node |-> v, left |-> Ascending(adjacency[v])]>> \o search.calls,
     stack |-> <<v>> \o search.stack,
     indices |-> [search.indices EXCEPT ![v] = search.index],
     low |-> [search.low EXCEPT ![v] = search.index],
     index |-> search.index + 1, components |-> search.components]

VisitRoot ==
    /\ phase = "search" /\ search.calls = <<>>
    /\ \E v \in Declared :
          /\ search.indices[v] = 0
          /\ \A w \in Declared : search.indices[w] = 0 => v <= w
          /\ search' = Entered(v)
    /\ UNCHANGED <<flow, phase, nodes, adjacency, diagnostics, plan>>

\* The next neighbour: unseen, it is visited; on the stack, it lowers.
VisitNeighbour ==
    /\ phase = "search" /\ search.calls # <<>> /\ Top.left # <<>>
    /\ LET v == Top.node
           w == Head(Top.left)
           rest == <<[Top EXCEPT !.left = Tail(@)]>> \o Tail(search.calls)
       IN  search' =
             IF search.indices[w] = 0
             THEN [Entered(w) EXCEPT !.calls = <<Head(@)>> \o rest]
             ELSE [search EXCEPT !.calls = rest,
                                 !.low = IF OnStack(w) THEN Lower(v, search.indices[w]) ELSE @]
    /\ UNCHANGED <<flow, phase, nodes, adjacency, diagnostics, plan>>

\* Mutant: the caller does not see the low mark of the node it visited.
LeaveVisitAlone ==
    /\ phase = "search" /\ search.calls # <<>> /\ Top.left = <<>>
    /\ LET v == Top.node
           depth == CHOOSE n \in DOMAIN search.stack : search.stack[n] = v
           isRoot == search.low[v] = search.indices[v]
       IN  search' =
             [search EXCEPT
                !.calls = Tail(@),
                !.stack = IF isRoot THEN SubSeq(@, depth + 1, Len(@)) ELSE @,
                !.components = IF isRoot THEN @ \cup {ToSet(SubSeq(search.stack, 1, depth))}
                               ELSE @]
    /\ UNCHANGED <<flow, phase, nodes, adjacency, diagnostics, plan>>

\* A root of a component takes what lies above it off the stack; its caller
\* then sees its low mark.
LeaveVisit ==
    /\ phase = "search" /\ search.calls # <<>> /\ Top.left = <<>>
    /\ LET v == Top.node
           depth == CHOOSE n \in DOMAIN search.stack : search.stack[n] = v
           isRoot == search.low[v] = search.indices[v]
           callers == Tail(search.calls)
       IN  search' =
             [search EXCEPT
                !.calls = callers,
                !.low = IF callers = <<>> THEN @ ELSE Lower(Head(callers).node, search.low[v]),
                !.stack = IF isRoot THEN SubSeq(@, depth + 1, Len(@)) ELSE @,
                !.components = IF isRoot THEN @ \cup {ToSet(SubSeq(search.stack, 1, depth))}
                               ELSE @]
    /\ UNCHANGED <<flow, phase, nodes, adjacency, diagnostics, plan>>

-----------------------------------------------------------------------------
\* Components are sorted inside and by their first member.
SortedComponents ==
    LET first == Ascending({Min(c) : c \in search.components})
    IN  [n \in DOMAIN first |->
            Ascending(CHOOSE c \in search.components : Min(c) = first[n])]

IsCyclic(c) == Cardinality(c) > 1 \/ \E v \in c : v \in adjacency[v]
Finite(c) == \E v \in c : nodes[v] \in flow.loops

\* A cycle needs one node with an iteration limit; only a plan without
\* diagnostics gets a hash.
Finish ==
    LET unbounded == {c \in search.components : IsCyclic(c) /\ ~Finite(c)} IN
    /\ phase = "search" /\ search.calls = <<>>
    /\ \A v \in Declared : search.indices[v] # 0
    /\ diagnostics' = diagnostics \cup {<<"unbounded_cycle", c>> : c \in unbounded}
    /\ plan' = [nodes |-> Ascending(Declared), edges |-> flow.edges,
                components |-> SortedComponents, hashed |-> diagnostics' = {}]
    /\ phase' = "done"
    /\ UNCHANGED <<flow, nodes, adjacency, search>>

SearchStep == VisitRoot \/ VisitNeighbour \/ LeaveVisit
CompileNext == CompileNodes \/ CompileEdges \/ SearchStep \/ Finish

CompileSpec == CompileInit /\ [][CompileNext]_compileVars

-----------------------------------------------------------------------------
(* Properties.                                                             *)

CompilerTypeOK ==
    /\ phase \in {"nodes", "edges", "search", "done"}
    /\ nodes \in [Ids -> 0..Len(flow.nodes)]
    /\ adjacency \in [Ids -> SUBSET Ids]
    /\ search.indices \in [Ids -> 0..Cardinality(Ids)]
    /\ search.low \in [Ids -> 0..Cardinality(Ids)]
    /\ search.components \subseteq SUBSET Ids
    /\ plan.hashed \in BOOLEAN

\* Reference: along one edge or more v leads to what no closed set around its
\* successors leaves out.
Shut(X) == \A x \in X : adjacency[x] \subseteq X
Path(v, w) == \A X \in SUBSET Ids : adjacency[v] \subseteq X /\ Shut(X) => w \in X
Together(v, w) == v = w \/ (Path(v, w) /\ Path(w, v))

\* While the search runs, a low mark is the number of a node that is on the
\* stack and can be reached, and a finished component is never entered again.
LowMarkIsReachable ==
    \A v \in ToSet(search.stack) :
        \E w \in ToSet(search.stack) :
            search.low[v] = search.indices[w] /\ (v = w \/ Path(v, w))

\* The search finds exactly the classes of mutual reachability.
ComponentsAreCycles ==
    phase = "done" =>
        search.components = {{w \in Declared : Together(v, w)} : v \in Declared}

\* Reference: what the document says of a well-formed Flow.
WellFormed ==
    LET used == ToSet(flow.nodes)
        edge == {e \in Ids \X Ids : e \in flow.edges}
        cycleNodes == {v \in used : Path(v, v)}
        limited == {flow.nodes[p] : p \in flow.loops \cap DOMAIN flow.nodes}
    IN  /\ Cardinality(used) = Len(flow.nodes)
        /\ flow.broken \cap DOMAIN flow.nodes = {}
        /\ \A e \in edge : e[1] \in used /\ e[2] \in used
        /\ \A v \in cycleNodes : \E w \in limited : Together(v, w)

\* A document gets an executable plan exactly when it is well formed: no
\* unbounded cycle is let through, and none is suspected where there is none.
PlanIffWellFormed == phase = "done" => (plan.hashed <=> WellFormed)

\* A mapping is taken from a node exactly when a path of edges leads from that
\* node to the one that reads it; a node reads itself only around a cycle.
MappingFollowsPath ==
    phase = "search" /\ search = NoSearch =>
        \A s, t \in Ids : Reaches(s, t) <=> Path(s, t)

\* The compiler's one-pass search agrees with reachability in the document, at
\* every step and in the plan it ends with.
CompilerInv ==
    /\ CompilerTypeOK
    /\ LowMarkIsReachable
    /\ ComponentsAreCycles
    /\ PlanIffWellFormed
    /\ MappingFollowsPath
=============================================================================
