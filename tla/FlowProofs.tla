----------------------------- MODULE FlowProofs -----------------------------
(***************************************************************************)
(* Proofs about the making and the interpretation of a plan, for every     *)
(* graph of every size, every policy and every edit: the compiler finds    *)
(* the components and accepts the well-formed documents, what it accepts   *)
(* fits its types, a Run sees the copies its plan holds, and the scheduler *)
(* neither deadlocks nor overruns its buffer and accounts for every node.  *)
(***************************************************************************)
EXTENDS Interpreter, Admission, ActionContracts, FlowCompiler, FiniteSetTheorems, SequenceTheorems,
        WellFoundedInduction, TLAPS

-----------------------------------------------------------------------------
(***************************************************************************)
(* Reachability.  An induction over the steps of the search is a smallest  *)
(* step at which it fails.  After as many steps as there are nodes nothing *)
(* is added, since every step before added a node.                         *)
(***************************************************************************)

\* A set of naturals has a least element.
LEMMA FirstOne ==
    ASSUME NEW T \in SUBSET Nat, T # {}
    PROVE  \E m \in T : \A n \in T : m <= n
<1>1. PICK m \in T : \A n \in T : ~ (<<n, m>> \in OpToRel(<, Nat))
  BY NatLessThanWellFounded, WFMin, Zenon
<1>2. \A n \in T : ~ (n < m)
  BY <1>1 DEF OpToRel
<1> QED  BY <1>2

\* Least is that element.
LEMMA LeastIs ==
    ASSUME NEW T \in SUBSET Nat, T # {}
    PROVE  Least(T) \in T /\ \A n \in T : Least(T) <= n
BY FirstOne DEF Least

\* What holds at zero and from each step to the next holds up to b.
LEMMA StepByStep ==
    ASSUME NEW b \in Nat, NEW T, 0 \in T, \A k \in 0..b : k < b /\ k \in T => k + 1 \in T
    PROVE  \A k \in 0..b : k \in T
<1> DEFINE Bad == {k \in 0..b : k \notin T}
<1> SUFFICES ASSUME Bad # {}
             PROVE  FALSE
  OBVIOUS
<1>0. Bad \in SUBSET Nat
  OBVIOUS
<1>1. PICK m \in Bad : \A n \in Bad : m <= n
  <2> HIDE DEF Bad
  <2> QED  BY <1>0, FirstOne
<1>2. m \in 0..b /\ m # 0 /\ m - 1 \in 0..b /\ m - 1 < b /\ m - 1 \notin Bad
  BY <1>1
<1>3. m - 1 \in T
  BY <1>2
<1>4. (m - 1) + 1 \in T
  BY <1>2, <1>3
<1> QED  BY <1>1, <1>2, <1>4

Grow(E, w) == w \union {e[2] : e \in {d \in E : d[1] \in w}}

\* g is the search from n, up to step m.
Searches(n, E, m, g) == g = [k \in 0..m |-> IF k = 0 THEN {n} ELSE Grow(E, g[k - 1])]

Search(n, E) == CHOOSE g : Searches(n, E, N, g)

\* The recursive definition of the search has a solution.
LEMMA SearchExists ==
    ASSUME NEW n, NEW E
    PROVE  \A m \in 0..N : \E g : Searches(n, E, m, g)
<1> DEFINE T == {m \in Nat : \E g : Searches(n, E, m, g)}
<1>0. N \in Nat
  BY InterpreterAssumption
<1>1. 0 \in T
  <2> DEFINE g == [k \in 0..0 |-> {n}]
  <2>1. g = [k \in 0..0 |-> IF k = 0 THEN {n} ELSE Grow(E, g[k - 1])]
    OBVIOUS
  <2> QED  BY <2>1 DEF Searches
<1>2. ASSUME NEW m \in 0..N, m < N, m \in T PROVE m + 1 \in T
  <2>1. PICK g : Searches(n, E, m, g)
    BY <1>2
  <2> DEFINE h == [k \in 0..(m + 1) |-> IF k = 0 THEN {n} ELSE Grow(E, g[k - 1])]
  <2>2. ASSUME NEW k \in 0..(m + 1), k # 0 PROVE h[k - 1] = g[k - 1]
    <3>1. k - 1 \in 0..m /\ k - 1 \in 0..(m + 1)
      BY <1>2, <2>2
    <3>2. g[k - 1] = IF k - 1 = 0 THEN {n} ELSE Grow(E, g[(k - 1) - 1])
      BY <2>1, <3>1 DEF Searches
    <3> QED  BY <3>1, <3>2
  <2> DEFINE f == [k \in 0..(m + 1) |-> IF k = 0 THEN {n} ELSE Grow(E, h[k - 1])]
  <2>3. \A k \in 0..(m + 1) : h[k] = f[k]
    <3> HIDE DEF Grow
    <3>1. ASSUME NEW k \in 0..(m + 1) PROVE h[k] = f[k]
      <4>1. CASE k = 0
        BY <4>1
      <4>2. CASE k # 0
        <5>1. h[k] = Grow(E, g[k - 1]) /\ f[k] = Grow(E, h[k - 1])
          BY <4>2
        <5>2. h[k - 1] = g[k - 1]
          BY <2>2, <4>2
        <5> HIDE DEF h, f
        <5> QED  BY <5>1, <5>2
      <4> QED  BY <4>1, <4>2
    <3> QED  BY <3>1
  <2>4. h = f
    <3>1. h = [k \in 0..(m + 1) |-> h[k]] /\ f = [k \in 0..(m + 1) |-> f[k]]
      OBVIOUS
    <3> HIDE DEF h, f
    <3> QED  BY <2>3, <3>1
  <2>5. Searches(n, E, m + 1, h)
    BY <2>4 DEF Searches
  <2> QED  BY <1>2, <2>5
<1> HIDE DEF T
<1>3. \A m \in 0..N : m \in T
  BY <1>0, <1>1, <1>2, StepByStep
<1> QED  BY <1>3 DEF T

\* The steps of the search, and what it ends with.
LEMMA SearchSteps ==
    ASSUME NEW n, NEW E
    PROVE  /\ Search(n, E)[0] = {n}
           /\ \A k \in 1..N : Search(n, E)[k] = Grow(E, Search(n, E)[k - 1])
           /\ ReachableFrom(n, E) = Search(n, E)[N]
<1>0. N \in Nat /\ N \in 0..N
  BY InterpreterAssumption
<1>1. \E g : Searches(n, E, N, g)
  BY <1>0, SearchExists
<1>2. Searches(n, E, N, Search(n, E))
  BY <1>1 DEF Search
<1>3. Search(n, E) = [k \in 0..N |-> IF k = 0 THEN {n} ELSE Grow(E, Search(n, E)[k - 1])]
  BY <1>2 DEF Searches
<1>4. ReachableFrom(n, E) = Search(n, E)[N]
  BY DEF ReachableFrom, Search, Searches, Grow
<1> DEFINE S == Search(n, E)
<1>5. S = [k \in 0..N |-> IF k = 0 THEN {n} ELSE Grow(E, S[k - 1])]
  BY <1>3
<1> HIDE DEF S
<1>6. S[0] = {n}
  BY <1>0, <1>5
<1>7. ASSUME NEW k \in 1..N PROVE S[k] = Grow(E, S[k - 1])
  <2>1. k \in 0..N /\ k # 0
    BY <1>0
  <2> QED  BY <1>5, <2>1
<1> QED  BY <1>4, <1>6, <1>7 DEF S

Closed(E, w) == \A e \in E : e[1] \in w => e[2] \in w

Graph == SUBSET (Node \X Node)

\* Every step of the search stays within the nodes and within every closed set
\* that holds the start.
LEMMA SearchWithin ==
    ASSUME NEW E \in Graph, NEW n \in Node, NEW S, n \in S, Closed(E, S)
    PROVE  \A k \in 0..N : n \in Search(n, E)[k] /\ Search(n, E)[k] \subseteq S
<1> DEFINE W == Search(n, E)
           T == {k \in 0..N : n \in W[k] /\ W[k] \subseteq S}
<1>0. N \in Nat
  BY InterpreterAssumption
<1>1. W[0] = {n} /\ \A k \in 1..N : W[k] = Grow(E, W[k - 1])
  BY SearchSteps
<1> HIDE DEF W
<1>2. 0 \in T
  BY <1>0, <1>1
<1>3. ASSUME NEW k \in 0..N, k < N, k \in T PROVE k + 1 \in T
  <2>1. k + 1 \in 1..N /\ (k + 1) - 1 = k /\ k + 1 \in 0..N
    BY <1>0, <1>3
  <2>2. W[k + 1] = Grow(E, W[k])
    BY <1>1, <2>1
  <2>3. Grow(E, W[k]) \subseteq S /\ n \in Grow(E, W[k])
    BY <1>3 DEF Grow, Closed
  <2> QED  BY <2>1, <2>2, <2>3
<1> HIDE DEF T
<1>4. \A k \in 0..N : k \in T
  BY <1>0, <1>2, <1>3, StepByStep
<1> QED  BY <1>4 DEF T, W

\* A set that is not closed grows, a closed one does not.
LEMMA GrowsOrClosed ==
    ASSUME NEW E \in Graph, NEW w \in SUBSET Node
    PROVE  /\ Grow(E, w) \in SUBSET Node /\ w \in SUBSET Grow(E, w)
           /\ Closed(E, w) => Grow(E, w) = w
           /\ ~ Closed(E, w) => Grow(E, w) # w
<1>1. \A e \in E : e[1] \in Node /\ e[2] \in Node
  BY DEF Graph
<1> QED  BY <1>1 DEF Grow, Closed

\* The nodes are finite, and so are their sets.
LEMMA NodesFinite ==
    /\ IsFiniteSet(Node) /\ Cardinality(Node) = N
    /\ \A w \in SUBSET Node : IsFiniteSet(w) /\ Cardinality(w) \in Nat /\ Cardinality(w) <= N
<1>1. IsFiniteSet(Node) /\ Cardinality(Node) = N
  BY InterpreterAssumption, FS_Interval DEF Node
<1> QED  BY <1>1, FS_Subset, FS_CardinalityType

\* The search ends with a closed set.
LEMMA SearchCloses ==
    ASSUME NEW E \in Graph, NEW n \in Node
    PROVE  Closed(E, ReachableFrom(n, E))
<1> DEFINE W == Search(n, E)
           T == {k \in 0..N : W[k] \in SUBSET Node /\ (Closed(E, W[k]) \/ k < Cardinality(W[k]))}
<1>0. N \in Nat
  BY InterpreterAssumption
<1>1. W[0] = {n} /\ (\A k \in 1..N : W[k] = Grow(E, W[k - 1])) /\ ReachableFrom(n, E) = W[N]
  BY SearchSteps
<1> HIDE DEF W
<1>2. 0 \in T
  <2>1. Cardinality({n}) = 1
    BY FS_Singleton
  <2> QED  BY <1>0, <1>1, <2>1
<1>3. ASSUME NEW k \in 0..N, k < N, k \in T PROVE k + 1 \in T
  <2> DEFINE w == W[k]
             v == W[k + 1]
  <2>1. k + 1 \in 1..N /\ (k + 1) - 1 = k /\ k + 1 \in 0..N
    BY <1>0, <1>3
  <2>2. v = Grow(E, w)
    BY <1>1, <2>1
  <2>3. w \in SUBSET Node /\ (Closed(E, w) \/ k < Cardinality(w))
    BY <1>3
  <2> HIDE DEF w, v
  <2>4. v \in SUBSET Node /\ w \in SUBSET v /\ (Closed(E, w) => v = w) /\ (~ Closed(E, w) => v # w)
    BY <2>2, <2>3, GrowsOrClosed
  <2>5. CASE Closed(E, w)
    BY <2>1, <2>3, <2>4, <2>5 DEF v, w
  <2>6. CASE ~ Closed(E, w)
    <3>1. IsFiniteSet(v) /\ Cardinality(v) \in Nat /\ Cardinality(w) \in Nat
      BY <2>3, <2>4, NodesFinite
    <3>2. Cardinality(w) <= Cardinality(v) /\ Cardinality(w) # Cardinality(v)
      BY <2>4, <2>6, <3>1, FS_Subset
    <3>3. k + 1 < Cardinality(v)
      BY <1>3, <2>3, <2>6, <3>1, <3>2
    <3> QED  BY <2>1, <2>4, <3>3 DEF v
  <2> QED  BY <2>5, <2>6
<1> HIDE DEF T
<1>4. N \in T
  <2>1. \A k \in 0..N : k \in T
    BY <1>0, <1>2, <1>3, StepByStep
  <2> QED  BY <1>0, <2>1
<1>5. W[N] \in SUBSET Node /\ (Closed(E, W[N]) \/ N < Cardinality(W[N]))
  BY <1>4 DEF T
<1>6. Cardinality(W[N]) \in Nat /\ Cardinality(W[N]) <= N
  BY <1>5, NodesFinite
<1> QED  BY <1>0, <1>1, <1>5, <1>6

\* ReachableFrom is the least closed set that holds the node.
LEMMA ReachableIs ==
    ASSUME NEW E \in Graph, NEW n \in Node
    PROVE  /\ n \in ReachableFrom(n, E) /\ ReachableFrom(n, E) \in SUBSET Node
           /\ Closed(E, ReachableFrom(n, E))
           /\ \A S : n \in S /\ Closed(E, S) => ReachableFrom(n, E) \subseteq S
<1>0. N \in 0..N /\ ReachableFrom(n, E) = Search(n, E)[N]
  BY InterpreterAssumption, SearchSteps
<1>1. ASSUME NEW S, n \in S, Closed(E, S)
      PROVE  n \in ReachableFrom(n, E) /\ ReachableFrom(n, E) \subseteq S
  BY <1>0, <1>1, SearchWithin
<1>2. Closed(E, Node)
  BY DEF Closed, Graph
<1> QED  BY <1>1, <1>2, SearchCloses

\* Reachability is transitive, and a node reaches what it is joined to.
LEMMA ReachesOn ==
    ASSUME NEW E \in Graph, NEW n \in Node, NEW m \in ReachableFrom(n, E)
    PROVE  m \in Node /\ ReachableFrom(m, E) \subseteq ReachableFrom(n, E)
<1>1. m \in Node
  BY ReachableIs
<1> QED  BY <1>1, ReachableIs

\* What is reached from a node, other than itself, is reached over one of its
\* edges.
LEMMA FirstEdge ==
    ASSUME NEW E \in Graph, NEW n \in Node, NEW m \in ReachableFrom(n, E), m # n
    PROVE  \E e \in E : e[1] = n /\ e[2] \in Node /\ m \in ReachableFrom(e[2], E)
<1> DEFINE S == {n} \union {x \in Node : \E e \in E : e[1] = n /\ x \in ReachableFrom(e[2], E)}
<1>1. \A e \in E : e[1] \in Node /\ e[2] \in Node
  BY DEF Graph
<1>2. ASSUME NEW d \in E, d[1] \in S PROVE d[2] \in S
  <2>1. CASE d[1] = n
    <3>1. d[2] \in ReachableFrom(d[2], E)
      BY <1>1, ReachableIs
    <3> QED  BY <1>1, <2>1, <3>1
  <2>2. CASE d[1] # n
    <3>1. PICK e \in E : e[1] = n /\ d[1] \in ReachableFrom(e[2], E)
      BY <1>2, <2>2
    <3>2. Closed(E, ReachableFrom(e[2], E))
      BY <1>1, ReachableIs
    <3>3. d[2] \in ReachableFrom(e[2], E)
      BY <3>1, <3>2 DEF Closed
    <3> QED  BY <1>1, <3>1, <3>3
  <2> QED  BY <2>1, <2>2
<1>3. n \in S /\ Closed(E, S)
  BY <1>2 DEF Closed
<1> HIDE DEF S
<1>4. m \in S
  BY <1>3, ReachableIs
<1> QED  BY <1>1, <1>4 DEF S

\* Nodes that reach each other have the same name, which is the least of them,
\* and no others have.
LEMMA ComponentIs ==
    ASSUME NEW E \in Graph, NEW n \in Node
    PROVE  /\ ComponentOf(n, E) \in Node /\ ComponentOf(n, E) <= n
           /\ ComponentOf(n, E) \in ReachableFrom(n, E) /\ n \in ReachableFrom(ComponentOf(n, E), E)
           /\ \A m \in Node : ComponentOf(m, E) = ComponentOf(n, E) <=>
                   m \in ReachableFrom(n, E) /\ n \in ReachableFrom(m, E)
<1> DEFINE Scc(x) == {m \in Node : m \in ReachableFrom(x, E) /\ x \in ReachableFrom(m, E)}
<1>1. ASSUME NEW x \in Node
      PROVE  ComponentOf(x, E) \in Scc(x) /\ \A m \in Scc(x) : ComponentOf(x, E) <= m
  <2>1. x \in Scc(x)
    BY ReachableIs
  <2>2. Scc(x) \in SUBSET Nat
    BY DEF Node
  <2>3. ComponentOf(x, E) = Least(Scc(x))
    BY DEF ComponentOf
  <2> HIDE DEF Scc
  <2> QED  BY <2>1, <2>2, <2>3, LeastIs
<1>2. ASSUME NEW m \in Node, m \in ReachableFrom(n, E), n \in ReachableFrom(m, E)
      PROVE  ComponentOf(m, E) = ComponentOf(n, E)
  <2>1. ReachableFrom(m, E) = ReachableFrom(n, E)
    BY <1>2, ReachesOn
  <2>2. \A x \in Node : m \in ReachableFrom(x, E) <=> n \in ReachableFrom(x, E)
    <3>1. ASSUME NEW x \in Node PROVE m \in ReachableFrom(x, E) <=> n \in ReachableFrom(x, E)
      BY <1>2, ReachesOn
    <3> QED  BY <3>1
  <2>3. Scc(m) = Scc(n)
    BY <2>1, <2>2
  <2> QED  BY <2>3 DEF ComponentOf
<1>3. ASSUME NEW m \in Node, ComponentOf(m, E) = ComponentOf(n, E)
      PROVE  m \in ReachableFrom(n, E) /\ n \in ReachableFrom(m, E)
  <2>1. /\ ComponentOf(n, E) \in ReachableFrom(n, E) /\ m \in ReachableFrom(ComponentOf(n, E), E)
        /\ ComponentOf(n, E) \in ReachableFrom(m, E) /\ n \in ReachableFrom(ComponentOf(n, E), E)
    BY <1>1, <1>3
  <2> QED  BY <2>1, ReachesOn
<1>4. n \in Scc(n)
  BY ReachableIs
<1> QED  BY <1>1, <1>2, <1>3, <1>4

-----------------------------------------------------------------------------
(***************************************************************************)
(* The scheduler.  A component is in one of its lists by the status of its *)
(* coroutine (Accounted).  What a component is admitted with is final      *)
(* because its predecessors were received before, and an edge belongs to   *)
(* the component it leaves (EdgesFit).  In a component the nodes that have *)
(* a reason to run are the ones that ran or are queued, until it ends with *)
(* an empty queue (Local).                                                 *)
(***************************************************************************)
PlanFits == comp = [n \in Node |-> ComponentOf(n, edges)]

InFlight == mailbox \union {c \in Node : Running(c)}

Accounted ==
    /\ pending \union completed \union mailbox \subseteq Components
    /\ \A c \in Node : status[c] = "new" <=> c \notin Components \/ c \in pending
    /\ \A c \in Node : c \in mailbox \union completed <=> status[c] \in {"ok", "rejected", "error"}
    /\ mailbox \intersect completed = {}
    /\ active = Cardinality(InFlight) /\ active <= par

EdgesFit ==
    /\ \A c \in Components \ pending : Ready(c) /\ inputs[c] = Incoming(c) \intersect edgeActive
    /\ \A e \in edgeActive : comp[e[1]] \in completed /\ e \in produced[comp[e[1]]]
    /\ \A c \in completed : status[c] # "error" => produced[c] \subseteq edgeActive

Ended ==
    /\ main = "done" <=> outcome # "none"
    /\ outcome # "none" => active = 0
    /\ outcome # "deadlock"
    /\ outcome = "succeeded" => pending = {} /\ ~ firstError /\ ~ rejected
    /\ stopAdmission => firstError \/ rejected
    /\ \A c \in completed : /\ status[c] = "error" => firstError
                            /\ status[c] = "rejected" => rejected

\* Why a node runs: it is the entry of a component without incoming edges, or
\* an active edge leads to it.
Reason(c, n) ==
    \/ Incoming(c) = {} /\ n = c
    \/ \E e \in inputs[c] \union produced[c] : e[2] = n

Local(c) ==
    /\ status[c] = "new" => queue[c] = {} /\ produced[c] = {}
                            /\ \A n \in Nodes(c) : counts[n] = 0 /\ n \notin skipped
    /\ status[c] = "skip" => queue[c] = {}
    /\ current[c] # 0 => status[c] = "run" /\ current[c] \in Nodes(c)
    /\ queue[c] \subseteq Nodes(c) /\ \A n \in queue[c] : counts[n] < Limit(c)
    /\ \A e \in produced[c] : e \in edges /\ comp[e[1]] = c
    /\ \A n \in Nodes(c) :
         /\ counts[n] <= Limit(c)
         /\ n \in skipped => counts[n] = 0 /\ queue[c] = {} /\ current[c] = 0
         /\ counts[n] > 0 \/ n \in queue[c] => Reason(c, n)
         /\ status[c] \in {"run", "skip", "ok"} /\ Reason(c, n) => counts[n] > 0 \/ n \in queue[c]
         /\ status[c] = "ok" => queue[c] = {} /\ (counts[n] > 0 \/ n \in skipped)

SchedulerIInv ==
    TypeOK /\ PlanFits /\ Accounted /\ EdgesFit /\ Ended /\ \A c \in Node : Local(c)

\* The plan: names of components, and components without a cycle.
LEMMA PlanIs ==
    ASSUME TypeOK, PlanFits
    PROVE  /\ edges \in Graph /\ \A e \in edges : e[1] \in Node /\ e[2] \in Node
           /\ \A n \in Node : /\ comp[n] \in Node /\ comp[n] <= n /\ comp[comp[n]] = comp[n]
                              /\ comp[n] \in Components /\ n \in Nodes(comp[n])
           /\ \A c \in Components : c \in Node /\ c \in Nodes(c) /\ Least(Nodes(c)) = c
           /\ \A c : ~ Cyclic(c) => \A m, n \in Nodes(c) : m = n
<1>1. edges \in Graph /\ \A e \in edges : e[1] \in Node /\ e[2] \in Node
  BY DEF TypeOK, Graph
<1>2. ASSUME NEW n \in Node
      PROVE  /\ comp[n] \in Node /\ comp[n] <= n
             /\ \A m \in Node : comp[m] = comp[n] <=>
                    m \in ReachableFrom(n, edges) /\ n \in ReachableFrom(m, edges)
             /\ comp[comp[n]] = comp[n]
             /\ comp[n] \in Components /\ n \in Nodes(comp[n])
  <2>1. \A m \in Node : comp[m] = ComponentOf(m, edges)
    BY DEF PlanFits
  <2>2. /\ comp[n] \in Node /\ comp[n] <= n
        /\ comp[n] \in ReachableFrom(n, edges) /\ n \in ReachableFrom(comp[n], edges)
        /\ \A m \in Node : comp[m] = comp[n] <=>
              m \in ReachableFrom(n, edges) /\ n \in ReachableFrom(m, edges)
    BY <1>1, <2>1, ComponentIs
  <2>3. comp[comp[n]] = comp[n]
    BY <2>2
  <2> QED  BY <2>2, <2>3 DEF Components, Nodes
<1>3. ASSUME NEW c \in Components PROVE c \in Node /\ c \in Nodes(c) /\ Least(Nodes(c)) = c
  <2>1. PICK n \in Node : c = comp[n]
    BY DEF Components
  <2>2. c \in Node /\ comp[c] = c
    BY <1>2, <2>1
  <2>3. c \in Nodes(c) /\ Nodes(c) \in SUBSET Nat /\ \A m \in Nodes(c) : c <= m
    BY <1>2, <2>2 DEF Nodes, Node
  <2>4. Least(Nodes(c)) \in Nodes(c) /\ \A m \in Nodes(c) : Least(Nodes(c)) <= m
    BY <2>3, LeastIs
  <2>5. Least(Nodes(c)) = c
    BY <2>3, <2>4
  <2> QED  BY <2>2, <2>3, <2>5
<1>4. ASSUME NEW c, ~ Cyclic(c), NEW m \in Nodes(c), NEW n \in Nodes(c), m # n PROVE FALSE
  <2>1. m \in Node /\ n \in Node /\ comp[m] = c /\ comp[n] = c
    BY DEF Nodes
  <2>2. m \in ReachableFrom(n, edges) /\ n \in ReachableFrom(m, edges)
    BY <1>2, <2>1
  <2>3. PICK e \in edges : e[1] = n /\ e[2] \in Node /\ m \in ReachableFrom(e[2], edges)
    BY <1>1, <1>4, <2>1, <2>2, FirstEdge
  <2>4. e[2] \in ReachableFrom(n, edges)
    BY <1>1, <2>1, <2>3, ReachableIs DEF Closed
  <2>5. n \in ReachableFrom(e[2], edges)
    <3>1. ReachableFrom(m, edges) \subseteq ReachableFrom(e[2], edges)
      BY <1>1, <2>3, ReachesOn
    <3> QED  BY <2>2, <3>1
  <2>6. comp[e[2]] = c
    BY <1>2, <2>1, <2>3, <2>4, <2>5
  <2> QED  BY <1>4, <2>1, <2>3, <2>6 DEF Cyclic
<1> QED  BY <1>1, <1>2, <1>3, <1>4

\* An edge between components leads to one that reaches fewer nodes.
LEMMA EdgesDescend ==
    ASSUME TypeOK, PlanFits, NEW e \in edges, comp[e[1]] # comp[e[2]]
    PROVE  /\ Cardinality(ReachableFrom(comp[e[1]], edges)) \in 0..N
           /\ Cardinality(ReachableFrom(comp[e[2]], edges)) \in 0..N
           /\ Cardinality(ReachableFrom(comp[e[2]], edges))
                < Cardinality(ReachableFrom(comp[e[1]], edges))
<1> DEFINE a == e[1]
           b == e[2]
           R(n) == ReachableFrom(n, edges)
<1>0. edges \in Graph /\ a \in Node /\ b \in Node /\ N \in Nat
  BY PlanIs, InterpreterAssumption
<1>1. ASSUME NEW n \in Node
      PROVE  comp[n] \in Node /\ R(comp[n]) = R(n) /\ R(n) \in SUBSET Node /\ n \in R(n)
  <2>1. comp[n] = ComponentOf(n, edges)
    BY DEF PlanFits
  <2>2. comp[n] \in Node /\ comp[n] \in R(n) /\ n \in R(comp[n])
    BY <1>0, <2>1, ComponentIs
  <2>3. R(n) \subseteq R(comp[n]) /\ R(comp[n]) \subseteq R(n)
    BY <1>0, <2>2, ReachesOn
  <2> QED  BY <1>0, <2>2, <2>3, ReachableIs
<1>2. b \in R(a)
  BY <1>0, <1>1, ReachableIs DEF Closed
<1>3. R(b) \subseteq R(a)
  BY <1>0, <1>2, ReachesOn
<1>4. a \notin R(b)
  <2>1. comp[a] = ComponentOf(a, edges) /\ comp[b] = ComponentOf(b, edges)
    BY <1>0 DEF PlanFits
  <2> QED  BY <1>0, <1>2, <2>1, ComponentIs
<1>5. IsFiniteSet(R(a)) /\ Cardinality(R(a)) \in 0..N /\ Cardinality(R(b)) \in 0..N
  BY <1>0, <1>1, NodesFinite
<1>6. Cardinality(R(b)) <= Cardinality(R(a)) /\ Cardinality(R(b)) # Cardinality(R(a))
  <2>1. R(b) # R(a)
    BY <1>0, <1>1, <1>4
  <2> QED  BY <1>3, <1>5, <2>1, FS_Subset
<1>7. R(comp[a]) = R(a) /\ R(comp[b]) = R(b)
  BY <1>0, <1>1
<1> HIDE DEF R
<1>8. Cardinality(R(b)) < Cardinality(R(a))
  BY <1>0, <1>5, <1>6
<1>9. Cardinality(R(comp[b])) < Cardinality(R(comp[a])) /\ Cardinality(R(comp[a])) \in 0..N
      /\ Cardinality(R(comp[b])) \in 0..N
  BY <1>5, <1>7, <1>8
<1> QED  BY <1>9 DEF R

\* When every component is pending or completed, one that is pending is ready.
LEMMA SomeReady ==
    ASSUME TypeOK, PlanFits, pending # {}, pending \subseteq Components,
           Components \subseteq pending \union completed
    PROVE  \E c \in pending : Ready(c)
<1> DEFINE H(c) == Cardinality(ReachableFrom(c, edges))
           T == {N - H(c) : c \in pending}
<1>0. N \in Nat
  BY InterpreterAssumption
<1>1. ASSUME NEW c \in pending PROVE H(c) \in 0..N
  <2>1. c \in Node /\ edges \in Graph
    BY PlanIs
  <2> QED  BY <1>0, <2>1, ReachableIs, NodesFinite
<1> HIDE DEF H
<1>2. T \in SUBSET Nat /\ T # {}
  BY <1>0, <1>1
<1>3. PICK t \in T : \A u \in T : t <= u
  <2> HIDE DEF T
  <2> QED  BY <1>2, FirstOne
<1>4. PICK c \in pending : t = N - H(c)
  BY <1>3
<1>5. ASSUME NEW d \in pending PROVE H(d) <= H(c)
  <2>1. N - H(c) <= N - H(d)
    BY <1>3, <1>4
  <2> QED  BY <1>0, <1>1, <2>1
<1>6. ASSUME NEW e \in Incoming(c) PROVE comp[e[1]] \in completed
  <2>1. e \in edges /\ comp[e[2]] = c /\ comp[e[1]] # comp[e[2]] /\ comp[e[1]] \in Components
    BY PlanIs DEF Incoming
  <2>2. H(comp[e[1]]) \in 0..N /\ H(c) \in 0..N /\ H(c) < H(comp[e[1]])
    BY <2>1, EdgesDescend DEF H
  <2>3. comp[e[1]] \notin pending
    BY <1>0, <1>5, <2>2
  <2> QED  BY <2>1, <2>3
<1> QED  BY <1>6 DEF Ready, Predecessors

\* Nothing changes the plan.
LEMMA PlanStays ==
    ASSUME UNCHANGED planVars
    PROVE  /\ Components' = Components /\ (PlanFits => PlanFits')
           /\ \A c : /\ Nodes(c)' = Nodes(c) /\ Incoming(c)' = Incoming(c) /\ Limit(c)' = Limit(c)
                     /\ Predecessors(c)' = Predecessors(c)
BY DEF planVars, Components, PlanFits, Nodes, Incoming, Limit, Cyclic, Predecessors

\* A component whose nodes nobody touched.
LEMMA LocalStays ==
    ASSUME NEW c, Local(c), UNCHANGED planVars, status'[c] = status[c], queue'[c] = queue[c],
           current'[c] = current[c], produced'[c] = produced[c], inputs'[c] = inputs[c],
           \A n \in Nodes(c) : counts'[n] = counts[n] /\ (n \in skipped' <=> n \in skipped)
    PROVE  Local(c)'
<1>1. Nodes(c)' = Nodes(c) /\ Incoming(c)' = Incoming(c) /\ Limit(c)' = Limit(c)
  BY PlanStays
<1>2. \A n : Reason(c, n)' <=> Reason(c, n)
  BY <1>1 DEF Reason
<1>3. UNCHANGED <<edges, comp>>
  BY DEF planVars
<1>4. \A n \in queue[c] : n \in Nodes(c)
  BY DEF Local
<1> QED  BY <1>1, <1>2, <1>3, <1>4 DEF Local

\* The bounds of a component.
LEMMA LimitIs ==
    ASSUME TypeOK, NEW c
    PROVE  Limit(c) \in 1..MaxLoop
BY InterpreterAssumption DEF TypeOK, Limit

\* A step of one coroutine.
LEMMA CoroutineKeeps ==
    ASSUME SchedulerIInv, NEW c \in Node, TypeOK', Local(c)',
           UNCHANGED <<planVars, schedVars, inputs>>, Running(c),
           \/ status' = status /\ mailbox' = mailbox
           \/ \E result \in {"ok", "rejected", "error"} : Send(c, result),
           \A d \in Node : d # c => queue'[d] = queue[d] /\ current'[d] = current[d]
                                    /\ produced'[d] = produced[d],
           \A n \in Node : comp[n] # c => counts'[n] = counts[n] /\ (n \in skipped' <=> n \in skipped),
           produced[c] \subseteq produced'[c]
    PROVE  SchedulerIInv'
<1>0. /\ TypeOK /\ PlanFits /\ Accounted /\ EdgesFit /\ Ended /\ \A d \in Node : Local(d)
  BY DEF SchedulerIInv
<1>1. /\ Components' = Components /\ PlanFits'
      /\ \A d : Nodes(d)' = Nodes(d) /\ Incoming(d)' = Incoming(d) /\ Predecessors(d)' = Predecessors(d)
  BY <1>0, PlanStays
<1>2. /\ UNCHANGED <<pending, active, completed, edgeActive, main, stopAdmission, firstError,
                     rejected, cancelled, outcome, par, comp, edges>>
  BY DEF schedVars, planVars
<1>3. /\ \A d \in Node : d # c => status'[d] = status[d]
      /\ \/ status'[c] = status[c] /\ mailbox' = mailbox
         \/ status'[c] \in {"ok", "rejected", "error"} /\ mailbox' = mailbox \union {c}
  BY <1>0 DEF Send, TypeOK
<1>4. /\ status[c] \in {"run", "skip"} /\ c \notin mailbox \union completed /\ c \in Components
  BY <1>0 DEF Running, Accounted
<1>5. InFlight' = InFlight
  BY <1>3, <1>4 DEF InFlight, Running
<1>6. Accounted'
  <2>1. \A d \in Node : (status'[d] = "new" <=> status[d] = "new")
    BY <1>3, <1>4
  <2>2. \A d \in Node : d \in mailbox' \union completed <=> status'[d] \in {"ok", "rejected", "error"}
    BY <1>0, <1>3, <1>4 DEF Accounted
  <2>3. mailbox' \intersect completed = {} /\ mailbox' \subseteq Components
    BY <1>0, <1>3, <1>4 DEF Accounted
  <2> QED  BY <1>0, <1>1, <1>2, <1>5, <2>1, <2>2, <2>3 DEF Accounted
<1>7. \A d \in completed : d \in Node /\ d # c /\ status'[d] = status[d] /\ produced'[d] = produced[d]
  BY <1>0, <1>3, <1>4 DEF TypeOK
<1>8. EdgesFit'
  <2>1. \A d \in Components \ pending : Ready(d)' /\ inputs'[d] = Incoming(d) \intersect edgeActive
    BY <1>0, <1>1, <1>2 DEF EdgesFit, Ready
  <2> QED  BY <1>0, <1>1, <1>2, <1>7, <2>1 DEF EdgesFit
<1>9. Ended'
  BY <1>0, <1>2, <1>7 DEF Ended
<1>10. ASSUME NEW d \in Node, d # c PROVE Local(d)'
  <2>1. \A n \in Nodes(d) : n \in Node /\ comp[n] # c
    BY <1>10 DEF Nodes
  <2> QED  BY <1>0, <1>3, <1>10, <2>1, LocalStays
<1> QED  BY <1>1, <1>6, <1>8, <1>9, <1>10 DEF SchedulerIInv

\* A coroutine that has a node in flight, or runs, is that of a component.
LEMMA RunningIs ==
    ASSUME SchedulerIInv, NEW c \in Node
    PROVE  /\ TypeOK /\ Local(c) /\ status[c] \in {"new", "run", "skip", "ok", "rejected", "error"}
           /\ current[c] # 0 => Running(c) /\ status[c] = "run" /\ current[c] \in Nodes(c)
BY DEF SchedulerIInv, Local, Running, TypeOK

\* The next node starts.
LEMMA CallNodeKeeps ==
    ASSUME SchedulerIInv, NEW c \in Node, CallNode(c)
    PROVE  SchedulerIInv'
<1>0. /\ TypeOK /\ Local(c) /\ status[c] = "run" /\ current[c] = 0
      /\ UNCHANGED <<planVars, schedVars, mailbox, status, skipped, produced, inputs>>
  BY RunningIs DEF CallNode, Idle
<1>1. PICK n \in queue[c] :
         /\ queue' = [queue EXCEPT ![c] = queue[c] \ {n}]
         /\ current' = [current EXCEPT ![c] = n]
         /\ counts' = [counts EXCEPT ![n] = counts[n] + 1]
  BY DEF CallNode
<1>2. n \in Nodes(c) /\ n \in Node /\ comp[n] = c /\ counts[n] < Limit(c) /\ n # 0 /\ n \in 0..N
  BY <1>0, <1>1 DEF Local, Nodes, Node
<1>3. Limit(c) \in 1..MaxLoop /\ MaxLoop \in Nat /\ counts[n] \in 0..MaxLoop
  BY <1>0, <1>2, LimitIs, InterpreterAssumption DEF TypeOK
<1>4. counts[n] + 1 \in 0..MaxLoop /\ counts[n] + 1 <= Limit(c) /\ counts[n] + 1 > 0
  BY <1>2, <1>3
<1>5. /\ queue'[c] = queue[c] \ {n} /\ \A d \in Node : d # c => queue'[d] = queue[d]
      /\ current'[c] = n /\ \A d \in Node : d # c => current'[d] = current[d]
      /\ counts'[n] = counts[n] + 1 /\ \A m \in Node : m # n => counts'[m] = counts[m]
  BY <1>0, <1>1, <1>2 DEF TypeOK
<1>6. TypeOK'
  <2>1. /\ queue' \in [Node -> SUBSET Node] /\ current' \in [Node -> 0..N]
        /\ counts' \in [Node -> 0..MaxLoop]
    BY <1>0, <1>1, <1>2, <1>4 DEF TypeOK
  <2> QED  BY <1>0, <2>1 DEF TypeOK, planVars, schedVars
<1>7. Local(c)'
  <2>1. Nodes(c)' = Nodes(c) /\ Incoming(c)' = Incoming(c) /\ Limit(c)' = Limit(c)
    BY <1>0, PlanStays
  <2>2. \A m : Reason(c, m)' <=> Reason(c, m)
    BY <1>0, <2>1 DEF Reason
  <2>3. \A m \in Nodes(c) : m \in Node /\ m \notin skipped
    BY <1>0, <1>1 DEF Local, Nodes
  <2>4. UNCHANGED <<edges, comp>>
    BY <1>0 DEF planVars
  <2>5. \A m \in Nodes(c) : /\ counts'[m] <= Limit(c)
                            /\ counts'[m] > 0 \/ m \in queue'[c] <=> counts[m] > 0 \/ m \in queue[c]
    BY <1>0, <1>1, <1>4, <1>5, <2>3 DEF Local
  <2>6. queue'[c] \subseteq Nodes(c) /\ \A m \in queue'[c] : counts'[m] < Limit(c)
    BY <1>0, <1>5, <2>3 DEF Local
  <2>7. \A m \in Nodes(c) :
           /\ counts[m] > 0 \/ m \in queue[c] => Reason(c, m)
           /\ Reason(c, m) => counts[m] > 0 \/ m \in queue[c]
    BY <1>0 DEF Local
  <2>8. /\ \A e \in produced'[c] : e \in edges' /\ comp'[e[1]] = c
        /\ status'[c] = "run" /\ current'[c] \in Nodes(c)
    BY <1>0, <1>2, <1>5, <2>4 DEF Local
  <2>9. skipped' = skipped
    BY <1>0
  <2> QED  BY <2>1, <2>2, <2>3, <2>5, <2>6, <2>7, <2>8, <2>9 DEF Local
<1>8. \A m \in Node : comp[m] # c => counts'[m] = counts[m]
  BY <1>2, <1>5
<1> QED  BY <1>0, <1>5, <1>6, <1>7, <1>8, CoroutineKeeps DEF Running

\* A node returned, or was rejected.
LEMMA NodeEndsKeeps ==
    ASSUME SchedulerIInv, NEW c \in Node, NEW activated \in SUBSET Outgoing(current[c]),
           NodeReturns(c, activated) \/ NodeRejects(c, activated)
    PROVE  SchedulerIInv'
<1>0. /\ TypeOK /\ Local(c) /\ Running(c) /\ status[c] = "run" /\ current[c] \in Nodes(c)
      /\ current[c] # 0 /\ UNCHANGED <<planVars, schedVars, counts, skipped, inputs>>
      /\ current' = [current EXCEPT ![c] = 0]
      /\ produced' = [produced EXCEPT ![c] = produced[c] \union activated]
  BY RunningIs DEF NodeReturns, NodeRejects
<1>1. \A e \in activated : e \in edges /\ comp[e[1]] = c /\ e \in Node \X Node /\ e[2] \in Node
  BY <1>0 DEF Outgoing, Nodes, TypeOK
<1>2. /\ current'[c] = 0 /\ \A d \in Node : d # c => current'[d] = current[d]
      /\ produced'[c] = produced[c] \union activated
      /\ \A d \in Node : d # c => produced'[d] = produced[d]
  BY <1>0 DEF TypeOK
<1>3. current' \in [Node -> 0..N] /\ produced' \in [Node -> SUBSET (Node \X Node)]
  <2>1. 0 \in 0..N
    BY InterpreterAssumption
  <2>2. produced[c] \union activated \in SUBSET (Node \X Node)
    BY <1>0, <1>1 DEF TypeOK
  <2> QED  BY <1>0, <2>1, <2>2 DEF TypeOK
<1>4. /\ Nodes(c)' = Nodes(c) /\ Incoming(c)' = Incoming(c) /\ Limit(c)' = Limit(c)
      /\ UNCHANGED <<edges, comp>>
  BY <1>0, PlanStays DEF planVars
<1>5. \A m : Reason(c, m)' <=> Reason(c, m) \/ \E e \in activated : e[2] = m
  BY <1>0, <1>2, <1>4 DEF Reason
<1>6. /\ \A e \in produced'[c] : e \in edges' /\ comp'[e[1]] = c
      /\ \A m \in Nodes(c) : /\ m \in Node /\ m \notin skipped' /\ counts'[m] <= Limit(c)
                             /\ counts[m] > 0 \/ m \in queue[c] => Reason(c, m)
                             /\ Reason(c, m) => counts[m] > 0 \/ m \in queue[c]
      /\ queue[c] \subseteq Nodes(c) /\ \A m \in queue[c] : counts[m] < Limit(c)
  <2>1. \A m \in Nodes(c) : m \in Node
    BY DEF Nodes
  <2> QED  BY <1>0, <1>1, <1>2, <1>4, <2>1 DEF Local
<1>7. CASE NodeReturns(c, activated)
  <2> DEFINE targets == {e[2] : e \in {d \in activated : comp[d[2]] = c}}
             more == Requeue(c, targets)
  <2>1. queue' = [queue EXCEPT ![c] = queue[c] \union more] /\ UNCHANGED <<mailbox, status>>
    BY <1>0, <1>7 DEF NodeReturns, TypeOK
  <2>2. \A m : m \in more <=> /\ m \in Nodes(c) /\ counts[m] < Limit(c)
                              /\ \E e \in activated : e[2] = m
    BY <1>1 DEF Requeue, Nodes
  <2> HIDE DEF more, targets
  <2>3. queue'[c] = queue[c] \union more /\ \A d \in Node : d # c => queue'[d] = queue[d]
    BY <1>0, <2>1 DEF TypeOK
  <2>4. queue' \in [Node -> SUBSET Node]
    <3>1. queue[c] \union more \in SUBSET Node
      BY <1>0, <2>2 DEF TypeOK, Nodes
    <3> QED  BY <1>0, <2>1, <3>1 DEF TypeOK
  <2>5. TypeOK'
    BY <1>0, <1>3, <2>1, <2>4 DEF TypeOK, planVars, schedVars
  <2>6. \A m \in Nodes(c) : Reason(c, m)' <=> counts'[m] > 0 \/ m \in queue'[c]
    <3>1. ASSUME NEW m \in Nodes(c) PROVE Reason(c, m)' <=> counts[m] > 0 \/ m \in queue'[c]
      <4>1. counts[m] \in Nat /\ Limit(c) \in Nat /\ Limit(c) >= 1
        <5>1. counts[m] \in 0..MaxLoop /\ Limit(c) \in 1..MaxLoop /\ MaxLoop \in Nat
          BY <1>0, <1>6, LimitIs, InterpreterAssumption DEF TypeOK
        <5> QED  BY <5>1
      <4>2. ~ (counts[m] < Limit(c)) => counts[m] > 0
        BY <4>1
      <4>3. /\ counts[m] > 0 \/ m \in queue[c] <=> Reason(c, m)
            /\ m \in more <=> counts[m] < Limit(c) /\ \E e \in activated : e[2] = m
            /\ Reason(c, m)' <=> Reason(c, m) \/ \E e \in activated : e[2] = m
            /\ m \in queue'[c] <=> m \in queue[c] \/ m \in more
        BY <1>5, <1>6, <2>2, <2>3
      <4> QED  BY <4>2, <4>3
    <3> QED  BY <1>0, <3>1
  <2>7. queue'[c] \subseteq Nodes(c) /\ \A m \in queue'[c] : counts'[m] < Limit(c)
    BY <1>0, <1>6, <2>2, <2>3
  <2>8. status'[c] = "run" /\ skipped' = skipped
    BY <1>0, <2>1
  <2>9. Local(c)'
    BY <1>2, <1>4, <1>6, <2>6, <2>7, <2>8 DEF Local
  <2> QED  BY <1>0, <1>2, <2>1, <2>3, <2>5, <2>9, CoroutineKeeps
<1>8. CASE NodeRejects(c, activated)
  <2>1. UNCHANGED queue /\ Send(c, "rejected")
    BY <1>8 DEF NodeRejects
  <2>2. status' = [status EXCEPT ![c] = "rejected"] /\ mailbox' = mailbox \union {c}
    BY <2>1 DEF Send
  <2>3. TypeOK'
    <3>1. status' \in [Node -> {"new", "run", "skip", "ok", "rejected", "error"}] /\ mailbox' \subseteq Node
      BY <1>0, <2>2 DEF TypeOK
    <3> QED  BY <1>0, <1>3, <2>1, <3>1 DEF TypeOK, planVars, schedVars
  <2>4. status'[c] = "rejected"
    BY <1>0, <2>2 DEF TypeOK
  <2>5. \A m \in Nodes(c) : counts'[m] > 0 \/ m \in queue'[c] => Reason(c, m)'
    BY <1>0, <1>5, <1>6, <2>1
  <2>6. queue'[c] \subseteq Nodes(c) /\ \A m \in queue'[c] : counts'[m] < Limit(c)
    BY <1>0, <1>6, <2>1
  <2>7. Local(c)'
    BY <1>2, <1>4, <1>6, <2>4, <2>5, <2>6 DEF Local
  <2>8. \E result \in {"ok", "rejected", "error"} : Send(c, result)
    BY <2>1
  <2> QED  BY <1>0, <1>2, <2>1, <2>3, <2>7, <2>8, CoroutineKeeps
<1> QED  BY <1>7, <1>8

\* A component fails, skips a node, or ends.
LEMMA ComponentEndsKeeps ==
    ASSUME SchedulerIInv, NEW c \in Node, ComponentFails(c) \/ SkipNode(c) \/ ComponentEnds(c)
    PROVE  SchedulerIInv'
<1>0. /\ TypeOK /\ Local(c) /\ Running(c) /\ status[c] \in {"run", "skip"}
      /\ UNCHANGED <<planVars, schedVars, queue, counts, produced, inputs>>
  BY RunningIs DEF ComponentFails, SkipNode, ComponentEnds, Running
<1>1. /\ Nodes(c)' = Nodes(c) /\ Incoming(c)' = Incoming(c) /\ Limit(c)' = Limit(c)
      /\ UNCHANGED <<edges, comp>>
  BY <1>0, PlanStays DEF planVars
<1>2. \A m : Reason(c, m)' <=> Reason(c, m)
  BY <1>0, <1>1 DEF Reason
<1>3. /\ \A e \in produced'[c] : e \in edges' /\ comp'[e[1]] = c
      /\ \A m \in Nodes(c) : /\ m \in Node /\ counts'[m] <= Limit(c)
                             /\ m \in skipped => counts'[m] = 0 /\ queue'[c] = {} /\ current[c] = 0
                             /\ counts'[m] > 0 \/ m \in queue'[c] => Reason(c, m)
                             /\ Reason(c, m) => counts'[m] > 0 \/ m \in queue'[c]
      /\ queue'[c] \subseteq Nodes(c) /\ \A m \in queue'[c] : counts'[m] < Limit(c)
  <2>1. \A m \in Nodes(c) : m \in Node
    BY DEF Nodes
  <2> QED  BY <1>0, <1>1, <2>1 DEF Local
<1>4. CASE ComponentFails(c)
  <2>1. current' = [current EXCEPT ![c] = 0] /\ Send(c, "error") /\ UNCHANGED skipped
    BY <1>4 DEF ComponentFails
  <2>2. status' = [status EXCEPT ![c] = "error"] /\ mailbox' = mailbox \union {c}
    BY <2>1 DEF Send
  <2>3. TypeOK'
    <3>1. /\ status' \in [Node -> {"new", "run", "skip", "ok", "rejected", "error"}]
          /\ mailbox' \subseteq Node
      BY <1>0, <2>2 DEF TypeOK
    <3>2. current' \in [Node -> 0..N]
      <4>1. 0 \in 0..N
        BY InterpreterAssumption
      <4> QED  BY <1>0, <2>1, <4>1 DEF TypeOK
    <3> QED  BY <1>0, <2>1, <3>1, <3>2 DEF TypeOK, planVars, schedVars
  <2>4. /\ status'[c] = "error" /\ current'[c] = 0
        /\ \A d \in Node : d # c => current'[d] = current[d]
    BY <1>0, <2>1, <2>2 DEF TypeOK
  <2>5. Local(c)'
    BY <1>1, <1>2, <1>3, <2>1, <2>4 DEF Local
  <2>6. \E result \in {"ok", "rejected", "error"} : Send(c, result)
    BY <2>1
  <2> QED  BY <1>0, <2>1, <2>3, <2>4, <2>5, <2>6, CoroutineKeeps
<1>5. CASE SkipNode(c)
  <2>1. PICK n \in ToSkip(c) : skipped' = skipped \union {n}
    BY <1>5 DEF SkipNode
  <2>2. UNCHANGED <<status, mailbox, current>> /\ queue[c] = {} /\ current[c] = 0
    BY <1>5 DEF SkipNode
  <2>3. n \in Nodes(c) /\ counts[n] = 0 /\ n \in Node /\ comp[n] = c
    BY DEF ToSkip, Nodes
  <2>4. TypeOK'
    <3>1. skipped' \subseteq Node
      BY <1>0, <2>1, <2>3 DEF TypeOK
    <3> QED  BY <1>0, <2>2, <3>1 DEF TypeOK, planVars, schedVars
  <2>5. \A m \in Nodes(c) : m \in skipped' => counts'[m] = 0 /\ queue'[c] = {} /\ current'[c] = 0
    BY <1>0, <1>3, <2>1, <2>2, <2>3
  <2>6. status'[c] \in {"run", "skip"} /\ current'[c] = 0 /\ queue'[c] = {}
    BY <1>0, <2>2
  <2>7. Local(c)'
    BY <1>1, <1>2, <1>3, <2>5, <2>6 DEF Local
  <2>8. \A m \in Node : comp[m] # c => (m \in skipped' <=> m \in skipped)
    BY <2>1, <2>3
  <2> QED  BY <1>0, <2>2, <2>4, <2>7, <2>8, CoroutineKeeps
<1>6. CASE ComponentEnds(c)
  <2>1. /\ Send(c, "ok") /\ UNCHANGED <<current, skipped>> /\ queue[c] = {} /\ current[c] = 0
        /\ ToSkip(c) = {}
    BY <1>6 DEF ComponentEnds
  <2>2. status' = [status EXCEPT ![c] = "ok"] /\ mailbox' = mailbox \union {c}
    BY <2>1 DEF Send
  <2>3. TypeOK'
    <3>1. /\ status' \in [Node -> {"new", "run", "skip", "ok", "rejected", "error"}]
          /\ mailbox' \subseteq Node
      BY <1>0, <2>2 DEF TypeOK
    <3> QED  BY <1>0, <2>1, <3>1 DEF TypeOK, planVars, schedVars
  <2>4. status'[c] = "ok"
    BY <1>0, <2>2 DEF TypeOK
  <2>5. \A m \in Nodes(c) : counts'[m] > 0 \/ m \in skipped'
    <3>1. \A m \in Nodes(c) : counts[m] = 0 => m \in skipped
      BY <2>1 DEF ToSkip
    <3>2. \A m \in Nodes(c) : counts[m] \in Nat
      BY <1>0, <1>3, InterpreterAssumption DEF TypeOK
    <3> QED  BY <1>0, <2>1, <3>1, <3>2
  <2>6. Local(c)'
    BY <1>0, <1>1, <1>2, <1>3, <2>1, <2>4, <2>5 DEF Local
  <2>7. \E result \in {"ok", "rejected", "error"} : Send(c, result)
    BY <2>1
  <2> QED  BY <1>0, <2>1, <2>3, <2>6, <2>7, CoroutineKeeps
<1> QED  BY <1>4, <1>5, <1>6

\* What is in flight is finite; with nothing in flight every component is
\* pending or completed.
LEMMA InFlightIs ==
    ASSUME SchedulerIInv
    PROVE  /\ InFlight \in SUBSET Node /\ IsFiniteSet(InFlight) /\ active \in Nat
           /\ active = 0 => /\ mailbox = {} /\ \A c \in Node : ~ Running(c)
                            /\ Components \subseteq pending \union completed
<1>0. TypeOK /\ PlanFits /\ Accounted
  BY DEF SchedulerIInv
<1>1. InFlight \in SUBSET Node /\ IsFiniteSet(InFlight)
  <2>1. InFlight \in SUBSET Node
    BY <1>0 DEF InFlight, TypeOK
  <2> QED  BY <2>1, NodesFinite
<1>2. active \in Nat /\ active = Cardinality(InFlight)
  BY <1>0 DEF Accounted, TypeOK
<1>3. active = 0 => InFlight = {}
  BY <1>1, <1>2, FS_EmptySet
<1>4. active = 0 => mailbox = {} /\ \A c \in Node : ~ Running(c)
  BY <1>3 DEF InFlight
<1>5. ASSUME active = 0, NEW c \in Components, c \notin pending PROVE c \in completed
  <2>1. c \in Node
    BY <1>0, PlanIs
  <2>2. status[c] # "new" /\ status[c] \notin {"run", "skip"}
    BY <1>0, <1>4, <1>5, <2>1 DEF Accounted, Running
  <2>3. status[c] \in {"ok", "rejected", "error"}
    BY <1>0, <2>1, <2>2 DEF TypeOK
  <2> QED  BY <1>0, <1>4, <1>5, <2>1, <2>3 DEF Accounted
<1> QED  BY <1>1, <1>2, <1>4, <1>5

\* The nodes a component starts with are those with a reason.
LEMMA StartHasReason ==
    ASSUME TypeOK, PlanFits, NEW c \in Components, ComponentActive(c)
    PROVE  /\ StartQueue(c) \subseteq Nodes(c)
           /\ \A n \in Nodes(c) : n \in StartQueue(c) <=>
                 \/ Incoming(c) = {} /\ n = c
                 \/ \E e \in Incoming(c) \intersect edgeActive : e[2] = n
<1>0. /\ Least(Nodes(c)) = c /\ c \in Nodes(c)
      /\ ~ Cyclic(c) => \A m, n \in Nodes(c) : m = n
      /\ \A e \in edges : e[1] \in Node /\ e[2] \in Node
  BY PlanIs
<1>1. \A e \in Incoming(c) : e[2] \in Nodes(c)
  BY <1>0 DEF Incoming, Nodes
<1>2. CASE Incoming(c) = {}
  BY <1>0, <1>2 DEF StartQueue
<1>3. CASE Incoming(c) # {} /\ Cyclic(c)
  BY <1>1, <1>3 DEF StartQueue
<1>4. CASE Incoming(c) # {} /\ ~ Cyclic(c)
  <2>1. StartQueue(c) = {c}
    BY <1>0, <1>4 DEF StartQueue
  <2>2. PICK e \in Incoming(c) \intersect edgeActive : TRUE
    BY <1>4 DEF ComponentActive
  <2>3. \A n \in Nodes(c) : n = c /\ e[2] = n
    BY <1>0, <1>1, <1>4, <2>2
  <2> QED  BY <1>0, <1>4, <2>1, <2>2, <2>3
<1> QED  BY <1>2, <1>3, <1>4

\* A component is admitted.
LEMMA AdmitKeeps ==
    ASSUME SchedulerIInv, Admit
    PROVE  SchedulerIInv'
<1>0. /\ TypeOK /\ PlanFits /\ Accounted /\ EdgesFit /\ Ended /\ \A d \in Node : Local(d)
      /\ main = "admit" /\ active < par /\ active' = active + 1
      /\ UNCHANGED <<planVars, completed, edgeActive, main, stopAdmission, firstError, rejected,
                     cancelled, outcome, mailbox, current, counts, skipped, produced>>
  BY DEF SchedulerIInv, Admit, CanAdmit
<1>1. PICK c \in pending :
         /\ Ready(c) /\ pending' = pending \ {c}
         /\ inputs' = [inputs EXCEPT ![c] = Incoming(c) \intersect edgeActive]
         /\ status' = [status EXCEPT ![c] = IF ComponentActive(c) THEN "run" ELSE "skip"]
         /\ queue' = [queue EXCEPT ![c] = IF ComponentActive(c) THEN StartQueue(c) ELSE {}]
  BY DEF Admit, NextReady
<1>2. /\ c \in Components /\ c \in Node /\ status[c] = "new" /\ c \notin mailbox \union completed
      /\ c \notin InFlight
  <2>1. c \in Components /\ c \in Node /\ status[c] = "new"
    BY <1>0, PlanIs DEF Accounted
  <2> QED  BY <1>0, <2>1 DEF Accounted, InFlight, Running
<1>3. /\ Components' = Components /\ PlanFits'
      /\ \A d : Nodes(d)' = Nodes(d) /\ Incoming(d)' = Incoming(d) /\ Predecessors(d)' = Predecessors(d)
                /\ Limit(d)' = Limit(d)
      /\ UNCHANGED <<edges, comp, par>>
  BY <1>0, PlanStays DEF planVars
<1> DEFINE q == IF ComponentActive(c) THEN StartQueue(c) ELSE {}
           l == IF ComponentActive(c) THEN "run" ELSE "skip"
           i == Incoming(c) \intersect edgeActive
<1>4. /\ q \subseteq Nodes(c) /\ q \in SUBSET Node
      /\ \A n \in Nodes(c) : n \in q <=> (Incoming(c) = {} /\ n = c) \/ \E e \in i : e[2] = n
      /\ l \in {"run", "skip"} /\ (l = "skip" => q = {})
  <2>1. Nodes(c) \subseteq Node
    BY DEF Nodes
  <2>2. CASE ComponentActive(c)
    BY <1>0, <1>2, <2>1, <2>2, StartHasReason
  <2>3. CASE ~ ComponentActive(c)
    BY <2>3 DEF ComponentActive
  <2> QED  BY <2>2, <2>3
<1>5. i \in SUBSET (Node \X Node)
  BY <1>0 DEF TypeOK, Incoming
<1>6. /\ inputs' = [inputs EXCEPT ![c] = i] /\ status' = [status EXCEPT ![c] = l]
      /\ queue' = [queue EXCEPT ![c] = q]
  BY <1>1
<1> HIDE DEF q, l
<1>7. /\ status'[c] = l /\ queue'[c] = q /\ inputs'[c] = i
      /\ \A d \in Node : d # c => status'[d] = status[d] /\ queue'[d] = queue[d] /\ inputs'[d] = inputs[d]
  BY <1>0, <1>2, <1>6 DEF TypeOK
<1>8. TypeOK'
  <2>1. /\ inputs' \in [Node -> SUBSET (Node \X Node)] /\ queue' \in [Node -> SUBSET Node]
        /\ status' \in [Node -> {"new", "run", "skip", "ok", "rejected", "error"}]
    BY <1>0, <1>4, <1>5, <1>6 DEF TypeOK
  <2>2. active' \in Nat /\ pending' \subseteq Node
    BY <1>0, <1>1 DEF TypeOK
  <2> QED  BY <1>0, <2>1, <2>2 DEF TypeOK, planVars
<1>9. Accounted'
  <2>1. InFlight' = InFlight \union {c}
    BY <1>0, <1>2, <1>4, <1>7 DEF InFlight, Running
  <2>2. Cardinality(InFlight') = active + 1
    BY <1>0, <1>2, <2>1, InFlightIs, FS_AddElement DEF Accounted
  <2>3. active + 1 <= par
    BY <1>0 DEF TypeOK
  <2>4. \A d \in Node : status'[d] = "new" <=> d \notin Components \/ d \in pending'
    BY <1>0, <1>1, <1>2, <1>4, <1>7 DEF Accounted
  <2>5. \A d \in Node : d \in mailbox \union completed <=> status'[d] \in {"ok", "rejected", "error"}
    BY <1>0, <1>2, <1>4, <1>7 DEF Accounted
  <2> QED  BY <1>0, <1>1, <1>3, <2>2, <2>3, <2>4, <2>5 DEF Accounted
<1>10. \A d \in completed : d \in Node /\ d # c /\ status'[d] = status[d]
  BY <1>0, <1>2, <1>7 DEF TypeOK
<1>11. EdgesFit'
  <2>1. ASSUME NEW d \in Components, d \notin pending'
        PROVE  Ready(d)' /\ inputs'[d] = Incoming(d) \intersect edgeActive
    <3>1. d \in Node
      BY <1>0, PlanIs
    <3>2. Ready(d) /\ inputs'[d] = Incoming(d) \intersect edgeActive
      BY <1>0, <1>1, <1>7, <2>1, <3>1 DEF EdgesFit
    <3> QED  BY <1>0, <1>3, <3>2 DEF Ready
  <2> QED  BY <1>0, <1>3, <1>10, <2>1 DEF EdgesFit
<1>12. Ended'
  BY <1>0, <1>10 DEF Ended
<1>13. Local(c)'
  <2>1. \A m : Reason(c, m)' <=> (Incoming(c) = {} /\ m = c) \/ \E e \in i : e[2] = m
    <3>1. produced'[c] = {}
      BY <1>0, <1>2 DEF Local
    <3> QED  BY <1>3, <1>7, <3>1 DEF Reason
  <2>2. Limit(c) \in 1..MaxLoop /\ MaxLoop \in Nat
    BY <1>0, LimitIs, InterpreterAssumption
  <2>3. \A m \in Nodes(c) : counts'[m] = 0 /\ m \notin skipped'
    BY <1>0, <1>2 DEF Local
  <2>4. \A m \in Nodes(c) : counts'[m] < Limit(c) /\ counts'[m] <= Limit(c) /\ ~ (counts'[m] > 0)
    BY <2>2, <2>3
  <2>5. current'[c] = 0 /\ produced'[c] = {}
    BY <1>0, <1>2 DEF Local
  <2> HIDE DEF i
  <2> QED  BY <1>3, <1>4, <1>7, <2>1, <2>3, <2>4, <2>5 DEF Local
<1>14. ASSUME NEW d \in Node, d # c PROVE Local(d)'
  BY <1>0, <1>7, <1>14, LocalStays
<1> QED  BY <1>3, <1>8, <1>9, <1>11, <1>12, <1>13, <1>14 DEF SchedulerIInv

\* The result of a component is received.
LEMMA ReceiveKeeps ==
    ASSUME SchedulerIInv, NEW c \in Node, Receive(c)
    PROVE  SchedulerIInv'
<1>0. /\ TypeOK /\ PlanFits /\ Accounted /\ EdgesFit /\ Ended /\ \A d \in Node : Local(d)
      /\ main = "admit" /\ c \in mailbox /\ mailbox' = mailbox \ {c} /\ active' = active - 1
      /\ completed' = completed \union {c}
      /\ UNCHANGED <<planVars, pending, cancelled, outcome, status, queue, current, counts,
                     skipped, produced, inputs>>
  BY DEF SchedulerIInv, Receive
<1>1. /\ Components' = Components /\ PlanFits'
      /\ \A d : Nodes(d)' = Nodes(d) /\ Incoming(d)' = Incoming(d) /\ Predecessors(d)' = Predecessors(d)
      /\ UNCHANGED <<edges, comp, par>>
  BY <1>0, PlanStays DEF planVars
<1>2. /\ c \in Components /\ c \notin completed /\ c \notin pending
      /\ status[c] \in {"ok", "rejected", "error"}
  BY <1>0 DEF Accounted
<1>3. \/ /\ status[c] = "error" /\ main' \in {"admit", "stop"} /\ firstError' = TRUE
         /\ stopAdmission' = TRUE /\ UNCHANGED <<edgeActive, rejected>>
      \/ /\ status[c] # "error" /\ edgeActive' = edgeActive \union produced[c]
         /\ rejected' = (rejected \/ status[c] = "rejected")
         /\ stopAdmission' \in BOOLEAN /\ (stopAdmission' => stopAdmission \/ rejected')
         /\ main' \in {"admit", "stop"} /\ UNCHANGED firstError
  <2>1. rejected \in BOOLEAN /\ stopAdmission \in BOOLEAN
    BY <1>0 DEF TypeOK
  <2>2. CASE status[c] = "error"
    BY <2>2 DEF Receive
  <2>3. CASE status[c] # "error"
    <3> DEFINE first == status[c] = "rejected" /\ ~ rejected
    <3>1. /\ edgeActive' = edgeActive \union produced[c] /\ rejected' = (rejected \/ first)
          /\ stopAdmission' = (stopAdmission \/ first)
          /\ main' = (IF first THEN "stop" ELSE "admit") /\ UNCHANGED firstError
      BY <2>3 DEF Receive
    <3>2. (rejected \/ first) = (rejected \/ status[c] = "rejected")
      BY <2>1
    <3>3. (stopAdmission \/ first) \in BOOLEAN /\ (first => rejected \/ first)
      BY <2>1
    <3> QED  BY <2>1, <2>3, <3>1, <3>2, <3>3
  <2> QED  BY <2>2, <2>3
<1>4. /\ edgeActive' \subseteq edges /\ edgeActive \subseteq edgeActive'
      /\ \A e \in edgeActive' : e \in edgeActive \/ (e \in produced[c] /\ comp[e[1]] = c)
      /\ (status[c] # "error" => produced[c] \subseteq edgeActive')
  <2>1. \A e \in produced[c] : e \in edges /\ comp[e[1]] = c
    BY <1>0 DEF Local
  <2> QED  BY <1>0, <1>3, <2>1 DEF TypeOK
<1>5. InFlight' = InFlight \ {c} /\ c \in InFlight
  BY <1>0, <1>2 DEF InFlight, Running
<1>6. active - 1 \in Nat /\ active - 1 = Cardinality(InFlight') /\ active - 1 <= par
  <2>1. /\ IsFiniteSet(InFlight) /\ active = Cardinality(InFlight) /\ active \in Nat /\ active <= par
        /\ par \in Nat
    BY <1>0, InFlightIs, InterpreterAssumption DEF Accounted, TypeOK
  <2>2. active # 0
    BY <1>5, <2>1, FS_EmptySet
  <2>3. Cardinality(InFlight \ {c}) = Cardinality(InFlight) - 1
    BY <1>5, <2>1, FS_RemoveElement
  <2> QED  BY <1>5, <2>1, <2>2, <2>3
<1>7. TypeOK'
  <2>1. {stopAdmission', firstError', rejected', cancelled'} \subseteq BOOLEAN
    BY <1>0, <1>3 DEF TypeOK
  <2>2. main' \in {"admit", "stop", "done"}
    BY <1>3
  <2>3. completed' \subseteq Node /\ mailbox' \subseteq Node /\ active' \in Nat
    BY <1>0, <1>6 DEF TypeOK
  <2> QED  BY <1>0, <1>4, <2>1, <2>2, <2>3 DEF TypeOK, planVars
<1>8. Accounted'
  BY <1>0, <1>1, <1>2, <1>6 DEF Accounted
<1>9. EdgesFit'
  <2>1. ASSUME NEW d \in Components, d \notin pending
        PROVE  Ready(d)' /\ inputs[d] = Incoming(d) \intersect edgeActive'
    <3>1. Predecessors(d) \subseteq completed /\ inputs[d] = Incoming(d) \intersect edgeActive
      BY <1>0, <2>1 DEF EdgesFit, Ready
    <3>2. ASSUME NEW e \in Incoming(d), e \in edgeActive' PROVE e \in edgeActive
      <4>1. comp[e[1]] \in completed
        BY <3>1 DEF Predecessors
      <4> QED  BY <1>2, <1>4, <3>2, <4>1
    <3> QED  BY <1>0, <1>1, <1>4, <3>1, <3>2 DEF Ready
  <2>2. \A e \in edgeActive' : comp[e[1]] \in completed' /\ e \in produced[comp[e[1]]]
    BY <1>0, <1>4 DEF EdgesFit
  <2>3. ASSUME NEW d \in completed', status[d] # "error" PROVE produced[d] \subseteq edgeActive'
    <3>1. CASE d = c
      BY <1>4, <2>3, <3>1
    <3>2. CASE d \in completed
      <4>1. produced[d] \subseteq edgeActive
        BY <1>0, <2>3, <3>2 DEF EdgesFit
      <4> QED  BY <1>4, <4>1
    <3> QED  BY <1>0, <2>3, <3>1, <3>2
  <2> QED  BY <1>0, <1>1, <2>1, <2>2, <2>3 DEF EdgesFit
<1>10. Ended'
  <2>1. /\ firstError => firstError'
        /\ rejected => rejected'
        /\ status[c] = "error" => firstError'
        /\ status[c] = "rejected" => rejected'
        /\ stopAdmission' => firstError' \/ rejected'
        /\ main' # "done"
    <3>1. (stopAdmission => firstError \/ rejected) /\ {stopAdmission, firstError, rejected} \subseteq BOOLEAN
      BY <1>0 DEF Ended, TypeOK
    <3>2. CASE status[c] = "error"
      BY <1>3, <3>1, <3>2
    <3>3. CASE status[c] # "error"
      <4>1. /\ rejected' = (rejected \/ status[c] = "rejected") /\ UNCHANGED firstError
            /\ (stopAdmission' => stopAdmission \/ rejected') /\ main' \in {"admit", "stop"}
        BY <1>3, <3>3
      <4>2. rejected => rejected'
        BY <4>1, Zenon
      <4>3. status[c] = "rejected" => rejected'
        BY <4>1, Zenon
      <4>4. stopAdmission' => firstError' \/ rejected'
        BY <3>1, <4>1, <4>2
      <4> QED  BY <3>3, <4>1, <4>2, <4>3, <4>4
    <3> QED  BY <3>2, <3>3
  <2>2. outcome' = "none"
    BY <1>0 DEF Ended
  <2>3. ASSUME NEW d \in completed'
        PROVE  /\ status[d] = "error" => firstError'
               /\ status[d] = "rejected" => rejected'
    BY <1>0, <2>1 DEF Ended
  <2> QED  BY <1>0, <2>1, <2>2, <2>3 DEF Ended
<1>11. \A d \in Node : Local(d)'
  BY <1>0, LocalStays
<1> QED  BY <1>1, <1>7, <1>8, <1>9, <1>10, <1>11 DEF SchedulerIInv

\* The scheduler cancels, or ends the Run.
LEMMA SchedulerEndsKeeps ==
    ASSUME SchedulerIInv, CancelScheduler \/ Terminate
    PROVE  SchedulerIInv'
<1>0. /\ TypeOK /\ PlanFits /\ Accounted /\ EdgesFit /\ Ended /\ \A d \in Node : Local(d)
      /\ UNCHANGED <<planVars, pending, active, completed, edgeActive, stopAdmission, firstError,
                     rejected, coVars>>
  BY DEF SchedulerIInv, CancelScheduler, Terminate, End
<1>1. UNCHANGED <<mailbox, status, queue, current, counts, skipped, produced, inputs>>
  BY <1>0 DEF coVars
<1>2. /\ Components' = Components /\ PlanFits'
      /\ \A d : Nodes(d)' = Nodes(d) /\ Incoming(d)' = Incoming(d) /\ Predecessors(d)' = Predecessors(d)
      /\ UNCHANGED <<edges, comp, par>>
  BY <1>0, PlanStays DEF planVars
<1>3. Accounted' /\ EdgesFit' /\ \A d \in Node : Local(d)'
  <2>1. InFlight' = InFlight
    BY <1>1 DEF InFlight, Running
  <2>2. \A d \in Node : Local(d)'
    BY <1>0, <1>1, LocalStays
  <2>3. \A d : Ready(d)' <=> Ready(d)
    BY <1>0, <1>2 DEF Ready
  <2> QED  BY <1>0, <1>1, <1>2, <2>1, <2>2, <2>3 DEF Accounted, EdgesFit
<1>4. CASE CancelScheduler
  <2>1. main = "stop" /\ main' = "admit" /\ cancelled' = TRUE /\ UNCHANGED outcome
    BY <1>4 DEF CancelScheduler
  <2>2. TypeOK'
    BY <1>0, <1>1, <2>1 DEF TypeOK, planVars
  <2>3. Ended'
    BY <1>0, <1>1, <2>1 DEF Ended
  <2> QED  BY <1>2, <1>3, <2>2, <2>3 DEF SchedulerIInv
<1>5. CASE Terminate
  <2> DEFINE result == CASE firstError -> "failed"
                         [] ~ firstError /\ rejected -> "rejected"
                         [] ~ stopAdmission /\ pending # {} -> "deadlock"
                         [] OTHER -> "succeeded"
  <2>1. /\ main = "admit" /\ ~ CanAdmit /\ active = 0 /\ main' = "done" /\ outcome' = result
        /\ UNCHANGED cancelled
    BY <1>5 DEF Terminate, End, NoneActive
  <2>2. pending = {} \/ stopAdmission
    <3>1. SUFFICES ASSUME pending # {}, ~ stopAdmission PROVE FALSE
      OBVIOUS
    <3>2. Components \subseteq pending \union completed /\ pending \subseteq Components
      BY <1>0, <2>1, InFlightIs DEF Accounted
    <3>3. \E c \in pending : Ready(c)
      BY <1>0, <3>1, <3>2, SomeReady
    <3>4. active < par
      BY <1>0, <2>1 DEF TypeOK
    <3> QED  BY <2>1, <3>1, <3>3, <3>4 DEF CanAdmit
  <2>3. /\ firstError => result = "failed"
        /\ ~ firstError /\ rejected => result = "rejected"
        /\ ~ firstError /\ ~ rejected => result = "succeeded" /\ pending = {}
    <3>1. CASE firstError
      BY <2>2, <3>1
    <3>2. CASE ~ firstError /\ rejected
      BY <2>2, <3>2
    <3>3. CASE ~ firstError /\ ~ rejected
      <4>1. ~ stopAdmission /\ pending = {}
        BY <1>0, <2>2, <3>3 DEF Ended
      <4> QED  BY <3>3, <4>1
    <3> QED  BY <3>1, <3>2, <3>3
  <2> HIDE DEF result
  <2>4. TypeOK'
    BY <1>0, <1>1, <2>1, <2>3 DEF TypeOK, planVars
  <2>5. Ended'
    BY <1>0, <1>1, <2>1, <2>3 DEF Ended
  <2> QED  BY <1>2, <1>3, <2>4, <2>5 DEF SchedulerIInv
<1> QED  BY <1>4, <1>5

\* Before anything is admitted nothing is in flight and no node has a count.
LEMMA InterpreterStarts == Init => SchedulerIInv
<1> SUFFICES ASSUME Init PROVE SchedulerIInv
  OBVIOUS
<1>0. N \in Nat \ {0} /\ MaxParallel \in Nat \ {0} /\ MaxLoop \in Nat \ {0}
  BY InterpreterAssumption
<1>1. PlanFits /\ edges \in Graph
  BY DEF Init, PlanFits, Graph
<1>2. comp \in [Node -> Node]
  <2>1. \A n \in Node : ComponentOf(n, edges) \in Node
    BY <1>1, ComponentIs
  <2> QED  BY <1>1, <2>1 DEF PlanFits
<1>3. rank \in [Node -> Nat]
  <2>1. ASSUME NEW P, NEW c PROVE Cardinality({k \in 0..N : c \notin P[k]}) \in Nat
    <3>1. IsFiniteSet(0..N)
      BY <1>0, FS_Interval
    <3>2. IsFiniteSet({k \in 0..N : c \notin P[k]})
      BY <3>1, FS_Subset
    <3> QED  BY <3>2, FS_CardinalityType
  <2>2. \A P : [c \in Node |-> Cardinality({k \in 0..N : c \notin P[k]})] \in [Node -> Nat]
    BY <2>1
  <2>3. Order \in [Node -> Nat]
    BY <2>2, Zenon DEF Order
  <2> QED  BY <2>3 DEF Init
<1>4. Components \subseteq Node
  BY <1>2 DEF Components
<1>5. TypeOK
  <2>1. current \in [Node -> 0..N] /\ counts \in [Node -> 0..MaxLoop] /\ active \in Nat
    BY <1>0 DEF Init
  <2>2. {stopAdmission, firstError, rejected, cancelled} \subseteq BOOLEAN
    BY DEF Init
  <2> QED  BY <1>2, <1>3, <1>4, <2>1, <2>2 DEF Init, TypeOK
<1>6. InFlight = {}
  BY DEF Init, InFlight, Running
<1>7. Accounted
  <2>1. active = Cardinality(InFlight) /\ active <= par
    BY <1>0, <1>6, FS_EmptySet DEF Init
  <2> QED  BY <1>4, <2>1 DEF Init, Accounted
<1>8. EdgesFit /\ Ended
  BY DEF Init, EdgesFit, Ended
<1>9. ASSUME NEW c \in Node PROVE Local(c)
  <2>1. Limit(c) \in 1..MaxLoop
    BY <1>5, LimitIs
  <2>2. /\ status[c] = "new" /\ queue[c] = {} /\ produced[c] = {} /\ current[c] = 0 /\ skipped = {}
        /\ \A n \in Nodes(c) : counts[n] = 0
    BY DEF Init, Nodes
  <2> QED  BY <1>0, <2>1, <2>2 DEF Local
<1> QED  BY <1>1, <1>5, <1>7, <1>8, <1>9 DEF SchedulerIInv

\* Every step keeps the invariant.
LEMMA SchedulerSteps == SchedulerIInv /\ [Next]_vars => SchedulerIInv'
<1> SUFFICES ASSUME SchedulerIInv, [Next]_vars PROVE SchedulerIInv'
  OBVIOUS
<1>1. CASE Scheduler
  BY <1>1, AdmitKeeps, ReceiveKeeps, SchedulerEndsKeeps DEF Scheduler
<1>2. ASSUME NEW c \in Node, Coroutine(c) PROVE SchedulerIInv'
  BY <1>2, NodeEndsKeeps, CallNodeKeeps, ComponentEndsKeeps DEF Coroutine
<1>3. CASE UNCHANGED vars
  <2>1. UNCHANGED <<planVars, schedVars, coVars>>
    BY <1>3 DEF vars
  <2>2. /\ UNCHANGED <<pending, active, completed, edgeActive, main, stopAdmission, firstError,
                       rejected, cancelled, outcome>>
        /\ UNCHANGED <<mailbox, status, queue, current, counts, skipped, produced, inputs>>
        /\ UNCHANGED <<edges, par, loop, comp, rank>>
    BY <2>1 DEF planVars, schedVars, coVars
  <2>3. TypeOK' /\ PlanFits' /\ Components' = Components
    BY <2>1, <2>2, PlanStays DEF SchedulerIInv, TypeOK
  <2>4. InFlight' = InFlight
    BY <2>2 DEF InFlight, Running
  <2>5. \A d : Incoming(d)' = Incoming(d) /\ (Ready(d)' <=> Ready(d))
    BY <2>1, <2>2, PlanStays DEF Ready
  <2>6. Accounted' /\ EdgesFit' /\ Ended'
    BY <2>2, <2>3, <2>4, <2>5 DEF SchedulerIInv, Accounted, EdgesFit, Ended
  <2>7. \A d \in Node : Local(d)'
    BY <2>1, <2>2, LocalStays DEF SchedulerIInv
  <2> QED  BY <2>3, <2>6, <2>7 DEF SchedulerIInv
<1> QED  BY <1>1, <1>2, <1>3 DEF Next

\* The coroutines that still have to send fit into the channel.
LEMMA BufferFits == SchedulerIInv => BufferSuffices
<1> SUFFICES ASSUME SchedulerIInv PROVE BufferSuffices
  OBVIOUS
<1> DEFINE R == {c \in Node : Running(c)}
<1>1. TypeOK /\ Accounted
  BY DEF SchedulerIInv
<1>2. mailbox \intersect R = {} /\ mailbox \in SUBSET Node /\ R \in SUBSET Node
  BY <1>1 DEF Accounted, Running, TypeOK
<1>3. InFlight = mailbox \union R
  BY DEF InFlight
<1> HIDE DEF R
<1>4. IsFiniteSet(mailbox) /\ IsFiniteSet(R) /\ Cardinality(mailbox) \in Nat /\ Cardinality(R) \in Nat
  BY <1>2, NodesFinite
<1>5. Cardinality(mailbox \union R) = Cardinality(mailbox) + Cardinality(R) - Cardinality(mailbox \intersect R)
  BY <1>4, FS_Union
<1>6. Cardinality(mailbox \intersect R) = 0
  BY <1>2, FS_EmptySet
<1>7. Cardinality(mailbox \union R) <= par
  BY <1>1, <1>3 DEF Accounted
<1>8. Cardinality(mailbox) + Cardinality(R) <= par
  BY <1>4, <1>5, <1>6, <1>7
<1> QED  BY <1>8 DEF R, BufferSuffices

\* With every component received, and none failed or rejected, a node ran if
\* and only if it had a reason, and the reasons are the active edges.
LEMMA SuccessCovers == SchedulerIInv => SuccessCoversPlan
<1> SUFFICES ASSUME SchedulerIInv, outcome = "succeeded", NEW n \in Node
             PROVE  LET reached == edgeActive \intersect {e \in edges : e[2] = n} # {}
                        entry   == Incoming(comp[n]) = {} /\ n = comp[n]
                    IN /\ n \in skipped <=> counts[n] = 0
                       /\ counts[n] > 0 <=> reached \/ entry
                       /\ counts[n] <= Limit(comp[n])
  BY DEF SuccessCoversPlan
<1> DEFINE c == comp[n]
<1>1. /\ TypeOK /\ PlanFits /\ Accounted /\ EdgesFit /\ Ended
      /\ pending = {} /\ ~ firstError /\ ~ rejected /\ active = 0
  BY DEF SchedulerIInv, Ended
<1>2. c \in Components /\ c \in Node /\ n \in Nodes(c)
  BY <1>1, PlanIs
<1>3. c \in completed
  BY <1>1, <1>2, InFlightIs
<1>4. status[c] = "ok"
  BY <1>1, <1>2, <1>3 DEF Accounted, Ended
<1>5. Local(c)
  BY <1>2 DEF SchedulerIInv
<1>6. /\ queue[c] = {} /\ counts[n] <= Limit(c) /\ (counts[n] > 0 \/ n \in skipped)
      /\ (n \in skipped => counts[n] = 0) /\ (counts[n] > 0 <=> Reason(c, n))
  BY <1>2, <1>4, <1>5 DEF Local
<1>7. counts[n] \in Nat
  BY <1>1, InterpreterAssumption DEF TypeOK
<1>8. inputs[c] = Incoming(c) \intersect edgeActive /\ produced[c] \subseteq edgeActive
  BY <1>1, <1>2, <1>3, <1>4 DEF EdgesFit
<1>9. ASSUME NEW e \in edgeActive, e[2] = n PROVE e \in inputs[c] \union produced[c]
  <2>1. e \in edges /\ e \in produced[comp[e[1]]]
    BY <1>1 DEF EdgesFit, TypeOK
  <2> QED  BY <1>8, <1>9, <2>1 DEF Incoming
<1>10. \A e \in inputs[c] \union produced[c] : e \in edgeActive /\ e \in edges
  BY <1>1, <1>8 DEF TypeOK
<1>11. Reason(c, n) <=>
          edgeActive \intersect {e \in edges : e[2] = n} # {} \/ (Incoming(c) = {} /\ n = c)
  BY <1>9, <1>10 DEF Reason
<1>12. n \in skipped <=> counts[n] = 0
  BY <1>6, <1>7
<1> QED  BY <1>6, <1>11, <1>12

\* For every plan graph of any size, any parallelism, any loop bound and
\* whatever the nodes return in whatever order: InterpreterWorkflow meets no
\* dependency deadlock, its completion buffer suffices, a component starts with
\* final inputs, the Run ends drained, and success accounts for every node.
THEOREM SchedulerInvariant == Spec => []SchedulerInv
<1>1. SchedulerIInv => SchedulerInv
  <2> SUFFICES ASSUME SchedulerIInv PROVE SchedulerInv
    OBVIOUS
  <2>1. TypeOK /\ NoDependencyDeadlock /\ InputsAreFinal
    BY DEF SchedulerIInv, Ended, EdgesFit, NoDependencyDeadlock, InputsAreFinal
  <2>2. DrainedBeforeTerminal
    BY InFlightIs DEF SchedulerIInv, Ended, DrainedBeforeTerminal
  <2> QED  BY <2>1, <2>2, BufferFits, SuccessCovers DEF SchedulerInv
<1> QED  BY <1>1, InterpreterStarts, SchedulerSteps, PTL DEF Spec

-----------------------------------------------------------------------------
(***************************************************************************)
(* What a Run was bound to.  Once a plan holds copies nothing is bound any *)
(* more, and a call is given those copies.                                 *)
(***************************************************************************)
PinnedIInv ==
    /\ pinned # Nothing => /\ binding = Nothing /\ pinned.content # 0
                           /\ pinned.profile.secret = pinned.secret
    /\ used # Nothing => /\ pinned # Nothing
                         /\ used = [profile |-> pinned.profile, content |-> pinned.content]

\* Every step keeps the copies, and a call gets the ones the call before got.
LEMMA PinnedSteps ==
    ASSUME PinnedIInv, [AdmissionNext]_admissionVars
    PROVE  /\ PinnedIInv' /\ (used' # Nothing => used'.content # 0)
           /\ (used # Nothing => used' = used)
<1>1. ASSUME UNCHANGED <<binding, pinned, used>> PROVE PinnedIInv' /\ used' = used
  BY <1>1 DEF PinnedIInv
<1>2. used # Nothing => used.content # 0
  BY DEF PinnedIInv
<1>3. CASE BindProfile
  <2>1. pinned = Nothing /\ used = Nothing /\ UNCHANGED <<pinned, used>>
    BY <1>3 DEF BindProfile, PinnedIInv
  <2> QED  BY <2>1 DEF PinnedIInv
<1>4. CASE BindSecret
  <2>1. /\ binding # Nothing /\ pinned = Nothing /\ used = Nothing /\ UNCHANGED used
        /\ binding' = Nothing
        /\ pinned' = IF secret[binding.secret] = 0 THEN pinned
                     ELSE [profile |-> binding, secret |-> binding.secret,
                           content |-> secret[binding.secret]]
    BY <1>4 DEF BindSecret, PinnedIInv
  <2> QED  BY <2>1 DEF PinnedIInv
<1>5. CASE ExecuteAgent
  <2>1. /\ pinned # Nothing /\ UNCHANGED <<binding, pinned>>
        /\ used' = [profile |-> pinned.profile, content |-> pinned.content]
    BY <1>5 DEF ExecuteAgent, PinnedIInv
  <2> QED  BY <2>1 DEF PinnedIInv
<1>6. CASE UNCHANGED <<binding, pinned, used>>
  BY <1>1, <1>2, <1>6
<1> QED
  BY <1>3, <1>4, <1>5, <1>6
     DEF AdmissionNext, WriteSecret, DeleteSecret, CheckProfile, Write, admissionVars

\* For any secrets and any number of edits and deletions, before, in and after
\* the compilation: executeAgent gives every call of a Run the profile and the
\* secret reference the plan was bound to, and every call the same.
THEOREM PinnedCopiesSafety == AdmissionSpec => RunSeesPinnedCopies
<1>1. AdmissionInit => PinnedIInv
  BY DEF AdmissionInit, PinnedIInv
<1> QED  BY <1>1, PinnedSteps, PTL DEF AdmissionSpec, RunSeesPinnedCopies

-----------------------------------------------------------------------------
(***************************************************************************)
(* Contracts.  A verdict says what the two schemas have in common, and the *)
(* schemas do not change; "integer" is the only type a value may have that *)
(* a schema does not name.                                                 *)
(***************************************************************************)
Declares(s) == s.place = "declared" /\ s.types # {}

MappingVerdicts ==
    {"none", "schema_invalid", "invalid_target", "unknown_source_field", "unknown_target",
     "mapping_type_mismatch", "dynamic_mapping", "accepted"}

ContractsIInv ==
    /\ source \in Schemas /\ source.narrow = "no" /\ target \in Schemas /\ other \in Schemas
    /\ way \in {"clear", "null", "scalar"}
    /\ verdict = "accepted" => /\ Declares(source) /\ Declares(target)
                               /\ source.types \subseteq Widened(target.types)
                               /\ way # "scalar"
    /\ verdict \in MappingVerdicts
    /\ verdict = "unknown_target" => source.place # "closed" /\ target.place = "closed"
    /\ verdict = "mapping_type_mismatch" => /\ Declares(source) /\ Declares(target)
                                            /\ ~ (source.types \subseteq Widened(target.types))
    /\ condition = "cel_not_boolean" => Inferred.types # {} /\ "boolean" \notin Inferred.types
    /\ met # "none" => verdict \in Passed
    /\ AcceptedMappingFits

\* A schema that names types admits the values of those types and, with
\* "number", of "integer".
LEMMA DeclaredValues ==
    ASSUME NEW s, Declares(s), NEW v, TypeFits(v, s)
    PROVE  v.type \in Widened(s.types)
BY DEF Declares, TypeFits, ValueMatches

\* What resolve says of a declared schema.
LEMMA ResolveIs ==
    ASSUME NEW s \in Schemas
    PROVE  /\ Resolve(s).exists <=> s.place # "closed"
           /\ ~ Resolve(s).dynamic <=> Declares(s)
           /\ Resolve(s).types # {} => Declares(s)
           /\ Declares(s) => Resolve(s).types = s.types
<1>1. s.place \in {"declared", "open", "closed"}
  BY DEF Schemas, Places
<1> QED  BY <1>1 DEF Resolve, Declares

\* A mapping is judged.
LEMMA CompileMappingKeeps ==
    ASSUME ContractsIInv, CompileMapping
    PROVE  ContractsIInv'
<1> DEFINE from == Resolve(source)
           to == Resolve(target)
<1>0. UNCHANGED <<source, target, way, expression, other, condition, met>> /\ verdict = "none"
  BY DEF CompileMapping
<1>1. \/ ~ from.exists /\ verdict' = "unknown_source_field"
      \/ from.exists /\ ~ to.exists /\ verdict' = "unknown_target"
      \/ ~ Compatible(from, to) /\ verdict' = "mapping_type_mismatch"
      \/ verdict' \in {"schema_invalid", "invalid_target", "dynamic_mapping"}
      \/ /\ Compatible(from, to) /\ ~ from.dynamic /\ ~ to.dynamic /\ way # "scalar"
         /\ verdict' = "accepted"
  BY DEF CompileMapping
<1>2. source \in Schemas /\ target \in Schemas
  BY DEF ContractsIInv
<1>3. /\ from.exists <=> source.place # "closed"
      /\ to.exists <=> target.place # "closed"
      /\ ~ from.dynamic <=> Declares(source)
      /\ ~ to.dynamic <=> Declares(target)
      /\ Declares(source) => from.types = source.types
      /\ Declares(target) => to.types = target.types
  BY <1>2, ResolveIs
<1> HIDE DEF from, to
<1>4. /\ verdict' = "accepted" => /\ Declares(source) /\ Declares(target)
                                  /\ source.types \subseteq Widened(target.types)
                                  /\ way # "scalar"
      /\ verdict' = "mapping_type_mismatch" =>
            /\ Declares(source) /\ Declares(target)
            /\ ~ (source.types \subseteq Widened(target.types))
      /\ verdict' = "unknown_target" => source.place # "closed" /\ target.place = "closed"
      /\ verdict' \in MappingVerdicts
  BY <1>1, <1>3 DEF Compatible, MappingVerdicts
<1>5. Inferred' = Inferred
  BY <1>0 DEF Inferred
<1>6. met' = "none"
  BY <1>0 DEF ContractsIInv, Passed
<1>7. AcceptedMappingFits'
  BY <1>6 DEF AcceptedMappingFits
<1> QED  BY <1>0, <1>4, <1>5, <1>6, <1>7 DEF ContractsIInv, Declares

\* A mapping that was accepted does not find its field.
LEMMA MissSourceKeeps ==
    ASSUME ContractsIInv, MissSource
    PROVE  ContractsIInv'
<1>0. /\ UNCHANGED <<source, target, way, expression, other, verdict, condition>>
      /\ met' = "missing" /\ verdict \in Passed /\ ~ (source.place = "declared" /\ source.always)
  BY DEF MissSource
<1>1. verdict = "accepted" => ~ source.always
  BY <1>0 DEF ContractsIInv, Declares
<1>2. AcceptedMappingFits'
  BY <1>0, <1>1 DEF AcceptedMappingFits
<1>3. Inferred' = Inferred
  BY <1>0 DEF Inferred
<1> QED  BY <1>0, <1>2, <1>3 DEF ContractsIInv, Declares

\* A value of the source fits the target where their types and members agree.
LEMMA AcceptedValueFits ==
    ASSUME ContractsIInv, NEW v \in Values, Validate(v, source), verdict = "accepted"
    PROVE  TypeFits(v, target) /\ (MembersAgree => MembersFit(v, target))
<1>1. Declares(source) /\ Declares(target) /\ source.types \subseteq Widened(target.types)
  BY DEF ContractsIInv
<1>2. v.type \in Widened(source.types)
  BY <1>1, DeclaredValues DEF Validate
<1>3. v.type \in Widened(target.types)
  BY <1>1, <1>2 DEF Widened
<1>4. TypeFits(v, target)
  BY <1>1, <1>3 DEF TypeFits, ValueMatches, Declares
<1>5. ASSUME MembersAgree PROVE MembersFit(v, target)
  <2>1. MembersFit(v, source) /\ source.place = "declared"
    BY <1>1 DEF Validate, Declares
  <2>2. ASSUME v.type = "object"
        PROVE  /\ target.member = "required" => v.member # "none"
               /\ target.member = "closed" => v.member = "none"
    BY <1>5, <2>1, <2>2 DEF MembersAgree, MembersFit
  <2>3. ASSUME v.type \in {"object", "array"}, v.member # "none"
        PROVE  ValueMatches(v.member, target.inner)
    <3>1. ValueMatches(v.member, source.inner)
      BY <2>1, <2>3 DEF MembersFit
    <3> QED  BY <1>5, <3>1 DEF MembersAgree, ValueMatches, Widened
  <2> QED  BY <2>2, <2>3 DEF MembersFit
<1> QED  BY <1>4, <1>5

\* A mapping that was accepted meets a value of its source.
LEMMA RunMappingKeeps ==
    ASSUME ContractsIInv, NEW v \in Values, RunMapping(v)
    PROVE  ContractsIInv'
<1>0. /\ UNCHANGED <<source, target, way, expression, other, verdict, condition>>
      /\ Validate(v, source) /\ verdict \in Passed
  BY DEF RunMapping
<1>1. \/ way # "clear" /\ met' = "untraversable"
      \/ ~ TypeFits(v, target) /\ met' = "type_mismatch"
      \/ ~ MembersFit(v, target) /\ met' = "member"
      \/ ~ AssertionsFit(v, target) /\ met' = "assertion"
      \/ met' = "called"
  BY DEF RunMapping
<1>2. ASSUME verdict = "accepted"
      PROVE  TypeFits(v, target) /\ (MembersAgree => MembersFit(v, target))
  BY <1>0, <1>2, AcceptedValueFits
<1>3. ~ AssertionsFit(v, target) => target.narrow # "no"
  BY DEF AssertionsFit
<1>4. verdict = "accepted" /\ way # "clear" => way = "null"
  BY DEF ContractsIInv
<1>5. MembersAgree' = MembersAgree
  BY <1>0 DEF MembersAgree
<1>6. AcceptedMappingFits'
  BY <1>0, <1>1, <1>2, <1>3, <1>4, <1>5 DEF AcceptedMappingFits
<1>7. Inferred' = Inferred
  BY <1>0 DEF Inferred
<1> QED  BY <1>0, <1>6, <1>7 DEF ContractsIInv, Declares

\* Every type a schema names has a value the schema admits.
LEMMA TypeHasValue ==
    ASSUME NEW s \in Schemas, s.narrow = "no", s.place # "closed",
           NEW t \in TypeNames, s.types = {} \/ t \in s.types
    PROVE  \E v \in Values : Validate(v, s) /\ v.type = t
<1>1. PICK m \in TypeNames : s.inner = {} \/ m \in s.inner
  BY TypesAssumption DEF Schemas
<1>2. m # "none"
  BY TypesAssumption
<1> DEFINE v == [type |-> t, member |-> IF s.member = "closed" THEN "none" ELSE m, exact |-> TRUE]
<1>3. /\ v \in Values /\ v.type = t
      /\ s.member = "closed" => v.member = "none"
      /\ s.member # "closed" => v.member = m
  BY DEF Values
<1> HIDE DEF v
<1>4. TypeFits(v, s) /\ AssertionsFit(v, s)
  BY <1>3 DEF TypeFits, AssertionsFit, ValueMatches, Widened
<1>5. v.member # "none" => ValueMatches(v.member, s.inner)
  BY <1>1, <1>3 DEF ValueMatches, Widened
<1>6. (s.member = "required" => v.member # "none") /\ (s.member = "closed" => v.member = "none")
  BY <1>2, <1>3
<1>7. MembersFit(v, s)
  BY <1>5, <1>6 DEF MembersFit
<1> QED  BY <1>3, <1>4, <1>7 DEF Validate

\* A verdict against a mapping or a condition is right.
LEMMA VerdictsFit == ContractsIInv => ContractsInv
<1> SUFFICES ASSUME ContractsIInv PROVE ContractsInv
  OBVIOUS
<1>0. /\ source \in Schemas /\ target \in Schemas /\ other \in Schemas /\ source.narrow = "no"
      /\ source.types \subseteq TypeNames
  BY DEF ContractsIInv, Schemas
<1>1. RefusedMappingCanFail
  <2>1. CASE verdict = "unknown_target"
    <3>1. target.place = "closed" /\ source.place # "closed"
      BY <2>1 DEF ContractsIInv
    <3>2. PICK t \in TypeNames : source.types = {} \/ t \in source.types
      BY <1>0, TypesAssumption
    <3>3. \E v \in Values : Validate(v, source)
      BY <1>0, <3>1, <3>2, TypeHasValue
    <3>4. \A v \in Values : ~ TypeFits(v, target)
      BY <3>1 DEF TypeFits
    <3> QED  BY <3>3, <3>4 DEF RefusedMappingCanFail
  <2>2. CASE verdict = "mapping_type_mismatch"
    <3>1. /\ Declares(source) /\ Declares(target)
          /\ ~ (source.types \subseteq Widened(target.types))
      BY <2>2 DEF ContractsIInv
    <3>2. PICK t \in source.types : t \notin Widened(target.types)
      BY <3>1
    <3>3. PICK v \in Values : Validate(v, source) /\ v.type = t
      BY <1>0, <3>1, <3>2, TypeHasValue DEF Declares
    <3>4. ~ TypeFits(v, target)
      BY <3>1, <3>2, <3>3, DeclaredValues
    <3> QED  BY <3>3, <3>4 DEF RefusedMappingCanFail
  <2> QED  BY <2>1, <2>2 DEF RefusedMappingCanFail
<1>2. RefusedConditionIsNotBoolean
  <2> SUFFICES ASSUME condition = "cel_not_boolean"
               PROVE  \E s \in Branches : \A v \in Values : Validate(v, s) => v.type # "boolean"
    BY DEF RefusedConditionIsNotBoolean
  <2>1. "boolean" \notin Inferred.types /\ Inferred.types # {}
    BY DEF ContractsIInv
  <2>2. ASSUME NEW s \in Schemas, Resolve(s).types # {}, "boolean" \notin Resolve(s).types
        PROVE  \A v \in Values : Validate(v, s) => v.type # "boolean"
    <3>1. Declares(s) /\ "boolean" \notin s.types
      BY <2>2, ResolveIs
    <3> SUFFICES ASSUME NEW v \in Values, Validate(v, s) PROVE v.type # "boolean"
      OBVIOUS
    <3>2. v.type \in Widened(s.types)
      BY <3>1, DeclaredValues DEF Validate
    <3> QED  BY <3>1, <3>2 DEF Widened
  <2>3. CASE expression = "choice"
    <3>1. Inferred.types = Resolve(source).types \cup Resolve(other).types
      BY <2>3 DEF Inferred
    <3>2. /\ "boolean" \notin Resolve(source).types /\ "boolean" \notin Resolve(other).types
          /\ Resolve(source).types # {} \/ Resolve(other).types # {}
      BY <2>1, <3>1
    <3> QED  BY <1>0, <2>2, <2>3, <3>2 DEF Branches
  <2>4. CASE expression # "choice"
    <3>1. Inferred = Resolve(source)
      BY <2>4 DEF Inferred
    <3> QED  BY <1>0, <2>1, <2>2, <2>4, <3>1 DEF Branches
  <2> QED  BY <2>3, <2>4
<1> QED  BY <1>1, <1>2 DEF ContractsInv, ContractsIInv

\* For any set of JSON types and any schemas of the form modelled, with members
\* and items one level deep: a mapping the compiler accepts is not refused by
\* Validate at run time for the type of its field, and refused at all only for
\* what resolve does not look at: a missing optional field, a null on the way,
\* the inside of an object or an array, a further assertion.  What the compiler
\* refuses for its type or target some value would fail on, and a condition it
\* calls not boolean has a branch that never is one.
THEOREM ContractsInvariant == ContractsSpec => []ContractsInv
<1>1. ContractsInit => ContractsIInv
  BY TypesAssumption DEF ContractsInit, ContractsIInv, AcceptedMappingFits, MappingVerdicts
<1>2. ContractsIInv /\ [ContractsNext]_contractVars => ContractsIInv'
  <2> SUFFICES ASSUME ContractsIInv, [ContractsNext]_contractVars PROVE ContractsIInv'
    OBVIOUS
  <2>1. CASE CompileCondition
    <3>1. /\ UNCHANGED <<source, target, way, expression, other, verdict, met>>
          /\ condition' = "cel_not_boolean" => Inferred.types # {} /\ "boolean" \notin Inferred.types
      BY <2>1 DEF CompileCondition
    <3>2. Inferred' = Inferred
      BY <3>1 DEF Inferred
    <3> QED  BY <3>1, <3>2 DEF ContractsIInv, Declares, AcceptedMappingFits, MembersAgree
  <2>2. CASE UNCHANGED contractVars
    <3>1. UNCHANGED <<source, target, way, expression, other, verdict, condition, met>>
      BY <2>2 DEF contractVars
    <3>2. Inferred' = Inferred
      BY <3>1 DEF Inferred
    <3> QED  BY <3>1, <3>2 DEF ContractsIInv, Declares, AcceptedMappingFits, MembersAgree
  <2> QED  BY <2>1, <2>2, CompileMappingKeeps, MissSourceKeeps, RunMappingKeeps DEF ContractsNext
<1> QED  BY <1>1, <1>2, VerdictsFit, PTL DEF ContractsSpec

-----------------------------------------------------------------------------
(***************************************************************************)
(* The compiler's search.  v leads to w when every closed set around v     *)
(* holds w.                                                                *)
(***************************************************************************)
Leads(v, w) == \A X \in SUBSET Ids : v \in X /\ Shut(X) => w \in X

Frames == [node : Ids, left : Seq(Ids)]
SearchStates == [calls : Seq(Frames), stack : Seq(Ids), indices : [Ids -> Nat], low : [Ids -> Nat],
             index : Nat \ {0}, components : SUBSET SUBSET Ids]

Num(s, v) == s.indices[v]
Low(s, v) == s.low[v]
OnIt(s) == {s.stack[i] : i \in DOMAIN s.stack}
Gray(s) == {s.calls[i].node : i \in DOMAIN s.calls}
Seen(s) == {v \in Ids : s.indices[v] # 0}
Gone(s) == UNION s.components

\* The edge from v to w was looked at: w is none of the neighbours left to v.
LookedAt(s, v, w) ==
    /\ v \in Seen(s) /\ w \in adjacency[v]
    /\ \A i \in DOMAIN s.calls :
          s.calls[i].node = v => \A j \in DOMAIN s.calls[i].left : s.calls[i].left[j] # w

\* Numbers tell the visited nodes apart and count them.
Numbered(s) ==
    /\ \A v \in Ids : Num(s, v) < s.index /\ Low(s, v) < s.index
    /\ \A v, w \in Seen(s) : Num(s, v) = Num(s, w) => v = w
    /\ Cardinality(Seen(s)) = s.index - 1

\* Both stacks have the latest on top; what was visited is on the stack or in
\* a component.
Stacked(s) ==
    /\ \A i, j \in DOMAIN s.stack : i < j => Num(s, s.stack[i]) > Num(s, s.stack[j])
    /\ \A i, j \in DOMAIN s.calls : i < j => Num(s, s.calls[i].node) > Num(s, s.calls[j].node)
    /\ \A i \in DOMAIN s.calls :
          \A j \in DOMAIN s.calls[i].left : s.calls[i].left[j] \in adjacency[s.calls[i].node]
    /\ Gray(s) \subseteq OnIt(s) /\ Seen(s) = OnIt(s) \union Gone(s) /\ OnIt(s) \intersect Gone(s) = {}

\* An edge that was looked at leads to a visited node, from a component into a
\* component, and on the stack it counts for the low mark.
Looked(s) ==
    \A v, w \in Ids : LookedAt(s, v, w) =>
        /\ w \in Seen(s) /\ (v \in Gone(s) => w \in Gone(s))
        /\ v \in OnIt(s) /\ w \in OnIt(s) => Low(s, v) <= Num(s, w)

\* A low mark is the number of a node on the stack that can be reached.
Marked(s) ==
    \A v \in OnIt(s) : Low(s, v) <= Num(s, v) /\ \E w \in OnIt(s) : Low(s, v) = Num(s, w) /\ Leads(v, w)

\* A node being visited leads to all above it on the stack, and every node on
\* the stack leads to one being visited below it.
Connected(s) ==
    /\ \A g \in Gray(s), w \in OnIt(s) : Num(s, g) <= Num(s, w) => Leads(g, w)
    /\ \A w \in OnIt(s) : \E g \in Gray(s) : Num(s, g) <= Num(s, w) /\ Leads(w, g)

\* The low marks of those above a node being visited have reached it.
Collected(s) ==
    \A g \in Gray(s), v \in OnIt(s) :
        /\ Num(s, g) <= Num(s, v)
        /\ \A h \in Gray(s) : Num(s, h) <= Num(s, g) \/ Num(s, v) < Num(s, h)
        => Low(s, g) <= Low(s, v)

\* A component is a class of nodes that lead to each other.
Class(v) == {w \in Ids : Leads(v, w) /\ Leads(w, v)}
Classes(s) == \A C \in s.components : C # {} /\ \A v \in C : C = Class(v)

SearchInv(s) ==
    /\ s \in SearchStates /\ Seen(s) \subseteq Declared
    /\ Numbered(s) /\ Stacked(s) /\ Looked(s) /\ Marked(s) /\ Connected(s) /\ Collected(s) /\ Classes(s)

\* The graph of the search.
Drawn == adjacency \in [Ids -> SUBSET Ids] /\ \A v \in Ids : adjacency[v] \subseteq Declared

\* Leading is reflexive and transitive, follows edges, and stays in closed sets.
LEMMA LeadsOn ==
    ASSUME Drawn
    PROVE  /\ \A v : Leads(v, v)
           /\ \A v \in Ids : \A w \in adjacency[v] : Leads(v, w)
           /\ \A u, v, w : Leads(u, v) /\ Leads(v, w) => Leads(u, w)
           /\ \A X \in SUBSET Ids : Shut(X) => \A v \in X : \A w : Leads(v, w) => w \in X
BY DEF Leads, Shut, Drawn

\* What the names of the parts of the search range over.
LEMMA SearchParts ==
    ASSUME NEW s, SearchInv(s)
    PROVE  /\ s.calls \in Seq(Frames) /\ s.stack \in Seq(Ids)
           /\ s.indices \in [Ids -> Nat] /\ s.low \in [Ids -> Nat]
           /\ s.index \in Nat \ {0} /\ s.components \subseteq SUBSET Ids
           /\ Gray(s) \subseteq OnIt(s) /\ OnIt(s) \subseteq Seen(s) /\ Seen(s) \subseteq Ids /\ Gone(s) \subseteq Ids
           /\ \A v \in Ids : Num(s, v) \in Nat /\ Low(s, v) \in Nat /\ Num(s, v) < s.index
           /\ \A i \in DOMAIN s.calls : s.calls[i] \in Frames
<1>1. /\ s.calls \in Seq(Frames) /\ s.stack \in Seq(Ids)
      /\ s.indices \in [Ids -> Nat] /\ s.low \in [Ids -> Nat]
      /\ s.index \in Nat \ {0} /\ s.components \subseteq SUBSET Ids
  BY DEF SearchInv, SearchStates
<1>2. Gray(s) \subseteq OnIt(s) /\ OnIt(s) \subseteq Seen(s)
  BY DEF SearchInv, Stacked
<1>3. Seen(s) \subseteq Ids /\ Gone(s) \subseteq Ids
  BY <1>1 DEF Seen, Gone
<1>4. \A v \in Ids : Num(s, v) \in Nat /\ Low(s, v) \in Nat /\ Num(s, v) < s.index
  BY <1>1 DEF SearchInv, Numbered, Num, Low
<1>5. \A i \in DOMAIN s.calls : s.calls[i] \in Frames
  BY <1>1
<1> QED  BY <1>1, <1>2, <1>3, <1>4, <1>5

\* A sequence with one more in front.
LEMMA Prepended ==
    ASSUME NEW T, NEW x \in T, NEW q \in Seq(T), NEW p, p = <<x>> \o q
    PROVE  /\ p \in Seq(T) /\ DOMAIN p = 1..(Len(q) + 1) /\ p[1] = x
           /\ DOMAIN q = 1..Len(q) /\ Len(q) \in Nat
           /\ \A i \in 2..(Len(q) + 1) : p[i] = q[i - 1] /\ i - 1 \in 1..Len(q)
           /\ \A i \in 1..Len(q) : p[i + 1] = q[i] /\ i + 1 \in DOMAIN p
<1>1. p \in Seq(T) /\ Len(p) = Len(q) + 1 /\ Len(q) \in Nat /\ DOMAIN q = 1..Len(q) /\ p[1] = x
  OBVIOUS
<1>2. ASSUME NEW i \in 2..(Len(q) + 1) PROVE p[i] = q[i - 1] /\ i - 1 \in 1..Len(q)
  BY <1>1
<1>3. ASSUME NEW i \in 1..Len(q) PROVE p[i + 1] = q[i] /\ i + 1 \in DOMAIN p
  BY <1>1
<1> QED  BY <1>1, <1>2, <1>3

\* The edge was looked at, so it is not left.
LEMMA NotLeft ==
    ASSUME NEW s, NEW v, NEW w, LookedAt(s, v, w), NEW i \in DOMAIN s.calls, s.calls[i].node = v
    PROVE  \A j \in DOMAIN s.calls[i].left : s.calls[i].left[j] # w
BY DEF LookedAt

\* From s to t the node v is entered, and its callers have it off their lists.
Enters(s, t, v, rest, a) ==
    /\ Num(s, v) = 0 /\ \A g \in Gray(s) : Leads(g, v)
    /\ rest \in Seq(Frames) /\ Len(rest) = Len(s.calls)
    /\ \A i \in 1..Len(rest) :
          /\ rest[i].node = s.calls[i].node
          /\ \A j \in DOMAIN rest[i].left :
                \E k \in DOMAIN s.calls[i].left : s.calls[i].left[k] = rest[i].left[j]
          /\ \A k \in DOMAIN s.calls[i].left :
                \/ s.calls[i].left[k] = v
                \/ \E j \in DOMAIN rest[i].left : s.calls[i].left[k] = rest[i].left[j]
    /\ a \in Seq(Ids) /\ \A w : w \in adjacency[v] <=> \E j \in DOMAIN a : a[j] = w
    /\ t = [calls |-> <<[node |-> v, left |-> a]>> \o rest, stack |-> <<v>> \o s.stack,
            indices |-> [s.indices EXCEPT ![v] = s.index], low |-> [s.low EXCEPT ![v] = s.index],
            index |-> s.index + 1, components |-> s.components]

\* A node is entered.
LEMMA EnterKeeps ==
    ASSUME NEW s, NEW t, SearchInv(s), Drawn, NEW v \in Declared, NEW rest, NEW a,
           Enters(s, t, v, rest, a)
    PROVE  SearchInv(t)
<1> DEFINE f == [node |-> v, left |-> a]
<1>0. /\ Numbered(s) /\ Stacked(s) /\ Looked(s) /\ Marked(s) /\ Connected(s) /\ Collected(s) /\ Classes(s)
      /\ v \in Ids /\ v \notin Seen(s) /\ Seen(s) \subseteq Declared
  BY DEF SearchInv, Declared, Seen, Num, Enters
<1>1. /\ s.calls \in Seq(Frames) /\ s.stack \in Seq(Ids)
      /\ s.indices \in [Ids -> Nat] /\ s.low \in [Ids -> Nat]
      /\ s.index \in Nat \ {0} /\ s.components \subseteq SUBSET Ids
      /\ Gray(s) \subseteq OnIt(s) /\ OnIt(s) \subseteq Seen(s) /\ Seen(s) \subseteq Ids /\ Gone(s) \subseteq Ids
      /\ \A u \in Ids : Num(s, u) \in Nat /\ Low(s, u) \in Nat /\ Num(s, u) < s.index
  BY SearchParts
<1>2. /\ t.calls = <<f>> \o rest /\ t.stack = <<v>> \o s.stack
      /\ t.indices = [s.indices EXCEPT ![v] = s.index]
      /\ t.low = [s.low EXCEPT ![v] = s.index]
      /\ t.index = s.index + 1 /\ t.components = s.components /\ rest \in Seq(Frames)
      /\ t = [calls |-> t.calls, stack |-> t.stack, indices |-> t.indices, low |-> t.low,
              index |-> t.index, components |-> t.components]
  BY DEF Enters
<1>3. f \in Frames /\ f.node = v /\ f.left = a
  BY <1>0 DEF Frames, Enters
<1> HIDE DEF f
<1>4. t \in SearchStates
  <2>1. v \in Ids /\ s.index \in Nat \ {0}
    BY <1>0, <1>1
  <2>2. t.calls \in Seq(Frames)
    <3>1. f \in Frames /\ rest \in Seq(Frames) /\ t.calls = <<f>> \o rest
      BY <1>2, <1>3
    <3> QED  BY <3>1, Prepended
  <2>3. t.stack \in Seq(Ids)
    <3>1. s.stack \in Seq(Ids) /\ t.stack = <<v>> \o s.stack
      BY <1>1, <1>2
    <3> QED  BY <2>1, <3>1, Prepended
  <2>4. t.indices \in [Ids -> Nat] /\ t.low \in [Ids -> Nat]
    <3>1. s.indices \in [Ids -> Nat] /\ s.low \in [Ids -> Nat]
      BY <1>1
    <3>2. t.indices = [s.indices EXCEPT ![v] = s.index] /\ t.low = [s.low EXCEPT ![v] = s.index]
      BY <1>2
    <3> QED  BY <2>1, <3>1, <3>2
  <2>5. t.index \in Nat \ {0} /\ t.components \in SUBSET SUBSET Ids
    <3>1. s.components \subseteq SUBSET Ids /\ t.components = s.components /\ t.index = s.index + 1
      BY <1>1, <1>2
    <3> QED  BY <2>1, <3>1
  <2> QED  BY <1>2, <2>2, <2>3, <2>4, <2>5 DEF SearchStates
<1>5. /\ DOMAIN t.calls = 1..(Len(rest) + 1) /\ t.calls[1] = f
      /\ \A i \in 2..(Len(rest) + 1) : t.calls[i] = rest[i - 1] /\ i - 1 \in 1..Len(rest)
      /\ DOMAIN s.calls = 1..Len(rest) /\ Len(rest) \in Nat
      /\ \A i \in 1..Len(rest) : rest[i].node = s.calls[i].node
  <2>1. Len(rest) = Len(s.calls) /\ \A i \in 1..Len(rest) : rest[i].node = s.calls[i].node
    BY DEF Enters
  <2>2. DOMAIN s.calls = 1..Len(s.calls)
    BY <1>1
  <2> QED  BY <1>2, <1>3, <2>1, <2>2, Prepended
<1>6. /\ DOMAIN t.stack = 1..(Len(s.stack) + 1) /\ t.stack[1] = v
      /\ \A i \in 2..(Len(s.stack) + 1) : t.stack[i] = s.stack[i - 1]
                                               /\ i - 1 \in 1..Len(s.stack)
      /\ DOMAIN s.stack = 1..Len(s.stack) /\ Len(s.stack) \in Nat
  <2>1. v \in Ids /\ s.stack \in Seq(Ids) /\ t.stack = <<v>> \o s.stack
    BY <1>0, <1>1, <1>2
  <2> QED  BY <2>1, Prepended
<1>7. /\ \A i \in 1..Len(rest) : t.calls[i + 1] = rest[i] /\ i + 1 \in DOMAIN t.calls
      /\ \A i \in 1..Len(s.stack) : t.stack[i + 1] = s.stack[i] /\ i + 1 \in DOMAIN t.stack
  <2>1. v \in Ids /\ s.stack \in Seq(Ids) /\ t.stack = <<v>> \o s.stack
    BY <1>0, <1>1, <1>2
  <2>2. f \in Frames /\ rest \in Seq(Frames) /\ t.calls = <<f>> \o rest
    BY <1>2, <1>3
  <2>3. \A i \in 1..Len(rest) : t.calls[i + 1] = rest[i] /\ i + 1 \in DOMAIN t.calls
    BY <2>2, Prepended
  <2>4. \A i \in 1..Len(s.stack) : t.stack[i + 1] = s.stack[i] /\ i + 1 \in DOMAIN t.stack
    BY <2>1, Prepended
  <2> QED  BY <2>3, <2>4
<1>8. Gray(t) = Gray(s) \union {v}
  <2>1. ASSUME NEW i \in DOMAIN t.calls PROVE t.calls[i].node \in Gray(s) \union {v}
    <3>1. CASE i = 1
      BY <1>3, <1>5, <3>1
    <3>2. CASE i # 1
      <4>1. i \in 2..(Len(rest) + 1)
        BY <1>5, <3>2
      <4>2. t.calls[i].node = s.calls[i - 1].node /\ i - 1 \in DOMAIN s.calls
        BY <1>5, <4>1
      <4> QED  BY <4>2 DEF Gray
    <3> QED  BY <3>1, <3>2
  <2>2. ASSUME NEW i \in DOMAIN s.calls
        PROVE  t.calls[i + 1].node = s.calls[i].node /\ i + 1 \in DOMAIN t.calls
    BY <1>5, <1>7
  <2>3. 1 \in DOMAIN t.calls /\ t.calls[1].node = v
    BY <1>3, <1>5
  <2>4. ASSUME NEW x \in Gray(s) PROVE x \in Gray(t)
    <3>1. PICK i \in DOMAIN s.calls : x = s.calls[i].node
      BY DEF Gray
    <3>2. i + 1 \in DOMAIN t.calls /\ x = t.calls[i + 1].node
      BY <2>2, <3>1
    <3> QED  BY <3>2 DEF Gray
  <2>5. v \in Gray(t)
    BY <2>3 DEF Gray
  <2>6. ASSUME NEW x \in Gray(t) PROVE x \in Gray(s) \union {v}
    BY <2>1 DEF Gray
  <2> QED  BY <2>4, <2>5, <2>6
<1>9. OnIt(t) = OnIt(s) \union {v}
  <2>1. ASSUME NEW i \in DOMAIN t.stack PROVE t.stack[i] \in OnIt(s) \union {v}
    <3>1. CASE i = 1
      BY <1>6, <3>1
    <3>2. CASE i # 1
      <4>1. i \in 2..(Len(s.stack) + 1)
        BY <1>6, <3>2
      <4> QED  BY <1>6, <4>1 DEF OnIt
    <3> QED  BY <3>1, <3>2
  <2>2. ASSUME NEW i \in DOMAIN s.stack
        PROVE  t.stack[i + 1] = s.stack[i] /\ i + 1 \in DOMAIN t.stack
    BY <1>6, <1>7
  <2>3. 1 \in DOMAIN t.stack /\ t.stack[1] = v
    BY <1>6
  <2>4. ASSUME NEW x \in OnIt(s) PROVE x \in OnIt(t)
    <3>1. PICK i \in DOMAIN s.stack : x = s.stack[i]
      BY DEF OnIt
    <3>2. i + 1 \in DOMAIN t.stack /\ x = t.stack[i + 1]
      BY <2>2, <3>1
    <3> QED  BY <3>2 DEF OnIt
  <2>5. v \in OnIt(t)
    BY <2>3 DEF OnIt
  <2>6. ASSUME NEW x \in OnIt(t) PROVE x \in OnIt(s) \union {v}
    BY <2>1 DEF OnIt
  <2> QED  BY <2>4, <2>5, <2>6
<1>10. /\ Num(t, v) = s.index /\ Low(t, v) = s.index
       /\ \A u \in Ids : u # v => Num(t, u) = Num(s, u) /\ Low(t, u) = Low(s, u)
  BY <1>0, <1>1, <1>2 DEF Num, Low
<1>11. Seen(t) = Seen(s) \union {v} /\ Gone(t) = Gone(s)
  <2>1. \A u \in Ids : u \in Seen(t) <=> u \in Seen(s) \/ u = v
    BY <1>0, <1>1, <1>2 DEF Seen
  <2>2. Seen(t) \subseteq Ids
    BY DEF Seen
  <2> QED  BY <1>0, <1>1, <1>2, <2>1, <2>2 DEF Gone
<1>13. ASSUME NEW x \in Ids, NEW y \in Ids, LookedAt(t, x, y)
       PROVE  x # v /\ (LookedAt(s, x, y) \/ (y = v /\ x \in Gray(s)))
  <2>0. x \in Seen(t) /\ y \in adjacency[x]
    BY <1>13 DEF LookedAt
  <2>1. x # v
    <3>1. SUFFICES ASSUME x = v PROVE FALSE
      OBVIOUS
    <3>2. t.calls[1].node = x /\ t.calls[1].left = a /\ 1 \in DOMAIN t.calls
      BY <1>3, <1>5, <3>1
    <3>3. \A j \in DOMAIN a : a[j] # y
      BY <1>13, <3>2, NotLeft
    <3> QED  BY <2>0, <3>1, <3>3 DEF Enters
  <2>2. SUFFICES ASSUME ~ LookedAt(s, x, y) PROVE y = v /\ x \in Gray(s)
    BY <2>1
  <2>3. x \in Seen(s)
    BY <1>11, <2>0, <2>1
  <2>4. PICK i \in DOMAIN s.calls :
           s.calls[i].node = x
           /\ \E k \in DOMAIN s.calls[i].left : s.calls[i].left[k] = y
    BY <2>0, <2>2, <2>3 DEF LookedAt
  <2>5. /\ i \in 1..Len(rest) /\ i + 1 \in DOMAIN t.calls /\ t.calls[i + 1] = rest[i]
        /\ rest[i].node = x
    BY <1>5, <1>7, <2>4
  <2>6. \A j \in DOMAIN rest[i].left : rest[i].left[j] # y
    <3>1. \A j \in DOMAIN t.calls[i + 1].left : t.calls[i + 1].left[j] # y
      BY <1>13, <2>5, NotLeft
    <3> QED  BY <2>5, <3>1
  <2>7. y = v
    <3>1. \A k \in DOMAIN s.calls[i].left :
             s.calls[i].left[k] = v \/ \E j \in DOMAIN rest[i].left : s.calls[i].left[k] = rest[i].left[j]
      BY <2>5 DEF Enters
    <3> QED  BY <2>4, <2>6, <3>1
  <2> QED  BY <2>4, <2>7 DEF Gray
<1>14. Numbered(t)
  <2>1. ASSUME NEW u \in Ids PROVE Num(t, u) < s.index + 1 /\ Low(t, u) < s.index + 1
    <3>1. u # v => Num(t, u) = Num(s, u) /\ Low(t, u) = Low(s, u)
      BY <1>10
    <3>2. /\ s.index \in Nat /\ Num(s, u) \in Nat /\ Num(s, u) < s.index
          /\ Low(s, u) \in Nat /\ Low(s, u) < s.index
      BY <1>0, <1>1 DEF Numbered
    <3> QED  BY <1>10, <3>1, <3>2
  <2>2. ASSUME NEW x \in Seen(t), NEW y \in Seen(t), Num(t, x) = Num(t, y) PROVE x = y
    <3>1. x \in Ids /\ y \in Ids /\ (x \in Seen(s) \/ x = v) /\ (y \in Seen(s) \/ y = v)
      BY <1>0, <1>1, <1>11
    <3>2. x \in Seen(s) /\ y \in Seen(s) /\ Num(s, x) = Num(s, y) => x = y
      BY <1>0 DEF Numbered
    <3> QED  BY <1>0, <1>1, <1>10, <2>2, <3>1, <3>2
  <2>3. Cardinality(Seen(t)) = s.index
    <3>1. IsFiniteSet(Seen(s))
      BY <1>1, CompilerAssumption, FS_Subset
    <3>2. Cardinality(Seen(s)) = s.index - 1
      BY <1>0 DEF Numbered
    <3>3. Cardinality(Seen(s) \union {v}) = Cardinality(Seen(s)) + 1
      BY <1>0, <3>1, FS_AddElement
    <3>4. s.index \in Nat
      BY <1>1
    <3> QED  BY <1>11, <3>2, <3>3, <3>4
  <2> QED  BY <1>1, <1>2, <2>1, <2>2, <2>3 DEF Numbered
<1>15. Stacked(t)
  <2>1. ASSUME NEW i \in DOMAIN t.stack, NEW j \in DOMAIN t.stack, i < j
        PROVE  Num(t, t.stack[i]) > Num(t, t.stack[j])
    <3>1. /\ j \in 2..(Len(s.stack) + 1) /\ t.stack[j] = s.stack[j - 1]
          /\ j - 1 \in DOMAIN s.stack
      BY <1>6, <2>1
    <3>2. s.stack[j - 1] \in OnIt(s)
      BY <3>1 DEF OnIt
    <3>3. Num(t, t.stack[j]) = Num(s, s.stack[j - 1]) /\ s.stack[j - 1] \in Ids
      BY <1>0, <1>1, <1>10, <3>1, <3>2
    <3>4. CASE i = 1
      BY <1>1, <1>6, <1>10, <3>3, <3>4
    <3>5. CASE i # 1
      <4>1. /\ t.stack[i] = s.stack[i - 1] /\ i - 1 \in DOMAIN s.stack
            /\ i - 1 < j - 1
        BY <1>6, <2>1, <3>5
      <4>2. s.stack[i - 1] \in OnIt(s)
        BY <4>1 DEF OnIt
      <4>3. Num(t, t.stack[i]) = Num(s, s.stack[i - 1])
        BY <1>0, <1>1, <1>10, <4>1, <4>2
      <4>4. Num(s, s.stack[i - 1]) > Num(s, s.stack[j - 1])
        BY <1>0, <3>1, <4>1 DEF Stacked
      <4> QED  BY <3>3, <4>3, <4>4
    <3> QED  BY <3>4, <3>5
  <2>2. ASSUME NEW i \in DOMAIN t.calls, NEW j \in DOMAIN t.calls, i < j
        PROVE  Num(t, t.calls[i].node) > Num(t, t.calls[j].node)
    <3>1. /\ j \in 2..(Len(rest) + 1) /\ t.calls[j].node = s.calls[j - 1].node
          /\ j - 1 \in DOMAIN s.calls
      BY <1>5, <2>2
    <3>2. s.calls[j - 1].node \in Gray(s)
      BY <3>1 DEF Gray
    <3>3. Num(t, t.calls[j].node) = Num(s, s.calls[j - 1].node) /\ s.calls[j - 1].node \in Ids
      BY <1>0, <1>1, <1>10, <3>1, <3>2
    <3>4. CASE i = 1
      BY <1>1, <1>3, <1>5, <1>10, <3>3, <3>4
    <3>5. CASE i # 1
      <4>1. /\ t.calls[i].node = s.calls[i - 1].node /\ i - 1 \in DOMAIN s.calls
            /\ i - 1 < j - 1
        BY <1>5, <2>2, <3>5
      <4>2. s.calls[i - 1].node \in Gray(s)
        BY <4>1 DEF Gray
      <4>3. Num(t, t.calls[i].node) = Num(s, s.calls[i - 1].node)
        BY <1>0, <1>1, <1>10, <4>1, <4>2
      <4>4. Num(s, s.calls[i - 1].node) > Num(s, s.calls[j - 1].node)
        BY <1>0, <3>1, <4>1 DEF Stacked
      <4> QED  BY <3>3, <4>3, <4>4
    <3> QED  BY <3>4, <3>5
  <2>3. ASSUME NEW i \in DOMAIN t.calls, NEW j \in DOMAIN t.calls[i].left
        PROVE  t.calls[i].left[j] \in adjacency[t.calls[i].node]
    <3>1. CASE i = 1
      BY <1>3, <1>5, <2>3, <3>1 DEF Enters
    <3>2. CASE i # 1
      <4>1. t.calls[i] = rest[i - 1] /\ i - 1 \in 1..Len(rest) /\ i - 1 \in DOMAIN s.calls
        BY <1>5, <3>2
      <4>2. PICK k \in DOMAIN s.calls[i - 1].left :
               s.calls[i - 1].left[k] = rest[i - 1].left[j]
        <5>1. \A h \in 1..Len(rest) : \A m \in DOMAIN rest[h].left :
                 \E n \in DOMAIN s.calls[h].left : s.calls[h].left[n] = rest[h].left[m]
          BY DEF Enters
        <5>2. j \in DOMAIN rest[i - 1].left
          BY <2>3, <4>1
        <5> QED  BY <4>1, <5>1, <5>2
      <4>3. s.calls[i - 1].left[k] \in adjacency[s.calls[i - 1].node]
        BY <1>0, <4>1 DEF Stacked
      <4>4. t.calls[i].node = s.calls[i - 1].node
        BY <1>5, <4>1
      <4> QED  BY <4>1, <4>2, <4>3, <4>4
    <3> QED  BY <3>1, <3>2
  <2>4. Gray(t) \subseteq OnIt(t) /\ Seen(t) = OnIt(t) \union Gone(t) /\ OnIt(t) \intersect Gone(t) = {}
    BY <1>0, <1>8, <1>9, <1>11 DEF Stacked
  <2> QED  BY <2>1, <2>2, <2>3, <2>4 DEF Stacked
<1>16. Looked(t)
  <2> SUFFICES ASSUME NEW x \in Ids, NEW y \in Ids, LookedAt(t, x, y)
               PROVE  /\ y \in Seen(t) /\ (x \in Gone(t) => y \in Gone(t))
                      /\ x \in OnIt(t) /\ y \in OnIt(t) => Low(t, x) <= Num(t, y)
    BY DEF Looked
  <2>1. x # v /\ (LookedAt(s, x, y) \/ (y = v /\ x \in Gray(s)))
    BY <1>13
  <2>2. CASE LookedAt(s, x, y)
    <3>1. /\ y \in Seen(s) /\ (x \in Gone(s) => y \in Gone(s))
          /\ x \in OnIt(s) /\ y \in OnIt(s) => Low(s, x) <= Num(s, y)
      BY <1>0, <2>2 DEF Looked
    <3> QED  BY <1>0, <1>1, <1>9, <1>10, <1>11, <2>1, <3>1
  <2>3. CASE y = v /\ x \in Gray(s)
    <3>1. x \in OnIt(s) /\ x \notin Gone(s) /\ Low(s, x) <= Num(s, x) /\ Num(s, x) < s.index
      BY <1>0, <1>1, <2>3 DEF Marked, Stacked
    <3> QED  BY <1>1, <1>10, <1>11, <2>1, <2>3, <3>1
  <2> QED  BY <2>1, <2>2, <2>3
<1>17. Marked(t)
  <2> SUFFICES ASSUME NEW x \in OnIt(t)
               PROVE  Low(t, x) <= Num(t, x) /\ \E w \in OnIt(t) : Low(t, x) = Num(t, w) /\ Leads(x, w)
    BY DEF Marked
  <2>1. CASE x = v
    BY <1>1, <1>9, <1>10, <2>1, LeadsOn
  <2>2. CASE x # v
    <3>1. x \in OnIt(s) /\ x \in Ids
      BY <1>1, <1>9, <2>2
    <3>2. PICK w \in OnIt(s) : Low(s, x) = Num(s, w) /\ Leads(x, w) /\ Low(s, x) <= Num(s, x)
      BY <1>0, <3>1 DEF Marked
    <3>3. w # v /\ w \in Ids /\ w \in OnIt(t)
      BY <1>0, <1>1, <1>9
    <3> QED  BY <1>10, <2>2, <3>1, <3>2, <3>3
  <2> QED  BY <2>1, <2>2
<1>18. Connected(t)
  <2>1. ASSUME NEW g \in Gray(t), NEW w \in OnIt(t), Num(t, g) <= Num(t, w) PROVE Leads(g, w)
    <3>1. CASE g = v
      <4>1. w = v
        BY <1>0, <1>1, <1>9, <1>10, <2>1, <3>1
      <4> QED  BY <3>1, <4>1, LeadsOn
    <3>2. CASE g # v /\ w = v
      <4>1. g \in Gray(s)
        BY <1>8, <3>2
      <4> QED  BY <3>2, <4>1 DEF Enters
    <3>3. CASE g # v /\ w # v
      <4>1. g \in Gray(s) /\ w \in OnIt(s) /\ g \in Ids /\ w \in Ids
        BY <1>1, <1>8, <1>9, <3>3
      <4>2. Num(s, g) <= Num(s, w)
        BY <1>10, <2>1, <3>3, <4>1
      <4> QED  BY <1>0, <4>1, <4>2 DEF Connected
    <3> QED  BY <3>1, <3>2, <3>3
  <2>2. ASSUME NEW w \in OnIt(t) PROVE \E g \in Gray(t) : Num(t, g) <= Num(t, w) /\ Leads(w, g)
    <3>1. CASE w = v
      <4>1. v \in Gray(t) /\ Leads(v, v) /\ Num(t, v) \in Nat
        BY <1>1, <1>8, <1>10, LeadsOn
      <4> QED  BY <3>1, <4>1
    <3>2. CASE w # v
      <4>1. w \in OnIt(s) /\ w \in Ids
        BY <1>1, <1>9, <3>2
      <4>2. PICK g \in Gray(s) : Num(s, g) <= Num(s, w) /\ Leads(w, g)
        BY <1>0, <4>1 DEF Connected
      <4>3. g # v /\ g \in Ids /\ g \in Gray(t)
        BY <1>0, <1>1, <1>8
      <4> QED  BY <1>10, <3>2, <4>1, <4>2, <4>3
    <3> QED  BY <3>1, <3>2
  <2> QED  BY <2>1, <2>2 DEF Connected
<1>19. Collected(t)
  <2> SUFFICES ASSUME NEW g \in Gray(t), NEW y \in OnIt(t), Num(t, g) <= Num(t, y),
                      \A h \in Gray(t) : Num(t, h) <= Num(t, g) \/ Num(t, y) < Num(t, h)
               PROVE  Low(t, g) <= Low(t, y)
    BY DEF Collected
  <2>1. CASE g = v
    <3>1. y = v
      BY <1>0, <1>1, <1>9, <1>10, <2>1
    <3> QED  BY <1>1, <1>10, <2>1, <3>1
  <2>2. CASE g # v /\ y = v
    <3>1. v \in Gray(t) /\ g \in Ids /\ Num(t, g) = Num(s, g) /\ Num(s, g) < s.index /\ Num(s, g) \in Nat
      BY <1>1, <1>8, <1>10, <2>2
    <3>2. Num(t, v) <= Num(t, g) \/ Num(t, y) < Num(t, v)
      BY <3>1
    <3> QED  BY <1>1, <1>10, <2>2, <3>1, <3>2
  <2>3. CASE g # v /\ y # v
    <3>1. g \in Gray(s) /\ y \in OnIt(s) /\ g \in Ids /\ y \in Ids
      BY <1>1, <1>8, <1>9, <2>3
    <3>2. ASSUME NEW h \in Gray(s) PROVE Num(s, h) <= Num(s, g) \/ Num(s, y) < Num(s, h)
      <4>1. h \in Gray(t) /\ h # v /\ h \in Ids
        BY <1>0, <1>1, <1>8
      <4> QED  BY <1>10, <2>3, <3>1, <4>1
    <3>3. Low(s, g) <= Low(s, y)
      <4>1. Num(s, g) <= Num(s, y)
        BY <1>10, <2>3, <3>1
      <4> QED  BY <1>0, <3>1, <3>2, <4>1 DEF Collected
    <3> QED  BY <1>10, <2>3, <3>1, <3>3
  <2> QED  BY <2>1, <2>2, <2>3
<1>20. Classes(t)
  BY <1>0, <1>2 DEF Classes
<1>21. Seen(t) \subseteq Declared
  BY <1>0, <1>11
<1> QED  BY <1>4, <1>14, <1>15, <1>16, <1>17, <1>18, <1>19, <1>20, <1>21 DEF SearchInv

\* The empty sequence.
LEMMA NothingIn ==
    ASSUME NEW q, q = <<>> PROVE DOMAIN q = {}
OBVIOUS

\* A sequence without its first.
LEMMA TailIs ==
    ASSUME NEW T, NEW q \in Seq(T), q # <<>>
    PROVE  /\ Head(q) = q[1] /\ q[1] \in T /\ 1 \in DOMAIN q
           /\ Tail(q) \in Seq(T) /\ Len(Tail(q)) = Len(q) - 1 /\ Len(q) - 1 \in Nat
           /\ DOMAIN q = 1..Len(q) /\ DOMAIN Tail(q) = 1..(Len(q) - 1) /\ Len(q) \in Nat
           /\ \A i \in 1..(Len(q) - 1) : Tail(q)[i] = q[i + 1] /\ i + 1 \in DOMAIN q
           /\ \A i \in DOMAIN q : i # 1 => i - 1 \in 1..(Len(q) - 1) /\ Tail(q)[i - 1] = q[i]
<1>1. /\ Head(q) = q[1] /\ q[1] \in T /\ 1 \in DOMAIN q /\ DOMAIN q = 1..Len(q) /\ Len(q) \in Nat
      /\ Len(q) # 0
  OBVIOUS
<1>2. Tail(q) \in Seq(T) /\ Len(Tail(q)) = Len(q) - 1 /\ Len(q) - 1 \in Nat
  BY <1>1
<1>3. DOMAIN Tail(q) = 1..(Len(q) - 1)
  BY <1>2
<1>4. ASSUME NEW i \in 1..(Len(q) - 1) PROVE Tail(q)[i] = q[i + 1] /\ i + 1 \in DOMAIN q
  BY <1>1, <1>2
<1>5. ASSUME NEW i \in DOMAIN q, i # 1 PROVE i - 1 \in 1..(Len(q) - 1) /\ Tail(q)[i - 1] = q[i]
  <2>1. i - 1 \in 1..(Len(q) - 1) /\ (i - 1) + 1 = i
    BY <1>1, <1>5
  <2> QED  BY <1>4, <2>1
<1> QED  BY <1>1, <1>2, <1>3, <1>4, <1>5

\* The node on top has its neighbour w off its list.
Advances(s, rest, v, w) ==
    /\ rest \in Seq(Frames) /\ Len(rest) = Len(s.calls)
    /\ 1 \in DOMAIN s.calls /\ s.calls[1].node = v /\ rest[1].node = v /\ w \in adjacency[v]
    /\ \A j \in DOMAIN rest[1].left : \E k \in DOMAIN s.calls[1].left : s.calls[1].left[k] = rest[1].left[j]
    /\ \A k \in DOMAIN s.calls[1].left :
          s.calls[1].left[k] = w \/ \E j \in DOMAIN rest[1].left : s.calls[1].left[k] = rest[1].left[j]
    /\ \A i \in DOMAIN s.calls : i # 1 => rest[i] = s.calls[i]

\* That is what taking the head of its list does.
LEMMA AdvanceIs ==
    ASSUME NEW s, SearchInv(s), s.calls # <<>>, Head(s.calls).left # <<>>
    PROVE  Advances(s, <<[Head(s.calls) EXCEPT !.left = Tail(@)]>> \o Tail(s.calls),
                    Head(s.calls).node, Head(Head(s.calls).left))
<1> DEFINE top == Head(s.calls)
           f == [top EXCEPT !.left = Tail(@)]
           rest == <<f>> \o Tail(s.calls)
<1>0. s.calls \in Seq(Frames) /\ Stacked(s)
  BY SearchParts DEF SearchInv
<1>1. /\ top = s.calls[1] /\ top \in Frames /\ 1 \in DOMAIN s.calls /\ Tail(s.calls) \in Seq(Frames)
      /\ Len(Tail(s.calls)) = Len(s.calls) - 1 /\ DOMAIN s.calls = 1..Len(s.calls) /\ Len(s.calls) \in Nat
      /\ \A i \in DOMAIN s.calls : i # 1 => i - 1 \in 1..(Len(s.calls) - 1) /\ Tail(s.calls)[i - 1] = s.calls[i]
  BY <1>0, TailIs
<1>2. top.left \in Seq(Ids) /\ top.left # <<>> /\ top.node \in Ids
  BY <1>1 DEF Frames
<1>3. f = [node |-> top.node, left |-> Tail(top.left)]
  <2>1. ASSUME NEW r \in Frames, NEW x PROVE [r EXCEPT !.left = x] = [node |-> r.node, left |-> x]
    BY DEF Frames
  <2> QED  BY <1>1, <2>1
<1>4. /\ Head(top.left) = top.left[1] /\ 1 \in DOMAIN top.left /\ Tail(top.left) \in Seq(Ids)
      /\ \A i \in DOMAIN Tail(top.left) : Tail(top.left)[i] = top.left[i + 1] /\ i + 1 \in DOMAIN top.left
      /\ \A i \in DOMAIN top.left : i # 1 => i - 1 \in DOMAIN Tail(top.left) /\ Tail(top.left)[i - 1] = top.left[i]
  BY <1>2, TailIs
<1> HIDE DEF top
<1>5. f \in Frames /\ f.node = top.node /\ f.left = Tail(top.left)
  BY <1>2, <1>3, <1>4 DEF Frames
<1> HIDE DEF f
<1>6. /\ rest \in Seq(Frames) /\ DOMAIN rest = 1..(Len(Tail(s.calls)) + 1) /\ rest[1] = f
      /\ \A i \in 2..(Len(Tail(s.calls)) + 1) : rest[i] = Tail(s.calls)[i - 1]
  BY <1>1, <1>5, Prepended
<1> HIDE DEF rest
<1>7. Len(rest) = Len(s.calls)
  BY <1>1, <1>6
<1>8. ASSUME NEW i \in DOMAIN s.calls, i # 1 PROVE rest[i] = s.calls[i]
  <2>1. i \in 2..(Len(Tail(s.calls)) + 1)
    BY <1>1, <1>8
  <2> QED  BY <1>1, <1>6, <1>8, <2>1
<1>9. Head(top.left) \in adjacency[top.node]
  BY <1>0, <1>1, <1>4 DEF Stacked
<1>10. \A j \in DOMAIN rest[1].left : \E k \in DOMAIN s.calls[1].left : s.calls[1].left[k] = rest[1].left[j]
  <2>1. rest[1].left = Tail(top.left) /\ s.calls[1].left = top.left
    BY <1>1, <1>5, <1>6
  <2>2. \A j \in DOMAIN Tail(top.left) : \E k \in DOMAIN top.left : top.left[k] = Tail(top.left)[j]
    BY <1>4
  <2> QED  BY <2>1, <2>2
<1>11. \A k \in DOMAIN s.calls[1].left :
          s.calls[1].left[k] = Head(top.left)
          \/ \E j \in DOMAIN rest[1].left : s.calls[1].left[k] = rest[1].left[j]
  <2>1. rest[1].left = Tail(top.left) /\ s.calls[1].left = top.left
    BY <1>1, <1>5, <1>6
  <2>2. ASSUME NEW k \in DOMAIN top.left
        PROVE  top.left[k] = Head(top.left) \/ \E j \in DOMAIN Tail(top.left) : top.left[k] = Tail(top.left)[j]
    BY <1>4
  <2> QED  BY <2>1, <2>2
<1>12. Advances(s, rest, top.node, Head(top.left))
  BY <1>1, <1>5, <1>6, <1>7, <1>8, <1>9, <1>10, <1>11 DEF Advances
<1> QED  BY <1>12 DEF rest, f, top

\* From s to t the node on top sees w, which was visited before.
Sees(s, t, v, w, rest) ==
    /\ Advances(s, rest, v, w) /\ Num(s, w) # 0
    /\ t = [calls |-> rest, stack |-> s.stack, indices |-> s.indices,
            low |-> IF w \in OnIt(s) /\ Num(s, w) < Low(s, v) THEN [s.low EXCEPT ![v] = Num(s, w)] ELSE s.low,
            index |-> s.index, components |-> s.components]

\* A neighbour is seen.
LEMMA SeeKeeps ==
    ASSUME NEW s, NEW t, SearchInv(s), Drawn, NEW v, NEW w, NEW rest, Sees(s, t, v, w, rest)
    PROVE  SearchInv(t)
<1>0. /\ Numbered(s) /\ Stacked(s) /\ Looked(s) /\ Marked(s) /\ Connected(s) /\ Collected(s) /\ Classes(s)
      /\ Seen(s) \subseteq Declared
  BY DEF SearchInv
<1>1. /\ s.calls \in Seq(Frames) /\ s.stack \in Seq(Ids)
      /\ s.indices \in [Ids -> Nat] /\ s.low \in [Ids -> Nat]
      /\ s.index \in Nat \ {0} /\ s.components \subseteq SUBSET Ids
      /\ Gray(s) \subseteq OnIt(s) /\ OnIt(s) \subseteq Seen(s) /\ Seen(s) \subseteq Ids /\ Gone(s) \subseteq Ids
      /\ \A u \in Ids : Num(s, u) \in Nat /\ Low(s, u) \in Nat /\ Num(s, u) < s.index
  BY SearchParts
<1>2. /\ rest \in Seq(Frames) /\ Len(rest) = Len(s.calls)
      /\ 1 \in DOMAIN s.calls /\ s.calls[1].node = v /\ rest[1].node = v /\ w \in adjacency[v]
      /\ \A i \in DOMAIN s.calls : i # 1 => rest[i] = s.calls[i]
      /\ DOMAIN rest = DOMAIN s.calls
  BY <1>1 DEF Sees, Advances
<1>3. /\ t.calls = rest /\ t.stack = s.stack /\ t.indices = s.indices /\ t.index = s.index
      /\ t.components = s.components
      /\ t.low = IF w \in OnIt(s) /\ Num(s, w) < Low(s, v) THEN [s.low EXCEPT ![v] = Num(s, w)] ELSE s.low
      /\ t = [calls |-> t.calls, stack |-> t.stack, indices |-> t.indices, low |-> t.low,
              index |-> t.index, components |-> t.components]
  BY DEF Sees
<1>4. v \in Gray(s) /\ v \in Ids /\ w \in Ids /\ w \in Seen(s) /\ v \notin Gone(s) /\ v \in OnIt(s)
  <2>1. v \in Gray(s)
    BY <1>2 DEF Gray
  <2>2. v \in Ids /\ v \in OnIt(s) /\ v \notin Gone(s)
    BY <1>0, <1>1, <2>1 DEF Stacked
  <2>3. w \in Ids
    BY <1>2, <2>2 DEF Drawn
  <2> QED  BY <2>1, <2>2, <2>3 DEF Sees, Seen, Num
<1>5. /\ t.low \in [Ids -> Nat]
      /\ \A u \in Ids : u # v => Low(t, u) = Low(s, u)
      /\ Low(t, v) <= Low(s, v) /\ (w \in OnIt(s) => Low(t, v) <= Num(s, w))
      /\ Low(t, v) = Low(s, v) \/ (w \in OnIt(s) /\ Low(t, v) = Num(s, w))
      /\ \A u \in Ids : Low(t, u) \in Nat /\ Low(t, u) <= Low(s, u)
  <2>1. Num(s, w) \in Nat /\ Low(s, v) \in Nat
    BY <1>1, <1>4
  <2>2. CASE w \in OnIt(s) /\ Num(s, w) < Low(s, v)
    <3>1. t.low = [s.low EXCEPT ![v] = Num(s, w)]
      BY <1>3, <2>2
    <3> QED  BY <1>1, <1>4, <2>1, <2>2, <3>1 DEF Low
  <2>3. CASE ~ (w \in OnIt(s) /\ Num(s, w) < Low(s, v))
    <3>1. t.low = s.low
      BY <1>3, <2>3
    <3> QED  BY <1>1, <1>4, <2>1, <2>3, <3>1 DEF Low
  <2> QED  BY <2>2, <2>3
<1>6. /\ OnIt(t) = OnIt(s) /\ Seen(t) = Seen(s) /\ Gone(t) = Gone(s)
      /\ \A u : Num(t, u) = Num(s, u)
  BY <1>3 DEF OnIt, Seen, Gone, Num
<1>7. \A i \in DOMAIN s.calls : t.calls[i].node = s.calls[i].node
  BY <1>2, <1>3
<1>8. Gray(t) = Gray(s)
  BY <1>2, <1>3, <1>7 DEF Gray
<1>9. ASSUME NEW x \in Ids, NEW y \in Ids, LookedAt(t, x, y)
      PROVE  LookedAt(s, x, y) \/ (x = v /\ y = w)
  <2>0. x \in Seen(s) /\ y \in adjacency[x]
    BY <1>6, <1>9 DEF LookedAt
  <2>1. SUFFICES ASSUME ~ LookedAt(s, x, y) PROVE x = v /\ y = w
    OBVIOUS
  <2>2. PICK i \in DOMAIN s.calls :
           s.calls[i].node = x /\ \E k \in DOMAIN s.calls[i].left : s.calls[i].left[k] = y
    BY <2>0, <2>1 DEF LookedAt
  <2>3. t.calls[i].node = x /\ i \in DOMAIN t.calls
    BY <1>2, <1>3, <1>7, <2>2
  <2>4. \A j \in DOMAIN t.calls[i].left : t.calls[i].left[j] # y
    BY <1>9, <2>3, NotLeft
  <2>5. i = 1
    BY <1>2, <1>3, <2>2, <2>4
  <2>6. \A k \in DOMAIN s.calls[1].left :
           s.calls[1].left[k] = w \/ \E j \in DOMAIN rest[1].left : s.calls[1].left[k] = rest[1].left[j]
    BY DEF Sees, Advances
  <2> QED  BY <1>2, <1>3, <2>2, <2>4, <2>5, <2>6
<1>10. Numbered(t)
  <2>1. ASSUME NEW u \in Ids PROVE Low(t, u) < s.index
    <3>1. s.index \in Nat /\ Low(t, u) \in Nat /\ Low(s, u) \in Nat /\ Low(t, u) <= Low(s, u)
      BY <1>1, <1>5
    <3>2. Low(s, u) < s.index
      BY <1>0 DEF Numbered
    <3> QED  BY <3>1, <3>2
  <2> QED  BY <1>0, <1>3, <1>6, <2>1 DEF Numbered
<1>11. Stacked(t)
  <2>1. \A i \in DOMAIN t.calls : \A j \in DOMAIN t.calls[i].left :
           t.calls[i].left[j] \in adjacency[t.calls[i].node]
    <3>1. \A j \in DOMAIN rest[1].left :
             \E k \in DOMAIN s.calls[1].left : s.calls[1].left[k] = rest[1].left[j]
      BY DEF Sees, Advances
    <3>2. \A i \in DOMAIN s.calls : \A j \in DOMAIN s.calls[i].left :
             s.calls[i].left[j] \in adjacency[s.calls[i].node]
      BY <1>0 DEF Stacked
    <3>3. ASSUME NEW i \in DOMAIN t.calls, NEW j \in DOMAIN t.calls[i].left
          PROVE  t.calls[i].left[j] \in adjacency[t.calls[i].node]
      <4>1. CASE i = 1
        BY <1>2, <1>3, <3>1, <3>2, <3>3, <4>1
      <4>2. CASE i # 1
        BY <1>2, <1>3, <3>2, <3>3, <4>2
      <4> QED  BY <4>1, <4>2
    <3> QED  BY <3>3
  <2>2. \A i, j \in DOMAIN t.calls : i < j => Num(t, t.calls[i].node) > Num(t, t.calls[j].node)
    BY <1>0, <1>2, <1>3, <1>6, <1>7 DEF Stacked
  <2>3. \A i, j \in DOMAIN t.stack : i < j => Num(t, t.stack[i]) > Num(t, t.stack[j])
    BY <1>0, <1>3, <1>6 DEF Stacked
  <2>4. Gray(t) \subseteq OnIt(t) /\ Seen(t) = OnIt(t) \union Gone(t) /\ OnIt(t) \intersect Gone(t) = {}
    BY <1>0, <1>6, <1>8 DEF Stacked
  <2> QED  BY <2>1, <2>2, <2>3, <2>4 DEF Stacked
<1>12. Looked(t)
  <2> SUFFICES ASSUME NEW x \in Ids, NEW y \in Ids, LookedAt(t, x, y)
               PROVE  /\ y \in Seen(t) /\ (x \in Gone(t) => y \in Gone(t))
                      /\ x \in OnIt(t) /\ y \in OnIt(t) => Low(t, x) <= Num(t, y)
    BY DEF Looked
  <2>1. CASE LookedAt(s, x, y)
    <3>1. /\ y \in Seen(s) /\ (x \in Gone(s) => y \in Gone(s))
          /\ x \in OnIt(s) /\ y \in OnIt(s) => Low(s, x) <= Num(s, y)
      BY <1>0, <2>1 DEF Looked
    <3>2. /\ Low(t, x) \in Nat /\ Low(s, x) \in Nat /\ Num(s, y) \in Nat
          /\ Low(t, x) <= Low(s, x)
      BY <1>1, <1>5
    <3> QED  BY <1>6, <3>1, <3>2
  <2>2. CASE x = v /\ y = w
    BY <1>4, <1>5, <1>6, <2>2
  <2> QED  BY <1>9, <2>1, <2>2
<1>13. Marked(t)
  <2> SUFFICES ASSUME NEW x \in OnIt(s)
               PROVE  Low(t, x) <= Num(t, x) /\ \E u \in OnIt(s) : Low(t, x) = Num(t, u) /\ Leads(x, u)
    BY <1>6 DEF Marked
  <2>0. x \in Ids
    BY <1>1
  <2>1. PICK u \in OnIt(s) : Low(s, x) = Num(s, u) /\ Leads(x, u) /\ Low(s, x) <= Num(s, x)
    BY <1>0 DEF Marked
  <2>2. /\ Low(t, x) \in Nat /\ Low(s, x) \in Nat /\ Num(s, x) \in Nat /\ Low(t, x) <= Low(s, x)
    BY <1>1, <1>5, <2>0
  <2>3. Leads(v, w)
    BY <1>2, <1>4, LeadsOn
  <2>4. Low(t, x) = Low(s, x) \/ (x = v /\ w \in OnIt(s) /\ Low(t, x) = Num(s, w))
    BY <1>5, <2>0
  <2> QED  BY <1>6, <2>1, <2>2, <2>3, <2>4
<1>14. Connected(t)
  BY <1>0, <1>6, <1>8 DEF Connected
<1>15. Collected(t)
  <2> SUFFICES ASSUME NEW g \in Gray(s), NEW y \in OnIt(s), Num(s, g) <= Num(s, y),
                      \A h \in Gray(s) : Num(s, h) <= Num(s, g) \/ Num(s, y) < Num(s, h)
               PROVE  Low(t, g) <= Low(t, y)
    BY <1>6, <1>8 DEF Collected
  <2>0. g \in Ids /\ y \in Ids /\ g \in Seen(s) /\ y \in Seen(s)
    BY <1>1
  <2>1. Low(s, g) <= Low(s, y)
    BY <1>0 DEF Collected
  <2>2. /\ Low(t, g) \in Nat /\ Low(s, g) \in Nat /\ Low(t, g) <= Low(s, g) /\ Low(s, y) \in Nat
        /\ Num(s, y) \in Nat /\ Num(s, g) \in Nat /\ Low(t, y) \in Nat
    BY <1>1, <1>5, <2>0
  <2>3. CASE y = v
    <3>1. Num(s, v) <= Num(s, g)
      BY <1>4, <2>2, <2>3
    <3>2. g = v
      BY <1>0, <2>0, <2>2, <2>3, <3>1 DEF Numbered
    <3> QED  BY <2>2, <2>3, <3>2
  <2>4. CASE y # v
    BY <1>5, <2>0, <2>1, <2>2, <2>4
  <2> QED  BY <2>3, <2>4
<1>16. Classes(t)
  BY <1>0, <1>3 DEF Classes
<1>17. t \in SearchStates
  BY <1>1, <1>2, <1>3, <1>5 DEF SearchStates
<1> QED  BY <1>0, <1>6, <1>10, <1>11, <1>12, <1>13, <1>14, <1>15, <1>16, <1>17 DEF SearchInv

\* The nodes being visited, from the top down.
LEMMA TopIs ==
    ASSUME NEW s, SearchInv(s), s.calls # <<>>
    PROVE  /\ Head(s.calls) = s.calls[1] /\ s.calls[1] \in Frames /\ 1 \in DOMAIN s.calls
           /\ s.calls[1].node \in Gray(s)
           /\ \A g \in Gray(s) : g # s.calls[1].node => Num(s, g) < Num(s, s.calls[1].node)
<1>0. s.calls \in Seq(Frames) /\ Stacked(s) /\ \A v \in Gray(s) : Num(s, v) \in Nat
  BY SearchParts DEF SearchInv
<1>1. Head(s.calls) = s.calls[1] /\ s.calls[1] \in Frames /\ 1 \in DOMAIN s.calls
      /\ DOMAIN s.calls = 1..Len(s.calls) /\ Len(s.calls) \in Nat
  BY <1>0, TailIs
<1>2. s.calls[1].node \in Gray(s)
  BY <1>1 DEF Gray
<1>3. ASSUME NEW g \in Gray(s), g # s.calls[1].node PROVE Num(s, g) < Num(s, s.calls[1].node)
  <2>1. PICK i \in DOMAIN s.calls : g = s.calls[i].node
    BY DEF Gray
  <2>2. 1 < i
    BY <1>1, <1>3, <2>1
  <2>3. Num(s, s.calls[1].node) > Num(s, s.calls[i].node)
    BY <1>0, <1>1, <2>2 DEF Stacked
  <2> QED  BY <1>0, <1>2, <2>1, <2>3
<1> QED  BY <1>1, <1>2, <1>3

\* The node on top has seen its neighbours and is left.
LEMMA LeaveIs ==
    ASSUME NEW s, NEW t, SearchInv(s), s.calls # <<>>, Head(s.calls).left = <<>>,
           t.calls = Tail(s.calls), Seen(t) = Seen(s)
    PROVE  /\ t.calls \in Seq(Frames)
           /\ Gray(t) = Gray(s) \ {s.calls[1].node}
           /\ \A x, y : LookedAt(t, x, y) => LookedAt(s, x, y)
           /\ \A i, j \in DOMAIN t.calls : i < j => Num(s, t.calls[i].node) > Num(s, t.calls[j].node)
           /\ \A i \in DOMAIN t.calls : \A j \in DOMAIN t.calls[i].left :
                 t.calls[i].left[j] \in adjacency[t.calls[i].node]
           /\ t.calls = <<>> <=> Gray(t) = {}
           /\ t.calls # <<>> => /\ Head(t.calls).node \in Gray(t)
                                /\ \A g \in Gray(t) : g # Head(t.calls).node =>
                                      Num(s, g) < Num(s, Head(t.calls).node)
<1> DEFINE v == s.calls[1].node
<1>0. s.calls \in Seq(Frames) /\ Stacked(s) /\ \A u \in Gray(s) : Num(s, u) \in Nat
  BY SearchParts DEF SearchInv
<1>1. /\ t.calls \in Seq(Frames) /\ Len(s.calls) - 1 \in Nat /\ Len(s.calls) \in Nat
      /\ DOMAIN s.calls = 1..Len(s.calls) /\ DOMAIN t.calls = 1..(Len(s.calls) - 1)
      /\ \A i \in DOMAIN t.calls : t.calls[i] = s.calls[i + 1] /\ i + 1 \in DOMAIN s.calls
      /\ \A i \in DOMAIN s.calls : i # 1 => i - 1 \in DOMAIN t.calls /\ t.calls[i - 1] = s.calls[i]
  BY <1>0, TailIs
<1>2. /\ Head(s.calls) = s.calls[1] /\ 1 \in DOMAIN s.calls /\ v \in Gray(s)
      /\ \A g \in Gray(s) : g # v => Num(s, g) < Num(s, v)
  BY TopIs
<1>3. ASSUME NEW i \in DOMAIN t.calls, NEW j \in DOMAIN t.calls, i < j
      PROVE  Num(s, t.calls[i].node) > Num(s, t.calls[j].node)
  <2>1. i + 1 \in DOMAIN s.calls /\ j + 1 \in DOMAIN s.calls /\ i + 1 < j + 1
    BY <1>1, <1>3
  <2> QED  BY <1>0, <1>1, <2>1 DEF Stacked
<1>4. ASSUME NEW i \in DOMAIN t.calls PROVE t.calls[i].node \in Gray(s) /\ t.calls[i].node # v
  <2>1. i + 1 \in DOMAIN s.calls /\ 1 < i + 1 /\ t.calls[i] = s.calls[i + 1]
    BY <1>1
  <2>2. Num(s, v) > Num(s, s.calls[i + 1].node)
    BY <1>0, <1>2, <2>1 DEF Stacked
  <2>3. s.calls[i + 1].node \in Gray(s)
    BY <2>1 DEF Gray
  <2> QED  BY <1>0, <1>2, <2>1, <2>2, <2>3
<1>5. ASSUME NEW g \in Gray(s), g # v PROVE \E i \in DOMAIN t.calls : g = t.calls[i].node
  <2>1. PICK i \in DOMAIN s.calls : g = s.calls[i].node
    BY DEF Gray
  <2>2. i - 1 \in DOMAIN t.calls /\ t.calls[i - 1] = s.calls[i]
    BY <1>1, <1>5, <2>1
  <2> QED  BY <2>1, <2>2
<1>6. Gray(t) = Gray(s) \ {v}
  <2>1. ASSUME NEW g \in Gray(t) PROVE g \in Gray(s) \ {v}
    BY <1>4 DEF Gray
  <2>2. ASSUME NEW g \in Gray(s), g # v PROVE g \in Gray(t)
    BY <1>5, <2>2 DEF Gray
  <2> QED  BY <2>1, <2>2
<1>7. ASSUME NEW x, NEW y, LookedAt(t, x, y) PROVE LookedAt(s, x, y)
  <2>1. x \in Seen(s) /\ y \in adjacency[x]
    BY <1>7 DEF LookedAt
  <2>2. ASSUME NEW i \in DOMAIN s.calls, s.calls[i].node = x, NEW j \in DOMAIN s.calls[i].left
        PROVE  s.calls[i].left[j] # y
    <3>1. CASE i = 1
      <4>1. s.calls[i].left = <<>>
        BY <1>2, <3>1
      <4> QED  BY <2>2, <4>1
    <3>2. CASE i # 1
      <4>1. i - 1 \in DOMAIN t.calls /\ t.calls[i - 1] = s.calls[i]
        BY <1>1, <3>2
      <4>2. \A k \in DOMAIN t.calls[i - 1].left : t.calls[i - 1].left[k] # y
        BY <1>7, <2>2, <4>1, NotLeft
      <4> QED  BY <2>2, <4>1, <4>2
    <3> QED  BY <3>1, <3>2
  <2> QED  BY <2>1, <2>2 DEF LookedAt
<1>8. \A i \in DOMAIN t.calls : \A j \in DOMAIN t.calls[i].left :
         t.calls[i].left[j] \in adjacency[t.calls[i].node]
  <2>1. \A i \in DOMAIN s.calls : \A j \in DOMAIN s.calls[i].left :
           s.calls[i].left[j] \in adjacency[s.calls[i].node]
    BY <1>0 DEF Stacked
  <2> QED  BY <1>1, <2>1
<1>9. ASSUME t.calls = <<>> PROVE Gray(t) = {}
  <2>1. DOMAIN t.calls = {}
    BY <1>9, NothingIn, Zenon
  <2> QED  BY <2>1, Zenon DEF Gray
<1>10. ASSUME t.calls # <<>>
       PROVE  /\ Gray(t) # {} /\ Head(t.calls).node \in Gray(t)
              /\ \A g \in Gray(t) : g # Head(t.calls).node => Num(s, g) < Num(s, Head(t.calls).node)
  <2>1. Head(t.calls) = t.calls[1] /\ 1 \in DOMAIN t.calls
    BY <1>1, <1>10, TailIs
  <2>2. Head(t.calls).node \in Gray(t)
    BY <2>1 DEF Gray
  <2>3. ASSUME NEW g \in Gray(t), g # Head(t.calls).node PROVE Num(s, g) < Num(s, Head(t.calls).node)
    <3>1. PICK i \in DOMAIN t.calls : g = t.calls[i].node
      BY DEF Gray
    <3>2. 1 < i
      BY <1>1, <2>1, <2>3, <3>1
    <3>3. Num(s, t.calls[1].node) > Num(s, t.calls[i].node)
      BY <1>3, <2>1, <3>2
    <3>4. Num(s, t.calls[1].node) \in Nat /\ Num(s, t.calls[i].node) \in Nat
      BY <1>0, <1>4, <2>1
    <3> QED  BY <2>1, <3>1, <3>3, <3>4
  <2> QED  BY <2>2, <2>3
<1> HIDE DEF v
<1>11. Gray(t) = Gray(s) \ {s.calls[1].node}
  BY <1>6 DEF v
<1> QED  BY <1>1, <1>3, <1>7, <1>8, <1>9, <1>10, <1>11

\* From s to t the node v is left and stays on the stack.
Stays(s, t, v) ==
    /\ s.calls # <<>> /\ Head(s.calls).node = v /\ Head(s.calls).left = <<>> /\ Low(s, v) # Num(s, v)
    /\ t = [calls |-> Tail(s.calls), stack |-> s.stack, indices |-> s.indices,
            low |-> IF Tail(s.calls) # <<>> /\ Low(s, v) < Low(s, Head(Tail(s.calls)).node)
                    THEN [s.low EXCEPT ![Head(Tail(s.calls)).node] = Low(s, v)] ELSE s.low,
            index |-> s.index, components |-> s.components]

\* A node is left that leads to one below it on the stack.
LEMMA StayKeeps ==
    ASSUME NEW s, NEW t, SearchInv(s), Drawn, NEW v, Stays(s, t, v)
    PROVE  SearchInv(t)
<1>0. /\ Numbered(s) /\ Stacked(s) /\ Looked(s) /\ Marked(s) /\ Connected(s) /\ Collected(s) /\ Classes(s)
      /\ Seen(s) \subseteq Declared
  BY DEF SearchInv
<1>1. /\ s.stack \in Seq(Ids)
      /\ s.indices \in [Ids -> Nat] /\ s.low \in [Ids -> Nat]
      /\ s.index \in Nat \ {0} /\ s.components \subseteq SUBSET Ids
      /\ Gray(s) \subseteq OnIt(s) /\ OnIt(s) \subseteq Seen(s) /\ Seen(s) \subseteq Ids /\ Gone(s) \subseteq Ids
      /\ \A u \in Ids : Num(s, u) \in Nat /\ Low(s, u) \in Nat /\ Num(s, u) < s.index
  BY SearchParts
<1>2. /\ s.calls # <<>> /\ Head(s.calls).node = v /\ Head(s.calls).left = <<>> /\ Low(s, v) # Num(s, v)
      /\ t.calls = Tail(s.calls) /\ t.stack = s.stack /\ t.indices = s.indices /\ t.index = s.index
      /\ t.components = s.components
      /\ t.low = (IF t.calls # <<>> /\ Low(s, v) < Low(s, Head(t.calls).node)
                  THEN [s.low EXCEPT ![Head(t.calls).node] = Low(s, v)] ELSE s.low)
      /\ t = [calls |-> t.calls, stack |-> t.stack, indices |-> t.indices, low |-> t.low,
              index |-> t.index, components |-> t.components]
  BY DEF Stays
<1>3. /\ OnIt(t) = OnIt(s) /\ Seen(t) = Seen(s) /\ Gone(t) = Gone(s)
      /\ \A u : Num(t, u) = Num(s, u)
  BY <1>2 DEF OnIt, Seen, Gone, Num
<1>4. /\ v \in Gray(s) /\ v = s.calls[1].node
      /\ \A g \in Gray(s) : g # v => Num(s, g) < Num(s, v)
  BY <1>2, TopIs
<1>5. /\ t.calls \in Seq(Frames) /\ Gray(t) = Gray(s) \ {v}
      /\ \A x, y : LookedAt(t, x, y) => LookedAt(s, x, y)
      /\ \A i, j \in DOMAIN t.calls : i < j => Num(s, t.calls[i].node) > Num(s, t.calls[j].node)
      /\ \A i \in DOMAIN t.calls : \A j \in DOMAIN t.calls[i].left :
            t.calls[i].left[j] \in adjacency[t.calls[i].node]
      /\ t.calls = <<>> <=> Gray(t) = {}
      /\ t.calls # <<>> => /\ Head(t.calls).node \in Gray(t)
                           /\ \A g \in Gray(t) : g # Head(t.calls).node =>
                                 Num(s, g) < Num(s, Head(t.calls).node)
  <2>1. /\ s.calls # <<>> /\ Head(s.calls).left = <<>> /\ t.calls = Tail(s.calls)
        /\ Seen(t) = Seen(s) /\ v = s.calls[1].node
    BY <1>2, <1>3, <1>4
  <2> QED  BY <2>1, LeaveIs, Zenon
<1>6. v \in OnIt(s) /\ v \in Ids /\ v \in Seen(s)
  BY <1>1, <1>4
<1>7. PICK w \in OnIt(s) : Low(s, v) = Num(s, w) /\ Leads(v, w) /\ Num(s, w) < Num(s, v)
  <2>1. PICK w \in OnIt(s) : Low(s, v) = Num(s, w) /\ Leads(v, w) /\ Low(s, v) <= Num(s, v)
    BY <1>0, <1>6 DEF Marked
  <2>2. Num(s, w) \in Nat /\ Num(s, v) \in Nat
    BY <1>1, <1>6
  <2> QED  BY <1>2, <2>1, <2>2
<1>8. PICK b \in Gray(s) : Num(s, b) <= Num(s, w) /\ Leads(w, b)
  BY <1>0 DEF Connected
<1>9. b \in Gray(t) /\ Num(s, b) < Num(s, v) /\ Leads(v, b)
  <2>1. Num(s, b) \in Nat /\ Num(s, w) \in Nat /\ Num(s, v) \in Nat
    BY <1>1, <1>6
  <2> QED  BY <1>5, <1>7, <1>8, <2>1, LeadsOn
<1> DEFINE p == Head(t.calls).node
<1>10. /\ p \in Gray(t) /\ p \in Gray(s) /\ p \in Ids /\ p # v /\ p \in OnIt(s)
       /\ \A g \in Gray(t) : g # p => Num(s, g) < Num(s, p)
       /\ t.low = IF Low(s, v) < Low(s, p) THEN [s.low EXCEPT ![p] = Low(s, v)] ELSE s.low
  <2>1. t.calls # <<>> /\ Gray(t) = Gray(s) \ {v}
    BY <1>5, <1>9
  <2>2. p \in Gray(t) /\ \A g \in Gray(t) : g # p => Num(s, g) < Num(s, p)
    BY <1>5, <2>1
  <2>3. p \in Gray(s) /\ p # v
    BY <2>1, <2>2
  <2>4. p \in Ids /\ p \in OnIt(s)
    BY <1>1, <2>3
  <2>5. t.low = IF Low(s, v) < Low(s, p) THEN [s.low EXCEPT ![p] = Low(s, v)] ELSE s.low
    BY <1>2, <2>1
  <2> QED  BY <2>2, <2>3, <2>4, <2>5
<1> HIDE DEF p
<1>11. /\ t.low \in [Ids -> Nat]
       /\ \A u \in Ids : u # p => Low(t, u) = Low(s, u)
       /\ Low(t, p) <= Low(s, p) /\ Low(t, p) <= Low(s, v)
       /\ Low(t, p) = Low(s, p) \/ Low(t, p) = Low(s, v)
       /\ \A u \in Ids : Low(t, u) \in Nat /\ Low(t, u) <= Low(s, u)
  <2>1. Low(s, p) \in Nat /\ Low(s, v) \in Nat
    BY <1>1, <1>6, <1>10
  <2>2. CASE Low(s, v) < Low(s, p)
    <3>1. t.low = [s.low EXCEPT ![p] = Low(s, v)]
      BY <1>10, <2>2
    <3>2. t.low \in [Ids -> Nat]
      BY <1>1, <2>1, <3>1
    <3>3. \A u \in Ids : u # p => Low(t, u) = Low(s, u)
      BY <1>1, <3>1 DEF Low
    <3>4. Low(t, p) = Low(s, v)
      BY <1>1, <1>10, <3>1, Zenon DEF Low
    <3>5. ASSUME NEW u \in Ids PROVE Low(t, u) \in Nat /\ Low(t, u) <= Low(s, u)
      <4>1. Low(s, u) \in Nat
        BY <1>1
      <4> QED  BY <2>1, <2>2, <3>3, <3>4, <4>1
    <3> QED  BY <2>1, <2>2, <3>2, <3>3, <3>4, <3>5
  <2>3. CASE ~ (Low(s, v) < Low(s, p))
    <3>1. t.low = s.low
      BY <1>10, <2>3
    <3>2. t.low \in [Ids -> Nat]
      BY <1>1, <3>1
    <3>3. \A u \in Ids : Low(t, u) = Low(s, u) /\ Low(s, u) \in Nat
      BY <1>1, <3>1 DEF Low
    <3>4. Low(s, p) <= Low(s, v)
      BY <2>1, <2>3
    <3> QED  BY <1>10, <2>1, <3>2, <3>3, <3>4
  <2> QED  BY <2>2, <2>3
<1>12. Numbered(t)
  <2>1. ASSUME NEW u \in Ids PROVE Low(t, u) < s.index
    <3>1. s.index \in Nat /\ Low(t, u) \in Nat /\ Low(s, u) \in Nat /\ Low(t, u) <= Low(s, u)
      BY <1>1, <1>11
    <3>2. Low(s, u) < s.index
      BY <1>0 DEF Numbered
    <3> QED  BY <3>1, <3>2
  <2> QED  BY <1>0, <1>2, <1>3, <2>1 DEF Numbered
<1>13. Stacked(t)
  <2>1. \A i, j \in DOMAIN t.stack : i < j => Num(t, t.stack[i]) > Num(t, t.stack[j])
    BY <1>0, <1>2, <1>3 DEF Stacked
  <2>2. Gray(t) \subseteq OnIt(t) /\ Seen(t) = OnIt(t) \union Gone(t) /\ OnIt(t) \intersect Gone(t) = {}
    BY <1>0, <1>3, <1>5 DEF Stacked
  <2> QED  BY <1>3, <1>5, <2>1, <2>2 DEF Stacked
<1>14. Looked(t)
  <2> SUFFICES ASSUME NEW x \in Ids, NEW y \in Ids, LookedAt(t, x, y)
               PROVE  /\ y \in Seen(t) /\ (x \in Gone(t) => y \in Gone(t))
                      /\ x \in OnIt(t) /\ y \in OnIt(t) => Low(t, x) <= Num(t, y)
    BY DEF Looked
  <2>1. LookedAt(s, x, y)
    BY <1>5
  <2>2. /\ y \in Seen(s) /\ (x \in Gone(s) => y \in Gone(s))
        /\ x \in OnIt(s) /\ y \in OnIt(s) => Low(s, x) <= Num(s, y)
    BY <1>0, <2>1 DEF Looked
  <2>3. Low(t, x) \in Nat /\ Low(s, x) \in Nat /\ Num(s, y) \in Nat /\ Low(t, x) <= Low(s, x)
    BY <1>1, <1>11
  <2> QED  BY <1>3, <2>2, <2>3
<1>15. Leads(p, v)
  <2>1. Num(s, p) < Num(s, v) /\ Num(s, p) \in Nat /\ Num(s, v) \in Nat
    BY <1>1, <1>4, <1>6, <1>10
  <2> QED  BY <1>0, <1>6, <1>10, <2>1 DEF Connected
<1>16. Marked(t)
  <2> SUFFICES ASSUME NEW x \in OnIt(s)
               PROVE  Low(t, x) <= Num(t, x) /\ \E u \in OnIt(s) : Low(t, x) = Num(t, u) /\ Leads(x, u)
    BY <1>3 DEF Marked
  <2>0. x \in Ids
    BY <1>1
  <2>1. PICK u \in OnIt(s) : Low(s, x) = Num(s, u) /\ Leads(x, u) /\ Low(s, x) <= Num(s, x)
    BY <1>0 DEF Marked
  <2>2. /\ Low(t, x) \in Nat /\ Low(s, x) \in Nat /\ Num(s, x) \in Nat /\ Low(t, x) <= Low(s, x)
    BY <1>1, <1>11, <2>0
  <2>3. Leads(p, w)
    BY <1>7, <1>15, LeadsOn
  <2>4. Low(t, x) = Low(s, x) \/ (x = p /\ Low(t, x) = Num(s, w))
    BY <1>7, <1>11, <2>0
  <2> QED  BY <1>3, <1>7, <2>1, <2>2, <2>3, <2>4
<1>17. Connected(t)
  <2>1. \A g \in Gray(t), y \in OnIt(t) : Num(t, g) <= Num(t, y) => Leads(g, y)
    BY <1>0, <1>3, <1>5 DEF Connected
  <2>2. ASSUME NEW y \in OnIt(s) PROVE \E g \in Gray(t) : Num(s, g) <= Num(s, y) /\ Leads(y, g)
    <3>1. PICK g \in Gray(s) : Num(s, g) <= Num(s, y) /\ Leads(y, g)
      BY <1>0 DEF Connected
    <3>2. CASE g = v
      <4>1. Num(s, b) \in Nat /\ Num(s, v) \in Nat /\ Num(s, y) \in Nat
        BY <1>1, <1>6
      <4>2. Num(s, b) <= Num(s, y)
        BY <1>9, <3>1, <3>2, <4>1
      <4>3. Leads(y, b)
        BY <1>9, <3>1, <3>2, LeadsOn
      <4> QED  BY <1>9, <4>2, <4>3
    <3>3. CASE g # v
      BY <1>5, <3>1, <3>3
    <3> QED  BY <3>2, <3>3
  <2> QED  BY <1>3, <2>1, <2>2 DEF Connected
<1>18. Collected(t)
  <2> SUFFICES ASSUME NEW g \in Gray(t), NEW y \in OnIt(s), Num(s, g) <= Num(s, y),
                      \A h \in Gray(t) : Num(s, h) <= Num(s, g) \/ Num(s, y) < Num(s, h)
               PROVE  Low(t, g) <= Low(t, y)
    BY <1>3 DEF Collected
  <2>0. /\ g \in Ids /\ y \in Ids /\ g \in Seen(s) /\ y \in Seen(s) /\ g \in Gray(s) /\ p \in Seen(s)
        /\ Num(s, g) < Num(s, v)
    BY <1>1, <1>4, <1>5, <1>10
  <2>1. /\ Low(t, g) \in Nat /\ Low(s, g) \in Nat /\ Low(t, g) <= Low(s, g) /\ Low(s, y) \in Nat
        /\ Num(s, y) \in Nat /\ Num(s, g) \in Nat /\ Low(t, y) \in Nat /\ Num(s, v) \in Nat
        /\ Num(s, p) \in Nat /\ Low(s, v) \in Nat /\ Low(t, p) \in Nat
    BY <1>1, <1>6, <1>10, <1>11, <2>0
  <2>2. Num(s, p) <= Num(s, g) \/ Num(s, y) < Num(s, p)
    BY <1>10
  <2>3. CASE y = p
    <3>1. Num(s, p) <= Num(s, g)
      BY <2>1, <2>2, <2>3
    <3>2. g = p
      BY <1>0, <2>0, <2>1, <2>3, <3>1 DEF Numbered
    <3> QED  BY <2>1, <2>3, <3>2
  <2>4. CASE y # p /\ Num(s, v) <= Num(s, y)
    <3>1. Num(s, p) < Num(s, v)
      BY <1>4, <1>10
    <3>2. Num(s, p) <= Num(s, g)
      BY <2>1, <2>2, <2>4, <3>1
    <3>3. g = p
      BY <1>10, <2>1, <3>2
    <3>4. Low(s, v) <= Low(s, y)
      <4>1. \A h \in Gray(s) : Num(s, h) <= Num(s, v) \/ Num(s, y) < Num(s, h)
        <5>1. ASSUME NEW h \in Gray(s) PROVE Num(s, h) <= Num(s, v)
          <6>1. Num(s, h) \in Nat
            BY <1>1
          <6> QED  BY <1>4, <2>1, <6>1
        <5> QED  BY <5>1
      <4> QED  BY <1>0, <1>4, <2>4, <4>1 DEF Collected
    <3>5. Low(t, y) = Low(s, y)
      BY <1>11, <2>0, <2>4
    <3> QED  BY <1>11, <2>1, <3>3, <3>4, <3>5
  <2>5. CASE y # p /\ ~ (Num(s, v) <= Num(s, y))
    <3>1. Num(s, y) < Num(s, v)
      BY <2>1, <2>5
    <3>2. \A h \in Gray(s) : Num(s, h) <= Num(s, g) \/ Num(s, y) < Num(s, h)
      BY <1>5, <3>1
    <3>3. Low(s, g) <= Low(s, y)
      BY <1>0, <2>0, <3>2 DEF Collected
    <3>4. Low(t, y) = Low(s, y)
      BY <1>11, <2>0, <2>5
    <3> QED  BY <2>1, <3>3, <3>4
  <2> QED  BY <2>3, <2>4, <2>5
<1>19. Classes(t)
  BY <1>0, <1>2 DEF Classes
<1>20. t \in SearchStates
  BY <1>1, <1>2, <1>5, <1>11 DEF SearchStates
<1> QED  BY <1>0, <1>3, <1>12, <1>13, <1>14, <1>16, <1>17, <1>18, <1>19, <1>20 DEF SearchInv

\* What is left of a sequence below a place.
LEMMA SuffixIs ==
    ASSUME NEW T, NEW q \in Seq(T), NEW d \in DOMAIN q
    PROVE  LET r == SubSeq(q, d + 1, Len(q)) IN
           /\ r \in Seq(T) /\ DOMAIN q = 1..Len(q) /\ Len(q) \in Nat
           /\ DOMAIN r = 1..(Len(q) - d)
           /\ \A i \in DOMAIN r : r[i] = q[i + d] /\ i + d \in DOMAIN q
           /\ \A i \in DOMAIN q : d < i => i - d \in DOMAIN r /\ r[i - d] = q[i]
<1> DEFINE r == SubSeq(q, d + 1, Len(q))
<1>1. DOMAIN q = 1..Len(q) /\ Len(q) \in Nat /\ d \in 1..Len(q)
  OBVIOUS
<1>2. r \in Seq(T) /\ Len(r) = Len(q) - d /\ \A i \in 1..Len(r) : r[i] = q[i + d]
  <2>1. d + 1 \in 1..(Len(q) + 1) /\ Len(q) \in d..Len(q)
    BY <1>1
  <2>2. /\ SubSeq(q, d + 1, Len(q)) \in Seq(T)
        /\ Len(SubSeq(q, d + 1, Len(q))) = IF d + 1 <= Len(q) THEN Len(q) - (d + 1) + 1 ELSE 0
        /\ \A i \in 1..(Len(q) - (d + 1) + 1) : SubSeq(q, d + 1, Len(q))[i] = q[(d + 1) + i - 1]
    BY <1>1, <2>1, SubSeqProperties
  <2>3. Len(r) = Len(q) - d
    BY <1>1, <2>2
  <2>4. ASSUME NEW i \in 1..Len(r) PROVE r[i] = q[i + d]
    <3>1. (d + 1) + i - 1 = i + d /\ i \in 1..(Len(q) - (d + 1) + 1)
      BY <1>1, <2>3
    <3> QED  BY <2>2, <3>1
  <2> QED  BY <2>2, <2>3, <2>4
<1>3. DOMAIN r = 1..(Len(q) - d)
  BY <1>2
<1>4. ASSUME NEW i \in DOMAIN r PROVE r[i] = q[i + d] /\ i + d \in DOMAIN q
  BY <1>1, <1>2, <1>3
<1>5. ASSUME NEW i \in DOMAIN q, d < i PROVE i - d \in DOMAIN r /\ r[i - d] = q[i]
  <2>1. i - d \in DOMAIN r /\ (i - d) + d = i
    BY <1>1, <1>3, <1>5
  <2> QED  BY <1>4, <2>1
<1> QED  BY <1>1, <1>2, <1>3, <1>4, <1>5

\* The part of the stack from v up.
Above(s, v) == {x \in OnIt(s) : Num(s, v) <= Num(s, x)}

\* The node v on top has seen its neighbours, none of which leads below it.
Rooted(s, v) ==
    s.calls # <<>> /\ Head(s.calls).node = v /\ Head(s.calls).left = <<>> /\ Low(s, v) = Num(s, v)

\* From s to t the node v, at place d of the stack, is left as the root of C.
Roots(s, t, v, d, C) ==
    /\ Rooted(s, v) /\ d \in DOMAIN s.stack /\ s.stack[d] = v /\ C = {s.stack[i] : i \in 1..d}
    /\ t = [calls |-> Tail(s.calls), stack |-> SubSeq(s.stack, d + 1, Len(s.stack)), indices |-> s.indices,
            low |-> IF Tail(s.calls) # <<>> /\ Low(s, v) < Low(s, Head(Tail(s.calls)).node)
                    THEN [s.low EXCEPT ![Head(Tail(s.calls)).node] = Low(s, v)] ELSE s.low,
            index |-> s.index, components |-> s.components \union {C}]

\* What lies above a root with its number as low mark is closed up to the
\* components, and is a class.
LEMMA RootClass ==
    ASSUME NEW s, SearchInv(s), Drawn, NEW v, Rooted(s, v)
    PROVE  /\ Shut(Gone(s) \union Above(s, v)) /\ v \in Above(s, v)
           /\ \A x \in Above(s, v) : Above(s, v) = Class(x)
<1> DEFINE C == Above(s, v)
<1> /\ s.calls # <<>> /\ Head(s.calls).node = v /\ Head(s.calls).left = <<>> /\ Low(s, v) = Num(s, v)
    /\ C = {x \in OnIt(s) : Num(s, v) <= Num(s, x)}
  BY DEF Rooted, Above
<1> HIDE DEF C
<1>0. Numbered(s) /\ Stacked(s) /\ Looked(s) /\ Connected(s) /\ Collected(s)
  BY DEF SearchInv
<1>1. /\ Gray(s) \subseteq OnIt(s) /\ OnIt(s) \subseteq Seen(s) /\ Seen(s) \subseteq Ids /\ Gone(s) \subseteq Ids
      /\ \A u \in Ids : Num(s, u) \in Nat /\ Low(s, u) \in Nat /\ Num(s, u) < s.index
  BY SearchParts
<1>2. /\ v \in Gray(s) /\ v = s.calls[1].node /\ s.calls[1].left = <<>>
      /\ \A g \in Gray(s) : g # v => Num(s, g) < Num(s, v)
  BY TopIs
<1>3. v \in Ids /\ v \in C /\ C \subseteq Ids /\ C \subseteq OnIt(s)
  BY <1>1, <1>2
<1>4. ASSUME NEW g \in Gray(s), g \in C PROVE g = v
  <2>1. Num(s, g) \in Nat /\ Num(s, v) \in Nat /\ Num(s, v) <= Num(s, g)
    BY <1>1, <1>3, <1>4
  <2> QED  BY <1>2, <2>1
<1>5. OnIt(s) \intersect Gone(s) = {} /\ Seen(s) = OnIt(s) \union Gone(s)
  BY <1>0 DEF Stacked
<1>6. ASSUME NEW x \in Seen(s), x \notin Gray(s) \/ x = v, NEW y \in adjacency[x]
      PROVE  LookedAt(s, x, y)
  <2>1. ASSUME NEW i \in DOMAIN s.calls, s.calls[i].node = x, NEW j \in DOMAIN s.calls[i].left
        PROVE  FALSE
    <3>1. x \in Gray(s)
      BY <2>1 DEF Gray
    <3>2. x = v
      BY <1>6, <3>1
    <3>3. CASE i = 1
      <4>1. s.calls[i].left = <<>>
        BY <1>2, <3>3
      <4>2. DOMAIN s.calls[i].left = {}
        BY <4>1, NothingIn, Zenon
      <4> QED  BY <2>1, <4>2
    <3>4. CASE i # 1
      <4>1. i \in Nat /\ 1 < i /\ 1 \in DOMAIN s.calls
        <5>1. s.calls \in Seq(Frames)
          BY SearchParts
        <5> QED  BY <3>4, <5>1
      <4>2. Num(s, s.calls[1].node) > Num(s, s.calls[i].node)
        BY <1>0, <4>1 DEF Stacked
      <4>3. Num(s, v) \in Nat /\ Num(s, v) > Num(s, v)
        BY <1>1, <1>2, <1>3, <2>1, <3>2, <4>2
      <4> QED  BY <4>3
    <3> QED  BY <3>3, <3>4
  <2> QED  BY <1>6, <2>1 DEF LookedAt
<1>7. ASSUME NEW x \in Gone(s), NEW y \in adjacency[x] PROVE y \in Gone(s)
  <2>1. x \in Seen(s) /\ x \notin Gray(s) /\ x \in Ids /\ y \in Ids
    BY <1>1, <1>5 DEF Drawn
  <2>2. LookedAt(s, x, y)
    BY <1>6, <2>1
  <2> QED  BY <1>0, <2>1, <2>2 DEF Looked
<1>8. ASSUME NEW x \in C, NEW y \in adjacency[x] PROVE y \in Gone(s) \union C
  <2>1. x \in Seen(s) /\ (x \notin Gray(s) \/ x = v) /\ x \in Ids /\ x \in OnIt(s)
    BY <1>1, <1>3, <1>4
  <2>2. LookedAt(s, x, y) /\ y \in Ids
    BY <1>6, <2>1 DEF Drawn
  <2>3. y \in Seen(s) /\ (y \in OnIt(s) => Low(s, x) <= Num(s, y))
    BY <1>0, <2>1, <2>2 DEF Looked
  <2>4. Low(s, v) <= Low(s, x)
    <3>1. Num(s, v) <= Num(s, x)
      OBVIOUS
    <3>2. ASSUME NEW h \in Gray(s) PROVE Num(s, h) <= Num(s, v)
      <4>1. Num(s, h) \in Nat /\ Num(s, v) \in Nat
        BY <1>1, <1>3
      <4> QED  BY <1>2, <4>1
    <3> QED  BY <1>0, <1>2, <2>1, <3>1, <3>2 DEF Collected
  <2>5. Low(s, v) \in Nat /\ Low(s, x) \in Nat /\ Num(s, y) \in Nat /\ Num(s, v) = Low(s, v)
    BY <1>1, <1>3, <2>1, <2>2
  <2>6. y \in OnIt(s) => Num(s, v) <= Num(s, y)
    BY <2>3, <2>4, <2>5
  <2> QED  BY <1>5, <2>3, <2>6
<1>9. Shut(Gone(s)) /\ Shut(Gone(s) \union C)
  BY <1>7, <1>8 DEF Shut
<1>10. Gone(s) \union C \in SUBSET Ids /\ Gone(s) \in SUBSET Ids
  BY <1>1, <1>3
<1>11. ASSUME NEW x \in C PROVE Leads(v, x) /\ Leads(x, v)
  <2>1. Leads(v, x)
    BY <1>0, <1>2 DEF Connected
  <2>2. PICK g \in Gray(s) : Leads(x, g)
    BY <1>0, <1>3 DEF Connected
  <2>3. g \in Gone(s) \union C
    BY <1>9, <1>10, <2>2, LeadsOn
  <2>4. g \in C
    BY <1>1, <1>5, <2>3
  <2> QED  BY <1>4, <2>1, <2>2, <2>4
<1>12. ASSUME NEW x \in C, NEW w \in Ids, Leads(x, w), Leads(w, x) PROVE w \in C
  <2>1. w \in Gone(s) \union C
    BY <1>9, <1>10, <1>12, LeadsOn
  <2>2. w \in Gone(s) => x \in Gone(s)
    BY <1>9, <1>10, <1>12, LeadsOn
  <2> QED  BY <1>3, <1>5, <2>1, <2>2
<1>13. ASSUME NEW x \in C, NEW w \in C PROVE Leads(x, w)
  <2>1. Leads(x, v) /\ Leads(v, w)
    BY <1>11
  <2> QED  BY <2>1, LeadsOn
<1>14. ASSUME NEW x \in C PROVE C = Class(x)
  BY <1>3, <1>12, <1>13 DEF Class
<1> QED  BY <1>3, <1>9, <1>14 DEF C

\* A node is left as the root of a component.
LEMMA RootKeeps ==
    ASSUME NEW s, NEW t, SearchInv(s), Drawn, NEW v, NEW d, NEW C, Roots(s, t, v, d, C)
    PROVE  SearchInv(t)
<1>0. /\ Numbered(s) /\ Stacked(s) /\ Looked(s) /\ Marked(s) /\ Connected(s) /\ Collected(s) /\ Classes(s)
      /\ Seen(s) \subseteq Declared
  BY DEF SearchInv
<1>1. /\ s.stack \in Seq(Ids)
      /\ s.indices \in [Ids -> Nat] /\ s.low \in [Ids -> Nat]
      /\ s.index \in Nat \ {0} /\ s.components \subseteq SUBSET Ids
      /\ Gray(s) \subseteq OnIt(s) /\ OnIt(s) \subseteq Seen(s) /\ Seen(s) \subseteq Ids /\ Gone(s) \subseteq Ids
      /\ \A u \in Ids : Num(s, u) \in Nat /\ Low(s, u) \in Nat /\ Num(s, u) < s.index
  BY SearchParts
<1>2. /\ s.calls # <<>> /\ Head(s.calls).node = v /\ Head(s.calls).left = <<>> /\ Low(s, v) = Num(s, v)
      /\ d \in DOMAIN s.stack /\ s.stack[d] = v /\ C = {s.stack[i] : i \in 1..d}
      /\ t.calls = Tail(s.calls) /\ t.stack = SubSeq(s.stack, d + 1, Len(s.stack))
      /\ t.indices = s.indices /\ t.index = s.index
      /\ t.components = s.components \union {C}
      /\ t.low = (IF t.calls # <<>> /\ Low(s, v) < Low(s, Head(t.calls).node)
                  THEN [s.low EXCEPT ![Head(t.calls).node] = Low(s, v)] ELSE s.low)
      /\ t = [calls |-> t.calls, stack |-> t.stack, indices |-> t.indices, low |-> t.low,
              index |-> t.index, components |-> t.components]
  BY DEF Roots, Rooted
<1>3. Seen(t) = Seen(s) /\ Gone(t) = Gone(s) \union C /\ \A u : Num(t, u) = Num(s, u)
  <2>1. Seen(t) = Seen(s) /\ \A u : Num(t, u) = Num(s, u)
    BY <1>2 DEF Seen, Num
  <2>2. t.components = s.components \union {C}
    BY <1>2
  <2> QED  BY <2>1, <2>2, Zenon DEF Gone
<1>4. /\ v \in Gray(s) /\ v = s.calls[1].node
      /\ \A g \in Gray(s) : g # v => Num(s, g) < Num(s, v)
  BY <1>2, TopIs
<1>5. /\ t.calls \in Seq(Frames) /\ Gray(t) = Gray(s) \ {v}
      /\ \A x, y : LookedAt(t, x, y) => LookedAt(s, x, y)
      /\ \A i, j \in DOMAIN t.calls : i < j => Num(s, t.calls[i].node) > Num(s, t.calls[j].node)
      /\ \A i \in DOMAIN t.calls : \A j \in DOMAIN t.calls[i].left :
            t.calls[i].left[j] \in adjacency[t.calls[i].node]
      /\ t.calls # <<>> => Head(t.calls).node \in Gray(t)
  <2>1. /\ s.calls # <<>> /\ Head(s.calls).left = <<>> /\ t.calls = Tail(s.calls)
        /\ Seen(t) = Seen(s) /\ v = s.calls[1].node
    BY <1>2, <1>3, <1>4
  <2> QED  BY <2>1, LeaveIs, Zenon
<1>6. v \in OnIt(s) /\ v \in Ids /\ Num(s, v) \in Nat /\ Low(s, v) \in Nat
  BY <1>1, <1>4
<1>7. /\ t.stack \in Seq(Ids) /\ DOMAIN s.stack = 1..Len(s.stack) /\ Len(s.stack) \in Nat /\ d \in Nat
      /\ DOMAIN t.stack = 1..(Len(s.stack) - d)
      /\ \A i \in DOMAIN t.stack : t.stack[i] = s.stack[i + d] /\ i + d \in DOMAIN s.stack
      /\ \A i \in DOMAIN s.stack : d < i => i - d \in DOMAIN t.stack /\ t.stack[i - d] = s.stack[i]
  <2>1. /\ t.stack \in Seq(Ids) /\ DOMAIN s.stack = 1..Len(s.stack) /\ Len(s.stack) \in Nat
        /\ DOMAIN t.stack = 1..(Len(s.stack) - d)
        /\ \A i \in DOMAIN t.stack : t.stack[i] = s.stack[i + d] /\ i + d \in DOMAIN s.stack
        /\ \A i \in DOMAIN s.stack : d < i => i - d \in DOMAIN t.stack /\ t.stack[i - d] = s.stack[i]
    <3>1. s.stack \in Seq(Ids) /\ d \in DOMAIN s.stack /\ t.stack = SubSeq(s.stack, d + 1, Len(s.stack))
      BY <1>1, <1>2
    <3>2. LET r == SubSeq(s.stack, d + 1, Len(s.stack)) IN
          /\ r \in Seq(Ids) /\ DOMAIN s.stack = 1..Len(s.stack) /\ Len(s.stack) \in Nat
          /\ DOMAIN r = 1..(Len(s.stack) - d)
          /\ \A i \in DOMAIN r : r[i] = s.stack[i + d] /\ i + d \in DOMAIN s.stack
          /\ \A i \in DOMAIN s.stack : d < i => i - d \in DOMAIN r /\ r[i - d] = s.stack[i]
      BY <3>1, SuffixIs, Zenon
    <3> QED  BY <3>1, <3>2, Zenon
  <2>2. d \in DOMAIN s.stack
    BY <1>2
  <2>3. d \in Nat
    BY <2>1, <2>2
  <2> QED  BY <2>1, <2>3
<1>8. ASSUME NEW i \in DOMAIN s.stack
      PROVE  /\ i <= d => Num(s, v) <= Num(s, s.stack[i])
             /\ d < i => Num(s, s.stack[i]) < Num(s, v)
  <2>1. /\ i < d => Num(s, s.stack[i]) > Num(s, s.stack[d])
        /\ d < i => Num(s, s.stack[d]) > Num(s, s.stack[i])
    BY <1>0, <1>2 DEF Stacked
  <2>2. s.stack[i] \in OnIt(s)
    BY DEF OnIt
  <2>3. Num(s, s.stack[i]) \in Nat
    BY <1>1, <2>2
  <2> QED  BY <1>2, <1>6, <1>7, <2>1, <2>3
<1>9. C = {x \in OnIt(s) : Num(s, v) <= Num(s, x)}
  <2>1. ASSUME NEW x \in C PROVE x \in OnIt(s) /\ Num(s, v) <= Num(s, x)
    <3>1. PICK i \in 1..d : x = s.stack[i]
      BY <1>2
    <3>2. i \in DOMAIN s.stack /\ i <= d
      BY <1>2, <1>7
    <3> QED  BY <1>8, <3>1, <3>2 DEF OnIt
  <2>2. ASSUME NEW x \in OnIt(s), Num(s, v) <= Num(s, x) PROVE x \in C
    <3>1. PICK i \in DOMAIN s.stack : x = s.stack[i]
      BY DEF OnIt
    <3>2. Num(s, x) \in Nat
      BY <1>1
    <3>3. i \in 1..d
      BY <1>6, <1>7, <1>8, <2>2, <3>1, <3>2
    <3> QED  BY <1>2, <3>1, <3>3
  <2> QED  BY <2>1, <2>2
<1>10. OnIt(t) = {x \in OnIt(s) : Num(s, x) < Num(s, v)}
  <2>1. ASSUME NEW x \in OnIt(t) PROVE x \in OnIt(s) /\ Num(s, x) < Num(s, v)
    <3>1. PICK i \in DOMAIN t.stack : x = t.stack[i]
      BY DEF OnIt
    <3>2. i + d \in DOMAIN s.stack /\ d < i + d /\ x = s.stack[i + d]
      BY <1>7, <3>1
    <3> QED  BY <1>8, <3>2 DEF OnIt
  <2>2. ASSUME NEW x \in OnIt(s), Num(s, x) < Num(s, v) PROVE x \in OnIt(t)
    <3>1. PICK i \in DOMAIN s.stack : x = s.stack[i]
      BY DEF OnIt
    <3>2. Num(s, x) \in Nat
      BY <1>1
    <3>3. d < i
      BY <1>6, <1>7, <1>8, <2>2, <3>1, <3>2
    <3> QED  BY <1>7, <3>1, <3>3 DEF OnIt
  <2> QED  BY <2>1, <2>2
<1>11. OnIt(s) = OnIt(t) \union C /\ OnIt(t) \intersect C = {}
  <2>1. \A x \in OnIt(s) : Num(s, x) < Num(s, v) <=> ~ (Num(s, v) <= Num(s, x))
    BY <1>1, <1>6
  <2> QED  BY <1>9, <1>10, <2>1
<1>12. Shut(Gone(s) \union C) /\ v \in C /\ \A x \in C : C = Class(x)
  <2>1. Rooted(s, v)
    BY DEF Roots
  <2>2. C = Above(s, v)
    BY <1>9 DEF Above
  <2> QED  BY <2>1, <2>2, RootClass
<1>13. t.low = s.low /\ \A u : Low(t, u) = Low(s, u)
  <2>1. t.calls # <<>> => Low(s, Head(t.calls).node) <= Low(s, v)
    <3> SUFFICES ASSUME t.calls # <<>> PROVE Low(s, Head(t.calls).node) <= Low(s, v)
      OBVIOUS
    <3> DEFINE p == Head(t.calls).node
    <3>1. p \in Gray(s) /\ p # v
      BY <1>5
    <3>2. p \in OnIt(s) /\ Low(s, p) \in Nat /\ Num(s, p) \in Nat /\ Num(s, p) < Num(s, v)
      BY <1>1, <1>4, <3>1
    <3>3. Low(s, p) <= Num(s, p)
      BY <1>0, <3>2 DEF Marked
    <3> QED  BY <1>2, <1>6, <3>2, <3>3
  <2>2. t.calls # <<>> => Low(s, Head(t.calls).node) \in Nat
    BY <1>1, <1>5
  <2>3. ~ (t.calls # <<>> /\ Low(s, v) < Low(s, Head(t.calls).node))
    BY <1>6, <2>1, <2>2
  <2>4. t.low = s.low
    BY <1>2, <2>3
  <2> QED  BY <2>4 DEF Low
<1>14. \A g \in Gray(t) : g \in OnIt(t) /\ g \in Gray(s)
  BY <1>1, <1>4, <1>5, <1>10
<1>15. Numbered(t)
  BY <1>0, <1>2, <1>3, <1>13 DEF Numbered
<1>16. Stacked(t)
  <2>1. ASSUME NEW i \in DOMAIN t.stack, NEW j \in DOMAIN t.stack, i < j
        PROVE  Num(t, t.stack[i]) > Num(t, t.stack[j])
    <3>1. i + d \in DOMAIN s.stack /\ j + d \in DOMAIN s.stack /\ i + d < j + d
      BY <1>7, <2>1
    <3>2. Num(s, s.stack[i + d]) > Num(s, s.stack[j + d])
      BY <1>0, <3>1 DEF Stacked
    <3> QED  BY <1>3, <1>7, <3>2
  <2>2. Gray(t) \subseteq OnIt(t) /\ Seen(t) = OnIt(t) \union Gone(t)
    BY <1>0, <1>3, <1>11, <1>14 DEF Stacked
  <2>3. OnIt(t) \intersect Gone(t) = {}
    BY <1>0, <1>3, <1>11 DEF Stacked
  <2> QED  BY <1>3, <1>5, <2>1, <2>2, <2>3 DEF Stacked
<1>17. Looked(t)
  <2> SUFFICES ASSUME NEW x \in Ids, NEW y \in Ids, LookedAt(t, x, y)
               PROVE  /\ y \in Seen(t) /\ (x \in Gone(t) => y \in Gone(t))
                      /\ x \in OnIt(t) /\ y \in OnIt(t) => Low(t, x) <= Num(t, y)
    BY DEF Looked
  <2>1. LookedAt(s, x, y) /\ y \in adjacency[x]
    BY <1>5 DEF LookedAt
  <2>2. y \in Seen(s) /\ (x \in OnIt(s) /\ y \in OnIt(s) => Low(s, x) <= Num(s, y))
    BY <1>0, <2>1 DEF Looked
  <2>3. x \in Gone(t) => y \in Gone(t)
    BY <1>3, <1>12, <2>1 DEF Shut
  <2> QED  BY <1>3, <1>11, <1>13, <2>2, <2>3
<1>18. Marked(t)
  <2> SUFFICES ASSUME NEW x \in OnIt(t)
               PROVE  Low(t, x) <= Num(t, x) /\ \E u \in OnIt(t) : Low(t, x) = Num(t, u) /\ Leads(x, u)
    BY DEF Marked
  <2>1. x \in OnIt(s) /\ Num(s, x) < Num(s, v)
    BY <1>10
  <2>2. PICK u \in OnIt(s) : Low(s, x) = Num(s, u) /\ Leads(x, u) /\ Low(s, x) <= Num(s, x)
    BY <1>0, <2>1 DEF Marked
  <2>3. Num(s, x) \in Nat /\ Num(s, u) \in Nat
    BY <1>1, <2>1
  <2>4. u \in OnIt(t)
    BY <1>6, <1>10, <2>1, <2>2, <2>3
  <2> QED  BY <1>3, <1>13, <2>2, <2>4
<1>19. Connected(t)
  <2>1. \A g \in Gray(t), y \in OnIt(t) : Num(t, g) <= Num(t, y) => Leads(g, y)
    BY <1>0, <1>3, <1>11, <1>14 DEF Connected
  <2>2. ASSUME NEW y \in OnIt(t) PROVE \E g \in Gray(t) : Num(s, g) <= Num(s, y) /\ Leads(y, g)
    <3>1. y \in OnIt(s) /\ Num(s, y) < Num(s, v)
      BY <1>10
    <3>2. PICK g \in Gray(s) : Num(s, g) <= Num(s, y) /\ Leads(y, g)
      BY <1>0, <3>1 DEF Connected
    <3>3. Num(s, y) \in Nat
      BY <1>1, <3>1
    <3>4. g # v
      BY <1>6, <3>1, <3>2, <3>3
    <3> QED  BY <1>5, <3>2, <3>4
  <2> QED  BY <1>3, <2>1, <2>2 DEF Connected
<1>20. Collected(t)
  <2> SUFFICES ASSUME NEW g \in Gray(t), NEW y \in OnIt(t), Num(s, g) <= Num(s, y),
                      \A h \in Gray(t) : Num(s, h) <= Num(s, g) \/ Num(s, y) < Num(s, h)
               PROVE  Low(s, g) <= Low(s, y)
    BY <1>3, <1>13 DEF Collected
  <2>1. y \in OnIt(s) /\ Num(s, y) < Num(s, v) /\ g \in Gray(s)
    BY <1>10, <1>14
  <2>2. \A h \in Gray(s) : Num(s, h) <= Num(s, g) \/ Num(s, y) < Num(s, h)
    BY <1>5, <2>1
  <2> QED  BY <1>0, <2>1, <2>2 DEF Collected
<1>21. Classes(t)
  <2> SUFFICES ASSUME NEW D \in t.components
               PROVE  D # {} /\ \A u \in D : D = Class(u)
    BY DEF Classes
  <2>1. CASE D \in s.components
    BY <1>0, <2>1 DEF Classes
  <2>2. CASE D = C
    BY <1>12, <2>2
  <2> QED  BY <1>2, <2>1, <2>2
<1>22. t \in SearchStates
  <2>1. C \subseteq Ids
    BY <1>1, <1>9
  <2>2. t.components \in SUBSET SUBSET Ids
    BY <1>1, <1>2, <2>1
  <2> QED  BY <1>1, <1>2, <1>5, <1>7, <1>13, <2>2 DEF SearchStates
<1> QED  BY <1>0, <1>3, <1>15, <1>16, <1>17, <1>18, <1>19, <1>20, <1>21, <1>22 DEF SearchInv

-----------------------------------------------------------------------------
(* The breadth-first search of a mapping.                                  *)

Spread(w) == w \union UNION {adjacency[v] : v \in w}

\* g is the search from v, up to step m.
Waves(v, m, g) == g = [k \in 0..m |-> IF k = 0 THEN {v} ELSE Spread(g[k - 1])]

Wave(v) == CHOOSE g : Waves(v, Cardinality(Ids), g)

\* There are finitely many identifiers.
LEMMA IdsFinite ==
    /\ Cardinality(Ids) \in Nat /\ Cardinality(Ids) \in 0..Cardinality(Ids)
    /\ \A w \in SUBSET Ids : IsFiniteSet(w) /\ Cardinality(w) \in Nat /\ Cardinality(w) <= Cardinality(Ids)
<1>1. IsFiniteSet(Ids)
  BY CompilerAssumption
<1>2. Cardinality(Ids) \in Nat
  BY <1>1, FS_CardinalityType
<1>3. \A w \in SUBSET Ids : IsFiniteSet(w) /\ Cardinality(w) <= Cardinality(Ids)
  BY <1>1, FS_Subset
<1>4. \A w \in SUBSET Ids : Cardinality(w) \in Nat
  BY <1>3, FS_CardinalityType
<1> QED  BY <1>2, <1>3, <1>4

\* The recursive definition of the waves has a solution.
LEMMA WavesExist ==
    ASSUME NEW v, NEW b \in Nat
    PROVE  \A m \in 0..b : \E g : Waves(v, m, g)
<1> DEFINE T == {m \in Nat : \E g : Waves(v, m, g)}
<1>1. 0 \in T
  <2> DEFINE g == [k \in 0..0 |-> {v}]
  <2>1. g = [k \in 0..0 |-> IF k = 0 THEN {v} ELSE Spread(g[k - 1])]
    OBVIOUS
  <2> QED  BY <2>1 DEF Waves
<1>2. ASSUME NEW m \in 0..b, m < b, m \in T PROVE m + 1 \in T
  <2>1. PICK g : Waves(v, m, g)
    BY <1>2
  <2> DEFINE h == [k \in 0..(m + 1) |-> IF k = 0 THEN {v} ELSE Spread(g[k - 1])]
  <2>2. ASSUME NEW k \in 0..(m + 1), k # 0 PROVE h[k - 1] = g[k - 1]
    <3>1. k - 1 \in 0..m /\ k - 1 \in 0..(m + 1)
      BY <1>2, <2>2
    <3>2. g[k - 1] = IF k - 1 = 0 THEN {v} ELSE Spread(g[(k - 1) - 1])
      BY <2>1, <3>1 DEF Waves
    <3> QED  BY <3>1, <3>2
  <2> DEFINE f == [k \in 0..(m + 1) |-> IF k = 0 THEN {v} ELSE Spread(h[k - 1])]
  <2>3. ASSUME NEW k \in 0..(m + 1) PROVE h[k] = f[k]
    <3>1. CASE k = 0
      BY <3>1
    <3>2. CASE k # 0
      <4>1. h[k] = Spread(g[k - 1]) /\ f[k] = Spread(h[k - 1])
        BY <3>2
      <4>2. h[k - 1] = g[k - 1]
        BY <2>2, <3>2
      <4> HIDE DEF h, f
      <4> QED  BY <4>1, <4>2
    <3> QED  BY <3>1, <3>2
  <2>4. h = f
    <3>1. h = [k \in 0..(m + 1) |-> h[k]] /\ f = [k \in 0..(m + 1) |-> f[k]]
      OBVIOUS
    <3> HIDE DEF h, f
    <3> QED  BY <2>3, <3>1
  <2>5. Waves(v, m + 1, h)
    BY <2>4 DEF Waves
  <2> QED  BY <1>2, <2>5
<1> HIDE DEF T
<1>3. \A m \in 0..b : m \in T
  BY <1>1, <1>2, StepByStep
<1> QED  BY <1>3 DEF T

\* The waves, and what is reached.
LEMMA WaveSteps ==
    ASSUME NEW v
    PROVE  /\ Wave(v)[0] = {v}
           /\ \A k \in 1..Cardinality(Ids) : Wave(v)[k] = Spread(Wave(v)[k - 1])
           /\ \A w : Reaches(v, w) <=> w \in UNION {adjacency[u] : u \in Wave(v)[Cardinality(Ids)]}
<1> DEFINE b == Cardinality(Ids)
<1>0. b \in Nat /\ b \in 0..b
  BY IdsFinite
<1>1. \E g : Waves(v, b, g)
  BY <1>0, WavesExist
<1>2. Waves(v, b, Wave(v))
  BY <1>1 DEF Wave
<1>3. Wave(v) = [k \in 0..b |-> IF k = 0 THEN {v} ELSE Spread(Wave(v)[k - 1])]
  BY <1>2 DEF Waves
<1>4. \A w : Reaches(v, w) <=> w \in UNION {adjacency[u] : u \in Wave(v)[b]}
  BY DEF Reaches, Wave, Waves, Spread
<1> DEFINE S == Wave(v)
<1>5. S = [k \in 0..b |-> IF k = 0 THEN {v} ELSE Spread(S[k - 1])]
  BY <1>3
<1> HIDE DEF S, b
<1>6. S[0] = {v}
  BY <1>0, <1>5
<1>7. ASSUME NEW k \in 1..b PROVE S[k] = Spread(S[k - 1])
  <2>1. k \in 0..b /\ k # 0
    BY <1>0
  <2> QED  BY <1>5, <2>1
<1> QED  BY <1>4, <1>6, <1>7 DEF S, b

\* The waves stay within every closed set that holds the start.
LEMMA WavesWithin ==
    ASSUME Drawn, NEW v, NEW X, v \in X, Shut(X)
    PROVE  \A k \in 0..Cardinality(Ids) : v \in Wave(v)[k] /\ Wave(v)[k] \subseteq X
<1> DEFINE W == Wave(v)
           b == Cardinality(Ids)
           T == {k \in 0..b : v \in W[k] /\ W[k] \subseteq X}
<1>0. b \in Nat
  BY IdsFinite
<1>1. W[0] = {v} /\ \A k \in 1..b : W[k] = Spread(W[k - 1])
  BY WaveSteps
<1> HIDE DEF W, b
<1>2. 0 \in T
  BY <1>0, <1>1
<1>3. ASSUME NEW k \in 0..b, k < b, k \in T PROVE k + 1 \in T
  <2>1. k + 1 \in 1..b /\ (k + 1) - 1 = k /\ k + 1 \in 0..b
    BY <1>0, <1>3
  <2>2. W[k + 1] = Spread(W[k])
    BY <1>1, <2>1
  <2>3. Spread(W[k]) \subseteq X /\ v \in Spread(W[k])
    BY <1>3 DEF Spread, Shut
  <2> QED  BY <2>1, <2>2, <2>3
<1> HIDE DEF T
<1>4. \A k \in 0..b : k \in T
  BY <1>0, <1>2, <1>3, StepByStep
<1> QED  BY <1>4 DEF T, W, b

\* A set that is not closed grows, a closed one does not.
LEMMA SpreadsOrShut ==
    ASSUME Drawn, NEW w \in SUBSET Ids
    PROVE  /\ Spread(w) \in SUBSET Ids /\ w \in SUBSET Spread(w)
           /\ Shut(w) => Spread(w) = w
           /\ ~ Shut(w) => Spread(w) # w
BY DEF Spread, Shut, Drawn

\* The last wave is closed.
LEMMA WavesShut ==
    ASSUME Drawn, NEW v \in Ids
    PROVE  LET w == Wave(v)[Cardinality(Ids)] IN Shut(w) /\ w \in SUBSET Ids
<1> DEFINE W == Wave(v)
           b == Cardinality(Ids)
           T == {k \in 0..b : W[k] \in SUBSET Ids /\ (Shut(W[k]) \/ k < Cardinality(W[k]))}
<1>0. b \in Nat
  BY IdsFinite
<1>1. W[0] = {v} /\ (\A k \in 1..b : W[k] = Spread(W[k - 1]))
  BY WaveSteps
<1>a. \A w \in SUBSET Ids : IsFiniteSet(w) /\ Cardinality(w) \in Nat /\ Cardinality(w) <= b
  BY IdsFinite
<1> HIDE DEF W, b
<1>2. 0 \in T
  <2>1. Cardinality({v}) = 1
    BY FS_Singleton
  <2> QED  BY <1>0, <1>1, <2>1
<1>3. ASSUME NEW k \in 0..b, k < b, k \in T PROVE k + 1 \in T
  <2> DEFINE w == W[k]
             u == W[k + 1]
  <2>1. k + 1 \in 1..b /\ (k + 1) - 1 = k /\ k + 1 \in 0..b
    BY <1>0, <1>3
  <2>2. u = Spread(w)
    BY <1>1, <2>1
  <2>3. w \in SUBSET Ids /\ (Shut(w) \/ k < Cardinality(w))
    BY <1>3
  <2> HIDE DEF w, u
  <2>4. u \in SUBSET Ids /\ w \in SUBSET u /\ (Shut(w) => u = w) /\ (~ Shut(w) => u # w)
    BY <2>2, <2>3, SpreadsOrShut
  <2>5. CASE Shut(w)
    <3>1. u \in SUBSET Ids /\ Shut(u)
      BY <2>4, <2>5
    <3> QED  BY <2>1, <3>1 DEF u
  <2>6. CASE ~ Shut(w)
    <3>1. IsFiniteSet(u) /\ Cardinality(u) \in Nat /\ Cardinality(w) \in Nat
      BY <1>a, <2>3, <2>4
    <3>2. Cardinality(w) <= Cardinality(u) /\ Cardinality(w) # Cardinality(u)
      BY <2>4, <2>6, <3>1, FS_Subset
    <3>3. k + 1 < Cardinality(u)
      BY <1>3, <2>3, <2>6, <3>1, <3>2
    <3> QED  BY <2>1, <2>4, <3>3 DEF u
  <2> QED  BY <2>5, <2>6
<1> HIDE DEF T
<1>4. b \in T
  <2>1. \A k \in 0..b : k \in T
    BY <1>0, <1>2, <1>3, StepByStep
  <2> QED  BY <1>0, <2>1
<1>5. W[b] \in SUBSET Ids /\ (Shut(W[b]) \/ b < Cardinality(W[b]))
  BY <1>4 DEF T
<1>6. Cardinality(W[b]) \in Nat /\ Cardinality(W[b]) <= b
  BY <1>a, <1>5
<1>7. Shut(W[b])
  BY <1>0, <1>5, <1>6
<1> QED  BY <1>5, <1>7 DEF W, b

\* A mapping follows a path: what the search reaches over one more edge.
LEMMA ReachesIs ==
    ASSUME Drawn, NEW v \in Ids, NEW w \in Ids
    PROVE  Reaches(v, w) <=> Path(v, w)
<1> DEFINE b == Cardinality(Ids)
           L == Wave(v)[b]
           R == UNION {adjacency[u] : u \in L}
<1>0. b \in 0..b
  BY IdsFinite
<1>1. Reaches(v, w) <=> w \in R
  BY WaveSteps
<1>2. Shut(L) /\ L \in SUBSET Ids
  BY WavesShut
<1>3. \A X : v \in X /\ Shut(X) => v \in L /\ L \subseteq X
  BY <1>0, WavesWithin
<1>4. v \in L
  BY <1>2, <1>3 DEF Shut, Drawn
<1> HIDE DEF L
<1>5. R \in SUBSET Ids /\ R \subseteq L
  BY <1>2 DEF Shut, Drawn
<1>6. adjacency[v] \subseteq R
  BY <1>4
<1>7. Shut(R)
  BY <1>5 DEF Shut
<1>8. ASSUME Path(v, w) PROVE w \in R
  <2> HIDE DEF R
  <2> QED  BY <1>5, <1>6, <1>7, <1>8 DEF Path
<1>9. ASSUME w \in R, NEW X \in SUBSET Ids, adjacency[v] \subseteq X, Shut(X) PROVE w \in X
  <2>1. Shut(X \union {v})
    BY <1>9 DEF Shut
  <2>2. L \subseteq X \union {v}
    BY <1>3, <2>1
  <2>3. PICK u \in L : w \in adjacency[u]
    BY <1>9
  <2> QED  BY <1>9, <2>2, <2>3 DEF Shut
<1> QED  BY <1>1, <1>8, <1>9 DEF Path

\* A path leads, and what leads elsewhere is a path.
LEMMA PathIs ==
    ASSUME Drawn, NEW v \in Ids, NEW w
    PROVE  /\ Leads(v, w) <=> v = w \/ Path(v, w)
           /\ Path(v, w) <=> \E u \in adjacency[v] : Leads(u, w)
<1> DEFINE B == {x \in Ids : \E u \in adjacency[v] : Leads(u, x)}
<1>0. adjacency[v] \subseteq Ids
  BY DEF Drawn
<1>1. adjacency[v] \subseteq B /\ B \in SUBSET Ids
  BY <1>0, LeadsOn
<1>2. Shut(B)
  <2>1. ASSUME NEW x \in B, NEW y \in adjacency[x] PROVE y \in B
    <3>1. PICK u \in adjacency[v] : Leads(u, x)
      OBVIOUS
    <3>2. x \in Ids /\ y \in Ids /\ Leads(x, y)
      BY LeadsOn DEF Drawn
    <3>3. Leads(u, y)
      BY <3>1, <3>2, LeadsOn
    <3> QED  BY <3>2, <3>3
  <2> QED  BY <2>1 DEF Shut
<1>3. ASSUME Path(v, w) PROVE \E u \in adjacency[v] : Leads(u, w)
  <2>1. w \in B
    BY <1>1, <1>2, <1>3 DEF Path
  <2> QED  BY <2>1
<1>4. ASSUME NEW u \in adjacency[v], Leads(u, w) PROVE Path(v, w)
  BY <1>4 DEF Path, Leads
<1>5. ASSUME Path(v, w) PROVE Leads(v, w)
  BY <1>5 DEF Path, Leads, Shut
<1>6. ASSUME Leads(v, w), v # w PROVE Path(v, w)
  <2>1. Shut(B \union {v})
    BY <1>1, <1>2 DEF Shut
  <2>2. B \union {v} \in SUBSET Ids
    BY <1>1
  <2>3. w \in B
    BY <1>6, <2>1, <2>2 DEF Leads
  <2> QED  BY <1>4, <2>3
<1>7. Leads(v, v)
  BY LeadsOn
<1> QED  BY <1>3, <1>4, <1>5, <1>6, <1>7

-----------------------------------------------------------------------------
(* Sorted lists.                                                           *)

Rank(S, x) == Cardinality({y \in S : y <= x})

\* The rank of a member of a finite set of numbers.
LEMMA RankIs ==
    ASSUME NEW S \in SUBSET Nat, IsFiniteSet(S)
    PROVE  /\ \A x \in S : Rank(S, x) \in 1..Cardinality(S)
           /\ \A x, y \in S : x < y => Rank(S, x) < Rank(S, y)
<1>0. \A x \in S : x \in Nat
  OBVIOUS
<1>1. ASSUME NEW x \in S
      PROVE  /\ IsFiniteSet({z \in S : z <= x}) /\ Rank(S, x) \in Nat
             /\ Rank(S, x) <= Cardinality(S) /\ Rank(S, x) # 0
  <2> DEFINE D == {z \in S : z <= x}
  <2>1. D \in SUBSET S /\ x \in D
    OBVIOUS
  <2> HIDE DEF D
  <2>2. IsFiniteSet(D) /\ Cardinality(D) <= Cardinality(S)
    BY <2>1, FS_Subset
  <2>3. Cardinality(D) \in Nat
    BY <2>2, FS_CardinalityType
  <2>4. Cardinality(D) # 0
    BY <2>1, <2>2, FS_EmptySet
  <2> QED  BY <2>2, <2>3, <2>4 DEF D, Rank
<1>2. Cardinality(S) \in Nat
  BY FS_CardinalityType
<1>3. ASSUME NEW x \in S, NEW y \in S, x < y PROVE Rank(S, x) < Rank(S, y)
  <2> DEFINE D == {z \in S : z <= x}
             E == {z \in S : z <= y}
  <2>0. x \in Nat /\ y \in Nat
    BY <1>0
  <2>1. D \in SUBSET E /\ y \in E /\ y \notin D
    <3>1. ASSUME NEW z \in D PROVE z \in E
      <4>1. z \in S /\ z <= x /\ z \in Nat
        BY <1>0
      <4> QED  BY <1>3, <2>0, <4>1
    <3>2. y \in E
      BY <2>0
    <3>3. y \notin D
      BY <1>3, <2>0
    <3> QED  BY <3>1, <3>2, <3>3, Zenon
  <2>2. IsFiniteSet(E)
    BY <1>1
  <2> HIDE DEF D, E
  <2>3. Cardinality(D) <= Cardinality(E) /\ Cardinality(E) # Cardinality(D)
    BY <2>1, <2>2, FS_Subset
  <2>4. Cardinality(D) = Rank(S, x) /\ Cardinality(E) = Rank(S, y)
    BY DEF D, E, Rank
  <2>5. Rank(S, x) \in Nat /\ Rank(S, y) \in Nat
    BY <1>1
  <2> QED  BY <2>3, <2>4, <2>5
<1>4. ASSUME NEW x \in S PROVE Rank(S, x) \in 1..Cardinality(S)
  <2>1. Rank(S, x) \in Nat /\ Rank(S, x) <= Cardinality(S) /\ Rank(S, x) # 0
    BY <1>1
  <2> QED  BY <1>2, <2>1
<1> QED  BY <1>3, <1>4

Increasing(s, n) == \A i, j \in 1..n : i < j => s[i] < s[j]

\* The sorted list of a finite set of numbers holds its members.
LEMMA AscendingIs ==
    ASSUME NEW S \in SUBSET Nat, IsFiniteSet(S)
    PROVE  /\ Ascending(S) \in Seq(S)
           /\ \A x : x \in S <=> \E j \in DOMAIN Ascending(S) : Ascending(S)[j] = x
<1> DEFINE n == Cardinality(S)
           r == [x \in S |-> Rank(S, x)]
           s == [i \in 1..n |-> CHOOSE x \in S : Rank(S, x) = i]
           a == Ascending(S)
<1>0. n \in Nat /\ \A x \in S : x \in Nat
  <2>1. n \in Nat
    BY FS_CardinalityType
  <2> QED  BY <2>1
<1>1. \A x \in S : Rank(S, x) \in 1..n
  BY RankIs
<1>2. \A x, y \in S : x < y => Rank(S, x) < Rank(S, y)
  BY RankIs
<1>3. IsFiniteSet(1..n) /\ Cardinality(1..n) = n
  BY <1>0, FS_Interval
<1>4. a = CHOOSE f \in [1..n -> S] : Increasing(f, n)
  BY DEF Ascending, Increasing
<1> HIDE DEF n, a
<1>5. \A x, y \in S : Rank(S, x) = Rank(S, y) => x = y
  <2>1. ASSUME NEW x \in S, NEW y \in S, Rank(S, x) = Rank(S, y) PROVE x = y
    <3>1. x \in Nat /\ y \in Nat /\ Rank(S, x) \in Nat /\ Rank(S, y) \in Nat
      BY <1>0, <1>1
    <3>2. ~ (x < y) /\ ~ (y < x)
      BY <1>2, <2>1, <3>1
    <3> QED  BY <3>1, <3>2
  <2> QED  BY <2>1
<1>6. r \in Injection(S, 1..n)
  BY <1>1, <1>5 DEF Injection, IsInjective
<1>7. r \in Surjection(S, 1..n)
  <2> HIDE DEF r
  <2>1. Cardinality(S) = Cardinality(1..n)
    BY <1>3 DEF n
  <2> QED  BY <1>3, <1>6, <2>1, FS_Injection
<1>8. \A i \in 1..n : \E x \in S : Rank(S, x) = i
  BY <1>7 DEF Surjection
<1>9. \A i \in 1..n : s[i] \in S /\ Rank(S, s[i]) = i
  BY <1>8
<1>10. s \in [1..n -> S]
  BY <1>9
<1> HIDE DEF s
<1>11. Increasing(s, n)
  <2>1. ASSUME NEW i \in 1..n, NEW j \in 1..n, i < j PROVE s[i] < s[j]
    <3>1. s[i] \in S /\ s[j] \in S /\ Rank(S, s[i]) = i /\ Rank(S, s[j]) = j
      BY <1>9
    <3>2. s[i] \in Nat /\ s[j] \in Nat
      BY <1>0, <3>1, Zenon
    <3>4. i \in Nat /\ j \in Nat
      BY <1>0
    <3>3. s[j] < s[i] => j < i
      BY <1>2, <3>1
    <3> QED  BY <2>1, <3>1, <3>2, <3>3, <3>4
  <2> QED  BY <2>1 DEF Increasing
<1>12. a \in [1..n -> S] /\ Increasing(a, n)
  BY <1>4, <1>10, <1>11
<1>13. a \in Injection(1..n, S)
  <2>1. ASSUME NEW i \in 1..n, NEW j \in 1..n, a[i] = a[j] PROVE i = j
    <3>0. a[i] \in S /\ a[j] \in S
      BY <1>12
    <3>1. a[i] \in Nat /\ a[j] \in Nat
      BY <1>0, <3>0, Zenon
    <3>3. i \in Nat /\ j \in Nat
      BY <1>0
    <3>2. (i < j => a[i] < a[j]) /\ (j < i => a[j] < a[i])
      BY <1>12 DEF Increasing
    <3> QED  BY <2>1, <3>1, <3>2, <3>3
  <2> QED  BY <1>12, <2>1 DEF Injection, IsInjective
<1>14. a \in Surjection(1..n, S)
  <2>1. Cardinality(1..n) = Cardinality(S)
    BY <1>3 DEF n
  <2> QED  BY <1>13, <2>1, FS_Injection
<1>15. \A x \in S : \E j \in 1..n : a[j] = x
  BY <1>14 DEF Surjection
<1>16. a \in Seq(S) /\ DOMAIN a = 1..n
  BY <1>0, <1>12
<1> QED  BY <1>12, <1>15, <1>16 DEF a

-----------------------------------------------------------------------------
(* The steps of the search keep its invariant.                             *)

\* What entering a node makes of the search.
LEMMA EnteredIs ==
    ASSUME SearchInv(search), Drawn, NEW v \in Ids
    PROVE  /\ Entered(v) = [calls |-> <<[node |-> v, left |-> Ascending(adjacency[v])]>> \o search.calls,
                            stack |-> <<v>> \o search.stack,
                            indices |-> [search.indices EXCEPT ![v] = search.index],
                            low |-> [search.low EXCEPT ![v] = search.index],
                            index |-> search.index + 1, components |-> search.components]
           /\ Ascending(adjacency[v]) \in Seq(Ids)
           /\ \A w : w \in adjacency[v] <=> \E j \in DOMAIN Ascending(adjacency[v]) : Ascending(adjacency[v])[j] = w
<1>2. Entered(v) = [calls |-> <<[node |-> v, left |-> Ascending(adjacency[v])]>> \o search.calls,
                    stack |-> <<v>> \o search.stack,
                    indices |-> [search.indices EXCEPT ![v] = search.index],
                    low |-> [search.low EXCEPT ![v] = search.index],
                    index |-> search.index + 1, components |-> search.components]
  BY DEF Entered
<1>3. adjacency[v] \in SUBSET Ids
  BY DEF Drawn
<1>4. adjacency[v] \in SUBSET Nat /\ IsFiniteSet(adjacency[v])
  BY <1>3, CompilerAssumption, FS_Subset
<1>5. /\ Ascending(adjacency[v]) \in Seq(adjacency[v])
      /\ \A x : x \in adjacency[v] <=> \E j \in DOMAIN Ascending(adjacency[v]) : Ascending(adjacency[v])[j] = x
  BY <1>4, AscendingIs
<1>6. Ascending(adjacency[v]) \in Seq(Ids)
  BY <1>3, <1>5
<1> QED  BY <1>2, <1>5, <1>6

\* A search from a new root.
LEMMA RootEntered ==
    ASSUME SearchInv(search), Drawn, VisitRoot
    PROVE  SearchInv(search')
<1> DEFINE s == search
<1>1. PICK v \in Declared : s.indices[v] = 0 /\ search' = Entered(v)
  BY DEF VisitRoot
<1>2. v \in Ids /\ s.calls = <<>>
  BY DEF VisitRoot, Declared
<1> DEFINE a == Ascending(adjacency[v])
<1>3. /\ search' = [calls |-> <<[node |-> v, left |-> a]>> \o s.calls, stack |-> <<v>> \o s.stack,
                    indices |-> [s.indices EXCEPT ![v] = s.index], low |-> [s.low EXCEPT ![v] = s.index],
                    index |-> s.index + 1, components |-> s.components]
      /\ a \in Seq(Ids) /\ \A w : w \in adjacency[v] <=> \E j \in DOMAIN a : a[j] = w
  BY <1>1, <1>2, EnteredIs
<1>4. DOMAIN s.calls = {}
  BY <1>2, NothingIn, Zenon
<1>5. Gray(s) = {}
  BY <1>4, Zenon DEF Gray
<1>6. s.calls \in Seq(Frames)
  BY SearchParts
<1>7. Len(s.calls) = 0
  BY <1>2
<1> HIDE DEF a
<1>8. \A i \in 1..Len(s.calls) : FALSE
  BY <1>7
<1>9. Enters(s, search', v, s.calls, a)
  BY <1>1, <1>3, <1>5, <1>6, <1>8 DEF Enters, Num
<1> HIDE DEF s
<1>10. SearchInv(s)
  BY DEF s
<1> QED  BY <1>9, <1>10, EnterKeeps

\* A neighbour is entered or seen.
LEMMA NeighbourSeen ==
    ASSUME SearchInv(search), Drawn, VisitNeighbour
    PROVE  SearchInv(search')
<1> DEFINE s == search
           v == Top.node
           w == Head(Top.left)
           rest == <<[Top EXCEPT !.left = Tail(@)]>> \o Tail(s.calls)
           a == Ascending(adjacency[w])
<1>0. s.calls # <<>> /\ Head(s.calls).left # <<>>
  BY DEF VisitNeighbour, Top
<1>1. Advances(s, rest, v, w)
  BY <1>0, AdvanceIs DEF Top
<1>2. search' = IF s.indices[w] = 0
                THEN [Entered(w) EXCEPT !.calls = <<Head(@)>> \o rest]
                ELSE [s EXCEPT !.calls = rest, !.low = IF OnStack(w) THEN Lower(v, s.indices[w]) ELSE @]
  BY DEF VisitNeighbour
<1>3. s \in SearchStates /\ s.calls \in Seq(Frames)
  BY SearchParts DEF SearchInv
<1>4. SearchInv(s)
  OBVIOUS
<1>5. OnStack(w) <=> w \in OnIt(s)
  BY DEF OnStack, OnIt, ToSet
<1> HIDE DEF v, w, rest
<1>6. /\ rest \in Seq(Frames) /\ Len(rest) = Len(s.calls)
      /\ 1 \in DOMAIN s.calls /\ s.calls[1].node = v /\ w \in adjacency[v] /\ v \in Gray(s)
  <2>1. /\ rest \in Seq(Frames) /\ Len(rest) = Len(s.calls)
        /\ 1 \in DOMAIN s.calls /\ s.calls[1].node = v /\ w \in adjacency[v]
    BY <1>1 DEF Advances
  <2> QED  BY <2>1 DEF Gray
<1>7. Gray(s) \subseteq OnIt(s) /\ OnIt(s) \subseteq Ids
  BY SearchParts
<1>8. v \in Ids /\ w \in Ids /\ w \in Declared
  BY <1>6, <1>7 DEF Drawn
<1>9. CASE s.indices[w] = 0
  <2> DEFINE f == [node |-> w, left |-> a]
             e == Entered(w)
  <2>1. /\ e = [calls |-> <<f>> \o s.calls, stack |-> <<w>> \o s.stack,
                indices |-> [s.indices EXCEPT ![w] = s.index], low |-> [s.low EXCEPT ![w] = s.index],
                index |-> s.index + 1, components |-> s.components]
        /\ a \in Seq(Ids) /\ \A u : u \in adjacency[w] <=> \E j \in DOMAIN a : a[j] = u
    BY <1>8, EnteredIs
  <2>2. Head(<<f>> \o s.calls) = f
    <3>1. f \in Frames
      BY <1>8, <2>1 DEF Frames
    <3> HIDE DEF f
    <3> QED  BY <1>3, <3>1
  <2>3. search' = [e EXCEPT !.calls = <<Head(@)>> \o rest]
    BY <1>2, <1>9
  <2> HIDE DEF f, a, e
  <2>4. search' = [calls |-> <<f>> \o rest, stack |-> <<w>> \o s.stack,
                   indices |-> [s.indices EXCEPT ![w] = s.index], low |-> [s.low EXCEPT ![w] = s.index],
                   index |-> s.index + 1, components |-> s.components]
    BY <2>1, <2>2, <2>3
  <2>5. ASSUME NEW g \in Gray(s) PROVE Leads(g, w)
    <3>1. s.calls # <<>> /\ v = s.calls[1].node
      BY <1>0, <1>6
    <3>2. g # v => Num(s, g) < Num(s, v)
      BY <1>4, <3>1, TopIs
    <3>3. g \in OnIt(s) /\ Num(s, g) \in Nat /\ Num(s, v) \in Nat
      BY <1>4, <1>6, <1>7, SearchParts
    <3>4. Num(s, g) <= Num(s, v)
      BY <3>2, <3>3
    <3>5. Leads(g, v)
      BY <1>4, <1>6, <1>7, <3>4 DEF SearchInv, Connected
    <3>6. Leads(v, w)
      BY <1>6, <1>8, LeadsOn
    <3> QED  BY <3>5, <3>6, LeadsOn
  <2>6. ASSUME NEW i \in 1..Len(rest)
        PROVE  /\ rest[i].node = s.calls[i].node
               /\ \A j \in DOMAIN rest[i].left : \E k \in DOMAIN s.calls[i].left : s.calls[i].left[k] = rest[i].left[j]
               /\ \A k \in DOMAIN s.calls[i].left :
                     \/ s.calls[i].left[k] = w
                     \/ \E j \in DOMAIN rest[i].left : s.calls[i].left[k] = rest[i].left[j]
    <3>1. i \in DOMAIN s.calls
      BY <1>3, <1>6
    <3>2. CASE i = 1
      BY <1>1, <3>2 DEF Advances
    <3>3. CASE i # 1
      <4>1. rest[i] = s.calls[i]
        BY <1>1, <3>1, <3>3 DEF Advances
      <4> QED  BY <4>1
    <3> QED  BY <3>2, <3>3
  <2>7. Enters(s, search', w, rest, a)
    BY <1>6, <1>9, <2>1, <2>4, <2>5, <2>6 DEF Enters, Num, f
  <2> HIDE DEF s
  <2> QED  BY <1>4, <1>8, <2>7, EnterKeeps
<1>10. CASE s.indices[w] # 0
  <2>1. search' = [s EXCEPT !.calls = rest, !.low = IF OnStack(w) THEN Lower(v, s.indices[w]) ELSE @]
    BY <1>2, <1>10
  <2>2. search' = [calls |-> rest, stack |-> s.stack, indices |-> s.indices,
                   low |-> IF OnStack(w) THEN Lower(v, s.indices[w]) ELSE s.low,
                   index |-> s.index, components |-> s.components]
    BY <1>3, <2>1 DEF SearchStates
  <2>3. Lower(v, s.indices[w]) = IF Num(s, w) < Low(s, v) THEN [s.low EXCEPT ![v] = Num(s, w)] ELSE s.low
    <3>1. s.low \in [Ids -> Nat]
      BY <1>3 DEF SearchStates
    <3>2. [s.low EXCEPT ![v] = s.low[v]] = s.low
      BY <1>8, <3>1
    <3> QED  BY <3>2 DEF Lower, Num, Low
  <2>4. Sees(s, search', v, w, rest)
    BY <1>1, <1>5, <1>10, <2>2, <2>3 DEF Sees, Num
  <2> HIDE DEF s
  <2> QED  BY <1>4, <2>4, SeeKeeps
<1> QED  BY <1>9, <1>10

\* A node is left, as a root or not.
LEMMA NodeLeft ==
    ASSUME SearchInv(search), Drawn, LeaveVisit
    PROVE  SearchInv(search')
<1> DEFINE s == search
           v == Top.node
           d == CHOOSE n \in DOMAIN s.stack : s.stack[n] = v
           p == Head(Tail(s.calls)).node
           C == {s.stack[i] : i \in 1..d}
<1>0. s.calls # <<>> /\ Head(s.calls).left = <<>> /\ Head(s.calls).node = v
  BY DEF LeaveVisit, Top
<1>1. search' = [s EXCEPT
                   !.calls = Tail(s.calls),
                   !.low = IF Tail(s.calls) = <<>> THEN s.low ELSE Lower(p, s.low[v]),
                   !.stack = IF s.low[v] = s.indices[v] THEN SubSeq(s.stack, d + 1, Len(s.stack)) ELSE s.stack,
                   !.components = IF s.low[v] = s.indices[v]
                                  THEN s.components \union {ToSet(SubSeq(s.stack, 1, d))} ELSE s.components]
  BY DEF LeaveVisit
<1>2. s \in SearchStates /\ s.calls \in Seq(Frames) /\ s.stack \in Seq(Ids) /\ s.low \in [Ids -> Nat]
  BY SearchParts DEF SearchInv
<1>3. SearchInv(s)
  OBVIOUS
<1>4. v = s.calls[1].node /\ v \in Gray(s)
  BY <1>0, TopIs
<1>5. v \in OnIt(s) /\ v \in Ids
  BY <1>4, SearchParts
<1> HIDE DEF v
<1>6. d \in DOMAIN s.stack /\ s.stack[d] = v
  <2>1. \E n \in DOMAIN s.stack : s.stack[n] = v
    BY <1>5 DEF OnIt
  <2> QED  BY <2>1
<1> HIDE DEF d
<1>7. ToSet(SubSeq(s.stack, 1, d)) = C
  <2>1. d \in 1..Len(s.stack) /\ Len(s.stack) \in Nat
    BY <1>2, <1>6
  <2> DEFINE r == SubSeq(s.stack, 1, d)
  <2>2. \A i \in 1..d : s.stack[i] \in Ids
    BY <1>2, <2>1
  <2>3. r \in Seq(Ids) /\ Len(r) = (IF 1 <= d THEN d - 1 + 1 ELSE 0)
        /\ \A i \in 1..(d - 1 + 1) : r[i] = s.stack[1 + i - 1]
    BY <2>1, <2>2, SubSeqProperties
  <2> HIDE DEF r
  <2>4. DOMAIN r = 1..d
    BY <2>1, <2>3
  <2>5. ASSUME NEW i \in 1..d PROVE r[i] = s.stack[i]
    <3>1. i \in 1..(d - 1 + 1) /\ 1 + i - 1 = i
      BY <2>1
    <3> QED  BY <2>3, <3>1
  <2>6. ToSet(r) = C
    BY <2>4, <2>5 DEF ToSet
  <2> QED  BY <2>6 DEF r
<1>8. (IF Tail(s.calls) = <<>> THEN s.low ELSE Lower(p, s.low[v]))
        = IF Tail(s.calls) # <<>> /\ Low(s, v) < Low(s, p) THEN [s.low EXCEPT ![p] = Low(s, v)] ELSE s.low
  <2>1. CASE Tail(s.calls) = <<>>
    BY <2>1
  <2>2. CASE Tail(s.calls) # <<>>
    <3>1. Lower(p, s.low[v]) = [s.low EXCEPT ![p] = IF s.low[v] < s.low[p] THEN s.low[v] ELSE s.low[p]]
      BY DEF Lower
    <3>2. [s.low EXCEPT ![p] = s.low[p]] = s.low
      BY <1>2
    <3> HIDE DEF p, s
    <3> QED  BY <2>2, <3>1, <3>2 DEF Low
  <2> QED  BY <2>1, <2>2
<1> HIDE DEF C, p
<1>9. search' = [calls |-> Tail(s.calls),
                 stack |-> IF s.low[v] = s.indices[v] THEN SubSeq(s.stack, d + 1, Len(s.stack)) ELSE s.stack,
                 indices |-> s.indices,
                 low |-> IF Tail(s.calls) = <<>> THEN s.low ELSE Lower(p, s.low[v]),
                 index |-> s.index,
                 components |-> IF s.low[v] = s.indices[v]
                                THEN s.components \union {ToSet(SubSeq(s.stack, 1, d))} ELSE s.components]
  BY <1>1, <1>2 DEF SearchStates
<1>10. CASE s.low[v] = s.indices[v]
  <2>1. search' = [calls |-> Tail(s.calls), stack |-> SubSeq(s.stack, d + 1, Len(s.stack)),
                   indices |-> s.indices,
                   low |-> IF Tail(s.calls) # <<>> /\ Low(s, v) < Low(s, p)
                           THEN [s.low EXCEPT ![p] = Low(s, v)] ELSE s.low,
                   index |-> s.index, components |-> s.components \union {C}]
    BY <1>7, <1>8, <1>9, <1>10
  <2>2. Rooted(s, v)
    BY <1>0, <1>10 DEF Rooted, Low, Num
  <2>3. Roots(s, search', v, d, C)
    BY <1>6, <2>1, <2>2 DEF Roots, C, p
  <2> HIDE DEF s
  <2> QED  BY <1>3, <2>3, RootKeeps
<1>11. CASE s.low[v] # s.indices[v]
  <2>1. search' = [calls |-> Tail(s.calls), stack |-> s.stack, indices |-> s.indices,
                   low |-> IF Tail(s.calls) # <<>> /\ Low(s, v) < Low(s, p)
                           THEN [s.low EXCEPT ![p] = Low(s, v)] ELSE s.low,
                   index |-> s.index, components |-> s.components]
    BY <1>8, <1>9, <1>11
  <2>2. Low(s, v) # Num(s, v)
    BY <1>11 DEF Low, Num
  <2>3. Stays(s, search', v)
    BY <1>0, <2>1, <2>2 DEF Stays, p
  <2> HIDE DEF s
  <2> QED  BY <1>3, <2>3, StayKeeps
<1> QED  BY <1>10, <1>11

-----------------------------------------------------------------------------
(* The passes of the compiler.                                             *)

At(v) == {p \in DOMAIN flow.nodes : flow.nodes[p] = v}

\* What was read of the nodes, and what is wrong with none of them, with none
\* of the edges and with no cycle.
NodesRead ==
    /\ nodes \in [Ids -> 0..Len(flow.nodes)]
    /\ \A v \in Ids : IF nodes[v] = 0 THEN At(v) = {} ELSE nodes[v] \in At(v)
NodesClean == \A q \in DOMAIN flow.nodes : nodes[flow.nodes[q]] = q /\ q \notin flow.broken
EdgesClean == \A e \in flow.edges : e[1] \in Declared /\ e[2] \in Declared
CyclesClean == \A c \in search.components : IsCyclic(c) => Finite(c)

Unread == adjacency = [v \in Ids |-> {}] /\ search = NoSearch

\* The inductive invariant of the compiler.
CompileInv ==
    /\ flow \in Flows /\ phase \in {"nodes", "edges", "search", "done"} /\ plan.hashed \in BOOLEAN
    /\ nodes \in [Ids -> 0..Len(flow.nodes)] /\ Drawn /\ SearchInv(search)
    /\ phase = "nodes" => Unread
    /\ phase = "edges" => Unread /\ NodesRead /\ (diagnostics = {} <=> NodesClean)
    /\ phase = "search" => NodesRead /\ (diagnostics = {} <=> NodesClean /\ EdgesClean)
    /\ phase = "done" =>
          /\ NodesRead /\ search.calls = <<>> /\ Declared \subseteq Seen(search)
          /\ plan.hashed <=> NodesClean /\ EdgesClean /\ CyclesClean

\* The search before its first step.
LEMMA FreshSearch == search = NoSearch => SearchInv(search)
<1> SUFFICES ASSUME search = NoSearch PROVE SearchInv(search)
  OBVIOUS
<1> DEFINE s == search
<1>1. /\ s.calls = <<>> /\ s.stack = <<>> /\ s.indices = [v \in Ids |-> 0] /\ s.low = [v \in Ids |-> 0]
      /\ s.index = 1 /\ s.components = {}
  BY DEF NoSearch
<1>2. s \in SearchStates
  <2>1. s = [calls |-> s.calls, stack |-> s.stack, indices |-> s.indices, low |-> s.low, index |-> s.index,
             components |-> s.components]
    BY DEF NoSearch
  <2>2. s.calls \in Seq(Frames) /\ s.stack \in Seq(Ids)
    BY <1>1
  <2>3. s.indices \in [Ids -> Nat] /\ s.low \in [Ids -> Nat] /\ s.index \in Nat \ {0}
        /\ s.components \in SUBSET SUBSET Ids
    BY <1>1
  <2> HIDE DEF s
  <2> QED  BY <2>1, <2>2, <2>3 DEF SearchStates
<1>3. DOMAIN s.calls = {} /\ DOMAIN s.stack = {}
  BY <1>1, NothingIn, Zenon
<1> HIDE DEF s
<1>4. Gray(s) = {} /\ OnIt(s) = {} /\ Gone(s) = {}
  BY <1>1, <1>3, Zenon DEF Gray, OnIt, Gone
<1>5. Seen(s) = {} /\ \A v \in Ids : Num(s, v) = 0 /\ Low(s, v) = 0
  BY <1>1 DEF Seen, Num, Low
<1>6. Numbered(s)
  <2>1. Cardinality(Seen(s)) = 0
    BY <1>5, FS_EmptySet
  <2> QED  BY <1>1, <1>5, <2>1 DEF Numbered
<1>7. Stacked(s)
  BY <1>3, <1>4, <1>5 DEF Stacked
<1>8. Looked(s)
  BY <1>5 DEF Looked, LookedAt
<1>9. Marked(s) /\ Connected(s) /\ Collected(s)
  BY <1>4 DEF Marked, Connected, Collected
<1>10. Classes(s)
  BY <1>1 DEF Classes
<1>11. SearchInv(s)
  BY <1>2, <1>5, <1>6, <1>7, <1>8, <1>9, <1>10 DEF SearchInv
<1> QED  BY <1>11 DEF s

\* The invariant of the search is about the graph and the search alone.
LEMMA SameGraph ==
    ASSUME adjacency' = adjacency, nodes' = nodes, SearchInv(search')
    PROVE  SearchInv(search)'
<1>1. Declared' = Declared
  BY DEF Declared
<1>2. \A v, w : Leads(v, w)' <=> Leads(v, w)
  BY DEF Leads, Shut
<1>3. \A v : Class(v)' = Class(v)
  BY <1>2 DEF Class
<1>4. search' \in SearchStates /\ Seen(search') \subseteq Declared'
  BY <1>1 DEF SearchInv
<1>5. Numbered(search)'
  BY DEF SearchInv, Numbered
<1>6. Stacked(search)'
  BY DEF SearchInv, Stacked
<1>7. Looked(search)'
  BY DEF SearchInv, Looked, LookedAt
<1>8. Marked(search)'
  BY <1>2 DEF SearchInv, Marked
<1>9. Connected(search)'
  BY <1>2 DEF SearchInv, Connected
<1>10. Collected(search)'
  BY DEF SearchInv, Collected
<1>11. Classes(search)'
  BY <1>3 DEF SearchInv, Classes
<1> QED  BY <1>4, <1>5, <1>6, <1>7, <1>8, <1>9, <1>10, <1>11 DEF SearchInv

\* The document, and the places of an identifier in it.
LEMMA PlacesIs ==
    ASSUME flow \in Flows
    PROVE  /\ flow.nodes \in Seq(Ids) /\ flow.edges \subseteq Ids \X Ids
           /\ DOMAIN flow.nodes = 1..Len(flow.nodes) /\ Len(flow.nodes) \in Nat
           /\ \A p \in DOMAIN flow.nodes : flow.nodes[p] \in Ids /\ p \in At(flow.nodes[p])
           /\ \A v : At(v) # {} => Min(At(v)) \in At(v) /\ \A p \in At(v) : Min(At(v)) <= p
<1>1. flow.nodes \in Seq(Ids) /\ flow.edges \subseteq Ids \X Ids
  BY CompilerAssumption
<1>2. DOMAIN flow.nodes = 1..Len(flow.nodes) /\ Len(flow.nodes) \in Nat
  BY <1>1
<1>3. \A p \in DOMAIN flow.nodes : flow.nodes[p] \in Ids /\ p \in At(flow.nodes[p])
  BY <1>1 DEF At
<1>4. ASSUME NEW v, At(v) # {} PROVE Min(At(v)) \in At(v) /\ \A p \in At(v) : Min(At(v)) <= p
  <2>1. At(v) \in SUBSET Nat
    BY <1>2 DEF At
  <2>2. \E m \in At(v) : \A n \in At(v) : m <= n
    BY <1>4, <2>1, FirstOne
  <2> QED  BY <2>2 DEF Min
<1> QED  BY <1>1, <1>2, <1>3, <1>4

\* The pass over the nodes.
LEMMA NodesPass ==
    ASSUME CompileInv, CompileNodes
    PROVE  CompileInv'
<1> DEFINE at(v) == {p \in DOMAIN flow.nodes : flow.nodes[p] = v}
           D == {q \in DOMAIN flow.nodes : q # Min(At(flow.nodes[q]))}
           B == {q \in flow.broken \cap DOMAIN flow.nodes : q = Min(At(flow.nodes[q]))}
<1>0. /\ flow' = flow /\ adjacency' = adjacency /\ search' = search /\ plan' = plan
      /\ phase = "nodes" /\ phase' = "edges" /\ flow \in Flows /\ plan.hashed \in BOOLEAN
      /\ Unread
  BY DEF CompileNodes, CompileInv
<1>1. nodes' = [v \in Ids |-> IF At(v) = {} THEN 0 ELSE Min(At(v))]
  BY DEF CompileNodes, At
<1>2. diagnostics' = {<<"duplicate_node_id", p>> : p \in D} \cup {<<"broken_node", p>> : p \in B}
  BY DEF CompileNodes, At
<1> HIDE DEF D, B
<1>3. diagnostics' = {} <=> D = {} /\ B = {}
  BY <1>2
<1>4. /\ DOMAIN flow.nodes = 1..Len(flow.nodes) /\ Len(flow.nodes) \in Nat
      /\ \A p \in DOMAIN flow.nodes : flow.nodes[p] \in Ids /\ p \in At(flow.nodes[p])
      /\ \A v : At(v) # {} => Min(At(v)) \in At(v)
  BY <1>0, PlacesIs
<1>5. \A v : At(v) \subseteq 1..Len(flow.nodes) /\ At(v)' = At(v)
  BY <1>0, <1>4 DEF At
<1>6. nodes' \in [Ids -> 0..Len(flow.nodes)]
  <2>1. ASSUME NEW v \in Ids PROVE (IF At(v) = {} THEN 0 ELSE Min(At(v))) \in 0..Len(flow.nodes)
    <3>1. CASE At(v) = {}
      BY <1>4, <3>1
    <3>2. CASE At(v) # {}
      <4>1. Min(At(v)) \in 1..Len(flow.nodes)
        BY <1>4, <1>5, <3>2
      <4> QED  BY <1>4, <3>2, <4>1
    <3> QED  BY <3>1, <3>2
  <2> QED  BY <1>1, <2>1
<1>7. ASSUME NEW v \in Ids PROVE IF nodes'[v] = 0 THEN At(v) = {} ELSE nodes'[v] \in At(v)
  <2>1. CASE At(v) = {}
    BY <1>1, <2>1
  <2>2. CASE At(v) # {}
    <3>1. nodes'[v] = Min(At(v))
      BY <1>1, <2>2
    <3>2. Min(At(v)) \in At(v) /\ Min(At(v)) \in 1..Len(flow.nodes)
      BY <1>4, <1>5, <2>2
    <3> QED  BY <3>1, <3>2
  <2> QED  BY <2>1, <2>2
<1>8. NodesRead'
  BY <1>0, <1>5, <1>6, <1>7 DEF NodesRead
<1>9. \A q \in DOMAIN flow.nodes : nodes'[flow.nodes[q]] = Min(At(flow.nodes[q]))
  <2>1. ASSUME NEW q \in DOMAIN flow.nodes PROVE nodes'[flow.nodes[q]] = Min(At(flow.nodes[q]))
    <3>1. flow.nodes[q] \in Ids /\ At(flow.nodes[q]) # {}
      BY <1>4
    <3> QED  BY <1>1, <3>1
  <2> QED  BY <2>1
<1>10. NodesClean' <=> D = {} /\ B = {}
  <2>1. NodesClean' <=> \A q \in DOMAIN flow.nodes : nodes'[flow.nodes[q]] = q /\ q \notin flow.broken
    BY <1>0 DEF NodesClean
  <2> QED  BY <1>9, <2>1 DEF D, B
<1>11. Unread' /\ Drawn'
  BY <1>0 DEF Unread, Drawn, NoSearch
<1>12. SearchInv(search)'
  <2>1. (search = NoSearch => SearchInv(search))'
    BY FreshSearch, PTL
  <2>2. (search = NoSearch)'
    BY <1>11 DEF Unread
  <2> QED  BY <2>1, <2>2
<1> QED  BY <1>0, <1>3, <1>6, <1>8, <1>10, <1>11, <1>12 DEF CompileInv

\* The pass over the edges.
LEMMA EdgesPass ==
    ASSUME CompileInv, CompileEdges
    PROVE  CompileInv'
<1> DEFINE U == {d \in flow.edges : ~(d[1] \in Declared /\ d[2] \in Declared)}
<1>0. /\ flow' = flow /\ nodes' = nodes /\ search' = search /\ plan' = plan
      /\ phase = "edges" /\ phase' = "search" /\ flow \in Flows /\ plan.hashed \in BOOLEAN
      /\ Unread /\ NodesRead /\ (diagnostics = {} <=> NodesClean)
  BY DEF CompileEdges, CompileInv
<1>1. /\ adjacency' = [v \in Ids |-> {w \in Declared : v \in Declared /\ <<v, w>> \in flow.edges}]
      /\ diagnostics' = diagnostics \cup {<<"unknown_node", e>> : e \in U}
  BY DEF CompileEdges
<1>2. Declared' = Declared /\ Declared \subseteq Ids
  BY <1>0 DEF Declared
<1>3. NodesRead' /\ (NodesClean' <=> NodesClean) /\ (EdgesClean' <=> EdgesClean)
  BY <1>0, <1>2 DEF NodesRead, NodesClean, EdgesClean, At
<1>4. EdgesClean <=> U = {}
  BY DEF EdgesClean
<1> HIDE DEF U
<1>5. diagnostics' = {} <=> NodesClean /\ EdgesClean
  BY <1>0, <1>1, <1>4
<1>6. Drawn'
  BY <1>1, <1>2 DEF Drawn
<1>7. SearchInv(search)'
  <2>1. (search = NoSearch => SearchInv(search))'
    BY FreshSearch, PTL
  <2>2. (search = NoSearch)'
    BY <1>0 DEF Unread, NoSearch
  <2> QED  BY <2>1, <2>2
<1>8. (nodes \in [Ids -> 0..Len(flow.nodes)])'
  BY <1>3 DEF NodesRead
<1> QED  BY <1>0, <1>3, <1>5, <1>6, <1>7, <1>8 DEF CompileInv

\* A step of the search.
LEMMA SearchPass ==
    ASSUME CompileInv, SearchStep
    PROVE  CompileInv'
<1>0. /\ flow' = flow /\ nodes' = nodes /\ adjacency' = adjacency /\ plan' = plan
      /\ diagnostics' = diagnostics /\ phase = "search" /\ phase' = "search"
  BY DEF SearchStep, VisitRoot, VisitNeighbour, LeaveVisit
<1>1. /\ flow \in Flows /\ plan.hashed \in BOOLEAN /\ Drawn /\ SearchInv(search)
      /\ NodesRead /\ (diagnostics = {} <=> NodesClean /\ EdgesClean)
  BY <1>0 DEF CompileInv
<1>2. SearchInv(search')
  BY <1>1, RootEntered, NeighbourSeen, NodeLeft DEF SearchStep
<1>3. SearchInv(search)'
  BY <1>0, <1>2, SameGraph
<1>4. Declared' = Declared
  BY <1>0 DEF Declared
<1>5. Drawn'
  BY <1>0, <1>1, <1>4 DEF Drawn
<1>6. NodesRead' /\ (NodesClean' <=> NodesClean) /\ (EdgesClean' <=> EdgesClean)
  BY <1>0, <1>1, <1>4 DEF NodesRead, NodesClean, EdgesClean, At
<1>7. (nodes \in [Ids -> 0..Len(flow.nodes)])'
  BY <1>6 DEF NodesRead
<1> QED  BY <1>0, <1>1, <1>3, <1>5, <1>6, <1>7 DEF CompileInv

\* The last step.
LEMMA FinishPass ==
    ASSUME CompileInv, Finish
    PROVE  CompileInv'
<1> DEFINE U == {c \in search.components : IsCyclic(c) /\ ~Finite(c)}
<1>0. /\ flow' = flow /\ nodes' = nodes /\ adjacency' = adjacency /\ search' = search
      /\ phase = "search" /\ phase' = "done" /\ search.calls = <<>>
      /\ \A v \in Declared : search.indices[v] # 0
      /\ diagnostics' = diagnostics \cup {<<"unbounded_cycle", c>> : c \in U}
      /\ plan'.hashed = (diagnostics' = {})
  BY DEF Finish
<1>1. /\ flow \in Flows /\ Drawn /\ SearchInv(search)
      /\ NodesRead /\ (diagnostics = {} <=> NodesClean /\ EdgesClean)
  BY <1>0 DEF CompileInv
<1>2. Declared' = Declared /\ Seen(search)' = Seen(search) /\ Declared \subseteq Seen(search)
  BY <1>0 DEF Declared, Seen
<1>3. CyclesClean <=> U = {}
  BY DEF CyclesClean
<1> HIDE DEF U
<1>4. diagnostics' = {} <=> NodesClean /\ EdgesClean /\ CyclesClean
  BY <1>0, <1>1, <1>3
<1>5. /\ NodesRead' /\ (NodesClean' <=> NodesClean) /\ (EdgesClean' <=> EdgesClean)
      /\ (CyclesClean' <=> CyclesClean) /\ Drawn'
  BY <1>0, <1>1, <1>2 DEF NodesRead, NodesClean, EdgesClean, CyclesClean, IsCyclic, Finite, At, Drawn
<1>6. SearchInv(search)'
  <2>1. SearchInv(search')
    BY <1>0, <1>1
  <2> QED  BY <1>0, <2>1, SameGraph
<1>7. (nodes \in [Ids -> 0..Len(flow.nodes)])'
  BY <1>5 DEF NodesRead
<1> QED  BY <1>0, <1>1, <1>2, <1>4, <1>5, <1>6, <1>7 DEF CompileInv

\* The inductive invariant holds throughout.
LEMMA CompileInductive == CompileSpec => []CompileInv
<1>1. CompileInit => CompileInv
  <2> SUFFICES ASSUME CompileInit PROVE CompileInv
    OBVIOUS
  <2>1. search = NoSearch /\ Unread
    BY DEF CompileInit, Unread
  <2>2. SearchInv(search)
    BY <2>1, FreshSearch
  <2>3. Len(flow.nodes) \in Nat
    BY PlacesIs DEF CompileInit
  <2>4. nodes \in [Ids -> 0..Len(flow.nodes)] /\ Drawn
    BY <2>3 DEF CompileInit, Drawn
  <2> QED  BY <2>1, <2>2, <2>4 DEF CompileInit, CompileInv, NoPlan
<1>2. CompileInv /\ [CompileNext]_compileVars => CompileInv'
  <2> SUFFICES ASSUME CompileInv, [CompileNext]_compileVars PROVE CompileInv'
    OBVIOUS
  <2>1. CASE UNCHANGED compileVars
    <3>0. /\ flow' = flow /\ phase' = phase /\ nodes' = nodes /\ adjacency' = adjacency
          /\ diagnostics' = diagnostics /\ search' = search /\ plan' = plan
      BY <2>1 DEF compileVars
    <3>1. SearchInv(search')
      BY <3>0 DEF CompileInv
    <3>2. SearchInv(search)'
      BY <3>0, <3>1, SameGraph
    <3>3. Declared' = Declared /\ Seen(search)' = Seen(search)
      BY <3>0 DEF Declared, Seen
    <3>4. /\ (NodesRead' <=> NodesRead) /\ (NodesClean' <=> NodesClean) /\ (EdgesClean' <=> EdgesClean)
          /\ (CyclesClean' <=> CyclesClean) /\ (Drawn' <=> Drawn) /\ (Unread' <=> Unread)
      BY <3>0, <3>3
      DEF NodesRead, NodesClean, EdgesClean, CyclesClean, IsCyclic, Finite, At, Drawn, Unread, NoSearch
    <3> QED  BY <3>0, <3>2, <3>3, <3>4 DEF CompileInv
  <2> QED  BY <2>1, NodesPass, EdgesPass, SearchPass, FinishPass DEF CompileNext
<1> QED  BY <1>1, <1>2, PTL DEF CompileSpec

-----------------------------------------------------------------------------
(* What the invariant says of the plan.                                    *)

\* The numbers and low marks stay within the number of identifiers.
LEMMA CompilerTypes ==
    ASSUME CompileInv
    PROVE  CompilerTypeOK
<1> DEFINE s == search
           b == Cardinality(Ids)
<1>1. /\ s.indices \in [Ids -> Nat] /\ s.low \in [Ids -> Nat] /\ s.index \in Nat
      /\ s.components \subseteq SUBSET Ids /\ Seen(s) \in SUBSET Ids
  BY SearchParts DEF CompileInv
<1>2. /\ Cardinality(Seen(s)) = s.index - 1
      /\ \A v \in Ids : s.indices[v] < s.index /\ s.low[v] < s.index
  BY DEF CompileInv, SearchInv, Numbered, Num, Low
<1>3. Cardinality(Seen(s)) <= b /\ b \in Nat
  BY <1>1, IdsFinite
<1> HIDE DEF b
<1>4. ASSUME NEW v \in Ids PROVE s.indices[v] \in 0..b /\ s.low[v] \in 0..b
  <2>1. s.indices[v] \in Nat /\ s.low[v] \in Nat /\ s.indices[v] < s.index /\ s.low[v] < s.index
    BY <1>1, <1>2
  <2>2. s.index <= b + 1
    BY <1>1, <1>2, <1>3
  <2> QED  BY <1>1, <1>3, <2>1, <2>2
<1>5. s.indices \in [Ids -> 0..b] /\ s.low \in [Ids -> 0..b]
  BY <1>1, <1>4
<1>6. adjacency \in [Ids -> SUBSET Ids]
  BY DEF CompileInv, Drawn
<1> QED  BY <1>1, <1>5, <1>6 DEF CompilerTypeOK, CompileInv, b

\* Low marks on the stack.
LEMMA LowMarks ==
    ASSUME CompileInv
    PROVE  LowMarkIsReachable
<1>1. SearchInv(search) /\ Drawn /\ ToSet(search.stack) = OnIt(search)
  BY DEF CompileInv, ToSet, OnIt
<1>2. OnIt(search) \subseteq Ids
  BY <1>1, SearchParts
<1>3. ASSUME NEW v \in OnIt(search)
      PROVE  \E w \in OnIt(search) : search.low[v] = search.indices[w] /\ (v = w \/ Path(v, w))
  <2>1. PICK w \in OnIt(search) : Low(search, v) = Num(search, w) /\ Leads(v, w)
    BY <1>1 DEF SearchInv, Marked
  <2>2. v = w \/ Path(v, w)
    BY <1>1, <1>2, <2>1, PathIs
  <2> QED  BY <2>1, <2>2 DEF Low, Num
<1> QED  BY <1>1, <1>3 DEF LowMarkIsReachable

\* A declared node leads to declared nodes only, and the class of a node is
\* what it is together with.
LEMMA ClassIs ==
    ASSUME Drawn, NEW v \in Declared
    PROVE  /\ \A w : Leads(v, w) => w \in Declared
           /\ Class(v) = {w \in Declared : Together(v, w)} /\ v \in Class(v)
<1>1. v \in Ids /\ Declared \in SUBSET Ids /\ Shut(Declared)
  BY DEF Declared, Drawn, Shut
<1>2. \A w : Leads(v, w) => w \in Declared
  BY <1>1, LeadsOn
<1>3. ASSUME NEW w \in Declared PROVE Together(v, w) <=> Leads(v, w) /\ Leads(w, v)
  <2>1. w \in Ids
    BY <1>1
  <2>2. (Leads(v, w) <=> v = w \/ Path(v, w)) /\ (Leads(w, v) <=> w = v \/ Path(w, v))
    BY <1>1, <2>1, PathIs
  <2> QED  BY <2>2 DEF Together
<1>4. Leads(v, v)
  BY LeadsOn
<1> QED  BY <1>1, <1>2, <1>3, <1>4 DEF Class

\* In the end the components are the classes of the declared nodes.
LEMMA ComponentsAre ==
    ASSUME CompileInv, phase = "done"
    PROVE  /\ \A c \in search.components : \E v \in Declared : c = Class(v)
           /\ \A v \in Declared : Class(v) \in search.components
<1> DEFINE s == search
<1>1. SearchInv(s) /\ Drawn /\ s.calls = <<>> /\ Declared \subseteq Seen(s) /\ Seen(s) \subseteq Declared
  BY DEF CompileInv, SearchInv
<1>2. Connected(s) /\ Stacked(s) /\ Classes(s)
  BY <1>1 DEF SearchInv
<1>3. DOMAIN s.calls = {}
  BY <1>1, NothingIn, Zenon
<1>4. Gray(s) = {}
  BY <1>3, Zenon DEF Gray
<1>5. OnIt(s) = {}
  BY <1>2, <1>4 DEF Connected
<1>6. Gone(s) = Declared
  BY <1>1, <1>2, <1>5 DEF Stacked
<1>7. ASSUME NEW c \in s.components PROVE \E v \in Declared : c = Class(v)
  <2>1. PICK v \in c : c = Class(v)
    BY <1>2 DEF Classes
  <2>2. v \in Declared
    BY <1>6 DEF Gone
  <2> QED  BY <2>1, <2>2
<1>8. ASSUME NEW v \in Declared PROVE Class(v) \in s.components
  <2>1. PICK c \in s.components : v \in c
    BY <1>6 DEF Gone
  <2>2. c = Class(v)
    BY <1>2, <2>1 DEF Classes
  <2> QED  BY <2>1, <2>2
<1> QED  BY <1>7, <1>8

\* The components are the cycles, as the reference has them.
LEMMA CyclesFound ==
    ASSUME CompileInv
    PROVE  ComponentsAreCycles
<1> SUFFICES ASSUME phase = "done"
             PROVE  search.components = {{w \in Declared : Together(v, w)} : v \in Declared}
  BY DEF ComponentsAreCycles
<1> DEFINE R(v) == {w \in Declared : Together(v, w)}
<1>0. Drawn
  BY DEF CompileInv
<1>1. \A v \in Declared : Class(v) = R(v)
  BY <1>0, ClassIs
<1>2. /\ \A c \in search.components : \E v \in Declared : c = Class(v)
      /\ \A v \in Declared : Class(v) \in search.components
  BY ComponentsAre
<1> HIDE DEF R
<1>3. search.components = {R(v) : v \in Declared}
  BY <1>1, <1>2
<1> QED  BY <1>3 DEF R

\* A component is a cycle when each of its nodes is on a path back to itself.
LEMMA CyclicIs ==
    ASSUME Drawn, NEW v \in Ids
    PROVE  IsCyclic(Class(v)) <=> Path(v, v)
<1> DEFINE c == Class(v)
<1>1. v \in c /\ c \in SUBSET Ids /\ \A w \in c : Leads(v, w) /\ Leads(w, v)
  BY LeadsOn DEF Class
<1>2. IsFiniteSet(c) /\ Cardinality(c) \in Nat
  BY <1>1, IdsFinite
<1>3. \A w \in Ids : Leads(v, w) /\ Leads(w, v) => w \in c
  BY DEF Class
<1>4. IsCyclic(c) <=> Cardinality(c) > 1 \/ \E w \in c : w \in adjacency[w]
  BY DEF IsCyclic
<1> HIDE DEF c
<1>5. ASSUME NEW w \in c, w # v PROVE Path(v, v)
  <2>1. Path(v, w)
    BY <1>1, <1>5, PathIs
  <2>2. PICK u \in adjacency[v] : Leads(u, w)
    BY <2>1, PathIs
  <2>3. Leads(u, v)
    BY <1>1, <2>2, LeadsOn
  <2> QED  BY <2>3, PathIs
<1>6. ASSUME Cardinality(c) > 1 PROVE Path(v, v)
  <2>1. c # {v}
    BY <1>6, FS_Singleton
  <2>2. PICK w \in c : w # v
    BY <1>1, <2>1
  <2> QED  BY <1>5, <2>2
<1>7. ASSUME NEW w \in c, w \in adjacency[w] PROVE Path(v, v)
  <2>1. CASE w = v
    <3>1. v \in adjacency[v] /\ Leads(v, v)
      BY <1>7, <2>1, LeadsOn
    <3> QED  BY <3>1, PathIs
  <2> QED  BY <1>5, <2>1
<1>8. ASSUME Path(v, v) PROVE Cardinality(c) > 1 \/ \E w \in c : w \in adjacency[w]
  <2>1. PICK u \in adjacency[v] : Leads(u, v)
    BY <1>8, PathIs
  <2>2. u \in Ids /\ Leads(v, u)
    BY LeadsOn DEF Drawn
  <2>3. u \in c
    BY <1>3, <2>1, <2>2
  <2>4. CASE u # v
    <3>1. Cardinality(c) # 0 /\ Cardinality(c) # 1
      BY <1>1, <1>2, <2>3, <2>4, FS_EmptySet, FS_Singleton
    <3> QED  BY <1>2, <3>1
  <2> QED  BY <2>1, <2>3, <2>4
<1> QED  BY <1>4, <1>6, <1>7, <1>8 DEF c

\* A list without repetition has as many members as places.
LEMMA NoRepetition ==
    ASSUME flow \in Flows, NodesRead
    PROVE  /\ ToSet(flow.nodes) = Declared
           /\ Cardinality(ToSet(flow.nodes)) = Len(flow.nodes)
                <=> \A q \in DOMAIN flow.nodes : nodes[flow.nodes[q]] = q
<1> DEFINE f == flow.nodes
           n == Len(flow.nodes)
           T == ToSet(flow.nodes)
<1>0. /\ f \in Seq(Ids) /\ DOMAIN f = 1..n /\ n \in Nat
      /\ \A p \in DOMAIN f : f[p] \in Ids /\ p \in At(f[p])
  BY PlacesIs
<1>1. \A v \in Ids : nodes[v] # 0 <=> At(v) # {}
  <2>1. ASSUME NEW v \in Ids PROVE nodes[v] # 0 <=> At(v) # {}
    BY DEF NodesRead
  <2> QED  BY <2>1
<1>2. T = Declared
  <2>1. \A v : v \in T <=> \E p \in DOMAIN f : f[p] = v
    BY DEF ToSet
  <2>2. \A v : At(v) # {} <=> \E p \in DOMAIN f : f[p] = v
    BY DEF At
  <2>3. T \subseteq Ids
    BY <1>0, <2>1
  <2> HIDE DEF T
  <2> QED  BY <1>1, <2>1, <2>2, <2>3 DEF Declared
<1>3. f \in Surjection(1..n, T)
  <2>1. T = {f[i] : i \in 1..n}
    BY <1>0 DEF ToSet
  <2>2. f \in [1..n -> T]
    BY <1>0, <2>1
  <2> HIDE DEF T, f, n
  <2> QED  BY <2>1, <2>2 DEF Surjection
<1>4. IsFiniteSet(1..n) /\ Cardinality(1..n) = n
  BY <1>0, FS_Interval
<1>5. Cardinality(T) = n <=> f \in Injection(1..n, T)
  <2> HIDE DEF T, f, n
  <2> QED  BY <1>3, <1>4, FS_Surjection
<1>6. f \in Injection(1..n, T) <=> \A p, q \in DOMAIN f : f[p] = f[q] => p = q
  <2>1. f \in [1..n -> T]
    BY <1>3 DEF Surjection
  <2> HIDE DEF T, f, n
  <2> QED  BY <1>0, <2>1 DEF Injection, IsInjective
<1>7. \A q \in DOMAIN f : nodes[f[q]] \in DOMAIN f /\ f[nodes[f[q]]] = f[q]
  <2>1. ASSUME NEW q \in DOMAIN f PROVE nodes[f[q]] \in At(f[q])
    <3>1. f[q] \in Ids /\ At(f[q]) # {}
      BY <1>0
    <3> QED  BY <3>1 DEF NodesRead
  <2> QED  BY <2>1 DEF At
<1>8. (\A p, q \in DOMAIN f : f[p] = f[q] => p = q) <=> \A q \in DOMAIN f : nodes[f[q]] = q
  <2> HIDE DEF f
  <2>1. ASSUME \A p, q \in DOMAIN f : f[p] = f[q] => p = q, NEW q \in DOMAIN f PROVE nodes[f[q]] = q
    BY <1>7, <2>1
  <2>2. ASSUME \A q \in DOMAIN f : nodes[f[q]] = q, NEW p \in DOMAIN f, NEW q \in DOMAIN f, f[p] = f[q]
        PROVE  p = q
    BY <2>2
  <2> QED  BY <2>1, <2>2
<1> QED  BY <1>2, <1>5, <1>6, <1>8

\* A plan gets its hash exactly when the document is well formed.
LEMMA HashIs ==
    ASSUME CompileInv
    PROVE  PlanIffWellFormed
<1> SUFFICES ASSUME phase = "done" PROVE plan.hashed <=> WellFormed
  BY Zenon DEF PlanIffWellFormed
<1> DEFINE listed == ToSet(flow.nodes)
           edge == {e \in Ids \X Ids : e \in flow.edges}
           cycleNodes == {v \in listed : Path(v, v)}
           limited == {flow.nodes[p] : p \in flow.loops \cap DOMAIN flow.nodes}
           Bounded == \A v \in cycleNodes : \E w \in limited : Together(v, w)
<1>0. /\ flow \in Flows /\ NodesRead /\ Drawn
      /\ plan.hashed <=> NodesClean /\ EdgesClean /\ CyclesClean
  BY DEF CompileInv
<1>1. WellFormed <=> /\ Cardinality(listed) = Len(flow.nodes)
                     /\ flow.broken \cap DOMAIN flow.nodes = {}
                     /\ \A e \in edge : e[1] \in listed /\ e[2] \in listed
                     /\ Bounded
  BY DEF WellFormed
<1>2. listed = Declared
  BY <1>0, NoRepetition
<1>3. Cardinality(listed) = Len(flow.nodes) /\ flow.broken \cap DOMAIN flow.nodes = {} <=> NodesClean
  <2>1. Cardinality(listed) = Len(flow.nodes) <=> \A q \in DOMAIN flow.nodes : nodes[flow.nodes[q]] = q
    BY <1>0, NoRepetition
  <2> HIDE DEF listed
  <2> QED  BY <2>1 DEF NodesClean
<1>4. (\A e \in edge : e[1] \in listed /\ e[2] \in listed) <=> EdgesClean
  <2>1. edge = flow.edges
    BY <1>0, PlacesIs
  <2> HIDE DEF listed, edge
  <2> QED  BY <1>2, <2>1 DEF EdgesClean
<1>5. ASSUME NodesClean PROVE Bounded <=> CyclesClean
  <2>1. \A w : w \in limited <=> w \in Declared /\ nodes[w] \in flow.loops
    <3>1. ASSUME NEW p \in flow.loops \cap DOMAIN flow.nodes
          PROVE  flow.nodes[p] \in Declared /\ nodes[flow.nodes[p]] \in flow.loops
      <4>1. flow.nodes[p] \in listed
        BY DEF ToSet
      <4>2. nodes[flow.nodes[p]] = p
        BY <1>5 DEF NodesClean
      <4> HIDE DEF listed
      <4> QED  BY <1>2, <4>1, <4>2
    <3>2. ASSUME NEW w \in Declared, nodes[w] \in flow.loops
          PROVE  nodes[w] \in flow.loops \cap DOMAIN flow.nodes /\ flow.nodes[nodes[w]] = w
      <4>1. w \in Ids /\ nodes[w] # 0
        BY DEF Declared
      <4>2. nodes[w] \in At(w)
        BY <1>0, <4>1 DEF NodesRead
      <4> QED  BY <3>2, <4>2 DEF At
    <3> QED  BY <3>1, <3>2
  <2>2. \A v : v \in cycleNodes <=> v \in Declared /\ Path(v, v)
    BY <1>2
  <2>3. Declared \subseteq Ids
    BY DEF Declared
  <2>4. /\ \A c \in search.components : \E v \in Declared : c = Class(v)
        /\ \A v \in Declared : Class(v) \in search.components
    BY ComponentsAre
  <2>5. \A v \in Declared : IsCyclic(Class(v)) <=> Path(v, v)
    BY <1>0, <2>3, CyclicIs
  <2>6. \A v \in Declared : \A w : w \in Class(v) <=> w \in Declared /\ Together(v, w)
    <3>1. ASSUME NEW v \in Declared PROVE Class(v) = {w \in Declared : Together(v, w)}
      BY <1>0, ClassIs
    <3> QED  BY <3>1
  <2>7. \A c : Finite(c) <=> \E w \in c : nodes[w] \in flow.loops
    BY DEF Finite
  <2> HIDE DEF limited, cycleNodes
  <2>8. ASSUME Bounded, NEW c \in search.components, IsCyclic(c) PROVE Finite(c)
    <3>1. PICK v \in Declared : c = Class(v)
      BY <2>4
    <3>2. v \in cycleNodes
      BY <2>2, <2>5, <2>8, <3>1
    <3>3. PICK w \in limited : Together(v, w)
      BY <2>8, <3>2
    <3>4. w \in c /\ nodes[w] \in flow.loops
      BY <2>1, <2>6, <3>1, <3>3
    <3> QED  BY <2>7, <3>4
  <2>9. ASSUME CyclesClean, NEW v \in cycleNodes PROVE \E w \in limited : Together(v, w)
    <3>1. v \in Declared /\ IsCyclic(Class(v)) /\ Class(v) \in search.components
      BY <2>2, <2>4, <2>5
    <3>2. Finite(Class(v))
      BY <2>9, <3>1 DEF CyclesClean
    <3>3. PICK w \in Class(v) : nodes[w] \in flow.loops
      BY <2>7, <3>2
    <3> QED  BY <2>1, <2>6, <3>1, <3>3
  <2> QED  BY <2>8, <2>9 DEF CyclesClean
<1> HIDE DEF listed, edge, Bounded
<1> QED  BY <1>0, <1>1, <1>3, <1>4, <1>5

\* The search in the model is over the adjacency the compiler drew, and a
\* mapping is resolved on it.
LEMMA MappingsAre ==
    ASSUME CompileInv
    PROVE  MappingFollowsPath
BY ReachesIs DEF MappingFollowsPath, CompileInv

\* Compile: for documents over any finite set of identifiers, the one-pass
\* search of stronglyConnected keeps its low marks on reachable nodes of the
\* stack, its components are the classes of mutual reachability, a plan gets
\* its hash exactly when the document is well formed, and a mapping is taken
\* from the nodes a path of edges leads from.
THEOREM CompilerInvariant == CompileSpec => []CompilerInv
<1>1. CompileInv => CompilerInv
  BY CompilerTypes, LowMarks, CyclesFound, HashIs, MappingsAre, Zenon DEF CompilerInv
<1> QED  BY <1>1, CompileInductive, PTL
=============================================================================
