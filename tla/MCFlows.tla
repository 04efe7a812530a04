------------------------------ MODULE MCFlows ------------------------------
(***************************************************************************)
(* A Flow's way to a Run and through it: compilation, schema contracts,    *)
(* references, and the interpretation of the plan.  They share no state:   *)
(* a behaviour exercises one of them, chosen at the start, and the others  *)
(* keep a state in which they have nothing to do.                          *)
(***************************************************************************)
EXTENDS Interpreter, FlowCompiler, ActionContracts, Admission

VARIABLE part

MCIds == 1..4

Doc(l, e, m, b) == [nodes |-> l, edges |-> e, loops |-> m, broken |-> b]

\* Every graph on three nodes, with and without a loop policy, a broken node
\* and a repeated one; and the graphs on four nodes without direct loops that
\* hold a chain of two edges.
MCDocuments ==
    {Doc(l, e, m, b) : l \in {<<3, 1, 2>>, <<2, 1, 2>>}, e \in SUBSET ((1..3) \X (1..3)),
                       m \in {{}, {2}}, b \in {{}, {1}}}
    \cup {Doc(<<4, 1, 2, 3>>, e \cup {<<1, 2>>, <<2, 3>>}, {3}, {}) :
             e \in SUBSET {d \in MCIds \X MCIds : d[1] # d[2] /\ d # <<4, 1>>}}

\* Every schema of at most two types, with an object's member of no, of one and
\* of another type; a plain one may be optional, or assert more.
MCShapes ==
    {[types |-> t, inner |-> i, member |-> m, narrow |-> n, place |-> p, always |-> a] :
        t \in {x \in SUBSET TypeNames : Cardinality(x) <= 2}, i \in {{}, {"integer"}, {"number"}},
        m \in {"optional", "required", "closed"}, n \in {"no", "loose", "strict"},
        p \in Places, a \in BOOLEAN}

Plain(s) == s.inner = {} /\ s.member = "optional"

MCTargets ==
    {s \in MCShapes : /\ "object" \notin s.types \/ s.narrow # "no" \/ ~ s.always => Plain(s)
                      /\ s.always \/ s.narrow = "no"
                      /\ s.place # "declared" => s.types = {} /\ s.narrow = "no" /\ s.always}

MCSources == {s \in MCTargets : s.narrow = "no"}

Still == [types |-> {}, inner |-> {}, member |-> "optional", narrow |-> "no",
          place |-> "open", always |-> TRUE]

ContractsParked ==
    /\ source = Still /\ target = Still /\ other = Still /\ expression = "path" /\ way = "clear"
    /\ verdict = "none" /\ condition = "none" /\ met = "none"

\* Any mapping, or any condition.
ContractsChosen ==
    /\ \/ other = Still /\ expression = "path"
       \/ target = Still /\ way = "clear"
    /\ ContractsInit

CompilerParked ==
    /\ flow = Doc(<<>>, {}, {}, {}) /\ phase = "done"
    /\ nodes = [v \in Ids |-> 0] /\ adjacency = [v \in Ids |-> {}]
    /\ diagnostics = {} /\ search = NoSearch
    /\ plan = [NoPlan EXCEPT !.hashed = TRUE]

InterpreterParked ==
    /\ edges = {} /\ par = 1 /\ loop = 1 /\ pending = {} /\ main = "done" /\ outcome = "succeeded"
    /\ comp = [n \in Node |-> n] /\ rank = [n \in Node |-> n]
    /\ active = 0 /\ completed = Node /\ mailbox = {} /\ skipped = {} /\ edgeActive = {}
    /\ status = [c \in Node |-> "ok"] /\ queue = [c \in Node |-> {}]
    /\ current = [c \in Node |-> 0] /\ counts = [n \in Node |-> 1]
    /\ produced = [c \in Node |-> {}] /\ inputs = [c \in Node |-> {}]
    /\ stopAdmission = FALSE /\ firstError = FALSE /\ rejected = FALSE /\ cancelled = FALSE

MCInit ==
    /\ part \in {"compiler", "contracts", "admission", "interpreter"}
    /\ AdmissionInit
    /\ IF part = "compiler" THEN CompileInit ELSE CompilerParked
    /\ IF part = "contracts" THEN ContractsChosen ELSE ContractsParked
    /\ IF part = "interpreter" THEN Init ELSE InterpreterParked

Compiling(A) ==
    part = "compiler" /\ A /\ UNCHANGED <<contractVars, admissionVars, vars, part>>
Judging(A) ==
    part = "contracts" /\ A /\ UNCHANGED <<compileVars, admissionVars, vars, part>>
Admitting(A) ==
    part = "admission" /\ A /\ UNCHANGED <<compileVars, contractVars, vars, part>>
Interpreting(A) ==
    part = "interpreter" /\ A /\ UNCHANGED <<compileVars, contractVars, admissionVars, part>>

MCNext ==
    \/ Compiling(CompileNext) \/ Judging(ContractsNext) \/ Admitting(AdmissionNext)
    \/ Interpreting(Next)

all == <<compileVars, contractVars, admissionVars, vars, part>>

MCSpec ==
    /\ MCInit /\ [][MCNext]_all
    /\ WF_all(Interpreting(Scheduler))
    /\ \A c \in Node : WF_all(Interpreting(Coroutine(c)))
=============================================================================
