----------------------------- MODULE MCPlugins -----------------------------
(***************************************************************************)
(* The versions of a plugin and its processes, checked side by side: a     *)
(* behaviour exercises one of the two, chosen at the start.                *)
(***************************************************************************)
EXTENDS PluginProcesses

VARIABLE half

MCProcs == 1..6

\* One bundle of one version is incompatible.
Digest == CHOOSE d \in Digests : TRUE
MCIncompatible == {CHOOSE v \in Versions : TRUE} \X (Digests \ {Digest})

\* Which digest an old row has does not matter otherwise: the first one stands
\* for any.
MCInit ==
    /\ Init /\ ProcessesInit
    /\ \A v \in Versions :
          records[v] \in {None, Digest} \/ <<v, records[v]>> \in Incompatible
    /\ \/ half = "versions"
       \/ half = "processes" /\ \A v \in Versions : records[v] = None

Versioned(A) == half = "versions" /\ A /\ UNCHANGED <<processesVars, half>>
Processed(A) == half = "processes" /\ A /\ UNCHANGED <<vars, half>>

MCNext == Versioned(PluginsNext) \/ Processed(ProcessesNext)

all == <<vars, processesVars, half>>

MCSpec ==
    /\ MCInit /\ [][MCNext]_all
    /\ WF_all(Versioned(ControllerStep))
    /\ WF_all(Processed(PassStep \/ ActorStep("controller")))
    /\ \A c \in Callers : WF_all(Processed(ActorStep(c)))
    /\ WF_all(Processed(\E p \in Procs : CloseOne(p)))
=============================================================================
