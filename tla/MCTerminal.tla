----------------------------- MODULE MCTerminal -----------------------------
(***************************************************************************)
(* The two halves of the terminal's live model share no state: a behaviour *)
(* exercises one of them, chosen at the start.                             *)
(***************************************************************************)
EXTENDS LiveView, LiveRuns

VARIABLE half

MCKeys == 1..2
MCRuns == 1..2

MCInit == Init /\ RunsInit /\ half \in {"resources", "runs"}

MCNext ==
    \/ half = "resources" /\ Next /\ UNCHANGED <<runsVars, half>>
    \/ half = "runs" /\ RunsNext /\ UNCHANGED <<vars, half>>

all == <<vars, runsVars, half>>

MCSpec ==
    /\ MCInit /\ [][MCNext]_all
    /\ WF_all(half = "resources" /\ ListStep /\ UNCHANGED <<runsVars, half>>)
    /\ WF_all(half = "resources" /\ StreamStep /\ UNCHANGED <<runsVars, half>>)
    /\ WF_all(half = "runs" /\ PollStep /\ UNCHANGED <<vars, half>>)
    /\ \A u \in MCRuns : WF_all(half = "runs" /\ WatchStep(u) /\ UNCHANGED <<vars, half>>)

\* When the store stops moving the terminal shows what it holds: resources and
\* phases alike, past broken streams and overtaken answers.
ViewSettles == ViewCatchesUp /\ ShownPhaseSettles
=============================================================================
