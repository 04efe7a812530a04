----------------------------- MODULE MCProviders -----------------------------
(***************************************************************************)
(* What plugins do: the calls of their handlers and processes, and the     *)
(* GitHub plugin's watches, mutations, check waits and workspaces.  They   *)
(* share no state: a behaviour exercises one of them, chosen at the start. *)
(***************************************************************************)
EXTENDS PluginCalls, GitHubWatch, GitHubMutations, GitHubChecks, Workspaces

VARIABLE part

MCInit ==
    /\ part \in {"calls", "watch", "mutations", "checks", "workspaces"}
    /\ CallsInit /\ WatchInit /\ MutationsInit /\ ChecksInit /\ WorkspacesInit
    /\ part # "watch" => source = "issues"
    /\ part # "mutations" => kind = "comment"

Calling(A) ==
    part = "calls" /\ A /\ UNCHANGED <<watchVars, mutationVars, checkVars, workVars, part>>
Watching(A) ==
    part = "watch" /\ A /\ UNCHANGED <<callVars, mutationVars, checkVars, workVars, part>>
Mutating(A) ==
    part = "mutations" /\ A /\ UNCHANGED <<callVars, watchVars, checkVars, workVars, part>>
Waiting(A) ==
    part = "checks" /\ A /\ UNCHANGED <<callVars, watchVars, mutationVars, workVars, part>>
Working(A) ==
    part = "workspaces" /\ A /\ UNCHANGED <<callVars, watchVars, mutationVars, checkVars, part>>

MCNext ==
    \/ Calling(CallsNext) \/ Watching(WatchNext) \/ Mutating(MutationsNext)
    \/ Waiting(ChecksNext) \/ Working(WorkspacesNext)

all == <<callVars, watchVars, mutationVars, checkVars, workVars, part>>

MCSpec ==
    /\ MCInit /\ [][MCNext]_all
    /\ \A c \in Calls : /\ WF_all(Calling(Handler(c))) /\ WF_all(Calling(Killer(c)))
                        /\ WF_all(Calling(Consumer(c))) /\ WF_all(Calling(GiveUpCall(c)))
    /\ WF_all(Watching(PollStep)) /\ WF_all(Waiting(WaitStep))

\* What is read from GitHub page by page, and asked of it again after a lost
\* answer, is neither passed over nor made twice nor reported good unseen.
GitHubInv ==
    /\ ReadyEventIsNotLost
    /\ DueReviewIsNotLost
    /\ ExistingIsReused
    /\ RetriesMakeOne
    /\ SuccessWasGood

\* No call, event or wait of a provider hangs: a cancelled call ends with its
\* process, a posted event is decided, a wait for checks ends.
ProvidersSettle == CancelledCallEnds /\ PostedIsDecided /\ WaitEnds
=============================================================================
