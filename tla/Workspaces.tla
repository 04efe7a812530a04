----------------------------- MODULE Workspaces -----------------------------
(***************************************************************************)
(* The git checkout of one Run: Checkout, the agent's edits, CommitPush,   *)
(* each a sequence of git commands that may be cut between any two, and    *)
(* their retries.  A history is the sequence of its commits; a commit is   *)
(* the set of the Run's edits in it, empty for one of the default branch.  *)
(* An edit changes a tracked file, adds an untracked one, or makes a git   *)
(* repository inside the workspace, which clean leaves alone.              *)
(*                                                                         *)
(* git is external: it pushes fast-forward only, refuses to switch when    *)
(* that would overwrite edits, and a command that writes the index and is  *)
(* killed with SIGKILL leaves its lock behind.  Nothing here removes a     *)
(* lock, and a clone killed before it knew its remote is never made again: *)
(* from then on every attempt of the Run fails.                            *)
(***************************************************************************)
EXTENDS Naturals, Sequences, FiniteSets, SequencesExt

CONSTANTS MaxEdits,   \* bound: edits by agents
          MaxMains,   \* bound: commits of the default branch
          MaxCuts     \* bound: commands that are killed

VARIABLES main,     \* the default branch of the remote
          branch,   \* the Run's branch of the remote, <<>> before the first push
          local,    \* the workspace: none, a clone cut short (unborn, or without
                    \* remote) or a checkout; HEAD, origin/main, edits, lock
          work,     \* the activity under way: its next command
          report,   \* the last CommitResult: the commit reported, or <<>>
          edits, cuts

workVars == <<main, branch, local, work, report, edits, cuts>>

NoRepo == [repo |-> "none", tip |-> <<>>, origin |-> <<>>, tracked |-> {}, untracked |-> {},
           nested |-> {}, locked |-> FALSE]
AtRest == [at |-> "rest"]

WorkspacesInit ==
    /\ main = <<{}>> /\ branch = <<>> /\ local = NoRepo /\ work = AtRest
    /\ report = <<>> /\ edits = 0 /\ cuts = 0

Then(label) == work' = [work EXCEPT !.at = label]
Fails == work' = AtRest /\ UNCHANGED <<local, branch>>

\* A command that writes the index fails while a lock is there.
Indexed(effect, label) ==
    IF local.locked THEN Fails ELSE local' = effect /\ Then(label) /\ UNCHANGED branch

-----------------------------------------------------------------------------
(* Checkout.                                                               *)

\* A directory with a .git is fetched into, also one that a cut clone left.
BeginCheckout ==
    /\ work.at = "rest"
    /\ Then(IF local.repo = "none" THEN "clone" ELSE "fetch")
    /\ UNCHANGED <<main, branch, local, report, edits, cuts>>

CloneRepo ==
    /\ work.at = "clone"
    /\ local' = [NoRepo EXCEPT !.repo = "repo", !.tip = main, !.origin = main]
    /\ Then("branch")
    /\ UNCHANGED <<main, branch, report, edits, cuts>>

\* checkout -b, on the clone.
MakeBranch ==
    /\ work.at = "branch"
    /\ Indexed(local, "checkedOut")
    /\ UNCHANGED <<main, report, edits, cuts>>

Fetch ==
    /\ work.at = "fetch"
    /\ IF local.repo = "remoteless" THEN Fails
       ELSE local' = [local EXCEPT !.origin = main] /\ Then("switch") /\ UNCHANGED branch
    /\ UNCHANGED <<main, report, edits, cuts>>

\* checkout -B keeps the edits, or refuses when files that differ would be
\* overwritten.
Switch ==
    /\ work.at = "switch"
    /\ \/ Indexed([local EXCEPT !.repo = "repo", !.tip = local.origin], "reset")
       \/ local.tracked \cup local.untracked # {} /\ local.tip # local.origin /\ Fails
    /\ UNCHANGED <<main, report, edits, cuts>>

Reset ==
    /\ work.at = "reset"
    /\ Indexed([local EXCEPT !.tip = local.origin, !.tracked = {}], "clean")
    /\ UNCHANGED <<main, report, edits, cuts>>

\* clean -fdx, with one -f: nested repositories stay.
Clean ==
    /\ work.at = "clean"
    /\ local' = [local EXCEPT !.untracked = {}]
    /\ Then("checkedOut")
    /\ UNCHANGED <<main, branch, report, edits, cuts>>

EndCheckout ==
    /\ work.at = "checkedOut" /\ work' = AtRest
    /\ UNCHANGED <<main, branch, local, report, edits, cuts>>

-----------------------------------------------------------------------------
(* CommitPush.                                                             *)

\* Nested repositories that HEAD does not refer to.
NewNested == {n \in local.nested : \A i \in DOMAIN local.tip : n \notin local.tip[i]}

BeginCommit ==
    /\ work.at = "rest" /\ local.repo = "repo"
    /\ Then(IF local.tracked \cup local.untracked \cup NewNested = {} THEN "push" ELSE "add")
    /\ UNCHANGED <<main, branch, local, report, edits, cuts>>

\* A nested repository is added as a reference, and stays; one without a
\* commit fails the command.
AddAll ==
    /\ work.at = "add"
    /\ \/ Indexed([local EXCEPT !.tracked = @ \cup local.untracked \cup NewNested,
                                !.untracked = {}], "commit")
       \/ NewNested # {} /\ Fails
    /\ UNCHANGED <<main, report, edits, cuts>>

CommitAll ==
    /\ work.at = "commit"
    /\ Indexed([local EXCEPT !.tip = Append(@, local.tracked), !.tracked = {}], "push")
    /\ UNCHANGED <<main, report, edits, cuts>>

\* Mutant: the push is forced.
PushForced ==
    /\ work.at = "push" /\ branch' = local.tip /\ Then("revparse")
    /\ UNCHANGED <<main, local, report, edits, cuts>>

Push ==
    /\ work.at = "push"
    /\ IF IsPrefix(branch, local.tip)
       THEN branch' = local.tip /\ Then("revparse") /\ UNCHANGED local
       ELSE Fails
    /\ UNCHANGED <<main, report, edits, cuts>>

RevParse ==
    /\ work.at = "revparse" /\ work' = AtRest
    /\ report' = local.tip
    /\ UNCHANGED <<main, branch, local, edits, cuts>>

-----------------------------------------------------------------------------
(* Agents, the remote, and kills.                                          *)

EditFile ==
    /\ work.at = "rest" /\ local.repo = "repo" /\ edits < MaxEdits /\ edits' = edits + 1
    /\ \/ local' = [local EXCEPT !.tracked = @ \cup {edits + 1}]
       \/ local' = [local EXCEPT !.untracked = @ \cup {edits + 1}]
       \/ local' = [local EXCEPT !.nested = @ \cup {edits + 1}]
    /\ UNCHANGED <<main, branch, work, report, cuts>>

MainAdvances ==
    /\ Len(main) < MaxMains /\ main' = Append(main, {})
    /\ UNCHANGED <<branch, local, work, report, edits, cuts>>

\* A cut: before the command took effect, or after it; a clone may leave a
\* repository without commits or without remote behind, an index command its
\* lock, clean some of its files, a push its effect.
CutWork ==
    /\ work.at # "rest" /\ cuts < MaxCuts /\ cuts' = cuts + 1
    /\ work' = AtRest
    /\ \/ UNCHANGED <<local, branch>>
       \/ /\ work.at = "clone" /\ UNCHANGED branch
          /\ \E left \in {"unborn", "remoteless"}, lock \in BOOLEAN :
                local' = [local EXCEPT !.repo = left, !.locked = lock]
       \/ /\ work.at \in {"branch", "switch", "reset", "add", "commit"}
          /\ local' = [local EXCEPT !.locked = TRUE] /\ UNCHANGED branch
       \/ /\ work.at = "clean" /\ UNCHANGED branch
          /\ \E left \in SUBSET local.untracked : local' = [local EXCEPT !.untracked = left]
       \/ /\ work.at = "push" /\ IsPrefix(branch, local.tip)
          /\ branch' = local.tip /\ UNCHANGED local
    /\ UNCHANGED <<main, report, edits>>

WorkspacesNext ==
    \/ BeginCheckout \/ CloneRepo \/ MakeBranch \/ Fetch \/ Switch \/ Reset \/ Clean \/ EndCheckout
    \/ BeginCommit \/ AddAll \/ CommitAll \/ Push \/ RevParse
    \/ EditFile \/ MainAdvances \/ CutWork

WorkspacesSpec == WorkspacesInit /\ [][WorkspacesNext]_workVars

-----------------------------------------------------------------------------
(* Properties.                                                             *)

\* A checkout that returns is the default branch as it was fetched, with no
\* edit in its files and no file beside them, whatever an earlier attempt, a
\* cut or an agent left behind; only repositories nested in it stay.
CheckoutIsFresh ==
    work.at = "checkedOut" =>
        local.tip = local.origin /\ local.tracked \cup local.untracked = {}

\* A reported commit is on the remote branch, also after later checkouts,
\* edits and pushes.
ReportedIsPushed == IsPrefix(report, branch)

\* An edit is committed once on the branch, although a cut between commit and
\* push, or between push and report, makes CommitPush run again.
EditIsCommittedOnce ==
    \A i, j \in DOMAIN branch : i # j => branch[i] \cap branch[j] = {}

\* Whichever git commands were cut before, an attempt that succeeds leaves what
\* it should: a fresh checkout, a report that is pushed, no edit committed
\* twice.  That an attempt succeeds is not said: a lock, a clone without remote
\* and edits in the way of a switch fail every later one.
WorkspacesInv == CheckoutIsFresh /\ ReportedIsPushed /\ EditIsCommittedOnce
=============================================================================
