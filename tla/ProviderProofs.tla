--------------------------- MODULE ProviderProofs ---------------------------
(***************************************************************************)
(* Proofs about what plugins do, for any markers, checks, numbers and      *)
(* bounds: an attempt at a workspace that succeeds leaves what it should,  *)
(* GitHub is asked again without making a thing twice, what was good when  *)
(* it was read is what is reported good, and what a call leaves is what    *)
(* was said in it.                                                         *)
(***************************************************************************)
EXTENDS MCProviders, FiniteSetTheorems, SequenceTheorems, TLAPS

-----------------------------------------------------------------------------
(***************************************************************************)
(* Workspaces.  An edit is committed once because it leaves the edits with *)
(* the commit that takes it: what is still an edit is in no commit of the  *)
(* workspace's history; a nested repository is added once to a history,    *)
(* because HEAD refers to it from then on.  The default branch has none of *)
(* the Run's edits, so that a checkout, which keeps them until its reset,  *)
(* keeps that true.                                                        *)
(***************************************************************************)
Commits == SUBSET Nat
WorkPoint == {"rest", "clone", "branch", "checkedOut", "fetch", "switch", "reset", "clean", "push",
              "add", "commit", "revparse"}

LocalState == [repo : {"none", "unborn", "remoteless", "repo"}, tip : Seq(Commits),
               origin : Seq({{}}), tracked : Commits, untracked : Commits, nested : Commits,
               locked : BOOLEAN]

WorkTypeOK ==
    /\ main \in Seq({{}}) /\ branch \in Seq(Commits) /\ report \in Seq(Commits)
    /\ local \in LocalState /\ work \in [at : WorkPoint] /\ edits \in Nat

\* The commits of a history have no edit in common, and none has one of rest.
Apart(s, rest) ==
    /\ \A i, j \in 1..Len(s) : i # j => s[i] \cap s[j] = {}
    /\ \A i \in 1..Len(s) : s[i] \cap rest = {}

\* A later edit has a number of its own.
Numbered(s) == \A i \in 1..Len(s) : s[i] \subseteq 1..edits

\* Where the commands of the activity under way have brought the workspace.
CommandsInOrder ==
    /\ work.at \in {"branch", "clean", "checkedOut"} => local.tip = local.origin /\ local.tracked = {}
    /\ work.at \in {"branch", "checkedOut"} => local.untracked = {}
    /\ work.at = "commit" => local.untracked = {}
    /\ work.at = "revparse" => branch = local.tip

WorkIInv ==
    /\ WorkTypeOK /\ CommandsInOrder /\ IsPrefix(report, branch)
    /\ local.tracked \cup local.untracked \cup local.nested \subseteq 1..edits /\ Numbered(local.tip)
    /\ Apart(local.tip, local.tracked \cup local.untracked) /\ Apart(branch, {})

\* A prefix, entry by entry.
LEMMA PrefixEntries ==
    ASSUME NEW s \in Seq(Commits), NEW t \in Seq(Commits)
    PROVE  IsPrefix(s, t) <=> Len(s) <= Len(t) /\ \A i \in 1..Len(s) : s[i] = t[i]
<1>0. Len(s) \in Nat /\ Len(t) \in Nat
  OBVIOUS
<1>1. CASE Len(s) <= Len(t)
  <2>1. 1 \in 1..(Len(s) + 1) /\ Len(s) \in (1 - 1)..Len(s) /\ Len(s) \in (1 - 1)..Len(t)
        /\ 1 \in 1..(Len(t) + 1)
    BY <1>0, <1>1
  <2>2. /\ SubSeq(s, 1, Len(s)) = [i \in 1..Len(s) |-> s[i]]
        /\ SubSeq(t, 1, Len(s)) = [i \in 1..Len(s) |-> t[i]]
    BY <1>0, <1>1
  <2> QED  BY <1>1, <2>2 DEF IsPrefix
<1> QED  BY <1>0, <1>1 DEF IsPrefix

\* Prefixes are reflexive and transitive.
LEMMA PrefixOrder ==
    ASSUME NEW s \in Seq(Commits), NEW t \in Seq(Commits), NEW u \in Seq(Commits)
    PROVE  /\ IsPrefix(s, s)
           /\ IsPrefix(s, t) /\ IsPrefix(t, u) => IsPrefix(s, u)
<1>0. Len(s) \in Nat /\ Len(t) \in Nat /\ Len(u) \in Nat
  OBVIOUS
<1> QED  BY <1>0, PrefixEntries

\* A history without edits is apart from anything.
LEMMA MainIsApart ==
    ASSUME NEW s \in Seq({{}}), NEW rest
    PROVE  s \in Seq(Commits) /\ Apart(s, rest) /\ \A n : \A i \in 1..Len(s) : s[i] \subseteq n
<1>1. Len(s) \in Nat /\ \A i \in 1..Len(s) : s[i] = {}
  OBVIOUS
<1>2. s \in Seq(Commits)
  BY <1>1 DEF Commits
<1> QED  BY <1>1, <1>2 DEF Apart

\* The next command, or the end of the activity.
LEMMA WorkMoves ==
    ASSUME WorkIInv, NEW label \in WorkPoint
    PROVE  /\ Then(label) => work'.at = label /\ work' \in [at : WorkPoint]
           /\ work' = AtRest => work'.at = "rest" /\ work' \in [at : WorkPoint]
BY DEF Then, AtRest, WorkPoint, WorkIInv, WorkTypeOK

\* A command that changes no history and makes no edit.
LEMMA WorkUnmoved ==
    ASSUME WorkIInv, UNCHANGED <<branch, report, edits>>, main' \in Seq({{}}),
           local' \in LocalState, local'.tip = local.tip, local'.tracked = local.tracked,
           local'.untracked \subseteq local.untracked, local'.nested \subseteq local.nested,
           work' \in [at : WorkPoint], CommandsInOrder'
    PROVE  WorkIInv'
BY DEF WorkIInv, WorkTypeOK, LocalState, Numbered, Apart

\* The workspace is brought to the default branch as it was fetched.
LEMMA TipToOrigin ==
    ASSUME WorkIInv, UNCHANGED <<branch, report, edits, main>>,
           local' \in LocalState, local'.tip \in Seq({{}}),
           local'.tracked \subseteq local.tracked, local'.untracked \subseteq local.untracked,
           local'.nested \subseteq local.nested,
           work' \in [at : WorkPoint], CommandsInOrder'
    PROVE  WorkIInv'
<1>1. /\ Apart(local'.tip, local'.tracked \cup local'.untracked)
      /\ \A i \in 1..Len(local'.tip) : local'.tip[i] \subseteq 1..edits
  BY MainIsApart
<1> QED  BY <1>1 DEF WorkIInv, WorkTypeOK, LocalState, Numbered

\* Checkout: clone and checkout -b, or fetch, checkout -B, reset and clean.
LEMMA CheckoutKeeps ==
    ASSUME WorkIInv,
           \/ BeginCheckout \/ CloneRepo \/ MakeBranch \/ Fetch \/ Switch \/ Reset \/ Clean
           \/ EndCheckout
    PROVE  WorkIInv'
<1>0. /\ local \in LocalState /\ main \in Seq({{}}) /\ local.origin \in Seq({{}})
      /\ local.tip \in Seq(Commits)
  BY DEF WorkIInv, WorkTypeOK, LocalState
<1>1. CASE BeginCheckout \/ EndCheckout
  <2>1. /\ UNCHANGED <<main, branch, local, report, edits>>
        /\ work' \in [at : WorkPoint] /\ work'.at \in {"clone", "fetch", "rest"}
    BY <1>1, WorkMoves DEF BeginCheckout, EndCheckout, WorkPoint
  <2>2. CommandsInOrder'
    BY <2>1 DEF CommandsInOrder
  <2> QED  BY <1>0, <2>1, <2>2, WorkUnmoved
<1>2. CASE CloneRepo
  <2>1. /\ UNCHANGED <<main, branch, report, edits>>
        /\ local' = [repo |-> "repo", tip |-> main, origin |-> main, tracked |-> {}, untracked |-> {},
                     nested |-> {}, locked |-> FALSE]
        /\ work' \in [at : WorkPoint] /\ work'.at = "branch"
    BY <1>2, WorkMoves DEF CloneRepo, NoRepo, WorkPoint
  <2>2. main \in Seq(Commits) /\ {} \in Commits
    BY <1>0, MainIsApart DEF Commits
  <2>3. /\ local' \in LocalState /\ local'.tip = main /\ local'.origin = main
        /\ local'.tracked = {} /\ local'.untracked = {} /\ local'.nested = {}
    BY <1>0, <2>1, <2>2 DEF LocalState
  <2>4. CommandsInOrder'
    BY <2>1, <2>3 DEF CommandsInOrder
  <2> QED  BY <1>0, <2>1, <2>3, <2>4, TipToOrigin
<1>3. ASSUME Fails, UNCHANGED <<main, report, edits>>
      PROVE  WorkIInv'
  <2>1. UNCHANGED <<local, branch>> /\ work' \in [at : WorkPoint] /\ work'.at = "rest"
    BY <1>3, WorkMoves DEF Fails, WorkPoint
  <2>2. CommandsInOrder'
    BY <2>1 DEF CommandsInOrder
  <2> QED  BY <1>0, <1>3, <2>1, <2>2, WorkUnmoved
<1>4. CASE MakeBranch
  <2>1. UNCHANGED <<main, report, edits>> /\ work.at = "branch"
    BY <1>4 DEF MakeBranch
  <2>2. CASE local' = local /\ Then("checkedOut") /\ UNCHANGED branch
    <3>1. work' \in [at : WorkPoint] /\ work'.at = "checkedOut"
      BY <2>2, WorkMoves DEF WorkPoint
    <3>2. CommandsInOrder'
      BY <2>1, <2>2, <3>1 DEF WorkIInv, CommandsInOrder
    <3> QED  BY <1>0, <2>1, <2>2, <3>1, <3>2, WorkUnmoved
  <2> QED  BY <1>3, <1>4, <2>1, <2>2 DEF MakeBranch, Indexed
<1>5. CASE Fetch
  <2>1. UNCHANGED <<main, report, edits>>
    BY <1>5 DEF Fetch
  <2>2. CASE local' = [local EXCEPT !.origin = main] /\ Then("switch") /\ UNCHANGED branch
    <3>1. /\ local' \in LocalState /\ local'.tip = local.tip /\ local'.nested = local.nested
          /\ local'.tracked = local.tracked /\ local'.untracked = local.untracked
      BY <1>0, <2>2 DEF LocalState
    <3>2. work' \in [at : WorkPoint] /\ work'.at = "switch"
      BY <2>2, WorkMoves DEF WorkPoint
    <3>3. CommandsInOrder'
      BY <3>2 DEF CommandsInOrder
    <3> QED  BY <1>0, <2>1, <2>2, <3>1, <3>2, <3>3, WorkUnmoved
  <2> QED  BY <1>3, <1>5, <2>1, <2>2 DEF Fetch
<1>6. local.origin \in Seq(Commits) /\ {} \in Commits
  BY <1>0, MainIsApart DEF Commits
<1>7. CASE Switch
  <2>1. UNCHANGED <<main, report, edits>>
    BY <1>7 DEF Switch
  <2>2. CASE /\ local' = [local EXCEPT !.repo = "repo", !.tip = local.origin]
             /\ Then("reset") /\ UNCHANGED branch
    <3>1. /\ local' \in LocalState /\ local'.tip = local.origin /\ local'.nested = local.nested
          /\ local'.tracked = local.tracked /\ local'.untracked = local.untracked
      BY <1>0, <1>6, <2>2 DEF LocalState
    <3>2. work' \in [at : WorkPoint] /\ work'.at = "reset"
      BY <2>2, WorkMoves DEF WorkPoint
    <3>3. CommandsInOrder'
      BY <3>2 DEF CommandsInOrder
    <3> QED  BY <1>0, <2>1, <2>2, <3>1, <3>2, <3>3, TipToOrigin
  <2> QED  BY <1>3, <1>7, <2>1, <2>2 DEF Switch, Indexed
<1>8. CASE Reset
  <2>1. UNCHANGED <<main, report, edits>>
    BY <1>8 DEF Reset
  <2>2. CASE /\ local' = [local EXCEPT !.tip = local.origin, !.tracked = {}]
             /\ Then("clean") /\ UNCHANGED branch
    <3>1. /\ local' \in LocalState /\ local'.tip = local.origin /\ local'.origin = local.origin
          /\ local'.tracked = {} /\ local'.untracked = local.untracked
          /\ local'.nested = local.nested
      BY <1>0, <1>6, <2>2 DEF LocalState
    <3>2. work' \in [at : WorkPoint] /\ work'.at = "clean"
      BY <2>2, WorkMoves DEF WorkPoint
    <3>3. CommandsInOrder'
      BY <3>1, <3>2 DEF CommandsInOrder
    <3> QED  BY <1>0, <2>1, <2>2, <3>1, <3>2, <3>3, TipToOrigin
  <2> QED  BY <1>3, <1>8, <2>1, <2>2 DEF Reset, Indexed
<1>9. CASE Clean
  <2>1. /\ UNCHANGED <<main, branch, report, edits>> /\ local' = [local EXCEPT !.untracked = {}]
        /\ work' \in [at : WorkPoint] /\ work'.at = "checkedOut" /\ work.at = "clean"
    BY <1>9, WorkMoves DEF Clean, WorkPoint
  <2>2. /\ local' \in LocalState /\ local'.tip = local.tip /\ local'.origin = local.origin
        /\ local'.tracked = local.tracked /\ local'.untracked = {}
        /\ local'.nested = local.nested
    BY <1>0, <1>6, <2>1 DEF LocalState
  <2>3. local.tip = local.origin /\ local.tracked = {}
    BY <2>1 DEF WorkIInv, CommandsInOrder
  <2>4. CommandsInOrder'
    BY <2>1, <2>2, <2>3 DEF CommandsInOrder
  <2> QED  BY <1>0, <2>1, <2>2, <2>3, <2>4, TipToOrigin
<1> QED  BY <1>1, <1>2, <1>4, <1>5, <1>7, <1>8, <1>9

\* The branch moves to the workspace's history, of which it is a prefix.
LEMMA PushedKeeps ==
    ASSUME WorkIInv, IsPrefix(branch, local.tip), branch' = local.tip,
           UNCHANGED <<main, local, report, edits>>,
           work' \in [at : WorkPoint], work'.at \in {"revparse", "rest"}
    PROVE  WorkIInv'
<1>1. report \in Seq(Commits) /\ branch \in Seq(Commits) /\ local.tip \in Seq(Commits)
  BY DEF WorkIInv, WorkTypeOK, LocalState
<1>2. IsPrefix(report, branch)'
  BY <1>1, PrefixOrder DEF WorkIInv
<1>3. Apart(branch, {})'
  BY DEF WorkIInv, Apart
<1>4. CommandsInOrder'
  BY DEF CommandsInOrder
<1> QED  BY <1>1, <1>2, <1>3, <1>4 DEF WorkIInv, WorkTypeOK, Numbered

\* CommitPush: add, commit, push, rev-parse.
LEMMA CommitPushKeeps ==
    ASSUME WorkIInv, BeginCommit \/ AddAll \/ CommitAll \/ Push \/ RevParse
    PROVE  WorkIInv'
<1>0. /\ local \in LocalState /\ main \in Seq({{}}) /\ local.tip \in Seq(Commits)
      /\ local.tracked \in Commits /\ local.untracked \in Commits /\ edits \in Nat
      /\ local.nested \in Commits /\ UNCHANGED <<main, edits>>
  BY DEF WorkIInv, WorkTypeOK, LocalState, BeginCommit, AddAll, CommitAll, Push, RevParse
<1>1. ASSUME Fails, UNCHANGED report
      PROVE  WorkIInv'
  <2>1. UNCHANGED <<local, branch>> /\ work' \in [at : WorkPoint] /\ work'.at = "rest"
    BY <1>1, WorkMoves DEF Fails, WorkPoint
  <2>2. CommandsInOrder'
    BY <2>1 DEF CommandsInOrder
  <2> QED  BY <1>0, <1>1, <2>1, <2>2, WorkUnmoved
<1>2. CASE BeginCommit
  <2>1. /\ UNCHANGED <<branch, local, report>>
        /\ work' \in [at : WorkPoint] /\ work'.at \in {"push", "add"}
    BY <1>2, WorkMoves DEF BeginCommit, WorkPoint
  <2>2. CommandsInOrder'
    BY <2>1 DEF CommandsInOrder
  <2> QED  BY <1>0, <2>1, <2>2, WorkUnmoved
<1>3. CASE AddAll
  <2> DEFINE added == local.tracked \cup local.untracked \cup NewNested
  <2>1. CASE /\ local' = [local EXCEPT !.tracked = added, !.untracked = {}]
             /\ Then("commit") /\ UNCHANGED branch
    <3>1. NewNested \subseteq local.nested /\ \A i \in 1..Len(local.tip) : local.tip[i] \cap NewNested = {}
      BY <1>0 DEF NewNested
    <3>2. added \in Commits /\ {} \in Commits
      BY <1>0, <3>1 DEF Commits
    <3>3. added \subseteq 1..edits /\ Apart(local.tip, added)
      BY <3>1 DEF WorkIInv, Apart
    <3> HIDE DEF added
    <3>4. /\ local' \in LocalState /\ local'.tip = local.tip /\ local'.untracked = {}
          /\ local'.tracked = added /\ local'.nested = local.nested
      BY <1>0, <2>1, <3>2 DEF LocalState
    <3>5. work' \in [at : WorkPoint] /\ work'.at = "commit"
      BY <2>1, WorkMoves DEF WorkPoint
    <3>6. CommandsInOrder'
      BY <3>4, <3>5 DEF CommandsInOrder
    <3>7. /\ Apart(local.tip, local.tracked \cup local.untracked)'
          /\ (local.tracked \cup local.untracked \cup local.nested \subseteq 1..edits)'
      <4>1. /\ local'.tracked \cup local'.untracked = added
            /\ local.nested \subseteq 1..edits
        BY <3>4 DEF WorkIInv
      <4> QED  BY <1>0, <3>3, <3>4, <4>1
    <3> QED  BY <1>0, <1>3, <2>1, <3>4, <3>5, <3>6, <3>7
             DEF AddAll, WorkIInv, WorkTypeOK, Numbered
  <2>2. UNCHANGED report
    BY <1>3 DEF AddAll
  <2> QED  BY <1>1, <1>3, <2>1, <2>2 DEF AddAll, Indexed
<1>4. CASE CommitAll
  <2> DEFINE tip == local.tip
             next == Append(tip, local.tracked)
  <2>1. CASE local' = [local EXCEPT !.tip = next, !.tracked = {}] /\ Then("push") /\ UNCHANGED branch
    <3>1. /\ next \in Seq(Commits) /\ Len(next) = Len(tip) + 1 /\ Len(tip) \in Nat
          /\ \A i \in 1..Len(tip) : next[i] = tip[i]
          /\ next[Len(tip) + 1] = local.tracked
      BY <1>0, AppendProperties
    <3>2. /\ Apart(tip, local.tracked \cup local.untracked) /\ Numbered(tip)
          /\ local.tracked \cup local.nested \subseteq 1..edits /\ local.untracked = {}
      BY <1>4 DEF WorkIInv, CommandsInOrder, CommitAll
    <3>3. work' \in [at : WorkPoint] /\ work'.at = "push"
      BY <2>1, WorkMoves DEF WorkPoint
    <3> HIDE DEF next
    <3>4. /\ local' \in LocalState /\ local'.tip = next
          /\ local'.tracked = {} /\ local'.untracked = {} /\ local'.nested = local.nested
      BY <1>0, <2>1, <3>1, <3>2 DEF LocalState, Commits
    <3> HIDE DEF tip
    <3>5. \A i \in 1..Len(next) : /\ i \in 1..Len(tip) \/ i = Len(tip) + 1
                                  /\ next[i] = IF i = Len(tip) + 1 THEN local.tracked ELSE tip[i]
      BY <3>1
    <3>6. Apart(next, {}) /\ Numbered(next)
      BY <3>2, <3>5 DEF Apart, Numbered
    <3>7. CommandsInOrder'
      BY <3>3 DEF CommandsInOrder
    <3>8. UNCHANGED <<report, branch>>
      BY <1>4, <2>1 DEF CommitAll
    <3> QED  BY <1>0, <3>2, <3>3, <3>4, <3>6, <3>7, <3>8
             DEF WorkIInv, WorkTypeOK, LocalState, Numbered
  <2> QED  BY <1>1, <1>4, <2>1 DEF CommitAll, Indexed
<1>5. CASE Push
  <2>1. CASE IsPrefix(branch, local.tip) /\ branch' = local.tip /\ Then("revparse") /\ UNCHANGED local
    <3>1. work' \in [at : WorkPoint] /\ work'.at = "revparse"
      BY <2>1, WorkMoves DEF WorkPoint
    <3> QED  BY <1>0, <1>5, <2>1, <3>1, PushedKeeps DEF Push
  <2> QED  BY <1>1, <1>5, <2>1 DEF Push
<1>6. CASE RevParse
  <2>1. /\ UNCHANGED <<branch, local>> /\ report' = local.tip /\ work.at = "revparse"
        /\ work' \in [at : WorkPoint] /\ work'.at = "rest"
    BY <1>6, WorkMoves DEF RevParse, WorkPoint
  <2>2. branch = local.tip
    BY <2>1 DEF WorkIInv, CommandsInOrder
  <2>3. IsPrefix(report, branch)'
    BY <1>0, <2>1, <2>2, PrefixOrder
  <2>4. CommandsInOrder'
    BY <2>1 DEF CommandsInOrder
  <2> QED  BY <1>0, <2>1, <2>3, <2>4 DEF WorkIInv, WorkTypeOK, Numbered
<1> QED  BY <1>2, <1>3, <1>4, <1>5, <1>6

\* An agent edits; the default branch moves on; a command is killed.
LEMMA OutsideKeeps ==
    ASSUME WorkIInv, EditFile \/ MainAdvances \/ CutWork
    PROVE  WorkIInv'
<1>0. /\ local \in LocalState /\ main \in Seq({{}}) /\ local.tip \in Seq(Commits) /\ edits \in Nat
      /\ local.tracked \in Commits /\ local.untracked \in Commits /\ local.nested \in Commits
      /\ work \in [at : WorkPoint] /\ UNCHANGED report
  BY DEF WorkIInv, WorkTypeOK, LocalState, EditFile, MainAdvances, CutWork
<1>1. CASE EditFile
  <2>1. /\ UNCHANGED <<main, branch, work>> /\ work.at = "rest" /\ edits' = edits + 1
        /\ \/ local' = [local EXCEPT !.tracked = local.tracked \cup {edits + 1}]
           \/ local' = [local EXCEPT !.untracked = local.untracked \cup {edits + 1}]
           \/ local' = [local EXCEPT !.nested = local.nested \cup {edits + 1}]
    BY <1>1 DEF EditFile
  <2>2. /\ local' \in LocalState /\ local'.tip = local.tip
        /\ local'.tracked \subseteq local.tracked \cup {edits + 1}
        /\ local'.untracked \subseteq local.untracked \cup {edits + 1}
        /\ local'.nested \subseteq local.nested \cup {edits + 1}
    <3>1. \A x \in Commits : x \cup {edits + 1} \in Commits
      BY <1>0 DEF Commits
    <3>2. CASE local' = [local EXCEPT !.tracked = local.tracked \cup {edits + 1}]
      BY <1>0, <3>1, <3>2 DEF LocalState
    <3>3. CASE local' = [local EXCEPT !.untracked = local.untracked \cup {edits + 1}]
      BY <1>0, <3>1, <3>3 DEF LocalState
    <3>4. CASE local' = [local EXCEPT !.nested = local.nested \cup {edits + 1}]
      BY <1>0, <3>1, <3>4 DEF LocalState
    <3> QED  BY <2>1, <3>2, <3>3, <3>4
  <2>3. \A m \in 1..edits : m \in 1..edits' /\ m # edits + 1
    BY <1>0, <2>1
  <2>4. edits' \in Nat /\ edits + 1 \in 1..edits'
    BY <1>0, <2>1
  <2>5. Numbered(local.tip) /\ local.tracked \cup local.untracked \cup local.nested \subseteq 1..edits
        /\ Apart(local.tip, local.tracked \cup local.untracked)
    BY DEF WorkIInv
  <2>6. \A i \in 1..Len(local.tip) : edits + 1 \notin local.tip[i]
    BY <2>3, <2>5 DEF Numbered
  <2>7. Apart(local.tip, local.tracked \cup local.untracked)'
    BY <2>2, <2>5, <2>6 DEF Apart
  <2>8. Numbered(local.tip)'
    BY <2>2, <2>3, <2>5 DEF Numbered
  <2>9. CommandsInOrder'
    BY <2>1 DEF CommandsInOrder
  <2>10. (local.tracked \cup local.untracked \cup local.nested \subseteq 1..edits)'
    BY <2>2, <2>3, <2>4, <2>5
  <2> QED  BY <1>0, <2>1, <2>2, <2>4, <2>7, <2>8, <2>9, <2>10 DEF WorkIInv, WorkTypeOK
<1>2. CASE MainAdvances
  <2>1. UNCHANGED <<branch, local, work, edits>> /\ main' = Append(main, {})
    BY <1>2 DEF MainAdvances
  <2>2. main' \in Seq({{}})
    BY <1>0, <2>1, AppendProperties
  <2>3. CommandsInOrder'
    BY <2>1 DEF WorkIInv, CommandsInOrder
  <2> QED  BY <1>0, <2>1, <2>2, <2>3, WorkUnmoved
<1>3. CASE CutWork
  <2>1. UNCHANGED <<main, edits>> /\ work' \in [at : WorkPoint] /\ work'.at = "rest"
    BY <1>3, WorkMoves DEF CutWork, WorkPoint
  <2>2. CommandsInOrder'
    BY <2>1 DEF CommandsInOrder
  <2>3. ASSUME UNCHANGED branch,
               \/ local' = local
               \/ \E left \in {"unborn", "remoteless"}, lock \in BOOLEAN :
                     local' = [local EXCEPT !.repo = left, !.locked = lock]
               \/ local' = [local EXCEPT !.locked = TRUE]
               \/ \E left \in SUBSET local.untracked : local' = [local EXCEPT !.untracked = left]
        PROVE  WorkIInv'
    <3>1. \A left \in SUBSET local.untracked : left \in Commits
      BY <1>0 DEF Commits
    <3>2. /\ local' \in LocalState /\ local'.tip = local.tip /\ local'.nested = local.nested
          /\ local'.tracked = local.tracked /\ local'.untracked \subseteq local.untracked
      BY <1>0, <2>3, <3>1 DEF LocalState
    <3> QED  BY <1>0, <2>1, <2>2, <2>3, <3>2, WorkUnmoved
  <2>4. CASE IsPrefix(branch, local.tip) /\ branch' = local.tip /\ UNCHANGED local
    BY <1>0, <2>1, <2>4, PushedKeeps
  <2> QED  BY <1>3, <2>3, <2>4 DEF CutWork
<1> QED  BY <1>1, <1>2, <1>3

(***************************************************************************)
(* Wherever a checkout or a CommitPush is cut, and however they repeat: a  *)
(* checkout that returns is fresh but for nested repositories, a reported  *)
(* commit is on the branch, and no edit is committed twice.  It does not   *)
(* say that an attempt after a cut returns: many never do.                 *)
(***************************************************************************)
THEOREM WorkspacesInvariant == WorkspacesSpec => []WorkspacesInv
<1>1. WorkspacesInit => WorkIInv
  <2> SUFFICES ASSUME WorkspacesInit
               PROVE  WorkIInv
    OBVIOUS
  <2>1. << >> \in Seq(Commits) /\ << >> \in Seq({{}}) /\ << {} >> \in Seq({{}}) /\ Len(<< >>) = 0
    OBVIOUS
  <2>2. /\ NoRepo \in LocalState /\ NoRepo.tip = << >> /\ NoRepo.tracked = {} /\ NoRepo.untracked = {}
        /\ NoRepo.nested = {}
    BY <2>1 DEF NoRepo, LocalState, Commits
  <2>3. AtRest \in [at : WorkPoint] /\ AtRest.at = "rest"
    BY DEF AtRest, WorkPoint
  <2>4. IsPrefix(<< >>, << >>)
    BY <2>1, PrefixOrder
  <2>5. WorkTypeOK
    BY <2>1, <2>2, <2>3 DEF WorkspacesInit, WorkTypeOK, LocalState
  <2> QED  BY <2>1, <2>2, <2>3, <2>4, <2>5
           DEF WorkspacesInit, WorkIInv, CommandsInOrder, Numbered, Apart
<1>2. WorkIInv /\ [WorkspacesNext]_workVars => WorkIInv'
  <2> SUFFICES ASSUME WorkIInv, [WorkspacesNext]_workVars
               PROVE  WorkIInv'
    OBVIOUS
  <2>1. CASE UNCHANGED workVars
    BY <2>1 DEF workVars, WorkIInv, WorkTypeOK, CommandsInOrder, Numbered, Apart
  <2> QED  BY <2>1, CheckoutKeeps, CommitPushKeeps, OutsideKeeps DEF WorkspacesNext
<1>3. WorkIInv => WorkspacesInv
  <2> SUFFICES ASSUME WorkIInv
               PROVE  WorkspacesInv
    OBVIOUS
  <2>1. DOMAIN branch = 1..Len(branch)
    BY DEF WorkIInv, WorkTypeOK
  <2> QED  BY <2>1 DEF WorkIInv, CommandsInOrder, Apart, WorkspacesInv, CheckoutIsFresh,
              ReportedIsPushed, EditIsCommittedOnce
<1> QED  BY <1>1, <1>2, <1>3, PTL DEF WorkspacesSpec

-----------------------------------------------------------------------------
(***************************************************************************)
(* The wait for checks.  Nothing keeps the commit the head between two     *)
(* requests, but a head that was left does not come back: a commit that is *)
(* the head at the end was the head at every read before.                  *)
(***************************************************************************)
ChecksTypeOK ==
    /\ head \in Nat /\ checks \in [Required -> Outcomes]
    /\ combined \in {"none", "pending", "success", "failure"}
    /\ wait \in [pc : {"head", "checks", "final", "pause", "ended"}, left : SUBSET Required,
                 checks : [Required -> Outcomes], combined : {"none", "pending", "success", "failure"},
                 result : {"none", "error", "stale", "success", "failure"}]

\* A check that was read good, on its page, is one of those that were good.
ReadGood ==
    \A n \in Required \ wait.left : wait.checks[n] \in {"success", "skipped"} => n \in goodAt

ChecksIInv ==
    /\ ChecksTypeOK
    /\ wait.pc # "ended" => wait.result = "none"
    /\ wait.pc = "checks" /\ head = 0 => ReadGood
    /\ wait.pc = "final" /\ head = 0 => Required \cup {"statuses"} \subseteq goodAt
    /\ wait.result = "success" => Required \cup {"statuses"} \subseteq goodAt

\* A round that found nothing failed and nothing missing found all good.
LEMMA EvaluateSuccess ==
    ASSUME NEW c \in [Required -> Outcomes], NEW s \in {"none", "pending", "success", "failure"},
           Evaluate(c, s) = "success"
    PROVE  (\A n \in Required : c[n] \in {"success", "skipped"}) /\ s \in {"none", "success"}
<1>1. ~ ((\E n \in Required : c[n] = "failure") \/ s = "failure")
  BY DEF Evaluate
<1>2. ~ ((\E n \in Required : c[n] \in {"missing", "running"}) \/ s = "pending")
  BY <1>1 DEF Evaluate
<1> QED  BY <1>1, <1>2 DEF Outcomes

\* The reads of one round, page by page, and their failures.
LEMMA RoundKeeps ==
    ASSUME ChecksIInv, WaitStep \/ WaitFails
    PROVE  ChecksIInv'
<1> DEFINE W == [pc : {"head", "checks", "final", "pause", "ended"}, left : SUBSET Required,
                 checks : [Required -> Outcomes], combined : {"none", "pending", "success", "failure"},
                 result : {"none", "error", "stale", "success", "failure"}]
<1>0. /\ UNCHANGED <<head, checks, combined>> /\ head \in Nat /\ checks \in [Required -> Outcomes]
      /\ combined \in {"none", "pending", "success", "failure"} /\ wait \in W
  BY DEF ChecksIInv, ChecksTypeOK, WaitStep, WaitFails, ReadHead, ReadChecks, ReadStatuses, Pause
<1>1. ASSUME NEW result \in {"error", "stale", "success", "failure"}
      PROVE  /\ Ended(result) \in W /\ Ended(result).pc = "ended" /\ Ended(result).result = result
  BY <1>0 DEF Ended
<1>2. CASE ReadHead
  <2>0. wait.pc \in {"head", "final"} /\ (wait.pc = "final" => UNCHANGED goodAt)
    BY <1>2 DEF ReadHead
  <2>1. ASSUME NEW result \in {"error", "stale"}, wait' = Ended(result)
        PROVE  ChecksIInv'
    BY <1>0, <1>1, <2>1 DEF ChecksIInv, ChecksTypeOK
  <2>2. CASE head = 0 /\ wait.pc = "final" /\ wait' = Ended("success")
    BY <1>0, <1>1, <2>0, <2>2 DEF ChecksIInv, ChecksTypeOK
  <2>3. CASE wait.pc = "head" /\ wait' = [wait EXCEPT !.pc = "checks", !.left = Required]
    <3>1. /\ wait' \in W /\ wait'.pc = "checks" /\ wait'.result = "none" /\ wait'.left = Required
      BY <1>0, <2>3 DEF ChecksIInv
    <3> QED  BY <1>0, <3>1 DEF ChecksIInv, ChecksTypeOK, ReadGood
  <2> QED  BY <1>2, <2>0, <2>1, <2>2, <2>3 DEF ReadHead
<1>3. ASSUME NEW n \in Required, ReadChecks(n)
      PROVE  ChecksIInv'
  <2>1. /\ wait' = [wait EXCEPT !.left = wait.left \ {n}, !.checks = [wait.checks EXCEPT ![n] = checks[n]]]
        /\ wait.pc = "checks"
        /\ goodAt' = IF head = 0 /\ checks[n] \in {"success", "skipped"} THEN goodAt \cup {n} ELSE goodAt
    BY <1>0, <1>3 DEF ReadChecks
  <2>2. /\ wait' \in W /\ wait'.pc = "checks" /\ wait'.result = "none"
        /\ wait'.left = wait.left \ {n}
        /\ \A m \in Required : wait'.checks[m] = IF m = n THEN checks[n] ELSE wait.checks[m]
    BY <1>0, <2>1 DEF ChecksIInv
  <2>3. head = 0 => ReadGood'
    BY <1>0, <2>1, <2>2 DEF ChecksIInv, ReadGood
  <2> QED  BY <1>0, <2>2, <2>3 DEF ChecksIInv, ChecksTypeOK
<1>4. CASE ReadStatuses
  <2>0. /\ wait.pc = "checks" /\ wait.left = {} /\ wait.result = "none"
        /\ goodAt' = IF head = 0 /\ combined \in {"none", "success"}
                     THEN goodAt \cup {"statuses"} ELSE goodAt
    BY <1>4 DEF ReadStatuses, ChecksIInv
  <2>1. CASE /\ Evaluate(wait.checks, combined) = "success"
             /\ wait' = [wait EXCEPT !.pc = "final", !.combined = combined]
    <3>1. wait' \in W /\ wait'.pc = "final" /\ wait'.result = wait.result
      BY <1>0, <2>1
    <3>2. /\ \A n \in Required : wait.checks[n] \in {"success", "skipped"}
          /\ combined \in {"none", "success"}
      BY <1>0, <2>1, EvaluateSuccess
    <3>3. head = 0 => (Required \cup {"statuses"} \subseteq goodAt)'
      BY <1>0, <2>0, <3>2 DEF ChecksIInv, ReadGood
    <3> QED  BY <1>0, <2>0, <3>1, <3>3 DEF ChecksIInv, ChecksTypeOK
  <2>2. CASE wait' = Ended("failure")
    BY <1>0, <1>1, <2>0, <2>2 DEF ChecksIInv, ChecksTypeOK
  <2>3. CASE wait' = [wait EXCEPT !.pc = "pause"]
    <3>1. wait' \in W /\ wait'.pc = "pause" /\ wait'.result = wait.result
      BY <1>0, <2>3
    <3> QED  BY <1>0, <2>0, <3>1 DEF ChecksIInv, ChecksTypeOK
  <2> QED  BY <1>4, <2>1, <2>2, <2>3 DEF ReadStatuses
<1>5. CASE Pause
  <2>1. wait' \in W /\ wait'.pc = "head" /\ wait'.result = "none" /\ UNCHANGED goodAt
    BY <1>5 DEF Pause, NoWait, Outcomes
  <2> QED  BY <1>0, <2>1 DEF ChecksIInv, ChecksTypeOK
<1>6. CASE WaitFails
  BY <1>0, <1>1, <1>6 DEF WaitFails, ChecksIInv, ChecksTypeOK
<1> QED  BY <1>2, <1>3, <1>4, <1>5, <1>6 DEF WaitStep

(***************************************************************************)
(* A wait that reports success has read every required check and the       *)
(* statuses good while the commit was the head of its pull request.        *)
(***************************************************************************)
THEOREM SuccessWasGoodInvariant == ChecksSpec => []SuccessWasGood
<1>1. ChecksInit => ChecksIInv
  BY DEF ChecksInit, ChecksIInv, ChecksTypeOK, NoWait, Outcomes
<1>2. ChecksIInv /\ [ChecksNext]_checkVars => ChecksIInv'
  <2> SUFFICES ASSUME ChecksIInv, [ChecksNext]_checkVars
               PROVE  ChecksIInv'
    OBVIOUS
  <2>1. CASE UNCHANGED checkVars
    BY <2>1 DEF checkVars, ChecksIInv, ChecksTypeOK, ReadGood
  <2>2. ASSUME NEW n \in Required, NEW o \in Outcomes, ReportCheck(n, o)
        PROVE  ChecksIInv'
    BY <2>2 DEF ReportCheck, ChecksIInv, ChecksTypeOK, ReadGood
  <2>3. ASSUME NEW s \in {"pending", "success", "failure"}, SetStatus(s)
        PROVE  ChecksIInv'
    BY <2>3 DEF SetStatus, ChecksIInv, ChecksTypeOK, ReadGood
  <2>4. CASE PushHead
    <3>1. head' \in Nat /\ head' # 0 /\ UNCHANGED <<checks, combined, wait, goodAt>>
      BY <2>4 DEF PushHead, ChecksIInv, ChecksTypeOK
    <3> QED  BY <3>1 DEF ChecksIInv, ChecksTypeOK, ReadGood
  <2>5. CASE ClosePullRequest
    BY <2>5 DEF ClosePullRequest, ChecksIInv, ChecksTypeOK, ReadGood
  <2> QED  BY <2>1, <2>2, <2>3, <2>4, <2>5, RoundKeeps DEF ChecksNext
<1>3. ChecksIInv => SuccessWasGood
  BY DEF ChecksIInv, SuccessWasGood
<1> QED  BY <1>1, <1>2, <1>3, PTL DEF ChecksSpec

-----------------------------------------------------------------------------
(***************************************************************************)
(* Mutations.  A call that lists has found nothing of its own on the pages *)
(* before, and what existed when it began still comes; so it only posts    *)
(* when nothing existed that a listing reaches.  Without overlap and       *)
(* without an abandoned request nothing is made meanwhile either, and what *)
(* is made is the only one.                                                *)
(***************************************************************************)
AskState == [pc : {"idle", "list", "post", "done", "failed"}, marker : Markers \cup {"none"},
             page : Nat, known : SUBSET Nat, made : BOOLEAN]

MutationsTypeOK ==
    /\ kind \in {"comment", "pull"} /\ loose \in BOOLEAN
    /\ objects \in Seq([marker : Markers \cup {"none"}, open : BOOLEAN])
    /\ asks \in [Askers -> AskState] /\ flying \subseteq Markers

Asking(a) == asks[a].pc \in {"list", "post"}

\* What existed when the call began exists.
KnownExists(a) == asks[a].marker \in Markers /\ asks[a].known \subseteq Existing(asks[a].marker)

AskInv(a) ==
    /\ Asking(a) => KnownExists(a) /\ ~ asks[a].made
    /\ asks[a].pc = "list" => asks[a].page # 0 /\ \A k \in asks[a].known : asks[a].page <= k
    /\ asks[a].pc = "post" \/ asks[a].made => \A k \in asks[a].known : k > MaxListed

\* Retries one after the other, of no more than a listing reads.
Alone ==
    ~ loose =>
        /\ flying = {}
        /\ \A a, b \in Askers : Asking(a) /\ Asking(b) => a = b
        /\ Len(objects) <= MaxListed =>
              /\ \A a \in Askers : asks[a].pc = "list" => \A n \in Existing(asks[a].marker) : asks[a].page <= n
              /\ \A a \in Askers : asks[a].pc = "post" => Existing(asks[a].marker) = {}
              /\ \A m \in Markers : \A i, j \in Existing(m) : i = j

MutationsIInv == MutationsTypeOK /\ (\A a \in Askers : AskInv(a)) /\ Alone

\* What a step of GitHub's does to what a call takes for its own.
ObjectsGrow == \A m \in Markers : /\ Existing(m) \subseteq Existing(m)'
                                  /\ Existing(m)' \subseteq Existing(m) \cup {Len(objects) + 1}

\* Objects are numbered from one; for a pull request all of them match.
LEMMA ExistingNumbers ==
    ASSUME MutationsTypeOK, NEW m
    PROVE  /\ Existing(m) \subseteq 1..Len(objects) /\ Len(objects) \in Nat
           /\ kind = "pull" => Existing(m) = 1..Len(objects)
BY DEF MutationsTypeOK, Existing, Matches

\* An object made is the newest, and another of the calls it matches.
LEMMA MadeExisting ==
    ASSUME MutationsTypeOK, NEW p \in Markers, Made(p), UNCHANGED kind, NEW m \in Markers
    PROVE  /\ Existing(m)' = Existing(m) \cup {n \in {Len(objects) + 1} : kind = "pull" \/ p = m}
           /\ objects' \in Seq([marker : Markers \cup {"none"}, open : BOOLEAN])
<1>1. /\ objects' \in Seq([marker : Markers \cup {"none"}, open : BOOLEAN])
      /\ DOMAIN objects' = DOMAIN objects \cup {Len(objects) + 1}
      /\ Len(objects) + 1 \notin DOMAIN objects
      /\ \A n \in DOMAIN objects : objects'[n] = objects[n]
      /\ objects'[Len(objects) + 1].marker = p
  <2> DEFINE o == [marker |-> p, open |-> TRUE]
             S == [marker : Markers \cup {"none"}, open : BOOLEAN]
  <2>1. o \in S /\ o.marker = p
    OBVIOUS
  <2>2. objects \in Seq(S) /\ objects' = Append(objects, o)
    BY DEF MutationsTypeOK, Made
  <2> HIDE DEF o, S
  <2>3. /\ objects' \in Seq(S) /\ Len(objects') = Len(objects) + 1
        /\ \A n \in 1..Len(objects) : objects'[n] = objects[n]
        /\ objects'[Len(objects) + 1] = o
    BY <2>1, <2>2, AppendProperties
  <2>4. Len(objects) \in Nat /\ DOMAIN objects = 1..Len(objects) /\ DOMAIN objects' = 1..(Len(objects) + 1)
    BY <2>2, <2>3
  <2>5. 1..(Len(objects) + 1) = (1..Len(objects)) \cup {Len(objects) + 1}
    BY <2>4
  <2> QED  BY <2>1, <2>3, <2>4, <2>5 DEF S
<1>2. Existing(m)' = {n \in DOMAIN objects' : kind = "pull" \/ objects'[n].marker = m}
  BY DEF Existing, Matches
<1>3. Existing(m) = {n \in DOMAIN objects : kind = "pull" \/ objects[n].marker = m}
  BY DEF Existing, Matches
<1> QED  BY <1>1, <1>2, <1>3

\* What a call has found and not found stays true while objects are made or
\* closed: the newest comes after every page it has read.
LEMMA AskKept ==
    ASSUME MutationsIInv, ObjectsGrow, NEW b \in Askers, asks'[b] = asks[b]
    PROVE  AskInv(b)'
<1>0. AskInv(b) /\ asks[b] \in AskState /\ MutationsTypeOK
  BY DEF MutationsIInv, MutationsTypeOK
<1>1. Asking(b) => KnownExists(b)'
  <2> SUFFICES ASSUME Asking(b) PROVE KnownExists(b)'
    OBVIOUS
  <2> DEFINE m == asks[b].marker  K == asks[b].known
  <2>1. m \in Markers /\ K \subseteq Existing(m)
    BY <1>0 DEF AskInv, KnownExists
  <2>2. Existing(m) \subseteq Existing(m)'
    BY <2>1 DEF ObjectsGrow
  <2>3. KnownExists(b)' <=> m \in Markers /\ K \subseteq Existing(m)'
    BY DEF KnownExists, Existing, Matches
  <2> HIDE DEF m, K
  <2> QED  BY <2>1, <2>2, <2>3
<1> QED  BY <1>0, <1>1 DEF AskInv, Asking

\* A step that makes no object: closing, or a call's own.
LEMMA SameObjects ==
    ASSUME UNCHANGED <<kind, objects>>
    PROVE  ObjectsGrow /\ \A m : Existing(m)' = Existing(m)
BY DEF ObjectsGrow, Existing, Matches

\* A step of one call that makes no object.
LEMMA QuietAskStep ==
    ASSUME MutationsIInv, NEW a \in Askers, NEW s \in AskState, Ask(a, s), UNCHANGED <<kind, objects>>,
           loose' \in BOOLEAN, flying' \subseteq Markers, AskInv(a)', Alone'
    PROVE  MutationsIInv'
<1>1. asks' \in [Askers -> AskState] /\ \A b \in Askers \ {a} : asks'[b] = asks[b]
  BY DEF MutationsIInv, MutationsTypeOK, Ask
<1> QED  BY <1>1, AskKept, SameObjects DEF MutationsIInv, MutationsTypeOK

\* A call begins: it is alone, or it overlaps.
LEMMA BeginAskKeeps ==
    ASSUME MutationsIInv, NEW a \in Askers, NEW m \in Markers, BeginAsk(a, m)
    PROVE  MutationsIInv'
<1> DEFINE s == [pc |-> "list", marker |-> m, page |-> 1, known |-> Existing(m), made |-> FALSE]
<1>0. /\ MutationsTypeOK /\ Alone /\ asks[a].pc = "idle" /\ Ask(a, s) /\ UNCHANGED <<kind, objects, flying>>
      /\ loose' = (loose \/ \E b \in Askers : asks[b].pc \in {"list", "post"})
      /\ \A n : Existing(n)' = Existing(n)
  BY SameObjects DEF BeginAsk, MutationsIInv
<1>1. Existing(m) \subseteq 1..Len(objects) /\ Len(objects) \in Nat
  BY <1>0, ExistingNumbers
<1>2. /\ s \in AskState /\ s.pc = "list" /\ s.marker = m /\ s.page = 1 /\ s.known = Existing(m) /\ ~ s.made
      /\ \A n \in Existing(m) : 1 <= n
  BY <1>1 DEF AskState
<1> HIDE DEF s
<1>3. /\ asks'[a] = s /\ \A b \in Askers \ {a} : asks'[b] = asks[b]
      /\ loose' \in BOOLEAN /\ flying' \subseteq Markers
  BY <1>0 DEF Ask, MutationsTypeOK
<1>4. AskInv(a)'
  <2>1. KnownExists(a)'
    BY <1>0, <1>2, <1>3 DEF KnownExists
  <2> QED  BY <1>2, <1>3, <2>1 DEF AskInv, Asking
<1>5. Alone'
  <2> SUFFICES ASSUME ~ loose' PROVE Alone'
    BY DEF Alone
  <2>1. ~ loose /\ \A b \in Askers : ~ Asking(b)
    BY <1>0 DEF Asking
  <2>2. /\ flying' = {} /\ \A b \in Askers : Asking(b)' => b = a
        /\ Len(objects) <= MaxListed => \A n \in Markers : \A i, j \in Existing(n)' : i = j
    BY <1>0, <1>3, <2>1 DEF Alone, Asking
  <2>3. \A b \in Askers : asks'[b].pc = "list" => \A n \in Existing(asks'[b].marker) : asks'[b].page <= n
    BY <1>2, <1>3, <2>1 DEF Asking
  <2>4. \A b \in Askers : asks'[b].pc # "post"
    BY <1>2, <1>3, <2>1 DEF Asking
  <2>5. \A b \in Askers : Existing(asks[b].marker)' = Existing(asks'[b].marker)
    BY <1>0 DEF Existing, Matches
  <2> QED  BY <1>0, <2>2, <2>3, <2>4, <2>5 DEF Alone
<1> QED  BY <1>0, <1>2, <1>3, <1>4, <1>5, QuietAskStep

\* A page read: the call's own, the next one, or the last one, after which
\* nothing of its own existed when it began.
LEMMA ListNextKeeps ==
    ASSUME MutationsIInv, NEW a \in Askers, ListNext(a)
    PROVE  MutationsIInv'
<1> DEFINE s == asks[a]
<1>0. /\ MutationsTypeOK /\ Alone /\ AskInv(a) /\ s \in AskState /\ s.pc = "list"
      /\ UNCHANGED <<kind, objects, flying, loose>>
      /\ \A n : Existing(n)' = Existing(n)
  BY SameObjects DEF ListNext, MutationsIInv, MutationsTypeOK
<1>1. PICK t \in AskState :
        /\ Ask(a, t) /\ t.marker = s.marker /\ t.known = s.known /\ t.made = s.made
        /\ \/ t.pc = "done" /\ s.page \in Existing(s.marker)
           \/ t.pc = "list" /\ t.page = s.page + 1 /\ s.page \notin Existing(s.marker)
           \/ /\ t.pc = "post" /\ s.page \notin Existing(s.marker)
              /\ ~ (s.page < Len(objects) /\ s.page < MaxListed)
  <2>4. CASE s.page \in Existing(s.marker)
    <3> DEFINE t == [s EXCEPT !.pc = "done"]
    <3>1. Ask(a, t)
      BY <2>4 DEF ListNext
    <3>2. t \in AskState /\ t.pc = "done" /\ t.marker = s.marker /\ t.known = s.known /\ t.made = s.made
      BY <1>0 DEF AskState
    <3> QED  BY <2>4, <3>1, <3>2
  <2>5. CASE s.page \notin Existing(s.marker) /\ s.page < Len(objects) /\ s.page < MaxListed
    <3> DEFINE t == [s EXCEPT !.page = @ + 1]
    <3>1. Ask(a, t)
      BY <2>5 DEF ListNext
    <3>2. /\ t \in AskState /\ t.pc = "list" /\ t.page = s.page + 1 /\ t.marker = s.marker
          /\ t.known = s.known /\ t.made = s.made
      BY <1>0 DEF AskState
    <3> QED  BY <2>5, <3>1, <3>2
  <2>6. CASE s.page \notin Existing(s.marker) /\ ~ (s.page < Len(objects) /\ s.page < MaxListed)
    <3> DEFINE t == [s EXCEPT !.pc = "post"]
    <3>1. Ask(a, t)
      BY <2>6 DEF ListNext
    <3>2. t \in AskState /\ t.pc = "post" /\ t.marker = s.marker /\ t.known = s.known /\ t.made = s.made
      BY <1>0 DEF AskState
    <3> QED  BY <2>6, <3>1, <3>2
  <2> QED  BY <2>4, <2>5, <2>6
<1>2. asks'[a] = t /\ \A b \in Askers \ {a} : asks'[b] = asks[b]
  BY <1>0, <1>1 DEF Ask, MutationsTypeOK
<1>3. /\ s.marker \in Markers /\ s.known \subseteq Existing(s.marker) /\ ~ s.made
      /\ \A k \in s.known : s.page <= k
      /\ s.page \in Nat /\ s.page # 0 /\ MaxListed \in Nat
      /\ Existing(s.marker) \subseteq 1..Len(objects) /\ Len(objects) \in Nat
  BY <1>0, ExistingNumbers, MaxListedAssumption DEF AskInv, KnownExists, Asking, AskState
<1>4. AskInv(a)'
  <2>1. KnownExists(a)'
    BY <1>0, <1>1, <1>2, <1>3 DEF KnownExists
  <2>2. t.pc = "list" => t.page # 0 /\ \A k \in t.known : t.page <= k
    BY <1>1, <1>3
  <2>3. t.pc = "post" => \A k \in t.known : k > MaxListed
    BY <1>1, <1>3
  <2> QED  BY <1>1, <1>2, <1>3, <2>1, <2>2, <2>3 DEF AskInv
<1>5. Alone'
  <2> SUFFICES ASSUME ~ loose PROVE Alone'
    BY <1>0 DEF Alone
  <2>1. /\ flying' = {} /\ \A b \in Askers : Asking(b) => b = a
        /\ Len(objects) <= MaxListed =>
             /\ \A n \in Existing(s.marker) : s.page <= n
             /\ \A n \in Markers : \A i, j \in Existing(n)' : i = j
    BY <1>0 DEF Alone, Asking
  <2>2. \A b \in Askers : Asking(b)' => b = a
    BY <1>2, <2>1 DEF Asking
  <2>3. Len(objects) <= MaxListed /\ t.pc = "list" => \A n \in Existing(t.marker) : t.page <= n
    BY <1>1, <1>3, <2>1
  <2>4. Len(objects) <= MaxListed /\ t.pc = "post" => Existing(t.marker) = {}
    BY <1>1, <1>3, <2>1
  <2>5. Existing(asks[a].marker)' = Existing(t.marker)
    BY <1>0, <1>2 DEF Existing, Matches
  <2> QED  BY <1>0, <1>2, <2>1, <2>2, <2>3, <2>4, <2>5 DEF Alone, Asking
<1> QED  BY <1>0, <1>1, <1>4, <1>5, QuietAskStep DEF MutationsTypeOK

\* A call that ends without an object of its own: it failed, or is over.
LEMMA AskEnds ==
    ASSUME MutationsIInv, NEW a \in Askers, NEW s \in AskState, s.pc \in {"idle", "failed"}, ~ s.made, Ask(a, s),
           UNCHANGED <<kind, objects>>, flying' \subseteq Markers,
           loose' \/ UNCHANGED <<flying, loose>>, loose' \in BOOLEAN
    PROVE  MutationsIInv'
<1>0. MutationsTypeOK /\ Alone /\ \A n : Existing(n)' = Existing(n)
  BY SameObjects DEF MutationsIInv
<1>1. asks'[a] = s /\ \A b \in Askers \ {a} : asks'[b] = asks[b]
  BY <1>0 DEF Ask, MutationsTypeOK
<1>2. AskInv(a)'
  BY <1>1 DEF AskInv, Asking
<1>3. Alone'
  <2> SUFFICES ASSUME ~ loose' PROVE Alone'
    BY DEF Alone
  <2>1. ~ loose /\ flying' = flying
    OBVIOUS
  <2>2. \A b \in Askers : Asking(b)' => b # a /\ Asking(b)
    BY <1>1 DEF Asking
  <2>3. \A b \in Askers \ {a} : Existing(asks[b].marker)' = Existing(asks[b].marker)
    BY <1>0, <1>1 DEF Existing, Matches
  <2> QED  BY <1>0, <1>1, <2>1, <2>2, <2>3 DEF Alone, Asking
<1> QED  BY <1>2, <1>3, QuietAskStep

\* A call makes its object: when it was alone there was none of its own.
LEMMA AskMakes ==
    ASSUME MutationsIInv, NEW a \in Askers, asks[a].pc = "post", Made(asks[a].marker),
           NEW s \in AskState, s.pc \in {"done", "failed"}, s.known = asks[a].known, Ask(a, s),
           UNCHANGED <<kind, flying, loose>>
    PROVE  MutationsIInv'
<1> DEFINE p == asks[a].marker
<1>0. /\ MutationsTypeOK /\ Alone /\ AskInv(a) /\ p \in Markers
      /\ \A k \in asks[a].known : k > MaxListed
  BY DEF MutationsIInv, AskInv, KnownExists, Asking
<1>1. asks' \in [Askers -> AskState] /\ asks'[a] = s /\ \A b \in Askers \ {a} : asks'[b] = asks[b]
  BY <1>0 DEF Ask, MutationsTypeOK
<1>2. \A m \in Markers :
        /\ Existing(m)' = Existing(m) \cup {n \in {Len(objects) + 1} : kind = "pull" \/ p = m}
        /\ objects' \in Seq([marker : Markers \cup {"none"}, open : BOOLEAN])
  BY <1>0, MadeExisting
<1> HIDE DEF p
<1>7. Len(objects') = Len(objects) + 1 /\ Len(objects) \in Nat /\ MaxListed \in Nat
  <2> DEFINE S == [marker : Markers \cup {"none"}, open : BOOLEAN]
  <2>1. objects \in Seq(S) /\ [marker |-> p, open |-> TRUE] \in S
    BY <1>0 DEF MutationsTypeOK
  <2> HIDE DEF S
  <2>2. Len(objects') = Len(objects) + 1
    BY <2>1, AppendProperties DEF Made, p
  <2> QED  BY <2>1, <2>2, MaxListedAssumption
<1>3. ObjectsGrow
  BY <1>2 DEF ObjectsGrow
<1>4. \A b \in Askers : AskInv(b)'
  <2>1. AskInv(a)'
    BY <1>0, <1>1 DEF AskInv, Asking
  <2> QED  BY <1>1, <1>3, <2>1, AskKept
<1>5. Alone'
  <2> SUFFICES ASSUME ~ loose PROVE Alone'
    BY DEF Alone
  <2>1. flying' = {} /\ \A b \in Askers : ~ Asking(b)'
    BY <1>0, <1>1 DEF Alone, Asking
  <2>2. Len(objects') <= MaxListed =>
          Existing(p) = {} /\ \A m \in Markers : \A i, j \in Existing(m) : i = j
    <3>1. Len(objects') <= MaxListed => Len(objects) <= MaxListed
      BY <1>7
    <3> QED  BY <1>0, <3>1 DEF Alone, p
  <2>3. Existing(p) = {} /\ kind = "pull" => \A m \in Markers : Existing(m) = {}
    BY <1>0, ExistingNumbers
  <2>4. Len(objects') <= MaxListed => \A m \in Markers : \A i, j \in Existing(m)' : i = j
    BY <1>2, <2>2, <2>3
  <2> QED  BY <2>1, <2>4 DEF Alone, Asking
<1>6. MutationsTypeOK'
  BY <1>0, <1>1, <1>2 DEF MutationsTypeOK
<1> QED  BY <1>4, <1>5, <1>6 DEF MutationsIInv

\* A step of nobody's: an abandoned request is applied, or a pull request is
\* closed.
LEMMA OthersStep ==
    ASSUME MutationsIInv, (\E m \in Markers : LateApply(m)) \/ (\E n \in 1..MaxObjects : ClosePull(n))
    PROVE  MutationsIInv'
<1>0. MutationsTypeOK /\ Alone /\ UNCHANGED <<kind, asks, loose>>
  BY DEF MutationsIInv, LateApply, ClosePull
<1>1. ASSUME NEW m \in Markers, LateApply(m)
      PROVE  MutationsIInv'
  <2>1. loose /\ flying' \subseteq Markers
    BY <1>0, <1>1 DEF LateApply, Alone, MutationsTypeOK
  <2>2. ObjectsGrow /\ objects' \in Seq([marker : Markers \cup {"none"}, open : BOOLEAN])
    <3>1. CASE UNCHANGED objects
      BY <1>0, <3>1, SameObjects DEF MutationsTypeOK
    <3>2. CASE Made(m)
      <4>1. objects' \in Seq([marker : Markers \cup {"none"}, open : BOOLEAN])
        BY <1>0, <1>1, <3>2, MadeExisting
      <4>2. \A n \in Markers :
              Existing(n)' = Existing(n) \cup {k \in {Len(objects) + 1} : kind = "pull" \/ m = n}
        BY <1>0, <1>1, <3>2, MadeExisting
      <4> QED  BY <4>1, <4>2 DEF ObjectsGrow
    <3> QED  BY <1>1, <3>1, <3>2 DEF LateApply
  <2>3. \A b \in Askers : AskInv(b)'
    BY <1>0, <2>2, AskKept
  <2> QED  BY <1>0, <2>1, <2>2, <2>3 DEF MutationsIInv, MutationsTypeOK, Alone
<1>2. ASSUME NEW n \in 1..MaxObjects, ClosePull(n)
      PROVE  MutationsIInv'
  <2> DEFINE S == [marker : Markers \cup {"none"}, open : BOOLEAN]
  <2>1. n \in DOMAIN objects /\ kind = "pull" /\ UNCHANGED flying
        /\ objects' = [objects EXCEPT ![n].open = FALSE] /\ objects \in Seq(S)
    BY <1>0, <1>2 DEF ClosePull, MutationsTypeOK
  <2>2. [objects[n] EXCEPT !.open = FALSE] \in S
    <3>1. objects[n] \in S
      <4> HIDE DEF S
      <4> QED  BY <2>1
    <3> QED  BY <3>1
  <2>3. objects' \in Seq(S) /\ DOMAIN objects' = DOMAIN objects /\ Len(objects') = Len(objects)
    <3> HIDE DEF S
    <3>1. objects' = [objects EXCEPT ![n] = [objects[n] EXCEPT !.open = FALSE]]
      BY <2>1
    <3>2. n \in 1..Len(objects)
      BY <2>1
    <3>3. objects' \in Seq(S) /\ Len(objects') = Len(objects)
      BY <2>1, <2>2, <3>1, <3>2, ExceptSeq
    <3> QED  BY <2>1, <3>3
  <2>4. \A m : Existing(m)' = Existing(m)
    BY <1>0, <2>1, <2>3 DEF Existing, Matches
  <2>5. ObjectsGrow
    BY <2>4 DEF ObjectsGrow
  <2>6. \A b \in Askers : AskInv(b)'
    BY <1>0, <2>5, AskKept
  <2>7. Alone'
    <3>1. \A b \in Askers : Existing(asks[b].marker)' = Existing(asks[b].marker)
      BY <1>0, <2>4
    <3> QED  BY <1>0, <2>1, <2>3, <2>4, <3>1 DEF Alone, Asking
  <2> QED  BY <1>0, <2>1, <2>3, <2>6, <2>7 DEF MutationsIInv, MutationsTypeOK
<1> QED  BY <1>1, <1>2

\* One step of a call.
LEMMA CallStep ==
    ASSUME MutationsIInv, NEW a \in Askers, PostObject(a) \/ RequestLost(a) \/ NextAsk(a)
    PROVE  MutationsIInv'
<1> DEFINE s == asks[a]
<1>0. /\ MutationsTypeOK /\ s \in AskState /\ flying \subseteq Markers /\ loose \in BOOLEAN
      /\ Asking(a) => s.marker \in Markers /\ ~ s.made
  BY DEF MutationsIInv, MutationsTypeOK, AskInv, KnownExists
<1>1. /\ [s EXCEPT !.pc = "failed"] \in AskState /\ [s EXCEPT !.pc = "failed"].pc = "failed"
      /\ [s EXCEPT !.pc = "failed"].known = s.known /\ [s EXCEPT !.pc = "failed"].made = s.made
  BY <1>0 DEF AskState
<1>2. CASE PostObject(a)
  <2>1. CASE Ask(a, [s EXCEPT !.pc = "failed"]) /\ UNCHANGED objects
    BY <1>0, <1>1, <1>2, <2>1, AskEnds DEF PostObject, Asking
  <2>2. CASE Made(s.marker) /\ Ask(a, [s EXCEPT !.pc = "done", !.made = TRUE])
    <3> DEFINE t == [s EXCEPT !.pc = "done", !.made = TRUE]
    <3>1. t \in AskState /\ t.pc = "done" /\ t.known = s.known
      BY <1>0 DEF AskState
    <3> QED  BY <1>2, <2>2, <3>1, AskMakes DEF PostObject
  <2> QED  BY <1>2, <2>1, <2>2 DEF PostObject
<1>3. CASE RequestLost(a)
  <2>1. /\ s.pc \in {"list", "post"} /\ Ask(a, [s EXCEPT !.pc = "failed"]) /\ UNCHANGED kind
        /\ \/ UNCHANGED <<objects, flying, loose>>
           \/ s.pc = "post" /\ Made(s.marker) /\ UNCHANGED <<flying, loose>>
           \/ flying' = flying \cup {s.marker} /\ loose' = TRUE /\ UNCHANGED objects
    BY <1>3 DEF RequestLost
  <2>2. CASE UNCHANGED <<objects, flying, loose>>
    BY <1>0, <1>1, <2>1, <2>2, AskEnds DEF Asking
  <2>3. CASE s.pc = "post" /\ Made(s.marker) /\ UNCHANGED <<flying, loose>>
    BY <1>1, <2>1, <2>3, AskMakes
  <2>4. CASE flying' = flying \cup {s.marker} /\ loose' = TRUE /\ UNCHANGED objects
    <3>1. flying' \subseteq Markers
      BY <1>0, <2>1, <2>4 DEF Asking
    <3> QED  BY <1>0, <1>1, <2>1, <2>4, <3>1, AskEnds DEF Asking
  <2> QED  BY <2>1, <2>2, <2>3, <2>4
<1>4. CASE NextAsk(a)
  <2>1. NoAsk \in AskState /\ NoAsk.pc = "idle" /\ ~ NoAsk.made
    BY DEF NoAsk, AskState
  <2> QED  BY <1>0, <1>4, <2>1, AskEnds DEF NextAsk
<1> QED  BY <1>2, <1>3, <1>4

\* The calls' invariant.
LEMMA MutationsInductive == MutationsSpec => []MutationsIInv
<1>1. MutationsInit => MutationsIInv
  <2> SUFFICES ASSUME MutationsInit PROVE MutationsIInv
    OBVIOUS
  <2>1. NoAsk \in AskState /\ NoAsk.pc = "idle" /\ ~ NoAsk.made
    BY DEF NoAsk, AskState
  <2>2. MutationsTypeOK /\ \A a \in Askers : asks[a].pc = "idle" /\ ~ asks[a].made
    <3>1. asks \in [Askers -> AskState] /\ \A a \in Askers : asks[a].pc = "idle" /\ ~ asks[a].made
      BY <2>1 DEF MutationsInit
    <3>2. objects \in Seq([marker : Markers \cup {"none"}, open : BOOLEAN])
      BY DEF MutationsInit
    <3> QED  BY <3>1, <3>2 DEF MutationsInit, MutationsTypeOK
  <2>3. \A m : Existing(m) = {}
    BY DEF MutationsInit, Existing
  <2> QED  BY <2>2, <2>3 DEF MutationsInit, MutationsIInv, AskInv, Alone, Asking
<1>2. MutationsIInv /\ [MutationsNext]_mutationVars => MutationsIInv'
  <2> SUFFICES ASSUME MutationsIInv, [MutationsNext]_mutationVars
               PROVE  MutationsIInv'
    OBVIOUS
  <2>1. CASE UNCHANGED mutationVars
    <3>1. UNCHANGED <<kind, objects, asks, flying, loose>>
      BY <2>1 DEF mutationVars
    <3> QED  BY <3>1 DEF MutationsIInv, MutationsTypeOK, AskInv, Alone, Asking, KnownExists,
                         Existing, Matches
  <2> QED  BY <2>1, BeginAskKeeps, ListNextKeeps, CallStep, OthersStep DEF MutationsNext
<1> QED  BY <1>1, <1>2, PTL DEF MutationsSpec

(***************************************************************************)
(* A call of the GitHub plugin makes nothing when what it is to ensure     *)
(* existed as it began, among what a listing reads.                        *)
(***************************************************************************)
THEOREM ExistingIsReusedInvariant == MutationsSpec => []ExistingIsReused
<1>1. MutationsIInv => ExistingIsReused
  BY MaxListedAssumption DEF MutationsIInv, AskInv, ExistingIsReused
<1> QED  BY <1>1, MutationsInductive, PTL

(***************************************************************************)
(* However many calls retry one after the other, and however many answers  *)
(* are lost, there is one comment of a node and one pull request of a      *)
(* branch, while there are no more of them than a listing reads.           *)
(***************************************************************************)
THEOREM RetriesMakeOneInvariant == MutationsSpec => []RetriesMakeOne
<1>1. ASSUME NEW S, \A i, j \in S : i = j
      PROVE  Cardinality(S) <= 1
  <2>1. CASE S = {}
    BY <2>1, FS_EmptySet
  <2>2. CASE S # {}
    <3>1. PICK x \in S : S = {x}
      BY <1>1, <2>2
    <3> QED  BY <3>1, FS_Singleton
  <2> QED  BY <2>1, <2>2
<1>2. MutationsIInv => RetriesMakeOne
  BY <1>1 DEF MutationsIInv, Alone, RetriesMakeOne
<1> QED  BY <1>2, MutationsInductive, PTL

-----------------------------------------------------------------------------
(***************************************************************************)
(* Watches.  Below the newest of what a poll has found, everything kept is *)
(* found too or still to come: on a later page, since the place of an      *)
(* event, and of a pull request that is not updated, only grows, or in a   *)
(* pull request not read yet.  So what is left to send has no gap, and     *)
(* each event sent is the first one kept beyond the position.              *)
(***************************************************************************)
Event == [number : Nat \ {0}, second : Nat \ {0}, pull : Pulls,
          how : {"good", "malformed", "refused"}]
Positions == [second : Nat, number : Nat]
PollState == [pc : {"off", "wait", "list", "send"}, cursor : Positions, fence : Nat,
              left : SUBSET Pulls, page : Nat, found : SUBSET Event, queue : SUBSET Event]

\* The pull requests have places below their number, and a review is of one.
Listing ==
    /\ DOMAIN listed \subseteq Pulls /\ IsFiniteSet(DOMAIN listed)
    /\ \A q \in DOMAIN listed : listed[q] \in Nat /\ listed[q] < Cardinality(DOMAIN listed)
    /\ source = "reviews" => \A e \in posted : e.pull \in DOMAIN listed

WatchTypeOK ==
    /\ source \in {"issues", "reviews"} /\ second \in Nat \ {0}
    /\ posted \subseteq Event /\ IsFiniteSet(posted) /\ due \subseteq posted
    /\ poll \in PollState /\ poll.found \subseteq posted /\ poll.queue \subseteq posted
    /\ durable \in [cursor : Positions, receipts : SUBSET Event, activated : Nat]

\* Numbers are given once; the position is that of an event, or none.
Numbering ==
    /\ \A e, f \in posted : e.number = f.number => e = f
    /\ durable.cursor = NoPosition \/ \E c \in posted : durable.cursor = Position(c)

\* The activation is never further ahead than the overlap.
Activation ==
    /\ durable.activated <= second + Overlap
    /\ durable.activated = 0 => durable.cursor = NoPosition

Recent(e) == durable.activated # 0 /\ e.second + Overlap >= durable.activated

\* What may not be passed over.
Kept == {e \in posted : IF source = "issues" THEN Recent(e) /\ Place(e) < MaxPages * PageSize
                        ELSE e \in due}

New(e) == After(Position(e), durable.cursor)

NothingLost == \A e \in Kept : New(e) \/ e \in durable.receipts

StreamFollows ==
    poll.pc # "off" =>
        /\ poll.cursor = durable.cursor /\ durable.activated # 0
        /\ poll.fence \in {0, durable.activated}
        /\ \A e \in poll.found : poll.pc = "list" => New(e)
        /\ \A e \in poll.queue : poll.pc = "send" => New(e)

PagesToCome ==
    poll.pc = "list" /\ source = "issues" =>
        /\ poll.page <= MaxPages
        /\ \A f \in poll.found, e \in Kept :
              New(e) /\ e.number <= f.number =>
                 e \in poll.found \/ (poll.page # 0 /\ (poll.page - 1) * PageSize <= Place(e))

PullsToCome ==
    poll.pc = "list" /\ source = "reviews" =>
        \A e \in due :
            /\ poll.fence # 0 => e.second + Overlap >= poll.fence
            /\ New(e) => \/ e \in poll.found \/ e.pull \in poll.left
                         \/ poll.page # 0 /\ (poll.page - 1) * PageSize <= listed[e.pull]

QueueHasNoGap ==
    poll.pc = "send" =>
        \A f \in poll.queue, e \in Kept :
            New(e) /\ ~ After(Position(e), Position(f)) => e \in poll.queue

WatchIInv ==
    /\ WatchTypeOK /\ Listing /\ Numbering /\ Activation /\ NothingLost
    /\ StreamFollows /\ PagesToCome /\ PullsToCome /\ QueueHasNoGap

\* Positions are ordered, and totally where numbers differ.
LEMMA AfterOrder ==
    ASSUME NEW p \in Positions, NEW q \in Positions, NEW r \in Positions
    PROVE  /\ ~ After(p, p)
           /\ After(p, q) /\ After(q, r) => After(p, r)
           /\ p.number # q.number => After(p, q) \/ After(q, p)
           /\ source = "issues" => (After(p, q) <=> p.number > q.number)
BY DEF After, Positions

\* The position of an event.
LEMMA EventPosition ==
    ASSUME NEW e \in Event
    PROVE  /\ Position(e) \in Positions /\ Position(e).number = e.number
           /\ Position(e).second = e.second /\ After(Position(e), NoPosition)
           /\ e.number \in Nat \ {0} /\ e.second \in Nat \ {0}
BY DEF Event, Position, Positions, After, NoPosition

\* Places are numbers below that of the events; an older event is not before
\* a newer one.
LEMMA PlaceBounds ==
    ASSUME WatchTypeOK, NEW e \in posted
    PROVE  /\ Place(e) \in Nat /\ Place(e) < Cardinality(posted) /\ Cardinality(posted) \in Nat
           /\ \A f \in posted : e.number <= f.number => Place(f) <= Place(e)
<1> DEFINE N(x) == {f \in posted : f.number > x.number}
<1>0. posted \subseteq Event /\ IsFiniteSet(posted) /\ \A x \in posted : x.number \in Nat
  BY EventPosition DEF WatchTypeOK
<1>1. N(e) \subseteq posted \ {e}
  BY <1>0
<1>2. /\ IsFiniteSet(posted \ {e}) /\ Cardinality(posted \ {e}) = Cardinality(posted) - 1
      /\ Cardinality(posted) \in Nat
  BY <1>0, FS_RemoveElement, FS_CardinalityType
<1>3. IsFiniteSet(N(e)) /\ Cardinality(N(e)) <= Cardinality(posted \ {e}) /\ Cardinality(N(e)) \in Nat
  <2> HIDE DEF N
  <2> QED  BY <1>1, <1>2, FS_Subset, FS_CardinalityType
<1>4. ASSUME NEW f \in posted, e.number <= f.number
      PROVE  Cardinality(N(f)) <= Cardinality(N(e))
  <2>1. N(f) \subseteq N(e)
    BY <1>0, <1>4
  <2> HIDE DEF N
  <2> QED  BY <1>3, <2>1, FS_Subset
<1> HIDE DEF N
<1>5. \A x : Place(x) = Cardinality(N(x))
  BY DEF Place, N
<1> QED  BY <1>2, <1>3, <1>4, <1>5

\* An event that happens moves the others back.
LEMMA PlaceGrows ==
    ASSUME WatchTypeOK, NEW x, posted' = posted \cup {x}, NEW e \in posted
    PROVE  Place(e) <= Place(e)' /\ IsFiniteSet(posted') /\ Place(e)' \in Nat
<1> DEFINE N == {f \in posted : f.number > e.number}
           M == {f \in posted \cup {x} : f.number > e.number}
<1>1. IsFiniteSet(posted \cup {x})
  BY FS_AddElement DEF WatchTypeOK
<1>2. N \subseteq M /\ M \subseteq posted \cup {x}
  OBVIOUS
<1> HIDE DEF N, M
<1>3. IsFiniteSet(M) /\ Cardinality(M) \in Nat /\ Cardinality(N) <= Cardinality(M)
  BY <1>1, <1>2, FS_Subset, FS_CardinalityType
<1> QED  BY <1>1, <1>3 DEF Place, N, M

\* What is kept, as a step leaves it that posts nothing and activates nothing.
LEMMA SameKept ==
    ASSUME UNCHANGED <<source, posted, due, durable>>
    PROVE  Kept' = Kept /\ \A e : New(e)' = New(e)
BY DEF Kept, Recent, Place, New, After, Position

\* Something kept and new is wanted by the poll that lists.
LEMMA KeptIsWanted ==
    ASSUME WatchIInv, poll.pc = "list", NEW e \in Kept, New(e)
    PROVE  Wanted(e)
<1>1. poll.cursor = durable.cursor /\ poll.fence \in {0, durable.activated}
      /\ source \in {"issues", "reviews"}
  BY DEF WatchIInv, StreamFollows, WatchTypeOK
<1>2. source = "issues" => e.second + Overlap >= durable.activated
  BY DEF Kept, Recent
<1>3. source = "reviews" => (poll.fence # 0 => e.second + Overlap >= poll.fence)
  BY DEF WatchIInv, PullsToCome, Kept
<1> QED  BY <1>1, <1>2, <1>3 DEF Wanted, New

\* A poll that takes a step of its own, without a delivery.
LEMMA PollMoves ==
    ASSUME WatchIInv, UNCHANGED <<source, posted, listed, second, durable, due>>,
           poll' \in PollState, poll'.found \subseteq posted, poll'.queue \subseteq posted,
           StreamFollows', PagesToCome', PullsToCome', QueueHasNoGap'
    PROVE  WatchIInv'
<1>1. WatchTypeOK' /\ Listing' /\ Numbering' /\ Activation'
  BY DEF WatchIInv, WatchTypeOK, Listing, Numbering, Activation, Position
<1>2. NothingLost'
  BY SameKept DEF WatchIInv, NothingLost
<1> QED  BY <1>1, <1>2 DEF WatchIInv

\* Nothing is asked of a stream that waits or is off, however its poll ended.
LEMMA RestKeeps ==
    ASSUME WatchIInv, UNCHANGED <<source, posted, listed, second, durable, due>>, poll.pc # "off",
           poll' \in {Off, [poll EXCEPT !.pc = "wait"]}
    PROVE  WatchIInv'
<1>0. WatchTypeOK /\ StreamFollows /\ (\A e : New(e)' = New(e)) /\ poll \in PollState
  BY SameKept DEF WatchIInv, WatchTypeOK
<1>1. Off \in PollState /\ Off.pc = "off" /\ Off.found = {} /\ Off.queue = {}
  BY DEF Off, NoPosition, PollState, Positions
<1>2. CASE poll' = Off
  BY <1>0, <1>1, <1>2, PollMoves DEF StreamFollows, PagesToCome, PullsToCome, QueueHasNoGap
<1>3. CASE poll' = [poll EXCEPT !.pc = "wait"]
  <2>1. /\ poll' \in PollState /\ poll'.pc = "wait" /\ poll'.found = poll.found
        /\ poll'.queue = poll.queue /\ poll'.cursor = poll.cursor /\ poll'.fence = poll.fence
    BY <1>0, <1>3 DEF PollState
  <2>2. StreamFollows'
    BY <1>0, <2>1 DEF StreamFollows
  <2> QED  BY <1>0, <2>1, <2>2, PollMoves
           DEF PagesToCome, PullsToCome, QueueHasNoGap, WatchTypeOK
<1> QED  BY <1>2, <1>3

\* A failed request, a malformed event, a refusal, too many pull requests, and
\* the end of a poll.
LEMMA PollEndsKeeps ==
    ASSUME WatchIInv,
           WatchBreaks \/ EndPoll \/ PullsExhausted \/ \E e \in poll.queue : Refuse(e)
    PROVE  WatchIInv'
BY RestKeeps DEF WatchBreaks, EndPoll, PullsExhausted, Refuse

\* A poll begins with everything to come.
LEMMA BeginKeeps ==
    ASSUME WatchIInv, BeginPoll
    PROVE  WatchIInv'
<1>0. /\ UNCHANGED <<source, posted, listed, second, durable>> /\ WatchTypeOK /\ StreamFollows
      /\ poll.pc = "wait" /\ poll \in PollState /\ Listing /\ Numbering /\ Activation
      /\ poll' = [poll EXCEPT !.pc = "list", !.left = {}, !.page = 1, !.found = {}]
      /\ due' = {e \in posted : source = "reviews" /\ Wanted(e)}
      /\ source \in {"issues", "reviews"}
  BY DEF BeginPoll, WatchIInv, WatchTypeOK
<1>1. /\ poll' \in PollState /\ poll'.pc = "list" /\ poll'.left = {} /\ poll'.page = 1
      /\ poll'.found = {} /\ poll'.queue = poll.queue /\ poll'.cursor = poll.cursor
      /\ poll'.fence = poll.fence
  BY <1>0 DEF PollState
<1>2. \A e : New(e)' = New(e)
  BY <1>0 DEF New, After, Position
<1>3. \A e \in due' : New(e) /\ (poll.fence # 0 => e.second + Overlap >= poll.fence) /\ e \in posted
  BY <1>0 DEF Wanted, New, StreamFollows
<1>4. WatchTypeOK' /\ Listing' /\ Numbering' /\ Activation'
  BY <1>0, <1>1, <1>3 DEF WatchTypeOK, Listing, Numbering, Activation, Position
<1>5. StreamFollows' /\ QueueHasNoGap'
  BY <1>0, <1>1 DEF StreamFollows, QueueHasNoGap
<1>6. PagesToCome'
  BY <1>1, WatchAssumption DEF PagesToCome
<1>7. PullsToCome'
  <2>1. \A e \in posted : source = "reviews" => 0 <= listed[e.pull]
    BY <1>0 DEF Listing
  <2>2. (1 - 1) * PageSize = 0
    BY WatchAssumption
  <2> QED  BY <1>0, <1>1, <1>2, <1>3, <2>1, <2>2 DEF PullsToCome
<1>8. NothingLost'
  <2>1. CASE source = "issues"
    <3>1. Kept' = Kept
      BY <1>0, <2>1 DEF Kept, Recent, Place
    <3> QED  BY <1>0, <1>2, <3>1 DEF WatchIInv, NothingLost
  <2>2. CASE source = "reviews"
    BY <1>0, <1>2, <1>3, <2>2 DEF NothingLost, Kept
  <2> QED  BY <1>0, <2>1, <2>2
<1> QED  BY <1>4, <1>5, <1>6, <1>7, <1>8 DEF WatchIInv

\* A page of the pull requests is read: what is due of its pull requests is to
\* be read next, the rest comes after it, and nothing comes after the last.
LEMMA ReadPullsKeeps ==
    ASSUME WatchIInv, ReadPulls
    PROVE  WatchIInv'
<1> DEFINE from == (poll.page - 1) * PageSize
           to == poll.page * PageSize
           L == {p \in DOMAIN listed : from <= listed[p] /\ listed[p] < to}
           next == IF to < Cardinality(DOMAIN listed) THEN poll.page + 1 ELSE 0
<1>0. /\ UNCHANGED <<source, posted, listed, second, durable, due>> /\ WatchTypeOK /\ StreamFollows
      /\ poll.pc = "list" /\ poll \in PollState /\ source = "reviews" /\ poll.left = {}
      /\ poll.page \in 1..MaxPages /\ poll' = [poll EXCEPT !.left = L, !.page = next]
      /\ Kept' = Kept /\ (\A e : New(e)' = New(e)) /\ PullsToCome /\ Listing
  BY SameKept DEF ReadPulls, WatchIInv, WatchTypeOK
<1>1. /\ poll.page \in Nat \ {0} /\ PageSize \in Nat /\ from \in Nat /\ to \in Nat
      /\ poll.page + 1 \in Nat /\ (poll.page + 1) - 1 = poll.page
  <2>1. poll.page \in Nat \ {0} /\ PageSize \in Nat
    BY <1>0, WatchAssumption
  <2>2. poll.page - 1 \in Nat
    BY <2>1
  <2> QED  BY <2>1, <2>2
<1>2. L \subseteq Pulls /\ next \in Nat /\ (next # 0 => (next - 1) * PageSize = to)
  BY <1>0, <1>1 DEF Listing
<1>3. ASSUME NEW e \in due, New(e), e \notin poll.found
      PROVE  e.pull \in L \/ (next # 0 /\ to <= listed[e.pull])
  <2>1. /\ e.pull \in DOMAIN listed /\ listed[e.pull] \in Nat
        /\ listed[e.pull] < Cardinality(DOMAIN listed) /\ Cardinality(DOMAIN listed) \in Nat
    BY <1>0, FS_CardinalityType DEF Listing, WatchTypeOK
  <2>2. from <= listed[e.pull]
    BY <1>0, <1>3 DEF PullsToCome
  <2>3. CASE listed[e.pull] < to
    BY <2>1, <2>2, <2>3
  <2>4. CASE to <= listed[e.pull]
    <3>1. to < Cardinality(DOMAIN listed)
      BY <1>1, <2>1, <2>4
    <3> QED  BY <1>1, <2>4, <3>1
  <2> QED  BY <1>1, <2>1, <2>3, <2>4
<1> HIDE DEF L, from, to, next
<1>4. /\ poll' \in PollState /\ poll'.pc = "list" /\ poll'.left = L /\ poll'.page = next
      /\ poll'.found = poll.found /\ poll'.queue = poll.queue /\ poll'.cursor = poll.cursor
      /\ poll'.fence = poll.fence
  BY <1>0, <1>2 DEF PollState
<1>5. StreamFollows' /\ QueueHasNoGap' /\ PagesToCome'
  BY <1>0, <1>4 DEF StreamFollows, QueueHasNoGap, PagesToCome
<1>6. PullsToCome'
  BY <1>0, <1>2, <1>3, <1>4 DEF PullsToCome
<1> QED  BY <1>0, <1>4, <1>5, <1>6, PollMoves DEF WatchTypeOK

\* Reviews of a pull request are read: what is due of it is found.
LEMMA ReadReviewsKeeps ==
    ASSUME WatchIInv, NEW p \in Pulls, ReadReviews(p)
    PROVE  WatchIInv'
<1> DEFINE R == {e \in posted : e.pull = p}
           F == {e \in R : Wanted(e)}
<1>0. /\ UNCHANGED <<source, posted, listed, second, durable, due>> /\ WatchTypeOK /\ StreamFollows
      /\ poll.pc = "list" /\ poll \in PollState /\ source = "reviews"
      /\ poll' = Off \/ poll' = [poll EXCEPT !.left = @ \ {p}, !.found = @ \cup F]
      /\ Kept' = Kept /\ (\A e : New(e)' = New(e)) /\ PullsToCome
  BY SameKept DEF ReadReviews, WatchIInv, WatchTypeOK
<1>1. F \subseteq posted /\ posted \subseteq Event /\ \A e \in F : New(e)
  BY <1>0 DEF Wanted, New, StreamFollows, WatchTypeOK
<1>2. ASSUME NEW e \in due, New(e), e.pull = p
      PROVE  e \in F
  <2>1. e \in posted /\ e \in Kept
    BY <1>0 DEF Kept, WatchTypeOK
  <2> QED  BY <1>0, <1>2, <2>1, KeptIsWanted
<1>3. CASE poll' = Off
  BY <1>0, <1>3, RestKeeps
<1>4. CASE poll' = [poll EXCEPT !.left = @ \ {p}, !.found = @ \cup F]
  <2> HIDE DEF F
  <2>1. /\ poll' \in PollState /\ poll'.pc = "list" /\ poll'.left = poll.left \ {p}
        /\ poll'.found = poll.found \cup F /\ poll'.queue = poll.queue /\ poll'.cursor = poll.cursor
        /\ poll'.fence = poll.fence /\ poll'.page = poll.page
    BY <1>0, <1>1, <1>4 DEF PollState
  <2>2. StreamFollows' /\ QueueHasNoGap' /\ PagesToCome'
    BY <1>0, <1>1, <2>1 DEF StreamFollows, QueueHasNoGap, PagesToCome
  <2>3. PullsToCome'
    BY <1>0, <1>2, <2>1 DEF PullsToCome
  <2> QED  BY <1>0, <1>1, <2>1, <2>2, <2>3, PollMoves DEF WatchTypeOK
<1> QED  BY <1>0, <1>3, <1>4

\* A page is read: what is kept of it is found, the rest comes after it, and
\* nothing kept comes after the last.
LEMMA ReadPageKeeps ==
    ASSUME WatchIInv, ReadPage
    PROVE  WatchIInv'
<1> DEFINE from == (poll.page - 1) * PageSize
           to == poll.page * PageSize
           F == {e \in posted : from <= Place(e) /\ Place(e) < to /\ Wanted(e)}
           next == IF to < Cardinality(posted) /\ poll.page < MaxPages THEN poll.page + 1 ELSE 0
<1>0. /\ UNCHANGED <<source, posted, listed, second, durable, due>> /\ WatchTypeOK /\ StreamFollows
      /\ poll.pc = "list" /\ poll \in PollState /\ source = "issues" /\ poll.page # 0
      /\ poll' = Off \/ poll' = [poll EXCEPT !.found = @ \cup F, !.page = next]
      /\ Kept' = Kept /\ (\A e : New(e)' = New(e)) /\ (\A e : Place(e)' = Place(e)) /\ PagesToCome
  BY SameKept DEF ReadPage, WatchIInv, WatchTypeOK, Place
<1>1. F \subseteq posted /\ posted \subseteq Event /\ \A e \in F : New(e)
  BY <1>0 DEF Wanted, New, StreamFollows, WatchTypeOK
<1>2. /\ poll.page \in Nat /\ poll.page <= MaxPages /\ PageSize \in Nat /\ MaxPages \in Nat
      /\ from \in Nat /\ to \in Nat /\ MaxPages * PageSize \in Nat
      /\ next # 0 => (next - 1) * PageSize = to /\ next <= MaxPages
      /\ next \in Nat
  <2>1. poll.page \in Nat /\ poll.page <= MaxPages /\ PageSize \in Nat /\ MaxPages \in Nat
    BY <1>0, WatchAssumption DEF PagesToCome, PollState
  <2>2. poll.page - 1 \in Nat /\ (poll.page + 1) - 1 = poll.page /\ poll.page + 1 \in Nat
    BY <1>0, <2>1
  <2>3. from \in Nat /\ to \in Nat /\ MaxPages * PageSize \in Nat
    BY <2>1, <2>2
  <2>4. CASE to < Cardinality(posted) /\ poll.page < MaxPages
    BY <2>1, <2>2, <2>3, <2>4
  <2>5. CASE ~ (to < Cardinality(posted) /\ poll.page < MaxPages)
    BY <2>1, <2>2, <2>3, <2>5
  <2> QED  BY <2>4, <2>5
<1>3. ASSUME NEW e \in Kept, New(e), from <= Place(e)
      PROVE  e \in F \/ (next # 0 /\ to <= Place(e))
  <2>1. e \in posted /\ Place(e) \in Nat /\ Place(e) < Cardinality(posted) /\ Cardinality(posted) \in Nat
        /\ Place(e) < MaxPages * PageSize
    BY <1>0, PlaceBounds DEF Kept
  <2>2. CASE Place(e) < to
    BY <1>0, <1>3, <2>1, <2>2, KeptIsWanted
  <2>3. CASE to <= Place(e)
    <3>1. poll.page # MaxPages
      BY <2>1, <2>3, <1>2
    <3>2. to < Cardinality(posted) /\ poll.page < MaxPages
      BY <1>2, <2>1, <2>3, <3>1
    <3> QED  BY <1>2, <2>3, <3>2
  <2> QED  BY <1>2, <2>1, <2>2, <2>3
<1>4. ASSUME NEW f \in poll.found \cup F, NEW e \in Kept, New(e), e.number <= f.number
      PROVE  e \in poll.found \/ from <= Place(e)
  <2>1. CASE f \in poll.found
    BY <1>0, <1>4, <2>1 DEF PagesToCome
  <2>2. CASE f \in F
    <3>1. e \in posted /\ f \in posted /\ Place(f) <= Place(e) /\ from <= Place(f)
          /\ Place(e) \in Nat /\ Place(f) \in Nat
      BY <1>0, <1>4, <2>2, PlaceBounds DEF Kept
    <3> QED  BY <1>2, <3>1
  <2> QED  BY <1>4, <2>1, <2>2
<1>5. CASE poll' = Off
  BY <1>0, <1>5, RestKeeps
<1>6. CASE poll' = [poll EXCEPT !.found = @ \cup F, !.page = next]
  <2> HIDE DEF F, from, to, next
  <2>1. /\ poll' \in PollState /\ poll'.pc = "list" /\ poll'.page = next
        /\ poll'.found = poll.found \cup F /\ poll'.queue = poll.queue /\ poll'.cursor = poll.cursor
        /\ poll'.fence = poll.fence
    BY <1>0, <1>1, <1>2, <1>6 DEF PollState
  <2>2. StreamFollows' /\ QueueHasNoGap' /\ PullsToCome'
    BY <1>0, <1>1, <2>1 DEF StreamFollows, QueueHasNoGap, PullsToCome
  <2>3. PagesToCome'
    <3> SUFFICES ASSUME NEW f \in poll'.found, NEW e \in Kept, New(e), e.number <= f.number
                 PROVE  e \in poll'.found \/ (next # 0 /\ (next - 1) * PageSize <= Place(e))
      BY <1>0, <1>2, <2>1 DEF PagesToCome
    <3> QED  BY <1>2, <1>3, <1>4, <2>1
  <2> QED  BY <1>0, <1>1, <2>1, <2>2, <2>3, PollMoves DEF WatchTypeOK
<1> QED  BY <1>0, <1>5, <1>6

\* Nothing is to come any more: what was found has no gap.
LEMMA SortFoundKeeps ==
    ASSUME WatchIInv, SortFound
    PROVE  WatchIInv'
<1>0. /\ UNCHANGED <<source, posted, listed, second, durable, due>> /\ WatchTypeOK /\ StreamFollows
      /\ poll.pc = "list" /\ poll \in PollState /\ source \in {"issues", "reviews"}
      /\ poll.page = 0 /\ poll.left = {}
      /\ poll' = [poll EXCEPT !.pc = "send", !.found = {}, !.queue = poll.found]
      /\ Kept' = Kept /\ (\A e : New(e)' = New(e)) /\ PagesToCome /\ PullsToCome
  BY SameKept DEF SortFound, WatchIInv, WatchTypeOK
<1>1. /\ poll' \in PollState /\ poll'.pc = "send" /\ poll'.found = {} /\ poll'.queue = poll.found
      /\ poll'.cursor = poll.cursor /\ poll'.fence = poll.fence
  BY <1>0 DEF PollState
<1>2. StreamFollows' /\ PagesToCome' /\ PullsToCome'
  BY <1>0, <1>1 DEF StreamFollows, PagesToCome, PullsToCome
<1>3. ASSUME NEW f \in poll.found, NEW e \in Kept, New(e), ~ After(Position(e), Position(f))
      PROVE  e \in poll.found
  <2>1. CASE source = "reviews"
    BY <1>0, <1>3, <2>1 DEF PullsToCome, Kept
  <2>2. CASE source = "issues"
    <3>1. e \in Event /\ f \in Event
      BY <1>0 DEF WatchTypeOK, Kept
    <3>2. e.number <= f.number
      BY <1>3, <2>2, <3>1, EventPosition DEF After
    <3> QED  BY <1>0, <1>3, <2>2, <3>2 DEF PagesToCome
  <2> QED  BY <1>0, <2>1, <2>2
<1>4. QueueHasNoGap'
  <2>1. \A p, q : After(p, q)' = After(p, q)
    BY <1>0 DEF After
  <2> QED  BY <1>0, <1>1, <1>3, <2>1 DEF QueueHasNoGap, Position
<1> QED  BY <1>0, <1>1, <1>2, <1>4, PollMoves DEF WatchTypeOK

\* An event is accepted: nothing kept lies between the old position and it.
LEMMA AcceptKeeps ==
    ASSUME WatchIInv, poll.pc = "send", NEW e \in poll.queue, First(e), Accept(e),
           UNCHANGED <<source, posted, listed, second, due>>
    PROVE  /\ Kept' = Kept /\ \A x : New(x)' <=> After(Position(x), Position(e))
           /\ \A p, q : After(p, q)' = After(p, q)
           /\ \A x \in poll.queue \ {e} : New(x)'
           /\ durable' \in [cursor : Positions, receipts : SUBSET Event, activated : Nat]
           /\ durable'.activated = durable.activated /\ durable'.cursor = Position(e)
           /\ Listing' /\ Numbering' /\ Activation' /\ NothingLost'
           /\ \A x \in Kept : New(x)' => New(x)
<1>0. /\ WatchTypeOK /\ Numbering /\ Activation /\ NothingLost /\ StreamFollows /\ QueueHasNoGap
      /\ e \in posted /\ e \in Event /\ Position(e) \in Positions /\ durable.cursor \in Positions
  BY EventPosition DEF WatchIInv, WatchTypeOK
<1>1. /\ durable' \in [cursor : Positions, receipts : SUBSET Event, activated : Nat]
      /\ durable'.activated = durable.activated /\ durable'.cursor = Position(e)
      /\ durable'.receipts = durable.receipts \cup {e}
  BY <1>0 DEF Accept, WatchTypeOK
<1>2. /\ \A p, q : After(p, q)' = After(p, q)
      /\ \A x : New(x)' <=> After(Position(x), Position(e))
  BY <1>1 DEF After, New, Position
<1>3. Kept' = Kept
  BY <1>1 DEF Kept, Recent, Place
<1>4. \A x \in poll.queue \ {e} : New(x)'
  BY <1>2 DEF First
<1>5. New(e)
  BY <1>0 DEF StreamFollows
<1>6. ASSUME NEW x \in Kept, New(x)'
      PROVE  New(x)
  <2>1. x \in Event /\ Position(x) \in Positions
    BY <1>0, EventPosition DEF Kept, WatchTypeOK
  <2> QED  BY <1>0, <1>2, <1>5, <1>6, <2>1, AfterOrder DEF New
<1>7. NothingLost'
  <2> SUFFICES ASSUME NEW x \in Kept, ~ New(x)'
               PROVE  x \in durable'.receipts
    BY <1>3 DEF NothingLost
  <2>1. CASE x \in durable.receipts
    BY <1>1, <2>1
  <2>2. CASE New(x)
    <3>1. x \in poll.queue
      BY <1>0, <1>2, <2>2 DEF QueueHasNoGap
    <3>2. x = e
      BY <1>4, <3>1
    <3> QED  BY <1>1, <3>2
  <2> QED  BY <1>0, <2>1, <2>2 DEF NothingLost
<1>8. Numbering'
  BY <1>0, <1>1 DEF Numbering, Position
<1>9. Activation'
  <2>1. durable.activated # 0
    BY <1>0 DEF StreamFollows
  <2> QED  BY <1>0, <1>1, <2>1 DEF Activation
<1>10. Listing'
  BY DEF WatchIInv, Listing
<1> QED  BY <1>1, <1>2, <1>3, <1>4, <1>6, <1>7, <1>8, <1>9, <1>10

\* An event is delivered, with or without its acknowledgement.
LEMMA DeliverKeeps ==
    ASSUME WatchIInv, NEW e \in poll.queue, Deliver(e) \/ AckLost(e)
    PROVE  WatchIInv'
<1>0. /\ poll.pc = "send" /\ First(e) /\ Accept(e) /\ UNCHANGED <<source, posted, listed, second, due>>
      /\ WatchTypeOK /\ poll \in PollState /\ StreamFollows /\ QueueHasNoGap
  BY DEF Deliver, AckLost, WatchIInv, WatchTypeOK
<1>1. /\ Kept' = Kept /\ \A x : New(x)' <=> After(Position(x), Position(e))
      /\ \A p, q : After(p, q)' = After(p, q)
      /\ \A x \in poll.queue \ {e} : New(x)'
      /\ durable' \in [cursor : Positions, receipts : SUBSET Event, activated : Nat]
      /\ durable'.activated = durable.activated /\ durable'.cursor = Position(e)
      /\ Listing' /\ Numbering' /\ Activation' /\ NothingLost'
      /\ \A x \in Kept : New(x)' => New(x)
  BY <1>0, AcceptKeeps
<1>2. CASE poll' = Off
  <2>1. /\ Off \in PollState /\ Off.pc = "off" /\ Off.found = {} /\ Off.queue = {}
    BY DEF Off, NoPosition, PollState, Positions
  <2>2. WatchTypeOK'
    BY <1>0, <1>1, <1>2, <2>1 DEF WatchTypeOK
  <2> QED  BY <1>1, <1>2, <2>1, <2>2
           DEF WatchIInv, StreamFollows, PagesToCome, PullsToCome, QueueHasNoGap
<1>3. CASE poll' = [poll EXCEPT !.queue = @ \ {e}, !.cursor = Position(e)]
  <2>1. /\ poll' \in PollState /\ poll'.pc = "send" /\ poll'.found = poll.found
        /\ poll'.queue = poll.queue \ {e} /\ poll'.cursor = Position(e) /\ poll'.fence = poll.fence
    <3>1. Position(e) \in Positions
      BY <1>0, EventPosition DEF WatchTypeOK
    <3> QED  BY <1>0, <1>3, <3>1 DEF PollState
  <2>2. WatchTypeOK'
    BY <1>0, <1>1, <2>1 DEF WatchTypeOK
  <2>3. StreamFollows' /\ PagesToCome' /\ PullsToCome'
    BY <1>0, <1>1, <2>1 DEF StreamFollows, PagesToCome, PullsToCome
  <2>4. QueueHasNoGap'
    <3> SUFFICES ASSUME NEW f \in poll.queue \ {e}, NEW x \in Kept, New(x)',
                        ~ After(Position(x), Position(f))
                 PROVE  x \in poll.queue \ {e}
      BY <1>1, <2>1 DEF QueueHasNoGap, Position
    <3>1. x \in poll.queue
      BY <1>0, <1>1 DEF QueueHasNoGap
    <3>2. x # e
      <4>1. Position(e) \in Positions
        BY <1>0, EventPosition DEF WatchTypeOK
      <4> QED  BY <1>1, <4>1, AfterOrder
    <3> QED  BY <3>1, <3>2
  <2> QED  BY <1>1, <2>2, <2>3, <2>4 DEF WatchIInv
<1> QED  BY <1>2, <1>3 DEF Deliver, AckLost

\* A stream starts at the durable position; the first one activates the
\* trigger, and then nothing was sent.
LEMMA WatchStartKeeps ==
    ASSUME WatchIInv, WatchStart
    PROVE  WatchIInv'
<1>0. /\ UNCHANGED <<source, posted, listed, second, due>> /\ poll.pc = "off"
      /\ WatchTypeOK /\ Numbering /\ Activation /\ NothingLost
      /\ durable \in [cursor : Positions, receipts : SUBSET Event, activated : Nat]
      /\ second \in Nat \ {0} /\ Overlap \in Nat
  BY WatchAssumption DEF WatchStart, WatchIInv, WatchTypeOK
<1>1. PICK at \in Nat \ {0} :
        /\ durable' = [durable EXCEPT !.activated = at]
        /\ poll' = [Off EXCEPT !.pc = "wait", !.cursor = durable.cursor,
                               !.fence = IF durable.cursor = NoPosition THEN at ELSE 0]
        /\ durable.activated # 0 => at = durable.activated
        /\ at <= second + Overlap
  <2>1. PICK skew \in 0..Overlap :
          LET at == IF durable.activated = 0 THEN second + skew ELSE durable.activated IN
          /\ durable' = [durable EXCEPT !.activated = at]
          /\ poll' = [Off EXCEPT !.pc = "wait", !.cursor = durable.cursor,
                                 !.fence = IF durable.cursor = NoPosition THEN at ELSE 0]
    BY DEF WatchStart
  <2> DEFINE at == IF durable.activated = 0 THEN second + skew ELSE durable.activated
  <2>2. at \in Nat \ {0} /\ (durable.activated # 0 => at = durable.activated) /\ at <= second + Overlap
    BY <1>0, <2>1 DEF Activation
  <2> QED  BY <2>1, <2>2
<1>2. /\ durable' \in [cursor : Positions, receipts : SUBSET Event, activated : Nat]
      /\ durable'.activated = at /\ durable'.cursor = durable.cursor
      /\ durable'.receipts = durable.receipts
  BY <1>0, <1>1
<1>3. /\ poll' \in PollState /\ poll'.pc = "wait" /\ poll'.cursor = durable.cursor
      /\ poll'.fence \in {0, at} /\ poll'.found = {} /\ poll'.queue = {}
  <2>1. Off \in PollState /\ Off.found = {} /\ Off.queue = {}
    BY DEF Off, NoPosition, PollState, Positions
  <2>2. durable.cursor \in Positions
    BY <1>0
  <2> QED  BY <1>1, <2>1, <2>2 DEF PollState
<1>4. WatchTypeOK' /\ Listing' /\ Numbering' /\ Activation'
  <2>1. WatchTypeOK'
    BY <1>0, <1>2, <1>3 DEF WatchTypeOK
  <2>2. Numbering'
    BY <1>0, <1>2 DEF Numbering, Position, NoPosition
  <2>3. Activation'
    BY <1>0, <1>1, <1>2 DEF Activation
  <2>4. Listing'
    BY <1>0 DEF WatchIInv, Listing
  <2> QED  BY <2>1, <2>2, <2>3, <2>4
<1>5. NothingLost'
  <2>1. \A x : New(x)' = New(x)
    BY <1>0, <1>2 DEF New, After, Position
  <2>2. CASE durable.activated # 0
    <3>1. Kept' = Kept
      BY <1>0, <1>1, <1>2, <2>2 DEF Kept, Recent, Place
    <3> QED  BY <1>0, <1>2, <2>1, <3>1 DEF NothingLost
  <2>3. CASE durable.activated = 0
    <3>1. \A x \in posted : New(x)
      BY <1>0, <2>3, EventPosition DEF Activation, New, WatchTypeOK
    <3>2. Kept' \subseteq posted
      BY <1>0 DEF Kept
    <3> QED  BY <2>1, <3>1, <3>2 DEF NothingLost
  <2> QED  BY <2>2, <2>3
<1> QED  BY <1>1, <1>2, <1>3, <1>4, <1>5
         DEF WatchIInv, StreamFollows, PagesToCome, PullsToCome, QueueHasNoGap

\* A pull request that is opened or updated moves the others back, and what is
\* due of it was found or is to be read next.
LEMMA FrontKeeps ==
    ASSUME WatchIInv, source = "reviews", NEW p \in Pulls, ToFront(p), NotDue(p),
           UNCHANGED <<source, poll, durable>>
    PROVE  /\ DOMAIN listed' = DOMAIN listed \cup {p} /\ IsFiniteSet(DOMAIN listed')
           /\ \A q \in DOMAIN listed' :
                 listed'[q] \in Nat /\ listed'[q] < Cardinality(DOMAIN listed')
           /\ due' \subseteq due /\ PullsToCome' /\ (poll.pc # "list" => due' = due)
<1> DEFINE D == DOMAIN listed
<1>0. /\ IsFiniteSet(D) /\ Listing /\ WatchTypeOK /\ PullsToCome
      /\ \A q \in D : listed[q] \in Nat /\ listed[q] < Cardinality(D)
      /\ poll \in PollState /\ PageSize \in Nat
      /\ \A e \in due : e.pull \in D
  BY WatchAssumption DEF WatchIInv, Listing, WatchTypeOK
<1>1. /\ DOMAIN listed' = D \cup {p}
      /\ \A q \in D \cup {p} :
            listed'[q] = IF q = p THEN 0
                         ELSE IF p \notin D \/ listed[q] < listed[p] THEN listed[q] + 1
                         ELSE listed[q]
  BY DEF ToFront
<1> HIDE DEF D
<1>2. /\ IsFiniteSet(D \cup {p}) /\ Cardinality(D) \in Nat
      /\ Cardinality(D \cup {p}) = IF p \in D THEN Cardinality(D) ELSE Cardinality(D) + 1
  BY <1>0, FS_AddElement, FS_CardinalityType
<1>3. \A q \in D \cup {p} : listed'[q] \in Nat /\ listed'[q] < Cardinality(D \cup {p})
  <2>1. CASE p \in D
    BY <1>0, <1>1, <1>2, <2>1
  <2>2. CASE p \notin D
    BY <1>0, <1>1, <1>2, <2>2
  <2> QED  BY <2>1, <2>2
<1>4. \A q \in D \ {p} : listed[q] <= listed'[q]
  BY <1>0, <1>1
<1>5. /\ due' \subseteq due /\ (poll.pc # "list" => due' = due)
      /\ poll.pc = "list" => \A e \in due' : e.pull = p => e \in poll.found \/ p \in poll.left
  BY DEF NotDue
<1>6. PullsToCome'
  <2> SUFFICES ASSUME poll.pc = "list", NEW e \in due', New(e), e \notin poll.found,
                      e.pull \notin poll.left
               PROVE  poll.page # 0 /\ (poll.page - 1) * PageSize <= listed'[e.pull]
    <3>1. \A e : New(e)' = New(e)
      BY DEF New, After, Position
    <3>2. poll.pc = "list" => \A e \in due' : poll.fence # 0 => e.second + Overlap >= poll.fence
      BY <1>0, <1>5 DEF PullsToCome
    <3> QED  BY <3>1, <3>2 DEF PullsToCome
  <2>1. e \in due /\ e.pull \in D \ {p}
    BY <1>0, <1>5
  <2>2. poll.page # 0 /\ (poll.page - 1) * PageSize <= listed[e.pull]
    BY <1>0, <2>1 DEF PullsToCome
  <2>3. /\ (poll.page - 1) * PageSize \in Nat /\ listed[e.pull] \in Nat /\ listed'[e.pull] \in Nat
        /\ listed[e.pull] <= listed'[e.pull]
    <3>1. poll.page - 1 \in Nat
      BY <1>0, <2>2 DEF PollState
    <3> QED  BY <1>0, <1>3, <1>4, <2>1, <3>1
  <2> QED  BY <2>2, <2>3
<1>7. Cardinality(DOMAIN listed') = Cardinality(D \cup {p})
  BY <1>1
<1> QED  BY <1>1, <1>2, <1>3, <1>5, <1>6, <1>7 DEF D

\* A pull request is opened or updated.
LEMMA TouchPullKeeps ==
    ASSUME WatchIInv, NEW p \in Pulls, TouchPull(p)
    PROVE  WatchIInv'
<1>0. /\ UNCHANGED <<source, posted, second, poll, durable>> /\ source = "reviews"
      /\ WatchTypeOK /\ Listing
  BY DEF TouchPull, WatchIInv
<1>1. /\ DOMAIN listed' = DOMAIN listed \cup {p} /\ IsFiniteSet(DOMAIN listed')
      /\ \A q \in DOMAIN listed' : listed'[q] \in Nat /\ listed'[q] < Cardinality(DOMAIN listed')
      /\ due' \subseteq due /\ PullsToCome'
  BY <1>0, FrontKeeps DEF TouchPull
<1>2. /\ \A e : New(e)' = New(e) /\ Kept' \subseteq Kept
      /\ \A q, r : After(q, r)' = After(q, r)
  BY <1>0, <1>1 DEF New, After, Position, Kept
<1>3. WatchTypeOK' /\ Numbering' /\ Activation'
  BY <1>0, <1>1 DEF WatchIInv, WatchTypeOK, Numbering, Activation, Position
<1>4. Listing'
  BY <1>0, <1>1 DEF Listing
<1>5. NothingLost' /\ StreamFollows' /\ PagesToCome'
  BY <1>0, <1>2 DEF WatchIInv, NothingLost, StreamFollows, PagesToCome
<1>6. QueueHasNoGap'
  BY <1>0, <1>2 DEF WatchIInv, QueueHasNoGap, Position
<1> QED  BY <1>1, <1>3, <1>4, <1>5, <1>6 DEF WatchIInv

\* Something happens on GitHub: an issue event beyond everything found and the
\* position, or a review, which no poll under way has to find.
LEMMA PostKeeps ==
    ASSUME WatchIInv, NEW n \in Numbers, NEW p \in Pulls,
           NEW how \in {"good", "malformed", "refused"},
           Post([number |-> n, second |-> second, pull |-> p, how |-> how])
    PROVE  WatchIInv'
<1> DEFINE x == [number |-> n, second |-> second, pull |-> p, how |-> how]
<1>0. /\ UNCHANGED <<source, second, poll, durable>> /\ posted' = posted \cup {x}
      /\ \A f \in posted : f.number # x.number
      /\ source = "issues" => (\A f \in posted : f.number < x.number) /\ UNCHANGED <<listed, due>>
      /\ source = "reviews" => p \in DOMAIN listed /\ ToFront(p) /\ NotDue(p)
      /\ WatchTypeOK /\ Listing /\ Numbering /\ Activation /\ NothingLost /\ StreamFollows
      /\ PagesToCome /\ PullsToCome /\ QueueHasNoGap
      /\ source \in {"issues", "reviews"} /\ posted \subseteq Event
      /\ durable.cursor \in Positions
  BY DEF Post, WatchIInv, WatchTypeOK
<1>1. x \in Event /\ x.second = second /\ x.number = n /\ x.pull = p
  BY <1>0, WatchAssumption DEF WatchTypeOK, Event
<1> HIDE DEF x
<1>2. WatchTypeOK' /\ Listing' /\ due' \subseteq due /\ PullsToCome'
  <2>1. IsFiniteSet(posted')
    BY <1>0, FS_AddElement DEF WatchTypeOK
  <2>2. CASE source = "issues"
    BY <1>0, <1>1, <2>1, <2>2 DEF WatchTypeOK, Listing, PullsToCome
  <2>3. CASE source = "reviews"
    <3>1. /\ DOMAIN listed' = DOMAIN listed \cup {p} /\ IsFiniteSet(DOMAIN listed')
          /\ \A q \in DOMAIN listed' :
                listed'[q] \in Nat /\ listed'[q] < Cardinality(DOMAIN listed')
          /\ due' \subseteq due /\ PullsToCome'
      BY <1>0, <2>3, FrontKeeps
    <3>2. Listing'
      BY <1>0, <1>1, <3>1 DEF Listing
    <3>3. WatchTypeOK'
      BY <1>0, <1>1, <2>1, <3>1 DEF WatchTypeOK
    <3> QED  BY <3>1, <3>2, <3>3
  <2> QED  BY <1>0, <2>2, <2>3
<1>3. Numbering'
  <2>1. \A e, f \in posted' : e.number = f.number => e = f
    BY <1>0 DEF Numbering
  <2>2. durable.cursor = NoPosition \/ \E c \in posted' : durable.cursor = Position(c)
    BY <1>0 DEF Numbering
  <2> QED  BY <1>0, <2>1, <2>2 DEF Numbering, Position, NoPosition
<1>4. Activation'
  BY <1>0 DEF Activation
<1>5. (\A p1, q1 : After(p1, q1)' = After(p1, q1)) /\ \A e : New(e)' = New(e)
  BY <1>0 DEF After, New, Position
<1>6. ASSUME NEW e \in Kept', e # x
      PROVE  e \in Kept /\ (source = "issues" => Place(e) <= Place(e)' /\ Place(e) \in Nat /\ Place(e)' \in Nat)
  <2>1. e \in posted
    BY <1>0, <1>6 DEF Kept
  <2>2. Place(e) <= Place(e)' /\ Place(e)' \in Nat /\ Place(e) \in Nat
    BY <1>0, <2>1, PlaceGrows, PlaceBounds
  <2>3. CASE source = "issues"
    <3>1. Place(e)' < MaxPages * PageSize /\ Recent(e)
      BY <1>0, <1>6, <2>3 DEF Kept, Recent
    <3>2. MaxPages * PageSize \in Nat
      BY WatchAssumption
    <3> QED  BY <2>1, <2>2, <2>3, <3>1, <3>2 DEF Kept
  <2>4. CASE source = "reviews"
    <3>1. e \in due'
      BY <1>0, <1>6, <2>4 DEF Kept
    <3>2. e \in due
      BY <1>2, <3>1
    <3> QED  BY <2>1, <2>4, <3>2 DEF Kept
  <2> QED  BY <1>0, <2>3, <2>4
<1>7. ASSUME source = "reviews"
      PROVE  x \notin Kept'
  <2>1. x \notin due'
    BY <1>0, <1>2 DEF WatchTypeOK
  <2> QED  BY <1>0, <1>7, <2>1 DEF Kept
<1>8. NothingLost'
  <2>1. x \in Kept' => New(x)
    <3>1. CASE source = "issues"
      <4>1. durable.cursor.number = 0 \/ \E c \in posted : durable.cursor.number = c.number
        <5>1. durable.cursor = NoPosition \/ \E c \in posted : durable.cursor = Position(c)
          BY <1>0 DEF Numbering
        <5>2. NoPosition.number = 0 /\ \A c \in posted : Position(c).number = c.number
          BY <1>0, EventPosition DEF NoPosition
        <5> QED  BY <5>1, <5>2
      <4>2. durable.cursor.number < x.number
        BY <1>0, <1>1, <3>1, <4>1, EventPosition
      <4> QED  BY <1>1, <3>1, <4>2 DEF New, After, Position
    <3> QED  BY <1>0, <1>7, <3>1
  <2> QED  BY <1>0, <1>5, <1>6, <2>1 DEF NothingLost
<1>9. StreamFollows'
  BY <1>0, <1>5 DEF StreamFollows
<1>10. PagesToCome'
  <2> SUFFICES ASSUME poll.pc = "list", source = "issues", NEW f \in poll.found, NEW e \in Kept',
                      New(e), e.number <= f.number
               PROVE  e \in poll.found \/ (poll.page # 0 /\ (poll.page - 1) * PageSize <= Place(e)')
    BY <1>0, <1>5 DEF PagesToCome
  <2>1. e # x /\ poll.page \in Nat /\ PageSize \in Nat
    BY <1>0, <1>1, WatchAssumption, EventPosition DEF WatchTypeOK, PollState
  <2>2. e \in Kept /\ Place(e) <= Place(e)' /\ Place(e) \in Nat /\ Place(e)' \in Nat
    BY <1>6, <2>1
  <2>3. e \in poll.found \/ (poll.page # 0 /\ (poll.page - 1) * PageSize <= Place(e))
    BY <1>0, <2>2 DEF PagesToCome
  <2>4. poll.page # 0 => (poll.page - 1) * PageSize \in Nat
    BY <2>1
  <2> QED  BY <2>2, <2>3, <2>4
<1>11. QueueHasNoGap'
  <2> SUFFICES ASSUME poll.pc = "send", NEW f \in poll.queue, NEW e \in Kept', New(e),
                      ~ After(Position(e), Position(f))
               PROVE  e \in poll.queue
    BY <1>0, <1>5 DEF QueueHasNoGap, Position
  <2>1. e # x
    <3>1. f \in posted /\ f.number \in Nat
      BY <1>0, EventPosition DEF WatchTypeOK
    <3>2. source = "issues" => After(Position(x), Position(f))
      BY <1>0, <1>1, <3>1, EventPosition DEF After
    <3> QED  BY <1>0, <1>7, <3>2
  <2> QED  BY <1>0, <1>6, <2>1 DEF QueueHasNoGap
<1> QED  BY <1>2, <1>3, <1>4, <1>8, <1>9, <1>10, <1>11 DEF WatchIInv

\* The watches' invariant.
LEMMA WatchInductive == WatchSpec => []WatchIInv
<1>1. WatchInit => WatchIInv
  <2> SUFFICES ASSUME WatchInit PROVE WatchIInv
    OBVIOUS
  <2>1. /\ poll \in PollState /\ poll.pc = "off" /\ poll.found = {} /\ poll.queue = {}
        /\ durable \in [cursor : Positions, receipts : SUBSET Event, activated : Nat]
        /\ durable.activated = 0 /\ durable.cursor = NoPosition
    BY DEF WatchInit, Off, NoPosition, PollState, Positions
  <2>2. WatchTypeOK
    BY <2>1, FS_EmptySet DEF WatchInit, WatchTypeOK
  <2>3. Kept = {} /\ posted = {} /\ due = {} /\ second + Overlap \in Nat
    BY WatchAssumption DEF WatchInit, Kept
  <2>4. Listing
    BY <2>3, FS_EmptySet DEF WatchInit, Listing
  <2> QED  BY <2>1, <2>2, <2>3, <2>4 DEF WatchIInv, Numbering, Activation, NothingLost, StreamFollows,
                                   PagesToCome, PullsToCome, QueueHasNoGap
<1>2. WatchIInv /\ [WatchNext]_watchVars => WatchIInv'
  <2> SUFFICES ASSUME WatchIInv, [WatchNext]_watchVars
               PROVE  WatchIInv'
    OBVIOUS
  <2>1. ASSUME UNCHANGED <<source, posted, listed, poll, durable, due>>, second' \in Nat, second <= second'
        PROVE  WatchIInv'
    <3>1. Kept' = Kept /\ (\A e : New(e)' = New(e)) /\ (\A e : Place(e)' = Place(e))
      BY <2>1, SameKept DEF Place
    <3>2. \A p, q : After(p, q)' = After(p, q)
      BY <2>1 DEF After
    <3>3. WatchTypeOK' /\ Listing'
      BY <2>1 DEF WatchIInv, WatchTypeOK, Listing
    <3>4. Numbering' /\ Activation'
      BY <2>1, WatchAssumption DEF WatchIInv, Numbering, Activation, WatchTypeOK, Position
    <3>5. NothingLost' /\ StreamFollows' /\ PagesToCome' /\ PullsToCome'
      BY <2>1, <3>1 DEF WatchIInv, NothingLost, StreamFollows, PagesToCome, PullsToCome
    <3>6. QueueHasNoGap'
      BY <2>1, <3>1, <3>2 DEF WatchIInv, QueueHasNoGap, Position
    <3> QED  BY <3>3, <3>4, <3>5, <3>6 DEF WatchIInv
  <2>2. CASE UNCHANGED watchVars
    BY <2>1, <2>2 DEF watchVars, WatchIInv, WatchTypeOK
  <2>3. CASE TickSecond
    BY <2>1, <2>3 DEF TickSecond, WatchIInv, WatchTypeOK
  <2> QED  BY <2>2, <2>3, WatchStartKeeps, BeginKeeps, ReadPageKeeps, ReadPullsKeeps,
              ReadReviewsKeeps, SortFoundKeeps, PollEndsKeeps, DeliverKeeps, TouchPullKeeps,
              PostKeeps DEF WatchNext, PollStep
<1> QED  BY <1>1, <1>2, PTL DEF WatchSpec

(***************************************************************************)
(* However the list of issue events moves under the pages of a poll and    *)
(* wherever the stream breaks, an event within reach of a poll that lies   *)
(* at or before the durable position was accepted.                         *)
(***************************************************************************)
THEOREM ReadyEventInvariant == WatchSpec => []ReadyEventIsNotLost
<1>1. WatchIInv => ReadyEventIsNotLost
  <2> SUFFICES ASSUME WatchIInv, source = "issues", NEW e \in posted, durable.activated # 0,
                      e.second >= durable.activated, Place(e) < MaxPages * PageSize, ~ New(e)
               PROVE  e \in durable.receipts
    BY DEF ReadyEventIsNotLost, New
  <2>1. e.second \in Nat /\ durable.activated \in Nat /\ Overlap \in Nat
    BY WatchAssumption, EventPosition DEF WatchIInv, WatchTypeOK
  <2>2. e \in Kept
    BY <2>1 DEF Kept, Recent
  <2> QED  BY <2>2 DEF WatchIInv, NothingLost
<1> QED  BY <1>1, WatchInductive, PTL

(***************************************************************************)
(* A review that was there, beyond the position, when a poll began is not  *)
(* passed over, unless its pull request is updated before that poll reads  *)
(* its page: before the position is beyond it, it is accepted.             *)
(***************************************************************************)
THEOREM DueReviewInvariant == WatchSpec => []DueReviewIsNotLost
<1>1. WatchIInv => DueReviewIsNotLost
  BY DEF WatchIInv, WatchTypeOK, NothingLost, DueReviewIsNotLost, New, Kept
<1> QED  BY <1>1, WatchInductive, PTL

(***************************************************************************)
(* What the GitHub plugin reads page by page, and asks again after a lost  *)
(* answer, is neither passed over nor made twice nor reported good unseen: *)
(* its three parts share no state, and each keeps its own.                 *)
(***************************************************************************)
THEOREM GitHubInvariant == WatchSpec /\ MutationsSpec /\ ChecksSpec => []GitHubInv
<1>1. /\ ReadyEventIsNotLost /\ DueReviewIsNotLost /\ ExistingIsReused /\ RetriesMakeOne
      /\ SuccessWasGood
      => GitHubInv
  BY DEF GitHubInv
<1> QED  BY <1>1, ReadyEventInvariant, DueReviewInvariant, ExistingIsReusedInvariant,
            RetriesMakeOneInvariant, SuccessWasGoodInvariant, PTL

-----------------------------------------------------------------------------
(***************************************************************************)
(* Calls.  The two ends of a stream are tied by how far the daemon has     *)
(* read: the evidence is what was read, but for the event it is working    *)
(* on.  On the plugin's side the logs that were said are the chunks that   *)
(* were printed unless a sender failed, which fails the task; so a stream  *)
(* that says completed has all of them, and a process that ended well.     *)
(***************************************************************************)
CallEvents == {"started", "log", "line", "process"} \cup Terminal
Persisting == {"append", "register", "event"}

HostState == [pc : Persisting \cup {"idle", "recv", "outcome", "returned"},
              event : CallEvents \cup {"none"}, terminal : Terminal \cup {"none"}, result : {"none", "output", "error"}]
EvidenceState == [file : Nat, row : Nat, events : Seq(CallEvents), completed : BOOLEAN]
StreamState == [said : Seq(CallEvents), next : Nat \ {0}, end : {"open", "eof", "error"},
                live : BOOLEAN]
TaskState == [pc : {"none", "start", "spawn", "run", "report", "finish", "gone"},
              kind : Kinds \cup {"none"}, cancelled : BOOLEAN, line : BOOLEAN, failed : BOOLEAN]
ProcState == [os : {"none", "running", "exited"}, ok : BOOLEAN,
              child : {"none", "piped", "loose", "gone"}, chunks : 0..MaxChunks,
              killer : {"none", "term", "kill"}, broken : BOOLEAN]

CallStates ==
    /\ host \in [Calls -> HostState] /\ disk \in [Calls -> EvidenceState]
    /\ stream \in [Calls -> StreamState] /\ task \in [Calls -> TaskState]
    /\ proc \in [Calls -> ProcState]
    /\ plugin \in {"up", "draining", "drained", "dead"} /\ daemon \in {"up", "down", "refused"}
    /\ kills \in Nat

LogsTo(s, n) == Cardinality({i \in 1..n : s[i] = "log"})

\* The daemon has read next - 1 events; the one it is working on is not yet
\* evidence, or is and lacks its outcome; it reads none after a terminal one.
Consumed(c) ==
    LET h == host[c]
        e == disk[c].events
        s == stream[c]
    IN  /\ s.next <= Len(s.said) + 1 /\ Len(e) < s.next
        /\ \A i \in 1..Len(e) : e[i] = s.said[i]
        /\ h.pc \in {"idle", "recv", "outcome"} => Len(e) + 1 = s.next
        /\ h.pc = "outcome" => Len(e) > 0 /\ h.event = e[Len(e)] /\ h.terminal = "none"
        /\ h.pc \in Persisting =>
              Len(e) + 2 = s.next /\ h.event = s.said[s.next - 1] /\ h.terminal = "none"
        /\ h.pc \in {"append", "register"} => h.event = "log"
        /\ \A i \in 1..Len(e) : e[i] \in Terminal =>
              i = Len(e) /\ (h.pc \notin {"outcome", "returned"} => h.terminal = e[i])
        /\ h.pc # "returned" /\ h.terminal # "none" => Len(e) > 0 /\ e[Len(e)] = h.terminal

\* A chunk is in the file before it is in the row, and in the row before its
\* event is evidence; no chunk is in the file that was not read.
Recorded(c) ==
    LET h == host[c]
        d == disk[c]
        s == stream[c]
    IN  /\ d.row <= d.file /\ Logs(d.events) <= d.row
        /\ h.pc = "register" => Logs(d.events) < d.file
        /\ h.pc = "event" /\ h.event = "log" => Logs(d.events) < d.row
        /\ d.file <= LogsTo(s.said, s.next - 1)
        /\ h.pc = "append" => d.file < LogsTo(s.said, s.next - 1)

EndedWell(c) ==
    task[c].kind # "http" => proc[c].os = "exited" /\ proc[c].ok /\ ~proc[c].broken

Spoken(c) ==
    LET s == stream[c]
        t == task[c]
        p == proc[c]
    IN  /\ Logs(s.said) <= p.chunks /\ (~p.broken => Logs(s.said) = p.chunks)
        /\ t.pc \in {"none", "start", "spawn"} => p.os = "none" /\ p.child = "none"
        /\ s.end = "eof" => t.pc = "gone"
        /\ t.pc \in {"report", "finish"} /\ ~t.failed => EndedWell(c)
        /\ \A i \in 1..Len(s.said) : s.said[i] = "completed" => t.pc = "gone" /\ EndedWell(c)

Returned(c) ==
    /\ host[c].pc = "idle" => task[c].pc = "none"
    /\ host[c].result # "none" => host[c].pc = "returned"
    /\ host[c].result = "output" =>
          /\ stream[c].end = "eof" /\ disk[c].events = stream[c].said
          /\ stream[c].said # <<>> /\ stream[c].said[Len(stream[c].said)] = "completed"

\* While the plugin lives, only a task that runs has a process.
Quiet(c) == task[c].pc # "run" => proc[c].os # "running" /\ proc[c].child # "piped"

CallFits(c) ==
    /\ Consumed(c) /\ Recorded(c) /\ Spoken(c) /\ Returned(c)
    /\ plugin # "dead" => Quiet(c)
    /\ plugin = "drained" => task[c].pc \in {"none", "gone"}
    /\ kills > 0 => host[c].pc = "returned"
    /\ kills > 0 /\ daemon = "up" => disk[c].row = disk[c].file

CallsIInv == CallStates /\ (kills = 0 => daemon = "up") /\ \A c \in Calls : CallFits(c)

\* Log events of a prefix are naturals, and one more entry adds one at most.
LEMMA LogsCount ==
    ASSUME NEW s, NEW n \in Nat
    PROVE  /\ LogsTo(s, n) \in Nat /\ LogsTo(s, 0) = 0
           /\ LogsTo(s, n + 1) = IF s[n + 1] = "log" THEN LogsTo(s, n) + 1 ELSE LogsTo(s, n)
<1> DEFINE L(m) == {i \in 1..m : s[i] = "log"}
<1>1. IsFiniteSet(L(n)) /\ Cardinality(L(n)) \in Nat
  <2>1. IsFiniteSet(1..n)
    BY FS_Interval
  <2>2. L(n) \in SUBSET (1..n)
    OBVIOUS
  <2> QED  BY <2>1, <2>2, FS_Subset, FS_CardinalityType
<1>2. L(0) = {}
  OBVIOUS
<1>3. CASE s[n + 1] = "log"
  <2>1. L(n + 1) = L(n) \cup {n + 1} /\ n + 1 \notin L(n)
    BY <1>3
  <2>2. Cardinality(L(n + 1)) = Cardinality(L(n)) + 1
    <3> HIDE DEF L
    <3> QED  BY <1>1, <2>1, FS_AddElement
  <2> QED  BY <1>1, <1>2, <1>3, <2>2, FS_EmptySet DEF LogsTo
<1>4. CASE s[n + 1] # "log"
  <2>1. L(n + 1) = L(n)
    BY <1>4
  <2> QED  BY <1>1, <1>2, <1>4, <2>1, FS_EmptySet DEF LogsTo
<1> QED  BY <1>3, <1>4

\* The logs of a sequence, and of two that agree.
LEMMA LogsAre ==
    ASSUME NEW s \in Seq(CallEvents)
    PROVE  Logs(s) = LogsTo(s, Len(s)) /\ Logs(s) \in Nat
<1>1. DOMAIN s = 1..Len(s) /\ Len(s) \in Nat
  OBVIOUS
<1> QED  BY <1>1, LogsCount DEF Logs, LogsTo

\* Prefixes that agree have the same logs.
LEMMA LogsAgree ==
    ASSUME NEW s, NEW t, NEW n \in Nat, \A i \in 1..n : s[i] = t[i]
    PROVE  LogsTo(s, n) = LogsTo(t, n)
<1>1. {i \in 1..n : s[i] = "log"} = {i \in 1..n : t[i] = "log"}
  OBVIOUS
<1> QED  BY <1>1 DEF LogsTo

\* A longer prefix has no fewer.
LEMMA LogsGrow ==
    ASSUME NEW s, NEW n \in Nat, NEW m \in Nat, n <= m
    PROVE  LogsTo(s, n) <= LogsTo(s, m)
<1> DEFINE L(k) == {i \in 1..k : s[i] = "log"}
<1>1. IsFiniteSet(L(m)) /\ L(n) \in SUBSET L(m)
  <2>1. IsFiniteSet(1..m)
    BY FS_Interval
  <2>2. L(m) \in SUBSET (1..m)
    OBVIOUS
  <2>3. L(n) \in SUBSET L(m)
    OBVIOUS
  <2> QED  BY <2>1, <2>2, <2>3, FS_Subset
<1>2. Cardinality(L(n)) <= Cardinality(L(m))
  <2> HIDE DEF L
  <2> QED  BY <1>1, FS_Subset
<1> QED  BY <1>2 DEF LogsTo

Continues(s, t) ==
    t \in Seq(CallEvents) /\ Len(s) <= Len(t) /\ \A i \in 1..Len(s) : t[i] = s[i]

\* What a sender adds: t goes on from s, with k more logs and no completion.
GoesOn(s, t, k) ==
    /\ Continues(s, t) /\ Logs(t) = Logs(s) + k
    /\ \A i \in 1..Len(t) : t[i] = "completed" => i <= Len(s)

\* One event more.
LEMMA OneMore ==
    ASSUME NEW s \in Seq(CallEvents), NEW x \in CallEvents
    PROVE  /\ Append(s, x) \in Seq(CallEvents) /\ Len(Append(s, x)) = Len(s) + 1
           /\ Append(s, x)[Len(s) + 1] = x /\ \A i \in 1..Len(s) : Append(s, x)[i] = s[i]
           /\ Logs(Append(s, x)) = IF x = "log" THEN Logs(s) + 1 ELSE Logs(s)
<1> DEFINE t == Append(s, x)
<1>1. /\ t \in Seq(CallEvents) /\ Len(t) = Len(s) + 1 /\ Len(s) \in Nat
      /\ t[Len(s) + 1] = x /\ \A i \in 1..Len(s) : t[i] = s[i]
  BY AppendProperties
<1> HIDE DEF t
<1>2. LogsTo(t, Len(s)) = LogsTo(s, Len(s))
  BY <1>1, LogsAgree
<1>3. Logs(t) = LogsTo(t, Len(s) + 1) /\ Logs(s) = LogsTo(s, Len(s))
  BY <1>1, LogsAre
<1>4. LogsTo(t, Len(s) + 1) = IF t[Len(s) + 1] = "log" THEN LogsTo(t, Len(s)) + 1
                              ELSE LogsTo(t, Len(s))
  BY <1>1, LogsCount
<1>5. Logs(t) = IF x = "log" THEN Logs(s) + 1 ELSE Logs(s)
  BY <1>1, <1>2, <1>3, <1>4
<1> QED  BY <1>1, <1>5 DEF t

\* Nothing, one and two events more.
LEMMA Saying ==
    ASSUME NEW s \in Seq(CallEvents), NEW x \in CallEvents \ {"completed"},
           NEW y \in CallEvents \ {"completed", "log"}
    PROVE  /\ GoesOn(s, s, 0)
           /\ GoesOn(s, s \o <<x>>, IF x = "log" THEN 1 ELSE 0)
           /\ GoesOn(s, s \o <<x, y>>, IF x = "log" THEN 1 ELSE 0)
<1>0. Len(s) \in Nat /\ Logs(s) \in Nat
  BY LogsAre
<1>1. GoesOn(s, s, 0)
  BY <1>0 DEF GoesOn, Continues
<1> DEFINE u == Append(s, x)
           v == Append(u, y)
<1>2. /\ u \in Seq(CallEvents) /\ Len(u) = Len(s) + 1
      /\ u[Len(s) + 1] = x /\ \A i \in 1..Len(s) : u[i] = s[i]
      /\ Logs(u) = IF x = "log" THEN Logs(s) + 1 ELSE Logs(s)
  BY OneMore
<1>3. s \o <<x>> = u /\ s \o <<x, y>> = v
  OBVIOUS
<1> HIDE DEF u
<1>4. /\ v \in Seq(CallEvents) /\ Len(v) = Len(u) + 1
      /\ v[Len(u) + 1] = y /\ \A i \in 1..Len(u) : v[i] = u[i]
      /\ Logs(v) = Logs(u)
  BY <1>2, OneMore
<1> HIDE DEF v
<1>5. GoesOn(s, u, IF x = "log" THEN 1 ELSE 0)
  <2>1. \A i \in 1..Len(u) : u[i] = "completed" => i <= Len(s)
    BY <1>0, <1>2
  <2> QED  BY <1>0, <1>2, <2>1 DEF GoesOn, Continues
<1>6. GoesOn(s, v, IF x = "log" THEN 1 ELSE 0)
  <2>1. \A i \in 1..Len(v) : v[i] = "completed" => i <= Len(s)
    <3>1. ASSUME NEW i \in 1..Len(v), v[i] = "completed" PROVE i <= Len(s)
      <4>1. i # Len(u) + 1
        BY <1>4, <3>1
      <4>2. i \in 1..Len(u)
        BY <1>0, <1>2, <1>4, <4>1
      <4> QED  BY <1>0, <1>2, <1>4, <3>1, <4>2
    <3> QED  BY <3>1
  <2>2. \A i \in 1..Len(s) : v[i] = s[i]
    BY <1>0, <1>2, <1>4
  <2> QED  BY <1>0, <1>2, <1>4, <2>1, <2>2 DEF GoesOn, Continues
<1> QED  BY <1>1, <1>3, <1>5, <1>6

\* A step of one call leaves the others as they are.
LEMMA OthersFit ==
    ASSUME CallsIInv, NEW c \in Calls, CallStates', CallFits(c)', UNCHANGED <<plugin, daemon, kills>>,
           \A d \in Calls : d # c => /\ host'[d] = host[d] /\ disk'[d] = disk[d]
                                     /\ stream'[d] = stream[d] /\ task'[d] = task[d]
                                     /\ proc'[d] = proc[d]
    PROVE  CallsIInv'
<1>1. ASSUME NEW d \in Calls, d # c PROVE CallFits(d)'
  <2>1. /\ host'[d] = host[d] /\ disk'[d] = disk[d] /\ stream'[d] = stream[d]
        /\ task'[d] = task[d] /\ proc'[d] = proc[d]
    BY <1>1
  <2>2. CallFits(d)
    BY DEF CallsIInv
  <2> QED  BY <2>1, <2>2 DEF CallFits, Consumed, Recorded, Spoken, Returned, Quiet, EndedWell
<1> QED  BY <1>1 DEF CallsIInv

\* The state of one call, and the numbers in it.
LEMMA CallIs ==
    ASSUME CallsIInv, NEW c \in Calls
    PROVE  /\ CallStates /\ CallFits(c)
           /\ host[c] \in HostState /\ disk[c] \in EvidenceState /\ stream[c] \in StreamState
           /\ task[c] \in TaskState /\ proc[c] \in ProcState
BY DEF CallsIInv, CallStates

\* The numbers of a call.
LEMMA CallNumbers ==
    ASSUME CallsIInv, NEW c \in Calls
    PROVE  /\ stream[c].said \in Seq(CallEvents) /\ Len(stream[c].said) \in Nat
           /\ disk[c].events \in Seq(CallEvents) /\ Len(disk[c].events) \in Nat
           /\ disk[c].file \in Nat /\ disk[c].row \in Nat /\ stream[c].next \in Nat \ {0}
           /\ proc[c].chunks \in 0..MaxChunks /\ proc[c].chunks \in Nat
           /\ Logs(stream[c].said) \in Nat /\ Logs(disk[c].events) \in Nat
<1>1. disk[c] \in EvidenceState /\ stream[c] \in StreamState /\ proc[c] \in ProcState
  BY CallIs
<1>2. /\ stream[c].said \in Seq(CallEvents) /\ disk[c].events \in Seq(CallEvents)
      /\ disk[c].file \in Nat /\ disk[c].row \in Nat /\ stream[c].next \in Nat \ {0}
      /\ proc[c].chunks \in 0..MaxChunks
  BY <1>1 DEF EvidenceState, StreamState, ProcState
<1>3. Len(stream[c].said) \in Nat /\ Len(disk[c].events) \in Nat
  BY <1>2
<1>4. proc[c].chunks \in Nat
  BY <1>2, CallsAssumption
<1> QED  BY <1>2, <1>3, <1>4, LogsAre

\* A step on the plugin's side: the daemon's half stays true of a stream that
\* goes on.
LEMMA SpeakerKeeps ==
    ASSUME CallsIInv, NEW c \in Calls, CallStates',
           UNCHANGED <<host, disk, plugin, daemon, kills>>,
           \A d \in Calls : d # c => stream'[d] = stream[d] /\ task'[d] = task[d] /\ proc'[d] = proc[d],
           stream'[c].next = stream[c].next, Continues(stream[c].said, stream'[c].said),
           Spoken(c)',
           host[c].result = "output" => stream'[c].said = stream[c].said
                                        /\ stream'[c].end = stream[c].end,
           host[c].pc = "idle" => task'[c].pc = "none",
           plugin # "dead" => Quiet(c)',
           plugin = "drained" => task'[c].pc \in {"none", "gone"}
    PROVE  CallsIInv'
<1> DEFINE s == stream[c].said
           t == stream'[c].said
           n == stream[c].next
           e == disk[c].events
<1>0. /\ CallFits(c) /\ Len(s) \in Nat /\ Len(e) \in Nat /\ n \in Nat \ {0}
      /\ Len(t) \in Nat /\ Len(s) <= Len(t) /\ \A i \in 1..Len(s) : t[i] = s[i]
  <2>1. CallFits(c) /\ Len(s) \in Nat /\ Len(e) \in Nat /\ n \in Nat \ {0}
    BY CallIs, CallNumbers
  <2>2. t \in Seq(CallEvents) /\ Len(s) <= Len(t) /\ \A i \in 1..Len(s) : t[i] = s[i]
    BY DEF Continues
  <2>3. Len(t) \in Nat
    BY <2>2
  <2> QED  BY <2>1, <2>2, <2>3
<1>1. n <= Len(s) + 1 /\ Len(e) < n /\ \A i \in 1..Len(e) : e[i] = s[i]
  BY <1>0 DEF CallFits, Consumed
<1>2. Consumed(c)'
  <2>1. n <= Len(t) + 1
    <3> HIDE DEF s, t, n, e
    <3> QED  BY <1>0, <1>1
  <2>2. \A i \in 1..Len(e) : e[i] = t[i]
    BY <1>0, <1>1
  <2>3. host[c].pc \in Persisting => s[n - 1] = t[n - 1]
    <3>1. host[c].pc \in Persisting => Len(e) + 2 = n
      BY <1>0 DEF CallFits, Consumed
    <3>2. Len(e) + 2 = n => n - 1 \in 1..Len(s)
      <4> HIDE DEF s, t, n, e
      <4> QED  BY <1>0, <1>1
    <3> QED  BY <1>0, <3>1, <3>2
  <2> QED  BY <1>0, <2>1, <2>2, <2>3 DEF CallFits, Consumed
<1>3. Recorded(c)'
  <2>1. n - 1 \in Nat /\ \A i \in 1..(n - 1) : s[i] = t[i]
    BY <1>0, <1>1
  <2>2. LogsTo(s, n - 1) = LogsTo(t, n - 1)
    BY <2>1, LogsAgree
  <2> QED  BY <1>0, <2>2 DEF CallFits, Recorded
<1>4. Returned(c)'
  BY <1>0 DEF CallFits, Returned
<1>5. CallFits(c)'
  BY <1>0, <1>2, <1>3, <1>4 DEF CallFits
<1> QED  BY <1>5, OthersFit

\* What Say and Step change.
LEMMA SayIs ==
    ASSUME CallsIInv, NEW c \in Calls, NEW kinds, NEW k \in Nat,
           GoesOn(stream[c].said, stream[c].said \o kinds, k), Say(c, kinds)
    PROVE  /\ stream' \in [Calls -> StreamState]
           /\ \A d \in Calls : d # c => stream'[d] = stream[d]
           /\ stream'[c].next = stream[c].next /\ stream'[c].end = stream[c].end
           /\ GoesOn(stream[c].said, stream'[c].said, IF stream[c].live THEN k ELSE 0)
<1> DEFINE s == stream[c]
           t == IF s.live THEN s.said \o kinds ELSE s.said
<1>1. s \in StreamState /\ stream \in [Calls -> StreamState] /\ s.said \in Seq(CallEvents)
  BY CallIs, CallNumbers DEF CallStates
<1>2. GoesOn(s.said, s.said, 0)
  <2>1. Len(s.said) \in Nat /\ Logs(s.said) \in Nat
    BY CallNumbers
  <2> QED  BY <1>1, <2>1 DEF GoesOn, Continues
<1>3. GoesOn(s.said, t, IF s.live THEN k ELSE 0)
  BY <1>2
<1>4. t \in Seq(CallEvents)
  BY <1>3 DEF GoesOn, Continues
<1>5. stream' = [stream EXCEPT ![c] = [s EXCEPT !.said = t]]
  BY <1>1 DEF Say
<1> HIDE DEF t
<1>6. [s EXCEPT !.said = t] \in StreamState /\ [s EXCEPT !.said = t].said = t
      /\ [s EXCEPT !.said = t].next = s.next /\ [s EXCEPT !.said = t].end = s.end
  BY <1>1, <1>4 DEF StreamState
<1> QED  BY <1>1, <1>3, <1>5, <1>6

\* A task that moves, or fails.
LEMMA StepIs ==
    ASSUME CallsIInv, NEW c \in Calls,
           NEW l \in {"none", "start", "spawn", "run", "report", "finish", "gone"},
           Step(c, l) \/ Failing(c, l)
    PROVE  /\ task' \in [Calls -> TaskState] /\ \A d \in Calls : d # c => task'[d] = task[d]
           /\ task'[c].pc = l /\ task'[c].kind = task[c].kind
           /\ Step(c, l) => task'[c].failed = task[c].failed
           /\ Failing(c, l) => task'[c].failed
<1>1. task[c] \in TaskState /\ task \in [Calls -> TaskState]
  BY CallIs DEF CallStates
<1>2. CASE Step(c, l)
  <2>1. task' = [task EXCEPT ![c] = [task[c] EXCEPT !.pc = l]]
    BY <1>1, <1>2 DEF Step
  <2>2. [task[c] EXCEPT !.pc = l] \in TaskState /\ [task[c] EXCEPT !.pc = l].pc = l
        /\ [task[c] EXCEPT !.pc = l].kind = task[c].kind
        /\ [task[c] EXCEPT !.pc = l].failed = task[c].failed
    BY <1>1 DEF TaskState
  <2>3. Failing(c, l) => task'[c].failed
    BY <1>1 DEF Failing
  <2> QED  BY <1>1, <2>1, <2>2, <2>3
<1>3. CASE Failing(c, l)
  <2> DEFINE n == [task[c] EXCEPT !.pc = l, !.failed = TRUE]
  <2>1. task' = [task EXCEPT ![c] = n]
    BY <1>1, <1>3 DEF Failing
  <2>2. n \in TaskState /\ n.pc = l /\ n.kind = task[c].kind /\ n.failed
    BY <1>1 DEF TaskState
  <2> HIDE DEF n
  <2>3. Step(c, l) => task'[c].failed = task[c].failed
    <3>1. Step(c, l) => task'[c] = [task[c] EXCEPT !.pc = l]
      BY <1>1 DEF Step
    <3>2. [task[c] EXCEPT !.pc = l].failed = task[c].failed
      BY <1>1 DEF TaskState
    <3> QED  BY <3>1, <3>2
  <2> QED  BY <1>1, <2>1, <2>2, <2>3
<1> QED  BY <1>2, <1>3

\* An active task has not said that it completed.
LEMMA ActiveHasNotCompleted ==
    ASSUME CallsIInv, NEW c \in Calls, task[c].pc # "gone", NEW t, NEW k,
           GoesOn(stream[c].said, t, k)
    PROVE  (\A i \in 1..Len(t) : t[i] # "completed") /\ stream[c].end # "eof"
<1> DEFINE s == stream[c].said
<1>1. Spoken(c) /\ Len(s) \in Nat /\ t \in Seq(CallEvents)
  BY CallIs, CallNumbers DEF CallFits, GoesOn, Continues
<1>2. (\A i \in 1..Len(s) : s[i] # "completed") /\ stream[c].end # "eof"
  BY <1>1 DEF Spoken
<1>3. ASSUME NEW i \in 1..Len(t), t[i] = "completed" PROVE FALSE
  <2>1. i <= Len(s)
    BY <1>3 DEF GoesOn
  <2>2. i \in 1..Len(s)
    BY <1>1, <2>1
  <2>3. t[i] = s[i]
    BY <2>2 DEF GoesOn, Continues
  <2> QED  BY <1>2, <1>3, <2>2, <2>3
<1> QED  BY <1>2, <1>3

\* A step of a task that is active and stays so.
LEMMA ActiveSpeaks ==
    ASSUME CallsIInv, NEW c \in Calls, task[c].pc \notin {"none", "gone"},
           UNCHANGED <<host, disk, plugin, daemon, kills>>,
           stream' \in [Calls -> StreamState], task' \in [Calls -> TaskState],
           proc' \in [Calls -> ProcState],
           \A d \in Calls : d # c => stream'[d] = stream[d] /\ task'[d] = task[d] /\ proc'[d] = proc[d],
           stream'[c].next = stream[c].next, stream'[c].end = stream[c].end,
           NEW k \in Nat, GoesOn(stream[c].said, stream'[c].said, k),
           Logs(stream[c].said) + k <= proc'[c].chunks,
           ~ proc'[c].broken => Logs(stream[c].said) + k = proc'[c].chunks,
           task'[c].pc \notin {"none", "gone"},
           task'[c].pc \in {"start", "spawn"} => proc'[c].os = "none" /\ proc'[c].child = "none",
           task'[c].pc \in {"report", "finish"} /\ ~ task'[c].failed => EndedWell(c)',
           plugin # "dead" => Quiet(c)'
    PROVE  CallsIInv'
<1>1. CallStates /\ CallFits(c)
  BY CallIs
<1>2. CallStates'
  BY <1>1 DEF CallStates
<1>3. (\A i \in 1..Len(stream'[c].said) : stream'[c].said[i] # "completed") /\ stream[c].end # "eof"
  BY ActiveHasNotCompleted
<1>4. Spoken(c)'
  BY <1>3 DEF Spoken, GoesOn
<1>5. Continues(stream[c].said, stream'[c].said)
  BY DEF GoesOn
<1>6. host[c].result # "output" /\ host[c].pc # "idle" /\ plugin # "drained"
  BY <1>1, <1>3 DEF CallFits, Returned
<1> QED  BY <1>2, <1>4, <1>5, <1>6, SpeakerKeeps

\* A task that is refused, or starts.
LEMMA RegisterKeeps ==
    ASSUME CallsIInv, NEW c \in Calls, Register(c)
    PROVE  CallsIInv'
<1>0. /\ CallStates /\ CallFits(c) /\ stream[c] \in StreamState /\ task[c].pc = "none"
      /\ stream[c].end = "open" /\ host[c].pc = "recv"
      /\ stream \in [Calls -> StreamState] /\ task \in [Calls -> TaskState]
      /\ UNCHANGED <<host, disk, proc, plugin, daemon, ioFaults, kills>>
  BY CallIs DEF Register, CallStates
<1>1. /\ Spoken(c) /\ proc[c].os = "none" /\ proc[c].child = "none" /\ host[c].result # "output"
      /\ \A i \in 1..Len(stream[c].said) : stream[c].said[i] # "completed"
  BY <1>0 DEF CallFits, Spoken, Returned
<1>2. Continues(stream[c].said, stream[c].said)
  BY CallNumbers DEF Continues
<1>3. CASE plugin = "up" /\ stream[c].live
  <2>1. Step(c, "start") /\ UNCHANGED stream
    BY <1>3 DEF Register
  <2>2. /\ task' \in [Calls -> TaskState] /\ \A d \in Calls : d # c => task'[d] = task[d]
        /\ task'[c].pc = "start"
    BY <2>1, StepIs
  <2>3. CallStates'
    BY <1>0, <2>1, <2>2 DEF CallStates
  <2>4. Spoken(c)' /\ Quiet(c)'
    BY <1>0, <1>1, <2>1, <2>2 DEF Spoken, Quiet
  <2> QED  BY <1>0, <1>1, <1>2, <1>3, <2>1, <2>2, <2>3, <2>4, SpeakerKeeps
<1>4. CASE ~ (plugin = "up" /\ stream[c].live)
  <2> DEFINE n == [stream[c] EXCEPT !.end = "error"]
  <2>1. stream' = [stream EXCEPT ![c] = n] /\ UNCHANGED task
    BY <1>0, <1>4 DEF Register
  <2>2. n \in StreamState /\ n.said = stream[c].said /\ n.next = stream[c].next /\ n.end = "error"
    BY <1>0 DEF StreamState
  <2> HIDE DEF n
  <2>3. stream' \in [Calls -> StreamState] /\ stream'[c] = n
        /\ \A d \in Calls : d # c => stream'[d] = stream[d]
    BY <1>0, <2>1, <2>2
  <2>4. CallStates'
    BY <1>0, <2>1, <2>3 DEF CallStates
  <2>5. Spoken(c)' /\ Quiet(c)'
    BY <1>0, <1>1, <2>1, <2>2, <2>3 DEF Spoken, Quiet
  <2> QED  BY <1>0, <1>1, <1>2, <2>1, <2>2, <2>3, <2>4, <2>5, SpeakerKeeps
<1> QED  BY <1>3, <1>4

\* The handler announces itself.
LEMMA StartedKeeps ==
    ASSUME CallsIInv, NEW c \in Calls, Started(c)
    PROVE  CallsIInv'
<1>0. /\ CallFits(c) /\ task[c].pc = "start" /\ Say(c, <<"started">>)
      /\ (Step(c, "spawn") \/ Failing(c, "finish")) /\ UNCHANGED <<host, disk, proc, plugin, daemon, kills>>
      /\ proc' \in [Calls -> ProcState] /\ stream[c].said \in Seq(CallEvents)
      /\ Logs(stream[c].said) \in Nat
  BY CallIs, CallNumbers DEF Started, CallStates
<1>1. /\ Spoken(c) /\ proc[c].os = "none" /\ proc[c].child = "none"
  BY <1>0 DEF CallFits, Spoken
<1>2. GoesOn(stream[c].said, stream[c].said \o <<"started">>, 0)
  <2>1. "started" \in CallEvents \ {"completed"} /\ "line" \in CallEvents \ {"completed", "log"}
    BY DEF CallEvents, Terminal
  <2> QED  BY <1>0, <2>1, Saying
<1>3. /\ stream' \in [Calls -> StreamState] /\ \A d \in Calls : d # c => stream'[d] = stream[d]
      /\ stream'[c].next = stream[c].next /\ stream'[c].end = stream[c].end
      /\ GoesOn(stream[c].said, stream'[c].said, 0)
  BY <1>0, <1>2, SayIs
<1>4. /\ task' \in [Calls -> TaskState] /\ \A d \in Calls : d # c => task'[d] = task[d]
      /\ task'[c].pc = "spawn" \/ (task'[c].pc = "finish" /\ task'[c].failed)
  BY <1>0, StepIs
<1>5. Quiet(c)'
  BY <1>0, <1>1 DEF Quiet
<1>6. Logs(stream[c].said) + 0 <= proc'[c].chunks
      /\ (~ proc'[c].broken => Logs(stream[c].said) + 0 = proc'[c].chunks)
  BY <1>0, <1>1 DEF Spoken
<1> QED  BY <1>0, <1>1, <1>3, <1>4, <1>5, <1>6, ActiveSpeaks

\* The process starts, or not; a request ends; the process is gone.
LEMMA TaskStepKeeps ==
    ASSUME CallsIInv, NEW c \in Calls,
           Spawn(c) \/ RunReturns(c) \/ Terminate(c) \/ CancelCall(c) \/ \E ok \in BOOLEAN : Request(c, ok)
    PROVE  CallsIInv'
<1>0. /\ CallStates /\ CallFits(c) /\ stream[c].said \in Seq(CallEvents) /\ Logs(stream[c].said) \in Nat
      /\ UNCHANGED <<host, disk, stream, plugin, daemon, kills>>
      /\ stream \in [Calls -> StreamState] /\ task \in [Calls -> TaskState]
      /\ proc \in [Calls -> ProcState] /\ task[c] \in TaskState /\ proc[c] \in ProcState
  BY CallIs, CallNumbers DEF Spawn, RunReturns, Terminate, CancelCall, Request, CallStates
<1>1. GoesOn(stream[c].said, stream'[c].said, 0)
  <2>1. Len(stream[c].said) \in Nat
    BY <1>0
  <2> QED  BY <1>0, <2>1 DEF GoesOn, Continues
<1>2. stream' \in [Calls -> StreamState] /\ stream'[c].next = stream[c].next
      /\ stream'[c].end = stream[c].end /\ \A d \in Calls : stream'[d] = stream[d]
  BY <1>0
<1>3. ASSUME proc'[c].chunks = proc[c].chunks, proc'[c].broken = proc[c].broken
      PROVE  /\ Logs(stream[c].said) + 0 <= proc'[c].chunks
             /\ ~ proc'[c].broken => Logs(stream[c].said) + 0 = proc'[c].chunks
  BY <1>0, <1>3 DEF CallFits, Spoken
<1>4. ASSUME NEW ok \in BOOLEAN, Request(c, ok) PROVE CallsIInv'
  <2>1. task[c].pc = "spawn" /\ task[c].kind = "http" /\ UNCHANGED proc
        /\ (Step(c, "finish") \/ Failing(c, "finish"))
    BY <1>4 DEF Request
  <2>2. /\ task' \in [Calls -> TaskState] /\ \A d \in Calls : d # c => task'[d] = task[d]
        /\ task'[c].pc = "finish" /\ task'[c].kind = "http"
    BY <2>1, StepIs
  <2>3. EndedWell(c)' /\ Quiet(c)'
    BY <1>0, <2>1, <2>2 DEF EndedWell, Quiet, CallFits, Spoken
  <2> QED  BY <1>0, <1>1, <1>2, <1>3, <2>1, <2>2, <2>3, ActiveSpeaks
<1>5. CASE Spawn(c)
  <2>1. CASE Step(c, "run") /\ proc' = [proc EXCEPT ![c].os = "running"]
    <3>1. /\ task' \in [Calls -> TaskState] /\ \A d \in Calls : d # c => task'[d] = task[d]
          /\ task'[c].pc = "run"
      BY <2>1, StepIs
    <3> DEFINE n == [proc[c] EXCEPT !.os = "running"]
    <3>2. n \in ProcState /\ n.chunks = proc[c].chunks /\ n.broken = proc[c].broken
      BY <1>0 DEF ProcState
    <3>3. proc' = [proc EXCEPT ![c] = n]
      BY <1>0, <2>1
    <3> HIDE DEF n
    <3>4. proc' \in [Calls -> ProcState] /\ proc'[c] = n /\ \A d \in Calls : d # c => proc'[d] = proc[d]
      BY <1>0, <3>2, <3>3
    <3>5. Quiet(c)' /\ task[c].pc = "spawn"
      BY <1>5, <3>1 DEF Quiet, Spawn
    <3> QED  BY <1>0, <1>1, <1>2, <1>3, <3>1, <3>2, <3>4, <3>5, ActiveSpeaks
  <2>2. CASE Failing(c, "report") /\ UNCHANGED proc
    <3>1. /\ task' \in [Calls -> TaskState] /\ \A d \in Calls : d # c => task'[d] = task[d]
          /\ task'[c].pc = "report" /\ task'[c].failed
      BY <2>2, StepIs
    <3>2. Quiet(c)' /\ task[c].pc = "spawn"
      BY <1>0, <1>5, <2>2, <3>1 DEF Quiet, Spawn, CallFits, Spoken
    <3> QED  BY <1>0, <1>1, <1>2, <1>3, <2>2, <3>1, <3>2, ActiveSpeaks
  <2> QED  BY <1>5, <2>1, <2>2 DEF Spawn
<1>6. CASE RunReturns(c)
  <2> DEFINE n == [task[c] EXCEPT !.pc = "report", !.failed = ~proc[c].ok \/ proc[c].broken]
  <2>1. task[c].pc = "run" /\ proc[c].os = "exited" /\ proc[c].child # "piped" /\ UNCHANGED proc
        /\ task' = [task EXCEPT ![c] = n]
    BY <1>0, <1>6 DEF RunReturns, Done
  <2>2. n \in TaskState /\ n.pc = "report" /\ (~ n.failed => proc[c].ok /\ ~ proc[c].broken)
    BY <1>0 DEF TaskState, ProcState
  <2> HIDE DEF n
  <2>3. task' \in [Calls -> TaskState] /\ task'[c] = n /\ \A d \in Calls : d # c => task'[d] = task[d]
    BY <1>0, <2>1, <2>2
  <2>4. Quiet(c)' /\ (~ task'[c].failed => EndedWell(c)')
    BY <2>1, <2>2, <2>3 DEF Quiet, EndedWell
  <2> QED  BY <1>0, <1>1, <1>2, <1>3, <2>1, <2>2, <2>3, <2>4, ActiveSpeaks
<1>7. CASE Terminate(c)
  <2> DEFINE n == [proc[c] EXCEPT !.killer = "term"]
  <2>1. task[c].pc = "run" /\ UNCHANGED task /\ proc' = [proc EXCEPT ![c] = n]
    BY <1>0, <1>7 DEF Terminate
  <2>2. n \in ProcState /\ n.chunks = proc[c].chunks /\ n.broken = proc[c].broken
    BY <1>0 DEF ProcState
  <2> HIDE DEF n
  <2>3. proc' \in [Calls -> ProcState] /\ proc'[c] = n /\ \A d \in Calls : d # c => proc'[d] = proc[d]
    BY <1>0, <2>1, <2>2
  <2>4. Quiet(c)'
    BY <2>1 DEF Quiet
  <2> QED  BY <1>0, <1>1, <1>2, <1>3, <2>1, <2>2, <2>3, <2>4, ActiveSpeaks
<1>8. CASE CancelCall(c)
  <2> DEFINE n == [task[c] EXCEPT !.cancelled = TRUE]
  <2>1. task[c].pc \notin {"none", "gone"} /\ UNCHANGED proc /\ task' = [task EXCEPT ![c] = n]
    BY <1>0, <1>8 DEF CancelCall, Active
  <2>2. n \in TaskState /\ n.pc = task[c].pc /\ n.failed = task[c].failed /\ n.kind = task[c].kind
    BY <1>0 DEF TaskState
  <2> HIDE DEF n
  <2>3. task' \in [Calls -> TaskState] /\ task'[c] = n /\ \A d \in Calls : d # c => task'[d] = task[d]
    BY <1>0, <2>1, <2>2
  <2>4. /\ plugin # "dead" => Quiet(c)'
        /\ task'[c].pc \in {"report", "finish"} /\ ~ task'[c].failed => EndedWell(c)'
        /\ task'[c].pc \in {"start", "spawn"} => proc'[c].os = "none" /\ proc'[c].child = "none"
    BY <1>0, <2>1, <2>2, <2>3 DEF Quiet, EndedWell, CallFits, Spoken
  <2> QED  BY <1>0, <1>1, <1>2, <1>3, <2>1, <2>2, <2>3, <2>4, ActiveSpeaks
<1> QED  BY <1>4, <1>5, <1>6, <1>7, <1>8

\* A chunk is said, or its sender fails and the call with it.
LEMMA EmitChunkKeeps ==
    ASSUME CallsIInv, NEW c \in Calls, NEW whole \in BOOLEAN, EmitChunk(c, whole)
    PROVE  CallsIInv'
<1> DEFINE p == proc[c]
           live == stream[c].live
           n == [p EXCEPT !.chunks = p.chunks + 1, !.broken = p.broken \/ ~live,
                          !.killer = IF live THEN p.killer ELSE Killed(p)]
<1>0. /\ CallStates /\ CallFits(c) /\ stream[c].said \in Seq(CallEvents) /\ Logs(stream[c].said) \in Nat
      /\ UNCHANGED <<host, disk, plugin, daemon, kills>>
      /\ stream \in [Calls -> StreamState] /\ task \in [Calls -> TaskState]
      /\ proc \in [Calls -> ProcState] /\ task[c] \in TaskState /\ p \in ProcState
      /\ task[c].pc = "run" /\ p.chunks < MaxChunks /\ p.chunks \in Nat /\ live \in BOOLEAN
  <2>1. live \in BOOLEAN
    BY CallIs DEF StreamState
  <2> QED  BY <2>1, CallIs, CallNumbers DEF EmitChunk, CallStates
<1>1. proc' = [proc EXCEPT ![c] = n]
  BY DEF EmitChunk
<1>2. n \in ProcState /\ n.chunks = p.chunks + 1 /\ n.broken = (p.broken \/ ~live)
  <2>1. p.chunks + 1 \in 0..MaxChunks
    BY <1>0, CallsAssumption
  <2>2. (p.broken \/ ~live) \in BOOLEAN
    BY <1>0 DEF ProcState
  <2>3. (IF live THEN p.killer ELSE Killed(p)) \in {"none", "term", "kill"}
    BY <1>0 DEF Killed, ProcState
  <2> QED  BY <1>0, <2>1, <2>2, <2>3 DEF ProcState
<1> HIDE DEF n
<1>3. proc' \in [Calls -> ProcState] /\ proc'[c] = n /\ \A d \in Calls : d # c => proc'[d] = proc[d]
  BY <1>0, <1>1, <1>2
<1>4. Logs(stream[c].said) <= p.chunks /\ (~ p.broken => Logs(stream[c].said) = p.chunks)
  BY <1>0 DEF CallFits, Spoken
<1>5. CASE p.broken
  <2>1. UNCHANGED <<stream, task>>
    BY <1>5 DEF EmitChunk
  <2>2. GoesOn(stream[c].said, stream'[c].said, 0)
    <3>1. Len(stream[c].said) \in Nat
      BY <1>0
    <3> QED  BY <1>0, <2>1, <3>1 DEF GoesOn, Continues
  <2>3. Logs(stream[c].said) + 0 <= proc'[c].chunks /\ proc'[c].broken
    <3>1. proc'[c].chunks = p.chunks + 1 /\ proc'[c].broken
      BY <1>2, <1>3, <1>5
    <3> HIDE DEF p
    <3> QED  BY <1>0, <1>4, <3>1
  <2>4. Quiet(c)'
    BY <1>0, <2>1 DEF Quiet
  <2> QED  BY <1>0, <1>3, <2>1, <2>2, <2>3, <2>4, ActiveSpeaks
<1>6. CASE ~ p.broken
  <2> DEFINE ks == IF task[c].kind = "agent" /\ whole THEN <<"log", "line">> ELSE <<"log">>
             tn == [task[c] EXCEPT !.line = task[c].kind = "agent" /\ ~whole /\ live]
             k == IF live THEN 1 ELSE 0
  <2>1. Say(c, ks) /\ task' = [task EXCEPT ![c] = tn]
    BY <1>0, <1>6 DEF EmitChunk
  <2>2. GoesOn(stream[c].said, stream[c].said \o ks, 1)
    <3>1. "log" \in CallEvents \ {"completed"} /\ "line" \in CallEvents \ {"completed", "log"}
      BY DEF CallEvents, Terminal
    <3>2. GoesOn(stream[c].said, stream[c].said \o <<"log">>, 1)
          /\ GoesOn(stream[c].said, stream[c].said \o <<"log", "line">>, 1)
      BY <1>0, <3>1, Saying
    <3> QED  BY <3>2
  <2> HIDE DEF ks
  <2>3. /\ stream' \in [Calls -> StreamState] /\ \A d \in Calls : d # c => stream'[d] = stream[d]
        /\ stream'[c].next = stream[c].next /\ stream'[c].end = stream[c].end
        /\ GoesOn(stream[c].said, stream'[c].said, k)
    BY <2>1, <2>2, SayIs
  <2>4. tn \in TaskState /\ tn.pc = "run"
    <3>1. (task[c].kind = "agent" /\ ~whole /\ live) \in BOOLEAN
      BY <1>0
    <3> QED  BY <1>0, <3>1 DEF TaskState
  <2> HIDE DEF tn
  <2>5. task' \in [Calls -> TaskState] /\ task'[c] = tn /\ \A d \in Calls : d # c => task'[d] = task[d]
    BY <1>0, <2>1, <2>4
  <2>6. k \in Nat /\ Logs(stream[c].said) + k <= proc'[c].chunks
        /\ (~ proc'[c].broken => Logs(stream[c].said) + k = proc'[c].chunks)
    <3>1. proc'[c].chunks = p.chunks + 1 /\ proc'[c].broken = ~live
      BY <1>0, <1>2, <1>3, <1>6
    <3>2. k \in Nat /\ (live => k = 1) /\ (~ live => k = 0)
      OBVIOUS
    <3>3. Logs(stream[c].said) = p.chunks /\ p.chunks \in Nat /\ live \in BOOLEAN
      BY <1>0, <1>4, <1>6
    <3> HIDE DEF p, k, live
    <3>4. Logs(stream[c].said) + k <= p.chunks + 1 /\ (live => Logs(stream[c].said) + k = p.chunks + 1)
      BY <3>2, <3>3
    <3> QED  BY <3>1, <3>2, <3>3, <3>4
  <2>7. Quiet(c)'
    BY <2>4, <2>5 DEF Quiet
  <2> HIDE DEF k
  <2> QED  BY <1>0, <1>3, <2>3, <2>4, <2>5, <2>6, <2>7, ActiveSpeaks
<1> QED  BY <1>5, <1>6

\* SIGKILL ends the process and its group.
LEMMA KillKeeps ==
    ASSUME CallsIInv, NEW c \in Calls, Kill(c)
    PROVE  CallsIInv'
<1> DEFINE p == proc[c]
           n == [p EXCEPT !.killer = "kill", !.ok = p.ok /\ p.os # "running",
                          !.os = "exited", !.child = IF p.child = "none" THEN "none" ELSE "gone"]
<1>0. /\ CallStates /\ CallFits(c) /\ stream[c].said \in Seq(CallEvents) /\ Logs(stream[c].said) \in Nat
      /\ UNCHANGED <<host, disk, stream, task, plugin, daemon, kills>>
      /\ stream \in [Calls -> StreamState] /\ task \in [Calls -> TaskState]
      /\ proc \in [Calls -> ProcState] /\ p \in ProcState /\ task[c].pc = "run"
  BY CallIs, CallNumbers DEF Kill, CallStates
<1>1. proc' = [proc EXCEPT ![c] = n]
  BY DEF Kill
<1>2. n \in ProcState /\ n.chunks = p.chunks /\ n.broken = p.broken
  BY <1>0 DEF ProcState
<1> HIDE DEF n
<1>3. proc' \in [Calls -> ProcState] /\ proc'[c] = n /\ \A d \in Calls : d # c => proc'[d] = proc[d]
  BY <1>0, <1>1, <1>2
<1>4. GoesOn(stream[c].said, stream'[c].said, 0)
  <2>1. Len(stream[c].said) \in Nat
    BY <1>0
  <2> QED  BY <1>0, <2>1 DEF GoesOn, Continues
<1>5. Logs(stream[c].said) + 0 <= proc'[c].chunks
      /\ (~ proc'[c].broken => Logs(stream[c].said) + 0 = proc'[c].chunks)
  BY <1>0, <1>2, <1>3 DEF CallFits, Spoken
<1>6. Quiet(c)'
  BY <1>0 DEF Quiet
<1> QED  BY <1>0, <1>3, <1>4, <1>5, <1>6, ActiveSpeaks

\* Two events said at once.
LEMMA TwoEvents ==
    ASSUME NEW x, NEW y
    PROVE  <<x>> \o <<y>> = <<x, y>>
<1> DEFINE S == {x, y}
<1>1. <<x>> \in Seq(S) /\ <<y>> \in Seq(S) /\ Len(<<x>>) = 1 /\ Len(<<y>>) = 1
  OBVIOUS
<1>2. /\ <<x>> \o <<y>> \in Seq(S) /\ Len(<<x>> \o <<y>>) = 2
      /\ \A i \in 1..2 : (<<x>> \o <<y>>)[i] = IF i <= 1 THEN <<x>>[i] ELSE <<y>>[i - 1]
  BY <1>1, ConcatProperties
<1>3. <<x, y>> \in Seq(S) /\ Len(<<x, y>>) = 2 /\ <<x, y>>[1] = x /\ <<x, y>>[2] = y
  OBVIOUS
<1>4. \A i \in 1..2 : (<<x>> \o <<y>>)[i] = <<x, y>>[i]
  BY <1>2, <1>3
<1> HIDE DEF S
<1> QED  BY <1>2, <1>3, <1>4, SeqEqual

\* The unfinished line and the outcome of the process.
LEMMA ReportKeeps ==
    ASSUME CallsIInv, NEW c \in Calls, Report(c)
    PROVE  CallsIInv'
<1> DEFINE line == IF task[c].line THEN <<"line">> ELSE <<>>
           outcome == IF task[c].kind = "exec" /\ task[c].failed THEN <<"process">> ELSE <<>>
           ks == line \o outcome
<1>0. /\ CallStates /\ CallFits(c) /\ stream[c].said \in Seq(CallEvents) /\ Logs(stream[c].said) \in Nat
      /\ UNCHANGED <<host, disk, proc, plugin, daemon, kills>>
      /\ proc \in [Calls -> ProcState] /\ task[c].pc = "report" /\ Step(c, "finish") /\ Say(c, ks)
  BY CallIs, CallNumbers DEF Report, CallStates
<1>1. GoesOn(stream[c].said, stream[c].said \o ks, 0)
  <2>1. {"line", "process"} \subseteq CallEvents \ {"completed", "log"}
    BY DEF CallEvents, Terminal
  <2>2. /\ GoesOn(stream[c].said, stream[c].said, 0)
        /\ GoesOn(stream[c].said, stream[c].said \o <<"line">>, 0)
        /\ GoesOn(stream[c].said, stream[c].said \o <<"process">>, 0)
        /\ GoesOn(stream[c].said, stream[c].said \o <<"line", "process">>, 0)
    <3>1. "line" \in CallEvents \ {"completed"} /\ "process" \in CallEvents \ {"completed"}
          /\ "process" \in CallEvents \ {"completed", "log"}
      BY <2>1
    <3> QED  BY <1>0, <3>1, Saying
  <2>3. ks \in {<<>>, <<"line">>, <<"process">>, <<"line", "process">>}
    <3>1. /\ <<>> \o <<>> = <<>> /\ <<"line">> \o <<>> = <<"line">>
          /\ <<>> \o <<"process">> = <<"process">>
      <4>1. <<>> \in Seq(CallEvents) /\ <<"line">> \in Seq(CallEvents)
            /\ <<"process">> \in Seq(CallEvents)
        BY DEF CallEvents
      <4> QED  BY <4>1, ConcatEmptySeq
    <3>3. <<"line">> \o <<"process">> = <<"line", "process">>
      BY TwoEvents
    <3>2. line \in {<<>>, <<"line">>} /\ outcome \in {<<>>, <<"process">>}
      OBVIOUS
    <3> HIDE DEF line, outcome
    <3> QED  BY <3>1, <3>2, <3>3
  <2> HIDE DEF ks
  <2>4. ks = <<>> => stream[c].said \o ks = stream[c].said
    BY <1>0
  <2> QED  BY <2>2, <2>3, <2>4
<1> HIDE DEF ks
<1>2. /\ stream' \in [Calls -> StreamState] /\ \A d \in Calls : d # c => stream'[d] = stream[d]
      /\ stream'[c].next = stream[c].next /\ stream'[c].end = stream[c].end
      /\ GoesOn(stream[c].said, stream'[c].said, 0)
  BY <1>0, <1>1, SayIs
<1>3. /\ task' \in [Calls -> TaskState] /\ \A d \in Calls : d # c => task'[d] = task[d]
      /\ task'[c].pc = "finish" /\ task'[c].kind = task[c].kind /\ task'[c].failed = task[c].failed
  BY <1>0, StepIs
<1>4. /\ Logs(stream[c].said) + 0 <= proc'[c].chunks
      /\ ~ proc'[c].broken => Logs(stream[c].said) + 0 = proc'[c].chunks
  BY <1>0 DEF CallFits, Spoken
<1>5. /\ plugin # "dead" => Quiet(c)'
      /\ ~ task'[c].failed => EndedWell(c)'
  BY <1>0, <1>3 DEF Quiet, EndedWell, CallFits, Spoken
<1> QED  BY <1>0, <1>2, <1>3, <1>4, <1>5, ActiveSpeaks

\* The terminal event and the end of the stream.
LEMMA FinishKeeps ==
    ASSUME CallsIInv, NEW c \in Calls, NEW meets \in BOOLEAN, Finish(c, meets)
    PROVE  CallsIInv'
<1> DEFINE s == stream[c]
           x == IF task[c].failed \/ ~meets THEN "failed" ELSE "completed"
           said == IF s.live THEN Append(s.said, x) ELSE s.said
           end == IF ~s.live \/ (task[c].failed /\ task[c].kind = "agent") THEN "error" ELSE "eof"
           n == [s EXCEPT !.said = said, !.end = end]
<1>0. /\ CallStates /\ CallFits(c) /\ s.said \in Seq(CallEvents) /\ Logs(s.said) \in Nat
      /\ UNCHANGED <<host, disk, proc, plugin, daemon, kills>> /\ s \in StreamState
      /\ stream \in [Calls -> StreamState] /\ task[c].pc = "finish" /\ Step(c, "gone")
      /\ Len(s.said) \in Nat
  BY CallIs, CallNumbers DEF Finish, CallStates
<1>1. stream' = [stream EXCEPT ![c] = n]
  BY DEF Finish
<1>2. /\ said \in Seq(CallEvents) /\ Continues(s.said, said) /\ Logs(said) = Logs(s.said)
      /\ \A i \in 1..Len(said) : said[i] = "completed" =>
            (i \in 1..Len(s.said) /\ s.said[i] = "completed") \/ ~ task[c].failed
  <2>1. x \in CallEvents /\ x # "log" /\ (x = "completed" => ~ task[c].failed)
    BY DEF CallEvents, Terminal
  <2> HIDE DEF x
  <2>2. CASE s.live
    <3> DEFINE u == Append(s.said, x)
    <3>1. /\ u \in Seq(CallEvents) /\ Len(u) = Len(s.said) + 1 /\ u[Len(s.said) + 1] = x
          /\ (\A i \in 1..Len(s.said) : u[i] = s.said[i]) /\ Logs(u) = Logs(s.said)
      BY <1>0, <2>1, OneMore
    <3>2. said = u
      BY <2>2
    <3> HIDE DEF u, s, said
    <3>3. \A i \in 1..Len(u) : i \in 1..Len(s.said) \/ i = Len(s.said) + 1
      BY <1>0, <3>1
    <3>4. Len(s.said) <= Len(u)
      BY <1>0, <3>1
    <3> QED  BY <2>1, <3>1, <3>2, <3>3, <3>4 DEF Continues
  <2>3. CASE ~ s.live
    BY <1>0, <2>3 DEF Continues
  <2> QED  BY <2>2, <2>3
<1>3. end \in {"eof", "error"}
  OBVIOUS
<1> HIDE DEF said, end
<1>4. n \in StreamState /\ n.said = said /\ n.next = s.next /\ n.end = end
  BY <1>0, <1>2, <1>3 DEF StreamState
<1> HIDE DEF n
<1>5. stream' \in [Calls -> StreamState] /\ stream'[c] = n /\ \A d \in Calls : d # c => stream'[d] = stream[d]
  BY <1>0, <1>1, <1>4
<1>6. /\ task' \in [Calls -> TaskState] /\ \A d \in Calls : d # c => task'[d] = task[d]
      /\ task'[c].pc = "gone" /\ task'[c].kind = task[c].kind
  BY <1>0, StepIs
<1>7. CallStates'
  BY <1>0, <1>5, <1>6 DEF CallStates
<1>8. Spoken(c)'
  <2>1. Logs(said) <= proc[c].chunks /\ (~ proc[c].broken => Logs(said) = proc[c].chunks)
    BY <1>0, <1>2 DEF CallFits, Spoken
  <2>2. ASSUME NEW i \in 1..Len(said), said[i] = "completed" PROVE EndedWell(c)'
    <3>1. EndedWell(c)
      BY <1>0, <1>2, <2>2 DEF CallFits, Spoken
    <3> QED  BY <1>0, <1>6, <3>1 DEF EndedWell
  <2> QED  BY <1>0, <1>4, <1>5, <1>6, <2>1, <2>2 DEF Spoken
<1>9. /\ plugin # "dead" => Quiet(c)'
      /\ host[c].result # "output" /\ host[c].pc # "idle"
  BY <1>0, <1>6 DEF Quiet, CallFits, Spoken, Returned
<1> QED  BY <1>0, <1>2, <1>4, <1>5, <1>6, <1>7, <1>8, <1>9, SpeakerKeeps

\* The process and its descendants go their own way.
LEMMA ProcessMoves ==
    ASSUME CallsIInv, NEW c \in Calls, Fork(c) \/ Exit(c) \/ ChildExits(c)
    PROVE  CallsIInv'
<1> DEFINE p == proc[c]
<1>0. /\ CallStates /\ CallFits(c) /\ p \in ProcState /\ proc \in [Calls -> ProcState]
      /\ UNCHANGED <<host, disk, stream, task, plugin, daemon, kills>>
  BY CallIs DEF Fork, Exit, ChildExits, CallStates
<1>1. PICK q \in ProcState :
         /\ proc' = [proc EXCEPT ![c] = q] /\ q.chunks = p.chunks /\ q.broken = p.broken
         /\ \/ p.os = "running" /\ q.os \in {"running", "exited"}
            \/ q.os = p.os /\ q.ok = p.ok /\ q.child = "gone" /\ p.child # "none"
         /\ q.os = "exited" => q.child = p.child \/ q.child = "gone"
  <2>1. CASE Fork(c)
    <3>1. PICK h \in {"piped", "loose"} : proc' = [proc EXCEPT ![c].child = h]
      BY <2>1 DEF Fork
    <3> DEFINE q == [p EXCEPT !.child = h]
    <3>2. proc' = [proc EXCEPT ![c] = q] /\ p.os = "running"
      BY <1>0, <2>1, <3>1 DEF Fork
    <3>3. q \in ProcState /\ q.chunks = p.chunks /\ q.broken = p.broken /\ q.os = p.os
      BY <1>0 DEF ProcState
    <3> QED  BY <3>2, <3>3
  <2>2. CASE Exit(c)
    <3>1. PICK ok \in BOOLEAN : proc' = [proc EXCEPT ![c].os = "exited", ![c].ok = ok]
      BY <2>2 DEF Exit
    <3> DEFINE q == [p EXCEPT !.os = "exited", !.ok = ok]
    <3>2. proc' = [proc EXCEPT ![c] = q] /\ p.os = "running"
      BY <1>0, <2>2, <3>1 DEF Exit
    <3>3. q \in ProcState /\ q.chunks = p.chunks /\ q.broken = p.broken /\ q.os = "exited"
          /\ q.child = p.child
      BY <1>0 DEF ProcState
    <3> QED  BY <3>2, <3>3
  <2>3. CASE ChildExits(c)
    <3> DEFINE q == [p EXCEPT !.child = "gone"]
    <3>2. proc' = [proc EXCEPT ![c] = q] /\ p.child # "none"
      BY <1>0, <2>3 DEF ChildExits
    <3>3. q \in ProcState /\ q.chunks = p.chunks /\ q.broken = p.broken /\ q.os = p.os
          /\ q.ok = p.ok /\ q.child = "gone"
      BY <1>0 DEF ProcState
    <3> QED  BY <3>2, <3>3
  <2> QED  BY <2>1, <2>2, <2>3
<1>2. proc' \in [Calls -> ProcState] /\ proc'[c] = q /\ \A d \in Calls : d # c => proc'[d] = proc[d]
  BY <1>0, <1>1
<1>3. CallStates'
  BY <1>0, <1>2 DEF CallStates
<1>4. EndedWell(c) => EndedWell(c)'
  BY <1>0, <1>1, <1>2 DEF EndedWell
<1>5. Spoken(c)'
  BY <1>0, <1>1, <1>2, <1>4 DEF CallFits, Spoken
<1>6. plugin # "dead" => Quiet(c)'
  BY <1>0, <1>1, <1>2 DEF CallFits, Quiet
<1>7. Continues(stream[c].said, stream'[c].said)
  BY <1>0, CallNumbers DEF Continues
<1>8. host[c].pc = "idle" => task'[c].pc = "none"
  BY <1>0 DEF CallFits, Returned
<1>9. plugin = "drained" => task'[c].pc \in {"none", "gone"}
  BY <1>0 DEF CallFits
<1> QED  BY <1>0, <1>2, <1>3, <1>5, <1>6, <1>7, <1>8, <1>9, SpeakerKeeps

\* The context of a call ends.
LEMMA CutIs ==
    ASSUME CallsIInv, NEW c \in Calls, Cut(c)
    PROVE  /\ stream' \in [Calls -> StreamState] /\ task' \in [Calls -> TaskState]
           /\ \A d \in Calls : d # c => stream'[d] = stream[d] /\ task'[d] = task[d]
           /\ stream'[c].said = stream[c].said /\ stream'[c].next = stream[c].next
           /\ stream'[c].end = stream[c].end
           /\ task'[c].pc = task[c].pc /\ task'[c].kind = task[c].kind
           /\ task'[c].failed = task[c].failed
<1>0. /\ stream[c] \in StreamState /\ task[c] \in TaskState
      /\ stream \in [Calls -> StreamState] /\ task \in [Calls -> TaskState]
  BY CallIs DEF CallStates
<1> DEFINE s == [stream[c] EXCEPT !.live = FALSE]
           t == [task[c] EXCEPT !.cancelled = TRUE]
<1>1. stream' = [stream EXCEPT ![c] = s] /\ task' = [task EXCEPT ![c] = t]
  BY <1>0 DEF Cut
<1>2. /\ s \in StreamState /\ s.said = stream[c].said /\ s.next = stream[c].next
      /\ s.end = stream[c].end
  BY <1>0 DEF StreamState
<1>3. /\ t \in TaskState /\ t.pc = task[c].pc /\ t.kind = task[c].kind /\ t.failed = task[c].failed
  BY <1>0 DEF TaskState
<1> HIDE DEF s, t
<1> QED  BY <1>0, <1>1, <1>2, <1>3

\* Nothing but the daemon's side of a call changes.
LEMMA ConsumerKeeps ==
    ASSUME CallsIInv, NEW c \in Calls, CallStates', UNCHANGED <<proc, plugin, daemon, kills>>,
           \A d \in Calls : d # c => /\ host'[d] = host[d] /\ disk'[d] = disk[d]
                                     /\ stream'[d] = stream[d] /\ task'[d] = task[d],
           stream'[c].said = stream[c].said, stream'[c].end = stream[c].end,
           task'[c].pc = task[c].pc, task'[c].failed = task[c].failed,
           task'[c].kind = task[c].kind \/ task[c].pc = "none",
           Consumed(c)', Recorded(c)', Returned(c)',
           kills > 0 => host'[c].pc = "returned",
           kills > 0 /\ daemon = "up" => disk'[c].row = disk'[c].file
    PROVE  CallsIInv'
<1>1. CallFits(c)
  BY CallIs
<1>2. task[c].pc # "none" => EndedWell(c)' = EndedWell(c)
  BY DEF EndedWell
<1>3. Spoken(c)'
  BY <1>1, <1>2 DEF CallFits, Spoken
<1>4. CallFits(c)'
  BY <1>1, <1>3 DEF CallFits, Quiet
<1> QED  BY <1>4, OthersFit

\* The canceller ends the stream of a call.
LEMMA GiveUpKeeps ==
    ASSUME CallsIInv, NEW c \in Calls, GiveUpCall(c)
    PROVE  CallsIInv'
<1>0. CallStates /\ CallFits(c) /\ Cut(c) /\ UNCHANGED <<host, disk, proc, plugin, daemon, kills>>
  BY CallIs DEF GiveUpCall
<1>1. /\ stream' \in [Calls -> StreamState] /\ task' \in [Calls -> TaskState]
      /\ \A d \in Calls : d # c => stream'[d] = stream[d] /\ task'[d] = task[d]
      /\ stream'[c].said = stream[c].said /\ stream'[c].next = stream[c].next
      /\ stream'[c].end = stream[c].end /\ task'[c].pc = task[c].pc
      /\ task'[c].kind = task[c].kind /\ task'[c].failed = task[c].failed
  BY <1>0, CutIs
<1>2. CallStates'
  BY <1>0, <1>1 DEF CallStates
<1>3. Consumed(c)' /\ Recorded(c)' /\ Returned(c)'
  BY <1>0, <1>1 DEF CallFits, Consumed, Recorded, Returned
<1>4. /\ kills > 0 => host'[c].pc = "returned"
      /\ kills > 0 /\ daemon = "up" => disk'[c].row = disk'[c].file
  BY <1>0 DEF CallFits
<1> QED  BY <1>0, <1>1, <1>2, <1>3, <1>4, ConsumerKeeps

\* The state of the consumer of one call after a step.
LEMMA HostIs ==
    ASSUME CallsIInv, NEW c \in Calls, NEW h \in HostState, host' = [host EXCEPT ![c] = h]
    PROVE  host' \in [Calls -> HostState] /\ host'[c] = h /\ \A d \in Calls : d # c => host'[d] = host[d]
<1>1. host \in [Calls -> HostState]
  BY DEF CallsIInv, CallStates
<1> QED  BY <1>1

\* The evidence of one call after a step.
LEMMA DiskIs ==
    ASSUME CallsIInv, NEW c \in Calls, NEW e \in EvidenceState, disk' = [disk EXCEPT ![c] = e]
    PROVE  disk' \in [Calls -> EvidenceState] /\ disk'[c] = e /\ \A d \in Calls : d # c => disk'[d] = disk[d]
<1>1. disk \in [Calls -> EvidenceState]
  BY DEF CallsIInv, CallStates
<1> QED  BY <1>1

\* Only before a crash does the daemon work on a call.
LEMMA BeforeCrash ==
    ASSUME CallsIInv, NEW c \in Calls, host[c].pc # "returned"
    PROVE  ~ (kills > 0)
BY CallIs DEF CallFits

\* A call returns; with an output when all of the stream is evidence.
LEMMA ReturnKeeps ==
    ASSUME CallsIInv, NEW c \in Calls, NEW r \in {"output", "error"}, Return(c, r),
           host[c].pc \notin {"idle", "returned"},
           UNCHANGED <<disk, proc, plugin, daemon, kills>>,
           r = "output" => /\ stream[c].end = "eof" /\ disk[c].events = stream[c].said
                           /\ stream[c].said # <<>>
                           /\ stream[c].said[Len(stream[c].said)] = "completed"
    PROVE  CallsIInv'
<1> DEFINE h == [host[c] EXCEPT !.pc = "returned", !.result = r]
<1>0. CallStates /\ CallFits(c) /\ host[c] \in HostState /\ Cut(c) /\ host \in [Calls -> HostState]
  BY CallIs DEF Return, CallStates
<1>1. host' = [host EXCEPT ![c] = h]
  BY <1>0 DEF Return
<1>2. h \in HostState /\ h.pc = "returned" /\ h.result = r /\ h.terminal = host[c].terminal
  BY <1>0 DEF HostState
<1> HIDE DEF h
<1>3. host' \in [Calls -> HostState] /\ host'[c] = h /\ \A d \in Calls : d # c => host'[d] = host[d]
  BY <1>1, <1>2, HostIs
<1>4. /\ stream' \in [Calls -> StreamState] /\ task' \in [Calls -> TaskState]
      /\ \A d \in Calls : d # c => stream'[d] = stream[d] /\ task'[d] = task[d]
      /\ stream'[c].said = stream[c].said /\ stream'[c].next = stream[c].next
      /\ stream'[c].end = stream[c].end /\ task'[c].pc = task[c].pc
      /\ task'[c].kind = task[c].kind /\ task'[c].failed = task[c].failed
  BY <1>0, CutIs
<1>5. CallStates'
  BY <1>0, <1>3, <1>4 DEF CallStates
<1>6. Consumed(c)'
  BY <1>0, <1>2, <1>3, <1>4 DEF CallFits, Consumed, Persisting
<1>7. Recorded(c)'
  BY <1>0, <1>2, <1>3, <1>4 DEF CallFits, Recorded
<1>8. Returned(c)'
  BY <1>2, <1>3, <1>4 DEF Returned
<1>9. ~ (kills > 0)
  BY BeforeCrash
<1> QED  BY <1>3, <1>4, <1>5, <1>6, <1>7, <1>8, <1>9, ConsumerKeeps

\* A call starts.
LEMMA ExecuteKeeps ==
    ASSUME CallsIInv, NEW c \in Calls, Execute(c)
    PROVE  CallsIInv'
<1> DEFINE h == [host[c] EXCEPT !.pc = "recv"]
<1>0. /\ CallStates /\ CallFits(c) /\ host[c] \in HostState /\ host[c].pc = "idle"
      /\ host \in [Calls -> HostState] /\ task \in [Calls -> TaskState] /\ task[c] \in TaskState
      /\ UNCHANGED <<disk, stream, proc, plugin, daemon, kills>>
  BY CallIs DEF Execute, CallStates
<1>1. host' = [host EXCEPT ![c] = h]
  BY <1>0 DEF Execute
<1>2. h \in HostState /\ h.pc = "recv" /\ h.result = host[c].result /\ h.terminal = host[c].terminal
  BY <1>0 DEF HostState
<1> HIDE DEF h
<1>3. host' \in [Calls -> HostState] /\ host'[c] = h /\ \A d \in Calls : d # c => host'[d] = host[d]
  BY <1>1, <1>2, HostIs
<1>4. PICK k \in Kinds : task' = [task EXCEPT ![c].kind = k]
  BY DEF Execute
<1> DEFINE t == [task[c] EXCEPT !.kind = k]
<1>5. t \in TaskState /\ t.pc = task[c].pc /\ t.failed = task[c].failed /\ task' = [task EXCEPT ![c] = t]
  BY <1>0, <1>4 DEF TaskState
<1> HIDE DEF t
<1>6. task' \in [Calls -> TaskState] /\ task'[c] = t /\ \A d \in Calls : d # c => task'[d] = task[d]
  BY <1>0, <1>5
<1>7. CallStates'
  BY <1>0, <1>3, <1>6 DEF CallStates
<1>8. Consumed(c)' /\ Recorded(c)'
  BY <1>0, <1>2, <1>3 DEF CallFits, Consumed, Recorded, Persisting
<1>9. Returned(c)' /\ task[c].pc = "none"
  BY <1>0, <1>2, <1>3 DEF CallFits, Returned
<1>10. ~ (kills > 0)
  BY <1>0, BeforeCrash
<1> QED  BY <1>0, <1>3, <1>5, <1>6, <1>7, <1>8, <1>9, <1>10, ConsumerKeeps

\* An event is read, or the call fails because it comes after the last.
LEMMA RecvKeeps ==
    ASSUME CallsIInv, NEW c \in Calls, Recv(c)
    PROVE  CallsIInv'
<1> DEFINE s == stream[c]
           e == disk[c].events
           x == s.said[s.next]
           h == [host[c] EXCEPT !.event = x, !.pc = IF x = "log" THEN "append" ELSE "event"]
           n == [s EXCEPT !.next = s.next + 1]
<1>0. /\ CallStates /\ CallFits(c) /\ host[c] \in HostState /\ s \in StreamState
      /\ host[c].pc = "recv" /\ s.next <= Len(s.said)
      /\ host \in [Calls -> HostState] /\ stream \in [Calls -> StreamState]
      /\ UNCHANGED <<disk, proc, plugin, daemon, kills>>
  BY CallIs DEF Recv, CallStates
<1>1. /\ s.said \in Seq(CallEvents) /\ Len(s.said) \in Nat /\ Len(e) \in Nat /\ s.next \in Nat \ {0}
      /\ disk[c].file \in Nat
  BY CallNumbers
<1>2. CASE host[c].terminal # "none"
  <2>1. Return(c, "error")
    BY <1>2 DEF Recv
  <2> QED  BY <1>0, <2>1, ReturnKeeps
<1>3. CASE host[c].terminal = "none"
  <2>1. host' = [host EXCEPT ![c] = h] /\ stream' = [stream EXCEPT ![c] = n] /\ UNCHANGED task
    BY <1>0, <1>3 DEF Recv
  <2>2. x \in CallEvents
    BY <1>0, <1>1
  <2>3. /\ h \in HostState /\ h.event = x /\ h.terminal = "none" /\ h.result = host[c].result
        /\ h.pc = IF x = "log" THEN "append" ELSE "event"
    BY <1>0, <1>3, <2>2 DEF HostState, Persisting
  <2>4. n \in StreamState /\ n.said = s.said /\ n.end = s.end /\ n.next = s.next + 1
    <3>1. s.next + 1 \in Nat \ {0}
      BY <1>1
    <3> QED  BY <1>0, <3>1 DEF StreamState
  <2> HIDE DEF h, n
  <2>5. host' \in [Calls -> HostState] /\ host'[c] = h /\ \A d \in Calls : d # c => host'[d] = host[d]
    BY <2>1, <2>3, HostIs
  <2>6. stream' \in [Calls -> StreamState] /\ stream'[c] = n /\ \A d \in Calls : d # c => stream'[d] = stream[d]
    BY <1>0, <2>1, <2>4
  <2>7. CallStates'
    BY <1>0, <2>1, <2>5, <2>6 DEF CallStates
  <2>8. /\ Len(e) + 1 = s.next /\ \A i \in 1..Len(e) : e[i] = s.said[i] /\ e[i] \notin Terminal
    <3>1. /\ Len(e) + 1 = s.next /\ \A i \in 1..Len(e) : e[i] = s.said[i]
          /\ \A i \in 1..Len(e) : e[i] \in Terminal => e[i] = "none"
      BY <1>0, <1>3 DEF CallFits, Consumed
    <3>2. "none" \notin Terminal
      BY DEF Terminal
    <3> QED  BY <3>1, <3>2
  <2>9. Consumed(c)'
    <3>1. /\ n.next <= Len(n.said) + 1 /\ Len(e) < n.next /\ Len(e) + 2 = n.next /\ n.next - 1 = s.next
      BY <1>0, <1>1, <2>4, <2>8
    <3>2. h.pc \in {"append", "event"} /\ (h.pc = "append" => h.event = "log") /\ h.event = n.said[n.next - 1]
      BY <2>3, <2>4, <3>1
    <3> QED  BY <1>0, <2>3, <2>4, <2>5, <2>6, <2>8, <3>1, <3>2 DEF Consumed, Persisting
  <2>10. Recorded(c)'
    <3>1. /\ disk[c].file <= LogsTo(s.said, s.next - 1) /\ disk[c].row <= disk[c].file
          /\ Logs(e) <= disk[c].row
      BY <1>0 DEF CallFits, Recorded
    <3> DEFINE m == s.next - 1
    <3>2. /\ m \in Nat /\ m + 1 = s.next /\ n.next - 1 = s.next
      BY <1>1, <2>4
    <3>3. /\ LogsTo(s.said, m) \in Nat
          /\ LogsTo(s.said, m + 1) = IF s.said[m + 1] = "log" THEN LogsTo(s.said, m) + 1
                                     ELSE LogsTo(s.said, m)
      <4> HIDE DEF m, s
      <4> QED  BY <3>2, LogsCount
    <3>4. LogsTo(s.said, n.next - 1) = IF x = "log" THEN LogsTo(s.said, m) + 1 ELSE LogsTo(s.said, m)
      BY <3>2, <3>3
    <3>5. /\ disk[c].file <= LogsTo(s.said, n.next - 1)
          /\ x = "log" => disk[c].file < LogsTo(s.said, n.next - 1)
      <4>1. disk[c].file <= LogsTo(s.said, m)
        BY <3>1
      <4> HIDE DEF m, s, x
      <4> QED  BY <1>1, <3>3, <3>4, <4>1
    <3> HIDE DEF x
    <3> QED  BY <1>0, <2>3, <2>4, <2>5, <2>6, <3>1, <3>5 DEF Recorded
  <2>11. Returned(c)'
    BY <1>0, <2>3, <2>5 DEF CallFits, Returned
  <2>12. ~ (kills > 0)
    BY <1>0, BeforeCrash
  <2> QED  BY <1>0, <2>1, <2>4, <2>5, <2>6, <2>7, <2>9, <2>10, <2>11, <2>12, ConsumerKeeps
<1> QED  BY <1>2, <1>3

\* The raw log and its row: the file first.
LEMMA ArtifactKeeps ==
    ASSUME CallsIInv, NEW c \in Calls, AppendFile(c) \/ RegisterArtifact(c)
    PROVE  CallsIInv'
<1> DEFINE d == disk[c]
           next == IF host[c].pc = "append" THEN "register" ELSE "event"
           h == [host[c] EXCEPT !.pc = next]
           e == IF host[c].pc = "append" THEN [d EXCEPT !.file = d.file + 1]
                ELSE [d EXCEPT !.row = d.file]
<1>0. /\ CallStates /\ CallFits(c) /\ host[c] \in HostState /\ d \in EvidenceState
      /\ host[c].pc \in {"append", "register"}
      /\ host \in [Calls -> HostState] /\ disk \in [Calls -> EvidenceState]
      /\ UNCHANGED <<stream, task, proc, plugin, daemon, kills>>
  BY CallIs DEF AppendFile, RegisterArtifact, CallStates
<1>1. d.file \in Nat /\ d.row \in Nat /\ Logs(d.events) \in Nat /\ stream[c].next \in Nat \ {0}
  BY CallNumbers
<1>2. host' = [host EXCEPT ![c] = h] /\ disk' = [disk EXCEPT ![c] = e]
  BY <1>0 DEF AppendFile, RegisterArtifact
<1>3. /\ h \in HostState /\ h.pc = next /\ h.event = host[c].event /\ h.terminal = host[c].terminal
      /\ h.result = host[c].result
  BY <1>0 DEF HostState, Persisting
<1>4. /\ e \in EvidenceState /\ e.events = d.events
      /\ host[c].pc = "append" => e.file = d.file + 1 /\ e.row = d.row
      /\ host[c].pc # "append" => e.file = d.file /\ e.row = d.file
  <2>1. d.file + 1 \in Nat
    BY <1>1
  <2> QED  BY <1>0, <1>1, <2>1 DEF EvidenceState
<1> HIDE DEF h, e
<1>5. /\ host' \in [Calls -> HostState] /\ host'[c] = h /\ \A b \in Calls : b # c => host'[b] = host[b]
      /\ disk' \in [Calls -> EvidenceState] /\ disk'[c] = e /\ \A b \in Calls : b # c => disk'[b] = disk[b]
  BY <1>2, <1>3, <1>4, HostIs, DiskIs
<1>6. CallStates'
  BY <1>0, <1>5 DEF CallStates
<1>7. Consumed(c)'
  <2>1. host[c].pc \in Persisting /\ h.pc \in Persisting /\ h.pc # "append"
        /\ (h.pc = "register" => host[c].pc = "append")
    BY <1>0, <1>3 DEF Persisting
  <2>2. h.pc \notin {"idle", "recv", "returned"}
    BY <2>1 DEF Persisting
  <2> QED  BY <1>0, <1>3, <1>4, <1>5, <2>1, <2>2 DEF CallFits, Consumed
<1>8. Recorded(c)'
  <2> DEFINE k == Logs(d.events)
             m == LogsTo(stream[c].said, stream[c].next - 1)
  <2>1. k \in Nat /\ m \in Nat
    <3>1. stream[c].next - 1 \in Nat
      BY <1>1
    <3> QED  BY <1>1, <3>1, LogsCount
  <2>2. /\ d.row <= d.file /\ k <= d.row /\ d.file <= m
        /\ host[c].pc = "append" => d.file < m
        /\ host[c].pc = "register" => k < d.file
    BY <1>0 DEF CallFits, Recorded
  <2> HIDE DEF k, m
  <2>3. /\ e.row <= e.file /\ k <= e.row /\ e.file <= m
        /\ host[c].pc = "append" => k < e.file
        /\ host[c].pc = "register" => k < e.row
    <3> HIDE DEF d
    <3>1. CASE host[c].pc = "append"
      BY <1>1, <1>4, <2>1, <2>2, <3>1
    <3>2. CASE host[c].pc = "register"
      BY <1>1, <1>4, <2>1, <2>2, <3>2
    <3> QED  BY <1>0, <3>1, <3>2
  <2> QED  BY <1>0, <1>3, <1>4, <1>5, <2>3 DEF Recorded, k, m
<1>9. Returned(c)'
  BY <1>0, <1>3, <1>4, <1>5 DEF CallFits, Returned
<1>10. ~ (kills > 0)
  BY <1>0, BeforeCrash
<1> QED  BY <1>0, <1>5, <1>6, <1>7, <1>8, <1>9, <1>10, ConsumerKeeps

\* An event becomes evidence.
LEMMA EvidenceKeeps ==
    ASSUME CallsIInv, NEW c \in Calls, AppendPluginEvent(c)
    PROVE  CallsIInv'
<1> DEFINE d == disk[c]
           s == stream[c]
           x == host[c].event
           next == IF x \in Terminal \cup {"process"} THEN "outcome" ELSE "recv"
           h == [host[c] EXCEPT !.pc = next]
           e == [d EXCEPT !.events = Append(d.events, x)]
<1>0. /\ CallStates /\ CallFits(c) /\ host[c] \in HostState /\ d \in EvidenceState
      /\ host[c].pc = "event"
      /\ host \in [Calls -> HostState] /\ disk \in [Calls -> EvidenceState]
      /\ UNCHANGED <<stream, task, proc, plugin, daemon, kills>>
  BY CallIs DEF AppendPluginEvent, CallStates
<1>1. /\ d.events \in Seq(CallEvents) /\ Len(d.events) \in Nat /\ s.said \in Seq(CallEvents)
      /\ Len(s.said) \in Nat /\ s.next \in Nat \ {0} /\ d.row \in Nat /\ Logs(d.events) \in Nat
  BY CallNumbers
<1>2. /\ Len(d.events) + 2 = s.next /\ x = s.said[s.next - 1] /\ s.next <= Len(s.said) + 1
      /\ host[c].terminal = "none" /\ \A i \in 1..Len(d.events) : d.events[i] = s.said[i]
      /\ \A i \in 1..Len(d.events) : d.events[i] \notin Terminal
  <2>1. "none" \notin Terminal
    BY DEF Terminal
  <2>2. /\ Len(d.events) + 2 = s.next /\ x = s.said[s.next - 1] /\ s.next <= Len(s.said) + 1
        /\ host[c].terminal = "none" /\ \A i \in 1..Len(d.events) : d.events[i] = s.said[i]
        /\ \A i \in 1..Len(d.events) : d.events[i] \in Terminal => host[c].terminal = d.events[i]
    BY <1>0 DEF CallFits, Consumed, Persisting
  <2> QED  BY <2>1, <2>2
<1>3. x \in CallEvents
  <2>1. s.next - 1 \in 1..Len(s.said)
    <3> HIDE DEF s, d, x
    <3> QED  BY <1>1, <1>2
  <2> QED  BY <1>1, <1>2, <2>1
<1>4. host' = [host EXCEPT ![c] = h] /\ disk' = [disk EXCEPT ![c] = e]
  BY <1>0 DEF AppendPluginEvent
<1> DEFINE v == Append(d.events, x)
<1>5. /\ v \in Seq(CallEvents) /\ Len(v) = Len(d.events) + 1
      /\ v[Len(d.events) + 1] = x /\ \A i \in 1..Len(d.events) : v[i] = d.events[i]
      /\ Logs(v) = IF x = "log" THEN Logs(d.events) + 1 ELSE Logs(d.events)
  BY <1>1, <1>3, OneMore
<1>6. /\ h \in HostState /\ h.pc = next /\ h.event = x /\ h.terminal = "none"
      /\ h.result = host[c].result
  BY <1>0, <1>2 DEF HostState
<1> HIDE DEF v
<1>7. e \in EvidenceState /\ e.events = v /\ e.row = d.row /\ e.file = d.file
  <2>1. e = [d EXCEPT !.events = v]
    BY DEF v
  <2> QED  BY <1>0, <1>5, <2>1 DEF EvidenceState
<1> HIDE DEF h, e
<1>8. /\ host' \in [Calls -> HostState] /\ host'[c] = h /\ \A b \in Calls : b # c => host'[b] = host[b]
      /\ disk' \in [Calls -> EvidenceState] /\ disk'[c] = e /\ \A b \in Calls : b # c => disk'[b] = disk[b]
  BY <1>4, <1>6, <1>7, HostIs, DiskIs
<1>9. CallStates'
  BY <1>0, <1>8 DEF CallStates
<1>10. Consumed(c)'
  <2>1. Len(v) + 1 = s.next /\ Len(v) < s.next /\ Len(v) = s.next - 1 /\ Len(v) > 0
    <3> HIDE DEF s, d, x
    <3> QED  BY <1>1, <1>2, <1>5
  <2>2. \A i \in 1..Len(v) : i \in 1..Len(d.events) \/ i = Len(v)
    <3> HIDE DEF d
    <3> QED  BY <1>1, <1>5
  <2>3. v[Len(v)] = x
    BY <1>5
  <2>4. \A i \in 1..Len(v) : v[i] = s.said[i]
    BY <1>2, <1>5, <2>1, <2>2, <2>3
  <2>5. \A i \in 1..Len(v) : v[i] \in Terminal => i = Len(v) /\ next = "outcome"
    BY <1>2, <1>5, <2>2, <2>3
  <2>6. h.pc \in {"outcome", "recv"} /\ h.pc \notin Persisting
    BY <1>6 DEF Persisting
  <2> HIDE DEF next
  <2> QED  BY <1>0, <1>2, <1>6, <1>7, <1>8, <2>1, <2>3, <2>4, <2>5, <2>6 DEF Consumed
<1>11. Recorded(c)'
  <2>1. /\ d.row <= d.file /\ Logs(d.events) <= d.row
        /\ x = "log" => Logs(d.events) < d.row
        /\ d.file <= LogsTo(s.said, s.next - 1)
    BY <1>0 DEF CallFits, Recorded
  <2>2. Logs(v) <= d.row
    <3> HIDE DEF d, x
    <3> QED  BY <1>1, <1>5, <2>1
  <2> QED  BY <1>0, <1>6, <1>7, <1>8, <2>1, <2>2 DEF Recorded
<1>12. Returned(c)'
  BY <1>0, <1>6, <1>8 DEF CallFits, Returned
<1>13. ~ (kills > 0)
  BY <1>0, BeforeCrash
<1> QED  BY <1>0, <1>8, <1>9, <1>10, <1>11, <1>12, <1>13, ConsumerKeeps

\* The outcome of an event that is evidence; a terminal one is remembered.
LEMMA OutcomeKeeps ==
    ASSUME CallsIInv, NEW c \in Calls, SetNodeAttemptOutcome(c)
    PROVE  CallsIInv'
<1> DEFINE x == host[c].event
           t == IF x \in Terminal THEN x ELSE host[c].terminal
           h == [host[c] EXCEPT !.pc = "recv", !.terminal = t]
<1>0. /\ CallStates /\ CallFits(c) /\ host[c] \in HostState /\ host[c].pc = "outcome"
      /\ UNCHANGED <<disk, stream, task, proc, plugin, daemon, kills>>
  BY CallIs DEF SetNodeAttemptOutcome
<1>1. host' = [host EXCEPT ![c] = h]
  BY <1>0 DEF SetNodeAttemptOutcome
<1>2. h \in HostState /\ h.pc = "recv" /\ h.terminal = t /\ h.result = host[c].result
  BY <1>0 DEF HostState
<1> HIDE DEF h
<1>3. host' \in [Calls -> HostState] /\ host'[c] = h /\ \A d \in Calls : d # c => host'[d] = host[d]
  BY <1>1, <1>2, HostIs
<1>4. CallStates'
  BY <1>0, <1>3 DEF CallStates
<1>5. Consumed(c)'
  <2> DEFINE e == disk[c].events
             s == stream[c]
  <2>1. /\ s.next <= Len(s.said) + 1 /\ Len(e) < s.next /\ Len(e) + 1 = s.next
        /\ \A i \in 1..Len(e) : e[i] = s.said[i]
        /\ Len(e) > 0 /\ x = e[Len(e)] /\ host[c].terminal = "none"
        /\ \A i \in 1..Len(e) : e[i] \in Terminal => i = Len(e)
    BY <1>0 DEF CallFits, Consumed
  <2>2. /\ t # "none" => e[Len(e)] = t
        /\ \A i \in 1..Len(e) : e[i] \in Terminal => t = e[i]
    BY <2>1
  <2>3. "recv" \notin Persisting
    BY DEF Persisting
  <2> HIDE DEF t
  <2> QED  BY <1>0, <1>2, <1>3, <2>1, <2>2, <2>3 DEF Consumed
<1>6. Recorded(c)' /\ Returned(c)'
  BY <1>0, <1>2, <1>3 DEF CallFits, Recorded, Returned
<1>7. ~ (kills > 0)
  BY <1>0, BeforeCrash
<1> QED  BY <1>0, <1>3, <1>4, <1>5, <1>6, <1>7, ConsumerKeeps

\* A write that fails and the end of the stream: the call returns.
LEMMA EndOfCallKeeps ==
    ASSUME CallsIInv, NEW c \in Calls, PersistFails(c) \/ StreamEnds(c)
    PROVE  CallsIInv'
<1> DEFINE s == stream[c]
           e == disk[c].events
<1>0. CallFits(c) /\ UNCHANGED <<disk, proc, plugin, daemon, kills>>
      /\ host[c].pc \notin {"idle", "returned"}
  BY CallIs DEF PersistFails, StreamEnds
<1>1. CASE Return(c, "error")
  BY <1>0, <1>1, ReturnKeeps
<1>2. CASE /\ host[c].pc = "recv" /\ s.next > Len(s.said) /\ s.end = "eof"
           /\ host[c].terminal = "completed" /\ Return(c, "output")
  <2>1. /\ s.said \in Seq(CallEvents) /\ e \in Seq(CallEvents) /\ Len(s.said) \in Nat
        /\ Len(e) \in Nat /\ s.next \in Nat
    BY CallNumbers
  <2>2. /\ s.next <= Len(s.said) + 1 /\ Len(e) + 1 = s.next /\ \A i \in 1..Len(e) : e[i] = s.said[i]
        /\ Len(e) > 0 /\ e[Len(e)] = "completed"
    BY <1>0, <1>2 DEF CallFits, Consumed
  <2>3. Len(e) = Len(s.said)
    <3>1. s.next > Len(s.said)
      BY <1>2
    <3> HIDE DEF s, e
    <3> QED  BY <2>1, <2>2, <3>1
  <2>4. e = s.said
    <3> HIDE DEF s, e
    <3> QED  BY <2>1, <2>2, <2>3, SeqEqual
  <2>5. s.said # <<>> /\ s.said[Len(s.said)] = "completed"
    BY <2>1, <2>2, <2>4
  <2> QED  BY <1>0, <1>2, <2>4, <2>5, ReturnKeeps
<1> QED  BY <1>1, <1>2 DEF PersistFails, StreamEnds

\* The attempt is completed.
LEMMA CompleteKeeps ==
    ASSUME CallsIInv, NEW c \in Calls, Complete(c)
    PROVE  CallsIInv'
<1> DEFINE e == [disk[c] EXCEPT !.completed = TRUE]
<1>0. /\ CallStates /\ CallFits(c) /\ disk[c] \in EvidenceState /\ host[c].pc = "returned"
      /\ disk \in [Calls -> EvidenceState]
      /\ UNCHANGED <<host, stream, task, proc, plugin, daemon, kills>>
  BY CallIs DEF Complete, CallStates
<1>1. disk' = [disk EXCEPT ![c] = e]
  BY <1>0 DEF Complete
<1>2. e \in EvidenceState /\ e.file = disk[c].file /\ e.row = disk[c].row /\ e.events = disk[c].events
  BY <1>0 DEF EvidenceState
<1> HIDE DEF e
<1>3. disk' \in [Calls -> EvidenceState] /\ disk'[c] = e /\ \A d \in Calls : d # c => disk'[d] = disk[d]
  BY <1>1, <1>2, DiskIs
<1>4. CallStates'
  BY <1>0, <1>3 DEF CallStates
<1>5. Consumed(c)' /\ Recorded(c)' /\ Returned(c)'
  BY <1>0, <1>2, <1>3 DEF CallFits, Consumed, Recorded, Returned
<1>6. /\ kills > 0 => host'[c].pc = "returned"
      /\ kills > 0 /\ daemon = "up" => disk'[c].row = disk'[c].file
  BY <1>0, <1>2, <1>3 DEF CallFits
<1> QED  BY <1>0, <1>3, <1>4, <1>5, <1>6, ConsumerKeeps

\* What Spoken needs of a step that leaves the stream as it is: a task stays
\* where it is or is gone.
LEMMA SpokenStays ==
    ASSUME NEW c, Spoken(c), proc' = proc, stream'[c].said = stream[c].said,
           stream'[c].end = "eof" => stream[c].end = "eof",
           task'[c].kind = task[c].kind, task'[c].failed = task[c].failed,
           task'[c].pc \in {task[c].pc, "gone"}
    PROVE  Spoken(c)'
<1>1. EndedWell(c)' = EndedWell(c)
  BY DEF EndedWell
<1> QED  BY <1>1 DEF Spoken

\* The plugin is asked to drain.
LEMMA ShutdownKeeps ==
    ASSUME CallsIInv, Shutdown
    PROVE  CallsIInv'
<1> DEFINE T(d) == [task[d] EXCEPT !.cancelled = task[d].cancelled \/ d \in Active]
<1>0. /\ CallStates /\ UNCHANGED <<host, disk, stream, proc, daemon, kills>> /\ plugin' = "draining"
      /\ plugin = "up" /\ task' = [d \in Calls |-> T(d)] /\ (kills = 0 => daemon = "up")
  BY DEF Shutdown, CallsIInv
<1>1. ASSUME NEW d \in Calls
      PROVE  T(d) \in TaskState /\ T(d).pc = task[d].pc /\ T(d).kind = task[d].kind
             /\ T(d).failed = task[d].failed
  <2>1. task[d] \in TaskState /\ (task[d].cancelled \/ d \in Active) \in BOOLEAN
    BY CallIs DEF TaskState
  <2> QED  BY <2>1 DEF TaskState
<1> HIDE DEF T
<1>2. task' \in [Calls -> TaskState] /\ \A d \in Calls : task'[d] = T(d)
  BY <1>0, <1>1
<1>3. CallStates'
  BY <1>0, <1>2 DEF CallStates
<1>4. ASSUME NEW d \in Calls PROVE CallFits(d)'
  <2>1. CallFits(d) /\ task'[d].pc = task[d].pc /\ task'[d].kind = task[d].kind
        /\ task'[d].failed = task[d].failed
    BY <1>1, <1>2, CallIs
  <2>2. Spoken(d)'
    BY <1>0, <2>1, SpokenStays DEF CallFits
  <2>3. Consumed(d)' /\ Recorded(d)' /\ Returned(d)'
    BY <1>0, <2>1 DEF CallFits, Consumed, Recorded, Returned
  <2>4. Quiet(d)'
    BY <1>0, <2>1 DEF CallFits, Quiet
  <2> QED  BY <1>0, <2>1, <2>2, <2>3, <2>4 DEF CallFits
<1> QED  BY <1>0, <1>3, <1>4 DEF CallsIInv

\* The plugin is gone, drained or killed.
LEMMA PluginDiesKeeps ==
    ASSUME CallsIInv, NEW how \in {"drained", "dead"}, PluginDies(how)
    PROVE  CallsIInv'
<1> DEFINE T(d) == IF d \in Active THEN [task[d] EXCEPT !.pc = "gone"] ELSE task[d]
           S(d) == IF stream[d].end = "open" THEN [stream[d] EXCEPT !.end = "error"] ELSE stream[d]
<1>0. /\ CallStates /\ UNCHANGED <<host, disk, proc, daemon, kills>> /\ plugin' = how
      /\ plugin # "dead" /\ (kills = 0 => daemon = "up") /\ (how = "drained" => Active = {})
      /\ task' = [d \in Calls |-> T(d)] /\ stream' = [d \in Calls |-> S(d)]
  BY DEF PluginDies, CallsIInv
<1>1. ASSUME NEW d \in Calls
      PROVE  /\ T(d) \in TaskState /\ T(d).kind = task[d].kind /\ T(d).failed = task[d].failed
             /\ T(d).pc = IF d \in Active THEN "gone" ELSE task[d].pc
  <2>1. task[d] \in TaskState
    BY CallIs
  <2> QED  BY <2>1 DEF TaskState
<1>2. ASSUME NEW d \in Calls
      PROVE  /\ S(d) \in StreamState /\ S(d).said = stream[d].said /\ S(d).next = stream[d].next
             /\ (S(d).end = "eof") = (stream[d].end = "eof")
  <2>1. stream[d] \in StreamState
    BY CallIs
  <2> QED  BY <2>1 DEF StreamState
<1> HIDE DEF T, S
<1>3. /\ task' \in [Calls -> TaskState] /\ \A d \in Calls : task'[d] = T(d)
      /\ stream' \in [Calls -> StreamState] /\ \A d \in Calls : stream'[d] = S(d)
  BY <1>0, <1>1, <1>2
<1>4. CallStates'
  BY <1>0, <1>3 DEF CallStates
<1>5. ASSUME NEW d \in Calls PROVE CallFits(d)'
  <2>1. /\ CallFits(d) /\ task'[d].kind = task[d].kind /\ task'[d].failed = task[d].failed
        /\ task'[d].pc = IF d \in Active THEN "gone" ELSE task[d].pc
    BY <1>1, <1>3, CallIs
  <2>2. /\ stream'[d].said = stream[d].said /\ stream'[d].next = stream[d].next
        /\ (stream'[d].end = "eof") = (stream[d].end = "eof")
    BY <1>2, <1>3
  <2>3. Spoken(d)'
    BY <1>0, <2>1, <2>2, SpokenStays DEF CallFits
  <2>4. Consumed(d)' /\ Recorded(d)'
    BY <1>0, <2>1, <2>2 DEF CallFits, Consumed, Recorded
  <2>5. Returned(d)'
    <3>1. task[d].pc = "none" => d \notin Active
      BY DEF Active
    <3> QED  BY <1>0, <2>1, <2>2, <3>1 DEF CallFits, Returned
  <2>6. how = "drained" => Quiet(d)' /\ task'[d].pc \in {"none", "gone"}
    <3>1. how = "drained" => d \notin Active /\ task[d].pc \in {"none", "gone"}
      BY <1>0 DEF Active
    <3> QED  BY <1>0, <2>1, <3>1 DEF CallFits, Quiet
  <2> QED  BY <1>0, <2>1, <2>3, <2>4, <2>5, <2>6 DEF CallFits
<1> QED  BY <1>0, <1>4, <1>5 DEF CallsIInv

\* The daemon crashes.
LEMMA CrashKeeps ==
    ASSUME CallsIInv, Crash
    PROVE  CallsIInv'
<1> DEFINE H == [NoHost EXCEPT !.pc = "returned"]
           T(d) == [task[d] EXCEPT !.cancelled = TRUE]
           S(d) == [stream[d] EXCEPT !.live = FALSE]
<1>0. /\ CallStates /\ UNCHANGED <<disk, proc, plugin>> /\ daemon' = "down" /\ kills' = kills + 1
      /\ kills \in Nat /\ host' = [d \in Calls |-> H]
      /\ task' = [d \in Calls |-> T(d)] /\ stream' = [d \in Calls |-> S(d)]
  BY DEF Crash, CallsIInv, CallStates
<1>1. H \in HostState /\ H.pc = "returned" /\ H.result = "none"
  BY DEF NoHost, HostState
<1>2. ASSUME NEW d \in Calls
      PROVE  /\ T(d) \in TaskState /\ T(d).kind = task[d].kind /\ T(d).failed = task[d].failed
             /\ T(d).pc = task[d].pc
  <2>1. task[d] \in TaskState
    BY CallIs
  <2> QED  BY <2>1 DEF TaskState
<1>3. ASSUME NEW d \in Calls
      PROVE  /\ S(d) \in StreamState /\ S(d).said = stream[d].said /\ S(d).next = stream[d].next
             /\ S(d).end = stream[d].end
  <2>1. stream[d] \in StreamState
    BY CallIs
  <2> QED  BY <2>1 DEF StreamState
<1> HIDE DEF T, S, H
<1>4. /\ task' \in [Calls -> TaskState] /\ \A d \in Calls : task'[d] = T(d)
      /\ stream' \in [Calls -> StreamState] /\ \A d \in Calls : stream'[d] = S(d)
      /\ host' \in [Calls -> HostState] /\ \A d \in Calls : host'[d] = H
  BY <1>0, <1>1, <1>2, <1>3
<1>5. CallStates' /\ kills' # 0
  BY <1>0, <1>4 DEF CallStates
<1>6. ASSUME NEW d \in Calls PROVE CallFits(d)'
  <2>1. /\ CallFits(d) /\ task'[d].kind = task[d].kind /\ task'[d].failed = task[d].failed
        /\ task'[d].pc = task[d].pc
    BY <1>2, <1>4, CallIs
  <2>2. /\ stream'[d].said = stream[d].said /\ stream'[d].next = stream[d].next
        /\ stream'[d].end = stream[d].end
    BY <1>3, <1>4
  <2>3. Spoken(d)'
    BY <1>0, <2>1, <2>2, SpokenStays DEF CallFits
  <2>4. Consumed(d)'
    BY <1>0, <1>1, <1>4, <2>1, <2>2 DEF CallFits, Consumed, Persisting
  <2>5. Recorded(d)' /\ Returned(d)'
    BY <1>0, <1>1, <1>4, <2>1, <2>2 DEF CallFits, Recorded, Returned
  <2>6. plugin' # "dead" => Quiet(d)'
    BY <1>0, <2>1 DEF CallFits, Quiet
  <2> QED  BY <1>0, <1>1, <1>4, <2>1, <2>3, <2>4, <2>5, <2>6 DEF CallFits
<1> QED  BY <1>5, <1>6 DEF CallsIInv

\* The daemon starts again and registers what the raw logs hold.
LEMMA ReconcileKeeps ==
    ASSUME CallsIInv, Reconcile
    PROVE  CallsIInv'
<1>0. /\ CallStates /\ UNCHANGED <<host, stream, task, proc, plugin, kills>>
      /\ daemon = "down" /\ kills # 0 /\ kills \in Nat /\ disk \in [Calls -> EvidenceState]
  BY DEF Reconcile, CallsIInv, CallStates
<1>1. CASE daemon' = "refused" /\ UNCHANGED disk
  <2>1. CallStates'
    BY <1>0, <1>1 DEF CallStates
  <2>2. ASSUME NEW d \in Calls PROVE CallFits(d)'
    BY <1>0, <1>1, CallIs DEF CallFits, Consumed, Recorded, Spoken, EndedWell, Returned, Quiet
  <2> QED  BY <1>0, <2>1, <2>2 DEF CallsIInv
<1>2. CASE daemon' = "up" /\ disk' = [d \in Calls |-> [disk[d] EXCEPT !.row = disk[d].file]]
  <2> DEFINE E(d) == [disk[d] EXCEPT !.row = disk[d].file]
  <2>1. ASSUME NEW d \in Calls
        PROVE  /\ E(d) \in EvidenceState /\ E(d).row = disk[d].file /\ E(d).file = disk[d].file
               /\ E(d).events = disk[d].events
    <3>1. disk[d] \in EvidenceState
      BY CallIs
    <3> QED  BY <3>1 DEF EvidenceState
  <2>2. disk' = [d \in Calls |-> E(d)]
    BY <1>2
  <2> HIDE DEF E
  <2>3. disk' \in [Calls -> EvidenceState] /\ \A d \in Calls : disk'[d] = E(d)
    BY <2>1, <2>2
  <2>4. CallStates'
    BY <1>0, <1>2, <2>3 DEF CallStates
  <2>5. ASSUME NEW d \in Calls PROVE CallFits(d)'
    <3>1. /\ CallFits(d) /\ disk'[d].row = disk[d].file /\ disk'[d].file = disk[d].file
          /\ disk'[d].events = disk[d].events /\ host[d].pc = "returned"
      BY <1>0, <2>1, <2>3, CallIs DEF CallFits
    <3>2. Consumed(d)' /\ Spoken(d)' /\ Returned(d)' /\ (plugin # "dead" => Quiet(d)')
      BY <1>0, <3>1 DEF CallFits, Consumed, Spoken, EndedWell, Returned, Quiet
    <3>3. Recorded(d)'
      <4>1. Logs(disk[d].events) \in Nat /\ disk[d].row \in Nat /\ disk[d].file \in Nat
        BY CallNumbers
      <4>2. Logs(disk[d].events) <= disk[d].file /\ disk[d].file <= disk[d].file
        BY <3>1, <4>1 DEF CallFits, Recorded
      <4> QED  BY <1>0, <3>1, <4>2 DEF CallFits, Recorded
    <3> QED  BY <1>0, <3>1, <3>2, <3>3 DEF CallFits
  <2> QED  BY <1>0, <1>2, <2>4, <2>5 DEF CallsIInv
<1> QED  BY <1>1, <1>2 DEF Reconcile

\* A sequence that agrees with another as far as it goes is a prefix of it.
LEMMA EvidencePrefix ==
    ASSUME NEW s \in Seq(CallEvents), NEW t \in Seq(CallEvents), Len(s) <= Len(t),
           \A i \in 1..Len(s) : s[i] = t[i]
    PROVE  IsPrefix(s, t)
<1>1. Len(s) \in Nat /\ Len(t) \in Nat
  OBVIOUS
<1>2. SubSeq(t, 1, Len(s)) \in Seq(CallEvents) /\ Len(SubSeq(t, 1, Len(s))) = Len(s)
      /\ \A i \in 1..Len(s) : SubSeq(t, 1, Len(s))[i] = t[i]
  BY <1>1, SubSeqProperties
<1>3. s = SubSeq(t, 1, Len(s))
  BY <1>2, SeqEqual
<1> QED  BY <1>3 DEF IsPrefix

\* The states of CallsIInv have the properties of CallsInv.
LEMMA CallsFit ==
    ASSUME CallsIInv
    PROVE  CallsInv
<1>1. CallStates /\ (kills = 0 => daemon = "up") /\ \A c \in Calls : CallFits(c)
  BY DEF CallsIInv
<1>2. ASSUME NEW c \in Calls
      PROVE  /\ disk[c].row <= disk[c].file /\ disk[c].file <= MaxChunks
             /\ stream[c].next <= Len(stream[c].said) + 1
             /\ Logs(disk[c].events) <= disk[c].row
             /\ IsPrefix(disk[c].events, stream[c].said)
             /\ \A n \in DOMAIN disk[c].events : disk[c].events[n] \in Terminal => n = Len(disk[c].events)
  <2> DEFINE s == stream[c].said
             e == disk[c].events
             m == stream[c].next - 1
  <2>1. /\ s \in Seq(CallEvents) /\ Len(s) \in Nat /\ e \in Seq(CallEvents) /\ Len(e) \in Nat
        /\ disk[c].file \in Nat /\ stream[c].next \in Nat \ {0} /\ proc[c].chunks \in 0..MaxChunks
        /\ Logs(s) \in Nat
    BY CallNumbers
  <2>2. /\ stream[c].next <= Len(s) + 1 /\ Len(e) < stream[c].next
        /\ \A i \in 1..Len(e) : e[i] = s[i]
        /\ \A i \in 1..Len(e) : e[i] \in Terminal => i = Len(e)
        /\ disk[c].row <= disk[c].file /\ Logs(e) <= disk[c].row
        /\ disk[c].file <= LogsTo(s, m) /\ Logs(s) <= proc[c].chunks
    BY <1>1 DEF CallFits, Consumed, Recorded, Spoken
  <2>3. m \in Nat /\ m <= Len(s) /\ Len(e) <= Len(s)
    <3>1. stream[c].next <= Len(s) + 1 /\ Len(e) < stream[c].next
      BY <2>2
    <3> HIDE DEF s, e
    <3> QED  BY <2>1, <3>1
  <2> HIDE DEF m
  <2>4. LogsTo(s, m) \in Nat /\ LogsTo(s, m) <= LogsTo(s, Len(s)) /\ LogsTo(s, Len(s)) = Logs(s)
    BY <2>1, <2>3, LogsCount, LogsGrow, LogsAre
  <2>5. disk[c].file <= MaxChunks
    BY <2>1, <2>2, <2>4, CallsAssumption
  <2>6. IsPrefix(e, s)
    BY <2>1, <2>2, <2>3, EvidencePrefix
  <2>7. DOMAIN e = 1..Len(e)
    BY <2>1
  <2> QED  BY <2>2, <2>5, <2>6, <2>7
<1>3. CallsTypeOK
  <2>1. ASSUME NEW c \in Calls
        PROVE  /\ host[c].pc \in {"idle", "recv", "append", "register", "event", "outcome", "returned"}
               /\ task[c].pc \in {"none", "start", "spawn", "run", "report", "finish", "gone"}
               /\ proc[c].os \in {"none", "running", "exited"}
    BY CallIs DEF HostState, TaskState, ProcState, Persisting
  <2> QED  BY <1>1, <1>2, <2>1 DEF CallsTypeOK, CallStates
<1>4. EvidenceIsGapless
  BY <1>2 DEF EvidenceIsGapless
<1>5. OutputIsComplete
  <2>1. ASSUME NEW c \in Calls, host[c].result = "output"
        PROVE  /\ disk[c].events = stream[c].said
               /\ Last(disk[c].events) = "completed"
               /\ task[c].kind # "http" => /\ proc[c].os = "exited" /\ proc[c].ok
                                           /\ Logs(disk[c].events) = proc[c].chunks
    <3> DEFINE s == stream[c].said
    <3>1. /\ disk[c].events = s /\ s # <<>> /\ s[Len(s)] = "completed" /\ s \in Seq(CallEvents)
      BY <1>1, <2>1, CallNumbers DEF CallFits, Returned
    <3>2. Len(s) \in 1..Len(s)
      BY <3>1
    <3>3. EndedWell(c) /\ (~ proc[c].broken => Logs(s) = proc[c].chunks)
      BY <1>1, <3>1, <3>2 DEF CallFits, Spoken
    <3> QED  BY <3>1, <3>3 DEF EndedWell, Last
  <2> QED  BY <2>1 DEF OutputIsComplete
<1>6. DrainedProcessesAreGone
  <2>1. ASSUME NEW c \in Calls, plugin = "drained"
        PROVE  proc[c].os # "running" /\ proc[c].child # "piped"
    BY <1>1, <2>1 DEF CallFits, Quiet
  <2> QED  BY <2>1 DEF DrainedProcessesAreGone
<1>7. LogSurvivesCrash
  BY <1>1 DEF CallFits, LogSurvivesCrash
<1> QED  BY <1>3, <1>4, <1>5, <1>6, <1>7 DEF CallsInv

\* No call has started.
LEMMA CallsStart ==
    ASSUME CallsInit
    PROVE  CallsIInv
<1> DEFINE D == [file |-> 0, row |-> 0, events |-> <<>>, completed |-> FALSE]
           S == [said |-> <<>>, next |-> 1, end |-> "open", live |-> TRUE]
<1>0. /\ host = [c \in Calls |-> NoHost] /\ disk = [c \in Calls |-> D]
      /\ stream = [c \in Calls |-> S] /\ task = [c \in Calls |-> NoTask]
      /\ proc = [c \in Calls |-> NoProc]
      /\ plugin = "up" /\ daemon = "up" /\ kills = 0
  BY DEF CallsInit
<1>1. <<>> \in Seq(CallEvents) /\ Len(<<>>) = 0
  OBVIOUS
<1>2. Logs(<<>>) = 0
  BY <1>1, LogsAre, LogsCount
<1>3. /\ NoHost \in HostState /\ NoHost.pc = "idle" /\ NoHost.terminal = "none" /\ NoHost.result = "none"
  BY DEF NoHost, HostState
<1>4. /\ D \in EvidenceState /\ D.file = 0 /\ D.row = 0 /\ D.events = <<>>
  BY <1>1 DEF EvidenceState
<1>5. /\ S \in StreamState /\ S.said = <<>> /\ S.next = 1 /\ S.end = "open"
  BY <1>1 DEF StreamState
<1>6. NoTask \in TaskState /\ NoTask.pc = "none"
  BY DEF NoTask, TaskState
<1>7. /\ NoProc \in ProcState /\ NoProc.os = "none" /\ NoProc.child = "none"
      /\ NoProc.chunks = 0
  BY CallsAssumption DEF NoProc, ProcState
<1> HIDE DEF D, S
<1>8. CallStates
  BY <1>0, <1>3, <1>4, <1>5, <1>6, <1>7 DEF CallStates
<1>9. ASSUME NEW c \in Calls PROVE CallFits(c)
  <2>1. /\ host[c] = NoHost /\ disk[c] = D /\ stream[c] = S /\ task[c] = NoTask /\ proc[c] = NoProc
    BY <1>0
  <2>2. Consumed(c)
    BY <1>1, <1>3, <1>4, <1>5, <2>1 DEF Consumed, Persisting
  <2>3. Recorded(c)
    <3>1. LogsTo(<<>>, 0) = 0
      BY LogsCount
    <3> QED  BY <1>2, <1>3, <1>4, <1>5, <2>1, <3>1 DEF Recorded
  <2>4. Spoken(c)
    BY <1>1, <1>2, <1>5, <1>6, <1>7, <2>1 DEF Spoken
  <2>5. Returned(c) /\ Quiet(c)
    BY <1>3, <1>6, <1>7, <2>1 DEF Returned, Quiet
  <2> QED  BY <1>0, <2>2, <2>3, <2>4, <2>5 DEF CallFits
<1> QED  BY <1>0, <1>8, <1>9 DEF CallsIInv

\* Every step keeps the two ends of every stream together.
LEMMA CallsStep ==
    ASSUME CallsIInv, CallsNext
    PROVE  CallsIInv'
<1>1. ASSUME NEW c \in Calls, Handler(c) PROVE CallsIInv'
  BY <1>1, RegisterKeeps, StartedKeeps, TaskStepKeeps, ReportKeeps, FinishKeeps DEF Handler
<1>2. ASSUME NEW c \in Calls, Killer(c) PROVE CallsIInv'
  BY <1>2, TaskStepKeeps, KillKeeps DEF Killer
<1>3. ASSUME NEW c \in Calls, Consumer(c) PROVE CallsIInv'
  BY <1>3, RecvKeeps, ArtifactKeeps, EvidenceKeeps, OutcomeKeeps, EndOfCallKeeps DEF Consumer
<1>4. ASSUME NEW c \in Calls, World(c) PROVE CallsIInv'
  BY <1>4, EmitChunkKeeps, ProcessMoves, ExecuteKeeps, EndOfCallKeeps, CompleteKeeps,
     TaskStepKeeps, GiveUpKeeps DEF World
<1> QED  BY <1>1, <1>2, <1>3, <1>4, ShutdownKeeps, PluginDiesKeeps, CrashKeeps, ReconcileKeeps
            DEF CallsNext

\* CallsInv, for any number of calls, chunks, failing writes and crashes.
THEOREM CallsInvariant == CallsSpec => []CallsInv
<1>1. CallsInit => CallsIInv
  BY CallsStart
<1>2. CallsIInv /\ [CallsNext]_callVars => CallsIInv'
  <2>1. ASSUME CallsIInv, UNCHANGED callVars PROVE CallsIInv'
    BY <2>1 DEF callVars, CallsIInv, CallStates, CallFits, Consumed, Recorded, Spoken, EndedWell,
               Returned, Quiet
  <2> QED  BY <2>1, CallsStep
<1>3. CallsIInv => CallsInv
  BY CallsFit
<1> QED  BY <1>1, <1>2, <1>3, PTL DEF CallsSpec
=============================================================================
