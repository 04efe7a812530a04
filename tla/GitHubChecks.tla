---------------------------- MODULE GitHubChecks ----------------------------
(***************************************************************************)
(* waitForCommitChecks: wait until the required checks and the commit      *)
(* statuses of one commit, the head of a pull request, are good.  Every    *)
(* round reads the head, the check runs page by page, the statuses and,    *)
(* before success is reported, the head again, by one request after        *)
(* another, while CI reports and re-runs and authors push.  A head that    *)
(* was left does not come back.  Each required check is on a page of its   *)
(* own, and any request may fail.                                          *)
(***************************************************************************)
EXTENDS Naturals, FiniteSets

CONSTANTS Required,   \* required check names
          MaxReports, \* bound: reports and re-runs of CI
          MaxPushes   \* bound: new heads

VARIABLES head,      \* 0: the commit that is waited for; pushes count up
          open,      \* the pull request is open
          checks,    \* the commit's check runs by name
          combined,  \* the commit's statuses: none, or their combined state
          wait,      \* the call: step, what it has read, result
          goodAt,    \* history: what was good when it was read, and was the head
          reports

checkVars == <<head, open, checks, combined, wait, goodAt, reports>>

Outcomes == {"missing", "running", "success", "skipped", "failure"}
NoWait == [pc |-> "head", left |-> {}, checks |-> [n \in Required |-> "missing"],
           combined |-> "none", result |-> "none"]

ChecksInit ==
    /\ head = 0 /\ open = TRUE /\ reports = 0
    /\ checks = [n \in Required |-> "missing"] /\ combined = "none"
    /\ wait = NoWait /\ goodAt = {}

-----------------------------------------------------------------------------
(* GitHub.                                                                 *)

ReportCheck(n, outcome) ==
    /\ reports < MaxReports /\ reports' = reports + 1
    /\ checks' = [checks EXCEPT ![n] = outcome]
    /\ UNCHANGED <<head, open, combined, wait, goodAt>>

SetStatus(state) ==
    /\ reports < MaxReports /\ reports' = reports + 1
    /\ combined' = state
    /\ UNCHANGED <<head, open, checks, wait, goodAt>>

PushHead ==
    /\ head < MaxPushes /\ head' = head + 1
    /\ UNCHANGED <<open, checks, combined, wait, goodAt, reports>>

ClosePullRequest ==
    /\ open /\ open' = FALSE
    /\ UNCHANGED <<head, checks, combined, wait, goodAt, reports>>

-----------------------------------------------------------------------------
(* The call.                                                               *)

\* evaluateCheckSnapshot: a failure decides at once, a missing check is pending.
Evaluate(c, s) ==
    IF (\E n \in Required : c[n] = "failure") \/ s = "failure" THEN "failure"
    ELSE IF (\E n \in Required : c[n] \in {"missing", "running"}) \/ s = "pending" THEN "pending"
    ELSE "success"

Ended(result) == [wait EXCEPT !.pc = "ended", !.result = result]

\* pullRequestHead, first and last of a round.
ReadHead ==
    /\ wait.pc \in {"head", "final"}
    /\ wait' = IF ~open THEN Ended("error")
               ELSE IF head # 0 THEN Ended("stale")
               ELSE IF wait.pc = "final" THEN Ended("success")
               ELSE [wait EXCEPT !.pc = "checks", !.left = Required]
    /\ goodAt' = IF wait.pc = "head" THEN {} ELSE goodAt
    /\ UNCHANGED <<head, open, checks, combined, reports>>

\* commitCheckSnapshot: the pages of the check runs, then the statuses.
ReadChecks(n) ==
    /\ wait.pc = "checks" /\ n \in wait.left
    /\ wait' = [wait EXCEPT !.left = @ \ {n}, !.checks[n] = checks[n]]
    /\ goodAt' = IF head = 0 /\ checks[n] \in {"success", "skipped"} THEN goodAt \cup {n} ELSE goodAt
    /\ UNCHANGED <<head, open, checks, combined, reports>>

ReadStatuses ==
    /\ wait.pc = "checks" /\ wait.left = {}
    /\ LET state == Evaluate(wait.checks, combined) IN
       wait' = CASE state = "success" -> [wait EXCEPT !.pc = "final", !.combined = combined]
                 [] state = "failure" -> Ended("failure")
                 [] OTHER -> [wait EXCEPT !.pc = "pause"]
    /\ goodAt' = IF head = 0 /\ combined \in {"none", "success"} THEN goodAt \cup {"statuses"} ELSE goodAt
    /\ UNCHANGED <<head, open, checks, combined, reports>>

\* pollInterval has passed.
Pause ==
    /\ wait.pc = "pause"
    /\ wait' = NoWait
    /\ UNCHANGED <<head, open, checks, combined, goodAt, reports>>

\* A request that fails, a page that is malformed or one too many, and the end
\* of the context end the call.
WaitFails ==
    /\ wait.pc # "ended" /\ wait' = Ended("error")
    /\ UNCHANGED <<head, open, checks, combined, goodAt, reports>>

WaitStep == ReadHead \/ (\E n \in Required : ReadChecks(n)) \/ ReadStatuses \/ Pause

ChecksNext ==
    \/ WaitStep \/ WaitFails
    \/ \E n \in Required, o \in Outcomes \ {"missing"} : ReportCheck(n, o)
    \/ \E s \in {"pending", "success", "failure"} : SetStatus(s)
    \/ PushHead \/ ClosePullRequest

ChecksSpec == ChecksInit /\ [][ChecksNext]_checkVars

-----------------------------------------------------------------------------
(* Properties.                                                             *)

\* Success means that the required checks, each of them, and the statuses were
\* good when they were read, and that the commit was the head at both moments,
\* although nothing keeps it the head in between.
SuccessWasGood == wait.result = "success" => Required \cup {"statuses"} \subseteq goodAt

\* The wait ends once CI has settled on this commit, or it is not the head any
\* more, or its pull request is closed.
WaitEnds ==
    <>[](open => head # 0 \/ Evaluate(checks, combined) # "pending") => <>(wait.pc = "ended")

=============================================================================
