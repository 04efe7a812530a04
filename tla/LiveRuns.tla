------------------------------ MODULE LiveRuns ------------------------------
(***************************************************************************)
(* The Run half of the terminal's live model: a poll replaces the listed   *)
(* Runs, and one watch goroutine per Run streams its events.  The two      *)
(* paths overlap: a poll answer may be older than an event already shown.  *)
(* The store side is the runs row, whose update time is the time of its    *)
(* last event, and the run_events log; evidence of a plugin is appended    *)
(* even to a Run that is terminal, and then leaves the row alone.          *)
(***************************************************************************)
EXTENDS Naturals, Sequences, FiniteSets

CONSTANTS Runs,           \* numbered in the order of their creation
          RunLimit,       \* liveRunLimit: how many Runs a poll lists
          EventLimit,     \* liveEventLimit: how many events of a Run are kept
          MaxRunEvents,   \* bound: events of all Runs of a behaviour
          MaxRunBreaks    \* bound: broken streams

ASSUME EventLimitAssumption == EventLimit \in Nat \ {0}

VARIABLES rows,     \* uid -> [phase, at], NoRun before creation and after retention
          events,   \* uid -> run_events: the types in order
          shownRuns, shownEvents, shownSequence,   \* the live model
          answer,   \* the list a poll has received and not yet applied
          watch,    \* uid -> the goroutine: "none", "opening", "open", "ended"
          runWire,  \* uid -> [sent, wire] of an open watch
          runBreaks,
          forgotten  \* history: Runs that replaceRuns dropped while they existed

runsVars == <<rows, events, shownRuns, shownEvents, shownSequence, answer,
              watch, runWire, runBreaks, forgotten>>

NoRun == [phase |-> "none", at |-> 0]
Terminal == {"succeeded", "rejected"}
NoAnswer == [u \in {} |-> NoRun]
ClosedWire == [sent |-> 0, wire |-> << >>]

\* The phase the engine and the store record with an event; evidence of a
\* plugin has none.  A rejected approval leaves its Run running.
RecordedPhase == [runAccepted |-> "pending", approvalWaiting |-> "waiting", approvalRejected |-> "running",
    runSucceeded |-> "succeeded", runRejected |-> "rejected"]
EventTypes == DOMAIN RecordedPhase \ {"runAccepted"}
Evidence == "evidence"

\* The phase the terminal derives from the same event.
ShownPhase == [RecordedPhase EXCEPT !.approvalRejected = "rejected"]

TerminalEvent == {"runSucceeded", "runRejected"}

RunsInit ==
    /\ rows = [u \in Runs |-> NoRun]
    /\ events = [u \in Runs |-> << >>]
    /\ shownRuns = [u \in Runs |-> NoRun]
    /\ shownEvents = [u \in Runs |-> << >>]
    /\ shownSequence = [u \in Runs |-> 0]
    /\ answer = [at |-> "none", rows |-> NoAnswer]
    /\ watch = [u \in Runs |-> "none"]
    /\ runWire = [u \in Runs |-> ClosedWire]
    /\ runBreaks = 0
    /\ forgotten = {}

-----------------------------------------------------------------------------
(* The store.                                                              *)

Exists(u) == rows[u] # NoRun

\* The bound on the behaviour's events.
Spent[u \in Nat] == IF u = 0 THEN 0
    ELSE Spent[u - 1] + (IF u \in Runs THEN Len(events[u]) ELSE 0)
Room == Spent[Cardinality(Runs)] < MaxRunEvents

\* EnsureRun: the row and its first event; Runs are created in order.
CreateRun(u) ==
    /\ ~Exists(u) /\ events[u] = << >> /\ Room
    /\ \A v \in Runs : v < u => events[v] # << >>
    /\ rows' = [rows EXCEPT ![u] = [phase |-> RecordedPhase.runAccepted, at |-> 1]]
    /\ events' = [events EXCEPT ![u] = << "runAccepted" >>]

\* appendRunEventTx: refused for a terminal Run, otherwise the event and the
\* row move together.
AppendRunEvent(u) ==
    /\ Exists(u) /\ rows[u].phase \notin Terminal
    /\ Room
    /\ \E type \in EventTypes :
          /\ events' = [events EXCEPT ![u] = Append(@, type)]
          /\ rows' = [rows EXCEPT ![u] =
                        [phase |-> RecordedPhase[type], at |-> Len(events[u]) + 1]]

\* appendRunEvidenceTx: always appended; touches the row of a live Run only.
AppendEvidence(u) ==
    /\ Exists(u) /\ Room
    /\ events' = [events EXCEPT ![u] = Append(@, Evidence)]
    /\ rows' = IF rows[u].phase \in Terminal THEN rows
               ELSE [rows EXCEPT ![u].at = Len(events[u]) + 1]

\* Retention collects a terminal Run and its events; the log is kept here so
\* that a uid is not used again, and RunEventsAfter finds nothing.
CollectRun(u) ==
    /\ Exists(u) /\ rows[u].phase \in Terminal
    /\ rows' = [rows EXCEPT ![u] = NoRun]
    /\ UNCHANGED events

\* Listed by a poll: the newest RunLimit Runs.
Listed(u) ==
    Exists(u) /\ Cardinality({v \in Runs : Exists(v) /\ v > u}) < RunLimit

-----------------------------------------------------------------------------
(* The poll.                                                               *)

PollRuns ==
    /\ answer.at = "none"
    /\ answer' = [at |-> "received", rows |-> [u \in {v \in Runs : Listed(v)} |-> rows[u]]]
    /\ UNCHANGED <<shownRuns, shownEvents, shownSequence, watch, runWire, runBreaks,
                   forgotten>>

\* Mutant: an answer of the same instant does not replace what is shown.
Replaced_KeepsEqual(u) ==
    IF u \notin DOMAIN answer.rows THEN NoRun
    ELSE IF shownRuns[u] # NoRun /\ shownRuns[u].at >= answer.rows[u].at
         THEN shownRuns[u] ELSE answer.rows[u]

\* replaceRuns keeps what an event has already made newer, and forgets a Run
\* that is not listed together with its events; the caller then makes sure
\* that every Run it now shows as active is watched.
Replaced(u) ==
    IF u \notin DOMAIN answer.rows THEN NoRun
    ELSE IF shownRuns[u] # NoRun /\ shownRuns[u].at > answer.rows[u].at
         THEN shownRuns[u] ELSE answer.rows[u]

Forgotten(u) == shownRuns[u] # NoRun /\ u \notin DOMAIN answer.rows

ReplaceRuns ==
    /\ answer.at = "received"
    /\ shownRuns' = [u \in Runs |-> Replaced(u)]
    /\ shownEvents' = [u \in Runs |-> IF Forgotten(u) THEN << >> ELSE shownEvents[u]]
    /\ shownSequence' = [u \in Runs |-> IF Forgotten(u) THEN 0 ELSE shownSequence[u]]
    /\ watch' = [u \in Runs |->
          IF /\ watch[u] = "none" /\ u \in DOMAIN answer.rows
             /\ Replaced(u).phase \notin Terminal
          THEN "opening" ELSE watch[u]]
    /\ answer' = [at |-> "none", rows |-> NoAnswer]
    /\ forgotten' = forgotten \cup {u \in Runs : Forgotten(u)}
    /\ UNCHANGED <<runWire, runBreaks>>

-----------------------------------------------------------------------------
(* The watches.                                                            *)

\* ensureRunHistory: the operator opens a Run, active or not; a Run that was
\* ever watched is not watched again.
SelectRun(u) ==
    /\ shownRuns[u] # NoRun /\ watch[u] = "none"
    /\ watch' = [watch EXCEPT ![u] = "opening"]
    /\ UNCHANGED <<shownRuns, shownEvents, shownSequence, answer, runWire, runBreaks,
                   forgotten>>

\* Mutant: a watch resumes at the newest event.
OpenRunWatch_AtPresent(u) ==
    /\ watch[u] = "opening"
    /\ runWire' = [runWire EXCEPT ![u] = [sent |-> Len(events[u]), wire |-> << >>]]
    /\ watch' = [watch EXCEPT ![u] = "open"]
    /\ UNCHANGED <<shownRuns, shownEvents, shownSequence, answer, runBreaks, forgotten>>

\* A watch is opened, and reopened, after the last event that is shown.
OpenRunWatch(u) ==
    /\ watch[u] = "opening"
    /\ runWire' = [runWire EXCEPT ![u] = [sent |-> shownSequence[u], wire |-> << >>]]
    /\ watch' = [watch EXCEPT ![u] = "open"]
    /\ UNCHANGED <<shownRuns, shownEvents, shownSequence, answer, runBreaks, forgotten>>

\* WatchEvents: a tick sends what is in the log after the last event sent.
SendRunEvents(u) ==
    /\ watch[u] = "open" /\ runWire[u].wire = << >>
    /\ Exists(u) /\ runWire[u].sent < Len(events[u])
    /\ runWire' = [runWire EXCEPT ![u] =
          [sent |-> Len(events[u]),
           wire |-> [i \in 1..(Len(events[u]) - runWire[u].sent) |-> runWire[u].sent + i]]]
    /\ UNCHANGED <<shownRuns, shownEvents, shownSequence, answer, watch, runBreaks,
                   forgotten>>

\* The newest events of a history; older ones are dropped.
Newest(h) == IF Len(h) > EventLimit THEN SubSeq(h, Len(h) - EventLimit + 1, Len(h)) ELSE h

\* applyRunEvent: an event already applied is ignored; the phase and the time
\* of a listed Run follow the event.
ApplyRunEvent(u, n) ==
    LET type == events[u][n] IN
    IF n <= shownSequence[u]
    THEN UNCHANGED <<shownRuns, shownEvents, shownSequence>>
    ELSE /\ shownSequence' = [shownSequence EXCEPT ![u] = n]
         /\ shownEvents' = [shownEvents EXCEPT ![u] = Newest(Append(@, n))]
         /\ shownRuns' = IF shownRuns[u] = NoRun THEN shownRuns
                         ELSE [shownRuns EXCEPT ![u] =
                                 [phase |-> IF type = Evidence THEN @.phase ELSE ShownPhase[type],
                                  at |-> n]]

\* A goroutine ends with the terminal event, whatever is on the wire.
ReceiveRunEvent(u) ==
    /\ watch[u] = "open" /\ runWire[u].wire # << >>
    /\ LET n == Head(runWire[u].wire) IN
       /\ ApplyRunEvent(u, n)
       /\ IF events[u][n] \in TerminalEvent
          THEN /\ watch' = [watch EXCEPT ![u] = "ended"]
               /\ runWire' = [runWire EXCEPT ![u] = ClosedWire]
          ELSE /\ runWire' = [runWire EXCEPT ![u].wire = Tail(@)]
               /\ UNCHANGED watch
    /\ UNCHANGED <<answer, runBreaks, forgotten>>

RunStreamFails(u) ==
    /\ watch[u] = "open" /\ runBreaks < MaxRunBreaks
    /\ watch' = [watch EXCEPT ![u] = "opening"]
    /\ runWire' = [runWire EXCEPT ![u] = ClosedWire]
    /\ runBreaks' = runBreaks + 1
    /\ UNCHANGED <<shownRuns, shownEvents, shownSequence, answer, forgotten>>

RunStoreNext ==
    \E u \in Runs :
       \/ CreateRun(u) \/ AppendRunEvent(u) \/ AppendEvidence(u) \/ CollectRun(u)

RunClientNext ==
    \/ PollRuns
    \/ ReplaceRuns
    \/ \E u \in Runs :
          \/ SelectRun(u) \/ OpenRunWatch(u) \/ SendRunEvents(u)
          \/ ReceiveRunEvent(u) \/ RunStreamFails(u)

RunsNext ==
    \/ RunStoreNext /\ UNCHANGED <<shownRuns, shownEvents, shownSequence, answer,
                                   watch, runWire, runBreaks, forgotten>>
    \/ RunClientNext /\ UNCHANGED <<rows, events>>

RunsSpec == RunsInit /\ [][RunsNext]_runsVars

\* The poll ticker and each watch goroutine keep running.
PollStep == (PollRuns \/ ReplaceRuns) /\ UNCHANGED <<rows, events>>
WatchStep(u) ==
    /\ OpenRunWatch(u) \/ SendRunEvents(u) \/ ReceiveRunEvent(u)
    /\ UNCHANGED <<rows, events>>

-----------------------------------------------------------------------------
(* Properties.                                                             *)

\* The events shown of a Run are consecutive, end where the next watch resumes
\* and are as many as the terminal keeps, or all from the first one on, unless
\* the Run was dropped from the list in between: poll, resume and break never
\* lose or repeat one.
ShownHistoryIsGapless ==
    \A u \in Runs : LET n == Len(shownEvents[u]) IN
        /\ \A i \in 1..n : shownEvents[u][i] = shownSequence[u] - n + i
        /\ n <= EventLimit
        /\ u \notin forgotten => n \in {shownSequence[u], EventLimit}

\* When the Runs stop moving, the terminal shows the phase each listed Run
\* has, although poll answers and events overtake each other.
ShownPhaseSettles ==
    \A u \in Runs : <>[](Listed(u) => shownRuns[u].phase = rows[u].phase)

=============================================================================
