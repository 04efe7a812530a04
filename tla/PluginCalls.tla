----------------------------- MODULE PluginCalls -----------------------------
(***************************************************************************)
(* The calls of task and agent actions, end to end: the daemon consumes a  *)
(* stream of events and makes each of them durable; the plugin's SDK keeps *)
(* the table of active calls and closes the stream with one terminal       *)
(* event; the handler runs an operating-system process, or an HTTP request,*)
(* and forwards what it prints; a canceller asks for the end of a call and *)
(* ends its stream when that takes too long.  A call is one attempt.       *)
(*                                                                         *)
(* A process may ignore SIGTERM, exit with any status, and leave behind a  *)
(* descendant in its group, which may hold its output open.  Payloads are  *)
(* not modelled, only the kinds of events.                                 *)
(***************************************************************************)
EXTENDS Naturals, Sequences, FiniteSets, SequencesExt

CONSTANTS Calls,
          Kinds,       \* the handlers: exec, agent, http
          MaxChunks,   \* bound: chunks a process prints
          MaxIOFaults, \* bound: writes of the daemon that fail
          MaxKills     \* bound: crashes of the daemon

ASSUME CallsAssumption == MaxChunks \in Nat /\ MaxIOFaults \in Nat /\ MaxKills \in Nat

VARIABLES host,     \* the daemon's consumer of each call
          disk,     \* what each attempt left: raw.log, its artifact row, events
          stream,   \* events under way, their end, and whether the context lives
          task,     \* the handler in the plugin
          proc,     \* the process of the handler and who ends it
          plugin,   \* the plugin process: up, draining, drained, dead
          daemon,   \* up, down, or refused to start
          ioFaults, kills

callVars == <<host, disk, stream, task, proc, plugin, daemon, ioFaults, kills>>

Terminal == {"completed", "failed"}
NoHost == [pc |-> "idle", event |-> "none", terminal |-> "none", result |-> "none"]
NoTask == [pc |-> "none", kind |-> "none", cancelled |-> FALSE, line |-> FALSE, failed |-> FALSE]
NoProc == [os |-> "none", ok |-> TRUE, child |-> "none", chunks |-> 0, killer |-> "none",
           broken |-> FALSE]

CallsInit ==
    /\ host = [c \in Calls |-> NoHost]
    /\ disk = [c \in Calls |-> [file |-> 0, row |-> 0, events |-> <<>>, completed |-> FALSE]]
    /\ stream = [c \in Calls |-> [said |-> <<>>, next |-> 1, end |-> "open", live |-> TRUE]]
    /\ task = [c \in Calls |-> NoTask]
    /\ proc = [c \in Calls |-> NoProc]
    /\ plugin = "up" /\ daemon = "up"
    /\ ioFaults = 0 /\ kills = 0

Active == {c \in Calls : task[c].pc \notin {"none", "gone"}}

-----------------------------------------------------------------------------
(* The plugin: SDK and handler.                                            *)

\* eventSink.send and eventWriter.send: the event is on the stream, or the
\* stream's context is gone and the sender gets an error.
Say(c, kinds) ==
    stream' = [stream EXCEPT ![c].said = IF stream[c].live THEN @ \o kinds ELSE @]

Step(c, label) == task' = [task EXCEPT ![c].pc = label]
Failing(c, label) == task' = [task EXCEPT ![c].pc = label, ![c].failed = TRUE]

\* register: refused by a plugin that drains.
Register(c) ==
    /\ host[c].pc = "recv" /\ task[c].pc = "none" /\ stream[c].end = "open"
    /\ IF plugin = "up" /\ stream[c].live
       THEN Step(c, "start") /\ UNCHANGED stream
       ELSE stream' = [stream EXCEPT ![c].end = "error"] /\ UNCHANGED task
    /\ UNCHANGED <<host, disk, proc, plugin, daemon, ioFaults, kills>>

\* The handler announces itself before it does anything.
Started(c) ==
    /\ task[c].pc = "start"
    /\ Say(c, <<"started">>)
    /\ IF stream[c].live THEN Step(c, "spawn") ELSE Failing(c, "finish")
    /\ UNCHANGED <<host, disk, proc, plugin, daemon, ioFaults, kills>>

\* Runner.Run up to the select; the executable may be missing.
Spawn(c) ==
    /\ task[c].pc = "spawn" /\ task[c].kind # "http"
    /\ \/ /\ Step(c, "run")
          /\ proc' = [proc EXCEPT ![c].os = "running"]
       \/ /\ Failing(c, "report")
          /\ UNCHANGED proc
    /\ UNCHANGED <<host, disk, stream, plugin, daemon, ioFaults, kills>>

\* HTTP.Execute: an answer, an error status, or the end of the context.
Request(c, ok) ==
    /\ task[c].pc = "spawn" /\ task[c].kind = "http"
    /\ ok => ~task[c].cancelled
    /\ IF ok THEN Step(c, "finish") ELSE Failing(c, "finish")
    /\ UNCHANGED <<host, disk, stream, proc, plugin, daemon, ioFaults, kills>>

\* terminate runs once, for the first reason.
Killed(p) == IF p.killer = "none" THEN "term" ELSE p.killer

\* command.Wait returns once the process is gone and its output is closed.
Done(c) == proc[c].os = "exited" /\ proc[c].child # "piped"

\* emitChunk: a raw event; an agent's whole lines become events of their own.
\* A sender that failed stops the process and sends no more.  A descendant
\* that holds the output may print after the process is gone.
EmitChunk(c, whole) ==
    LET p == proc[c]
        live == stream[c].live
    IN  /\ task[c].pc = "run" /\ ~Done(c) /\ p.chunks < MaxChunks
        /\ proc' = [proc EXCEPT ![c] =
             [p EXCEPT !.chunks = p.chunks + 1, !.broken = p.broken \/ ~live,
                       !.killer = IF live THEN p.killer ELSE Killed(p)]]
        /\ IF p.broken THEN UNCHANGED <<stream, task>>
           ELSE /\ Say(c, IF task[c].kind = "agent" /\ whole THEN <<"log", "line">> ELSE <<"log">>)
                /\ task' = [task EXCEPT ![c].line = task[c].kind = "agent" /\ ~whole /\ live]
        /\ UNCHANGED <<host, disk, plugin, daemon, ioFaults, kills>>

\* The process leaves a descendant behind that holds its output, or does not.
Fork(c) ==
    /\ proc[c].os = "running" /\ proc[c].child = "none"
    /\ \E held \in {"piped", "loose"} : proc' = [proc EXCEPT ![c].child = held]
    /\ UNCHANGED <<host, disk, stream, task, plugin, daemon, ioFaults, kills>>

Exit(c) ==
    /\ proc[c].os = "running"
    /\ \E ok \in BOOLEAN : proc' = [proc EXCEPT ![c].os = "exited", ![c].ok = ok]
    /\ UNCHANGED <<host, disk, stream, task, plugin, daemon, ioFaults, kills>>

ChildExits(c) ==
    /\ proc[c].child \in {"piped", "loose"}
    /\ proc' = [proc EXCEPT ![c].child = "gone"]
    /\ UNCHANGED <<host, disk, stream, task, plugin, daemon, ioFaults, kills>>

\* The handler's context ends: SIGTERM to the group ...
Terminate(c) ==
    /\ task[c].pc = "run" /\ proc[c].killer = "none"
    /\ task[c].cancelled \/ ~stream[c].live
    /\ proc' = [proc EXCEPT ![c].killer = "term"]
    /\ UNCHANGED <<host, disk, stream, task, plugin, daemon, ioFaults, kills>>

\* Mutant: SIGTERM is all there is.
NoKill(c) ==
    /\ task[c].pc = "run" /\ proc[c].killer = "term" /\ ~Done(c)
    /\ UNCHANGED callVars

\* ... and after TerminateWait SIGKILL, which nobody in the group survives.
Kill(c) ==
    LET p == proc[c]
    IN  /\ task[c].pc = "run" /\ p.killer = "term" /\ ~Done(c)
        /\ proc' = [proc EXCEPT ![c] =
             [p EXCEPT !.killer = "kill", !.ok = p.ok /\ p.os # "running", !.os = "exited",
                       !.child = IF p.child = "none" THEN "none" ELSE "gone"]]
        /\ UNCHANGED <<host, disk, stream, task, plugin, daemon, ioFaults, kills>>

\* Mutant: the exit status is not looked at.
RunReturnsAnyway(c) ==
    /\ task[c].pc = "run" /\ Done(c)
    /\ task' = [task EXCEPT ![c].pc = "report", ![c].failed = proc[c].broken]
    /\ UNCHANGED <<host, disk, stream, proc, plugin, daemon, ioFaults, kills>>

RunReturns(c) ==
    /\ task[c].pc = "run" /\ Done(c)
    /\ task' = [task EXCEPT ![c].pc = "report", ![c].failed = ~proc[c].ok \/ proc[c].broken]
    /\ UNCHANGED <<host, disk, stream, proc, plugin, daemon, ioFaults, kills>>

\* What is said between the end of the process and the terminal event: an
\* agent's unfinished line, the process outcome of a failed task.
Report(c) ==
    /\ task[c].pc = "report"
    /\ Say(c, (IF task[c].line THEN <<"line">> ELSE <<>>)
              \o (IF task[c].kind = "exec" /\ task[c].failed THEN <<"process">> ELSE <<>>))
    /\ Step(c, "finish")
    /\ UNCHANGED <<host, disk, proc, plugin, daemon, ioFaults, kills>>

\* One terminal event, and the call leaves the table; a failed agent ends its
\* stream with an error as well.  A task whose result does not meet the output
\* contract has failed.
Finish(c, meets) ==
    /\ task[c].pc = "finish" /\ (task[c].kind = "agent" \/ task[c].failed => meets)
    /\ LET s == stream[c]
           kind == IF task[c].failed \/ ~meets THEN "failed" ELSE "completed"
           broken == ~s.live \/ (task[c].failed /\ task[c].kind = "agent")
       IN  stream' = [stream EXCEPT ![c] =
             [s EXCEPT !.said = IF s.live THEN Append(s.said, kind) ELSE s.said,
                       !.end = IF broken THEN "error" ELSE "eof"]]
    /\ Step(c, "gone")
    /\ UNCHANGED <<host, disk, proc, plugin, daemon, ioFaults, kills>>

-----------------------------------------------------------------------------
(* The daemon.                                                             *)

Execute(c) ==
    /\ daemon = "up" /\ host[c].pc = "idle" /\ ~disk[c].completed
    /\ host' = [host EXCEPT ![c].pc = "recv"]
    /\ \E kind \in Kinds : task' = [task EXCEPT ![c].kind = kind]
    /\ UNCHANGED <<disk, stream, proc, plugin, daemon, ioFaults, kills>>

\* The call returns, its context ends and the handler's with it.
Cut(c) == /\ stream' = [stream EXCEPT ![c].live = FALSE]
          /\ task' = [task EXCEPT ![c].cancelled = TRUE]

Return(c, result) ==
    /\ host' = [host EXCEPT ![c].pc = "returned", ![c].result = result]
    /\ Cut(c)

\* consume: the next event, in order and not after a terminal one.
Recv(c) ==
    /\ host[c].pc = "recv" /\ stream[c].next <= Len(stream[c].said)
    /\ LET kind == stream[c].said[stream[c].next] IN
       IF host[c].terminal # "none"
       THEN Return(c, "error")
       ELSE /\ host' = [host EXCEPT ![c].event = kind,
                                    ![c].pc = IF kind = "log" THEN "append" ELSE "event"]
            /\ stream' = [stream EXCEPT ![c].next = @ + 1]
            /\ UNCHANGED task
    /\ UNCHANGED <<disk, proc, plugin, daemon, ioFaults, kills>>

Fault == ioFaults < MaxIOFaults /\ ioFaults' = ioFaults + 1

\* appendArtifact: the chunk reaches the file first.
AppendFile(c) ==
    /\ host[c].pc = "append"
    /\ disk' = [disk EXCEPT ![c].file = @ + 1]
    /\ host' = [host EXCEPT ![c].pc = "register"]
    /\ UNCHANGED <<stream, task, proc, plugin, daemon, ioFaults, kills>>

\* registerArtifact: the size and digest of the whole file.
RegisterArtifact(c) ==
    /\ host[c].pc = "register"
    /\ disk' = [disk EXCEPT ![c].row = disk[c].file]
    /\ host' = [host EXCEPT ![c].pc = "event"]
    /\ UNCHANGED <<stream, task, proc, plugin, daemon, ioFaults, kills>>

\* AppendPluginEvent.
AppendPluginEvent(c) ==
    /\ host[c].pc = "event"
    /\ disk' = [disk EXCEPT ![c].events = Append(@, host[c].event)]
    /\ host' = [host EXCEPT ![c].pc =
                  IF host[c].event \in Terminal \cup {"process"} THEN "outcome" ELSE "recv"]
    /\ UNCHANGED <<stream, task, proc, plugin, daemon, ioFaults, kills>>

\* SetNodeAttemptOutcome, a write of its own for the events that have one; only
\* then does consume remember a terminal event.
SetNodeAttemptOutcome(c) ==
    /\ host[c].pc = "outcome"
    /\ host' = [host EXCEPT ![c].pc = "recv",
                            ![c].terminal = IF host[c].event \in Terminal THEN host[c].event ELSE @]
    /\ UNCHANGED <<disk, stream, task, proc, plugin, daemon, ioFaults, kills>>

\* Any of these writes may fail, and the call with it.
PersistFails(c) ==
    /\ host[c].pc \in {"append", "register", "event", "outcome"} /\ Fault
    /\ Return(c, "error")
    /\ UNCHANGED <<disk, proc, plugin, daemon, kills>>

\* The end of the stream.
StreamEnds(c) ==
    /\ host[c].pc = "recv"
    /\ \/ stream[c].next > Len(stream[c].said) /\ stream[c].end = "eof"
          /\ Return(c, IF host[c].terminal = "completed" THEN "output" ELSE "error")
       \/ /\ ~stream[c].live \/ (stream[c].next > Len(stream[c].said) /\ stream[c].end = "error")
          /\ Return(c, "error")
    /\ UNCHANGED <<disk, proc, plugin, daemon, ioFaults, kills>>

\* CompleteNodeAttempt, after the call returned.
Complete(c) ==
    /\ daemon = "up" /\ host[c].pc = "returned" /\ ~disk[c].completed
    /\ disk' = [disk EXCEPT ![c].completed = TRUE]
    /\ UNCHANGED <<host, stream, task, proc, plugin, daemon, ioFaults, kills>>

\* cancelProviderCall, a deadline: the handler first ...
CancelCall(c) ==
    /\ host[c].pc \notin {"idle", "returned"} /\ c \in Active /\ ~task[c].cancelled
    /\ task' = [task EXCEPT ![c].cancelled = TRUE]
    /\ UNCHANGED <<host, disk, stream, proc, plugin, daemon, ioFaults, kills>>

\* ... and the stream when the call has not ended in time, or was not there.
GiveUpCall(c) ==
    /\ host[c].pc \notin {"idle", "returned"} /\ stream[c].live
    /\ task[c].cancelled \/ c \notin Active
    /\ Cut(c)
    /\ UNCHANGED <<host, disk, proc, plugin, daemon, ioFaults, kills>>

\* Process.Close: Shutdown cancels what is active ...
Shutdown ==
    /\ plugin = "up" /\ daemon = "up"
    /\ plugin' = "draining"
    /\ task' = [c \in Calls |-> [task[c] EXCEPT !.cancelled = @ \/ c \in Active]]
    /\ UNCHANGED <<host, disk, stream, proc, daemon, ioFaults, kills>>

\* ... and waits for it until its deadline; then the plugin is killed, and
\* with it whoever was to end a process.
PluginDies(how) ==
    /\ how = "drained" => plugin = "draining" /\ Active = {}
    /\ how = "dead" => plugin = "draining" \/ daemon = "down"
    /\ plugin \in {"up", "draining"}
    /\ plugin' = how
    /\ task' = [c \in Calls |-> IF c \in Active THEN [task[c] EXCEPT !.pc = "gone"] ELSE task[c]]
    /\ stream' = [c \in Calls |-> IF stream[c].end = "open" THEN [stream[c] EXCEPT !.end = "error"]
                                  ELSE stream[c]]
    /\ UNCHANGED <<host, disk, proc, daemon, ioFaults, kills>>

\* Every stream ends with the daemon.
Crash ==
    /\ daemon = "up" /\ kills < MaxKills
    /\ daemon' = "down" /\ kills' = kills + 1
    /\ host' = [c \in Calls |-> [NoHost EXCEPT !.pc = "returned"]]
    /\ stream' = [c \in Calls |-> [stream[c] EXCEPT !.live = FALSE]]
    /\ task' = [c \in Calls |-> [task[c] EXCEPT !.cancelled = TRUE]]
    /\ UNCHANGED <<disk, proc, plugin, ioFaults>>

\* PutArtifact refuses to change the row of a completed attempt.
Refused(c) == disk[c].completed /\ disk[c].row # 0 /\ disk[c].row # disk[c].file

\* ReconcileArtifacts, before anything else is started.
Reconcile ==
    /\ daemon = "down"
    /\ IF \E c \in Calls : Refused(c)
       THEN daemon' = "refused" /\ UNCHANGED disk
       ELSE /\ daemon' = "up"
            /\ disk' = [c \in Calls |-> [disk[c] EXCEPT !.row = disk[c].file]]
    /\ UNCHANGED <<host, stream, task, proc, plugin, ioFaults, kills>>

Handler(c) ==
    \/ Register(c) \/ Started(c) \/ Spawn(c) \/ RunReturns(c) \/ Report(c)
    \/ \E ok \in BOOLEAN : Request(c, ok) \/ Finish(c, ok)
Killer(c) == Terminate(c) \/ Kill(c)
Consumer(c) ==
    \/ Recv(c) \/ AppendFile(c) \/ RegisterArtifact(c) \/ AppendPluginEvent(c)
    \/ SetNodeAttemptOutcome(c) \/ StreamEnds(c)
World(c) ==
    \/ \E whole \in BOOLEAN : EmitChunk(c, whole)
    \/ Fork(c) \/ Exit(c) \/ ChildExits(c)
    \/ Execute(c) \/ PersistFails(c) \/ Complete(c) \/ CancelCall(c) \/ GiveUpCall(c)

CallsNext ==
    \/ \E c \in Calls : Handler(c) \/ Killer(c) \/ Consumer(c) \/ World(c)
    \/ Shutdown \/ PluginDies("drained") \/ PluginDies("dead") \/ Crash \/ Reconcile

CallsSpec == CallsInit /\ [][CallsNext]_callVars

-----------------------------------------------------------------------------
(* Properties.                                                             *)

CallsTypeOK ==
    /\ \A c \in Calls :
        /\ host[c].pc \in {"idle", "recv", "append", "register", "event", "outcome", "returned"}
        /\ disk[c].row <= disk[c].file /\ disk[c].file <= MaxChunks
        /\ stream[c].next <= Len(stream[c].said) + 1
        /\ task[c].pc \in {"none", "start", "spawn", "run", "report", "finish", "gone"}
        /\ proc[c].os \in {"none", "running", "exited"}
    /\ plugin \in {"up", "draining", "drained", "dead"}
    /\ daemon \in {"up", "down", "refused"}

Logs(s) == Cardinality({n \in DOMAIN s : s[n] = "log"})

\* The evidence of an attempt is what the plugin said, from the first event on
\* and without a gap, whatever failed or crashed meanwhile; one terminal event
\* at most, and nothing after it; and no log event is evidence before its raw
\* chunk is in the registered artifact.
EvidenceIsGapless ==
    \A c \in Calls :
        LET e == disk[c].events IN
        /\ IsPrefix(e, stream[c].said)
        /\ \A n \in DOMAIN e : e[n] \in Terminal => n = Len(e)
        /\ Logs(e) <= disk[c].row

\* An attempt has an output only when the process ended by itself or on
\* SIGTERM with status 0, everything it printed reached the evidence, and the
\* terminal event is the last of it.
OutputIsComplete ==
    \A c \in Calls : host[c].result = "output" =>
        /\ disk[c].events = stream[c].said
        /\ Last(disk[c].events) = "completed"
        /\ task[c].kind # "http" => /\ proc[c].os = "exited" /\ proc[c].ok
                                 /\ Logs(disk[c].events) = proc[c].chunks

\* A plugin that drained before its deadline left none of the processes it
\* started running and no descendant holding their output, and no call slips in
\* behind the drain.  Not every descendant is gone: terminate returns once Wait
\* does, so one that let go of the output and ignores SIGTERM lives on, although
\* the agent plugin's comment has all descendants terminated.
DrainedProcessesAreGone ==
    plugin = "drained" =>
        \A c \in Calls : proc[c].os # "running" /\ proc[c].child # "piped"

\* Once a restarted daemon is up, every chunk that reached a raw log is
\* registered, whichever write the crash came after.
LogSurvivesCrash ==
    (daemon = "up" /\ kills > 0) =>
        \A c \in Calls : host[c].result = "none" /\ host[c].pc = "returned"
                         => disk[c].row = disk[c].file

\* A cancelled call ends and so does its process, also one that ignores
\* SIGTERM, as long as the plugin itself lives.
CancelledCallEnds ==
    \A c \in Calls :
        /\ (task[c].pc = "run" /\ task[c].cancelled) ~> task[c].pc # "run"
        /\ (host[c].pc = "recv" /\ task[c].cancelled) ~> host[c].pc = "returned"

\* Whatever breaks a call (the plugin, its process, the stream, a write or the
\* daemon), its evidence is a prefix of what was said, with its raw log, and an
\* output stands for the whole of it.
CallsInv ==
    /\ CallsTypeOK
    /\ EvidenceIsGapless
    /\ OutputIsComplete
    /\ DrainedProcessesAreGone
    /\ LogSurvivesCrash
=============================================================================
