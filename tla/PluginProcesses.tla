--------------------------- MODULE PluginProcesses ---------------------------
(***************************************************************************)
(* The supervised processes of one plugin: the manager's map from a        *)
(* version to its process, the calls of Runs pinned to a version, the      *)
(* controller that enables and disables versions and probes the activated  *)
(* one, crashes, and the shutdown of the daemon.  The map is read and      *)
(* written under the manager's mutex; launching, closing and calling       *)
(* happen outside it.                                                      *)
(***************************************************************************)
EXTENDS Plugins

CONSTANTS Callers,
          Procs,       \* bound: processes that exist at one time
          MaxCrashes,  \* bound: processes lost, launches and activations failed
          MaxEnables   \* bound: changes of the desired version

ASSUME ProcessesAssumption ==
    /\ "controller" \notin Callers /\ None \notin Procs
    /\ MaxCrashes \in Nat /\ MaxEnables \in Nat

VARIABLES proc,       \* process -> running, left (running, and replaced by Enable) or gone
          processes,  \* Manager.processes: version -> process, or None
          activated,     \* the activated version, or None
          desired,    \* the version the PluginInstallations ask for, or None
          caller,     \* a call of a Run: its step, its pinned version, its process
          control,    \* the controller's Enable, Disable or probe
          shutdown,   \* Manager.Close: open, the processes it still has to close
          crashes, enables

processesVars == <<proc, processes, activated, desired, caller, control, shutdown,
          crashes, enables>>

Actors == Callers \cup {"controller"}
Resting == [at |-> "idle", version |-> None, process |-> None]
Launching == {"launch", "starting"}
Steps == Launching \cup {"idle", "lookup", "launched", "using", "evict", "started", "activated"}
Step == [at : Steps, version : Versions \cup {None}, process : Procs \cup {None}]

ProcessesTypeOK ==
    /\ proc \in [Procs -> {"running", "left", "gone"}]
    /\ processes \in [Versions -> Procs \cup {None}]
    /\ {activated, desired} \subseteq Versions \cup {None}
    /\ caller \in [Callers -> Step] /\ control \in Step
    /\ shutdown.open \in BOOLEAN /\ shutdown.left \subseteq Procs
    /\ crashes \in 0..MaxCrashes /\ enables \in 0..MaxEnables

ProcessesInit ==
    /\ proc = [p \in Procs |-> "gone"]
    /\ processes = [v \in Versions |-> None]
    /\ activated = None /\ desired = None
    /\ caller = [c \in Callers |-> Resting] /\ control = Resting
    /\ shutdown = [open |-> TRUE, left |-> {}]
    /\ crashes = 0 /\ enables = 0

StepOf(a) == IF a = "controller" THEN control ELSE caller[a]
Holders == {StepOf(a).process : a \in Actors} \cup {processes[v] : v \in Versions}
           \cup shutdown.left

\* A slot nobody refers to any more can stand for a new process.
Fresh == {p \in Procs : proc[p] = "gone" /\ p \notin Holders}
Running(p) == p # None /\ proc[p] # "gone"
Close(S) == [p \in Procs |-> IF p \in S THEN "gone" ELSE proc[p]]

Goto(a, s) ==
    IF a = "controller" THEN control' = s /\ UNCHANGED caller
    ELSE caller' = [caller EXCEPT ![a] = s] /\ UNCHANGED control

-----------------------------------------------------------------------------
(* processForRecord: of a call, and of the controller's health probe.      *)

\* Execute takes the version from the plan; a probe takes the active one.  The
\* engine, the server and the controllers' context end before Manager.Close.
Execute(c, v) ==
    /\ shutdown.open /\ caller[c] = Resting
    /\ Goto(c, [Resting EXCEPT !.at = "lookup", !.version = v])
    /\ UNCHANGED <<proc, processes, activated, desired, shutdown, crashes, enables>>

\* The first look at the map.
Lookup(a) ==
    LET s == StepOf(a) IN
    /\ s.at = "lookup"
    /\ Goto(a, IF Running(processes[s.version])
               THEN [s EXCEPT !.at = "using", !.process = processes[s.version]]
               ELSE [s EXCEPT !.at = "launch"])
    /\ UNCHANGED <<proc, processes, activated, desired, shutdown, crashes, enables>>

\* launch verifies digest, identity, capabilities and contract of the process;
\* one it refuses is closed again.
Launch(a) ==
    LET s == StepOf(a) IN
    /\ s.at \in Launching /\ Fresh # {}
    /\ LET p == CHOOSE q \in Fresh : TRUE IN
       /\ proc' = [proc EXCEPT ![p] = "running"]
       /\ Goto(a, [s EXCEPT !.at = IF @ = "launch" THEN "launched" ELSE "started",
                           !.process = p])
    /\ UNCHANGED <<processes, activated, desired, shutdown, crashes, enables>>

LaunchFails(a) ==
    /\ StepOf(a).at \in Launching /\ crashes < MaxCrashes /\ crashes' = crashes + 1
    /\ Goto(a, Resting)
    /\ UNCHANGED <<proc, processes, activated, desired, shutdown, enables>>

\* Mutant: the loser of the race forgets its own process.
InsertLeaks(a) ==
    LET s == StepOf(a)
        existing == processes[s.version]
    IN  /\ s.at = "launched"
        /\ Goto(a, [s EXCEPT !.at = "using",
                             !.process = IF Running(existing) THEN existing ELSE @])
        /\ processes' = IF Running(existing) THEN processes
                        ELSE [processes EXCEPT ![s.version] = s.process]
        /\ UNCHANGED <<proc, activated, desired, shutdown, crashes, enables>>

\* The second look: somebody else may have been faster.
Insert(a) ==
    LET s == StepOf(a)
        existing == processes[s.version]
    IN  /\ s.at = "launched"
        /\ IF Running(existing)
           THEN /\ proc' = Close({s.process})
                /\ Goto(a, [s EXCEPT !.at = "using", !.process = existing])
                /\ UNCHANGED processes
           ELSE /\ processes' = [processes EXCEPT ![s.version] = s.process]
                /\ Goto(a, [s EXCEPT !.at = "using"])
                /\ UNCHANGED proc
        /\ UNCHANGED <<activated, desired, shutdown, crashes, enables>>

\* A call returns; one that failed and finds its process gone evicts.
Return(a) ==
    LET s == StepOf(a) IN
    /\ s.at = "using"
    /\ Goto(a, IF Running(s.process) \/ a = "controller" THEN Resting
               ELSE [s EXCEPT !.at = "evict", !.process = None])
    /\ UNCHANGED <<proc, processes, activated, desired, shutdown, crashes, enables>>

\* evict goes by the key: whatever the map holds by now is closed.
Evict(a) ==
    LET s == StepOf(a) IN
    /\ s.at = "evict"
    /\ proc' = Close({processes[s.version]})
    /\ processes' = [processes EXCEPT ![s.version] = None]
    /\ Goto(a, Resting)
    /\ UNCHANGED <<activated, desired, shutdown, crashes, enables>>

-----------------------------------------------------------------------------
(* The controller's pass: activate what is desired, then probe.            *)

Want(v) ==
    /\ shutdown.open /\ enables < MaxEnables /\ enables' = enables + 1
    /\ desired # v /\ desired' = v
    /\ UNCHANGED <<proc, processes, activated, caller, control, shutdown, crashes>>

BeginEnable ==
    /\ shutdown.open /\ control = Resting /\ desired \notin {None, activated}
    /\ control' = [Resting EXCEPT !.at = "starting", !.version = desired]
    /\ UNCHANGED <<proc, processes, activated, desired, caller, shutdown, crashes, enables>>

\* A process that answers and is ready is activated; one that does not, or
\* whose activation the store refuses, is closed.
ActivatePlugin ==
    /\ control.at = "started"
    /\ \/ /\ Running(control.process)
          /\ activated' = control.version
          /\ control' = [control EXCEPT !.at = "activated"]
          /\ UNCHANGED <<proc, crashes>>
       \/ /\ \/ ~Running(control.process) /\ UNCHANGED crashes
             \/ crashes < MaxCrashes /\ crashes' = crashes + 1
          /\ control' = Resting /\ proc' = Close({control.process}) /\ UNCHANGED activated
    /\ UNCHANGED <<processes, desired, caller, shutdown, enables>>

\* The processes of the other versions are closed, calls or not.  The one that
\* a call has put into the map for this version is replaced without being
\* closed: it runs on, and nothing refers to it any more.
FinishEnable ==
    LET others == {processes[w] : w \in Versions \ {control.version}} IN
    /\ control.at = "activated"
    /\ proc' = [p \in Procs |-> IF p = processes[control.version] /\ Running(p)
                               THEN "left" ELSE Close(others)[p]]
    /\ processes' = [w \in Versions |-> IF w = control.version THEN control.process ELSE None]
    /\ control' = Resting
    /\ UNCHANGED <<activated, desired, caller, shutdown, crashes, enables>>

Disable ==
    /\ shutdown.open /\ control = Resting /\ desired = None /\ activated # None
    /\ activated' = None
    /\ control' = [Resting EXCEPT !.at = "evict", !.version = activated]
    /\ UNCHANGED <<proc, processes, desired, caller, shutdown, crashes, enables>>

\* A process that exited is reported, and only the next probe restarts it.
RemoveExitedProcess ==
    /\ shutdown.open /\ control = Resting /\ activated = desired /\ activated # None
    /\ processes[activated] # None /\ ~Running(processes[activated])
    /\ processes' = [processes EXCEPT ![activated] = None]
    /\ UNCHANGED <<proc, activated, desired, caller, control, shutdown, crashes, enables>>

Probe ==
    /\ shutdown.open /\ control = Resting /\ activated = desired /\ activated # None
    /\ processes[activated] = None \/ Running(processes[activated])
    /\ control' = [Resting EXCEPT !.at = "lookup", !.version = activated]
    /\ UNCHANGED <<proc, processes, activated, desired, caller, shutdown, crashes, enables>>

-----------------------------------------------------------------------------
Crash(p) ==
    /\ shutdown.open /\ Running(p) /\ crashes < MaxCrashes /\ crashes' = crashes + 1
    /\ proc' = Close({p})
    /\ UNCHANGED <<processes, activated, desired, caller, control, shutdown, enables>>

\* Manager.Close takes the map in one step and closes outside the lock.
Shutdown ==
    /\ shutdown.open
    /\ shutdown' = [open |-> FALSE, left |-> {processes[v] : v \in Versions} \ {None}]
    /\ processes' = [v \in Versions |-> None]
    /\ UNCHANGED <<proc, activated, desired, caller, control, crashes, enables>>

CloseOne(p) ==
    /\ p \in shutdown.left
    /\ proc' = Close({p})
    /\ shutdown' = [shutdown EXCEPT !.left = @ \ {p}]
    /\ UNCHANGED <<processes, activated, desired, caller, control, crashes, enables>>

ActorStep(a) ==
    Lookup(a) \/ Launch(a) \/ LaunchFails(a) \/ Insert(a) \/ Return(a) \/ Evict(a)
PassStep ==
    \/ BeginEnable \/ ActivatePlugin \/ FinishEnable \/ Disable
    \/ RemoveExitedProcess \/ Probe

ProcessesNext ==
    \/ \E a \in Actors : ActorStep(a)
    \/ PassStep
    \/ \E c \in Callers, v \in Versions : Execute(c, v)
    \/ \E v \in Versions \cup {None} : Want(v)
    \/ \E p \in Procs : Crash(p) \/ CloseOne(p)
    \/ Shutdown

ProcessesSpec == ProcessesInit /\ [][ProcessesNext]_processesVars

-----------------------------------------------------------------------------
(* Properties.                                                             *)

\* A running process is in the map, held by the call or the activation that
\* launched it, or about to be closed by the shutdown, with one exception:
\* the process of the same version that Enable finds in the map and replaces
\* (left) is never closed, not by the shutdown either.
RunningIsKnown ==
    \A p \in Procs : proc[p] = "running" => p \in Holders

\* While the daemon runs and crashes stop, the version that stays desired gets
\* a running process in the map and keeps it.
DesiredIsServed ==
    \A v \in Versions :
        (<>[](desired = v /\ shutdown.open))
        => <>[](activated = v /\ Running(processes[v]))

\* The rows, the bundles, the activation and the running processes of a plugin
\* stay together, whichever step of installation, retention, launch or
\* shutdown comes between two others, but for the bundle that retention takes
\* from an installation and the process that Enable replaces.
PluginsInv ==
    /\ TypeOK
    /\ ProcessesTypeOK
    /\ ActiveIsInstalled
    /\ RowHasBundle
    /\ ActiveStatusIsTrue
    /\ RunningIsKnown

\* Once operators and faults stop, the desired version is the active one, and
\* a process serves it.
PluginsConverge == ActivationConverges /\ DesiredIsServed
=============================================================================
