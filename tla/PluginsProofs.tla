--------------------------- MODULE PluginsProofs ---------------------------
(***************************************************************************)
(* Proofs about Plugins and PluginProcesses, for any versions, digests,    *)
(* callers, processes and bounds: rows, bundles, activation and status of  *)
(* a plugin stay together, a running process is known to the manager or    *)
(* one that Enable replaced, and retention keeps a row that is referenced. *)
(***************************************************************************)
EXTENDS PluginProcesses, FiniteSetTheorems, TLAPS

-----------------------------------------------------------------------------
(***************************************************************************)
(* The processes.  A running process is in the map, about to be closed by  *)
(* the shutdown, or owned by the actor that launched it and has not put it *)
(* into the map yet.  A call that uses a process owns nothing: whoever     *)
(* takes the process out of the map closes it, or counts it as left.       *)
(***************************************************************************)
Owning == {"launched", "started", "activated"}
Mapped == {processes[v] : v \in Versions} \cup shutdown.left

Accounted ==
    \A p \in Procs : proc[p] = "running" =>
        p \in Mapped \/ \E a \in Actors : StepOf(a).process = p /\ StepOf(a).at \in Owning

\* An actor that is under way has its version.
VersionIsNamed == \A a \in Actors : StepOf(a).at # "idle" => StepOf(a).version \in Versions

ProcessesIInv ==
    /\ ProcessesTypeOK /\ shutdown \in [open : BOOLEAN, left : SUBSET Procs]
    /\ shutdown.open => shutdown.left = {}
    /\ VersionIsNamed /\ Accounted

\* An actor's step, as the actor is written.
LEMMA StepTypes ==
    ASSUME ProcessesTypeOK, NEW a \in Actors
    PROVE  StepOf(a) \in Step
BY DEF ProcessesTypeOK, Actors, StepOf

\* One actor moves.
LEMMA ActorMoves ==
    ASSUME ProcessesTypeOK, NEW a \in Actors, NEW s \in Step, Goto(a, s)
    PROVE  /\ caller' \in [Callers -> Step] /\ control' \in Step
           /\ StepOf(a)' = s
           /\ \A b \in Actors : b # a => StepOf(b)' = StepOf(b)
<1>1. CASE a = "controller"
  BY <1>1, ProcessesAssumption DEF ProcessesTypeOK, Actors, StepOf, Goto
<1>2. CASE a # "controller"
  <2>1. a \in Callers /\ caller' = [caller EXCEPT ![a] = s] /\ control' = control
    BY <1>2 DEF Actors, Goto
  <2>2. caller \in [Callers -> Step] /\ control \in Step
    BY DEF ProcessesTypeOK
  <2>3. caller' \in [Callers -> Step] /\ caller'[a] = s
        /\ \A b \in Callers : b # a => caller'[b] = caller[b]
    BY <2>1, <2>2
  <2> QED  BY <1>2, <2>1, <2>2, <2>3 DEF Actors, StepOf
<1> QED  BY <1>1, <1>2

\* The fields of a step, also of one that is changed.
LEMMA StepFields ==
    ASSUME NEW s \in Step
    PROVE  s.at \in Steps /\ s.version \in Versions \cup {None} /\ s.process \in Procs \cup {None}
BY DEF Step

\* A step that changes where it is.
LEMMA StepMoves ==
    ASSUME NEW s \in Step, NEW t \in Steps
    PROVE  /\ [s EXCEPT !.at = t] \in Step /\ [s EXCEPT !.at = t].at = t
           /\ [s EXCEPT !.at = t].version = s.version
           /\ [s EXCEPT !.at = t].process = s.process
BY DEF Step

\* A step that changes where it is and takes or drops a process.
LEMMA StepTakes ==
    ASSUME NEW s \in Step, NEW t \in Steps, NEW p \in Procs \cup {None}
    PROVE  /\ [s EXCEPT !.at = t, !.process = p] \in Step
           /\ [s EXCEPT !.at = t, !.process = p].at = t
           /\ [s EXCEPT !.at = t, !.process = p].version = s.version
           /\ [s EXCEPT !.at = t, !.process = p].process = p
BY DEF Step

\* The steps that start from rest.
LEMMA RestingIs ==
    /\ Resting \in Step /\ Resting.at = "idle" /\ Resting.version = None /\ Resting.process = None
    /\ \A t \in Steps, v \in Versions \cup {None} :
         /\ [Resting EXCEPT !.at = t, !.version = v] \in Step
         /\ [Resting EXCEPT !.at = t, !.version = v].at = t
         /\ [Resting EXCEPT !.at = t, !.version = v].version = v
         /\ [Resting EXCEPT !.at = t, !.version = v].process = None
<1>1. Resting \in Step /\ Resting.at = "idle" /\ Resting.version = None /\ Resting.process = None
  BY DEF Resting, Step, Steps
<1> QED  BY <1>1 DEF Step

\* Closing processes.
LEMMA CloseIs ==
    ASSUME ProcessesTypeOK, NEW S
    PROVE  /\ Close(S) \in [Procs -> {"running", "left", "gone"}]
           /\ \A p \in Procs : Close(S)[p] = IF p \in S THEN "gone" ELSE proc[p]
BY DEF ProcessesTypeOK, Close

\* A step of one actor that owned nothing and owns nothing after it, and takes
\* from the map only what it closes.
LEMMA MoveKeeps ==
    ASSUME ProcessesIInv, NEW a \in Actors, NEW s \in Step, Goto(a, s),
           s.at # "idle" => s.version \in Versions,
           proc' \in [Procs -> {"running", "left", "gone"}],
           processes' \in [Versions -> Procs \cup {None}],
           {activated', desired'} \subseteq Versions \cup {None},
           crashes' \in 0..MaxCrashes, enables' \in 0..MaxEnables, UNCHANGED shutdown,
           \A p \in Procs : proc'[p] = "running" =>
              \/ p \in Mapped' \/ (s.at \in Owning /\ s.process = p)
              \/ proc[p] = "running" /\ p \notin Mapped
                 /\ ~ (StepOf(a).at \in Owning /\ StepOf(a).process = p)
    PROVE  ProcessesIInv'
<1>1. /\ caller' \in [Callers -> Step] /\ control' \in Step
      /\ StepOf(a)' = s
      /\ \A b \in Actors : b # a => StepOf(b)' = StepOf(b)
  BY ActorMoves DEF ProcessesIInv
<1>2. ProcessesTypeOK' /\ (shutdown \in [open : BOOLEAN, left : SUBSET Procs])'
      /\ (shutdown.open => shutdown.left = {})'
  BY <1>1 DEF ProcessesIInv, ProcessesTypeOK
<1>3. VersionIsNamed'
  BY <1>1 DEF ProcessesIInv, VersionIsNamed
<1>4. Accounted'
  <2>1. ASSUME NEW p \in Procs, proc'[p] = "running", p \notin Mapped'
        PROVE  \E b \in Actors : StepOf(b)'.process = p /\ StepOf(b)'.at \in Owning
    <3>1. CASE s.at \in Owning /\ s.process = p
      BY <1>1, <3>1
    <3>2. CASE proc[p] = "running" /\ p \notin Mapped
               /\ ~ (StepOf(a).at \in Owning /\ StepOf(a).process = p)
      <4>1. PICK b \in Actors : StepOf(b).process = p /\ StepOf(b).at \in Owning
        BY <3>2 DEF ProcessesIInv, Accounted
      <4> QED  BY <1>1, <3>2, <4>1
    <3> QED  BY <2>1, <3>1, <3>2
  <2> QED  BY <2>1 DEF Accounted
<1> QED  BY <1>2, <1>3, <1>4 DEF ProcessesIInv

\* The steps of an actor that change no process and no entry of the map.
LEMMA QuietMove ==
    ASSUME ProcessesIInv, NEW a \in Actors, NEW s \in Step, Goto(a, s),
           s.at # "idle" => s.version \in Versions, StepOf(a).at \notin Owning,
           UNCHANGED <<proc, processes, activated, desired, shutdown, enables>>,
           crashes' \in 0..MaxCrashes
    PROVE  ProcessesIInv'
<1>1. /\ proc' \in [Procs -> {"running", "left", "gone"}]
      /\ processes' \in [Versions -> Procs \cup {None}]
      /\ {activated', desired'} \subseteq Versions \cup {None}
      /\ enables' \in 0..MaxEnables
  BY DEF ProcessesIInv, ProcessesTypeOK
<1>2. Mapped' = Mapped
  BY DEF Mapped
<1> QED  BY <1>1, <1>2, MoveKeeps

\* Lookup, Launch, a failed launch and Return.
LEMMA LookupKeeps ==
    ASSUME ProcessesIInv, NEW a \in Actors, Lookup(a) \/ LaunchFails(a) \/ Return(a)
    PROVE  ProcessesIInv'
<1>0. ProcessesTypeOK /\ StepOf(a) \in Step /\ crashes \in 0..MaxCrashes
      /\ processes \in [Versions -> Procs \cup {None}]
      /\ (StepOf(a).at # "idle" => StepOf(a).version \in Versions)
  BY StepTypes DEF ProcessesIInv, ProcessesTypeOK, VersionIsNamed
<1> DEFINE s == StepOf(a)
<1>1. CASE Lookup(a)
  <2>1. s.at = "lookup" /\ s.version \in Versions /\ processes[s.version] \in Procs \cup {None}
    BY <1>0, <1>1 DEF Lookup
  <2>2. {"using", "launch"} \subseteq Steps /\ "lookup" \notin Owning
    BY DEF Steps, Launching, Owning
  <2> DEFINE u == [s EXCEPT !.at = "using", !.process = processes[s.version]]
             l == [s EXCEPT !.at = "launch"]
  <2>3. u \in Step /\ u.version = s.version /\ l \in Step /\ l.version = s.version
    <3> HIDE DEF s
    <3>1. "using" \in Steps /\ "launch" \in Steps /\ s \in Step
      BY <1>0, <2>2 DEF s
    <3>2. l \in Step /\ l.version = s.version
      BY <3>1, StepMoves
    <3>3. u \in Step /\ u.version = s.version
      BY <2>1, <3>1 DEF Step
    <3> QED  BY <3>2, <3>3
  <2>4. (Goto(a, u) \/ Goto(a, l))
        /\ UNCHANGED <<proc, processes, activated, desired, shutdown, enables, crashes>>
    BY <1>1 DEF Lookup
  <2> HIDE DEF u, l
  <2> QED  BY <1>0, <2>1, <2>2, <2>3, <2>4, QuietMove
<1>2. CASE LaunchFails(a)
  <2>1. s.at \notin Owning /\ Goto(a, Resting) /\ crashes' \in 0..MaxCrashes
        /\ UNCHANGED <<proc, processes, activated, desired, shutdown, enables>>
    BY <1>0, <1>2, ProcessesAssumption DEF LaunchFails, Owning, Launching
  <2> QED  BY <2>1, RestingIs, QuietMove
<1>3. CASE Return(a)
  <2>1. s.at = "using" /\ s.version \in Versions /\ "using" \notin Owning /\ "evict" \in Steps
    BY <1>0, <1>3 DEF Return, Owning, Steps
  <2> DEFINE e == [s EXCEPT !.at = "evict", !.process = None]
  <2>2. e \in Step /\ e.version = s.version
    <3> HIDE DEF s
    <3>1. s \in Step /\ None \in Procs \cup {None}
      BY <1>0 DEF s
    <3> QED  BY <2>1, <3>1 DEF Step
  <2>3. (Goto(a, Resting) \/ Goto(a, e))
        /\ UNCHANGED <<proc, processes, activated, desired, shutdown, enables, crashes>>
    BY <1>3 DEF Return
  <2> HIDE DEF e
  <2>4. CASE Goto(a, Resting)
    <3>1. Resting \in Step /\ Resting.at = "idle"
      BY RestingIs
    <3> QED  BY <1>0, <2>1, <2>3, <2>4, <3>1, QuietMove
  <2>5. CASE Goto(a, e)
    BY <1>0, <2>1, <2>2, <2>3, <2>5, QuietMove
  <2> QED  BY <2>3, <2>4, <2>5
<1> QED  BY <1>1, <1>2, <1>3

\* A process that starts is owned by the actor that launched it.
LEMMA LaunchKeeps ==
    ASSUME ProcessesIInv, NEW a \in Actors, Launch(a)
    PROVE  ProcessesIInv'
<1> DEFINE s == StepOf(a)
           p == CHOOSE q \in Fresh : TRUE
           t == IF s.at = "launch" THEN "launched" ELSE "started"
           n == [s EXCEPT !.at = t, !.process = p]
<1>0. ProcessesTypeOK /\ s \in Step /\ s.at \in Launching /\ s.version \in Versions
      /\ UNCHANGED <<processes, activated, desired, shutdown, crashes, enables>>
  BY StepTypes DEF ProcessesIInv, VersionIsNamed, Launch, Launching
<1>1. p \in Procs
  BY DEF Launch, Fresh
<1>2. Goto(a, n) /\ proc' = [proc EXCEPT ![p] = "running"]
  BY DEF Launch
<1> HIDE DEF p
<1>3. t \in Steps /\ t \in Owning /\ s.at \notin Owning
  BY <1>0 DEF Steps, Owning, Launching
<1> HIDE DEF t
<1>4. n \in Step /\ n.at = t /\ n.version = s.version /\ n.process = p
  <2> HIDE DEF s
  <2>1. p \in Procs \cup {None} /\ s \in Step /\ t \in Steps
    BY <1>0, <1>1, <1>3
  <2> QED  BY <2>1 DEF Step
<1> HIDE DEF n
<1>5. /\ proc' \in [Procs -> {"running", "left", "gone"}]
      /\ \A q \in Procs : q # p => proc'[q] = proc[q]
      /\ processes' \in [Versions -> Procs \cup {None}]
      /\ {activated', desired'} \subseteq Versions \cup {None}
      /\ enables' \in 0..MaxEnables /\ crashes' \in 0..MaxCrashes
  BY <1>0, <1>2 DEF ProcessesTypeOK
<1>6. Mapped' = Mapped
  BY <1>0 DEF Mapped
<1> QED  BY <1>0, <1>2, <1>3, <1>4, <1>5, <1>6, MoveKeeps

\* The loser of the race closes its own process; the winner's is in the map.
LEMMA InsertKeeps ==
    ASSUME ProcessesIInv, NEW a \in Actors, Insert(a)
    PROVE  ProcessesIInv'
<1> DEFINE s == StepOf(a)
           old == processes[s.version]
           u == [s EXCEPT !.at = "using", !.process = old]
           n == [s EXCEPT !.at = "using"]
<1>0. ProcessesTypeOK /\ s \in Step /\ s.at = "launched" /\ s.version \in Versions
      /\ UNCHANGED <<activated, desired, shutdown, crashes, enables>>
      /\ proc \in [Procs -> {"running", "left", "gone"}]
      /\ processes \in [Versions -> Procs \cup {None}] /\ old \in Procs \cup {None}
      /\ s.process \in Procs \cup {None}
  BY StepTypes, StepFields DEF ProcessesIInv, VersionIsNamed, Insert, ProcessesTypeOK
<1>1. u \in Step /\ u.version = s.version /\ n \in Step /\ n.version = s.version
  <2>1. "using" \in Steps
    BY DEF Steps
  <2> HIDE DEF s, old
  <2>2. u \in Step /\ u.version = s.version
    BY <1>0, <2>1 DEF Step
  <2> QED  BY <1>0, <2>1, <2>2, StepMoves
<1>2. {activated', desired'} \subseteq Versions \cup {None}
      /\ enables' \in 0..MaxEnables /\ crashes' \in 0..MaxCrashes
  BY <1>0 DEF ProcessesTypeOK
<1>3. CASE Running(old)
  <2>1. Goto(a, u) /\ proc' = Close({s.process}) /\ UNCHANGED processes
    BY <1>3 DEF Insert
  <2> HIDE DEF u, n
  <2>2. proc' \in [Procs -> {"running", "left", "gone"}] /\ Mapped' = Mapped
        /\ \A p \in Procs : proc'[p] = IF p \in {s.process} THEN "gone" ELSE proc[p]
    BY <1>0, <2>1, CloseIs DEF Mapped
  <2> QED  BY <1>0, <1>1, <1>2, <2>1, <2>2, MoveKeeps
<1>4. CASE ~ Running(old)
  <2>1. Goto(a, n) /\ processes' = [processes EXCEPT ![s.version] = s.process] /\ UNCHANGED proc
    BY <1>4 DEF Insert
  <2> HIDE DEF u, n
  <2>2. processes' \in [Versions -> Procs \cup {None}] /\ processes'[s.version] = s.process
        /\ \A v \in Versions : v # s.version => processes'[v] = processes[v]
    BY <1>0, <2>1
  <2>3. ASSUME NEW p \in Procs, proc'[p] = "running", p \notin Mapped'
        PROVE  proc[p] = "running" /\ p \notin Mapped /\ ~ (s.at \in Owning /\ s.process = p)
    <3>1. p # old
      BY <1>0, <1>4, <2>1, <2>3, ProcessesAssumption DEF Running
    <3> QED  BY <1>0, <2>1, <2>2, <2>3, <3>1 DEF Mapped
  <2> QED  BY <1>0, <1>1, <1>2, <2>1, <2>2, <2>3, MoveKeeps
<1> QED  BY <1>3, <1>4

\* What leaves the map is closed.
LEMMA EvictKeeps ==
    ASSUME ProcessesIInv, NEW a \in Actors, Evict(a)
    PROVE  ProcessesIInv'
<1> DEFINE s == StepOf(a)
<1>0. ProcessesTypeOK /\ s.at = "evict" /\ s.version \in Versions /\ Goto(a, Resting)
      /\ UNCHANGED <<activated, desired, shutdown, crashes, enables>>
      /\ proc' = Close({processes[s.version]})
      /\ processes' = [processes EXCEPT ![s.version] = None]
      /\ processes \in [Versions -> Procs \cup {None}]
  BY DEF ProcessesIInv, VersionIsNamed, Evict, ProcessesTypeOK
<1>1. {activated', desired'} \subseteq Versions \cup {None}
      /\ enables' \in 0..MaxEnables /\ crashes' \in 0..MaxCrashes /\ "evict" \notin Owning
  BY <1>0 DEF ProcessesTypeOK, Owning
<1>2. proc' \in [Procs -> {"running", "left", "gone"}]
      /\ \A p \in Procs : proc'[p] = IF p \in {processes[s.version]} THEN "gone" ELSE proc[p]
  BY <1>0, CloseIs
<1>3. processes' \in [Versions -> Procs \cup {None}]
      /\ \A v \in Versions : v # s.version => processes'[v] = processes[v]
  BY <1>0
<1>4. ASSUME NEW p \in Procs, proc'[p] = "running", p \notin Mapped'
      PROVE  proc[p] = "running" /\ p \notin Mapped
  <2> HIDE DEF s
  <2>1. p # processes[s.version] /\ proc[p] = "running"
    BY <1>2, <1>4
  <2>2. \A v \in Versions : processes[v] # p
    <3>1. \A v \in Versions : processes'[v] # p
      BY <1>4 DEF Mapped
    <3> QED  BY <1>3, <2>1, <3>1
  <2>3. p \notin shutdown.left
    BY <1>0, <1>4 DEF Mapped
  <2> QED  BY <2>1, <2>2, <2>3 DEF Mapped
<1>5. ASSUME NEW p \in Procs, proc'[p] = "running"
      PROVE  \/ p \in Mapped' \/ (Resting.at \in Owning /\ Resting.process = p)
             \/ proc[p] = "running" /\ p \notin Mapped
                /\ ~ (StepOf(a).at \in Owning /\ StepOf(a).process = p)
  BY <1>0, <1>1, <1>4, <1>5
<1>6. Resting \in Step /\ Resting.at = "idle"
  BY RestingIs
<1>7. Goto(a, Resting) /\ UNCHANGED shutdown
  BY <1>0
<1> QED  BY <1>1, <1>2, <1>3, <1>5, <1>6, <1>7, MoveKeeps

-----------------------------------------------------------------------------
(* The controller's pass, operators, crashes and the shutdown.             *)

\* A step of the controller that starts from rest, or an operator's wish.
LEMMA PassBegins ==
    ASSUME ProcessesIInv, BeginEnable \/ Disable \/ Probe
    PROVE  ProcessesIInv'
<1>0. ProcessesTypeOK /\ "controller" \in Actors /\ StepOf("controller") = control
      /\ control = Resting /\ {activated, desired} \subseteq Versions \cup {None}
      /\ UNCHANGED <<proc, processes, desired, caller, shutdown, crashes, enables>>
  BY DEF ProcessesIInv, ProcessesTypeOK, BeginEnable, Disable, Probe, Actors, StepOf
<1>1. /\ proc' \in [Procs -> {"running", "left", "gone"}]
      /\ processes' \in [Versions -> Procs \cup {None}]
      /\ enables' \in 0..MaxEnables /\ crashes' \in 0..MaxCrashes
  BY <1>0 DEF ProcessesTypeOK
<1>2. PICK t \in {"starting", "evict", "lookup"}, v \in Versions :
         control' = [Resting EXCEPT !.at = t, !.version = v]
  BY <1>0 DEF BeginEnable, Disable, Probe
<1> DEFINE n == [Resting EXCEPT !.at = t, !.version = v]
<1>3. t \in Steps /\ v \in Versions \cup {None}
  BY DEF Steps, Launching
<1>4. n \in Step /\ n.version = v
  <2>1. Resting \in Step
    BY RestingIs
  <2> QED  BY <1>3, <2>1 DEF Step
<1>5. Goto("controller", n)
  BY <1>0, <1>2 DEF Goto
<1> HIDE DEF n
<1>6. activated' \in {activated, None} /\ desired' = desired
  BY <1>0 DEF BeginEnable, Disable, Probe
<1>7. {activated', desired'} \subseteq Versions \cup {None}
  BY <1>0, <1>6
<1>8. StepOf("controller").at \notin Owning
  BY <1>0, RestingIs DEF Owning
<1>9. Mapped' = Mapped
  BY <1>0 DEF Mapped
<1> QED  BY <1>0, <1>1, <1>4, <1>5, <1>7, <1>8, <1>9, MoveKeeps

\* A healthy process is activated, another closed.
LEMMA ActivatePluginKeeps ==
    ASSUME ProcessesIInv, ActivatePlugin
    PROVE  ProcessesIInv'
<1>0. ProcessesTypeOK /\ "controller" \in Actors /\ StepOf("controller") = control
      /\ control \in Step /\ control.at = "started" /\ control.version \in Versions
      /\ {activated, desired} \subseteq Versions \cup {None}
      /\ UNCHANGED <<processes, desired, caller, shutdown, enables>>
  <2>1. "controller" \in Actors /\ StepOf("controller") = control
    BY DEF Actors, StepOf
  <2> QED  BY <2>1 DEF ProcessesIInv, ProcessesTypeOK, VersionIsNamed, ActivatePlugin
<1>4. crashes' \in 0..MaxCrashes
  <2>1. crashes' = crashes \/ (crashes < MaxCrashes /\ crashes' = crashes + 1)
    BY DEF ActivatePlugin
  <2> QED  BY <1>0, <2>1, ProcessesAssumption DEF ProcessesTypeOK
<1>1. /\ processes' \in [Versions -> Procs \cup {None}] /\ Mapped' = Mapped
      /\ enables' \in 0..MaxEnables /\ crashes' \in 0..MaxCrashes
  BY <1>0, <1>4 DEF ProcessesTypeOK, Mapped
<1>2. CASE activated' = control.version /\ control' = [control EXCEPT !.at = "activated"]
           /\ UNCHANGED proc
  <2> DEFINE n == [control EXCEPT !.at = "activated"]
  <2>1. "activated" \in Steps /\ "activated" \in Owning
    BY DEF Steps, Owning
  <2>2. n \in Step /\ n.at = "activated" /\ n.version = control.version
        /\ n.process = control.process
    BY <1>0, <2>1, StepMoves
  <2>3. Goto("controller", n) /\ UNCHANGED proc /\ activated' = control.version
    BY <1>0, <1>2 DEF Goto
  <2> HIDE DEF n
  <2>4. proc' \in [Procs -> {"running", "left", "gone"}]
        /\ {activated', desired'} \subseteq Versions \cup {None}
    BY <1>0, <2>3 DEF ProcessesTypeOK
  <2> QED  BY <1>0, <1>1, <2>1, <2>2, <2>3, <2>4, MoveKeeps
<1>3. CASE control' = Resting /\ proc' = Close({control.process}) /\ UNCHANGED activated
  <2>1. Goto("controller", Resting) /\ proc' = Close({control.process}) /\ UNCHANGED activated
    BY <1>0, <1>3 DEF Goto
  <2>2. proc' \in [Procs -> {"running", "left", "gone"}]
        /\ \A p \in Procs : proc'[p] = IF p \in {control.process} THEN "gone" ELSE proc[p]
    BY <1>0, <2>1, CloseIs
  <2>3. {activated', desired'} \subseteq Versions \cup {None}
    BY <1>0, <2>1
  <2>4. Resting \in Step /\ Resting.at = "idle"
    BY RestingIs
  <2> QED  BY <1>0, <1>1, <2>1, <2>2, <2>3, <2>4, MoveKeeps, SMTT(30)
<1> QED  BY <1>2, <1>3 DEF ActivatePlugin

\* Enable puts its process into the map and closes, or leaves, all others.
LEMMA FinishEnableKeeps ==
    ASSUME ProcessesIInv, FinishEnable
    PROVE  ProcessesIInv'
<1> DEFINE others == {processes[w] : w \in Versions \ {control.version}}
<1>0. ProcessesTypeOK /\ "controller" \in Actors /\ StepOf("controller") = control
      /\ control \in Step /\ control.at = "activated" /\ control.version \in Versions
      /\ UNCHANGED <<activated, desired, caller, shutdown, crashes, enables>>
      /\ control' = Resting
      /\ control.process \in Procs \cup {None}
      /\ processes \in [Versions -> Procs \cup {None}]
  <2>1. "controller" \in Actors /\ StepOf("controller") = control
    BY DEF Actors, StepOf
  <2>2. control \in Step
    BY DEF ProcessesIInv, ProcessesTypeOK
  <2> QED  BY <2>1, <2>2, StepFields DEF ProcessesIInv, ProcessesTypeOK, VersionIsNamed, FinishEnable
<1>1. /\ {activated', desired'} \subseteq Versions \cup {None}
      /\ enables' \in 0..MaxEnables /\ crashes' \in 0..MaxCrashes
  BY <1>0 DEF ProcessesTypeOK
<1>2. Close(others) \in [Procs -> {"running", "left", "gone"}]
      /\ \A p \in Procs : Close(others)[p] = IF p \in others THEN "gone" ELSE proc[p]
  BY <1>0, CloseIs
<1>3. proc' = [p \in Procs |-> IF p = processes[control.version] /\ Running(p)
                              THEN "left" ELSE Close(others)[p]]
  BY DEF FinishEnable
<1>4. proc' \in [Procs -> {"running", "left", "gone"}]
      /\ \A p \in Procs : proc'[p] = "running" =>
           proc[p] = "running" /\ p \notin others /\ ~ (p = processes[control.version] /\ Running(p))
  <2> HIDE DEF others
  <2> QED  BY <1>2, <1>3
<1>5. processes' \in [Versions -> Procs \cup {None}] /\ processes'[control.version] = control.process
  <2>1. processes' = [w \in Versions |-> IF w = control.version THEN control.process ELSE None]
    BY DEF FinishEnable
  <2> QED  BY <1>0, <2>1
<1>6. ASSUME NEW p \in Procs, proc'[p] = "running", p \notin Mapped'
      PROVE  proc[p] = "running" /\ p \notin Mapped /\ ~ (p = control.process)
  <2>1. proc[p] = "running" /\ p \notin others /\ p # processes[control.version]
    <3>1. p # None
      BY ProcessesAssumption
    <3> HIDE DEF others
    <3> QED  BY <1>4, <1>6, <3>1 DEF Running
  <2>2. \A v \in Versions : processes[v] # p
    BY <2>1
  <2>3. p # control.process /\ p \notin shutdown.left
    BY <1>0, <1>5, <1>6 DEF Mapped
  <2> QED  BY <2>1, <2>2, <2>3 DEF Mapped
<1>7. Resting \in Step /\ Resting.at = "idle" /\ Goto("controller", Resting) /\ UNCHANGED shutdown
  BY <1>0, RestingIs DEF Goto
<1> HIDE DEF others
<1> QED  BY <1>0, <1>1, <1>4, <1>5, <1>6, <1>7, MoveKeeps

\* The steps that move no actor.
LEMMA NobodyMoves ==
    ASSUME ProcessesIInv, UNCHANGED <<caller, control>>,
           proc' \in [Procs -> {"running", "left", "gone"}],
           processes' \in [Versions -> Procs \cup {None}],
           activated' = activated, desired' \in Versions \cup {None},
           shutdown' \in [open : BOOLEAN, left : SUBSET Procs],
           shutdown'.open => shutdown'.left = {},
           crashes' \in 0..MaxCrashes, enables' \in 0..MaxEnables,
           \A p \in Procs : proc'[p] = "running" =>
              p \in Mapped' \/ (proc[p] = "running" /\ p \notin Mapped)
    PROVE  ProcessesIInv'
<1>1. \A a \in Actors : StepOf(a)' = StepOf(a)
  BY DEF StepOf
<1>2. ProcessesTypeOK'
  BY DEF ProcessesIInv, ProcessesTypeOK
<1>3. VersionIsNamed' /\ Accounted'
  BY <1>1 DEF ProcessesIInv, VersionIsNamed, Accounted
<1> QED  BY <1>2, <1>3 DEF ProcessesIInv

\* An exit that is noticed, one that happens, an operator's wish, and Close.
LEMMA WorldKeeps ==
    ASSUME ProcessesIInv,
           \/ RemoveExitedProcess \/ Shutdown
           \/ \E v \in Versions \cup {None} : Want(v)
           \/ \E p \in Procs : Crash(p) \/ CloseOne(p)
    PROVE  ProcessesIInv'
<1>0. ProcessesTypeOK /\ UNCHANGED <<caller, control>> /\ activated' = activated
      /\ proc \in [Procs -> {"running", "left", "gone"}]
      /\ processes \in [Versions -> Procs \cup {None}] /\ desired \in Versions \cup {None}
      /\ activated \in Versions \cup {None}
      /\ shutdown \in [open : BOOLEAN, left : SUBSET Procs] /\ (shutdown.open => shutdown.left = {})
      /\ crashes \in 0..MaxCrashes /\ enables \in 0..MaxEnables
  BY DEF ProcessesIInv, ProcessesTypeOK, RemoveExitedProcess, Shutdown, Want, Crash, CloseOne
<1>1. CASE RemoveExitedProcess
  <2>1. /\ processes' = [processes EXCEPT ![activated] = None] /\ activated \in Versions
        /\ ~ Running(processes[activated])
        /\ UNCHANGED <<proc, desired, shutdown, crashes, enables>>
    BY <1>0, <1>1 DEF RemoveExitedProcess
  <2>2. processes' \in [Versions -> Procs \cup {None}]
        /\ \A v \in Versions : v # activated => processes'[v] = processes[v]
    BY <1>0, <2>1
  <2>3. ASSUME NEW p \in Procs, proc'[p] = "running", p \notin Mapped'
        PROVE  proc[p] = "running" /\ p \notin Mapped
    <3>1. p # processes[activated]
      BY <2>1, <2>3, ProcessesAssumption DEF Running
    <3>2. \A v \in Versions : processes'[v] # p
      BY <2>3 DEF Mapped
    <3>3. \A v \in Versions : processes[v] # p
      BY <2>2, <3>1, <3>2
    <3> QED  BY <2>1, <2>3, <3>3 DEF Mapped
  <2> QED  BY <1>0, <2>1, <2>2, <2>3, NobodyMoves
<1>2. CASE Shutdown
  <2>1. /\ shutdown' = [open |-> FALSE, left |-> {processes[v] : v \in Versions} \ {None}]
        /\ processes' = [v \in Versions |-> None] /\ shutdown.open
        /\ UNCHANGED <<proc, desired, crashes, enables>>
    BY <1>2 DEF Shutdown
  <2>2. processes' \in [Versions -> Procs \cup {None}]
        /\ shutdown' \in [open : BOOLEAN, left : SUBSET Procs]
    BY <1>0, <2>1
  <2>3. ASSUME NEW p \in Procs, proc'[p] = "running", p \notin Mapped'
        PROVE  proc[p] = "running" /\ (p \notin shutdown.left => p \notin Mapped)
    <3>1. p # None /\ p \notin shutdown'.left
      BY <2>3, ProcessesAssumption DEF Mapped
    <3> QED  BY <2>1, <2>3, <3>1 DEF Mapped
  <2>4. shutdown.left = {}
    BY <1>0, <2>1
  <2>5. ~ shutdown'.open
    BY <2>1
  <2> QED  BY <1>0, <2>1, <2>2, <2>3, <2>4, <2>5, NobodyMoves
<1>3. ASSUME NEW v \in Versions \cup {None}, Want(v)
      PROVE  ProcessesIInv'
  <2>1. desired' = v /\ UNCHANGED <<proc, processes, shutdown, crashes>>
        /\ enables' \in 0..MaxEnables
    BY <1>0, <1>3, ProcessesAssumption DEF Want
  <2>2. Mapped' = Mapped
    BY <2>1 DEF Mapped
  <2> QED  BY <1>0, <2>1, <2>2, NobodyMoves
<1>4. ASSUME NEW p \in Procs, Crash(p)
      PROVE  ProcessesIInv'
  <2>1. proc' = Close({p}) /\ UNCHANGED <<processes, desired, shutdown, enables>>
        /\ crashes' \in 0..MaxCrashes
    BY <1>0, <1>4, ProcessesAssumption DEF Crash
  <2>2. proc' \in [Procs -> {"running", "left", "gone"}] /\ Mapped' = Mapped
        /\ \A q \in Procs : proc'[q] = IF q \in {p} THEN "gone" ELSE proc[q]
    BY <1>0, <2>1, CloseIs DEF Mapped
  <2> QED  BY <1>0, <2>1, <2>2, NobodyMoves
<1>5. ASSUME NEW p \in Procs, CloseOne(p)
      PROVE  ProcessesIInv'
  <2>1. proc' = Close({p}) /\ UNCHANGED <<processes, desired, crashes, enables>>
        /\ shutdown' = [shutdown EXCEPT !.left = @ \ {p}]
    BY <1>5 DEF CloseOne
  <2>2. shutdown' \in [open : BOOLEAN, left : SUBSET Procs]
        /\ shutdown'.left = shutdown.left \ {p} /\ shutdown'.open = shutdown.open
    BY <1>0, <2>1
  <2>3. proc' \in [Procs -> {"running", "left", "gone"}]
        /\ \A q \in Procs : proc'[q] = IF q \in {p} THEN "gone" ELSE proc[q]
    BY <1>0, <2>1, CloseIs
  <2>4. \A q \in Procs : q # p /\ q \in Mapped => q \in Mapped'
    BY <2>1, <2>2 DEF Mapped
  <2> QED  BY <1>0, <2>1, <2>2, <2>3, <2>4, NobodyMoves
<1> QED  BY <1>1, <1>2, <1>3, <1>4, <1>5

\* A Run asks for its pinned version.
LEMMA ExecuteKeeps ==
    ASSUME ProcessesIInv, NEW c \in Callers, NEW v \in Versions, Execute(c, v)
    PROVE  ProcessesIInv'
<1> DEFINE n == [Resting EXCEPT !.at = "lookup", !.version = v]
<1>1. n \in Step /\ n.version = v
  <2>1. Resting \in Step /\ "lookup" \in Steps
    BY RestingIs DEF Steps
  <2> QED  BY <2>1 DEF Step
<1>2. Goto(c, n) /\ c \in Actors /\ StepOf(c) = Resting
      /\ UNCHANGED <<proc, processes, activated, desired, shutdown, enables, crashes>>
  BY ProcessesAssumption DEF Execute, Actors, StepOf
<1>3. StepOf(c).at \notin Owning /\ crashes' \in 0..MaxCrashes
  BY <1>2, RestingIs DEF Owning, ProcessesIInv, ProcessesTypeOK
<1> HIDE DEF n
<1> QED  BY <1>1, <1>2, <1>3, QuietMove

\* The inductive invariant of the processes.
LEMMA ProcessesInductive == ProcessesSpec => []ProcessesIInv
<1>1. ProcessesInit => ProcessesIInv
  <2> SUFFICES ASSUME ProcessesInit PROVE ProcessesIInv
    OBVIOUS
  <2>1. Resting \in Step /\ Resting.at = "idle"
    BY RestingIs
  <2>2. ProcessesTypeOK /\ shutdown \in [open : BOOLEAN, left : SUBSET Procs]
        /\ (shutdown.open => shutdown.left = {})
    BY <2>1, ProcessesAssumption DEF ProcessesInit, ProcessesTypeOK
  <2>3. \A a \in Actors : StepOf(a).at = "idle"
    BY <2>1 DEF ProcessesInit, Actors, StepOf
  <2> QED  BY <2>2, <2>3 DEF ProcessesIInv, VersionIsNamed, Accounted, ProcessesInit
<1>2. ProcessesIInv /\ [ProcessesNext]_processesVars => ProcessesIInv'
  <2> SUFFICES ASSUME ProcessesIInv, [ProcessesNext]_processesVars PROVE ProcessesIInv'
    OBVIOUS
  <2>1. ASSUME NEW a \in Actors, ActorStep(a)
        PROVE  ProcessesIInv'
    BY <2>1, LookupKeeps, LaunchKeeps, InsertKeeps, EvictKeeps DEF ActorStep
  <2>2. CASE PassStep
    BY <2>2, PassBegins, ActivatePluginKeeps, FinishEnableKeeps, WorldKeeps DEF PassStep
  <2>3. CASE UNCHANGED processesVars
    BY <2>3 DEF processesVars, ProcessesIInv, ProcessesTypeOK, VersionIsNamed, Accounted, StepOf,
       Mapped
  <2> QED  BY <2>1, <2>2, <2>3, ExecuteKeeps, WorldKeeps DEF ProcessesNext
<1> QED  BY <1>1, <1>2, PTL DEF ProcessesSpec

\* A process that runs is known to the manager, or Enable replaced it.
LEMMA RunningIsKnownHolds == ProcessesSpec => [](ProcessesTypeOK /\ RunningIsKnown)
<1>1. ProcessesIInv => ProcessesTypeOK /\ RunningIsKnown
  BY DEF ProcessesIInv, Accounted, RunningIsKnown, Holders, Mapped
<1> QED  BY <1>1, ProcessesInductive, PTL

-----------------------------------------------------------------------------
(***************************************************************************)
(* The versions.  The rows and the bundles: an Install call in flight has  *)
(* its bundle on disk, and takes back only a directory that no row needed. *)
(* The activation: every change of a resource's enabled raises its         *)
(* generation past its status, so a status that claims Active for the      *)
(* current generation was already there when the pass read the resources,  *)
(* and the pass, which acts on what it read, does not move the activation  *)
(* away from it.                                                           *)
(***************************************************************************)
Listing == [Versions -> Digests \cup {None}]
Resource == [generation : 1..MaxGeneration, digest : Digests, enabled : BOOLEAN, status : Statuses]

Projecting == [at : {"project", "adopt"}, records : Listing, active : Versions \cup {None},
               left : SUBSET Versions, adopting : Versions \cup {None}]
Converging == [at : {"converge"}, records : Listing, active : Versions \cup {None},
               read : [Versions -> Inst]]
Reporting == [at : {"status"}, records : Listing, active : Versions \cup {None},
              read : [Versions -> Inst], failed : BOOLEAN, left : SUBSET Versions]
Writing == [at : {"writing"}, target : Versions \cup {None}, left : SUBSET Versions,
            read : [Versions -> Inst]]
InstallCall == [at : {"published"}, version : Versions, digest : Digests, fresh : BOOLEAN]
Retaining == [at : {"planned", "collected"}, version : Versions, digest : Digests]

CallTypes ==
    /\ pass \in {Idle} \cup Projecting \cup Converging \cup Reporting
    /\ pass.at \in {"project", "adopt"} => \A v \in pass.left : pass.records[v] # None
    /\ pass.at = "adopt" => pass.adopting \in Versions /\ pass.records[pass.adopting] # None
    /\ setter \in {Idle} \cup Writing
    /\ install \in {Idle} \cup InstallCall
    /\ retention \in {Idle} \cup Retaining

\* What an Install call has published is there, unless retention took it; the
\* exception lasts until the call ends.
InstallHasBundle ==
    install # Idle =>
        LET v == install.version IN
        v \notin unbundled =>
            disk[v] = install.digest /\ (install.fresh => records[v] = None)

\* A status is never ahead of its resource.
StatusIsBehind ==
    \A v \in Versions : inst[v] # NoInst => inst[v].status.generation =< inst[v].generation

Claims(i) ==
    i # NoInst /\ i.enabled /\ i.status.phase = "Active" /\ i.status.generation = i.generation

ClaimsAreTrue ==
    \A v \in Versions : Claims(inst[v]) =>
        /\ active = v
        /\ pass.at = "converge" => pass.read[v] # NoInst /\ pass.read[v].enabled

\* The controller reports the activation it has made or found.
ReportIsCurrent == pass.at = "status" => pass.active = active

\* SetEnabled writes resources that it has read.
WritesAreRead == setter # Idle => \A v \in setter.left : setter.read[v] # NoInst

VersionsIInv ==
    /\ TypeOK /\ CallTypes
    /\ ActiveIsInstalled /\ RowHasBundle /\ InstallHasBundle
    /\ StatusIsBehind /\ ClaimsAreTrue /\ ReportIsCurrent /\ WritesAreRead

\* A resource that exists.
LEMMA ResourceIs ==
    /\ \A i \in Inst : i # NoInst => i \in Resource
    /\ \A i \in Resource : i \in Inst /\ i # NoInst
    /\ NoInst \in Inst /\ ~ Claims(NoInst)
<1>1. \A i \in Resource : i.generation # 0
  BY DEF Resource
<1>2. NoInst.generation = 0
  BY DEF NoInst
<1> QED  BY <1>1, <1>2 DEF Inst, Resource, Claims

\* A new resource claims nothing.
LEMMA NewResource ==
    ASSUME NEW d \in Digests, NEW e \in BOOLEAN,
           NEW n, n = [generation |-> 1, digest |-> d, enabled |-> e, status |-> NoStatus]
    PROVE  n \in Resource /\ n.status.generation =< n.generation /\ ~ Claims(n)
<1>1. 1 \in 1..MaxGeneration /\ NoStatus \in Statuses /\ NoStatus.generation = 0
  BY PluginsAssumption DEF NoStatus, Statuses, Phases
<1>2. n \in Resource
  BY <1>1 DEF Resource
<1>3. n.generation = 1 /\ n.status = NoStatus
  OBVIOUS
<1> QED  BY <1>1, <1>2, <1>3 DEF Claims

\* A change of enabled leaves the status behind; one that changes nothing
\* leaves the claim as it was.
LEMMA EditedIs ==
    ASSUME NEW i \in Resource, i.status.generation =< i.generation,
           i.generation < MaxGeneration, NEW e \in BOOLEAN
    PROVE  /\ Edited(i, e) \in Resource
           /\ Edited(i, e).status.generation =< Edited(i, e).generation
           /\ Claims(Edited(i, e)) => Edited(i, e) = i
<1>1. CASE i.enabled = e
  BY <1>1 DEF Edited
<1>2. CASE i.enabled # e
  <2> DEFINE n == [i EXCEPT !.enabled = e, !.generation = @ + 1]
  <2>1. i.generation \in 1..MaxGeneration /\ i.status \in Statuses /\ i.status.generation \in Nat
    BY DEF Resource, Statuses
  <2>2. i.generation + 1 \in 1..MaxGeneration
    BY <2>1, PluginsAssumption
  <2>3. n \in Resource /\ n.generation = i.generation + 1 /\ n.status = i.status
    BY <2>2 DEF Resource
  <2>4. Edited(i, e) = n
    BY <1>2 DEF Edited
  <2> HIDE DEF n
  <2>5. n.status.generation < n.generation
    BY <2>1, <2>3
  <2> QED  BY <2>1, <2>3, <2>4, <2>5 DEF Claims
<1> QED  BY <1>1, <1>2

\* One resource is written.
LEMMA InstChange ==
    ASSUME VersionsIInv, NEW v \in Versions, NEW n \in Inst, inst' = [inst EXCEPT ![v] = n],
           active' = active, pass'.at = "converge" => pass' = pass,
           n # NoInst => n.status.generation =< n.generation,
           Claims(n) => active = v /\ (pass'.at = "converge" =>
                                          pass'.read[v] # NoInst /\ pass'.read[v].enabled)
    PROVE  inst' \in [Versions -> Inst] /\ StatusIsBehind' /\ ClaimsAreTrue'
<1>1. inst \in [Versions -> Inst]
  BY DEF VersionsIInv, TypeOK
<1>2. inst' \in [Versions -> Inst] /\ inst'[v] = n /\ \A w \in Versions : w # v => inst'[w] = inst[w]
  BY <1>1
<1>3. StatusIsBehind'
  BY <1>2 DEF VersionsIInv, StatusIsBehind
<1>4. ClaimsAreTrue'
  BY <1>2 DEF VersionsIInv, ClaimsAreTrue
<1> QED  BY <1>2, <1>3, <1>4

\* Steps that do not touch rows and bundles, or do not touch resources.
LEMMA RowsFrame ==
    ASSUME VersionsIInv, UNCHANGED <<records, active, disk, install, unbundled>>
    PROVE  ActiveIsInstalled' /\ RowHasBundle' /\ InstallHasBundle'
BY DEF VersionsIInv, ActiveIsInstalled, RowHasBundle, InstallHasBundle

\* The same for the resources and what the controller has read of them.
LEMMA ClaimsFrame ==
    ASSUME VersionsIInv, UNCHANGED <<inst, active, pass, setter>>
    PROVE  StatusIsBehind' /\ ClaimsAreTrue' /\ ReportIsCurrent' /\ WritesAreRead'
BY DEF VersionsIInv, StatusIsBehind, ClaimsAreTrue, ReportIsCurrent, WritesAreRead

-----------------------------------------------------------------------------
(* Installation and retention: rows and bundles.                           *)

\* Publication.
LEMMA PublishKeeps ==
    ASSUME VersionsIInv, NEW v \in Versions, NEW d \in Digests, Publish(v, d)
    PROVE  VersionsIInv'
<1> DEFINE n == [at |-> "published", version |-> v, digest |-> d, fresh |-> disk[v] = None]
<1>1. /\ disk[v] \in {None, d} /\ calls' = calls + 1 /\ calls < MaxCalls
      /\ install' = n /\ disk' = [disk EXCEPT ![v] = d]
      /\ UNCHANGED <<records, active, inst, plans, binding, pass, setter, retention, unbundled, faults>>
  BY DEF Publish
<1>2. disk \in [Versions -> Digests \cup {None}] /\ calls \in 0..MaxCalls
      /\ TypeOK /\ CallTypes
  BY DEF VersionsIInv, TypeOK
<1>3. disk' \in [Versions -> Digests \cup {None}] /\ disk'[v] = d
      /\ \A w \in Versions : w # v => disk'[w] = disk[w]
  BY <1>1, <1>2
<1>4. calls' \in 0..MaxCalls
  BY <1>1, <1>2, PluginsAssumption
<1>5. n \in InstallCall /\ n.version = v /\ n.digest = d /\ n.fresh = (disk[v] = None) /\ n # Idle
  <2>1. n \in InstallCall /\ n.version = v /\ n.digest = d /\ n.fresh = (disk[v] = None)
    BY DEF InstallCall
  <2>2. n.at = "published" /\ Idle.at = "idle"
    BY DEF Idle
  <2> QED  BY <2>1, <2>2
<1> HIDE DEF n
<1>6. TypeOK' /\ CallTypes'
  BY <1>1, <1>2, <1>3, <1>4, <1>5 DEF TypeOK, CallTypes
<1>7. ActiveIsInstalled' /\ RowHasBundle'
  BY <1>1, <1>2, <1>3, PluginsAssumption DEF VersionsIInv, ActiveIsInstalled, RowHasBundle
<1>8. InstallHasBundle'
  BY <1>1, <1>2, <1>3, <1>5, PluginsAssumption DEF VersionsIInv, InstallHasBundle, RowHasBundle
<1> QED  BY <1>1, <1>6, <1>7, <1>8, ClaimsFrame DEF VersionsIInv

\* The row, and what a refusal or a failure takes back.
LEMMA PutPluginKeeps ==
    ASSUME VersionsIInv, PutPlugin \/ InstallFails
    PROVE  VersionsIInv'
<1> DEFINE v == install.version
<1>1. /\ install \in InstallCall /\ install # Idle /\ install' = Idle
      /\ UNCHANGED <<active, inst, plans, binding, pass, setter, retention, calls>>
  BY DEF VersionsIInv, CallTypes, PutPlugin, InstallFails
<1>2. /\ TypeOK /\ CallTypes /\ records \in Listing /\ disk \in Listing
      /\ v \in Versions /\ install.digest \in Digests /\ install.fresh \in BOOLEAN
      /\ active \in Versions \cup {None} /\ faults \in 0..MaxFaults
  BY <1>1 DEF VersionsIInv, TypeOK, Listing, InstallCall
<1>3. \/ /\ records[v] \in {None, install.digest} /\ disk' = disk
         /\ records' = [records EXCEPT ![v] = install.digest]
         /\ unbundled' = IF disk[v] = install.digest THEN unbundled \ {v} ELSE unbundled
      \/ /\ records' = records /\ install.fresh /\ disk' = [disk EXCEPT ![v] = None]
         /\ UNCHANGED unbundled
      \/ UNCHANGED <<records, disk, unbundled>>
  BY <1>1 DEF PutPlugin, InstallFails
<1>4. faults' \in 0..MaxFaults
  BY <1>2, PluginsAssumption DEF PutPlugin, InstallFails
<1>5. v \notin unbundled => disk[v] = install.digest /\ (install.fresh => records[v] = None)
  BY <1>1 DEF VersionsIInv, InstallHasBundle
<1> HIDE DEF v
<1>6. records' \in Listing /\ disk' \in Listing /\ unbundled' \subseteq Versions
  <2>1. unbundled \subseteq Versions
    BY <1>2 DEF TypeOK
  <2> QED  BY <1>2, <1>3, <2>1 DEF Listing
<1>7. TypeOK' /\ CallTypes'
  BY <1>1, <1>2, <1>4, <1>6 DEF TypeOK, CallTypes, Listing
<1>8. ActiveIsInstalled'
  <2>1. \A w \in Versions : records[w] # None => records'[w] # None
    BY <1>2, <1>3, PluginsAssumption DEF Listing
  <2> QED  BY <1>1, <1>2, <2>1 DEF VersionsIInv, ActiveIsInstalled
<1>9. RowHasBundle'
  <2>1. ASSUME NEW w \in Versions, records'[w] # None, w \notin unbundled'
        PROVE  disk'[w] = records'[w]
    <3>1. w \notin unbundled /\ records[w] # None => disk[w] = records[w]
      BY <2>1 DEF VersionsIInv, RowHasBundle
    <3>2. CASE w = v
      BY <1>2, <1>3, <1>5, <2>1, <3>1, <3>2 DEF Listing
    <3>3. CASE w # v
      BY <1>2, <1>3, <2>1, <3>1, <3>3 DEF Listing
    <3> QED  BY <3>2, <3>3
  <2> QED  BY <1>1, <2>1 DEF RowHasBundle
<1>10. InstallHasBundle'
  BY <1>1 DEF InstallHasBundle
<1> QED  BY <1>1, <1>7, <1>8, <1>9, <1>10, ClaimsFrame DEF VersionsIInv

\* Retention: the decision, the row, the directory.
LEMMA RetentionKeeps ==
    ASSUME VersionsIInv,
           (\E v \in Versions : PlanRetention(v)) \/ CollectRetainedPlugin \/ RemoveBundle
    PROVE  VersionsIInv'
<1>0. TypeOK /\ CallTypes /\ records \in Listing /\ disk \in Listing /\ calls \in 0..MaxCalls
      /\ unbundled \subseteq Versions /\ UNCHANGED <<active, inst, plans, binding, pass, setter, install, faults>>
      /\ retention \in {Idle} \cup Retaining /\ Idle.at = "idle"
  BY DEF VersionsIInv, TypeOK, CallTypes, Listing, PlanRetention, CollectRetainedPlugin, RemoveBundle,
     Idle
<1>1. ASSUME NEW v \in Versions, PlanRetention(v)
      PROVE  VersionsIInv'
  <2> DEFINE n == [at |-> "planned", version |-> v, digest |-> records[v]]
  <2>1. records[v] # None /\ retention' = n /\ calls' \in 0..MaxCalls
        /\ UNCHANGED <<records, disk, unbundled>>
    BY <1>0, <1>1, PluginsAssumption DEF PlanRetention
  <2>2. n \in Retaining
    BY <1>0, <2>1 DEF Listing, Retaining
  <2> HIDE DEF n
  <2>3. TypeOK' /\ CallTypes'
    BY <1>0, <2>1, <2>2 DEF TypeOK, CallTypes
  <2> QED  BY <1>0, <2>1, <2>3, ClaimsFrame, RowsFrame DEF VersionsIInv
<1> DEFINE v == retention.version
<1>2. CASE CollectRetainedPlugin
  <2>1. retention \in Retaining /\ v \in Versions /\ UNCHANGED <<disk, calls>>
    BY <1>0, <1>2 DEF CollectRetainedPlugin, Retaining
  <2>2. \/ /\ records' = [records EXCEPT ![v] = None] /\ (records[v] = None \/ active # v)
           /\ unbundled' = IF Installing(v) THEN unbundled ELSE unbundled \ {v}
           /\ retention' = [retention EXCEPT !.at = "collected"]
        \/ UNCHANGED <<records, unbundled>> /\ retention' = Idle
    BY <1>2 DEF CollectRetainedPlugin, MayCollect
  <2>3. retention' \in {Idle} \cup Retaining
    BY <2>1, <2>2 DEF Retaining
  <2> HIDE DEF v
  <2>4. /\ records' \in Listing /\ unbundled' \subseteq Versions
        /\ \A w \in Versions :
             \/ records'[w] = records[w] /\ (w \in unbundled => w \in unbundled')
             \/ /\ records'[w] = None /\ (active # w \/ records[w] = None)
                /\ w \in unbundled /\ Installing(w) => w \in unbundled'
    BY <1>0, <2>1, <2>2 DEF Listing
  <2>5. TypeOK' /\ CallTypes'
    BY <1>0, <2>1, <2>3, <2>4 DEF TypeOK, CallTypes, Listing
  <2>6. ActiveIsInstalled' /\ RowHasBundle'
    BY <1>0, <2>1, <2>4 DEF VersionsIInv, ActiveIsInstalled, RowHasBundle, TypeOK
  <2>7. InstallHasBundle'
    <3>1. install # Idle => install.version \in Versions
      BY <1>0 DEF CallTypes, InstallCall
    <3> QED  BY <1>0, <2>1, <2>4, <3>1 DEF VersionsIInv, InstallHasBundle, Installing
  <2> QED  BY <1>0, <2>5, <2>6, <2>7, ClaimsFrame DEF VersionsIInv
<1>3. CASE RemoveBundle
  <2>1. retention \in Retaining /\ v \in Versions /\ UNCHANGED <<records, calls>> /\ retention' = Idle
    BY <1>0, <1>3 DEF RemoveBundle, Retaining
  <2>2. /\ disk' = [disk EXCEPT ![v] = None]
        /\ unbundled' = IF records[v] # None \/ Installing(v) THEN unbundled \cup {v} ELSE unbundled
    BY <1>3 DEF RemoveBundle
  <2> HIDE DEF v
  <2>3. disk' \in Listing /\ \A w \in Versions : w # v => disk'[w] = disk[w]
    BY <1>0, <2>1, <2>2 DEF Listing
  <2>4. unbundled' \subseteq Versions /\ unbundled \subseteq unbundled'
    BY <1>0, <2>1, <2>2
  <2>5. TypeOK' /\ CallTypes'
    BY <1>0, <2>1, <2>3, <2>4 DEF TypeOK, CallTypes, Listing
  <2>6. ActiveIsInstalled'
    BY <1>0, <2>1 DEF VersionsIInv, ActiveIsInstalled
  <2>7. RowHasBundle'
    BY <1>0, <2>1, <2>2, <2>3, <2>4 DEF VersionsIInv, RowHasBundle
  <2>8. InstallHasBundle'
    <3>1. install # Idle => install.version \in Versions
      BY <1>0 DEF CallTypes, InstallCall
    <3> QED  BY <1>0, <2>1, <2>2, <2>3, <2>4, <3>1 DEF VersionsIInv, InstallHasBundle, Installing
  <2> QED  BY <1>0, <2>5, <2>6, <2>7, <2>8, ClaimsFrame DEF VersionsIInv
<1> QED  BY <1>1, <1>2, <1>3

-----------------------------------------------------------------------------
(* The resources: operators and SetEnabled.                                *)

\* An operator writes or deletes a resource.
LEMMA OperatorKeeps ==
    ASSUME VersionsIInv, NEW v \in Versions, ApplyInstallation(v) \/ DeleteInstallation(v)
    PROVE  VersionsIInv'
<1>0. /\ TypeOK /\ CallTypes /\ inst \in [Versions -> Inst] /\ calls \in 0..MaxCalls
      /\ inst[v] \in Inst /\ (inst[v] # NoInst => inst[v].status.generation =< inst[v].generation)
      /\ (Claims(inst[v]) => active = v /\ (pass.at = "converge" =>
                                              pass.read[v] # NoInst /\ pass.read[v].enabled))
  BY DEF VersionsIInv, TypeOK, StatusIsBehind, ClaimsAreTrue
<1>1. /\ UNCHANGED <<records, active, disk, plans, binding, pass, setter, install, retention, unbundled, faults>>
      /\ calls' \in 0..MaxCalls
  BY <1>0, PluginsAssumption DEF ApplyInstallation, DeleteInstallation
<1>2. PICK n \in Inst : /\ inst' = [inst EXCEPT ![v] = n]
                        /\ n # NoInst => n.status.generation =< n.generation
                        /\ Claims(n) => Claims(inst[v])
  <2>1. CASE DeleteInstallation(v)
    BY <2>1, ResourceIs DEF DeleteInstallation
  <2>2. ASSUME NEW d \in Digests, NEW e \in BOOLEAN,
               inst' = [inst EXCEPT ![v] = [generation |-> 1, digest |-> d,
                                            enabled |-> e, status |-> NoStatus]]
        PROVE  \E n \in Inst : /\ inst' = [inst EXCEPT ![v] = n]
                               /\ n # NoInst => n.status.generation =< n.generation
                               /\ Claims(n) => Claims(inst[v])
    <3> DEFINE n == [generation |-> 1, digest |-> d, enabled |-> e, status |-> NoStatus]
    <3>1. n \in Resource /\ n.status.generation =< n.generation /\ ~ Claims(n)
      BY NewResource
    <3>2. inst' = [inst EXCEPT ![v] = n]
      BY <2>2
    <3> HIDE DEF n
    <3> QED  BY <3>1, <3>2, ResourceIs
  <2>3. CASE Exists(v) /\ inst[v].generation < MaxGeneration
             /\ inst' = [inst EXCEPT ![v] = Edited(@, ~@.enabled)]
    <3>1. inst[v] \in Resource /\ inst[v].status.generation =< inst[v].generation
      BY <1>0, <2>3, ResourceIs DEF Exists
    <3>2. (~ inst[v].enabled) \in BOOLEAN
      OBVIOUS
    <3> DEFINE n == Edited(inst[v], ~inst[v].enabled)
    <3>3. n \in Resource /\ n.status.generation =< n.generation /\ (Claims(n) => n = inst[v])
      BY <2>3, <3>1, <3>2, EditedIs
    <3>4. inst' = [inst EXCEPT ![v] = n]
      BY <1>0, <2>3
    <3> HIDE DEF n
    <3> QED  BY <3>3, <3>4, ResourceIs
  <2> QED  BY <2>1, <2>2, <2>3 DEF ApplyInstallation
<1>3. inst' \in [Versions -> Inst] /\ StatusIsBehind' /\ ClaimsAreTrue'
  BY <1>0, <1>1, <1>2, InstChange
<1>4. TypeOK' /\ CallTypes'
  BY <1>0, <1>1, <1>3 DEF TypeOK, CallTypes
<1>5. ReportIsCurrent' /\ WritesAreRead'
  BY <1>1 DEF VersionsIInv, ReportIsCurrent, WritesAreRead
<1> QED  BY <1>1, <1>3, <1>4, <1>5, RowsFrame DEF VersionsIInv

\* SetEnabled lists the resources it will write.
LEMMA SetEnabledKeeps ==
    ASSUME VersionsIInv, NEW v \in Versions, NEW e \in BOOLEAN, SetEnabled(v, e)
    PROVE  VersionsIInv'
<1> DEFINE l == {w \in Versions : Exists(w) /\ inst[w].enabled # (e /\ w = v)}
           t == IF e THEN v ELSE None
           n == [at |-> "writing", target |-> t, left |-> l, read |-> inst]
<1>0. TypeOK /\ CallTypes /\ inst \in [Versions -> Inst] /\ calls \in 0..MaxCalls
  BY DEF VersionsIInv, TypeOK
<1>1. /\ UNCHANGED <<records, active, disk, inst, plans, binding, pass, install, retention, unbundled, faults>>
      /\ calls' \in 0..MaxCalls /\ setter' = n
  BY <1>0, PluginsAssumption DEF SetEnabled
<1>2. l \subseteq Versions /\ (\A w \in l : inst[w] # NoInst) /\ t \in Versions \cup {None}
  BY DEF Exists
<1> HIDE DEF l, t
<1>3. n \in Writing /\ n.left = l /\ n.read = inst
  BY <1>0, <1>2 DEF Writing
<1> HIDE DEF n
<1>4. TypeOK' /\ CallTypes'
  BY <1>0, <1>1, <1>3 DEF TypeOK, CallTypes
<1>5. WritesAreRead'
  BY <1>1, <1>2, <1>3 DEF WritesAreRead
<1>6. StatusIsBehind' /\ ClaimsAreTrue' /\ ReportIsCurrent'
  BY <1>1 DEF VersionsIInv, StatusIsBehind, ClaimsAreTrue, ReportIsCurrent
<1> QED  BY <1>1, <1>4, <1>5, <1>6, RowsFrame DEF VersionsIInv

\* One compare-and-swap of SetEnabled.
LEMMA SetEnabledWriteKeeps ==
    ASSUME VersionsIInv, NEW w \in Versions, SetEnabledWrite(w)
    PROVE  VersionsIInv'
<1>0. /\ TypeOK /\ CallTypes /\ inst \in [Versions -> Inst]
      /\ setter \in Writing /\ setter # Idle /\ w \in setter.left /\ setter.read[w] # NoInst
      /\ \A v \in setter.left : setter.read[v] # NoInst
      /\ inst[w] \in Inst /\ (inst[w] # NoInst => inst[w].status.generation =< inst[w].generation)
      /\ (Claims(inst[w]) => active = w /\ (pass.at = "converge" =>
                                              pass.read[w] # NoInst /\ pass.read[w].enabled))
  BY DEF VersionsIInv, TypeOK, CallTypes, StatusIsBehind, ClaimsAreTrue, WritesAreRead, SetEnabledWrite
<1>1. UNCHANGED <<records, active, disk, plans, binding, pass, install, retention, unbundled, calls, faults>>
  BY DEF SetEnabledWrite
<1>2. CASE inst[w] = setter.read[w] /\ inst[w].generation < MaxGeneration
  <2>1. inst' = [inst EXCEPT ![w] = Edited(inst[w], w = setter.target)]
        /\ setter' = [setter EXCEPT !.left = @ \ {w}]
    BY <1>0, <1>2 DEF SetEnabledWrite
  <2>2. inst[w] \in Resource /\ inst[w].status.generation =< inst[w].generation
    BY <1>0, <1>2, ResourceIs
  <2>3. (w = setter.target) \in BOOLEAN
    OBVIOUS
  <2> DEFINE n == Edited(inst[w], w = setter.target)
  <2>4. n \in Resource /\ n.status.generation =< n.generation /\ (Claims(n) => n = inst[w])
    BY <1>2, <2>2, <2>3, EditedIs
  <2>5. inst' = [inst EXCEPT ![w] = n]
    BY <2>1
  <2> HIDE DEF n
  <2>6. inst' \in [Versions -> Inst] /\ StatusIsBehind' /\ ClaimsAreTrue'
    BY <1>0, <1>1, <2>4, <2>5, ResourceIs, InstChange
  <2>7. setter' \in Writing /\ setter'.left \subseteq setter.left /\ setter'.read = setter.read
    BY <1>0, <2>1 DEF Writing
  <2>8. TypeOK' /\ CallTypes'
    BY <1>0, <1>1, <2>6, <2>7 DEF TypeOK, CallTypes
  <2>9. WritesAreRead' /\ ReportIsCurrent'
    BY <1>0, <1>1, <2>7 DEF VersionsIInv, WritesAreRead, ReportIsCurrent
  <2> QED  BY <1>1, <2>6, <2>8, <2>9, RowsFrame DEF VersionsIInv
<1>3. CASE ~ (inst[w] = setter.read[w] /\ inst[w].generation < MaxGeneration)
  <2>1. setter' = Idle /\ UNCHANGED inst
    BY <1>3 DEF SetEnabledWrite
  <2>2. TypeOK' /\ CallTypes'
    BY <1>0, <1>1, <2>1 DEF TypeOK, CallTypes
  <2>3. StatusIsBehind' /\ ClaimsAreTrue' /\ ReportIsCurrent' /\ WritesAreRead'
    BY <1>1, <2>1 DEF VersionsIInv, StatusIsBehind, ClaimsAreTrue, ReportIsCurrent, WritesAreRead
  <2> QED  BY <1>1, <2>2, <2>3, RowsFrame DEF VersionsIInv
<1> QED  BY <1>2, <1>3

-----------------------------------------------------------------------------
(* The controller's pass.                                                  *)

\* The steps that begin or end a pass.
LEMMA PassBoundaryKeeps ==
    ASSUME VersionsIInv, BeginPass \/ ReadInstallations \/ EndPass \/ PassFails \/ Restart
           \/ \E v \in Versions : EnsureProjection(v)
    PROVE  VersionsIInv'
<1>0. /\ TypeOK /\ CallTypes /\ inst \in [Versions -> Inst] /\ records \in Listing
      /\ active \in Versions \cup {None} /\ faults \in 0..MaxFaults /\ Idle.at = "idle"
  BY DEF VersionsIInv, TypeOK, Listing, Idle
<1>1. UNCHANGED <<records, active, disk, inst, plans, unbundled, calls>>
      /\ binding' \in {binding, None} /\ setter' \in {setter, Idle}
      /\ install' \in {install, Idle} /\ retention' \in {retention, Idle}
      /\ faults' \in 0..MaxFaults
  <2>1. CASE BeginPass \/ ReadInstallations \/ EndPass
    BY <1>0, <2>1 DEF BeginPass, ReadInstallations, EndPass
  <2>2. CASE PassFails \/ Restart
    BY <1>0, <2>2, PluginsAssumption DEF PassFails, Restart
  <2>3. CASE \E v \in Versions : EnsureProjection(v)
    BY <1>0, <2>3 DEF EnsureProjection
  <2> QED  BY <2>1, <2>2, <2>3
<1>2. /\ pass' \in {Idle} \cup Projecting \cup Converging \cup Reporting
      /\ pass'.at \in {"project", "adopt"} => \A v \in pass'.left : pass'.records[v] # None
      /\ pass'.at = "adopt" => pass'.adopting \in Versions /\ pass'.records[pass'.adopting] # None
      /\ pass'.at # "status"
      /\ pass'.at = "converge" => pass'.read = inst
  <2>1. CASE BeginPass
    <3>1. pass' = [at |-> "project", records |-> records, active |-> active, left |-> Installed,
                   adopting |-> None]
      BY <2>1 DEF BeginPass
    <3>2. Installed \subseteq Versions /\ \A v \in Installed : records[v] # None
      BY DEF Installed
    <3>3. pass' \in Projecting /\ pass'.at = "project" /\ pass'.left = Installed
          /\ pass'.records = records
      BY <1>0, <3>1, <3>2 DEF Projecting
    <3> QED  BY <3>2, <3>3
  <2>2. CASE ReadInstallations
    <3>1. pass' = [at |-> "converge", records |-> pass.records, active |-> pass.active, read |-> inst]
          /\ pass.at = "project"
      BY <2>2 DEF ReadInstallations
    <3>2. pass.records \in Listing /\ pass.active \in Versions \cup {None}
      <4>1. pass \in Projecting
        BY <1>0, <3>1 DEF CallTypes, Projecting, Converging, Reporting
      <4> QED  BY <4>1 DEF Projecting
    <3>3. pass' \in Converging /\ pass'.at = "converge" /\ pass'.read = inst
      BY <1>0, <3>1, <3>2 DEF Converging
    <3> QED  BY <3>3
  <2>4. ASSUME NEW v \in Versions, EnsureProjection(v)
        PROVE  pass' \in Projecting
               /\ (\A w \in pass'.left : pass'.records[w] # None)
               /\ (pass'.at = "adopt" => pass'.adopting \in Versions
                                        /\ pass'.records[pass'.adopting] # None)
    <3>1. pass \in Projecting /\ pass.at = "project" /\ v \in pass.left /\ pass.records[v] # None
          /\ \A w \in pass.left : pass.records[w] # None
      BY <1>0, <2>4 DEF CallTypes, Projecting, Converging, Reporting, EnsureProjection
    <3>2. pass' = [pass EXCEPT !.left = @ \ {v}]
          \/ pass' = [pass EXCEPT !.left = @ \ {v}, !.at = "adopt", !.adopting = v]
      BY <2>4 DEF EnsureProjection
    <3>3. pass' \in Projecting /\ pass'.left = pass.left \ {v} /\ pass'.records = pass.records
          /\ (pass'.at = "project" \/ pass'.adopting = v)
      BY <3>1, <3>2 DEF Projecting
    <3> QED  BY <3>1, <3>3
  <2>5. \A q \in Projecting : q.at \in {"project", "adopt"}
    BY DEF Projecting
  <2>3. CASE EndPass \/ PassFails \/ Restart
    <3>1. pass' = Idle
      BY <2>3 DEF EndPass, PassFails, Restart
    <3> QED  BY <1>0, <3>1
  <2> QED  BY <2>1, <2>2, <2>3, <2>4, <2>5
<1>3. TypeOK'
  <2>1. pass'.at \in {"idle", "project", "adopt", "converge", "status"}
    BY <1>0, <1>2 DEF Projecting, Converging, Reporting
  <2> QED  BY <1>0, <1>1, <2>1 DEF TypeOK
<1>4. CallTypes'
  BY <1>0, <1>1, <1>2 DEF CallTypes
<1>5. StatusIsBehind' /\ ReportIsCurrent' /\ WritesAreRead'
  BY <1>1, <1>2 DEF VersionsIInv, StatusIsBehind, ReportIsCurrent, WritesAreRead
<1>6. ClaimsAreTrue'
  BY <1>1, <1>2 DEF VersionsIInv, ClaimsAreTrue, Claims
<1>7. ActiveIsInstalled' /\ RowHasBundle' /\ InstallHasBundle'
  BY <1>1 DEF VersionsIInv, ActiveIsInstalled, RowHasBundle, InstallHasBundle
<1> QED  BY <1>3, <1>4, <1>5, <1>6, <1>7 DEF VersionsIInv

\* An adopted row gets a resource without a status; a conflict ends the pass.
LEMMA AdoptKeeps ==
    ASSUME VersionsIInv, Adopt
    PROVE  VersionsIInv'
<1> DEFINE v == pass.adopting
<1>0. TypeOK /\ CallTypes /\ pass.at = "adopt" /\ Idle.at = "idle"
      /\ UNCHANGED <<records, active, disk, plans, binding, setter, install, retention, unbundled,
                     calls, faults>>
  BY DEF VersionsIInv, Adopt, Idle
<1>1. pass \in Projecting /\ v \in Versions /\ pass.records[v] \in Digests
      /\ (pass.active = v) \in BOOLEAN /\ \A w \in pass.left : pass.records[w] # None
  <2>1. pass \in Projecting /\ v \in Versions /\ pass.records[v] # None
        /\ \A w \in pass.left : pass.records[w] # None
    BY <1>0 DEF CallTypes, Projecting, Converging, Reporting, Idle
  <2> QED  BY <2>1 DEF Projecting, Listing
<1>2. CASE Exists(v)
  <2>1. pass' = Idle /\ UNCHANGED inst
    BY <1>2 DEF Adopt
  <2>2. TypeOK' /\ CallTypes'
    BY <1>0, <2>1 DEF TypeOK, CallTypes
  <2>3. StatusIsBehind' /\ ClaimsAreTrue' /\ ReportIsCurrent' /\ WritesAreRead'
    BY <1>0, <2>1 DEF VersionsIInv, StatusIsBehind, ClaimsAreTrue, ReportIsCurrent, WritesAreRead,
       Claims
  <2> QED  BY <1>0, <2>2, <2>3, RowsFrame DEF VersionsIInv
<1>3. CASE ~ Exists(v)
  <2> DEFINE n == [generation |-> 1, digest |-> pass.records[v],
                   enabled |-> pass.active = v, status |-> NoStatus]
  <2>1. n \in Resource /\ n.status.generation =< n.generation /\ ~ Claims(n)
    BY <1>1, NewResource
  <2>2. inst' = [inst EXCEPT ![v] = n] /\ pass' = [pass EXCEPT !.at = "project", !.adopting = None]
    BY <1>3 DEF Adopt
  <2> HIDE DEF n
  <2>3. pass' \in Projecting /\ pass'.at = "project" /\ pass'.left = pass.left
        /\ pass'.records = pass.records
    BY <1>1, <2>2 DEF Projecting
  <2> HIDE DEF v
  <2>4. inst' \in [Versions -> Inst] /\ StatusIsBehind' /\ ClaimsAreTrue'
    BY <1>0, <1>1, <2>1, <2>2, <2>3, ResourceIs, InstChange
  <2>5. TypeOK'
    BY <1>0, <2>3, <2>4 DEF TypeOK
  <2>6. CallTypes'
    BY <1>0, <1>1, <2>3 DEF CallTypes
  <2>7. ReportIsCurrent' /\ WritesAreRead'
    BY <1>0, <2>3 DEF VersionsIInv, ReportIsCurrent, WritesAreRead
  <2> QED  BY <1>0, <2>4, <2>5, <2>6, <2>7, RowsFrame DEF VersionsIInv
<1> QED  BY <1>2, <1>3

\* What the pass wants, once it is one version.
LEMMA TargetIsWanted ==
    ASSUME Cardinality(Wanted) = 1
    PROVE  Wanted = {Target} /\ Target \in Versions
<1>1. Wanted \subseteq Versions
  BY DEF Wanted, EnabledIn
<1>2. IsFiniteSet(Wanted)
  BY <1>1, PluginsAssumption, FS_Subset
<1>3. PICK x : Wanted = {x}
  BY <1>2, FS_Singleton
<1> QED  BY <1>1, <1>3 DEF Target

\* The steps that make, or leave, the activation.
LEMMA ConvergeKeeps ==
    ASSUME VersionsIInv, Deactivate \/ Activate \/ ActivationFails \/ Settled \/ DeactivationFails
    PROVE  VersionsIInv'
<1>0. /\ TypeOK /\ CallTypes /\ pass.at = "converge" /\ records \in Listing
      /\ active \in Versions \cup {None} /\ faults \in 0..MaxFaults
      /\ UNCHANGED <<records, disk, inst, plans, binding, setter, install, retention, unbundled, calls>>
      /\ faults' \in 0..MaxFaults
  <2>1. TypeOK /\ CallTypes /\ records \in Listing /\ active \in Versions \cup {None}
        /\ faults \in 0..MaxFaults
    BY DEF VersionsIInv, TypeOK, Listing
  <2>2. pass.at = "converge"
        /\ UNCHANGED <<records, disk, inst, plans, binding, setter, install, retention, unbundled, calls>>
        /\ (faults' = faults \/ (faults < MaxFaults /\ faults' = faults + 1))
    BY DEF Deactivate, Activate, ActivationFails, Settled, DeactivationFails
  <2>3. faults' \in 0..MaxFaults
    BY <2>1, <2>2, PluginsAssumption
  <2> QED  BY <2>1, <2>2, <2>3
<1>1. pass.read \in [Versions -> Inst]
  <2>1. pass \in Converging
    BY <1>0 DEF CallTypes, Projecting, Converging, Reporting, Idle
  <2> QED  BY <2>1 DEF Converging
<1>2. PICK f \in BOOLEAN : Recheck(f)
  BY DEF Deactivate, Activate, ActivationFails, Settled, DeactivationFails
<1>3. \A v \in Versions : Claims(inst[v]) => active = v /\ v \in Wanted
  BY <1>0 DEF VersionsIInv, ClaimsAreTrue, Wanted, EnabledIn
<1>4. /\ active' \in Versions \cup {None}
      /\ active' # None => records[active'] # None
      /\ \A v \in Versions : Claims(inst[v]) => active' = v
  <2>1. CASE Deactivate
    BY <1>3, <2>1 DEF Deactivate, NothingWanted
  <2>2. CASE Activate
    BY <1>3, <2>2, TargetIsWanted DEF Activate
  <2>3. CASE ActivationFails \/ Settled \/ DeactivationFails
    <3>1. active' = active
      BY <2>3 DEF ActivationFails, Settled, DeactivationFails
    <3> QED  BY <1>0, <1>3, <3>1 DEF VersionsIInv, ActiveIsInstalled
  <2> QED  BY <2>1, <2>2, <2>3
<1> DEFINE l == {v \in Versions : pass.read[v] # NoInst}
<1>5. pass' = [at |-> "status", records |-> records, active |-> active', read |-> pass.read,
               failed |-> f, left |-> l]
  BY <1>2 DEF Recheck
<1>6. l \in SUBSET Versions
  OBVIOUS
<1> HIDE DEF l
<1>7. pass' \in Reporting /\ pass'.at = "status" /\ pass'.active = active'
  BY <1>0, <1>1, <1>4, <1>5, <1>6 DEF Reporting
<1>8. TypeOK' /\ CallTypes'
  BY <1>0, <1>4, <1>7 DEF TypeOK, CallTypes
<1>9. ActiveIsInstalled' /\ RowHasBundle' /\ InstallHasBundle'
  BY <1>0, <1>4 DEF VersionsIInv, ActiveIsInstalled, RowHasBundle, InstallHasBundle
<1>10. StatusIsBehind' /\ ReportIsCurrent' /\ WritesAreRead'
  BY <1>0, <1>7 DEF VersionsIInv, StatusIsBehind, ReportIsCurrent, WritesAreRead
<1>11. ClaimsAreTrue'
  BY <1>0, <1>4, <1>7 DEF ClaimsAreTrue, Claims
<1> QED  BY <1>8, <1>9, <1>10, <1>11 DEF VersionsIInv

\* A failed probe changes what the pass will report and nothing else.
LEMMA ProbeFailsKeeps ==
    ASSUME VersionsIInv, ProbeFails
    PROVE  VersionsIInv'
<1>0. /\ TypeOK /\ CallTypes /\ pass.at = "status" /\ pass.active = active /\ faults \in 0..MaxFaults
      /\ UNCHANGED <<records, active, disk, inst, plans, binding, setter, install, retention, unbundled,
                     calls>>
      /\ pass' = [pass EXCEPT !.failed = TRUE] /\ faults < MaxFaults /\ faults' = faults + 1
  BY DEF VersionsIInv, TypeOK, ReportIsCurrent, ProbeFails
<1>1. pass \in Reporting
  BY <1>0 DEF CallTypes, Projecting, Converging, Reporting, Idle
<1>2. pass' \in Reporting /\ pass'.at = "status" /\ pass'.active = pass.active
  BY <1>0, <1>1 DEF Reporting
<1>3. faults' \in 0..MaxFaults
  BY <1>0, PluginsAssumption
<1>4. TypeOK' /\ CallTypes'
  BY <1>0, <1>2, <1>3 DEF TypeOK, CallTypes
<1>5. StatusIsBehind' /\ ClaimsAreTrue' /\ ReportIsCurrent' /\ WritesAreRead'
  BY <1>0, <1>2 DEF VersionsIInv, StatusIsBehind, ClaimsAreTrue, ReportIsCurrent, WritesAreRead,
     Claims
<1> QED  BY <1>0, <1>4, <1>5, RowsFrame DEF VersionsIInv

\* A status is written: Active only of the version that is active.
LEMMA WriteStatusKeeps ==
    ASSUME VersionsIInv, NEW v \in Versions, WriteStatus(v)
    PROVE  VersionsIInv'
<1>0. /\ TypeOK /\ CallTypes /\ pass.at = "status" /\ pass.active = active
      /\ inst \in [Versions -> Inst] /\ inst[v] \in Inst
      /\ UNCHANGED <<records, active, disk, plans, binding, setter, install, retention, unbundled, calls, faults>>
      /\ pass' = [pass EXCEPT !.left = @ \ {v}]
  BY DEF VersionsIInv, TypeOK, ReportIsCurrent, WriteStatus
<1>1. pass \in Reporting
  BY <1>0 DEF CallTypes, Projecting, Converging, Reporting, Idle
<1>2. pass' \in Reporting /\ pass'.at = "status" /\ pass'.active = pass.active
  BY <1>0, <1>1 DEF Reporting
<1>3. PhaseOf(v) \in Phases /\ (PhaseOf(v) = "Active" => pass.active = v)
  BY DEF PhaseOf, Phases
<1>4. inst' \in [Versions -> Inst] /\ StatusIsBehind' /\ ClaimsAreTrue'
  <2>1. CASE Exists(v) /\ inst[v].generation = pass.read[v].generation
    <3> DEFINE st == [generation |-> inst[v].generation, phase |-> PhaseOf(v)]
               n == [inst[v] EXCEPT !.status = st]
    <3>1. inst' = [inst EXCEPT ![v].status = st]
      BY <2>1 DEF WriteStatus
    <3>2. inst' = [inst EXCEPT ![v] = n]
      BY <1>0, <3>1
    <3>3. inst[v] \in Resource /\ inst[v].generation \in 1..MaxGeneration
      BY <1>0, <2>1, ResourceIs DEF Exists, Resource
    <3>4. st \in Statuses /\ st.generation = inst[v].generation /\ st.phase = PhaseOf(v)
      BY <1>3, <3>3 DEF Statuses
    <3> HIDE DEF st
    <3>5. n \in Resource /\ n.generation = inst[v].generation /\ n.status = st
      BY <3>3, <3>4 DEF Resource
    <3> HIDE DEF n
    <3>6. n.status.generation =< n.generation
      BY <3>3, <3>4, <3>5
    <3>7. Claims(n) => active = v
      BY <1>0, <1>3, <3>4, <3>5 DEF Claims
    <3> QED  BY <1>0, <1>2, <3>2, <3>5, <3>6, <3>7, ResourceIs, InstChange
  <2>2. CASE ~ (Exists(v) /\ inst[v].generation = pass.read[v].generation)
    <3>1. inst' = inst
      BY <2>2 DEF WriteStatus
    <3> QED  BY <1>0, <1>2, <3>1 DEF VersionsIInv, StatusIsBehind, ClaimsAreTrue, Claims
  <2> QED  BY <2>1, <2>2
<1>5. TypeOK' /\ CallTypes'
  BY <1>0, <1>2, <1>4 DEF TypeOK, CallTypes
<1>6. ReportIsCurrent' /\ WritesAreRead'
  BY <1>0, <1>2 DEF VersionsIInv, ReportIsCurrent, WritesAreRead
<1> QED  BY <1>0, <1>4, <1>5, <1>6, RowsFrame DEF VersionsIInv

\* Plans pin the version that was active when they were compiled.
LEMMA PlanKeeps ==
    ASSUME VersionsIInv, BindAction \/ StorePlan \/ DropPlan
    PROVE  VersionsIInv'
<1>0. /\ TypeOK /\ CallTypes /\ records \in Listing /\ active \in Versions \cup {None}
      /\ calls \in 0..MaxCalls /\ plans \subseteq Versions \X Digests
      /\ binding \in (Versions \X Digests) \cup {None}
      /\ UNCHANGED <<records, active, disk, inst, pass, setter, install, retention, unbundled, faults>>
  BY DEF VersionsIInv, TypeOK, Listing, BindAction, StorePlan, DropPlan
<1>1. /\ plans' \subseteq Versions \X Digests /\ binding' \in (Versions \X Digests) \cup {None}
      /\ calls' \in 0..MaxCalls
  <2>1. CASE BindAction
    <3>1. active \in Versions /\ records[active] \in Digests
      BY <1>0, <2>1 DEF VersionsIInv, ActiveIsInstalled, Listing, BindAction
    <3> QED  BY <1>0, <2>1, <3>1, PluginsAssumption DEF BindAction
  <2>2. CASE StorePlan
    BY <1>0, <2>2 DEF StorePlan
  <2>3. CASE DropPlan
    BY <1>0, <2>3 DEF DropPlan
  <2> QED  BY <2>1, <2>2, <2>3
<1>2. TypeOK' /\ CallTypes'
  BY <1>0, <1>1 DEF TypeOK, CallTypes
<1> QED  BY <1>0, <1>2, RowsFrame, ClaimsFrame DEF VersionsIInv

-----------------------------------------------------------------------------
(* The theorems.                                                           *)

\* The inductive invariant of the versions.
LEMMA VersionsInductive == PluginsSpec => []VersionsIInv
<1>1. Init => VersionsIInv
  <2> SUFFICES ASSUME Init PROVE VersionsIInv
    OBVIOUS
  <2>1. Idle.at = "idle" /\ NoInst \in Inst /\ ~ Claims(NoInst)
    BY ResourceIs DEF Idle
  <2>2. TypeOK /\ CallTypes
    BY <2>1, PluginsAssumption DEF Init, TypeOK, CallTypes
  <2>3. ActiveIsInstalled /\ RowHasBundle /\ InstallHasBundle /\ ReportIsCurrent /\ WritesAreRead
    BY <2>1 DEF Init, ActiveIsInstalled, RowHasBundle, InstallHasBundle, ReportIsCurrent,
       WritesAreRead
  <2>4. StatusIsBehind /\ ClaimsAreTrue
    BY <2>1 DEF Init, StatusIsBehind, ClaimsAreTrue
  <2> QED  BY <2>2, <2>3, <2>4 DEF VersionsIInv
<1>2. VersionsIInv /\ [PluginsNext]_vars => VersionsIInv'
  <2> SUFFICES ASSUME VersionsIInv, [PluginsNext]_vars PROVE VersionsIInv'
    OBVIOUS
  <2>1. CASE ControllerStep
    BY <2>1, PassBoundaryKeeps, ConvergeKeeps, AdoptKeeps, ProbeFailsKeeps, WriteStatusKeeps,
       SetEnabledWriteKeeps
       DEF ControllerStep
  <2>2. CASE UNCHANGED vars
    <3>1. TypeOK' /\ CallTypes'
      BY <2>2 DEF vars, VersionsIInv, TypeOK, CallTypes
    <3> QED  BY <2>2, <3>1, RowsFrame, ClaimsFrame DEF vars, VersionsIInv
  <2>3. CASE PassFails \/ Restart
    BY <2>3, PassBoundaryKeeps
  <2> QED  BY <2>1, <2>2, <2>3, PublishKeeps, PutPluginKeeps, RetentionKeeps, OperatorKeeps,
              SetEnabledKeeps, PlanKeeps DEF PluginsNext
<1> QED  BY <1>1, <1>2, PTL DEF PluginsSpec

\* Rows, bundles, activation and status of a plugin's versions stay together,
\* but for a bundle that retention takes from an installation under way, and a
\* process of it that runs is known to the manager or was replaced by Enable,
\* for any number of versions, digests, callers and processes.
THEOREM PluginsInvariant == PluginsSpec /\ ProcessesSpec => []PluginsInv
<1>1. VersionsIInv => TypeOK /\ ActiveIsInstalled /\ RowHasBundle /\ ActiveStatusIsTrue
  BY DEF VersionsIInv, ActiveStatusIsTrue, ClaimsAreTrue, Claims, Exists
<1>2. VersionsIInv /\ ProcessesTypeOK /\ RunningIsKnown => PluginsInv
  BY <1>1 DEF PluginsInv
<1> QED  BY <1>2, VersionsInductive, RunningIsKnownHolds, PTL

\* Retention keeps a row that a stored plan pins or a resource names: no step
\* of CollectRetainedPlugin, or of any other operation, changes it.
THEOREM ReferencedRowSafety == PluginsSpec => ReferencedRowIsKept
<1>1. ASSUME VersionsIInv, [PluginsNext]_vars, NEW v \in Versions, records[v] # None, Referenced(v)
      PROVE  records'[v] = records[v]
  <2>0. records \in [Versions -> Digests \cup {None}]
    BY <1>1 DEF VersionsIInv, TypeOK
  <2>1. CASE PutPlugin
    BY <1>1, <2>0, <2>1 DEF PutPlugin
  <2>2. CASE CollectRetainedPlugin
    <3>1. MayCollect(retention.version, retention.digest) => retention.version # v
      BY <1>1 DEF MayCollect
    <3> QED  BY <2>0, <2>2, <3>1 DEF CollectRetainedPlugin
  <2>3. CASE ~ PutPlugin /\ ~ CollectRetainedPlugin
    <3>1. records' = records
      <4>1. CASE ControllerStep
        BY <4>1 DEF ControllerStep, BeginPass, ReadInstallations, Deactivate, Activate, Settled,
           ActivationFails, DeactivationFails, ProbeFails, EndPass, EnsureProjection, Adopt,
           WriteStatus, SetEnabledWrite
      <4>2. CASE ~ ControllerStep /\ PluginsNext
        BY <2>3, <4>2 DEF PluginsNext, Publish, InstallFails, ApplyInstallation, DeleteInstallation,
           PlanRetention, SetEnabled, PassFails, Restart, BindAction, StorePlan, DropPlan, RemoveBundle
      <4> QED  BY <1>1, <4>1, <4>2 DEF vars
    <3> QED  BY <3>1
  <2> QED  BY <2>1, <2>2, <2>3
<1>2. VersionsIInv /\ [PluginsNext]_vars =>
        [\A v \in Versions : (records[v] # None /\ Referenced(v)) => records'[v] = records[v]]_vars
  BY <1>1
<1> QED  BY <1>2, VersionsInductive, PTL DEF PluginsSpec, ReferencedRowIsKept

=============================================================================
