------------------------------ MODULE Plugins ------------------------------
(***************************************************************************)
(* The versions of one plugin: bundles on disk, the plugin_installations   *)
(* rows, the activation, the desired PluginInstallation resources and the  *)
(* controller that makes the activation follow them, with installation,    *)
(* the compatibility commands enable and disable, plans that pin a         *)
(* version, and retention.  A pass of the controller reads several times   *)
(* and writes several times; operators write between any two of its steps. *)
(* A resource is identified by its version: Diagnostics refuses a second   *)
(* one.  One that an operator creates under a name of its own in the       *)
(* moment between the controller's look and its adoption is not modelled.  *)
(***************************************************************************)
EXTENDS Naturals, FiniteSets

CONSTANTS Versions, Digests, None,
          Incompatible,   \* bundles (version, digest) of a protocol the daemon does not speak
          MaxGeneration,  \* bound: spec changes of one resource
          MaxCalls,       \* bound: calls of operators: install, apply, plan, collect ...
          MaxFaults       \* bound: failed launches, failed passes

ASSUME PluginsAssumption ==
    /\ IsFiniteSet(Versions) /\ None \notin Versions /\ None \notin Digests
    /\ Incompatible \subseteq Versions \X Digests
    /\ MaxGeneration \in Nat \ {0} /\ MaxCalls \in Nat /\ MaxFaults \in Nat

VARIABLES records,   \* plugin_installations: version -> digest, or None
          active,    \* plugin_activations: a version, or None
          disk,      \* the published bundle directories: version -> digest, or None
          inst,      \* PluginInstallation resources: version -> resource, or NoInst
          plans,     \* (version, digest) pins of stored plans
          binding,   \* the pin of a plan that is compiled and not stored yet, or None
          pass,      \* the controller: its step and what it has read
          setter,    \* a SetEnabled call: the writes it still has to do
          install,   \* an Install call between publication and its row
          retention, \* a collection between its decision and the directory's removal
          unbundled, \* versions whose directory retention removed under a new row or an
                     \* installation, until a later installation brings it back
          calls, faults

vars == <<records, active, disk, inst, plans, binding, pass, setter, install, retention,
          unbundled, calls, faults>>

NoInst == [generation |-> 0]
NoStatus == [generation |-> 0, phase |-> "none"]
Phases == {"none", "Active", "Installed", "Conflict", "Error"}
Statuses == [generation : 0..MaxGeneration, phase : Phases]
Inst == {NoInst} \cup
    [generation : 1..MaxGeneration, digest : Digests, enabled : BOOLEAN, status : Statuses]
Idle == [at |-> "idle"]

TypeOK ==
    /\ records \in [Versions -> Digests \cup {None}]
    /\ disk \in [Versions -> Digests \cup {None}]
    /\ active \in Versions \cup {None}
    /\ inst \in [Versions -> Inst]
    /\ plans \subseteq Versions \X Digests
    /\ binding \in (Versions \X Digests) \cup {None}
    /\ pass.at \in {"idle", "project", "adopt", "converge", "status"}
    /\ unbundled \subseteq Versions
    /\ calls \in 0..MaxCalls /\ faults \in 0..MaxFaults

\* A start on a database whose rows no resource describes yet.
Init ==
    /\ records \in [Versions -> Digests \cup {None}]
    /\ active \in {v \in Versions : records[v] # None} \cup {None}
    /\ disk = records
    /\ inst = [v \in Versions |-> NoInst]
    /\ plans = {} /\ binding = None
    /\ pass = Idle /\ setter = Idle /\ install = Idle /\ retention = Idle
    /\ unbundled = {} /\ calls = 0 /\ faults = 0

Installed == {v \in Versions : records[v] # None}
Exists(v) == inst[v] # NoInst
Compatible(v, d) == <<v, d>> \notin Incompatible
EnabledIn(S, i) == {v \in S : i[v] # NoInst /\ i[v].enabled}

-----------------------------------------------------------------------------
(* Installation: parse, stage and probe change nothing that lasts, and     *)
(* refuse a bundle of another protocol.                                    *)

\* Publish is idempotent for the same bytes and refuses other ones.
Publish(v, d) ==
    /\ Compatible(v, d) /\ disk[v] \in {None, d}
    /\ install = Idle /\ calls < MaxCalls /\ calls' = calls + 1
    /\ install' = [at |-> "published", version |-> v, digest |-> d, fresh |-> disk[v] = None]
    /\ disk' = [disk EXCEPT ![v] = d]
    /\ UNCHANGED <<records, active, inst, plans, binding, pass, setter, retention, unbundled, faults>>

\* PutPlugin is idempotent for the same digest and refuses another; a refused
\* or failed one takes back a directory this call has published.
PutPlugin ==
    /\ install # Idle
    /\ LET v == install.version IN
       IF records[v] \in {None, install.digest}
       THEN /\ records' = [records EXCEPT ![v] = install.digest]
            /\ unbundled' = IF disk[v] = install.digest THEN unbundled \ {v} ELSE unbundled
            /\ UNCHANGED disk
       ELSE /\ disk' = IF install.fresh THEN [disk EXCEPT ![v] = None] ELSE disk
            /\ UNCHANGED <<records, unbundled>>
    /\ install' = Idle
    /\ UNCHANGED <<active, inst, plans, binding, pass, setter, retention, calls, faults>>

InstallFails ==
    /\ install # Idle /\ faults < MaxFaults
    /\ disk' = IF install.fresh THEN [disk EXCEPT ![install.version] = None] ELSE disk
    /\ install' = Idle /\ faults' = faults + 1
    /\ UNCHANGED <<records, active, inst, plans, binding, pass, setter, retention, unbundled, calls>>

-----------------------------------------------------------------------------
(* Operators.  A write carries the version the operator read, so that the  *)
(* validation before it saw the document it replaces.                      *)

Edited(i, enabled) ==
    IF i.enabled = enabled THEN i
    ELSE [i EXCEPT !.enabled = enabled, !.generation = @ + 1]

\* Diagnostics keeps the identity of an existing resource; a new one may name
\* a bundle that is not installed, or another digest of it.
ApplyInstallation(v) ==
    /\ calls < MaxCalls /\ calls' = calls + 1
    /\ \/ /\ ~Exists(v)
          /\ \E d \in Digests, e \in BOOLEAN :
                inst' = [inst EXCEPT ![v] = [generation |-> 1, digest |-> d,
                                             enabled |-> e, status |-> NoStatus]]
       \/ /\ Exists(v) /\ inst[v].generation < MaxGeneration
          /\ inst' = [inst EXCEPT ![v] = Edited(@, ~@.enabled)]
    /\ UNCHANGED <<records, active, disk, plans, binding, pass, setter, install, retention, unbundled, faults>>

\* Only a disabled resource can be deleted.
DeleteInstallation(v) ==
    /\ calls < MaxCalls /\ calls' = calls + 1
    /\ Exists(v) /\ ~inst[v].enabled
    /\ inst' = [inst EXCEPT ![v] = NoInst]
    /\ UNCHANGED <<records, active, disk, plans, binding, pass, setter, install, retention, unbundled, faults>>

\* SetEnabled holds the controller's lock: it reads the resources, writes the
\* target first and then the others, and runs a pass.
SetEnabled(v, enabled) ==
    /\ pass = Idle /\ setter = Idle /\ calls < MaxCalls /\ calls' = calls + 1
    /\ IF enabled THEN Exists(v) ELSE \E w \in Versions : Exists(w)
    /\ setter' = [at |-> "writing", target |-> IF enabled THEN v ELSE None,
                  left |-> {w \in Versions : Exists(w) /\ inst[w].enabled # (enabled /\ w = v)},
                  read |-> inst]
    /\ UNCHANGED <<records, active, disk, inst, plans, binding, pass, install, retention, unbundled, faults>>

\* One compare-and-swap; a resource that moved since it was read ends the
\* call, with the earlier writes done and no pass.
SetEnabledWrite(w) ==
    /\ setter # Idle /\ w \in setter.left
    /\ setter.target \in setter.left => w = setter.target
    /\ IF inst[w] = setter.read[w] /\ inst[w].generation < MaxGeneration
       THEN /\ inst' = [inst EXCEPT ![w] = Edited(@, w = setter.target)]
            /\ setter' = [setter EXCEPT !.left = @ \ {w}]
       ELSE /\ setter' = Idle /\ UNCHANGED inst
    /\ UNCHANGED <<records, active, disk, plans, binding, pass, install, retention, unbundled, calls, faults>>

-----------------------------------------------------------------------------
(* One pass of the controller.                                             *)

\* A pass starts on the ticker, after an installation and at the end of
\* SetEnabled, under the controller's lock.
BeginPass ==
    /\ pass = Idle
    /\ setter # Idle => setter.left = {}
    /\ setter' = Idle
    /\ pass' = [at |-> "project", records |-> records, active |-> active, left |-> Installed,
               adopting |-> None]
    /\ UNCHANGED <<records, active, disk, inst, plans, binding, install, retention, unbundled, calls, faults>>

\* ensureProjection looks for a resource of each listed row ...
EnsureProjection(v) ==
    /\ pass.at = "project" /\ v \in pass.left
    /\ pass' = IF Exists(v) THEN [pass EXCEPT !.left = @ \ {v}]
               ELSE [pass EXCEPT !.left = @ \ {v}, !.at = "adopt", !.adopting = v]
    /\ UNCHANGED <<records, active, disk, inst, plans, binding, setter, install, retention, unbundled,
                   calls, faults>>

\* ... and creates the one it misses; the desired state of an adopted row is
\* the activation the pass has read.  A resource created meanwhile is a
\* conflict, which ends the pass.
Adopt ==
    /\ pass.at = "adopt"
    /\ LET v == pass.adopting IN
       IF Exists(v) THEN pass' = Idle /\ UNCHANGED inst
       ELSE /\ inst' = [inst EXCEPT ![v] = [generation |-> 1, digest |-> pass.records[v],
                                            enabled |-> pass.active = v, status |-> NoStatus]]
            /\ pass' = [pass EXCEPT !.at = "project", !.adopting = None]
    /\ UNCHANGED <<records, active, disk, plans, binding, setter, install, retention, unbundled, calls, faults>>

\* A resource may be gone again by the time they are read.
ReadInstallations ==
    /\ pass.at = "project" /\ pass.left = {}
    /\ pass' = [at |-> "converge", records |-> pass.records, active |-> pass.active, read |-> inst]
    /\ UNCHANGED <<records, active, disk, inst, plans, binding, setter, install, retention, unbundled, calls, faults>>

Wanted == EnabledIn(Versions, pass.read)
Target == CHOOSE v \in Wanted : TRUE

\* The one enabled resource names an installed bundle by its exact digest, and
\* the daemon speaks its protocol.
Exact ==
    LET d == pass.records[Target]
    IN  d = pass.read[Target].digest /\ Compatible(Target, d)

\* Nothing is enabled of a plugin that has a resource.
NothingWanted == Wanted = {} /\ \E v \in Versions : pass.read[v] # NoInst

Recheck(failed) ==
    pass' = [at |-> "status", records |-> records, active |-> active', read |-> pass.read,
             failed |-> failed, left |-> {v \in Versions : pass.read[v] # NoInst}]

\* Mutant: nothing enabled is taken for nothing to do.
DeactivateNothing ==
    /\ pass.at = "converge" /\ NothingWanted /\ pass.active # None
    /\ UNCHANGED active
    /\ Recheck(FALSE)
    /\ UNCHANGED <<records, disk, inst, plans, binding, setter, install, retention, unbundled, calls, faults>>

Deactivate ==
    /\ pass.at = "converge" /\ NothingWanted /\ pass.active # None
    /\ active' = None
    /\ Recheck(FALSE)
    /\ UNCHANGED <<records, disk, inst, plans, binding, setter, install, retention, unbundled, calls, faults>>

DeactivationFails ==
    /\ pass.at = "converge" /\ NothingWanted /\ pass.active # None
    /\ faults < MaxFaults /\ faults' = faults + 1
    /\ UNCHANGED active
    /\ Recheck(TRUE)
    /\ UNCHANGED <<records, disk, inst, plans, binding, setter, install, retention, unbundled, calls>>

\* Enable: launch and health check, then ActivatePlugin, which looks for the
\* row once more.
Activate ==
    /\ pass.at = "converge" /\ Cardinality(Wanted) = 1 /\ Exact
    /\ pass.active # Target
    /\ disk[Target] = records[Target] /\ records[Target] # None
    /\ active' = Target
    /\ Recheck(FALSE)
    /\ UNCHANGED <<records, disk, inst, plans, binding, setter, install, retention, unbundled, calls, faults>>

ActivationFails ==
    /\ pass.at = "converge" /\ Cardinality(Wanted) = 1 /\ Exact
    /\ pass.active # Target
    /\ \/ disk[Target] # records[Target] /\ UNCHANGED faults
       \/ records[Target] = None /\ UNCHANGED faults
       \/ faults < MaxFaults /\ faults' = faults + 1
    /\ UNCHANGED active
    /\ Recheck(TRUE)
    /\ UNCHANGED <<records, disk, inst, plans, binding, setter, install, retention, unbundled, calls>>

\* Several enabled versions, none and nothing active or no resource at all, a
\* missing, different or incompatible bundle, or the wanted version active
\* already: nothing to do.
Settled ==
    /\ pass.at = "converge"
    /\ \/ Cardinality(Wanted) > 1
       \/ Wanted = {} /\ (pass.active = None \/ ~NothingWanted)
       \/ Cardinality(Wanted) = 1 /\ (~Exact \/ pass.active = Target)
    /\ UNCHANGED active
    /\ Recheck(FALSE)
    /\ UNCHANGED <<records, disk, inst, plans, binding, setter, install, retention, unbundled, calls, faults>>

\* The health check that follows: an active plugin that is gone, late or not
\* ready is a failure of all its versions.
ProbeFails ==
    /\ pass.at = "status" /\ ~pass.failed /\ pass.active # None
    /\ pass.left = {v \in Versions : pass.read[v] # NoInst}
    /\ faults < MaxFaults /\ faults' = faults + 1
    /\ pass' = [pass EXCEPT !.failed = TRUE]
    /\ UNCHANGED <<records, active, disk, inst, plans, binding, setter, install, retention, unbundled, calls>>

PhaseOf(v) ==
    LET i == pass.read[v]
        isActive == pass.active = v /\ pass.records[v] = i.digest
    IN  IF Cardinality(Wanted) > 1 /\ i.enabled THEN "Conflict"
        ELSE IF pass.records[v] # i.digest THEN "Error"
        ELSE IF ~Compatible(v, i.digest) THEN "Error"
        ELSE IF pass.failed /\ (i.enabled \/ isActive) THEN "Error"
        ELSE IF i.enabled THEN IF isActive THEN "Active" ELSE "Error"
        ELSE "Installed"

\* UpdateResourceStatus compares the generation; a moved or missing resource
\* is left to the next pass.
WriteStatus(v) ==
    /\ pass.at = "status" /\ v \in pass.left
    /\ IF Exists(v) /\ inst[v].generation = pass.read[v].generation
       THEN inst' = [inst EXCEPT ![v].status =
                       [generation |-> pass.read[v].generation, phase |-> PhaseOf(v)]]
       ELSE UNCHANGED inst
    /\ pass' = [pass EXCEPT !.left = @ \ {v}]
    /\ UNCHANGED <<records, active, disk, plans, binding, setter, install, retention, unbundled, calls, faults>>

EndPass ==
    /\ pass.at = "status" /\ pass.left = {}
    /\ pass' = Idle
    /\ UNCHANGED <<records, active, disk, inst, plans, binding, setter, install, retention, unbundled, calls, faults>>

\* Any store error ends the pass; the daemon may also restart, which ends every
\* call under way.
PassFails ==
    /\ pass # Idle /\ faults < MaxFaults /\ faults' = faults + 1
    /\ pass' = Idle
    /\ UNCHANGED <<records, active, disk, inst, plans, binding, setter, install, retention, unbundled, calls>>

Restart ==
    /\ <<pass, setter, install, retention, binding>> # <<Idle, Idle, Idle, Idle, None>>
    /\ faults < MaxFaults /\ faults' = faults + 1
    /\ pass' = Idle /\ setter' = Idle /\ install' = Idle /\ retention' = Idle /\ binding' = None
    /\ UNCHANGED <<records, active, disk, inst, plans, unbundled, calls>>

-----------------------------------------------------------------------------
(* Plans and retention.                                                    *)

\* Compiling reads the active version and its digest; a later transaction
\* stores the plan that pins them.
BindAction ==
    /\ active # None /\ binding = None /\ plans = {} /\ calls < MaxCalls /\ calls' = calls + 1
    /\ binding' = <<active, records[active]>>
    /\ UNCHANGED <<records, active, disk, inst, plans, pass, setter, install, retention, unbundled, faults>>

StorePlan ==
    /\ binding # None /\ plans' = {binding} /\ binding' = None
    /\ UNCHANGED <<records, active, disk, inst, pass, setter, install, retention, unbundled, calls, faults>>

DropPlan ==
    /\ plans # {} /\ plans' = {}
    /\ UNCHANGED <<records, active, disk, inst, binding, pass, setter, install, retention, unbundled, calls, faults>>

Referenced(v) == Exists(v) \/ \E p \in plans : p[1] = v

\* Retention decides on a listing ...
PlanRetention(v) ==
    /\ retention = Idle /\ records[v] # None /\ active # v /\ ~Referenced(v)
    /\ calls < MaxCalls /\ calls' = calls + 1
    /\ retention' = [at |-> "planned", version |-> v, digest |-> records[v]]
    /\ UNCHANGED <<records, active, disk, inst, plans, binding, pass, setter, install, unbundled, faults>>

\* Mutant: the transaction trusts the plan and checks the digest only.
MayCollectPlanned(v, d) == records[v] \in {None, d}

\* ... and decides again in the transaction that deletes the row; a row that
\* is gone already counts as collected.
MayCollect(v, d) ==
    records[v] = None \/ (active # v /\ records[v] = d /\ ~Referenced(v))

Installing(v) == install # Idle /\ install.version = v

CollectRetainedPlugin ==
    /\ retention.at = "planned"
    /\ LET v == retention.version IN
       IF MayCollect(v, retention.digest)
       THEN /\ records' = [records EXCEPT ![v] = None]
            /\ unbundled' = IF Installing(v) THEN unbundled ELSE unbundled \ {v}
            /\ retention' = [retention EXCEPT !.at = "collected"]
       ELSE /\ retention' = Idle /\ UNCHANGED <<records, unbundled>>
    /\ UNCHANGED <<active, disk, inst, plans, binding, pass, setter, install, calls, faults>>

RemoveBundle ==
    /\ retention.at = "collected"
    /\ LET v == retention.version IN
       /\ disk' = [disk EXCEPT ![v] = None]
       /\ unbundled' = IF records[v] # None \/ Installing(v)
                       THEN unbundled \cup {v} ELSE unbundled
    /\ retention' = Idle
    /\ UNCHANGED <<records, active, inst, plans, binding, pass, setter, install, calls, faults>>

-----------------------------------------------------------------------------
ControllerStep ==
    \/ BeginPass \/ ReadInstallations \/ Deactivate \/ Activate \/ Settled
    \/ ActivationFails \/ DeactivationFails \/ ProbeFails \/ EndPass \/ Adopt
    \/ \E v \in Versions : EnsureProjection(v) \/ WriteStatus(v) \/ SetEnabledWrite(v)

PluginsNext ==
    \/ ControllerStep
    \/ \E v \in Versions, d \in Digests : Publish(v, d)
    \/ PutPlugin \/ InstallFails
    \/ \E v \in Versions :
          \/ ApplyInstallation(v) \/ DeleteInstallation(v) \/ PlanRetention(v)
          \/ \E e \in BOOLEAN : SetEnabled(v, e)
    \/ PassFails \/ Restart
    \/ BindAction \/ StorePlan \/ DropPlan
    \/ CollectRetainedPlugin \/ RemoveBundle

PluginsSpec == Init /\ [][PluginsNext]_vars

-----------------------------------------------------------------------------
(* Properties.                                                             *)

\* The activation always names an installed row: retention looks at the
\* activation, and ActivatePlugin at the row, in their own transactions.
ActiveIsInstalled == active # None => records[active] # None

\* A row has its bundle on disk with the same digest, but in one case that the
\* code does not exclude: retention removes the directory after its
\* transaction, without Install's lock, so that an installation in between
\* loses its bundle.  The exception, unbundled, holds for that version alone
\* and ends when it is installed or collected again.
RowHasBundle ==
    \A v \in Versions : (records[v] # None /\ v \notin unbundled) => disk[v] = records[v]

\* Retention never deletes a row that a stored plan pins or a resource names,
\* however long ago it listed its candidates.  A plan that is compiled and not
\* stored yet does not count: its version may go before it is stored.
ReferencedRowIsKept ==
    [][\A v \in Versions :
          (records[v] # None /\ Referenced(v)) => records'[v] = records[v]]_vars

\* A resource whose status says Active for its current generation is the
\* active version, whatever operators wrote since the pass read it.
ActiveStatusIsTrue ==
    \A v \in Versions :
        (pass = Idle /\ Exists(v) /\ inst[v].enabled /\ inst[v].status.phase = "Active"
         /\ inst[v].status.generation = inst[v].generation)
        => active = v

\* When operators and faults stop, the activation follows the desired state:
\* nothing enabled, nothing active; one enabled exact bundle that the daemon
\* can run, that one.  The desired state is the resources as they are then,
\* the ones the controller has created itself included: a version whose
\* disabled resource is deleted before the pass that deactivates it comes back
\* enabled, and stays active.
FollowsDesired ==
    LET wanted == EnabledIn(Versions, inst)
    IN  /\ wanted = {} => active = None
        /\ \A v \in Versions :
              (wanted = {v} /\ records[v] = inst[v].digest /\ disk[v] = records[v]
               /\ Compatible(v, records[v]))
              => active = v
ActivationConverges == <>[]FollowsDesired

=============================================================================
