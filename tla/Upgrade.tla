------------------------------- MODULE Upgrade -------------------------------
(***************************************************************************)
(* orchigram install: the files it replaces, the service it restarts, the  *)
(* plugins it activates and, when a step fails, the rollback of the files  *)
(* alone or of the files, the databases and the activations.  A file, a    *)
(* schema and an activation are of the old or of the new release.  systemd *)
(* is external: it starts what is on disk, also when the daemon crashes by *)
(* itself; a daemon refuses a database of a newer schema.                  *)
(***************************************************************************)
EXTENDS Naturals, Sequences, FiniteSets, SequencesExt

CONSTANTS Bundled,           \* the first-party plugins
          MaxStepFaults,     \* bound: steps of the installer that fail
          MaxDaemonCrashes,  \* bound: crashes of the daemon
          MaxWork            \* bound: Runs accepted

ASSUME BundledAssumption ==
    IsFiniteSet(Bundled) /\ Bundled \cap {"binary", "unit", "config"} = {}

VARIABLES disk,        \* Targets -> the release of the file, or "none"
          service,     \* the release of the running daemon, "none" when it is down
          db,          \* the state directory's databases: schema, activations, accepted work
          data,        \* Trees -> where the tree is: in the "state" directory, in the
                       \* "failed" one, or "aside" with the whole state directory
          saved,       \* the installSnapshot
          previous,    \* previousActivations
          archive,     \* upgradeStateSnapshot: the databases in the archive
          installer,   \* the control point, the files left to copy, the flags
          accepted, stepFaults, daemonCrashes,
          before       \* history: the files and activations found by the installer

upgradeVars == <<disk, service, db, data, saved, previous, archive, installer, accepted, stepFaults,
                 daemonCrashes, before>>

Targets == {"binary", "unit", "config"} \cup Bundled
Trees == {"workspaces", "artifacts", "backups"}
NoState == [schema |-> "none", active |-> [p \in Bundled |-> "none"], work |-> {}]
NoFiles == [file \in Targets |-> "none"]
Aside == [t \in Trees |-> "aside"]

\* The order in which Run replaces the files.
CopyOrder == <<"binary">> \o SetToSeq(Bundled) \o <<"config", "unit">>

UpgradeInit ==
    /\ data = [t \in Trees |-> "state"] /\ accepted = {} /\ stepFaults = 0 /\ daemonCrashes = 0
    /\ saved = NoFiles /\ previous = NoState.active /\ archive = NoState
    /\ installer = [at |-> "begin", left |-> CopyOrder, through |-> "files", strayed |-> FALSE,
                    clean |-> TRUE]
    /\ \/ /\ disk = NoFiles /\ service = "none" /\ db = NoState
       \/ /\ disk = [f \in Targets |-> "old"] /\ service \in {"old", "none"}
          /\ \E some \in SUBSET Bundled :
                db = [schema |-> "old", work |-> {},
                      active |-> [p \in Bundled |-> IF p \in some THEN "old" ELSE "none"]]
    /\ before = [disk |-> disk, active |-> db.active]

Proceed(label) == installer' = [installer EXCEPT !.at = label]
Bad == stepFaults < MaxStepFaults /\ stepFaults' = stepFaults + 1
Fine == UNCHANGED stepFaults
Upgrading == before.disk["binary"] # "none"

\* A failing step goes to the rollback of its phase.
AbandonInstall(label) ==
    installer' = [installer EXCEPT !.at = label,
                                   !.through = IF label = "undoFiles" THEN "files" ELSE "service"]

-----------------------------------------------------------------------------
(* The daemon: systemd starts the binary on disk; store.Open migrates the  *)
(* database or refuses one of a newer schema.                              *)

Opens(release, d) == release # "none" /\ (release = "old" => d.schema # "new")

Migrated(release, d) == IF Opens(release, d) THEN [d EXCEPT !.schema = release] ELSE d

StartService ==
    /\ service' = IF disk["unit"] # "none" /\ Opens(disk["binary"], db)
                  THEN disk["binary"] ELSE "none"
    /\ db' = IF disk["unit"] # "none" THEN Migrated(disk["binary"], db) ELSE db

\* Restart=on-failure, on whatever the installer has written so far; a daemon
\* killed for its memory stays down (OOMPolicy=stop).
DaemonCrash ==
    /\ service # "none" /\ daemonCrashes < MaxDaemonCrashes /\ daemonCrashes' = daemonCrashes + 1
    /\ \/ StartService
       \/ service' = "none" /\ UNCHANGED db
    /\ installer' = [installer EXCEPT !.strayed = @ \/ service' \notin {service, "none"}]
    /\ UNCHANGED <<disk, data, saved, previous, archive, accepted, stepFaults, before>>

\* A client is told that its Run is accepted.
Work ==
    /\ service # "none" /\ Cardinality(accepted) < MaxWork
    /\ LET w == Cardinality(accepted) + 1
       IN  accepted' = accepted \cup {w} /\ db' = [db EXCEPT !.work = @ \cup {w}]
    /\ UNCHANGED <<disk, service, data, saved, previous, archive, installer>>
    /\ UNCHANGED <<stepFaults, daemonCrashes, before>>

-----------------------------------------------------------------------------
(* The upgrade.                                                            *)

CaptureFiles ==
    /\ installer.at = "begin"
    /\ \/ Bad /\ Proceed("ended") /\ UNCHANGED saved
       \/ Fine /\ saved' = disk /\ Proceed(IF Upgrading THEN "inspect" ELSE "copy")
    /\ UNCHANGED <<disk, service, db, data, previous, archive, accepted, daemonCrashes, before>>

\* activePluginVersions waits five seconds for the daemon.
InspectActivations ==
    /\ installer.at = "inspect"
    /\ \/ Bad /\ AbandonInstall("undoFiles") /\ UNCHANGED previous
       \/ service = "none" /\ Fine /\ AbandonInstall("undoFiles") /\ UNCHANGED previous
       \/ service # "none" /\ Fine /\ previous' = db.active /\ Proceed("archive")
    /\ UNCHANGED <<disk, service, db, data, saved, archive, accepted, daemonCrashes, before>>

BackupState ==
    /\ installer.at = "archive"
    /\ \/ Bad /\ AbandonInstall("undoFiles") /\ UNCHANGED archive
       \/ service = "none" /\ Fine /\ AbandonInstall("undoFiles") /\ UNCHANGED archive
       \/ service # "none" /\ Fine /\ archive' = db /\ Proceed("copy")
    /\ UNCHANGED <<disk, service, db, data, saved, previous, accepted, daemonCrashes, before>>

\* copyFile and writeAtomic rename a synced temporary file; a config is kept.
\* After the last one the service's paths are given their owner.
CopyNext ==
    /\ installer.at = "copy"
    /\ IF installer.left = <<>>
       THEN /\ UNCHANGED disk
            /\ (Bad /\ AbandonInstall("undoFiles")) \/ (Fine /\ Proceed("reload"))
       ELSE LET f == Head(installer.left)
            IN  \/ Bad /\ AbandonInstall("undoFiles") /\ UNCHANGED disk
                \/ /\ Fine /\ installer' = [installer EXCEPT !.left = Tail(@)]
                   /\ disk' = [disk EXCEPT ![f] = IF f = "config" /\ @ # "none" THEN @ ELSE "new"]
    /\ UNCHANGED <<service, db, data, saved, previous, archive, accepted, daemonCrashes, before>>

\* daemon-reload and enable.
ReloadUnit ==
    /\ installer.at = "reload"
    /\ \/ Bad /\ AbandonInstall("undoService")
       \/ Fine /\ Proceed("restart")
    /\ UNCHANGED <<disk, service, db, data, saved, previous, archive, accepted>>
    /\ UNCHANGED <<daemonCrashes, before>>

\* A restart that fails may have stopped the old daemon; one that succeeds may
\* leave a new daemon that does not stay up.
RestartService ==
    /\ installer.at = "restart"
    /\ \/ Bad /\ AbandonInstall("undoService") /\ service' \in {service, "none"} /\ UNCHANGED db
       \/ Fine /\ StartService /\ Proceed("bootstrap")
       \/ Bad /\ Proceed("bootstrap") /\ service' = "none" /\ db' = Migrated(disk["binary"], db)
    /\ UNCHANGED <<disk, data, saved, previous, archive, accepted, daemonCrashes, before>>

\* The bundles are uploaded and one version after the other is activated.
BootstrapPlugin ==
    /\ installer.at = "bootstrap"
    /\ IF service = "none"
       THEN Fine /\ AbandonInstall("undoService") /\ UNCHANGED db
       ELSE \/ Bad /\ AbandonInstall("undoService") /\ UNCHANGED db
            \/ \E p \in Bundled : /\ db.active[p] # disk[p] /\ Fine /\ Proceed("bootstrap")
                                  /\ db' = [db EXCEPT !.active[p] = disk[p]]
            \/ /\ \A p \in Bundled : db.active[p] = disk[p]
               /\ Fine /\ Proceed("health") /\ UNCHANGED db
    /\ UNCHANGED <<disk, service, data, saved, previous, archive, accepted, daemonCrashes, before>>

RequireHealth ==
    /\ installer.at = "health"
    /\ \/ (Bad \/ (service = "none" /\ Fine)) /\ AbandonInstall("undoService") /\ UNCHANGED saved
       \/ service # "none" /\ Fine /\ saved' = NoFiles /\ Proceed("done")
    /\ UNCHANGED <<disk, service, db, data, previous, archive, accepted, daemonCrashes, before>>

-----------------------------------------------------------------------------
(* The rollback.                                                           *)

\* Mutant: only what existed is written back.
UndoExisting ==
    /\ installer.at \in {"undoFiles", "undoService"} /\ Fine
    /\ disk' = [f \in Targets |-> IF saved[f] = "none" THEN disk[f] ELSE saved[f]]
    /\ saved' = NoFiles
    /\ Proceed(IF installer.at = "undoFiles" THEN "ended" ELSE "stop")
    /\ UNCHANGED <<service, db, data, previous, archive, accepted, daemonCrashes, before>>

\* installSnapshot.restore: a file that cannot be written back is skipped and
\* the snapshot is removed all the same.
UndoFiles ==
    /\ installer.at \in {"undoFiles", "undoService"}
    /\ \/ /\ Fine /\ disk' = saved
          /\ Proceed(IF installer.at = "undoFiles" THEN "ended" ELSE "stop")
       \/ /\ Bad /\ (\E f \in Targets : disk' = [saved EXCEPT ![f] = disk[f]])
          /\ installer' = [installer EXCEPT !.clean = FALSE,
                           !.at = IF installer.at = "undoFiles" THEN "ended" ELSE "stop"]
    /\ saved' = NoFiles
    /\ UNCHANGED <<service, db, data, previous, archive, accepted, daemonCrashes, before>>

Unclean(label) == installer' = [installer EXCEPT !.at = label, !.clean = FALSE]

StopService ==
    /\ installer.at = "stop"
    /\ \/ Fine /\ service' = "none" /\ Proceed(IF Upgrading THEN "swap" ELSE "start")
       \/ Bad /\ Unclean("start") /\ UNCHANGED service
    /\ UNCHANGED <<disk, db, data, saved, previous, archive, accepted, daemonCrashes, before>>

\* upgradeStateSnapshot.restore: the two renames.  When the second fails the
\* first is undone, or fails too: the state directory stays aside, and the
\* daemon begins with an empty one.
SwapState ==
    /\ installer.at = "swap"
    /\ \/ Bad /\ Unclean("start") /\ UNCHANGED <<db, data>>
       \/ Bad /\ Unclean("start") /\ db' = NoState /\ data' = Aside
       \/ Fine /\ db' = archive /\ data' = [t \in Trees |-> "failed"] /\ Proceed("carry")
    /\ UNCHANGED <<disk, service, saved, previous, archive, accepted, daemonCrashes, before>>

CarryTrees ==
    /\ installer.at = "carry"
    /\ \/ Fine /\ data' = [t \in Trees |-> "state"] /\ Proceed("start")
       \/ /\ Bad /\ Unclean("start")
          /\ data' \in {[t \in Trees |-> IF t \in moved THEN "state" ELSE "failed"] :
                           moved \in {{}, {"workspaces"}, {"workspaces", "artifacts"}}}
    /\ UNCHANGED <<disk, service, db, saved, previous, archive, accepted, daemonCrashes, before>>

\* daemon-reload and restart; their errors are only reported.
StartPrevious ==
    /\ installer.at = "start"
    /\ StartService
    /\ Fine /\ (IF service' = "none" THEN Unclean("activations") ELSE Proceed("activations"))
    /\ UNCHANGED <<disk, data, saved, previous, archive, accepted, daemonCrashes, before>>

\* restorePluginVersions; nothing is expected when the inspection was skipped.
RestoreActivations ==
    /\ installer.at = "activations"
    /\ IF ~Upgrading THEN Fine /\ Proceed("ended") /\ UNCHANGED db
       ELSE IF service = "none" \/ data = Aside THEN Fine /\ Unclean("ended") /\ UNCHANGED db
       ELSE \/ Bad /\ Unclean("ended") /\ UNCHANGED db
            \/ Fine /\ db' = [db EXCEPT !.active = previous] /\ Proceed("ended")
    /\ UNCHANGED <<disk, service, data, saved, previous, archive, accepted, daemonCrashes, before>>

InstallStep ==
    \/ CaptureFiles \/ InspectActivations \/ BackupState \/ CopyNext \/ ReloadUnit \/ RestartService
    \/ BootstrapPlugin \/ RequireHealth \/ UndoFiles \/ StopService \/ SwapState \/ CarryTrees
    \/ StartPrevious \/ RestoreActivations

UpgradeNext == InstallStep \/ DaemonCrash \/ Work

UpgradeSpec == UpgradeInit /\ [][UpgradeNext]_upgradeVars

-----------------------------------------------------------------------------
(* Properties.                                                             *)

\* An install that failed, and whose rollback reported no error of its own, left
\* the files, the activations, the operator's trees and the running daemon of
\* the previous release together.  A daemon that crashed and was restarted on
\* half replaced files is only undone by the rollback of the service.
FailedInstallIsUndone ==
    /\ installer.at = "ended" /\ installer.clean
    /\ ~(installer.through = "files" /\ installer.strayed)
    => /\ disk = before.disk /\ db.active = before.active
       /\ \A t \in Trees : data[t] = "state"
       /\ service # "none" => service = "old" /\ db.schema = "old"

\* An installer that succeeded left the new release everywhere: no daemon or
\* plugin of the old one is running.
SuccessIsComplete ==
    installer.at = "done"
    => /\ \A f \in Targets \ {"config"} : disk[f] = "new"
       /\ service # "none" => service = "new"
       /\ \A p \in Bundled : db.active[p] = "new"

\* A Run that was accepted before the installer's backup outlives the upgrade
\* whatever fails, unless the rollback could put neither the restored nor the
\* failed state directory in its place, which it reports; one accepted later
\* is lost only by the rollback of a service phase.
AcceptedWorkSurvives ==
    /\ Upgrading => archive.work \subseteq db.work \/ (data = Aside /\ ~installer.clean)
    /\ installer.at = "done" \/ installer.through = "files" => db.work = accepted

\* Whatever step of an installation fails, crashes or overlaps with work, one
\* release is left whole and no Run accepted before the backup is lost.
UpgradeInv == FailedInstallIsUndone /\ SuccessIsComplete /\ AcceptedWorkSurvives
=============================================================================
