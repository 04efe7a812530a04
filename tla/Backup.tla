------------------------------- MODULE Backup -------------------------------
(***************************************************************************)
(* The online backup and the offline restore, against the steps of Runs,   *)
(* plugin installation and retention that go on meanwhile.  Every step of  *)
(* the daemon below is one transaction of one of the two databases or one  *)
(* change of the plugin tree; RunControl, NodeExecution and Plugins hold   *)
(* their details.  VACUUM INTO is external: it copies one database as of   *)
(* one instant.                                                            *)
(***************************************************************************)
EXTENDS Naturals, FiniteSets

CONSTANTS Jobs,        \* Runs
          Builds,      \* plugin versions
          MaxRestores   \* bound: restores

VARIABLES product,   \* orchigram.sqlite: the Runs' rows and the plugin rows
          history,   \* workflows.sqlite: Jobs -> the workflow instance
          tree,      \* the plugin directories
          removing,  \* versions without their row, whose directory retention removes next
          pruned,    \* what retention removed from the tree and nobody installed again
          backup,    \* the backup being made
          archives,  \* the published archives
          restores

backupVars == <<product, history, tree, removing, pruned, backup, archives, restores>>

NoJob == [start |-> "none", pin |-> "none", evidence |-> FALSE, ended |-> FALSE]
NoProduct == [jobs |-> [j \in Jobs |-> NoJob], plugins |-> {}]
NoHistory == [j \in Jobs |-> "none"]
NoBackup == [at |-> "idle", product |-> NoProduct, history |-> NoHistory, tree |-> {}, pruned |-> {}]

BackupInit ==
    /\ product = NoProduct /\ history = NoHistory /\ tree = {} /\ removing = {} /\ pruned = {}
    /\ backup = NoBackup /\ archives = {} /\ restores = 0

Job(j) == product.jobs[j]
SetJob(j, r) == product' = [product EXCEPT !.jobs[j] = r]
Pinned == {Job(j).pin : j \in Jobs}
HasRow(j) == Job(j).start \in {"pending", "completed"}
Quiet == UNCHANGED <<removing, pruned, backup, archives, restores>>

-----------------------------------------------------------------------------
(* What the daemon does meanwhile.                                         *)

InstallFiles(v) ==
    /\ v \notin tree /\ tree' = tree \cup {v} /\ pruned' = pruned \ {v}
    /\ UNCHANGED <<product, history, removing, backup, archives, restores>>

InstallRow(v) ==
    /\ v \in tree /\ v \notin product.plugins
    /\ product' = [product EXCEPT !.plugins = @ \cup {v}]
    /\ UNCHANGED <<history, tree>> /\ Quiet

\* CollectRetainedPlugin deletes the row; its directory is removed afterwards,
\* whatever was installed or archived meanwhile.
CollectPluginRow(v) ==
    /\ v \in product.plugins /\ v \notin Pinned
    /\ product' = [product EXCEPT !.plugins = @ \ {v}] /\ removing' = removing \cup {v}
    /\ UNCHANGED <<history, tree, pruned, backup, archives, restores>>

RemovePluginTree(v) ==
    /\ v \in removing /\ removing' = removing \ {v}
    /\ tree' = tree \ {v} /\ pruned' = pruned \cup {v}
    /\ UNCHANGED <<product, history, backup, archives, restores>>

\* The compiler asks the installed version for its contract; the receipt, the
\* plan that pins it and the start command are one transaction.
AcceptJob(j, v) ==
    /\ Job(j).start = "none" /\ v \in product.plugins /\ v \in tree
    /\ SetJob(j, [NoJob EXCEPT !.start = "pending", !.pin = v])
    /\ UNCHANGED <<history, tree>> /\ Quiet

Launch(j) ==
    /\ Job(j).start = "pending" /\ history[j] = "none"
    /\ history' = [history EXCEPT ![j] = "active"]
    /\ UNCHANGED <<product, tree>> /\ Quiet

CompleteStart(j) ==
    /\ Job(j).start = "pending" /\ history[j] # "none"
    /\ SetJob(j, [Job(j) EXCEPT !.start = "completed"])
    /\ UNCHANGED <<history, tree>> /\ Quiet

\* CompleteNodeAttempt, unless the attempt is already terminal and replayed.
RecordEvidence(j) ==
    /\ history[j] = "active" /\ HasRow(j) /\ ~Job(j).evidence
    /\ SetJob(j, [Job(j) EXCEPT !.evidence = TRUE])
    /\ UNCHANGED <<history, tree>> /\ Quiet

RecordResult(j) ==
    /\ history[j] = "active" /\ Job(j).evidence
    /\ history' = [history EXCEPT ![j] = "recorded"]
    /\ UNCHANGED <<product, tree>> /\ Quiet

EndJob(j) ==
    /\ history[j] = "recorded" /\ HasRow(j) /\ ~Job(j).ended
    /\ SetJob(j, [Job(j) EXCEPT !.ended = TRUE])
    /\ UNCHANGED <<history, tree>> /\ Quiet

FinishHistory(j) ==
    /\ history[j] = "recorded" /\ Job(j).ended
    /\ history' = [history EXCEPT ![j] = "finished"]
    /\ UNCHANGED <<product, tree>> /\ Quiet

\* After a restore: the activities of an instance whose Run was collected
\* between the two snapshots find no row, and the workflow ends in error.
EndOrphan(j) ==
    /\ history[j] \in {"active", "recorded"} /\ Job(j).start = "collected"
    /\ history' = [history EXCEPT ![j] = "finished"]
    /\ UNCHANGED <<product, tree>> /\ Quiet

\* RemoveFinishedRun, then CollectRetainedRuns; Retention takes any cutoff that
\* is over, and a backup under way does not hold it up.
CollectHistory(j) ==
    /\ history[j] = "finished" /\ Job(j).ended /\ Job(j).start = "completed"
    /\ history' = [history EXCEPT ![j] = "none"]
    /\ UNCHANGED <<product, tree>> /\ Quiet

CollectJob(j) ==
    /\ history[j] = "none" /\ Job(j).ended /\ Job(j).start = "completed"
    /\ SetJob(j, [NoJob EXCEPT !.start = "collected"])
    /\ UNCHANGED <<history, tree>> /\ Quiet

-----------------------------------------------------------------------------
(* create and Restore.                                                     *)

\* Mutant: product state first.
SnapshotSwapped ==
    /\ \/ /\ backup.at = "idle" /\ archives = {}
          /\ backup' = [backup EXCEPT !.at = "one", !.product = product]
       \/ backup.at = "one" /\ backup' = [backup EXCEPT !.at = "both", !.history = history]
    /\ UNCHANGED <<product, history, tree, removing, pruned, archives, restores>>

\* workflows.sqlite, then orchigram.sqlite.
SnapshotDatabases ==
    /\ \/ /\ backup.at = "idle" /\ archives = {}
          /\ backup' = [backup EXCEPT !.at = "one", !.history = history]
       \/ backup.at = "one" /\ backup' = [backup EXCEPT !.at = "both", !.product = product]
    /\ UNCHANGED <<product, history, tree, removing, pruned, archives, restores>>

\* addTree, after both snapshots.
ArchiveTree ==
    /\ backup.at = "both"
    /\ backup' = [backup EXCEPT !.at = "walked", !.tree = tree, !.pruned = pruned]
    /\ UNCHANGED <<product, history, tree, removing, pruned, archives, restores>>

\* The synced temporary file is renamed; a failure before removes it.
Publish ==
    /\ backup.at = "walked"
    /\ archives' = archives \cup {[product |-> backup.product, history |-> backup.history,
                                   tree |-> backup.tree, pruned |-> backup.pruned]}
    /\ backup' = NoBackup
    /\ UNCHANGED <<product, history, tree, removing, pruned, restores>>

AbandonBackup ==
    /\ backup.at # "idle" /\ backup' = NoBackup
    /\ UNCHANGED <<product, history, tree, removing, pruned, archives, restores>>

\* Restore into a new directory, which then replaces the state of a stopped
\* daemon.
RestoreArchive ==
    /\ restores < MaxRestores /\ restores' = restores + 1
    /\ \E a \in archives : /\ product' = a.product /\ history' = a.history
                          /\ tree' = a.tree /\ pruned' = a.pruned
    /\ removing' = {} /\ backup' = NoBackup /\ UNCHANGED archives

BackupNext ==
    \/ \E v \in Builds : InstallFiles(v) \/ InstallRow(v) \/ CollectPluginRow(v) \/ RemovePluginTree(v)
    \/ \E j \in Jobs, v \in Builds : AcceptJob(j, v)
    \/ \E j \in Jobs : \/ Launch(j) \/ CompleteStart(j) \/ RecordEvidence(j) \/ RecordResult(j)
                       \/ EndJob(j) \/ FinishHistory(j) \/ EndOrphan(j) \/ CollectHistory(j) \/ CollectJob(j)
    \/ SnapshotDatabases \/ ArchiveTree \/ Publish \/ AbandonBackup \/ RestoreArchive

BackupSpec == BackupInit /\ [][BackupNext]_backupVars

-----------------------------------------------------------------------------
(* Properties.                                                             *)

\* Also after a restore the workflow history holds no result of an attempt
\* that the product database does not know to be terminal, unless the Run and
\* its evidence were collected: the order of the two snapshots in create.
RestoredHistoryHasEvidence ==
    \A j \in Jobs : history[j] \in {"recorded", "finished"}
                    => Job(j).evidence \/ Job(j).start = "collected"

\* Also after a restore an unfinished Run has the row of its plugin version, and
\* its directory is missing only where retention removed it: the tree is
\* archived after the databases.  Retention does not wait for a backup, so that
\* a Run unfinished in the product snapshot may end and be collected with its
\* plugin before the tree is walked; and a removal may overtake a new
\* installation of the version.
MissingPluginWasRemoved ==
    \A j \in Jobs : HasRow(j) /\ ~Job(j).ended
                    => Job(j).pin \in product.plugins /\ Job(j).pin \in tree \cup pruned

\* A backup that is taken while the daemon works restores a history that its
\* evidence covers, and what it lacks of the plugins retention had removed.
BackupInv == RestoredHistoryHasEvidence /\ MissingPluginWasRemoved
=============================================================================
