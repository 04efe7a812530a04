----------------------------- MODULE MCOperator -----------------------------
(***************************************************************************)
(* What an operator does: decide approvals, connect to a remote daemon,    *)
(* start and stop the daemon with its webhooks, install, back up and       *)
(* restore.  These share no state: a behaviour exercises one of them,      *)
(* chosen at the start.                                                    *)
(***************************************************************************)
EXTENDS Approvals, Upgrade, Backup, Daemon, Tunnel

VARIABLE part

MCTunnels == 1..5

MCInit ==
    /\ part \in {"approvals", "tunnel", "daemon", "upgrade", "backup"}
    /\ Init /\ TunnelInit /\ DaemonInit /\ UpgradeInit /\ BackupInit
    /\ part # "upgrade" => disk = NoFiles

Deciding(A) ==
    part = "approvals" /\ A /\ UNCHANGED <<tunnelVars, daemonVars, upgradeVars, backupVars, part>>
Tunnelling(A) ==
    part = "tunnel" /\ A /\ UNCHANGED <<vars, daemonVars, upgradeVars, backupVars, part>>
Serving(A) ==
    part = "daemon" /\ A /\ UNCHANGED <<vars, tunnelVars, upgradeVars, backupVars, part>>
Installing(A) ==
    part = "upgrade" /\ A /\ UNCHANGED <<vars, tunnelVars, daemonVars, backupVars, part>>
Archiving(A) ==
    part = "backup" /\ A /\ UNCHANGED <<vars, tunnelVars, daemonVars, upgradeVars, part>>

MCNext ==
    \/ Deciding(Next) \/ Tunnelling(TunnelNext) \/ Serving(DaemonNext)
    \/ Installing(UpgradeNext) \/ Archiving(BackupNext)

all == <<vars, tunnelVars, daemonVars, upgradeVars, backupVars, part>>

MCSpec ==
    /\ MCInit /\ [][MCNext]_all
    /\ WF_all(Deciding(Reconcile("loop")))
    /\ \A c \in Client :
          WF_all(Deciding(SendDecision(c) \/ SendDecisionFails(c) \/ AckDecision(c)))
    /\ \A a \in Approval : WF_all(Deciding(Node(a)))
    /\ WF_all(Tunnelling(Guard)) /\ WF_all(Tunnelling(AbandonConnect \/ EndClose))
    /\ WF_all(Tunnelling(\E t \in Tunnels : SSHStep(t)))
=============================================================================
