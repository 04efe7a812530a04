------------------------------- MODULE Tunnel -------------------------------
(***************************************************************************)
(* An SSH context: Connect, its supervising goroutine, the ssh processes   *)
(* the goroutine starts, Close.  ssh is external: a started process may    *)
(* bind the local socket path, unlinking what is there, may be slow, and   *)
(* may exit; exec.CommandContext kills it once the context is cancelled.   *)
(***************************************************************************)
EXTENDS Naturals, FiniteSets

CONSTANTS Tunnels,     \* ssh processes 1..n, enough for every attempt
          MaxExits,    \* bound: ssh processes that exit by themselves or do not start
          MaxSlow      \* bound: waits for a socket that time out

VARIABLES caller,     \* Connect and Close: the control point
          guard,      \* the supervising goroutine: control point, its process, first
          ssh,        \* Tunnels -> "none", "started", "bound", "dead"
          path,       \* whose socket the local path is, 0 for nobody's
          cancelled,  \* the tunnel context is cancelled
          ready,      \* the channel of the first outcome
          directory,  \* the temporary directory exists
          exits, slow

tunnelVars == <<caller, guard, ssh, path, cancelled, ready, directory, exits, slow>>

TunnelInit ==
    /\ caller = "connect" /\ guard = [at |-> "none", mine |-> 0, first |-> TRUE]
    /\ ssh = [t \in Tunnels |-> "none"] /\ path = 0 /\ cancelled = FALSE
    /\ ready = "none" /\ directory = FALSE /\ exits = 0 /\ slow = 0

Alive == {t \in Tunnels : ssh[t] \in {"started", "bound"}}
Connected == path # 0 /\ path \in Alive

-----------------------------------------------------------------------------
(* Connect and Close.                                                      *)

BeginConnect ==
    /\ caller = "connect" /\ caller' = "waitReady" /\ directory' = TRUE
    /\ guard' = [guard EXCEPT !.at = "start"]
    /\ UNCHANGED <<ssh, path, cancelled, ready, exits, slow>>

\* The first outcome, or the end of the caller's context.
AwaitReady ==
    /\ caller = "waitReady"
    /\ \/ ready = "ok" /\ caller' = "connected" /\ UNCHANGED cancelled
       \/ ready = "failed" /\ caller' = "awaitDone" /\ cancelled' = TRUE
       \/ cancelled' = TRUE /\ caller' = "awaitDone"
    /\ UNCHANGED <<guard, ssh, path, ready, directory, exits, slow>>

\* <-connection.done, then RemoveAll.
AbandonConnect ==
    /\ caller = "awaitDone" /\ guard.at = "done"
    /\ caller' = "failed" /\ directory' = FALSE /\ path' = 0
    /\ UNCHANGED <<guard, ssh, cancelled, ready, exits, slow>>

BeginClose ==
    /\ caller = "connected" /\ caller' = "closing" /\ cancelled' = TRUE
    /\ UNCHANGED <<guard, ssh, path, ready, directory, exits, slow>>

\* Close waits five seconds for the goroutine, which a process that is slow to
\* die holds up; the directory is removed either way.
EndClose ==
    /\ caller = "closing"
    /\ caller' = IF guard.at = "done" THEN "closed" ELSE "timedOut"
    /\ directory' = FALSE /\ path' = 0
    /\ UNCHANGED <<guard, ssh, cancelled, ready, exits, slow>>

-----------------------------------------------------------------------------
(* supervise.                                                              *)

GuardTo(label) == guard' = [guard EXCEPT !.at = label]

\* The outcome of an attempt is reported the first time only, and a first failure
\* ends the goroutine.
Report(outcome, mine) ==
    /\ ready' = IF guard.first THEN outcome ELSE ready
    /\ guard' = [at |-> IF outcome = "ok" THEN "serve"
                       ELSE IF guard.first THEN "done" ELSE "backoff",
                 mine |-> mine, first |-> FALSE]

\* The stale socket is removed and a process is started, which may fail.
StartSSH ==
    /\ guard.at = "start"
    /\ \/ cancelled /\ GuardTo("done") /\ UNCHANGED <<ssh, path, ready, exits>>
       \/ /\ ~cancelled /\ path' = 0
          /\ LET t == 1 + Cardinality({u \in Tunnels : ssh[u] # "none"})
             IN  /\ ssh' = [ssh EXCEPT ![t] = "started"]
                 /\ guard' = [guard EXCEPT !.at = "await", !.mine = t]
          /\ UNCHANGED <<ready, exits>>
       \/ /\ ~cancelled /\ path' = 0
          /\ exits < MaxExits /\ exits' = exits + 1
          /\ Report("failed", guard.mine) /\ UNCHANGED ssh
    /\ UNCHANGED <<caller, cancelled, directory, slow>>

\* waitForSocket ends: the path is a socket, the process is gone, the context is
\* cancelled, or ten seconds have passed; nothing kills the process then.
AwaitSocket ==
    /\ guard.at = "await"
    /\ \/ path # 0 /\ Report("ok", guard.mine) /\ UNCHANGED slow
       \/ /\ cancelled \/ ssh[guard.mine] = "dead"
          /\ Report("failed", guard.mine) /\ UNCHANGED slow
       \/ slow < MaxSlow /\ slow' = slow + 1 /\ Report("failed", guard.mine)
    /\ UNCHANGED <<caller, ssh, path, cancelled, directory, exits>>

\* Mutant: an exit of the process ends the goroutine.
GiveUpTunnel ==
    /\ guard.at = "serve" /\ ssh[guard.mine] = "dead"
    /\ GuardTo("done")
    /\ UNCHANGED <<caller, ssh, path, cancelled, ready, directory, exits, slow>>

\* <-wait.
ServeTunnel ==
    /\ guard.at = "serve" /\ ssh[guard.mine] = "dead"
    /\ GuardTo(IF cancelled THEN "done" ELSE "backoff")
    /\ UNCHANGED <<caller, ssh, path, cancelled, ready, directory, exits, slow>>

Backoff ==
    /\ guard.at = "backoff"
    /\ GuardTo(IF cancelled THEN "done" ELSE "start")
    /\ UNCHANGED <<caller, ssh, path, cancelled, ready, directory, exits, slow>>

-----------------------------------------------------------------------------
(* ssh.                                                                    *)

\* StreamLocalBindUnlink=yes: a process takes the path from another.
BindSocket(t) ==
    /\ ssh[t] = "started" /\ directory /\ ~cancelled
    /\ ssh' = [ssh EXCEPT ![t] = "bound"] /\ path' = t
    /\ UNCHANGED <<caller, guard, cancelled, ready, directory, exits, slow>>

\* The socket file of a dead process stays until the next start removes it.
ExitSSH(t) ==
    /\ t \in Alive /\ exits < MaxExits /\ exits' = exits + 1
    /\ ssh' = [ssh EXCEPT ![t] = "dead"]
    /\ UNCHANGED <<caller, guard, path, cancelled, ready, directory, slow>>

\* exec.CommandContext.
KillSSH(t) ==
    /\ cancelled /\ t \in Alive /\ ssh' = [ssh EXCEPT ![t] = "dead"]
    /\ UNCHANGED <<caller, guard, path, cancelled, ready, directory, exits, slow>>

Guard == StartSSH \/ AwaitSocket \/ ServeTunnel \/ Backoff
SSHStep(t) == BindSocket(t) \/ KillSSH(t)

TunnelNext ==
    \/ BeginConnect \/ AwaitReady \/ AbandonConnect \/ BeginClose \/ EndClose \/ Guard
    \/ \E t \in Tunnels : SSHStep(t) \/ ExitSSH(t)

TunnelFair ==
    /\ WF_tunnelVars(Guard) /\ WF_tunnelVars(\E t \in Tunnels : SSHStep(t))
    /\ WF_tunnelVars(AbandonConnect \/ EndClose)

TunnelSpec == TunnelInit /\ [][TunnelNext]_tunnelVars /\ TunnelFair

-----------------------------------------------------------------------------
(* Properties.                                                             *)

\* Whatever the goroutine was doing when the connection was closed or could not
\* be made, and although Close may stop waiting for it: in the end it is gone, no
\* ssh process is left, not even one that was given up, and the directory stays
\* away.
NothingIsLeft ==
    caller \in {"closing", "awaitDone"} ~> [](guard.at = "done" /\ Alive = {} /\ ~directory)

\* A directory is removed at most under a goroutine that is to end.
RemovedWhenOver == caller \in {"closed", "timedOut", "failed"} => cancelled /\ path = 0

\* A connection whose process exited is reachable again at the same path, unless
\* a process that was given up after ten seconds, and is not killed, has taken
\* the path from its successor.
TunnelRecovers ==
    caller = "connected" ~> \/ Connected \/ caller # "connected"
                            \/ path \notin {0, guard.mine}

\* A connection is served until it is closed, and nothing of it is left then,
\* whether a process exits, comes up late or had been given up.
ContextServes == []RemovedWhenOver /\ NothingIsLeft /\ TunnelRecovers
=============================================================================
