----------------------------- MODULE Snapshots -----------------------------
(***************************************************************************)
(* What the resource store and its watch promise a client: the table has   *)
(* one linear history of versions, each one key away from the one before,  *)
(* and a client sees versions of that history, each whole and never an     *)
(* older one after a newer one.  LiveView is shown to implement this.      *)
(***************************************************************************)
EXTENDS Naturals, Sequences

CONSTANTS Keys, NoDoc

VARIABLES history,  \* the versions of the table, oldest first
          shown,    \* how many of them precede the one the client shows
          view      \* what the client shows

vars == <<history, shown, view>>

Init ==
    /\ history = << [k \in Keys |-> NoDoc] >>
    /\ shown = 0
    /\ view = [k \in Keys |-> NoDoc]

\* A write changes one key, and really changes it.
OneKeyApart(s, t) ==
    \E k \in Keys : s[k] # t[k] /\ \A j \in Keys \ {k} : s[j] = t[j]

Write ==
    /\ Len(history') = Len(history) + 1
    /\ SubSeq(history', 1, Len(history)) = history
    /\ OneKeyApart(history[Len(history)], history'[Len(history')])
    /\ UNCHANGED <<shown, view>>

Show ==
    /\ \E n \in shown..(Len(history) - 1) :
          /\ shown' = n
          /\ view' = history[n + 1]
    /\ UNCHANGED history

Next == Write \/ Show

Spec == Init /\ [][Next]_vars

=============================================================================
