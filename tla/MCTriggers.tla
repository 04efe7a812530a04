----------------------------- MODULE MCTriggers -----------------------------
(* Instances of Triggers for TLC. *)
EXTENDS Triggers, TLC

WatchSymmetry == Permutations(Watch)
=============================================================================
