------------------------------- MODULE MCWatcher -------------------------------
(* Watcher on small instances. *)
EXTENDS Watcher, TLC

Symmetry == Permutations(Sessions) \cup Permutations(IPs)
=============================================================================
