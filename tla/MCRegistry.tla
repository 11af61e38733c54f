------------------------------- MODULE MCRegistry -------------------------------
(* Registry on small instances. *)
EXTENDS Registry, TLC

Symmetry == Permutations(Requests) \cup Permutations(Controllers) \cup Permutations(Cfgs)
=============================================================================
