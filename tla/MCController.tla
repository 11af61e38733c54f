------------------------------ MODULE MCController ------------------------------
(* Controller on small instances. *)
EXTENDS Controller, TLC

Symmetry == Permutations(IPs)
=============================================================================
