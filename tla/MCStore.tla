-------------------------------- MODULE MCStore --------------------------------
(* Store on a small instance: two controllers of one container, one of another. *)
EXTENDS StoreOrder, TLC

CONSTANTS n1, n2, c1, c2, c3

MCNameOf == [c \in Controllers |-> IF c = c3 THEN n2 ELSE n1]
MCMaxSnaps == [n \in Names |-> IF n = n1 THEN 2 ELSE 1]
=============================================================================
