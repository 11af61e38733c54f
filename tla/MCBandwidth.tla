------------------------------ MODULE MCBandwidth ------------------------------
(* Bandwidth on a small instance: two containers in the network, one outside. *)
EXTENDS Bandwidth, TLC

CONSTANTS c1, c2, c3, i0, i1, i2, i3, r1, r2

MCPorts == <<c1, c2>>
MCIfb == (c1 :> i1) @@ (c2 :> i2) @@ (c3 :> i3) @@ (Bridge :> i0)

\* A limit for one direction or for both.
Limits(targets, rate) ==
    {j \in [who : targets, egress : {0, rate}, ingress : {0, rate}] : j.egress > 0 \/ j.ingress > 0}

\* One request asks for less than half a kbit, the other for more.
MCAsked == (r1 :> Limits({c1, Bridge}, 3)) @@ (r2 :> Limits({c1, c3, Bridge}, 24))
=============================================================================
