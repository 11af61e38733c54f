------------------------------ MODULE FilterQueue ------------------------------
(***************************************************************************)
(* What the watcher promises its capture loop: the filters it was told to  *)
(* use arrive in the order they were asked for, an outdated one may be     *)
(* skipped, the latest one never is.                                       *)
(***************************************************************************)
EXTENDS Sequences, Naturals

CONSTANT IPs    \* a filter is the set of addresses it lets through

VARIABLES
    queue,      \* filters asked for and not yet taken
    have        \* the filter last taken

Init == queue = <<>> /\ have = {}

Put == \E f \in SUBSET IPs : queue' = Append(queue, f) /\ UNCHANGED have

\* Only a filter that a later one replaces may be skipped.
Skip == Len(queue) > 1 /\ queue' = Tail(queue) /\ UNCHANGED have

Take == queue # <<>> /\ have' = Head(queue) /\ queue' = Tail(queue)

Next == Put \/ Skip \/ Take

Spec == Init /\ [][Next]_<<queue, have>>
=============================================================================
