------------------------------ MODULE SnapshotLine ------------------------------
(***************************************************************************)
(* What the store promises about the runtime row of one container: a       *)
(* snapshot is handed over once, to be queued or to be held for a direct   *)
(* write.  One that was queued is written in its turn or is lost; one that *)
(* is held is written at any time or is lost; nothing else ever changes    *)
(* the row of a container that stays registered.                           *)
(***************************************************************************)
CONSTANTS Versions, None

VARIABLES
    fresh,  \* snapshots not yet handed over
    line,   \* snapshots queued and not yet written
    before, \* the pairs of them of which the first was queued before the second
    held,   \* snapshots about to be written directly
    row     \* the snapshot the row holds, 0 when it was just inserted

vars == <<row, held, fresh, line, before>>

Init == fresh = Versions /\ line = {} /\ before = {} /\ held = {} /\ row = None

Queue ==
    /\ UNCHANGED <<row, held>>
    /\ \E v \in fresh :
          fresh' = fresh \ {v} /\ line' = line \cup {v} /\ before' = before \cup (line \X {v})
Hold ==
    /\ UNCHANGED <<row, line, before>>
    /\ \E v \in fresh : fresh' = fresh \ {v} /\ held' = held \cup {v}

\* A snapshot that finds no row changes none.
Written(v) == row' = IF row = None THEN None ELSE v

Leaves(v) == line' = line \ {v} /\ before' = {p \in before : p[1] # v /\ p[2] # v}

WriteNext ==
    /\ UNCHANGED <<held, fresh>>
    /\ \E v \in line : (\A u \in line : <<u, v>> \notin before) /\ Written(v) /\ Leaves(v)
WriteHeld ==
    /\ UNCHANGED <<fresh, line, before>>
    /\ \E v \in held : Written(v) /\ held' = held \ {v}

Lose ==
    /\ UNCHANGED row
    /\ \/ UNCHANGED <<held, fresh>> /\ \E v \in line : Leaves(v)
       \/ UNCHANGED <<fresh, line, before>> /\ \E v \in held : held' = held \ {v}
       \/ UNCHANGED <<held, line, before>> /\ \E v \in fresh : fresh' = fresh \ {v}
       \/ line' = {} /\ before' = {} /\ held' = {} /\ fresh' \subseteq fresh

Insert == row = None /\ row' = 0 /\ UNCHANGED <<held, fresh, line, before>>
Delete == row' = None /\ UNCHANGED <<held, fresh, line, before>>

Next == Queue \/ Hold \/ WriteNext \/ WriteHeld \/ Lose \/ Insert \/ Delete

Spec == Init /\ [][Next]_vars
=============================================================================
