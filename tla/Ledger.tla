------------------------------- MODULE Ledger -------------------------------
(***************************************************************************)
(* What the write engine promises, without its locks: a registry of parts  *)
(* to which one mutation at a time is applied.  A mutation takes effect as *)
(* a whole when it becomes durable, and later as a whole in the snapshot   *)
(* that readers see; and nothing that it looks at is waiting for that      *)
(* second step, so it is decided on what the store holds.  Module Engine   *)
(* is shown to implement this specification.                               *)
(***************************************************************************)
EXTENDS Integers

CONSTANTS
    Contexts,   \* the contexts
    Global,     \* the part holding the global settings
    Exporters   \* the part holding the exporter records

VARIABLES
    rows,       \* mutations durably in each part
    snap,       \* mutations in each part of the snapshot
    pending     \* targets of the mutations that are durable and not in the snapshot

vars == <<rows, snap, pending>>

Targets   == Contexts \cup {Global, Exporters}
SnapParts == Contexts \cup {Global}
Reads(t)  == IF t = Global THEN SnapParts ELSE IF t = Exporters THEN {Exporters} ELSE {t, Global}
Writes(t) == IF t = Global THEN SnapParts ELSE {t}

OneMore(f, P) == [p \in DOMAIN f |-> IF p \in P THEN f[p] + 1 ELSE f[p]]

Init == /\ rows = [p \in Targets |-> 0]
        /\ snap = [p \in SnapParts |-> 0]
        /\ pending = {}

Mutate(t) ==
    /\ \A u \in pending : Writes(u) \cap Reads(t) = {}
    /\ rows' = OneMore(rows, Writes(t))
    /\ pending' = pending \cup {t}
    /\ UNCHANGED snap

Publish(t) ==
    /\ t \in pending
    /\ snap' = OneMore(snap, Writes(t))
    /\ pending' = pending \ {t}
    /\ UNCHANGED rows

\* An exporter's cursor is only ever in the store.
MoveCursor ==
    /\ Exporters \notin pending
    /\ rows' = OneMore(rows, {Exporters})
    /\ UNCHANGED <<snap, pending>>

\* A restart shows whatever is durable.
Restart ==
    /\ snap' = [p \in SnapParts |-> rows[p]]
    /\ pending' = {}
    /\ UNCHANGED rows

Next == (\E t \in Targets : Mutate(t) \/ Publish(t)) \/ MoveCursor \/ Restart

Spec == Init /\ [][Next]_vars
=============================================================================
