----------------------------- MODULE MCStoreWriter ----------------------------
(* Constants of the store writer's TLC run. *)
EXTENDS StoreWriter

CONSTANTS north, south, nowhere

\* Of the packets of ship 7 the second tells a newer position than the first, and the third
\* none. The fourth, of ship 8, has no valid timestamp; the fifth cannot be decoded.
Packets    == 1..5
Senders    == <<7, 7, 7, 8, -1>>
Timestamps == <<1, 3, 2, 0, 1>>
Positions  == <<north, south, nowhere, south, nowhere>>
Cells      == {north, south}
Once       == [k \in EventKind |-> 1]
=============================================================================
