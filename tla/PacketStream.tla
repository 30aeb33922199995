----------------------------- MODULE PacketStream -----------------------------
(***************************************************************************)
(* What a query promises: the packets that were asked for, each once, in   *)
(* the order of their timestamps, and a future that is done when the last  *)
(* of them is handed out.                                                  *)
(***************************************************************************)
EXTENDS Integers, Sequences, FiniteSets, Functions

CONSTANTS Packet, Time

VARIABLES
  wanted, \* packets asked for
  out,    \* packets handed out
  state   \* of the future: pending, done or cancelled

Left == wanted \ Range(out)

Init == wanted \subseteq Packet /\ out = <<>> /\ state = "pending"

\* The earliest packet left is handed out, even if the future has been cancelled.
Deliver(p) ==
  /\ p \in Left
  /\ \A q \in Left : Time[p] <= Time[q]
  /\ out' = Append(out, p)
  /\ UNCHANGED <<wanted, state>>

\* The reader may see the end while it hands out the last packet.
Finish ==
  /\ state = "pending"
  /\ \A p, q \in Left : p = q
  /\ state' = "done"
  /\ UNCHANGED <<wanted, out>>

Cancel ==
  /\ state = "pending"
  /\ state' = "cancelled"
  /\ UNCHANGED <<wanted, out>>

Next == (\E p \in Packet : Deliver(p)) \/ Finish \/ Cancel

Spec == Init /\ [][Next]_<<wanted, out, state>>
=============================================================================
