----------------------------- MODULE PacketStore -----------------------------
(***************************************************************************)
(* What the archiver promises about every AIS packet it receives, with no  *)
(* threads, queues or files: a packet has one custodian at a time.         *)
(*                                                                         *)
(*   unseen    not received yet                                            *)
(*   memory    only in the archiver's memory                               *)
(*   disk      in a file of the backup directory                           *)
(*   stored    in Cassandra                                                *)
(*   reported  given up, and the archiver has logged that it gave it up    *)
(*   vanished  only in memory when the process ended                       *)
(*                                                                         *)
(* A packet is given up without a word only when the process ends, and     *)
(* only if nothing but memory had it at that moment.                       *)
(***************************************************************************)
CONSTANT Packet

VARIABLE custody   \* where each packet is

Place == {"unseen", "memory", "disk", "stored", "reported", "vanished"}

(***************************************************************************)
(* The changes of custody that the running program may make.               *)
(***************************************************************************)
Handover ==
  ({"unseen"}         \X {"memory"})
    \cup ({"memory"}  \X {"disk", "stored", "reported"})
    \cup ({"disk"}    \X {"memory", "stored", "reported"})

Init == custody = [p \in Packet |-> "unseen"]

\* A step of the running program: any packets change hands, each legally.
Work ==
  /\ custody' \in [Packet -> Place]
  /\ \A p \in Packet : \/ custody'[p] = custody[p]
                       \/ <<custody[p], custody'[p]>> \in Handover

\* The process ends, which is the only way to vanish: memory is gone, except what
\* reached the disk or Cassandra just in time, or was another copy of a packet the log
\* had given up. What is on disk stays.
Halt ==
  /\ custody' \in [Packet -> Place]
  /\ \A p \in Packet :
       \/ custody'[p] = custody[p] /\ custody[p] # "memory"
       \/ custody[p] = "memory" /\ custody'[p] \in {"disk", "stored", "reported", "vanished"}
       \/ custody[p] = "disk" /\ custody'[p] = "stored"

Next == Work \/ Halt

Spec == Init /\ [][Next]_custody
=============================================================================
