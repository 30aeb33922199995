------------------------------- MODULE Archiver -------------------------------
(***************************************************************************)
(* The archiver daemon: AIS readers hand every packet to the stage that    *)
(* writes batches to Cassandra. What that stage has no room for, or fails  *)
(* to write, goes to the backup service, which writes it to files of the   *)
(* backup directory. The file importer offers the packets of those files   *)
(* to the Cassandra stage again when it is not busy, then deletes them.    *)
(*                                                                         *)
(* Threads: the readers, the Cassandra stage, the backup service, the file *)
(* importer and whoever stops or kills the process.                        *)
(***************************************************************************)
EXTENDS Integers, Sequences, FiniteSets, Functions

CONSTANTS
  Packet,          \* the packets the sources send, each once
  Unstorable,      \* packets handleMessage throws on, or finds nothing to insert for
  FileName,        \* names of backup files (one a minute in the code)
  BatchSize,       \* -batchSize, 1000 by default
  CapacityFactor,  \* 100: places of the main queue for each packet of a batch
  MaxCapacity,     \* 100000: what the main queue is cut to
  RestoreFactor,   \* 10: batches outstanding above which the importer waits
  BackupCapacity,  \* capacity of the backup service's queue
  Budget           \* how often each kind of fault may happen

FaultKind == {"write", "disk", "stop"}

ASSUME ArchiverAssumption ==
  /\ Unstorable \subseteq Packet
  /\ {BatchSize, CapacityFactor, MaxCapacity, RestoreFactor, BackupCapacity}
       \subseteq Nat \ {0}
  /\ Budget \in [FaultKind -> Nat]

VARIABLES
  (* the program's state *)
  phase,       \* of the process: running, stopping (shutdown was asked) or down
  overflow,    \* packets a reader holds, refused by the main queue
  mainQ,       \* input queue of the Cassandra stage
  stagePc,     \* the Cassandra stage: idle, writing, or failing (in onFailure)
  batch,       \* the packets that stage still has to deal with
  backupQ,     \* input queue of the backup service
  open,        \* packets in the backup file being written, <<>> when there is none
  impPc,       \* the file importer
  todo,        \* names the importer's directory listing still has to yield
  file,        \* the backup file the importer reads
  next,        \* index of the packet of that file it offers next
  (* what outlives the process *)
  zips,        \* the closed .zip files of the backup directory, <<>> for no file
  unreadable,  \* packets in files renamed to .unreadable
  stored,      \* packets in Cassandra
  (* what has happened, for the properties *)
  received,    \* packets the readers have delivered
  restored,    \* packets the importer has put into the main queue
  reported,    \* packets given up with a message
  vanished,    \* packets in memory when the process ended
  budget       \* faults that may still happen

queues == <<overflow, mainQ, backupQ, open>>
stage  == <<stagePc, batch>>
imp    == <<impPc, todo, file, next>>
disk   == <<zips, unreadable>>
ghosts == <<received, restored, vanished>>
vars   == <<phase, queues, stage, imp, disk, stored, ghosts, reported, budget>>

(* The input queue of the Cassandra stage holds min(100000, batchSize * 100). *)
MainCapacity == IF BatchSize * CapacityFactor < MaxCapacity
                THEN BatchSize * CapacityFactor
                ELSE MaxCapacity

Up   == phase \in {"running", "stopping"}
Spend(kind) == budget[kind] > 0 /\ budget' = [budget EXCEPT ![kind] = @ - 1]

(* What a batch inserts: handleMessage is called on each of its packets. *)
Storable(packets) == Range(packets) \ Unstorable

Files == {f \in FileName : zips[f] # <<>>}

-----------------------------------------------------------------------------
Init ==
  /\ phase = "running"
  /\ overflow = {} /\ mainQ = <<>> /\ backupQ = <<>> /\ open = <<>>
  /\ stagePc = "idle" /\ batch = <<>>
  /\ impPc = "idle" /\ todo = {} /\ file \in FileName /\ next = 1
  /\ zips = [f \in FileName |-> <<>>] /\ unreadable = {}
  /\ stored = {} /\ received = {} /\ restored = {} /\ reported = {} /\ vanished = {}
  /\ budget = Budget

-----------------------------------------------------------------------------
(* The readers. *)

\* A packet arrives. Its reader must not block, so it offers it to the main queue.
Receive(p) ==
  /\ phase = "running"
  /\ p \notin received
  /\ received' = received \cup {p}
  /\ \/ /\ Len(mainQ) < MainCapacity
        /\ mainQ' = Append(mainQ, p)
        /\ UNCHANGED overflow
     \/ /\ Len(mainQ) >= MainCapacity
        /\ overflow' = overflow \cup {p}
        /\ UNCHANGED mainQ
  /\ UNCHANGED <<phase, backupQ, open, stage, imp, disk, stored, restored, vanished,
                 reported, budget>>

\* Offers p to the backup service, or prints that it could not be persisted.
OfferBackup(p) ==
  \/ /\ Len(backupQ) < BackupCapacity
     /\ backupQ' = Append(backupQ, p)
     /\ UNCHANGED reported
  \/ /\ Len(backupQ) >= BackupCapacity
     /\ reported' = reported \cup {p}
     /\ UNCHANGED backupQ

\* Seeded fault: the reader forgets a packet the main queue refused.
ForgetOverflow(p) ==
  /\ Up
  /\ p \in overflow
  /\ overflow' = overflow \ {p}
  /\ UNCHANGED <<phase, mainQ, backupQ, open, stage, imp, disk, stored, ghosts, reported, budget>>

\* The reader of a refused packet tries the backup service instead.
ReceiveOverflow(p) ==
  /\ Up
  /\ p \in overflow
  /\ OfferBackup(p)
  /\ overflow' = overflow \ {p}
  /\ UNCHANGED <<phase, mainQ, open, stage, imp, disk, stored, ghosts, budget>>

-----------------------------------------------------------------------------
(* The Cassandra stage. *)

\* The stage takes what is queued, at most a batch.
TakeBatch ==
  /\ Up
  /\ stagePc = "idle"
  /\ \E n \in 1..BatchSize :
       /\ n <= Len(mainQ)
       /\ batch' = SubSeq(mainQ, 1, n)
       /\ mainQ' = SubSeq(mainQ, n + 1, Len(mainQ))
  /\ stagePc' = "writing"
  /\ UNCHANGED <<phase, overflow, backupQ, open, imp, disk, stored, ghosts, reported, budget>>

\* handleMessages succeeds: a packet handleMessage threw on is logged and left out.
WriteBatch ==
  /\ Up
  /\ stagePc = "writing"
  /\ stored' = stored \cup Storable(batch)
  /\ reported' = reported \cup (Range(batch) \cap Unstorable)
  /\ batch' = <<>> /\ stagePc' = "idle"
  /\ UNCHANGED <<phase, queues, imp, disk, ghosts, budget>>

\* A QueryValidationException is logged as an internal error and the batch is forgotten.
RejectBatch ==
  /\ Up
  /\ stagePc = "writing"
  /\ Spend("write")
  /\ reported' = reported \cup Range(batch)
  /\ batch' = <<>> /\ stagePc' = "idle"
  /\ UNCHANGED <<phase, queues, imp, disk, stored, ghosts>>

\* Seeded fault: a failed batch is not passed to onFailure.
FailBatchQuietly ==
  /\ Up
  /\ stagePc = "writing"
  /\ Spend("write")
  /\ batch' = <<>> /\ stagePc' = "idle"
  /\ UNCHANGED <<phase, queues, imp, disk, stored, ghosts, reported>>

\* Any other exception goes to onFailure. A write that timed out may have been applied.
FailBatch ==
  /\ Up
  /\ stagePc = "writing"
  /\ Spend("write")
  /\ stored' \in {stored, stored \cup Storable(batch)}
  /\ stagePc' = "failing"
  /\ UNCHANGED <<phase, queues, batch, imp, disk, ghosts, reported>>

\* Seeded fault: the loop of onFailure ends one packet too late.
OnFailureOneMore ==
  /\ Up
  /\ stagePc = "failing"
  /\ OfferBackup(Head(batch))
  /\ batch' = Tail(batch)
  /\ stagePc' = IF Len(batch) = 0 THEN "idle" ELSE "failing"
  /\ UNCHANGED <<phase, overflow, mainQ, open, imp, disk, stored, ghosts, budget>>

\* onFailure hands the packets of the batch to the backup service one by one.
OnFailure ==
  /\ Up
  /\ stagePc = "failing"
  /\ OfferBackup(Head(batch))
  /\ batch' = Tail(batch)
  /\ stagePc' = IF Len(batch) = 1 THEN "idle" ELSE "failing"
  /\ UNCHANGED <<phase, overflow, mainQ, open, imp, disk, stored, ghosts, budget>>

-----------------------------------------------------------------------------
(* The backup service and its flush thread (external). *)

\* The service appends a packet to the file it writes.
BackupWrite ==
  /\ Up
  /\ backupQ # <<>>
  /\ open' = Append(open, Head(backupQ))
  /\ backupQ' = Tail(backupQ)
  /\ UNCHANGED <<phase, overflow, mainQ, stage, imp, disk, stored, ghosts, reported, budget>>

\* The file is closed, being dormant or of a past minute. Only now is it a .zip file.
BackupClose(f) ==
  /\ Up
  /\ open # <<>> /\ zips[f] = <<>>
  /\ zips' = [zips EXCEPT ![f] = open]
  /\ open' = <<>>
  /\ UNCHANGED <<phase, overflow, mainQ, backupQ, stage, imp, unreadable, stored, ghosts,
                 reported, budget>>

-----------------------------------------------------------------------------
(* The file importer. *)

\* It lists the backup directory only when there is no pressure on Cassandra.
BeginScan ==
  /\ phase = "running"
  /\ impPc = "idle"
  /\ Len(mainQ) < BatchSize
  /\ impPc' = "scan" /\ todo' = Files
  /\ UNCHANGED <<phase, queues, stage, file, next, disk, stored, ghosts, reported, budget>>

\* The listing is exhausted, or it failed and the error is logged.
EndScan ==
  /\ phase = "running"
  /\ impPc = "scan"
  /\ \/ todo = {} /\ UNCHANGED budget
     \/ todo # {} /\ Spend("disk")
  /\ impPc' = "idle" /\ todo' = {}
  /\ UNCHANGED <<phase, queues, stage, file, next, disk, stored, ghosts, reported>>

\* restoreFile opens the next file.
OpenFile(f) ==
  /\ phase = "running"
  /\ impPc = "scan"
  /\ f \in todo
  /\ todo' = todo \ {f}
  /\ impPc' = "probe" /\ file' = f /\ next' = 1
  /\ UNCHANGED <<phase, queues, stage, disk, stored, ghosts, reported, budget>>

\* Seeded fault: the importer offers whatever the size of the main queue.
ProbeNothing ==
  /\ phase = "running"
  /\ impPc = "probe"
  /\ next <= Len(zips[file])
  /\ impPc' = "offer"
  /\ UNCHANGED <<phase, queues, stage, todo, file, next, disk, stored, ghosts, reported, budget>>

\* There is a packet to offer: it reads the size of the main queue, and sleeps if that
\* is large.
ProbeQueue ==
  /\ phase = "running"
  /\ impPc = "probe"
  /\ next <= Len(zips[file])
  /\ Len(mainQ) <= RestoreFactor * BatchSize
  /\ impPc' = "offer"
  /\ UNCHANGED <<phase, queues, stage, todo, file, next, disk, stored, ghosts, reported, budget>>

\* Seeded fault: a packet the full queue refused is not offered again.
OfferRestoredOnce ==
  /\ Up
  /\ impPc = "offer"
  /\ impPc' = "probe"
  /\ next' = next + 1
  /\ \/ /\ Len(mainQ) < MainCapacity
        /\ mainQ' = Append(mainQ, zips[file][next])
        /\ restored' = restored \cup {zips[file][next]}
     \/ /\ Len(mainQ) >= MainCapacity
        /\ UNCHANGED <<mainQ, restored>>
  /\ UNCHANGED <<phase, overflow, backupQ, open, stage, todo, file, disk, stored, received,
                 vanished, reported, budget>>

\* It offers the packet; when the queue has filled up meanwhile it starts over.
OfferRestored ==
  /\ Up
  /\ impPc = "offer"
  /\ impPc' = "probe"
  /\ \/ /\ Len(mainQ) < MainCapacity
        /\ mainQ' = Append(mainQ, zips[file][next])
        /\ next' = next + 1
        /\ restored' = restored \cup {zips[file][next]}
     \/ /\ Len(mainQ) >= MainCapacity
        /\ UNCHANGED <<mainQ, next, restored>>
  /\ UNCHANGED <<phase, overflow, backupQ, open, stage, todo, file, disk, stored, received,
                 vanished, reported, budget>>

\* Seeded fault: restoreFile leaves its loop, not the method, when the service stops.
FinishFileAnyway ==
  /\ impPc = "probe"
  /\ \/ phase = "running" /\ next > Len(zips[file])
     \/ phase = "stopping"
  /\ zips' = [zips EXCEPT ![file] = <<>>]
  /\ impPc' = "pause" /\ next' = 1
  /\ UNCHANGED <<phase, queues, stage, todo, file, unreadable, stored, ghosts, reported, budget>>

\* Seeded fault: the file is not deleted.
KeepFile ==
  /\ phase = "running"
  /\ impPc = "probe"
  /\ next > Len(zips[file])
  /\ impPc' = "pause" /\ next' = 1
  /\ UNCHANGED <<phase, queues, stage, todo, file, disk, stored, ghosts, reported, budget>>

\* The whole file has been offered and is deleted; if that fails it stays.
FinishFile ==
  /\ phase = "running"
  /\ impPc = "probe"
  /\ next > Len(zips[file])
  /\ \/ zips' = [zips EXCEPT ![file] = <<>>] /\ UNCHANGED budget
     \/ Spend("disk") /\ UNCHANGED zips
  /\ impPc' = "pause" /\ next' = 1
  /\ UNCHANGED <<phase, queues, stage, todo, file, unreadable, stored, ghosts, reported>>

\* Seeded fault: nothing catches what restoreFile throws, and the service ends.
FailImporter ==
  /\ phase = "running"
  /\ impPc = "probe"
  /\ Spend("disk")
  /\ impPc' = "stopped" /\ todo' = {} /\ next' = 1
  /\ UNCHANGED <<phase, queues, stage, file, disk, stored, ghosts, reported>>

\* Reading the file throws: it is renamed to .unreadable; if that fails it stays.
FailFile ==
  /\ phase = "running"
  /\ impPc = "probe"
  /\ Spend("disk")
  /\ \/ /\ unreadable' = unreadable \cup Range(zips[file])
        /\ zips' = [zips EXCEPT ![file] = <<>>]
     \/ UNCHANGED disk
  /\ impPc' = "pause" /\ next' = 1
  /\ UNCHANGED <<phase, queues, stage, todo, file, stored, ghosts, reported>>

\* Between two files it waits until there is plenty of room in the queue.
NextFile ==
  /\ phase = "running"
  /\ impPc = "pause"
  /\ Len(mainQ) <= BatchSize
  /\ impPc' = "scan"
  /\ UNCHANGED <<phase, queues, stage, todo, file, next, disk, stored, ghosts, reported, budget>>

\* Seeded fault: the loop around the offer does not look at isRunning().
StopImporterBetweenFiles ==
  /\ phase = "stopping"
  /\ impPc \in {"idle", "scan", "pause"}
  /\ impPc' = "stopped" /\ todo' = {} /\ next' = 1
  /\ UNCHANGED <<phase, queues, stage, file, disk, stored, ghosts, reported, budget>>

\* Not running any more: every loop ends, and a file half offered is not deleted.
StopImporter ==
  /\ phase = "stopping"
  /\ impPc \in {"idle", "scan", "probe", "pause"}
  /\ impPc' = "stopped" /\ todo' = {} /\ next' = 1
  /\ UNCHANGED <<phase, queues, stage, file, disk, stored, ghosts, reported, budget>>

-----------------------------------------------------------------------------
(* The process. *)

InMemory == overflow \cup Range(mainQ) \cup Range(batch) \cup Range(backupQ) \cup Range(open)

Shutdown ==
  /\ phase = "running"
  /\ Spend("stop")
  /\ phase' = "stopping"
  /\ UNCHANGED <<queues, stage, imp, disk, stored, ghosts, reported>>

\* The process ends, after a shutdown or by a crash. The file being written may survive,
\* and a write under way may still be applied.
Halt ==
  /\ \/ phase = "running" /\ Spend("stop")
     \/ phase = "stopping" /\ UNCHANGED budget
  /\ phase' = "down"
  /\ vanished' = vanished \cup InMemory
  /\ \/ UNCHANGED zips
     \/ \E f \in FileName : open # <<>> /\ zips[f] = <<>> /\ zips' = [zips EXCEPT ![f] = open]
  /\ \/ UNCHANGED stored
     \/ stagePc = "writing" /\ stored' = stored \cup Storable(batch)
  /\ overflow' = {} /\ mainQ' = <<>> /\ backupQ' = <<>> /\ open' = <<>>
  /\ stagePc' = "idle" /\ batch' = <<>>
  /\ impPc' = "idle" /\ todo' = {} /\ next' = 1 /\ UNCHANGED file
  /\ UNCHANGED <<unreadable, received, restored, reported>>

Restart ==
  /\ phase = "down"
  /\ phase' = "running"
  /\ UNCHANGED <<queues, stage, imp, disk, stored, ghosts, reported, budget>>

-----------------------------------------------------------------------------
Readers  == \E p \in Packet : Receive(p) \/ ReceiveOverflow(p)
Stage    == TakeBatch \/ WriteBatch \/ RejectBatch \/ FailBatch \/ OnFailure
Backup   == BackupWrite \/ \E f \in FileName : BackupClose(f)
Importer == BeginScan \/ EndScan \/ (\E f \in FileName : OpenFile(f)) \/ ProbeQueue
              \/ OfferRestored \/ FinishFile \/ FailFile \/ NextFile \/ StopImporter
Process  == Shutdown \/ Halt \/ Restart

Next == Readers \/ Stage \/ Backup \/ Importer \/ Process

Spec == Init /\ [][Next]_vars

(* Every thread of a running daemon is scheduled and the driver answers every query, *)
(* by a result, an error or a timeout. Nothing obliges packets to arrive, or the     *)
(* process to stop.                                                                  *)
Fairness ==
  /\ \A p \in Packet : WF_vars(ReceiveOverflow(p))
  /\ WF_vars(Stage)
  /\ WF_vars(BackupWrite)
  /\ WF_vars(\E f \in FileName : BackupClose(f))
  /\ WF_vars(Importer)

FairSpec == Spec /\ Fairness

-----------------------------------------------------------------------------
(* Properties. *)

TypeOK ==
  /\ phase \in {"running", "stopping", "down"}
  /\ overflow \subseteq Packet
  /\ mainQ \in Seq(Packet) /\ batch \in Seq(Packet)
  /\ backupQ \in Seq(Packet) /\ open \in Seq(Packet)
  /\ stagePc \in {"idle", "writing", "failing"}
  /\ batch = <<>> <=> stagePc = "idle"
  /\ impPc \in {"idle", "scan", "probe", "offer", "pause", "stopped"}
  /\ todo \subseteq FileName /\ file \in FileName
  /\ next \in Nat \ {0}
  /\ impPc = "offer" => next <= Len(zips[file])
  /\ zips \in [FileName -> Seq(Packet)]
  /\ unreadable \subseteq Packet /\ stored \subseteq Packet
  /\ received \subseteq Packet /\ restored \subseteq Packet
  /\ reported \subseteq Packet /\ vanished \subseteq Packet
  /\ budget \in [FaultKind -> Nat]

(* Packets that someone other than a file has, or that are done with. *)
InCare == stored \cup reported \cup InMemory

(* Packets in files other than those of names F. *)
OnDiskBut(F) == unreadable \cup UNION {Range(zips[f]) : f \in FileName \ F}
OnDisk == OnDiskBut({})

(* No packet is lost without a trace: whatever the readers delivered is stored, in a    *)
(* queue, in a thread's hands or in a backup file, or the log says it was given up, or  *)
(* it was in memory when the process ended.                                             *)
(* (Archiver.java:102-109, CassandraBatchedStagedWriter.java:84-116,                    *)
(* FileImportService.java:115-143.)                                                     *)
NothingLost == received \subseteq InCare \cup OnDisk \cup vanished

(* Every packet the importer has offered so far exists outside the file it reads, so it *)
(* may delete that file (FileImportService.java:119-139).                               *)
OfferedIsHandedOver ==
  /\ todo \subseteq Files
  /\ impPc \in {"probe", "offer"} =>
       /\ file \in Files \ todo
       /\ next <= Len(zips[file]) + 1
       /\ \A i \in 1..(next - 1) :
            zips[file][i] \in InCare \cup OnDiskBut({file})

(* A backup file goes away only when each of its packets is somewhere else: the crash   *)
(* of an earlier process is no excuse (FileImportService.java:115-143, 83-92).          *)
DeletedFileIsHandedOver ==
  [][\A f \in Files : zips'[f] = <<>> =>
       Range(zips[f]) \subseteq (InCare \cup OnDisk)']_vars

(* Where copies of p are, a backup file counting for what the importer has still to     *)
(* offer of it.                                                                         *)
Occurrences(q, p) == {i \in DOMAIN q : q[i] = p}
Unoffered(f) ==
  IF file = f /\ impPc \in {"probe", "offer"} THEN {i \in DOMAIN zips[f] : i >= next}
                                             ELSE DOMAIN zips[f]
Copies(p) ==
  ({"overflow"} \X (overflow \cap {p}))
    \cup ({"main"} \X Occurrences(mainQ, p))
    \cup ({"batch"} \X Occurrences(batch, p))
    \cup ({"backup"} \X Occurrences(backupQ, p))
    \cup ({"open"} \X Occurrences(open, p))
    \cup UNION {{f} \X (Occurrences(zips[f], p) \cap Unoffered(f)) : f \in FileName}

(* Packets are moved, not copied: until a file operation fails or the process stops,    *)
(* one party at most will still try to write a packet, and one does unless the packet   *)
(* is stored or given up.                                                               *)
MovedNotCopied ==
  budget["disk"] = Budget["disk"] /\ budget["stop"] = Budget["stop"] =>
    \A p \in received :
      \/ Cardinality(Copies(p)) = 1
      \/ Cardinality(Copies(p)) = 0 /\ p \in stored \cup reported

(* Restoring never crowds out reception: of the packets in the main queue at most       *)
(* 10 * batchSize + 1 came from backup files, although the importer's reading of the    *)
(* queue's size is stale when it offers (FileImportService.java:121-131).               *)
RestoreLeavesRoom ==
  Cardinality({i \in DOMAIN mainQ : mainQ[i] \in restored}) <= RestoreFactor * BatchSize + 1

(* The archiver keeps the contract of PacketStore. *)
Custody ==
  [p \in Packet |->
     IF p \in stored THEN "stored"
     ELSE IF p \in OnDisk THEN "disk"
     ELSE IF p \in InMemory THEN "memory"
     ELSE IF p \in reported THEN "reported"
     ELSE IF p \in vanished THEN "vanished" ELSE "unseen"]

Contract == INSTANCE PacketStore WITH custody <- Custody
ImplementsPacketStore == Contract!Spec

(* With faults at an end, a process that keeps running gets every packet into           *)
(* Cassandra, those of an earlier process that are on disk included, unless it gives    *)
(* the packet up with a message or its file is unreadable.                              *)
EventuallyDealtWith ==
  \A p \in Packet :
    p \in received ~> (p \in stored \cup reported \cup unreadable \cup vanished
                       \/ phase # "running")

(* A shutdown is not held up by the importer, however full the main queue is.           *)
ShutdownStopsImporter == phase = "stopping" ~> (impPc = "stopped" \/ phase = "down")
=============================================================================
