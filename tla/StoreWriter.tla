----------------------------- MODULE StoreWriter ------------------------------
(***************************************************************************)
(* The store writer: it turns each packet of a batch into rows by time, by *)
(* MMSI number and by area, and sends them to Cassandra as one batch. A    *)
(* packet that tells no position is filed under the position of its ship   *)
(* that the tracker, a cache whose entries expire, remembers.              *)
(*                                                                         *)
(* The packets of a failed batch come back through the backup files at any *)
(* later time, so packets are handled in any order. Clock is the clock of  *)
(* the cache, which has nothing to do with the timestamps of the packets.  *)
(***************************************************************************)
EXTENDS Integers, FiniteSets

CONSTANTS
  Packet,
  Mmsi,      \* number of the ship that sent each packet, -1 if it cannot be decoded
  Time,      \* timestamp of each packet, 0 or less if it is invalid
  Position,  \* cell of the position each packet tells, or NoCell
  Cell,
  NoCell,
  BatchSize,
  Timeout,   \* POSITION_TIMEOUT_MS, 20 minutes
  MaxClock,  \* bound of the clock
  Budget     \* how often each kind of event below may happen

EventKind == {"write", "stop"}
Ship      == {Mmsi[p] : p \in Packet} \ {-1}

ASSUME WriterAssumption ==
  /\ Mmsi \in [Packet -> Nat \cup {-1}]
  /\ Time \in [Packet -> Int]
  /\ Position \in [Packet -> Cell \cup {NoCell}] /\ NoCell \notin Cell
  /\ \A p \in Packet : Mmsi[p] = -1 => Position[p] = NoCell
  /\ BatchSize \in Nat \ {0} /\ Timeout \in Nat \ {0} /\ MaxClock \in Nat
  /\ Budget \in [EventKind -> Nat]

Table == {"packets_time", "packets_mmsi", "packets_area_cell1", "packets_area_unknown"}
Area  == {"packets_area_cell1", "packets_area_unknown"}
Row   == [table : Table, cell : Cell \cup {NoCell}, packet : Packet]

VARIABLES
  clock,
  tracker,    \* of each ship: cell, time of the packet that told it, clock when written
  waiting,    \* packets to be handled, for the first time or again
  messages,   \* packets of the batch under way
  statements, \* and their rows
  store,      \* rows in Cassandra
  seen,       \* for the properties: when each packet last told this process a position
  failed,     \* for the properties: packets whose batch has failed
  budget      \* events that may still happen

vars == <<clock, tracker, waiting, messages, statements, store, seen, failed, budget>>

Spend(kind) == budget[kind] > 0 /\ budget' = [budget EXCEPT ![kind] = @ - 1]

Recent(when) == clock - when < Timeout
Never        == -Timeout
NoEntry      == [cell |-> NoCell, time |-> 0, written |-> Never]

-----------------------------------------------------------------------------
Init ==
  /\ clock = 0
  /\ tracker = [m \in Ship |-> NoEntry]
  /\ waiting = Packet /\ messages = {} /\ statements = {} /\ store = {}
  /\ seen = [p \in Packet |-> Never] /\ failed = {}
  /\ budget = Budget

-----------------------------------------------------------------------------
(* getPosition. *)

\* Seeded fault: an entry of the cache never expires.
PositionForEver(p) ==
  IF Position[p] # NoCell \/ Mmsi[p] = -1 THEN Position[p]
  ELSE tracker[Mmsi[p]].cell

\* The packet's own position, or that of its ship if it has not expired.
getPosition(p) ==
  IF Position[p] # NoCell \/ Mmsi[p] = -1 THEN Position[p]
  ELSE IF Recent(tracker[Mmsi[p]].written) THEN tracker[Mmsi[p]].cell ELSE NoCell

\* Seeded fault: the comparison is the wrong way round.
OlderEntry(p) ==
  LET entry == tracker[Mmsi[p]] IN
    IF Recent(entry.written) /\ entry.time < Time[p]
    THEN [entry EXCEPT !.written = clock]
    ELSE [cell |-> Position[p], time |-> Time[p], written |-> clock]

\* A newer packet's position stays in the cache, but its time there begins anew.
MergedEntry(p) ==
  LET entry == tracker[Mmsi[p]] IN
    IF Recent(entry.written) /\ entry.time > Time[p]
    THEN [entry EXCEPT !.written = clock]
    ELSE [cell |-> Position[p], time |-> Time[p], written |-> clock]

Track(p) ==
  IF Position[p] = NoCell THEN UNCHANGED <<tracker, seen>>
  ELSE /\ tracker' = [tracker EXCEPT ![Mmsi[p]] = MergedEntry(p)]
       /\ seen' = [seen EXCEPT ![p] = clock]

-----------------------------------------------------------------------------
(* handleMessages. *)

InTable(t, cell, p) == [table |-> t, cell |-> cell, packet |-> p]

storeByTime(p) == {InTable("packets_time", NoCell, p)}
storeByMmsi(p) == {InTable("packets_mmsi", NoCell, p)}
storeByArea(p, cell) ==
  {InTable(IF cell = NoCell THEN "packets_area_unknown" ELSE "packets_area_cell1", cell, p)}

\* Seeded fault: a packet whose ship's position is unknown is left out.
KnownRows(p, cell) ==
  (IF Time[p] > 0 THEN storeByTime(p) ELSE {})
    \cup (IF Mmsi[p] > 0 THEN storeByMmsi(p) ELSE {})
    \cup (IF Time[p] > 0 /\ Mmsi[p] > 0 /\ cell # NoCell THEN storeByArea(p, cell) ELSE {})

Rows(p, cell) ==
  (IF Time[p] > 0 THEN storeByTime(p) ELSE {})
    \cup (IF Mmsi[p] > 0 THEN storeByMmsi(p) ELSE {})
    \cup (IF Time[p] > 0 /\ Mmsi[p] > 0 THEN storeByArea(p, cell) ELSE {})

\* Seeded fault: a batch takes whatever is there.
HandleOneMore(p) ==
  /\ p \in waiting
  /\ Cardinality(messages) <= BatchSize
  /\ waiting' = waiting \ {p} /\ messages' = messages \cup {p}
  /\ statements' = statements \cup Rows(p, getPosition(p))
  /\ Track(p)
  /\ UNCHANGED <<clock, store, failed, budget>>

\* The next message of the batch is made into statements.
handleMessage(p) ==
  /\ p \in waiting
  /\ Cardinality(messages) < BatchSize
  /\ waiting' = waiting \ {p} /\ messages' = messages \cup {p}
  /\ statements' = statements \cup Rows(p, getPosition(p))
  /\ Track(p)
  /\ UNCHANGED <<clock, store, failed, budget>>

EndBatch == messages' = {} /\ statements' = {} /\ UNCHANGED <<clock, tracker, seen>>

\* Seeded fault: what has been written is handled again.
WriteAndRepeat ==
  /\ messages # {}
  /\ store' = store \cup statements
  /\ waiting' = waiting \cup messages
  /\ EndBatch
  /\ UNCHANGED <<failed, budget>>

\* Cassandra applies the batch.
WriteBatch ==
  /\ messages # {}
  /\ store' = store \cup statements
  /\ EndBatch
  /\ UNCHANGED <<waiting, failed, budget>>

\* Cassandra refuses the batch, which is only logged.
RejectBatch ==
  /\ messages # {}
  /\ Spend("write")
  /\ EndBatch
  /\ UNCHANGED <<waiting, store, failed>>

\* Any other failure: the batch may have been applied, and its packets come back.
FailBatch ==
  /\ messages # {}
  /\ Spend("write")
  /\ store' \in {store, store \cup statements}
  /\ waiting' = waiting \cup messages /\ failed' = failed \cup messages
  /\ EndBatch

-----------------------------------------------------------------------------
Tick ==
  /\ clock < MaxClock
  /\ clock' = clock + 1
  /\ UNCHANGED <<tracker, waiting, messages, statements, store, seen, failed, budget>>

\* The process ends, with a batch that may have been applied, and is started again.
Restart ==
  /\ Spend("stop")
  /\ tracker' = [m \in Ship |-> NoEntry] /\ seen' = [p \in Packet |-> Never]
  /\ messages' = {} /\ statements' = {}
  /\ store' \in {store, store \cup statements}
  /\ UNCHANGED <<clock, waiting, failed>>

-----------------------------------------------------------------------------
Batch == (\E p \in Packet : handleMessage(p)) \/ WriteBatch \/ RejectBatch \/ FailBatch

Next == Batch \/ Tick \/ Restart

Spec == Init /\ [][Next]_vars

-----------------------------------------------------------------------------
(* Properties. *)

(* The types, and that a batch is within its size and has only rows of its own packets  *)
(* (CassandraBatchedStagedWriter.java:75-82).                                           *)
TypeOK ==
  /\ clock \in 0..MaxClock
  /\ tracker \in [Ship -> [cell : Cell \cup {NoCell}, time : Int, written : Int]]
  /\ waiting \subseteq Packet /\ messages \subseteq Packet /\ waiting \cap messages = {}
  /\ statements \subseteq Row /\ store \subseteq Row
  /\ \A r \in statements : r.packet \in messages
  /\ seen \in [Packet -> Int] /\ failed \subseteq Packet
  /\ IsFiniteSet(messages) /\ Cardinality(messages) <= BatchSize
  /\ budget \in [EventKind -> Nat]

Tells(m) == {p \in Packet : Position[p] # NoCell /\ Mmsi[p] = m}

(* The tracker knows a ship exactly as long as one of its positions has been received   *)
(* within the last 20 minutes, and then none of these has a greater timestamp than the  *)
(* one it knows, whatever the order they came in; that one may itself have come earlier *)
(* (DefaultAisStoreWriter.java:60-71, 178-184).                                         *)
TrackerIsNewest ==
  \A m \in Ship :
    /\ Recent(tracker[m].written) <=> \E p \in Tells(m) : Recent(seen[p])
    /\ Recent(tracker[m].written) =>
         /\ \A p \in Tells(m) : Recent(seen[p]) => Time[p] <= tracker[m].time
         /\ \E p \in Tells(m) : /\ seen[p] # Never
                                /\ Time[p] = tracker[m].time /\ Position[p] = tracker[m].cell

\* Why it does: an entry is as old as the last position of its ship.
EntryIsLast ==
  \A m \in Ship :
    /\ tracker[m].written <= clock
    /\ \A p \in Tells(m) : seen[p] <= tracker[m].written
    /\ tracker[m].written = Never \/ \E p \in Tells(m) : seen[p] = tracker[m].written

(* A packet that a query by time, by number or by area returns is returned by the       *)
(* others for which it has the data, as failed and repeated batches leave no half       *)
(* (DefaultAisStoreWriter.java:102-110, 115-144).                                       *)
Stored(t) == {r.packet : r \in {s \in store : s.table = t}}
TablesAgree ==
  LET known == UNION {Stored(t) : t \in Table} IN
    /\ Stored("packets_time") = {p \in known : Time[p] > 0}
    /\ Stored("packets_mmsi") = {p \in known : Mmsi[p] > 0}
    /\ UNION {Stored(t) : t \in Area} = {p \in known : Time[p] > 0 /\ Mmsi[p] > 0}

(* A packet is filed under its own position if it tells one. If not, it is filed under   *)
(* a cell exactly if its ship has told a position in the last 20 minutes, and that cell  *)
(* is of a position at least as new as all these (DefaultAisStoreWriter.java:98, 115,    *)
(* 176-184).                                                                             *)
IsNewest(cell, m) ==
  \E q \in Tells(m) :
    Position[q] = cell /\ \A p \in Tells(m) : Recent(seen[p]) => Time[p] <= Time[q]
FiledAtNewestPosition ==
  [][\A r \in statements' \ statements : r.table \in Area =>
       IF Position[r.packet] # NoCell THEN r.cell = Position[r.packet]
       ELSE LET m == Mmsi[r.packet] IN
              IF \E p \in Tells(m) : Recent(seen[p]) THEN IsNewest(r.cell, m) ELSE r.cell = NoCell]_vars

\* A batch has all rows of its packets or none, so it keeps TablesAgree.
AllRows(S) ==
  \A r \in S :
    /\ \E cell \in Cell \cup {NoCell} : r \in Rows(r.packet, cell)
    /\ \E cell \in Cell \cup {NoCell} : Rows(r.packet, cell) \subseteq S

(* The digest is there "to avoid storing duplicates" (AisStoreSchema.java:46): a packet *)
(* is filed twice only if it tells no position and its batch has failed meanwhile.      *)
FiledTwiceAfterFailure ==
  \A r, s \in store : r # s /\ r.packet = s.packet /\ {r.table, s.table} \subseteq Area =>
    r.packet \in failed /\ Position[r.packet] = NoCell

\* Why it holds: what has been stored is not handled again but after a failure.
FiledOnce ==
  /\ \A r \in store : r.packet \in waiting \cup messages => r.packet \in failed
  /\ \A r, s \in statements :
       r.packet = s.packet /\ {r.table, s.table} \subseteq Area => r = s
  /\ \A r \in store \cup statements :
       r.table \in Area /\ Position[r.packet] # NoCell =>
         r.table = "packets_area_cell1" /\ r.cell = Position[r.packet]
=============================================================================
