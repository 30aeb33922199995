-------------------------- MODULE StoreWriterProofs ---------------------------
(***************************************************************************)
(* Proofs about the store writer, for any packets, in any order, any batch *)
(* size and any time that entries of the tracker are kept.                 *)
(***************************************************************************)
EXTENDS StoreWriter, FiniteSetTheorems, TLAPS

LEMMA SpendType ==
  ASSUME TypeOK, NEW kind \in EventKind, Spend(kind)
  PROVE  budget' \in [EventKind -> Nat]
BY DEF Spend, TypeOK

(* A packet's rows are rows of that packet in the tables, and its position is a cell or *)
(* none (DefaultAisStoreWriter.java:102-110, 168-188).                                  *)
LEMMA RowsType ==
  ASSUME NEW p \in Packet, NEW cell \in Cell \cup {NoCell}
  PROVE  /\ Rows(p, cell) \subseteq Row
         /\ \A r \in Rows(p, cell) : r.packet = p
BY DEF Rows, storeByTime, storeByMmsi, storeByArea, InTable, Row, Table

LEMMA PositionType ==
  ASSUME TypeOK, NEW p \in Packet
  PROVE  getPosition(p) \in Cell \cup {NoCell}
<1>1. Mmsi[p] # -1 => Mmsi[p] \in Ship
  BY DEF Ship
<1>2. QED BY <1>1, WriterAssumption DEF getPosition, TypeOK

(* What Track does to the entry of the packet's ship and to the others.                 *)
LEMMA TrackType ==
  ASSUME TypeOK, NEW p \in Packet, Track(p)
  PROVE  /\ tracker' \in [Ship -> [cell : Cell \cup {NoCell}, time : Int, written : Int]]
         /\ seen' \in [Packet -> Int]
<1>1. CASE Position[p] = NoCell
  BY <1>1 DEF Track, TypeOK
<1>2. CASE Position[p] # NoCell
  <2>1. Mmsi[p] \in Ship
    BY <1>2, WriterAssumption DEF Ship
  <2>2. MergedEntry(p) \in [cell : Cell \cup {NoCell}, time : Int, written : Int]
    BY <2>1, WriterAssumption DEF MergedEntry, TypeOK
  <2>3. QED BY <1>2, <2>1, <2>2 DEF Track, TypeOK
<1>3. QED BY <1>1, <1>2

(* The types; a batch is within its size and has rows of its own packets only           *)
(* (CassandraBatchedStagedWriter.java:72-117).                                          *)
THEOREM TypeCorrect == Spec => []TypeOK
<1> USE WriterAssumption DEF EventKind
<1>1. Init => TypeOK
  BY FS_EmptySet DEF Init, TypeOK, NoEntry, Never
<1>2. TypeOK /\ [Next]_vars => TypeOK'
  <2> SUFFICES ASSUME TypeOK, [Next]_vars PROVE TypeOK'
    OBVIOUS
  <2>1. ASSUME NEW p \in Packet, handleMessage(p) PROVE TypeOK'
    <3>1. getPosition(p) \in Cell \cup {NoCell}
      BY PositionType
    <3>2. statements' \subseteq Row /\ \A r \in statements' : r.packet \in messages'
      BY <2>1, <3>1, RowsType DEF handleMessage, TypeOK
    <3>3. IsFiniteSet(messages') /\ Cardinality(messages') <= BatchSize
      <4>1. messages' = messages \cup {p} /\ p \notin messages
        BY <2>1 DEF handleMessage, TypeOK
      <4>2. IsFiniteSet(messages) /\ Cardinality(messages) \in Nat
        BY FS_CardinalityType DEF TypeOK
      <4>3. IsFiniteSet(messages') /\ Cardinality(messages') = Cardinality(messages) + 1
        BY <4>1, <4>2, FS_AddElement
      <4>4. QED BY <2>1, <4>2, <4>3 DEF handleMessage
    <3>4. QED BY <2>1, <3>2, <3>3, TrackType DEF handleMessage, TypeOK
  <2>2. ASSUME WriteBatch PROVE TypeOK'
    BY <2>2, FS_EmptySet DEF WriteBatch, EndBatch, TypeOK
  <2>3. ASSUME RejectBatch PROVE TypeOK'
    BY <2>3, FS_EmptySet, SpendType DEF RejectBatch, EndBatch, TypeOK
  <2>4. ASSUME FailBatch PROVE TypeOK'
    BY <2>4, FS_EmptySet, SpendType DEF FailBatch, EndBatch, TypeOK
  <2>5. ASSUME Tick PROVE TypeOK'
    BY <2>5 DEF Tick, TypeOK
  <2>6. ASSUME Restart PROVE TypeOK'
    BY <2>6, FS_EmptySet, SpendType DEF Restart, TypeOK, NoEntry, Never
  <2>7. ASSUME UNCHANGED vars PROVE TypeOK'
    BY <2>7 DEF vars, TypeOK
  <2>8. QED BY <2>1, <2>2, <2>3, <2>4, <2>5, <2>6, <2>7 DEF Next, Batch
<1>3. QED BY <1>1, <1>2, PTL DEF Spec

-----------------------------------------------------------------------------
(* The tracker. *)

Tracking == EntryIsLast /\ TrackerIsNewest

(* A position is noted with the clock, and the newer of it and a recent entry stays     *)
(* (DefaultAisStoreWriter.java:178-184).                                                *)
LEMMA TrackStep ==
  ASSUME TypeOK, Tracking, NEW p \in Packet, Track(p), clock' = clock
  PROVE  Tracking'
<1>1. \A when : Recent(when)' <=> Recent(when)
  BY DEF Recent
<1>2. \A m \in Ship : Tells(m) \subseteq Packet
  BY DEF Tells
<1>3. CASE Position[p] = NoCell
  <2>1. tracker' = tracker /\ seen' = seen
    BY <1>3 DEF Track
  <2>2. QED BY <1>1, <2>1 DEF Tracking, EntryIsLast, TrackerIsNewest, Recent, Tells
<1>4. CASE Position[p] # NoCell
  <2> DEFINE m == Mmsi[p]
             Entry == [cell : Cell \cup {NoCell}, time : Int, written : Int]
  <2>1. m \in Ship /\ p \in Tells(m) /\ \A n \in Ship \ {m} : p \notin Tells(n)
    BY <1>4, WriterAssumption DEF Ship, Tells
  <2>2. /\ tracker'[m] = MergedEntry(p) /\ \A n \in Ship \ {m} : tracker'[n] = tracker[n]
        /\ seen'[p] = clock /\ \A q \in Packet \ {p} : seen'[q] = seen[q]
    BY <1>4, <2>1 DEF Track, TypeOK
  <2>3. /\ clock \in Int /\ Recent(clock) /\ clock # Never
        /\ tracker[m] \in Entry /\ Time \in [Packet -> Int] /\ seen \in [Packet -> Int]
    BY <2>1, WriterAssumption DEF Recent, Never, TypeOK
  <2>4. tracker'[m].written = clock
    BY <2>2, <2>3 DEF MergedEntry
  <2>5. \A q \in Tells(m) : seen'[q] <= clock
    <3>1. \A q \in Tells(m) : seen[q] <= tracker[m].written /\ tracker[m].written <= clock
      BY <2>1 DEF Tracking, EntryIsLast
    <3>2. QED BY <1>2, <2>1, <2>2, <2>3, <3>1
  <2>6. \A q \in Tells(m) : Recent(seen'[q]) => Time[q] <= tracker'[m].time
    <3> SUFFICES ASSUME NEW q \in Tells(m), Recent(seen'[q]) PROVE Time[q] <= tracker'[m].time
      OBVIOUS
    <3>1. q \in Packet /\ Time[q] \in Int /\ Time[p] \in Int
      BY <1>2, <2>1, <2>3
    <3>2. Time[p] <= tracker'[m].time
      BY <2>2, <2>3, <3>1 DEF MergedEntry
    <3>3. CASE q = p
      BY <3>2, <3>3
    <3>4. CASE q # p
      <4>1. Recent(seen[q])
        BY <2>2, <3>1, <3>4
      <4>2. Recent(tracker[m].written) /\ Time[q] <= tracker[m].time
        BY <2>1, <4>1 DEF Tracking, TrackerIsNewest
      <4>3. tracker[m].time <= tracker'[m].time
        BY <2>2, <2>3, <3>1, <4>2 DEF MergedEntry
      <4>4. tracker'[m].time \in Int
        BY <2>2, <2>3, <3>1 DEF MergedEntry
      <4>5. QED BY <2>3, <3>1, <4>2, <4>3, <4>4
    <3>5. QED BY <3>3, <3>4
  <2>7. \E q \in Tells(m) : /\ seen'[q] # Never
                            /\ Time[q] = tracker'[m].time /\ Position[q] = tracker'[m].cell
    <3>1. CASE Recent(tracker[m].written) /\ tracker[m].time > Time[p]
      <4>1. tracker'[m].time = tracker[m].time /\ tracker'[m].cell = tracker[m].cell
        BY <2>2, <2>3, <3>1 DEF MergedEntry
      <4>2. PICK q \in Tells(m) : /\ seen[q] # Never
                                  /\ Time[q] = tracker[m].time /\ Position[q] = tracker[m].cell
        BY <2>1, <3>1 DEF Tracking, TrackerIsNewest
      <4>3. seen'[q] # Never
        BY <1>2, <2>1, <2>2, <2>3, <4>2
      <4>4. QED BY <4>1, <4>2, <4>3
    <3>2. CASE ~(Recent(tracker[m].written) /\ tracker[m].time > Time[p])
      <4>1. tracker'[m].time = Time[p] /\ tracker'[m].cell = Position[p]
        BY <2>2, <3>2 DEF MergedEntry
      <4>2. QED BY <2>1, <2>2, <2>3, <4>1
    <3>3. QED BY <3>1, <3>2
  <2>8. \A n \in Ship \ {m} : tracker'[n] = tracker[n] /\ \A q \in Tells(n) : seen'[q] = seen[q]
    BY <1>2, <2>1, <2>2
  <2>9. EntryIsLast'
    <3>1. \A n \in Ship : Tells(n)' = Tells(n)
      BY DEF Tells
    <3>2. tracker'[m].written <= clock /\ \E q \in Tells(m) : seen'[q] = tracker'[m].written
      BY <2>1, <2>2, <2>3, <2>4
    <3>3. QED BY <2>4, <2>5, <2>8, <3>1, <3>2 DEF Tracking, EntryIsLast, Never
  <2>10. TrackerIsNewest'
    <3>1. Recent(tracker'[m].written) /\ \E q \in Tells(m) : Recent(seen'[q])
      BY <2>1, <2>2, <2>3, <2>4
    <3>2. \A n \in Ship \ {m} :
            /\ Recent(tracker'[n].written) <=> \E q \in Tells(n) : Recent(seen'[q])
            /\ Recent(tracker'[n].written) =>
                 /\ \A q \in Tells(n) : Recent(seen'[q]) => Time[q] <= tracker'[n].time
                 /\ \E q \in Tells(n) :
                      /\ seen'[q] # Never
                      /\ Time[q] = tracker'[n].time /\ Position[q] = tracker'[n].cell
      BY <2>8 DEF Tracking, TrackerIsNewest
    <3>3. \A n \in Ship :
            /\ Recent(tracker'[n].written) <=> \E q \in Tells(n) : Recent(seen'[q])
            /\ Recent(tracker'[n].written) =>
                 /\ \A q \in Tells(n) : Recent(seen'[q]) => Time[q] <= tracker'[n].time
                 /\ \E q \in Tells(n) :
                      /\ seen'[q] # Never
                      /\ Time[q] = tracker'[n].time /\ Position[q] = tracker'[n].cell
      BY <2>6, <2>7, <3>1, <3>2
    <3>4. QED BY <3>3 DEF TrackerIsNewest, Recent, Tells, Never
  <2>11. QED BY <2>9, <2>10 DEF Tracking
<1>5. QED BY <1>3, <1>4

(* Time passes: an entry expires when the last position of its ship is too old.         *)
LEMMA TickStep ==
  ASSUME TypeOK, Tracking, Tick
  PROVE  Tracking'
<1>1. UNCHANGED <<tracker, seen>> /\ clock' = clock + 1 /\ clock \in Nat
  BY DEF Tick, TypeOK
<1>2. \A m \in Ship : Tells(m) \subseteq Packet
  BY DEF Tells
<1>3. \A when \in Int : Recent(when)' => Recent(when)
  BY <1>1, WriterAssumption DEF Recent
<1>4. ~Recent(Never)'
  BY <1>1, WriterAssumption DEF Recent, Never
<1>5. EntryIsLast'
  <2>1. \A m \in Ship : tracker[m].written \in Int
    BY DEF TypeOK
  <2>2. QED BY <1>1, <2>1 DEF Tracking, EntryIsLast, Tells, Never
<1>6. TrackerIsNewest'
  <2> SUFFICES ASSUME NEW m \in Ship
               PROVE  /\ Recent(tracker[m].written)' <=> \E p \in Tells(m) : Recent(seen[p])'
                      /\ Recent(tracker[m].written)' =>
                           /\ \A p \in Tells(m) : Recent(seen[p])' => Time[p] <= tracker[m].time
                           /\ \E p \in Tells(m) :
                                /\ seen[p] # Never
                                /\ Time[p] = tracker[m].time /\ Position[p] = tracker[m].cell
    BY <1>1 DEF TrackerIsNewest, Tells, Never
  <2>1. tracker[m].written \in Int /\ \A p \in Tells(m) : seen[p] \in Int
    BY <1>2 DEF TypeOK
  <2>2. /\ \A p \in Tells(m) : seen[p] <= tracker[m].written
        /\ tracker[m].written = Never \/ \E p \in Tells(m) : seen[p] = tracker[m].written
    BY DEF Tracking, EntryIsLast
  <2>3. Recent(tracker[m].written)' => \E p \in Tells(m) : Recent(seen[p])'
    BY <1>1, <1>4, <2>2 DEF Never
  <2>4. \A p \in Tells(m) : Recent(seen[p])' => Recent(tracker[m].written)'
    BY <1>1, <2>1, <2>2, WriterAssumption DEF Recent
  <2>5. Recent(tracker[m].written)' => Recent(tracker[m].written)
    BY <1>1, <1>3, <2>1
  <2>6. \A p \in Tells(m) : Recent(seen[p])' => Recent(seen[p])
    BY <1>1, <1>3, <2>1
  <2>7. QED BY <2>3, <2>4, <2>5, <2>6 DEF Tracking, TrackerIsNewest
<1>7. QED BY <1>5, <1>6 DEF Tracking

(* A new process has an empty tracker.                                                  *)
LEMMA RestartStep ==
  ASSUME TypeOK, clock' = clock,
         tracker' = [m \in Ship |-> NoEntry], seen' = [p \in Packet |-> Never]
  PROVE  Tracking'
<1>1. ~Recent(Never)' /\ Never <= clock' /\ Never <= Never
  BY WriterAssumption DEF TypeOK, Recent, Never
<1>2. /\ \A m \in Ship : tracker'[m].written = Never
      /\ \A m \in Ship : \A p \in Tells(m) : seen'[p] = Never
  BY DEF NoEntry, Tells
<1>3. EntryIsLast'
  BY <1>1, <1>2 DEF EntryIsLast, Tells, Never
<1>4. TrackerIsNewest'
  BY <1>1, <1>2 DEF TrackerIsNewest, Tells, Recent, Never
<1>5. QED BY <1>3, <1>4 DEF Tracking

-----------------------------------------------------------------------------
(* The rows. *)

LEMMA AllRowsUnion ==
  ASSUME NEW S, NEW T, AllRows(S), AllRows(T)
  PROVE  AllRows(S \cup T)
BY DEF AllRows

LEMMA AllRowsOfPacket ==
  ASSUME NEW p \in Packet, NEW cell \in Cell \cup {NoCell}
  PROVE  AllRows(Rows(p, cell))
<1>1. \A r \in Rows(p, cell) : r.packet = p
  BY RowsType
<1>2. QED BY <1>1 DEF AllRows

(* With all rows of their packets the tables agree.                                     *)
LEMMA AllRowsAgree ==
  ASSUME TypeOK, AllRows(store)
  PROVE  TablesAgree
<1> DEFINE known == UNION {Stored(t) : t \in Table}
<1>1. \A r \in store : r \in Row
  BY DEF TypeOK
<1>2. \A p \in known : \E r \in store : r.packet = p /\ p \in Packet
  BY <1>1 DEF Stored, Row
<1>3. \A r \in store : r.packet \in known /\ r.packet \in Stored(r.table)
  BY <1>1 DEF Stored, Row
<1>4. ASSUME NEW r \in store
      PROVE  /\ Time[r.packet] > 0 => InTable("packets_time", NoCell, r.packet) \in store
             /\ Mmsi[r.packet] > 0 => InTable("packets_mmsi", NoCell, r.packet) \in store
             /\ Time[r.packet] > 0 /\ Mmsi[r.packet] > 0 =>
                  \E t \in Area, cell \in Cell \cup {NoCell} : InTable(t, cell, r.packet) \in store
             /\ r.table = "packets_time" => Time[r.packet] > 0
             /\ r.table = "packets_mmsi" => Mmsi[r.packet] > 0
             /\ r.table \in Area => Time[r.packet] > 0 /\ Mmsi[r.packet] > 0
  <2>1. PICK cell \in Cell \cup {NoCell} : Rows(r.packet, cell) \subseteq store
    BY DEF AllRows
  <2>2. PICK own \in Cell \cup {NoCell} : r \in Rows(r.packet, own)
    BY DEF AllRows
  <2>3. /\ r.table = "packets_time" => Time[r.packet] > 0
        /\ r.table = "packets_mmsi" => Mmsi[r.packet] > 0
        /\ r.table \in Area => Time[r.packet] > 0 /\ Mmsi[r.packet] > 0
    BY <2>2 DEF Rows, storeByTime, storeByMmsi, storeByArea, InTable, Area
  <2>4. /\ Time[r.packet] > 0 => InTable("packets_time", NoCell, r.packet) \in store
        /\ Mmsi[r.packet] > 0 => InTable("packets_mmsi", NoCell, r.packet) \in store
    BY <2>1 DEF Rows, storeByTime, storeByMmsi
  <2>5. Time[r.packet] > 0 /\ Mmsi[r.packet] > 0 =>
          \E t \in Area, c \in Cell \cup {NoCell} : InTable(t, c, r.packet) \in store
    BY <2>1 DEF Rows, storeByArea, Area
  <2>6. QED BY <2>3, <2>4, <2>5
<1>5. Stored("packets_time") = {p \in known : Time[p] > 0}
  <2>1. ASSUME NEW p \in Stored("packets_time") PROVE p \in known /\ Time[p] > 0
    <3>1. PICK r \in store : r.table = "packets_time" /\ r.packet = p
      BY <2>1 DEF Stored
    <3>2. QED BY <1>3, <1>4, <3>1
  <2>2. ASSUME NEW p \in known, Time[p] > 0 PROVE p \in Stored("packets_time")
    <3>1. PICK r \in store : r.packet = p
      BY <1>2
    <3>2. InTable("packets_time", NoCell, p) \in store
      BY <1>4, <2>2, <3>1
    <3>3. QED BY <3>2 DEF Stored, InTable
  <2>3. QED BY <2>1, <2>2
<1>6. Stored("packets_mmsi") = {p \in known : Mmsi[p] > 0}
  <2>1. ASSUME NEW p \in Stored("packets_mmsi") PROVE p \in known /\ Mmsi[p] > 0
    <3>1. PICK r \in store : r.table = "packets_mmsi" /\ r.packet = p
      BY <2>1 DEF Stored
    <3>2. QED BY <1>3, <1>4, <3>1
  <2>2. ASSUME NEW p \in known, Mmsi[p] > 0 PROVE p \in Stored("packets_mmsi")
    <3>1. PICK r \in store : r.packet = p
      BY <1>2
    <3>2. InTable("packets_mmsi", NoCell, p) \in store
      BY <1>4, <2>2, <3>1
    <3>3. QED BY <3>2 DEF Stored, InTable
  <2>3. QED BY <2>1, <2>2
<1>7. UNION {Stored(t) : t \in Area} = {p \in known : Time[p] > 0 /\ Mmsi[p] > 0}
  <2>1. Area \subseteq Table
    BY DEF Area, Table
  <2>2. ASSUME NEW p \in UNION {Stored(t) : t \in Area}
        PROVE  p \in known /\ Time[p] > 0 /\ Mmsi[p] > 0
    <3>1. PICK r \in store : r.table \in Area /\ r.packet = p
      BY <2>2 DEF Stored
    <3>2. QED BY <1>3, <1>4, <3>1
  <2>3. ASSUME NEW p \in known, Time[p] > 0, Mmsi[p] > 0
        PROVE  p \in UNION {Stored(t) : t \in Area}
    <3>1. PICK r \in store : r.packet = p
      BY <1>2
    <3>2. PICK t \in Area, cell \in Cell \cup {NoCell} : InTable(t, cell, p) \in store
      BY <1>4, <2>3, <3>1
    <3>3. p \in Stored(t)
      BY <3>2 DEF Stored, InTable
    <3>4. QED BY <3>2, <3>3
  <2>4. QED BY <2>2, <2>3
<1>8. QED BY <1>5, <1>6, <1>7 DEF TablesAgree

(* Two rows of a packet in the area tables are two ways to file it.                     *)
LEMMA OneAreaRow ==
  ASSUME NEW p \in Packet, NEW cell \in Cell \cup {NoCell}
  PROVE  /\ \A r, s \in Rows(p, cell) : {r.table, s.table} \subseteq Area => r = s
         /\ Position[p] # NoCell /\ cell = Position[p] =>
              \A r \in Rows(p, cell) :
                r.table \in Area => r.table = "packets_area_cell1" /\ r.cell = Position[p]
BY DEF Rows, storeByTime, storeByMmsi, storeByArea, InTable, Area

IInv ==
  /\ TypeOK
  /\ Tracking
  /\ AllRows(store) /\ AllRows(statements)
  /\ FiledOnce

(* A packet that is handled has its rows, and in the area tables one; none is stored    *)
(* but if its batch has failed before (DefaultAisStoreWriter.java:81-111).              *)
LEMMA HandleStep ==
  ASSUME IInv, NEW p \in Packet, handleMessage(p)
  PROVE  AllRows(statements') /\ FiledOnce'
<1> DEFINE cell == getPosition(p)
           new  == Rows(p, cell)
<1>1. cell \in Cell \cup {NoCell}
  BY PositionType DEF IInv
<1>2. /\ p \in waiting /\ p \notin messages
      /\ waiting' = waiting \ {p} /\ messages' = messages \cup {p}
      /\ statements' = statements \cup new /\ store' = store /\ failed' = failed
  BY DEF handleMessage, IInv, TypeOK
<1>3. AllRows(statements')
  BY <1>1, <1>2, AllRowsOfPacket, AllRowsUnion DEF IInv
<1>4. (\A r \in statements : r.packet # p) /\ \A r \in new : r.packet = p
  BY <1>1, <1>2, RowsType DEF IInv, TypeOK
<1>5. Position[p] # NoCell => cell = Position[p]
  BY DEF getPosition
<1>6. \A r \in store' : r.packet \in waiting' \cup messages' => r.packet \in failed'
  BY <1>2 DEF IInv, FiledOnce
<1>7. \A r, s \in statements' :
        r.packet = s.packet /\ {r.table, s.table} \subseteq Area => r = s
  <2>1. \A r, s \in new : {r.table, s.table} \subseteq Area => r = s
    BY <1>1, OneAreaRow
  <2>2. QED BY <1>2, <1>4, <2>1 DEF IInv, FiledOnce
<1>8. \A r \in store' \cup statements' :
        r.table \in Area /\ Position[r.packet] # NoCell =>
          r.table = "packets_area_cell1" /\ r.cell = Position[r.packet]
  <2>1. \A r \in new : r.table \in Area /\ Position[p] # NoCell =>
                         r.table = "packets_area_cell1" /\ r.cell = Position[p]
    BY <1>1, <1>5, OneAreaRow
  <2>2. QED BY <1>2, <1>4, <2>1 DEF IInv, FiledOnce
<1>9. QED BY <1>3, <1>6, <1>7, <1>8 DEF FiledOnce

(* However a batch ends, its rows are stored all or not at all, and its packets are not *)
(* handled again, unless they are noted as failed                                       *)
(* (CassandraBatchedStagedWriter.java:84-117).                                          *)
LEMMA EndStep ==
  ASSUME IInv, messages' = {}, statements' = {}, store' \in {store, store \cup statements},
         \/ waiting' = waiting /\ failed' = failed
         \/ waiting' = waiting \cup messages /\ failed' = failed \cup messages
  PROVE  AllRows(store') /\ AllRows(statements') /\ FiledOnce'
<1>1. AllRows(store')
  BY AllRowsUnion DEF IInv
<1>2. AllRows(statements')
  BY DEF AllRows
<1>3. \A r \in statements : r.packet \in messages /\ r.packet \notin waiting
  BY DEF IInv, TypeOK
<1>4. FiledOnce'
  BY <1>3 DEF IInv, FiledOnce
<1>5. QED BY <1>1, <1>2, <1>4

(* The types, the tracker's age, whole batches and single rows hold together.           *)
THEOREM Invariance == Spec => []IInv
<1>1. Init => Tracking /\ AllRows(store) /\ AllRows(statements) /\ FiledOnce
  <2> SUFFICES ASSUME Init PROVE Tracking /\ AllRows(store) /\ AllRows(statements) /\ FiledOnce
    OBVIOUS
  <2>1. ~Recent(Never) /\ Never <= clock /\ Never <= Never
    BY WriterAssumption DEF Init, Recent, Never
  <2>2. /\ \A m \in Ship : tracker[m].written = Never
        /\ \A m \in Ship : \A p \in Tells(m) : seen[p] = Never
    BY DEF Init, NoEntry, Tells
  <2>3. Tracking
    BY <2>1, <2>2 DEF Tracking, EntryIsLast, TrackerIsNewest
  <2>4. QED BY <2>3 DEF Init, AllRows, FiledOnce
<1>2. IInv /\ TypeOK' /\ [Next]_vars => IInv'
  <2> SUFFICES ASSUME IInv, TypeOK', [Next]_vars
               PROVE  Tracking' /\ AllRows(store') /\ AllRows(statements') /\ FiledOnce'
    BY DEF IInv, AllRows
  <2>1. ASSUME NEW p \in Packet, handleMessage(p)
        PROVE  Tracking' /\ AllRows(store') /\ AllRows(statements') /\ FiledOnce'
    <3>1. Tracking'
      BY <2>1, TrackStep DEF handleMessage, IInv
    <3>2. AllRows(store')
      BY <2>1 DEF handleMessage, IInv
    <3>3. QED BY <2>1, <3>1, <3>2, HandleStep
  <2>2. ASSUME UNCHANGED <<clock, tracker, seen>> PROVE Tracking'
    BY <2>2 DEF IInv, Tracking, EntryIsLast, TrackerIsNewest, Recent, Tells, Never
  <2>3. ASSUME WriteBatch \/ RejectBatch \/ FailBatch
        PROVE  Tracking' /\ AllRows(store') /\ AllRows(statements') /\ FiledOnce'
    BY <2>2, <2>3, EndStep DEF WriteBatch, RejectBatch, FailBatch, EndBatch
  <2>4. ASSUME Tick PROVE Tracking' /\ AllRows(store') /\ AllRows(statements') /\ FiledOnce'
    <3>1. Tracking'
      BY <2>4, TickStep DEF IInv
    <3>2. UNCHANGED <<waiting, messages, statements, store, failed>>
      BY <2>4 DEF Tick
    <3>3. QED BY <3>1, <3>2 DEF IInv, FiledOnce
  <2>5. ASSUME Restart PROVE Tracking' /\ AllRows(store') /\ AllRows(statements') /\ FiledOnce'
    BY <2>5, RestartStep, EndStep DEF Restart, IInv
  <2>6. ASSUME UNCHANGED vars
        PROVE  Tracking' /\ AllRows(store') /\ AllRows(statements') /\ FiledOnce'
    BY <2>2, <2>6 DEF vars, IInv, FiledOnce
  <2>7. QED BY <2>1, <2>3, <2>4, <2>5, <2>6 DEF Next, Batch
<1>3. QED BY <1>1, <1>2, TypeCorrect, PTL DEF Spec, IInv

(* The tracker knows the newest recent position of each ship, and no other              *)
(* (DefaultAisStoreWriter.java:178-184).                                                *)
THEOREM NewestKnown == Spec => []TrackerIsNewest
<1>1. IInv => TrackerIsNewest
  BY DEF IInv, Tracking
<1>2. QED BY <1>1, Invariance, PTL

(* No failure or repetition leaves half of a packet's rows                              *)
(* (DefaultAisStoreWriter.java:102-110, CassandraBatchedStagedWriter.java:86-90).       *)
THEOREM WholePackets == Spec => []TablesAgree
<1>1. IInv => TablesAgree
  BY AllRowsAgree DEF IInv
<1>2. QED BY <1>1, Invariance, PTL

(* Only a packet whose batch has failed can be filed twice                              *)
(* (CassandraBatchedStagedWriter.java:109).                                             *)
THEOREM Duplicates == Spec => []FiledTwiceAfterFailure
<1>1. Init => FiledTwiceAfterFailure
  BY DEF Init, FiledTwiceAfterFailure
<1>2. IInv /\ FiledTwiceAfterFailure /\ [Next]_vars => FiledTwiceAfterFailure'
  <2> SUFFICES ASSUME IInv, FiledTwiceAfterFailure, [Next]_vars,
                      NEW r \in store', NEW s \in store', r # s, r.packet = s.packet,
                      {r.table, s.table} \subseteq Area
               PROVE  r.packet \in failed' /\ Position[r.packet] = NoCell
    BY DEF FiledTwiceAfterFailure
  <2>1. store' \subseteq store \cup statements /\ failed \subseteq failed'
    BY DEF Next, Batch, handleMessage, WriteBatch, RejectBatch, FailBatch, EndBatch, Tick, Restart,
           vars
  <2>2. r \in Row /\ s \in Row
    BY <2>1 DEF IInv, TypeOK
  <2>3. Position[r.packet] = NoCell
    BY <2>1, <2>2 DEF IInv, FiledOnce, Row
  <2>4. r.packet \in failed
    <3>1. CASE r \in store /\ s \in store
      BY <3>1 DEF FiledTwiceAfterFailure
    <3>2. CASE r \in statements /\ s \in statements
      BY <3>2 DEF IInv, FiledOnce
    <3>3. CASE (r \in store /\ s \in statements) \/ (r \in statements /\ s \in store)
      <4>1. \A t \in statements : t.packet \in messages
        BY DEF IInv, TypeOK
      <4>2. r.packet \in messages /\ s.packet \in messages
        BY <3>3, <4>1
      <4>3. \A t \in store : t.packet \in waiting \cup messages => t.packet \in failed
        BY DEF IInv, FiledOnce
      <4>4. QED BY <3>3, <4>2, <4>3
    <3>4. QED BY <2>1, <3>1, <3>2, <3>3
  <2>5. QED BY <2>1, <2>3, <2>4
<1>3. QED BY <1>1, <1>2, Invariance, PTL DEF Spec

(* A packet without a position is filed under one that its ship told in the last 20     *)
(* minutes or that is newer, exactly if it told one in that time                        *)
(* (DefaultAisStoreWriter.java:98, 176-184).                                            *)
THEOREM NewestUsed == Spec => FiledAtNewestPosition
<1> DEFINE Filed ==
      \A r \in statements' \ statements : r.table \in Area =>
        IF Position[r.packet] # NoCell THEN r.cell = Position[r.packet]
        ELSE LET m == Mmsi[r.packet] IN
               IF \E p \in Tells(m) : Recent(seen[p]) THEN IsNewest(r.cell, m) ELSE r.cell = NoCell
<1>1. IInv /\ [Next]_vars => Filed
  <2> SUFFICES ASSUME IInv, [Next]_vars PROVE Filed
    OBVIOUS
  <2>1. ASSUME NEW p \in Packet, handleMessage(p),
               NEW r \in statements' \ statements, r.table \in Area
        PROVE  IF Position[r.packet] # NoCell THEN r.cell = Position[r.packet]
               ELSE LET m == Mmsi[r.packet] IN
                      IF \E q \in Tells(m) : Recent(seen[q]) THEN IsNewest(r.cell, m)
                                                             ELSE r.cell = NoCell
    <3>1. r \in Rows(p, getPosition(p)) /\ getPosition(p) \in Cell \cup {NoCell}
      BY <2>1, PositionType DEF handleMessage, IInv
    <3>2. r.packet = p /\ r.cell = getPosition(p) /\ Mmsi[p] > 0
      BY <2>1, <3>1 DEF Rows, storeByTime, storeByMmsi, storeByArea, InTable, Area
    <3>3. Mmsi[p] # -1 /\ Mmsi[p] \in Ship
      BY <3>2, WriterAssumption DEF Ship
    <3>4. CASE Position[p] # NoCell
      BY <3>2, <3>4 DEF getPosition
    <3>5. CASE Position[p] = NoCell /\ ~Recent(tracker[Mmsi[p]].written)
      <4>1. ~\E q \in Tells(Mmsi[p]) : Recent(seen[q])
        BY <3>3, <3>5 DEF IInv, Tracking, TrackerIsNewest
      <4>2. r.cell = NoCell
        BY <3>2, <3>3, <3>5 DEF getPosition
      <4>3. QED BY <3>2, <3>5, <4>1, <4>2
    <3>6. CASE Position[p] = NoCell /\ Recent(tracker[Mmsi[p]].written)
      <4>1. r.cell = tracker[Mmsi[p]].cell
        BY <3>2, <3>3, <3>6 DEF getPosition
      <4>2. IsNewest(r.cell, Mmsi[p])
        BY <3>3, <3>6, <4>1 DEF IInv, Tracking, TrackerIsNewest, IsNewest
      <4>3. \E q \in Tells(Mmsi[p]) : Recent(seen[q])
        BY <3>3, <3>6 DEF IInv, Tracking, TrackerIsNewest
      <4>4. QED BY <3>2, <3>6, <4>2, <4>3
    <3>7. QED BY <3>4, <3>5, <3>6
  <2>2. ASSUME WriteBatch \/ RejectBatch \/ FailBatch \/ Tick \/ Restart \/ UNCHANGED vars
        PROVE  statements' \subseteq statements
    BY <2>2 DEF WriteBatch, RejectBatch, FailBatch, EndBatch, Tick, Restart, vars
  <2>3. QED BY <2>1, <2>2 DEF Next, Batch
<1>2. QED BY <1>1, Invariance, PTL DEF Spec, FiledAtNewestPosition
=============================================================================
