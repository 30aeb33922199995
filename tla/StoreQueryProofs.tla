--------------------------- MODULE StoreQueryProofs ---------------------------
(***************************************************************************)
(* Proofs about the query, for any packets, keys, intervals, time blocks   *)
(* and batches.                                                            *)
(***************************************************************************)
EXTENDS StoreQuery, SequenceTheorems, FiniteSetTheorems, TLAPS

(* Later times lie in later blocks. *)
LEMMA BlockMonotone ==
  ASSUME NEW a \in Int, NEW b \in Int, NEW d \in Nat \ {0}, a <= b
  PROVE  (a \div d) \in Int /\ a \div d <= b \div d
OBVIOUS

LEMMA BlockOfTime ==
  ASSUME NEW a \in Nat, NEW d \in Nat \ {0}
  PROVE  (a \div d) \in Nat
OBVIOUS

(* A batch is taken from the front of the rows (AisStoreQuery.java:153-165). *)
LEMMA FirstInFront ==
  ASSUME NEW n \in Nat, NEW S \in SUBSET Packet
  PROVE  /\ First(n, S) \subseteq S
         /\ \A p \in First(n, S), r \in S \ First(n, S) : p < r
<1>1. N \in Nat
  BY QueryAssumption
<1>2. IsFiniteSet(1..N)
  BY <1>1, FS_Interval
<1>3. IsFiniteSet(S) /\ S \subseteq Nat
  <2>1. S \in SUBSET (1..N)
    BY DEF Packet
  <2>2. IsFiniteSet(S)
    BY <1>2, <2>1, FS_Subset
  <2>3. S \subseteq Nat
    BY <1>1, <2>1
  <2>4. QED BY <2>2, <2>3
<1>4. ASSUME NEW p \in First(n, S), NEW r \in S \ First(n, S), ~(p < r)
      PROVE  FALSE
  <2> DEFINE P == {s \in S : s < p}
             R == {s \in S : s < r}
  <2>1. p \in S /\ r <= p
    <3>1. p \in S /\ r \in S
      BY <1>4 DEF First
    <3>2. p \in Nat /\ r \in Nat
      BY <1>3, <3>1
    <3>3. QED BY <1>4, <3>1, <3>2
  <2>2. IsFiniteSet(P) /\ IsFiniteSet(R) /\ Cardinality(P) \in Nat /\ Cardinality(R) \in Nat
    BY <1>3, FS_Subset, FS_CardinalityType
  <2>3. R \subseteq P
    <3>1. ASSUME NEW s \in S, s < r PROVE s < p
      <4>1. s \in Nat /\ r \in Nat /\ p \in Nat
        BY <1>3, <1>4, <2>1
      <4>2. QED BY <2>1, <3>1, <4>1
    <3>2. QED BY <3>1
  <2>4. Cardinality(R) <= Cardinality(P)
    BY <2>2, <2>3, FS_Subset
  <2>5. Cardinality(P) < n /\ ~(Cardinality(R) < n)
    BY <1>4 DEF First
  <2>6. QED BY <2>2, <2>4, <2>5
<1>5. QED BY <1>4 DEF First

(* The parts of the question are what the configuration offers. *)
LEMMA QuestionType ==
  ASSUME TypeOK
  PROVE  /\ timeStart \in Nat /\ timeStop \in Nat \ {0} /\ timeStart <= timeStop
         /\ BlockLength[table] \in Nat \ {0}
         /\ \A q \in Query : q \in Nat /\ firstRow(q) \in Nat /\ lastRow(q) \in Nat
         /\ \A p \in Packet : Time[p] \in Nat /\ timeBlock(Time[p]) \in Nat
<1>1. interval \in Nat \X Nat /\ interval[1] <= interval[2] /\ interval[2] > 0
  BY QueryAssumption DEF TypeOK
<1>2. timeStart \in Nat /\ timeStop \in Nat \ {0} /\ timeStop - 1 \in Nat /\ timeStart <= timeStop
  BY <1>1 DEF timeStart, timeStop
<1>3. BlockLength[table] \in Nat \ {0}
  BY QueryAssumption DEF TypeOK
<1>4. timeBlock(timeStart) \in Nat /\ timeBlock(timeStop - 1) \in Nat
  BY <1>2, <1>3, BlockOfTime DEF timeBlock
<1>5. \A q \in Query : q \in Nat /\ firstRow(q) \in Nat /\ lastRow(q) \in Nat
  BY <1>4, QueryAssumption DEF Query, TimeQuery, firstRow, lastRow
<1>6. \A p \in Packet : Time[p] \in Nat /\ timeBlock(Time[p]) \in Nat
  BY <1>3, QueryAssumption, BlockOfTime DEF timeBlock
<1>7. QED BY <1>2, <1>3, <1>5, <1>6

(* Cassandra's answer has all packets of the interval: the blocks asked for cover it     *)
(* (AisStoreQuery.java:196-218, AisStoreSchema.java:122-131).                            *)
LEMMA BlocksCoverInterval ==
  ASSUME TypeOK, NEW q \in Query
  PROVE  Select(q) = WantedBy(q)
<1>1. ASSUME NEW p \in stored, Within(Time[p])
      PROVE  timeBlock(Time[p]) \in timeBlocks(timeStart, timeStop)
  <2>1. Time[p] \in Nat /\ timeStart \in Nat /\ timeStop \in Nat /\ BlockLength[table] \in Nat \ {0}
    BY QuestionType DEF TypeOK
  <2>2. timeStart <= Time[p] /\ Time[p] <= timeStop
    BY <1>1, <2>1 DEF Within
  <2>3. /\ timeBlock(timeStart) \in Nat /\ timeBlock(Time[p]) \in Nat /\ timeBlock(timeStop) \in Nat
        /\ timeBlock(timeStart) <= timeBlock(Time[p])
        /\ timeBlock(Time[p]) <= timeBlock(timeStop)
    BY <2>1, <2>2, BlockMonotone, BlockOfTime DEF timeBlock
  <2>4. QED BY <2>3 DEF timeBlocks
<1>2. QED BY <1>1 DEF Select, WantedBy

(* A packet of the interval is not in a row behind the last one. *)
LEMMA LastRowIsLast ==
  ASSUME TypeOK, NEW p \in Packet, Within(Time[p])
  PROVE  /\ timeBlock(timeStart) <= timeBlock(timeStop - 1)
         /\ timeBlock(Time[p]) <= timeBlock(timeStop - 1)
<1>1. Time[p] \in Nat /\ timeStart \in Nat /\ timeStop \in Nat /\ BlockLength[table] \in Nat \ {0}
  BY QuestionType
<1> DEFINE end == timeStop - 1
<1>2. end \in Int /\ timeStart <= end /\ Time[p] <= end
  BY <1>1 DEF Within
<1> HIDE DEF end
<1>3. timeBlock(timeStart) <= timeBlock(end)
  BY <1>1, <1>2, BlockMonotone DEF timeBlock
<1>4. timeBlock(Time[p]) <= timeBlock(end)
  BY <1>1, <1>2, BlockMonotone DEF timeBlock
<1>5. QED BY <1>3, <1>4 DEF end

(* Returning a packet adds it to those returned (AisStoreQueryResult.java:125-144). *)
LEMMA ReturnedPackets ==
  ASSUME NEW q \in Seq(Packet), NEW p \in Packet
  PROVE  /\ Append(q, p) \in Seq(Packet)
         /\ Range(Append(q, p)) = Range(q) \cup {p}
<1> DEFINE r == Append(q, p)
<1>1. /\ r \in Seq(Packet) /\ Len(q) \in Nat /\ Len(r) = Len(q) + 1
      /\ \A i \in 1..Len(q) : r[i] = q[i]
      /\ r[Len(q) + 1] = p
  BY AppendProperties
<1>2. /\ Range(q) = {q[i] : i \in 1..Len(q)}
      /\ Range(r) = {r[i] : i \in 1..(Len(q) + 1)}
  BY <1>1, RangeEquality
<1> HIDE DEF r
<1>3. Range(r) = Range(q) \cup {p}
  BY <1>1, <1>2
<1> QED BY <1>1, <1>3 DEF r

IInv == TypeOK /\ Kept /\ RowsInRange /\ InOnePlace /\ InOrder /\ DoneAtEnd

(* What is asked for stays the same. *)
LEMMA QuestionStays ==
  ASSUME UNCHANGED question
  PROVE  /\ table' = table /\ interval' = interval /\ stored' = stored /\ asked' = asked
         /\ Wanted' = Wanted
         /\ \A q : WantedBy(q)' = WantedBy(q) /\ lastRow(q)' = lastRow(q)
<1>1. table' = table /\ interval' = interval /\ stored' = stored /\ asked' = asked
  BY DEF question
<1>2. \A q : WantedBy(q)' = WantedBy(q)
  BY <1>1 DEF WantedBy, Matches, Within, timeStart, timeStop
<1>3. \A q : lastRow(q)' = lastRow(q)
  BY <1>1 DEF lastRow, timeBlock, timeStop
<1>4. Wanted' = Wanted
  BY <1>1, <1>2 DEF Wanted
<1>5. QED BY <1>1, <1>2, <1>3, <1>4

(* The initial states. *)
LEMMA InitInvariant == Init => IInv
<1> SUFFICES ASSUME Init PROVE IInv
  OBVIOUS
<1>1. <<>> \in Seq(Packet) /\ Range(<<>>) = {}
  BY EmptySeq DEF Range
<1>2. asked \subseteq Query /\ (IF table = ByTime THEN asked = {TimeQuery} ELSE asked \subseteq Key)
  BY DEF Init, Query
<1>3. \A q \in Query : Select(q) \subseteq Packet
  BY DEF Init, Select
<1>4. TypeOK
  <2>1. interval \in Nat \X Nat /\ interval[2] > 0 /\ BlockLength[table] \in Nat \ {0}
    BY QueryAssumption DEF Init
  <2>2. timeBlock(timeStart) \in Nat
    BY <2>1, BlockOfTime DEF timeBlock, timeStart
  <2>3. \A q \in Query : firstRow(q) \in Nat
    BY <2>2, QueryAssumption DEF firstRow, Query, TimeQuery
  <2>4. currentRow \in [Query -> Nat]
    BY <2>3 DEF Init
  <2>5. unread \in [Query -> SUBSET Packet]
    BY <1>3 DEF Init
  <2>6. QED BY <1>1, <1>2, <2>4, <2>5 DEF Init, TypeOK
<1>5. \A q \in Query : InHand(q) = IF q \in asked THEN WantedBy(q) ELSE {}
  <2>1. \A q \in Query : InHand(q) = IF q \in asked THEN Select(q) ELSE {}
    BY DEF Init, InHand
  <2>2. QED BY <1>4, <2>1, BlocksCoverInterval
<1>6. Kept
  BY <1>2, <1>5 DEF Kept, Init
<1>7. RowsInRange
  <2> SUFFICES ASSUME NEW q \in queries
               PROVE  /\ unread[q] # {} => currentRow[q] <= lastRow(q)
                      /\ table # ByTime => currentRow[q] = lastRow(q)
    BY DEF RowsInRange
  <2>1. q \in asked /\ q \in Query /\ currentRow[q] = firstRow(q)
    BY <1>2 DEF Init
  <2>2. CASE table = ByTime
    <3>1. ASSUME unread[q] # {} PROVE currentRow[q] <= lastRow(q)
      <4>1. PICK p \in Packet : Within(Time[p])
        BY <2>1, <3>1 DEF Init, Select
      <4>2. QED BY <1>4, <2>1, <2>2, <4>1, LastRowIsLast DEF firstRow, lastRow
    <3>2. QED BY <2>2, <3>1
  <2>3. CASE table # ByTime
    <3>1. q \in Nat
      BY <2>1, <1>4, QuestionType
    <3>2. QED BY <2>1, <2>3, <3>1 DEF firstRow, lastRow
  <2>4. QED BY <2>2, <2>3
<1>8. InOnePlace
  BY <1>1, <1>2, <1>5 DEF InOnePlace, Init
<1>9. InOrder
  BY DEF InOrder, Init
<1>10. DoneAtEnd
  BY DEF DoneAtEnd, Init
<1>11. QED BY <1>4, <1>6, <1>7, <1>8, <1>9, <1>10 DEF IInv

(* The handing over of a packet moves it, and changes nothing else in hand. *)
LEMMA HandOverMoves ==
  ASSUME TypeOK, NEW q \in Query, NEW list \in SUBSET Packet, HandOver(q, list), ahead[q] = {},
         unread' = [unread EXCEPT ![q] = @ \ (list \ packets[q])],
         packets[q] \subseteq list, list \subseteq packets[q] \cup unread[q],
         \A p \in list, r \in unread'[q] : p < r,
         InOrder, UNCHANGED <<taken, released>>
  PROVE  /\ ahead' \in [Query -> SUBSET Packet] /\ packets' \in [Query -> SUBSET Packet]
         /\ \A r \in Query : InHand(r)' = InHand(r)
         /\ \A r \in Query \ {q} : /\ ahead'[r] = ahead[r] /\ packets'[r] = packets[r]
                                  /\ unread'[r] = unread[r]
         /\ InOrder'
<1>1. PICK p \in list : /\ \A r \in list : p <= r
                        /\ ahead' = [ahead EXCEPT ![q] = {p}]
                        /\ packets' = [packets EXCEPT ![q] = list \ {p}]
  BY DEF HandOver
<1>2. ahead' \in [Query -> SUBSET Packet] /\ packets' \in [Query -> SUBSET Packet]
  BY <1>1 DEF TypeOK
<1>3. /\ ahead'[q] = {p} /\ packets'[q] = list \ {p}
      /\ unread'[q] = unread[q] \ (list \ packets[q])
  BY <1>1 DEF TypeOK
<1>4. \A r \in Query \ {q} : /\ ahead'[r] = ahead[r] /\ packets'[r] = packets[r]
                            /\ unread'[r] = unread[r]
  BY <1>1 DEF TypeOK
<1>5. InHand(q)' = InHand(q)
  BY <1>3 DEF InHand
<1>6. \A r \in Query : InHand(r)' = InHand(r)
  BY <1>4, <1>5 DEF InHand
<1>7. \A r \in list \ {p} : p < r
  <2>1. ASSUME NEW r \in list \ {p} PROVE p < r
    <3>1. p \in Nat /\ r \in Nat
      BY QueryAssumption DEF Packet
    <3>2. QED BY <1>1, <2>1, <3>1
  <2>2. QED BY <2>1
<1>8. InOrder'
  <2>1. \A r \in Query : \A s, t \in ahead'[r] : s = t
    BY <1>3, <1>4 DEF InOrder
  <2>2. \A r \in Query : \A s \in ahead'[r], t \in packets'[r] \cup unread'[r] : s < t
    BY <1>3, <1>4, <1>7 DEF InOrder
  <2>3. \A r \in Query : \A s \in packets'[r], t \in unread'[r] : s < t
    BY <1>3, <1>4 DEF InOrder
  <2>4. \A s, t \in taken' : s = t
    BY DEF InOrder
  <2>5. \A r \in Query : \A s \in taken', t \in InHand(r)' : Time[s] <= Time[t]
    BY <1>6 DEF InOrder
  <2>6. QED BY <2>1, <2>2, <2>3, <2>4, <2>5 DEF InOrder
<1>9. QED BY <1>2, <1>4, <1>6, <1>8

(* As long as nothing in hand changes, everything stays where it is. *)
LEMMA PlacesStay ==
  ASSUME Kept, InOnePlace, UNCHANGED <<question, queries, taken, released>>,
         \A r \in Query : InHand(r)' = InHand(r), asked \subseteq Query
  PROVE  Kept' /\ InOnePlace'
<1>1. /\ Wanted' = Wanted /\ asked' = asked /\ table' = table
      /\ \A r : WantedBy(r)' = WantedBy(r)
  BY QuestionStays
<1>2. Kept'
  BY <1>1 DEF Kept
<1>3. InOnePlace'
  BY <1>1 DEF InOnePlace
<1>4. QED BY <1>2, <1>3

(* A query returns the next packet of its list (AisStoreQuery.java:146-149). *)
LEMMA PollStep ==
  ASSUME IInv, NEW q \in Query, Poll(q)
  PROVE  IInv'
<1> USE DEF IInv
<1>1. /\ HandOver(q, packets[q]) /\ ahead[q] = {} /\ packets[q] \in SUBSET Packet
      /\ UNCHANGED <<question, unread, currentRow, queries, inner, taken, released, broken>>
  BY DEF Poll, Asks, TypeOK
<1>2. unread' = [unread EXCEPT ![q] = @ \ (packets[q] \ packets[q])]
  BY <1>1 DEF TypeOK
<1>3. \A p \in packets[q], r \in unread'[q] : p < r
  BY <1>1 DEF InOrder
<1>4. /\ ahead' \in [Query -> SUBSET Packet] /\ packets' \in [Query -> SUBSET Packet]
      /\ \A r \in Query : InHand(r)' = InHand(r)
      /\ \A r \in Query \ {q} : ahead'[r] = ahead[r] /\ packets'[r] = packets[r]
      /\ InOrder'
  BY <1>1, <1>2, <1>3, HandOverMoves
<1>5. Kept' /\ InOnePlace'
  BY <1>1, <1>4, PlacesStay DEF TypeOK
<1>6. q \in queries
  BY DEF Poll, Asks
<1>7. TypeOK'
  BY <1>1, <1>4, <1>6 DEF TypeOK, question
<1>8. RowsInRange'
  BY <1>1, QuestionStays DEF RowsInRange
<1>9. DoneAtEnd'
  BY <1>1 DEF DoneAtEnd
<1>10. QED BY <1>4, <1>5, <1>7, <1>8, <1>9

(* A query reads a batch of rows (AisStoreQuery.java:150-181). *)
LEMMA FetchStep ==
  ASSUME IInv, NEW q \in Query, Fetch(q)
  PROVE  IInv'
<1> USE DEF IInv
<1> DEFINE rows == First(batchLimit, unread[q])
<1>1. /\ ahead[q] = {} /\ packets[q] = {} /\ q \in queries
      /\ currentRow[q] <= lastRow(q)
      /\ unread' = [unread EXCEPT ![q] = @ \ rows]
      /\ HandOver(q, rows)
      /\ UNCHANGED <<question, queries, inner, taken, released, broken>>
  BY DEF Fetch, Asks
<1>2. PICK last \in rows :
        currentRow' = IF currentRow[q] = lastRow(q) THEN currentRow
                      ELSE [currentRow EXCEPT ![q] = timeBlock(Time[last])]
  BY DEF Fetch
<1>3. unread[q] \in SUBSET Packet /\ batchLimit \in Nat
  BY QueryAssumption DEF TypeOK
<1>4. rows \subseteq unread[q] /\ \A p \in rows, r \in unread[q] \ rows : p < r
  BY <1>3, FirstInFront
<1> HIDE DEF rows
<1>5. /\ rows \in SUBSET Packet /\ packets[q] \subseteq rows
      /\ rows \subseteq packets[q] \cup unread[q]
      /\ unread' = [unread EXCEPT ![q] = @ \ (rows \ packets[q])]
  BY <1>1, <1>3, <1>4
<1>6. unread'[q] = unread[q] \ rows /\ \A r \in Query \ {q} : unread'[r] = unread[r]
  BY <1>1 DEF TypeOK
<1>7. \A p \in rows, r \in unread'[q] : p < r
  BY <1>4, <1>6
<1>8. /\ ahead' \in [Query -> SUBSET Packet] /\ packets' \in [Query -> SUBSET Packet]
      /\ \A r \in Query : InHand(r)' = InHand(r)
      /\ \A r \in Query \ {q} : ahead'[r] = ahead[r] /\ packets'[r] = packets[r]
      /\ InOrder'
  BY <1>1, <1>5, <1>7, HandOverMoves
<1>9. Kept' /\ InOnePlace'
  BY <1>1, <1>8, PlacesStay DEF TypeOK
<1>10. last \in Packet /\ last \in unread[q] /\ q \in asked
  BY <1>1, <1>3, <1>4 DEF TypeOK
<1>11. Within(Time[last])
  BY <1>10 DEF InOnePlace, InHand, WantedBy
<1>12. timeBlock(Time[last]) \in Nat
  BY <1>10, QuestionType
<1>13. currentRow' \in [Query -> Nat]
  BY <1>2, <1>12 DEF TypeOK
<1>14. currentRow'[q] <= lastRow(q)
  <2>1. CASE currentRow[q] = lastRow(q)
    BY <1>1, <1>2, <2>1
  <2>2. CASE currentRow[q] # lastRow(q)
    <3>1. currentRow'[q] = timeBlock(Time[last])
      BY <1>2, <2>2 DEF TypeOK
    <3>2. CASE table = ByTime
      BY <1>10, <1>11, <3>1, <3>2, LastRowIsLast DEF lastRow
    <3>3. CASE table # ByTime
      BY <1>1, <2>2, <3>3 DEF RowsInRange
    <3>4. QED BY <3>2, <3>3
  <2>3. QED BY <2>1, <2>2
<1>15. /\ \A r \in Query \ {q} : currentRow'[r] = currentRow[r]
       /\ currentRow[q] = lastRow(q) => currentRow'[q] = currentRow[q]
  BY <1>2 DEF TypeOK
<1>16. RowsInRange'
  <2>1. queries' = queries /\ table' = table /\ \A r : lastRow(r)' = lastRow(r)
    BY <1>1, QuestionStays
  <2>2. queries \subseteq Query
    BY DEF TypeOK
  <2>3. QED BY <1>6, <1>14, <1>15, <2>1, <2>2 DEF RowsInRange
<1>17. TypeOK'
  BY <1>1, <1>5, <1>8, <1>13 DEF TypeOK, question
<1>18. DoneAtEnd'
  BY <1>1 DEF DoneAtEnd
<1>19. QED BY <1>8, <1>9, <1>16, <1>17, <1>18

(* A query that ends has nothing left (AisStoreQuery.java:183-192). *)
LEMMA EndsEmpty ==
  ASSUME IInv, NEW q \in Query, EndQuery(q)
  PROVE  q \in queries /\ InHand(q) = {}
<1> USE DEF IInv
<1>1. q \in queries /\ ahead[q] = {} /\ packets[q] = {}
  BY DEF EndQuery, Asks
<1>2. unread[q] = {}
  <2>1. CASE unread[q] # {}
    <3>1. currentRow[q] > lastRow(q) /\ currentRow[q] <= lastRow(q)
      BY <1>1, <2>1 DEF EndQuery, RowsInRange
    <3>2. currentRow[q] \in Nat /\ lastRow(q) \in Nat
      BY QuestionType DEF TypeOK
    <3>3. QED BY <3>1, <3>2
  <2>2. QED BY <2>1
<1>3. QED BY <1>1, <1>2 DEF InHand

LEMMA EndStep ==
  ASSUME IInv, NEW q \in Query, EndQuery(q)
  PROVE  IInv'
<1> USE DEF IInv
<1>1. /\ queries' = queries \ {q}
      /\ inner' = IF queries' = {} /\ inner = "pending" THEN "done" ELSE inner
      /\ currentRow' = IF currentRow[q] > lastRow(q) THEN currentRow
                       ELSE [currentRow EXCEPT ![q] = lastRow(q) + 1]
      /\ UNCHANGED <<question, unread, packets, merge, broken>>
  BY DEF EndQuery
<1>2. q \in queries /\ InHand(q) = {}
  BY EndsEmpty
<1>3. UNCHANGED <<table, interval, stored, asked, unread, packets, ahead, taken, released, broken>>
  BY <1>1 DEF question, merge
<1>4. \A r : InHand(r)' = InHand(r)
  BY <1>3 DEF InHand
<1>5. /\ Wanted' = Wanted
      /\ \A r : WantedBy(r)' = WantedBy(r) /\ lastRow(r)' = lastRow(r)
  BY <1>1, QuestionStays
<1>6. currentRow' \in [Query -> Nat] /\ \A r \in Query \ {q} : currentRow'[r] = currentRow[r]
  <2>1. lastRow(q) + 1 \in Nat
    BY QuestionType
  <2>2. QED BY <1>1, <2>1 DEF TypeOK
<1>7. TypeOK'
  <2>1. ahead[q] = {} /\ packets[q] = {}
    BY <1>2 DEF InHand
  <2>2. inner' \in {"pending", "done", "cancelled"}
    BY <1>1 DEF TypeOK
  <2>3. QED BY <1>1, <1>3, <1>6, <2>1, <2>2 DEF TypeOK
<1>8. Kept'
  BY <1>1, <1>2, <1>3, <1>4, <1>5 DEF Kept
<1>9. RowsInRange'
  <2>1. queries' \subseteq queries /\ q \notin queries' /\ queries \subseteq Query
    BY <1>1 DEF TypeOK
  <2>2. QED BY <1>3, <1>5, <1>6, <2>1 DEF RowsInRange
<1>10. InOnePlace'
  BY <1>3, <1>4, <1>5 DEF InOnePlace
<1>11. InOrder'
  BY <1>3, <1>4 DEF InOrder
<1>12. DoneAtEnd'
  BY <1>1 DEF DoneAtEnd
<1>13. QED BY <1>7, <1>8, <1>9, <1>10, <1>11, <1>12

(* The merge takes the earliest packet of all (AisStoreQueryResult.java:101-105). *)
LEMMA TakeStep ==
  ASSUME IInv, NEW q \in Query, Take(q)
  PROVE  IInv'
<1> USE DEF IInv
<1>1. /\ taken = {} /\ ahead[q] # {}
      /\ \A r \in queries : ahead[r] # {}
      /\ \A r \in Query : \A p \in ahead[q], s \in ahead[r] : Time[p] <= Time[s]
      /\ taken' = ahead[q] /\ ahead' = [ahead EXCEPT ![q] = {}]
      /\ UNCHANGED <<question, unread, packets, currentRow, queries, inner, released, broken>>
  BY DEF Take, iterator
<1>2. UNCHANGED <<table, interval, stored, asked>>
  BY <1>1 DEF question
<1>3. /\ Wanted' = Wanted
      /\ \A r : WantedBy(r)' = WantedBy(r) /\ lastRow(r)' = lastRow(r)
  BY <1>1, QuestionStays
<1>4. ahead'[q] = {} /\ \A r \in Query \ {q} : ahead'[r] = ahead[r]
  BY <1>1 DEF TypeOK
<1>5. q \in queries /\ q \in asked
  BY <1>1 DEF TypeOK
<1>6. \A r \in Query \ {q} : InHand(r)' = InHand(r)
  BY <1>1, <1>4 DEF InHand
<1>7. InHand(q) = InHand(q)' \cup taken' /\ taken' \cap InHand(q)' = {}
  <2>1. \A p \in ahead[q] : p \in Nat
    BY QueryAssumption DEF TypeOK, Packet
  <2>2. ahead[q] \cap (packets[q] \cup unread[q]) = {}
    BY <2>1 DEF InOrder
  <2>3. QED BY <1>1, <1>4, <2>2 DEF InHand
<1>8. TypeOK'
  BY <1>1, <1>2, <1>4, <1>5 DEF TypeOK
<1>9. Kept'
  <2>1. \A r \in asked : WantedBy(r) \subseteq InHand(r)' \cup taken' \cup Range(released)
    BY <1>1, <1>6, <1>7 DEF Kept, TypeOK
  <2>2. \A r \in Query \ queries : InHand(r)' = {}
    BY <1>5, <1>6 DEF Kept
  <2>3. QED BY <1>1, <1>2, <1>3, <2>1, <2>2 DEF Kept
<1>10. RowsInRange'
  BY <1>1, <1>2, <1>3 DEF RowsInRange
<1>11. InOnePlace'
  <2>1. \A r \in asked : InHand(r)' \subseteq WantedBy(r)
    BY <1>6, <1>7 DEF InOnePlace, TypeOK
  <2>2. taken' \subseteq WantedBy(q)
    BY <1>5, <1>7 DEF InOnePlace
  <2>3. taken' \subseteq Wanted
    BY <1>5, <2>2 DEF Wanted
  <2>4. taken' \cap Range(released) = {}
    BY <1>7 DEF InOnePlace
  <2>5. \A r \in Query : InHand(r)' \cap Range(released) = {}
    BY <1>6, <1>7 DEF InOnePlace
  <2>6. \A r \in Query \ {q} : InHand(r) \cap InHand(q) = {}
    <3>1. \A r \in Query \ queries : InHand(r) = {}
      BY DEF Kept
    <3>2. ASSUME NEW r \in asked, r # q PROVE WantedBy(r) \cap WantedBy(q) = {}
      <4>1. asked \subseteq Key /\ TimeQuery \notin Key
        <5>1. asked # {TimeQuery}
          BY <1>5, <3>2
        <5>2. QED BY <5>1, QueryAssumption DEF InOnePlace
      <4>2. QED BY <1>5, <3>2, <4>1 DEF WantedBy, Matches
    <3>3. \A r \in Query \ {q} : r \in asked => InHand(r) \cap InHand(q) = {}
      BY <1>5, <3>2 DEF InOnePlace
    <3>4. QED BY <3>1, <3>3 DEF TypeOK
  <2>7. \A r \in Query : InHand(r)' \cap taken' = {}
    BY <1>6, <1>7, <2>6
  <2>8. QED BY <1>1, <1>2, <1>3, <2>1, <2>3, <2>4, <2>5, <2>7 DEF InOnePlace
<1>12. InOrder'
  <2>1. \A r \in Query : \A p, s \in ahead'[r] : p = s
    BY <1>4 DEF InOrder
  <2>2. \A r \in Query : \A p \in ahead'[r], s \in packets[r] \cup unread[r] : p < s
    BY <1>4 DEF InOrder
  <2>3. \A p, s \in taken' : p = s
    BY <1>1 DEF InOrder
  <2>4. ASSUME NEW r \in Query, NEW p \in taken', NEW s \in InHand(r)'
        PROVE  Time[p] <= Time[s]
    <3>1. p \in ahead[q] /\ s \in InHand(r)
      BY <1>1, <1>6, <1>7
    <3>2. r \in queries
      BY <3>1 DEF Kept
    <3>3. PICK h \in ahead[r] : TRUE
      BY <1>1, <3>2
    <3>4. p \in Packet /\ h \in Packet /\ s \in Packet
      BY <3>1, <3>3 DEF TypeOK, InHand
    <3>5. Time[p] <= Time[h]
      BY <1>1, <3>1, <3>3
    <3>6. h <= s
      <4>1. h \in Nat /\ s \in Nat
        BY <3>4, QueryAssumption DEF Packet
      <4>2. s = h \/ h < s
        BY <3>1, <3>3 DEF InOrder, InHand
      <4>3. QED BY <4>1, <4>2
    <3>7. Time[h] <= Time[s] /\ Time[p] \in Nat /\ Time[h] \in Nat /\ Time[s] \in Nat
      BY <3>4, <3>6, QueryAssumption
    <3>8. QED BY <3>5, <3>7
  <2>5. QED BY <1>1, <2>1, <2>2, <2>3, <2>4 DEF InOrder
<1>13. DoneAtEnd'
  BY <1>1 DEF DoneAtEnd
<1>14. QED BY <1>8, <1>9, <1>10, <1>11, <1>12, <1>13

(* The merge returns what it has taken (AisStoreQueryResult.java:140-144). *)
LEMMA ReturnStep ==
  ASSUME IInv, Return
  PROVE  /\ IInv'
         /\ \E p \in taken : released' = Append(released, p)
         /\ Range(released') = taken \cup Range(released)
<1> USE DEF IInv
<1>1. PICK p \in taken : released' = Append(released, p)
  BY DEF Return
<1>2. /\ taken' = {}
      /\ UNCHANGED <<question, unread, packets, currentRow, queries, inner, ahead, broken>>
  BY DEF Return, iterator
<1>3. UNCHANGED <<table, interval, stored, asked>>
  BY <1>2 DEF question
<1>4. /\ Wanted' = Wanted
      /\ \A r : WantedBy(r)' = WantedBy(r) /\ lastRow(r)' = lastRow(r)
  BY <1>2, QuestionStays
<1>5. taken = {p}
  BY DEF InOrder
<1>6. released' \in Seq(Packet) /\ Range(released') = taken \cup Range(released)
  <2>1. p \in Packet /\ released \in Seq(Packet)
    BY DEF TypeOK
  <2>2. QED BY <1>1, <1>5, <2>1, ReturnedPackets
<1>7. \A r : InHand(r)' = InHand(r)
  BY <1>2 DEF InHand
<1>8. TypeOK'
  BY <1>2, <1>3, <1>6 DEF TypeOK
<1>9. Kept'
  BY <1>2, <1>3, <1>4, <1>6, <1>7 DEF Kept
<1>10. RowsInRange'
  BY <1>2, <1>3, <1>4 DEF RowsInRange
<1>11. InOnePlace'
  BY <1>2, <1>3, <1>4, <1>6, <1>7 DEF InOnePlace
<1>12. InOrder'
  BY <1>2, <1>7 DEF InOrder
<1>13. DoneAtEnd'
  BY <1>2 DEF DoneAtEnd
<1>14. QED BY <1>1, <1>6, <1>8, <1>9, <1>10, <1>11, <1>12, <1>13

(* Steps that move no packet. *)
LEMMA StillStep ==
  ASSUME IInv, UNCHANGED <<question, iterator, queries, merge>>,
         inner' \in {inner, "cancelled"}, broken' \in BOOLEAN
  PROVE  IInv'
<1> USE DEF IInv
<1>1. UNCHANGED <<table, interval, stored, asked, unread, packets, currentRow, queries, ahead, taken,
                  released>>
  BY DEF question, iterator, merge
<1>2. \A r : InHand(r)' = InHand(r)
  BY <1>1 DEF InHand
<1>3. /\ Wanted' = Wanted
      /\ \A r : WantedBy(r)' = WantedBy(r) /\ lastRow(r)' = lastRow(r)
  BY QuestionStays
<1>4. TypeOK'
  BY <1>1 DEF TypeOK
<1>5. Kept' /\ RowsInRange' /\ InOnePlace'
  BY <1>1, <1>2, <1>3 DEF Kept, RowsInRange, InOnePlace
<1>6. InOrder'
  BY <1>1, <1>2 DEF InOrder
<1>7. DoneAtEnd'
  BY <1>1 DEF DoneAtEnd
<1>8. QED BY <1>4, <1>5, <1>6, <1>7

(* The parts of IInv hold together in every state of every query.                       *)
THEOREM Invariance == Spec => []IInv
<1>1. IInv /\ [Next]_vars => IInv'
  <2> SUFFICES ASSUME IInv, [Next]_vars PROVE IInv'
    OBVIOUS
  <2>1. ASSUME NEW q \in Query, Poll(q) PROVE IInv'
    BY <2>1, PollStep
  <2>2. ASSUME NEW q \in Query, Fetch(q) PROVE IInv'
    BY <2>2, FetchStep
  <2>3. ASSUME NEW q \in Query, FetchFails(q) PROVE IInv'
    BY <2>3, StillStep DEF FetchFails
  <2>4. ASSUME NEW q \in Query, EndQuery(q) PROVE IInv'
    BY <2>4, EndStep
  <2>5. ASSUME NEW q \in Query, Take(q) PROVE IInv'
    BY <2>5, TakeStep
  <2>6. CASE Return
    BY <2>6, ReturnStep
  <2>7. CASE Cancel
    <3>1. broken' \in BOOLEAN
      BY <2>7 DEF Cancel, IInv, TypeOK
    <3>2. QED BY <2>7, <3>1, StillStep DEF Cancel
  <2>8. CASE UNCHANGED vars
    <3>1. broken' \in BOOLEAN
      BY <2>8 DEF vars, IInv, TypeOK
    <3>2. QED BY <2>8, <3>1, StillStep DEF vars
  <2>9. QED BY <2>1, <2>2, <2>3, <2>4, <2>5, <2>6, <2>7, <2>8 DEF Next, ComputeNext
<1>2. QED BY <1>1, InitInvariant, PTL DEF Spec

(* Each packet that was asked for is in one place, on its way or returned, whatever       *)
(* queries are read, merged, cancelled or fail (AisStoreQuery.java:145-193,               *)
(* AisStoreQueryResult.java:95-144).                                                      *)
THEOREM NoneLostOrTwice == Spec => []EachInOnePlace
<1>1. IInv => EachInOnePlace
  <2> SUFFICES ASSUME IInv, NEW q \in Query
               PROVE  /\ packets[q] \cap (unread[q] \cup ahead[q]) = {}
                      /\ ahead[q] \cap unread[q] = {}
    BY DEF IInv, EachInOnePlace
  <2>1. \A n \in Packet : ~(n < n)
    BY QueryAssumption DEF Packet
  <2>2. unread[q] \subseteq Packet /\ packets[q] \subseteq Packet /\ ahead[q] \subseteq Packet
    BY DEF IInv, TypeOK
  <2> QED BY <2>1, <2>2 DEF IInv, InOrder
<1>2. QED BY <1>1, Invariance, PTL

(* Whatever the interval, the length of the time blocks and the size of a batch, a query *)
(* that has ended has returned all its packets (AisStoreQuery.java:150-192,             *)
(* AisStoreSchema.java:122-131).                                                        *)
THEOREM Completeness == Spec => []EndedIsComplete
<1>1. IInv => EndedIsComplete
  BY DEF IInv, TypeOK, Kept, EndedIsComplete
<1>2. QED BY <1>1, Invariance, PTL

(* What is left of the stream is with the queries and the merge. *)
LEMMA LeftIsInHand ==
  ASSUME IInv
  PROVE  \A p \in Stream!Left : p \in taken \/ \E q \in queries : p \in InHand(q)
<1> USE DEF IInv
<1>1. ASSUME NEW p \in Wanted, p \notin Range(released), p \notin taken
      PROVE  \E q \in queries : p \in InHand(q)
  <2>1. PICK q \in asked : p \in WantedBy(q)
    BY <1>1 DEF Wanted
  <2>2. p \in InHand(q)
    BY <1>1, <2>1 DEF Kept
  <2>3. q \in queries
    BY <2>2 DEF Kept, TypeOK
  <2>4. QED BY <2>2, <2>3
<1>2. QED BY <1>1 DEF Stream!Left, Stream!Range, Range

(* A result is the stream of the packets asked for, in order, each of them once, and    *)
(* its future is done only when all are out but the one that is being returned          *)
(* (AisStoreQueryResult.java:95-144, AisStoreQueryInnerContext.java:50-58).             *)
THEOREM StreamRefinement == Spec => ImplementsPacketStream
<1> DEFINE seen == <<Wanted, released, inner>>
<1>1. Init => Stream!Init
  <2>1. ASSUME Init PROVE Wanted \subseteq Packet
    BY <2>1 DEF Init, Wanted, WantedBy
  <2>2. QED BY <2>1 DEF Init, Stream!Init
<1>2. IInv /\ [Next]_vars => [Stream!Next]_seen
  <2> SUFFICES ASSUME IInv, [Next]_vars PROVE [Stream!Next]_seen
    OBVIOUS
  <2>1. ASSUME UNCHANGED question PROVE Wanted' = Wanted
    BY <2>1, QuestionStays
  <2>2. ASSUME UNCHANGED <<question, inner, released>> PROVE UNCHANGED seen
    BY <2>1, <2>2
  <2>3. ASSUME NEW q \in Query, Poll(q) \/ Fetch(q) \/ FetchFails(q) \/ Take(q)
        PROVE  UNCHANGED <<question, inner, released>>
    BY <2>3 DEF Poll, Fetch, FetchFails, Take, merge
  <2>4. ASSUME NEW q \in Query, EndQuery(q) PROVE [Stream!Next]_seen
    <3>1. /\ UNCHANGED <<question, released>>
          /\ queries' = queries \ {q}
          /\ inner' = IF queries' = {} /\ inner = "pending" THEN "done" ELSE inner
      BY <2>4 DEF EndQuery, merge
    <3>2. CASE inner' = inner
      BY <2>1, <3>1, <3>2
    <3>3. CASE inner' # inner
      <4>1. inner = "pending" /\ inner' = "done" /\ queries \subseteq {q}
        BY <3>1, <3>3
      <4>2. InHand(q) = {}
        BY <2>4, EndsEmpty
      <4>3. Stream!Left \subseteq taken
        BY <4>1, <4>2, LeftIsInHand
      <4>4. \A p, r \in Stream!Left : p = r
        BY <4>3 DEF IInv, InOrder
      <4>5. Wanted' = Wanted /\ released' = released
        BY <2>1, <3>1
      <4>6. Stream!Finish
        BY <4>1, <4>4, <4>5 DEF Stream!Finish
      <4>7. QED BY <4>6 DEF Stream!Next
    <3>4. QED BY <3>2, <3>3
  <2>5. CASE Return
    <3>1. PICK p \in taken : released' = Append(released, p)
      BY <2>5, ReturnStep
    <3>2. Wanted' = Wanted /\ inner' = inner
      BY <2>1, <2>5 DEF Return
    <3>3. p \in Packet /\ p \in Stream!Left
      BY DEF IInv, TypeOK, InOnePlace, Stream!Left, Stream!Range, Range
    <3>4. ASSUME NEW r \in Stream!Left PROVE Time[p] <= Time[r]
      <4>1. CASE r \in taken
        <5>1. r = p /\ Time[p] \in Nat
          BY <3>3, <4>1, QueryAssumption DEF IInv, InOrder
        <5>2. QED BY <5>1
      <4>2. CASE \E q \in queries : r \in InHand(q)
        BY <4>2 DEF IInv, InOrder, TypeOK
      <4>3. QED BY <4>1, <4>2, LeftIsInHand
    <3>5. Stream!Deliver(p)
      BY <3>1, <3>2, <3>3, <3>4 DEF Stream!Deliver
    <3>6. QED BY <3>3, <3>5 DEF Stream!Next
  <2>6. CASE Cancel
    <3>1. Wanted' = Wanted /\ released' = released
      BY <2>1, <2>6 DEF Cancel, merge
    <3>2. Stream!Cancel
      BY <2>6, <3>1 DEF Cancel, Stream!Cancel
    <3>3. QED BY <3>2 DEF Stream!Next
  <2>7. CASE UNCHANGED vars
    BY <2>2, <2>7 DEF vars, merge
  <2>8. QED BY <2>2, <2>3, <2>4, <2>5, <2>6, <2>7 DEF Next, ComputeNext
<1>3. QED BY <1>1, <1>2, Invariance, PTL DEF Spec, ImplementsPacketStream, Stream!Spec
=============================================================================
