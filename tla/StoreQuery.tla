------------------------------ MODULE StoreQuery ------------------------------
(***************************************************************************)
(* A query: one AisStoreQuery for each cell or MMSI number asked for, or a *)
(* single one by time, reads its rows from Cassandra in batches; the       *)
(* result merges them by timestamp while the caller iterates over it.      *)
(*                                                                         *)
(* Packets are numbered in the order in which Cassandra returns rows, that *)
(* of their timestamps: lists of packets in that order are sets here, of   *)
(* which the least element comes first.                                    *)
(***************************************************************************)
EXTENDS Integers, Sequences, FiniteSets, Functions

CONSTANTS
  N,           \* number of packets that may be stored
  Time,        \* timestamp of each
  Key,         \* cells, or MMSI numbers
  Row,         \* the key of each packet
  Table,       \* tables that are queried
  BlockLength, \* milliseconds in a time block: 10 minutes, or 30 days by MMSI
  Interval,    \* intervals asked for, <<start, stop>>
  batchLimit   \* setFetchSize, 3000

Packet == 1..N
ByTime == "packets_time"

\* The identity of the only query by time.
TimeQuery == 0
Query     == Key \cup {TimeQuery}

ASSUME QueryAssumption ==
  /\ N \in Nat
  /\ Time \in [Packet -> Nat]
  /\ \A p, q \in Packet : p <= q => Time[p] <= Time[q]
  /\ Key \subseteq Nat \ {TimeQuery} /\ Row \in [Packet -> Key]
  /\ BlockLength \in [Table -> Nat \ {0}]
  /\ Interval \subseteq {i \in Nat \X Nat : i[1] <= i[2] /\ i[2] > 0}
  /\ batchLimit \in Nat \ {0}

VARIABLES
  \* what is asked for, and what there is; fixed
  table, interval, stored, asked,
  unread,     \* rows of each query's answer that have not been read
  packets,    \* packets each query has read but not returned
  currentRow, \* of each query
  queries,    \* queries that have not ended
  inner,      \* the future of the result: pending, done or cancelled
  ahead,      \* the packet of each query the merge has in hand, if any
  taken,      \* the packet the merge is about to return, if any
  released,   \* packets returned to the caller
  broken      \* a row could not be fetched, and the caller got the exception

question == <<table, interval, stored, asked>>
iterator == <<unread, packets, currentRow>>
merge    == <<ahead, taken, released>>
vars     == <<question, iterator, queries, inner, merge, broken>>

-----------------------------------------------------------------------------
(* The answer of Cassandra to one query. *)

timeStart == interval[1]
timeStop  == interval[2]

timeBlock(time) == time \div BlockLength[table]

\* Seeded fault: the block of the stop time is left out.
TimeBlocksExclusive(start, stop) == timeBlock(start)..(timeBlock(stop) - 1)

timeBlocks(start, stop) == timeBlock(start)..timeBlock(stop)

Within(time) == time > timeStart /\ time < timeStop

Matches(p, q) == q = TimeQuery \/ Row[p] = q

Select(q) ==
  {p \in stored : /\ Matches(p, q)
                  /\ timeBlock(Time[p]) \in timeBlocks(timeStart, timeStop)
                  /\ Within(Time[p])}

firstRow(q) == IF table = ByTime THEN timeBlock(timeStart) ELSE q
lastRow(q)  == IF table = ByTime THEN timeBlock(timeStop - 1) ELSE q

First(n, S) == {p \in S : Cardinality({r \in S : r < p}) < n}

-----------------------------------------------------------------------------
\* The builder makes the queries, each of which sends its request.
Init ==
  /\ table \in Table /\ interval \in Interval /\ stored \in SUBSET Packet
  /\ asked \in IF table = ByTime THEN {{TimeQuery}} ELSE SUBSET Key \ {{}}
  /\ unread = [q \in Query |-> IF q \in asked THEN Select(q) ELSE {}]
  /\ packets = [q \in Query |-> {}]
  /\ currentRow = [q \in Query |-> firstRow(q)]
  /\ queries = asked
  /\ inner = "pending"
  /\ ahead = [q \in Query |-> {}] /\ taken = {} /\ released = <<>>
  /\ broken = FALSE

-----------------------------------------------------------------------------
(* computeNext, when the merge asks query q for its next packet. *)

Asks(q) == ~broken /\ q \in queries /\ ahead[q] = {}

\* Seeded fault: the packet that is returned stays in the list.
HandOverAgain(q, list) ==
  \E p \in list :
    /\ \A r \in list : p <= r
    /\ ahead' = [ahead EXCEPT ![q] = {p}]
    /\ packets' = [packets EXCEPT ![q] = list]

\* The first packet of the list is returned.
HandOver(q, list) ==
  \E p \in list :
    /\ \A r \in list : p <= r
    /\ ahead' = [ahead EXCEPT ![q] = {p}]
    /\ packets' = [packets EXCEPT ![q] = list \ {p}]

Poll(q) ==
  /\ Asks(q)
  /\ HandOver(q, packets[q])
  /\ UNCHANGED <<question, unread, currentRow, queries, inner, taken, released, broken>>

\* A batch of rows is read; a query by time notes the block of the last one.
Fetch(q) ==
  /\ Asks(q)
  /\ packets[q] = {} /\ unread[q] # {}
  /\ currentRow[q] <= lastRow(q)
  /\ LET rows == First(batchLimit, unread[q]) IN
       /\ unread' = [unread EXCEPT ![q] = @ \ rows]
       /\ \E last \in rows :
            /\ \A r \in rows : r <= last
            /\ currentRow' = IF currentRow[q] = lastRow(q) THEN currentRow
                             ELSE [currentRow EXCEPT ![q] = timeBlock(Time[last])]
       /\ HandOver(q, rows)
  /\ UNCHANGED <<question, queries, inner, taken, released, broken>>

\* The next page cannot be fetched: the exception reaches the caller, who gives up. The
\* query does not end.
FetchFails(q) ==
  /\ Asks(q)
  /\ packets[q] = {}
  /\ currentRow[q] <= lastRow(q)
  /\ broken' = TRUE
  /\ UNCHANGED <<question, iterator, queries, inner, merge>>

\* Seeded fault: the first query that ends completes the future.
EndFirst(q) ==
  /\ Asks(q)
  /\ packets[q] = {}
  /\ currentRow[q] > lastRow(q) \/ unread[q] = {}
  /\ currentRow' = [currentRow EXCEPT ![q] = lastRow(q) + 1]
  /\ queries' = queries \ {q}
  /\ inner' = IF inner = "pending" THEN "done" ELSE inner
  /\ UNCHANGED <<question, unread, packets, merge, broken>>

\* Seeded fault: the future is left alone.
EndQuietly(q) ==
  /\ Asks(q)
  /\ packets[q] = {}
  /\ currentRow[q] > lastRow(q) \/ unread[q] = {}
  /\ currentRow' = [currentRow EXCEPT ![q] = lastRow(q) + 1]
  /\ queries' = queries \ {q}
  /\ UNCHANGED <<question, unread, packets, inner, merge, broken>>

\* There are no more rows: the last query that ends completes the future, unless it has
\* been cancelled.
EndQuery(q) ==
  /\ Asks(q)
  /\ packets[q] = {}
  /\ currentRow[q] > lastRow(q) \/ unread[q] = {}
  /\ currentRow' = IF currentRow[q] > lastRow(q) THEN currentRow
                   ELSE [currentRow EXCEPT ![q] = lastRow(q) + 1]
  /\ queries' = queries \ {q}
  /\ inner' = IF queries' = {} /\ inner = "pending" THEN "done" ELSE inner
  /\ UNCHANGED <<question, unread, packets, merge, broken>>

-----------------------------------------------------------------------------
(* The merge, and the caller. *)

\* Seeded fault: the comparator is missing.
TakeAny(q) ==
  /\ ~broken /\ taken = {}
  /\ ahead[q] # {}
  /\ \A r \in queries : ahead[r] # {}
  /\ taken' = ahead[q] /\ ahead' = [ahead EXCEPT ![q] = {}]
  /\ UNCHANGED <<question, iterator, queries, inner, released, broken>>

\* The earliest packet in hand is taken, once every query has one or has ended. Before it
\* is returned the merge may already ask for the next one.
Take(q) ==
  /\ ~broken /\ taken = {}
  /\ ahead[q] # {}
  /\ \A r \in queries : ahead[r] # {}
  /\ \A r \in Query : \A p \in ahead[q], s \in ahead[r] : Time[p] <= Time[s]
  /\ taken' = ahead[q] /\ ahead' = [ahead EXCEPT ![q] = {}]
  /\ UNCHANGED <<question, iterator, queries, inner, released, broken>>

Return ==
  /\ ~broken
  /\ \E p \in taken : released' = Append(released, p)
  /\ taken' = {}
  /\ UNCHANGED <<question, iterator, queries, inner, ahead, broken>>

\* Cancelling completes the future; who iterates is not stopped.
Cancel ==
  /\ inner = "pending"
  /\ inner' = "cancelled"
  /\ UNCHANGED <<question, iterator, queries, merge, broken>>

-----------------------------------------------------------------------------
ComputeNext(q) == Poll(q) \/ Fetch(q) \/ FetchFails(q) \/ EndQuery(q)

Next == (\E q \in Query : ComputeNext(q) \/ Take(q)) \/ Return \/ Cancel

Spec == Init /\ [][Next]_vars

(* The caller goes on to iterate. *)
Fairness == \A q \in Query : WF_vars(ComputeNext(q)) /\ WF_vars(Take(q) \/ Return)

FairSpec == Spec /\ Fairness

-----------------------------------------------------------------------------
(* Properties. *)

(* The types; a query that has ended has nothing in hand (AisStoreQuery.java:145-193).  *)
TypeOK ==
  /\ table \in Table /\ interval \in Interval /\ stored \subseteq Packet
  /\ asked \subseteq Query /\ queries \subseteq asked
  /\ unread \in [Query -> SUBSET Packet] /\ packets \in [Query -> SUBSET Packet]
  /\ ahead \in [Query -> SUBSET Packet] /\ taken \subseteq Packet
  /\ released \in Seq(Packet)
  /\ currentRow \in [Query -> Nat]
  /\ inner \in {"pending", "done", "cancelled"} /\ broken \in BOOLEAN
  /\ \A q \in Query \ queries : ahead[q] = {} /\ packets[q] = {}

\* What was asked for, whatever blocks and batches it lies in.
WantedBy(q) == {p \in stored : Matches(p, q) /\ Within(Time[p])}
Wanted      == UNION {WantedBy(q) : q \in asked}

InHand(q) == unread[q] \cup packets[q] \cup ahead[q]

\* Nothing a query should return has been forgotten, and a query that ends has nothing.
Kept ==
  /\ \A q \in asked : WantedBy(q) \subseteq InHand(q) \cup taken \cup Range(released)
  /\ \A q \in Query \ queries : InHand(q) = {}

\* As long as rows are left the query is not past its last row; a query by key is there
\* from the start.
RowsInRange ==
  \A q \in queries :
    /\ unread[q] # {} => currentRow[q] <= lastRow(q)
    /\ table # ByTime => currentRow[q] = lastRow(q)

\* Every packet in hand is wanted, by one query only, and has not been taken before.
InOnePlace ==
  /\ IF table = ByTime THEN asked = {TimeQuery} ELSE asked \subseteq Key
  /\ \A q \in asked : InHand(q) \subseteq WantedBy(q)
  /\ taken \cup Range(released) \subseteq Wanted
  /\ \A q \in Query : InHand(q) \cap (taken \cup Range(released)) = {}
  /\ taken \cap Range(released) = {}

\* A query has its packets in order, and what the merge has taken comes before them all.
InOrder ==
  /\ \A q \in Query : \A p, r \in ahead[q] : p = r
  /\ \A q \in Query : \A p \in ahead[q], r \in packets[q] \cup unread[q] : p < r
  /\ \A q \in Query : \A p \in packets[q], r \in unread[q] : p < r
  /\ \A p, r \in taken : p = r
  /\ \A q \in Query : \A p \in taken, r \in InHand(q) : Time[p] <= Time[r]

\* The future is done only when all queries have ended.
DoneAtEnd == inner = "done" => queries = {}

(* Whatever queries are read, merged, cancelled or fail, each packet that was asked for *)
(* is in one place: an answer that has not been read, the list of one query, the merge's *)
(* hands or what was returned; none is lost between them, none is twice on its way       *)
(* (AisStoreQuery.java:145-193, AisStoreQueryResult.java:95-144).                        *)
EachInOnePlace ==
  /\ Kept /\ InOnePlace
  /\ \A q \in Query : /\ packets[q] \cap (unread[q] \cup ahead[q]) = {}
                      /\ ahead[q] \cap unread[q] = {}

(* A query that has ended has returned all its packets, or the merge is about to: no    *)
(* time block is forgotten, no batch cut short, and currentRow does not pass lastRow    *)
(* too early (AisStoreQuery.java:150-192, AisStoreSchema.java:122-131).                 *)
EndedIsComplete ==
  \A q \in asked \ queries : WantedBy(q) \subseteq Range(released) \cup taken

(* The result is what PacketStream promises: sorted by time although several queries    *)
(* are merged, each packet once, done only when all are out (AisStoreQueryResult.java:  *)
(* 95-110, AisStoreQueryInnerContext.java:50-58).                                       *)
Stream == INSTANCE PacketStream WITH wanted <- Wanted, out <- released, state <- inner
ImplementsPacketStream == Stream!Spec

(* The future is completed in the end, unless a fetch fails (AisStoreQueryInnerContext. *)
(* java:50-58).                                                                         *)
ResultEnds == <>(broken \/ (inner # "pending" /\ Range(released) = Wanted))

(* "The start epoch time (inclusive)" (AisStoreQueryBuilder.java:54): a result that is  *)
(* done has returned the packets of the very start of the interval.                     *)
StartIsIncluded ==
  inner = "done" /\ taken = {} =>
    \A p \in stored : (\E q \in asked : Matches(p, q)) /\ Time[p] = timeStart /\ timeStart < timeStop
      => p \in Range(released)
=============================================================================
