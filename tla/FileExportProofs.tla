--------------------------- MODULE FileExportProofs ---------------------------
(***************************************************************************)
(* Proofs about the export client, for any packets, timestamps, intervals, *)
(* distances between checkpoints and numbers of faults.                    *)
(***************************************************************************)
EXTENDS FileExportRest, SequenceTheorems, FiniteSetTheorems, TLAPS

Faults == Spent("crash") + Spent("network") + Spent("disk")

\* What has been written, also to the buffer.
Downloaded == file \o buffer

Count(q, p) == Cardinality({i \in DOMAIN q : q[i] = p})

Increasing(q) == \A i, j \in DOMAIN q : i < j => q[i] < q[j]

-----------------------------------------------------------------------------
(* The inductive invariants. *)

\* A session that has not asked for packets yet.
Starting == pc \in {"off", "request"} \/ (save = "init" /\ pc \in {"truncate", "write"})

\* A session that writes its last meta data.
Ending == save = "final" /\ pc \in {"truncate", "write"}

\* How far the session has come agrees with its timestamps and counter, and when it begins
\* with the meta file. What has never counted a packet has skipped none but for its message.
Progress ==
  /\ \A k \in EventKind : budget[k] <= Budget[k]
  /\ Starting => pos = 1 /\ buffer = <<>>
  /\ IF pos = 1 THEN currentTimeStamp = 0 ELSE currentTimeStamp = Time[pos - 1]
  /\ pc = "flush" => save = "checkpoint"
  /\ pc = "close" => save = "final"
  /\ pc # "off" /\ counter = 0 =>
       lastLoadedTimestamp = Start /\ \A p \in Packet : p < pos => ~Wanted(p)
  /\ pc \in {"truncate", "write"} /\ save = "init" => counter = 0
  /\ pc = "write" => meta.packageCount = 0
  /\ pc = "request" /\ Spent("disk") = 0 =>
       /\ counter = meta.packageCount
       /\ meta.packageCount # 0 => lastLoadedTimestamp = meta.timestamp

\* A packet the next session would not skip.
Ahead(p) == Time[p] > (IF meta.packageCount = 0 THEN Start ELSE meta.timestamp)

\* Whether a packet may still be appended before another fault happens: by this session, or,
\* when it may be refused, by the next, whose meta file can be another one.
Again(p) ==
  /\ p \notin Undecoded
  /\ IF pc \in {"off", "close"} THEN Ahead(p)
     ELSE IF Ending THEN pos <= N
     ELSE \/ pos <= p /\ Time[p] > lastLoadedTimestamp
          \/ pc = "request" /\ Ahead(p)

\* Every copy but one has cost a fault, and so has every packet that will be copied again.
CopiesCost ==
  \A p \in Packet : Count(Downloaded, p) + (IF Again(p) THEN 1 ELSE 0) <= 1 + Faults

\* Without faults packets come in order, no session ends early, and what an undisturbed
\* session would get is what has been downloaded and what is still to come.
Exact ==
  Faults = 0 =>
    /\ Increasing(Downloaded)
    /\ Ending => pos = N + 1
    /\ \A p \in Range(Downloaded), q \in Packet : Again(q) => p < q
    /\ Range(Downloaded) \subseteq Complete
    /\ \A p \in Packet : Again(p) => p \in Complete
    /\ Spent("force") = 0 => \A p \in Complete : p \in Range(Downloaded) \/ Again(p)
    /\ pc \in {"off", "request", "close"} /\ meta.packageCount # 0 =>
         \A p \in Packet : Time[p] <= meta.timestamp

Unique(p) == \A q \in Packet : Time[q] = Time[p] => q = p

\* What a session has passed, or skips because of its timestamp, is held, as is what the
\* meta file claims, which is in the file but at the moments before a flush.
Held ==
  Spent("disk") = 0 =>
    /\ pc # "off" =>
         \A p \in Complete :
           Unique(p) /\ (p < pos \/ Time[p] <= lastLoadedTimestamp) =>
             p \in Range(Downloaded) \cup orphaned
    /\ Claimed \subseteq
         orphaned \cup (IF pc \in {"flush", "close"} THEN Range(Downloaded) ELSE Range(file))

-----------------------------------------------------------------------------
(* Sequences of packets. *)

(* One more packet is one more copy of it, behind the others. *)
LEMMA AppendPacket ==
  ASSUME NEW q \in Seq(Packet), NEW x \in Packet
  PROVE  /\ Append(q, x) \in Seq(Packet)
         /\ Range(Append(q, x)) = Range(q) \cup {x}
         /\ \A p : Count(Append(q, x), p) = Count(q, p) + (IF p = x THEN 1 ELSE 0)
         /\ Increasing(q) /\ (\A p \in Range(q) : p < x) => Increasing(Append(q, x))
<1> DEFINE r == Append(q, x)  n == Len(q)
<1>1. /\ r \in Seq(Packet) /\ n \in Nat
      /\ DOMAIN q = 1..n /\ DOMAIN r = 1..(n + 1)
      /\ \A i \in 1..n : r[i] = q[i]
      /\ r[n + 1] = x
  BY AppendProperties, LenProperties
<1>2. /\ Range(q) = {q[i] : i \in 1..n}
      /\ Range(r) = {r[i] : i \in 1..(n + 1)}
  BY <1>1 DEF Range
<1> HIDE DEF r, n
<1>3. Range(r) = Range(q) \cup {x}
  BY <1>1, <1>2
<1>4. ASSUME NEW p PROVE Count(r, p) = Count(q, p) + (IF p = x THEN 1 ELSE 0)
  <2> DEFINE S == {i \in DOMAIN q : q[i] = p}  T == {i \in DOMAIN r : r[i] = p}
  <2>1. IsFiniteSet(S) /\ n + 1 \notin S
    <3>1. S \in SUBSET (1..n) /\ IsFiniteSet(1..n)
      BY <1>1, FS_Interval
    <3> QED BY <1>1, <3>1, FS_Subset
  <2>2. T = IF p = x THEN S \cup {n + 1} ELSE S
    BY <1>1
  <2>3. Cardinality(S \cup {n + 1}) = Cardinality(S) + 1 /\ Cardinality(S) \in Nat
    BY <2>1, FS_AddElement, FS_CardinalityType
  <2>4. Count(q, p) = Cardinality(S) /\ Count(r, p) = Cardinality(T)
    BY DEF Count
  <2> HIDE DEF S, T
  <2> QED BY <2>2, <2>3, <2>4
<1>5. ASSUME Increasing(q), \A p \in Range(q) : p < x PROVE Increasing(r)
  <2> SUFFICES ASSUME NEW i \in 1..(n + 1), NEW j \in 1..(n + 1), i < j PROVE r[i] < r[j]
    BY <1>1 DEF Increasing
  <2>1. i \in 1..n /\ q[i] \in Range(q)
    BY <1>1, <1>2
  <2>2. CASE j = n + 1
    BY <1>1, <1>5, <2>1, <2>2
  <2>3. CASE j \in 1..n
    BY <1>1, <1>5, <2>1, <2>3 DEF Increasing
  <2> QED BY <1>1, <2>2, <2>3
<1> QED BY <1>1, <1>3, <1>4, <1>5 DEF r

(* A prefix has no more copies, no other packets, and the same order. *)
LEMMA PrefixPackets ==
  ASSUME NEW q \in Seq(Packet), NEW r \in Seq(Packet)
  PROVE  /\ q \o r \in Seq(Packet)
         /\ Range(q) \subseteq Range(q \o r) /\ Range(q \o r) \subseteq Packet
         /\ \A p : Count(q, p) \in Nat /\ Count(q, p) <= Count(q \o r, p)
         /\ Increasing(q \o r) => Increasing(q)
<1> DEFINE s == q \o r  n == Len(q)  m == Len(s)
<1>1. /\ s \in Seq(Packet) /\ n \in Nat /\ m \in Nat /\ n <= m
      /\ DOMAIN q = 1..n /\ DOMAIN s = 1..m
      /\ \A i \in 1..n : s[i] = q[i]
  BY ConcatProperties, LenProperties
<1> HIDE DEF s, n, m
<1>2. Range(q) \subseteq Range(s) /\ Range(s) \subseteq Packet
  BY <1>1, RangeOfSeq DEF Range
<1>3. ASSUME NEW p PROVE Count(q, p) \in Nat /\ Count(q, p) <= Count(s, p)
  <2> DEFINE S == {i \in DOMAIN q : q[i] = p}  T == {i \in DOMAIN s : s[i] = p}
  <2>1. T \in SUBSET (1..m) /\ IsFiniteSet(1..m)
    BY <1>1, FS_Interval
  <2>2. IsFiniteSet(T) /\ S \in SUBSET T
    BY <1>1, <2>1, FS_Subset
  <2>3. IsFiniteSet(S) /\ Cardinality(S) <= Cardinality(T)
    BY <2>2, FS_Subset
  <2> QED BY <2>3, FS_CardinalityType DEF Count
<1>4. ASSUME Increasing(s) PROVE Increasing(q)
  BY <1>1, <1>4 DEF Increasing
<1> QED BY <1>1, <1>2, <1>3, <1>4 DEF s

(* Nothing has been downloaded to an empty file. *)
LEMMA NoPackets ==
  /\ <<>> \in Seq(Packet) /\ Range(<<>>) = {}
  /\ \A p : Count(<<>>, p) = 0
  /\ Increasing(<<>>)
<1>1. <<>> \in Seq(Packet) /\ DOMAIN <<>> = {}
  BY EmptySeq
<1>2. ASSUME NEW p PROVE Count(<<>>, p) = 0
  <2>1. {i \in DOMAIN <<>> : <<>>[i] = p} = {}
    BY <1>1
  <2> QED BY <2>1, FS_EmptySet DEF Count
<1> QED BY <1>1, <1>2 DEF Range, Increasing

-----------------------------------------------------------------------------
(* Types, and faults. *)

(* An event that happens is counted. *)
LEMMA SpendOne ==
  ASSUME NEW kind \in EventKind, TypeOK, Spend(kind)
  PROVE  /\ budget' \in [EventKind -> Nat]
         /\ \A k \in EventKind : Spent(k)' = Spent(k) + (IF k = kind THEN 1 ELSE 0)
         /\ \A k \in EventKind : budget'[k] <= budget[k]
<1>1. budget \in [EventKind -> Nat] /\ Budget \in [EventKind -> Nat]
  BY ExportAssumption DEF TypeOK
<1>2. budget[kind] > 0 /\ budget' = [budget EXCEPT ![kind] = budget[kind] - 1]
  BY DEF Spend
<1>3. \A k \in EventKind : budget'[k] = budget[k] - (IF k = kind THEN 1 ELSE 0)
  BY <1>1, <1>2
<1>4. budget' \in [EventKind -> Nat]
  BY <1>1, <1>2
<1>5. \A k \in EventKind : Spent(k)' = Spent(k) + (IF k = kind THEN 1 ELSE 0)
  BY <1>1, <1>3 DEF Spent
<1>6. \A k \in EventKind : budget'[k] <= budget[k]
  BY <1>1, <1>3
<1> QED BY <1>4, <1>5, <1>6

(* Nothing of it is undone. *)
LEMMA Unspent ==
  ASSUME UNCHANGED budget
  PROVE  \A k : Spent(k)' = Spent(k)
BY DEF Spent

(* The numbers of events. *)
LEMMA SpentType ==
  ASSUME TypeOK, Progress
  PROVE  /\ \A k \in EventKind : Spent(k) \in Nat
         /\ Faults \in Nat
         /\ \A k \in {"crash", "network", "disk"} : Faults = 0 => Spent(k) = 0
<1>1. \A k \in EventKind : Spent(k) \in Nat
  BY ExportAssumption DEF TypeOK, Progress, Spent
<1> QED BY <1>1 DEF Faults, EventKind

(* What is buffered has been written behind what was written before                      *)
(* (FileExportRest.java:644-653).                                                        *)
LEMMA BufferedPacket ==
  ASSUME TypeOK, NEW p \in Packet, Buffered(p)
  PROVE  /\ file' \in Seq(Packet) /\ buffer' \in Seq(Packet)
         /\ Downloaded \in Seq(Packet)
         /\ Downloaded' = Append(Downloaded, p)
<1>1. file \in Seq(Packet) /\ buffer \in Seq(Packet) /\ <<p>> \in Seq(Packet)
  BY DEF TypeOK
<1>2. Downloaded \in Seq(Packet)
  BY <1>1, ConcatProperties DEF Downloaded
<1>3. Append(Downloaded, p) = Downloaded \o <<p>>
  BY <1>2, AppendIsConcat
<1>4. CASE buffer' = Append(buffer, p) /\ file' = file
  <2>1. buffer' = buffer \o <<p>>
    BY <1>1, <1>4, AppendIsConcat
  <2>2. Downloaded' = file \o (buffer \o <<p>>)
    BY <1>4, <2>1 DEF Downloaded
  <2>3. Downloaded' = Downloaded \o <<p>>
    BY <1>1, <2>2, ConcatAssociative DEF Downloaded
  <2> QED BY <1>1, <1>2, <1>3, <1>4, <2>3, AppendProperties
<1>5. CASE buffer' = <<p>> /\ file' = Downloaded
  BY <1>1, <1>2, <1>3, <1>5 DEF Downloaded
<1> QED BY <1>4, <1>5 DEF Buffered, Downloaded

(* Each step keeps the types.                                                            *)
LEMMA TypeStep == TypeOK /\ [Next]_vars => TypeOK'
<1> USE ExportAssumption
<1>e. <<>> \in Seq(Packet) /\ 1 \in 1..(N + 1)
  BY EmptySeq
<1> SUFFICES ASSUME TypeOK, [Next]_vars PROVE TypeOK'
  OBVIOUS
<1>0. file \o buffer \in Seq(Packet)
  BY ConcatProperties DEF TypeOK
<1>a. \A k \in EventKind : Spend(k) => budget' \in [EventKind -> Nat]
  BY SpendOne
<1> USE DEF TypeOK, memory
<1>1. CASE Resume
  BY <1>1 DEF Resume
<1>2. CASE Begin
  <2>1. budget' \in [EventKind -> Nat]
    BY <1>2, <1>a DEF Begin, EventKind
  <2>2. file' \in Seq(Packet) /\ orphaned' \subseteq Packet
    BY <1>e, <1>2, RangeOfSeq DEF Begin
  <2> QED BY <1>2, <2>1, <2>2 DEF Begin
<1>3. CASE TruncateMeta
  BY <1>3 DEF TruncateMeta, NoMeta
<1>4. CASE WriteMeta
  <2>1. budget' \in [EventKind -> Nat]
    BY <1>4, <1>a DEF WriteMeta, EventKind
  <2>2. meta' \in [state : {"absent", "empty", "whole"}, timestamp : Nat, packageCount : Nat]
    BY <1>4 DEF WriteMeta, MetaToWrite
  <2> QED BY <1>4, <2>1, <2>2 DEF WriteMeta
<1>5. CASE Connect
  BY <1>5 DEF Connect
<1>6. CASE Refuse
  BY <1>e, <1>6 DEF Refuse, Forget
<1>7. CASE Skip
  BY <1>7 DEF Skip, Packet
<1>8. CASE Accept
  <2>1. file' \in Seq(Packet) /\ buffer' \in Seq(Packet)
    BY <1>8, BufferedPacket DEF Accept, Packet
  <2> QED BY <1>8, <2>1 DEF Accept, Packet
<1>9. CASE AcceptFails
  <2>1. budget' \in [EventKind -> Nat]
    BY <1>9, <1>a DEF AcceptFails, EventKind
  <2> QED BY <1>9, <2>1 DEF AcceptFails, Packet
<1>10. CASE Flush
  <2>1. budget' \in [EventKind -> Nat]
    BY <1>10, <1>a DEF Flush, EventKind
  <2> QED BY <1>e, <1>0, <1>10, <2>1 DEF Flush
<1>11. CASE EndOfAnswer
  <2>1. budget' \in [EventKind -> Nat]
    BY <1>11, <1>a DEF EndOfAnswer, EventKind
  <2> QED BY <1>11, <2>1 DEF EndOfAnswer
<1>12. CASE Close
  BY <1>e, <1>0, <1>12 DEF Close, Forget
<1>13. CASE Crash
  <2>1. budget' \in [EventKind -> Nat]
    BY <1>13, <1>a DEF Crash, EventKind
  <2>2. orphaned' \subseteq Packet
    BY <1>13, RangeOfSeq DEF Crash
  <2> QED BY <1>e, <1>13, <2>1, <2>2 DEF Crash, Forget
<1>14. CASE UNCHANGED vars
  BY <1>14 DEF vars
<1>15. CASE TruncateFails
  <2>1. budget' \in [EventKind -> Nat]
    BY <1>15, <1>a DEF TruncateFails, EventKind
  <2>2. UNCHANGED <<file, meta, orphaned>>
    BY <1>15 DEF TruncateFails
  <2>3. CASE pc' # "off" /\ UNCHANGED <<memory, buffer>>
    BY <1>15, <2>1, <2>2, <2>3 DEF TruncateFails
  <2>4. CASE pc' = "off" /\ Forget /\ UNCHANGED save
    BY <1>e, <2>1, <2>2, <2>4 DEF Forget
  <2> QED BY <1>15, <2>3, <2>4 DEF TruncateFails
<1> QED BY <1>1, <1>2, <1>3, <1>4, <1>5, <1>6, <1>7, <1>8, <1>9, <1>10, <1>11, <1>12, <1>13,
           <1>14, <1>15 DEF Next, Session, MetaFile, Answer

(* The client keeps its types; a program that does not run has nothing buffered          *)
(* (FileExportRest.java:279-352, 638-689).                                               *)
THEOREM TypeCorrect == Spec => []TypeOK
<1> USE ExportAssumption
<1>0. <<>> \in Seq(Packet) /\ 1 \in 1..(N + 1)
  BY EmptySeq
<1>1. Init => TypeOK
  BY <1>0 DEF Init, TypeOK, NoMeta
<1> QED BY <1>1, TypeStep, PTL DEF Spec

-----------------------------------------------------------------------------
(* How far a session has come. *)

(* No event happens more often than it may. *)
LEMMA WithinBudget ==
  ASSUME TypeOK, Progress, [Next]_vars
  PROVE  \A k \in EventKind : budget'[k] <= Budget[k]
<1>1. ASSUME NEW k \in EventKind, UNCHANGED budget \/ Spend(k)
      PROVE  \A e \in EventKind : budget'[e] <= Budget[e]
  <2>1. \A e \in EventKind : budget'[e] <= budget[e] /\ budget'[e] \in Nat
    BY <1>1, SpendOne DEF TypeOK
  <2> QED BY <2>1, ExportAssumption DEF Progress, TypeOK
<1>2. \E k \in EventKind : UNCHANGED budget \/ Spend(k)
  BY DEF Next, Session, MetaFile, Answer, vars, EventKind, Resume, Begin, TruncateMeta, TruncateFails,
         WriteMeta, Connect, Refuse, Skip, Accept, AcceptFails, Flush, EndOfAnswer, Close, Crash
<1> QED BY <1>1, <1>2

(* Timestamps and counter of a session agree with the packets it has passed              *)
(* (FileExportRest.java:323-346, 638-668).                                               *)
LEMMA ProgressStep == TypeOK /\ Progress /\ [Next]_vars => Progress'
<1> SUFFICES ASSUME TypeOK, Progress, [Next]_vars PROVE Progress'
  OBVIOUS
<1> USE ExportAssumption DEF Starting, memory, Wanted
<1>0. \A k \in EventKind : budget'[k] <= Budget[k]
  BY WithinBudget
<1>d. UNCHANGED budget => Spent("disk")' = Spent("disk")
  BY Unspent
<1>1. CASE Resume
  BY <1>0, <1>1 DEF Resume, Progress, TypeOK
<1>2. CASE Begin
  BY <1>0, <1>2 DEF Begin, Progress, TypeOK, Packet
<1>3. CASE TruncateMeta
  BY <1>0, <1>3 DEF TruncateMeta, NoMeta, Progress, TypeOK
<1>4. CASE WriteMeta
  <2>1. save = "init" => counter = 0 /\ lastLoadedTimestamp = Start
    BY <1>4 DEF WriteMeta, Progress
  <2>2. UNCHANGED <<save, memory, buffer>> /\ pc = "write"
    BY <1>4 DEF WriteMeta
  <2>3. pc' = CASE save = "init" -> "request"
                [] save = "checkpoint" -> "flush"
                [] save = "final" -> "close"
    BY <1>4 DEF WriteMeta
  <2> QED BY <1>0, <1>d, <2>1, <2>2, <2>3, <1>4 DEF WriteMeta, MetaToWrite, Progress, TypeOK
<1>5. CASE Connect
  BY <1>0, <1>5 DEF Connect, Progress, TypeOK
<1>6. CASE Refuse
  BY <1>0, <1>6 DEF Refuse, Forget, Progress, TypeOK
<1>7. CASE Skip
  BY <1>0, <1>7 DEF Skip, Progress, TypeOK, Packet
<1>8. CASE Accept
  <2>1. /\ pos' = pos + 1 /\ currentTimeStamp' = Time[pos] /\ counter' = counter + 1
        /\ pc' = "read" \/ (pc' = "truncate" /\ save' = "checkpoint")
    BY <1>8 DEF Accept
  <2> QED BY <1>0, <2>1 DEF Progress, TypeOK, Packet
<1>9. CASE AcceptFails
  BY <1>0, <1>9 DEF AcceptFails, Progress, TypeOK, Packet
<1>10. CASE Flush
  BY <1>0, <1>10 DEF Flush, Progress, TypeOK
<1>11. CASE EndOfAnswer
  BY <1>0, <1>11 DEF EndOfAnswer, Progress, TypeOK
<1>12. CASE Close
  BY <1>0, <1>12 DEF Close, Forget, Progress, TypeOK
<1>13. CASE Crash
  BY <1>0, <1>13 DEF Crash, Forget, Progress, TypeOK
<1>14. CASE UNCHANGED vars
  BY <1>0, <1>d, <1>14 DEF vars, Progress, TypeOK
<1>15. CASE TruncateFails
  <2>1. Spent("disk")' # 0
    <3>1. Spend("disk") /\ "disk" \in EventKind
      BY <1>15 DEF TruncateFails, EventKind
    <3> QED BY <3>1, SpendOne, SpentType
  <2>2. CASE save = "init"
    BY <1>0, <1>15, <2>1, <2>2 DEF TruncateFails, Progress, TypeOK
  <2>3. CASE save = "checkpoint"
    BY <1>0, <1>15, <2>3 DEF TruncateFails, Progress, TypeOK
  <2>4. CASE save = "final"
    BY <1>0, <1>15, <2>4 DEF TruncateFails, Forget, Progress, TypeOK
  <2> QED BY <2>2, <2>3, <2>4 DEF TypeOK
<1> QED BY <1>1, <1>2, <1>3, <1>4, <1>5, <1>6, <1>7, <1>8, <1>9, <1>10, <1>11, <1>12, <1>13,
           <1>14, <1>15 DEF Next, Session, MetaFile, Answer

-----------------------------------------------------------------------------
(* What a step does to the packets downloaded, and to those still to come. *)

(* Which events are faults.                                                              *)
LEMMA FaultsCounted ==
  ASSUME TypeOK, Progress
  PROVE  /\ UNCHANGED budget => Faults' = Faults /\ \A k \in EventKind : Spent(k)' = Spent(k)
         /\ \A k \in {"crash", "network", "disk"} : Spend(k) => Faults' = Faults + 1
         /\ Spend("force") => Faults' = Faults /\ Spent("force")' = Spent("force") + 1
<1>1. UNCHANGED budget => Faults' = Faults /\ \A k \in EventKind : Spent(k)' = Spent(k)
  BY Unspent DEF Faults
<1>2. \A k \in EventKind : Spent(k) \in Int
  BY SpentType
<1>3. ASSUME NEW k \in EventKind, Spend(k)
      PROVE  /\ k # "force" => Faults' = Faults + 1
             /\ k = "force" => Faults' = Faults /\ Spent(k)' = Spent(k) + 1
  <2>1. \A e \in EventKind : Spent(e)' = Spent(e) + (IF e = k THEN 1 ELSE 0)
    BY <1>3, SpendOne
  <2> QED BY <1>2, <2>1 DEF Faults, EventKind
<1> QED BY <1>1, <1>3 DEF EventKind

\* Nothing is downloaded, and nothing else will be than before.
Waits ==
  /\ Downloaded' = Downloaded /\ Faults' = Faults
  /\ \A k \in EventKind : Spent(k)' = Spent(k)
  /\ \A p \in Packet : Again(p)' => Again(p)
  /\ Spent("disk") = 0 /\ (Ending => pos = N + 1) => \A p \in Packet : Again(p) => Again(p)'

\* The next packet that was still to come is downloaded.
Downloads ==
  /\ pos \in Packet /\ Again(pos)
  /\ Downloaded \in Seq(Packet) /\ Downloaded' = Append(Downloaded, pos)
  /\ Faults' = Faults /\ \A k \in EventKind : Spent(k)' = Spent(k)
  /\ \A p \in Packet : (Again(p)' <=> Again(p) /\ p # pos) /\ (Again(p) => pos <= p)

\* A fault happens: nothing is added.
Suffers ==
  /\ Faults' = Faults + 1
  /\ \A p : Count(Downloaded', p) <= Count(Downloaded, p)

\* The user begins anew.
Discards ==
  /\ Downloaded' = <<>> /\ Faults' = Faults /\ Spent("force")' = Spent("force") + 1
  /\ \A p \in Packet : Again(p)' => p \in Complete

(* Every step does one of the four (FileExportRest.java:279-352, 424-435, 638-689).      *)
LEMMA KindsOfSteps ==
  ASSUME TypeOK, Progress, [Next]_vars
  PROVE  Waits \/ Downloads \/ Suffers \/ Discards
<1> USE ExportAssumption DEF memory
<1>0. /\ file \in Seq(Packet) /\ buffer \in Seq(Packet) /\ <<>> \in Seq(Packet)
      /\ Downloaded \in Seq(Packet)
      /\ \A p : Count(Downloaded, p) \in Nat
      /\ file \o <<>> = file
      /\ Downloaded \o <<>> = Downloaded
      /\ \A p : Count(file, p) <= Count(Downloaded, p)
  BY NoPackets, PrefixPackets, ConcatEmptySeq DEF TypeOK, Downloaded
<1>s. UNCHANGED <<file, buffer>> => Downloaded' = Downloaded
  BY DEF Downloaded
<1>1. CASE Resume
  <2>1. \A p \in Packet : Again(p)' <=> Again(p)
    BY <1>1 DEF Resume, Again, Ahead, Ending, Progress, Starting, TypeOK, Packet
  <2> QED BY <1>1, <1>s, <2>1, FaultsCounted DEF Resume, Waits
<1>2. CASE Begin
  <2>1. \A p \in Packet : Again(p)' <=> p \notin Undecoded /\ Time[p] > Start
    BY <1>2 DEF Begin, Again, Ahead, Ending, Progress, Starting, TypeOK, Packet
  <2>2. CASE meta.packageCount = 0 /\ UNCHANGED <<file, orphaned, budget>>
    <3>1. \A p \in Packet : Again(p)' <=> Again(p)
      BY <1>2, <2>1, <2>2 DEF Begin, Again, Ahead
    <3> QED BY <1>2, <1>s, <2>2, <3>1, FaultsCounted DEF Begin, Waits
  <2>3. CASE Spend("force") /\ file' = <<>>
    <3>1. Downloaded' = <<>>
      BY <1>0, <1>2, <2>3 DEF Begin, Downloaded, TypeOK
    <3> QED BY <2>1, <2>3, <3>1, FaultsCounted DEF Discards, Complete
  <2> QED BY <1>2, <2>2, <2>3 DEF Begin
<1>3. CASE TruncateMeta
  <2>1. \A p \in Packet : Again(p)' <=> Again(p)
    BY <1>3 DEF TruncateMeta, Again, Ending
  <2> QED BY <1>3, <1>s, <2>1, FaultsCounted DEF TruncateMeta, Waits
<1>4. CASE WriteMeta
  <2>1. UNCHANGED <<file, buffer, save, memory>> /\ pc = "write"
    BY <1>4 DEF WriteMeta
  <2>2. CASE Spend("disk")
    BY <1>0, <1>s, <2>1, <2>2, FaultsCounted DEF Suffers
  <2>3. CASE meta' = MetaToWrite /\ UNCHANGED budget
    <3>1. CASE save = "init"
      <4>1. pc' = "request"
        BY <1>4, <3>1 DEF WriteMeta
      <4>2. \A p \in Packet : p >= pos /\ (Ahead(p)' <=> Time[p] > lastLoadedTimestamp)
        BY <2>1, <2>3, <3>1 DEF Ahead, MetaToWrite, Progress, Starting, Packet
      <4>3. \A p \in Packet : Again(p)' <=> Again(p)
        BY <2>1, <3>1, <4>1, <4>2 DEF Again, Ending
      <4> QED BY <1>s, <2>1, <2>3, <4>3, FaultsCounted DEF Waits
    <3>2. CASE save = "checkpoint"
      <4>1. pc' = "flush"
        BY <1>4, <3>2 DEF WriteMeta
      <4>2. \A p \in Packet : Again(p)' <=> Again(p)
        BY <2>1, <3>2, <4>1 DEF Again, Ending
      <4> QED BY <1>s, <2>1, <2>3, <4>2, FaultsCounted DEF Waits
    <3>3. CASE save = "final"
      <4>1. pc' = "close" /\ Ending
        BY <1>4, <2>1, <3>3 DEF WriteMeta, Ending
      <4>2. meta'.packageCount = counter /\ meta'.timestamp = currentTimeStamp
        BY <2>3, <3>3 DEF MetaToWrite
      <4>3. ASSUME NEW p \in Packet, Again(p)' PROVE pos <= N
        <5> SUFFICES ASSUME pos = N + 1 PROVE FALSE
          BY DEF TypeOK
        <5>1. p \notin Undecoded /\ Time[p] > IF counter = 0 THEN Start ELSE currentTimeStamp
          BY <4>1, <4>2, <4>3 DEF Again, Ahead
        <5>2. p \in 1..N /\ pos # 1 /\ currentTimeStamp = Time[N] /\ N \in Packet
          BY DEF Progress, Packet
        <5>3. Time[p] <= Time[N] /\ Time[N] \in Nat /\ Time[p] \in Nat
          BY <5>2 DEF Packet
        <5>4. counter = 0
          BY <5>1, <5>2, <5>3
        <5>5. lastLoadedTimestamp = Start /\ ~Wanted(p)
          BY <2>1, <5>2, <5>4 DEF Progress
        <5> QED BY <5>1, <5>4, <5>5 DEF Wanted
      <4>4. \A p \in Packet : Again(p) <=> p \notin Undecoded /\ pos <= N
        BY <2>1, <4>1 DEF Again
      <4>5. \A p \in Packet : Again(p)' => p \notin Undecoded
        BY DEF Again
      <4>6. pos = N + 1 => ~(pos <= N)
        OBVIOUS
      <4> QED BY <1>s, <2>1, <2>3, <4>1, <4>3, <4>4, <4>5, <4>6, FaultsCounted DEF Waits
    <3> QED BY <3>1, <3>2, <3>3 DEF TypeOK
  <2> QED BY <1>4, <2>2, <2>3 DEF WriteMeta
<1>5. CASE Connect
  <2>1. \A p \in Packet : /\ Again(p)' => Again(p)
                          /\ Spent("disk") = 0 /\ Again(p) => Again(p)'
    BY <1>5 DEF Connect, Again, Ahead, Ending, Progress, Starting, TypeOK, Packet
  <2> QED BY <1>5, <1>s, <2>1, FaultsCounted DEF Connect, Waits
<1>6. CASE Refuse
  <2>1. \A p \in Packet : /\ Again(p)' => Again(p)
                          /\ Spent("disk") = 0 /\ Again(p) => Again(p)'
    BY <1>6 DEF Refuse, Forget, Again, Ahead, Ending, Progress, Starting, TypeOK, Packet
  <2>2. Downloaded' = Downloaded
    BY <1>6 DEF Refuse, Forget, Downloaded, Progress, Starting
  <2> QED BY <1>6, <2>1, <2>2, FaultsCounted DEF Refuse, Waits
<1>7. CASE Skip
  <2>0. /\ pc = "read" /\ pc' = "read" /\ pos' = pos + 1 /\ pos \in Packet
        /\ lastLoadedTimestamp' = lastLoadedTimestamp /\ ~Wanted(pos)
    BY <1>7 DEF Skip, TypeOK, Packet
  <2>1. ASSUME NEW p \in Packet PROVE Again(p)' <=> Again(p)
    <3>1. p \in Int /\ pos \in Int /\ (pos + 1 <= p <=> pos <= p /\ p # pos)
      BY <2>0 DEF Packet
    <3> QED BY <2>0, <3>1 DEF Again, Ending, Wanted
  <2> QED BY <1>7, <1>s, <2>1, FaultsCounted DEF Skip, Waits
<1>8. CASE Accept
  <2>1. pos \in Packet
    BY <1>8 DEF Accept, Packet, TypeOK
  <2>2. Downloaded' = Append(Downloaded, pos)
    BY <1>8, <2>1, BufferedPacket DEF Accept
  <2>3. pos' = pos + 1 /\ pc' \in {"read", "truncate"} /\ UNCHANGED <<lastLoadedTimestamp, budget>>
        /\ (pc' = "truncate" => save' = "checkpoint") /\ pc = "read" /\ Wanted(pos)
    BY <1>8 DEF Accept
  <2>4. \A p \in Packet : (Again(p)' <=> Again(p) /\ p # pos) /\ (Again(p) => pos <= p)
    BY <2>3 DEF Again, Ending, TypeOK, Packet
  <2>5. Again(pos)
    BY <2>1, <2>3 DEF Again, Ending, Wanted, Packet
  <2> QED BY <1>0, <2>1, <2>2, <2>3, <2>4, <2>5, FaultsCounted DEF Downloads
<1>9. CASE AcceptFails
  BY <1>0, <1>s, <1>9, FaultsCounted DEF AcceptFails, Suffers
<1>10. CASE Flush
  <2>1. CASE Spend("disk") /\ UNCHANGED <<file, buffer>>
    BY <1>0, <1>s, <2>1, FaultsCounted DEF Suffers
  <2>2. CASE file' = file \o buffer /\ buffer' = <<>> /\ UNCHANGED budget
    <3>1. Downloaded' = Downloaded
      BY <1>0, <2>2 DEF Downloaded
    <3>2. \A p \in Packet : Again(p)' <=> Again(p)
      BY <1>10 DEF Flush, Again, Ending
    <3> QED BY <2>2, <3>1, <3>2, FaultsCounted DEF Waits
  <2> QED BY <1>10, <2>1, <2>2 DEF Flush
<1>11. CASE EndOfAnswer
  <2>1. CASE pos <= N /\ Spend("network")
    BY <1>0, <1>s, <1>11, <2>1, FaultsCounted DEF EndOfAnswer, Suffers
  <2>2. CASE pos > N /\ UNCHANGED budget
    <3>1. \A p \in Packet : ~Again(p) /\ ~Again(p)'
      BY <1>11, <2>2 DEF EndOfAnswer, Again, Ending, TypeOK, Packet
    <3> QED BY <1>11, <1>s, <2>2, <3>1, FaultsCounted DEF EndOfAnswer, Waits
  <2> QED BY <1>11, <2>1, <2>2 DEF EndOfAnswer
<1>12. CASE Close
  <2>1. Downloaded' = Downloaded
    BY <1>0, <1>12 DEF Close, Forget, Downloaded
  <2>2. \A p \in Packet : Again(p)' <=> Again(p)
    BY <1>12 DEF Close, Forget, Again, Ahead, Ending
  <2> QED BY <1>12, <2>1, <2>2, FaultsCounted DEF Close, Waits
<1>13. CASE Crash
  <2>1. Downloaded' = file
    BY <1>0, <1>13 DEF Crash, Forget, Downloaded
  <2> QED BY <1>0, <1>13, <2>1, FaultsCounted DEF Crash, Suffers
<1>14. CASE UNCHANGED vars
  <2>1. \A p \in Packet : Again(p)' <=> Again(p)
    BY <1>14 DEF vars, Again, Ahead, Ending
  <2> QED BY <1>14, <1>s, <2>1, FaultsCounted DEF vars, Waits
<1>15. CASE TruncateFails
  <2>1. Downloaded' = file \/ Downloaded' = Downloaded
    BY <1>0, <1>15 DEF TruncateFails, Forget, Downloaded
  <2> QED BY <1>0, <1>15, <2>1, FaultsCounted DEF TruncateFails, Suffers
<1> QED BY <1>1, <1>2, <1>3, <1>4, <1>5, <1>6, <1>7, <1>8, <1>9, <1>10, <1>11, <1>12, <1>13,
           <1>14, <1>15 DEF Next, Session, MetaFile, Answer

-----------------------------------------------------------------------------
(* Copies, and order. *)

(* A copy is added where one was to come, or a fault pays for it.                        *)
LEMMA CopiesStep == TypeOK /\ Progress /\ CopiesCost /\ [Next]_vars => CopiesCost'
<1> SUFFICES ASSUME TypeOK, Progress, CopiesCost, [Next]_vars, NEW p \in Packet
             PROVE  Count(Downloaded', p) + (IF Again(p)' THEN 1 ELSE 0) <= 1 + Faults'
  BY DEF CopiesCost
<1>1. /\ Count(Downloaded, p) \in Nat /\ Faults \in Nat
      /\ Count(Downloaded, p) + (IF Again(p) THEN 1 ELSE 0) <= 1 + Faults
  <2>1. Downloaded \in Seq(Packet) /\ <<>> \in Seq(Packet)
    BY ConcatProperties, EmptySeq DEF Downloaded, TypeOK
  <2> QED BY <2>1, PrefixPackets, SpentType DEF CopiesCost
<1>2. CASE Waits
  BY <1>1, <1>2 DEF Waits
<1>3. CASE Downloads
  <2>1. Count(Downloaded', p) = Count(Downloaded, p) + (IF p = pos THEN 1 ELSE 0)
    BY <1>3, AppendPacket DEF Downloads
  <2>2. CASE p = pos
    <3>1. Again(p) /\ ~Again(p)'
      BY <1>3, <2>2 DEF Downloads, Packet
    <3> QED BY <1>1, <1>3, <2>1, <2>2, <3>1 DEF Downloads
  <2>3. CASE p # pos
    <3>1. Again(p)' => Again(p)
      BY <1>3 DEF Downloads
    <3> QED BY <1>1, <1>3, <2>1, <2>3, <3>1 DEF Downloads
  <2> QED BY <2>2, <2>3
<1>4. CASE Suffers
  <2>1. Count(Downloaded', p) \in Nat
    <3>1. TypeOK'
      BY TypeStep
    <3>2. Downloaded' \in Seq(Packet) /\ <<>> \in Seq(Packet)
      BY <3>1, ConcatProperties, EmptySeq DEF Downloaded, TypeOK
    <3> QED BY <3>2, PrefixPackets
  <2> QED BY <1>1, <1>4, <2>1 DEF Suffers
<1>5. CASE Discards
  BY <1>1, <1>5, NoPackets DEF Discards
<1> QED BY <1>2, <1>3, <1>4, <1>5, KindsOfSteps

(* Without faults no answer ends early, and the last meta data cover all packets         *)
(* (FileExportRest.java:424-435, 655-668).                                               *)
LEMMA EndStep ==
  ASSUME TypeOK, Progress, [Next]_vars, Faults' = Faults,
         Ending => pos = N + 1,
         pc \in {"off", "request", "close"} /\ meta.packageCount # 0 =>
           \A p \in Packet : Time[p] <= meta.timestamp
  PROVE  /\ Ending' => pos' = N + 1
         /\ pc' \in {"off", "request", "close"} /\ meta'.packageCount # 0 =>
              \A p \in Packet : Time[p] <= meta'.timestamp
<1> USE ExportAssumption DEF Ending, memory
<1>0. \A k \in {"crash", "network", "disk"} : ~Spend(k)
  BY FaultsCounted, SpentType
<1>1. CASE Session
  BY <1>1 DEF Session, Resume, Begin, TypeOK
<1>2. CASE TruncateMeta \/ TruncateFails
  BY <1>0, <1>2 DEF TruncateMeta, TruncateFails, TypeOK
<1>3. CASE WriteMeta
  <2>1. UNCHANGED <<save, memory>> /\ pc = "write" /\ meta' = MetaToWrite
    BY <1>0, <1>3 DEF WriteMeta
  <2>2. CASE save = "init"
    BY <1>3, <2>1, <2>2 DEF WriteMeta, MetaToWrite, Progress
  <2>3. CASE save = "checkpoint"
    BY <1>3, <2>1, <2>3 DEF WriteMeta
  <2>4. CASE save = "final"
    <3>1. pos = N + 1 /\ meta'.timestamp = currentTimeStamp /\ pc' = "close"
      BY <1>3, <2>1, <2>4 DEF WriteMeta, MetaToWrite
    <3>2. ASSUME NEW p \in Packet PROVE Time[p] <= currentTimeStamp
      <4>1. p \in 1..N /\ pos # 1 /\ currentTimeStamp = Time[N] /\ N \in Packet /\ p <= N
        BY <3>1 DEF Progress, Packet
      <4> QED BY <4>1
    <3> QED BY <3>1, <3>2
  <2> QED BY <2>2, <2>3, <2>4 DEF TypeOK
<1>4. CASE Connect \/ Skip \/ Accept \/ AcceptFails \/ Flush
  BY <1>4 DEF Connect, Skip, Accept, AcceptFails, Flush, Progress
<1>5. CASE EndOfAnswer
  BY <1>0, <1>5 DEF EndOfAnswer, TypeOK
<1>6. CASE Refuse \/ Close
  BY <1>6 DEF Refuse, Close, Forget
<1>7. CASE Crash
  BY <1>0, <1>7 DEF Crash
<1>8. CASE UNCHANGED vars
  BY <1>8 DEF vars
<1> QED BY <1>1, <1>2, <1>3, <1>4, <1>5, <1>6, <1>7, <1>8 DEF Next, MetaFile, Answer

(* Without faults what is downloaded is in order, complete, and not asked for again      *)
(* (FileExportRest.java:316-352, 638-689).                                               *)
LEMMA ExactStep == TypeOK /\ Progress /\ Exact /\ [Next]_vars => Exact'
<1> SUFFICES ASSUME TypeOK, Progress, Exact, [Next]_vars, Faults' = 0 PROVE Exact'
  BY DEF Exact
<1>1. Faults = 0 /\ Faults' = Faults /\ ~Suffers
  <2>1. Faults \in Nat
    BY SpentType
  <2> QED BY <2>1, KindsOfSteps DEF Waits, Downloads, Suffers, Discards
<1>2. /\ Ending' => pos' = N + 1
      /\ pc' \in {"off", "request", "close"} /\ meta'.packageCount # 0 =>
           \A p \in Packet : Time[p] <= meta'.timestamp
  BY <1>1, EndStep DEF Exact
<1>3. Complete' = Complete /\ Complete \subseteq Packet
  BY DEF Complete
<1>4. Range(Downloaded) \subseteq Packet /\ Packet \subseteq Nat
  <2>1. Range(Downloaded) \subseteq Complete
    BY <1>1 DEF Exact
  <2>2. Packet \subseteq Nat
    BY DEF Packet
  <2> QED BY <1>3, <2>1, <2>2
<1>5. ASSUME Increasing(Downloaded'),
             \A p \in Range(Downloaded'), q \in Packet : Again(q)' => p < q,
             Range(Downloaded') \subseteq Complete,
             \A p \in Packet : Again(p)' => p \in Complete,
             Spent("force")' = 0 => \A p \in Complete : p \in Range(Downloaded') \/ Again(p)'
      PROVE  Exact'
  BY <1>2, <1>3, <1>5 DEF Exact
<1>6. CASE Waits
  <2>1. \A p \in Packet : Again(p)' <=> Again(p)
    BY <1>1, <1>6, SpentType DEF Waits, Exact
  <2>2. Downloaded' = Downloaded /\ Spent("force")' = Spent("force")
    BY <1>6 DEF Waits, EventKind
  <2> QED BY <1>1, <1>3, <1>5, <2>1, <2>2 DEF Exact
<1>7. CASE Downloads
  <2>1. /\ Range(Downloaded') = Range(Downloaded) \cup {pos}
        /\ Increasing(Downloaded) /\ (\A p \in Range(Downloaded) : p < pos) => Increasing(Downloaded')
    BY <1>7, AppendPacket DEF Downloads
  <2>2. /\ pos \in Packet /\ Again(pos) /\ Spent("force")' = Spent("force")
        /\ \A p \in Packet : (Again(p)' <=> Again(p) /\ p # pos) /\ (Again(p) => pos <= p)
    BY <1>7 DEF Downloads, EventKind
  <2>3. \A p \in Range(Downloaded) : p < pos
    BY <1>1, <2>2 DEF Exact
  <2>4. Increasing(Downloaded')
    BY <1>1, <2>1, <2>3 DEF Exact
  <2>5. ASSUME NEW p \in Range(Downloaded'), NEW q \in Packet, Again(q)' PROVE p < q
    <3>1. Again(q) /\ pos < q
      BY <1>4, <2>2, <2>5
    <3>2. p \in Range(Downloaded) => p < q
      BY <1>1, <3>1 DEF Exact
    <3> QED BY <2>1, <3>1, <3>2
  <2>6. Range(Downloaded') \subseteq Complete
    BY <1>1, <2>1, <2>2 DEF Exact
  <2>7. ASSUME Spent("force")' = 0, NEW p \in Complete
        PROVE  p \in Range(Downloaded') \/ Again(p)'
    <3>1. p \in Range(Downloaded) \/ Again(p)
      BY <1>1, <2>2, <2>7 DEF Exact
    <3> QED BY <3>1, <2>1, <2>2, <1>3
  <2>8. \A p \in Packet : Again(p)' => p \in Complete
    BY <1>1, <2>2 DEF Exact
  <2> QED BY <1>5, <2>2, <2>4, <2>5, <2>6, <2>7, <2>8, <1>1
<1>8. CASE Discards
  <2>1. Spent("force")' # 0
    <3>1. Spent("force") \in Nat
      BY SpentType DEF EventKind
    <3> QED BY <1>8, <3>1 DEF Discards
  <2> QED BY <1>5, <1>8, <2>1, NoPackets DEF Discards
<1> QED BY <1>1, <1>6, <1>7, <1>8, KindsOfSteps

-----------------------------------------------------------------------------
(* What the meta file claims. *)

\* The packets with timestamps of their own that a session has passed, or will skip.
Passed == {p \in Complete : Unique(p) /\ (p < pos \/ Time[p] <= lastLoadedTimestamp)}

(* As long as no write fails, what a session has passed or skips is in the file, in the  *)
(* buffer, or was lost when the process was killed (FileExportRest.java:323-346).        *)
LEMMA PassedStep ==
  ASSUME TypeOK, Progress, Held, [Next]_vars, Spent("disk") = 0, ~Spend("disk"), pc' # "off"
  PROVE  Passed' \subseteq Range(Downloaded') \cup orphaned'
<1> USE ExportAssumption DEF memory
<1>1. pc # "off" => Passed \subseteq Range(Downloaded) \cup orphaned
  BY DEF Held, Passed
<1>2. Claimed \subseteq orphaned \cup (IF pc \in {"flush", "close"} THEN Range(Downloaded) ELSE Range(file))
  BY DEF Held
<1>3. /\ file \in Seq(Packet) /\ buffer \in Seq(Packet) /\ Downloaded \in Seq(Packet)
      /\ Downloaded \o <<>> = Downloaded
      /\ Range(file) \subseteq Range(Downloaded)
  BY PrefixPackets, ConcatEmptySeq DEF TypeOK, Downloaded
<1>4. /\ UNCHANGED <<file, buffer>> => Downloaded' = Downloaded
      /\ UNCHANGED <<pos, lastLoadedTimestamp>> => Passed' = Passed
  BY DEF Downloaded, Passed, Complete, Unique
<1>5. CASE Resume
  <2>1. Passed' \subseteq Claimed
    BY <1>5 DEF Resume, Passed, Claimed, Complete, Unique, Progress, Starting, Packet
  <2> QED BY <1>2, <1>3, <1>4, <1>5, <2>1 DEF Resume
<1>6. CASE Begin
  BY <1>6 DEF Begin, Passed, Complete, Progress, Starting, Packet
<1>7. CASE TruncateMeta
  <2>1. CASE save = "init"
    BY <1>7, <2>1 DEF TruncateMeta, Passed, Complete, Progress, Starting, Packet
  <2>2. CASE save # "init"
    BY <1>1, <1>4, <1>7, <2>2 DEF TruncateMeta
  <2> QED BY <2>1, <2>2
<1>8. CASE WriteMeta \/ Connect \/ EndOfAnswer
  BY <1>1, <1>4, <1>8 DEF WriteMeta, Connect, EndOfAnswer
<1>9. CASE Skip
  <2>1. pos \in Packet /\ pos' = pos + 1 /\ lastLoadedTimestamp' = lastLoadedTimestamp /\ ~Wanted(pos)
    BY <1>9 DEF Skip, Packet, TypeOK
  <2>2. ASSUME NEW p \in Complete, p = pos PROVE Time[p] <= lastLoadedTimestamp
    BY <2>1, <2>2 DEF Complete, Wanted, TypeOK
  <2>3. ASSUME NEW p \in Packet, p < pos + 1 PROVE p < pos \/ p = pos
    BY <2>1, <2>3 DEF Packet
  <2>4. Passed' \subseteq Passed
    BY <2>1, <2>2, <2>3 DEF Passed, Complete, Unique
  <2> QED BY <1>1, <1>4, <1>9, <2>4 DEF Skip
<1>10. CASE Accept
  <2>1. pos \in Packet /\ pos' = pos + 1 /\ lastLoadedTimestamp' = lastLoadedTimestamp
        /\ orphaned' = orphaned /\ pc = "read"
    BY <1>10 DEF Accept, Packet, TypeOK
  <2>2. Range(Downloaded') = Range(Downloaded) \cup {pos}
    BY <1>10, <2>1, BufferedPacket, AppendPacket DEF Accept
  <2>3. ASSUME NEW p \in Packet, p < pos + 1 PROVE p < pos \/ p = pos
    BY <2>1, <2>3 DEF Packet
  <2>4. Passed' \subseteq Passed \cup {pos}
    BY <2>1, <2>3 DEF Passed, Complete, Unique
  <2> QED BY <1>1, <2>1, <2>2, <2>4
<1>11. CASE Flush
  <2>1. Downloaded' = Downloaded
    BY <1>3, <1>11 DEF Flush, Downloaded
  <2> QED BY <1>1, <1>4, <1>11, <2>1 DEF Flush
<1>12. CASE UNCHANGED vars
  BY <1>1, <1>4, <1>12 DEF vars
<1>13. ~AcceptFails /\ ~TruncateFails /\ ~Refuse /\ ~Close /\ ~Crash
  BY DEF AcceptFails, TruncateFails, Refuse, Close, Crash
<1> QED BY <1>5, <1>6, <1>7, <1>8, <1>9, <1>10, <1>11, <1>12, <1>13
        DEF Next, Session, MetaFile, Answer

(* As long as no write fails, the meta file claims nothing that is not in the file, lost *)
(* with a process or, for a moment, in the buffer (FileExportRest.java:655-668).         *)
LEMMA ClaimedStep ==
  ASSUME TypeOK, Progress, Held, [Next]_vars, Spent("disk") = 0, ~Spend("disk")
  PROVE  Claimed' \subseteq orphaned' \cup
           (IF pc' \in {"flush", "close"} THEN Range(Downloaded') ELSE Range(file'))
<1> USE ExportAssumption DEF memory
<1>1. Claimed \subseteq orphaned \cup (IF pc \in {"flush", "close"} THEN Range(Downloaded) ELSE Range(file))
  BY DEF Held
<1>2. /\ file \in Seq(Packet) /\ buffer \in Seq(Packet) /\ Downloaded \in Seq(Packet)
      /\ Downloaded \o <<>> = Downloaded
      /\ Range(file) \subseteq Range(Downloaded)
  BY PrefixPackets, ConcatEmptySeq DEF TypeOK, Downloaded
<1>3. /\ UNCHANGED <<file, buffer>> => Downloaded' = Downloaded
      /\ UNCHANGED meta => Claimed' = Claimed
  BY DEF Downloaded, Claimed, Complete
<1>4. CASE Resume
  BY <1>1, <1>3, <1>4 DEF Resume
<1>5. CASE Begin
  <2>1. CASE meta.packageCount = 0
    BY <1>5, <2>1 DEF Begin, Claimed
  <2>2. CASE file' = <<>> /\ orphaned' = orphaned \cup Range(file)
    BY <1>1, <1>3, <1>5, <2>2 DEF Begin
  <2> QED BY <1>5, <2>1, <2>2 DEF Begin
<1>6. CASE TruncateMeta
  BY <1>6 DEF TruncateMeta, NoMeta, Claimed
<1>7. CASE WriteMeta
  <2>1. UNCHANGED <<save, memory, file, buffer, orphaned>> /\ pc = "write" /\ meta' = MetaToWrite
    BY <1>7 DEF WriteMeta
  <2>2. CASE save = "init"
    BY <2>1, <2>2 DEF MetaToWrite, Claimed, Progress
  <2>3. CASE save # "init"
    <3>1. pc' \in {"flush", "close"} /\ meta'.timestamp = currentTimeStamp
      BY <1>7, <2>1, <2>3 DEF WriteMeta, MetaToWrite, TypeOK
    <3>2. ASSUME NEW p \in Complete, Unique(p), Time[p] <= currentTimeStamp
          PROVE  p < pos
      <4>1. p \in 1..N /\ Time[p] \in Nat /\ Time[p] >= Start /\ pos \in 1..(N + 1)
        BY DEF Complete, Packet, TypeOK
      <4>2. pos # 1 /\ currentTimeStamp = Time[pos - 1]
        BY <3>2, <4>1 DEF Progress
      <4>3. pos - 1 \in Packet /\ (p >= pos - 1 => Time[pos - 1] <= Time[p])
        BY <4>1, <4>2 DEF Packet
      <4>4. p >= pos - 1 => p = pos - 1
        BY <3>2, <4>1, <4>2, <4>3 DEF Unique
      <4> QED BY <4>1, <4>4
    <3>3. ASSUME NEW p \in Claimed' PROVE p \in Complete /\ Unique(p) /\ Time[p] <= currentTimeStamp
      BY <3>1, <3>3 DEF Claimed, Complete, Unique
    <3>4. Claimed' \subseteq Range(Downloaded) \cup orphaned
      BY <2>1, <3>2, <3>3 DEF Held
    <3> QED BY <1>3, <2>1, <3>1, <3>4
  <2> QED BY <2>2, <2>3
<1>8. CASE Connect \/ Skip \/ EndOfAnswer
  BY <1>1, <1>3, <1>8 DEF Connect, Skip, EndOfAnswer
<1>9. CASE Refuse
  BY <1>1, <1>3, <1>9 DEF Refuse
<1>10. CASE Accept
  <2>1. Range(file) \subseteq Range(file')
    BY <1>2, <1>10 DEF Accept, Buffered, Downloaded
  <2> QED BY <1>1, <1>3, <1>10, <2>1 DEF Accept
<1>11. CASE Flush
  BY <1>1, <1>3, <1>11 DEF Flush, Downloaded
<1>12. CASE Close
  BY <1>1, <1>3, <1>12 DEF Close, Downloaded
<1>13. CASE Crash
  <2>1. Range(Downloaded) \subseteq Range(file) \cup Range(buffer)
    BY <1>2, RangeConcatenation DEF Downloaded, TypeOK
  <2> QED BY <1>1, <1>3, <1>13, <2>1 DEF Crash
<1>14. CASE UNCHANGED vars
  BY <1>1, <1>3, <1>14 DEF vars
<1>15. ~AcceptFails /\ ~TruncateFails
  BY DEF AcceptFails, TruncateFails
<1> QED BY <1>4, <1>5, <1>6, <1>7, <1>8, <1>9, <1>10, <1>11, <1>12, <1>13, <1>14, <1>15
        DEF Next, Session, MetaFile, Answer

LEMMA HeldStep == TypeOK /\ Progress /\ Held /\ [Next]_vars => Held'
<1> SUFFICES ASSUME TypeOK, Progress, Held, [Next]_vars, Spent("disk")' = 0 PROVE Held'
  BY DEF Held
<1>1. Spent("disk") = 0 /\ ~Spend("disk")
  <2>1. Progress' /\ TypeOK' /\ "disk" \in EventKind
    BY ProgressStep, TypeStep DEF EventKind
  <2>2. Spend("disk") => Spent("disk")' = Spent("disk") + 1
    BY <2>1, SpendOne
  <2>3. Spent("disk")' >= Spent("disk") /\ Spent("disk") \in Nat
    <3>1. \E k \in EventKind : UNCHANGED budget \/ Spend(k)
      BY DEF Next, Session, MetaFile, Answer, vars, EventKind, Resume, Begin, TruncateMeta,
             TruncateFails, WriteMeta, Connect, Refuse, Skip, Accept, AcceptFails, Flush, EndOfAnswer, Close, Crash
    <3>2. PICK k \in EventKind : UNCHANGED budget \/ Spend(k)
      BY <3>1
    <3>3. Spent("disk") \in Nat
      BY <2>1, SpentType
    <3>4. UNCHANGED budget => Spent("disk")' = Spent("disk")
      BY Unspent
    <3>5. Spend(k) => Spent("disk")' = Spent("disk") + (IF "disk" = k THEN 1 ELSE 0)
      BY <2>1, SpendOne
    <3> QED BY <3>2, <3>3, <3>4, <3>5
  <2> QED BY <2>2, <2>3
<1>2. pc' # "off" => Passed' \subseteq Range(Downloaded') \cup orphaned'
  BY <1>1, PassedStep
<1>3. Claimed' \subseteq orphaned' \cup
        (IF pc' \in {"flush", "close"} THEN Range(Downloaded') ELSE Range(file'))
  BY <1>1, ClaimedStep
<1> QED BY <1>2, <1>3 DEF Held, Passed

-----------------------------------------------------------------------------
(* The theorems. *)

IInv == TypeOK /\ Progress /\ CopiesCost /\ Exact /\ Held

LEMMA Initially == Init => IInv
<1> SUFFICES ASSUME Init PROVE IInv
  OBVIOUS
<1> USE ExportAssumption
<1>1. TypeOK
  BY NoPackets DEF Init, TypeOK, NoMeta
<1>2. Progress
  BY DEF Init, Progress, Starting, NoMeta
<1>3. Downloaded = <<>> /\ Faults = 0 /\ Spent("disk") = 0
  <2>1. \A k \in EventKind : Spent(k) = 0
    BY DEF Init, Spent
  <2>2. <<>> \o <<>> = <<>>
    BY NoPackets, ConcatEmptySeq
  <2> QED BY <2>1, <2>2 DEF Init, Downloaded, Faults, EventKind
<1>4. \A p \in Packet : Again(p) <=> p \in Complete
  BY DEF Init, Again, Ahead, NoMeta, Complete
<1>5. CopiesCost
  BY <1>3, <1>4, NoPackets DEF CopiesCost
<1>6. Exact
  BY <1>3, <1>4, NoPackets DEF Exact, Init, NoMeta, Ending, Complete
<1>7. Held
  BY DEF Held, Init, NoMeta, Claimed
<1> QED BY <1>1, <1>2, <1>4, <1>5, <1>6, <1>7 DEF IInv

(* How far a session is, what it has downloaded and what it will ask for, and what the   *)
(* meta file claims hold together (FileExportRest.java:279-352, 424-435, 638-689).       *)
THEOREM Invariance == Spec => []IInv
<1>1. IInv /\ [Next]_vars => IInv'
  BY TypeStep, ProgressStep, CopiesStep, ExactStep, HeldStep DEF IInv
<1> QED BY Initially, <1>1, PTL DEF Spec

(* What the meta file says has been downloaded is in the file or about to be written to  *)
(* it, unless a write failed: no later session skips a packet with a timestamp of its    *)
(* own that nobody has, but for those a killed process took along                        *)
(* (FileExportRest.java:280, 349, 424-435, 663-668).                                     *)
THEOREM NothingClaimedIsMissing == Spec => []ClaimedIsHeld
<1>1. IInv => ClaimedIsHeld
  <2> SUFFICES ASSUME IInv, Spent("disk") = 0 PROVE Claimed \subseteq Range(file \o buffer) \cup orphaned
    BY DEF ClaimedIsHeld
  <2>1. Range(file) \subseteq Range(file \o buffer)
    BY PrefixPackets DEF IInv, TypeOK
  <2> QED BY <2>1 DEF IInv, Held, Downloaded
<1> QED BY Invariance, <1>1, PTL

(* However often sessions are refused, broken off, killed and resumed, each fault costs  *)
(* at most one more copy of a packet (FileExportRest.java:279-346, 644-653).             *)
THEOREM CopiesAreBounded == Spec => []OneCopyPerFault
<1>1. IInv => OneCopyPerFault
  <2> SUFFICES ASSUME IInv, NEW p \in Packet
               PROVE  Copies(p) <= 1 + Spent("crash") + Spent("network") + Spent("disk")
    BY DEF OneCopyPerFault
  <2>1. Count(file, p) \in Nat /\ Count(file, p) <= Count(Downloaded, p)
    BY PrefixPackets DEF IInv, TypeOK, Downloaded
  <2>2. Copies(p) = Count(file, p)
    BY DEF Copies, Count
  <2>3. Count(Downloaded, p) <= 1 + Faults /\ Count(Downloaded, p) \in Nat
    <3>1. Downloaded \in Seq(Packet) /\ <<>> \in Seq(Packet)
      BY ConcatProperties, NoPackets DEF IInv, TypeOK, Downloaded
    <3>2. Count(Downloaded, p) \in Nat
      BY <3>1, PrefixPackets
    <3>3. Faults \in Nat
      BY SpentType DEF IInv
    <3> QED BY <3>2, <3>3 DEF IInv, CopiesCost
  <2>4. \A k \in EventKind : Spent(k) \in Nat
    BY SpentType DEF IInv
  <2> QED BY <2>1, <2>2, <2>3, <2>4 DEF Faults, EventKind
<1> QED BY Invariance, <1>1, PTL

(* Without faults the file is what one undisturbed session makes of it, each packet once *)
(* and in order, whatever was refused, resumed or repeated (FileExportRest.java:316-352, *)
(* 638-689).                                                                             *)
THEOREM UndisturbedIsExact == Spec => []ExactWithoutFaults
<1>1. IInv => ExactWithoutFaults
  <2> SUFFICES ASSUME IInv, Faults = 0
               PROVE  /\ Increasing(file)
                      /\ pc = "off" /\ meta.packageCount # 0 /\ Spent("force") = 0 =>
                           Range(file) = Complete
    BY DEF ExactWithoutFaults, Faults, Increasing
  <2>1. Increasing(file)
    BY PrefixPackets DEF IInv, Exact, Downloaded, TypeOK
  <2>2. ASSUME pc = "off", meta.packageCount # 0, Spent("force") = 0 PROVE Range(file) = Complete
    <3>1. Downloaded = file
      BY <2>2, ConcatEmptySeq DEF IInv, TypeOK, Downloaded
    <3>2. \A p \in Complete : p \in Packet /\ Time[p] <= meta.timestamp
      BY <2>2 DEF IInv, Exact, Complete
    <3>3. \A p \in Complete : ~Again(p)
      <4>1. \A p \in Packet : Time[p] \in Nat /\ meta.timestamp \in Nat
        BY ExportAssumption DEF IInv, TypeOK
      <4> QED BY <2>2, <3>2, <4>1 DEF Again, Ahead
    <3> QED BY <2>2, <3>1, <3>3 DEF IInv, Exact
  <2> QED BY <2>1, <2>2
<1> QED BY Invariance, <1>1, PTL
=============================================================================
