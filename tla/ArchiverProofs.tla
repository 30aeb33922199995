---------------------------- MODULE ArchiverProofs ----------------------------
(***************************************************************************)
(* Proofs about the archiver, for any packets, file names, capacities and  *)
(* numbers of faults.                                                      *)
(***************************************************************************)
EXTENDS Archiver, SequenceTheorems, FiniteSetTheorems, TLAPS

-----------------------------------------------------------------------------
(* What a queue holds after offer (Append), poll (Head, Tail) and taking a batch         *)
(* (SubSeq).                                                                              *)

(* A queue is empty when its size is zero, and then holds nothing. *)
LEMMA EmptyQueue ==
  ASSUME NEW S, NEW q \in Seq(S)
  PROVE  /\ Range(q) \subseteq S
         /\ Len(q) \in Nat
         /\ q = <<>> <=> Len(q) = 0
         /\ q = <<>> => Range(q) = {}
<1>1. Len(q) \in Nat /\ (q # <<>> => Len(q) \in Nat \ {0}) /\ Len(<<>>) = 0
  BY EmptySeq
<1>2. Range(q) \subseteq S
  BY RangeOfSeq
<1>3. ASSUME q = <<>> PROVE Range(q) = {}
  <2>1. DOMAIN q = {}
    BY <1>3
  <2>2. QED BY <2>1 DEF Range
<1>4. QED BY <1>1, <1>2, <1>3

(* Offering an element adds it. *)
LEMMA OfferToQueue ==
  ASSUME NEW S, NEW q \in Seq(S), NEW x \in S
  PROVE  /\ Append(q, x) \in Seq(S)
         /\ Append(q, x) # <<>>
         /\ Len(Append(q, x)) = Len(q) + 1
         /\ Range(Append(q, x)) = Range(q) \cup {x}
<1>1. /\ Append(q, x) \in Seq(S)
      /\ Append(q, x) # <<>>
      /\ Len(Append(q, x)) = Len(q) + 1
      /\ \A i \in 1..Len(q) : Append(q, x)[i] = q[i]
      /\ Append(q, x)[Len(q) + 1] = x
      /\ Len(q) \in Nat
  BY AppendProperties, EmptyQueue
<1>2. /\ Range(q) = {q[i] : i \in 1..Len(q)}
      /\ Range(Append(q, x)) = {Append(q, x)[i] : i \in 1..(Len(q) + 1)}
  BY <1>1, RangeEquality
<1> DEFINE r == Append(q, x)
<1> HIDE DEF r
<1>3. ASSUME NEW y \in Range(r) PROVE y \in Range(q) \cup {x}
  <2>1. PICK i \in 1..(Len(q) + 1) : r[i] = y
    BY <1>2 DEF r
  <2>2. CASE i = Len(q) + 1
    BY <2>1, <2>2, <1>1 DEF r
  <2>3. CASE i \in 1..Len(q)
    BY <2>1, <2>3, <1>1, <1>2 DEF r
  <2>4. QED BY <2>2, <2>3, <1>1
<1>4. Range(q) \subseteq Range(r)
  <2>1. ASSUME NEW i \in 1..Len(q) PROVE q[i] \in Range(r)
    BY <1>1, <1>2 DEF r
  <2>2. QED BY <2>1, <1>2
<1>5. x \in Range(r)
  BY <1>1, <1>2 DEF r
<1>6. QED BY <1>1, <1>3, <1>4, <1>5 DEF r

(* Taking a prefix and leaving the rest loses nothing and invents nothing. *)
LEMMA TakeFromQueue ==
  ASSUME NEW S, NEW q \in Seq(S), NEW n \in Nat \ {0}, n <= Len(q)
  PROVE  /\ SubSeq(q, 1, n) \in Seq(S) /\ SubSeq(q, 1, n) # <<>>
         /\ SubSeq(q, n + 1, Len(q)) \in Seq(S)
         /\ Range(q) = Range(SubSeq(q, 1, n)) \cup Range(SubSeq(q, n + 1, Len(q)))
<1> DEFINE a == SubSeq(q, 1, n)  b == SubSeq(q, n + 1, Len(q))
<1>1. a \in Seq(S) /\ Len(a) = n /\ \A i \in 1..n : a[i] = q[i]
  OBVIOUS
<1>2. b \in Seq(S) /\ Len(b) = Len(q) - n /\ \A i \in 1..(Len(q) - n) : b[i] = q[n + i]
  OBVIOUS
<1>3. /\ Range(q) = {q[i] : i \in 1..Len(q)}
      /\ Range(a) = {a[i] : i \in 1..n}
      /\ Range(b) = {b[i] : i \in 1..(Len(q) - n)}
  BY <1>1, <1>2, RangeEquality
<1> HIDE DEF a, b
<1>4. ASSUME NEW y \in Range(q) PROVE y \in Range(a) \cup Range(b)
  <2>1. PICK i \in 1..Len(q) : q[i] = y
    BY <1>3
  <2>2. CASE i <= n
    BY <2>1, <2>2, <1>1, <1>3
  <2>3. CASE i > n
    <3>1. i - n \in 1..(Len(q) - n) /\ n + (i - n) = i
      BY <2>3
    <3>2. b[i - n] = y
      BY <3>1, <2>1, <1>2
    <3>3. QED BY <3>1, <3>2, <1>3
  <2>4. QED BY <2>2, <2>3
<1>5. Range(a) \subseteq Range(q)
  BY <1>1, <1>3
<1>6. ASSUME NEW y \in Range(b) PROVE y \in Range(q)
  <2>1. PICK i \in 1..(Len(q) - n) : b[i] = y
    BY <1>3
  <2>2. n + i \in 1..Len(q) /\ q[n + i] = y
    BY <2>1, <1>2
  <2>3. QED BY <2>2, <1>3
<1>7. a # <<>>
  BY <1>1, EmptyQueue
<1>8. QED BY <1>1, <1>2, <1>4, <1>5, <1>6, <1>7 DEF a, b

(* Polling takes the head and leaves the others. *)
LEMMA PollQueue ==
  ASSUME NEW S, NEW q \in Seq(S), q # <<>>
  PROVE  /\ Head(q) \in S /\ Tail(q) \in Seq(S)
         /\ Head(q) \in Range(q)
         /\ Range(q) = {Head(q)} \cup Range(Tail(q))
         /\ Tail(q) = <<>> <=> Len(q) = 1
<1>1. Len(q) \in Nat \ {0}
  BY EmptySeq
<1>2. /\ Head(q) \in S /\ Tail(q) \in Seq(S) /\ Len(Tail(q)) = Len(q) - 1
      /\ Tail(q) = SubSeq(q, 2, Len(q))
      /\ Head(q) = q[1]
  BY HeadTailProperties, TailIsSubSeq
<1>3. Range(q) = Range(SubSeq(q, 1, 1)) \cup Range(Tail(q))
  <2>1. 1 \in Nat \ {0} /\ 1 <= Len(q) /\ 1 + 1 = 2
    BY <1>1
  <2>2. Range(q) = Range(SubSeq(q, 1, 1)) \cup Range(SubSeq(q, 1 + 1, Len(q)))
    BY <2>1, TakeFromQueue
  <2>3. QED BY <2>1, <2>2, <1>2
<1>4. Range(SubSeq(q, 1, 1)) = {q[1]}
  <2>1. SubSeq(q, 1, 1) \in Seq(S) /\ Len(SubSeq(q, 1, 1)) = 1 /\ SubSeq(q, 1, 1)[1] = q[1]
    BY <1>1
  <2>2. Range(SubSeq(q, 1, 1)) = {SubSeq(q, 1, 1)[i] : i \in 1..1}
    BY <2>1, RangeEquality
  <2>3. QED BY <2>1, <2>2
<1>5. Tail(q) = <<>> <=> Len(q) = 1
  <2>1. Tail(q) = <<>> <=> Len(Tail(q)) = 0
    BY <1>2, EmptyQueue
  <2>2. QED BY <2>1, <1>1, <1>2
<1>6. QED BY <1>2, <1>3, <1>4, <1>5

-----------------------------------------------------------------------------
(* How many packets of a kind a queue holds, and how the operations of a queue change    *)
(* that.                                                                                  *)

Places(q, S) == {i \in DOMAIN q : q[i] \in S}
Count(q, S)  == Cardinality(Places(q, S))

(* A queue holds none of a kind, or some. *)
LEMMA CountOfQueue ==
  ASSUME NEW P, NEW q \in Seq(P), NEW S
  PROVE  /\ IsFiniteSet(Places(q, S))
         /\ Count(q, S) \in Nat /\ Count(q, S) <= Len(q)
         /\ Count(q, S) = 0 <=> Range(q) \cap S = {}
         /\ q = <<>> => Count(q, S) = 0
<1>1. /\ Len(q) \in Nat /\ DOMAIN q = 1..Len(q)
      /\ Range(q) = {q[i] : i \in 1..Len(q)}
  BY LenProperties, RangeEquality
<1>2. /\ Places(q, S) \in SUBSET (1..Len(q)) /\ IsFiniteSet(1..Len(q))
      /\ Cardinality(1..Len(q)) = Len(q)
  BY <1>1, FS_Interval DEF Places
<1>3. IsFiniteSet(Places(q, S)) /\ Cardinality(Places(q, S)) <= Len(q)
  BY <1>2, FS_Subset
<1>4. Cardinality(Places(q, S)) \in Nat
  BY <1>3, FS_CardinalityType
<1>5. Cardinality(Places(q, S)) = 0 <=> Places(q, S) = {}
  BY <1>3, FS_EmptySet
<1>6. Places(q, S) = {} <=> Range(q) \cap S = {}
  BY <1>1 DEF Places
<1>7. q = <<>> => Places(q, S) = {}
  BY <1>1, EmptySeq DEF Places
<1>8. QED BY <1>3, <1>4, <1>5, <1>6, <1>7 DEF Count

(* An offered packet is one more of its kinds. *)
LEMMA CountOffered ==
  ASSUME NEW P, NEW q \in Seq(P), NEW x \in P, NEW S
  PROVE  Count(Append(q, x), S) = Count(q, S) + (IF x \in S THEN 1 ELSE 0)
<1> DEFINE r == Append(q, x)  n == Len(q)
<1>1. /\ r \in Seq(P) /\ n \in Nat
      /\ DOMAIN q = 1..n /\ DOMAIN r = 1..(n + 1)
      /\ \A i \in 1..n : r[i] = q[i]
      /\ r[n + 1] = x
  BY AppendProperties, LenProperties
<1> HIDE DEF r, n
<1>2. Places(r, S) = IF x \in S THEN Places(q, S) \cup {n + 1} ELSE Places(q, S)
  BY <1>1 DEF Places
<1>3. n + 1 \notin Places(q, S)
  BY <1>1 DEF Places
<1>4. Cardinality(Places(q, S) \cup {n + 1}) = Cardinality(Places(q, S)) + 1
  BY <1>3, CountOfQueue, FS_AddElement
<1>5. Cardinality(Places(q, S)) \in Nat
  BY CountOfQueue DEF Count
<1>6. QED BY <1>2, <1>4, <1>5 DEF Count, r

(* What is taken and what is left make up the queue. *)
LEMMA CountTaken ==
  ASSUME NEW P, NEW q \in Seq(P), NEW n \in Nat \ {0}, n <= Len(q), NEW S
  PROVE  Count(q, S) = Count(SubSeq(q, 1, n), S) + Count(SubSeq(q, n + 1, Len(q)), S)
<1> DEFINE a == SubSeq(q, 1, n)  b == SubSeq(q, n + 1, Len(q))  m == Len(q)
<1>1. a \in Seq(P) /\ Len(a) = n /\ \A i \in 1..n : a[i] = q[i]
  OBVIOUS
<1>2. b \in Seq(P) /\ Len(b) = m - n /\ \A i \in 1..(m - n) : b[i] = q[n + i]
  OBVIOUS
<1>3. m \in Nat /\ n <= m /\ DOMAIN q = 1..m /\ DOMAIN a = 1..n /\ DOMAIN b = 1..(m - n)
  BY <1>1, <1>2, LenProperties
<1> HIDE DEF a, b, m
<1> DEFINE B == {i \in (n + 1)..m : q[i] \in S}
           g == [i \in B |-> i - n]
<1>4. Places(q, S) = Places(a, S) \cup B /\ Places(a, S) \cap B = {}
  BY <1>1, <1>3 DEF Places
<1>5. IsFiniteSet(Places(a, S)) /\ IsFiniteSet(Places(b, S)) /\ IsFiniteSet(Places(q, S))
  BY <1>1, <1>2, CountOfQueue
<1>6. IsFiniteSet(B)
  <2>1. B \in SUBSET Places(q, S)
    BY <1>4
  <2>2. QED BY <1>5, <2>1, FS_Subset
<1>7. Cardinality(Places(q, S)) = Cardinality(Places(a, S)) + Cardinality(B)
  <2>1. Cardinality(Places(a, S) \cup B)
          = Cardinality(Places(a, S)) + Cardinality(B) - Cardinality(Places(a, S) \cap B)
    BY <1>5, <1>6, FS_Union
  <2>2. Cardinality(Places(a, S) \cap B) = 0
    BY <1>4, FS_EmptySet
  <2>3. Cardinality(Places(a, S)) \in Nat /\ Cardinality(B) \in Nat
    BY <1>5, <1>6, FS_CardinalityType
  <2>4. QED BY <1>4, <2>1, <2>2, <2>3
<1>8. Cardinality(Places(b, S)) = Cardinality(B)
  <2>1. \A i \in B : g[i] \in Places(b, S)
    BY <1>2, <1>3 DEF Places
  <2>2. \A i, j \in B : g[i] = g[j] => i = j
    OBVIOUS
  <2>3. ASSUME NEW k \in Places(b, S) PROVE \E i \in B : g[i] = k
    <3>1. k \in 1..(m - n) /\ b[k] = q[n + k] /\ b[k] \in S
      BY <1>2, <1>3 DEF Places
    <3>2. n + k \in B /\ g[n + k] = k
      BY <1>3, <3>1
    <3>3. QED BY <3>2
  <2>4. g \in Bijection(B, Places(b, S))
    BY <2>1, <2>2, <2>3 DEF Bijection, Injection, Surjection, IsInjective
  <2>5. ExistsBijection(B, Places(b, S))
    BY <2>4 DEF ExistsBijection
  <2>6. QED BY <1>6, <2>5, FS_Bijection
<1>9. QED BY <1>7, <1>8 DEF Count, a, b, m

(* A polled packet is one less of its kinds. *)
LEMMA CountPolled ==
  ASSUME NEW P, NEW q \in Seq(P), q # <<>>, NEW S
  PROVE  Count(q, S) = Count(Tail(q), S) + (IF Head(q) \in S THEN 1 ELSE 0)
<1>1. /\ Len(q) \in Nat \ {0} /\ Tail(q) = SubSeq(q, 2, Len(q)) /\ Tail(q) \in Seq(P)
      /\ Head(q) = q[1]
  BY EmptySeq, HeadTailProperties, TailIsSubSeq
<1>2. Count(q, S) = Count(SubSeq(q, 1, 1), S) + Count(Tail(q), S)
  <2>1. 1 \in Nat \ {0} /\ 1 <= Len(q) /\ 1 + 1 = 2
    BY <1>1
  <2>2. Count(q, S) = Count(SubSeq(q, 1, 1), S) + Count(SubSeq(q, 1 + 1, Len(q)), S)
    BY <2>1, CountTaken
  <2>3. QED BY <1>1, <2>1, <2>2
<1>3. Count(SubSeq(q, 1, 1), S) = IF Head(q) \in S THEN 1 ELSE 0
  <2>1. /\ SubSeq(q, 1, 1) \in Seq(P) /\ DOMAIN SubSeq(q, 1, 1) = {1}
        /\ SubSeq(q, 1, 1)[1] = Head(q)
    BY <1>1
  <2>2. Places(SubSeq(q, 1, 1), S) = IF Head(q) \in S THEN {1} ELSE {}
    BY <2>1 DEF Places
  <2>3. Cardinality({1}) = 1 /\ Cardinality({}) = 0
    BY FS_Singleton, FS_EmptySet
  <2>4. QED BY <2>2, <2>3 DEF Count
<1>4. Count(Tail(q), S) \in Nat
  BY <1>1, CountOfQueue
<1>5. QED BY <1>2, <1>3, <1>4

(* One more packet may be of the kind. *)
LEMMA CountOfMore ==
  ASSUME NEW P, NEW q \in Seq(P), NEW S, NEW x, x \notin S
  PROVE  Count(q, S \cup {x}) = Count(q, S) + Count(q, {x})
<1>1. /\ Places(q, S \cup {x}) = Places(q, S) \cup Places(q, {x})
      /\ Places(q, S) \cap Places(q, {x}) = {}
  BY DEF Places
<1>2. IsFiniteSet(Places(q, S)) /\ IsFiniteSet(Places(q, {x}))
  BY CountOfQueue
<1>3. Cardinality(Places(q, S)) \in Nat /\ Cardinality(Places(q, {x})) \in Nat
  BY <1>2, FS_CardinalityType
<1>4. Cardinality({}) = 0
  BY FS_EmptySet
<1>5. Cardinality(Places(q, S) \cup Places(q, {x}))
        = Cardinality(Places(q, S)) + Cardinality(Places(q, {x}))
            - Cardinality(Places(q, S) \cap Places(q, {x}))
  BY <1>2, FS_Union
<1>6. /\ Cardinality(Places(q, S \cup {x})) = Cardinality(Places(q, S) \cup Places(q, {x}))
      /\ Cardinality(Places(q, S) \cap Places(q, {x})) = 0
  BY <1>1, <1>4, Zenon
<1>7. QED BY <1>3, <1>5, <1>6 DEF Count

-----------------------------------------------------------------------------
(* Types. *)

(* A fault that happens leaves the budget well-formed. *)
LEMMA SpendType ==
  ASSUME NEW kind \in FaultKind, budget \in [FaultKind -> Nat], Spend(kind)
  PROVE  budget' \in [FaultKind -> Nat]
BY DEF Spend

(* OfferBackup keeps the types of what it changes. *)
LEMMA OfferBackupType ==
  ASSUME NEW p \in Packet, backupQ \in Seq(Packet), reported \subseteq Packet, OfferBackup(p)
  PROVE  backupQ' \in Seq(Packet) /\ reported' \subseteq Packet
BY OfferToQueue DEF OfferBackup

(* The variables keep their types; the batch is empty exactly when the stage is idle,  *)
(* and the importer offers a packet its file has (Archiver.java:75-111,                *)
(* CassandraBatchedStagedWriter.java:73-117, FileImportService.java:54-143).           *)
THEOREM TypeCorrect == Spec => []TypeOK
<1> USE ArchiverAssumption DEF FaultKind
<1>0. <<>> \in Seq(Packet) /\ 1 \in Nat \ {0}
  BY EmptySeq
<1>1. Init => TypeOK
  BY <1>0 DEF Init, TypeOK
<1>2. TypeOK /\ [Next]_vars => TypeOK'
  <2> SUFFICES ASSUME TypeOK, [Next]_vars PROVE TypeOK'
    OBVIOUS
  <2> USE DEF TypeOK, queues, stage, imp, disk, ghosts
  <2>1. ASSUME NEW p \in Packet, Receive(p) PROVE TypeOK'
    <3>1. Append(mainQ, p) \in Seq(Packet)
      BY OfferToQueue
    <3>2. mainQ' \in {mainQ, Append(mainQ, p)}
      BY <2>1 DEF Receive
    <3>3. QED BY <2>1, <3>1, <3>2 DEF Receive
  <2>2. ASSUME NEW p \in Packet, ReceiveOverflow(p) PROVE TypeOK'
    <3>1. backupQ' \in Seq(Packet) /\ reported' \subseteq Packet
      BY <2>2, OfferBackupType DEF ReceiveOverflow
    <3>2. QED BY <2>2, <3>1 DEF ReceiveOverflow
  <2>3. CASE TakeBatch
    <3>1. PICK n \in 1..BatchSize :
            /\ n <= Len(mainQ)
            /\ batch' = SubSeq(mainQ, 1, n)
            /\ mainQ' = SubSeq(mainQ, n + 1, Len(mainQ))
      BY <2>3 DEF TakeBatch
    <3>2. n \in Nat \ {0}
      OBVIOUS
    <3>3. batch' \in Seq(Packet) /\ mainQ' \in Seq(Packet) /\ batch' # <<>>
      BY <3>1, <3>2, TakeFromQueue
    <3>4. QED BY <2>3, <3>3 DEF TakeBatch
  <2>4. CASE WriteBatch
    BY <1>0, <2>4, EmptyQueue DEF WriteBatch, Storable
  <2>5. CASE RejectBatch
    <3>1. Range(batch) \subseteq Packet
      BY EmptyQueue
    <3>2. budget' \in [FaultKind -> Nat]
      BY <2>5, SpendType DEF RejectBatch
    <3>3. QED BY <1>0, <2>5, <3>1, <3>2 DEF RejectBatch
  <2>6. CASE FailBatch
    <3>1. budget' \in [FaultKind -> Nat]
      BY <2>6, SpendType DEF FailBatch
    <3>2. Storable(batch) \subseteq Packet
      BY EmptyQueue DEF Storable
    <3>3. QED BY <2>6, <3>1, <3>2 DEF FailBatch
  <2>7. CASE OnFailure
    <3>1. /\ Head(batch) \in Packet /\ Tail(batch) \in Seq(Packet)
          /\ Tail(batch) = <<>> <=> Len(batch) = 1
      BY <2>7, PollQueue DEF OnFailure
    <3>2. backupQ' \in Seq(Packet) /\ reported' \subseteq Packet
      BY <2>7, <3>1, OfferBackupType DEF OnFailure
    <3>3. QED BY <2>7, <3>1, <3>2 DEF OnFailure
  <2>8. CASE BackupWrite
    BY <2>8, PollQueue, OfferToQueue DEF BackupWrite
  <2>9. ASSUME NEW f \in FileName, BackupClose(f) PROVE TypeOK'
    <3>1. zips' \in [FileName -> Seq(Packet)]
      BY <2>9 DEF BackupClose
    <3>2. impPc = "offer" => next <= Len(zips'[file])
      BY <2>9, EmptyQueue DEF BackupClose
    <3>3. QED BY <1>0, <2>9, <3>1, <3>2 DEF BackupClose
  <2>10. CASE BeginScan
    BY <2>10 DEF BeginScan, Files
  <2>11. CASE EndScan
    <3>1. budget' \in [FaultKind -> Nat]
      <4>1. CASE Spend("disk")
        BY <4>1, SpendType
      <4>2. UNCHANGED budget \/ Spend("disk")
        BY <2>11, Zenon DEF EndScan
      <4>3. QED BY <4>1, <4>2
    <3>2. QED BY <2>11, <3>1 DEF EndScan
  <2>12. ASSUME NEW f \in FileName, OpenFile(f) PROVE TypeOK'
    BY <1>0, <2>12 DEF OpenFile
  <2>13. CASE ProbeQueue
    BY <2>13 DEF ProbeQueue
  <2>14. CASE OfferRestored
    <3>1. zips[file][next] \in Packet
      BY <2>14, ElementOfSeq DEF OfferRestored
    <3>2. Append(mainQ, zips[file][next]) \in Seq(Packet)
      BY <3>1, OfferToQueue
    <3>3. mainQ' \in {mainQ, Append(mainQ, zips[file][next])}
      BY <2>14 DEF OfferRestored
    <3>4. restored' \in {restored, restored \cup {zips[file][next]}}
      BY <2>14 DEF OfferRestored
    <3>5. next' \in {next, next + 1}
      BY <2>14 DEF OfferRestored
    <3>6. mainQ' \in Seq(Packet) /\ restored' \subseteq Packet
      BY <3>1, <3>2, <3>3, <3>4
    <3>7. next' \in Nat \ {0}
      BY <3>5, SMTT(30)
    <3>8. QED BY <2>14, <3>6, <3>7, SMTT(30) DEF OfferRestored
  <2>15. CASE FinishFile
    <3>1. zips' \in [FileName -> Seq(Packet)]
      BY <1>0, <2>15 DEF FinishFile
    <3>2. budget' \in [FaultKind -> Nat]
      <4>1. CASE Spend("disk")
        BY <4>1, SpendType
      <4>2. UNCHANGED budget \/ Spend("disk")
        BY <2>15, Zenon DEF FinishFile
      <4>3. QED BY <4>1, <4>2
    <3>3. QED BY <1>0, <2>15, <3>1, <3>2 DEF FinishFile
  <2>16. CASE FailFile
    <3>0. Range(zips[file]) \subseteq Packet
      BY EmptyQueue
    <3>1. zips' \in [FileName -> Seq(Packet)] /\ unreadable' \subseteq Packet
      BY <1>0, <2>16, <3>0 DEF FailFile
    <3>2. budget' \in [FaultKind -> Nat]
      BY <2>16, SpendType DEF FailFile
    <3>3. QED BY <1>0, <2>16, <3>1, <3>2 DEF FailFile
  <2>17. CASE NextFile
    BY <2>17 DEF NextFile
  <2>18. CASE StopImporter
    BY <1>0, <2>18 DEF StopImporter
  <2>19. CASE Shutdown
    BY <2>19, SpendType DEF Shutdown
  <2>20. CASE Halt
    <3>1. InMemory \subseteq Packet /\ Storable(batch) \subseteq Packet
      BY EmptyQueue DEF InMemory, Storable
    <3>2. zips' \in [FileName -> Seq(Packet)]
      BY <2>20 DEF Halt
    <3>3. budget' \in [FaultKind -> Nat]
      <4>1. CASE Spend("stop")
        BY <4>1, SpendType
      <4>2. UNCHANGED budget \/ Spend("stop")
        BY <2>20, Zenon DEF Halt
      <4>3. QED BY <4>1, <4>2
    <3>4. QED BY <1>0, <2>20, <3>1, <3>2, <3>3 DEF Halt
  <2>21. CASE Restart
    BY <2>21 DEF Restart
  <2>22. CASE UNCHANGED vars
    BY <2>22 DEF vars
  <2>23. QED
    BY <2>1, <2>2, <2>3, <2>4, <2>5, <2>6, <2>7, <2>8, <2>9, <2>10, <2>11, <2>12, <2>13,
       <2>14, <2>15, <2>16, <2>17, <2>18, <2>19, <2>20, <2>21, <2>22
       DEF Next, Readers, Stage, Backup, Importer, Process
<1>3. QED BY <1>1, <1>2, PTL DEF Spec

-----------------------------------------------------------------------------
(* What steps do to the packets in someone's care. *)

(* A packet is on disk when an unreadable file or a backup file has it. *)
LEMMA OnDiskMember ==
  ASSUME NEW F, NEW p
  PROVE  p \in OnDiskBut(F) <=> \/ p \in unreadable
                               \/ \E f \in FileName \ F : p \in Range(zips[f])
BY DEF OnDiskBut

(* The same of the next state. *)
LEMMA OnDiskMemberNext ==
  ASSUME NEW F, NEW p
  PROVE  p \in OnDiskBut(F)' <=> \/ p \in unreadable'
                                \/ \E f \in FileName \ F : p \in Range(zips'[f])
BY DEF OnDiskBut

(* A packet offered to the backup service is queued there or reported. *)
LEMMA OfferBackupKeeps ==
  ASSUME NEW p \in Packet, backupQ \in Seq(Packet), OfferBackup(p)
  PROVE  /\ reported \subseteq reported'
         /\ Range(backupQ) \subseteq Range(backupQ')
         /\ p \in reported' \cup Range(backupQ')
<1>1. Range(Append(backupQ, p)) = Range(backupQ) \cup {p}
  BY OfferToQueue
<1>2. QED BY <1>1 DEF OfferBackup

(* Only the end of the process and the closing of a backup file take packets out of    *)
(* someone's care, and a closed file has them.                                         *)
LEMMA CareKept ==
  ASSUME TypeOK, [Next]_vars, ~Halt
  PROVE  \/ InCare \subseteq InCare'
         \/ \E f \in FileName : BackupClose(f) /\ InCare \subseteq InCare' \cup Range(zips'[f])
<1> USE DEF InCare, InMemory, queues, stage, imp, disk, ghosts
<1> DEFINE Kept == InCare \subseteq InCare'
<1>0. TypeOK
  OBVIOUS
<1>1. ASSUME NEW p \in Packet, Receive(p) PROVE Kept
  <2>1. Range(Append(mainQ, p)) = Range(mainQ) \cup {p}
    BY OfferToQueue DEF TypeOK
  <2>2. QED BY <1>1, <2>1 DEF Receive
<1>2. ASSUME NEW p \in Packet, ReceiveOverflow(p) PROVE Kept
  <2>1. /\ reported \subseteq reported'
        /\ Range(backupQ) \subseteq Range(backupQ')
        /\ p \in reported' \cup Range(backupQ')
    BY <1>2, OfferBackupKeeps DEF ReceiveOverflow, TypeOK
  <2>2. QED BY <1>2, <2>1 DEF ReceiveOverflow
<1>3. ASSUME TakeBatch PROVE Kept
  <2>1. PICK n \in 1..BatchSize :
          /\ n <= Len(mainQ)
          /\ batch' = SubSeq(mainQ, 1, n)
          /\ mainQ' = SubSeq(mainQ, n + 1, Len(mainQ))
    BY <1>3 DEF TakeBatch
  <2>2. Range(mainQ) = Range(batch') \cup Range(mainQ')
    <3>1. n \in Nat \ {0}
      BY ArchiverAssumption
    <3>2. QED BY <2>1, <3>1, TakeFromQueue DEF TypeOK
  <2>3. Range(batch) = {}
    BY <1>3, EmptyQueue DEF TakeBatch, TypeOK
  <2>4. QED BY <1>3, <2>2, <2>3 DEF TakeBatch
<1>4. ASSUME WriteBatch PROVE Kept
  BY <1>4 DEF WriteBatch, Storable
<1>5. ASSUME RejectBatch PROVE Kept
  BY <1>5 DEF RejectBatch
<1>6. ASSUME FailBatch PROVE Kept
  BY <1>6 DEF FailBatch
<1>7. ASSUME OnFailure PROVE Kept
  <2>1. Head(batch) \in Packet /\ Range(batch) = {Head(batch)} \cup Range(Tail(batch))
    BY <1>7, PollQueue DEF OnFailure, TypeOK
  <2>2. /\ reported \subseteq reported'
        /\ Range(backupQ) \subseteq Range(backupQ')
        /\ Head(batch) \in reported' \cup Range(backupQ')
    BY <1>7, <2>1, OfferBackupKeeps DEF OnFailure, TypeOK
  <2>3. QED BY <1>7, <2>1, <2>2 DEF OnFailure
<1>8. ASSUME BackupWrite PROVE Kept
  <2>1. Head(backupQ) \in Packet /\ Range(backupQ) = {Head(backupQ)} \cup Range(Tail(backupQ))
    BY <1>8, PollQueue DEF BackupWrite, TypeOK
  <2>2. Range(Append(open, Head(backupQ))) = Range(open) \cup {Head(backupQ)}
    BY <2>1, OfferToQueue DEF TypeOK
  <2>3. QED BY <1>8, <2>1, <2>2 DEF BackupWrite
<1>9. ASSUME NEW f \in FileName, BackupClose(f)
      PROVE  InCare \subseteq InCare' \cup Range(zips'[f])
  <2>1. zips'[f] = open
    BY <1>9 DEF BackupClose, TypeOK
  <2>2. QED BY <1>9, <2>1 DEF BackupClose
<1>10. ASSUME OfferRestored PROVE Kept
  <2>1. zips[file][next] \in Packet
    BY <1>10, ElementOfSeq DEF OfferRestored, TypeOK
  <2>2. Range(Append(mainQ, zips[file][next])) = Range(mainQ) \cup {zips[file][next]}
    BY <2>1, OfferToQueue DEF TypeOK
  <2>3. QED BY <1>10, <2>2 DEF OfferRestored
<1>11. ASSUME BeginScan \/ EndScan \/ (\E f \in FileName : OpenFile(f)) \/ ProbeQueue
               \/ FinishFile \/ FailFile \/ NextFile \/ StopImporter
       PROVE  Kept
  BY <1>11 DEF BeginScan, EndScan, OpenFile, ProbeQueue, FinishFile, FailFile, NextFile,
       StopImporter
<1>12. ASSUME Shutdown \/ Restart \/ UNCHANGED vars PROVE Kept
  BY <1>12 DEF Shutdown, Restart, vars
<1>13. QED
  BY <1>1, <1>2, <1>3, <1>4, <1>5, <1>6, <1>7, <1>8, <1>9, <1>10, <1>11, <1>12
     DEF Next, Readers, Stage, Backup, Importer, Process

-----------------------------------------------------------------------------
(* The inductive invariant. To see that deleting a file loses nothing one must know    *)
(* that what was offered of it is in someone's care, which in turn needs that nobody   *)
(* but the importer removes files, and that no file is replaced.                       *)
IInv == TypeOK /\ OfferedIsHandedOver /\ NothingLost

(* Steps that leave the files alone and keep packets in care lose nothing. *)
LEMMA QuietNothingLost ==
  ASSUME NothingLost, InCare \subseteq InCare', UNCHANGED <<disk, received, vanished>>
  PROVE  NothingLost'
<1>1. OnDisk' = OnDisk
  BY DEF OnDisk, OnDiskBut, disk
<1>2. QED BY <1>1 DEF NothingLost

(* If they leave the importer alone too, what it has offered stays handed over. *)
LEMMA QuietHandedOver ==
  ASSUME OfferedIsHandedOver, InCare \subseteq InCare', UNCHANGED <<disk, imp>>
  PROVE  OfferedIsHandedOver'
<1>1. OnDiskBut({file})' = OnDiskBut({file}) /\ Files' = Files
  BY DEF OnDiskBut, Files, disk, imp
<1>2. QED BY <1>1 DEF OfferedIsHandedOver, disk, imp

(* What the importer offered stays handed over, whatever happens. *)
LEMMA HandedOverStep == IInv /\ [Next]_vars => OfferedIsHandedOver'
<1> SUFFICES ASSUME IInv, [Next]_vars PROVE OfferedIsHandedOver'
  OBVIOUS
<1> USE DEF queues, stage, imp, disk, ghosts
<1>0. TypeOK /\ OfferedIsHandedOver
  BY DEF IInv
<1>1. CASE Halt
  BY <1>1 DEF Halt, OfferedIsHandedOver
<1>2. ASSUME NEW f \in FileName, BackupClose(f) PROVE OfferedIsHandedOver'
  <2>1. InCare \subseteq InCare' \cup Range(zips'[f])
    BY <1>0, <1>2 DEF BackupClose, InCare, InMemory, TypeOK
  <2>2. /\ zips[f] = <<>> /\ zips'[f] # <<>>
        /\ \A g \in FileName \ {f} : zips'[g] = zips[g]
    BY <1>0, <1>2 DEF BackupClose, TypeOK
  <2>3. UNCHANGED <<imp, unreadable>>
    BY <1>2 DEF BackupClose
  <2>4. Files \subseteq Files'
    BY <2>2 DEF Files
  <2>5. Range(zips[f]) = {}
    BY <1>0, <2>2, EmptyQueue DEF TypeOK
  <2>6. CASE impPc \notin {"probe", "offer"}
    BY <1>0, <2>3, <2>4, <2>6 DEF OfferedIsHandedOver
  <2>7. CASE impPc \in {"probe", "offer"}
    <3>1. file \in FileName \ {f} /\ file \in Files \ todo
      BY <1>0, <2>2, <2>7 DEF OfferedIsHandedOver, Files
    <3>2. zips'[file] = zips[file]
      BY <2>2, <3>1
    <3>3. ASSUME NEW x \in InCare \cup OnDiskBut({file})
          PROVE  x \in InCare' \cup OnDiskBut({file})'
      <4>1. CASE x \in InCare
        <5>1. CASE x \in Range(zips'[f])
          <6>1. f \in FileName \ {file} /\ file' = file
            BY <3>1, <2>3
          <6>2. QED BY <5>1, <6>1 DEF OnDiskBut
        <5>2. QED BY <4>1, <5>1, <2>1
      <4>2. CASE x \in unreadable
        BY <4>2, <2>3 DEF OnDiskBut
      <4>3. CASE \E g \in FileName \ {file} : x \in Range(zips[g])
        <5>1. PICK g \in FileName \ {file} : x \in Range(zips[g])
          BY <4>3
        <5>2. zips'[g] = zips[g] /\ file' = file
          BY <5>1, <2>2, <2>3, <2>5
        <5>3. x \in OnDiskBut({file})'
          BY <5>1, <5>2, OnDiskMemberNext DEF OnDiskBut
        <5>4. QED BY <5>3
      <4>4. QED BY <4>1, <4>2, <4>3, OnDiskMember
    <3>4. QED
      BY <1>0, <2>3, <2>4, <2>7, <3>1, <3>2, <3>3 DEF OfferedIsHandedOver
  <2>8. QED BY <2>6, <2>7
<1>3. ASSUME ~Halt, \A f \in FileName : ~BackupClose(f) PROVE OfferedIsHandedOver'
  <2>0. InCare \subseteq InCare'
    BY <1>0, <1>3, CareKept
  <2>1. CASE Readers \/ Stage \/ BackupWrite \/ Process \/ UNCHANGED vars
    <3>1. UNCHANGED <<disk, imp>>
      BY <1>3, <2>1 DEF Readers, Receive, ReceiveOverflow, Stage, TakeBatch, WriteBatch,
         RejectBatch, FailBatch, OnFailure, BackupWrite, Process, Shutdown, Restart, vars
    <3>2. QED BY <1>0, <2>0, <3>1, QuietHandedOver
  <2>2. CASE BeginScan
    BY <2>2 DEF BeginScan, OfferedIsHandedOver, Files
  <2>3. CASE EndScan
    BY <2>3 DEF EndScan, OfferedIsHandedOver
  <2>4. ASSUME NEW f \in FileName, OpenFile(f) PROVE OfferedIsHandedOver'
    <3>1. Len(zips[f]) \in Nat
      BY <1>0, EmptyQueue DEF TypeOK
    <3>2. Files' = Files
      BY <2>4 DEF OpenFile, Files
    <3>3. QED BY <1>0, <2>4, <3>1, <3>2 DEF OpenFile, OfferedIsHandedOver
  <2>5. CASE ProbeQueue
    <3>1. Files' = Files /\ OnDiskBut({file})' = OnDiskBut({file})
      BY <2>5 DEF ProbeQueue, Files, OnDiskBut
    <3>2. QED BY <1>0, <2>0, <2>5, <3>1 DEF ProbeQueue, OfferedIsHandedOver
  <2>6. CASE OfferRestored
    <3>1. Files' = Files /\ OnDiskBut({file})' = OnDiskBut({file}) /\ next <= Len(zips[file])
      BY <1>0, <2>6 DEF OfferRestored, Files, OnDiskBut, TypeOK
    <3>2. CASE UNCHANGED next
      BY <1>0, <2>0, <2>6, <3>1, <3>2 DEF OfferRestored, OfferedIsHandedOver
    <3>3. CASE mainQ' = Append(mainQ, zips[file][next]) /\ next' = next + 1
      <4>1. zips[file][next] \in Packet
        BY <1>0, <3>1, ElementOfSeq DEF TypeOK
      <4>2. zips[file][next] \in InCare'
        BY <1>0, <4>1, <3>3, OfferToQueue DEF TypeOK, InCare, InMemory
      <4>3. ASSUME NEW i \in 1..(next' - 1)
            PROVE  zips[file][i] \in InCare' \cup OnDiskBut({file})
        <5>1. i \in 1..(next - 1) \/ i = next
          BY <1>0, <3>3 DEF TypeOK
        <5>2. QED BY <1>0, <2>0, <2>6, <4>2, <5>1 DEF OfferRestored, OfferedIsHandedOver
      <4>4. next' <= Len(zips[file]) + 1
        BY <1>0, <3>1, <3>3, EmptyQueue DEF TypeOK
      <4>5. QED
        BY <1>0, <2>6, <3>1, <4>3, <4>4 DEF OfferRestored, OfferedIsHandedOver
    <3>4. QED BY <2>6, <3>2, <3>3 DEF OfferRestored
  <2>7. CASE FinishFile \/ FailFile
    <3>1. /\ \A g \in FileName \ {file} : zips'[g] = zips[g]
          /\ impPc = "probe" /\ impPc' = "pause" /\ todo' = todo
      BY <1>0, <2>7 DEF FinishFile, FailFile, TypeOK
    <3>2. todo \subseteq Files /\ file \notin todo
      BY <1>0, <3>1 DEF OfferedIsHandedOver
    <3>3. todo' \subseteq Files'
      BY <3>1, <3>2 DEF Files
    <3>4. QED BY <3>1, <3>3 DEF OfferedIsHandedOver
  <2>8. CASE NextFile
    BY <1>0, <2>8 DEF NextFile, OfferedIsHandedOver, Files
  <2>9. CASE StopImporter
    BY <2>9 DEF StopImporter, OfferedIsHandedOver
  <2>10. QED
    BY <1>3, <2>1, <2>2, <2>3, <2>4, <2>5, <2>6, <2>7, <2>8, <2>9 DEF Next, Backup, Importer
<1>4. QED BY <1>1, <1>2, <1>3

(* A file that a step removes has been handed over. *)
LEMMA RemovedFileStep ==
  ASSUME IInv, [Next]_vars, NEW f \in Files, zips'[f] # zips[f]
  PROVE  Range(zips[f]) \subseteq (InCare \cup OnDisk)'
<1> USE DEF queues, stage, imp, disk, ghosts
<1>0. TypeOK /\ OfferedIsHandedOver /\ f \in FileName /\ zips[f] # <<>>
  BY DEF IInv, Files
<1>1. f = file /\ (FinishFile \/ FailFile)
  <2>1. ASSUME NEW g \in FileName, BackupClose(g) PROVE FALSE
    BY <1>0, <2>1 DEF BackupClose, TypeOK
  <2>2. ASSUME Halt PROVE FALSE
    BY <1>0, <2>2 DEF Halt, TypeOK
  <2>3. UNCHANGED zips \/ FinishFile \/ FailFile
    BY <2>1, <2>2 DEF Next, Readers, Receive, ReceiveOverflow, Stage, TakeBatch, WriteBatch,
       RejectBatch, FailBatch, OnFailure, Backup, BackupWrite, Process, Shutdown, Restart,
       vars, Importer, BeginScan, EndScan, OpenFile, ProbeQueue, OfferRestored, NextFile,
       StopImporter
  <2>4. QED BY <1>0, <2>3 DEF FinishFile, FailFile, TypeOK
<1>2. InCare \subseteq InCare'
  BY <1>1 DEF FinishFile, FailFile, InCare, InMemory
<1>3. CASE FinishFile
  <2>1. next > Len(zips[file]) /\ Len(zips[file]) \in Nat
    BY <1>0, <1>3, EmptyQueue DEF FinishFile, TypeOK
  <2>2. ASSUME NEW x \in Range(zips[file]) PROVE x \in (InCare \cup OnDisk)'
    <3>1. PICK i \in 1..Len(zips[file]) : zips[file][i] = x
      <4>1. zips[file] \in Seq(Packet)
        BY <1>0 DEF TypeOK
      <4>2. QED BY <4>1, <2>2, RangeEquality
    <3>2. x \in InCare \cup OnDiskBut({file})
      <4>1. next \in Nat /\ impPc = "probe"
        BY <1>0, <1>3 DEF FinishFile, TypeOK
      <4>2. i \in 1..(next - 1)
        BY <4>1, <2>1, <3>1
      <4>3. QED BY <1>0, <3>1, <4>1, <4>2 DEF OfferedIsHandedOver
    <3>3. CASE x \in OnDiskBut({file})
      <4>1. /\ unreadable' = unreadable
            /\ \A g \in FileName \ {file} : zips'[g] = zips[g]
        BY <1>0, <1>3 DEF FinishFile, TypeOK
      <4>2. x \in OnDisk'
        BY <3>3, <4>1 DEF OnDisk, OnDiskBut
      <4>3. QED BY <4>2
    <3>4. QED BY <1>2, <3>2, <3>3
  <2>3. QED BY <1>1, <2>2
<1>4. CASE FailFile
  <2>1. Range(zips[file]) \subseteq unreadable'
    BY <1>1, <1>4 DEF FailFile
  <2>2. QED BY <1>1, <2>1 DEF OnDisk, OnDiskBut
<1>5. QED BY <1>1, <1>3, <1>4

(* A step keeps what is on disk there, or leaves it in someone's care. *)
LEMMA DiskKept ==
  ASSUME IInv, [Next]_vars
  PROVE  OnDisk \subseteq (InCare \cup OnDisk)'
<1>1. unreadable \subseteq unreadable'
  BY DEF Next, Readers, Receive, ReceiveOverflow, Stage, TakeBatch, WriteBatch,
     RejectBatch, FailBatch, OnFailure, Backup, BackupWrite, BackupClose, Process, Shutdown,
     Halt, Restart, vars, Importer, BeginScan, EndScan, OpenFile, ProbeQueue, OfferRestored,
     FinishFile, FailFile, NextFile, StopImporter, disk
<1>2. ASSUME NEW f \in FileName PROVE Range(zips[f]) \subseteq (InCare \cup OnDisk)'
  <2>1. CASE zips'[f] = zips[f]
    BY <2>1 DEF OnDisk, OnDiskBut
  <2>2. CASE zips'[f] # zips[f] /\ f \in Files
    BY <2>2, RemovedFileStep
  <2>3. CASE f \notin Files
    BY <2>3, EmptyQueue DEF Files, IInv, TypeOK
  <2>4. QED BY <2>1, <2>2, <2>3
<1>3. QED BY <1>1, <1>2 DEF OnDisk, OnDiskBut

(* A packet in someone's care stays so, reaches the disk, or vanishes with the process. *)
LEMMA CareOrVanished ==
  ASSUME IInv, [Next]_vars
  PROVE  InCare \subseteq (InCare \cup OnDisk)' \cup vanished'
<1>1. CASE Halt
  <2>1. reported' = reported /\ stored \subseteq stored' /\ InMemory \subseteq vanished'
    BY <1>1 DEF Halt
  <2>2. QED BY <2>1 DEF InCare
<1>2. CASE ~Halt
  <2>1. ASSUME NEW f \in FileName PROVE Range(zips'[f]) \subseteq OnDisk'
    BY DEF OnDisk, OnDiskBut
  <2>2. QED BY <1>2, <2>1, CareKept DEF IInv
<1>3. QED BY <1>1, <1>2

(* No packet the readers delivered is lost without a trace: it is stored, in memory, in *)
(* a backup file or reported, or it was in memory when a process ended                  *)
(* (Archiver.java:86-109, CassandraBatchedStagedWriter.java:73-116,                     *)
(* FileImportService.java:115-143).                                                     *)
LEMMA NothingLostStep == IInv /\ [Next]_vars => NothingLost'
<1> SUFFICES ASSUME IInv, [Next]_vars PROVE NothingLost'
  OBVIOUS
<1>1. vanished \subseteq vanished'
  BY DEF Next, Readers, Receive, ReceiveOverflow, Stage, TakeBatch, WriteBatch,
     RejectBatch, FailBatch, OnFailure, Backup, BackupWrite, BackupClose, Process, Shutdown,
     Halt, Restart, vars, Importer, BeginScan, EndScan, OpenFile, ProbeQueue, OfferRestored,
     FinishFile, FailFile, NextFile, StopImporter, ghosts
<1>2. received \subseteq (InCare \cup OnDisk)' \cup vanished'
  BY <1>1, DiskKept, CareOrVanished DEF IInv, NothingLost
<1>3. ASSUME NEW p \in Packet, Receive(p) PROVE NothingLost'
  <2>1. Range(Append(mainQ, p)) = Range(mainQ) \cup {p}
    BY OfferToQueue DEF IInv, TypeOK
  <2>2. received' = received \cup {p} /\ p \in InMemory'
    BY <1>3, <2>1 DEF Receive, InMemory
  <2>3. QED BY <1>2, <2>2 DEF NothingLost, InCare
<1>4. ASSUME \A p \in Packet : ~Receive(p) PROVE received' = received
  BY <1>4 DEF Next, Readers, ReceiveOverflow, Stage, TakeBatch, WriteBatch,
     RejectBatch, FailBatch, OnFailure, Backup, BackupWrite, BackupClose, Process, Shutdown,
     Halt, Restart, vars, Importer, BeginScan, EndScan, OpenFile, ProbeQueue, OfferRestored,
     FinishFile, FailFile, NextFile, StopImporter, ghosts
<1>5. QED BY <1>2, <1>3, <1>4 DEF NothingLost

(* The inductive invariant holds. *)
THEOREM Invariance == Spec => []IInv
<1>1. Init => OfferedIsHandedOver /\ NothingLost
  BY DEF Init, OfferedIsHandedOver, NothingLost
<1>2. TypeOK /\ OfferedIsHandedOver /\ NothingLost /\ [Next]_vars
        => OfferedIsHandedOver' /\ NothingLost'
  BY HandedOverStep, NothingLostStep DEF IInv
<1>3. QED BY <1>1, <1>2, TypeCorrect, PTL DEF Spec, IInv

(* Nothing is lost without a trace, for any sizes and any number of faults. *)
THEOREM Conservation == Spec => []NothingLost
<1>1. IInv => NothingLost
  BY DEF IInv
<1>2. QED BY <1>1, Invariance, PTL

(* What the importer has offered of the file it reads exists elsewhere. *)
THEOREM HandOver == Spec => []OfferedIsHandedOver
<1>1. IInv => OfferedIsHandedOver
  BY DEF IInv
<1>2. QED BY <1>1, Invariance, PTL

(* A backup file goes away only when each of its packets is somewhere else. *)
THEOREM SafeDeletion == Spec => DeletedFileIsHandedOver
<1>1. IInv /\ [Next]_vars =>
        [\A f \in Files : zips'[f] = <<>> =>
           Range(zips[f]) \subseteq (InCare \cup OnDisk)']_vars
  BY RemovedFileStep DEF Files
<1>2. QED BY <1>1, Invariance, PTL DEF Spec, DeletedFileIsHandedOver

-----------------------------------------------------------------------------
(* Where packets come from. *)

(* A packet offered to the backup service is all that it gets. *)
LEMMA OfferBackupAdds ==
  ASSUME NEW p \in Packet, backupQ \in Seq(Packet), OfferBackup(p)
  PROVE  reported' \subseteq reported \cup {p} /\ Range(backupQ') \subseteq Range(backupQ) \cup {p}
<1>1. Range(Append(backupQ, p)) = Range(backupQ) \cup {p}
  BY OfferToQueue
<1>2. QED BY <1>1 DEF OfferBackup

(* What is stored, reported or lost with the process was in memory before; what is in  *)
(* memory was there, was on disk or has just been received.                            *)
LEMMA Provenance ==
  ASSUME TypeOK, [Next]_vars
  PROVE  /\ stored \subseteq stored' /\ stored' \subseteq stored \cup InMemory
         /\ reported \subseteq reported' /\ reported' \subseteq reported \cup InMemory
         /\ vanished \subseteq vanished' /\ vanished' \subseteq vanished \cup InMemory
         /\ ~Halt => vanished' = vanished
         /\ OnDisk' \subseteq OnDisk \cup InMemory
         /\ InMemory' \subseteq InMemory \cup OnDisk \cup (received' \ received)
         /\ received \subseteq received'
<1> USE DEF queues, stage, imp, disk, ghosts
<1> DEFINE Books == /\ stored \subseteq stored' /\ stored' \subseteq stored \cup InMemory
                    /\ reported \subseteq reported' /\ reported' \subseteq reported \cup InMemory
                    /\ vanished \subseteq vanished' /\ vanished' \subseteq vanished \cup InMemory
                    /\ ~Halt => vanished' = vanished
           Mem   == /\ InMemory' \subseteq InMemory \cup OnDisk \cup (received' \ received)
                    /\ received \subseteq received'
<1>1. Books
  <2>1. Range(batch) \subseteq InMemory /\ overflow \subseteq InMemory
    BY DEF InMemory
  <2>2. ASSUME NEW p \in Packet, ReceiveOverflow(p) PROVE Books
    BY <2>1, <2>2 DEF ReceiveOverflow, OfferBackup
  <2>3. ASSUME WriteBatch \/ RejectBatch \/ FailBatch PROVE Books
    BY <2>1, <2>3 DEF WriteBatch, RejectBatch, FailBatch, Storable
  <2>4. ASSUME OnFailure PROVE Books
    <3>1. Head(batch) \in Range(batch)
      BY <2>4, PollQueue DEF OnFailure, TypeOK
    <3>2. QED BY <2>1, <2>4, <3>1 DEF OnFailure, OfferBackup
  <2>5. ASSUME Halt PROVE Books
    BY <2>1, <2>5 DEF Halt, Storable
  <2>6. ASSUME ~WriteBatch, ~RejectBatch, ~FailBatch, ~OnFailure, ~Halt,
               \A p \in Packet : ~ReceiveOverflow(p)
        PROVE  Books
    BY <2>6 DEF Next, Readers, Receive, Stage, TakeBatch, Backup, BackupWrite, BackupClose,
       Process, Shutdown, Restart, vars, Importer, BeginScan, EndScan, OpenFile, ProbeQueue,
       OfferRestored, FinishFile, FailFile, NextFile, StopImporter
  <2>7. QED BY <2>2, <2>3, <2>4, <2>5, <2>6
<1>2. OnDisk' \subseteq OnDisk \cup InMemory
  <2>1. unreadable' \subseteq unreadable \cup OnDisk
    <3>1. Range(zips[file]) \subseteq OnDisk
      BY DEF TypeOK, OnDisk, OnDiskBut
    <3>2. CASE FailFile
      BY <3>1, <3>2 DEF FailFile
    <3>3. CASE ~FailFile
      BY <3>3 DEF Next, Readers, Receive, ReceiveOverflow, Stage, TakeBatch, WriteBatch,
         RejectBatch, FailBatch, OnFailure, Backup, BackupWrite, BackupClose, Process, Shutdown,
         Halt, Restart, vars, Importer, BeginScan, EndScan, OpenFile, ProbeQueue, OfferRestored,
         FinishFile, NextFile, StopImporter
    <3>4. QED BY <3>2, <3>3
  <2>2. ASSUME NEW f \in FileName PROVE zips'[f] \in {zips[f], <<>>, open}
    <3>1. ASSUME NEW g \in FileName, BackupClose(g) PROVE zips'[f] \in {zips[f], open}
      BY <3>1 DEF BackupClose, TypeOK
    <3>2. CASE Halt \/ FinishFile \/ FailFile
      BY <3>2 DEF Halt, FinishFile, FailFile, TypeOK
    <3>3. ASSUME ~Halt, ~FinishFile, ~FailFile, \A g \in FileName : ~BackupClose(g)
          PROVE  zips'[f] = zips[f]
      BY <3>3 DEF Next, Readers, Receive, ReceiveOverflow, Stage, TakeBatch, WriteBatch,
         RejectBatch, FailBatch, OnFailure, Backup, BackupWrite, Process, Shutdown,
         Restart, vars, Importer, BeginScan, EndScan, OpenFile, ProbeQueue, OfferRestored,
         NextFile, StopImporter
    <3>4. QED BY <3>1, <3>2, <3>3
  <2>3. Range(<<>>) = {}
    BY EmptyQueue, <<>> \in Seq(Packet)
  <2>4. Range(open) \subseteq InMemory
    BY DEF InMemory
  <2>5. ASSUME NEW f \in FileName PROVE Range(zips'[f]) \subseteq OnDisk \cup InMemory
    <3>1. Range(zips[f]) \subseteq OnDisk
      BY DEF OnDisk, OnDiskBut
    <3>2. QED BY <2>2, <2>3, <2>4, <3>1
  <2>6. unreadable \subseteq OnDisk
    BY DEF OnDisk, OnDiskBut
  <2>7. QED BY <2>1, <2>5, <2>6 DEF OnDisk, OnDiskBut
<1>3. Mem
  <2>1. ASSUME NEW p \in Packet, Receive(p) PROVE Mem
    <3>1. Range(Append(mainQ, p)) = Range(mainQ) \cup {p}
      BY OfferToQueue DEF TypeOK
    <3>2. QED BY <2>1, <3>1 DEF Receive, InMemory
  <2>2. ASSUME NEW p \in Packet, ReceiveOverflow(p) PROVE Mem
    <3>1. Range(backupQ') \subseteq Range(backupQ) \cup {p}
      BY <2>2, OfferBackupAdds DEF ReceiveOverflow, TypeOK
    <3>2. QED BY <2>2, <3>1 DEF ReceiveOverflow, InMemory
  <2>3. ASSUME TakeBatch PROVE Mem
    <3>1. PICK n \in 1..BatchSize :
            /\ n <= Len(mainQ)
            /\ batch' = SubSeq(mainQ, 1, n)
            /\ mainQ' = SubSeq(mainQ, n + 1, Len(mainQ))
      BY <2>3 DEF TakeBatch
    <3>2. n \in Nat \ {0}
      BY ArchiverAssumption
    <3>3. Range(mainQ) = Range(batch') \cup Range(mainQ')
      BY <3>1, <3>2, TakeFromQueue DEF TypeOK
    <3>4. QED BY <2>3, <3>3 DEF TakeBatch, InMemory
  <2>4. Range(<<>>) = {}
    BY EmptyQueue, <<>> \in Seq(Packet)
  <2>5. ASSUME WriteBatch \/ RejectBatch \/ FailBatch PROVE Mem
    BY <2>4, <2>5 DEF WriteBatch, RejectBatch, FailBatch, InMemory
  <2>6. ASSUME OnFailure PROVE Mem
    <3>1. /\ Head(batch) \in Packet /\ Head(batch) \in Range(batch)
          /\ Range(batch) = {Head(batch)} \cup Range(Tail(batch))
      BY <2>6, PollQueue DEF OnFailure, TypeOK
    <3>2. Range(backupQ') \subseteq Range(backupQ) \cup {Head(batch)}
      BY <2>6, <3>1, OfferBackupAdds DEF OnFailure, TypeOK
    <3>3. QED BY <2>6, <3>1, <3>2 DEF OnFailure, InMemory
  <2>7. ASSUME BackupWrite PROVE Mem
    <3>1. /\ Head(backupQ) \in Packet
          /\ Range(backupQ) = {Head(backupQ)} \cup Range(Tail(backupQ))
      BY <2>7, PollQueue DEF BackupWrite, TypeOK
    <3>2. Range(Append(open, Head(backupQ))) = Range(open) \cup {Head(backupQ)}
      BY <3>1, OfferToQueue DEF TypeOK
    <3>3. QED BY <2>7, <3>1, <3>2 DEF BackupWrite, InMemory
  <2>8. ASSUME NEW f \in FileName, BackupClose(f) PROVE Mem
    BY <2>4, <2>8 DEF BackupClose, InMemory
  <2>9. ASSUME OfferRestored PROVE Mem
    <3>1. zips[file][next] \in Packet /\ zips[file][next] \in Range(zips[file])
      BY <2>9, ElementOfSeq, RangeEquality DEF OfferRestored, TypeOK
    <3>2. Range(Append(mainQ, zips[file][next])) = Range(mainQ) \cup {zips[file][next]}
      BY <3>1, OfferToQueue DEF TypeOK
    <3>3. zips[file][next] \in OnDisk
      BY <3>1 DEF OnDisk, OnDiskBut, TypeOK
    <3>4. QED BY <2>9, <3>2, <3>3 DEF OfferRestored, InMemory
  <2>10. ASSUME Halt PROVE Mem
    BY <2>4, <2>10 DEF Halt, InMemory
  <2>11. ASSUME \/ BeginScan \/ EndScan \/ (\E f \in FileName : OpenFile(f)) \/ ProbeQueue
                \/ FinishFile \/ FailFile \/ NextFile \/ StopImporter
                \/ Shutdown \/ Restart \/ UNCHANGED vars
         PROVE  Mem
    BY <2>11 DEF BeginScan, EndScan, OpenFile, ProbeQueue, FinishFile, FailFile, NextFile,
       StopImporter, Shutdown, Restart, vars, InMemory
  <2>12. QED
    BY <2>1, <2>2, <2>3, <2>5, <2>6, <2>7, <2>8, <2>9, <2>10, <2>11
       DEF Next, Readers, Stage, Backup, Importer, Process
<1>4. QED BY <1>1, <1>2, <1>3

-----------------------------------------------------------------------------
(* The archiver implements PacketStore. *)

(* Only packets that the readers delivered are anywhere. *)
NothingInvented == InCare \cup OnDisk \cup vanished \subseteq received

(* Every step leaves it so: packets come from where they were, or from a reader. *)
LEMMA NothingInventedStep ==
  ASSUME TypeOK, NothingInvented, [Next]_vars
  PROVE  NothingInvented'
<1>1. InMemory \cup OnDisk \cup stored \cup reported \cup vanished \subseteq received
  BY DEF NothingInvented, InCare
<1>2. /\ stored' \subseteq received' /\ reported' \subseteq received'
      /\ vanished' \subseteq received' /\ OnDisk' \subseteq received'
      /\ InMemory' \subseteq received'
  BY <1>1, Provenance
<1>3. QED BY <1>2 DEF NothingInvented, InCare

(* Custody names a place for each packet. *)
LEMMA CustodyPlaces == Custody \in [Packet -> Contract!Place]
BY DEF Custody, Contract!Place

(* The same of the next state. *)
LEMMA CustodyPlacesNext == Custody' \in [Packet -> Contract!Place]
BY DEF Custody, Contract!Place

(* A step of the running process hands packets over as PacketStore allows. *)
LEMMA WorkStep ==
  ASSUME IInv, NothingInvented, [Next]_vars, ~Halt
  PROVE  Contract!Work
<1>1. ASSUME NEW p \in Packet
      PROVE  \/ Custody'[p] = Custody[p]
             \/ <<Custody[p], Custody'[p]>> \in Contract!Handover
  <2>1. CASE p \in stored
    <3>1. p \in stored'
      BY <2>1, Provenance DEF IInv
    <3>2. QED BY <2>1, <3>1 DEF Custody
  <2>2. CASE p \notin stored /\ p \in OnDisk
    <3>1. p \in (InCare \cup OnDisk)'
      BY <2>2, DiskKept
    <3>2. Custody[p] = "disk" /\ Custody'[p] \in {"stored", "disk", "memory", "reported"}
      BY <2>2, <3>1 DEF Custody, InCare
    <3>3. QED BY <3>2 DEF Contract!Handover
  <2>3. CASE p \notin stored \cup OnDisk /\ p \in InMemory
    <3>1. ASSUME NEW f \in FileName PROVE Range(zips'[f]) \subseteq OnDisk'
      BY DEF OnDisk, OnDiskBut
    <3>2. p \in (InCare \cup OnDisk)'
      BY <2>3, <3>1, CareKept DEF IInv, InCare
    <3>3. Custody[p] = "memory" /\ Custody'[p] \in {"stored", "disk", "memory", "reported"}
      BY <2>3, <3>2 DEF Custody, InCare
    <3>4. QED BY <3>3 DEF Contract!Handover
  <2>4. CASE p \notin stored \cup OnDisk \cup InMemory /\ p \in reported \cup vanished
    <3>1. p \in received
      BY <2>4 DEF NothingInvented, InCare
    <3>2. /\ p \notin (stored \cup OnDisk \cup InMemory)'
          /\ p \in reported' <=> p \in reported
          /\ p \in vanished' <=> p \in vanished
      BY <2>4, <3>1, Provenance DEF IInv
    <3>3. QED BY <2>4, <3>2 DEF Custody
  <2>5. CASE p \notin stored \cup OnDisk \cup InMemory \cup reported \cup vanished
    <3>1. p \notin (stored \cup OnDisk \cup reported \cup vanished)'
      BY <2>5, Provenance DEF IInv
    <3>2. Custody[p] = "unseen" /\ Custody'[p] \in {"unseen", "memory"}
      BY <2>5, <3>1 DEF Custody
    <3>3. QED BY <3>2 DEF Contract!Handover
  <2>6. QED BY <2>1, <2>2, <2>3, <2>4, <2>5
<1>2. QED BY <1>1, CustodyPlacesNext DEF Contract!Work

(* When the process ends, a packet vanishes only if nothing but memory had it. *)
LEMMA HaltStep ==
  ASSUME IInv, NothingInvented, Halt
  PROVE  Contract!Halt
<1>1. [Next]_vars
  BY DEF Next, Process
<1>2. /\ InMemory' = {} /\ InMemory \subseteq vanished'
      /\ reported' = reported /\ received' = received
  <2>1. Range(<<>>) = {}
    BY EmptyQueue, <<>> \in Seq(Packet)
  <2>2. QED BY <2>1 DEF Halt, InMemory
<1>3. OnDisk \subseteq OnDisk'
  <2>1. ASSUME NEW f \in FileName PROVE Range(zips[f]) \subseteq Range(zips'[f])
    <3>1. zips'[f] = zips[f] \/ zips[f] = <<>>
      BY DEF Halt, IInv, TypeOK
    <3>2. Range(<<>>) = {}
      BY EmptyQueue, <<>> \in Seq(Packet)
    <3>3. QED BY <3>1, <3>2
  <2>2. unreadable' = unreadable
    BY DEF Halt
  <2>3. QED BY <2>1, <2>2 DEF OnDisk, OnDiskBut
<1>4. /\ stored \subseteq stored' /\ stored' \subseteq stored \cup InMemory
      /\ vanished \subseteq vanished' /\ vanished' \subseteq vanished \cup InMemory
      /\ OnDisk' \subseteq OnDisk \cup InMemory
  BY <1>1, Provenance DEF IInv
<1>5. ASSUME NEW p \in Packet
      PROVE  \/ Custody'[p] = Custody[p] /\ Custody[p] # "memory"
             \/ /\ Custody[p] = "memory"
                /\ Custody'[p] \in {"disk", "stored", "reported", "vanished"}
             \/ Custody[p] = "disk" /\ Custody'[p] = "stored"
  <2>1. CASE p \in stored
    BY <2>1, <1>4 DEF Custody
  <2>2. CASE p \notin stored /\ p \in OnDisk
    BY <2>2, <1>3 DEF Custody
  <2>3. CASE p \notin stored \cup OnDisk /\ p \in InMemory
    BY <2>3, <1>2 DEF Custody
  <2>4. CASE p \notin stored \cup OnDisk \cup InMemory
    <3>1. /\ p \notin (stored \cup OnDisk \cup InMemory)'
          /\ p \in reported' <=> p \in reported
          /\ p \in vanished' <=> p \in vanished
      BY <2>4, <1>2, <1>4
    <3>2. QED BY <2>4, <3>1 DEF Custody
  <2>5. QED BY <2>1, <2>2, <2>3, <2>4
<1>6. QED BY <1>5, CustodyPlacesNext DEF Contract!Halt

(* Threads, queues, retries and backup files implement the custody of PacketStore: no   *)
(* packet is given up silently while the process runs, and none that Cassandra or the   *)
(* backup directory has is given up at all (Archiver.java:75-111,                       *)
(* CassandraBatchedStagedWriter.java:72-117, FileImportService.java:54-143).            *)
THEOREM Refinement == Spec => ImplementsPacketStore
<1>1. Init => NothingInvented /\ Contract!Init
  <2>1. ASSUME Init PROVE InCare = {} /\ OnDisk = {} /\ InMemory = {}
    <3>1. Range(<<>>) = {}
      BY EmptyQueue, <<>> \in Seq(Packet)
    <3>2. QED BY <2>1, <3>1 DEF Init, InCare, InMemory, OnDisk, OnDiskBut
  <2>2. QED BY <2>1 DEF Init, NothingInvented, Contract!Init, Custody
<1>2. IInv /\ NothingInvented /\ [Next]_vars => NothingInvented' /\ [Contract!Next]_Custody
  BY NothingInventedStep, WorkStep, HaltStep DEF IInv, Contract!Next
<1>3. QED BY <1>1, <1>2, Invariance, PTL DEF Spec, ImplementsPacketStore, Contract!Spec

-----------------------------------------------------------------------------
(* Restoring and moving packets. That the packet the importer offers is not in the main  *)
(* queue already, although an earlier process may have had it there, rests on this: one  *)
(* party at most has a packet that was never restored, and as long as no file operation  *)
(* failed and the process was not stopped, any packet.                                    *)

Unspoilt == budget["disk"] = Budget["disk"] /\ budget["stop"] = Budget["stop"]

ToOffer(f, p) == Occurrences(zips[f], p) \cap Unoffered(f)

InQueues(p) ==
  (IF p \in overflow THEN 1 ELSE 0)
    + Count(mainQ, {p}) + Count(batch, {p}) + Count(backupQ, {p}) + Count(open, {p})

AtMostOnce(p) ==
  /\ InQueues(p) <= 1
  /\ \A f, g \in FileName : \A i \in ToOffer(f, p), j \in ToOffer(g, p) : f = g /\ i = j
  /\ InQueues(p) = 1 => \A f \in FileName : ToOffer(f, p) = {}

FaultsCounted ==
  /\ \A k \in FaultKind : budget[k] <= Budget[k]
  /\ Unspoilt => phase = "running" /\ vanished = {} /\ unreadable = {}

RestoredKnown ==
  /\ restored \subseteq received
  /\ impPc \in {"probe", "offer"} => \A i \in 1..(next - 1) : zips[file][i] \in restored

Moved == \A p \in Packet : p \notin restored \/ Unspoilt => AtMostOnce(p)

\* When the importer is about to offer, it has read the size of the queue: by then the
\* queue can only have lost restored packets.
Room ==
  /\ Count(mainQ, restored) <= RestoreFactor * BatchSize + 1
  /\ impPc = "offer" => Count(mainQ, restored) <= RestoreFactor * BatchSize

(* Numbers of packets in the queues. *)
LEMMA QueueCounts ==
  ASSUME TypeOK, NEW p
  PROVE  /\ Count(mainQ, {p}) \in Nat /\ Count(batch, {p}) \in Nat
         /\ Count(backupQ, {p}) \in Nat /\ Count(open, {p}) \in Nat
         /\ InQueues(p) \in Nat
         /\ InQueues(p) = 0 <=> p \notin InMemory
<1>1. ASSUME NEW q \in Seq(Packet)
      PROVE  Count(q, {p}) \in Nat /\ (Count(q, {p}) = 0 <=> p \notin Range(q))
  <2>1. Count(q, {p}) \in Nat /\ (Count(q, {p}) = 0 <=> Range(q) \cap {p} = {})
    BY CountOfQueue
  <2>2. QED BY <2>1
<1>2. /\ mainQ \in Seq(Packet) /\ batch \in Seq(Packet)
      /\ backupQ \in Seq(Packet) /\ open \in Seq(Packet)
  BY DEF TypeOK
<1>3. /\ Count(mainQ, {p}) \in Nat /\ Count(batch, {p}) \in Nat
      /\ Count(backupQ, {p}) \in Nat /\ Count(open, {p}) \in Nat
      /\ Count(mainQ, {p}) = 0 <=> p \notin Range(mainQ)
      /\ Count(batch, {p}) = 0 <=> p \notin Range(batch)
      /\ Count(backupQ, {p}) = 0 <=> p \notin Range(backupQ)
      /\ Count(open, {p}) = 0 <=> p \notin Range(open)
  BY <1>1, <1>2
<1> DEFINE a == Count(mainQ, {p})  b == Count(batch, {p})
           c == Count(backupQ, {p})  d == Count(open, {p})
           o == IF p \in overflow THEN 1 ELSE 0
<1>4. a \in Nat /\ b \in Nat /\ c \in Nat /\ d \in Nat /\ o \in Nat
  BY <1>3
<1>5. InQueues(p) = o + a + b + c + d /\ (o = 0 <=> p \notin overflow)
  BY DEF InQueues
<1>6. p \notin InMemory <=> o = 0 /\ a = 0 /\ b = 0 /\ c = 0 /\ d = 0
  BY <1>3, <1>5 DEF InMemory
<1> HIDE DEF a, b, c, d, o
<1>7. InQueues(p) \in Nat /\ (InQueues(p) = 0 <=> o = 0 /\ a = 0 /\ b = 0 /\ c = 0 /\ d = 0)
  BY <1>4, <1>5
<1>8. QED BY <1>3, <1>6, <1>7

(* The same of the next state. *)
LEMMA QueueCountsNext ==
  ASSUME TypeOK', NEW p
  PROVE  InQueues(p)' \in Nat
<1>1. ASSUME NEW q \in Seq(Packet) PROVE Count(q, {p}) \in Nat
  BY CountOfQueue
<1>2. /\ mainQ' \in Seq(Packet) /\ batch' \in Seq(Packet)
      /\ backupQ' \in Seq(Packet) /\ open' \in Seq(Packet)
  BY DEF TypeOK
<1>3. /\ Count(mainQ', {p}) \in Nat /\ Count(batch', {p}) \in Nat
      /\ Count(backupQ', {p}) \in Nat /\ Count(open', {p}) \in Nat
  BY <1>1, <1>2
<1>4. QED BY <1>3 DEF InQueues, Count, Places

(* The one place of a packet that is in a queue once. *)
LEMMA OnePlace ==
  ASSUME NEW q \in Seq(Packet), NEW p
  PROVE  /\ Count(q, {p}) <= 1 => \A i, j \in Occurrences(q, p) : i = j
         /\ Count(q, {p}) = 0 <=> Occurrences(q, p) = {}
         /\ Count(q, {p}) \in Nat
<1>1. Occurrences(q, p) = Places(q, {p})
  BY DEF Occurrences, Places
<1>2. IsFiniteSet(Places(q, {p})) /\ Count(q, {p}) \in Nat
  BY CountOfQueue
<1>3. Cardinality(Places(q, {p})) = 0 <=> Places(q, {p}) = {}
  BY <1>2, FS_EmptySet
<1>4. Cardinality(Places(q, {p})) = 1 => \E i : Places(q, {p}) = {i}
  BY <1>2, FS_Singleton
<1>5. ASSUME Count(q, {p}) <= 1 PROVE \A i, j \in Occurrences(q, p) : i = j
  <2>1. Cardinality(Places(q, {p})) = 0 \/ Cardinality(Places(q, {p})) = 1
    BY <1>2, <1>5 DEF Count
  <2>2. Places(q, {p}) = {} \/ \E k : Places(q, {p}) = {k}
    BY <1>3, <1>4, <2>1, Zenon
  <2>3. SUFFICES ASSUME NEW i \in Places(q, {p}), NEW j \in Places(q, {p}) PROVE i = j
    BY <1>1
  <2>4. PICK k : Places(q, {p}) = {k}
    BY <2>2
  <2>5. QED BY <2>4
<1>6. QED BY <1>1, <1>2, <1>3, <1>5 DEF Count

(* A packet that was never restored has not been offered. *)
LEMMA UnrestoredToOffer ==
  ASSUME TypeOK, RestoredKnown, NEW p, p \notin restored, NEW f \in FileName
  PROVE  ToOffer(f, p) = Occurrences(zips[f], p)
<1>1. zips[f] \in Seq(Packet) /\ DOMAIN zips[f] = 1..Len(zips[f]) /\ next \in Nat
  BY LenProperties DEF TypeOK
<1>2. ASSUME NEW i \in Occurrences(zips[f], p) PROVE i \in Unoffered(f)
  BY <1>1, <1>2 DEF RestoredKnown, Occurrences, Unoffered
<1>3. QED BY <1>2 DEF ToOffer

(* Nobody gets a packet that had none of it. *)
LEMMA NoMoreOfIt ==
  ASSUME TypeOK, TypeOK', NEW p, AtMostOnce(p), InQueues(p)' <= InQueues(p),
         \A f \in FileName : ToOffer(f, p)' \subseteq ToOffer(f, p)
  PROVE  AtMostOnce(p)'
<1>1. InQueues(p) \in Nat /\ InQueues(p)' \in Nat
  BY QueueCounts, QueueCountsNext
<1>2. InQueues(p)' <= 1
  BY <1>1 DEF AtMostOnce
<1>3. \A f, g \in FileName : \A i \in ToOffer(f, p)', j \in ToOffer(g, p)' : f = g /\ i = j
  BY DEF AtMostOnce
<1>4. ASSUME InQueues(p)' = 1 PROVE \A f \in FileName : ToOffer(f, p)' = {}
  <2>1. InQueues(p) = 1
    BY <1>1, <1>4 DEF AtMostOnce
  <2>2. QED BY <2>1 DEF AtMostOnce
<1>5. QED BY <1>2, <1>3, <1>4 DEF AtMostOnce

(* The backup file that was open is now one of the directory.                           *)
LEMMA FileClosed ==
  ASSUME TypeOK, TypeOK', NEW p, AtMostOnce(p), NEW f \in FileName, zips[f] = <<>>,
         zips' = [zips EXCEPT ![f] = open],
         InQueues(p)' + Count(open, {p}) <= InQueues(p),
         \A g \in FileName \ {f} : ToOffer(g, p)' \subseteq ToOffer(g, p)
  PROVE  AtMostOnce(p)'
<1>1. /\ InQueues(p) \in Nat /\ InQueues(p)' \in Nat /\ Count(open, {p}) \in Nat
      /\ InQueues(p) <= 1
  BY QueueCounts, QueueCountsNext DEF AtMostOnce
<1>2. ToOffer(f, p)' \subseteq Occurrences(open, p)
  BY DEF ToOffer, Occurrences, TypeOK
<1>3. open \in Seq(Packet)
  BY DEF TypeOK
<1>4. CASE Count(open, {p}) = 0
  <2>1. ToOffer(f, p)' = {}
    BY <1>2, <1>3, <1>4, OnePlace
  <2>2. InQueues(p)' <= InQueues(p)
    BY <1>1, <1>4
  <2>3. QED BY <2>1, <2>2, NoMoreOfIt
<1>5. CASE Count(open, {p}) # 0
  <2>1. Count(open, {p}) = 1 /\ InQueues(p) = 1 /\ InQueues(p)' = 0
    BY <1>1, <1>5
  <2>2. \A g \in FileName \ {f} : ToOffer(g, p)' = {}
    BY <2>1 DEF AtMostOnce
  <2>3. \A i, j \in ToOffer(f, p)' : i = j
    BY <1>2, <1>3, <2>1, OnePlace
  <2>4. QED BY <2>1, <2>2, <2>3 DEF AtMostOnce
<1>6. QED BY <1>4, <1>5

LEMMA InQueuesNext ==
  ASSUME NEW p
  PROVE  InQueues(p)' = (IF p \in overflow' THEN 1 ELSE 0) + Count(mainQ', {p})
                          + Count(batch', {p}) + Count(backupQ', {p}) + Count(open', {p})
BY DEF InQueues, Count, Places

(* But for a reader that delivers it and the importer that restores it nobody makes more *)
(* of a packet.                                                                           *)
LEMMA QueuesShrink ==
  ASSUME TypeOK, [Next]_vars, ~OfferRestored, NEW p \in Packet, ~Receive(p)
  PROVE  InQueues(p)' <= InQueues(p)
<1> USE DEF queues, stage, imp, disk, ghosts
<1> DEFINE o == IF p \in overflow THEN 1 ELSE 0
           a == Count(mainQ, {p})  b == Count(batch, {p})
           c == Count(backupQ, {p})  d == Count(open, {p})
           oo == IF p \in overflow' THEN 1 ELSE 0
           aa == Count(mainQ', {p})  bb == Count(batch', {p})
           cc == Count(backupQ', {p})  dd == Count(open', {p})
           Less == oo + aa + bb + cc + dd <= o + a + b + c + d
<1>1. a \in Nat /\ b \in Nat /\ c \in Nat /\ d \in Nat /\ o \in Nat /\ oo \in Nat
  BY QueueCounts
<1>2. <<>> \in Seq(Packet) /\ Count(<<>>, {p}) = 0
  <2>1. <<>> \in Seq(Packet)
    BY EmptySeq
  <2>2. QED BY <2>1, CountOfQueue
<1>3. /\ mainQ \in Seq(Packet) /\ batch \in Seq(Packet)
      /\ backupQ \in Seq(Packet) /\ open \in Seq(Packet)
  BY DEF TypeOK
<1>4. ASSUME NEW x \in Packet, OfferBackup(x) PROVE cc <= c + (IF x = p THEN 1 ELSE 0)
  <2>1. Count(Append(backupQ, x), {p}) = c + (IF x \in {p} THEN 1 ELSE 0)
    BY <1>3, CountOffered
  <2>2. backupQ' = backupQ \/ backupQ' = Append(backupQ, x)
    BY <1>4 DEF OfferBackup
  <2>3. cc = c \/ cc = Count(Append(backupQ, x), {p})
    BY <2>2
  <2>4. QED BY <1>1, <2>1, <2>3
<1>5. ASSUME NEW x \in Packet, Receive(x) PROVE Less
  <2>1. x # p
    BY <1>5
  <2>2. Count(Append(mainQ, x), {p}) = a
    <3>1. Count(Append(mainQ, x), {p}) = a + (IF x \in {p} THEN 1 ELSE 0)
      BY <1>3, CountOffered
    <3>2. QED BY <1>1, <2>1, <3>1
  <2>3. mainQ' = mainQ \/ mainQ' = Append(mainQ, x)
    BY <1>5 DEF Receive
  <2>4. aa = a
    BY <2>2, <2>3
  <2>5. oo = o /\ bb = b /\ cc = c /\ dd = d
    BY <1>5, <2>1 DEF Receive
  <2>6. QED BY <1>1, <2>4, <2>5
<1>6. ASSUME NEW x \in Packet, ReceiveOverflow(x) PROVE Less
  <2>1. aa = a /\ bb = b /\ dd = d
    BY <1>6 DEF ReceiveOverflow
  <2>2. oo + (IF x = p THEN 1 ELSE 0) = o
    BY <1>6 DEF ReceiveOverflow
  <2>3. cc <= c + (IF x = p THEN 1 ELSE 0)
    BY <1>4, <1>6 DEF ReceiveOverflow
  <2>4. cc \in Nat
    <3>1. backupQ' \in Seq(Packet)
      BY <1>3, <1>6, OfferBackupType DEF ReceiveOverflow, TypeOK
    <3>2. QED BY <3>1, CountOfQueue
  <2> HIDE DEF o, oo, a, b, c, d, aa, bb, cc, dd
  <2>5. QED BY <1>1, <2>1, <2>2, <2>3, <2>4
<1>7. ASSUME TakeBatch PROVE Less
  <2>1. PICK n \in 1..BatchSize :
          /\ n <= Len(mainQ)
          /\ batch' = SubSeq(mainQ, 1, n)
          /\ mainQ' = SubSeq(mainQ, n + 1, Len(mainQ))
    BY <1>7 DEF TakeBatch
  <2>2. n \in Nat \ {0}
    BY ArchiverAssumption
  <2>3. a = bb + aa
    BY <1>3, <2>1, <2>2, CountTaken
  <2>4. batch = <<>>
    BY <1>7 DEF TakeBatch, TypeOK
  <2>5. b = 0
    BY <1>2, <2>4
  <2>6. oo = o /\ cc = c /\ dd = d
    BY <1>7 DEF TakeBatch
  <2>7. aa \in Nat /\ bb \in Nat
    BY <1>3, <2>1, <2>2, TakeFromQueue, CountOfQueue
  <2> HIDE DEF o, oo, a, b, c, d, aa, bb, cc, dd
  <2>8. QED BY <1>1, <2>3, <2>5, <2>6, <2>7
<1>8. ASSUME WriteBatch \/ RejectBatch \/ FailBatch PROVE Less
  <2>1. oo = o /\ aa = a /\ cc = c /\ dd = d /\ (batch' = batch \/ batch' = <<>>)
    BY <1>8 DEF WriteBatch, RejectBatch, FailBatch
  <2>2. bb = b \/ bb = 0
    BY <1>2, <2>1
  <2> HIDE DEF o, oo, a, b, c, d, aa, bb, cc, dd
  <2>3. QED BY <1>1, <2>1, <2>2
<1>9. ASSUME OnFailure PROVE Less
  <2>1. batch # <<>> /\ Head(batch) \in Packet /\ Tail(batch) \in Seq(Packet)
    BY <1>3, <1>9, PollQueue DEF OnFailure, TypeOK
  <2>2. oo = o /\ aa = a /\ dd = d /\ batch' = Tail(batch) /\ OfferBackup(Head(batch))
    BY <1>9 DEF OnFailure
  <2>3. b = bb + (IF Head(batch) \in {p} THEN 1 ELSE 0)
    BY <1>3, <2>1, <2>2, CountPolled
  <2>4. cc <= c + (IF Head(batch) = p THEN 1 ELSE 0)
    BY <1>4, <2>1, <2>2
  <2>5. bb \in Nat /\ cc \in Nat
    <3>1. backupQ' \in Seq(Packet)
      BY <1>3, <2>1, <2>2, OfferBackupType DEF TypeOK
    <3>2. QED BY <2>1, <2>2, <3>1, CountOfQueue
  <2> HIDE DEF o, oo, a, b, c, d, aa, bb, cc, dd
  <2>6. QED BY <1>1, <2>2, <2>3, <2>4, <2>5
<1>10. ASSUME BackupWrite PROVE Less
  <2>1. backupQ # <<>> /\ Head(backupQ) \in Packet /\ Tail(backupQ) \in Seq(Packet)
    BY <1>3, <1>10, PollQueue DEF BackupWrite
  <2>2. /\ oo = o /\ aa = a /\ bb = b
        /\ backupQ' = Tail(backupQ) /\ open' = Append(open, Head(backupQ))
    BY <1>10 DEF BackupWrite
  <2>3. c = cc + (IF Head(backupQ) \in {p} THEN 1 ELSE 0)
    BY <1>3, <2>1, <2>2, CountPolled
  <2>4. dd = d + (IF Head(backupQ) \in {p} THEN 1 ELSE 0)
    BY <1>3, <2>1, <2>2, CountOffered
  <2>5. cc \in Nat
    BY <2>1, <2>2, CountOfQueue
  <2> HIDE DEF o, oo, a, b, c, d, aa, bb, cc, dd
  <2>6. QED BY <1>1, <2>2, <2>3, <2>4, <2>5
<1>11. ASSUME NEW f \in FileName, BackupClose(f) PROVE Less
  <2>1. oo = o /\ aa = a /\ bb = b /\ cc = c /\ open' = <<>>
    BY <1>11 DEF BackupClose
  <2>2. dd = 0
    BY <1>2, <2>1
  <2> HIDE DEF o, oo, a, b, c, d, aa, bb, cc, dd
  <2>3. QED BY <1>1, <2>1, <2>2
<1>12. ASSUME Halt PROVE Less
  <2>1. overflow' = {} /\ mainQ' = <<>> /\ batch' = <<>> /\ backupQ' = <<>> /\ open' = <<>>
    BY <1>12 DEF Halt
  <2>2. oo = 0 /\ aa = 0 /\ bb = 0 /\ cc = 0 /\ dd = 0
    BY <1>2, <2>1
  <2> HIDE DEF o, oo, a, b, c, d, aa, bb, cc, dd
  <2>3. QED BY <1>1, <2>2
<1>13. ASSUME \/ BeginScan \/ EndScan \/ (\E f \in FileName : OpenFile(f)) \/ ProbeQueue
              \/ FinishFile \/ FailFile \/ NextFile \/ StopImporter
              \/ Shutdown \/ Restart \/ UNCHANGED vars
       PROVE  Less
  <2>1. UNCHANGED <<queues, batch>>
    BY <1>13 DEF BeginScan, EndScan, OpenFile, ProbeQueue, FinishFile, FailFile, NextFile,
       StopImporter, Shutdown, Restart, vars
  <2>2. oo = o /\ aa = a /\ bb = b /\ cc = c /\ dd = d
    BY <2>1
  <2> HIDE DEF o, oo, a, b, c, d, aa, bb, cc, dd
  <2>3. QED BY <1>1, <2>2
<1>14. Less
  BY <1>5, <1>6, <1>7, <1>8, <1>9, <1>10, <1>11, <1>12, <1>13
     DEF Next, Readers, Stage, Backup, Importer, Process
<1>15. InQueues(p)' = oo + aa + bb + cc + dd /\ InQueues(p) = o + a + b + c + d
  BY InQueuesNext DEF InQueues
<1>16. QED BY <1>14, <1>15

(* Faults are counted, and while none has happened the process runs.                    *)
LEMMA FaultsStep ==
  ASSUME TypeOK, FaultsCounted, [Next]_vars
  PROVE  /\ FaultsCounted'
         /\ Unspoilt' => Unspoilt /\ ~Spend("disk") /\ ~Spend("stop")
<1> USE DEF queues, stage, imp, disk, ghosts
<1>1. budget \in [FaultKind -> Nat] /\ Budget \in [FaultKind -> Nat]
  BY ArchiverAssumption DEF TypeOK
<1>2. UNCHANGED budget \/ \E kind \in FaultKind : Spend(kind)
  <2>1. "write" \in FaultKind /\ "disk" \in FaultKind /\ "stop" \in FaultKind
    BY DEF FaultKind
  <2>2. CASE RejectBatch \/ FailBatch
    BY <2>1, <2>2 DEF RejectBatch, FailBatch
  <2>3. CASE EndScan \/ FinishFile \/ FailFile
    BY <2>1, <2>3, Zenon DEF EndScan, FinishFile, FailFile
  <2>4. CASE Shutdown \/ Halt
    BY <2>1, <2>4, Zenon DEF Shutdown, Halt
  <2>5. ASSUME ~RejectBatch, ~FailBatch, ~EndScan, ~FinishFile, ~FailFile, ~Shutdown, ~Halt
        PROVE  UNCHANGED budget
    BY <2>5 DEF Next, Readers, Receive, ReceiveOverflow, Stage, TakeBatch, WriteBatch, OnFailure,
       Backup, BackupWrite, BackupClose, Process, Restart, vars, Importer, BeginScan, OpenFile,
       ProbeQueue, OfferRestored, NextFile, StopImporter
  <2>6. QED BY <2>2, <2>3, <2>4, <2>5
<1>3. \A k \in FaultKind : budget'[k] \in Nat /\ budget'[k] <= budget[k]
  BY <1>1, <1>2 DEF Spend
<1>4. \A k \in FaultKind : budget'[k] <= Budget[k]
  BY <1>1, <1>3 DEF FaultsCounted
<1>5. ASSUME Unspoilt' PROVE Unspoilt /\ ~Spend("disk") /\ ~Spend("stop")
  <2>1. "disk" \in FaultKind /\ "stop" \in FaultKind
    BY DEF FaultKind
  <2>2. budget'["disk"] = Budget["disk"] /\ budget'["stop"] = Budget["stop"]
    BY <1>5 DEF Unspoilt
  <2>3. Unspoilt /\ budget'["disk"] = budget["disk"] /\ budget'["stop"] = budget["stop"]
    BY <1>1, <1>3, <2>1, <2>2 DEF FaultsCounted, Unspoilt
  <2>4. \A k \in FaultKind : Spend(k) => budget'[k] # budget[k]
    BY <1>1 DEF Spend
  <2>5. QED BY <2>1, <2>3, <2>4
<1>6. ASSUME Unspoilt' PROVE phase' = "running" /\ vanished' = {} /\ unreadable' = {}
  <2>1. phase = "running" /\ vanished = {} /\ unreadable = {} /\ ~Spend("disk") /\ ~Spend("stop")
    BY <1>5, <1>6 DEF FaultsCounted
  <2>2. ~Shutdown /\ ~Halt /\ ~FailFile /\ ~Restart
    BY <2>1 DEF Shutdown, Halt, FailFile, Restart
  <2>3. UNCHANGED <<phase, vanished, unreadable>>
    BY <2>2 DEF Next, Readers, Receive, ReceiveOverflow, Stage, TakeBatch, WriteBatch, RejectBatch,
       FailBatch, OnFailure, Backup, BackupWrite, BackupClose, Process, vars, Importer, BeginScan,
       EndScan, OpenFile, ProbeQueue, OfferRestored, FinishFile, NextFile, StopImporter
  <2>4. QED BY <2>1, <2>3
<1>7. QED BY <1>4, <1>5, <1>6 DEF FaultsCounted

(* Restored packets are among those received, and the importer has restored what it has *)
(* offered of its file (FileImportService.java:119-131).                                *)
LEMMA RestoredStep ==
  ASSUME IInv, NothingInvented, RestoredKnown, [Next]_vars
  PROVE  RestoredKnown' /\ restored \subseteq restored'
<1> USE DEF queues, stage, imp, disk, ghosts
<1>0. TypeOK /\ OfferedIsHandedOver /\ received \subseteq received' /\ OnDisk \subseteq received
  BY Provenance DEF IInv, NothingInvented
<1>1. CASE OfferRestored
  <2>1. /\ impPc = "offer" /\ impPc' = "probe" /\ zips' = zips /\ file' = file
        /\ next \in Nat \ {0} /\ next <= Len(zips[file])
    BY <1>0, <1>1 DEF OfferRestored, TypeOK
  <2>2. CASE UNCHANGED <<next, restored>>
    BY <1>0, <2>1, <2>2 DEF RestoredKnown
  <2>3. CASE next' = next + 1 /\ restored' = restored \cup {zips[file][next]}
    <3>1. zips[file][next] \in OnDisk
      <4>1. zips[file] \in Seq(Packet)
        BY <1>0 DEF TypeOK
      <4>2. zips[file][next] \in Range(zips[file])
        BY <2>1, <4>1, RangeEquality, LenProperties
      <4>3. QED BY <1>0, <4>2 DEF OnDisk, OnDiskBut, TypeOK
    <3>2. restored' \subseteq received'
      BY <1>0, <2>3, <3>1 DEF RestoredKnown
    <3>3. ASSUME NEW i \in 1..(next' - 1) PROVE zips'[file'][i] \in restored'
      <4>1. i \in 1..(next - 1) \/ i = next
        BY <2>1, <2>3
      <4>2. QED BY <2>1, <2>3, <4>1 DEF RestoredKnown
    <3>4. QED BY <2>3, <3>2, <3>3 DEF RestoredKnown
  <2>4. QED BY <1>1, <2>2, <2>3 DEF OfferRestored
<1>2. CASE ~OfferRestored
  <2>1. restored' = restored
    BY <1>2 DEF Next, Readers, Receive, ReceiveOverflow, Stage, TakeBatch, WriteBatch, RejectBatch,
       FailBatch, OnFailure, Backup, BackupWrite, BackupClose, Process, Shutdown, Halt, Restart,
       vars, Importer, BeginScan, EndScan, OpenFile, ProbeQueue, FinishFile, FailFile, NextFile,
       StopImporter
  <2>2. ASSUME impPc' \in {"probe", "offer"}, NEW i \in 1..(next' - 1)
        PROVE  zips'[file'][i] \in restored
    <3>1. ASSUME NEW f \in FileName, OpenFile(f) PROVE FALSE
      BY <2>2, <3>1 DEF OpenFile
    <3>2. /\ ~Halt /\ ~FinishFile /\ ~FailFile /\ ~NextFile /\ ~StopImporter /\ ~BeginScan
          /\ ~EndScan
      BY <2>2 DEF Halt, FinishFile, FailFile, NextFile, StopImporter, BeginScan, EndScan
    <3>3. UNCHANGED <<file, next>> /\ impPc \in {"probe", "offer"}
      BY <1>2, <2>2, <3>1, <3>2 DEF Next, Readers, Receive, ReceiveOverflow, Stage, TakeBatch,
         WriteBatch, RejectBatch, FailBatch, OnFailure, Backup, BackupWrite, BackupClose, Process,
         Shutdown, Restart, vars, Importer, ProbeQueue
    <3>4. zips[file] # <<>> /\ file \in FileName
      BY <1>0, <3>3 DEF OfferedIsHandedOver, Files
    <3>5. zips'[file] = zips[file]
      <4>1. ASSUME NEW f \in FileName, BackupClose(f) PROVE zips'[file] = zips[file]
        BY <1>0, <3>4, <4>1 DEF BackupClose, TypeOK
      <4>2. ASSUME \A f \in FileName : ~BackupClose(f) PROVE UNCHANGED zips
        BY <1>2, <3>1, <3>2, <4>2 DEF Next, Readers, Receive, ReceiveOverflow, Stage, TakeBatch,
           WriteBatch, RejectBatch, FailBatch, OnFailure, Backup, BackupWrite, Process,
           Shutdown, Restart, vars, Importer, ProbeQueue
      <4>3. QED BY <4>1, <4>2
    <3>6. QED BY <2>2, <3>3, <3>5 DEF RestoredKnown
  <2>3. QED BY <1>0, <2>1, <2>2 DEF RestoredKnown
<1>3. QED BY <1>1, <1>2

(* A packet that the importer is to offer is in no queue, unless it was restored before. *)
LEMMA OfferedIsNowhere ==
  ASSUME TypeOK, NEW p, AtMostOnce(p), impPc = "offer", zips[file][next] = p
  PROVE  /\ InQueues(p) = 0
         /\ ToOffer(file, p) = {next}
         /\ \A f \in FileName \ {file} : ToOffer(f, p) = {}
<1>1. zips[file] \in Seq(Packet) /\ next \in Nat \ {0} /\ next <= Len(zips[file])
      /\ file \in FileName
  BY DEF TypeOK
<1>2. next \in ToOffer(file, p)
  BY <1>1, LenProperties DEF ToOffer, Occurrences, Unoffered
<1>3. InQueues(p) \in Nat /\ InQueues(p) <= 1 /\ InQueues(p) # 1
  BY <1>1, <1>2, QueueCounts DEF AtMostOnce
<1>4. InQueues(p) = 0
  BY <1>3
<1>5. ASSUME NEW f \in FileName, NEW i \in ToOffer(f, p) PROVE f = file /\ i = next
  BY <1>1, <1>2, <1>5 DEF AtMostOnce
<1>6. ToOffer(file, p) = {next}
  BY <1>1, <1>2, <1>5
<1>7. \A f \in FileName \ {file} : ToOffer(f, p) = {}
  BY <1>5
<1>8. QED BY <1>4, <1>6, <1>7

(* Reading the size of the queue before offering leaves room enough, although the queue *)
(* changes in between (FileImportService.java:121-131).                                 *)
LEMMA RoomStep ==
  ASSUME IInv, NothingInvented, RestoredKnown, Moved, Room, [Next]_vars
  PROVE  Room'
<1> USE DEF queues, stage, imp, disk, ghosts
<1> DEFINE Limit == RestoreFactor * BatchSize
<1>0. TypeOK /\ mainQ \in Seq(Packet)
  BY DEF IInv, TypeOK
<1>1. Limit \in Nat
  <2>1. RestoreFactor \in Nat /\ BatchSize \in Nat
    BY ArchiverAssumption
  <2>2. QED BY <2>1
<1>2. Count(mainQ, restored) \in Nat /\ Count(mainQ, restored) <= Len(mainQ)
  BY <1>0, CountOfQueue
<1>3. Room <=> /\ Count(mainQ, restored) <= Limit + 1
               /\ impPc = "offer" => Count(mainQ, restored) <= Limit
  BY DEF Room
<1>4. Room' <=> /\ Count(mainQ', restored') <= Limit + 1
                /\ impPc' = "offer" => Count(mainQ', restored') <= Limit
  BY DEF Room, Count, Places
<1> HIDE DEF Limit
<1>5. ASSUME NEW x \in Packet, Receive(x) PROVE Room'
  <2>1. UNCHANGED <<impPc, restored>> /\ (mainQ' = mainQ \/ mainQ' = Append(mainQ, x))
    BY <1>5 DEF Receive
  <2>2. x \notin restored
    BY <1>5 DEF Receive, RestoredKnown
  <2>3. Count(Append(mainQ, x), restored) = Count(mainQ, restored)
    <3>1. Count(Append(mainQ, x), restored) = Count(mainQ, restored) + (IF x \in restored THEN 1 ELSE 0)
      BY <1>0, CountOffered
    <3>2. QED BY <1>2, <2>2, <3>1
  <2>4. Count(mainQ', restored') = Count(mainQ, restored)
    BY <2>1, <2>3
  <2>5. QED BY <1>3, <1>4, <2>1, <2>4
<1>6. ASSUME TakeBatch PROVE Room'
  <2>1. PICK n \in 1..BatchSize :
          /\ n <= Len(mainQ)
          /\ mainQ' = SubSeq(mainQ, n + 1, Len(mainQ))
          /\ batch' = SubSeq(mainQ, 1, n)
    BY <1>6 DEF TakeBatch
  <2>2. n \in Nat \ {0}
    BY ArchiverAssumption
  <2>3. Count(mainQ, restored) = Count(batch', restored) + Count(mainQ', restored)
    BY <1>0, <2>1, <2>2, CountTaken
  <2>4. Count(batch', restored) \in Nat /\ Count(mainQ', restored) \in Nat
    BY <1>0, <2>1, <2>2, TakeFromQueue, CountOfQueue
  <2>5. Count(mainQ', restored) <= Count(mainQ, restored)
    BY <2>3, <2>4
  <2>6. UNCHANGED <<impPc, restored>>
    BY <1>6 DEF TakeBatch
  <2>7. QED BY <1>1, <1>2, <1>3, <1>4, <2>4, <2>5, <2>6
<1>7. ASSUME OfferRestored PROVE Room'
  <2>1. impPc = "offer" /\ impPc' = "probe" /\ Count(mainQ, restored) <= Limit
    BY <1>3, <1>7 DEF OfferRestored
  <2>2. CASE UNCHANGED <<mainQ, restored>>
    BY <1>1, <1>2, <1>4, <2>1, <2>2
  <2>3. CASE /\ mainQ' = Append(mainQ, zips[file][next])
             /\ restored' = restored \cup {zips[file][next]}
    <3> DEFINE x == zips[file][next]
    <3>1. x \in Packet
      BY <1>0, <2>1, ElementOfSeq DEF TypeOK
    <3>2. Count(mainQ', restored') = Count(mainQ, restored') + 1
      <4>1. Count(mainQ', restored') = Count(mainQ, restored') + (IF x \in restored' THEN 1 ELSE 0)
        BY <1>0, <2>3, <3>1, CountOffered
      <4>2. QED BY <2>3, <4>1
    <3>3. Count(mainQ, restored') = Count(mainQ, restored)
      <4>1. CASE x \in restored
        <5>1. restored' = restored
          BY <2>3, <4>1
        <5>2. QED BY <5>1
      <4>2. CASE x \notin restored
        <5>1. InQueues(x) = 0
          BY <1>0, <2>1, <3>1, <4>2, OfferedIsNowhere DEF Moved
        <5>2. x \notin Range(mainQ)
          BY <1>0, <5>1, QueueCounts DEF InMemory
        <5>3. Count(mainQ, {x}) = 0
          <6>1. Range(mainQ) \cap {x} = {}
            BY <5>2
          <6>2. QED BY <1>0, <6>1, CountOfQueue
        <5>4. Count(mainQ, restored \cup {x}) = Count(mainQ, restored) + Count(mainQ, {x})
          BY <1>0, <4>2, CountOfMore
        <5>5. QED BY <1>2, <2>3, <5>3, <5>4
      <4>3. QED BY <4>1, <4>2
    <3>4. Count(mainQ', restored') <= Limit + 1
      BY <1>1, <1>2, <2>1, <3>2, <3>3
    <3>5. QED BY <1>4, <2>1, <3>4
  <2>4. QED BY <1>7, <2>2, <2>3 DEF OfferRestored
<1>8. ASSUME Halt PROVE Room'
  <2>1. mainQ' = <<>> /\ impPc' = "idle"
    BY <1>8 DEF Halt
  <2>2. Count(<<>>, restored') = 0
    BY CountOfQueue, <<>> \in Seq(Packet)
  <2>3. QED BY <1>1, <1>4, <2>1, <2>2
<1>9. ASSUME ProbeQueue PROVE Room'
  <2>1. UNCHANGED <<mainQ, restored>> /\ Len(mainQ) <= Limit
    BY <1>9 DEF ProbeQueue, Limit
  <2>2. Len(mainQ) \in Nat
    BY <1>0, EmptyQueue
  <2>3. QED BY <1>1, <1>2, <1>3, <1>4, <2>1, <2>2
<1>10. ASSUME ~OfferRestored, ~TakeBatch, ~Halt, ~ProbeQueue, \A x \in Packet : ~Receive(x)
       PROVE  Room'
  <2>1. UNCHANGED <<mainQ, restored>> /\ (impPc' = "offer" => impPc = "offer")
    BY <1>10 DEF Next, Readers, ReceiveOverflow, Stage, WriteBatch, RejectBatch, FailBatch,
       OnFailure, Backup, BackupWrite, BackupClose, Process, Shutdown, Restart, vars, Importer,
       BeginScan, EndScan, OpenFile, FinishFile, FailFile, NextFile, StopImporter
  <2>2. QED BY <1>3, <1>4, <2>1
<1>11. QED BY <1>5, <1>6, <1>7, <1>8, <1>9, <1>10

(* What the importer still has to offer of p, when it does something else than to offer, *)
(* and the file that was open is not closed: no more than before. If it lets a file be    *)
(* that it has begun, a fault has happened, and p was never restored.                     *)
LEMMA NoMoreToOffer ==
  ASSUME IInv, NothingInvented, RestoredKnown, FaultsCounted, [Next]_vars, ~OfferRestored,
         NEW p, p \notin restored' \/ Unspoilt', NEW f \in FileName,
         zips'[f] \in {zips[f], <<>>}
  PROVE  ToOffer(f, p)' \subseteq ToOffer(f, p)
<1> USE DEF queues, stage, imp, disk, ghosts
<1>0. TypeOK /\ OfferedIsHandedOver
  BY DEF IInv
<1>1. Occurrences(zips'[f], p) \subseteq Occurrences(zips[f], p)
  <2>1. Occurrences(<<>>, p) = {}
    BY DEF Occurrences
  <2>2. QED BY <2>1
<1>2. /\ ToOffer(f, p)' = Occurrences(zips'[f], p) \cap Unoffered(f)'
      /\ ToOffer(f, p) = Occurrences(zips[f], p) \cap Unoffered(f)
  BY DEF ToOffer, Occurrences
<1>3. CASE p \notin restored
  BY <1>0, <1>1, <1>2, <1>3, UnrestoredToOffer
<1>4. CASE Unspoilt'
  <2>1. phase = "running" /\ ~Spend("disk") /\ ~Spend("stop")
    BY <1>0, <1>4, FaultsStep DEF FaultsCounted
  <2>2. ~Halt /\ ~StopImporter /\ ~FailFile
    BY <2>1 DEF Halt, StopImporter, FailFile
  <2>3. CASE FinishFile
    <3>1. zips' = [zips EXCEPT ![file] = <<>>] /\ impPc = "probe" /\ impPc' = "pause"
      BY <2>1, <2>3, Zenon DEF FinishFile
    <3>2. CASE f = file
      <4>1. Occurrences(zips'[f], p) = {}
        BY <1>0, <3>1, <3>2 DEF Occurrences, TypeOK
      <4>2. QED BY <1>2, <4>1
    <3>3. CASE f # file
      BY <1>0, <1>2, <3>1, <3>3 DEF Unoffered, TypeOK
    <3>4. QED BY <3>2, <3>3
  <2>4. ASSUME NEW g \in FileName, OpenFile(g) PROVE ToOffer(f, p)' \subseteq ToOffer(f, p)
    <3>1. impPc = "scan" /\ zips' = zips
      BY <2>4 DEF OpenFile
    <3>2. Unoffered(f) = DOMAIN zips[f] /\ Unoffered(f)' \subseteq DOMAIN zips[f]
      BY <3>1 DEF Unoffered
    <3>3. QED BY <1>1, <1>2, <3>2
  <2>5. CASE BeginScan \/ EndScan \/ NextFile
    <3>1. zips' = zips /\ impPc \in {"idle", "scan", "pause"} /\ impPc' \in {"idle", "scan", "pause"}
      BY <2>5 DEF BeginScan, EndScan, NextFile
    <3>2. QED BY <1>1, <1>2, <3>1 DEF Unoffered
  <2>6. CASE ProbeQueue
    <3>1. UNCHANGED <<zips, file, next>> /\ impPc = "probe" /\ impPc' = "offer"
      BY <2>6 DEF ProbeQueue
    <3>2. QED BY <1>1, <1>2, <3>1 DEF Unoffered
  <2>7. CASE UNCHANGED imp
    <3>1. CASE zips'[f] = zips[f]
      BY <1>1, <1>2, <2>7, <3>1 DEF Unoffered
    <3>2. CASE zips'[f] = <<>>
      BY <1>2, <3>2 DEF Occurrences
    <3>3. QED BY <3>1, <3>2
  <2>8. QED
    BY <2>2, <2>3, <2>4, <2>5, <2>6, <2>7 DEF Next, Readers, Receive, ReceiveOverflow, Stage,
       TakeBatch, WriteBatch, RejectBatch, FailBatch, OnFailure, Backup, BackupWrite, BackupClose,
       Process, Shutdown, Restart, vars, Importer
<1>5. QED BY <1>3, <1>4, RestoredStep

(* One party at most gets hold of a packet, in every step.                              *)
LEMMA MovedStep ==
  ASSUME IInv, TypeOK', NothingInvented, FaultsCounted, RestoredKnown, Moved, [Next]_vars
  PROVE  Moved'
<1> USE DEF queues, stage, imp, disk, ghosts
<1> SUFFICES ASSUME NEW p \in Packet, p \notin restored' \/ Unspoilt' PROVE AtMostOnce(p)'
  BY DEF Moved
<1>0. TypeOK /\ OfferedIsHandedOver
  BY DEF IInv
<1>1. AtMostOnce(p)
  <2>1. restored \subseteq restored' /\ (Unspoilt' => Unspoilt)
    BY <1>0, RestoredStep, FaultsStep
  <2>2. QED BY <2>1 DEF Moved
<1>2. CASE Receive(p)
  <2>1. p \notin InMemory /\ p \notin OnDisk
    BY <1>2 DEF Receive, NothingInvented, InCare
  <2>2. InQueues(p) = 0
    BY <1>0, <2>1, QueueCounts
  <2>3. InQueues(p)' = 1
    <3>1. /\ UNCHANGED <<batch, backupQ, open>>
          /\ \/ mainQ' = Append(mainQ, p) /\ overflow' = overflow
             \/ mainQ' = mainQ /\ overflow' = overflow \cup {p}
      BY <1>2 DEF Receive
    <3>2. Count(Append(mainQ, p), {p}) = Count(mainQ, {p}) + 1
      <4>1. Count(Append(mainQ, p), {p}) = Count(mainQ, {p}) + (IF p \in {p} THEN 1 ELSE 0)
        BY <1>0, CountOffered DEF TypeOK
      <4>2. QED BY <4>1
    <3>3. p \notin overflow
      BY <2>1 DEF InMemory
    <3>4. InQueues(p)' = InQueues(p) + 1
      <4>1. /\ Count(mainQ, {p}) \in Nat /\ Count(batch, {p}) \in Nat
            /\ Count(backupQ, {p}) \in Nat /\ Count(open, {p}) \in Nat
        BY <1>0, QueueCounts
      <4>2. CASE mainQ' = Append(mainQ, p) /\ overflow' = overflow
        BY <3>1, <3>2, <3>3, <4>1, <4>2, InQueuesNext DEF InQueues
      <4>3. CASE mainQ' = mainQ /\ overflow' = overflow \cup {p}
        BY <3>1, <3>3, <4>1, <4>3, InQueuesNext DEF InQueues
      <4>4. QED BY <3>1, <4>2, <4>3
    <3>5. QED BY <2>2, <3>4
  <2>4. ASSUME NEW f \in FileName PROVE ToOffer(f, p)' = {}
    <3>1. p \notin Range(zips[f])
      BY <2>1 DEF OnDisk, OnDiskBut
    <3>2. Occurrences(zips[f], p) = {}
      BY <3>1 DEF Occurrences, Range
    <3>3. zips' = zips
      BY <1>2 DEF Receive
    <3>4. QED BY <3>2, <3>3 DEF ToOffer, Occurrences
  <2>5. QED BY <2>3, <2>4 DEF AtMostOnce
<1>3. CASE OfferRestored
  <2>1. /\ impPc = "offer" /\ impPc' = "probe" /\ next \in Nat
        /\ UNCHANGED <<zips, file, overflow, batch, backupQ, open>>
    BY <1>0, <1>3 DEF OfferRestored, TypeOK
  <2>2. ASSUME NEW f \in FileName
        PROVE  ToOffer(f, p)' = {i \in ToOffer(f, p) : f = file => i >= next'}
    BY <1>0, <1>3, <2>1 DEF OfferRestored, ToOffer, Occurrences, Unoffered, TypeOK
  <2>3. CASE UNCHANGED <<mainQ, next>>
    <3>1. InQueues(p)' <= InQueues(p)
      <4>1. InQueues(p)' = InQueues(p)
        BY <2>1, <2>3, InQueuesNext DEF InQueues
      <4>2. InQueues(p) \in Nat
        BY <1>0, QueueCounts
      <4>3. QED BY <4>1, <4>2
    <3>2. QED BY <1>0, <1>1, <2>2, <3>1, NoMoreOfIt
  <2>4. CASE mainQ' = Append(mainQ, zips[file][next]) /\ next' = next + 1
    <3>1. zips[file][next] \in Packet
      BY <1>0, <2>1, ElementOfSeq DEF TypeOK
    <3>2. Count(mainQ', {p}) = Count(mainQ, {p}) + (IF zips[file][next] \in {p} THEN 1 ELSE 0)
      BY <1>0, <2>4, <3>1, CountOffered DEF TypeOK
    <3>3. /\ Count(mainQ, {p}) \in Nat /\ Count(batch, {p}) \in Nat
          /\ Count(backupQ, {p}) \in Nat /\ Count(open, {p}) \in Nat
      BY <1>0, QueueCounts
    <3>4. InQueues(p)' = InQueues(p) + (IF zips[file][next] = p THEN 1 ELSE 0)
      BY <2>1, <3>2, <3>3, InQueuesNext DEF InQueues
    <3>5. CASE zips[file][next] # p
      <4>1. InQueues(p)' <= InQueues(p)
        <5>1. InQueues(p) \in Nat
          BY <1>0, QueueCounts
        <5>2. QED BY <3>4, <3>5, <5>1
      <4>2. QED BY <1>0, <1>1, <2>2, <4>1, NoMoreOfIt
    <3>6. CASE zips[file][next] = p
      <4>1. /\ InQueues(p) = 0 /\ ToOffer(file, p) = {next}
            /\ \A f \in FileName \ {file} : ToOffer(f, p) = {}
        BY <1>0, <1>1, <2>1, <3>6, OfferedIsNowhere
      <4>2. InQueues(p)' = 1
        BY <3>4, <3>6, <4>1
      <4>3. \A f \in FileName : ToOffer(f, p)' = {}
        BY <2>1, <2>2, <2>4, <4>1
      <4>4. QED BY <4>2, <4>3 DEF AtMostOnce
    <3>7. QED BY <3>5, <3>6
  <2>5. QED BY <1>3, <2>3, <2>4 DEF OfferRestored
<1>4. CASE ~Receive(p) /\ ~OfferRestored
  <2>1. InQueues(p)' <= InQueues(p)
    BY <1>0, <1>4, QueuesShrink
  <2>2. ASSUME NEW f \in FileName, BackupClose(f) \/ Halt, zips[f] = <<>>,
               zips' = [zips EXCEPT ![f] = open]
        PROVE  AtMostOnce(p)'
    <3>1. \A g \in FileName \ {f} : zips'[g] = zips[g]
      BY <1>0, <2>2 DEF TypeOK
    <3>2. \A g \in FileName \ {f} : ToOffer(g, p)' \subseteq ToOffer(g, p)
      BY <1>4, <3>1, NoMoreToOffer
    <3>3. InQueues(p)' + Count(open, {p}) <= InQueues(p)
      <4>1. /\ Count(mainQ, {p}) \in Nat /\ Count(batch, {p}) \in Nat
            /\ Count(backupQ, {p}) \in Nat /\ Count(open, {p}) \in Nat
        BY <1>0, QueueCounts
      <4>2. Count(<<>>, {p}) = 0
        BY CountOfQueue, <<>> \in Seq(Packet)
      <4>3. CASE BackupClose(f)
        BY <4>1, <4>2, <4>3, InQueuesNext DEF BackupClose, InQueues
      <4>4. CASE Halt
        <5>1. overflow' = {} /\ mainQ' = <<>> /\ batch' = <<>> /\ backupQ' = <<>> /\ open' = <<>>
          BY <4>4 DEF Halt
        <5>2. InQueues(p)' = 0
          BY <4>2, <5>1, InQueuesNext
        <5>3. QED BY <4>1, <5>2 DEF InQueues
      <4>5. QED BY <2>2, <4>3, <4>4
    <3>4. QED BY <1>0, <1>1, <2>2, <3>2, <3>3, FileClosed
  <2>3. ASSUME \A f \in FileName : zips'[f] \in {zips[f], <<>>} PROVE AtMostOnce(p)'
    <3>1. \A f \in FileName : ToOffer(f, p)' \subseteq ToOffer(f, p)
      BY <1>4, <2>3, NoMoreToOffer
    <3>2. QED BY <1>0, <1>1, <2>1, <3>1, NoMoreOfIt
  <2>4. \/ \A f \in FileName : zips'[f] \in {zips[f], <<>>}
        \/ \E f \in FileName : /\ BackupClose(f) \/ Halt
                               /\ zips[f] = <<>> /\ zips' = [zips EXCEPT ![f] = open]
    <3>1. CASE Halt
      BY <3>1 DEF Halt
    <3>2. ASSUME NEW f \in FileName, BackupClose(f)
          PROVE  zips[f] = <<>> /\ zips' = [zips EXCEPT ![f] = open]
      BY <3>2 DEF BackupClose
    <3>3. CASE FinishFile \/ FailFile
      BY <1>0, <3>3 DEF FinishFile, FailFile, TypeOK
    <3>4. ASSUME ~Halt, ~FinishFile, ~FailFile, \A f \in FileName : ~BackupClose(f)
          PROVE  UNCHANGED zips
      BY <1>4, <3>4 DEF Next, Readers, Receive, ReceiveOverflow, Stage, TakeBatch, WriteBatch,
         RejectBatch, FailBatch, OnFailure, Backup, BackupWrite, Process, Shutdown, Restart, vars,
         Importer, BeginScan, EndScan, OpenFile, ProbeQueue, NextFile, StopImporter
    <3>5. QED BY <3>1, <3>2, <3>3, <3>4
  <2>5. QED BY <2>2, <2>3, <2>4
<1>5. QED BY <1>2, <1>3, <1>4

(* The inductive invariant of what follows; IInv and NothingInvented are proved above.  *)
MInv == /\ IInv /\ NothingInvented
        /\ FaultsCounted /\ RestoredKnown /\ Moved /\ Room

(* One party at most is to write a packet that was never restored, or any packet while  *)
(* no file operation has failed and the process has not stopped; and of the packets in  *)
(* the main queue few are restored ones (FileImportService.java:115-143,                *)
(* CassandraBatchedStagedWriter.java:72-117).                                           *)
THEOREM MovingInvariance == Spec => []MInv
<1>1. Init => NothingInvented /\ FaultsCounted /\ RestoredKnown /\ Moved /\ Room
  <2> SUFFICES ASSUME Init PROVE NothingInvented /\ FaultsCounted /\ RestoredKnown /\ Moved /\ Room
    OBVIOUS
  <2>1. Range(<<>>) = {} /\ \A S : Count(<<>>, S) = 0
    BY EmptyQueue, CountOfQueue, <<>> \in Seq(Packet)
  <2>2. NothingInvented
    BY <2>1 DEF Init, NothingInvented, InCare, InMemory, OnDisk, OnDiskBut
  <2>3. FaultsCounted
    BY ArchiverAssumption DEF Init, FaultsCounted
  <2>4. RestoredKnown
    BY DEF Init, RestoredKnown
  <2>5. \A p \in Packet : AtMostOnce(p)
    <3>1. ASSUME NEW p \in Packet PROVE InQueues(p) = 0
      BY <2>1 DEF Init, InQueues
    <3>2. ASSUME NEW p \in Packet, NEW f \in FileName PROVE ToOffer(f, p) = {}
      BY DEF Init, ToOffer, Occurrences
    <3>3. QED BY <3>1, <3>2 DEF AtMostOnce
  <2>6. Room
    <3>1. RestoreFactor * BatchSize \in Nat
      <4>1. RestoreFactor \in Nat /\ BatchSize \in Nat
        BY ArchiverAssumption
      <4>2. QED BY <4>1
    <3>2. Count(mainQ, restored) = 0 /\ impPc # "offer"
      BY <2>1 DEF Init
    <3>3. QED BY <3>1, <3>2 DEF Room
  <2>7. QED BY <2>2, <2>3, <2>4, <2>5, <2>6 DEF Moved
<1>2. IInv /\ IInv' /\ NothingInvented /\ FaultsCounted /\ RestoredKnown /\ Moved /\ Room
        /\ [Next]_vars
      => (NothingInvented /\ FaultsCounted /\ RestoredKnown /\ Moved /\ Room)'
  BY NothingInventedStep, FaultsStep, RestoredStep, MovedStep, RoomStep DEF IInv
<1>3. QED BY <1>1, <1>2, Invariance, PTL DEF Spec, MInv

(* Restoring never crowds out reception, for any sizes of queues and batches.           *)
THEOREM RoomForReception == Spec => []RestoreLeavesRoom
<1>1. MInv => RestoreLeavesRoom
  BY DEF MInv, Room, RestoreLeavesRoom, Count, Places
<1>2. QED BY <1>1, MovingInvariance, PTL

(* A packet that at most one party has is in one place.                                 *)
LEMMA OneCopy ==
  ASSUME TypeOK, NEW p, AtMostOnce(p)
  PROVE  \A x, y \in Copies(p) : x = y
<1> DEFINE O == {"overflow"} \X (overflow \cap {p})
           A == {"main"} \X Occurrences(mainQ, p)
           B == {"batch"} \X Occurrences(batch, p)
           C == {"backup"} \X Occurrences(backupQ, p)
           D == {"open"} \X Occurrences(open, p)
           Z == UNION {{f} \X ToOffer(f, p) : f \in FileName}
           o == IF p \in overflow THEN 1 ELSE 0
           a == Count(mainQ, {p})  b == Count(batch, {p})
           c == Count(backupQ, {p})  d == Count(open, {p})
<1>1. Copies(p) = O \cup A \cup B \cup C \cup D \cup Z
  BY DEF Copies, ToOffer
<1>2. /\ mainQ \in Seq(Packet) /\ batch \in Seq(Packet)
      /\ backupQ \in Seq(Packet) /\ open \in Seq(Packet)
  BY DEF TypeOK
<1>3. ASSUME NEW q \in Seq(Packet), NEW t
      PROVE  /\ Count(q, {p}) \in Nat
             /\ Count(q, {p}) = 0 => {t} \X Occurrences(q, p) = {}
             /\ Count(q, {p}) <= 1 => \A x, y \in {t} \X Occurrences(q, p) : x = y
  <2>1. /\ Count(q, {p}) \in Nat /\ (Count(q, {p}) = 0 => Occurrences(q, p) = {})
        /\ Count(q, {p}) <= 1 => \A i, j \in Occurrences(q, p) : i = j
    BY OnePlace
  <2>2. Occurrences(q, p) = {} => {t} \X Occurrences(q, p) = {}
    OBVIOUS
  <2>3. ASSUME \A i, j \in Occurrences(q, p) : i = j,
               NEW x \in {t} \X Occurrences(q, p), NEW y \in {t} \X Occurrences(q, p)
        PROVE  x = y
    <3>1. PICK i \in Occurrences(q, p), j \in Occurrences(q, p) : x = <<t, i>> /\ y = <<t, j>>
      OBVIOUS
    <3>2. QED BY <2>3, <3>1
  <2>4. QED BY <2>1, <2>2, <2>3
<1>4. /\ a \in Nat /\ (a = 0 => A = {}) /\ (a <= 1 => \A x, y \in A : x = y)
      /\ b \in Nat /\ (b = 0 => B = {}) /\ (b <= 1 => \A x, y \in B : x = y)
      /\ c \in Nat /\ (c = 0 => C = {}) /\ (c <= 1 => \A x, y \in C : x = y)
      /\ d \in Nat /\ (d = 0 => D = {}) /\ (d <= 1 => \A x, y \in D : x = y)
  BY <1>2, <1>3
<1>5. o \in Nat /\ (o = 0 => O = {}) /\ \A x, y \in O : x = y
  OBVIOUS
<1>6. o + a + b + c + d <= 1
  BY DEF AtMostOnce, InQueues
<1>7. o + a + b + c + d = 1 => Z = {}
  BY DEF AtMostOnce, InQueues
<1>8. ASSUME NEW x \in Z, NEW y \in Z PROVE x = y
  <2>1. PICK f \in FileName, g \in FileName : x \in {f} \X ToOffer(f, p) /\ y \in {g} \X ToOffer(g, p)
    OBVIOUS
  <2>2. PICK i \in ToOffer(f, p), j \in ToOffer(g, p) : x = <<f, i>> /\ y = <<g, j>>
    BY <2>1
  <2>3. QED BY <2>2 DEF AtMostOnce
<1> HIDE DEF O, A, B, C, D, Z, o, a, b, c, d
<1>9. \/ o = 0 /\ a = 0 /\ b = 0 /\ c = 0 /\ d = 0
      \/ o = 1 /\ a = 0 /\ b = 0 /\ c = 0 /\ d = 0
      \/ o = 0 /\ a = 1 /\ b = 0 /\ c = 0 /\ d = 0
      \/ o = 0 /\ a = 0 /\ b = 1 /\ c = 0 /\ d = 0
      \/ o = 0 /\ a = 0 /\ b = 0 /\ c = 1 /\ d = 0
      \/ o = 0 /\ a = 0 /\ b = 0 /\ c = 0 /\ d = 1
  BY <1>4, <1>5, <1>6
<1>10. CASE o = 0 /\ a = 0 /\ b = 0 /\ c = 0 /\ d = 0
  <2>1. Copies(p) = Z
    BY <1>1, <1>4, <1>5, <1>10
  <2>2. QED BY <1>8, <2>1
<1>11. CASE ~(o = 0 /\ a = 0 /\ b = 0 /\ c = 0 /\ d = 0)
  <2>1. Z = {}
    BY <1>7, <1>9, <1>11
  <2>2. \E S \in {O, A, B, C, D} : Copies(p) = S /\ \A x, y \in S : x = y
    BY <1>1, <1>4, <1>5, <1>9, <1>11, <2>1
  <2>3. QED BY <2>2
<1>12. QED BY <1>10, <1>11

(* A packet that nobody has any more is stored or given up, if nothing has gone wrong   *)
(* but writes to Cassandra.                                                             *)
LEMMA NoCopy ==
  ASSUME MInv, Unspoilt, NEW p \in received, Copies(p) = {}
  PROVE  p \in stored \cup reported
<1>1. TypeOK /\ OfferedIsHandedOver /\ NothingLost /\ vanished = {} /\ unreadable = {}
  BY DEF MInv, IInv, FaultsCounted
<1>2. p \notin InMemory
  <2>1. ASSUME NEW S, NEW t, {t} \X S = {} PROVE S = {}
    <3>1. ASSUME NEW i \in S PROVE <<t, i>> \in {t} \X S
      OBVIOUS
    <3>2. QED BY <2>1, <3>1
  <2>2. ASSUME NEW q, p \in Range(q) PROVE Occurrences(q, p) # {}
    BY <2>2 DEF Range, Occurrences
  <2>3. /\ Occurrences(mainQ, p) = {} /\ Occurrences(batch, p) = {}
        /\ Occurrences(backupQ, p) = {} /\ Occurrences(open, p) = {}
    <3>1. /\ {"main"} \X Occurrences(mainQ, p) = {} /\ {"batch"} \X Occurrences(batch, p) = {}
          /\ {"backup"} \X Occurrences(backupQ, p) = {} /\ {"open"} \X Occurrences(open, p) = {}
      BY Zenon DEF Copies
    <3>2. QED BY <2>1, <3>1
  <2>4. p \notin overflow
    <3>1. <<"overflow", p>> \in {"overflow"} \X (overflow \cap {p}) <=> p \in overflow
      OBVIOUS
    <3>2. QED BY <3>1 DEF Copies
  <2>5. QED BY <2>2, <2>3, <2>4 DEF InMemory
<1>3. ASSUME NEW f \in FileName, NEW i \in Unoffered(f), i \in DOMAIN zips[f], zips[f][i] = p
      PROVE  FALSE
  <2>1. <<f, i>> \in {f} \X (Occurrences(zips[f], p) \cap Unoffered(f))
    BY <1>3 DEF Occurrences
  <2>2. <<f, i>> \in Copies(p)
    BY <2>1 DEF Copies
  <2>3. QED BY <2>2
<1>4. ASSUME NEW f \in FileName, p \in Range(zips[f]), f # file \/ impPc \notin {"probe", "offer"}
      PROVE  FALSE
  <2>1. PICK i \in DOMAIN zips[f] : zips[f][i] = p
    BY <1>4 DEF Range
  <2>2. i \in Unoffered(f)
    BY <1>4 DEF Unoffered
  <2>3. QED BY <1>3, <2>1, <2>2
<1>5. p \notin OnDiskBut({file})
  BY <1>1, <1>4 DEF OnDiskBut
<1>6. CASE p \in InCare
  BY <1>2, <1>6 DEF InCare
<1>7. CASE p \in OnDisk
  <2>1. p \in Range(zips[file]) /\ impPc \in {"probe", "offer"} /\ file \in FileName
    BY <1>1, <1>4, <1>7 DEF OnDisk, OnDiskBut
  <2>2. zips[file] \in Seq(Packet) /\ next \in Nat
    BY <1>1, <2>1 DEF TypeOK
  <2>3. PICK i \in DOMAIN zips[file] : zips[file][i] = p
    BY <2>1 DEF Range
  <2>4. i \in 1..Len(zips[file]) /\ Len(zips[file]) \in Nat
    BY <2>2, LenProperties
  <2>5. i \notin Unoffered(file)
    BY <1>3, <2>1, <2>3
  <2>6. i \in 1..(next - 1)
    BY <2>1, <2>2, <2>4, <2>5 DEF Unoffered
  <2>7. p \in InCare
    BY <1>1, <1>5, <2>1, <2>3, <2>6 DEF OfferedIsHandedOver
  <2>8. QED BY <1>2, <2>7 DEF InCare
<1>8. QED BY <1>1, <1>6, <1>7 DEF NothingLost

(* Packets are moved, not copied, for any sizes, numbers of packets and files, and any  *)
(* number of failed writes (CassandraBatchedStagedWriter.java:84-116,                   *)
(* FileImportService.java:115-143).                                                     *)
THEOREM PacketsAreMoved == Spec => []MovedNotCopied
<1>1. ASSUME MInv, Unspoilt, NEW p \in received
      PROVE  \/ Cardinality(Copies(p)) = 1
             \/ Cardinality(Copies(p)) = 0 /\ p \in stored \cup reported
  <2>1. TypeOK /\ p \in Packet
    BY <1>1 DEF MInv, IInv, TypeOK
  <2>2. AtMostOnce(p)
    BY <1>1, <2>1 DEF MInv, Moved
  <2>3. \A x, y \in Copies(p) : x = y
    BY <2>1, <2>2, OneCopy
  <2>4. CASE Copies(p) = {}
    <3>1. Cardinality(Copies(p)) = 0
      BY <2>4, FS_EmptySet
    <3>2. QED BY <1>1, <2>4, <3>1, NoCopy
  <2>5. CASE Copies(p) # {}
    <3>1. PICK x : Copies(p) = {x}
      BY <2>3, <2>5
    <3>2. QED BY <3>1, FS_Singleton
  <2>6. QED BY <2>4, <2>5
<1>2. MInv => MovedNotCopied
  BY <1>1 DEF MovedNotCopied, Unspoilt
<1>3. QED BY <1>2, MovingInvariance, PTL
=============================================================================
