---------------------------- MODULE FileExportRest ----------------------------
(***************************************************************************)
(* The export client: it asks the REST service for the packets of an       *)
(* interval, appends them to a file and notes in a second file, the meta   *)
(* file, up to which timestamp it has come. Run again, it asks for         *)
(* everything once more and skips what the meta file says it has.          *)
(*                                                                         *)
(* A session is one run of the program. Packets are numbered in the order  *)
(* of the answer, which is that of their timestamps (the service merges    *)
(* its results by timestamp) and the same in every session.                *)
(***************************************************************************)
EXTENDS Integers, Sequences, FiniteSets, Functions

CONSTANTS
  N,         \* number of packets in the answer
  Time,      \* timestamp of each packet
  Undecoded, \* packets that hold no AIS message
  Start,     \* first timestamp of the interval
  Every,     \* 10000: packets between two updates of the meta file
  Budget     \* how often each kind of event below may happen

EventKind == {"crash", "network", "disk", "force"}

Packet == 1..N

ASSUME ExportAssumption ==
  /\ N \in Nat /\ Undecoded \subseteq Packet
  /\ Start \in Nat \ {0} /\ Every \in Nat \ {0}
  /\ Time \in [Packet -> Nat]
  /\ \A p \in Packet : Time[p] >= Start
  /\ \A p, q \in Packet : p <= q => Time[p] <= Time[q]
  /\ Budget \in [EventKind -> Nat]

VARIABLES
  pc,     \* off, truncate or write (the meta file), request, read, flush or close
  save,   \* why the meta file is written: init, checkpoint or final
  lastLoadedTimestamp, currentTimeStamp, lastFlushTimestamp,
  counter,  \* packets written, by this session and those it resumes
  buffer,   \* packets in outputStream
  pos,      \* next packet of the answer
  file,     \* packets in the download file
  meta,     \* the meta file: state (absent, empty, whole), timestamp, packageCount
  orphaned, \* for the properties: what the meta file may claim although no copy is left
  budget    \* events that may still happen

memory == <<lastLoadedTimestamp, currentTimeStamp, lastFlushTimestamp, counter, pos>>
vars   == <<pc, save, memory, buffer, file, meta, orphaned, budget>>

Spend(kind) == budget[kind] > 0 /\ budget' = [budget EXCEPT ![kind] = @ - 1]

NoMeta(state) == [state |-> state, timestamp |-> 0, packageCount |-> 0]

-----------------------------------------------------------------------------
Init ==
  /\ pc = "off" /\ save = "init"
  /\ lastLoadedTimestamp = 0 /\ currentTimeStamp = 0 /\ lastFlushTimestamp = 0
  /\ counter = 0 /\ pos = 1 /\ buffer = <<>>
  /\ file = <<>> /\ meta = NoMeta("absent") /\ orphaned = {}
  /\ budget = Budget

\* A session that has something to resume takes it from the meta file.
Resume ==
  /\ pc = "off"
  /\ meta.packageCount # 0
  /\ lastLoadedTimestamp' = meta.timestamp /\ counter' = meta.packageCount
  /\ pc' = "request"
  /\ UNCHANGED <<save, currentTimeStamp, lastFlushTimestamp, pos, buffer, file, meta,
                 orphaned, budget>>

\* Seeded fault: the file is always opened for appending.
BeginAppending ==
  /\ pc = "off"
  /\ \/ meta.packageCount = 0 /\ UNCHANGED budget
     \/ Spend("force")
  /\ lastLoadedTimestamp' = Start /\ counter' = 0
  /\ pc' = "truncate" /\ save' = "init"
  /\ UNCHANGED <<currentTimeStamp, lastFlushTimestamp, pos, buffer, file, meta, orphaned>>

\* Any other session begins at the start of the interval, but does not truncate the file
\* unless the user forces it to.
Begin ==
  /\ pc = "off"
  /\ \/ meta.packageCount = 0 /\ UNCHANGED <<file, orphaned, budget>>
     \/ Spend("force") /\ file' = <<>> /\ orphaned' = orphaned \cup Range(file)
  /\ lastLoadedTimestamp' = Start /\ counter' = 0
  /\ pc' = "truncate" /\ save' = "init"
  /\ UNCHANGED <<currentTimeStamp, lastFlushTimestamp, pos, buffer, meta>>

\* Opening the meta file for writing empties it.
TruncateMeta ==
  /\ pc = "truncate"
  /\ meta' = NoMeta("empty")
  /\ orphaned' = IF save = "init" THEN {} ELSE orphaned
  /\ pc' = "write"
  /\ UNCHANGED <<save, memory, buffer, file, budget>>

\* What a process forgets when it ends.
Forget ==
  /\ lastLoadedTimestamp' = 0 /\ currentTimeStamp' = 0 /\ lastFlushTimestamp' = 0
  /\ counter' = 0 /\ pos' = 1 /\ buffer' = <<>>

\* Or the meta file cannot be opened. At first that is printed; later closing what was not
\* opened throws, which ends the reader, and the program comes to its last meta data, or the
\* program, before its streams are closed.
TruncateFails ==
  /\ pc = "truncate"
  /\ Spend("disk")
  /\ \/ save = "init" /\ pc' = "request" /\ UNCHANGED <<save, memory, buffer>>
     \/ save = "checkpoint" /\ save' = "final" /\ UNCHANGED <<pc, memory, buffer>>
     \/ save = "final" /\ pc' = "off" /\ Forget /\ UNCHANGED save
  /\ UNCHANGED <<file, meta, orphaned>>

\* Seeded fault: the count of the packets before the last one.
MetaToWriteLate ==
  [state |-> "whole",
   timestamp |-> IF save = "init" THEN Start ELSE currentTimeStamp,
   packageCount |-> counter - 1]

MetaToWrite ==
  [state |-> "whole",
   timestamp |-> IF save = "init" THEN Start ELSE currentTimeStamp,
   packageCount |-> counter]

\* Then it is written, or the failure is printed.
WriteMeta ==
  /\ pc = "write"
  /\ \/ meta' = MetaToWrite /\ UNCHANGED budget
     \/ Spend("disk") /\ UNCHANGED meta
  /\ pc' = CASE save = "init" -> "request"
             [] save = "checkpoint" -> "flush"
             [] save = "final" -> "close"
  /\ UNCHANGED <<save, memory, buffer, file, orphaned>>

\* The service accepts the request, or refuses it and the session ends.
Connect ==
  /\ pc = "request"
  /\ pc' = "read"
  /\ UNCHANGED <<save, memory, buffer, file, meta, orphaned, budget>>

Refuse ==
  /\ pc = "request"
  /\ pc' = "off"
  /\ Forget
  /\ UNCHANGED <<save, file, meta, orphaned, budget>>

-----------------------------------------------------------------------------
(* The packet handler, accept. *)

Wanted(p) == Time[p] > lastLoadedTimestamp /\ p \notin Undecoded

\* A packet the file should have already, or without a message.
Skip ==
  /\ pc = "read" /\ pos <= N
  /\ ~Wanted(pos)
  /\ currentTimeStamp' = Time[pos] /\ pos' = pos + 1
  /\ UNCHANGED <<pc, save, lastLoadedTimestamp, lastFlushTimestamp, counter, buffer, file,
                 meta, orphaned, budget>>

\* The packet goes to the buffer, which is written to the file first when it is full.
Buffered(p) ==
  \/ buffer' = Append(buffer, p) /\ UNCHANGED file
  \/ buffer' = <<p>> /\ file' = file \o buffer

\* After every 10000th packet the meta file is updated and the buffer flushed, unless
\* that was done at the same timestamp before.
Due == currentTimeStamp' # lastFlushTimestamp /\ counter' % Every = 0

\* Seeded fault: resumed sessions do not skip.
AcceptAgain ==
  /\ pc = "read" /\ pos <= N
  /\ pos \notin Undecoded
  /\ currentTimeStamp' = Time[pos] /\ pos' = pos + 1 /\ counter' = counter + 1
  /\ Buffered(pos)
  /\ IF Due THEN lastFlushTimestamp' = Time[pos] /\ pc' = "truncate" /\ save' = "checkpoint"
            ELSE UNCHANGED <<lastFlushTimestamp, pc, save>>
  /\ UNCHANGED <<lastLoadedTimestamp, meta, orphaned, budget>>

Accept ==
  /\ pc = "read" /\ pos <= N
  /\ Wanted(pos)
  /\ currentTimeStamp' = Time[pos] /\ pos' = pos + 1 /\ counter' = counter + 1
  /\ Buffered(pos)
  /\ IF Due THEN lastFlushTimestamp' = Time[pos] /\ pc' = "truncate" /\ save' = "checkpoint"
            ELSE UNCHANGED <<lastFlushTimestamp, pc, save>>
  /\ UNCHANGED <<lastLoadedTimestamp, meta, orphaned, budget>>

\* Writing the packet fails: it has been counted, and the error is printed.
AcceptFails ==
  /\ pc = "read" /\ pos <= N
  /\ Wanted(pos)
  /\ Spend("disk")
  /\ currentTimeStamp' = Time[pos] /\ pos' = pos + 1 /\ counter' = counter + 1
  /\ UNCHANGED <<pc, save, lastLoadedTimestamp, lastFlushTimestamp, buffer, file, meta,
                 orphaned>>

\* Seeded fault: a checkpoint does not flush the buffer.
FlushLater ==
  /\ pc = "flush"
  /\ pc' = "read"
  /\ UNCHANGED <<save, memory, buffer, file, meta, orphaned, budget>>

\* The buffer is flushed, or the failure is printed.
Flush ==
  /\ pc = "flush"
  /\ \/ file' = file \o buffer /\ buffer' = <<>> /\ UNCHANGED budget
     \/ Spend("disk") /\ UNCHANGED <<file, buffer>>
  /\ pc' = "read"
  /\ UNCHANGED <<save, memory, meta, orphaned>>

-----------------------------------------------------------------------------
\* Seeded fault: the last meta data claim the whole interval.
EndOfWholeAnswer ==
  /\ pc = "read"
  /\ \/ pos > N /\ UNCHANGED budget
     \/ pos <= N /\ Spend("network")
  /\ pc' = "truncate" /\ save' = "final"
  /\ currentTimeStamp' = Time[N]
  /\ UNCHANGED <<lastLoadedTimestamp, lastFlushTimestamp, counter, pos, buffer, file, meta,
                 orphaned>>

\* The reader ends, at the end of the answer or when the connection breaks.
EndOfAnswer ==
  /\ pc = "read"
  /\ \/ pos > N /\ UNCHANGED budget
     \/ pos <= N /\ Spend("network")
  /\ pc' = "truncate" /\ save' = "final"
  /\ UNCHANGED <<memory, buffer, file, meta, orphaned>>

\* The streams are flushed and closed after the last meta data, and the program ends.
Close ==
  /\ pc = "close"
  /\ file' = file \o buffer
  /\ pc' = "off"
  /\ Forget
  /\ UNCHANGED <<save, meta, orphaned, budget>>

\* The process is killed, or a failure in closing ends it.
Crash ==
  /\ pc # "off"
  /\ Spend("crash")
  /\ pc' = "off"
  /\ orphaned' = IF pc \in {"flush", "close"} THEN orphaned \cup Range(buffer) ELSE orphaned
  /\ Forget
  /\ UNCHANGED <<save, file, meta>>

-----------------------------------------------------------------------------
Session == Resume \/ Begin
MetaFile == TruncateMeta \/ TruncateFails \/ WriteMeta
Answer == Skip \/ Accept \/ AcceptFails \/ Flush \/ EndOfAnswer

Next == Session \/ MetaFile \/ Connect \/ Refuse \/ Answer \/ Close \/ Crash

Spec == Init /\ [][Next]_vars

(* The user repeats the command, the program goes on, and the service does not refuse *)
(* every request.                                                                     *)
Fairness ==
  /\ WF_vars(Session) /\ WF_vars(MetaFile) /\ WF_vars(Answer) /\ WF_vars(Close)
  /\ SF_vars(Connect)

FairSpec == Spec /\ Fairness

-----------------------------------------------------------------------------
(* Properties. *)

TypeOK ==
  /\ pc \in {"off", "truncate", "write", "request", "read", "flush", "close"}
  /\ save \in {"init", "checkpoint", "final"}
  /\ lastLoadedTimestamp \in Nat /\ currentTimeStamp \in Nat /\ lastFlushTimestamp \in Nat
  /\ counter \in Nat /\ pos \in 1..(N + 1)
  /\ buffer \in Seq(Packet) /\ file \in Seq(Packet)
  /\ meta \in [state : {"absent", "empty", "whole"}, timestamp : Nat, packageCount : Nat]
  /\ orphaned \subseteq Packet
  /\ budget \in [EventKind -> Nat]
  /\ pc = "off" => buffer = <<>>

Spent(kind) == Budget[kind] - budget[kind]

(* The packets a user who runs one undisturbed session gets. *)
Complete == {p \in Packet : Time[p] > Start /\ p \notin Undecoded}

(* What the meta file says has been downloaded, leaving out timestamps that several     *)
(* packets share.                                                                       *)
Claimed ==
  IF meta.packageCount = 0 THEN {}
  ELSE {p \in Complete : /\ Time[p] <= meta.timestamp
                         /\ \A q \in Packet : Time[q] = Time[p] => q = p}

(* What the meta file says has been downloaded is in the file or about to be written to *)
(* it. The one moment when the end of the process costs packets that no later session   *)
(* will fetch is between the update of the meta file and the flush that follows it      *)
(* (FileExportRest.java:663-668, 424-435); a forced session that ends before it has     *)
(* reset the meta file is the other way (FileExportRest.java:280, 349).                 *)
ClaimedIsHeld ==
  Spent("disk") = 0 => Claimed \subseteq Range(file \o buffer) \cup orphaned

(* However often sessions are refused, broken off, killed and resumed, each fault costs *)
(* at most one more copy of a packet in the file (FileExportRest.java:279-346,          *)
(* 644-653).                                                                            *)
Copies(p) == Cardinality({i \in DOMAIN file : file[i] = p})
OneCopyPerFault ==
  \A p \in Packet : Copies(p) <= 1 + Spent("crash") + Spent("network") + Spent("disk")

(* Without faults the file is what one undisturbed session would make of it, in order   *)
(* and no packet twice, whatever was refused, resumed or repeated (FileExportRest.java: *)
(* 316-352, 638-689).                                                                   *)
ExactWithoutFaults ==
  Spent("crash") + Spent("network") + Spent("disk") = 0 =>
    /\ \A i, j \in DOMAIN file : i < j => file[i] < file[j]
    /\ pc = "off" /\ meta.packageCount # 0 /\ Spent("force") = 0 => Range(file) = Complete

(* A user who repeats a download that the network breaks off again and again gets every *)
(* packet in the end whose timestamp is its own, unless the process was killed or a     *)
(* write failed (FileExportRest.java:323-346, 424).                                     *)
RetriesComplete ==
  <>[](Spent("crash") + Spent("disk") = 0 =>
         {p \in Complete : \A q \in Packet : Time[q] = Time[p] => q = p} \subseteq Range(file))
=============================================================================
