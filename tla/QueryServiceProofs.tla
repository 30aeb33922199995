-------------------------- MODULE QueryServiceProofs --------------------------
(***************************************************************************)
(* Proofs about the download service, for any queries, clients, pool size  *)
(* and numbers of events.                                                  *)
(***************************************************************************)
EXTENDS QueryService, FiniteSetTheorems, TLAPS

Safe == OnTheWay /\ CompleteHasEnded /\ LoadedIsKept

Content == {"none", "empty", "part", "whole", "short", "error"}

(* Each query has three files of its own. *)
LEMMA OwnFiles ==
  /\ \A j \in Job : Download(j) \in File /\ Result(j) \in File /\ ErrorFile(j) \in File
  /\ \A i, j \in Job :
       /\ Download(i) # Result(j) /\ Download(i) # ErrorFile(j) /\ Result(i) # ErrorFile(j)
       /\ i # j => /\ Download(i) # Download(j) /\ Result(i) # Result(j)
                   /\ ErrorFile(i) # ErrorFile(j)
BY DEF File, Suffix, Download, Result, ErrorFile

(* The budget only falls, so that a file operation that has failed has failed for good. *)
LEMMA SpendType ==
  ASSUME TypeOK, NEW kind \in EventKind, Spend(kind)
  PROVE  /\ budget' \in [EventKind -> Nat]
         /\ \A k \in EventKind : budget'[k] <= Budget[k]
         /\ DiskFailed => DiskFailed'
         /\ kind = "disk" => DiskFailed'
BY ServiceAssumption DEF Spend, TypeOK, DiskFailed, EventKind

LEMMA BudgetFalls ==
  ASSUME TypeOK, [Next]_vars
  PROVE  budget' = budget \/ \E kind \in EventKind : Spend(kind)
<1>1. ASSUME NEW j \in Job, Execute(j) \/ Work(j)
      PROVE  budget' = budget \/ Spend("disk")
  BY <1>1 DEF Execute, Work, CreateFolder, CreateFile, Submit, Start, Open, Loaded, Fail, Discard,
              Report, Rename, DiskFails
<1>2. ASSUME Request PROVE budget' = budget \/ Spend("disk") \/ Spend("delete")
  BY <1>2 DEF Request, DeleteFile, WipeNext, DeleteFiles, DiskFails
<1>3. ASSUME CleanUp PROVE budget' = budget \/ Spend("disk")
  BY <1>3 DEF CleanUp, StartCleanUp, VisitFolder, VisitFile, CleanFile, LeaveFolder, CleanFolder,
              DiskFails
<1>4. ASSUME Process PROVE budget' = budget \/ Spend("stop")
  BY <1>4 DEF Process, Expire, Destroy, Crash, Exit, Restart
<1>5. ASSUME UNCHANGED vars PROVE budget' = budget
  BY <1>5 DEF vars
<1>6. QED BY <1>1, <1>2, <1>3, <1>4, <1>5 DEF Next, EventKind

LEMMA FailedForGood ==
  ASSUME TypeOK, [Next]_vars
  PROVE  DiskFailed => DiskFailed'
BY BudgetFalls, SpendType DEF DiskFailed

(* A file that a client or the clean-up deletes leaves what is safe safe                *)
(* (QueryService.java:346, 374, 479).                                                   *)
LEMMA DeletedIsSafe ==
  ASSUME TypeOK, Safe, NEW f \in File, Delete(f), removed' = removed \cup {f}, job' = job,
         DiskFailed => DiskFailed'
  PROVE  Safe'
<1>1. content' = [content EXCEPT ![f] = "none"]
  BY DEF Delete, Put
<1>2. content'[f] = "none" /\ \A g \in File \ {f} : content'[g] = content[g]
  BY <1>1 DEF TypeOK
<1>3. \A g \in File : Exists(g)' => Exists(g) /\ content'[g] = content[g]
  BY <1>2 DEF Exists
<1>4. \A g \in File : Exists(g) => Exists(g)' \/ g \in removed'
  BY <1>2 DEF Exists
<1>5. OnTheWay'
  BY <1>2, <1>3, <1>4, OwnFiles DEF OnTheWay, Safe, Exists
<1>6. CompleteHasEnded'
  BY <1>2, <1>3, OwnFiles DEF CompleteHasEnded, Safe, Exists
<1>7. LoadedIsKept'
  BY <1>4, OwnFiles DEF LoadedIsKept, Safe
<1>8. QED BY <1>5, <1>6, <1>7 DEF Safe

(* States of a query in which it does not matter which files there are, but for those   *)
(* that it has not made yet. *)
Early == {"new", "folder", "file", "refused", "queued", "connecting", "failed", "dead"}

LEMMA StillSafe ==
  ASSUME TypeOK, Safe, UNCHANGED <<content, removed>>, DiskFailed => DiskFailed',
         \A j \in Job : job'[j] = job[j] \/ (job[j] \notin {"done", "error"} /\ job'[j] \in Early)
  PROVE  Safe'
<1>1. \A f \in File : Exists(f)' = Exists(f)
  BY DEF Exists
<1>2. OnTheWay'
  BY <1>1, OwnFiles DEF OnTheWay, Safe, Early
<1>3. CompleteHasEnded'
  BY <1>1, OwnFiles DEF CompleteHasEnded, Safe, Early
<1>4. LoadedIsKept'
  BY <1>1, OwnFiles DEF LoadedIsKept, Safe, Early
<1>5. QED BY <1>2, <1>3, <1>4 DEF Safe

(* Only query j changes, which goes on to state there, and only its .download file.     *)
LEMMA GoOnSafe ==
  ASSUME TypeOK, Safe, NEW j \in Job, NEW there, NEW what,
         job[j] \notin {"done", "error"}, there \notin {"done", "error"},
         job' = [job EXCEPT ![j] = there],
         content' = [content EXCEPT ![Download(j)] = what], removed' = removed,
         DiskFailed => DiskFailed',
         there = "rename" => what \in {"none", "whole", "short"},
         there \in {"loading", "rename"} => what # "none" \/ Download(j) \in removed,
         there = "report" => what = "none" \/ DiskFailed'
  PROVE  Safe'
<1>1. content'[Download(j)] = what /\ \A f \in File \ {Download(j)} : content'[f] = content[f]
  BY OwnFiles DEF TypeOK
<1>2. job'[j] = there /\ \A i \in Job \ {j} : job'[i] = job[i]
  BY DEF TypeOK
<1>3. \A i \in Job \ {j} : content'[Download(i)] = content[Download(i)]
  BY <1>1, OwnFiles
<1>4. \A i \in Job : /\ content'[Result(i)] = content[Result(i)]
                     /\ content'[ErrorFile(i)] = content[ErrorFile(i)]
  BY <1>1, OwnFiles
<1>5. OnTheWay'
  BY <1>1, <1>2, <1>3 DEF OnTheWay, Safe, Exists
<1>6. CompleteHasEnded'
  BY <1>2, <1>3, <1>4 DEF CompleteHasEnded, Safe, Exists
<1>7. LoadedIsKept'
  BY <1>2, <1>3, <1>4 DEF LoadedIsKept, Safe, Exists
<1>8. QED BY <1>5, <1>6, <1>7 DEF Safe

-----------------------------------------------------------------------------
(* How the parts of TypeOK change. *)

(* A file is created or written only where a folder is, and deleted anywhere.           *)
LEMMA PutType ==
  ASSUME TypeOK, NEW f \in File, NEW what \in Content,
         Put(f, what), what # "none" => Exists(f) \/ Owner[f[1]] \in dirs, dirs' = dirs
  PROVE  /\ content' \in [File -> Content]
         /\ expired' \subseteq {g \in File : Exists(g)'}
         /\ \A c \in Client : Folder(c)' # {} => c \in dirs'
<1>1. content' = [content EXCEPT ![f] = what] /\ expired' = expired \ {f}
  BY DEF Put
<1>2. content' \in [File -> Content]
  BY <1>1 DEF TypeOK, Content
<1>3. content'[f] = what /\ \A g \in File \ {f} : content'[g] = content[g]
  BY <1>1 DEF TypeOK
<1>4. expired' \subseteq {g \in File : Exists(g)'}
  BY <1>1, <1>3 DEF TypeOK, Exists
<1>5. ASSUME NEW c \in Client, NEW g \in File, Owner[g[1]] = c, Exists(g)' PROVE c \in dirs
  <2>1. Exists(g) \/ Owner[g[1]] \in dirs
    BY <1>3, <1>5 DEF Exists
  <2>2. Exists(g) => c \in dirs
    BY <1>5 DEF TypeOK, Folder
  <2>3. QED BY <1>5, <2>1, <2>2
<1>6. QED BY <1>2, <1>4, <1>5 DEF Folder

(* When no worker takes a job the pool stays within its bound.                          *)
LEMMA NoMoreRunning ==
  ASSUME TypeOK, Running' \subseteq Running
  PROVE  Cardinality(Running') <= PoolSize
<1>1. IsFiniteSet(Running)
  <2>1. Running \in SUBSET Job
    BY DEF Running
  <2>2. QED BY <2>1, ServiceAssumption, FS_Subset
<1>2. Cardinality(Running') <= Cardinality(Running)
  BY <1>1, FS_Subset
<1>3. /\ Cardinality(Running) \in Nat /\ PoolSize \in Nat /\ Cardinality(Running) <= PoolSize
      /\ IsFiniteSet(Running')
  BY <1>1, FS_Subset, FS_CardinalityType, ServiceAssumption DEF TypeOK
<1>4. Cardinality(Running') \in Nat
  BY <1>3, FS_CardinalityType
<1>5. QED BY <1>2, <1>3, <1>4

State == {"new", "folder", "file", "refused", "queued", "connecting", "loading", "failed", "report",
          "rename", "done", "error", "dead"}
Busy  == {"connecting", "loading", "failed", "report", "rename"}
Begun == {"loading", "rename", "failed", "report", "done", "error"}

(* A query that goes from one state to another, without a worker or with the one it has. *)
LEMMA GotoType ==
  ASSUME TypeOK, NEW j \in Job, NEW here \in State, NEW there \in State, Goto(j, here, there),
         there \in Busy => here \in Busy
  PROVE  job' \in [Job -> State] /\ Cardinality(Running') <= PoolSize
<1>1. job[j] = here /\ job' = [job EXCEPT ![j] = there] /\ job \in [Job -> State]
  BY DEF Goto, TypeOK, State
<1>2. job' \in [Job -> State] /\ job'[j] = there /\ \A i \in Job \ {j} : job'[i] = job[i]
  BY <1>1
<1>3. Running' \subseteq Running
  BY <1>1, <1>2 DEF Running, Busy
<1>4. QED BY <1>2, <1>3, NoMoreRunning

(* If the disk stays, so does what TypeOK says about it.                                *)
LEMMA DiskStays ==
  ASSUME TypeOK, UNCHANGED disk
  PROVE  /\ UNCHANGED <<dirs, content, expired>>
         /\ \A c \in Client : Folder(c)' = Folder(c)
         /\ \A f \in File : Exists(f)' = Exists(f)
BY DEF disk, Folder, Exists

(* The types; every file is in a folder; at most PoolSize queries run                   *)
(* (QueryService.java:122, 249-257).                                                    *)
THEOREM TypeCorrect == Spec => []TypeOK
<1> USE ServiceAssumption DEF EventKind, Content
<1>1. Init => TypeOK
  <2> SUFFICES ASSUME Init PROVE TypeOK
    OBVIOUS
  <2>1. Running = {}
    BY DEF Init, Running
  <2>2. Cardinality(Running) = 0
    BY <2>1, FS_EmptySet
  <2>3. \A c \in Client : Folder(c) = {}
    BY DEF Init, Folder, Exists
  <2>4. QED BY <2>2, <2>3 DEF Init, TypeOK
<1>2. TypeOK /\ [Next]_vars => TypeOK'
  <2> SUFFICES ASSUME TypeOK, [Next]_vars PROVE TypeOK'
    OBVIOUS
  <2> USE DEF cleaner
  <2>1. ASSUME NEW j \in Job, CreateFolder(j) PROVE TypeOK'
    <3>1. job' \in [Job -> State] /\ Cardinality(Running') <= PoolSize
      BY <2>1, GotoType DEF CreateFolder, State, Busy
    <3>2. \A c \in Client : Folder(c)' = Folder(c)
      BY <2>1 DEF CreateFolder, Folder, Exists
    <3>3. expired' \subseteq {f \in File : Exists(f)'}
      BY <2>1 DEF CreateFolder, Exists, TypeOK
    <3>4. dirs' \subseteq Client /\ dirs \subseteq dirs'
      BY <2>1 DEF CreateFolder, TypeOK
    <3>5. /\ budget' \in [EventKind -> Nat] /\ \A k \in EventKind : budget'[k] <= Budget[k]
      BY <2>1, SpendType DEF CreateFolder, DiskFails, TypeOK
    <3>6. QED BY <2>1, <3>1, <3>2, <3>3, <3>4, <3>5 DEF CreateFolder, TypeOK, State
  <2>2. ASSUME NEW j \in Job, CreateFile(j) PROVE TypeOK'
    <3>1. job' \in [Job -> State] /\ Cardinality(Running') <= PoolSize
      BY <2>2, GotoType DEF CreateFile, State, Busy
    <3>2. /\ content' \in [File -> Content]
          /\ expired' \subseteq {g \in File : Exists(g)'}
          /\ \A c \in Client : Folder(c)' # {} => c \in dirs'
      <4>1. CASE Owner[j] \in dirs /\ Put(Download(j), "empty")
        <5>1. Download(j) \in File /\ Owner[Download(j)[1]] \in dirs
          BY <4>1, OwnFiles DEF Download
        <5>2. QED BY <2>2, <4>1, <5>1, PutType DEF CreateFile
      <4>2. CASE UNCHANGED <<content, expired>>
        BY <2>2, <4>2, DiskStays DEF CreateFile, disk, TypeOK
      <4>3. QED BY <2>2, <4>1, <4>2 DEF CreateFile
    <3>3. /\ budget' \in [EventKind -> Nat] /\ \A k \in EventKind : budget'[k] <= Budget[k]
      BY <2>2, SpendType DEF CreateFile, DiskFails, TypeOK
    <3>4. QED BY <2>2, <3>1, <3>2, <3>3 DEF CreateFile, TypeOK, State
  <2>3. ASSUME NEW j \in Job, Submit(j) PROVE TypeOK'
    <3>1. job' \in [Job -> State] /\ Cardinality(Running') <= PoolSize
      BY <2>3, GotoType DEF Submit, State, Busy
    <3>2. QED BY <2>3, <3>1, DiskStays DEF Submit, TypeOK, State
  <2>4. ASSUME NEW j \in Job, Start(j) PROVE TypeOK'
    <3>1. job[j] = "queued" /\ job' = [job EXCEPT ![j] = "connecting"]
      BY <2>4 DEF Start, Goto
    <3>2. Running' = Running \cup {j} /\ j \notin Running
      BY <3>1 DEF Running, TypeOK
    <3>3. IsFiniteSet(Running)
      <4>1. Running \in SUBSET Job
        BY DEF Running
      <4>2. QED BY <4>1, FS_Subset
    <3>4. Cardinality(Running) \in Nat /\ Cardinality(Running') = Cardinality(Running) + 1
      BY <3>2, <3>3, FS_AddElement, FS_CardinalityType
    <3>5. Cardinality(Running') <= PoolSize
      BY <2>4, <3>4 DEF Start
    <3>6. QED BY <2>4, <3>1, <3>5, DiskStays DEF Start, TypeOK
  <2>5. ASSUME NEW j \in Job, Open(j) PROVE TypeOK'
    <3>1. job' \in [Job -> State] /\ Cardinality(Running') <= PoolSize
      BY <2>5, GotoType DEF Open, State, Busy
    <3>2. Download(j) \in File /\ Owner[Download(j)[1]] \in dirs
      BY <2>5, OwnFiles DEF Open, Download
    <3>3. /\ content' \in [File -> Content]
          /\ expired' \subseteq {g \in File : Exists(g)'}
          /\ \A c \in Client : Folder(c)' # {} => c \in dirs'
      BY <2>5, <3>2, PutType DEF Open
    <3>4. QED BY <2>5, <3>1, <3>3 DEF Open, TypeOK, State
  <2>6. ASSUME NEW j \in Job, Loaded(j) PROVE TypeOK'
    <3>1. job' \in [Job -> State] /\ Cardinality(Running') <= PoolSize
      BY <2>6, GotoType DEF Loaded, State, Busy
    <3>2. /\ content' \in [File -> Content]
          /\ expired' \subseteq {g \in File : Exists(g)'}
          /\ \A c \in Client : Folder(c)' # {} => c \in dirs'
      <4>1. CASE Exists(Download(j))
        BY <2>6, <4>1, OwnFiles, PutType DEF Loaded
      <4>2. CASE ~Exists(Download(j))
        BY <2>6, <4>2, DiskStays DEF Loaded, disk, TypeOK
      <4>3. QED BY <4>1, <4>2
    <3>3. QED BY <2>6, <3>1, <3>2 DEF Loaded, TypeOK, State
  <2>7. ASSUME NEW j \in Job, Fail(j) PROVE TypeOK'
    <3>1. job' \in [Job -> State] /\ Cardinality(Running') <= PoolSize
      BY <2>7, GotoType DEF Fail, State, Busy
    <3>2. QED BY <2>7, <3>1, DiskStays DEF Fail, TypeOK, State
  <2>8. ASSUME NEW j \in Job, Discard(j) PROVE TypeOK'
    <3>1. job' \in [Job -> State] /\ Cardinality(Running') <= PoolSize
      BY <2>8, GotoType DEF Discard, State, Busy
    <3>2. /\ content' \in [File -> Content]
          /\ expired' \subseteq {g \in File : Exists(g)'}
          /\ \A c \in Client : Folder(c)' # {} => c \in dirs'
      <4>1. CASE Delete(Download(j))
        BY <2>8, <4>1, OwnFiles, PutType DEF Discard, Delete
      <4>2. CASE UNCHANGED <<content, expired>>
        BY <2>8, <4>2, DiskStays DEF Discard, disk, TypeOK
      <4>3. QED BY <2>8, <4>1, <4>2 DEF Discard
    <3>3. /\ budget' \in [EventKind -> Nat] /\ \A k \in EventKind : budget'[k] <= Budget[k]
      BY <2>8, SpendType DEF Discard, DiskFails, TypeOK
    <3>4. QED BY <2>8, <3>1, <3>2, <3>3 DEF Discard, TypeOK, State
  <2>9. ASSUME NEW j \in Job, Report(j) PROVE TypeOK'
    <3>1. job' \in [Job -> State] /\ Cardinality(Running') <= PoolSize
      BY <2>9, GotoType DEF Report, State, Busy
    <3>2. /\ content' \in [File -> Content]
          /\ expired' \subseteq {g \in File : Exists(g)'}
          /\ \A c \in Client : Folder(c)' # {} => c \in dirs'
      <4>1. CASE Owner[j] \in dirs /\ Put(ErrorFile(j), "error")
        <5>1. ErrorFile(j) \in File /\ Owner[ErrorFile(j)[1]] \in dirs
          BY <4>1, OwnFiles DEF ErrorFile
        <5>2. QED BY <2>9, <4>1, <5>1, PutType DEF Report
      <4>2. CASE UNCHANGED <<content, expired>>
        BY <2>9, <4>2, DiskStays DEF Report, disk, TypeOK
      <4>3. QED BY <2>9, <4>1, <4>2 DEF Report
    <3>3. /\ budget' \in [EventKind -> Nat] /\ \A k \in EventKind : budget'[k] <= Budget[k]
      BY <2>9, SpendType DEF Report, DiskFails, TypeOK
    <3>4. QED BY <2>9, <3>1, <3>2, <3>3 DEF Report, TypeOK, State
  <2>10. ASSUME NEW j \in Job, Rename(j) PROVE TypeOK'
    <3>1. job' \in [Job -> State] /\ Cardinality(Running') <= PoolSize
      BY <2>10, GotoType DEF Rename, State, Busy
    <3>2. /\ content' \in [File -> Content]
          /\ expired' \subseteq {g \in File : Exists(g)'}
          /\ \A c \in Client : Folder(c)' # {} => c \in dirs'
      <4>1. CASE /\ Exists(Download(j))
                 /\ content' = [content EXCEPT ![Result(j)] = content[Download(j)],
                                               ![Download(j)] = "none"]
                 /\ expired' = expired \ {Download(j)}
        <5>1. /\ content' = [content EXCEPT ![Result(j)] = content[Download(j)],
                                            ![Download(j)] = "none"]
              /\ expired' = expired \ {Download(j)}
          BY <4>1
        <5>2. Download(j) \in File /\ Result(j) \in File /\ Download(j) # Result(j)
          BY OwnFiles
        <5>3. /\ content'[Result(j)] = content[Download(j)] /\ content'[Download(j)] = "none"
              /\ \A f \in File \ {Result(j), Download(j)} : content'[f] = content[f]
          BY <5>1, <5>2 DEF TypeOK
        <5>4. content' \in [File -> Content]
          BY <5>1, <5>2 DEF TypeOK
        <5>5. expired' \subseteq {g \in File : Exists(g)'}
          BY <4>1, <5>1, <5>2, <5>3 DEF TypeOK, Exists
        <5>6. Owner[j] \in dirs
          BY <4>1, <5>2 DEF TypeOK, Folder, Download
        <5>7. ASSUME NEW c \in Client, NEW f \in File, Owner[f[1]] = c, Exists(f)'
              PROVE  c \in dirs
          <6>1. CASE f = Result(j)
            BY <5>6, <5>7, <6>1 DEF Result
          <6>2. CASE f # Result(j)
            BY <5>3, <5>7, <6>2 DEF TypeOK, Folder, Exists
          <6>3. QED BY <6>1, <6>2
        <5>8. dirs' = dirs
          BY <2>10 DEF Rename
        <5>9. QED BY <5>4, <5>5, <5>7, <5>8 DEF Folder
      <4>2. CASE UNCHANGED <<content, expired>>
        BY <2>10, <4>2, DiskStays DEF Rename, disk, TypeOK
      <4>3. QED BY <2>10, <4>1, <4>2 DEF Rename
    <3>3. /\ budget' \in [EventKind -> Nat] /\ \A k \in EventKind : budget'[k] <= Budget[k]
      BY <2>10, SpendType DEF Rename, DiskFails, TypeOK
    <3>4. QED BY <2>10, <3>1, <3>2, <3>3 DEF Rename, TypeOK, State
  <2>11. ASSUME NEW f \in File, DeleteFile(f) PROVE TypeOK'
    <3>1. /\ content' \in [File -> Content]
          /\ expired' \subseteq {g \in File : Exists(g)'}
          /\ \A c \in Client : Folder(c)' # {} => c \in dirs'
      BY <2>11, PutType DEF DeleteFile, Delete
    <3>2. budget' \in [EventKind -> Nat] /\ \A k \in EventKind : budget'[k] <= Budget[k]
      BY <2>11, SpendType DEF DeleteFile
    <3>3. Cardinality(Running') <= PoolSize
      BY <2>11, NoMoreRunning DEF DeleteFile, Running
    <3>4. QED BY <2>11, <3>1, <3>2, <3>3 DEF DeleteFile, TypeOK
  <2>12. ASSUME NEW c \in Client, DeleteFiles(c) PROVE TypeOK'
    <3>1. budget' \in [EventKind -> Nat] /\ \A k \in EventKind : budget'[k] <= Budget[k]
      BY <2>12, SpendType DEF DeleteFiles
    <3>2. Cardinality(Running') <= PoolSize
      BY <2>12, NoMoreRunning DEF DeleteFiles, Running
    <3>3. Folder(c) \subseteq File
      BY DEF Folder
    <3>4. QED BY <2>12, <3>1, <3>2, <3>3, DiskStays DEF DeleteFiles, TypeOK
  <2>13. ASSUME NEW f \in File, WipeNext(f) PROVE TypeOK'
    <3>1. /\ content' \in [File -> Content]
          /\ expired' \subseteq {g \in File : Exists(g)'}
          /\ \A c \in Client : Folder(c)' # {} => c \in dirs'
      <4>1. CASE Delete(f)
        BY <2>13, <4>1, PutType DEF WipeNext, Delete
      <4>2. CASE UNCHANGED <<content, expired>>
        BY <2>13, <4>2, DiskStays DEF WipeNext, disk, TypeOK
      <4>3. QED BY <2>13, <4>1, <4>2 DEF WipeNext
    <3>2. Cardinality(Running') <= PoolSize
      BY <2>13, NoMoreRunning DEF WipeNext, Running
    <3>3. removed' \subseteq File /\ wipe' \subseteq File
      BY <2>13 DEF WipeNext, TypeOK
    <3>4. /\ budget' \in [EventKind -> Nat] /\ \A k \in EventKind : budget'[k] <= Budget[k]
      BY <2>13, SpendType DEF WipeNext, DiskFails, TypeOK
    <3>5. QED BY <2>13, <3>1, <3>2, <3>3, <3>4 DEF WipeNext, TypeOK
  <2>14. ASSUME StartCleanUp \/ VisitFolder \/ (\E f \in File : VisitFile(f)) \/ LeaveFolder
         PROVE  TypeOK'
    <3>1. UNCHANGED <<up, pool, job, disk, wipe, removed, budget>>
      BY <2>14 DEF StartCleanUp, VisitFolder, VisitFile, LeaveFolder
    <3>2. Cardinality(Running') <= PoolSize
      BY <3>1, NoMoreRunning DEF Running
    <3>3. /\ cleanPc' \in {"idle", "root", "dir", "delete", "rmdir"}
          /\ cleanDirs' \subseteq Client /\ cleanDir' \in Client /\ cleanTodo' \subseteq File
          /\ cleanFile' \in File \cup {NoFile} /\ (cleanPc' = "delete" => cleanFile' \in File)
      <4>1. CASE StartCleanUp
        BY <4>1 DEF StartCleanUp, TypeOK
      <4>2. CASE VisitFolder
        <5>1. \A c \in Client : Folder(c) \subseteq File
          BY DEF Folder
        <5>2. QED BY <4>2, <5>1 DEF VisitFolder, Idle, TypeOK
      <4>3. CASE \E f \in File : VisitFile(f)
        BY <4>3 DEF VisitFile, Idle, TypeOK
      <4>4. CASE LeaveFolder
        BY <4>4 DEF LeaveFolder, TypeOK
      <4>5. QED BY <2>14, <4>1, <4>2, <4>3, <4>4
    <3>4. QED BY <3>1, <3>2, <3>3, DiskStays DEF TypeOK
  <2>15. ASSUME CleanFile PROVE TypeOK'
    <3>1. /\ content' \in [File -> Content]
          /\ expired' \subseteq {g \in File : Exists(g)'}
          /\ \A c \in Client : Folder(c)' # {} => c \in dirs'
      <4>1. CASE Delete(cleanFile)
        <5>1. cleanFile \in File
          BY <2>15 DEF CleanFile, TypeOK
        <5>2. QED BY <2>15, <4>1, <5>1, PutType DEF CleanFile, Delete
      <4>2. CASE UNCHANGED <<content, expired>>
        BY <2>15, <4>2, DiskStays DEF CleanFile, disk, TypeOK
      <4>3. QED BY <2>15, <4>1, <4>2 DEF CleanFile
    <3>2. Cardinality(Running') <= PoolSize
      BY <2>15, NoMoreRunning DEF CleanFile, Running
    <3>3. /\ budget' \in [EventKind -> Nat] /\ \A k \in EventKind : budget'[k] <= Budget[k]
      BY <2>15, SpendType DEF CleanFile, DiskFails, TypeOK
    <3>4. removed' \subseteq File
      BY <2>15 DEF CleanFile, TypeOK
    <3>5. QED BY <2>15, <3>1, <3>2, <3>3, <3>4 DEF CleanFile, Idle, TypeOK
  <2>16. ASSUME CleanFolder PROVE TypeOK'
    <3>1. UNCHANGED <<content, expired>> /\ \A f \in File : Exists(f)' = Exists(f)
      BY <2>16 DEF CleanFolder, Exists
    <3>2. \A c \in Client : Folder(c)' = Folder(c)
      BY <3>1 DEF Folder
    <3>3. dirs' \subseteq Client /\ \A c \in Client : Folder(c)' # {} => c \in dirs'
      BY <2>16, <3>2 DEF CleanFolder, TypeOK
    <3>4. Cardinality(Running') <= PoolSize
      BY <2>16, NoMoreRunning DEF CleanFolder, Running
    <3>5. /\ budget' \in [EventKind -> Nat] /\ \A k \in EventKind : budget'[k] <= Budget[k]
      BY <2>16, SpendType DEF CleanFolder, DiskFails, TypeOK
    <3>6. QED BY <2>16, <3>1, <3>3, <3>4, <3>5 DEF CleanFolder, Idle, TypeOK
  <2>17. ASSUME NEW f \in File, Expire(f) PROVE TypeOK'
    <3>1. \A g \in File : Exists(g)' = Exists(g)
      BY <2>17 DEF Expire, Exists
    <3>2. \A c \in Client : Folder(c)' = Folder(c)
      BY <3>1 DEF Folder
    <3>3. expired' \subseteq {g \in File : Exists(g)'}
      BY <2>17, <3>1 DEF Expire, TypeOK
    <3>4. Cardinality(Running') <= PoolSize
      BY <2>17, NoMoreRunning DEF Expire, Running
    <3>5. QED BY <2>17, <3>2, <3>3, <3>4 DEF Expire, TypeOK
  <2>18. ASSUME Destroy PROVE TypeOK'
    <3>1. budget' \in [EventKind -> Nat] /\ \A k \in EventKind : budget'[k] <= Budget[k]
      BY <2>18, SpendType DEF Destroy
    <3>2. Cardinality(Running') <= PoolSize
      BY <2>18, NoMoreRunning DEF Destroy, Running
    <3>3. QED BY <2>18, <3>1, <3>2, DiskStays DEF Destroy, TypeOK
  <2>19. ASSUME Crash \/ Exit PROVE TypeOK'
    <3>1. Halt
      BY <2>19 DEF Crash, Exit
    <3>2. budget' \in [EventKind -> Nat] /\ \A k \in EventKind : budget'[k] <= Budget[k]
      BY <2>19, SpendType DEF Crash, Exit, TypeOK
    <3>3. job' \in [Job -> State]
      BY <3>1 DEF Halt, TypeOK, State
    <3>4. Cardinality(Running') <= PoolSize
      <4>1. Running' = {}
        BY <3>1 DEF Halt, Running
      <4>2. QED BY <4>1, NoMoreRunning
    <3>5. QED BY <3>1, <3>2, <3>3, <3>4, DiskStays DEF Halt, Idle, TypeOK, State
  <2>20. ASSUME Restart PROVE TypeOK'
    <3>1. Cardinality(Running') <= PoolSize
      BY <2>20, NoMoreRunning DEF Restart, Running
    <3>2. QED BY <2>20, <3>1, DiskStays DEF Restart, TypeOK
  <2>21. ASSUME UNCHANGED vars PROVE TypeOK'
    <3>1. Cardinality(Running') <= PoolSize
      BY <2>21, NoMoreRunning DEF vars, Running
    <3>2. QED BY <2>21, <3>1, DiskStays DEF vars, TypeOK
  <2>22. QED
    BY <2>1, <2>2, <2>3, <2>4, <2>5, <2>6, <2>7, <2>8, <2>9, <2>10, <2>11, <2>12, <2>13, <2>14,
       <2>15, <2>16, <2>17, <2>18, <2>19, <2>20, <2>21
       DEF Next, Execute, Work, Request, CleanUp, Process
<1>3. QED BY <1>1, <1>2, PTL DEF Spec

-----------------------------------------------------------------------------
(* The inductive invariant: beside the two properties, what a .download file is while   *)
(* its query goes on, and that it has gone when the query ends.                         *)
IInv == TypeOK /\ Safe

(* The error file is written when the .download file has gone, or could not be deleted. *)
LEMMA ReportIsSafe ==
  ASSUME TypeOK, Safe, NEW j \in Job, Report(j), DiskFailed => DiskFailed'
  PROVE  Safe'
<1>1. job[j] = "report" /\ job' = [job EXCEPT ![j] = "error"] /\ removed' = removed
  BY DEF Report, Goto
<1>2. job'[j] = "error" /\ \A i \in Job \ {j} : job'[i] = job[i]
  BY <1>1 DEF TypeOK
<1>3. \A f \in File \ {ErrorFile(j)} : content'[f] = content[f]
  BY DEF Report, Put, TypeOK
<1>4. \A i \in Job : content'[Download(i)] = content[Download(i)]
                     /\ content'[Result(i)] = content[Result(i)]
  BY <1>3, OwnFiles
<1>5. \A i \in Job \ {j} : content'[ErrorFile(i)] = content[ErrorFile(i)]
  BY <1>3, OwnFiles
<1>6. OnTheWay'
  BY <1>1, <1>2, <1>4 DEF OnTheWay, Safe, Exists
<1>7. CompleteHasEnded'
  BY <1>1, <1>2, <1>4, <1>5 DEF CompleteHasEnded, OnTheWay, Safe, Exists
<1>8. LoadedIsKept'
  BY <1>1, <1>2, <1>4 DEF LoadedIsKept, Safe, Exists
<1>9. QED BY <1>6, <1>7, <1>8 DEF Safe

(* The file that is renamed is what a copy that has ended left, or has gone because it  *)
(* was deleted; if it cannot be renamed it stays.                                       *)
LEMMA RenameIsSafe ==
  ASSUME TypeOK, Safe, NEW j \in Job, Rename(j), DiskFailed => DiskFailed'
  PROVE  Safe'
<1>1. job[j] = "rename" /\ job' = [job EXCEPT ![j] = "done"] /\ removed' = removed
  BY DEF Rename, Goto
<1>2. job'[j] = "done" /\ \A i \in Job \ {j} : job'[i] = job[i]
  BY <1>1 DEF TypeOK
<1>3. Download(j) \in File /\ Result(j) \in File /\ Download(j) # Result(j)
  BY OwnFiles
<1>4. \/ /\ Exists(Download(j)) /\ content'[Download(j)] = "none"
         /\ content'[Result(j)] = content[Download(j)]
      \/ /\ content'[Download(j)] = content[Download(j)] /\ content'[Result(j)] = content[Result(j)]
         /\ Exists(Download(j)) => DiskFailed'
  <2>1. CASE Exists(Download(j)) /\ content' = [content EXCEPT ![Result(j)] = content[Download(j)],
                                                               ![Download(j)] = "none"]
    BY <1>3, <2>1 DEF TypeOK
  <2>2. CASE content' = content /\ (Exists(Download(j)) => DiskFails)
    BY <2>2, SpendType DEF DiskFails, EventKind
  <2>3. QED BY <2>1, <2>2 DEF Rename
<1>5. \A f \in File \ {Download(j), Result(j)} : content'[f] = content[f]
  BY <1>3 DEF Rename, TypeOK
<1>6. \A i \in Job \ {j} : content'[Download(i)] = content[Download(i)]
                           /\ content'[Result(i)] = content[Result(i)]
  BY <1>5, OwnFiles
<1>7. \A i \in Job : content'[ErrorFile(i)] = content[ErrorFile(i)]
  BY <1>5, OwnFiles
<1>8. content[Result(j)] = "none" /\ content[ErrorFile(j)] = "none"
  BY <1>1 DEF CompleteHasEnded, Safe, Exists
<1>9. content[Download(j)] \in {"none", "whole", "short"}
      /\ (Exists(Download(j)) \/ Download(j) \in removed)
  BY <1>1 DEF OnTheWay, Safe
<1>10. OnTheWay'
  BY <1>1, <1>2, <1>4, <1>6 DEF OnTheWay, Safe, Exists
<1>11. CompleteHasEnded'
  <2>1. content'[Result(j)] \in {"none", "whole", "short"}
    BY <1>4, <1>8, <1>9
  <2>2. content'[Result(j)] # "none" => content'[Download(j)] = "none"
    BY <1>4, <1>8
  <2>3. QED BY <1>1, <1>2, <1>6, <1>7, <1>8, <2>1, <2>2 DEF CompleteHasEnded, Safe, Exists
<1>12. LoadedIsKept'
  <2>1. Exists(Result(j))' \/ (Exists(Download(j))' /\ DiskFailed') \/ Download(j) \in removed
    BY <1>4, <1>9 DEF Exists
  <2>2. QED BY <1>1, <1>2, <1>6, <2>1 DEF LoadedIsKept, Safe, Exists
<1>13. QED BY <1>10, <1>11, <1>12 DEF Safe

LEMMA Invariance == Spec => []IInv
<1>1. Init => Safe
  BY OwnFiles DEF Init, Safe, OnTheWay, CompleteHasEnded, LoadedIsKept, Exists
<1>2. IInv /\ [Next]_vars => Safe'
  <2> SUFFICES ASSUME TypeOK, Safe, [Next]_vars PROVE Safe'
    BY DEF IInv
  <2>0. DiskFailed => DiskFailed'
    BY FailedForGood
  <2>1. ASSUME NEW j \in Job, CreateFolder(j) \/ Submit(j) \/ Start(j) \/ Fail(j) PROVE Safe'
    <3>1. PICK there \in Early : /\ job[j] \notin {"done", "error"}
                                 /\ job' = [job EXCEPT ![j] = there]
      BY <2>1 DEF CreateFolder, Submit, Start, Fail, Goto, Early
    <3>2. UNCHANGED <<content, removed>>
      BY <2>1 DEF CreateFolder, Submit, Start, Fail, disk
    <3>3. QED BY <3>1, <3>2, <2>0, StillSafe DEF TypeOK
  <2>2. ASSUME NEW j \in Job, CreateFile(j) PROVE Safe'
    <3>1. CASE Goto(j, "folder", "file") /\ Put(Download(j), "empty")
      BY <2>2, <3>1, <2>0, GoOnSafe DEF CreateFile, Goto, Put
    <3>2. CASE Goto(j, "folder", "refused") /\ UNCHANGED <<content, expired>>
      BY <2>2, <3>2, <2>0, StillSafe DEF CreateFile, Goto, Early, TypeOK
    <3>3. QED BY <2>2, <3>1, <3>2 DEF CreateFile
  <2>3. ASSUME NEW j \in Job, Open(j) PROVE Safe'
    BY <2>3, <2>0, GoOnSafe DEF Open, Goto, Put
  <2>4. ASSUME NEW j \in Job, Loaded(j) PROVE Safe'
    <3>1. job[j] = "loading" /\ job' = [job EXCEPT ![j] = "rename"] /\ removed' = removed
      BY <2>4 DEF Loaded, Goto
    <3>2. CASE Exists(Download(j))
      <4>1. PICK c \in {"whole", "short"} : Put(Download(j), c)
        BY <2>4, <3>2 DEF Loaded
      <4>2. content' = [content EXCEPT ![Download(j)] = c]
        BY <4>1 DEF Put
      <4>3. QED BY <3>1, <4>2, <2>0, GoOnSafe
    <3>3. CASE ~Exists(Download(j))
      <4>1. Download(j) \in removed
        BY <3>1, <3>3 DEF OnTheWay, Safe
      <4>2. content' = [content EXCEPT ![Download(j)] = "none"]
        BY <2>4, <3>3, OwnFiles DEF Loaded, Exists, TypeOK
      <4>3. QED BY <3>1, <4>1, <4>2, <2>0, GoOnSafe
    <3>4. QED BY <3>2, <3>3
  <2>5. ASSUME NEW j \in Job, Discard(j) PROVE Safe'
    <3>1. job[j] = "failed" /\ job' = [job EXCEPT ![j] = "report"] /\ removed' = removed
      BY <2>5 DEF Discard, Goto
    <3>2. CASE Delete(Download(j))
      BY <3>1, <3>2, <2>0, GoOnSafe DEF Delete, Put
    <3>3. CASE DiskFails /\ content' = content
      <4>1. DiskFailed'
        BY <3>3, SpendType DEF DiskFails, EventKind
      <4>2. content' = [content EXCEPT ![Download(j)] = content[Download(j)]]
        BY <3>3, OwnFiles DEF TypeOK
      <4>3. QED BY <3>1, <4>1, <4>2, <2>0, GoOnSafe
    <3>4. QED BY <2>5, <3>2, <3>3 DEF Discard
  <2>6. ASSUME NEW j \in Job, Report(j) \/ Rename(j) PROVE Safe'
    BY <2>6, <2>0, ReportIsSafe, RenameIsSafe
  <2>7. ASSUME NEW f \in File, DeleteFile(f) PROVE Safe'
    BY <2>7, <2>0, DeletedIsSafe DEF DeleteFile
  <2>8. ASSUME NEW f \in File, WipeNext(f) PROVE Safe'
    BY <2>8, <2>0, DeletedIsSafe, StillSafe DEF WipeNext
  <2>9. ASSUME CleanFile PROVE Safe'
    <3>1. cleanFile \in File
      BY <2>9 DEF CleanFile, TypeOK
    <3>2. QED BY <2>9, <3>1, <2>0, DeletedIsSafe, StillSafe DEF CleanFile
  <2>10. ASSUME \/ \E c \in Client : DeleteFiles(c)
                \/ StartCleanUp \/ VisitFolder \/ (\E f \in File : VisitFile(f)) \/ LeaveFolder
                \/ CleanFolder \/ (\E f \in File : Expire(f)) \/ Destroy \/ Restart
                \/ UNCHANGED vars
         PROVE  Safe'
    <3>1. UNCHANGED <<content, removed, job>>
      BY <2>10 DEF DeleteFiles, StartCleanUp, VisitFolder, VisitFile, LeaveFolder, CleanFolder,
                   Expire, Destroy, Restart, vars, disk
    <3>2. QED BY <3>1, <2>0, StillSafe
  <2>11. ASSUME Crash \/ Exit PROVE Safe'
    <3>1. Halt
      BY <2>11 DEF Crash, Exit
    <3>2. \A j \in Job : job'[j] = job[j] \/ (job[j] \notin {"done", "error"} /\ job'[j] = "dead")
      BY <3>1 DEF Halt
    <3>3. UNCHANGED <<content, removed>>
      BY <3>1 DEF Halt, disk
    <3>4. QED BY <3>2, <3>3, <2>0, StillSafe DEF Early
  <2>12. QED
    BY <2>1, <2>2, <2>3, <2>4, <2>5, <2>6, <2>7, <2>8, <2>9, <2>10, <2>11
       DEF Next, Execute, Work, Request, CleanUp, Process
<1>3. QED BY <1>1, <1>2, TypeCorrect, PTL DEF Spec, IInv

(* A file that is listed as complete is what a copy that has ended left, whole or not,  *)
(* or is an error file, and a query never has both (QueryService.java:178-226).         *)
THEOREM CompleteResults == Spec => []CompleteHasEnded
<1>1. IInv => CompleteHasEnded
  BY DEF IInv, Safe
<1>2. QED BY <1>1, Invariance, PTL

(* A loaded query is kept until somebody deletes it (QueryService.java:220-226).        *)
THEOREM LoadedResults == Spec => []LoadedIsKept
<1>1. IInv => LoadedIsKept
  BY DEF IInv, Safe
<1>2. QED BY <1>1, Invariance, PTL

-----------------------------------------------------------------------------
(* What the clean-up knows of the file it has found expired when it comes to delete it: *)
(* its query has made it and is past making it again, unless it is a .download file;    *)
(* and if it is no longer expired, its query has written to it meanwhile.               *)
Made ==
  /\ cleanFile \in File
  /\ \A j \in Job :
       /\ cleanFile = Download(j)  => job[j] \notin {"new", "folder"}
       /\ cleanFile = Result(j)    => job[j] = "done"
       /\ cleanFile = ErrorFile(j) => job[j] = "error"

Writing == \E j \in Job : cleanFile = Download(j) /\ job[j] \in Begun

Found ==
  /\ \A j \in Job : job[j] \in {"new", "folder"} => ~Exists(Download(j))
  /\ cleanPc = "delete" => Made /\ (Exists(cleanFile) /\ cleanFile \notin expired => Writing)

(* What a step must respect if the clean-up does not take a new file.                   *)
LEMMA FoundGoesOn ==
  ASSUME Found,
         cleanPc' = "delete" => cleanPc = "delete" /\ cleanFile' = cleanFile,
         \A j \in Job : job'[j] \in {"new", "folder"} =>
           job[j] \in {"new", "folder"} /\ (Exists(Download(j))' => Exists(Download(j))),
         cleanPc' = "delete" => \A j \in Job :
           /\ job[j] \in {"done", "error"} => job'[j] = job[j]
           /\ job[j] \in Begun => job'[j] \in Begun,
         cleanPc' = "delete" /\ Made /\ Exists(cleanFile)' /\ cleanFile \notin expired' =>
           \/ Exists(cleanFile) /\ cleanFile \notin expired
           \/ \E j \in Job : /\ cleanFile = Download(j)
                             /\ job'[j] \in Begun
  PROVE  Found'
<1>1. \A j \in Job : job'[j] \in {"new", "folder"} => ~Exists(Download(j))'
  BY DEF Found
<1>2. ASSUME cleanPc' = "delete" PROVE Made'
  <2>1. Made /\ cleanFile' = cleanFile
    BY <1>2 DEF Found
  <2>2. QED BY <1>2, <2>1 DEF Made, Download, Result, ErrorFile
<1>3. ASSUME cleanPc' = "delete", Exists(cleanFile)', cleanFile' \notin expired' PROVE Writing'
  <2>1. cleanPc = "delete" /\ Made /\ cleanFile' = cleanFile
    BY <1>3 DEF Found
  <2>2. Exists(cleanFile)' = (content'[cleanFile] # "none")
    BY <2>1 DEF Exists
  <2>3. CASE Exists(cleanFile) /\ cleanFile \notin expired
    <3>1. PICK j \in Job : cleanFile = Download(j) /\ job[j] \in Begun
      BY <2>1, <2>3 DEF Found, Writing
    <3>2. QED BY <1>3, <2>1, <3>1 DEF Writing, Download
  <2>4. CASE \E j \in Job : cleanFile = Download(j) /\ job'[j] \in Begun
    BY <2>1, <2>4 DEF Writing, Download
  <2>5. QED BY <1>3, <2>1, <2>2, <2>3, <2>4
<1>4. QED BY <1>1, <1>2, <1>3 DEF Found

(* A step that leaves the files alone, or lets some expire, and no query in a state     *)
(* that it has left.                                                                    *)
LEMMA FoundStays ==
  ASSUME Found, content' = content, expired \subseteq expired',
         cleanPc' = "delete" => cleanPc = "delete" /\ cleanFile' = cleanFile,
         \A j \in Job : job'[j] \in {"new", "folder"} => job[j] \in {"new", "folder"},
         cleanPc' = "delete" => \A j \in Job :
           /\ job[j] \in {"done", "error"} => job'[j] = job[j]
           /\ job[j] \in Begun => job'[j] \in Begun
  PROVE  Found'
<1>1. \A j \in Job : Exists(Download(j))' = Exists(Download(j))
  BY DEF Exists, Download
<1>2. cleanPc' = "delete" => Exists(cleanFile)' = Exists(cleanFile)
  BY DEF Exists
<1>3. QED BY <1>1, <1>2, FoundGoesOn

(* A file deleted by a client or the clean-up.                                          *)
LEMMA FoundDeleted ==
  ASSUME TypeOK, Found, NEW f \in File, Delete(f), job' = job,
         cleanPc' = "delete" => cleanPc = "delete" /\ cleanFile' = cleanFile
  PROVE  Found'
<1>1. /\ content' = [content EXCEPT ![f] = "none"]
      /\ expired' = expired \ {f}
  BY DEF Delete, Put
<1>2. \A g \in File : Exists(g)' => Exists(g) /\ (g \notin expired' => g \notin expired)
  BY <1>1 DEF TypeOK, Exists
<1>3. cleanPc = "delete" => cleanFile \in File
  BY DEF TypeOK
<1>4. cleanPc' = "delete" => Exists(cleanFile)' = (content'[cleanFile] # "none")
  BY DEF Exists
<1>5. \A j \in Job : Exists(Download(j))' => Exists(Download(j))
  BY <1>2, OwnFiles DEF Download
<1>6. ASSUME cleanPc' = "delete", Exists(cleanFile)', cleanFile \notin expired'
      PROVE  Exists(cleanFile) /\ cleanFile \notin expired
  BY <1>1, <1>3, <1>4, <1>6 DEF TypeOK, Exists
<1>7. QED BY <1>5, <1>6, FoundGoesOn

(* The clean-up finds a file: it is expired, and whose it is follows from its name      *)
(* (QueryService.java:477).                                                             *)
LEMMA FoundAnew ==
  ASSUME TypeOK, Safe, Found, NEW f \in File, VisitFile(f)
  PROVE  Found'
<1>1. UNCHANGED <<job, content, expired>>
  BY DEF VisitFile, disk
<1>2. \A j \in Job : job'[j] \in {"new", "folder"} => ~Exists(Download(j))'
  BY <1>1 DEF Found, Exists, Download
<1>3. cleanPc' # "delete" \/ (cleanFile' = f /\ f \in expired /\ Exists(f))
  BY DEF VisitFile, Idle
<1>4. ASSUME cleanFile' = f, f \in expired, Exists(f) PROVE Made'
  BY <1>1, <1>4 DEF Made, Found, Safe, CompleteHasEnded, Download, Result, ErrorFile
<1>5. QED BY <1>1, <1>2, <1>3, <1>4 DEF Found

LEMMA FoundAlways == Spec => []Found
<1>1. Init => Found
  BY OwnFiles DEF Init, Found, Exists
<1>2. IInv /\ Found /\ [Next]_vars => Found'
  <2> SUFFICES ASSUME TypeOK, Safe, Found, [Next]_vars PROVE Found'
    BY DEF IInv
  <2> USE DEF cleaner
  <2>1. ASSUME NEW j \in Job, CreateFolder(j) \/ Submit(j) \/ Start(j) \/ Fail(j) PROVE Found'
    <3>1. PICK there \in State \ {"new"} :
            /\ there = "folder" => job[j] = "new"
            /\ job[j] \in Begun => there = "failed"
            /\ job[j] \notin {"done", "error"}
            /\ job' = [job EXCEPT ![j] = there]
      BY <2>1 DEF CreateFolder, Submit, Start, Fail, Goto, State, Begun
    <3>2. job'[j] = there /\ \A i \in Job \ {j} : job'[i] = job[i]
      BY <3>1 DEF TypeOK
    <3>3. UNCHANGED <<content, expired, cleanPc, cleanFile>>
      BY <2>1 DEF CreateFolder, Submit, Start, Fail, disk
    <3>4. QED BY <3>1, <3>2, <3>3, FoundStays DEF Begun
  <2>2. ASSUME NEW j \in Job, CreateFile(j) PROVE Found'
    <3>1. UNCHANGED <<cleanPc, cleanFile>> /\ job[j] = "folder"
      BY <2>2 DEF CreateFile, Goto
    <3>2. /\ job'[j] \in {"file", "refused"}
          /\ \A i \in Job \ {j} : job'[i] = job[i]
      BY <2>2 DEF CreateFile, Goto, TypeOK
    <3>3. CASE Put(Download(j), "empty")
      <4>1. /\ content' = [content EXCEPT ![Download(j)] = "empty"]
            /\ expired' = expired \ {Download(j)}
        BY <3>3 DEF Put
      <4>2. \A i \in Job \ {j} : content'[Download(i)] = content[Download(i)]
        BY <4>1, OwnFiles DEF TypeOK
      <4>3. Made => cleanFile # Download(j)
        BY <3>1 DEF Made
      <4>4. ASSUME Made PROVE /\ Exists(cleanFile)' => Exists(cleanFile)
                              /\ cleanFile \notin expired' => cleanFile \notin expired
        BY <3>1, <4>1, <4>3, <4>4 DEF Exists, TypeOK
      <4>5. QED BY <3>1, <3>2, <4>2, <4>4, FoundGoesOn DEF Exists, Begun
    <3>4. CASE UNCHANGED <<content, expired>>
      BY <3>1, <3>2, <3>4, FoundStays DEF Begun
    <3>5. QED BY <2>2, <3>3, <3>4 DEF CreateFile
  <2>3. ASSUME NEW j \in Job, Open(j) \/ Loaded(j) PROVE Found'
    <3>1. /\ UNCHANGED <<cleanPc, cleanFile>> /\ job[j] \in {"connecting", "loading"}
          /\ job'[j] \in {"loading", "rename"} /\ \A i \in Job \ {j} : job'[i] = job[i]
      BY <2>3 DEF Open, Loaded, Goto, TypeOK
    <3>2. CASE \E what \in {"part", "whole", "short"} : Put(Download(j), what)
      <4>1. \A f \in File \ {Download(j)} :
              content'[f] = content[f] /\ (f \in expired <=> f \in expired')
        BY <3>2 DEF Put, TypeOK
      <4>2. \A i \in Job \ {j} : content'[Download(i)] = content[Download(i)]
        BY <4>1, OwnFiles
      <4>3. ASSUME cleanFile # Download(j), Made
            PROVE  /\ Exists(cleanFile)' => Exists(cleanFile)
                   /\ cleanFile \notin expired' => cleanFile \notin expired
        BY <3>1, <4>1, <4>3 DEF Exists, Made
      <4>4. QED BY <3>1, <4>2, <4>3, FoundGoesOn DEF Exists, Begun
    <3>3. CASE UNCHANGED <<content, expired>>
      BY <3>1, <3>3, FoundStays DEF Begun
    <3>4. QED BY <2>3, <3>2, <3>3 DEF Open, Loaded
  <2>4. ASSUME NEW j \in Job, Discard(j) PROVE Found'
    <3>1. /\ UNCHANGED <<cleanPc, cleanFile>> /\ job[j] = "failed"
          /\ job'[j] = "report" /\ \A i \in Job \ {j} : job'[i] = job[i]
      BY <2>4 DEF Discard, Goto, TypeOK
    <3>2. CASE Delete(Download(j))
      <4>1. /\ content' = [content EXCEPT ![Download(j)] = "none"]
            /\ expired' = expired \ {Download(j)}
        BY <3>2 DEF Delete, Put
      <4>2. \A f \in File : Exists(f)' => Exists(f) /\ f # Download(j)
        BY <4>1, OwnFiles DEF TypeOK, Exists
      <4>3. \A i \in Job : Exists(Download(i))' => Exists(Download(i))
        BY <4>2, OwnFiles
      <4>4. ASSUME Made, Exists(cleanFile)' PROVE Exists(cleanFile) /\ cleanFile # Download(j)
        <5>1. content'[cleanFile] # "none" /\ cleanFile \in File
          BY <3>1, <4>4 DEF Exists, Made
        <5>2. QED BY <4>2, <5>1 DEF Exists
      <4>5. QED BY <3>1, <4>1, <4>3, <4>4, FoundGoesOn DEF Begun
    <3>3. CASE UNCHANGED <<content, expired>>
      BY <3>1, <3>3, FoundStays DEF Begun
    <3>4. QED BY <2>4, <3>2, <3>3 DEF Discard
  <2>5. ASSUME NEW j \in Job, Report(j) PROVE Found'
    <3>1. /\ UNCHANGED <<cleanPc, cleanFile>> /\ job[j] = "report"
          /\ job'[j] = "error" /\ \A i \in Job \ {j} : job'[i] = job[i]
      BY <2>5 DEF Report, Goto, TypeOK
    <3>2. \A f \in File \ {ErrorFile(j)} :
            content'[f] = content[f] /\ (f \in expired <=> f \in expired')
      BY <2>5 DEF Report, Put, TypeOK
    <3>3. \A i \in Job : content'[Download(i)] = content[Download(i)]
      BY <3>2, OwnFiles
    <3>4. Made => cleanFile # ErrorFile(j)
      BY <3>1 DEF Made
    <3>5. ASSUME Made PROVE /\ Exists(cleanFile)' => Exists(cleanFile)
                            /\ cleanFile \notin expired' => cleanFile \notin expired
      BY <3>1, <3>2, <3>4, <3>5 DEF Exists, Made
    <3>6. QED BY <3>1, <3>3, <3>5, FoundGoesOn DEF Exists, Begun
  <2>6. ASSUME NEW j \in Job, Rename(j) PROVE Found'
    <3>1. /\ UNCHANGED <<cleanPc, cleanFile>> /\ job[j] = "rename"
          /\ job'[j] = "done" /\ \A i \in Job \ {j} : job'[i] = job[i]
      BY <2>6 DEF Rename, Goto, TypeOK
    <3>2. CASE /\ Exists(Download(j))
               /\ content' = [content EXCEPT ![Result(j)] = content[Download(j)],
                                             ![Download(j)] = "none"]
               /\ expired' = expired \ {Download(j)}
      <4>1. /\ content'[Download(j)] = "none"
            /\ \A f \in File \ {Result(j), Download(j)} : content'[f] = content[f]
        BY <3>2, OwnFiles DEF TypeOK
      <4>2. \A i \in Job \ {j} : content'[Download(i)] = content[Download(i)]
        BY <4>1, OwnFiles
      <4>3. Made => cleanFile # Result(j)
        BY <3>1 DEF Made
      <4>4. ASSUME Made, Exists(cleanFile)' PROVE Exists(cleanFile) /\ cleanFile # Download(j)
        <5>1. content'[cleanFile] # "none" /\ cleanFile \in File
          BY <3>1, <4>4 DEF Exists, Made
        <5>2. QED BY <4>1, <4>3, <4>4, <5>1 DEF Exists
      <4>5. QED BY <3>1, <3>2, <4>1, <4>2, <4>4, FoundGoesOn DEF Exists, Begun
    <3>3. CASE UNCHANGED <<content, expired>>
      BY <3>1, <3>3, FoundStays DEF Begun
    <3>4. QED BY <2>6, <3>2, <3>3 DEF Rename
  <2>7. ASSUME NEW f \in File, DeleteFile(f) \/ WipeNext(f) PROVE Found'
    <3>1. UNCHANGED <<job, cleanPc, cleanFile>> /\ (Delete(f) \/ UNCHANGED <<content, expired>>)
      BY <2>7 DEF DeleteFile, WipeNext
    <3>2. QED BY <3>1, FoundDeleted, FoundStays
  <2>8. ASSUME NEW f \in File, VisitFile(f) PROVE Found'
    BY <2>8, FoundAnew
  <2>9. ASSUME CleanFile PROVE Found'
    <3>1. cleanFile \in File
      BY <2>9 DEF CleanFile, TypeOK
    <3>2. job' = job /\ cleanPc' # "delete"
      BY <2>9 DEF CleanFile, Idle
    <3>3. Delete(cleanFile) \/ UNCHANGED <<content, expired>>
      BY <2>9 DEF CleanFile
    <3>4. QED BY <3>1, <3>2, <3>3, FoundDeleted, FoundStays
  <2>10. ASSUME StartCleanUp \/ VisitFolder \/ LeaveFolder \/ CleanFolder PROVE Found'
    <3>1. UNCHANGED <<content, expired, job>> /\ cleanPc' # "delete"
      BY <2>10 DEF StartCleanUp, VisitFolder, LeaveFolder, CleanFolder, Idle, disk
    <3>2. QED BY <3>1, FoundStays
  <2>11. ASSUME \/ \E c \in Client : DeleteFiles(c)
                \/ (\E f \in File : Expire(f)) \/ Destroy \/ Restart \/ UNCHANGED vars
         PROVE  Found'
    <3>1. UNCHANGED <<content, job, cleanPc, cleanFile>> /\ expired \subseteq expired'
      BY <2>11 DEF DeleteFiles, Expire, Destroy, Restart, vars, disk
    <3>2. QED BY <3>1, FoundStays
  <2>12. ASSUME Crash \/ Exit PROVE Found'
    <3>1. Halt
      BY <2>12 DEF Crash, Exit
    <3>2. /\ UNCHANGED <<content, expired>> /\ cleanPc' = "idle"
          /\ \A j \in Job : job'[j] \in {job[j], "dead"}
      BY <3>1 DEF Halt, Idle, disk
    <3>3. QED BY <3>2, FoundStays
  <2>13. QED
    BY <2>1, <2>2, <2>3, <2>4, <2>5, <2>6, <2>7, <2>8, <2>9, <2>10, <2>11, <2>12
       DEF Next, Execute, Work, Request, CleanUp, Process
<1>3. QED BY <1>1, <1>2, Invariance, PTL DEF Spec

(* A file that was written to in the last four hours vanishes by its own job, a client  *)
(* or, if it was found expired before its job wrote to it, by the clean-up              *)
(* (QueryService.java:189-190, 477-479).                                                *)
THEOREM YoungFiles == Spec => YoungFilesStay
<1> DEFINE Excuse(f) ==
      \/ job'[f[1]] # job[f[1]]
      \/ f \in wipe \ wipe' \/ budget'["delete"] < budget["delete"]
      \/ /\ cleanPc = "delete" /\ cleanFile = f /\ f[2] = ".download"
         /\ job[f[1]] \notin {"new", "folder", "file", "refused", "queued", "connecting"}
<1>1. ASSUME IInv, Found, [Next]_vars, NEW f \in File, Exists(f), ~Exists(f)', f \notin expired
      PROVE  Excuse(f)
  <2> USE <1>1
  <2>1. content[f] # "none" /\ content'[f] = "none" /\ content' # content
    BY DEF Exists
  <2>2. ASSUME NEW j \in Job, Open(j) \/ Loaded(j) \/ Discard(j) \/ Report(j) \/ Rename(j)
               \/ CreateFile(j)
        PROVE  Excuse(f)
    <3>1. job'[j] # job[j]
      BY <2>2 DEF Open, Loaded, Discard, Report, Rename, CreateFile, Goto, IInv, TypeOK
    <3>2. content'[f] # content[f] => f \in {Download(j), Result(j), ErrorFile(j)}
      BY <2>2 DEF Open, Loaded, Discard, Report, Rename, CreateFile, Delete, Put, IInv, TypeOK
    <3>3. f \in {Download(j), Result(j), ErrorFile(j)} => f[1] = j
      <4>1. Download(j)[1] = j /\ Result(j)[1] = j /\ ErrorFile(j)[1] = j
        BY DEF Download, Result, ErrorFile
      <4>2. QED BY <4>1
    <3>4. QED BY <2>1, <3>1, <3>2, <3>3
  <2>3. ASSUME NEW g \in File, DeleteFile(g) PROVE Excuse(f)
    <3>1. budget["delete"] \in Nat /\ budget'["delete"] = budget["delete"] - 1
      BY <2>3 DEF DeleteFile, Spend, IInv, TypeOK, EventKind
    <3>2. QED BY <3>1
  <2>4. ASSUME NEW g \in File, WipeNext(g) PROVE Excuse(f)
    <3>1. content'[f] # content[f] => g = f
      BY <2>4 DEF WipeNext, Delete, Put, IInv, TypeOK
    <3>2. Exists(g) /\ g \in wipe /\ wipe' = wipe \ {g}
      BY <2>1, <2>4, <3>1 DEF WipeNext
    <3>3. QED BY <2>1, <3>1, <3>2
  <2>5. ASSUME CleanFile PROVE Excuse(f)
    <3>1. cleanPc = "delete" /\ Exists(cleanFile) /\ Delete(cleanFile)
      BY <2>1, <2>5 DEF CleanFile
    <3>2. cleanFile = f
      BY <2>1, <3>1 DEF Delete, Put, IInv, TypeOK
    <3>3. PICK j \in Job : cleanFile = Download(j) /\ job[j] \in Begun
      BY <3>1, <3>2 DEF Found, Writing
    <3>4. f[1] = j /\ f[2] = ".download"
      BY <3>2, <3>3 DEF Download
    <3>5. QED BY <3>1, <3>2, <3>3, <3>4 DEF Begun
  <2>6. QED
    BY <2>1, <2>2, <2>3, <2>4, <2>5
       DEF Next, Execute, Work, Request, CleanUp, Process, CreateFolder, Submit, Start, Fail,
           DeleteFiles, StartCleanUp, VisitFolder, VisitFile, LeaveFolder, CleanFolder, Expire,
           Destroy, Crash, Exit, Halt, Restart, vars, disk
<1>2. IInv /\ Found /\ [Next]_vars =>
        [\A f \in File : Exists(f) /\ ~Exists(f)' /\ f \notin expired => Excuse(f)]_vars
  BY <1>1
<1>3. QED BY <1>2, Invariance, FoundAlways, PTL DEF Spec, YoungFilesStay
=============================================================================
