----------------------------- MODULE QueryService -----------------------------
(***************************************************************************)
(* The download service: a client asks for a query, a worker of a pool     *)
(* loads the answer into a .download file of the client's folder and       *)
(* renames it when the copy has ended, or leaves an error file. Clients    *)
(* list, stream and delete their files; every hour files that have expired *)
(* and folders that are empty are removed.                                 *)
(*                                                                         *)
(* HTTP threads, workers and the timer share the folders without a lock:   *)
(* every call on the file system is a step of its own, and may fail.       *)
(***************************************************************************)
EXTENDS Integers, FiniteSets

CONSTANTS
  Job,       \* the queries clients ask for
  Client,
  Owner,     \* the client of each query
  PoolSize,  \* EXECUTOR_POOL_SIZE, 10
  Budget     \* how often each kind of event below may happen

EventKind == {"delete", "stop", "disk"}

ASSUME ServiceAssumption ==
  /\ IsFiniteSet(Job) /\ Owner \in [Job -> Client]
  /\ PoolSize \in Nat \ {0}
  /\ Budget \in [EventKind -> Nat]

Suffix == {".download", "", ".err.txt"}
File   == Job \X Suffix
NoFile == <<>>

VARIABLES
  up,        \* whether the process runs
  pool,      \* processPool is open or closed
  job,       \* where each query is
  dirs,      \* client folders that exist
  content,   \* of each file: none (no such file), empty, part (being written), whole,
             \* short (the copy ended before the answer did) or error
  expired,   \* files last modified more than 4 hours ago
  cleanPc,   \* the clean-up: idle, root, dir, delete or rmdir
  cleanDirs, \* folders it has still to visit
  cleanDir,  \* the folder it visits
  cleanTodo, \* files of that folder it has still to visit
  cleanFile, \* the file it has found expired
  wipe,      \* files that a delete-all request has still to delete
  removed,   \* for the properties: files deleted by clients or the clean-up
  budget     \* events that may still happen

cleaner == <<cleanPc, cleanDirs, cleanDir, cleanTodo, cleanFile>>
disk    == <<dirs, content, expired>>
vars    == <<up, pool, job, disk, cleaner, wipe, removed, budget>>

Spend(kind) == budget[kind] > 0 /\ budget' = [budget EXCEPT ![kind] = @ - 1]

Download(j)  == <<j, ".download">>
Result(j)    == <<j, "">>
ErrorFile(j) == <<j, ".err.txt">>

\* A file operation that fails, and whether one has.
DiskFails  == Spend("disk")
DiskFailed == budget["disk"] < Budget["disk"]

Exists(f)  == content[f] # "none"
Folder(c)  == {f \in File : Owner[f[1]] = c /\ Exists(f)}
Running    == {j \in Job : job[j] \in {"connecting", "loading", "failed", "report", "rename"}}

Waiting    == {j \in Job : job[j] = "queued"}

Goto(j, here, there) == job[j] = here /\ job' = [job EXCEPT ![j] = there]

Put(f, what) == content' = [content EXCEPT ![f] = what] /\ expired' = expired \ {f}
Delete(f)    == Put(f, "none")

-----------------------------------------------------------------------------
Init ==
  /\ up = TRUE /\ pool = "open"
  /\ job = [j \in Job |-> "new"]
  /\ dirs = {} /\ content = [f \in File |-> "none"] /\ expired = {}
  /\ cleanPc = "idle" /\ cleanDirs = {} /\ cleanDir \in Client /\ cleanTodo = {}
  /\ cleanFile = NoFile
  /\ wipe = {} /\ removed = {}
  /\ budget = Budget

-----------------------------------------------------------------------------
(* executeQuery. *)

\* The client's folder is created if there is none, or the request fails.
CreateFolder(j) ==
  /\ up
  /\ \/ /\ Goto(j, "new", "folder")
        /\ dirs' = dirs \cup {Owner[j]}
        /\ UNCHANGED budget
     \/ /\ Owner[j] \notin dirs /\ DiskFails
        /\ Goto(j, "new", "refused")
        /\ UNCHANGED dirs
  /\ UNCHANGED <<up, pool, content, expired, cleaner, wipe, removed>>

\* A .download file of a unique name is created, or the request fails, for one thing
\* when the folder has been removed meanwhile.
CreateFile(j) ==
  /\ up
  /\ \/ /\ Owner[j] \in dirs
        /\ Goto(j, "folder", "file")
        /\ Put(Download(j), "empty")
        /\ UNCHANGED budget
     \/ /\ IF Owner[j] \in dirs THEN DiskFails ELSE UNCHANGED budget
        /\ Goto(j, "folder", "refused")
        /\ UNCHANGED <<content, expired>>
  /\ UNCHANGED <<up, pool, dirs, cleaner, wipe, removed>>

\* The job is submitted; without a pool the request fails and the file stays.
Submit(j) ==
  /\ up
  /\ Goto(j, "file", IF pool = "open" THEN "queued" ELSE "refused")
  /\ UNCHANGED <<up, pool, disk, cleaner, wipe, removed, budget>>

-----------------------------------------------------------------------------
(* The job of asyncLoadFile, on a thread of the pool. *)

\* Seeded fault: jobs start without a bound.
StartUnbounded(j) ==
  /\ up
  /\ Goto(j, "queued", "connecting")
  /\ UNCHANGED <<up, pool, disk, cleaner, wipe, removed, budget>>

\* Seeded fault: the queue is not worked off once the pool is closed.
StartWhileOpen(j) ==
  /\ up /\ pool = "open"
  /\ Cardinality(Running) < PoolSize
  /\ Goto(j, "queued", "connecting")
  /\ UNCHANGED <<up, pool, disk, cleaner, wipe, removed, budget>>

\* A worker takes the job; all of them may be busy.
Start(j) ==
  /\ up
  /\ Cardinality(Running) < PoolSize
  /\ Goto(j, "queued", "connecting")
  /\ UNCHANGED <<up, pool, disk, cleaner, wipe, removed, budget>>

\* The service has answered and the file is opened, which creates it if it has gone.
Open(j) ==
  /\ up
  /\ Owner[j] \in dirs
  /\ Goto(j, "connecting", "loading")
  /\ Put(Download(j), "part")
  /\ UNCHANGED <<up, pool, dirs, cleaner, wipe, removed, budget>>

\* The copy ends without an exception: at the end of the answer, or before it, when the
\* connection breaks after some bytes. What transferFrom returns then is not looked at.
\* A file deleted meanwhile has no name any more.
Loaded(j) ==
  /\ up
  /\ Goto(j, "loading", "rename")
  /\ IF Exists(Download(j)) THEN \E c \in {"whole", "short"} : Put(Download(j), c)
                            ELSE UNCHANGED <<content, expired>>
  /\ UNCHANGED <<up, pool, dirs, cleaner, wipe, removed, budget>>

\* Seeded fault: the exception is logged and the file is kept.
FailToRename(j) ==
  /\ up
  /\ Goto(j, "connecting", "failed") \/ Goto(j, "loading", "rename")
  /\ UNCHANGED <<up, pool, disk, cleaner, wipe, removed, budget>>

\* There is no answer or no folder, or the copy fails before its first byte or in closing.
Fail(j) ==
  /\ up
  /\ Goto(j, "connecting", "failed") \/ Goto(j, "loading", "failed")
  /\ UNCHANGED <<up, pool, disk, cleaner, wipe, removed, budget>>

\* What has been downloaded is deleted; that it cannot be is only logged.
Discard(j) ==
  /\ up
  /\ Goto(j, "failed", "report")
  /\ \/ Delete(Download(j)) /\ UNCHANGED budget
     \/ Exists(Download(j)) /\ DiskFails /\ UNCHANGED <<content, expired>>
  /\ UNCHANGED <<up, pool, dirs, cleaner, wipe, removed>>

\* The error file is written; that it cannot be, as when the folder has gone, is only
\* logged.
Report(j) ==
  /\ up
  /\ Goto(j, "report", "error")
  /\ \/ Owner[j] \in dirs /\ Put(ErrorFile(j), "error") /\ UNCHANGED budget
     \/ /\ IF Owner[j] \in dirs THEN DiskFails ELSE UNCHANGED budget
        /\ UNCHANGED <<content, expired>>
  /\ UNCHANGED <<up, pool, dirs, cleaner, wipe, removed>>

\* Seeded fault: the suffix is kept, so that nothing is renamed.
RenameNothing(j) ==
  /\ up
  /\ Goto(j, "rename", "done")
  /\ UNCHANGED <<up, pool, disk, cleaner, wipe, removed, budget>>

\* The suffix is dropped; that the file has gone or cannot be renamed is only logged.
Rename(j) ==
  /\ up
  /\ Goto(j, "rename", "done")
  /\ \/ /\ Exists(Download(j))
        /\ content' = [content EXCEPT ![Result(j)] = content[Download(j)],
                                      ![Download(j)] = "none"]
        /\ expired' = expired \ {Download(j)}
        /\ UNCHANGED budget
     \/ /\ IF Exists(Download(j)) THEN DiskFails ELSE UNCHANGED budget
        /\ UNCHANGED <<content, expired>>
  /\ UNCHANGED <<up, pool, dirs, cleaner, wipe, removed>>

-----------------------------------------------------------------------------
(* Requests to delete. *)

\* A deletion that fails changes nothing.
DeleteFile(f) ==
  /\ up
  /\ Exists(f)
  /\ Spend("delete")
  /\ Delete(f)
  /\ removed' = removed \cup {f}
  /\ UNCHANGED <<up, pool, job, dirs, cleaner, wipe>>

DeleteFiles(c) ==
  /\ up
  /\ wipe = {}
  /\ c \in dirs
  /\ Spend("delete")
  /\ wipe' = Folder(c)
  /\ UNCHANGED <<up, pool, job, disk, cleaner, removed>>

\* The walk ends with an error at a file that has gone, deleted or renamed, or cannot be
\* deleted.
WipeNext(f) ==
  /\ up
  /\ f \in wipe
  /\ \/ /\ Exists(f)
        /\ Delete(f)
        /\ removed' = removed \cup {f}
        /\ wipe' = wipe \ {f}
        /\ UNCHANGED budget
     \/ /\ IF Exists(f) THEN DiskFails ELSE UNCHANGED budget
        /\ wipe' = {}
        /\ UNCHANGED <<content, expired, removed>>
  /\ UNCHANGED <<up, pool, job, dirs, cleaner>>

-----------------------------------------------------------------------------
(* cleanUpRepoFolder. *)

Idle ==
  /\ cleanPc' = "idle"
  /\ cleanDirs' = {} /\ cleanTodo' = {} /\ cleanFile' = NoFile /\ UNCHANGED cleanDir

StartCleanUp ==
  /\ up
  /\ cleanPc = "idle"
  /\ cleanPc' = "root" /\ cleanDirs' = dirs
  /\ UNCHANGED <<up, pool, job, disk, cleanDir, cleanTodo, cleanFile, wipe, removed, budget>>

\* The walk enters the next folder, or ends.
VisitFolder ==
  /\ up
  /\ cleanPc = "root"
  /\ \/ \E c \in cleanDirs :
          /\ cleanDirs' = cleanDirs \ {c}
          /\ cleanPc' = "dir" /\ cleanDir' = c /\ cleanTodo' = Folder(c)
          /\ UNCHANGED cleanFile
     \/ cleanDirs = {} /\ Idle
  /\ UNCHANGED <<up, pool, job, disk, wipe, removed, budget>>

\* Seeded fault: only finished files expire.
VisitFinishedFile(f) ==
  /\ up
  /\ cleanPc = "dir"
  /\ f \in cleanTodo
  /\ IF ~Exists(f) THEN Idle
     ELSE /\ cleanTodo' = cleanTodo \ {f}
          /\ IF f \in expired /\ f[2] # ".download"
             THEN cleanPc' = "delete" /\ cleanFile' = f
             ELSE UNCHANGED <<cleanPc, cleanFile>>
          /\ UNCHANGED <<cleanDirs, cleanDir>>
  /\ UNCHANGED <<up, pool, job, disk, wipe, removed, budget>>

\* Seeded fault: the comparison of the times is the wrong way round.
VisitYoungFile(f) ==
  /\ up
  /\ cleanPc = "dir"
  /\ f \in cleanTodo
  /\ IF ~Exists(f) THEN Idle
     ELSE /\ cleanTodo' = cleanTodo \ {f}
          /\ IF f \notin expired THEN cleanPc' = "delete" /\ cleanFile' = f
                                 ELSE UNCHANGED <<cleanPc, cleanFile>>
          /\ UNCHANGED <<cleanDirs, cleanDir>>
  /\ UNCHANGED <<up, pool, job, disk, wipe, removed, budget>>

\* It looks at the age of a file. One that has gone ends the whole walk.
VisitFile(f) ==
  /\ up
  /\ cleanPc = "dir"
  /\ f \in cleanTodo
  /\ IF ~Exists(f) THEN Idle
     ELSE /\ cleanTodo' = cleanTodo \ {f}
          /\ IF f \in expired THEN cleanPc' = "delete" /\ cleanFile' = f
                              ELSE UNCHANGED <<cleanPc, cleanFile>>
          /\ UNCHANGED <<cleanDirs, cleanDir>>
  /\ UNCHANGED <<up, pool, job, disk, wipe, removed, budget>>

\* It deletes the file it has found expired; that it cannot ends the walk.
CleanFile ==
  /\ up
  /\ cleanPc = "delete"
  /\ \/ /\ Exists(cleanFile)
        /\ Delete(cleanFile)
        /\ removed' = removed \cup {cleanFile}
        /\ cleanPc' = "dir" /\ cleanFile' = NoFile
        /\ UNCHANGED <<cleanDirs, cleanDir, cleanTodo, budget>>
     \/ /\ IF Exists(cleanFile) THEN DiskFails ELSE UNCHANGED budget
        /\ Idle /\ UNCHANGED <<content, expired, removed>>
  /\ UNCHANGED <<up, pool, job, dirs, wipe>>

\* The folder has been visited: is it empty?
LeaveFolder ==
  /\ up
  /\ cleanPc = "dir" /\ cleanTodo = {}
  /\ cleanPc' = IF Folder(cleanDir) = {} THEN "rmdir" ELSE "root"
  /\ UNCHANGED <<up, pool, job, disk, cleanDirs, cleanDir, cleanTodo, cleanFile, wipe, removed,
                 budget>>

\* An empty folder is deleted; that it cannot, as when it has a file by now, ends the
\* walk.
CleanFolder ==
  /\ up
  /\ cleanPc = "rmdir"
  /\ \/ /\ Folder(cleanDir) = {}
        /\ dirs' = dirs \ {cleanDir}
        /\ cleanPc' = "root"
        /\ UNCHANGED <<cleanDirs, cleanDir, cleanTodo, cleanFile, budget>>
     \/ /\ IF Folder(cleanDir) = {} THEN DiskFails ELSE UNCHANGED budget
        /\ Idle /\ UNCHANGED dirs
  /\ UNCHANGED <<up, pool, job, content, expired, wipe, removed>>

-----------------------------------------------------------------------------
(* Time and the process. *)

\* Four hours pass. A clean-up sets its limit when it starts: a file that expires before
\* it is visited might as well have expired before that. A file being loaded is written
\* to within an hour, or the read times out.
Expire(f) ==
  /\ Exists(f) /\ f \notin expired
  /\ f[2] = ".download" => job[f[1]] \notin {"loading", "rename"}
  /\ expired' = expired \cup {f}
  /\ UNCHANGED <<up, pool, job, dirs, content, cleaner, wipe, removed, budget>>

\* cleanUp: the pool takes no more jobs, but works off those it has.
Destroy ==
  /\ up /\ pool = "open"
  /\ Spend("stop")
  /\ pool' = "closed"
  /\ UNCHANGED <<up, job, disk, cleaner, wipe, removed>>

Halt ==
  /\ up' = FALSE
  /\ job' = [j \in Job |-> IF job[j] \in {"new", "refused", "done", "error"} THEN job[j]
                           ELSE "dead"]
  /\ Idle /\ wipe' = {}
  /\ UNCHANGED <<pool, disk, removed>>

Crash == up /\ Spend("stop") /\ Halt

\* The workers keep a destroyed service alive until they have no more jobs.
Exit ==
  /\ up /\ pool = "closed"
  /\ Running = {} /\ Waiting = {}
  /\ Halt
  /\ UNCHANGED budget

Restart ==
  /\ ~up
  /\ up' = TRUE /\ pool' = "open"
  /\ UNCHANGED <<job, disk, cleaner, wipe, removed, budget>>

-----------------------------------------------------------------------------
Execute(j) == CreateFolder(j) \/ CreateFile(j) \/ Submit(j)
Work(j)    == Start(j) \/ Open(j) \/ Loaded(j) \/ Fail(j) \/ Discard(j) \/ Report(j) \/ Rename(j)
Request    == (\E f \in File : DeleteFile(f) \/ WipeNext(f)) \/ \E c \in Client : DeleteFiles(c)
CleanUp    == StartCleanUp \/ VisitFolder \/ (\E f \in File : VisitFile(f)) \/ CleanFile
                \/ LeaveFolder \/ CleanFolder
Process    == (\E f \in File : Expire(f)) \/ Destroy \/ Crash \/ Exit \/ Restart

Next == (\E j \in Job : Execute(j) \/ Work(j)) \/ Request \/ CleanUp \/ Process

Spec == Init /\ [][Next]_vars

(* Requests and jobs go on, the timer fires while the service is not being destroyed,  *)
(* time passes, a destroyed service exits and one that has gone is started again.       *)
Fairness ==
  /\ \A j \in Job : WF_vars(CreateFile(j) \/ Submit(j)) /\ WF_vars(Work(j))
  /\ WF_vars(pool = "open" /\ CleanUp)
  /\ \A f \in File : WF_vars(Expire(f)) /\ WF_vars(WipeNext(f))
  /\ WF_vars(Exit) /\ WF_vars(Restart)

FairSpec == Spec /\ Fairness

-----------------------------------------------------------------------------
(* Properties. *)

(* The types; a file is in a folder; at most PoolSize jobs run (QueryService.java:122). *)
TypeOK ==
  /\ up \in BOOLEAN /\ pool \in {"open", "closed"}
  /\ job \in [Job -> {"new", "folder", "file", "refused", "queued", "connecting", "loading",
                      "failed", "report", "rename", "done", "error", "dead"}]
  /\ dirs \subseteq Client
  /\ content \in [File -> {"none", "empty", "part", "whole", "short", "error"}]
  /\ expired \subseteq {f \in File : Exists(f)}
  /\ \A c \in Client : Folder(c) # {} => c \in dirs
  /\ cleanPc \in {"idle", "root", "dir", "delete", "rmdir"}
  /\ cleanDirs \subseteq Client /\ cleanDir \in Client
  /\ cleanTodo \subseteq File
  /\ cleanFile \in File \cup {NoFile} /\ (cleanPc = "delete" => cleanFile \in File)
  /\ wipe \subseteq File /\ removed \subseteq File
  /\ Cardinality(Running) <= PoolSize
  /\ budget \in [EventKind -> Nat] /\ \A kind \in EventKind : budget[kind] <= Budget[kind]

(* A file without the .download suffix is an error file or what a copy that has ended   *)
(* left, never a file still being written, one whose job has not opened it yet or one   *)
(* whose copy threw an exception; that it has the whole answer is not promised. A query *)
(* has not both, and its .download file has gone, but next to an error file after a     *)
(* deletion that failed (QueryService.java:178-226, 414).                               *)
CompleteHasEnded ==
  \A j \in Job :
    /\ content[Result(j)] \in {"none", "whole", "short"}
    /\ Exists(Result(j)) => job[j] = "done" /\ ~Exists(Download(j)) /\ ~Exists(ErrorFile(j))
    /\ Exists(ErrorFile(j)) => job[j] = "error" /\ (Exists(Download(j)) => DiskFailed)

(* What a query loaded is there, unless a client or the clean-up has deleted it, before *)
(* it was renamed or after; only if a file operation has failed may it have kept its    *)
(* .download name (QueryService.java:220-226).                                          *)
LoadedIsKept ==
  \A j \in Job : job[j] = "done" =>
    \/ Exists(Result(j))
    \/ Exists(Download(j)) /\ DiskFailed
    \/ {Download(j), Result(j)} \cap removed # {}

\* Why both hold: what the .download file is while the job goes on.
OnTheWay ==
  \A j \in Job :
    /\ job[j] = "rename" => content[Download(j)] \in {"none", "whole", "short"}
    /\ job[j] \in {"loading", "rename"} => Exists(Download(j)) \/ Download(j) \in removed
    /\ job[j] \in {"report", "done", "error"} => ~Exists(Download(j)) \/ DiskFailed

(* The clean-up takes no file that was written to in the last four hours, with the one  *)
(* exception that a race allows: a .download file it has found expired, because its job *)
(* waited in the queue, it deletes although the job has written to it by then           *)
(* (QueryService.java:189-190, 477-479). All other young files that vanish do so by     *)
(* their own job or a client.                                                           *)
YoungFilesStay ==
  [][\A f \in File : Exists(f) /\ ~Exists(f)' /\ f \notin expired =>
       \/ job'[f[1]] # job[f[1]]
       \/ f \in wipe \ wipe' \/ budget'["delete"] < budget["delete"]
       \/ /\ cleanPc = "delete" /\ cleanFile = f /\ f[2] = ".download"
          /\ job[f[1]] \notin {"new", "folder", "file", "refused", "queued", "connecting"}]_vars

(* No .download file stays for ever, although it may outlive the process that should    *)
(* have renamed it (QueryService.java:458-489).                                         *)
NoLeftovers == \A j \in Job : Exists(Download(j)) ~> ~Exists(Download(j))

(* Every query that was accepted comes to an end, by itself or with the process, also   *)
(* when the service is destroyed while it waits (QueryService.java:122-133, 230).       *)
JobsEnd == \A j \in Job : job[j] = "queued" ~> job[j] \in {"done", "error", "dead"}
=============================================================================
