------------------------------ MODULE DownloadList ------------------------------
(***************************************************************************)
(* The list of results in every tab of one browser: it is fetched again    *)
(* every five seconds and after each deletion, while requests that run a   *)
(* query, delete files or list them are under way at the same time and are *)
(* answered in any order. The tabs share the storage with the client's id. *)
(*                                                                         *)
(* Of the download service this has what the tabs see: a query makes a     *)
(* .download file, which becomes a result or gives way to an error file,   *)
(* while requests delete and list what there is. Crashes, the pool, the    *)
(* clean-up and deletions that fail are QueryService's.                    *)
(***************************************************************************)
EXTENDS Naturals, FiniteSets

CONSTANTS
  Tab,
  Files,    \* the files queries may make, without their suffixes
  MaxClicks, \* bound of what the user does
  MaxErrors, \* bound of what fails
  MaxLists  \* bound of the list requests a tab has under way

ASSUME ListAssumption ==
  MaxClicks \in Nat /\ MaxErrors \in Nat /\ MaxLists \in Nat \ {0} /\ IsFiniteSet(Files)

VARIABLES
  clientId,  \* the id in the storage; every reset makes a new one
  files,     \* what each tab lists: files, with whether they are complete
  badgeColor,
  requests,  \* requests under way
  loadedAs,  \* for the properties: the id when each tab was loaded
  job,       \* in the service: a file's query is unused, queued, loading, failed or over
  repo,      \* and there is none of its files, a .download, a result or an error file
  owner,     \* and the client it was made for
  early,     \* for the properties: why a file was opened while its query went on
  clicks, errors

service == <<job, repo, owner>>
vars    == <<clientId, files, badgeColor, requests, loadedAs, service, early, clicks, errors>>

\* A request: the tab, what it asks for, whether the service has dealt with it, the
\* client and the file it is about, and the answer to a list. A number tells list requests
\* of one tab apart.
Request(t, what, f) ==
  [tab |-> t, what |-> what, served |-> FALSE, client |-> clientId, file |-> f, list |-> {},
   number |-> 0]

NoFile == "none"

\* What the service lists: a file is complete if it has no .download suffix.
Listing(client) ==
  {[file |-> f, complete |-> repo[f] # "download"] :
     f \in {g \in Files : repo[g] # "none" /\ owner[g] = client}}

\* A file is opened, and noted if its query goes on.
Open(f, why) == early' = IF job[f] = "over" THEN early ELSE early \cup {why}

Err == errors > 0 /\ errors' = errors - 1

Lists(t) == {r \in requests : r.tab = t /\ r.what = "list"}

ListRequest(t) ==
  [Request(t, "list", NoFile) EXCEPT !.number =
     CHOOSE n \in 1..(MaxLists + MaxClicks) :
       /\ \A r \in Lists(t) : r.number # n
       /\ \A m \in 1..(n - 1) : \E r \in Lists(t) : r.number = m]

-----------------------------------------------------------------------------
(* In the page. *)

Click == clicks > 0 /\ clicks' = clicks - 1

Ask(r) == r \notin requests /\ requests' = requests \cup {r}

\* Seeded fault: the first list is the last.
listFilesOnce(t) ==
  /\ Lists(t) = {} /\ files[t] = {}
  /\ requests' = requests \cup {ListRequest(t)}

\* The list is fetched again; the list requests under way are not given up.
listFiles(t) ==
  /\ Cardinality(Lists(t)) < MaxLists
  /\ requests' = requests \cup {ListRequest(t)}

Init ==
  /\ clientId = 0
  /\ files = [t \in Tab |-> {}] /\ badgeColor = [t \in Tab |-> "blue"]
  /\ requests = {[Request(t, "list", NoFile) EXCEPT !.number = 1] : t \in Tab}
  /\ loadedAs = [t \in Tab |-> 0]
  /\ job = [f \in Files |-> "unused"] /\ repo = [f \in Files |-> "none"]
  /\ owner = [f \in Files |-> 0]
  /\ early = {} /\ clicks = MaxClicks /\ errors = MaxErrors

\* Five seconds have passed.
Refresh(t) ==
  /\ listFiles(t)
  /\ UNCHANGED <<clientId, files, badgeColor, loadedAs, service, early, clicks, errors>>

\* The query form asks for a download, to be opened when it is complete unless it is
\* asynchronous.
execute(t, async) ==
  /\ Click
  /\ \E f \in Files :
       /\ job[f] = "unused" /\ \A r \in requests : r.file # f
       /\ Ask(Request(t, IF async THEN "schedule" ELSE "open", f))
  /\ UNCHANGED <<clientId, files, badgeColor, loadedAs, service, early, errors>>

\* Complete files have links that open and delete them.
openFile(t, f) ==
  /\ Click
  /\ [file |-> f, complete |-> TRUE] \in files[t]
  /\ Open(f, "list")
  /\ UNCHANGED <<clientId, files, badgeColor, requests, loadedAs, service, errors>>

deleteFile(t, f) ==
  /\ Click
  /\ [file |-> f, complete |-> TRUE] \in files[t]
  /\ Ask(Request(t, "delete", f))
  /\ UNCHANGED <<clientId, files, badgeColor, loadedAs, service, early, errors>>

deleteFiles(t) ==
  /\ Click
  /\ Ask(Request(t, "delete-all", NoFile))
  /\ UNCHANGED <<clientId, files, badgeColor, loadedAs, service, early, errors>>

\* Seeded fault: the storage is emptied, but the tab is not loaded again.
resetStorage(t) ==
  /\ Click
  /\ clientId' = clientId + 1
  /\ loadedAs' = [loadedAs EXCEPT ![t] = clientId + 1]
  /\ UNCHANGED <<files, badgeColor, requests, service, early, errors>>

\* The storage is emptied and the tab loaded again. Its requests are given up; those the
\* service has not seen may not reach it. The other tabs use the new id from now on.
reset(t) ==
  /\ Click
  /\ clientId' = clientId + 1
  /\ files' = [files EXCEPT ![t] = {}] /\ badgeColor' = [badgeColor EXCEPT ![t] = "blue"]
  /\ requests' = {r \in requests : r.tab # t}
                   \cup {[Request(t, "list", NoFile) EXCEPT !.client = clientId + 1, !.number = 1]}
  /\ loadedAs' = [loadedAs EXCEPT ![t] = clientId + 1]
  /\ UNCHANGED <<service, early, errors>>

-----------------------------------------------------------------------------
(* Requests in the download service. One it has dealt with needs the client no more. *)

Replace(r, s) == requests' = (requests \ {r}) \cup {s}

Served(r) == [r EXCEPT !.served = TRUE, !.client = 0]

ServeList(r) ==
  /\ r.what = "list"
  /\ Replace(r, [Served(r) EXCEPT !.list = Listing(r.client)])
  /\ UNCHANGED service

\* A .download file is created and the job submitted; whether the answer waits for the job
\* is up to the request.
ServeExecute(r) ==
  /\ r.what \in {"schedule", "open"}
  /\ job' = [job EXCEPT ![r.file] = "queued"]
  /\ repo' = [repo EXCEPT ![r.file] = "download"]
  /\ owner' = [owner EXCEPT ![r.file] = r.client]
  /\ Replace(r, Served(r))

\* A complete file is deleted by its name; it may have gone already.
ServeDelete(r) ==
  /\ r.what = "delete"
  /\ repo' = [repo EXCEPT ![r.file] = IF @ = "download" THEN @ ELSE "none"]
  /\ Replace(r, Served(r))
  /\ UNCHANGED <<job, owner>>

\* All the client has, whether it is complete or not, is deleted, or a part of it: the
\* walk gives up at a file that has been renamed or deleted meanwhile.
ServeDeleteAll(r) ==
  /\ r.what = "delete-all"
  /\ \E gone \in SUBSET {f \in Files : owner[f] = r.client} :
       repo' = [f \in Files |-> IF f \in gone THEN "none" ELSE repo[f]]
  /\ Replace(r, Served(r))
  /\ UNCHANGED <<job, owner>>

Serve(r) ==
  /\ r \in requests /\ ~r.served
  /\ ServeList(r) \/ ServeExecute(r) \/ ServeDelete(r) \/ ServeDeleteAll(r)
  /\ UNCHANGED <<clientId, files, badgeColor, loadedAs, early, clicks, errors>>

-----------------------------------------------------------------------------
(* The job of a query, which knows nothing of requests. *)

Goto(f, here, there) == job[f] \in here /\ job' = [job EXCEPT ![f] = there]

Becomes(f, what) == repo' = [repo EXCEPT ![f] = what]

\* The job begins and opens its file, anew if that was deleted while the job was queued.
Start(f) ==
  /\ Goto(f, {"queued"}, "loading")
  /\ Becomes(f, "download")
  /\ UNCHANGED errors

\* The copy has ended, with all of the answer or, without an exception, a part of it. The
\* file gets its name, unless it has been deleted or cannot be renamed.
Finish(f) ==
  /\ Goto(f, {"loading"}, "over")
  /\ \/ Becomes(f, IF repo[f] = "download" THEN "result" ELSE repo[f]) /\ UNCHANGED errors
     \/ Err /\ UNCHANGED repo

\* An exception: the file is deleted.
Break(f) ==
  /\ Goto(f, {"queued", "loading"}, "failed")
  /\ Becomes(f, "none")
  /\ UNCHANGED errors

\* The error file is written, if it can be, also if all files were deleted meanwhile.
Report(f) ==
  /\ Goto(f, {"failed"}, "over")
  /\ \/ Becomes(f, "error") /\ UNCHANGED errors
     \/ Err /\ UNCHANGED repo

\* An error that is no exception ends the job where it is.
Die(f) ==
  /\ Goto(f, {"queued", "loading"}, "over")
  /\ Err /\ UNCHANGED repo

Work(f) ==
  /\ Start(f) \/ Finish(f) \/ Break(f) \/ Report(f) \/ Die(f)
  /\ UNCHANGED <<clientId, files, badgeColor, requests, loadedAs, owner, early, clicks>>

-----------------------------------------------------------------------------
(* The answers, which come in any order. *)

\* The list replaces the one that is shown, also if it is older.
Listed(r) ==
  /\ r.what = "list"
  /\ files' = [files EXCEPT ![r.tab] = r.list]
  /\ badgeColor' = [badgeColor EXCEPT ![r.tab] =
                      IF \E x \in r.list : ~x.complete THEN "red" ELSE "blue"]
  /\ requests' = requests \ {r}
  /\ UNCHANGED early

\* Seeded fault: what is scheduled is opened too.
ExecutedOpen(r) ==
  /\ r.what \in {"schedule", "open"}
  /\ r.what = "open" => job[r.file] = "over"
  /\ Open(r.file, "answer")
  /\ requests' = requests \ {r}
  /\ UNCHANGED <<files, badgeColor>>

\* A query that was scheduled is answered at once, any other when it has ended, and its
\* result is opened then.
Executed(r) ==
  /\ r.what \in {"schedule", "open"}
  /\ r.what = "open" => job[r.file] = "over"
  /\ IF r.what = "open" THEN Open(r.file, "answer") ELSE UNCHANGED early
  /\ requests' = requests \ {r}
  /\ UNCHANGED <<files, badgeColor>>

\* The service's wait for the job is interrupted: the answer has the name of the .download
\* file, which is opened at once.
Interrupted(r) ==
  /\ r \in requests /\ r.served /\ r.what = "open"
  /\ Err
  /\ Open(r.file, "interrupted")
  /\ requests' = requests \ {r}
  /\ UNCHANGED <<clientId, files, badgeColor, loadedAs, service, clicks>>

\* After a deletion, and also after one that failed, the list is fetched.
Deleted(r) ==
  /\ r.what \in {"delete", "delete-all"}
  /\ requests' = (requests \ {r}) \cup {ListRequest(r.tab)}
  /\ UNCHANGED <<files, badgeColor, early>>

Answer(r) ==
  /\ r \in requests /\ r.served
  /\ Listed(r) \/ Executed(r) \/ Deleted(r)
  /\ UNCHANGED <<clientId, loadedAs, service, clicks, errors>>

\* A request fails before the service has seen it or after; only deletions react.
Fail(r) ==
  /\ r \in requests
  /\ Err
  /\ \/ Deleted(r)
     \/ /\ r.what \notin {"delete", "delete-all"}
        /\ requests' = requests \ {r}
        /\ UNCHANGED <<files, badgeColor, early>>
  /\ UNCHANGED <<clientId, loadedAs, service, clicks>>

-----------------------------------------------------------------------------
User(t) ==
  \/ \E async \in BOOLEAN : execute(t, async)
  \/ \E f \in Files : openFile(t, f) \/ deleteFile(t, f)
  \/ deleteFiles(t) \/ reset(t)

Network == \E r \in requests : Serve(r) \/ Answer(r) \/ Interrupted(r) \/ Fail(r)

Next ==
  \/ \E t \in Tab : Refresh(t) \/ User(t)
  \/ Network
  \/ \E f \in Files : Work(f)

Spec == Init /\ [][Next]_vars

(* The timer of each tab goes on, the service deals with requests and queries, and the  *)
(* browser reports what came of each request.                                           *)
Fairness ==
  /\ \A t \in Tab :
       /\ WF_vars(Refresh(t))
       /\ WF_vars(\E r \in requests : r.tab = t /\ (Serve(r) \/ Answer(r)))
  /\ \A f \in Files : WF_vars(Work(f))

FairSpec == Spec /\ Fairness

-----------------------------------------------------------------------------
(* Properties. *)

(* However late and in whatever order lists, deletions and queries of all tabs are       *)
(* answered, and also if some fail or the id is reset, every tab shows in the end what    *)
(* the service has for the present client, and by its badge whether something has kept    *)
(* its .download name (app-ctrl.js:564-614).                                              *)
ListConverges ==
  \A t \in Tab : <>[](/\ files[t] = Listing(clientId)
                    /\ badgeColor[t] = IF \E x \in Listing(clientId) : ~x.complete
                                       THEN "red" ELSE "blue")

(* No file is opened while its query goes on, as the list shows it only afterwards as a  *)
(* link and a query only opens its result if it has waited for it, unless that wait was   *)
(* interrupted (app-ctrl.js:501-509, 592-594; QueryService.java:265-273). That the file   *)
(* has the whole answer is not promised: a copy may end early.                            *)
OpenedHasEnded == early \subseteq {"interrupted"}

(* A tab that was reset shows none of the files it had before, whatever answers were     *)
(* under way (app-service.js:19-22, 166-170).                                            *)
ResetForgets ==
  \A t \in Tab : \A x \in files[t] : owner[x.file] >= loadedAs[t]
=============================================================================
