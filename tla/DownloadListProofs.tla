-------------------------- MODULE DownloadListProofs --------------------------
(***************************************************************************)
(* Proofs about the list of results, for any tabs and files and however    *)
(* much the user does. Neither of the two invariants is inductive: a list  *)
(* that is shown was an answer before, and a request before that, so what  *)
(* is true of the lists shown must be true of the answers under way, the   *)
(* files of a query must tell how far it has come, and the requests must   *)
(* be made for a client that is no older than the tab.                     *)
(***************************************************************************)
EXTENDS DownloadList, TLAPS

Run == {"schedule", "open"}

Fields == {"tab", "what", "served", "client", "file", "list", "number"}

Entry == [file : Files, complete : BOOLEAN]

\* A request has the fields and values the page and the service give it.
Formed(r) ==
  /\ r = [n \in Fields |-> r[n]]
  /\ r.tab \in Tab /\ r.what \in Run \cup {"list", "delete", "delete-all"}
  /\ r.served \in BOOLEAN /\ r.client \in Nat /\ r.list \subseteq Entry
  /\ r.what \in Run \cup {"delete"} => r.file \in Files

Jobs  == {"unused", "queued", "loading", "failed", "over"}
Names == {"none", "download", "result", "error"}

TypeOK ==
  /\ clientId \in Nat /\ loadedAs \in [Tab -> Nat]
  /\ files \in [Tab -> SUBSET Entry] /\ badgeColor \in [Tab -> {"blue", "red"}]
  /\ job \in [Files -> Jobs] /\ repo \in [Files -> Names] /\ owner \in [Files -> Nat]
  /\ early \subseteq {"list", "answer", "interrupted"}
  /\ clicks \in Nat /\ errors \in Nat
  /\ \A r \in requests : Formed(r)

\* A tab has been loaded with the present id or one before, and asks with no older id.
AsksAsLoaded ==
  /\ \A t \in Tab : loadedAs[t] <= clientId
  /\ \A r \in requests : ~r.served => loadedAs[r.tab] <= r.client

\* A query that the service has not seen will make a file of its own.
FilesApart ==
  /\ \A r \in requests : r.what \in Run /\ ~r.served => job[r.file] = "unused"
  /\ \A r, s \in requests :
       r.what \in Run /\ s.what \in Run /\ ~r.served /\ ~s.served /\ r.file = s.file => r = s

\* The name of a file tells that its query has ended.
NamesAreTrue ==
  \A f \in Files : /\ repo[f] # "none" => job[f] # "unused"
                   /\ repo[f] \in {"result", "error"} => job[f] = "over"

\* What a tab may list: a file that was made for a client no older than the tab, as
\* complete only if its query has ended.
MayList(t, x) ==
  /\ job[x.file] # "unused"
  /\ x.complete => job[x.file] = "over"
  /\ loadedAs[t] <= owner[x.file]

ListsAreTrue ==
  /\ \A t \in Tab : \A x \in files[t] : MayList(t, x)
  /\ \A r \in requests : \A x \in r.list : MayList(r.tab, x)

IInv == TypeOK /\ AsksAsLoaded /\ FilesApart /\ NamesAreTrue /\ ListsAreTrue /\ OpenedHasEnded

-----------------------------------------------------------------------------
(* Requests. *)

\* A request that has just been made for the client c.
New(q, t, c) ==
  /\ Formed(q) /\ q.tab = t /\ ~q.served /\ q.client = c /\ q.list = {}

\* The same request when the service has dealt with it.
ServedAs(r, s) ==
  /\ Formed(s) /\ s.tab = r.tab /\ s.what = r.what /\ s.served /\ s.file = r.file

(* What the page asks for (app-service.js:93-170).                                       *)
LEMMA RequestIsNew ==
  ASSUME TypeOK, NEW t \in Tab, NEW what \in Run \cup {"list", "delete", "delete-all"},
         NEW f, what \in Run \cup {"delete"} => f \in Files
  PROVE  LET q == Request(t, what, f) IN New(q, t, clientId) /\ q.what = what /\ q.file = f
<1> DEFINE q == Request(t, what, f)
<1>1. /\ q.tab = t /\ q.what = what /\ q.served = FALSE /\ q.client = clientId /\ q.file = f
      /\ q.list = {}
  BY DEF Request
<1>2. q = [n \in Fields |-> q[n]]
  BY DEF Request, Fields
<1> HIDE DEF q
<1>3. Formed(q)
  BY <1>1, <1>2 DEF Formed, TypeOK
<1> QED BY <1>1, <1>3 DEF New, q

(* The list may be asked for with another id or number (app-service.js:164-170).         *)
LEMMA ListRequestIsNew ==
  ASSUME TypeOK, NEW t \in Tab
  PROVE  /\ New(ListRequest(t), t, clientId) /\ ListRequest(t).what = "list"
         /\ \A c \in Nat : LET q == [Request(t, "list", NoFile) EXCEPT !.client = c, !.number = 1]
                           IN  New(q, t, c) /\ q.what = "list"
<1> DEFINE r == Request(t, "list", NoFile)
<1>1. "list" \notin Run \cup {"delete"} /\ clientId \in Nat
  BY DEF Run, TypeOK
<1>2. New(r, t, clientId) /\ r.what = "list"
  BY <1>1, RequestIsNew
<1>3. r = [n \in Fields |-> r[n]]
  BY <1>2 DEF New, Formed
<1> HIDE DEF r
<1>4. ASSUME NEW n, NEW c \in Nat, NEW q,
             \/ q = [r EXCEPT !.number = n] /\ c = clientId
             \/ q = [r EXCEPT !.client = c, !.number = n]
      PROVE  New(q, t, c) /\ q.what = "list"
  <2>1. /\ q.tab = r.tab /\ q.what = r.what /\ q.served = r.served /\ q.client = c
        /\ q.file = r.file /\ q.list = r.list /\ q = [m \in Fields |-> q[m]]
    BY <1>2, <1>3, <1>4 DEF Fields, New
  <2> QED BY <1>2, <2>1 DEF New, Formed
<1>5. \E n : ListRequest(t) = [r EXCEPT !.number = n]
  BY DEF ListRequest, r
<1> QED BY <1>1, <1>4, <1>5 DEF r

(* Dealing with a request changes no more of it than its answer.                         *)
LEMMA AnswerFormed ==
  ASSUME NEW r, Formed(r), NEW L \in SUBSET Entry
  PROVE  /\ ServedAs(r, [Served(r) EXCEPT !.list = L])
         /\ [Served(r) EXCEPT !.list = L].list = L
         /\ ServedAs(r, Served(r)) /\ Served(r).list = r.list
<1>1. ASSUME NEW s, NEW M \in SUBSET Entry,
             \/ s = [Served(r) EXCEPT !.list = L] /\ M = L
             \/ s = Served(r) /\ M = r.list
      PROVE  ServedAs(r, s) /\ s.list = M
  <2>1. /\ s.tab = r.tab /\ s.what = r.what /\ s.served = TRUE /\ s.client = 0
        /\ s.file = r.file /\ s.list = M
    BY <1>1 DEF Formed, Fields, Served
  <2>2. s = [n \in Fields |-> s[n]]
    BY <1>1 DEF Formed, Served
  <2>3. /\ r.tab \in Tab /\ r.what \in Run \cup {"list", "delete", "delete-all"}
        /\ r.what \in Run \cup {"delete"} => r.file \in Files
    BY DEF Formed
  <2>4. Formed(s)
    <3>1. s.client \in Nat /\ s.list \subseteq Entry
      BY <2>1
    <3>2. s.served \in BOOLEAN
      BY <2>1, Zenon
    <3> HIDE DEF Run
    <3> QED BY <2>1, <2>3, <2>2, <3>1, <3>2, Zenon DEF Formed
  <2> QED BY <2>1, <2>4 DEF ServedAs
<1>2. r.list \in SUBSET Entry
  BY DEF Formed
<1> QED BY <1>1, <1>2

(* The service lists files of the client, as complete those whose query has ended        *)
(* (QueryService.java:396-421).                                                          *)
LEMMA ListingTrue ==
  ASSUME TypeOK, NamesAreTrue, NEW client
  PROVE  /\ Listing(client) \subseteq Entry
         /\ \A x \in Listing(client) :
              /\ job[x.file] # "unused" /\ owner[x.file] = client
              /\ x.complete => job[x.file] = "over"
<1> SUFFICES ASSUME NEW x \in Listing(client)
             PROVE  /\ x \in Entry /\ job[x.file] # "unused" /\ owner[x.file] = client
                    /\ x.complete => job[x.file] = "over"
  OBVIOUS
<1>1. PICK f \in Files : /\ x = [file |-> f, complete |-> repo[f] # "download"]
                        /\ repo[f] # "none" /\ owner[f] = client
  BY DEF Listing
<1>2. x.file = f /\ (x.complete <=> repo[f] # "download") /\ x \in Entry
  BY <1>1 DEF Entry
<1> QED BY <1>1, <1>2 DEF NamesAreTrue, TypeOK, Names

-----------------------------------------------------------------------------
(* What a step does to requests, lists and files. *)

pageState == <<clientId, files, loadedAs, service>>

\* A tab asks for something; a request it has finished with is gone.
Asks ==
  /\ UNCHANGED <<pageState, early>>
  /\ \E t \in Tab : \E q :
       /\ New(q, t, clientId) /\ requests' \subseteq requests \cup {q}
       /\ q.what \in Run => job[q.file] = "unused" /\ \A r \in requests : r.file # q.file

\* A request is finished with, or a file opened.
Opens ==
  /\ UNCHANGED pageState
  /\ requests' \subseteq requests
  /\ early' \subseteq early \cup {"interrupted"}

\* A list is shown.
Shows ==
  /\ UNCHANGED <<clientId, loadedAs, service, early>>
  /\ \E r \in requests :
       files' = [files EXCEPT ![r.tab] = r.list] /\ requests' \subseteq requests

\* A tab is loaded again with a new id.
Resets ==
  /\ UNCHANGED <<service, early>>
  /\ clientId' = clientId + 1
  /\ \E t \in Tab : \E q :
       /\ New(q, t, clientId + 1) /\ q.what = "list"
       /\ requests' = {r \in requests : r.tab # t} \cup {q}
       /\ loadedAs' = [loadedAs EXCEPT ![t] = clientId + 1]
       /\ files' = [files EXCEPT ![t] = {}]

\* The service deals with a request: it begins a query, or changes no file but to delete it.
Serves ==
  /\ UNCHANGED <<clientId, files, loadedAs, early>>
  /\ \E r \in requests : \E s :
       /\ ~r.served /\ ServedAs(r, s) /\ requests' = (requests \ {r}) \cup {s}
       /\ \/ UNCHANGED service /\ s.list = Listing(r.client) /\ r.what \notin Run
          \/ /\ r.what \in Run /\ s.list = r.list
             /\ job' = [job EXCEPT ![r.file] = "queued"]
             /\ repo' = [repo EXCEPT ![r.file] = "download"]
             /\ owner' = [owner EXCEPT ![r.file] = r.client]
          \/ /\ UNCHANGED <<job, owner>> /\ s.list = r.list /\ r.what \notin Run
             /\ repo' \in [Files -> Names] /\ \A f \in Files : repo'[f] \in {repo[f], "none"}

\* A query goes on; a file gets its final name with its end.
Works ==
  /\ UNCHANGED <<clientId, files, loadedAs, owner, requests, early>>
  /\ \E f \in Files : \E there \in {"loading", "failed", "over"} : \E what \in Names :
       /\ job[f] \notin {"unused", "over"}
       /\ job' = [job EXCEPT ![f] = there] /\ repo' = [repo EXCEPT ![f] = what]
       /\ what \in {"result", "error"} => there = "over"

(* The parts of the page and the service do no more than that (app-ctrl.js:493-614,      *)
(* app-service.js:93-170).                                                               *)
LEMMA KindsOfSteps ==
  ASSUME IInv, [Next]_vars
  PROVE  Asks \/ Opens \/ Shows \/ Resets \/ Serves \/ Works
<1> USE DEF IInv, service
<1>t. TypeOK /\ FilesApart /\ NamesAreTrue /\ ListsAreTrue /\ clientId \in Nat
  BY DEF TypeOK
<1>f. \A r \in requests : Formed(r) /\ r.tab \in Tab
  BY DEF TypeOK, Formed
<1>l. \A t \in Tab, f \in Files : [file |-> f, complete |-> TRUE] \in files[t] =>
        job[f] = "over"
  BY DEF ListsAreTrue, MayList
<1>1. ASSUME NEW t \in Tab, Refresh(t) PROVE Asks
  BY <1>1, <1>t, ListRequestIsNew DEF Refresh, listFiles, Asks, pageState, Run
<1>2. ASSUME NEW t \in Tab, NEW async \in BOOLEAN, execute(t, async) PROVE Asks
  <2> DEFINE what == IF async THEN "schedule" ELSE "open"
  <2>1. PICK f \in Files :
          /\ job[f] = "unused" /\ \A r \in requests : r.file # f
          /\ requests' = requests \cup {Request(t, what, f)}
    BY <1>2 DEF execute, Ask
  <2>2. what \in Run
    BY DEF Run
  <2> HIDE DEF what
  <2>3. New(Request(t, what, f), t, clientId) /\ Request(t, what, f).what = what
        /\ Request(t, what, f).file = f
    BY <1>t, <2>2, RequestIsNew
  <2>4. UNCHANGED <<pageState, early>>
    BY <1>2 DEF execute, pageState
  <2>5. "delete" \notin Run
    BY DEF Run
  <2> QED BY <2>1, <2>2, <2>3, <2>4, <2>5 DEF Asks
<1>3. ASSUME NEW t \in Tab, NEW f \in Files, openFile(t, f) PROVE Opens
  BY <1>3, <1>l DEF openFile, Open, Opens, pageState
<1>4. ASSUME NEW t \in Tab, NEW f \in Files, deleteFile(t, f) PROVE Asks
  <2>1. requests' = requests \cup {Request(t, "delete", f)}
    BY <1>4 DEF deleteFile, Ask
  <2>2. New(Request(t, "delete", f), t, clientId) /\ Request(t, "delete", f).what = "delete"
        /\ Request(t, "delete", f).file = f
    BY <1>t, RequestIsNew
  <2>3. UNCHANGED <<pageState, early>>
    BY <1>4 DEF deleteFile, pageState
  <2>4. "delete" \notin Run
    BY DEF Run
  <2> QED BY <2>1, <2>2, <2>3, <2>4 DEF Asks
<1>5. ASSUME NEW t \in Tab, deleteFiles(t) PROVE Asks
  <2>1. requests' = requests \cup {Request(t, "delete-all", NoFile)}
    BY <1>5 DEF deleteFiles, Ask
  <2>2. "delete-all" \notin Run \cup {"delete"}
    BY DEF Run
  <2>3. New(Request(t, "delete-all", NoFile), t, clientId)
        /\ Request(t, "delete-all", NoFile).what = "delete-all"
    BY <1>t, <2>2, RequestIsNew
  <2>4. UNCHANGED <<pageState, early>>
    BY <1>5 DEF deleteFiles, pageState
  <2> QED BY <2>1, <2>2, <2>3, <2>4 DEF Asks
<1>6. ASSUME NEW t \in Tab, reset(t) PROVE Resets
  <2> DEFINE q == [Request(t, "list", NoFile) EXCEPT !.client = clientId + 1, !.number = 1]
  <2>3. New(q, t, clientId + 1) /\ q.what = "list"
    <3>1. clientId + 1 \in Nat
      BY <1>t
    <3> QED BY <1>t, <3>1, ListRequestIsNew
  <2>4. /\ requests' = {r \in requests : r.tab # t} \cup {q}
        /\ clientId' = clientId + 1 /\ UNCHANGED <<service, early>>
        /\ loadedAs' = [loadedAs EXCEPT ![t] = clientId + 1]
        /\ files' = [files EXCEPT ![t] = {}]
    BY <1>6 DEF reset
  <2> HIDE DEF q
  <2> QED BY <2>3, <2>4 DEF Resets
<1>7. ASSUME NEW r \in requests, Serve(r) PROVE Serves
  <2> DEFINE s == Served(r)
             u == [Served(r) EXCEPT !.list = Listing(r.client)]
  <2>1. ServedAs(r, s) /\ s.list = r.list /\ ServedAs(r, u) /\ u.list = Listing(r.client)
    BY <1>t, <1>f, AnswerFormed, ListingTrue
  <2>2. UNCHANGED <<clientId, files, loadedAs, early>> /\ ~r.served
    BY <1>7 DEF Serve
  <2>3. CASE ServeList(r)
    <3>1. requests' = (requests \ {r}) \cup {u} /\ UNCHANGED service /\ r.what \notin Run
      BY <2>3 DEF ServeList, Replace, Run
    <3> HIDE DEF s, u
    <3> QED BY <2>1, <2>2, <3>1 DEF Serves
  <2>4. CASE ServeExecute(r)
    <3>1. /\ requests' = (requests \ {r}) \cup {s} /\ r.what \in Run
          /\ job' = [job EXCEPT ![r.file] = "queued"]
          /\ repo' = [repo EXCEPT ![r.file] = "download"]
          /\ owner' = [owner EXCEPT ![r.file] = r.client]
      BY <2>4 DEF ServeExecute, Replace, Run
    <3> HIDE DEF s, u
    <3> QED BY <2>1, <2>2, <3>1 DEF Serves
  <2>5. CASE ServeDelete(r) \/ ServeDeleteAll(r)
    <3>1. requests' = (requests \ {r}) \cup {s} /\ UNCHANGED <<job, owner>> /\ r.what \notin Run
      BY <2>5 DEF ServeDelete, ServeDeleteAll, Replace, Run
    <3>2. repo' \in [Files -> Names] /\ \A f \in Files : repo'[f] \in {repo[f], "none"}
      BY <1>t, <2>5 DEF ServeDelete, ServeDeleteAll, TypeOK, Names
    <3> HIDE DEF s, u
    <3> QED BY <2>1, <2>2, <3>1, <3>2 DEF Serves
  <2> QED BY <1>7, <2>3, <2>4, <2>5 DEF Serve
<1>8. ASSUME NEW r \in requests, Deleted(r), UNCHANGED <<clientId, loadedAs, service>>
      PROVE  Asks
  <2>1. r.tab \in Tab /\ requests' \subseteq requests \cup {ListRequest(r.tab)}
    BY <1>f, <1>8 DEF Deleted
  <2>2. New(ListRequest(r.tab), r.tab, clientId) /\ ListRequest(r.tab).what = "list"
    BY <1>t, <2>1, ListRequestIsNew
  <2>3. "list" \notin Run
    BY DEF Run
  <2> QED BY <1>8, <2>1, <2>2, <2>3 DEF Deleted, Asks, pageState
<1>9. ASSUME NEW r \in requests, Answer(r) PROVE Shows \/ Opens \/ Asks
  <2>1. CASE Listed(r)
    BY <1>9, <2>1 DEF Answer, Listed, Shows
  <2>2. CASE Executed(r)
    BY <1>9, <2>2 DEF Answer, Executed, Open, Opens, pageState
  <2>3. CASE Deleted(r)
    BY <1>8, <1>9, <2>3 DEF Answer
  <2> QED BY <1>9, <2>1, <2>2, <2>3 DEF Answer
<1>10. ASSUME NEW r \in requests, Fail(r) PROVE Opens \/ Asks
  <2>1. CASE Deleted(r)
    BY <1>8, <1>10, <2>1 DEF Fail
  <2>2. CASE ~Deleted(r)
    BY <1>10, <2>2 DEF Fail, Opens, pageState
  <2> QED BY <2>1, <2>2
<1>11. ASSUME NEW r \in requests, Interrupted(r) PROVE Opens
  BY <1>11 DEF Interrupted, Open, Opens, pageState
<1>12. ASSUME NEW f \in Files, Work(f) PROVE Works
  <2>1. UNCHANGED <<clientId, files, loadedAs, owner, requests, early>>
    BY <1>12 DEF Work
  <2>2. repo[f] \in Names /\ repo = [repo EXCEPT ![f] = repo[f]]
    BY <1>t DEF TypeOK
  <2>3. ASSUME NEW there \in {"loading", "failed", "over"}, NEW what \in Names,
               job[f] \notin {"unused", "over"},
               job' = [job EXCEPT ![f] = there], repo' = [repo EXCEPT ![f] = what],
               what \in {"result", "error"} => there = "over"
        PROVE  Works
    BY <2>1, <2>3 DEF Works
  <2>4. CASE Start(f)
    BY <2>3, <2>4 DEF Start, Goto, Becomes, Names
  <2>5. CASE Finish(f) \/ Report(f) \/ Die(f)
    <3>1. job[f] \notin {"unused", "over"} /\ job' = [job EXCEPT ![f] = "over"]
      BY <2>5 DEF Finish, Report, Die, Goto
    <3>2. \E what \in Names : repo' = [repo EXCEPT ![f] = what]
      BY <2>2, <2>5 DEF Finish, Report, Die, Becomes, Names
    <3> QED BY <2>3, <3>1, <3>2
  <2>6. CASE Break(f)
    BY <2>3, <2>6 DEF Break, Goto, Becomes, Names
  <2> QED BY <1>12, <2>4, <2>5, <2>6 DEF Work
<1>13. CASE UNCHANGED vars
  BY <1>13 DEF vars, Opens, pageState
<1> QED BY <1>1, <1>2, <1>3, <1>4, <1>5, <1>6, <1>7, <1>9, <1>10, <1>11, <1>12,
        <1>13
        DEF Next, User, Network

-----------------------------------------------------------------------------
(* The invariant. *)

LEMMA TypeStep == IInv /\ [Next]_vars => TypeOK'
<1> SUFFICES ASSUME IInv, [Next]_vars PROVE TypeOK'
  OBVIOUS
<1> USE DEF service
<1>0. TypeOK /\ \A r \in requests : Formed(r)
  BY DEF IInv, TypeOK
<1>1. clicks' \in Nat /\ errors' \in Nat
  <2>1. UNCHANGED clicks \/ Click
    BY DEF Next, User, Network, vars, Refresh, execute, openFile, deleteFile, deleteFiles, reset,
           Serve, Answer, Interrupted, Fail, Work, Start, Finish, Break, Report, Die, Err
  <2>2. UNCHANGED errors \/ (errors > 0 /\ errors' = errors - 1)
    BY DEF Next, User, Network, vars, Refresh, execute, openFile, deleteFile, deleteFiles, reset,
           Serve, Answer, Interrupted, Fail, Work, Start, Finish, Break, Report, Die, Err
  <2> QED BY <1>0, <2>1, <2>2 DEF TypeOK, Click
<1>2. badgeColor' \in [Tab -> {"blue", "red"}]
  <2>1. \/ UNCHANGED badgeColor
        \/ \E t \in Tab : badgeColor' = [badgeColor EXCEPT ![t] = "blue"]
        \/ \E r \in requests : Listed(r)
    BY DEF Next, User, Network, vars, Refresh, execute, openFile, deleteFile, deleteFiles, reset,
           Serve, Answer, Interrupted, Fail, Work, Executed, Deleted
  <2> QED BY <1>0, <2>1 DEF TypeOK, Listed
<1> HIDE DEF Formed
<1>3. CASE Asks
  BY <1>0, <1>1, <1>2, <1>3 DEF Asks, pageState, New, TypeOK
<1>4. CASE Opens
  BY <1>0, <1>1, <1>2, <1>4 DEF Opens, pageState, TypeOK
<1>5. CASE Shows
  <2>1. files' \in [Tab -> SUBSET Entry]
    BY <1>0, <1>5 DEF Shows, TypeOK, Formed
  <2> QED BY <1>0, <1>1, <1>2, <1>5, <2>1 DEF Shows, TypeOK
<1>6. CASE Resets
  BY <1>0, <1>1, <1>2, <1>6 DEF Resets, New, TypeOK
<1>7. CASE Serves
  <2>1. job' \in [Files -> Jobs] /\ repo' \in [Files -> Names]
    BY <1>0, <1>7 DEF Serves, TypeOK, Jobs, Names
  <2>2. owner' \in [Files -> Nat]
    BY <1>0, <1>7 DEF Serves, TypeOK, Formed
  <2>3. \A r \in requests' : Formed(r)
    BY <1>0, <1>7 DEF Serves, ServedAs
  <2> QED BY <1>0, <1>1, <1>2, <1>7, <2>1, <2>2, <2>3 DEF Serves, TypeOK
<1>8. CASE Works
  BY <1>0, <1>1, <1>2, <1>8 DEF Works, TypeOK, Jobs
<1> QED BY <1>3, <1>4, <1>5, <1>6, <1>7, <1>8, KindsOfSteps

(* The requests of a tab that is loaded again are given up (app-service.js:19-22).       *)
LEMMA AsksStep == IInv /\ [Next]_vars => AsksAsLoaded'
<1> SUFFICES ASSUME IInv, [Next]_vars PROVE AsksAsLoaded'
  OBVIOUS
<1>0. /\ TypeOK /\ AsksAsLoaded /\ clientId \in Nat /\ loadedAs \in [Tab -> Nat]
      /\ \A r \in requests : r.tab \in Tab /\ r.client \in Nat
  BY DEF IInv, TypeOK, Formed
<1>1. CASE Asks
  BY <1>0, <1>1 DEF Asks, pageState, New, AsksAsLoaded
<1>2. CASE Opens
  BY <1>0, <1>2 DEF Opens, pageState, AsksAsLoaded
<1>3. CASE Shows
  BY <1>0, <1>3 DEF Shows, AsksAsLoaded
<1>4. CASE Resets
  <2>1. PICK t, q :
          /\ t \in Tab
          /\ q.tab = t /\ q.client = clientId + 1
          /\ requests' = {r \in requests : r.tab # t} \cup {q}
          /\ loadedAs' = [loadedAs EXCEPT ![t] = clientId + 1]
    BY <1>4 DEF Resets, New
  <2>2. clientId' = clientId + 1
    BY <1>4 DEF Resets
  <2>3. \A u \in Tab : loadedAs'[u] <= clientId'
    BY <1>0, <2>1, <2>2 DEF AsksAsLoaded
  <2>4. \A r \in requests' : ~r.served => loadedAs'[r.tab] <= r.client
    BY <1>0, <2>1, <2>2 DEF AsksAsLoaded
  <2> QED BY <2>3, <2>4 DEF AsksAsLoaded
<1>5. CASE Serves
  BY <1>0, <1>5 DEF Serves, ServedAs, AsksAsLoaded
<1>6. CASE Works
  BY <1>0, <1>6 DEF Works, AsksAsLoaded
<1> QED BY <1>1, <1>2, <1>3, <1>4, <1>5, <1>6, KindsOfSteps

(* No two queries make the same file (app-service.js:128-150).                           *)
LEMMA ApartStep == IInv /\ [Next]_vars => FilesApart'
<1> SUFFICES ASSUME IInv, [Next]_vars PROVE FilesApart'
  OBVIOUS
<1>0. /\ FilesApart /\ job \in [Files -> Jobs]
      /\ \A r \in requests : r.what \in Run \cup {"delete"} => r.file \in Files
  BY DEF IInv, TypeOK, Formed
<1>1. CASE Asks
  <2>1. PICK t, q :
          /\ t \in Tab
          /\ requests' \subseteq requests \cup {q}
          /\ q.what \in Run => job[q.file] = "unused" /\ \A r \in requests : r.file # q.file
    BY <1>1 DEF Asks
  <2>2. job' = job
    BY <1>1 DEF Asks, pageState, service
  <2> QED BY <1>0, <2>1, <2>2 DEF FilesApart
<1>2. CASE Opens \/ Shows
  BY <1>0, <1>2 DEF Opens, Shows, pageState, service, FilesApart
<1>3. CASE Resets
  <2>1. "list" \notin Run
    BY DEF Run
  <2> QED BY <1>0, <1>3, <2>1 DEF Resets, service, FilesApart
<1>4. CASE Serves
  <2>1. PICK r, s :
          /\ r \in requests
          /\ ~r.served /\ s.served /\ s.what = r.what /\ s.file = r.file
          /\ requests' = (requests \ {r}) \cup {s}
          /\ \/ job' = job
             \/ r.what \in Run /\ job' = [job EXCEPT ![r.file] = "queued"]
    BY <1>4 DEF Serves, ServedAs, service
  <2>2. CASE job' = job
    BY <1>0, <2>1, <2>2 DEF FilesApart
  <2>3. CASE r.what \in Run /\ job' = [job EXCEPT ![r.file] = "queued"]
    <3>1. \A f \in Files : job'[f] = IF f = r.file THEN "queued" ELSE job[f]
      BY <1>0, <2>3
    <3> QED BY <1>0, <2>1, <2>3, <3>1 DEF FilesApart
  <2> QED BY <2>1, <2>2, <2>3
<1>5. CASE Works
  <2>1. requests' = requests /\ \A f \in Files : job[f] = "unused" => job'[f] = "unused"
    BY <1>0, <1>5 DEF Works
  <2> QED BY <1>0, <2>1 DEF FilesApart
<1> QED BY <1>1, <1>2, <1>3, <1>4, <1>5, KindsOfSteps

(* A file has its name only while its query has come so far                               *)
(* (QueryService.java:173-226, 248-264).                                                  *)
LEMMA NamesStep == IInv /\ [Next]_vars => NamesAreTrue'
<1> SUFFICES ASSUME IInv, [Next]_vars PROVE NamesAreTrue'
  OBVIOUS
<1>0. /\ NamesAreTrue /\ FilesApart /\ job \in [Files -> Jobs] /\ repo \in [Files -> Names]
      /\ \A r \in requests : r.what \in Run \cup {"delete"} => r.file \in Files
  BY DEF IInv, TypeOK, Formed
<1>1. CASE Asks \/ Opens \/ Shows \/ Resets
  BY <1>0, <1>1 DEF Asks, Opens, Shows, Resets, pageState, service, NamesAreTrue
<1>2. CASE Serves
  <2>1. PICK r, s :
          /\ r \in requests
          /\ \/ job' = job /\ repo' = repo
             \/ /\ r.what \in Run
                /\ job' = [job EXCEPT ![r.file] = "queued"]
                /\ repo' = [repo EXCEPT ![r.file] = "download"]
             \/ job' = job /\ \A f \in Files : repo'[f] \in {repo[f], "none"}
    BY <1>2 DEF Serves, service
  <2> QED BY <1>0, <2>1 DEF NamesAreTrue
<1>3. CASE Works
  <2>1. PICK f \in Files, there \in {"loading", "failed", "over"}, what \in Names :
          /\ job[f] \notin {"unused", "over"}
          /\ job' = [job EXCEPT ![f] = there] /\ repo' = [repo EXCEPT ![f] = what]
          /\ what \in {"result", "error"} => there = "over"
    BY <1>3 DEF Works
  <2> QED BY <1>0, <2>1 DEF NamesAreTrue
<1> QED BY <1>1, <1>2, <1>3, KindsOfSteps

(* Every list, shown or on its way, has files of the tab's clients only, and complete    *)
(* ones whose query has ended (app-ctrl.js:564-594).                                     *)
LEMMA ListsStep == IInv /\ [Next]_vars => ListsAreTrue'
<1> SUFFICES ASSUME IInv, [Next]_vars PROVE ListsAreTrue'
  OBVIOUS
<1>0. /\ TypeOK /\ FilesApart /\ NamesAreTrue /\ ListsAreTrue /\ AsksAsLoaded
      /\ job \in [Files -> Jobs] /\ owner \in [Files -> Nat]
      /\ files \in [Tab -> SUBSET Entry] /\ \A x \in Entry : x.file \in Files
      /\ \A r \in requests : /\ r.tab \in Tab /\ r.list \subseteq Entry /\ r.client \in Nat
                             /\ r.what \in Run \cup {"delete"} => r.file \in Files
  BY DEF IInv, TypeOK, Formed, Entry
<1>1. CASE Asks
  BY <1>0, <1>1 DEF Asks, pageState, service, New, ListsAreTrue, MayList
<1>2. CASE Opens
  BY <1>0, <1>2 DEF Opens, pageState, service, ListsAreTrue, MayList
<1>3. CASE Shows
  <2>1. PICK r \in requests : files' = [files EXCEPT ![r.tab] = r.list] /\ requests' \subseteq requests
    BY <1>3 DEF Shows
  <2>2. \A t, x : MayList(t, x)' <=> MayList(t, x)
    BY <1>3 DEF Shows, service, MayList
  <2> QED BY <1>0, <2>1, <2>2 DEF ListsAreTrue
<1>4. CASE Resets
  <2>1. PICK t, q :
          /\ t \in Tab
          /\ q.list = {} /\ requests' = {r \in requests : r.tab # t} \cup {q}
          /\ loadedAs' = [loadedAs EXCEPT ![t] = clientId + 1]
          /\ files' = [files EXCEPT ![t] = {}]
    BY <1>4 DEF Resets, New
  <2>2. \A u \in Tab : \A x : u # t => (MayList(u, x)' <=> MayList(u, x))
    BY <1>0, <1>4, <2>1 DEF Resets, service, MayList, TypeOK
  <2> QED BY <1>0, <2>1, <2>2 DEF ListsAreTrue
<1>5. CASE Serves
  <2>1. PICK r, s :
          /\ r \in requests
          /\ ~r.served /\ s.tab = r.tab /\ requests' = (requests \ {r}) \cup {s}
          /\ \/ UNCHANGED <<job, owner>> /\ s.list = Listing(r.client)
             \/ /\ r.what \in Run /\ s.list = r.list
                /\ job' = [job EXCEPT ![r.file] = "queued"]
                /\ owner' = [owner EXCEPT ![r.file] = r.client]
             \/ UNCHANGED <<job, owner>> /\ s.list = r.list
    BY <1>5 DEF Serves, ServedAs, service
  <2>2. UNCHANGED <<files, loadedAs>>
    BY <1>5 DEF Serves
  <2>3. SUFFICES ASSUME NEW t \in Tab, NEW x \in Entry,
                        MayList(t, x) \/ (t = r.tab /\ x \in s.list)
                 PROVE  MayList(t, x)'
    <3>1. s.list \subseteq Entry
      BY <1>0, <2>1, ListingTrue
    <3>2. ASSUME NEW t \in Tab, NEW x \in files'[t] PROVE x \in Entry /\ MayList(t, x)
      BY <1>0, <2>2, <3>2 DEF ListsAreTrue
    <3>3. ASSUME NEW q \in requests', NEW x \in q.list
          PROVE  x \in Entry /\ q.tab \in Tab /\ (MayList(q.tab, x) \/ (q.tab = r.tab /\ x \in s.list))
      BY <1>0, <2>1, <3>1, <3>3 DEF ListsAreTrue
    <3> QED BY <3>2, <3>3 DEF ListsAreTrue
  <2>4. CASE UNCHANGED <<job, owner>> /\ s.list = Listing(r.client)
    <3>1. x \in Listing(r.client) /\ t = r.tab => MayList(t, x)
      BY <1>0, <2>1, ListingTrue DEF MayList, AsksAsLoaded
    <3> QED BY <2>2, <2>3, <2>4, <3>1 DEF MayList
  <2>5. ASSUME s.list = r.list PROVE MayList(t, x) /\ x.file \in Files
    <3>1. r \in requests
      BY <2>1
    <3>2. \A y \in r.list : MayList(r.tab, y)
      BY <1>0, <3>1 DEF ListsAreTrue
    <3>3. x.file \in Files
      BY <2>3 DEF Entry
    <3> QED BY <2>3, <2>5, <3>2, <3>3
  <2>6. CASE /\ r.what \in Run /\ s.list = r.list
             /\ job' = [job EXCEPT ![r.file] = "queued"]
             /\ owner' = [owner EXCEPT ![r.file] = r.client]
    <3>1. job[r.file] = "unused"
      BY <1>0, <2>1, <2>6 DEF FilesApart
    <3>2. x.file # r.file
      BY <2>5, <2>6, <3>1 DEF MayList
    <3>3. job'[x.file] = job[x.file] /\ owner'[x.file] = owner[x.file]
      BY <1>0, <2>5, <2>6, <3>2
    <3> QED BY <2>2, <2>5, <2>6, <3>3 DEF MayList
  <2>7. CASE UNCHANGED <<job, owner>> /\ s.list = r.list
    BY <2>2, <2>5, <2>7 DEF MayList
  <2> QED BY <2>1, <2>4, <2>6, <2>7
<1>6. CASE Works
  <2>1. \A f \in Files : \/ job'[f] = job[f]
                         \/ job[f] \notin {"unused", "over"} /\ job'[f] # "unused"
    BY <1>0, <1>6 DEF Works
  <2>2. UNCHANGED <<files, loadedAs, owner, requests>>
    BY <1>6 DEF Works
  <2>3. \A t \in Tab, x \in Entry : MayList(t, x) => MayList(t, x)'
    BY <1>0, <2>1, <2>2 DEF MayList
  <2> QED BY <1>0, <2>2, <2>3 DEF ListsAreTrue
<1> QED BY <1>1, <1>2, <1>3, <1>4, <1>5, <1>6, KindsOfSteps

LEMMA OpenedStep == IInv /\ [Next]_vars => OpenedHasEnded'
BY KindsOfSteps DEF IInv, OpenedHasEnded, Asks, Opens, Shows, Resets, Serves, Works

LEMMA Initially == Init => IInv
<1> SUFFICES ASSUME Init PROVE IInv
  OBVIOUS
<1>1. \A t \in Tab : LET q == [Request(t, "list", NoFile) EXCEPT !.number = 1]
                     IN  New(q, t, 0) /\ q.what = "list"
  <2> SUFFICES ASSUME NEW t \in Tab
               PROVE  LET q == [Request(t, "list", NoFile) EXCEPT !.number = 1]
                      IN  New(q, t, 0) /\ q.what = "list"
    OBVIOUS
  <2> DEFINE q == [Request(t, "list", NoFile) EXCEPT !.number = 1]
  <2>1. /\ q.tab = t /\ q.what = "list" /\ q.served = FALSE /\ q.client = 0 /\ q.list = {}
    BY DEF Request, Init
  <2>2. q = [n \in Fields |-> q[n]]
    BY DEF Request, Fields
  <2> HIDE DEF q
  <2>3. "list" \notin Run \cup {"delete"}
    BY DEF Run
  <2>4. Formed(q)
    <3>1. q.client \in Nat /\ q.list \subseteq Entry
      BY <2>1
    <3>2. q.served \in BOOLEAN
      BY <2>1, Zenon
    <3> QED BY <2>1, <2>3, <2>2, <3>1, <3>2, Zenon DEF Formed
  <2> QED BY <2>1, <2>4 DEF New, q
<1>2. \A r \in requests : Formed(r) /\ ~r.served /\ r.client = 0 /\ r.list = {} /\ r.what = "list"
  <2> SUFFICES ASSUME NEW r \in requests
               PROVE  Formed(r) /\ ~r.served /\ r.client = 0 /\ r.list = {} /\ r.what = "list"
    OBVIOUS
  <2>1. PICK t \in Tab : r = [Request(t, "list", NoFile) EXCEPT !.number = 1]
    BY DEF Init
  <2>2. New(r, t, 0) /\ r.what = "list"
    BY <1>1, <2>1
  <2> QED BY <2>2 DEF New
<1>3. TypeOK
  BY <1>2, ListAssumption DEF Init, TypeOK, Jobs, Names
<1>4. AsksAsLoaded
  BY <1>2 DEF Init, AsksAsLoaded, Formed
<1>5. FilesApart
  BY <1>2 DEF Init, FilesApart, Run
<1>6. ListsAreTrue
  BY <1>2 DEF Init, ListsAreTrue
<1>7. NamesAreTrue
  BY DEF Init, NamesAreTrue
<1> QED BY <1>3, <1>4, <1>5, <1>6, <1>7 DEF IInv, OpenedHasEnded, Init

(* Requests, answers and lists agree with the service's files and the tabs' clients      *)
(* (app-ctrl.js:493-614, app-service.js:15-22, 93-170).                                  *)
THEOREM Invariance == Spec => []IInv
<1>1. IInv /\ [Next]_vars => IInv'
  BY TypeStep, AsksStep, ApartStep, NamesStep, ListsStep, OpenedStep DEF IInv
<1> QED BY Initially, <1>1, PTL DEF Spec

(* However late and in whatever order lists and queries are answered, a file is opened   *)
(* while its query goes on only if the service's wait for it was interrupted. Whether it  *)
(* has the whole answer then is not stated: the code does not promise it                  *)
(* (app-ctrl.js:501-509, 592-594; QueryService.java:265-282).                             *)
THEOREM OpenedEnded == Spec => []OpenedHasEnded
<1>1. IInv => OpenedHasEnded
  BY DEF IInv
<1> QED BY Invariance, <1>1, PTL

(* A tab that was reset never shows a file again that it had before, whatever answers    *)
(* were under way (app-service.js:19-22, 166-170).                                       *)
THEOREM ResetIsFinal == Spec => []ResetForgets
<1>1. IInv => ResetForgets
  <2> SUFFICES ASSUME IInv, NEW t \in Tab, NEW x \in files[t] PROVE owner[x.file] >= loadedAs[t]
    BY DEF ResetForgets
  <2>1. loadedAs[t] <= owner[x.file] /\ loadedAs[t] \in Nat /\ owner[x.file] \in Nat
    BY DEF IInv, ListsAreTrue, MayList, TypeOK, Entry
  <2> QED BY <2>1
<1> QED BY Invariance, <1>1, PTL
=============================================================================
