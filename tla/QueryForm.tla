------------------------------- MODULE QueryForm -------------------------------
(***************************************************************************)
(* The form that asks for a download: three boxes with facets, an advanced *)
(* filter, an interval, an area and options make up a query, which is sent *)
(* to the download service. The parameters are kept in the storage of the  *)
(* browser when a query is sent, and a page that is loaded begins with     *)
(* them. A facet is a pair of a category and a value; the text of a box is *)
(* the sequence of the facets it parses to.                                *)
(***************************************************************************)
EXTENDS Integers, Sequences

CONSTANTS
  Facets,    \* the facets the user may type in each box
  Text,      \* what the text area of the advanced filter may hold
  Blank,     \* the empty text
  Dates,     \* dates the user may pick
  Hours,     \* hours at which the page may be loaded or cleared
  TenMinutes,
  Coordinates, \* the areas the user may enter, a tuple of bounds
  Undefined, \* a bound that is not defined
  Outputs,   \* output formats but "raw", with "table"
  Tables,    \* settings of the table: fields, separator and header
  Amounts,   \* the options a user may enter, each a function of Option
  MaxFacets, \* bound of the facets in a box
  MaxActs    \* bound of what the user does

Box == {"source", "target", "message"}
Option == {"mmsi", "limit", "minDistance", "minDuration", "duplicateWindow"}

Categories(b) ==
  CASE b = "source"  -> {"type", "bs", "country", "region"}
    [] b = "target"  -> {"country", "imo", "callsign", "navstat", "name", "type"}
    [] b = "message" -> {"country", "mmsi", "imo", "callsign", "navstat", "name", "type"}

ASSUME FormAssumption ==
  /\ Dates \subseteq Int /\ Hours \subseteq Int /\ TenMinutes \in Nat
  /\ Blank \in Text
  /\ MaxActs \in Nat

VARIABLES
  params,      \* the parameters, as the model of the page has them
  facets,      \* searchQuery: the facets of each box
  loose,       \* what stands in each box's input field
  ready,       \* the boxes have been set up
  downloadUrl,
  downloadDisabled,
  stored,      \* the parameters in the browser's storage, if any of this version
  sent,        \* the query sent last, if any
  acts,        \* what the user may still do
  \* For the properties: what was sent when the parameters were last stored, whether a
  \* box's input held text then, and whether the page shows these parameters still.
  savedUrl, savedLoose, restored

storage == <<stored, savedUrl, savedLoose>>
boxes   == <<facets, loose, ready>>
vars    == <<params, boxes, downloadUrl, downloadDisabled, storage, sent, acts, restored>>

-----------------------------------------------------------------------------
(* The query a set of parameters stands for. *)

NoFacets == [b \in Box |-> <<>>]

\* Values by category. Of the types of a source the last one counts.
Lists(b, fs) ==
  [c \in Categories(b) |->
     LET found == SelectSeq(fs, LAMBDA f : f[1] = c /\ f[2] # "")
     IN IF b = "source" /\ c = "type" /\ found # <<>> THEN <<found[Len(found)]>> ELSE found]

Fresh(hour) ==
  [txt |-> NoFacets, lists |-> [b \in Box |-> Lists(b, <<>>)],
   simple |-> TRUE, advanced |-> FALSE, advancedFilter |-> Blank,
   startDate |-> hour, endDate |-> hour + TenMinutes,
   area |-> <<Undefined, Undefined, Undefined, Undefined>>,
   outputFormat |-> "raw", table |-> "default",
   amount |-> [o \in Option |-> 0]]

\* A bound of zero counts as none.
areaDefined(a) == \A i \in 1..4 : a[i] \notin {Undefined, 0}

\* Sources other than SAT and LIVE are not asked for.
Criteria(lists) ==
  {<<x[1], x[2], lists[x[1]][x[2]]>> : x \in
     {y \in Box \X Categories("source") \cup Box \X Categories("message") :
        /\ y[2] \in Categories(y[1]) /\ lists[y[1]][y[2]] # <<>>
        /\ y = <<"source", "type">> =>
             lists["source"]["type"][1][2] \in {"SAT", "LIVE"}}}

Url(p) ==
  [interval |-> <<p.startDate, p.endDate>>,
   criteria |-> IF p.simple THEN Criteria(p.lists) ELSE {},
   filter   |-> IF ~p.simple /\ p.advanced THEN p.advancedFilter ELSE Blank,
   box      |-> IF areaDefined(p.area) THEN p.area ELSE <<>>,
   output   |-> p.outputFormat,
   columns  |-> IF p.outputFormat = "table" THEN p.table ELSE "none",
   amount   |-> p.amount]

\* The text of a box has what its input holds, the lists only its facets.
updateFilter(b, p) ==
  [p EXCEPT !.txt[b] = facets[b] \o loose[b], !.lists[b] = Lists(b, facets[b])]

\* Seeded fault: the address is put together from the lists as they are.
RecomputedStale(p) == p

Recomputed(p) == updateFilter("source", updateFilter("target", updateFilter("message", p)))

-----------------------------------------------------------------------------
(* What the watchers make of parameters that an event has left: an end that is before   *)
(* the start follows the one that was changed.                                          *)

\* Seeded fault: the start follows the end only.
validateTimeIntervalEnd(p) ==
  IF p.startDate > p.endDate /\ p.endDate # params.endDate
    THEN [p EXCEPT !.startDate = p.endDate - TenMinutes] ELSE p

validateTimeInterval(p) ==
  IF p.startDate <= p.endDate THEN p
  ELSE IF p.startDate # params.startDate THEN [p EXCEPT !.endDate = p.startDate + TenMinutes]
  ELSE IF p.endDate # params.endDate THEN [p EXCEPT !.startDate = p.endDate - TenMinutes]
  ELSE p

Watched(p) == <<p.startDate, p.endDate, p.outputFormat>>

Digest(p) ==
  LET q == validateTimeInterval(p)
  IN  /\ params' = q
      /\ downloadUrl' = IF Watched(q) # Watched(params) THEN Url(q) ELSE downloadUrl

-----------------------------------------------------------------------------
\* The page is loaded: all watchers run once.
LoadWith(p) ==
  /\ params' = p /\ downloadUrl' = Url(p)
  /\ facets' = NoFacets /\ loose' = NoFacets /\ ready' = FALSE
  /\ downloadDisabled' = FALSE

Init ==
  /\ \E h \in Hours : params = Fresh(h)
  /\ downloadUrl = Url(params)
  /\ facets = NoFacets /\ loose = NoFacets /\ ready = FALSE
  /\ downloadDisabled = FALSE
  /\ stored = <<>> /\ sent = <<>> /\ acts = MaxActs
  /\ savedUrl = <<>> /\ savedLoose = FALSE /\ restored = FALSE

Act == acts > 0 /\ acts' = acts - 1

\* 100 ms later the boxes are set up from the texts.
FiltersReady ==
  /\ ~ready
  /\ ready' = TRUE
  /\ facets' = params.txt
  /\ UNCHANGED <<params, loose, downloadUrl, downloadDisabled, storage, sent, acts, restored>>

\* Text is typed or pasted in the input of a box.
TypeInBox(b, f) ==
  /\ ready /\ params.simple /\ Act
  /\ Len(facets[b]) < MaxFacets /\ loose[b] = <<>>
  /\ loose' = [loose EXCEPT ![b] = <<f>>]
  /\ restored' = FALSE
  /\ UNCHANGED <<params, facets, ready, downloadUrl, downloadDisabled, storage, sent>>

\* A facet is added or changed, and left without a search: the box is drawn again, and
\* what its input held is gone.
LeaveFacet(b, f) ==
  /\ ready /\ params.simple /\ Act
  /\ \/ Len(facets[b]) < MaxFacets /\ facets' = [facets EXCEPT ![b] = Append(@, f)]
     \/ \E i \in DOMAIN facets[b] : facets' = [facets EXCEPT ![b][i] = f]
  /\ loose' = [loose EXCEPT ![b] = <<>>]
  /\ restored' = FALSE
  /\ UNCHANGED <<params, ready, downloadUrl, downloadDisabled, storage, sent>>

\* A box with these facets calls for a search: its parameters and the address follow.
SearchFor(b, fs) ==
  /\ facets' = [facets EXCEPT ![b] = fs]
  /\ loose' = [loose EXCEPT ![b] = <<>>]
  /\ params' = [params EXCEPT !.txt[b] = fs, !.lists[b] = Lists(b, fs)]
  /\ downloadUrl' = Url(params')

\* Enter makes facets of what the input holds; a facet is removed; the box is emptied.
Search(b) ==
  /\ ready /\ params.simple /\ Act
  /\ \/ SearchFor(b, facets[b] \o loose[b])
     \/ facets[b] # <<>> /\ SearchFor(b, Tail(facets[b]) \o loose[b])
     \/ SearchFor(b, <<>>)
  /\ restored' = FALSE
  /\ UNCHANGED <<ready, downloadDisabled, storage, sent>>

\* The model of a field is changed.
Change(p) ==
  /\ Act
  /\ Digest(p)
  /\ restored' = FALSE
  /\ UNCHANGED <<boxes, downloadDisabled, storage, sent>>

useAdvancedFilter(on) == Change([params EXCEPT !.simple = ~on, !.advanced = on])

TypeFilter(v) == params.advanced /\ Change([params EXCEPT !.advancedFilter = v])

PickDate ==
  \E d \in Dates : \/ Change([params EXCEPT !.startDate = d])
                   \/ Change([params EXCEPT !.endDate = d])

SetField ==
  \/ \E a \in Coordinates : Change([params EXCEPT !.area = a])
  \/ \E o \in Outputs \cup {"raw"} : Change([params EXCEPT !.outputFormat = o])
  \/ \E t \in Tables : params.outputFormat = "table" /\ Change([params EXCEPT !.table = t])
  \/ \E x \in Amounts : Change([params EXCEPT !.amount = x])

-----------------------------------------------------------------------------
\* Seeded fault: the parameters are stored as they were before the boxes were read.
ExecuteFirst ==
  /\ ready /\ ~downloadDisabled /\ Act
  /\ params' = Recomputed(params)
  /\ downloadUrl' = Url(params')
  /\ sent' = <<downloadUrl'>>
  /\ downloadDisabled' = TRUE
  /\ stored' = <<params>> /\ savedUrl' = sent' /\ restored' = TRUE
  /\ savedLoose' = (\E b \in Box : loose[b] # <<>>)
  /\ UNCHANGED boxes

\* The query is sent. Storing the parameters may fail. Before the boxes are ready nothing
\* happens but an exception.
execute ==
  /\ ready /\ ~downloadDisabled /\ Act
  /\ params' = Recomputed(params)
  /\ downloadUrl' = Url(params')
  /\ sent' = <<downloadUrl'>>
  /\ downloadDisabled' = TRUE
  /\ \/ /\ stored' = <<params'>> /\ savedUrl' = sent' /\ restored' = TRUE
        /\ savedLoose' = (\E b \in Box : loose[b] # <<>>)
     \/ UNCHANGED <<storage, restored>>
  /\ UNCHANGED boxes

\* Two seconds later the buttons can be used again.
Enable ==
  /\ downloadDisabled
  /\ downloadDisabled' = FALSE
  /\ UNCHANGED <<params, boxes, downloadUrl, storage, sent, acts, restored>>

\* The query is opened in AisView or copied to the clipboard.
openInAisStore ==
  /\ ready /\ ~downloadDisabled /\ Act
  /\ params' = Recomputed(params)
  /\ downloadUrl' = Url(params')
  /\ sent' = <<downloadUrl'>>
  /\ UNCHANGED <<boxes, downloadDisabled, storage, restored>>

\* Parameters are replaced, then the boxes emptied; that fails if there are none yet.
clear ==
  /\ Act
  /\ \E h \in Hours : Digest(Fresh(h))
  /\ facets' = NoFacets /\ loose' = NoFacets
  /\ restored' = FALSE
  /\ UNCHANGED <<ready, downloadDisabled, storage, sent>>

\* The page is loaded again, with the parameters stored or with new ones.
Load ==
  /\ IF stored # <<>> THEN LoadWith(stored[1]) ELSE \E h \in Hours : LoadWith(Fresh(h))
  /\ restored' = (stored # <<>>)
  /\ UNCHANGED <<storage, sent, acts>>

\* The storage is emptied and the page loaded.
reset ==
  /\ Act
  /\ stored' = <<>> /\ savedUrl' = <<>> /\ savedLoose' = FALSE
  /\ \E h \in Hours : LoadWith(Fresh(h))
  /\ restored' = FALSE
  /\ UNCHANGED sent

-----------------------------------------------------------------------------
Typing ==
  \/ \E b \in Box : Search(b) \/ \E f \in Facets[b] : TypeInBox(b, f) \/ LeaveFacet(b, f)
  \/ PickDate \/ SetField \/ \E on \in BOOLEAN : useAdvancedFilter(on)

Sending == execute \/ openInAisStore

Next ==
  \/ Typing \/ (\E v \in Text : TypeFilter(v)) \/ Sending \/ Enable \/ FiltersReady
  \/ clear \/ Load \/ reset

Spec == Init /\ [][Next]_vars

-----------------------------------------------------------------------------
(* Properties. *)

(* After every event the interval is one: its start is not behind its end, whatever was *)
(* picked, cleared or restored, and in whatever order (app-ctrl.js:257-284).            *)
IntervalOrdered == params.startDate <= params.endDate

\* What the form shows, put together from the boxes themselves.
Shown == Url([params EXCEPT !.lists = [b \in Box |-> Lists(b, facets[b])]])

(* What is sent is what the form shows when it is sent, also if facets were left without *)
(* a search and options changed since the address was last put together                  *)
(* (app-ctrl.js:485-518, 534-547).                                                       *)
SentIsShown == [][sent' # sent => sent' = <<Shown>>]_vars

(* A page that is loaded after a query was sent asks that query again: in its address    *)
(* from the start, and in its boxes once they are set up, unless an input held text when *)
(* the query was sent, which has become a facet (app-service.js:43-50, app-ctrl.js:19,   *)
(* 113-115, 511).                                                                        *)
ReloadRestores ==
  restored =>
    /\ ~ready => downloadUrl = savedUrl[1]
    /\ ready /\ ~savedLoose => Shown = savedUrl[1]
=============================================================================
